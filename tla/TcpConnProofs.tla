--------------------------- MODULE TcpConnProofs ---------------------------
(***************************************************************************)
(* The two ends of a TCP connection agree on its text, for any number of   *)
(* calls, any text, any windows, and a network that delays, reorders,      *)
(* repeats and loses segments at will.                                     *)
(*                                                                         *)
(* StreamAgrees and the other properties speak of the two pcbs and of the  *)
(* wire at once, and none is inductive.  ConnOK is, and its heart is this: *)
(* the Client, who waits for answers, has at most one segment that is not  *)
(* acknowledged, it begins at snd.una and ends at snd.nxt, and the         *)
(* Server's rcv.nxt is one of the two.  So what arrives is either below    *)
(* rcv.nxt, and refused, or that one segment; and an acknowledgement that  *)
(* arrives is either below snd.una, and ignored, or of all that was sent.  *)
(* That the segment fits the Server's window follows from what the Server  *)
(* last advertised with its rcv.nxt: the window has only grown since.      *)
(*                                                                         *)
(* The code compares sequence numbers as plain uint32, so this is only so  *)
(* as long as they do not wrap (NoWrap), and it needs a Server that reads  *)
(* all there is at once (ReadsAll): the run MCTcpConnPartialRead shows the *)
(* text that is lost without it.                                           *)
(***************************************************************************)
EXTENDS TcpConn, TcpServiceProofs, SequenceTheorems

ReadsAll == RecvSize = {BufferSize}

\* The next text and the window after it lie below 2^32.
Roomy(p) == /\ p.iss + BufferSize + 1 < SeqMod
            /\ p.nxt + BufferSize + 1 < SeqMod

NoWrap == Roomy(pcb[Client]) /\ Roomy(pcb[Server])
-----------------------------------------------------------------------------
(***************************************************************************)
(* The inductive invariant, for c the Client's pcb, s the Server's and w   *)
(* the wire.                                                               *)
(***************************************************************************)

\* The Server has taken the Client's SYN.
Heard(s) == s.foreign = Client

\* The sequence numbers a segment or an entry of the queue takes.
SeqLen(x) == Len(x.data) + (IF x.flag \cap {"SYN", "FIN"} # {} THEN 1 ELSE 0)

Joined == {"ESTABLISHED", "FIN-WAIT-1", "FIN-WAIT-2"}

\* The states of a Server that has heard no FIN.
Unfinished == {"SYN-RECEIVED", "ESTABLISHED", "FIN-WAIT-1", "FIN-WAIT-2"}

\* The states of a Server that has heard the FIN and is not CLOSED again.
Finished == {"CLOSE-WAIT", "CLOSING", "LAST-ACK", "TIME-WAIT"}

\* The Client's queue holds a SYN, a text or a FIN, for a call that waits.
ClientEntry(c, e) ==
    /\ \/ e.flag = {"SYN"} /\ e.data = <<>> /\ c.state = "SYN-SENT"
       \/ e.flag = {"ACK"} /\ e.data # <<>> /\ c.state = "ESTABLISHED"
       \/ e.flag = {"ACK", "FIN"} /\ e.data = <<>> /\ c.state = "FIN-WAIT-1"
    /\ e.seq = c.una /\ c.nxt = c.una + SeqLen(e)
    /\ e.call \in Call /\ c.call[e.call] # "idle" /\ c.errCh[e.call] = <<>>
    /\ c.call[e.call] = "close" => "FIN" \in e.flag

ClientOK(c) ==
    /\ c.state \in Joined \cup {"CLOSED", "SYN-SENT"}
    /\ c.rcvWnd = 0 /\ c.rcvCmd = NoRcv
    /\ \/ c.foreign = AnyEndpoint /\ c.state = "CLOSED"
       \/ c.foreign = Server /\ \E x \in Call : c.call[x] = "open"
    /\ c.foreign = Server => c.iss < c.nxt /\ c.iss <= c.una /\ c.una <= c.nxt
    /\ c.foreign = Server /\ c.una = c.iss => c.nxt = c.iss + 1
    /\ c.state = "SYN-SENT" => c.una = c.iss
    /\ c.state \in Joined => c.iss < c.una
    /\ \A e \in c.retxQueue : ClientEntry(c, e)
    /\ \A e, f \in c.retxQueue : e = f
    /\ c.state # "CLOSED" /\ c.retxQueue = {} => c.una = c.nxt
    /\ \A x \in Call : c.call[x] = "idle" => c.errCh[x] = <<>>

\* The Server's queue holds its SYN, until that is acknowledged, and its FIN.
ServerEntry(s, e) ==
    /\ e.data = <<>>
    /\ \/ e.flag = {"SYN", "ACK"} /\ e.seq = s.iss /\ s.una = s.iss
       \/ e.flag = {"ACK", "FIN"}

ServerOK(s) ==
    /\ s.foreign \in {AnyEndpoint, Client} /\ s.state # "SYN-SENT"
    /\ ~Heard(s) => /\ s.state \in {"CLOSED", "LISTEN"}
                    /\ s.rxLen = 0 /\ s.read = <<>> /\ s.wnd = 0
                    /\ s.retxQueue = {} /\ s.rcvCmd = NoRcv
    /\ Heard(s) => /\ s.state # "LISTEN"
                   /\ s.rcvWnd + s.rxLen = BufferSize
                   /\ s.iss <= s.una /\ s.una <= s.iss + 1 /\ s.iss < s.nxt
                   /\ s.state \notin {"CLOSED", "SYN-RECEIVED"} => s.una = s.iss + 1
    /\ Heard(s) \/ s.state # "CLOSED" => \E x \in Call : s.call[x] = "open"
    /\ s.una = s.iss => s.wnd = 0
    /\ s.rcvCmd.call # NoCall => s.rcvCmd.size = BufferSize
    /\ \A e \in s.retxQueue : ServerEntry(s, e)

\* How far the two ends are.
EndsOK(c, s) ==
    /\ Heard(s) =>
        /\ c.foreign = Server
        /\ c.iss < s.rcvNxt /\ c.una <= s.rcvNxt
        /\ s.rcvNxt = c.una \/ s.rcvNxt = c.nxt
        /\ s.rcvNxt - (c.iss + 1) - (Len(s.read) + s.rxLen) \in FinHeard(s)
    /\ ~Heard(s) => c.state \in {"CLOSED", "SYN-SENT"} /\ c.una = c.iss
    /\ c.state \in Joined =>
        c.rcvNxt = s.iss + 1 /\ c.wl1 <= c.rcvNxt /\ c.wl2 <= c.una
    /\ c.state = "ESTABLISHED" /\ c.una = c.nxt => c.wnd <= s.rcvWnd
    /\ c.state \in {"FIN-WAIT-1", "FIN-WAIT-2"} /\ s.state \in Unfinished =>
        s.rcvNxt = c.una /\ c.una < c.nxt
    /\ s.state \in Finished =>
        c.state \in {"FIN-WAIT-1", "FIN-WAIT-2", "CLOSED"} /\ s.rcvNxt = c.nxt
    /\ \A x \in Call : c.call[x] = "close" /\ c.errCh[x] = <<"ok">> =>
        /\ c.state \in {"FIN-WAIT-1", "FIN-WAIT-2", "CLOSED"}
        /\ Heard(s) /\ s.rcvNxt = c.nxt
        /\ s.state \notin Unfinished

\* What the Client has sent: a reset, its SYN, or something for the
\* connection, acknowledged altogether or reaching from snd.una to snd.nxt.
FromClient(c, s, m) ==
    /\ m.dst = Server /\ c.foreign = Server
    /\ \/ "RST" \in m.flag /\ m.data = <<>>
       \/ m.flag = {"SYN"} /\ m.data = <<>> /\ m.seq = c.iss
       \/ /\ m.flag \in {{"ACK"}, {"ACK", "FIN"}}
          /\ Heard(s) /\ m.ack = s.iss + 1
          /\ c.iss < c.una /\ c.iss < m.seq /\ m.seq + SeqLen(m) <= c.nxt
          /\ "FIN" \in m.flag =>
                /\ m.data = <<>> /\ m.seq + 1 = c.nxt
                /\ c.state \in {"FIN-WAIT-1", "FIN-WAIT-2", "CLOSED"}
          /\ SeqLen(m) > 0 => \/ m.seq + SeqLen(m) <= c.una
                              \/ m.seq = c.una /\ m.seq + SeqLen(m) = c.nxt
          /\ m.data # <<>> /\ c.state \in {"FIN-WAIT-1", "FIN-WAIT-2"} =>
                m.seq + SeqLen(m) <= c.una

\* What the Server has sent: a reset, or an acknowledgement of nothing new or
\* of everything, and never of what it has not taken.
FromServer(c, s, m) ==
    /\ m.data = <<>>
    /\ \/ "RST" \in m.flag
       \/ /\ m.flag \in {{"SYN", "ACK"}, {"ACK"}, {"ACK", "FIN"}}
          /\ m.dst = Client /\ Heard(s)
          /\ c.iss < m.ack /\ m.ack <= s.rcvNxt
          /\ m.ack <= c.una \/ m.ack = c.nxt
          /\ "FIN" \notin m.flag /\ m.ack = s.rcvNxt => m.wnd <= s.rcvWnd
          /\ "SYN" \in m.flag => m.seq = s.iss

WireOK(c, s, w) ==
    \A m \in w : \/ m.src = Client /\ FromClient(c, s, m)
                 \/ m.src = Server /\ FromServer(c, s, m)

\* The texts the Client has sent or may send again.
Texts(c, w) == {m \in w : m.src = Client /\ m.data # <<>>}
                \cup {e \in c.retxQueue : e.data # <<>>}

\* Byte k of the stream of s.
ByteAt(s, k) == IF k <= Len(s.read) THEN s.read[k]
                ELSE s.rxQueue[k - Len(s.read) - 1]

\* A text the Server may take next fits its window; one it has taken is where
\* its sequence number says.
TextOK(c, s, t) ==
    /\ t.seq = s.rcvNxt => Len(t.data) <= s.rcvWnd
    /\ t.seq + Len(t.data) <= s.rcvNxt =>
        /\ t.seq + Len(t.data) <= (c.iss + 1) + Len(s.read) + s.rxLen
        /\ \A i \in 1 .. Len(t.data) :
              t.data[i] = ByteAt(s, t.seq - (c.iss + 1) + i)

TextsOK(c, s, w) ==
    /\ \A t, u \in Texts(c, w) : t.seq = u.seq => t.data = u.data
    /\ \A t \in Texts(c, w), m \in w :
          m.src = Client /\ m.flag = {"ACK", "FIN"} => t.seq + Len(t.data) <= m.seq
    /\ Heard(s) => \A t \in Texts(c, w) : TextOK(c, s, t)

ConnOK(c, s, w) ==
    /\ ClientOK(c) /\ ServerOK(s)
    /\ EndsOK(c, s)
    /\ WireOK(c, s, w)
    /\ TextsOK(c, s, w)

IInv == TypeOK /\ ConnOK(pcb[Client], pcb[Server], wire)
-----------------------------------------------------------------------------
(***************************************************************************)
(* Types, in the form the lemmas below use.                                *)
(***************************************************************************)

\* The fields of a pcb.
LEMMA PcbFields ==
    ASSUME NEW p \in Pcb
    PROVE  /\ p.iss \in Nat /\ p.una \in Nat /\ p.nxt \in Nat
           /\ p.wl1 \in Nat /\ p.wl2 \in Nat /\ p.rcvNxt \in Nat
           /\ p.wnd \in 0 .. BufferSize /\ p.rcvWnd \in 0 .. BufferSize
           /\ p.rxLen \in 0 .. BufferSize
           /\ p.rxQueue \in [0 .. BufferSize - 1 -> Byte]
           /\ p.read \in Seq(Byte) /\ Len(p.read) \in Nat
           /\ p.retxQueue \subseteq RetxEntry
           /\ p.state \in State
  BY DEF Pcb, SeqNum, Wnd

\* The sizes that matter.
LEMMA Sizes == /\ BufferSize \in Nat /\ BufferSize > 0
               /\ SeqMod \in Nat /\ SeqMod > BufferSize + 1
  BY BufferAssumption, SeqAssumption

\* Segments and entries of the queue.
LEMMA SegFields ==
    ASSUME NEW m \in Segment \cup RetxEntry
    PROVE  /\ m.seq \in Nat /\ m.flag \in SUBSET Flag
           /\ m.data \in Seq(Byte) /\ Len(m.data) \in 0 .. BufferSize
           /\ m.data # <<>> => Len(m.data) > 0
           /\ SeqLen(m) \in Nat /\ Len(m.data) <= SeqLen(m)
           /\ m.flag \cap {"SYN", "FIN"} = {} => SeqLen(m) = Len(m.data)
           /\ m.data = <<>> /\ m.flag \cap {"SYN", "FIN"} # {} => SeqLen(m) = 1
  <1>1. m.seq \in Nat /\ m.flag \in SUBSET Flag /\ m.data \in Payload
    BY DEF Segment, RetxEntry, SeqNum
  <1>2. m.data \in Seq(Byte) /\ Len(m.data) \in 0 .. BufferSize
    BY <1>1, PayloadType DEF Wnd
  <1>3. m.data # <<>> => Len(m.data) > 0
    BY <1>2
  <1>4. Len(<<>>) = 0
    OBVIOUS
  <1>5. m.data = <<>> => Len(m.data) = 0
    BY <1>4
  <1> DEFINE n == Len(m.data)
             one == m.flag \cap {"SYN", "FIN"} # {}
  <1>a. SeqLen(m) = n + (IF one THEN 1 ELSE 0) /\ n \in 0 .. BufferSize
    BY <1>2 DEF SeqLen
  <1> HIDE DEF n, one
  <1>6. SeqLen(m) \in Nat /\ n <= SeqLen(m)
    BY <1>a, Sizes
  <1>7. ~one => SeqLen(m) = n
    BY <1>a, Sizes
  <1>8. n = 0 /\ one => SeqLen(m) = 1
    BY <1>a
  <1> USE DEF n, one
  <1> QED
    BY <1>1, <1>2, <1>3, <1>5, <1>6, <1>7, <1>8

\* ack and wnd of a segment.
LEMMA AckFields == ASSUME NEW m \in Segment PROVE m.ack \in Nat /\ m.wnd \in Nat
  BY DEF Segment, SeqNum, Wnd

\* No wrap, no modulus.
LEMMA PlusIsSum ==
    ASSUME NEW a \in Nat, NEW b \in Nat, a + b < SeqMod
    PROVE  Plus(a, b) = a + b
  BY DEF Plus

\* The two names.
LEMMA TwoHosts ==
    /\ Client # Server /\ Host = {Client, Server}
    /\ Client # AnyEndpoint /\ Server # AnyEndpoint
  BY PeersAssumption, AnyAssumption

\* The FINs heard, state by state.
LEMMA FinsHeard ==
    ASSUME NEW p, p.state \in State
    PROVE  /\ p.state \in {"CLOSE-WAIT", "CLOSING", "LAST-ACK", "TIME-WAIT"} =>
                  FinHeard(p) = {1}
           /\ p.state = "CLOSED" => FinHeard(p) = {0, 1}
           /\ p.state \in Unfinished \cup {"LISTEN", "SYN-SENT"} => FinHeard(p) = {0}
  BY DEF FinHeard, State, Unfinished
-----------------------------------------------------------------------------
(***************************************************************************)
(* The wire.                                                               *)
(***************************************************************************)

\* What may be put on the wire at any time.
Sendable(c, s, m) ==
    \/ /\ m.src = Client /\ FromClient(c, s, m)
       /\ m.data # <<>> =>
            \E e \in c.retxQueue : e.seq = m.seq /\ e.data = m.data
       /\ m.flag = {"ACK", "FIN"} => c.state = "FIN-WAIT-1" /\ m.seq = c.una
    \/ m.src = Server /\ FromServer(c, s, m)

\* In FIN-WAIT-1 every text lies below snd.una.
LEMMA TextsBefore ==
    ASSUME NEW c \in Pcb, NEW s \in Pcb, NEW w \in SUBSET Segment, ConnOK(c, s, w),
           c.state = "FIN-WAIT-1", NEW t \in Texts(c, w)
    PROVE  t.seq + Len(t.data) <= c.una
  <1>1. CASE t \in c.retxQueue /\ t.data # <<>>
    <2>1. ClientEntry(c, t)
      BY <1>1 DEF ConnOK, ClientOK
    <2> QED
      BY <1>1, <2>1 DEF ClientEntry
  <1>2. CASE t \in w /\ t.src = Client /\ t.data # <<>>
    <2>1. FromClient(c, s, t)
      BY <1>2, TwoHosts DEF ConnOK, WireOK
    <2>2. t.seq + SeqLen(t) <= c.una
      BY <1>2, <2>1 DEF FromClient
    <2>3. /\ Len(t.data) \in Nat /\ t.seq \in Nat /\ c.una \in Nat
          /\ SeqLen(t) \in Nat /\ Len(t.data) <= SeqLen(t)
      BY <1>2, SegFields, PcbFields
    <2> QED
      BY <2>2, <2>3
  <1> QED
    BY <1>1, <1>2 DEF Texts

\* Segments may be lost, and what is Sendable may be sent.
LEMMA WireStep ==
    ASSUME NEW c \in Pcb, NEW s \in Pcb, NEW w \in SUBSET Segment, NEW v,
           ConnOK(c, s, w), \A m \in v : m \in w \/ Sendable(c, s, m)
    PROVE  ConnOK(c, s, v)
  <1>1. WireOK(c, s, v)
    BY DEF ConnOK, WireOK, Sendable
  <1>2. ASSUME NEW t \in Texts(c, v)
        PROVE  \E u \in Texts(c, w) : u.seq = t.seq /\ u.data = t.data
    <2>1. CASE t \in c.retxQueue /\ t.data # <<>>
      BY <2>1 DEF Texts
    <2>2. CASE t \in v /\ t.src = Client /\ t.data # <<>>
      <3>1. CASE t \in w
        BY <2>2, <3>1 DEF Texts
      <3>2. CASE Sendable(c, s, t)
        <4>1. \E e \in c.retxQueue : e.seq = t.seq /\ e.data = t.data
          BY <2>2, <3>2, TwoHosts DEF Sendable
        <4> QED
          BY <2>2, <4>1 DEF Texts
      <3> QED
        BY <2>2, <3>1, <3>2
    <2> QED
      BY <2>1, <2>2 DEF Texts
  <1>3. ASSUME NEW t, NEW u, t.seq = u.seq, t.data = u.data, TextOK(c, s, u)
        PROVE  TextOK(c, s, t)
    BY <1>3 DEF TextOK
  <1>4. ASSUME NEW t \in Texts(c, v), NEW m \in v, m.src = Client,
               m.flag = {"ACK", "FIN"}
        PROVE  t.seq + Len(t.data) <= m.seq
    <2>1. PICK u \in Texts(c, w) : u.seq = t.seq /\ u.data = t.data
      BY <1>2
    <2>2. CASE m \in w
      BY <1>4, <2>1, <2>2 DEF ConnOK, TextsOK
    <2>3. CASE Sendable(c, s, m)
      <3>1. c.state = "FIN-WAIT-1" /\ m.seq = c.una
        BY <1>4, <2>3, TwoHosts DEF Sendable
      <3> QED
        BY <2>1, <3>1, TextsBefore
    <2> QED
      BY <2>2, <2>3
  <1>5. /\ \A t, u \in Texts(c, w) : t.seq = u.seq => t.data = u.data
        /\ Heard(s) => \A t \in Texts(c, w) : TextOK(c, s, t)
    BY DEF ConnOK, TextsOK
  <1>6. TextsOK(c, s, v)
    <2>1. \A t, u \in Texts(c, v) : t.seq = u.seq => t.data = u.data
      BY <1>2, <1>5
    <2>2. Heard(s) => \A t \in Texts(c, v) : TextOK(c, s, t)
      BY <1>2, <1>3, <1>5
    <2> QED
      BY <2>1, <2>2, <1>4 DEF TextsOK
  <1> QED
    BY <1>1, <1>6 DEF ConnOK

\* TxHandler, and TxHelperTCP and the user calls when they send m.
LEMMA MaySend ==
    ASSUME NEW c \in Pcb, NEW s \in Pcb, NEW w \in SUBSET Segment, NEW v, NEW m,
           ConnOK(c, s, w), Sendable(c, s, m),
           v = w \/ v = w \cup {m}
    PROVE  ConnOK(c, s, v)
  BY WireStep

\* The Client acknowledges, resets and sends again.
LEMMA ClientSends ==
    ASSUME NEW c \in Pcb, NEW s \in Pcb, NEW w, ConnOK(c, s, w), c.foreign = Server
    PROVE  /\ c.state \in Joined => Sendable(c, s, SegmentOf(Client, c, {"ACK"}, <<>>))
           /\ \A seq, ack, flag :
                  "RST" \in flag => Sendable(c, s, Rst(Client, c, seq, ack, flag))
           /\ Sendable(c, s, SegmentOf(Client, c, {"RST"}, <<>>))
           /\ \A e \in c.retxQueue : Sendable(c, s, Retransmission(Client, c, e))
  <1>1. /\ c.iss \in Nat /\ c.una \in Nat /\ c.nxt \in Nat
        /\ c.retxQueue \subseteq RetxEntry
    BY PcbFields
  <1>2. c.iss < c.nxt /\ c.una <= c.nxt
    BY DEF ConnOK, ClientOK
  <1>3. ASSUME c.state \in Joined
        PROVE  Sendable(c, s, SegmentOf(Client, c, {"ACK"}, <<>>))
    <2> DEFINE m == SegmentOf(Client, c, {"ACK"}, <<>>)
    <2>1. /\ m.src = Client /\ m.dst = Server /\ m.flag = {"ACK"} /\ m.data = <<>>
          /\ m.seq = c.nxt /\ m.ack = c.rcvNxt
      BY DEF SegmentOf
    <2> HIDE DEF m
    <2>2. Heard(s) /\ c.rcvNxt = s.iss + 1 /\ c.iss < c.una
      BY <1>3 DEF ConnOK, ClientOK, EndsOK, Joined
    <2>3. SeqLen(m) = 0
      BY <2>1 DEF SeqLen
    <2>4. FromClient(c, s, m)
      BY <1>1, <1>2, <2>1, <2>2, <2>3 DEF FromClient
    <2>5. Sendable(c, s, m)
      BY <2>1, <2>4 DEF Sendable
    <2> QED
      BY <2>5 DEF m
  <1>4. ASSUME NEW m, m.src = Client, m.dst = Server, "RST" \in m.flag, m.data = <<>>
        PROVE  Sendable(c, s, m)
    BY <1>4 DEF Sendable, FromClient
  <1>5. ASSUME NEW e \in c.retxQueue
        PROVE  Sendable(c, s, Retransmission(Client, c, e))
    <2> DEFINE m == Retransmission(Client, c, e)
    <2>1. /\ m.src = Client /\ m.dst = Server /\ m.flag = e.flag
          /\ m.data = e.data /\ m.seq = e.seq /\ m.ack = c.rcvNxt
      BY DEF Retransmission
    <2> HIDE DEF m
    <2>2. ClientEntry(c, e) /\ e \in RetxEntry
      BY <1>1 DEF ConnOK, ClientOK
    <2>3. SeqLen(m) = SeqLen(e) /\ SeqLen(e) \in Nat
      BY <2>1, <2>2, SegFields DEF SeqLen
    <2>4. CASE c.state = "SYN-SENT"
      <3>1. e.flag = {"SYN"} /\ e.data = <<>> /\ e.seq = c.iss
        BY <2>2, <2>4 DEF ConnOK, ClientOK, ClientEntry
      <3>2. FromClient(c, s, m)
        BY <2>1, <3>1 DEF FromClient
      <3> QED
        BY <2>1, <3>1, <3>2 DEF Sendable, m
    <2>5. CASE c.state \in Joined
      <3>1. Heard(s) /\ c.rcvNxt = s.iss + 1 /\ c.iss < c.una
        BY <2>5 DEF ConnOK, ClientOK, EndsOK, Joined
      <3>2. e.flag \in {{"ACK"}, {"ACK", "FIN"}} /\ e.seq = c.una
            /\ c.nxt = c.una + SeqLen(e)
        BY <2>2, <2>5 DEF ClientEntry, Joined
      <3>3. "FIN" \in e.flag => e.data = <<>> /\ c.state = "FIN-WAIT-1"
        BY <2>2 DEF ClientEntry
      <3>4. "FIN" \in e.flag => SeqLen(e) = 1
        BY <2>2, <3>3, SegFields
      <3>5. e.data # <<>> => c.state = "ESTABLISHED"
        BY <2>2 DEF ClientEntry
      <3>6. FromClient(c, s, m)
        BY <1>1, <1>2, <2>1, <2>3, <3>1, <3>2, <3>3, <3>4, <3>5 DEF FromClient
      <3> QED
        BY <2>1, <3>2, <3>3, <3>6 DEF Sendable, m
    <2> QED
      BY <2>2, <2>4, <2>5 DEF ClientEntry, Joined
  <1> QED
    BY <1>3, <1>4, <1>5 DEF Rst, SegmentOf

\* The Server acknowledges, resets and sends again.
LEMMA ServerSends ==
    ASSUME NEW c \in Pcb, NEW s \in Pcb, NEW w, ConnOK(c, s, w)
    PROVE  /\ Heard(s) => \A flag \in {{"ACK"}, {"ACK", "FIN"}, {"SYN", "ACK"}} :
                  Sendable(c, s, SegmentOf(Server, s, flag, <<>>))
           /\ \A seq, ack, flag :
                  "RST" \in flag => Sendable(c, s, Rst(Server, s, seq, ack, flag))
           /\ Sendable(c, s, SegmentOf(Server, s, {"RST"}, <<>>))
           /\ \A e \in s.retxQueue : Sendable(c, s, Retransmission(Server, s, e))
  <1>1. /\ c.iss \in Nat /\ c.una \in Nat /\ c.nxt \in Nat
        /\ s.rcvNxt \in Nat /\ s.rcvWnd \in Nat
    BY PcbFields
  <1>2. ASSUME NEW m, m.src = Server, m.dst = s.foreign, m.data = <<>>, Heard(s),
               m.flag \in {{"ACK"}, {"ACK", "FIN"}, {"SYN", "ACK"}},
               m.ack = s.rcvNxt, "FIN" \notin m.flag => m.wnd <= s.rcvWnd,
               "SYN" \in m.flag => m.seq = s.iss
        PROVE  Sendable(c, s, m)
    <2>1. /\ c.iss < s.rcvNxt
          /\ s.rcvNxt = c.una \/ s.rcvNxt = c.nxt
      BY <1>2 DEF ConnOK, EndsOK
    <2>2. m.dst = Client
      BY <1>2 DEF Heard
    <2>3. m.ack <= c.una \/ m.ack = c.nxt
      BY <1>1, <1>2, <2>1
    <2>4. "FIN" \notin m.flag /\ m.ack = s.rcvNxt => m.wnd <= s.rcvWnd
      BY <1>2
    <2>5. m.ack <= s.rcvNxt /\ c.iss < m.ack
      BY <1>1, <1>2, <2>1
    <2>6. FromServer(c, s, m)
      BY <1>2, <2>2, <2>3, <2>4, <2>5 DEF FromServer
    <2> QED
      BY <1>2, <2>6 DEF Sendable
  <1>3. ASSUME Heard(s), NEW flag \in {{"ACK"}, {"ACK", "FIN"}, {"SYN", "ACK"}}
        PROVE  Sendable(c, s, SegmentOf(Server, s, flag, <<>>))
    <2> DEFINE m == SegmentOf(Server, s, flag, <<>>)
    <2>1. /\ m.src = Server /\ m.dst = s.foreign /\ m.flag = flag /\ m.data = <<>>
          /\ m.ack = s.rcvNxt /\ m.wnd = s.rcvWnd
          /\ "SYN" \in flag => m.seq = s.iss
      BY DEF SegmentOf
    <2> HIDE DEF m
    <2>2. m.wnd <= s.rcvWnd /\ ("SYN" \in m.flag => m.seq = s.iss)
      BY <1>1, <2>1
    <2>3. m.flag \in {{"ACK"}, {"ACK", "FIN"}, {"SYN", "ACK"}}
      BY <2>1
    <2>4. Sendable(c, s, m)
      BY ONLY <1>2, <1>3, <2>1, <2>2, <2>3
    <2> QED
      BY <2>4 DEF m
  <1>4. ASSUME NEW m, m.src = Server, "RST" \in m.flag, m.data = <<>>
        PROVE  Sendable(c, s, m)
    BY <1>4 DEF Sendable, FromServer
  <1>5. ASSUME NEW e \in s.retxQueue
        PROVE  Sendable(c, s, Retransmission(Server, s, e))
    <2> DEFINE m == Retransmission(Server, s, e)
    <2>1. /\ m.src = Server /\ m.dst = s.foreign /\ m.flag = e.flag
          /\ m.data = e.data /\ m.seq = e.seq /\ m.ack = s.rcvNxt /\ m.wnd = s.wnd
      BY DEF Retransmission
    <2> HIDE DEF m
    <2>2. ServerEntry(s, e) /\ Heard(s) /\ (s.una = s.iss => s.wnd = 0)
      BY DEF ConnOK, ServerOK
    <2>3. /\ m.data = <<>> /\ m.flag \in {{"ACK", "FIN"}, {"SYN", "ACK"}}
          /\ "SYN" \in m.flag => m.seq = s.iss
          /\ "FIN" \notin m.flag => m.wnd <= s.rcvWnd
      BY <1>1, <2>1, <2>2 DEF ServerEntry
    <2>4. Sendable(c, s, m)
      BY <1>2, <2>1, <2>2, <2>3
    <2> QED
      BY <2>4 DEF m
  <1> QED
    BY <1>3, <1>4, <1>5 DEF Rst, SegmentOf
-----------------------------------------------------------------------------
(***************************************************************************)
(* Steps of one end that the other cannot see.                             *)
(***************************************************************************)

\* The Server's pcb moves, and its stream and sequence numbers stay.
SameStream(s, t) ==
    /\ t.foreign = s.foreign /\ t.iss = s.iss
    /\ t.rcvNxt = s.rcvNxt /\ t.rcvWnd = s.rcvWnd
    /\ t.rxQueue = s.rxQueue /\ t.rxLen = s.rxLen /\ t.read = s.read

\* Its state changes without a FIN.
NoNews(s, t) ==
    /\ Heard(s) => FinHeard(s) \subseteq FinHeard(t)
    /\ t.state \in Unfinished => s.state \in Unfinished
    /\ t.state \in Finished => s.state \in Finished

LEMMA ServerMoves ==
    ASSUME NEW c, NEW s, NEW t, NEW w, ConnOK(c, s, w),
           SameStream(s, t), NoNews(s, t), ServerOK(t)
    PROVE  ConnOK(c, t, w)
  <1>1. Heard(t) <=> Heard(s)
    BY DEF Heard, SameStream
  <1>2. EndsOK(c, t)
    <2>1. EndsOK(c, s)
      BY DEF ConnOK
    <2> QED
      BY <1>1, <2>1 DEF EndsOK, SameStream, NoNews
  <1>3. WireOK(c, t, w)
    <2>1. ASSUME NEW m, FromClient(c, s, m) PROVE FromClient(c, t, m)
      BY <1>1, <2>1 DEF FromClient, SameStream
    <2>2. ASSUME NEW m, FromServer(c, s, m) PROVE FromServer(c, t, m)
      BY <1>1, <2>2 DEF FromServer, SameStream
    <2> QED
      BY <2>1, <2>2 DEF ConnOK, WireOK
  <1>4. TextsOK(c, t, w)
    <2>1. ASSUME NEW u, TextOK(c, s, u) PROVE TextOK(c, t, u)
      BY <2>1 DEF TextOK, ByteAt, SameStream
    <2> QED
      BY <1>1, <2>1 DEF ConnOK, TextsOK
  <1> QED
    BY <1>2, <1>3, <1>4 DEF ConnOK

\* The Client's pcb moves, and its sequence numbers stay.
SameNumbers(c, d) ==
    /\ d.foreign = c.foreign /\ d.iss = c.iss /\ d.una = c.una /\ d.nxt = c.nxt
    /\ d.wnd = c.wnd /\ d.wl1 = c.wl1 /\ d.wl2 = c.wl2 /\ d.rcvNxt = c.rcvNxt
    /\ d.state = c.state \/ d.state = "CLOSED"
    /\ d.retxQueue \subseteq c.retxQueue

\* The CLOSEs answered "ok".
Closed(c) == {x \in Call : c.call[x] = "close" /\ c.errCh[x] = <<"ok">>}

LEMMA ClientMoves ==
    ASSUME NEW c, NEW d, NEW s, NEW w, ConnOK(c, s, w),
           SameNumbers(c, d), Closed(d) \subseteq Closed(c), ClientOK(d)
    PROVE  ConnOK(d, s, w)
  <1>1. d.state \in {"ESTABLISHED", "FIN-WAIT-1", "FIN-WAIT-2", "SYN-SENT"} =>
            d.state = c.state
    BY DEF SameNumbers
  <1>2. c.state = "CLOSED" => d.state = "CLOSED"
    BY DEF SameNumbers
  <1>3. EndsOK(d, s)
    <2>1. EndsOK(c, s)
      BY DEF ConnOK
    <2>2. \A x \in Call : d.call[x] = "close" /\ d.errCh[x] = <<"ok">> =>
            /\ d.state \in {"FIN-WAIT-1", "FIN-WAIT-2", "CLOSED"}
            /\ Heard(s) /\ s.rcvNxt = d.nxt
            /\ s.state \notin Unfinished
      BY <2>1, <1>1 DEF EndsOK, SameNumbers, Closed
    <2> QED
      BY <2>1, <2>2, <1>1 DEF EndsOK, SameNumbers, Joined
  <1>4. WireOK(d, s, w)
    <2>1. ASSUME NEW m, FromClient(c, s, m) PROVE FromClient(d, s, m)
      BY <1>1, <2>1 DEF FromClient, SameNumbers
    <2>2. ASSUME NEW m, FromServer(c, s, m) PROVE FromServer(d, s, m)
      BY <2>2 DEF FromServer, SameNumbers
    <2> QED
      BY <2>1, <2>2 DEF ConnOK, WireOK
  <1>5. TextsOK(d, s, w)
    <2>1. Texts(d, w) \subseteq Texts(c, w)
      BY DEF Texts, SameNumbers
    <2>2. ASSUME NEW u, TextOK(c, s, u) PROVE TextOK(d, s, u)
      BY <2>2 DEF TextOK, SameNumbers
    <2> QED
      BY <2>1, <2>2 DEF ConnOK, TextsOK
  <1> QED
    BY <1>3, <1>4, <1>5 DEF ConnOK
-----------------------------------------------------------------------------
(***************************************************************************)
(* What the helpers leave alone.                                           *)
(***************************************************************************)

\* All but the state, the queue, the pending RECEIVE and the answers.
Rest(p, q) ==
    /\ q.foreign = p.foreign /\ q.iss = p.iss /\ q.una = p.una /\ q.nxt = p.nxt
    /\ q.wnd = p.wnd /\ q.wl1 = p.wl1 /\ q.wl2 = p.wl2
    /\ q.rcvNxt = p.rcvNxt /\ q.rcvWnd = p.rcvWnd
    /\ q.rxQueue = p.rxQueue /\ q.rxLen = p.rxLen /\ q.read = p.read
    /\ q.call = p.call

\* Notify answers.
LEMMA NotifyFields ==
    ASSUME NEW p \in Pcb, NEW C, NEW r \in Answer
    PROVE  LET q == Notify(p, C, r) IN
           /\ q \in Pcb /\ Rest(p, q) /\ q.state = p.state
           /\ q.retxQueue = p.retxQueue /\ q.rcvCmd = p.rcvCmd
           /\ Told(p, q, C, r)
  <1> DEFINE q == Notify(p, C, r)
  <1>1. q \in Pcb /\ Told(p, q, C, r)
        /\ q.retxQueue = p.retxQueue /\ q.rcvCmd = p.rcvCmd
    BY NotifyType, NotifyTells
  <1>2. Rest(p, q) /\ q.state = p.state
    BY DEF Notify, Pcb, Rest
  <1> QED
    BY <1>1, <1>2

\* queueAck answers and forgets what is acknowledged.
LEMMA queueAckFields ==
    ASSUME NEW p \in Pcb
    PROVE  LET q == queueAck(p) IN
           /\ q \in Pcb /\ Rest(p, q) /\ q.state = p.state
           /\ q.retxQueue = p.retxQueue \ Acked(p) /\ q.rcvCmd = p.rcvCmd
           /\ Told(p, q, Callers(Acked(p)), "ok")
  <1> DEFINE n == Notify(p, Callers(Acked(p)), "ok")
             q == queueAck(p)
  <1>1. /\ n \in Pcb /\ Rest(p, n) /\ n.state = p.state
        /\ n.retxQueue = p.retxQueue /\ n.rcvCmd = p.rcvCmd
        /\ Told(p, n, Callers(Acked(p)), "ok")
    BY NotifyFields DEF Answer
  <1>2. q \in Pcb
    BY queueAckType
  <1>3. q = [n EXCEPT !.retxQueue = @ \ Acked(p)]
    BY DEF queueAck
  <1> HIDE DEF n, q
  <1>4. Rest(n, q) /\ q.state = n.state /\ q.errCh = n.errCh
        /\ q.retxQueue = n.retxQueue \ Acked(p) /\ q.rcvCmd = n.rcvCmd
    BY <1>1, <1>3 DEF Pcb, Rest
  <1>5. Rest(p, q) /\ Told(p, q, Callers(Acked(p)), "ok")
    BY <1>1, <1>4 DEF Rest, Told
  <1> QED
    BY <1>1, <1>2, <1>4, <1>5 DEF q

\* signalOpen answers and forgets OPEN.
LEMMA signalOpenFields ==
    ASSUME NEW p \in Pcb
    PROVE  LET q == signalOpen(p) IN
           /\ q \in Pcb /\ Rest(p, q) /\ q.state = p.state
           /\ q.retxQueue \subseteq p.retxQueue /\ q.rcvCmd = p.rcvCmd
           /\ p.retxQueue = {} => q.errCh = p.errCh
  <1> DEFINE E == {e \in p.retxQueue : e.trigger = "open"}
             n == Notify(p, Callers(E), "ok")
             q == signalOpen(p)
  <1>1. /\ n \in Pcb /\ Rest(p, n) /\ n.state = p.state
        /\ n.retxQueue = p.retxQueue /\ n.rcvCmd = p.rcvCmd
        /\ Told(p, n, Callers(E), "ok")
    BY NotifyFields DEF Answer
  <1>2. q \in Pcb /\ q = [n EXCEPT !.retxQueue = @ \ E]
    BY signalOpenType DEF signalOpen
  <1>3. p.retxQueue = {} => Callers(E) = {}
    BY DEF Callers
  <1>4. p.retxQueue = {} => n.errCh = p.errCh
    BY <1>1, <1>3 DEF Told, Pcb
  <1> HIDE DEF n, q, E
  <1>5. Rest(n, q) /\ q.state = n.state /\ q.errCh = n.errCh
        /\ q.retxQueue = n.retxQueue \ E /\ q.rcvCmd = n.rcvCmd
    BY <1>1, <1>2 DEF Pcb, Rest
  <1>6. Rest(p, q)
    BY <1>1, <1>5 DEF Rest
  <1> QED
    BY <1>1, <1>2, <1>4, <1>5, <1>6 DEF q

\* Aborted answers and forgets everything.
LEMMA AbortedFields ==
    ASSUME NEW p \in Pcb
    PROVE  LET q == Aborted(p) IN
           /\ q \in Pcb /\ Rest(p, q) /\ q.state = "CLOSED"
           /\ q.retxQueue = {} /\ q.rcvCmd = NoRcv
           /\ Told(p, q, Held(p), "err")
  <1> DEFINE n == Notify(p, Held(p), "err")
             e == signalErr(p)
             q == Aborted(p)
  <1>1. /\ n \in Pcb /\ Rest(p, n) /\ Told(p, n, Held(p), "err")
    BY NotifyFields DEF Answer
  <1>2. e \in Pcb /\ q \in Pcb
    BY signalErrType
  <1>3. e = [n EXCEPT !.retxQueue = {}, !.rcvCmd = NoRcv]
    BY DEF signalErr, Held
  <1>4. q = [e EXCEPT !.state = "CLOSED"]
    BY DEF Aborted
  <1> HIDE DEF n, e, q
  <1>5. /\ Rest(n, e) /\ e.errCh = n.errCh
        /\ e.retxQueue = {} /\ e.rcvCmd = NoRcv
    BY <1>1, <1>3 DEF Pcb, Rest
  <1>6. /\ Rest(e, q) /\ q.errCh = e.errCh /\ q.state = "CLOSED"
        /\ q.retxQueue = e.retxQueue /\ q.rcvCmd = e.rcvCmd
    BY <1>2, <1>4 DEF Pcb, Rest
  <1>7. Rest(p, q) /\ Told(p, q, Held(p), "err")
    BY <1>1, <1>5, <1>6 DEF Rest, Told
  <1> QED
    BY <1>2, <1>5, <1>6, <1>7 DEF q

\* An error is no "ok".
LEMMA ErrIsNotOk ==
    ASSUME NEW q \in Seq(Answer)
    PROVE  Append(q, "err") # <<"ok">> /\ Append(q, "err") # <<>>
  <1> DEFINE a == Append(q, "err")
  <1>1. Len(q) \in Nat /\ Len(a) = Len(q) + 1 /\ a[Len(q) + 1] = "err"
    BY DEF Answer
  <1>2. Len(<<"ok">>) = 1 /\ <<"ok">>[1] = "ok" /\ Len(<<>>) = 0
    OBVIOUS
  <1> HIDE DEF a
  <1>3. a # <<>>
    BY <1>1, <1>2
  <1>4. a # <<"ok">>
    <2> SUFFICES ASSUME a = <<"ok">> PROVE FALSE
      OBVIOUS
    <2>1. Len(q) = 0
      BY <1>1, <1>2
    <2>2. a[1] = "err"
      BY <1>1, <2>1
    <2> QED
      BY <1>2, <2>2
  <1> QED
    BY <1>3, <1>4 DEF a
-----------------------------------------------------------------------------
(***************************************************************************)
(* Steps of the Client that the Server cannot see.                         *)
(***************************************************************************)

\* The Client ends its connection.
LEMMA ClientAborts ==
    ASSUME NEW c \in Pcb, NEW s, NEW w, ConnOK(c, s, w), c.foreign = Server
    PROVE  ConnOK(Aborted(c), s, w)
  <1> DEFINE d == Aborted(c)
  <1>1. /\ d \in Pcb /\ Rest(c, d) /\ d.state = "CLOSED"
        /\ d.retxQueue = {} /\ d.rcvCmd = NoRcv /\ Told(c, d, Held(c), "err")
    BY AbortedFields
  <1>2. ClientOK(c)
    BY DEF ConnOK
  <1> HIDE DEF d
  <1>3. \A x \in Held(c) : c.call[x] # "idle"
    BY <1>2 DEF ClientOK, ClientEntry, Held, Callers, NoRcv
  <1>4. ASSUME NEW x \in Call, d.call[x] = "idle" PROVE d.errCh[x] = <<>>
    BY <1>1, <1>2, <1>3, <1>4 DEF ClientOK, Told
  <1>5. ClientOK(d)
    BY <1>1, <1>2, <1>4 DEF ClientOK, Rest, Joined
  <1>6. Closed(d) \subseteq Closed(c)
    <2> SUFFICES ASSUME NEW x \in Call, d.call[x] = "close", d.errCh[x] = <<"ok">>
                 PROVE  c.call[x] = "close" /\ c.errCh[x] = <<"ok">>
      BY DEF Closed
    <2>1. c.errCh[x] \in Seq(Answer)
      BY DEF Pcb
    <2> QED
      BY <1>1, <2>1, ErrIsNotOk DEF Told
  <1>7. SameNumbers(c, d)
    BY <1>1 DEF SameNumbers, Rest
  <1> QED
    BY <1>5, <1>6, <1>7, ClientMoves DEF d

\* d is c after a new call x of kind k that is answered err.
LEMMA ClientIsRefused ==
    ASSUME NEW c \in Pcb, NEW d, NEW s, NEW w, NEW x \in Call, NEW k \in Kind,
           ConnOK(c, s, w), c.call[x] = "idle", k # "idle",
           SameNumbers(c, d), d.rcvWnd = c.rcvWnd, d.rcvCmd = c.rcvCmd,
           d.state = c.state, d.retxQueue = c.retxQueue,
           \A y \in Call : d.call[y] = IF y = x THEN k ELSE c.call[y],
           \A y \in Call : d.errCh[y] = IF y = x THEN Append(c.errCh[y], "err")
                                        ELSE c.errCh[y]
    PROVE  ConnOK(d, s, w)
  <1>1. ClientOK(c) /\ c.errCh[x] \in Seq(Answer)
    BY DEF ConnOK, Pcb
  <1>2. ASSUME NEW e \in c.retxQueue PROVE ClientEntry(d, e)
    <2>1. ClientEntry(c, e) /\ e.call # x
      BY <1>1, <1>2 DEF ClientOK, ClientEntry
    <2> QED
      BY <2>1 DEF ClientEntry, SameNumbers
  <1>3. (\E y \in Call : c.call[y] = "open") => \E y \in Call : d.call[y] = "open"
    OBVIOUS
  <1>4. \A y \in Call : d.call[y] = "idle" => d.errCh[y] = <<>>
    BY <1>1 DEF ClientOK
  <1>5. ClientOK(d)
    BY <1>1, <1>2, <1>3, <1>4 DEF ClientOK, SameNumbers, Joined
  <1>6. Closed(d) \subseteq Closed(c)
    BY <1>1, ErrIsNotOk DEF Closed
  <1> QED
    BY <1>5, <1>6, ClientMoves

\* A tick finds nothing acknowledged in the Client's queue.
LEMMA ClientTicks ==
    ASSUME NEW c \in Pcb, NEW s, NEW w, ConnOK(c, s, w)
    PROVE  LET d == queueAck(c) IN
           /\ d \in Pcb /\ ConnOK(d, s, w)
           /\ d.retxQueue = c.retxQueue /\ d.foreign = c.foreign
  <1> DEFINE d == queueAck(c)
  <1>1. ClientOK(c) /\ c.una \in Nat
    BY PcbFields DEF ConnOK
  <1>2. Acked(c) = {}
    BY <1>1 DEF ClientOK, ClientEntry, Acked
  <1>3. Callers(Acked(c)) = {}
    BY <1>2 DEF Callers
  <1>4. /\ d \in Pcb /\ Rest(c, d) /\ d.state = c.state
        /\ d.retxQueue = c.retxQueue \ Acked(c) /\ d.rcvCmd = c.rcvCmd
        /\ Told(c, d, Callers(Acked(c)), "ok")
    BY queueAckFields
  <1> HIDE DEF d
  <1>5. d.retxQueue = c.retxQueue /\ \A x \in Call : d.errCh[x] = c.errCh[x]
    BY <1>2, <1>3, <1>4 DEF Told
  <1>6. \A e \in c.retxQueue : ClientEntry(d, e)
    BY <1>1, <1>4, <1>5 DEF ClientOK, ClientEntry, Rest
  <1>7. ClientOK(d)
    BY <1>1, <1>4, <1>5, <1>6 DEF ClientOK, Rest, Joined
  <1>8. SameNumbers(c, d) /\ Closed(d) \subseteq Closed(c)
    BY <1>4, <1>5 DEF SameNumbers, Closed, Rest
  <1> QED
    BY <1>4, <1>5, <1>7, <1>8, ClientMoves DEF d, Rest
-----------------------------------------------------------------------------
(***************************************************************************)
(* Steps of the Server that the Client cannot see.                         *)
(***************************************************************************)

\* The Server ends its connection, answering those who wait or not.
LEMMA ServerEnds ==
    ASSUME NEW c, NEW s \in Pcb, NEW t, NEW w, ConnOK(c, s, w),
           Rest(s, t), t.state = "CLOSED", t.retxQueue \subseteq s.retxQueue,
           t.rcvCmd = NoRcv \/ t.rcvCmd = s.rcvCmd
    PROVE  ConnOK(c, t, w)
  <1>1. ServerOK(s) /\ s.state \in State
    BY PcbFields DEF ConnOK
  <1>2. t.state \in State /\ FinHeard(t) = {0, 1} /\ FinHeard(s) \subseteq {0, 1}
    BY <1>1, FinsHeard DEF State, Unfinished
  <1>3. NoNews(s, t)
    BY <1>2 DEF NoNews, Unfinished, Finished
  <1>4. \A e \in t.retxQueue : ServerEntry(t, e)
    BY <1>1 DEF ServerOK, ServerEntry, Rest
  <1>5. (Heard(t) <=> Heard(s)) /\ NoRcv.call = NoCall
    BY DEF Heard, Rest, NoRcv
  <1>6. ServerOK(t)
    BY <1>1, <1>4, <1>5 DEF ServerOK, Rest
  <1>7. SameStream(s, t)
    BY DEF SameStream, Rest
  <1> QED
    BY <1>3, <1>6, <1>7, ServerMoves

LEMMA ServerAborts ==
    ASSUME NEW c, NEW s \in Pcb, NEW w, ConnOK(c, s, w)
    PROVE  ConnOK(c, Aborted(s), w)
  <1>1. /\ Rest(s, Aborted(s)) /\ Aborted(s).state = "CLOSED"
        /\ Aborted(s).retxQueue = {} /\ Aborted(s).rcvCmd = NoRcv
    BY AbortedFields
  <1> QED
    BY <1>1, ServerEnds

LEMMA ServerLeaves ==
    ASSUME NEW c, NEW s \in Pcb, NEW w, ConnOK(c, s, w)
    PROVE  ConnOK(c, [s EXCEPT !.state = "CLOSED"], w)
  <1> DEFINE t == [s EXCEPT !.state = "CLOSED"]
  <1>1. /\ Rest(s, t) /\ t.state = "CLOSED"
        /\ t.retxQueue = s.retxQueue /\ t.rcvCmd = s.rcvCmd
    BY DEF Pcb, Rest
  <1> HIDE DEF t
  <1>2. ConnOK(c, t, w)
    BY <1>1, ServerEnds
  <1> QED
    BY <1>2 DEF t

\* t is s after a new call x of kind k that is answered or waits.
LEMMA ServerIsAsked ==
    ASSUME NEW c, NEW s \in Pcb, NEW t, NEW w, NEW x \in Call, NEW k \in Kind,
           ConnOK(c, s, w), SameStream(s, t), t.state = s.state, t.una = s.una,
           t.nxt = s.nxt, t.wnd = s.wnd, t.retxQueue = s.retxQueue,
           \/ t.rcvCmd = s.rcvCmd
           \/ Heard(s) /\ t.rcvCmd.size = BufferSize,
           s.call[x] = "idle",
           \A y \in Call : t.call[y] = IF y = x THEN k ELSE s.call[y]
    PROVE  ConnOK(c, t, w)
  <1>1. ServerOK(s)
    BY DEF ConnOK
  <1>2. \A e \in t.retxQueue : ServerEntry(t, e)
    BY <1>1 DEF ServerOK, ServerEntry, SameStream
  <1>3. Heard(t) <=> Heard(s)
    BY DEF Heard, SameStream
  <1>4. (\E y \in Call : s.call[y] = "open") => \E y \in Call : t.call[y] = "open"
    OBVIOUS
  <1>5. ServerOK(t)
    BY <1>1, <1>2, <1>3, <1>4 DEF ServerOK, SameStream
  <1>6. NoNews(s, t)
    BY DEF NoNews, FinHeard
  <1> QED
    BY <1>5, <1>6, ServerMoves

\* A tick: what queueAck finds acknowledged leaves the queue.
LEMMA ServerTicks ==
    ASSUME NEW c, NEW s \in Pcb, NEW w, ConnOK(c, s, w)
    PROVE  LET t == queueAck(s) IN
           t \in Pcb /\ ConnOK(c, t, w) /\ t.retxQueue \subseteq s.retxQueue
  <1> DEFINE t == queueAck(s)
  <1>1. /\ t \in Pcb /\ Rest(s, t) /\ t.state = s.state
        /\ t.retxQueue = s.retxQueue \ Acked(s) /\ t.rcvCmd = s.rcvCmd
    BY queueAckFields
  <1> HIDE DEF t
  <1>2. ServerOK(s)
    BY DEF ConnOK
  <1>3. \A e \in t.retxQueue : ServerEntry(t, e)
    BY <1>1, <1>2 DEF ServerOK, ServerEntry, Rest
  <1>4. Heard(t) <=> Heard(s)
    BY <1>1 DEF Heard, Rest
  <1>5. ServerOK(t)
    BY <1>1, <1>2, <1>3, <1>4 DEF ServerOK, Rest
  <1>6. NoNews(s, t) /\ SameStream(s, t)
    BY <1>1 DEF NoNews, FinHeard, SameStream, Rest
  <1> QED
    BY <1>1, <1>5, <1>6, ServerMoves DEF t

\* The Server listens.
LEMMA ServerListens ==
    ASSUME NEW c, NEW s \in Pcb, NEW t, NEW w, NEW x \in Call, ConnOK(c, s, w),
           \A y \in Call : s.call[y] # "open",
           SameStream(s, t), t.state = "LISTEN", t.una = s.una,
           t.wnd = s.wnd, t.retxQueue = s.retxQueue, t.rcvCmd = s.rcvCmd,
           t.call[x] = "open"
    PROVE  ConnOK(c, t, w)
  <1>1. ServerOK(s)
    BY DEF ConnOK
  <1>2. ~Heard(s) /\ ~Heard(t)
    BY <1>1 DEF ServerOK, Heard, SameStream
  <1>3. NoNews(s, t)
    BY <1>2 DEF NoNews, Unfinished, Finished
  <1>4. NoRcv.call = NoCall
    BY DEF NoRcv
  <1>5. ServerOK(t)
    BY <1>1, <1>2, <1>4 DEF ServerOK, SameStream
  <1> QED
    BY <1>3, <1>5, ServerMoves

\* The Server closes.
LEMMA ServerCloses ==
    ASSUME NEW c, NEW s \in Pcb, NEW t, NEW w, NEW x \in Call, NEW e,
           ConnOK(c, s, w), s.call[x] = "idle",
           SameStream(s, t), t.una = s.una, t.nxt = s.nxt + 1, t.wnd = s.wnd,
           t.retxQueue = s.retxQueue \cup {e}, t.rcvCmd = s.rcvCmd,
           e.flag = {"ACK", "FIN"}, e.data = <<>>,
           \/ s.state = "ESTABLISHED" /\ t.state = "FIN-WAIT-1"
           \/ s.state = "CLOSE-WAIT" /\ t.state = "LAST-ACK",
           \A y \in Call : t.call[y] = IF y = x THEN "close" ELSE s.call[y]
    PROVE  ConnOK(c, t, w)
  <1>1. ServerOK(s) /\ s.nxt \in Nat /\ s.iss \in Nat
    BY PcbFields DEF ConnOK
  <1>2. Heard(s) /\ Heard(t)
    BY <1>1 DEF ServerOK, Heard, SameStream
  <1>3. \A f \in t.retxQueue : ServerEntry(t, f)
    BY <1>1 DEF ServerOK, ServerEntry, SameStream
  <1>4. (\E y \in Call : s.call[y] = "open") => \E y \in Call : t.call[y] = "open"
    OBVIOUS
  <1>5. s.iss < t.nxt
    BY <1>1, <1>2 DEF ServerOK
  <1>6. ServerOK(t)
    BY <1>1, <1>2, <1>3, <1>4, <1>5 DEF ServerOK, SameStream
  <1>7. NoNews(s, t)
    BY FinsHeard DEF NoNews, FinHeard, Unfinished, Finished
  <1> QED
    BY <1>6, <1>7, ServerMoves
-----------------------------------------------------------------------------
(***************************************************************************)
(* The Client's OPEN, SEND and CLOSE.                                      *)
(***************************************************************************)

\* d is c after a new call x of kind k; what else differs is said below.
Called(c, d, x, k) ==
    /\ c.call[x] = "idle"
    /\ \A y \in Call : d.call[y] = IF y = x THEN k ELSE c.call[y]
    /\ d.rcvWnd = c.rcvWnd /\ d.rcvCmd = c.rcvCmd

\* The call waits on e, or has failed.
WaitsOn(c, d, x, e) ==
    /\ d.retxQueue = c.retxQueue \cup {e} /\ e.call = x
    /\ \A y \in Call : d.errCh[y] = c.errCh[y]

\* OPEN: nothing of an earlier connection is about.
LEMMA ClientOpens ==
    ASSUME NEW c \in Pcb, NEW d \in Pcb, NEW s, NEW w, NEW x \in Call, NEW e,
           ConnOK(c, s, w), \A y \in Call : c.call[y] # "open",
           Called(c, d, x, "open"),
           d.foreign = Server, d.una = d.iss, d.nxt = d.iss + 1,
           \/ /\ d.state = "SYN-SENT" /\ WaitsOn(c, d, x, e)
              /\ e.flag = {"SYN"} /\ e.data = <<>> /\ e.seq = d.iss
           \/ /\ d.state = c.state /\ d.retxQueue = c.retxQueue
              /\ \A y \in Call \ {x} : d.errCh[y] = c.errCh[y]
    PROVE  ConnOK(d, s, w)
  <1>1. /\ ClientOK(c) /\ ServerOK(s) /\ EndsOK(c, s)
        /\ d.iss \in Nat /\ c.errCh[x] = <<>>
    BY PcbFields DEF ConnOK, ClientOK, Called
  <1>2. c.foreign = AnyEndpoint /\ c.state = "CLOSED" /\ c.retxQueue = {}
    BY <1>1 DEF ClientOK, ClientEntry
  <1>3. ~Heard(s)
    BY <1>1, <1>2, TwoHosts DEF EndsOK
  <1>4. \A f \in d.retxQueue : f = e /\ ClientEntry(d, e)
    <2> SUFFICES ASSUME NEW f \in d.retxQueue PROVE f = e /\ ClientEntry(d, e)
      OBVIOUS
    <2>1. f = e /\ e.flag = {"SYN"} /\ e.data = <<>> /\ d.state = "SYN-SENT"
          /\ e.seq = d.iss /\ WaitsOn(c, d, x, e)
      BY <1>2 DEF WaitsOn
    <2>2. SeqLen(e) = 1
      <3>1. Len(e.data) = 0 /\ e.flag \cap {"SYN", "FIN"} # {}
        BY <2>1
      <3> QED
        BY <3>1 DEF SeqLen
    <2>3. e.call = x /\ d.call[x] = "open" /\ d.errCh[x] = <<>>
      BY <1>1, <2>1 DEF WaitsOn, Called
    <2> QED
      BY <2>1, <2>2, <2>3 DEF ClientEntry
  <1>5. \A y \in Call : d.call[y] = "idle" => d.errCh[y] = <<>>
    BY <1>1 DEF ClientOK, Called, WaitsOn
  <1>6. d.state # "CLOSED" => d.retxQueue # {}
    BY <1>2 DEF WaitsOn
  <1>7. ClientOK(d)
    <2>1. d.rcvWnd = 0 /\ d.rcvCmd = NoRcv /\ d.call[x] = "open"
      BY <1>1 DEF ClientOK, Called
    <2>2. d.state \in {"CLOSED", "SYN-SENT"}
      BY <1>2
    <2>3. d.iss < d.nxt /\ d.iss <= d.una /\ d.una <= d.nxt
      BY <1>1
    <2> QED
      BY <1>4, <1>5, <1>6, <2>1, <2>2, <2>3 DEF ClientOK, Joined
  <1>8. EndsOK(d, s)
    <2>1. d.state \in {"CLOSED", "SYN-SENT"}
      BY <1>2
    <2>2. s.state \notin Finished
      BY <1>1, <1>3 DEF ServerOK, Finished
    <2>3. \A y \in Call : ~(d.call[y] = "close" /\ d.errCh[y] = <<"ok">>)
      <3> SUFFICES ASSUME NEW y \in Call, d.call[y] = "close", d.errCh[y] = <<"ok">>
                   PROVE  FALSE
        OBVIOUS
      <3>1. y # x /\ c.call[y] = "close"
        BY DEF Called
      <3>2. c.errCh[y] = <<"ok">>
        BY <3>1 DEF WaitsOn
      <3> QED
        BY <1>1, <1>3, <3>1, <3>2 DEF EndsOK
    <2> QED
      BY <1>3, <2>1, <2>2, <2>3 DEF EndsOK, Joined
  <1>9. ASSUME NEW m \in w PROVE m.src = Server /\ FromServer(d, s, m) /\ m.data = <<>>
    <2>1. m.src = Server /\ FromServer(c, s, m)
      BY <1>2, <1>9, TwoHosts DEF ConnOK, WireOK, FromClient
    <2> QED
      BY <1>3, <2>1 DEF FromServer
  <1>10. \A f \in d.retxQueue : f.data = <<>>
    BY <1>2 DEF WaitsOn
  <1>11. Texts(d, w) = {}
    BY <1>9, <1>10 DEF Texts
  <1> QED
    BY <1>1, <1>7, <1>8, <1>9, <1>11 DEF ConnOK, WireOK, TextsOK

\* Everything the Client sent is acknowledged: all lies below snd.nxt.
LEMMA AllAcked ==
    ASSUME NEW c \in Pcb, NEW s \in Pcb, NEW w \in SUBSET Segment, ConnOK(c, s, w),
           c.state = "ESTABLISHED", c.retxQueue = {}
    PROVE  /\ c.una = c.nxt /\ c.foreign = Server /\ Heard(s)
           /\ c.iss < c.una /\ s.rcvNxt = c.una
           /\ s.state \notin Finished /\ Closed(c) = {}
           /\ c.rcvNxt = s.iss + 1
           /\ \A t \in Texts(c, w) : t.seq + Len(t.data) <= c.una
  <1>1. c.una \in Nat /\ c.nxt \in Nat /\ c.iss \in Nat /\ s.rcvNxt \in Nat
    BY PcbFields
  <1>2. c.una = c.nxt /\ c.foreign = Server /\ Heard(s) /\ c.iss < c.una
    BY DEF ConnOK, ClientOK, EndsOK, Joined
  <1>3. s.rcvNxt = c.una /\ c.rcvNxt = s.iss + 1
    BY <1>2 DEF ConnOK, EndsOK, Joined
  <1>4. s.state \notin Finished /\ Closed(c) = {}
    BY DEF ConnOK, EndsOK, Closed
  <1>5. ASSUME NEW t \in Texts(c, w) PROVE t.seq + Len(t.data) <= c.una
    <2>1. t \in w /\ t.src = Client /\ t.data # <<>>
      BY DEF Texts
    <2>2. FromClient(c, s, t)
      BY <2>1, TwoHosts DEF ConnOK, WireOK
    <2>3. t.seq + SeqLen(t) <= c.nxt
      BY <2>1, <2>2 DEF FromClient
    <2>4. /\ t.seq \in Nat /\ Len(t.data) \in Nat
          /\ SeqLen(t) \in Nat /\ Len(t.data) <= SeqLen(t)
      BY <2>1, SegFields
    <2> QED
      BY <1>1, <1>2, <2>3, <2>4
  <1> QED
    BY <1>2, <1>3, <1>4, <1>5

\* SEND: the text takes the sequence numbers from snd.una = snd.nxt on, and
\* fits the window the Server advertised when it acknowledged the last.
LEMMA ClientQueues ==
    ASSUME NEW c \in Pcb, NEW d \in Pcb, NEW s \in Pcb, NEW w \in SUBSET Segment,
           NEW x \in Call, NEW e, NEW m,
           ConnOK(c, s, w), c.state = "ESTABLISHED", c.retxQueue = {},
           Called(c, d, x, "send"), WaitsOn(c, d, x, e),
           d.foreign = c.foreign, d.iss = c.iss, d.una = c.una, d.wnd = c.wnd,
           d.wl1 = c.wl1, d.wl2 = c.wl2, d.rcvNxt = c.rcvNxt, d.state = c.state,
           d.nxt = c.nxt + Len(e.data),
           e.flag = {"ACK"}, e.seq = c.nxt, e.data # <<>>, Len(e.data) <= c.wnd,
           m.src = Client, m.dst = Server, m.flag = {"ACK"}, m.seq = c.nxt,
           m.ack = c.rcvNxt, m.data = e.data
    PROVE  ConnOK(d, s, w) /\ Sendable(d, s, m)
  <1>1. /\ c.una = c.nxt /\ c.foreign = Server /\ Heard(s)
        /\ c.iss < c.una /\ s.rcvNxt = c.una
        /\ s.state \notin Finished /\ Closed(c) = {}
        /\ c.rcvNxt = s.iss + 1
        /\ \A t \in Texts(c, w) : t.seq + Len(t.data) <= c.una
    BY AllAcked
  <1>2. /\ c.una \in Nat /\ c.nxt \in Nat /\ c.iss \in Nat /\ s.rcvNxt \in Nat
        /\ d.nxt \in Nat /\ c.wnd \in Nat /\ s.rcvWnd \in Nat /\ s.iss \in Nat
    BY PcbFields
  <1>3. e \in RetxEntry /\ d.retxQueue = {e}
    BY PcbFields DEF WaitsOn
  <1>4. /\ Len(e.data) \in Nat /\ Len(e.data) > 0 /\ SeqLen(e) = Len(e.data)
    BY <1>3, SegFields
  <1>5. SeqLen(m) = Len(e.data)
    BY <1>4 DEF SeqLen
  <1>6. ClientOK(c) /\ c.errCh[x] = <<>>
    BY DEF ConnOK, ClientOK, Called
  <1>7. ClientEntry(d, e)
    <2>1. e.call = x /\ d.call[x] = "send" /\ d.errCh[x] = <<>>
      BY <1>6 DEF WaitsOn, Called
    <2> QED
      BY <1>1, <1>4, <2>1 DEF ClientEntry
  <1>8. ClientOK(d)
    <2>1. d.rcvWnd = 0 /\ d.rcvCmd = NoRcv
      BY <1>6 DEF ClientOK, Called
    <2>2. \E y \in Call : d.call[y] = "open"
      BY <1>1, <1>6, TwoHosts DEF ClientOK, Called
    <2>3. \A y \in Call : d.call[y] = "idle" => d.errCh[y] = <<>>
      BY <1>6 DEF ClientOK, Called, WaitsOn
    <2>4. d.iss < d.nxt /\ d.iss < d.una /\ d.una <= d.nxt
      BY <1>1, <1>2, <1>4
    <2>5. d.state = "ESTABLISHED" /\ d.foreign = Server
      BY <1>1
    <2> QED
      BY <1>2, <1>3, <1>7, <2>1, <2>2, <2>3, <2>4, <2>5 DEF ClientOK, Joined
  <1>9. EndsOK(d, s)
    <2>1. EndsOK(c, s)
      BY DEF ConnOK
    <2>2. \A y \in Call : ~(d.call[y] = "close" /\ d.errCh[y] = <<"ok">>)
      BY <1>1 DEF Closed, Called, WaitsOn
    <2>3. d.una # d.nxt
      BY <1>1, <1>2, <1>4
    <2>4. d.rcvNxt = s.iss + 1 /\ d.wl1 <= d.rcvNxt /\ d.wl2 <= d.una
      BY <2>1 DEF EndsOK, Joined
    <2> QED
      BY <1>1, <1>2, <2>1, <2>2, <2>3, <2>4 DEF EndsOK
  <1>10. WireOK(d, s, w)
    <2>1. ASSUME NEW n \in w, n.src = Client, FromClient(c, s, n)
          PROVE  FromClient(d, s, n)
      <3>1. n.seq \in Nat /\ SeqLen(n) \in Nat
        BY SegFields
      <3>2. n.seq + SeqLen(n) <= c.nxt => n.seq + SeqLen(n) <= d.nxt
        BY <1>2, <1>4, <3>1
      <3> QED
        BY <1>1, <2>1, <3>2 DEF FromClient
    <2>2. ASSUME NEW n, FromServer(c, s, n) PROVE FromServer(d, s, n)
      BY <1>1, <1>2, <2>2 DEF FromServer
    <2> QED
      BY <2>1, <2>2 DEF ConnOK, WireOK
  <1>11. TextsOK(d, s, w)
    <2>1. Texts(d, w) \subseteq Texts(c, w) \cup {e}
      BY <1>3 DEF Texts
    <2>2. ASSUME NEW t \in Texts(c, w) PROVE t.seq # e.seq
      <3>1. t \in w /\ t.data # <<>>
        BY DEF Texts, WaitsOn
      <3>2. t.seq \in Nat /\ Len(t.data) \in Nat /\ Len(t.data) > 0
        BY <3>1, SegFields
      <3> QED
        BY <1>1, <1>2, <3>2
    <2>3. TextOK(d, s, e)
      <3>1. Len(e.data) <= s.rcvWnd
        <4>1. c.wnd <= s.rcvWnd
          BY <1>1 DEF ConnOK, EndsOK
        <4> QED
          BY <1>2, <1>4, <4>1
      <3>2. ~(e.seq + Len(e.data) <= s.rcvNxt)
        BY <1>1, <1>2, <1>4
      <3> QED
        BY <3>1, <3>2 DEF TextOK
    <2>4. \A t \in Texts(c, w) : TextOK(d, s, t)
      BY <1>1 DEF ConnOK, TextsOK, TextOK
    <2>5. \A n \in w : n.src = Client => n.flag # {"ACK", "FIN"}
      BY TwoHosts DEF ConnOK, WireOK, FromClient
    <2>6. \A t, u \in Texts(c, w) : t.seq = u.seq => t.data = u.data
      BY DEF ConnOK, TextsOK
    <2>7. \A t, u \in Texts(d, w) : t.seq = u.seq => t.data = u.data
      BY <2>1, <2>2, <2>6
    <2> QED
      BY <2>1, <2>3, <2>4, <2>5, <2>7 DEF TextsOK
  <1>12. Sendable(d, s, m)
    <2>1. FromClient(d, s, m)
      BY <1>1, <1>2, <1>4, <1>5 DEF FromClient
    <2>2. m.flag # {"ACK", "FIN"}
      OBVIOUS
    <2> QED
      BY <1>3, <2>1, <2>2 DEF Sendable
  <1>13. ConnOK(d, s, w)
    BY <1>8, <1>9, <1>10, <1>11 DEF ConnOK
  <1> QED
    BY <1>12, <1>13

\* CLOSE: the FIN takes one number after all the text.
LEMMA ClientCloses ==
    ASSUME NEW c \in Pcb, NEW d \in Pcb, NEW s \in Pcb, NEW w \in SUBSET Segment,
           NEW x \in Call, NEW e, NEW m,
           ConnOK(c, s, w), c.state = "ESTABLISHED", c.retxQueue = {},
           Called(c, d, x, "close"), WaitsOn(c, d, x, e),
           d.foreign = c.foreign, d.iss = c.iss, d.una = c.una, d.wnd = c.wnd,
           d.wl1 = c.wl1, d.wl2 = c.wl2, d.rcvNxt = c.rcvNxt,
           d.state = "FIN-WAIT-1", d.nxt = c.nxt + 1,
           e.flag = {"ACK", "FIN"}, e.seq = c.nxt, e.data = <<>>,
           m.src = Client, m.dst = Server, m.flag = {"ACK", "FIN"},
           m.seq = c.nxt, m.ack = c.rcvNxt, m.data = <<>>
    PROVE  ConnOK(d, s, w) /\ Sendable(d, s, m)
  <1>1. /\ c.una = c.nxt /\ c.foreign = Server /\ Heard(s)
        /\ c.iss < c.una /\ s.rcvNxt = c.una
        /\ s.state \notin Finished /\ Closed(c) = {}
        /\ c.rcvNxt = s.iss + 1
        /\ \A t \in Texts(c, w) : t.seq + Len(t.data) <= c.una
    BY AllAcked
  <1>2. /\ c.una \in Nat /\ c.nxt \in Nat /\ c.iss \in Nat /\ s.rcvNxt \in Nat
        /\ d.nxt \in Nat /\ s.iss \in Nat
    BY PcbFields
  <1>3. e \in RetxEntry /\ d.retxQueue = {e}
    BY PcbFields DEF WaitsOn
  <1>4. SeqLen(e) = 1 /\ SeqLen(m) = 1
    <2>1. SeqLen(e) = 1
      BY <1>3, SegFields
    <2> QED
      BY <2>1 DEF SeqLen
  <1>5. ClientOK(c) /\ c.errCh[x] = <<>>
    BY DEF ConnOK, ClientOK, Called
  <1>6. ClientEntry(d, e)
    <2>1. e.call = x /\ d.call[x] = "close" /\ d.errCh[x] = <<>>
      BY <1>5 DEF WaitsOn, Called
    <2> QED
      BY <1>1, <1>4, <2>1 DEF ClientEntry
  <1>7. ClientOK(d)
    <2>1. d.rcvWnd = 0 /\ d.rcvCmd = NoRcv
      BY <1>5 DEF ClientOK, Called
    <2>2. \E y \in Call : d.call[y] = "open"
      BY <1>1, <1>5, TwoHosts DEF ClientOK, Called
    <2>3. \A y \in Call : d.call[y] = "idle" => d.errCh[y] = <<>>
      BY <1>5 DEF ClientOK, Called, WaitsOn
    <2>4. d.iss < d.nxt /\ d.iss < d.una /\ d.una <= d.nxt
      BY <1>1, <1>2
    <2>5. d.foreign = Server
      BY <1>1
    <2> QED
      BY <1>2, <1>3, <1>6, <2>1, <2>2, <2>3, <2>4, <2>5 DEF ClientOK, Joined
  <1>8. EndsOK(d, s)
    <2>1. EndsOK(c, s)
      BY DEF ConnOK
    <2>2. \A y \in Call : ~(d.call[y] = "close" /\ d.errCh[y] = <<"ok">>)
      <3> SUFFICES ASSUME NEW y \in Call, d.call[y] = "close", d.errCh[y] = <<"ok">>
                   PROVE  FALSE
        OBVIOUS
      <3>1. c.errCh[y] = <<"ok">>
        BY DEF WaitsOn
      <3>2. <<"ok">> # <<>>
        OBVIOUS
      <3>3. y # x
        BY <1>5, <3>1, <3>2
      <3> QED
        BY <1>1, <3>1, <3>3 DEF Closed, Called
    <2>3. d.rcvNxt = s.iss + 1 /\ d.wl1 <= d.rcvNxt /\ d.wl2 <= d.una
      BY <2>1 DEF EndsOK, Joined
    <2>4. s.rcvNxt = d.una /\ d.una < d.nxt /\ d.iss < s.rcvNxt
          /\ d.una <= s.rcvNxt
      BY <1>1, <1>2
    <2> QED
      BY <1>1, <2>1, <2>2, <2>3, <2>4 DEF EndsOK
  <1>9. WireOK(d, s, w)
    <2>1. ASSUME NEW n \in w, n.src = Client, FromClient(c, s, n)
          PROVE  FromClient(d, s, n)
      <3>1. n.seq \in Nat /\ SeqLen(n) \in Nat
        BY SegFields
      <3>2. n.seq + SeqLen(n) <= c.nxt =>
                n.seq + SeqLen(n) <= d.nxt /\ n.seq + SeqLen(n) <= d.una
        BY <1>1, <1>2, <3>1
      <3> QED
        BY <1>1, <2>1, <3>2 DEF FromClient
    <2>2. ASSUME NEW n, FromServer(c, s, n) PROVE FromServer(d, s, n)
      BY <1>1, <1>2, <2>2 DEF FromServer
    <2> QED
      BY <2>1, <2>2 DEF ConnOK, WireOK
  <1>10. TextsOK(d, s, w)
    <2>1. Texts(d, w) \subseteq Texts(c, w)
      BY <1>3 DEF Texts
    <2>2. \A t \in Texts(c, w) : TextOK(d, s, t)
      BY <1>1 DEF ConnOK, TextsOK, TextOK
    <2> QED
      BY <2>1, <2>2 DEF ConnOK, TextsOK
  <1>11. Sendable(d, s, m)
    <2>1. FromClient(d, s, m)
      BY <1>1, <1>2, <1>4 DEF FromClient
    <2> QED
      BY <1>1, <2>1 DEF Sendable
  <1>12. ConnOK(d, s, w)
    BY <1>7, <1>8, <1>9, <1>10 DEF ConnOK
  <1> QED
    BY <1>11, <1>12
-----------------------------------------------------------------------------
(***************************************************************************)
(* What reaches the Client: SYN|ACK and ACK.                               *)
(***************************************************************************)

\* What the Client's queue held is acknowledged: d is c after queueAck with
\* snd.una = snd.nxt.
LEMMA AllAnswered ==
    ASSUME NEW c \in Pcb, NEW s, NEW w, ConnOK(c, s, w),
           NEW n \in SeqNum, n = c.nxt, c.una < c.nxt
    PROVE  LET d == queueAck([c EXCEPT !.una = n]) IN
           /\ d \in Pcb /\ d.retxQueue = {} /\ d.rcvCmd = c.rcvCmd
           /\ d.state = c.state /\ d.call = c.call
           /\ d.una = c.nxt /\ Rest([c EXCEPT !.una = n], d)
           /\ \A x \in Call : d.call[x] = "idle" => d.errCh[x] = <<>>
           /\ \A x \in Closed(d) \ Closed(c) : c.state = "FIN-WAIT-1"
  <1> DEFINE o == [c EXCEPT !.una = n]
             d == queueAck(o)
  <1>1. /\ o \in Pcb /\ o.una = n /\ o.retxQueue = c.retxQueue
        /\ o.call = c.call /\ o.errCh = c.errCh /\ o.state = c.state
        /\ o.rcvCmd = c.rcvCmd
    BY DEF Pcb
  <1>2. ClientOK(c) /\ c.una \in Nat /\ c.nxt \in Nat
    BY PcbFields DEF ConnOK
  <1> HIDE DEF o
  <1>3. Acked(o) = c.retxQueue
    BY <1>1, <1>2 DEF Acked, ClientOK, ClientEntry
  <1>4. /\ d \in Pcb /\ Rest(o, d) /\ d.state = o.state
        /\ d.retxQueue = o.retxQueue \ Acked(o) /\ d.rcvCmd = o.rcvCmd
        /\ Told(o, d, Callers(Acked(o)), "ok")
    BY <1>1, queueAckFields
  <1> HIDE DEF d
  <1>5. d.retxQueue = {} /\ d.call = c.call /\ d.una = c.nxt
    BY <1>1, <1>3, <1>4 DEF Rest
  <1>6. ASSUME NEW x \in Callers(c.retxQueue)
        PROVE  c.call[x] # "idle" /\ (c.call[x] = "close" => c.state = "FIN-WAIT-1")
    <2>1. PICK f \in c.retxQueue : f.call = x
      BY DEF Callers
    <2>2. ClientEntry(c, f)
      BY <1>2 DEF ClientOK
    <2> QED
      BY <2>1, <2>2 DEF ClientEntry
  <1>7. \A x \in Call : d.call[x] = "idle" => d.errCh[x] = <<>>
    BY <1>1, <1>2, <1>3, <1>4, <1>6 DEF Told, ClientOK
  <1>8. \A x \in Closed(d) \ Closed(c) : c.state = "FIN-WAIT-1"
    BY <1>1, <1>3, <1>4, <1>6 DEF Told, Closed
  <1> QED
    BY <1>1, <1>4, <1>5, <1>7, <1>8 DEF d, o

\* c after the Server's SYN|ACK m.
Opened(c, m) == signalOpen([SynSentSyn(c, m, TRUE) EXCEPT
                                !.state = "ESTABLISHED", !.wnd = m.wnd,
                                !.wl1 = m.seq, !.wl2 = m.ack])

\* The Server's SYN|ACK opens the Client's end.
LEMMA ClientEstablishes ==
    ASSUME NEW c \in Pcb, NEW s \in Pcb, NEW w \in SUBSET Segment, NEW m \in w,
           ConnOK(c, s, w), Roomy(s), c.state = "SYN-SENT",
           m.src = Server, FromServer(c, s, m), "RST" \notin m.flag,
           "SYN" \in m.flag
    PROVE  LET q == SynSentSyn(c, m, TRUE)
               d == Opened(c, m)
           IN  /\ q.una > q.iss
               /\ d \in Pcb /\ ConnOK(d, s, w)
               /\ d.state = "ESTABLISHED" /\ d.foreign = Server
  <1>1. /\ c.una \in Nat /\ c.nxt \in Nat /\ c.iss \in Nat /\ s.rcvNxt \in Nat
        /\ s.iss \in Nat /\ s.rcvWnd \in Nat
        /\ m \in Segment /\ m.seq \in SeqNum /\ m.ack \in SeqNum /\ m.wnd \in Wnd
        /\ m.ack \in Nat
    BY PcbFields, AckFields DEF Segment
  <1>2. /\ ClientOK(c) /\ EndsOK(c, s)
        /\ c.foreign = Server /\ c.una = c.iss /\ c.nxt = c.iss + 1
    BY DEF ConnOK, ClientOK
  <1>3. /\ m.flag = {"SYN", "ACK"} /\ m.seq = s.iss /\ Heard(s)
        /\ m.ack = c.nxt /\ m.ack = s.rcvNxt /\ m.wnd <= s.rcvWnd
    <2>1. m.flag = {"SYN", "ACK"} /\ m.seq = s.iss /\ Heard(s)
          /\ c.iss < m.ack /\ m.ack <= s.rcvNxt
          /\ (m.ack <= c.una \/ m.ack = c.nxt)
      BY DEF FromServer
    <2>2. s.rcvNxt = c.una \/ s.rcvNxt = c.nxt
      BY <1>2, <2>1 DEF EndsOK
    <2>3. m.ack = c.nxt /\ m.ack = s.rcvNxt
      BY <1>1, <1>2, <2>1, <2>2
    <2>4. "FIN" \notin m.flag
      BY <2>1
    <2>5. m.wnd <= s.rcvWnd
      BY <2>3, <2>4 DEF FromServer
    <2> QED
      BY <2>1, <2>3, <2>5
  <1>4. Plus(m.seq, 1) = s.iss + 1 /\ Plus(m.seq, 1) \in SeqNum
    <2>1. s.iss + 1 < SeqMod
      BY <1>1, Sizes DEF Roomy
    <2> QED
      BY <1>1, <1>3, <2>1, PlusIsSum, PlusType, SmallType
  <1> DEFINE b == [c EXCEPT !.rcvNxt = Plus(m.seq, 1)]
             o == [b EXCEPT !.una = m.ack]
             q == queueAck(o)
             r == [q EXCEPT !.state = "ESTABLISHED", !.wnd = m.wnd,
                            !.wl1 = m.seq, !.wl2 = m.ack]
             d == signalOpen(r)
  <1>5. SynSentSyn(c, m, TRUE) = q
    BY DEF SynSentSyn
  <1>6. b \in Pcb /\ b.retxQueue = c.retxQueue /\ b.call = c.call
        /\ b.errCh = c.errCh /\ b.rcvCmd = c.rcvCmd /\ b.state = c.state
        /\ b.foreign = c.foreign /\ b.iss = c.iss /\ b.una = c.una /\ b.nxt = c.nxt
        /\ b.rcvWnd = c.rcvWnd /\ b.rcvNxt = s.iss + 1
    BY <1>4 DEF Pcb
  <1> HIDE DEF b
  <1>7. /\ o \in Pcb /\ o.retxQueue = c.retxQueue /\ o.call = c.call
        /\ o.errCh = c.errCh /\ o.rcvCmd = c.rcvCmd /\ o.state = c.state
        /\ o.foreign = c.foreign /\ o.iss = c.iss /\ o.nxt = c.nxt /\ o.una = m.ack
        /\ o.rcvWnd = c.rcvWnd /\ o.rcvNxt = s.iss + 1
    BY <1>1, <1>6 DEF Pcb
  <1> HIDE DEF o
  <1>8. /\ q \in Pcb /\ Rest(o, q) /\ q.state = o.state
        /\ q.retxQueue = o.retxQueue \ Acked(o) /\ q.rcvCmd = o.rcvCmd
        /\ Told(o, q, Callers(Acked(o)), "ok")
    BY <1>7, queueAckFields
  <1> HIDE DEF q
  <1>9. Acked(o) = c.retxQueue
    BY <1>1, <1>2, <1>3, <1>7 DEF Acked, ClientOK, ClientEntry
  <1>10. /\ r \in Pcb /\ r.retxQueue = {} /\ r.call = q.call
         /\ r.errCh = q.errCh /\ r.rcvCmd = q.rcvCmd /\ r.state = "ESTABLISHED"
         /\ r.foreign = q.foreign /\ r.iss = q.iss /\ r.nxt = q.nxt /\ r.una = q.una
         /\ r.rcvWnd = q.rcvWnd /\ r.rcvNxt = q.rcvNxt
         /\ r.wnd = m.wnd /\ r.wl1 = m.seq /\ r.wl2 = m.ack
    <2>1. r \in Pcb
      BY <1>1, <1>8 DEF Pcb, State
    <2>2. q.retxQueue = {}
      BY <1>7, <1>8, <1>9
    <2> QED
      BY <1>8, <2>1, <2>2 DEF Pcb
  <1> HIDE DEF r
  <1>11. /\ d \in Pcb /\ Rest(r, d) /\ d.state = r.state
         /\ d.retxQueue = {} /\ d.rcvCmd = r.rcvCmd /\ d.errCh = r.errCh
    BY <1>10, signalOpenFields
  <1> HIDE DEF d
  <1>12. /\ d.foreign = Server /\ d.iss = c.iss /\ d.nxt = c.nxt /\ d.una = c.nxt
         /\ d.rcvWnd = 0 /\ d.rcvNxt = s.iss + 1 /\ d.rcvCmd = NoRcv
         /\ d.wnd = m.wnd /\ d.wl1 = m.seq /\ d.wl2 = m.ack
         /\ d.state = "ESTABLISHED" /\ d.call = c.call /\ d.errCh = q.errCh
         /\ q.una = c.nxt /\ q.iss = c.iss
    BY <1>2, <1>3, <1>7, <1>8, <1>10, <1>11 DEF Rest, ClientOK
  <1>13. \A x \in Callers(c.retxQueue) : c.call[x] \notin {"idle", "close"}
    BY <1>2 DEF Callers, ClientOK, ClientEntry
  <1>14. ClientOK(d)
    <2>1. \A x \in Call : d.call[x] = "idle" => d.errCh[x] = <<>>
      BY <1>2, <1>7, <1>8, <1>9, <1>12, <1>13 DEF ClientOK, Told
    <2>2. \E x \in Call : d.call[x] = "open"
      BY <1>2, <1>12, TwoHosts DEF ClientOK
    <2>3. d.iss < d.nxt /\ d.iss < d.una /\ d.una = d.nxt /\ d.una \in Nat
      BY <1>1, <1>2, <1>12
    <2> QED
      BY <1>1, <1>11, <1>12, <2>1, <2>2, <2>3 DEF ClientOK, Joined
  <1>15. EndsOK(d, s)
    <2>1. \A x \in Call : ~(d.call[x] = "close" /\ d.errCh[x] = <<"ok">>)
      <3> SUFFICES ASSUME NEW x \in Call, d.call[x] = "close", d.errCh[x] = <<"ok">>
                   PROVE  FALSE
        OBVIOUS
      <3>1. c.call[x] = "close" /\ c.errCh[x] = <<"ok">>
        BY <1>7, <1>8, <1>9, <1>12, <1>13 DEF Told
      <3> QED
        BY <1>2, <3>1 DEF EndsOK
    <2>2. s.state \notin Finished
      BY <1>2 DEF EndsOK
    <2>5. d.wl1 = s.iss /\ d.wl2 = d.una /\ d.una = s.rcvNxt /\ d.rcvNxt = s.iss + 1
      BY <1>3, <1>12
    <2>3. d.wl1 <= d.rcvNxt /\ d.wl2 <= d.una /\ d.una = s.rcvNxt /\ d.una <= s.rcvNxt
      BY <1>1, <2>5
    <2>4. d.wnd <= s.rcvWnd /\ s.rcvNxt - (d.iss + 1) - (Len(s.read) + s.rxLen) \in FinHeard(s)
          /\ d.iss < s.rcvNxt
      BY <1>2, <1>3, <1>12 DEF EndsOK
    <2> QED
      BY <1>3, <1>12, <2>1, <2>2, <2>3, <2>4 DEF EndsOK
  <1>16. ASSUME NEW n \in w, n.src = Client, FromClient(c, s, n)
         PROVE  FromClient(d, s, n) /\ n.data = <<>> /\ n.flag # {"ACK", "FIN"}
    <2>1. ~(c.iss < c.una)
      BY <1>1, <1>2
    <2>2. \/ "RST" \in n.flag /\ n.data = <<>>
          \/ n.flag = {"SYN"} /\ n.data = <<>> /\ n.seq = c.iss
      BY <1>16, <2>1 DEF FromClient
    <2>3. n.flag # {"ACK", "FIN"}
      BY <2>2
    <2> QED
      BY <1>2, <1>12, <1>16, <2>2, <2>3 DEF FromClient
  <1>17. ASSUME NEW n \in w, FromServer(c, s, n) PROVE FromServer(d, s, n)
    <2>1. n.ack <= c.una \/ n.ack = c.nxt => n.ack <= d.una \/ n.ack = d.nxt
      <3>1. n.ack \in Nat
        BY AckFields
      <3> QED
        BY <1>1, <1>2, <1>12, <3>1
    <2> QED
      BY <1>12, <1>17, <2>1 DEF FromServer
  <1>18. WireOK(d, s, w)
    BY <1>16, <1>17 DEF ConnOK, WireOK
  <1>19. Texts(d, w) = {}
    BY <1>11, <1>16, TwoHosts DEF Texts, ConnOK, WireOK
  <1>20. TextsOK(d, s, w)
    BY <1>19 DEF TextsOK
  <1>21. ConnOK(d, s, w)
    BY <1>14, <1>15, <1>18, <1>20 DEF ConnOK
  <1>22. q.una > q.iss
    BY <1>1, <1>2, <1>12
  <1> QED
    BY <1>5, <1>11, <1>12, <1>21, <1>22 DEF d, r, Opened

\* ProcessAck, field by field.
LEMMA ProcessAckFields ==
    ASSUME NEW p \in Pcb, NEW m \in Segment
    PROVE  LET new == p.una < m.ack /\ m.ack <= p.nxt
               newWnd == new /\ (p.wl1 < m.seq \/ (p.wl1 = m.seq /\ p.wl2 <= m.ack))
               q == queueAck([p EXCEPT !.una = m.ack])
               d == ProcessAck(p, m)
           IN  /\ d \in Pcb /\ d.foreign = p.foreign /\ d.iss = p.iss
               /\ d.nxt = p.nxt /\ d.rcvNxt = p.rcvNxt /\ d.rcvWnd = p.rcvWnd
               /\ d.rxQueue = p.rxQueue /\ d.rxLen = p.rxLen /\ d.read = p.read
               /\ d.call = p.call /\ d.rcvCmd = p.rcvCmd
               /\ p.state = "FIN-WAIT-1" /\ m.ack = p.nxt => d.state = "FIN-WAIT-2"
               /\ p.state = "CLOSING" /\ m.ack = p.nxt => d.state = "TIME-WAIT"
               /\ p.state \notin {"FIN-WAIT-1", "CLOSING"} \/ m.ack # p.nxt =>
                    d.state = p.state
               /\ ~new => /\ d.una = p.una /\ d.retxQueue = p.retxQueue
                          /\ d.errCh = p.errCh
               /\ new => /\ d.una = m.ack /\ d.retxQueue = q.retxQueue
                         /\ d.errCh = q.errCh
               /\ ~newWnd => d.wnd = p.wnd /\ d.wl1 = p.wl1 /\ d.wl2 = p.wl2
               /\ newWnd => d.wnd = m.wnd /\ d.wl1 = m.seq /\ d.wl2 = m.ack
  <1> DEFINE new == p.una < m.ack /\ m.ack <= p.nxt
             newWnd == new /\ (p.wl1 < m.seq \/ (p.wl1 = m.seq /\ p.wl2 <= m.ack))
             o == [p EXCEPT !.una = m.ack]
             q == queueAck(o)
             u == IF new THEN q ELSE p
             r == IF newWnd
                  THEN [u EXCEPT !.wnd = m.wnd, !.wl1 = m.seq, !.wl2 = m.ack]
                  ELSE u
             x == CASE r.state = "FIN-WAIT-1" -> "FIN-WAIT-2"
                    [] r.state = "CLOSING" -> "TIME-WAIT"
                    [] OTHER -> r.state
             d == ProcessAck(p, m)
  <1>1. d = IF m.ack # p.nxt THEN r ELSE [r EXCEPT !.state = x]
    BY DEF ProcessAck
  <1>2. d \in Pcb
    BY ProcessAckType
  <1>3. o \in Pcb /\ o.una = m.ack
        /\ o.foreign = p.foreign /\ o.iss = p.iss /\ o.nxt = p.nxt
        /\ o.rcvNxt = p.rcvNxt /\ o.rcvWnd = p.rcvWnd /\ o.rxQueue = p.rxQueue
        /\ o.rxLen = p.rxLen /\ o.read = p.read /\ o.call = p.call
        /\ o.rcvCmd = p.rcvCmd /\ o.state = p.state /\ o.wnd = p.wnd
        /\ o.wl1 = p.wl1 /\ o.wl2 = p.wl2
    BY DEF Pcb, Segment, Rest
  <1>4. q \in Pcb /\ Rest(o, q) /\ q.state = o.state /\ q.rcvCmd = o.rcvCmd
    BY <1>3, queueAckFields
  <1>5. m.seq \in SeqNum /\ m.ack \in SeqNum /\ m.wnd \in Wnd
    BY DEF Segment
  <1> HIDE DEF o, q, new, newWnd
  <1>6. /\ u \in Pcb /\ u.foreign = p.foreign /\ u.iss = p.iss /\ u.nxt = p.nxt
        /\ u.rcvNxt = p.rcvNxt /\ u.rcvWnd = p.rcvWnd /\ u.rxQueue = p.rxQueue
        /\ u.rxLen = p.rxLen /\ u.read = p.read /\ u.call = p.call
        /\ u.rcvCmd = p.rcvCmd /\ u.state = p.state
        /\ ~new => u.una = p.una /\ u.retxQueue = p.retxQueue /\ u.errCh = p.errCh
        /\ new => u.una = m.ack /\ u.retxQueue = q.retxQueue /\ u.errCh = q.errCh
        /\ u.wnd = p.wnd /\ u.wl1 = p.wl1 /\ u.wl2 = p.wl2
    BY <1>3, <1>4 DEF Rest
  <1> HIDE DEF u
  <1>7. /\ r \in Pcb /\ r.foreign = u.foreign /\ r.iss = u.iss /\ r.nxt = u.nxt
        /\ r.rcvNxt = u.rcvNxt /\ r.rcvWnd = u.rcvWnd /\ r.rxQueue = u.rxQueue
        /\ r.rxLen = u.rxLen /\ r.read = u.read /\ r.call = u.call
        /\ r.rcvCmd = u.rcvCmd /\ r.state = u.state /\ r.una = u.una
        /\ r.retxQueue = u.retxQueue /\ r.errCh = u.errCh
        /\ ~newWnd => r.wnd = p.wnd /\ r.wl1 = p.wl1 /\ r.wl2 = p.wl2
        /\ newWnd => r.wnd = m.wnd /\ r.wl1 = m.seq /\ r.wl2 = m.ack
    BY <1>5, <1>6 DEF Pcb
  <1> HIDE DEF r
  <1>8. /\ r.state = "FIN-WAIT-1" => x = "FIN-WAIT-2"
        /\ r.state = "CLOSING" => x = "TIME-WAIT"
        /\ r.state \notin {"FIN-WAIT-1", "CLOSING"} => x = r.state
    OBVIOUS
  <1> HIDE DEF x, d
  <1>9. /\ d.foreign = r.foreign /\ d.iss = r.iss /\ d.nxt = r.nxt
        /\ d.rcvNxt = r.rcvNxt /\ d.rcvWnd = r.rcvWnd /\ d.rxQueue = r.rxQueue
        /\ d.rxLen = r.rxLen /\ d.read = r.read /\ d.call = r.call
        /\ d.rcvCmd = r.rcvCmd /\ d.una = r.una /\ d.retxQueue = r.retxQueue
        /\ d.errCh = r.errCh /\ d.wnd = r.wnd /\ d.wl1 = r.wl1 /\ d.wl2 = r.wl2
        /\ m.ack = p.nxt => d.state = x
        /\ m.ack # p.nxt => d.state = r.state
    BY <1>1, <1>7 DEF Pcb
  <1>10. /\ p.state = "FIN-WAIT-1" /\ m.ack = p.nxt => d.state = "FIN-WAIT-2"
         /\ p.state = "CLOSING" /\ m.ack = p.nxt => d.state = "TIME-WAIT"
         /\ p.state \notin {"FIN-WAIT-1", "CLOSING"} \/ m.ack # p.nxt =>
                d.state = p.state
    BY <1>6, <1>7, <1>8, <1>9
  <1> QED
    BY <1>2, <1>6, <1>7, <1>9, <1>10 DEF d, new, newWnd, q, o

\* An ACK of the Server acknowledges nothing new, or everything.
LEMMA ClientIsAcked ==
    ASSUME NEW c \in Pcb, NEW s \in Pcb, NEW w \in SUBSET Segment, NEW m \in w,
           ConnOK(c, s, w), c.state \in Joined,
           FromServer(c, s, m), m.flag = {"ACK"}, m.seq = c.rcvNxt
    PROVE  ConnOK(ProcessAck(c, m), s, w)
  <1> DEFINE d == ProcessAck(c, m)
             q == queueAck([c EXCEPT !.una = m.ack])
  <1>1. /\ c.una \in Nat /\ c.nxt \in Nat /\ c.iss \in Nat /\ s.rcvNxt \in Nat
        /\ c.rcvNxt \in Nat /\ c.wl1 \in Nat /\ c.wl2 \in Nat
        /\ m \in Segment /\ m.ack \in SeqNum /\ m.ack \in Nat /\ m.seq \in Nat
    BY PcbFields, AckFields, SegFields DEF Segment
  <1>2. ClientOK(c) /\ ServerOK(s) /\ EndsOK(c, s)
    BY DEF ConnOK
  <1>3. /\ c.foreign = Server /\ Heard(s) /\ c.iss < c.una /\ c.una <= c.nxt
        /\ c.una <= s.rcvNxt /\ (s.rcvNxt = c.una \/ s.rcvNxt = c.nxt)
        /\ c.wl1 <= m.seq /\ c.wl2 <= c.una
    BY <1>2 DEF ClientOK, EndsOK, Joined
  <1>4. /\ c.iss < m.ack /\ m.ack <= s.rcvNxt /\ (m.ack <= c.una \/ m.ack = c.nxt)
        /\ m.ack = s.rcvNxt => m.wnd <= s.rcvWnd
    BY DEF FromServer
  <1>5. /\ d \in Pcb /\ d.foreign = c.foreign /\ d.iss = c.iss
        /\ d.nxt = c.nxt /\ d.rcvNxt = c.rcvNxt /\ d.rcvWnd = c.rcvWnd
        /\ d.call = c.call /\ d.rcvCmd = c.rcvCmd
        /\ c.state = "FIN-WAIT-1" /\ m.ack = c.nxt => d.state = "FIN-WAIT-2"
        /\ c.state # "FIN-WAIT-1" \/ m.ack # c.nxt => d.state = c.state
    BY <1>1, ProcessAckFields DEF Joined
  <1>6. CASE c.una = c.nxt \/ m.ack # c.nxt
    <2>1. ~(c.una < m.ack /\ m.ack <= c.nxt)
      BY <1>1, <1>3, <1>4, <1>6
    <2>2. /\ d.una = c.una /\ d.retxQueue = c.retxQueue /\ d.errCh = c.errCh
          /\ d.wnd = c.wnd /\ d.wl1 = c.wl1 /\ d.wl2 = c.wl2
      BY <1>1, <2>1, ProcessAckFields
    <2> HIDE DEF d
    <2>3. CASE d.state = c.state
      <3>1. \A e \in d.retxQueue : ClientEntry(d, e)
        BY <1>2, <1>5, <2>2, <2>3 DEF ClientOK, ClientEntry
      <3>2. ClientOK(d)
        BY <1>2, <1>5, <2>2, <2>3, <3>1 DEF ClientOK
      <3>3. SameNumbers(c, d) /\ Closed(d) \subseteq Closed(c)
        BY <1>5, <2>2, <2>3 DEF SameNumbers, Closed
      <3> QED
        BY <3>2, <3>3, ClientMoves DEF d
    <2>4. CASE c.state = "FIN-WAIT-1" /\ m.ack = c.nxt
      <3>1. c.retxQueue = {}
        <4>1. c.una = c.nxt
          BY <1>6, <2>4
        <4>2. ASSUME NEW e \in c.retxQueue PROVE FALSE
          <5>1. ClientEntry(c, e) /\ e \in RetxEntry
            BY <1>2, PcbFields DEF ClientOK
          <5>2. e.flag = {"ACK", "FIN"} /\ e.data = <<>> /\ c.nxt = c.una + SeqLen(e)
            BY <2>4, <5>1 DEF ClientEntry
          <5>3. SeqLen(e) = 1
            BY <5>1, <5>2, SegFields
          <5> QED
            BY <1>1, <4>1, <5>2, <5>3
        <4> QED
          BY <4>2
      <3>2. d.state = "FIN-WAIT-2" /\ d.retxQueue = {}
        BY <1>5, <2>2, <2>4, <3>1
      <3>3. ClientOK(d)
        BY <1>2, <1>3, <1>5, <1>6, <2>2, <2>4, <3>2 DEF ClientOK, Joined
      <3>4. EndsOK(d, s)
        BY <1>2, <1>5, <2>2, <2>4, <3>2 DEF EndsOK, Joined
      <3>5. ASSUME NEW n, FromClient(c, s, n) PROVE FromClient(d, s, n)
        BY <1>5, <2>2, <2>4, <3>2, <3>5 DEF FromClient
      <3>6. ASSUME NEW n, FromServer(c, s, n) PROVE FromServer(d, s, n)
        BY <1>5, <2>2, <3>6 DEF FromServer
      <3>7. WireOK(d, s, w)
        BY <3>5, <3>6 DEF ConnOK, WireOK
      <3>8. TextsOK(d, s, w)
        <4>1. Texts(d, w) \subseteq Texts(c, w)
          BY <2>2 DEF Texts
        <4> QED
          BY <1>5, <4>1 DEF ConnOK, TextsOK, TextOK
      <3> QED
        BY <1>2, <3>3, <3>4, <3>7, <3>8 DEF ConnOK, d
    <2> QED
      BY <1>5, <2>3, <2>4
  <1>7. CASE c.una # c.nxt /\ m.ack = c.nxt
    <2>1. c.una < m.ack /\ m.ack <= c.nxt /\ (c.wl1 < m.seq \/ (c.wl1 = m.seq /\ c.wl2 <= m.ack))
      BY <1>1, <1>3, <1>7
    <2>2. /\ d.una = m.ack /\ d.retxQueue = q.retxQueue /\ d.errCh = q.errCh
          /\ d.wnd = m.wnd /\ d.wl1 = m.seq /\ d.wl2 = m.ack
      BY <1>1, <2>1, ProcessAckFields
    <2>3. /\ q.retxQueue = {} /\ q.call = c.call
          /\ \A x \in Call : q.call[x] = "idle" => q.errCh[x] = <<>>
          /\ \A x \in Closed(q) \ Closed(c) : c.state = "FIN-WAIT-1"
      BY <1>1, <1>7, <2>1, AllAnswered
    <2> HIDE DEF d, q
    <2>4. s.rcvNxt = c.nxt /\ m.wnd <= s.rcvWnd
      BY <1>1, <1>3, <1>4, <1>7, <2>1
    <2>5. d.state \in {"ESTABLISHED", "FIN-WAIT-2"}
          /\ (d.state = "ESTABLISHED" <=> c.state = "ESTABLISHED")
      BY <1>5, <1>7 DEF Joined
    <2>6. c.state # "ESTABLISHED" => s.state \notin Unfinished
      <3> SUFFICES ASSUME c.state # "ESTABLISHED", s.state \in Unfinished PROVE FALSE
        OBVIOUS
      <3>1. c.state \in {"FIN-WAIT-1", "FIN-WAIT-2"}
        BY DEF Joined
      <3>2. s.rcvNxt = c.una
        BY <1>2, <3>1 DEF EndsOK
      <3> QED
        BY <1>7, <2>4, <3>2
    <2>7. ClientOK(d)
      <3>1. \A x \in Call : d.call[x] = "idle" => d.errCh[x] = <<>>
        BY <1>5, <2>2, <2>3
      <3>2. /\ d.rcvWnd = 0 /\ d.rcvCmd = NoRcv /\ d.foreign = Server
            /\ \E x \in Call : d.call[x] = "open"
        BY <1>2, <1>3, <1>5, TwoHosts DEF ClientOK
      <3>3. d.iss < d.nxt /\ d.iss < d.una /\ d.una = d.nxt /\ d.una \in Nat /\ d.iss \in Nat
        BY <1>1, <1>3, <1>5, <1>7, <2>1, <2>2
      <3> QED
        BY <2>2, <2>3, <2>5, <3>1, <3>2, <3>3 DEF ClientOK, Joined
    <2>8. EndsOK(d, s)
      <3>1. d.una = s.rcvNxt /\ d.una <= s.rcvNxt /\ d.iss < s.rcvNxt
        BY <1>1, <1>3, <1>4, <1>5, <1>7, <2>2, <2>4
      <3>2. d.rcvNxt = s.iss + 1 /\ d.wl1 <= d.rcvNxt /\ d.wl2 <= d.una
        BY <1>1, <1>2, <1>5, <2>2 DEF EndsOK
      <3>3. \A x \in Call : d.call[x] = "close" /\ d.errCh[x] = <<"ok">> =>
                c.state # "ESTABLISHED"
        <4> SUFFICES ASSUME NEW x \in Call, d.call[x] = "close", d.errCh[x] = <<"ok">>,
                            c.state = "ESTABLISHED"
                     PROVE  FALSE
          OBVIOUS
        <4>1. x \in Closed(q)
          BY <1>5, <2>2, <2>3 DEF Closed
        <4>2. x \in Closed(c)
          BY <2>3, <4>1
        <4> QED
          BY <1>2, <4>2 DEF EndsOK, Closed
      <3>4. s.rcvNxt - (d.iss + 1) - (Len(s.read) + s.rxLen) \in FinHeard(s)
        BY <1>2, <1>3, <1>5 DEF EndsOK
      <3>5. s.state \in Finished => d.state \in {"FIN-WAIT-1", "FIN-WAIT-2", "CLOSED"}
                                    /\ s.rcvNxt = d.nxt
        BY <1>2, <1>5, <2>4, <2>5 DEF EndsOK, Joined
      <3>6. d.wnd <= s.rcvWnd
        BY <2>2, <2>4
      <3> QED
        BY <1>3, <1>5, <2>4, <2>5, <2>6, <3>1, <3>2, <3>3, <3>4, <3>5, <3>6 DEF EndsOK
    <2>9. ASSUME NEW n \in w, n.src = Client, FromClient(c, s, n)
          PROVE  FromClient(d, s, n)
      <3>1. c.iss < d.una /\ d.una = c.nxt
        BY <1>1, <1>3, <1>7, <2>1, <2>2
      <3>2. n.seq \in Nat /\ SeqLen(n) \in Nat
        BY SegFields
      <3>3. c.state \in {"FIN-WAIT-1", "FIN-WAIT-2", "CLOSED"} =>
                d.state \in {"FIN-WAIT-1", "FIN-WAIT-2", "CLOSED"}
        BY <2>5
      <3> QED
        BY <1>5, <2>9, <3>1, <3>2, <3>3 DEF FromClient
    <2>10. ASSUME NEW n \in w, FromServer(c, s, n) PROVE FromServer(d, s, n)
      <3>1. n.ack \in Nat
        BY AckFields
      <3>2. n.ack <= c.una \/ n.ack = c.nxt => n.ack <= d.una \/ n.ack = d.nxt
        BY <1>1, <1>3, <1>5, <1>7, <2>2, <3>1
      <3> QED
        BY <1>5, <2>10, <3>2 DEF FromServer
    <2>11. WireOK(d, s, w)
      BY <2>9, <2>10 DEF ConnOK, WireOK
    <2>12. TextsOK(d, s, w)
      <3>1. Texts(d, w) \subseteq Texts(c, w)
        BY <2>2, <2>3 DEF Texts
      <3> QED
        BY <1>5, <3>1 DEF ConnOK, TextsOK, TextOK
    <2> QED
      BY <1>2, <2>7, <2>8, <2>11, <2>12 DEF ConnOK, d
  <1> QED
    BY <1>6, <1>7
-----------------------------------------------------------------------------
(***************************************************************************)
(* What reaches the Server: SYN, ACK, text and FIN.                        *)
(***************************************************************************)

\* The Client's SYN.
LEMMA ServerHears ==
    ASSUME NEW c \in Pcb, NEW s \in Pcb, NEW t \in Pcb, NEW w, NEW m \in w, NEW e,
           ConnOK(c, s, w), s.state = "LISTEN",
           FromClient(c, s, m), "RST" \notin m.flag,
           t.foreign = Client, t.rcvWnd = BufferSize, t.rcvNxt = c.iss + 1,
           t.una = t.iss, t.nxt = t.iss + 1, t.state = "SYN-RECEIVED",
           t.rxLen = 0, t.read = s.read, t.wnd = s.wnd, t.rcvCmd = s.rcvCmd,
           t.call = s.call, t.retxQueue \subseteq s.retxQueue \cup {e},
           e.flag = {"SYN", "ACK"}, e.data = <<>>, e.seq = t.iss
    PROVE  ConnOK(c, t, w)
  <1>1. /\ ClientOK(c) /\ ServerOK(s) /\ EndsOK(c, s)
        /\ c.iss \in Nat /\ c.nxt \in Nat /\ t.iss \in Nat
    BY PcbFields DEF ConnOK
  <1>2. ~Heard(s) /\ Heard(t)
    BY <1>1 DEF ServerOK, Heard
  <1>3. /\ c.foreign = Server /\ c.state \in {"CLOSED", "SYN-SENT"} /\ c.una = c.iss
        /\ c.nxt = c.iss + 1
    BY <1>1, <1>2 DEF FromClient, EndsOK, ClientOK
  <1>4. ServerOK(t)
    <2>1. s.retxQueue = {} /\ s.wnd = 0 /\ s.rcvCmd = NoRcv /\ NoRcv.call = NoCall
      BY <1>1, <1>2 DEF ServerOK, NoRcv
    <2>2. \A f \in t.retxQueue : ServerEntry(t, f)
      BY <2>1 DEF ServerEntry
    <2>3. \E x \in Call : t.call[x] = "open"
      BY <1>1 DEF ServerOK
    <2>4. t.rcvWnd + t.rxLen = BufferSize
      BY Sizes
    <2>5. t.iss <= t.una /\ t.una <= t.iss + 1 /\ t.iss < t.nxt
      BY <1>1
    <2> QED
      BY <1>2, <2>1, <2>2, <2>3, <2>4, <2>5 DEF ServerOK, Heard
  <1>5. EndsOK(c, t)
    <2>1. Len(t.read) = 0
      BY <1>1, <1>2 DEF ServerOK
    <2>2. FinHeard(t) = {0}
      BY FinsHeard DEF Unfinished, State
    <2>3. t.rcvNxt - (c.iss + 1) - (Len(t.read) + t.rxLen) \in FinHeard(t)
      BY <1>1, <2>1, <2>2
    <2>4. c.iss < t.rcvNxt /\ c.una <= t.rcvNxt /\ t.rcvNxt = c.nxt
      BY <1>1, <1>3
    <2>5. Closed(c) = {}
      BY <1>1, <1>2 DEF EndsOK, Closed
    <2> QED
      BY <1>2, <1>3, <2>3, <2>4, <2>5 DEF EndsOK, Joined, Finished, Closed
  <1>6. ASSUME NEW n \in w, n.src = Client, FromClient(c, s, n)
        PROVE  FromClient(c, t, n) /\ n.data = <<>>
    BY <1>2, <1>6 DEF FromClient
  <1>7. ASSUME NEW n \in w, FromServer(c, s, n) PROVE FromServer(c, t, n)
    BY <1>2, <1>7 DEF FromServer
  <1>8. WireOK(c, t, w)
    BY <1>6, <1>7 DEF ConnOK, WireOK
  <1>9. Texts(c, w) = {}
    <2>1. \A f \in c.retxQueue : f.data = <<>>
      BY <1>1, <1>3 DEF ClientOK, ClientEntry
    <2> QED
      BY <1>6, <2>1, TwoHosts DEF Texts, ConnOK, WireOK
  <1>10. TextsOK(c, t, w)
    BY <1>9 DEF TextsOK
  <1> QED
    BY <1>1, <1>4, <1>5, <1>8, <1>10 DEF ConnOK

\* Its ACKs, which acknowledge the Server's SYN and nothing else.
LEMMA ServerIsAcked ==
    ASSUME NEW c \in Pcb, NEW s \in Pcb, NEW w \in SUBSET Segment, NEW m \in w,
           ConnOK(c, s, w), s.state \in Synchronized, m.ack = s.iss + 1
    PROVE  LET t == ProcessAck(Established(s), m) IN
           /\ t \in Pcb /\ ConnOK(c, t, w) /\ SameStream(s, t)
           /\ t.state \in Unfinished <=> s.state \in Unfinished
           /\ t.state # "SYN-RECEIVED"
  <1> DEFINE p == Established(s)
             q == queueAck([p EXCEPT !.una = m.ack])
             t == ProcessAck(p, m)
  <1>1. m \in Segment /\ m.ack \in Nat /\ s.iss \in Nat /\ s.una \in Nat /\ s.nxt \in Nat
    BY AckFields, PcbFields
  <1>2. ServerOK(s) /\ Heard(s)
    BY DEF ConnOK, ServerOK, Synchronized
  <1>3. /\ p \in Pcb /\ Rest(s, p) /\ p.retxQueue = s.retxQueue
        /\ p.rcvCmd = s.rcvCmd /\ p.errCh = s.errCh
        /\ p.state = IF s.state = "SYN-RECEIVED" THEN "ESTABLISHED" ELSE s.state
    <2>1. p \in Pcb
      BY EstablishedType
    <2> QED
      BY <2>1 DEF Established, Pcb, Rest
  <1> HIDE DEF p
  <1>4. s.iss <= s.una /\ s.una <= s.iss + 1 /\ s.iss < s.nxt
        /\ (s.state # "SYN-RECEIVED" => s.una = s.iss + 1)
    BY <1>2 DEF ServerOK, Synchronized
  <1>5. /\ t \in Pcb /\ t.foreign = p.foreign /\ t.iss = p.iss
        /\ t.nxt = p.nxt /\ t.rcvNxt = p.rcvNxt /\ t.rcvWnd = p.rcvWnd
        /\ t.rxQueue = p.rxQueue /\ t.rxLen = p.rxLen /\ t.read = p.read
        /\ t.call = p.call /\ t.rcvCmd = p.rcvCmd
        /\ p.state = "FIN-WAIT-1" /\ m.ack = p.nxt => t.state = "FIN-WAIT-2"
        /\ p.state = "CLOSING" /\ m.ack = p.nxt => t.state = "TIME-WAIT"
        /\ p.state \notin {"FIN-WAIT-1", "CLOSING"} \/ m.ack # p.nxt =>
             t.state = p.state
    BY <1>1, <1>3, ProcessAckFields
  <1>6. /\ t.una = s.iss + 1
        /\ \/ t.retxQueue = s.retxQueue /\ s.una = s.iss + 1
           \/ t.retxQueue = {e \in s.retxQueue : ~(e.seq < m.ack)}
    <2>1. CASE s.una = s.iss + 1
      <3>1. ~(p.una < m.ack)
        BY <1>1, <1>3, <2>1 DEF Rest
      <3>2. t.una = p.una /\ t.retxQueue = p.retxQueue
        BY <1>1, <1>3, <3>1, ProcessAckFields
      <3> QED
        BY <1>3, <2>1, <3>2 DEF Rest
    <2>2. CASE s.una = s.iss
      <3>1. p.una < m.ack /\ m.ack <= p.nxt
        BY <1>1, <1>3, <1>4, <2>2 DEF Rest
      <3>2. t.una = m.ack /\ t.retxQueue = q.retxQueue
        BY <1>1, <1>3, <3>1, ProcessAckFields
      <3> DEFINE o == [p EXCEPT !.una = m.ack]
      <3>3. o \in Pcb /\ o.una = m.ack /\ o.retxQueue = p.retxQueue
        BY <1>1, <1>3 DEF Pcb, Segment
      <3>4. q.retxQueue = o.retxQueue \ Acked(o)
        <4> HIDE DEF o
        <4> QED
          BY <3>3, queueAckFields DEF o
      <3>5. q.retxQueue = {e \in s.retxQueue : ~(e.seq < m.ack)}
        BY <1>3, <3>3, <3>4 DEF Acked
      <3> QED
        BY <3>2, <3>5
    <2> QED
      BY <1>1, <1>4, <2>1, <2>2
  <1> HIDE DEF t, q
  <1>7. SameStream(s, t)
    BY <1>3, <1>5 DEF SameStream, Rest
  <1>8. Heard(t) /\ t.iss = s.iss /\ t.nxt = s.nxt /\ t.call = s.call
        /\ t.rcvCmd = s.rcvCmd
    BY <1>2, <1>3, <1>5 DEF Heard, Rest
  <1>9. t.state \in Synchronized \ {"SYN-RECEIVED"}
    BY <1>3, <1>5 DEF Synchronized
  <1>10. ASSUME NEW e \in t.retxQueue PROVE ServerEntry(t, e)
    <2>1. e \in s.retxQueue /\ ServerEntry(s, e)
      BY <1>2, <1>6 DEF ServerOK
    <2>2. e.flag = {"ACK", "FIN"} \/ (e.flag = {"SYN", "ACK"} /\ e.seq = s.iss /\ s.una = s.iss)
      BY <2>1 DEF ServerEntry
    <2>3. ~(e.seq = s.iss /\ s.una = s.iss)
      BY <1>1, <1>6
    <2> QED
      BY <2>1, <2>2, <2>3 DEF ServerEntry
  <1>11. ServerOK(t)
    <2>1. t.rcvWnd + t.rxLen = BufferSize
      BY <1>2, <1>7 DEF ServerOK, SameStream
    <2>2. t.iss <= t.una /\ t.una <= t.iss + 1 /\ t.iss < t.nxt /\ t.una = t.iss + 1
          /\ t.una # t.iss
      BY <1>1, <1>4, <1>6, <1>8
    <2>3. \E x \in Call : t.call[x] = "open"
      BY <1>2, <1>8 DEF ServerOK
    <2>4. t.foreign \in {AnyEndpoint, Client} /\ t.state \notin {"SYN-SENT", "LISTEN"}
      BY <1>8, <1>9 DEF Heard, Synchronized
    <2> QED
      BY <1>2, <1>8, <1>10, <2>1, <2>2, <2>3, <2>4 DEF ServerOK
  <1>12. t.state \in Unfinished <=> s.state \in Unfinished
    BY <1>3, <1>5 DEF Unfinished, Synchronized
  <1>13. t.state \in Finished <=> s.state \in Finished
    BY <1>3, <1>5 DEF Finished, Synchronized
  <1>14. FinHeard(s) = FinHeard(t)
    <2>1. t.state \in State /\ s.state \in State
      BY <1>5, PcbFields
    <2>2. s.state \in Unfinished \/ s.state \in Finished
      BY DEF Synchronized, Unfinished, Finished
    <2> QED
      BY <2>1, <2>2, <1>12, <1>13, FinsHeard DEF Finished
  <1>15. ConnOK(c, t, w)
    BY <1>7, <1>11, <1>12, <1>13, <1>14, ServerMoves DEF NoNews
  <1> QED
    BY <1>5, <1>7, <1>9, <1>12, <1>15 DEF t, p

\* seg.len does not wrap.
LEMMA SegLenIs == ASSUME NEW m \in Segment PROVE SegLen(m) = SeqLen(m)
  <1>1. Len(m.data) \in 0 .. BufferSize
    BY SegFields
  <1>2. Plus(Len(m.data), 1) = Len(m.data) + 1
    BY <1>1, Sizes DEF Plus
  <1>3. Len(m.data) + 0 = Len(m.data)
    BY <1>1, Sizes
  <1> QED
    BY <1>2, <1>3 DEF SegLen, SeqLen

\* What passes the sequence number check and takes sequence numbers begins at
\* rcv.nxt, and is the last the Client sent.
LEMMA Ideal ==
    ASSUME NEW c \in Pcb, NEW s \in Pcb, NEW w \in SUBSET Segment, NEW m \in w,
           ConnOK(c, s, w), Roomy(c), Heard(s), FromClient(c, s, m),
           m.flag \in {{"ACK"}, {"ACK", "FIN"}}, SeqLen(m) > 0, Acceptable(s, m)
    PROVE  m.seq = s.rcvNxt /\ m.seq + SeqLen(m) = c.nxt
  <1>1. /\ c.una \in Nat /\ c.nxt \in Nat /\ s.rcvNxt \in Nat
        /\ s.rcvWnd \in 0 .. BufferSize /\ m.seq \in Nat /\ SeqLen(m) \in Nat
        /\ SegLen(m) = SeqLen(m)
    BY PcbFields, SegFields, SegLenIs
  <1>2. /\ c.una <= c.nxt /\ c.una <= s.rcvNxt
        /\ s.rcvNxt = c.una \/ s.rcvNxt = c.nxt
    BY DEF ConnOK, ClientOK, EndsOK
  <1>3. /\ m.seq + SeqLen(m) <= c.nxt
        /\ \/ m.seq + SeqLen(m) <= c.una
           \/ m.seq = c.una /\ m.seq + SeqLen(m) = c.nxt
    <2>1. "RST" \notin m.flag /\ m.flag # {"SYN"}
      OBVIOUS
    <2> QED
      BY <2>1 DEF FromClient
  <1> DEFINE n == SeqLen(m)
             last == Plus(Plus(m.seq, n), SeqMod - 1)
             edge == Plus(s.rcvNxt, s.rcvWnd)
  <1>4. Plus(m.seq, n) = m.seq + n
    BY <1>1, <1>3, Sizes, PlusIsSum DEF Roomy
  <1>5. last = m.seq + n - 1
    BY <1>1, <1>3, <1>4, Sizes DEF Plus, Roomy
  <1>6. edge = s.rcvNxt + s.rcvWnd
    BY <1>1, <1>2, Sizes, PlusIsSum DEF Roomy
  <1>7. \/ s.rcvNxt <= m.seq /\ m.seq < edge
        \/ s.rcvNxt <= last /\ last < edge
    BY <1>1 DEF Acceptable
  <1> HIDE DEF n, last, edge
  <1>8. n \in Nat /\ n > 0
    BY <1>1 DEF n
  <1>9. s.rcvNxt < m.seq + n
    BY <1>1, <1>5, <1>7, <1>8
  <1>10. m.seq = c.una /\ m.seq + n = c.nxt
    BY <1>1, <1>2, <1>3, <1>8, <1>9 DEF n
  <1>11. s.rcvNxt = c.una
    BY <1>1, <1>2, <1>8, <1>9, <1>10
  <1> QED
    BY <1>10, <1>11 DEF n

\* A text ends where the Client's segments end.
LEMMA TextEnds ==
    ASSUME NEW c \in Pcb, NEW s, NEW w \in SUBSET Segment, ConnOK(c, s, w),
           NEW t \in Texts(c, w)
    PROVE  /\ t.seq \in Nat /\ Len(t.data) \in Nat /\ Len(t.data) > 0
           /\ Heard(s) /\ c.foreign = Server /\ c.iss < t.seq
           /\ t.seq + Len(t.data) <= c.nxt
           /\ \/ t.seq + Len(t.data) <= c.una
              \/ t.seq = c.una /\ t.seq + Len(t.data) = c.nxt
  <1>1. c.una \in Nat /\ c.nxt \in Nat /\ c.retxQueue \subseteq RetxEntry
    BY PcbFields
  <1>2. CASE t \in c.retxQueue /\ t.data # <<>>
    <2>1. ClientEntry(c, t)
      BY <1>2 DEF ConnOK, ClientOK
    <2>2. t.flag = {"ACK"} /\ t.seq = c.una /\ c.nxt = c.una + SeqLen(t)
          /\ c.state = "ESTABLISHED" /\ c.iss < c.una
      BY <1>2, <2>1 DEF ClientEntry, ConnOK, ClientOK, Joined
    <2>3. SeqLen(t) = Len(t.data) /\ Len(t.data) \in Nat /\ Len(t.data) > 0
      <3>1. t.flag \cap {"SYN", "FIN"} = {}
        BY <2>2
      <3> QED
        BY <1>1, <1>2, <3>1, SegFields
    <2>4. Heard(s) /\ c.foreign = Server
      BY <2>2 DEF ConnOK, EndsOK, ClientOK
    <2> QED
      BY <1>1, <2>2, <2>3, <2>4
  <1>3. CASE t \in w /\ t.src = Client /\ t.data # <<>>
    <2>1. FromClient(c, s, t)
      BY <1>3, TwoHosts DEF ConnOK, WireOK
    <2>2. t.seq \in Nat /\ Len(t.data) \in Nat /\ Len(t.data) > 0
          /\ SeqLen(t) \in Nat
      BY <1>3, SegFields
    <2>3. /\ t.flag \in {{"ACK"}, {"ACK", "FIN"}} /\ "FIN" \notin t.flag
          /\ Heard(s) /\ c.foreign = Server /\ c.iss < t.seq
          /\ t.seq + SeqLen(t) <= c.nxt
          /\ SeqLen(t) > 0 => \/ t.seq + SeqLen(t) <= c.una
                              \/ t.seq = c.una /\ t.seq + SeqLen(t) = c.nxt
      BY <1>3, <2>1 DEF FromClient
    <2>4. SeqLen(t) = Len(t.data)
      <3>1. t.flag \cap {"SYN", "FIN"} = {}
        BY <2>3
      <3> QED
        BY <1>3, <3>1, SegFields
    <2> QED
      BY <2>2, <2>3, <2>4
  <1> QED
    BY <1>2, <1>3 DEF Texts

\* Where the stream of a Server that has heard no FIN ends.
LEMMA StreamEnd ==
    ASSUME NEW c \in Pcb, NEW s \in Pcb, NEW w, ConnOK(c, s, w),
           Heard(s), s.state \in Unfinished
    PROVE  s.rcvNxt = (c.iss + 1) + Len(s.read) + s.rxLen
  <1>1. /\ s.rcvNxt \in Nat /\ c.iss \in Nat /\ Len(s.read) \in Nat
        /\ s.rxLen \in 0 .. BufferSize /\ s.state \in State
    BY PcbFields
  <1>2. FinHeard(s) = {0}
    BY <1>1, FinsHeard
  <1>3. s.rcvNxt - (c.iss + 1) - (Len(s.read) + s.rxLen) = 0
    BY <1>2 DEF ConnOK, EndsOK
  <1> DEFINE a == s.rcvNxt
             b == c.iss
             r == Len(s.read)
             x == s.rxLen
  <1>4. a \in Nat /\ b \in Nat /\ r \in Nat /\ x \in Nat /\ a - (b + 1) - (r + x) = 0
    BY <1>1, <1>3, Sizes
  <1> HIDE DEF a, b, r, x
  <1>5. a = (b + 1) + r + x
    BY <1>4
  <1> QED
    BY <1>5 DEF a, b, r, x

\* The Server takes the text of m in: t is s after that.
LEMMA ServerTakes ==
    ASSUME NEW c \in Pcb, NEW s \in Pcb, NEW t \in Pcb, NEW w \in SUBSET Segment,
           NEW m \in w, ConnOK(c, s, w), m.src = Client, FromClient(c, s, m),
           m.data # <<>>, m.seq = s.rcvNxt, m.seq + Len(m.data) = c.nxt,
           Heard(s), s.state \in Unfinished,
           t.rxQueue = CopyAt(s.rxQueue, s.rxLen, m.data),
           t.rxLen = s.rxLen + Len(m.data), t.rcvNxt = c.nxt,
           t.rcvWnd = s.rcvWnd - Len(m.data),
           t.foreign = s.foreign, t.iss = s.iss, t.una = s.una, t.nxt = s.nxt,
           t.wnd = s.wnd, t.state = s.state, t.retxQueue = s.retxQueue,
           t.rcvCmd = s.rcvCmd, t.call = s.call, t.read = s.read
    PROVE  ConnOK(c, t, w)
  <1> DEFINE n == Len(m.data)
             r == Len(s.read)
             x == s.rxLen
             v == s.rcvWnd
             a == s.rcvNxt
             i0 == c.iss
             e0 == c.nxt
  <1>1. /\ c.una \in Nat /\ e0 \in Nat /\ i0 \in Nat /\ a \in Nat
        /\ v \in 0 .. BufferSize /\ x \in 0 .. BufferSize /\ r \in Nat
        /\ s.state \in State
    BY PcbFields
  <1>2. m \in Texts(c, w) /\ n \in Nat /\ n > 0 /\ m.seq \in Nat
        /\ SeqLen(m) \in Nat /\ n <= SeqLen(m)
    <2>1. m \in Texts(c, w)
      BY DEF Texts
    <2> QED
      BY <2>1, TextEnds, SegFields
  <1>3. ClientOK(c) /\ ServerOK(s) /\ EndsOK(c, s) /\ c.una <= a
        /\ (a = c.una \/ a = e0)
    BY DEF ConnOK, EndsOK
  <1>a. m.seq = a /\ a + n = e0
    OBVIOUS
  <1>b. /\ t.rxLen = x + n /\ t.rcvNxt = e0 /\ t.rcvWnd = v - n /\ Len(t.read) = r
        /\ t.read = s.read
    OBVIOUS
  <1>c. \A i \in 0 .. BufferSize - 1 :
          t.rxQueue[i] = IF x <= i /\ i < x + n THEN m.data[i - x + 1]
                         ELSE s.rxQueue[i]
    BY DEF CopyAt
  <1>5. a = (i0 + 1) + r + x
    BY StreamEnd
  <1>6. v + x = BufferSize /\ n <= v
    <2>1. TextOK(c, s, m)
      BY <1>2 DEF ConnOK, TextsOK
    <2> QED
      BY <1>3, <2>1 DEF ServerOK, TextOK
  <1>e. \A y : FromClient(c, s, y) /\ y.data # <<>> /\ c.state \in {"FIN-WAIT-1", "FIN-WAIT-2"} =>
                 y.seq + SeqLen(y) <= c.una
    BY DEF FromClient
  <1>8. Heard(t) /\ FinHeard(t) = FinHeard(s)
    BY DEF Heard, FinHeard
  <1>f. \A k \in Int : ByteAt(s, k) = (IF k <= r THEN s.read[k] ELSE s.rxQueue[k - r - 1])
    BY DEF ByteAt
  <1>g. \A k \in Int : ByteAt(t, k) = (IF k <= r THEN s.read[k] ELSE t.rxQueue[k - r - 1])
    BY DEF ByteAt
  <1> HIDE DEF n, r, x, v, a, i0, e0
  <1>4. a = c.una /\ a < e0
    BY <1>1, <1>2, <1>3, <1>a
  <1>7. c.state \notin {"FIN-WAIT-1", "FIN-WAIT-2"}
    <2> SUFFICES ASSUME c.state \in {"FIN-WAIT-1", "FIN-WAIT-2"} PROVE FALSE
      OBVIOUS
    <2>1. m.seq + SeqLen(m) <= c.una
      BY <1>e
    <2> QED
      BY <1>1, <1>2, <1>4, <1>a, <2>1
  <1>9. ServerOK(t)
    <2>1. \A e \in t.retxQueue : ServerEntry(t, e)
      BY <1>3 DEF ServerOK, ServerEntry
    <2>2. t.rcvWnd + t.rxLen = BufferSize
      <3>1. (v - n) + (x + n) = v + x
        BY <1>1, <1>2, Sizes
      <3> QED
        BY <1>b, <1>6, <3>1
    <2> QED
      BY <1>3, <1>8, <2>1, <2>2 DEF ServerOK
  <1>10. EndsOK(c, t)
    <2>1. i0 < e0 /\ c.una <= e0
      BY <1>1, <1>3, <1>4, <1>5, Sizes
    <2>2. t.rcvNxt - (c.iss + 1) - (Len(t.read) + t.rxLen) \in FinHeard(t)
      <3>1. e0 - (i0 + 1) - (r + (x + n)) = 0
        BY <1>1, <1>2, <1>5, <1>a, Sizes
      <3>2. FinHeard(s) = {0}
        BY <1>1, FinsHeard
      <3>3. t.rcvNxt - (c.iss + 1) - (Len(t.read) + t.rxLen) = e0 - (i0 + 1) - (r + (x + n))
        BY <1>b DEF i0
      <3> QED
        BY <1>8, <3>1, <3>2, <3>3
    <2>3. c.una # c.nxt
      BY <1>1, <1>4 DEF e0
    <2>4. \A y \in Call : ~(c.call[y] = "close" /\ c.errCh[y] = <<"ok">>)
      BY <1>3 DEF EndsOK
    <2>5. t.state \notin Finished
      BY DEF Unfinished, Finished
    <2> QED
      BY <1>3, <1>7, <1>8, <2>1, <2>2, <2>3, <2>4, <2>5 DEF EndsOK, i0, e0
  <1>11. WireOK(c, t, w)
    <2>1. ASSUME NEW u, FromClient(c, s, u) PROVE FromClient(c, t, u)
      BY <1>8, <2>1 DEF FromClient
    <2>2. ASSUME NEW u \in w, FromServer(c, s, u) PROVE FromServer(c, t, u)
      <3>1. u.ack \in Nat
        BY AckFields
      <3>2. u.ack <= s.rcvNxt => u.ack <= t.rcvNxt /\ u.ack # t.rcvNxt
        BY <1>1, <1>4, <1>b, <3>1 DEF a
      <3> QED
        BY <1>8, <2>2, <3>2 DEF FromServer
    <2> QED
      BY <2>1, <2>2 DEF ConnOK, WireOK
  <1>12. ASSUME NEW u \in Texts(c, w) PROVE TextOK(c, t, u)
    <2> DEFINE l == Len(u.data)
               q == u.seq
    <2>1. /\ q \in Nat /\ l \in Nat /\ l > 0
          /\ q + l <= e0
          /\ \/ q + l <= c.una
             \/ q = c.una /\ q + l = e0
      BY TextEnds DEF e0
    <2>a. q + l <= a =>
            /\ q + l <= (i0 + 1) + r + x
            /\ \A i \in 1 .. l : u.data[i] = ByteAt(s, q - (i0 + 1) + i)
      BY <1>8 DEF ConnOK, TextsOK, TextOK, a, i0, r, x, Heard
    <2>b. q = m.seq => u.data = m.data /\ l = n
      BY <1>2 DEF ConnOK, TextsOK, n
    <2> HIDE DEF l, q
    <2>2. q # e0
      BY <1>1, <2>1
    <2>3. q + l <= (i0 + 1) + r + (x + n)
      BY <1>1, <1>2, <1>5, <1>a, <2>1, Sizes
    <2>4. ASSUME NEW k \in Nat, r < k, k <= r + x + n
          PROVE  t.rxQueue[k - r - 1] =
                    IF k <= r + x THEN s.rxQueue[k - r - 1] ELSE m.data[k - r - x]
      <3> DEFINE i == k - r - 1
      <3>1. i \in 0 .. BufferSize - 1
        BY <1>1, <1>2, <1>6, <2>4, Sizes
      <3>3. i - x + 1 = k - r - x
        BY <1>1, Sizes
      <3>4. k <= r + x <=> ~(x <= i /\ i < x + n)
        BY <1>1, <1>2, <2>4, Sizes
      <3> HIDE DEF i
      <3>2. t.rxQueue[i] = IF x <= i /\ i < x + n
                           THEN m.data[i - x + 1] ELSE s.rxQueue[i]
        BY <1>c, <3>1
      <3>5. t.rxQueue[i] = IF k <= r + x THEN s.rxQueue[i] ELSE m.data[k - r - x]
        BY <3>2, <3>3, <3>4
      <3> QED
        BY <3>5 DEF i
    <2>5. ASSUME NEW i \in Nat, 1 <= i, i <= l
          PROVE  u.data[i] = ByteAt(t, q - (i0 + 1) + i)
      <3> DEFINE k == q - (i0 + 1) + i
      <3>0. k \in Int
        BY <1>1, <2>1
      <3>1. CASE q + l <= c.una
        <4>1. k <= r + x
          BY <1>1, <1>4, <1>5, <2>1, <2>5, <3>1, Sizes
        <4>2. i \in 1 .. l /\ q + l <= a
          BY <1>4, <2>1, <2>5, <3>1
        <4>3. u.data[i] = ByteAt(s, k)
          BY <2>a, <4>2
        <4>4. ~(k <= r) => k \in Nat /\ r < k /\ k <= r + x + n
          BY <1>1, <1>2, <3>0, <4>1, Sizes
        <4> HIDE DEF k
        <4>5. ~(k <= r) => t.rxQueue[k - r - 1] = s.rxQueue[k - r - 1]
          BY <2>4, <4>1, <4>4
        <4>6. ByteAt(t, k) = ByteAt(s, k)
          BY <1>f, <1>g, <3>0, <4>5
        <4> QED
          BY <4>3, <4>6 DEF k
      <3>2. CASE q = c.una /\ q + l = e0
        <4>1. u.data = m.data /\ l = n
          BY <1>4, <1>a, <2>b, <3>2
        <4>3. q = a
          BY <1>4, <3>2
        <4>7. /\ r \in Nat /\ x \in Nat /\ i0 \in Nat /\ a \in Nat
              /\ a = (i0 + 1) + r + x
          BY <1>1, <1>5, Sizes
        <4>6. k = r + x + i
          BY <2>5, <4>3, <4>7
        <4> HIDE DEF k
        <4>8. i <= n
          BY <2>5, <4>1
        <4>2. /\ k \in Nat /\ r < k /\ k <= r + x + n /\ ~(k <= r + x) /\ ~(k <= r)
              /\ k - r - x = i
          <5>1. n \in Nat /\ r \in Nat /\ x \in Nat /\ i \in Nat /\ 1 <= i
            BY <1>2, <2>5, <4>7
          <5> QED
            BY ONLY <4>6, <4>8, <5>1
        <4>4. t.rxQueue[k - r - 1] = m.data[i]
          BY <2>4, <4>2
        <4>5. ByteAt(t, k) = m.data[i]
          BY <1>g, <3>0, <4>2, <4>4
        <4> QED
          BY <4>1, <4>5 DEF k
      <3> QED
        BY <2>1, <3>1, <3>2
    <2>6. \A i \in 1 .. l : u.data[i] = ByteAt(t, q - (i0 + 1) + i)
      BY <2>1, <2>5
    <2>7. /\ q = t.rcvNxt => l <= t.rcvWnd
          /\ q + l <= (i0 + 1) + Len(t.read) + t.rxLen
      BY <1>b, <2>2, <2>3
    <2> QED
      BY <2>6, <2>7 DEF TextOK, l, q, i0
  <1>13. TextsOK(c, t, w)
    BY <1>12 DEF ConnOK, TextsOK
  <1> QED
    BY <1>3, <1>9, <1>10, <1>11, <1>13 DEF ConnOK

\* signalReceive with room for all there is.
LEMMA signalReceiveFields ==
    ASSUME NEW p \in Pcb, p.rcvCmd.call # NoCall => p.rcvCmd.size = BufferSize
    PROVE  LET q == signalReceive(p) IN
           \/ q = p
           \/ /\ q \in Pcb
              /\ q.foreign = p.foreign /\ q.iss = p.iss /\ q.una = p.una
              /\ q.nxt = p.nxt /\ q.wnd = p.wnd /\ q.rcvNxt = p.rcvNxt
              /\ q.state = p.state /\ q.retxQueue = p.retxQueue /\ q.call = p.call
              /\ q.rcvWnd = BufferSize /\ q.rxLen = 0 /\ q.rcvCmd = NoRcv
              /\ q.read = p.read \o [i \in 1 .. p.rxLen |-> p.rxQueue[i - 1]]
  <1> DEFINE q == signalReceive(p)
  <1>1. CASE p.rcvCmd.call = NoCall \/ p.rxLen = 0
    BY <1>1 DEF signalReceive
  <1>2. CASE ~(p.rcvCmd.call = NoCall \/ p.rxLen = 0)
    <2> DEFINE dlen == IF p.rcvCmd.size < p.rxLen THEN p.rcvCmd.size ELSE p.rxLen
               n == Notify(p, {p.rcvCmd.call}, "ok")
               got == [i \in 1 .. p.rxLen |-> p.rxQueue[i - 1]]
    <2>1. dlen = p.rxLen
      BY <1>2, PcbFields, Sizes
    <2>2. n \in Pcb /\ Rest(p, n) /\ n.state = p.state /\ n.retxQueue = p.retxQueue
      BY NotifyFields DEF Answer
    <2>3. q = [n EXCEPT !.rcvCmd = NoRcv, !.read = @ \o got,
                        !.rxLen = 0, !.rcvWnd = BufferSize]
      <3>1. q = [[n EXCEPT !.rcvCmd = NoRcv,
                           !.read = @ \o [i \in 1 .. dlen |-> p.rxQueue[i - 1]]]
                    EXCEPT !.rxLen = 0, !.rcvWnd = BufferSize]
        BY <1>2, <2>1 DEF signalReceive
      <3> HIDE DEF n, q, dlen
      <3> QED
        BY <2>1, <2>2, <3>1 DEF Pcb
    <2>4. q \in Pcb
      BY signalReceiveType
    <2> HIDE DEF n, q, got, dlen
    <2>5. /\ q.foreign = n.foreign /\ q.iss = n.iss /\ q.una = n.una
          /\ q.nxt = n.nxt /\ q.wnd = n.wnd /\ q.rcvNxt = n.rcvNxt
          /\ q.state = n.state /\ q.retxQueue = n.retxQueue /\ q.call = n.call
          /\ q.rcvWnd = BufferSize /\ q.rxLen = 0 /\ q.rcvCmd = NoRcv
          /\ q.read = n.read \o got
      BY <2>2, <2>3 DEF Pcb
    <2> QED
      BY <2>2, <2>4, <2>5 DEF Rest, q, got
  <1> QED
    BY <1>1, <1>2

\* The Server hands what is queued to the pending RECEIVE, if there is one.
LEMMA ServerReads ==
    ASSUME NEW c \in Pcb, NEW s \in Pcb, NEW w \in SUBSET Segment, ConnOK(c, s, w)
    PROVE  ConnOK(c, signalReceive(s), w)
  <1> DEFINE t == signalReceive(s)
             r == Len(s.read)
             x == s.rxLen
             got == [i \in 1 .. x |-> s.rxQueue[i - 1]]
  <1>1. ClientOK(c) /\ ServerOK(s) /\ EndsOK(c, s)
    BY DEF ConnOK
  <1> SUFFICES ASSUME t # s
               PROVE  ConnOK(c, t, w)
    OBVIOUS
  <1>2. /\ t \in Pcb
        /\ t.foreign = s.foreign /\ t.iss = s.iss /\ t.una = s.una
        /\ t.nxt = s.nxt /\ t.wnd = s.wnd /\ t.rcvNxt = s.rcvNxt
        /\ t.state = s.state /\ t.retxQueue = s.retxQueue /\ t.call = s.call
        /\ t.rcvWnd = BufferSize /\ t.rxLen = 0 /\ t.rcvCmd = NoRcv
        /\ t.read = s.read \o got
    BY <1>1, signalReceiveFields DEF ServerOK
  <1>3. Heard(s) /\ s.rcvCmd.call # NoCall
    <2>1. s.rcvCmd.call # NoCall
      BY DEF signalReceive
    <2> QED
      BY <1>1, <2>1 DEF ServerOK, NoRcv
  <1>4. /\ r \in Nat /\ x \in Nat /\ x <= BufferSize /\ BufferSize \in Nat
        /\ s.read \in Seq(Byte) /\ got \in Seq(Byte) /\ Len(got) = x
    <2>1. /\ r \in Nat /\ x \in Nat /\ x <= BufferSize /\ BufferSize \in Nat
          /\ s.read \in Seq(Byte) /\ s.rxQueue \in [0 .. BufferSize - 1 -> Byte]
      BY PcbFields, Sizes
    <2> HIDE DEF x
    <2>2. \A i \in 1 .. x : i - 1 \in 0 .. BufferSize - 1
      BY <2>1
    <2>3. got \in [1 .. x -> Byte]
      BY <2>1, <2>2
    <2> QED
      BY <2>1, <2>3
  <1>5. Heard(t) /\ FinHeard(t) = FinHeard(s)
    BY <1>2, <1>3 DEF Heard, FinHeard
  <1>a. \A i \in 1 .. x : got[i] = s.rxQueue[i - 1]
    OBVIOUS
  <1>f. \A k \in Int : ByteAt(s, k) = (IF k <= r THEN s.read[k] ELSE s.rxQueue[k - r - 1])
    BY DEF ByteAt
  <1> HIDE DEF t, got
  <1>6. Len(t.read) = r + x
    <2>1. Len(s.read \o got) = Len(s.read) + Len(got)
      BY <1>4
    <2> QED
      BY <1>2, <1>4, <2>1
  <1>7. ASSUME NEW k \in Nat, 1 <= k, k <= r + x
        PROVE  ByteAt(t, k) = ByteAt(s, k)
    <2>1. ByteAt(t, k) = t.read[k]
      BY <1>6, <1>7 DEF ByteAt
    <2> HIDE DEF r, x
    <2>2. k <= r => t.read[k] = s.read[k]
      BY <1>2, <1>4, <1>7 DEF r
    <2>3. ~(k <= r) => t.read[k] = s.rxQueue[k - r - 1]
      <3> SUFFICES ASSUME ~(k <= r) PROVE t.read[k] = s.rxQueue[k - r - 1]
        OBVIOUS
      <3>1. k - r \in 1 .. x
        BY <1>4, <1>7
      <3>2. t.read[k] = got[k - r]
        BY <1>2, <1>4, <1>7, <3>1 DEF r
      <3>3. got[k - r] = s.rxQueue[(k - r) - 1]
        BY <1>a, <3>1
      <3> QED
        BY <3>2, <3>3
    <2> QED
      BY <1>f, <2>1, <2>2, <2>3
  <1>8. ServerOK(t)
    <2>1. \A e \in t.retxQueue : ServerEntry(t, e)
      BY <1>1, <1>2 DEF ServerOK, ServerEntry
    <2>2. t.rcvWnd + t.rxLen = BufferSize
      BY <1>2, <1>4
    <2> QED
      BY <1>1, <1>2, <1>3, <1>5, <2>1, <2>2 DEF ServerOK, NoRcv
  <1>9. EndsOK(c, t)
    <2>1. Len(t.read) + t.rxLen = Len(s.read) + s.rxLen
      BY <1>2, <1>4, <1>6
    <2>2. c.wnd <= t.rcvWnd
      BY <1>2, PcbFields
    <2> QED
      BY <1>1, <1>2, <1>3, <1>5, <2>1, <2>2 DEF EndsOK
  <1>10. WireOK(c, t, w)
    <2>1. ASSUME NEW u, FromClient(c, s, u) PROVE FromClient(c, t, u)
      BY <1>2, <1>3, <1>5, <2>1 DEF FromClient
    <2>2. ASSUME NEW u \in w, FromServer(c, s, u) PROVE FromServer(c, t, u)
      <3>1. u.wnd <= t.rcvWnd
        BY <1>2 DEF Segment, Wnd
      <3> QED
        BY <1>2, <1>3, <1>5, <2>2, <3>1 DEF FromServer
    <2> QED
      BY <2>1, <2>2 DEF ConnOK, WireOK
  <1>11. ASSUME NEW u \in Texts(c, w) PROVE TextOK(c, t, u)
    <2> DEFINE l == Len(u.data)
               q == u.seq
               i0 == c.iss
    <2>1. /\ q \in Nat /\ l \in Nat /\ i0 \in Nat /\ i0 < q
          /\ l <= BufferSize
      <3>1. u \in Segment \cup RetxEntry
        BY PcbFields DEF Texts
      <3> QED
        BY <3>1, TextEnds, PcbFields, SegFields
    <2>2. q + l <= s.rcvNxt =>
            /\ q + l <= (i0 + 1) + r + x
            /\ \A i \in 1 .. l : u.data[i] = ByteAt(s, q - (i0 + 1) + i)
      BY <1>3 DEF ConnOK, TextsOK, TextOK, Heard
    <2> HIDE DEF l, q, i0, r, x
    <2>3. ASSUME q + l <= s.rcvNxt, NEW i \in Nat, 1 <= i, i <= l
          PROVE  u.data[i] = ByteAt(t, q - (i0 + 1) + i)
      <3> DEFINE k == q - (i0 + 1) + i
      <3>0. q + l <= (i0 + 1) + r + x /\ i \in 1 .. l
        BY <2>1, <2>2, <2>3
      <3>1. k \in Nat /\ 1 <= k /\ k <= r + x
        BY <1>4, <2>1, <2>3, <3>0
      <3>2. u.data[i] = ByteAt(s, k)
        BY <2>2, <2>3, <3>0
      <3> HIDE DEF k
      <3>3. ByteAt(t, k) = ByteAt(s, k)
        BY <1>7, <3>1
      <3> QED
        BY <3>2, <3>3 DEF k
    <2>4. q + l <= s.rcvNxt => q + l <= (i0 + 1) + Len(t.read) + t.rxLen
      BY <1>2, <1>4, <1>6, <2>1, <2>2
    <2>5. q + l <= s.rcvNxt =>
             \A i \in 1 .. l : u.data[i] = ByteAt(t, q - (i0 + 1) + i)
      BY <2>1, <2>3
    <2>6. l <= t.rcvWnd
      BY <1>2, <2>1
    <2> QED
      BY <1>2, <2>4, <2>5, <2>6 DEF TextOK, l, q, i0
  <1>12. TextsOK(c, t, w)
    BY <1>11 DEF ConnOK, TextsOK
  <1> QED
    BY <1>1, <1>8, <1>9, <1>10, <1>12 DEF ConnOK, t

\* The Server takes the FIN of m in: t is s after that.
LEMMA ServerFinishes ==
    ASSUME NEW c \in Pcb, NEW s \in Pcb, NEW t \in Pcb, NEW w \in SUBSET Segment,
           NEW m \in w, ConnOK(c, s, w), m.src = Client, FromClient(c, s, m),
           m.flag = {"ACK", "FIN"}, m.seq = s.rcvNxt, m.seq + 1 = c.nxt,
           Heard(s), s.state \in {"ESTABLISHED", "FIN-WAIT-1", "FIN-WAIT-2"},
           t.rcvNxt = c.nxt, t.state \in {"CLOSE-WAIT", "CLOSING", "TIME-WAIT"},
           t.rxQueue = s.rxQueue, t.rxLen = s.rxLen, t.rcvWnd = s.rcvWnd,
           t.foreign = s.foreign, t.iss = s.iss, t.una = s.una, t.nxt = s.nxt,
           t.wnd = s.wnd, t.retxQueue = s.retxQueue,
           t.rcvCmd = s.rcvCmd, t.call = s.call, t.read = s.read
    PROVE  ConnOK(c, t, w)
  <1>1. ClientOK(c) /\ ServerOK(s) /\ EndsOK(c, s)
    BY DEF ConnOK
  <1>2. /\ Heard(t) /\ FinHeard(t) = {1} /\ s.state \in Unfinished
        /\ t.state \notin Unfinished
    BY DEF Heard, FinHeard, Unfinished
  <1>3. c.state \in {"FIN-WAIT-1", "FIN-WAIT-2", "CLOSED"}
    BY DEF FromClient
  <1>4. ServerOK(t)
    <2>1. \A e \in t.retxQueue : ServerEntry(t, e)
      BY <1>1 DEF ServerOK, ServerEntry
    <2> QED
      BY <1>1, <1>2, <2>1 DEF ServerOK
  <1> DEFINE r == Len(s.read)
             x == s.rxLen
             a == s.rcvNxt
             i0 == c.iss
             e0 == c.nxt
  <1>5. /\ r \in Nat /\ x \in Nat /\ a \in Nat /\ i0 \in Nat /\ e0 \in Nat
        /\ c.una \in Nat /\ a = (i0 + 1) + r + x /\ e0 = a + 1 /\ c.una <= e0
    BY <1>1, <1>2, PcbFields, StreamEnd, Sizes DEF ClientOK, FromClient
  <1>6. EndsOK(c, t)
    <2>1. t.rcvNxt - (c.iss + 1) - (Len(t.read) + t.rxLen) \in FinHeard(t)
      <3>1. t.rcvNxt - (c.iss + 1) - (Len(t.read) + t.rxLen) = e0 - (i0 + 1) - (r + x)
        OBVIOUS
      <3> HIDE DEF r, x, a, i0, e0
      <3>2. e0 - (i0 + 1) - (r + x) = 1
        BY <1>5
      <3> QED
        BY <1>2, <3>1, <3>2
    <2>2. c.iss < t.rcvNxt /\ c.una <= t.rcvNxt
      <3> HIDE DEF r, x, a, i0, e0
      <3>1. i0 < e0 /\ c.una <= e0
        BY <1>5
      <3> QED
        BY <3>1 DEF i0, e0
    <2> QED
      BY <1>1, <1>2, <1>3, <2>1, <2>2 DEF EndsOK
  <1>7. WireOK(c, t, w)
    <2>1. ASSUME NEW u, FromClient(c, s, u) PROVE FromClient(c, t, u)
      BY <1>2, <2>1 DEF FromClient
    <2>2. ASSUME NEW u \in w, FromServer(c, s, u) PROVE FromServer(c, t, u)
      <3>1. u.ack \in Nat
        BY AckFields
      <3>2. u.ack <= s.rcvNxt => u.ack <= t.rcvNxt /\ u.ack # t.rcvNxt
        BY <1>5, <3>1
      <3> QED
        BY <1>2, <2>2, <3>2 DEF FromServer
    <2> QED
      BY <2>1, <2>2 DEF ConnOK, WireOK
  <1>8. ASSUME NEW u \in Texts(c, w) PROVE TextOK(c, t, u)
    <2>1. u.seq \in Nat /\ Len(u.data) \in Nat /\ Len(u.data) > 0
      BY TextEnds
    <2>2. u.seq + Len(u.data) <= s.rcvNxt
      BY DEF ConnOK, TextsOK
    <2>3. u.seq # t.rcvNxt
      BY <1>5, <2>1, <2>2
    <2>4. TextOK(c, s, u)
      BY DEF ConnOK, TextsOK
    <2> QED
      BY <2>2, <2>3, <2>4 DEF TextOK, ByteAt
  <1>9. TextsOK(c, t, w)
    BY <1>8 DEF ConnOK, TextsOK
  <1> QED
    BY <1>1, <1>4, <1>6, <1>7, <1>9 DEF ConnOK
-----------------------------------------------------------------------------
(***************************************************************************)
(* The steps, action by action.                                            *)
(***************************************************************************)
Conn == ConnOK(pcb[Client], pcb[Server], wire)

\* The types, for the lemmas above.
LEMMA Typed ==
    ASSUME TypeOK
    PROVE  /\ pcb[Client] \in Pcb /\ pcb[Server] \in Pcb /\ wire \in SUBSET Segment
           /\ Client \in Host /\ Server \in Host /\ Server \in Endpoint
           /\ \A h \in Host : \A p : Set(h, p) =>
                 \A g \in Host : pcb'[g] = IF g = h THEN p ELSE pcb[g]
  BY TwoHosts, HostAssumption DEF TypeOK, Set

\* The Client's pcb becomes d, and at most m is sent.
LEMMA ClientTx ==
    ASSUME TypeOK, NEW d \in Pcb, NEW m, Set(Client, d),
           wire' = wire \/ wire' = wire \cup {m},
           ConnOK(d, pcb[Server], wire), wire' = wire \/ Sendable(d, pcb[Server], m)
    PROVE  Conn'
  <1>1. pcb'[Client] = d /\ pcb'[Server] = pcb[Server]
    BY Typed, TwoHosts
  <1>2. ConnOK(d, pcb[Server], wire')
    BY Typed, MaySend
  <1> QED
    BY <1>1, <1>2 DEF Conn

\* The Server's pcb becomes t, and at most m is sent.
LEMMA ServerTx ==
    ASSUME TypeOK, NEW t \in Pcb, NEW m, Set(Server, t),
           wire' = wire \/ wire' = wire \cup {m},
           ConnOK(pcb[Client], t, wire), wire' = wire \/ Sendable(pcb[Client], t, m)
    PROVE  Conn'
  <1>1. pcb'[Client] = pcb[Client] /\ pcb'[Server] = t
    BY Typed, TwoHosts
  <1>2. ConnOK(pcb[Client], t, wire')
    BY Typed, MaySend
  <1> QED
    BY <1>1, <1>2 DEF Conn

\* TxHandler(h, p, m), Set(h, p) /\ Quiet and TxHelperTCP(h, p, flag) for a
\* segment that is not queued.
LEMMA Transmits ==
    ASSUME NEW h, NEW p
    PROVE  /\ \A m : TxHandler(h, p, m) =>
                Set(h, p) /\ (wire' = wire \/ wire' = wire \cup {m})
           /\ \A flag : flag \cap {"SYN", "FIN"} = {} /\ TxHelperTCP(h, p, flag) =>
                /\ Set(h, p)
                /\ \/ wire' = wire
                   \/ wire' = wire \cup {SegmentOf(h, p, flag, <<>>)}
           /\ Quiet => wire' = wire
  <1>1. ASSUME NEW m, TxHandler(h, p, m)
        PROVE  Set(h, p) /\ (wire' = wire \/ wire' = wire \cup {m})
    BY <1>1 DEF TxHandler
  <1>2. ASSUME NEW flag, flag \cap {"SYN", "FIN"} = {}, TxHelperTCP(h, p, flag)
        PROVE  /\ Set(h, p)
               /\ \/ wire' = wire
                  \/ wire' = wire \cup {SegmentOf(h, p, flag, <<>>)}
    <2>1. queueAdd(p, SegmentOf(h, p, flag, <<>>).seq, flag, <<>>, "no", NoCall) = p
      BY <1>2 DEF queueAdd
    <2> QED
      BY <1>2, <2>1 DEF TxHelperTCP
  <1> QED
    BY <1>1, <1>2 DEF Quiet

\* A reset, and the segment of an ended connection, are those of p.
LEMMA SameSegments ==
    ASSUME NEW p \in Pcb, NEW q \in Pcb, Rest(p, q)
    PROVE  /\ \A h, seq, ack, flag : Rst(h, q, seq, ack, flag) = Rst(h, p, seq, ack, flag)
           /\ \A h, flag, data : SegmentOf(h, q, flag, data) = SegmentOf(h, p, flag, data)
           /\ \A h, e : Retransmission(h, q, e) = Retransmission(h, p, e)
  BY DEF Rest, Rst, SegmentOf, Retransmission

\* An end of the connection stays as it is.
LEMMA Ignores == ASSUME Conn, UNCHANGED <<pcb, wire>> PROVE Conn'
  BY DEF Conn

\* Segments are lost.
LEMMA LoseKeeps == ASSUME TypeOK, Conn, Lose PROVE Conn'
  <1>1. wire' \subseteq wire /\ pcb' = pcb
    BY DEF Lose
  <1>2. ConnOK(pcb[Client], pcb[Server], wire')
    BY <1>1, Typed, WireStep DEF Conn
  <1> QED
    BY <1>1, <1>2 DEF Conn

\* tcpTimer on the Client.
LEMMA ClientTimer == ASSUME TypeOK, Conn, Timer(Client) PROVE Conn'
  <1> DEFINE c == pcb[Client]
             s == pcb[Server]
             d == queueAck(c)
  <1>1. c \in Pcb /\ s \in Pcb /\ wire \in SUBSET Segment /\ ConnOK(c, s, wire)
    BY Typed DEF Conn
  <1>2. ClientOK(c)
    BY <1>1 DEF ConnOK
  <1>3. d \in Pcb /\ ConnOK(d, s, wire) /\ d.retxQueue = c.retxQueue
        /\ d.foreign = c.foreign
    BY <1>1, ClientTicks
  <1>4. c.retxQueue # {} => c.foreign = Server
    BY <1>2 DEF ClientOK, ClientEntry
  <1>5. CASE TimeWaitOver(Client)
    BY <1>2, <1>5 DEF TimeWaitOver, ClientOK, Joined
  <1>6. CASE UserTimeout(Client)
    <2>1. Set(Client, Aborted(d)) /\ wire' = wire /\ d.retxQueue # {}
      BY <1>6 DEF UserTimeout, Quiet
    <2> HIDE DEF d
    <2>2. ConnOK(Aborted(d), s, wire) /\ Aborted(d) \in Pcb
      BY <1>3, <1>4, <2>1, ClientAborts, AbortedFields
    <2> QED
      BY <2>1, <2>2, ClientTx
  <1>7. ASSUME NEW R, Retransmit(Client, R) PROVE Conn'
    <2>1. /\ R \subseteq d.retxQueue /\ Set(Client, d)
          /\ wire' = wire \cup {Retransmission(Client, c, e) : e \in R}
      BY <1>7 DEF Retransmit
    <2>2. Rest(c, d)
      BY <1>1, queueAckFields
    <2> HIDE DEF d, c, s
    <2>3. ASSUME NEW e \in R PROVE Sendable(d, s, Retransmission(Client, c, e))
      <3>1. d.foreign = Server /\ e \in d.retxQueue
        BY <1>3, <1>4, <2>1, <2>3
      <3>2. Sendable(d, s, Retransmission(Client, d, e))
        BY <1>1, <1>3, <3>1, ClientSends
      <3> QED
        BY <1>1, <1>3, <2>2, <3>2, SameSegments
    <2>4. ConnOK(d, s, wire')
      <3>1. \A m \in wire' : m \in wire \/ Sendable(d, s, m)
        BY <2>1, <2>3
      <3> QED
        BY <1>1, <1>3, <3>1, WireStep
    <2>5. pcb'[Client] = d /\ pcb'[Server] = s
      BY <2>1, Typed, TwoHosts DEF s
    <2> QED
      BY <2>4, <2>5 DEF Conn
  <1> QED
    BY <1>5, <1>6, <1>7 DEF Timer

\* tcpTimer on the Server.
LEMMA ServerTimer == ASSUME TypeOK, Conn, Timer(Server) PROVE Conn'
  <1> DEFINE c == pcb[Client]
             s == pcb[Server]
             t == queueAck(s)
  <1>1. c \in Pcb /\ s \in Pcb /\ wire \in SUBSET Segment /\ ConnOK(c, s, wire)
    BY Typed DEF Conn
  <1>2. t \in Pcb /\ ConnOK(c, t, wire) /\ t.retxQueue \subseteq s.retxQueue
    BY <1>1, ServerTicks
  <1>3. CASE TimeWaitOver(Server)
    <2>1. Set(Server, Aborted(s)) /\ wire' = wire
      BY <1>3 DEF TimeWaitOver, Quiet
    <2>2. ConnOK(c, Aborted(s), wire) /\ Aborted(s) \in Pcb
      BY <1>1, ServerAborts, AbortedFields
    <2> QED
      BY <2>1, <2>2, ServerTx
  <1>4. CASE UserTimeout(Server)
    <2>1. Set(Server, Aborted(t)) /\ wire' = wire
      BY <1>4 DEF UserTimeout, Quiet
    <2> HIDE DEF t
    <2>2. ConnOK(c, Aborted(t), wire) /\ Aborted(t) \in Pcb
      BY <1>2, ServerAborts, AbortedFields
    <2> QED
      BY <2>1, <2>2, ServerTx
  <1>5. ASSUME NEW R, Retransmit(Server, R) PROVE Conn'
    <2>1. /\ R \subseteq t.retxQueue /\ Set(Server, t)
          /\ wire' = wire \cup {Retransmission(Server, s, e) : e \in R}
      BY <1>5 DEF Retransmit
    <2>2. Rest(s, t)
      BY <1>1, queueAckFields
    <2> HIDE DEF t, c, s
    <2>3. ASSUME NEW e \in R PROVE Sendable(c, t, Retransmission(Server, s, e))
      <3>1. e \in t.retxQueue
        BY <2>1, <2>3
      <3>2. Sendable(c, t, Retransmission(Server, t, e))
        BY <1>1, <1>2, <3>1, ServerSends
      <3> QED
        BY <1>1, <1>2, <2>2, <3>2, SameSegments
    <2>4. ConnOK(c, t, wire')
      <3>1. \A m \in wire' : m \in wire \/ Sendable(c, t, m)
        BY <2>1, <2>3
      <3> QED
        BY <1>1, <1>2, <3>1, WireStep
    <2>5. pcb'[Client] = c /\ pcb'[Server] = t
      BY <2>1, Typed, TwoHosts DEF c
    <2> QED
      BY <2>4, <2>5 DEF Conn
  <1> QED
    BY <1>3, <1>4, <1>5 DEF Timer

\* ABORT by the Client's user.
LEMMA ClientAbort == ASSUME TypeOK, Conn, Abort(Client) PROVE Conn'
  <1> DEFINE c == pcb[Client]
             s == pcb[Server]
             d == Aborted(c)
  <1>1. c \in Pcb /\ s \in Pcb /\ wire \in SUBSET Segment /\ ConnOK(c, s, wire)
    BY Typed DEF Conn
  <1>2. c.state \in Joined \cup {"CLOSED", "SYN-SENT"}
        /\ (c.state # "CLOSED" => c.foreign = Server)
    BY <1>1 DEF ConnOK, ClientOK
  <1>3. d \in Pcb /\ Rest(c, d)
    BY <1>1, AbortedFields
  <1>4. /\ c.state # "CLOSED" /\ Set(Client, d)
        /\ \/ wire' = wire
           \/ wire' = wire \cup {Rst(Client, c, c.nxt, 0, {"RST"})}
    BY <1>2 DEF Abort, TxHandler, Quiet, Joined
  <1>5. ConnOK(d, s, wire)
    BY <1>1, <1>2, <1>4, ClientAborts
  <1> HIDE DEF d
  <1>6. Sendable(d, s, Rst(Client, c, c.nxt, 0, {"RST"}))
    <2>1. d.foreign = Server
      BY <1>2, <1>3, <1>4 DEF Rest
    <2>2. Sendable(d, s, Rst(Client, d, c.nxt, 0, {"RST"}))
      BY <1>1, <1>3, <1>5, <2>1, ClientSends
    <2> QED
      BY <1>1, <1>3, <2>2, SameSegments
  <1> QED
    BY <1>3, <1>4, <1>5, <1>6, ClientTx

\* ABORT by the Server's user.
LEMMA ServerAbort == ASSUME TypeOK, Conn, Abort(Server) PROVE Conn'
  <1> DEFINE c == pcb[Client]
             s == pcb[Server]
  <1>1. c \in Pcb /\ s \in Pcb /\ wire \in SUBSET Segment /\ ConnOK(c, s, wire)
    BY Typed DEF Conn
  <1>2. CASE /\ Set(Server, Aborted(s))
             /\ \/ wire' = wire
                \/ wire' = wire \cup {Rst(Server, s, s.nxt, 0, {"RST"})}
    <2> DEFINE t == Aborted(s)
    <2>1. t \in Pcb /\ Rest(s, t) /\ ConnOK(c, t, wire)
      BY <1>1, AbortedFields, ServerAborts
    <2> HIDE DEF t
    <2>2. Sendable(c, t, Rst(Server, s, s.nxt, 0, {"RST"}))
      <3>1. Sendable(c, t, Rst(Server, t, s.nxt, 0, {"RST"}))
        BY <1>1, <2>1, ServerSends
      <3> QED
        BY <1>1, <2>1, <3>1, SameSegments
    <2> QED
      BY <1>2, <2>1, <2>2, ServerTx DEF t
  <1>3. CASE Set(Server, [s EXCEPT !.state = "CLOSED"]) /\ wire' = wire
    <2>1. [s EXCEPT !.state = "CLOSED"] \in Pcb
      BY <1>1 DEF Pcb, State
    <2> QED
      BY <1>1, <1>3, <2>1, ServerLeaves, ServerTx
  <1> QED
    BY <1>2, <1>3 DEF Abort, TxHandler, Quiet

\* m has been sent for the call x and is queued as e: p has become q.
UserSent(h, p, x, flag, data, state, n, q, e, m) ==
    /\ wire' = wire \cup {m} /\ m = SegmentOf(h, p, flag, data)
    /\ e.seq = m.seq /\ e.flag = flag /\ e.data = data /\ e.call = x
    /\ Set(h, q)
    /\ q.retxQueue = p.retxQueue \cup {e} /\ q.state = state
    /\ q.nxt = Plus(p.nxt, n)
    /\ q.foreign = p.foreign /\ q.iss = p.iss /\ q.una = p.una
    /\ q.wnd = p.wnd /\ q.wl1 = p.wl1 /\ q.wl2 = p.wl2
    /\ q.rcvNxt = p.rcvNxt /\ q.rcvWnd = p.rcvWnd
    /\ q.rxQueue = p.rxQueue /\ q.rxLen = p.rxLen /\ q.read = p.read
    /\ q.rcvCmd = p.rcvCmd /\ q.call = p.call /\ q.errCh = p.errCh

\* TxUser, field by field.
LEMMA TxUserFields ==
    ASSUME NEW h \in Host, NEW p \in Pcb, NEW x \in Call, NEW trigger \in Trigger,
           NEW flag \in SUBSET Flag, NEW data \in Payload, NEW state \in State,
           NEW n \in SeqNum, flag \cap {"SYN", "FIN"} # {} \/ data # <<>>,
           TxUser(h, p, x, trigger, flag, data, state, n)
    PROVE  \/ \E q \in Pcb, e \in RetxEntry, m \in Segment :
                 UserSent(h, p, x, flag, data, state, n, q, e, m)
           \/ wire' = wire /\ Set(h, Notify(p, {x}, "err"))
  <1> DEFINE m == SegmentOf(h, p, flag, data)
             e == [seq |-> m.seq, flag |-> flag, data |-> data,
                   trigger |-> trigger, call |-> x]
             o == [p EXCEPT !.retxQueue = @ \cup {e}]
             q == [p EXCEPT !.retxQueue = @ \cup {e}, !.state = state,
                            !.nxt = Plus(p.nxt, n)]
  <1>1. queueAdd(p, m.seq, flag, data, trigger, x) = o
    BY DEF queueAdd
  <1>2. \/ wire' = wire \cup {m} /\ Set(h, [o EXCEPT !.state = state, !.nxt = Plus(@, n)])
        \/ wire' = wire /\ Set(h, Notify(p, {x}, "err"))
    BY <1>1 DEF TxUser
  <1>3. m \in Segment /\ e \in RetxEntry
    <2>1. m \in Segment /\ m.seq \in SeqNum
      BY SegmentOfType DEF Segment
    <2> QED
      BY <2>1 DEF RetxEntry
  <1>8. e.seq = m.seq /\ e.flag = flag /\ e.data = data /\ e.call = x
    OBVIOUS
  <1>4. Plus(p.nxt, n) \in SeqNum
    BY PlusType DEF Pcb
  <1> HIDE DEF m, e
  <1>5. [o EXCEPT !.state = state, !.nxt = Plus(@, n)] = q
    BY DEF Pcb
  <1>6. q \in Pcb
    BY <1>3, <1>4 DEF Pcb
  <1>7. /\ q.retxQueue = p.retxQueue \cup {e} /\ q.state = state
        /\ q.nxt = Plus(p.nxt, n)
        /\ q.foreign = p.foreign /\ q.iss = p.iss /\ q.una = p.una
        /\ q.wnd = p.wnd /\ q.wl1 = p.wl1 /\ q.wl2 = p.wl2
        /\ q.rcvNxt = p.rcvNxt /\ q.rcvWnd = p.rcvWnd
        /\ q.rxQueue = p.rxQueue /\ q.rxLen = p.rxLen /\ q.read = p.read
        /\ q.rcvCmd = p.rcvCmd /\ q.call = p.call /\ q.errCh = p.errCh
    BY DEF Pcb
  <1> HIDE DEF q
  <1>9. CASE wire' = wire \cup {m} /\ Set(h, q)
    <2>1. m = SegmentOf(h, p, flag, data)
      BY DEF m
    <2> QED
      BY <1>3, <1>6, <1>7, <1>8, <1>9, <2>1 DEF UserSent
  <1> QED
    BY <1>2, <1>5, <1>9

\* Issue, field by field.
LEMMA Issued ==
    ASSUME TypeOK, NEW h \in Host, NEW x \in Call, NEW k \in Kind
    PROVE  LET c == pcb[h]
               p == Issue(h, x, k)
           IN  /\ c \in Pcb /\ p \in Pcb
               /\ p.state = c.state /\ p.retxQueue = c.retxQueue
               /\ p.rcvCmd = c.rcvCmd /\ p.errCh = c.errCh
               /\ p.foreign = c.foreign /\ p.iss = c.iss /\ p.una = c.una
               /\ p.nxt = c.nxt /\ p.wnd = c.wnd /\ p.wl1 = c.wl1 /\ p.wl2 = c.wl2
               /\ p.rcvNxt = c.rcvNxt /\ p.rcvWnd = c.rcvWnd
               /\ p.rxQueue = c.rxQueue /\ p.rxLen = c.rxLen /\ p.read = c.read
               /\ \A y \in Call : p.call[y] = IF y = x THEN k ELSE c.call[y]
  <1>1. pcb[h] \in Pcb /\ Issue(h, x, k) \in Pcb
    BY IssueType
  <1> QED
    BY <1>1 DEF Issue, Pcb

\* The Client's OPEN.
LEMMA ClientOpen ==
    ASSUME TypeOK, Conn, NoWrap', NEW x \in Call, NEW iss \in ISS,
           ~Made(Client, "open"), ActiveOpen(Client, x, Server, iss)
    PROVE  Conn'
  <1> DEFINE c == pcb[Client]
             s == pcb[Server]
             p == Issue(Client, x, "open")
             o == [p EXCEPT !.foreign = Server, !.iss = iss,
                            !.una = iss, !.nxt = Plus(iss, 1)]
  <1>1. c \in Pcb /\ s \in Pcb /\ wire \in SUBSET Segment /\ ConnOK(c, s, wire)
    BY Typed DEF Conn
  <1>2. /\ p \in Pcb /\ p.state = c.state /\ p.retxQueue = c.retxQueue
        /\ p.rcvCmd = c.rcvCmd /\ p.errCh = c.errCh /\ p.rcvWnd = c.rcvWnd
        /\ \A y \in Call : p.call[y] = IF y = x THEN "open" ELSE c.call[y]
    BY Typed, Issued DEF Kind
  <1>3. c.call[x] = "idle" /\ \A y \in Call : c.call[y] # "open"
    BY DEF ActiveOpen, Idle, Made
  <1>4. iss \in SeqNum /\ iss \in Nat /\ Plus(iss, 1) \in SeqNum /\ 0 \in SeqNum
    BY ISSAssumption, SmallType, PlusType DEF SeqNum
  <1>5. /\ o \in Pcb /\ o.foreign = Server /\ o.iss = iss /\ o.una = iss
        /\ o.nxt = Plus(iss, 1) /\ o.state = p.state /\ o.retxQueue = p.retxQueue
        /\ o.rcvCmd = p.rcvCmd /\ o.errCh = p.errCh /\ o.rcvWnd = p.rcvWnd
        /\ o.call = p.call
    <2> HIDE DEF p
    <2> QED
      BY <1>2, <1>4, Typed DEF Pcb
  <1>6. TxUser(Client, o, x, "open", {"SYN"}, <<>>, "SYN-SENT", 0)
    BY TwoHosts DEF ActiveOpen
  <1> HIDE DEF c, s, p, o
  <1>8. \/ \E q \in Pcb, e \in RetxEntry, m \in Segment :
              UserSent(Client, o, x, {"SYN"}, <<>>, "SYN-SENT", 0, q, e, m)
        \/ wire' = wire /\ Set(Client, Notify(o, {x}, "err"))
    <2>1. {"SYN"} \cap {"SYN", "FIN"} # {} /\ {"SYN"} \in SUBSET Flag
          /\ "open" \in Trigger /\ <<>> \in Payload /\ "SYN-SENT" \in State
      BY PayloadType DEF Flag, Trigger, State
    <2> QED
      BY <1>4, <1>5, <1>6, <2>1, Typed, TxUserFields
  <1>9. ASSUME NEW q \in Pcb, NEW e \in RetxEntry, NEW m \in Segment,
               UserSent(Client, o, x, {"SYN"}, <<>>, "SYN-SENT", 0, q, e, m)
        PROVE  Conn'
    <2>a. /\ m = SegmentOf(Client, o, {"SYN"}, <<>>)
          /\ e.seq = m.seq /\ e.flag = {"SYN"} /\ e.data = <<>> /\ e.call = x
          /\ wire' = wire \cup {m} /\ Set(Client, q)
          /\ q.retxQueue = o.retxQueue \cup {e} /\ q.state = "SYN-SENT"
          /\ q.nxt = Plus(o.nxt, 0) /\ q.foreign = o.foreign /\ q.iss = o.iss
          /\ q.una = o.una /\ q.rcvWnd = o.rcvWnd /\ q.rcvCmd = o.rcvCmd
          /\ q.call = o.call /\ q.errCh = o.errCh
      BY <1>9 DEF UserSent
    <2>1. /\ m.src = Client /\ m.dst = Server /\ m.flag = {"SYN"}
          /\ m.seq = iss /\ m.data = <<>> /\ e.seq = iss
      BY <1>5, <2>a DEF SegmentOf
    <2>2. pcb'[Client] = q
      BY <2>a, Typed
    <2>3. Roomy(q)
      BY <2>2 DEF NoWrap
    <2>4. Plus(iss, 1) = iss + 1
      BY <1>4, <1>5, <2>a, <2>3, Sizes, PlusIsSum DEF Roomy
    <2>5. q.nxt = iss + 1
      BY <1>4, <1>5, <2>a, <2>3, <2>4, Sizes, PlusIsSum DEF Roomy
    <2>6. Called(c, q, x, "open")
      BY <1>2, <1>3, <1>5, <2>a DEF Called
    <2>7. WaitsOn(c, q, x, e)
      BY <1>2, <1>5, <2>a DEF WaitsOn
    <2>8. ConnOK(q, s, wire)
      BY <1>1, <1>3, <1>5, <2>a, <2>1, <2>5, <2>6, <2>7, ClientOpens
    <2>9. Sendable(q, s, m)
      <3>1. FromClient(q, s, m)
        BY <1>5, <2>a, <2>1 DEF FromClient
      <3>2. {"SYN"} # {"ACK", "FIN"}
        OBVIOUS
      <3> QED
        BY <2>1, <3>1, <3>2 DEF Sendable
    <2> QED
      BY <2>a, <2>8, <2>9, ClientTx DEF s
  <1>10. CASE wire' = wire /\ Set(Client, Notify(o, {x}, "err"))
    <2> DEFINE d == Notify(o, {x}, "err")
    <2>1. /\ d \in Pcb /\ Rest(o, d) /\ d.state = o.state
          /\ d.retxQueue = o.retxQueue /\ d.rcvCmd = o.rcvCmd
          /\ Told(o, d, {x}, "err")
      BY <1>5, NotifyFields DEF Answer
    <2> HIDE DEF d
    <2>2. pcb'[Client] = d
      BY <1>10, Typed DEF d
    <2>3. Roomy(d)
      BY <2>2 DEF NoWrap
    <2>4. d.nxt = iss + 1
      BY <1>4, <1>5, <2>1, <2>3, Sizes, PlusIsSum DEF Roomy, Rest
    <2>5. Called(c, d, x, "open")
      BY <1>2, <1>3, <1>5, <2>1 DEF Called, Rest
    <2>6. \A y \in Call \ {x} : d.errCh[y] = c.errCh[y]
      BY <1>2, <1>5, <2>1 DEF Told
    <2>7. d.foreign = Server /\ d.una = d.iss /\ d.nxt = d.iss + 1
      BY <1>5, <2>1, <2>4 DEF Rest
    <2>8. ConnOK(d, s, wire)
      BY <1>1, <1>2, <1>3, <1>5, <2>1, <2>5, <2>6, <2>7, ClientOpens
    <2> QED
      BY <1>10, <2>1, <2>8, ClientTx DEF d, s
  <1> QED
    BY <1>8, <1>9, <1>10

\* With every call answered nothing waits in the Client's queue.
LEMMA NothingWaits ==
    ASSUME Conn, Answered(Client)
    PROVE  pcb[Client].retxQueue = {}
  <1>1. \A e \in pcb[Client].retxQueue : ClientEntry(pcb[Client], e)
    BY DEF Conn, ConnOK, ClientOK
  <1> QED
    BY <1>1 DEF Answered, Idle, ClientEntry

\* A call of the Client that gets the error.
LEMMA ClientFails ==
    ASSUME TypeOK, Conn, NEW x \in Call, NEW k \in Kind \ {"idle"},
           pcb[Client].call[x] = "idle",
           Set(Client, Notify(Issue(Client, x, k), {x}, "err")), wire' = wire
    PROVE  Conn'
  <1> DEFINE c == pcb[Client]
             p == Issue(Client, x, k)
             d == Notify(p, {x}, "err")
  <1>1. /\ c \in Pcb /\ pcb[Server] \in Pcb /\ wire \in SUBSET Segment
        /\ ConnOK(c, pcb[Server], wire)
    BY Typed DEF Conn
  <1>2. /\ p \in Pcb /\ p.state = c.state /\ p.retxQueue = c.retxQueue
        /\ p.rcvCmd = c.rcvCmd /\ p.errCh = c.errCh
        /\ p.foreign = c.foreign /\ p.iss = c.iss /\ p.una = c.una
        /\ p.nxt = c.nxt /\ p.wnd = c.wnd /\ p.wl1 = c.wl1 /\ p.wl2 = c.wl2
        /\ p.rcvNxt = c.rcvNxt /\ p.rcvWnd = c.rcvWnd
        /\ \A y \in Call : p.call[y] = IF y = x THEN k ELSE c.call[y]
    BY Typed, Issued
  <1> HIDE DEF c, p
  <1>3. /\ d \in Pcb /\ Rest(p, d) /\ d.state = p.state
        /\ d.retxQueue = p.retxQueue /\ d.rcvCmd = p.rcvCmd
        /\ Told(p, d, {x}, "err")
    BY <1>2, NotifyFields DEF Answer
  <1> HIDE DEF d
  <1>4. SameNumbers(c, d)
    BY <1>2, <1>3 DEF SameNumbers, Rest
  <1>5. \A y \in Call : d.call[y] = IF y = x THEN k ELSE c.call[y]
    BY <1>2, <1>3 DEF Rest
  <1>6. \A y \in Call : d.errCh[y] = IF y = x THEN Append(c.errCh[y], "err")
                                     ELSE c.errCh[y]
    BY <1>2, <1>3 DEF Told
  <1>7. d.rcvWnd = c.rcvWnd /\ d.rcvCmd = c.rcvCmd /\ d.state = c.state
        /\ d.retxQueue = c.retxQueue
    BY <1>2, <1>3 DEF Rest
  <1>8. ConnOK(d, pcb[Server], wire)
    BY <1>1, <1>4, <1>5, <1>6, <1>7, ClientIsRefused DEF c
  <1> QED
    BY <1>3, <1>8, ClientTx DEF d, p

\* The Client's SEND.
LEMMA ClientSend ==
    ASSUME TypeOK, Conn, NoWrap, NEW x \in Call, NEW data \in SendData,
           data # <<>>, Len(data) <= pcb[Client].wnd,
           pcb[Client].state = "ESTABLISHED", Answered(Client),
           Send(Client, x, data)
    PROVE  Conn'
  <1> DEFINE c == pcb[Client]
             s == pcb[Server]
             p == Issue(Client, x, "send")
             n == Len(data)
  <1>1. c \in Pcb /\ s \in Pcb /\ wire \in SUBSET Segment /\ ConnOK(c, s, wire)
        /\ c.retxQueue = {} /\ Roomy(c)
    BY Typed, NothingWaits DEF Conn, NoWrap
  <1>2. /\ p \in Pcb /\ p.state = c.state /\ p.retxQueue = c.retxQueue
        /\ p.rcvCmd = c.rcvCmd /\ p.errCh = c.errCh
        /\ p.foreign = c.foreign /\ p.iss = c.iss /\ p.una = c.una
        /\ p.nxt = c.nxt /\ p.wnd = c.wnd /\ p.wl1 = c.wl1 /\ p.wl2 = c.wl2
        /\ p.rcvNxt = c.rcvNxt /\ p.rcvWnd = c.rcvWnd
        /\ \A y \in Call : p.call[y] = IF y = x THEN "send" ELSE c.call[y]
    BY Typed, Issued DEF Kind
  <1>3. /\ data \in Payload /\ data \in Seq(Byte) /\ n \in SeqNum /\ n \in Nat
        /\ n <= BufferSize
    <2>1. data \in Payload /\ data \in Seq(Byte) /\ n \in Wnd
      BY DataAssumption, PayloadType
    <2> QED
      BY <2>1, SmallType DEF Wnd
  <1>4. /\ Idle(Client, x)
        /\ TxUser(Client, p, x, "send", {"ACK"}, data, p.state, n)
    <2>1. ~(Len(data) > p.wnd)
      BY <1>1, <1>2, <1>3, PcbFields, Sizes
    <2> QED
      BY <1>2, <2>1 DEF Send
  <1>5. c.call[x] = "idle" /\ Plus(c.nxt, n) = c.nxt + n
    BY <1>1, <1>3, <1>4, PcbFields, Sizes, PlusIsSum DEF Idle, Roomy
  <1> HIDE DEF c, s, p, n
  <1>6. \/ \E q \in Pcb, e \in RetxEntry, m \in Segment :
              UserSent(Client, p, x, {"ACK"}, data, p.state, n, q, e, m)
        \/ wire' = wire /\ Set(Client, Notify(p, {x}, "err"))
    <2>1. {"ACK"} \in SUBSET Flag /\ "send" \in Trigger /\ p.state \in State
      BY <1>2, PcbFields DEF Flag, Trigger
    <2> QED
      BY <1>2, <1>3, <1>4, <2>1, Typed, TxUserFields
  <1>7. ASSUME NEW q \in Pcb, NEW e \in RetxEntry, NEW m \in Segment,
               UserSent(Client, p, x, {"ACK"}, data, p.state, n, q, e, m)
        PROVE  Conn'
    <2>1. /\ m = SegmentOf(Client, p, {"ACK"}, data)
          /\ e.seq = m.seq /\ e.flag = {"ACK"} /\ e.data = data /\ e.call = x
          /\ wire' = wire \cup {m} /\ Set(Client, q)
          /\ q.retxQueue = p.retxQueue \cup {e} /\ q.state = p.state
          /\ q.nxt = Plus(p.nxt, n) /\ q.foreign = p.foreign /\ q.iss = p.iss
          /\ q.una = p.una /\ q.rcvWnd = p.rcvWnd /\ q.rcvCmd = p.rcvCmd
          /\ q.wnd = p.wnd /\ q.wl1 = p.wl1 /\ q.wl2 = p.wl2 /\ q.rcvNxt = p.rcvNxt
          /\ q.call = p.call /\ q.errCh = p.errCh
      BY <1>7 DEF UserSent
    <2>2. /\ m.src = Client /\ m.dst = p.foreign /\ m.flag = {"ACK"}
          /\ m.seq = p.nxt /\ m.ack = p.rcvNxt /\ m.data = data
      BY <2>1 DEF SegmentOf
    <2>3. m.dst = Server
      BY <1>1, <1>2, <2>2 DEF ConnOK, ClientOK, c
    <2>4. Called(c, q, x, "send") /\ WaitsOn(c, q, x, e)
      BY <1>2, <1>5, <2>1 DEF Called, WaitsOn
    <2>5. q.nxt = c.nxt + Len(e.data) /\ Len(e.data) <= c.wnd
      BY <1>2, <1>5, <2>1 DEF n, c
    <2>6. ConnOK(q, s, wire) /\ Sendable(q, s, m)
      <3>1. /\ q.foreign = c.foreign /\ q.iss = c.iss /\ q.una = c.una
            /\ q.wnd = c.wnd /\ q.wl1 = c.wl1 /\ q.wl2 = c.wl2
            /\ q.rcvNxt = c.rcvNxt /\ q.state = c.state
            /\ c.state = "ESTABLISHED"
        BY <1>2, <2>1 DEF c
      <3>2. /\ e.flag = {"ACK"} /\ e.seq = c.nxt /\ e.data # <<>>
            /\ m.src = Client /\ m.dst = Server /\ m.flag = {"ACK"}
            /\ m.seq = c.nxt /\ m.ack = c.rcvNxt /\ m.data = e.data
        BY <1>2, <2>1, <2>2, <2>3
      <3> QED
        BY <1>1, <2>4, <2>5, <3>1, <3>2, ClientQueues
    <2> QED
      BY <2>1, <2>6, ClientTx DEF s
  <1> QED
    BY <1>5, <1>6, <1>7, ClientFails DEF Kind, p, c

\* The Client's CLOSE.
LEMMA ClientClose ==
    ASSUME TypeOK, Conn, NoWrap, NEW x \in Call,
           pcb[Client].state = "ESTABLISHED", Answered(Client), Close(Client, x)
    PROVE  Conn'
  <1> DEFINE c == pcb[Client]
             s == pcb[Server]
             p == Issue(Client, x, "close")
  <1>1. c \in Pcb /\ s \in Pcb /\ wire \in SUBSET Segment /\ ConnOK(c, s, wire)
        /\ c.retxQueue = {} /\ Roomy(c)
    BY Typed, NothingWaits DEF Conn, NoWrap
  <1>2. /\ p \in Pcb /\ p.state = c.state /\ p.retxQueue = c.retxQueue
        /\ p.rcvCmd = c.rcvCmd /\ p.errCh = c.errCh
        /\ p.foreign = c.foreign /\ p.iss = c.iss /\ p.una = c.una
        /\ p.nxt = c.nxt /\ p.wnd = c.wnd /\ p.wl1 = c.wl1 /\ p.wl2 = c.wl2
        /\ p.rcvNxt = c.rcvNxt /\ p.rcvWnd = c.rcvWnd
        /\ \A y \in Call : p.call[y] = IF y = x THEN "close" ELSE c.call[y]
    BY Typed, Issued DEF Kind
  <1>4. /\ Idle(Client, x)
        /\ TxUser(Client, p, x, "close", {"ACK", "FIN"}, <<>>, "FIN-WAIT-1", 1)
    BY <1>2 DEF Close
  <1>5. c.call[x] = "idle" /\ Plus(c.nxt, 1) = c.nxt + 1 /\ 1 \in SeqNum
    BY <1>1, <1>4, PcbFields, Sizes, SmallType, PlusIsSum DEF Idle, Roomy
  <1> HIDE DEF c, s, p
  <1>6. \/ \E q \in Pcb, e \in RetxEntry, m \in Segment :
              UserSent(Client, p, x, {"ACK", "FIN"}, <<>>, "FIN-WAIT-1", 1, q, e, m)
        \/ wire' = wire /\ Set(Client, Notify(p, {x}, "err"))
    <2>1. {"ACK", "FIN"} \in SUBSET Flag /\ "close" \in Trigger /\ <<>> \in Payload
          /\ "FIN-WAIT-1" \in State /\ {"ACK", "FIN"} \cap {"SYN", "FIN"} # {}
      BY PayloadType DEF Flag, Trigger, State
    <2> QED
      BY <1>2, <1>4, <1>5, <2>1, Typed, TxUserFields
  <1>7. ASSUME NEW q \in Pcb, NEW e \in RetxEntry, NEW m \in Segment,
               UserSent(Client, p, x, {"ACK", "FIN"}, <<>>, "FIN-WAIT-1", 1, q, e, m)
        PROVE  Conn'
    <2>1. /\ m = SegmentOf(Client, p, {"ACK", "FIN"}, <<>>)
          /\ e.seq = m.seq /\ e.flag = {"ACK", "FIN"} /\ e.data = <<>> /\ e.call = x
          /\ wire' = wire \cup {m} /\ Set(Client, q)
          /\ q.retxQueue = p.retxQueue \cup {e} /\ q.state = "FIN-WAIT-1"
          /\ q.nxt = Plus(p.nxt, 1) /\ q.foreign = p.foreign /\ q.iss = p.iss
          /\ q.una = p.una /\ q.rcvWnd = p.rcvWnd /\ q.rcvCmd = p.rcvCmd
          /\ q.wnd = p.wnd /\ q.wl1 = p.wl1 /\ q.wl2 = p.wl2 /\ q.rcvNxt = p.rcvNxt
          /\ q.call = p.call /\ q.errCh = p.errCh
      BY <1>7 DEF UserSent
    <2>2. /\ m.src = Client /\ m.dst = p.foreign /\ m.flag = {"ACK", "FIN"}
          /\ m.seq = p.nxt /\ m.ack = p.rcvNxt /\ m.data = <<>>
      BY <2>1 DEF SegmentOf
    <2>3. m.dst = Server
      BY <1>1, <1>2, <2>2 DEF ConnOK, ClientOK, c
    <2>4. Called(c, q, x, "close") /\ WaitsOn(c, q, x, e)
      BY <1>2, <1>5, <2>1 DEF Called, WaitsOn
    <2>6. ConnOK(q, s, wire) /\ Sendable(q, s, m)
      <3>1. /\ q.foreign = c.foreign /\ q.iss = c.iss /\ q.una = c.una
            /\ q.wnd = c.wnd /\ q.wl1 = c.wl1 /\ q.wl2 = c.wl2
            /\ q.rcvNxt = c.rcvNxt /\ q.state = "FIN-WAIT-1"
            /\ c.state = "ESTABLISHED" /\ q.nxt = c.nxt + 1
        BY <1>2, <1>5, <2>1 DEF c
      <3>2. /\ e.flag = {"ACK", "FIN"} /\ e.seq = c.nxt /\ e.data = <<>>
            /\ m.src = Client /\ m.dst = Server /\ m.flag = {"ACK", "FIN"}
            /\ m.seq = c.nxt /\ m.ack = c.rcvNxt /\ m.data = <<>>
        BY <1>2, <2>1, <2>2, <2>3
      <3> QED
        BY <1>1, <2>4, <3>1, <3>2, ClientCloses
    <2> QED
      BY <2>1, <2>6, ClientTx DEF s
  <1> QED
    BY <1>5, <1>6, <1>7, ClientFails DEF Kind, p, c

\* The Client's user.
LEMMA ClientUserKeeps ==
    ASSUME TypeOK, Conn, NoWrap, NoWrap', ClientUser
    PROVE  Conn' /\ TypeOK'
  <1> DEFINE x == Fresh(Client)
  <1>1. x \in Call
    BY DEF ClientUser, HasFresh, Fresh
  <1> HIDE DEF x
  <1>2. CASE ~Made(Client, "open") /\ \E iss \in ISS : ActiveOpen(Client, x, Server, iss)
    BY <1>1, <1>2, Typed, ClientOpen, OpenType
  <1>3. CASE /\ pcb[Client].state = "ESTABLISHED" /\ Answered(Client)
             /\ \E d \in SendData \ {<<>>} :
                   Len(d) <= pcb[Client].wnd /\ Send(Client, x, d)
    BY <1>1, <1>3, Typed, ClientSend, SendType
  <1>4. CASE /\ pcb[Client].state = "ESTABLISHED" /\ Answered(Client)
             /\ Close(Client, x)
    BY <1>1, <1>4, Typed, ClientClose, CloseType
  <1> QED
    BY <1>2, <1>3, <1>4 DEF ClientUser, x

\* A call of the Server that gets an answer at once and changes nothing else.
LEMMA ServerAnswers ==
    ASSUME TypeOK, Conn, NEW x \in Call, NEW k \in Kind, NEW r \in Answer,
           pcb[Server].call[x] = "idle",
           Set(Server, Notify(Issue(Server, x, k), {x}, r)), wire' = wire
    PROVE  Conn'
  <1> DEFINE s == pcb[Server]
             p == Issue(Server, x, k)
             t == Notify(p, {x}, r)
  <1>1. /\ pcb[Client] \in Pcb /\ s \in Pcb /\ wire \in SUBSET Segment
        /\ ConnOK(pcb[Client], s, wire)
    BY Typed DEF Conn
  <1>2. /\ p \in Pcb /\ p.state = s.state /\ p.retxQueue = s.retxQueue
        /\ p.rcvCmd = s.rcvCmd /\ p.foreign = s.foreign /\ p.iss = s.iss
        /\ p.una = s.una /\ p.nxt = s.nxt /\ p.wnd = s.wnd
        /\ p.rcvNxt = s.rcvNxt /\ p.rcvWnd = s.rcvWnd
        /\ p.rxQueue = s.rxQueue /\ p.rxLen = s.rxLen /\ p.read = s.read
        /\ \A y \in Call : p.call[y] = IF y = x THEN k ELSE s.call[y]
    BY Typed, Issued
  <1> HIDE DEF s, p
  <1>3. /\ t \in Pcb /\ Rest(p, t) /\ t.state = p.state
        /\ t.retxQueue = p.retxQueue /\ t.rcvCmd = p.rcvCmd
    BY <1>2, NotifyFields
  <1> HIDE DEF t
  <1>4. SameStream(s, t)
    BY <1>2, <1>3 DEF SameStream, Rest
  <1>5. /\ t.state = s.state /\ t.una = s.una /\ t.nxt = s.nxt /\ t.wnd = s.wnd
        /\ t.retxQueue = s.retxQueue /\ t.rcvCmd = s.rcvCmd
        /\ \A y \in Call : t.call[y] = IF y = x THEN k ELSE s.call[y]
    BY <1>2, <1>3 DEF Rest
  <1>6. ConnOK(pcb[Client], t, wire)
    BY <1>1, <1>4, <1>5, ServerIsAsked DEF s
  <1> QED
    BY <1>3, <1>6, ServerTx DEF t, p

\* The Server's OPEN.
LEMMA ServerOpen ==
    ASSUME TypeOK, Conn, NEW x \in Call, ~Made(Server, "open"),
           PassiveOpen(Server, x)
    PROVE  Conn'
  <1> DEFINE s == pcb[Server]
             p == Issue(Server, x, "open")
             o == [p EXCEPT !.state = "LISTEN"]
             t == Notify(o, {x}, "ok")
  <1>1. /\ pcb[Client] \in Pcb /\ s \in Pcb /\ wire \in SUBSET Segment
        /\ ConnOK(pcb[Client], s, wire)
    BY Typed DEF Conn
  <1>2. /\ p \in Pcb /\ p.state = s.state /\ p.retxQueue = s.retxQueue
        /\ p.rcvCmd = s.rcvCmd /\ p.foreign = s.foreign /\ p.iss = s.iss
        /\ p.una = s.una /\ p.nxt = s.nxt /\ p.wnd = s.wnd
        /\ p.rcvNxt = s.rcvNxt /\ p.rcvWnd = s.rcvWnd
        /\ p.rxQueue = s.rxQueue /\ p.rxLen = s.rxLen /\ p.read = s.read
        /\ \A y \in Call : p.call[y] = IF y = x THEN "open" ELSE s.call[y]
    BY Typed, Issued DEF Kind
  <1>3. \A y \in Call : s.call[y] # "open"
    BY DEF Made
  <1>4. Set(Server, t) /\ wire' = wire
    BY DEF PassiveOpen, Quiet
  <1> HIDE DEF s, p
  <1>5. o \in Pcb /\ Rest(p, o) /\ o.state = "LISTEN" /\ o.retxQueue = p.retxQueue
        /\ o.rcvCmd = p.rcvCmd
    BY <1>2 DEF Pcb, State, Rest
  <1> HIDE DEF o
  <1>6. /\ t \in Pcb /\ Rest(o, t) /\ t.state = o.state
        /\ t.retxQueue = o.retxQueue /\ t.rcvCmd = o.rcvCmd
    BY <1>5, NotifyFields DEF Answer
  <1> HIDE DEF t
  <1>7. SameStream(s, t)
    BY <1>2, <1>5, <1>6 DEF SameStream, Rest
  <1>8. /\ t.state = "LISTEN" /\ t.una = s.una /\ t.wnd = s.wnd
        /\ t.retxQueue = s.retxQueue /\ t.rcvCmd = s.rcvCmd /\ t.call[x] = "open"
    BY <1>2, <1>5, <1>6 DEF Rest
  <1>9. ConnOK(pcb[Client], t, wire)
    BY <1>1, <1>3, <1>7, <1>8, ServerListens
  <1> QED
    BY <1>4, <1>6, <1>9, ServerTx

\* The Server's RECEIVE.
LEMMA ServerReceive ==
    ASSUME ReadsAll, TypeOK, Conn, NEW x \in Call, NEW n \in RecvSize,
           pcb[Server].state \in {"ESTABLISHED", "CLOSE-WAIT"},
           Receive(Server, x, n)
    PROVE  Conn'
  <1> DEFINE s == pcb[Server]
             p == Issue(Server, x, "receive")
             o == [p EXCEPT !.rcvCmd = [call |-> x, size |-> n]]
             t == signalReceive(o)
  <1>1. /\ pcb[Client] \in Pcb /\ s \in Pcb /\ wire \in SUBSET Segment
        /\ ConnOK(pcb[Client], s, wire)
    BY Typed DEF Conn
  <1>2. /\ p \in Pcb /\ p.state = s.state /\ p.retxQueue = s.retxQueue
        /\ p.rcvCmd = s.rcvCmd /\ p.foreign = s.foreign /\ p.iss = s.iss
        /\ p.una = s.una /\ p.nxt = s.nxt /\ p.wnd = s.wnd
        /\ p.rcvNxt = s.rcvNxt /\ p.rcvWnd = s.rcvWnd
        /\ p.rxQueue = s.rxQueue /\ p.rxLen = s.rxLen /\ p.read = s.read
        /\ \A y \in Call : p.call[y] = IF y = x THEN "receive" ELSE s.call[y]
    BY Typed, Issued DEF Kind
  <1>3. s.call[x] = "idle"
    BY DEF Receive, Idle
  <1>4. /\ wire' = wire
        /\ Set(Server, t) \/ Set(Server, Notify(p, {x}, "err"))
    BY DEF Receive, Refuse, Quiet
  <1>5. Heard(s)
    BY <1>1 DEF ConnOK, ServerOK
  <1>6. n = BufferSize /\ n \in Nat
    BY Sizes DEF ReadsAll
  <1> HIDE DEF s, p
  <1>7. o \in Pcb /\ Rest(p, o) /\ o.state = p.state /\ o.retxQueue = p.retxQueue
        /\ o.rcvCmd.size = BufferSize
    <2>1. [call |-> x, size |-> n] \in RcvCmd
      BY <1>6 DEF RcvCmd
    <2> QED
      BY <1>2, <1>6, <2>1 DEF Pcb, Rest
  <1> HIDE DEF o
  <1>8. ConnOK(pcb[Client], o, wire)
    <2>1. SameStream(s, o)
      BY <1>2, <1>7 DEF SameStream, Rest
    <2>2. /\ o.state = s.state /\ o.una = s.una /\ o.nxt = s.nxt /\ o.wnd = s.wnd
          /\ o.retxQueue = s.retxQueue
          /\ \A y \in Call : o.call[y] = IF y = x THEN "receive" ELSE s.call[y]
      BY <1>2, <1>7 DEF Rest
    <2>3. "receive" \in Kind
      BY DEF Kind
    <2> QED
      BY <1>1, <1>3, <1>5, <1>7, <2>1, <2>2, <2>3, ServerIsAsked
  <1>9. t \in Pcb /\ ConnOK(pcb[Client], t, wire)
    BY <1>1, <1>7, <1>8, signalReceiveType, ServerReads
  <1>10. CASE Set(Server, t)
    BY <1>4, <1>9, <1>10, ServerTx
  <1>11. CASE Set(Server, Notify(p, {x}, "err"))
    BY <1>3, <1>4, <1>11, ServerAnswers DEF Kind, Answer, p, s
  <1> QED
    BY <1>4, <1>10, <1>11

\* The Server's CLOSE.
LEMMA ServerClose ==
    ASSUME TypeOK, Conn, NoWrap, NEW x \in Call,
           pcb[Server].state \in {"ESTABLISHED", "CLOSE-WAIT"}, Close(Server, x)
    PROVE  Conn'
  <1> DEFINE c == pcb[Client]
             s == pcb[Server]
             p == Issue(Server, x, "close")
             next == IF s.state = "ESTABLISHED" THEN "FIN-WAIT-1" ELSE "LAST-ACK"
  <1>1. /\ c \in Pcb /\ s \in Pcb /\ wire \in SUBSET Segment
        /\ ConnOK(c, s, wire) /\ Roomy(s)
    BY Typed DEF Conn, NoWrap
  <1>2. /\ p \in Pcb /\ p.state = s.state /\ p.retxQueue = s.retxQueue
        /\ p.rcvCmd = s.rcvCmd /\ p.foreign = s.foreign /\ p.iss = s.iss
        /\ p.una = s.una /\ p.nxt = s.nxt /\ p.wnd = s.wnd
        /\ p.rcvNxt = s.rcvNxt /\ p.rcvWnd = s.rcvWnd
        /\ p.rxQueue = s.rxQueue /\ p.rxLen = s.rxLen /\ p.read = s.read
        /\ \A y \in Call : p.call[y] = IF y = x THEN "close" ELSE s.call[y]
    BY Typed, Issued DEF Kind
  <1>3. /\ s.call[x] = "idle"
        /\ TxUser(Server, p, x, "close", {"ACK", "FIN"}, <<>>, next, 1)
    BY <1>2 DEF Close, Idle
  <1>4. Plus(s.nxt, 1) = s.nxt + 1 /\ 1 \in SeqNum
    BY <1>1, PcbFields, Sizes, SmallType, PlusIsSum DEF Roomy
  <1>5. Heard(s)
    BY <1>1 DEF ConnOK, ServerOK
  <1>6. \/ s.state = "ESTABLISHED" /\ next = "FIN-WAIT-1"
        \/ s.state = "CLOSE-WAIT" /\ next = "LAST-ACK"
    OBVIOUS
  <1> HIDE DEF c, s, p, next
  <1>7. \/ \E q \in Pcb, e \in RetxEntry, m \in Segment :
              UserSent(Server, p, x, {"ACK", "FIN"}, <<>>, next, 1, q, e, m)
        \/ wire' = wire /\ Set(Server, Notify(p, {x}, "err"))
    <2>1. {"ACK", "FIN"} \in SUBSET Flag /\ "close" \in Trigger /\ <<>> \in Payload
          /\ next \in State /\ {"ACK", "FIN"} \cap {"SYN", "FIN"} # {}
      BY <1>6, PayloadType DEF Flag, Trigger, State
    <2> QED
      BY <1>2, <1>3, <1>4, <2>1, Typed, TxUserFields
  <1>8. ASSUME NEW t \in Pcb, NEW e \in RetxEntry, NEW m \in Segment,
               UserSent(Server, p, x, {"ACK", "FIN"}, <<>>, next, 1, t, e, m)
        PROVE  Conn'
    <2>1. /\ m = SegmentOf(Server, p, {"ACK", "FIN"}, <<>>)
          /\ e.flag = {"ACK", "FIN"} /\ e.data = <<>>
          /\ wire' = wire \cup {m} /\ Set(Server, t)
          /\ t.retxQueue = p.retxQueue \cup {e} /\ t.state = next
          /\ t.nxt = Plus(p.nxt, 1) /\ t.foreign = p.foreign /\ t.iss = p.iss
          /\ t.una = p.una /\ t.rcvWnd = p.rcvWnd /\ t.rcvCmd = p.rcvCmd
          /\ t.wnd = p.wnd /\ t.rcvNxt = p.rcvNxt /\ t.rxQueue = p.rxQueue
          /\ t.rxLen = p.rxLen /\ t.read = p.read /\ t.call = p.call
      BY <1>8 DEF UserSent
    <2>2. m = SegmentOf(Server, s, {"ACK", "FIN"}, <<>>)
      BY <1>2, <2>1 DEF SegmentOf
    <2>3. Sendable(c, s, m)
      BY <1>1, <1>5, <2>2, ServerSends
    <2>4. ConnOK(c, s, wire')
      BY <1>1, <2>1, <2>3, MaySend
    <2>5. SameStream(s, t)
      BY <1>2, <2>1 DEF SameStream
    <2>6. /\ t.una = s.una /\ t.nxt = s.nxt + 1 /\ t.wnd = s.wnd
          /\ t.retxQueue = s.retxQueue \cup {e} /\ t.rcvCmd = s.rcvCmd
          /\ \A y \in Call : t.call[y] = IF y = x THEN "close" ELSE s.call[y]
      BY <1>2, <1>4, <2>1
    <2>7. \/ s.state = "ESTABLISHED" /\ t.state = "FIN-WAIT-1"
          \/ s.state = "CLOSE-WAIT" /\ t.state = "LAST-ACK"
      BY <1>6, <2>1
    <2>8. ConnOK(c, t, wire')
      BY <1>1, <1>3, <2>1, <2>4, <2>5, <2>6, <2>7, ServerCloses
    <2>9. pcb'[Client] = c /\ pcb'[Server] = t
      BY <2>1, Typed, TwoHosts DEF c
    <2> QED
      BY <2>8, <2>9 DEF Conn
  <1> QED
    BY <1>3, <1>7, <1>8, ServerAnswers DEF Kind, Answer, p, s

\* The Server's user.
LEMMA ServerUserKeeps ==
    ASSUME ReadsAll, TypeOK, Conn, NoWrap, ServerUser
    PROVE  Conn' /\ TypeOK'
  <1> DEFINE x == Fresh(Server)
  <1>1. x \in Call
    BY DEF ServerUser, HasFresh, Fresh
  <1> HIDE DEF x
  <1>2. CASE ~Made(Server, "open") /\ PassiveOpen(Server, x)
    BY <1>1, <1>2, Typed, ServerOpen, OpenType
  <1>3. CASE /\ pcb[Server].state \in {"ESTABLISHED", "CLOSE-WAIT"}
             /\ \E n \in RecvSize : Receive(Server, x, n)
    BY <1>1, <1>3, Typed, ServerReceive, ReceiveType
  <1>4. CASE /\ pcb[Server].state \in {"ESTABLISHED", "CLOSE-WAIT"}
             /\ Close(Server, x)
    BY <1>1, <1>4, Typed, ServerClose, CloseType
  <1> QED
    BY <1>2, <1>3, <1>4 DEF ServerUser, x
-----------------------------------------------------------------------------
(***************************************************************************)
(* A segment arrives.                                                      *)
(***************************************************************************)

\* What arrives at the Client is from the Server, once that has heard of it.
LEMMA AtClient ==
    ASSUME TypeOK, Conn, NEW m \in wire, m.dst = Client
    PROVE  /\ m \in Segment /\ m.src = Server /\ FromServer(pcb[Client], pcb[Server], m)
           /\ "RST" \notin m.flag =>
                /\ m.flag \in {{"SYN", "ACK"}, {"ACK"}, {"ACK", "FIN"}}
                /\ Heard(pcb[Server]) /\ pcb[Client].foreign = Server
  <1>1. m.src = Server /\ FromServer(pcb[Client], pcb[Server], m)
    BY TwoHosts DEF Conn, ConnOK, WireOK, FromClient
  <1> QED
    BY <1>1, Typed DEF FromServer, Conn, ConnOK, EndsOK

\* What arrives at the Server is from the Client, resets aside.
LEMMA AtServer ==
    ASSUME TypeOK, Conn, NEW m \in wire, m.dst = Server
    PROVE  /\ m \in Segment
           /\ "RST" \notin m.flag =>
                /\ m.src = Client /\ FromClient(pcb[Client], pcb[Server], m)
                /\ \/ m.flag = {"SYN"} /\ m.data = <<>> /\ m.seq = pcb[Client].iss
                   \/ /\ m.flag \in {{"ACK"}, {"ACK", "FIN"}} /\ Heard(pcb[Server])
                      /\ m.ack = pcb[Server].iss + 1
                      /\ "FIN" \in m.flag => m.data = <<>>
  <1>1. "RST" \notin m.flag => m.src = Client /\ FromClient(pcb[Client], pcb[Server], m)
    BY TwoHosts DEF Conn, ConnOK, WireOK, FromServer
  <1> QED
    BY <1>1, Typed DEF FromClient

\* In CLOSED.
LEMMA ClientClosed ==
    ASSUME TypeOK, Conn, NEW m \in wire, m.dst = Client, ArriveClosed(Client, m)
    PROVE  Conn'
  <1> DEFINE c == pcb[Client]
             s == pcb[Server]
  <1>1. c \in Pcb /\ s \in Pcb /\ wire \in SUBSET Segment /\ ConnOK(c, s, wire)
    BY Typed DEF Conn
  <1>2. CASE "RST" \in m.flag
    <2>1. UNCHANGED <<pcb, wire>>
      BY <1>2 DEF ArriveClosed, Discard, Quiet
    <2> QED
      BY <2>1, Ignores
  <1>3. CASE "RST" \notin m.flag
    <2>1. c.foreign = Server /\ "ACK" \in m.flag
      BY <1>3, AtClient
    <2>2. TxHandler(Client, c, Rst(Client, c, m.ack, 0, {"RST"}))
      BY <1>3, <2>1 DEF ArriveClosed
    <2>3. Sendable(c, s, Rst(Client, c, m.ack, 0, {"RST"}))
      BY <1>1, <2>1, ClientSends
    <2> QED
      BY <1>1, <2>2, <2>3, Transmits, ClientTx
  <1> QED
    BY <1>2, <1>3

\* In SYN-SENT.
LEMMA ClientSynSent ==
    ASSUME TypeOK, Conn, NoWrap, NEW m \in wire, m.dst = Client,
           ArriveSynSent(Client, m)
    PROVE  Conn'
  <1> DEFINE c == pcb[Client]
             s == pcb[Server]
             badAck == "ACK" \in m.flag /\ (m.ack <= c.iss \/ m.ack > c.nxt)
             acceptable == "ACK" \in m.flag /\ c.una <= m.ack /\ m.ack <= c.nxt
             q == SynSentSyn(c, m, TRUE)
  <1>1. c \in Pcb /\ s \in Pcb /\ wire \in SUBSET Segment /\ ConnOK(c, s, wire)
        /\ Roomy(s)
    BY Typed DEF Conn, NoWrap
  <1>2. c.state = "SYN-SENT" /\ c.foreign = Server /\ c.una = c.iss
    BY <1>1 DEF ArriveSynSent, ConnOK, ClientOK
  <1>3. CASE badAck /\ TxHandler(Client, c, Rst(Client, c, m.ack, 0, {"RST"}))
    <2>1. Sendable(c, s, Rst(Client, c, m.ack, 0, {"RST"}))
      BY <1>1, <1>2, ClientSends
    <2> QED
      BY <1>1, <1>3, <2>1, Transmits, ClientTx
  <1>4. CASE Set(Client, Aborted(c)) /\ Quiet
    <2>1. ConnOK(Aborted(c), s, wire) /\ Aborted(c) \in Pcb
      BY <1>1, <1>2, ClientAborts, AbortedFields
    <2> QED
      BY <1>4, <2>1, ClientTx DEF Quiet
  <1>5. CASE ~badAck /\ "RST" \notin m.flag /\ "SYN" \in m.flag
    <2> DEFINE d == Opened(c, m)
    <2>1. m.src = Server /\ FromServer(c, s, m) /\ "ACK" \in m.flag /\ m \in Segment
      BY <1>5, AtClient
    <2>2. acceptable = TRUE
      BY <1>1, <1>2, <1>5, <2>1, PcbFields, AckFields
    <2>3. /\ q.una > q.iss
          /\ d \in Pcb /\ ConnOK(d, s, wire)
          /\ d.state = "ESTABLISHED" /\ d.foreign = Server
      <3>1. "RST" \notin m.flag /\ "SYN" \in m.flag
        BY <1>5
      <3> QED
        BY <1>1, <1>2, <2>1, <3>1, ClientEstablishes
    <2>4. TxHelperTCP(Client, d, {"ACK"})
      <3>1. ~(q.una <= q.iss)
        <4>1. q \in Pcb
          BY <1>1, <2>1, SynSentSynType
        <4> HIDE DEF q
        <4> QED
          BY <2>3, <4>1, PcbFields
      <3>2. SynSentSyn(c, m, acceptable) = q
        BY <2>2
      <3>3. "SYN" \in m.flag /\ "RST" \notin m.flag /\ ~badAck
        BY <1>5
      <3> HIDE DEF acceptable, badAck
      <3> QED
        BY <3>1, <3>2, <3>3 DEF ArriveSynSent, Opened, acceptable, badAck
    <2> HIDE DEF d
    <2>5. Sendable(d, s, SegmentOf(Client, d, {"ACK"}, <<>>))
      BY <1>1, <2>3, ClientSends DEF Joined
    <2> QED
      BY <2>3, <2>4, <2>5, Transmits, ClientTx
  <1>6. CASE Discard
    BY <1>6, Ignores DEF Discard, Quiet
  <1> QED
    BY <1>3, <1>4, <1>5, <1>6 DEF ArriveSynSent

\* In a synchronized state, up to the fourth check.
LEMMA ClientRefused ==
    ASSUME TypeOK, Conn, NEW m \in wire, m.dst = Client, ArriveRefused(Client, m)
    PROVE  Conn'
  <1> DEFINE c == pcb[Client]
             s == pcb[Server]
             d == Aborted(c)
  <1>1. c \in Pcb /\ s \in Pcb /\ wire \in SUBSET Segment /\ ConnOK(c, s, wire)
    BY Typed DEF Conn
  <1>2. c.state \in Joined /\ c.foreign = Server
    BY <1>1 DEF ArriveRefused, Synchronized, ConnOK, ClientOK
  <1>3. d \in Pcb /\ Rest(c, d) /\ ConnOK(d, s, wire)
    BY <1>1, <1>2, AbortedFields, ClientAborts
  <1>4. CASE TxHelperTCP(Client, c, {"ACK"})
    <2>1. Sendable(c, s, SegmentOf(Client, c, {"ACK"}, <<>>))
      BY <1>1, <1>2, ClientSends
    <2> QED
      BY <1>1, <1>4, <2>1, Transmits, ClientTx
  <1>5. CASE Set(Client, d) /\ Quiet
    BY <1>3, <1>5, ClientTx DEF Quiet
  <1>6. CASE TxHelperTCP(Client, d, {"RST"})
    <2> HIDE DEF d
    <2>1. d.foreign = Server
      BY <1>2, <1>3 DEF Rest
    <2>2. Sendable(d, s, SegmentOf(Client, d, {"RST"}, <<>>))
      BY <1>1, <1>3, <2>1, ClientSends
    <2>3. {"RST"} \cap {"SYN", "FIN"} = {}
      OBVIOUS
    <2> QED
      BY <1>3, <1>6, <2>2, <2>3, Transmits, ClientTx
  <1>7. CASE Discard
    BY <1>7, Ignores DEF Discard, Quiet
  <1> QED
    BY <1>4, <1>5, <1>6, <1>7 DEF ArriveRefused

\* From the fifth check on.
LEMMA ClientAck ==
    ASSUME TypeOK, Conn, NEW m \in wire, m.dst = Client, ArriveAck(Client, m)
    PROVE  Conn'
  <1> DEFINE c == pcb[Client]
             s == pcb[Server]
             q == ProcessAck(Established(c), m)
  <1>1. c \in Pcb /\ s \in Pcb /\ wire \in SUBSET Segment /\ ConnOK(c, s, wire)
    BY Typed DEF Conn
  <1>2. c.state \in Joined /\ c.foreign = Server /\ c.rcvWnd = 0
    BY <1>1 DEF ArriveAck, Synchronized, ConnOK, ClientOK
  <1>3. Checked(c, m)
    BY DEF ArriveAck
  <1>4. /\ "RST" \notin m.flag /\ "SYN" \notin m.flag /\ SegLen(m) = 0
        /\ m.seq = c.rcvNxt
    BY <1>2, <1>3 DEF Checked, Acceptable
  <1>5. /\ m \in Segment /\ FromServer(c, s, m) /\ m.data = <<>>
        /\ m.flag \in {{"ACK"}, {"ACK", "FIN"}}
    BY <1>4, AtClient DEF FromServer
  <1>6. m.flag = {"ACK"}
    <2>1. m.flag = {"ACK", "FIN"} => SeqLen(m) = 1
      BY <1>5, SegFields
    <2> QED
      BY <1>4, <1>5, <2>1, SegLenIs
  <1>7. Established(c) = c
    BY <1>2 DEF Established, Joined
  <1>8. q \in Pcb /\ ConnOK(q, s, wire)
    BY <1>1, <1>2, <1>4, <1>5, <1>6, <1>7, ClientIsAcked, ProcessAckType
  <1>9. CASE TxHelperTCP(Client, c, {"ACK"})
    <2>1. Sendable(c, s, SegmentOf(Client, c, {"ACK"}, <<>>))
      BY <1>1, <1>2, ClientSends
    <2> QED
      BY <1>1, <1>9, <2>1, Transmits, ClientTx
  <1>10. CASE Set(Client, q) /\ Quiet
    <2> HIDE DEF q
    <2> QED
      BY <1>8, <1>10, ClientTx DEF Quiet
  <1> QED
    <2>1. c.state # "SYN-RECEIVED" /\ m.data = <<>> /\ "FIN" \notin m.flag
      BY <1>2, <1>5, <1>6 DEF Joined
    <2> QED
      BY <1>9, <1>10, <2>1 DEF ArriveAck

\* segmentArrives on the Client.
LEMMA ClientHears ==
    ASSUME TypeOK, Conn, NoWrap, NEW m \in wire, m.dst = Client,
           segmentArrives(Client, m)
    PROVE  Conn'
  <1>1. pcb[Client].state \in Joined \cup {"CLOSED", "SYN-SENT"}
    BY DEF Conn, ConnOK, ClientOK
  <1>2. ASSUME ArriveListen(Client, m) PROVE FALSE
    <2>1. pcb[Client].state = "LISTEN"
      BY <1>2, Zenon DEF ArriveListen
    <2> QED
      BY <1>1, <2>1 DEF Joined
  <1>3. ASSUME ArriveLast(Client, m) PROVE FALSE
    <2>1. pcb[Client].state \in {"LAST-ACK", "TIME-WAIT"}
      BY <1>3 DEF ArriveLast
    <2> QED
      BY <1>1, <2>1 DEF Joined
  <1> QED
    BY <1>2, <1>3, ClientClosed, ClientSynSent, ClientRefused, ClientAck DEF segmentArrives

\* In CLOSED.
LEMMA ServerClosed ==
    ASSUME TypeOK, Conn, NEW m, ArriveClosed(Server, m)
    PROVE  Conn'
  <1> DEFINE c == pcb[Client]
             s == pcb[Server]
  <1>1. c \in Pcb /\ s \in Pcb /\ wire \in SUBSET Segment /\ ConnOK(c, s, wire)
    BY Typed DEF Conn
  <1>2. ASSUME NEW seq, NEW ack, NEW flag, "RST" \in flag,
               TxHandler(Server, s, Rst(Server, s, seq, ack, flag))
        PROVE  Conn'
    <2>1. Sendable(c, s, Rst(Server, s, seq, ack, flag))
      BY <1>1, <1>2, ServerSends
    <2> QED
      BY <1>1, <1>2, <2>1, Transmits, ServerTx
  <1>3. CASE Discard
    BY <1>3, Ignores DEF Discard, Quiet
  <1>4. "RST" \in {"RST", "ACK"} /\ "RST" \in {"RST"}
    OBVIOUS
  <1> QED
    BY <1>2, <1>3, <1>4 DEF ArriveClosed

\* The pcb a SYN makes of a listening one.
Answering(p, m, iss) ==
    [p EXCEPT !.foreign = m.src, !.rcvWnd = BufferSize,
              !.rcvNxt = Plus(m.seq, 1), !.iss = iss, !.una = iss,
              !.nxt = Plus(iss, 1), !.state = "SYN-RECEIVED",
              !.rxQueue = CopyAt(@, p.rxLen, m.data),
              !.rxLen = Add16(@, Len(m.data))]

LEMMA AnsweringFields ==
    ASSUME NEW p, p \in Pcb, NEW m \in Segment, NEW iss \in ISS
    PROVE  LET q == Answering(p, m, iss) IN
           /\ q \in Pcb /\ q.foreign = m.src /\ q.rcvWnd = BufferSize
           /\ q.rcvNxt = Plus(m.seq, 1) /\ q.iss = iss /\ q.una = iss
           /\ q.nxt = Plus(iss, 1) /\ q.state = "SYN-RECEIVED"
           /\ q.rxLen = Add16(p.rxLen, Len(m.data))
           /\ q.read = p.read /\ q.wnd = p.wnd /\ q.rcvCmd = p.rcvCmd
           /\ q.call = p.call /\ q.retxQueue = p.retxQueue
  <1>1. /\ m.src \in Endpoint /\ m.seq \in SeqNum
        /\ m.data \in Payload /\ Len(m.data) \in Wnd
    BY PayloadType DEF Segment
  <1>2. /\ iss \in SeqNum /\ Plus(iss, 1) \in SeqNum
        /\ Plus(m.seq, 1) \in SeqNum /\ BufferSize \in Wnd
    BY <1>1, ISSAssumption, PlusType, SmallType
  <1>3. /\ p.rxQueue \in [0 .. BufferSize - 1 -> Byte]
        /\ p.rxLen \in Wnd
    BY DEF Pcb
  <1>4. /\ CopyAt(p.rxQueue, p.rxLen, m.data) \in [0 .. BufferSize - 1 -> Byte]
        /\ Add16(p.rxLen, Len(m.data)) \in Wnd
    BY <1>1, <1>3, QueueType, SixteenType
  <1>5. Answering(p, m, iss) \in Pcb
    <2> DEFINE n == Plus(m.seq, 1)
               o == Plus(iss, 1)
               r == CopyAt(p.rxQueue, p.rxLen, m.data)
               x == Add16(p.rxLen, Len(m.data))
               f == m.src
    <2>1. /\ f \in Endpoint /\ BufferSize \in Wnd /\ n \in SeqNum /\ iss \in SeqNum
          /\ o \in SeqNum /\ r \in [0 .. BufferSize - 1 -> Byte] /\ x \in Wnd
      BY <1>1, <1>2, <1>4
    <2> DEFINE a == [p EXCEPT !.foreign = f, !.rcvWnd = BufferSize, !.rcvNxt = n,
                              !.iss = iss]
               b == [a EXCEPT !.una = iss, !.nxt = o, !.state = "SYN-RECEIVED"]
    <2>2. Answering(p, m, iss) = [b EXCEPT !.rxQueue = r, !.rxLen = x]
      BY DEF Answering, Pcb
    <2> HIDE DEF n, o, r, x, f
    <2>3. a \in Pcb
      BY <2>1 DEF Pcb, State
    <2> HIDE DEF a
    <2>4. b \in Pcb
      BY <2>1, <2>3 DEF Pcb, State
    <2> HIDE DEF b
    <2> QED
      BY <2>1, <2>2, <2>4 DEF Pcb, State
  <1>6. /\ Answering(p, m, iss).foreign = m.src
        /\ Answering(p, m, iss).rcvWnd = BufferSize
        /\ Answering(p, m, iss).rcvNxt = Plus(m.seq, 1)
        /\ Answering(p, m, iss).iss = iss /\ Answering(p, m, iss).una = iss
        /\ Answering(p, m, iss).nxt = Plus(iss, 1)
        /\ Answering(p, m, iss).state = "SYN-RECEIVED"
        /\ Answering(p, m, iss).rxLen = Add16(p.rxLen, Len(m.data))
        /\ Answering(p, m, iss).read = p.read
        /\ Answering(p, m, iss).wnd = p.wnd
        /\ Answering(p, m, iss).rcvCmd = p.rcvCmd
        /\ Answering(p, m, iss).call = p.call
        /\ Answering(p, m, iss).retxQueue = p.retxQueue
    BY DEF Answering, Pcb
  <1> QED
    BY <1>5, <1>6

\* ArriveListen, case by case.
LEMMA ListenCases ==
    ASSUME NEW m, ArriveListen(Server, m)
    PROVE  /\ pcb[Server].state = "LISTEN"
           /\ \/ Discard
              \/ /\ "RST" \notin m.flag /\ "ACK" \in m.flag
                 /\ TxHandler(Server, pcb[Server],
                              Rst(Server, pcb[Server], m.ack, 0, {"RST"}))
              \/ /\ m.flag \cap {"RST", "ACK"} = {} /\ "SYN" \in m.flag
                 /\ \E iss \in ISS :
                       TxHelperTCP(Server, Answering(pcb[Server], m, iss), {"SYN", "ACK"})
  BY Zenon DEF ArriveListen, Answering

\* In LISTEN.
LEMMA ServerListening ==
    ASSUME TypeOK, Conn, NoWrap, NoWrap', NEW m \in wire, m.dst = Server,
           ArriveListen(Server, m)
    PROVE  Conn'
  <1> DEFINE c == pcb[Client]
             s == pcb[Server]
  <1>1. c \in Pcb /\ s \in Pcb /\ wire \in SUBSET Segment /\ ConnOK(c, s, wire)
        /\ Roomy(c) /\ m \in Segment /\ s.state = "LISTEN"
    BY Typed, ListenCases DEF Conn, NoWrap
  <1>2. CASE TxHandler(Server, s, Rst(Server, s, m.ack, 0, {"RST"}))
    <2>1. Sendable(c, s, Rst(Server, s, m.ack, 0, {"RST"}))
      BY <1>1, ServerSends
    <2> QED
      BY <1>1, <1>2, <2>1, Transmits, ServerTx
  <1>3. ASSUME NEW iss \in ISS, m.flag \cap {"RST", "ACK"} = {},
               TxHelperTCP(Server, Answering(s, m, iss), {"SYN", "ACK"})
        PROVE  Conn'
    <2> DEFINE p == Answering(s, m, iss)
               n == SegmentOf(Server, p, {"SYN", "ACK"}, <<>>)
               e == [seq |-> n.seq, flag |-> {"SYN", "ACK"}, data |-> <<>>,
                     trigger |-> "no", call |-> NoCall]
               q == [p EXCEPT !.retxQueue = @ \cup {e}]
    <2>1. /\ "RST" \notin m.flag /\ m.src = Client /\ FromClient(c, s, m)
          /\ m.data = <<>> /\ m.seq = c.iss
      BY <1>3, AtServer
    <2>2. /\ p \in Pcb /\ p.foreign = m.src /\ p.rcvWnd = BufferSize
          /\ p.rcvNxt = Plus(m.seq, 1) /\ p.iss = iss /\ p.una = iss
          /\ p.nxt = Plus(iss, 1) /\ p.state = "SYN-RECEIVED"
          /\ p.rxLen = Add16(s.rxLen, Len(m.data))
          /\ p.read = s.read /\ p.wnd = s.wnd /\ p.rcvCmd = s.rcvCmd
          /\ p.call = s.call /\ p.retxQueue = s.retxQueue
      BY <1>1, AnsweringFields
    <2>3. p.rxLen = 0
      <3>1. s.rxLen = 0 /\ Len(m.data) = 0
        BY <1>1, <2>1 DEF ConnOK, ServerOK
      <3> QED
        BY <2>2, <3>1, Sizes DEF Add16
    <2>4. p.rcvNxt = c.iss + 1
      <3>1. c.iss \in Nat /\ c.iss + 1 < SeqMod
        <4> HIDE DEF c
        <4> QED
          BY <1>1, PcbFields, Sizes DEF Roomy
      <3>2. Plus(c.iss, 1) = c.iss + 1
        <4> HIDE DEF c
        <4> QED
          BY <3>1, PlusIsSum
      <3> HIDE DEF c, s, p
      <3> QED
        BY <2>1, <2>2, <3>2
    <2>5. \/ wire' = wire \cup {n} /\ Set(Server, q)
          \/ wire' = wire /\ Set(Server, p)
      <3>1. queueAdd(p, n.seq, {"SYN", "ACK"}, <<>>, "no", NoCall) = q
        BY DEF queueAdd
      <3> HIDE DEF p, q, n
      <3> QED
        BY <1>3, <3>1 DEF TxHelperTCP, n, p
    <2>6. ASSUME NEW t \in Pcb, Set(Server, t), Rest(p, t), t.state = p.state,
                 t.rcvCmd = p.rcvCmd, t.retxQueue \subseteq s.retxQueue \cup {e},
                 wire' = wire \cup {n} \/ wire' = wire
          PROVE  Conn'
      <3> HIDE DEF p, n, e
      <3>1. pcb'[Server] = t
        BY <2>6, Typed
      <3>2. Roomy(t)
        BY <3>1 DEF NoWrap
      <3>3. t.foreign = Client /\ t.rcvWnd = BufferSize /\ t.rcvNxt = c.iss + 1
            /\ t.una = t.iss /\ t.rxLen = 0 /\ t.read = s.read /\ t.wnd = s.wnd
            /\ t.call = s.call /\ t.iss = iss
        BY <2>1, <2>2, <2>3, <2>4, <2>6 DEF Rest
      <3>4. t.nxt = t.iss + 1
        <4>1. t.nxt = Plus(iss, 1)
          BY <2>2, <2>6 DEF Rest
        <4> QED
          BY <2>6, <3>2, <3>3, <4>1, PcbFields, Sizes, PlusIsSum DEF Roomy
      <3>5. e.flag = {"SYN", "ACK"} /\ e.data = <<>> /\ e.seq = t.iss
        <4>1. n.seq = p.iss
          BY DEF n, SegmentOf
        <4> QED
          BY <2>2, <3>3, <4>1 DEF e
      <3>6. ConnOK(c, t, wire)
        <4>1. /\ s.state = "LISTEN" /\ "RST" \notin m.flag /\ FromClient(c, s, m)
              /\ t.state = "SYN-RECEIVED" /\ t.rcvCmd = s.rcvCmd
              /\ t.retxQueue \subseteq s.retxQueue \cup {e}
          BY <1>1, <2>1, <2>2, <2>6
        <4> HIDE DEF c, s
        <4> QED
          BY <1>1, <2>6, <3>3, <3>4, <3>5, <4>1, ServerHears
      <3>7. n = SegmentOf(Server, t, {"SYN", "ACK"}, <<>>)
        BY <2>2, <2>6, SameSegments DEF n
      <3>8. Sendable(c, t, n)
        BY <1>1, <2>6, <3>3, <3>6, <3>7, ServerSends DEF Heard
      <3> QED
        BY <2>6, <3>6, <3>8, ServerTx
    <2>7. e \in RetxEntry
      <3>1. n \in Segment
        BY <2>2, Typed, SegmentOfType, PayloadType DEF Flag
      <3> QED
        BY <3>1, PayloadType DEF Segment, RetxEntry, Flag, Trigger
    <2> HIDE DEF p, n, e
    <2>8. /\ q \in Pcb /\ Rest(p, q) /\ q.state = p.state
          /\ q.rcvCmd = p.rcvCmd /\ q.retxQueue = p.retxQueue \cup {e}
      BY <2>2, <2>7 DEF Pcb, Rest
    <2>9. Rest(p, p)
      BY DEF Rest
    <2> HIDE DEF q
    <2> QED
      BY <2>2, <2>5, <2>6, <2>8, <2>9
  <1>4. CASE Discard
    BY <1>4, Ignores DEF Discard, Quiet
  <1> QED
    BY <1>2, <1>3, <1>4, ListenCases

\* In a synchronized state, up to the fourth check.
LEMMA ServerRefused ==
    ASSUME TypeOK, Conn, NEW m, ArriveRefused(Server, m)
    PROVE  Conn'
  <1> DEFINE c == pcb[Client]
             s == pcb[Server]
             t == Aborted(s)
  <1>1. c \in Pcb /\ s \in Pcb /\ wire \in SUBSET Segment /\ ConnOK(c, s, wire)
    BY Typed DEF Conn
  <1>2. Heard(s)
    BY <1>1 DEF ArriveRefused, Synchronized, ConnOK, ServerOK
  <1>3. t \in Pcb /\ ConnOK(c, t, wire)
    BY <1>1, AbortedFields, ServerAborts
  <1>4. CASE TxHelperTCP(Server, s, {"ACK"})
    <2>1. Sendable(c, s, SegmentOf(Server, s, {"ACK"}, <<>>))
      BY <1>1, <1>2, ServerSends
    <2> QED
      BY <1>1, <1>4, <2>1, Transmits, ServerTx
  <1>5. CASE Set(Server, t) /\ Quiet
    BY <1>3, <1>5, ServerTx DEF Quiet
  <1>6. CASE TxHelperTCP(Server, t, {"RST"})
    <2> HIDE DEF t
    <2>1. Sendable(c, t, SegmentOf(Server, t, {"RST"}, <<>>))
      BY <1>1, <1>3, ServerSends
    <2>2. {"RST"} \cap {"SYN", "FIN"} = {}
      OBVIOUS
    <2> QED
      BY <1>3, <1>6, <2>1, <2>2, Transmits, ServerTx
  <1>7. CASE Discard
    BY <1>7, Ignores DEF Discard, Quiet
  <1> QED
    BY <1>4, <1>5, <1>6, <1>7 DEF ArriveRefused

\* The text that arrives in order is taken, and given to a pending RECEIVE.
LEMMA ServerText ==
    ASSUME NEW c \in Pcb, NEW s \in Pcb, NEW w \in SUBSET Segment, NEW m \in w,
           ConnOK(c, s, w), m.src = Client, FromClient(c, s, m),
           m.flag = {"ACK"}, m.data # <<>>, m.seq = s.rcvNxt,
           m.seq + SeqLen(m) = c.nxt, Heard(s), s.state \in Unfinished
    PROVE  /\ ProcessText(s, m) \in Pcb /\ Heard(ProcessText(s, m))
           /\ ConnOK(c, ProcessText(s, m), w)
  <1> DEFINE n == Len(m.data)
             t == [s EXCEPT !.rxQueue = CopyAt(@, s.rxLen, m.data),
                            !.rxLen = Add16(@, n),
                            !.rcvNxt = Plus(m.seq, SegLen(m)),
                            !.rcvWnd = Sub16(@, n)]
  <1>1. /\ n \in Nat /\ n > 0 /\ SeqLen(m) = n /\ SegLen(m) = n /\ m.seq \in Nat
        /\ n \in Wnd /\ m.data \in Payload
    <2>1. {"ACK"} \cap {"SYN", "FIN"} = {}
      OBVIOUS
    <2>2. n \in 0 .. BufferSize /\ n > 0 /\ SeqLen(m) = n /\ m.seq \in Nat
      BY <2>1, SegFields
    <2>3. m.data \in Payload /\ m \in Segment
      BY DEF Segment
    <2> HIDE DEF n
    <2> QED
      BY <2>2, <2>3, SegLenIs, Sizes DEF Wnd
  <1>2. n <= s.rcvWnd /\ s.rcvWnd + s.rxLen = BufferSize
    <2>1. m \in Texts(c, w)
      BY DEF Texts
    <2>2. TextOK(c, s, m)
      BY <2>1 DEF ConnOK, TextsOK
    <2> QED
      BY <2>2 DEF ConnOK, ServerOK, TextOK
  <1>3. /\ s.rcvWnd \in Nat /\ s.rxLen \in Nat /\ c.nxt \in Nat /\ c.nxt < SeqMod
        /\ s.rcvWnd \in Wnd /\ s.rxLen \in Wnd
        /\ s.rxQueue \in [0 .. BufferSize - 1 -> Byte] /\ c.nxt \in SeqNum
    <2>1. s.rcvWnd \in 0 .. BufferSize /\ s.rxLen \in 0 .. BufferSize /\ c.nxt \in Nat
      BY PcbFields
    <2>2. c.nxt \in SeqNum /\ s.rcvWnd \in Wnd /\ s.rxLen \in Wnd
          /\ s.rxQueue \in [0 .. BufferSize - 1 -> Byte]
      BY DEF Pcb
    <2> QED
      BY <2>1, <2>2, Sizes DEF SeqNum
  <1> DEFINE v == s.rcvWnd
             x == s.rxLen
             a == m.seq
             e == c.nxt
  <1>4. Add16(x, n) = x + n /\ Sub16(v, n) = v - n /\ Plus(a, SegLen(m)) = e
        /\ a + n = e
    <2>1. a + n = e
      BY <1>1
    <2>2. n \in Nat /\ v \in Nat /\ x \in Nat /\ a \in Nat /\ e \in Nat
          /\ n <= v /\ v + x = BufferSize /\ e < SeqMod
      BY <1>1, <1>2, <1>3
    <2>3. SegLen(m) = n
      BY <1>1
    <2> HIDE DEF n, v, x, a, e
    <2>4. x + n <= BufferSize
      BY <2>2, Sizes
    <2> QED
      BY <2>1, <2>2, <2>3, <2>4, Sizes DEF Add16, Sub16, Plus
  <1>5. /\ CopyAt(s.rxQueue, s.rxLen, m.data) \in [0 .. BufferSize - 1 -> Byte]
        /\ Add16(s.rxLen, n) \in Wnd /\ Sub16(s.rcvWnd, n) \in Wnd
    BY <1>1, <1>3, QueueType, SixteenType
  <1>6. t \in Pcb
    BY <1>3, <1>4, <1>5 DEF Pcb
  <1>7. /\ t.rxQueue = CopyAt(s.rxQueue, s.rxLen, m.data)
        /\ t.rxLen = Add16(x, n) /\ t.rcvNxt = Plus(m.seq, SegLen(m))
        /\ t.rcvWnd = Sub16(v, n)
        /\ t.foreign = s.foreign /\ t.iss = s.iss /\ t.una = s.una /\ t.nxt = s.nxt
        /\ t.wnd = s.wnd /\ t.state = s.state /\ t.retxQueue = s.retxQueue
        /\ t.rcvCmd = s.rcvCmd /\ t.call = s.call /\ t.read = s.read
    BY DEF Pcb
  <1>8. t.rxLen = s.rxLen + Len(m.data) /\ t.rcvNxt = c.nxt
        /\ t.rcvWnd = s.rcvWnd - Len(m.data)
    BY <1>4, <1>7
  <1>9. m.seq + Len(m.data) = c.nxt
    BY <1>4
  <1>10. ProcessText(s, m) = signalReceive(t)
    BY DEF ProcessText
  <1> HIDE DEF t
  <1>11. ConnOK(c, t, w)
    BY <1>6, <1>7, <1>8, <1>9, ServerTakes
  <1>12. ConnOK(c, signalReceive(t), w)
    BY <1>6, <1>11, ServerReads
  <1>13. signalReceive(t) \in Pcb /\ signalReceive(t).foreign = t.foreign
    <2>1. t.rcvCmd.call # NoCall => t.rcvCmd.size = BufferSize
      BY <1>11 DEF ConnOK, ServerOK
    <2> QED
      BY <1>6, <2>1, signalReceiveFields
  <1> QED
    BY <1>7, <1>10, <1>12, <1>13 DEF Heard

\* The FIN that arrives in order is heard.
LEMMA ServerFin ==
    ASSUME NEW c \in Pcb, NEW s \in Pcb, NEW w \in SUBSET Segment, NEW m \in w,
           ConnOK(c, s, w), m.src = Client, FromClient(c, s, m),
           m.flag = {"ACK", "FIN"}, m.seq = s.rcvNxt, m.seq + 1 = c.nxt,
           Heard(s), s.state \in {"ESTABLISHED", "FIN-WAIT-1", "FIN-WAIT-2"}
    PROVE  /\ ProcessFin(s, m) \in Pcb /\ Heard(ProcessFin(s, m))
           /\ ConnOK(c, ProcessFin(s, m), w)
  <1> DEFINE r == signalReceive(s)
             t == ProcessFin(s, m)
  <1>1. s.rcvCmd.call # NoCall => s.rcvCmd.size = BufferSize
    BY DEF ConnOK, ServerOK
  <1>2. r \in Pcb /\ r.foreign = s.foreign /\ r.rcvNxt = s.rcvNxt /\ r.state = s.state
    BY <1>1, signalReceiveFields
  <1>3. ConnOK(c, r, w)
    BY ServerReads
  <1>4. Heard(r)
    BY <1>2 DEF Heard
  <1>5. FromClient(c, r, m)
    BY <1>3, TwoHosts DEF ConnOK, WireOK
  <1>6. Plus(m.seq, 1) = c.nxt
    <2>1. c.nxt \in SeqNum /\ m.seq \in Nat
      BY SegFields DEF Pcb
    <2> DEFINE e == c.nxt
               a == m.seq
    <2>2. e \in SeqNum /\ a \in Nat /\ a + 1 = e
      BY <2>1
    <2> HIDE DEF e, a
    <2>3. Plus(a, 1) = e
      BY <2>2, Sizes DEF Plus, SeqNum
    <2> QED
      BY <2>3 DEF e, a
  <1>7. t \in Pcb
    <2>1. m \in Segment
      OBVIOUS
    <2> QED
      BY <2>1, ProcessFinType
  <1>8. /\ t.rcvNxt = Plus(m.seq, 1)
        /\ t.state \in {"CLOSE-WAIT", "CLOSING", "TIME-WAIT"}
        /\ t.rxQueue = r.rxQueue /\ t.rxLen = r.rxLen /\ t.rcvWnd = r.rcvWnd
        /\ t.foreign = r.foreign /\ t.iss = r.iss /\ t.una = r.una /\ t.nxt = r.nxt
        /\ t.wnd = r.wnd /\ t.retxQueue = r.retxQueue
        /\ t.rcvCmd = r.rcvCmd /\ t.call = r.call /\ t.read = r.read
    <2>1. t = [r EXCEPT !.rcvNxt = Plus(m.seq, 1),
                        !.state = CASE @ = "ESTABLISHED" -> "CLOSE-WAIT"
                                    [] @ = "FIN-WAIT-1" -> "CLOSING"
                                    [] @ = "FIN-WAIT-2" -> "TIME-WAIT"
                                    [] OTHER -> @]
      BY DEF ProcessFin
    <2>2. r.state \in {"ESTABLISHED", "FIN-WAIT-1", "FIN-WAIT-2"}
      BY <1>2
    <2> HIDE DEF r, t
    <2> QED
      BY <1>2, <2>1, <2>2 DEF Pcb
  <1> HIDE DEF r, t
  <1>9. m.seq = r.rcvNxt /\ t.rcvNxt = c.nxt
        /\ r.state \in {"ESTABLISHED", "FIN-WAIT-1", "FIN-WAIT-2"}
    BY <1>2, <1>6, <1>8
  <1>10. ConnOK(c, t, w)
    BY <1>2, <1>3, <1>4, <1>5, <1>7, <1>8, <1>9, ServerFinishes
  <1>11. Heard(t)
    BY <1>4, <1>8 DEF Heard
  <1> QED
    BY <1>7, <1>10, <1>11 DEF t

\* From the fifth check on: what arrives is a text, a FIN or neither, and an
\* acknowledgement of the Server's SYN.
LEMMA ServerAck ==
    ASSUME TypeOK, Conn, NoWrap, NEW m \in wire, m.dst = Server,
           ArriveAck(Server, m)
    PROVE  Conn'
  <1> DEFINE c == pcb[Client]
             s == pcb[Server]
             q == ProcessAck(Established(s), m)
  <1>1. c \in Pcb /\ s \in Pcb /\ wire \in SUBSET Segment /\ ConnOK(c, s, wire)
        /\ Roomy(c) /\ m \in Segment
    BY Typed DEF Conn, NoWrap
  <1>2. s.state \in Synchronized \ {"LAST-ACK", "TIME-WAIT"} /\ Checked(s, m)
    BY DEF ArriveAck
  <1>3. Heard(s) /\ Acceptable(s, m) /\ m.flag \cap {"RST", "SYN"} = {}
    BY <1>1, <1>2 DEF Checked, ConnOK, ServerOK, Synchronized
  <1>4. /\ m.src = Client /\ FromClient(c, s, m) /\ m.ack = s.iss + 1
        /\ m.flag \in {{"ACK"}, {"ACK", "FIN"}}
        /\ "FIN" \in m.flag => m.data = <<>>
    BY <1>3, AtServer
  <1>5. /\ q \in Pcb /\ ConnOK(c, q, wire) /\ SameStream(s, q)
        /\ q.state \in Unfinished <=> s.state \in Unfinished
        /\ q.state # "SYN-RECEIVED"
    <2> HIDE DEF c, s
    <2> QED
      BY <1>1, <1>2, <1>4, ServerIsAcked DEF q
  <1>6. SeqLen(m) > 0 => m.seq = s.rcvNxt /\ m.seq + SeqLen(m) = c.nxt
    <2> HIDE DEF c, s
    <2> QED
      BY <1>1, <1>3, <1>4, Ideal
  <1>7. \A r : r \in Pcb /\ Heard(r) /\ ConnOK(c, r, wire)
                    /\ TxHelperTCP(Server, r, {"ACK"}) => Conn'
    <2> TAKE r
    <2> HAVE r \in Pcb /\ Heard(r) /\ ConnOK(c, r, wire)
                /\ TxHelperTCP(Server, r, {"ACK"})
    <2>1. Sendable(c, r, SegmentOf(Server, r, {"ACK"}, <<>>))
      BY <1>1, ServerSends
    <2>2. {"ACK"} \cap {"SYN", "FIN"} = {}
      OBVIOUS
    <2> QED
      BY <2>1, <2>2, Transmits, ServerTx
  <1>8. /\ Heard(q) /\ FromClient(c, q, m) /\ q.rcvNxt = s.rcvNxt
        /\ m.data # <<>> => m.flag = {"ACK"} /\ SeqLen(m) > 0
        /\ "FIN" \in m.flag => m.flag = {"ACK", "FIN"} /\ SeqLen(m) = 1
    <2>1. Heard(q) /\ q.rcvNxt = s.rcvNxt
      BY <1>3, <1>5 DEF Heard, SameStream
    <2>2. FromClient(c, q, m)
      BY <1>4, <1>5, TwoHosts DEF ConnOK, WireOK
    <2>3. m.data # <<>> => m.flag = {"ACK"}
      BY <1>4
    <2>4. m.data # <<>> => SeqLen(m) > 0
      <3>1. {"ACK"} \cap {"SYN", "FIN"} = {}
        OBVIOUS
      <3>2. m.data # <<>> => SeqLen(m) = Len(m.data) /\ Len(m.data) > 0
        BY <1>1, <2>3, <3>1, SegFields
      <3> QED
        BY <3>2
    <2>5. "FIN" \in m.flag => m.flag = {"ACK", "FIN"} /\ SeqLen(m) = 1
      BY <1>1, <1>4, SegFields
    <2> QED
      BY <2>1, <2>2, <2>3, <2>4, <2>5
  <1>9. CASE TxHandler(Server, s, Rst(Server, s, m.ack, 0, {"RST"}))
    <2>1. Sendable(c, s, Rst(Server, s, m.ack, 0, {"RST"}))
      BY <1>1, ServerSends
    <2> QED
      BY <1>1, <1>9, <2>1, Transmits, ServerTx
  <1>10. CASE TxHelperTCP(Server, s, {"ACK"})
    BY <1>1, <1>3, <1>7, <1>10
  <1>11. ASSUME m.data # <<>>,
                q.state \in {"ESTABLISHED", "FIN-WAIT-1", "FIN-WAIT-2"},
                TxHelperTCP(Server, ProcessText(q, m), {"ACK"})
         PROVE  Conn'
    <2>1. /\ m.flag = {"ACK"} /\ m.seq = q.rcvNxt /\ m.seq + SeqLen(m) = c.nxt
          /\ q.state \in Unfinished
      BY <1>6, <1>8, <1>11 DEF Unfinished
    <2> HIDE DEF c, q
    <2>2. /\ ProcessText(q, m) \in Pcb /\ Heard(ProcessText(q, m))
          /\ ConnOK(c, ProcessText(q, m), wire)
      BY <1>1, <1>4, <1>5, <1>8, <1>11, <2>1, ServerText
    <2> QED
      BY <1>7, <1>11, <2>2
  <1>12. ASSUME "FIN" \in m.flag, TxHelperTCP(Server, ProcessFin(q, m), {"ACK"})
         PROVE  Conn'
    <2>1. /\ m.flag = {"ACK", "FIN"} /\ m.seq = q.rcvNxt /\ m.seq + 1 = c.nxt
      BY <1>6, <1>8, <1>12
    <2>2. q.state \in {"ESTABLISHED", "FIN-WAIT-1", "FIN-WAIT-2"}
      <3>1. s.state \in Finished => s.rcvNxt = c.nxt
        BY <1>1 DEF ConnOK, EndsOK
      <3>2. m.seq \in Nat /\ m.seq = s.rcvNxt /\ s.rcvNxt \in Nat
        BY <1>1, <1>6, <1>8, <1>12, SegFields
      <3>3. s.rcvNxt # c.nxt
        <4> DEFINE a == s.rcvNxt
                   e == c.nxt
        <4>1. a \in Nat /\ a + 1 = e
          BY <2>1, <3>2, <1>8
        <4> HIDE DEF a, e
        <4>2. a # e
          BY <4>1
        <4> QED
          BY <4>2 DEF a, e
      <3>4. s.state \notin Finished
        BY <3>1, <3>3
      <3>5. s.state \in Unfinished
        BY <1>2, <3>4 DEF Synchronized, Finished, Unfinished
      <3> QED
        BY <1>5, <3>5 DEF Unfinished
    <2> HIDE DEF c, q
    <2>3. /\ ProcessFin(q, m) \in Pcb /\ Heard(ProcessFin(q, m))
          /\ ConnOK(c, ProcessFin(q, m), wire)
      BY <1>1, <1>4, <1>5, <1>8, <2>1, <2>2, ServerFin
    <2> QED
      BY <1>7, <1>12, <2>3
  <1>13. CASE Set(Server, q) /\ Quiet
    <2> HIDE DEF q
    <2> QED
      BY <1>5, <1>13, ServerTx DEF Quiet
  <1> QED
    BY <1>9, <1>10, <1>11, <1>12, <1>13, Zenon DEF ArriveAck

\* In LAST-ACK and TIME-WAIT.
LEMMA ServerLast ==
    ASSUME TypeOK, Conn, NEW m \in wire, ArriveLast(Server, m)
    PROVE  Conn'
  <1> DEFINE c == pcb[Client]
             s == pcb[Server]
             t == Aborted(s)
  <1>1. c \in Pcb /\ s \in Pcb /\ wire \in SUBSET Segment /\ ConnOK(c, s, wire)
    BY Typed DEF Conn
  <1>2. t \in Pcb /\ ConnOK(c, t, wire)
    BY <1>1, AbortedFields, ServerAborts
  <1>3. CASE Set(Server, t) /\ Quiet
    BY <1>2, <1>3, ServerTx DEF Quiet
  <1>4. CASE Discard
    BY <1>4, Ignores DEF Discard, Quiet
  <1> QED
    BY <1>3, <1>4 DEF ArriveLast

\* segmentArrives on the Server.
LEMMA ServerHearsSegment ==
    ASSUME TypeOK, Conn, NoWrap, NoWrap', NEW m \in wire, m.dst = Server,
           segmentArrives(Server, m)
    PROVE  Conn'
  <1>1. ASSUME ArriveSynSent(Server, m) PROVE FALSE
    <2>1. pcb[Server].state = "SYN-SENT"
      BY <1>1, Zenon DEF ArriveSynSent
    <2> QED
      BY <2>1 DEF Conn, ConnOK, ServerOK
  <1> QED
    BY <1>1, ServerClosed, ServerListening, ServerRefused, ServerAck, ServerLast
       DEF segmentArrives
-----------------------------------------------------------------------------
(***************************************************************************)
(* Every step.                                                             *)
(***************************************************************************)

\* A segment off the wire.
LEMMA DeliverKeeps ==
    ASSUME TypeOK, Conn, NoWrap, NoWrap', NEW h \in Host, Deliver(h)
    PROVE  Conn'
  <1> PICK m \in wire : m.dst = h /\ segmentArrives(h, m)
    BY DEF Deliver
  <1>1. h = Client \/ h = Server
    BY TwoHosts
  <1> QED
    BY <1>1, ClientHears, ServerHearsSegment

\* A pcb stays a pcb, and the wire a set of segments, in every step.
LEMMA TypeStep == ASSUME TypeOK, [CNext]_cvars PROVE TypeOK'
  <1>1. CASE ClientUser
    <2> DEFINE x == Fresh(Client)
    <2>1. x \in Call
      BY <1>1 DEF ClientUser, HasFresh, Fresh
    <2> HIDE DEF x
    <2>2. CASE \E iss \in ISS : ActiveOpen(Client, x, Server, iss)
      BY <2>1, <2>2, Typed, OpenType
    <2>3. CASE \E d \in SendData \ {<<>>} : Send(Client, x, d)
      BY <2>1, <2>3, Typed, SendType
    <2>4. CASE Close(Client, x)
      BY <2>1, <2>4, Typed, CloseType
    <2> QED
      BY <1>1, <2>2, <2>3, <2>4 DEF ClientUser, x
  <1>2. CASE ServerUser
    <2> DEFINE x == Fresh(Server)
    <2>1. x \in Call
      BY <1>2 DEF ServerUser, HasFresh, Fresh
    <2> HIDE DEF x
    <2>2. CASE PassiveOpen(Server, x)
      BY <2>1, <2>2, Typed, OpenType
    <2>3. CASE \E n \in RecvSize : Receive(Server, x, n)
      BY <2>1, <2>3, Typed, ReceiveType
    <2>4. CASE Close(Server, x)
      BY <2>1, <2>4, Typed, CloseType
    <2> QED
      BY <1>2, <2>2, <2>3, <2>4 DEF ServerUser, x
  <1>3. ASSUME NEW h \in Host, Deliver(h) PROVE TypeOK'
    <2> PICK m \in wire : m.dst = h /\ segmentArrives(h, m)
      BY <1>3 DEF Deliver
    <2>1. m \in Segment
      BY Typed
    <2> QED
      BY <2>1, ArriveClosedType, ArriveListenType, ArriveSynSentType,
         ArriveRefusedType, ArriveAckType, ArriveLastType DEF segmentArrives
  <1>4. CASE Lose
    BY <1>4 DEF Lose, TypeOK
  <1>5. CASE UNCHANGED cvars
    BY <1>5 DEF cvars, TypeOK
  <1> QED
    BY <1>1, <1>2, <1>3, <1>4, <1>5, AbortType, TimerType DEF CNext, HostStep

\* ConnOK survives every step that does not wrap.
LEMMA ConnStep ==
    ASSUME ReadsAll, IInv, NoWrap, NoWrap', [CNext]_cvars
    PROVE  IInv'
  <1>1. TypeOK /\ Conn
    BY DEF IInv, Conn
  <1>2. TypeOK'
    BY <1>1, TypeStep
  <1> SUFFICES Conn'
    BY <1>2 DEF IInv, Conn
  <1>3. CASE ClientUser
    BY <1>1, <1>3, ClientUserKeeps
  <1>4. CASE ServerUser
    BY <1>1, <1>4, ServerUserKeeps
  <1>5. ASSUME NEW h \in Host, Abort(h) \/ Deliver(h) \/ Timer(h)
        PROVE  Conn'
    <2>1. h = Client \/ h = Server
      BY TwoHosts
    <2> QED
      BY <1>1, <1>5, <2>1, DeliverKeeps, ClientAbort, ServerAbort, ClientTimer,
         ServerTimer
  <1>6. CASE Lose
    BY <1>1, <1>6, LoseKeeps
  <1>7. CASE UNCHANGED cvars
    BY <1>1, <1>7, Ignores DEF cvars
  <1> QED
    BY <1>3, <1>4, <1>5, <1>6, <1>7 DEF CNext, HostStep

\* It holds of two fresh pcbs and an empty wire.
LEMMA ConnInit == ASSUME CInit PROVE IInv
  <1>1. pcb[Client] = InitPcb /\ pcb[Server] = InitPcb /\ wire = {}
    BY TwoHosts DEF CInit, Init
  <1>2. TypeOK
    BY InitPcbType DEF CInit, Init, TypeOK
  <1>3. ClientOK(InitPcb)
    <2>1. /\ InitPcb.foreign = AnyEndpoint /\ InitPcb.state = "CLOSED"
          /\ InitPcb.rcvWnd = 0 /\ InitPcb.rcvCmd = NoRcv
          /\ InitPcb.retxQueue = {} /\ \A x \in Call : InitPcb.errCh[x] = <<>>
      BY DEF InitPcb
    <2> QED
      BY <2>1, TwoHosts DEF ClientOK, Joined
  <1>4. ServerOK(InitPcb) /\ ~Heard(InitPcb)
    BY TwoHosts DEF ServerOK, Heard, InitPcb, NoRcv, Finished, Unfinished
  <1>5. EndsOK(InitPcb, InitPcb)
    BY <1>4 DEF EndsOK, InitPcb, Joined, Finished, Unfinished
  <1>6. WireOK(InitPcb, InitPcb, {})
    BY DEF WireOK
  <1>7. TextsOK(InitPcb, InitPcb, {})
    BY <1>4 DEF TextsOK, Texts, InitPcb
  <1> QED
    BY <1>1, <1>2, <1>3, <1>4, <1>5, <1>6, <1>7 DEF IInv, ConnOK
-----------------------------------------------------------------------------
(***************************************************************************)
(* The theorems.                                                           *)
(***************************************************************************)

\* Two hosts keep their pcbs pcbs, however they read and whether or not the
\* sequence numbers wrap.
THEOREM ConnTypeCorrect == ConnSpec => []TypeOK
  <1>1. CInit => TypeOK
    BY ConnInit DEF IInv
  <1>2. TypeOK /\ [CNext]_cvars => TypeOK'
    BY TypeStep
  <1> QED
    BY <1>1, <1>2, PTL DEF ConnSpec

\* The two ends, and all that is on its way between them, agree as ConnOK says.
THEOREM ConnInductive ==
    ASSUME ReadsAll
    PROVE  ConnSpec /\ []NoWrap => []IInv
  <1>1. CInit => IInv
    BY ConnInit
  <1>2. IInv /\ NoWrap /\ NoWrap' /\ [CNext]_cvars => IInv'
    BY ConnStep
  <1> QED
    BY <1>1, <1>2, PTL DEF ConnSpec

\* The bytes of a stream.
LEMMA StreamIs ==
    ASSUME NEW s \in Pcb
    PROVE  /\ Stream(s) \in Seq(Byte) /\ Len(Stream(s)) = Len(s.read) + s.rxLen
           /\ \A k \in 1 .. Len(s.read) + s.rxLen : Stream(s)[k] = ByteAt(s, k)
  <1> DEFINE r == s.read
             x == s.rxLen
             u == [i \in 1 .. x |-> s.rxQueue[i - 1]]
  <1>1. /\ r \in Seq(Byte) /\ Len(r) \in Nat /\ x \in 0 .. BufferSize /\ x \in Nat
        /\ s.rxQueue \in [0 .. BufferSize - 1 -> Byte]
    BY PcbFields, Sizes
  <1>2. u \in Seq(Byte) /\ Len(u) = x
    <2>1. \A i \in 1 .. x : s.rxQueue[i - 1] \in Byte
      BY <1>1, Sizes
    <2> HIDE DEF x
    <2> QED
      BY <1>1, <2>1
  <1>3. \A i \in 1 .. x : u[i] = s.rxQueue[i - 1]
    OBVIOUS
  <1>4. Stream(s) = r \o u
    BY DEF Stream
  <1> HIDE DEF r, x, u
  <1>5. r \o u \in Seq(Byte) /\ Len(r \o u) = Len(r) + x
    BY <1>1, <1>2
  <1>6. ASSUME NEW k \in 1 .. Len(r) + x PROVE (r \o u)[k] = ByteAt(s, k)
    <2>1. k \in 1 .. Len(r) => (r \o u)[k] = r[k]
      BY <1>1, <1>2
    <2>2. k > Len(r) => (r \o u)[k] = u[k - Len(r)] /\ k - Len(r) \in 1 .. x
      BY <1>1, <1>2
    <2>3. k > Len(r) => (r \o u)[k] = s.rxQueue[k - Len(r) - 1]
      BY <1>3, <2>2
    <2>4. ByteAt(s, k) = IF k <= Len(r) THEN r[k] ELSE s.rxQueue[k - Len(r) - 1]
      BY DEF ByteAt, r
    <2>5. k \in 1 .. Len(r) \/ k > Len(r)
      BY <1>1
    <2>6. CASE k \in 1 .. Len(r)
      <3>1. k <= Len(r)
        BY <1>1, <2>6
      <3> QED
        BY <2>1, <2>4, <2>6, <3>1
    <2>7. CASE k > Len(r)
      <3>1. ~(k <= Len(r))
        BY <1>1, <2>7
      <3> QED
        BY <2>3, <2>4, <2>7, <3>1
    <2> QED
      BY <2>5, <2>6, <2>7
  <1> QED
    BY <1>4, <1>5, <1>6 DEF r, x

\* What follows from the invariant about the text.
LEMMA Agreement == ASSUME IInv, NoWrap PROVE StreamAgrees
  <1> DEFINE c == pcb[Client]
             s == pcb[Server]
             z == Stream(s)
  <1>1. c \in Pcb /\ s \in Pcb /\ wire \in SUBSET Segment /\ ConnOK(c, s, wire)
        /\ Roomy(c)
    BY Typed DEF IInv, NoWrap
  <1>2. ASSUME NEW m \in wire, m.src = Client, m.data # <<>>,
               m.seq + Len(m.data) <= s.rcvNxt
        PROVE  LET o == m.seq - Start(c) IN
               /\ o + Len(m.data) <= Len(z)
               /\ SubSeq(z, o + 1, o + Len(m.data)) = m.data
    <2> DEFINE n == Len(m.data)
               a == m.seq
               j == c.iss + 1
               l == Len(s.read) + s.rxLen
               o == a - j
               d == m.data
    <2> HIDE DEF c, s
    <2>1. m \in Texts(c, wire) /\ m \in Segment
      BY <1>1, <1>2 DEF Texts
    <2>2. /\ a \in Nat /\ n \in Nat /\ n > 0 /\ Heard(s) /\ c.iss < a
          /\ c.iss \in Nat /\ d \in Seq(Byte) /\ l \in Nat
      BY <1>1, <2>1, TextEnds, PcbFields, SegFields, Sizes
    <2>3. TextOK(c, s, m)
      BY <1>1, <2>1, <2>2 DEF ConnOK, TextsOK
    <2>4. /\ a + n <= j + Len(s.read) + s.rxLen
          /\ \A i \in 1 .. n : d[i] = ByteAt(s, a - j + i)
      BY <1>2, <2>3 DEF TextOK
    <2>5. j + Len(s.read) + s.rxLen = j + l /\ j \in Nat
      BY <1>1, <2>2, PcbFields
    <2>6. Start(c) = j
      BY <1>1, <2>2, Sizes, PlusIsSum DEF Start, Roomy
    <2>7. z \in Seq(Byte) /\ Len(z) = l /\ \A k \in 1 .. l : z[k] = ByteAt(s, k)
      BY <1>1, StreamIs
    <2>8. Len(d) = n
      OBVIOUS
    <2>9. j <= a
      BY <2>2
    <2> HIDE DEF n, a, j, l, z, d
    <2>10. o \in Nat /\ o + n <= l /\ o + 1 \in Int /\ o + n \in Int
      BY <2>2, <2>4, <2>5, <2>9
    <2>11. \A i \in 1 .. n : o + i \in 1 .. l /\ d[i] = z[o + i]
      BY <2>2, <2>4, <2>5, <2>7, <2>9, <2>10
    <2> HIDE DEF o
    <2>12. \A i \in o + 1 .. o + n : z[i] \in Byte
      BY <2>2, <2>7, <2>10
    <2>13. /\ SubSeq(z, o + 1, o + n) \in Seq(Byte)
           /\ Len(SubSeq(z, o + 1, o + n))
                = IF o + 1 <= o + n THEN (o + n) - (o + 1) + 1 ELSE 0
           /\ \A i \in 1 .. (o + n) - (o + 1) + 1 :
                SubSeq(z, o + 1, o + n)[i] = z[(o + 1) + i - 1]
      BY <2>10, <2>12, SubSeqProperties
    <2>14. (o + n) - (o + 1) + 1 = n /\ o + 1 <= o + n
           /\ \A i \in 1 .. n : (o + 1) + i - 1 = o + i
      BY <2>2, <2>10
    <2>15. Len(SubSeq(z, o + 1, o + n)) = n
           /\ \A i \in 1 .. n : SubSeq(z, o + 1, o + n)[i] = d[i]
      BY <2>11, <2>13, <2>14
    <2>16. SubSeq(z, o + 1, o + n) = d
      <3> DEFINE v == SubSeq(z, o + 1, o + n)
      <3>1. v \in Seq(Byte) /\ Len(v) = n /\ \A i \in 1 .. n : v[i] = d[i]
        BY <2>13, <2>15
      <3> HIDE DEF v
      <3>2. v = d
        BY <2>2, <2>8, <3>1, SeqEqual
      <3> QED
        BY <3>2 DEF v
    <2> QED
      BY <2>6, <2>7, <2>10, <2>16 DEF o, n, a, d
  <1> QED
    BY <1>2 DEF StreamAgrees, Start

\* What follows about acknowledgements.
LEMMA Delivery == ASSUME IInv, NoWrap PROVE AckedIsDelivered
  <1> DEFINE c == pcb[Client]
             s == pcb[Server]
  <1>1. c \in Pcb /\ s \in Pcb /\ ConnOK(c, s, wire) /\ Roomy(c)
    BY Typed DEF IInv, NoWrap
  <1> HIDE DEF c, s
  <1>2. ASSUME c.una > c.iss
        PROVE  /\ c.una <= s.rcvNxt
               /\ s.rcvNxt - Start(c) - Len(Stream(s)) \in FinHeard(s)
    <2>1. c.iss \in Nat /\ c.una \in Nat
      BY <1>1, PcbFields
    <2>2. Heard(s)
      BY <1>1, <1>2, <2>1 DEF ConnOK, EndsOK
    <2>3. /\ c.una <= s.rcvNxt
          /\ s.rcvNxt - (c.iss + 1) - (Len(s.read) + s.rxLen) \in FinHeard(s)
      BY <1>1, <2>2 DEF ConnOK, EndsOK
    <2>4. Start(c) = c.iss + 1
      BY <1>1, <2>1, Sizes, PlusIsSum DEF Start, Roomy
    <2>5. Len(Stream(s)) = Len(s.read) + s.rxLen
      BY <1>1, StreamIs
    <2> QED
      BY <2>3, <2>4, <2>5
  <1> QED
    BY <1>2 DEF AckedIsDelivered, c, s

\* What follows about the text that arrives.
LEMMA Idealised == ASSUME IInv, NoWrap PROVE TextIsIdeal
  <1> DEFINE c == pcb[Client]
             s == pcb[Server]
  <1>1. c \in Pcb /\ s \in Pcb /\ wire \in SUBSET Segment /\ ConnOK(c, s, wire)
        /\ Roomy(c) /\ TypeOK /\ Conn
    BY Typed DEF IInv, NoWrap, Conn
  <1>2. ASSUME NEW m \in wire, m.dst = Client, c.state \in Joined,
               m.data # <<>>, Checked(c, m)
        PROVE  FALSE
    <2>1. c.rcvWnd = 0
      BY <1>1 DEF ConnOK, ClientOK
    <2>2. SegLen(m) = 0
      BY <1>2, <2>1 DEF Checked, Acceptable
    <2>3. m \in Segment
      BY <1>1
    <2>4. SegLen(m) = SeqLen(m) /\ SeqLen(m) \in Nat /\ Len(m.data) \in 0 .. BufferSize
          /\ Len(m.data) > 0 /\ Len(m.data) <= SeqLen(m)
      BY <1>2, <2>3, SegLenIs, SegFields
    <2> QED
      BY <2>2, <2>4, Sizes
  <1>3. ASSUME NEW m \in wire, m.dst = Server, s.state \in Joined,
               m.data # <<>>, Checked(s, m)
        PROVE  m.seq = s.rcvNxt /\ Len(m.data) <= s.rcvWnd
    <2>1. Heard(s)
      BY <1>1, <1>3 DEF ConnOK, ServerOK, Joined
    <2>2. Acceptable(s, m) /\ "RST" \notin m.flag /\ "SYN" \notin m.flag
      BY <1>3 DEF Checked
    <2>3. /\ m \in Segment /\ m.src = Client /\ FromClient(c, s, m)
          /\ m.flag \in {{"ACK"}, {"ACK", "FIN"}}
      BY <1>1, <1>3, <2>2, AtServer
    <2>4. SeqLen(m) > 0
      <3>1. SeqLen(m) \in Nat /\ Len(m.data) \in 0 .. BufferSize
            /\ Len(m.data) > 0 /\ Len(m.data) <= SeqLen(m)
        BY <1>3, <2>3, SegFields
      <3> QED
        BY <3>1, Sizes
    <2>5. m \in Texts(c, wire)
      BY <1>3, <2>3 DEF Texts
    <2> HIDE DEF c, s
    <2>6. m.seq = s.rcvNxt
      BY <1>1, <2>1, <2>2, <2>3, <2>4, Ideal
    <2>7. TextOK(c, s, m)
      BY <1>1, <2>1, <2>5 DEF ConnOK, TextsOK
    <2> QED
      BY <2>6, <2>7 DEF TextOK
  <1> QED
    BY <1>2, <1>3, TwoHosts DEF TextIsIdeal, Joined

\* What follows about a CLOSE.
LEMMA Closing == ASSUME IInv PROVE CloseIsHeard
  <1> DEFINE c == pcb[Client]
             s == pcb[Server]
  <1>1. ConnOK(c, s, wire)
    BY DEF IInv
  <1> HIDE DEF c, s
  <1>2. ASSUME NEW x \in Call, c.call[x] = "close", c.errCh[x] = <<"ok">>
        PROVE  /\ s.state \notin {"LISTEN", "SYN-RECEIVED", "ESTABLISHED",
                                  "FIN-WAIT-2"}
               /\ s.rcvNxt = c.nxt
    <2>1. Heard(s) /\ s.rcvNxt = c.nxt /\ s.state \notin Unfinished
      BY <1>1, <1>2 DEF ConnOK, EndsOK
    <2>2. s.state # "LISTEN"
      BY <1>1, <2>1 DEF ConnOK, ServerOK
    <2> QED
      BY <2>1, <2>2 DEF Unfinished
  <1> QED
    BY <1>2 DEF CloseIsHeard, c, s

\* What follows about the sequence numbers of the two ends.
LEMMA Ends == ASSUME IInv PROVE EndsAgree
  <1> DEFINE c == pcb[Client]
             s == pcb[Server]
  <1>1. c \in Pcb /\ s \in Pcb /\ ConnOK(c, s, wire)
    BY Typed DEF IInv
  <1> HIDE DEF c, s
  <1>2. ASSUME {c.state, s.state} \cap
                    {"CLOSED", "LISTEN", "SYN-SENT", "SYN-RECEIVED"} = {}
        PROVE  /\ c.foreign = Server /\ c.iss < c.una /\ c.una <= s.rcvNxt
               /\ s.rcvNxt <= c.nxt
               /\ s.foreign = Client /\ s.iss < s.una /\ s.una <= c.rcvNxt
               /\ c.rcvNxt <= s.nxt
    <2>1. /\ c.iss \in Nat /\ c.una \in Nat /\ c.nxt \in Nat /\ c.rcvNxt \in Nat
          /\ s.iss \in Nat /\ s.una \in Nat /\ s.nxt \in Nat /\ s.rcvNxt \in Nat
      BY <1>1, PcbFields
    <2>2. /\ c.state \notin {"CLOSED", "SYN-SENT"}
          /\ s.state \notin {"CLOSED", "LISTEN", "SYN-RECEIVED"}
      BY <1>2
    <2>3. c.state \in Joined /\ c.foreign = Server /\ c.iss < c.una /\ c.una <= c.nxt
      BY <1>1, <2>2 DEF ConnOK, ClientOK
    <2>4. /\ s.foreign = Client /\ s.una = s.iss + 1 /\ s.iss < s.nxt
      BY <1>1, <2>2 DEF ConnOK, ServerOK, Heard
    <2>5. /\ c.una <= s.rcvNxt /\ (s.rcvNxt = c.una \/ s.rcvNxt = c.nxt)
          /\ c.rcvNxt = s.iss + 1
      BY <1>1, <2>3, <2>4 DEF ConnOK, EndsOK, Heard
    <2> QED
      BY <2>1, <2>3, <2>4, <2>5
  <1>3. \A h, g \in Host : h # g => (h = Client /\ g = Server) \/ (h = Server /\ g = Client)
    BY TwoHosts
  <1> QED
    BY <1>2, <1>3 DEF EndsAgree, c, s

\* Every text the Client ever sent below the Server's rcv.nxt is in the
\* Server's stream, at its place.
THEOREM TextArrives ==
    ASSUME ReadsAll
    PROVE  ConnSpec /\ []NoWrap => []StreamAgrees
  <1>1. IInv /\ NoWrap => StreamAgrees
    BY Agreement
  <1> QED
    BY <1>1, ConnInductive, PTL

\* What the Client reports as sent, the Server has taken.
THEOREM AcksAreTrue ==
    ASSUME ReadsAll
    PROVE  ConnSpec /\ []NoWrap => []AckedIsDelivered
  <1>1. IInv /\ NoWrap => AckedIsDelivered
    BY Delivery
  <1> QED
    BY <1>1, ConnInductive, PTL

\* The handler's assumption about text that passed its checks is met.
THEOREM TextBeginsAtRcvNxt ==
    ASSUME ReadsAll
    PROVE  ConnSpec /\ []NoWrap => []TextIsIdeal
  <1>1. IInv /\ NoWrap => TextIsIdeal
    BY Idealised
  <1> QED
    BY <1>1, ConnInductive, PTL

\* A CLOSE is answered "ok" only when the Server has heard it and holds the
\* whole text.
THEOREM ClosesAreHeard ==
    ASSUME ReadsAll
    PROVE  ConnSpec /\ []NoWrap => []CloseIsHeard
  <1>1. IInv => CloseIsHeard
    BY Closing
  <1> QED
    BY <1>1, ConnInductive, PTL

\* Past the handshake each end has the other's sequence numbers.
THEOREM NumbersAgree ==
    ASSUME ReadsAll
    PROVE  ConnSpec /\ []NoWrap => []EndsAgree
  <1>1. IInv => EndsAgree
    BY Ends
  <1> QED
    BY <1>1, ConnInductive, PTL
=============================================================================
