----------------------------- MODULE TcpProofs -----------------------------
(***************************************************************************)
(* Proofs about Tcp, for every value of its constants.                     *)
(*                                                                         *)
(* All actions set the pcb of one host to the value of an expression built *)
(* from a few helpers.  So the proofs are about single pcbs: each helper   *)
(* keeps a pcb in Pcb, each expression built from them does, and the step  *)
(* of every action follows.                                                *)
(***************************************************************************)
EXTENDS Tcp, TLAPS

(***************************************************************************)
(* Arithmetic and segments.                                                *)
(***************************************************************************)

\* uint32 addition gives a uint32.
LEMMA PlusType == ASSUME NEW a \in SeqNum, NEW b \in SeqNum
                  PROVE  Plus(a, b) \in SeqNum
  BY SeqAssumption, BufferAssumption DEF SeqNum, Plus

\* uint16 arithmetic gives a uint16.
LEMMA SixteenType == ASSUME NEW a \in Wnd, NEW b \in Wnd
                     PROVE  Add16(a, b) \in Wnd /\ Sub16(a, b) \in Wnd
  BY BufferAssumption DEF Wnd, Add16, Sub16

\* 0, 1 and a uint16 are uint32s, and 0 is a uint16.
LEMMA SmallType == /\ 0 \in SeqNum /\ 1 \in SeqNum /\ 0 \in Wnd /\ 1 \in Nat
                   /\ BufferSize \in Wnd
                   /\ \A n \in Wnd : n \in SeqNum
  BY SeqAssumption, BufferAssumption DEF SeqNum, Wnd

\* The length of a text is a uint16.
LEMMA PayloadType == /\ <<>> \in Payload
                     /\ \A d \in Payload : Len(d) \in Wnd /\ d \in Seq(Byte)
  BY BufferAssumption DEF Payload, Wnd

\* seg.len is a uint32: it does not wrap.
LEMMA SegLenType == ASSUME NEW m \in Segment
                    PROVE  SegLen(m) \in SeqNum
  <1>1. Len(m.data) \in SeqNum
    BY PayloadType, SmallType DEF Segment
  <1> QED
    BY <1>1, PlusType, SmallType DEF SegLen

\* What TxHelperTCP sends is a segment.
LEMMA SegmentOfType ==
    ASSUME NEW h \in Host, NEW p \in Pcb, NEW flag \in SUBSET Flag,
           NEW data \in Payload
    PROVE  SegmentOf(h, p, flag, data) \in Segment
  BY HostAssumption DEF SegmentOf, Segment, Pcb

\* A reset is a segment.
LEMMA RstType ==
    ASSUME NEW h \in Host, NEW p \in Pcb, NEW seq \in SeqNum, NEW ack \in SeqNum,
           NEW flag \in SUBSET Flag
    PROVE  Rst(h, p, seq, ack, flag) \in Segment
  BY HostAssumption, SmallType, PayloadType DEF Rst, Segment, Pcb
-----------------------------------------------------------------------------
(***************************************************************************)
(* Each helper maps a pcb to a pcb.                                        *)
(***************************************************************************)

\* Newpcb's control block is a pcb.
LEMMA InitPcbType == InitPcb \in Pcb
  <1>1. [i \in 0 .. BufferSize - 1 |-> 0] \in [0 .. BufferSize - 1 -> Byte]
    BY ByteAssumption
  <1>2. /\ [c \in Call |-> "idle"] \in [Call -> Kind]
        /\ [c \in Call |-> <<>>] \in [Call -> Seq(Answer)]
        /\ <<>> \in Seq(Byte)
    BY DEF Kind
  <1>3. NoRcv \in RcvCmd
    BY DEF NoRcv, RcvCmd
  <1>4. AnyEndpoint \in Endpoint
    BY AnyAssumption
  <1> QED
    BY <1>1, <1>2, <1>3, <1>4, SmallType DEF InitPcb, Pcb, State

\* Answering calls keeps a pcb a pcb.
LEMMA NotifyType == ASSUME NEW p \in Pcb, NEW C, NEW r \in Answer
                    PROVE  Notify(p, C, r) \in Pcb
  <1>1. [c \in Call |-> IF c \in C THEN Append(p.errCh[c], r) ELSE p.errCh[c]]
            \in [Call -> Seq(Answer)]
    BY DEF Pcb
  <1> QED
    BY <1>1 DEF Notify, Pcb

\* Queueing keeps a pcb a pcb.
LEMMA queueAddType ==
    ASSUME NEW p \in Pcb, NEW seq \in SeqNum, NEW flag \in SUBSET Flag,
           NEW data \in Payload, NEW t \in Trigger, NEW c \in Call \cup {NoCall}
    PROVE  queueAdd(p, seq, flag, data, t, c) \in Pcb
  <1>1. [seq |-> seq, flag |-> flag, data |-> data, trigger |-> t, call |-> c]
            \in RetxEntry
    BY DEF RetxEntry
  <1> QED
    BY <1>1 DEF queueAdd, Pcb

\* queueAck keeps a pcb a pcb.
LEMMA queueAckType == ASSUME NEW p \in Pcb PROVE queueAck(p) \in Pcb
  <1>1. Notify(p, Callers(Acked(p)), "ok") \in Pcb
    BY NotifyType DEF Answer
  <1> QED
    BY <1>1 DEF queueAck, Pcb

\* Ending a connection keeps a pcb a pcb.
LEMMA signalErrType == ASSUME NEW p \in Pcb
                       PROVE  signalErr(p) \in Pcb /\ Aborted(p) \in Pcb
  <1>1. Notify(p, Callers(p.retxQueue) \cup ({p.rcvCmd.call} \ {NoCall}), "err")
            \in Pcb
    BY NotifyType DEF Answer
  <1>2. NoRcv \in RcvCmd
    BY DEF NoRcv, RcvCmd
  <1>3. signalErr(p) \in Pcb
    BY <1>1, <1>2 DEF signalErr, Pcb
  <1> QED
    BY <1>3 DEF Aborted, Pcb, State

\* Answering OPEN keeps a pcb a pcb.
LEMMA signalOpenType == ASSUME NEW p \in Pcb PROVE signalOpen(p) \in Pcb
  <1> DEFINE E == {e \in p.retxQueue : e.trigger = "open"}
  <1>1. Notify(p, Callers(E), "ok") \in Pcb
    BY NotifyType DEF Answer
  <1> QED
    BY <1>1 DEF signalOpen, Pcb

\* Copying text into the queue and moving it down keeps bytes bytes.
LEMMA QueueType ==
    ASSUME NEW q \in [0 .. BufferSize - 1 -> Byte]
    PROVE  /\ \A off \in Wnd, d \in Payload :
                  CopyAt(q, off, d) \in [0 .. BufferSize - 1 -> Byte]
           /\ \A k \in Wnd : ShiftDown(q, k) \in [0 .. BufferSize - 1 -> Byte]
  <1>1. ASSUME NEW off \in Wnd, NEW d \in Payload,
               NEW i \in 0 .. BufferSize - 1
        PROVE  (IF off <= i /\ i < off + Len(d) THEN d[i - off + 1] ELSE q[i])
                    \in Byte
    <2>1. d \in Seq(Byte) /\ Len(d) \in Nat /\ off \in Nat /\ i \in Nat
      BY PayloadType, BufferAssumption DEF Wnd
    <2>2. CASE off <= i /\ i < off + Len(d)
      <3>1. i - off + 1 \in 1 .. Len(d)
        BY <2>1, <2>2
      <3> QED
        BY <2>1, <2>2, <3>1
    <2> QED
      BY <2>2
  <1>2. ASSUME NEW k \in Wnd, NEW i \in 0 .. BufferSize - 1
        PROVE  (IF i + k < BufferSize THEN q[i + k] ELSE q[i]) \in Byte
    BY BufferAssumption DEF Wnd
  <1> QED
    BY <1>1, <1>2 DEF CopyAt, ShiftDown

\* Handing text to a RECEIVE keeps a pcb a pcb.
LEMMA signalReceiveType == ASSUME NEW p \in Pcb PROVE signalReceive(p) \in Pcb
  <1> DEFINE dlen == IF p.rcvCmd.size < p.rxLen THEN p.rcvCmd.size ELSE p.rxLen
             got == [i \in 1 .. dlen |-> p.rxQueue[i - 1]]
             done == [Notify(p, {p.rcvCmd.call}, "ok") EXCEPT
                        !.rcvCmd = NoRcv, !.read = @ \o got]
  <1>1. dlen \in Wnd /\ dlen <= p.rxLen /\ p.rxLen - dlen \in Wnd /\ p.rxLen \in Wnd
    BY BufferAssumption DEF Pcb, RcvCmd, Wnd
  <1>2. got \in Seq(Byte)
    <2>1. \A i \in 1 .. dlen : p.rxQueue[i - 1] \in Byte
      BY <1>1, BufferAssumption DEF Pcb, Wnd
    <2> QED
      BY <1>1, <2>1 DEF Wnd
  <1>3. NoRcv \in RcvCmd
    BY DEF NoRcv, RcvCmd
  <1>4. /\ Notify(p, {p.rcvCmd.call}, "ok") \in Pcb
        /\ Notify(p, {p.rcvCmd.call}, "ok").read \in Seq(Byte)
    BY NotifyType DEF Answer, Pcb
  <1>5. Notify(p, {p.rcvCmd.call}, "ok").read \o got \in Seq(Byte)
    BY <1>2, <1>4
  <1> HIDE DEF dlen, got
  <1>6. done \in Pcb
    BY <1>3, <1>4, <1>5 DEF Pcb
  <1>7. [done EXCEPT !.rxLen = 0, !.rcvWnd = BufferSize] \in Pcb
    BY <1>6, SmallType DEF Pcb
  <1>8. /\ done.rxQueue \in [0 .. BufferSize - 1 -> Byte]
        /\ done.rxLen = p.rxLen /\ done.rcvWnd \in Wnd
    BY <1>6 DEF Pcb, Notify
  <1>9. [done EXCEPT !.rxQueue = ShiftDown(@, p.rxLen - dlen),
                     !.rxLen = @ - dlen,
                     !.rcvWnd = Add16(@, dlen)] \in Pcb
    <2>1. ShiftDown(done.rxQueue, p.rxLen - dlen) \in [0 .. BufferSize - 1 -> Byte]
      BY <1>1, <1>8, QueueType
    <2>2. Add16(done.rcvWnd, dlen) \in Wnd
      BY <1>1, <1>8, SixteenType
    <2>3. done.rxLen - dlen \in Wnd
      BY <1>1, <1>8
    <2> HIDE DEF done
    <2> QED
      BY <1>6, <2>1, <2>2, <2>3 DEF Pcb
  <1> QED
    BY <1>7, <1>9 DEF signalReceive, dlen, got
-----------------------------------------------------------------------------
(***************************************************************************)
(* So does what segmentArrives makes of a pcb.                             *)
(***************************************************************************)

\* The SYN in SYN-SENT.
LEMMA SynSentSynType ==
    ASSUME NEW p \in Pcb, NEW m \in Segment, NEW acceptable \in BOOLEAN
    PROVE  SynSentSyn(p, m, acceptable) \in Pcb
  <1> DEFINE q == [p EXCEPT !.rcvNxt = Plus(m.seq, 1)]
             r == [q EXCEPT !.una = m.ack]
  <1>1. Plus(m.seq, 1) \in SeqNum /\ m.ack \in SeqNum
    BY PlusType, SmallType DEF Segment
  <1>2. q \in Pcb
    BY <1>1 DEF Pcb
  <1>3. r \in Pcb
    BY <1>1, <1>2 DEF Pcb
  <1>4. queueAck(r) \in Pcb
    BY <1>3, queueAckType
  <1> QED
    BY <1>2, <1>4 DEF SynSentSyn

\* The change to ESTABLISHED.
LEMMA EstablishedType == ASSUME NEW p \in Pcb PROVE Established(p) \in Pcb
  BY DEF Established, Pcb, State

\* The ACK.
LEMMA ProcessAckType ==
    ASSUME NEW p \in Pcb, NEW m \in Segment
    PROVE  ProcessAck(p, m) \in Pcb
  <1> DEFINE new == p.una < m.ack /\ m.ack <= p.nxt
             q == IF new THEN queueAck([p EXCEPT !.una = m.ack]) ELSE p
             newWnd == new /\ (p.wl1 < m.seq \/ (p.wl1 = m.seq /\ p.wl2 <= m.ack))
             r == IF newWnd
                  THEN [q EXCEPT !.wnd = m.wnd, !.wl1 = m.seq, !.wl2 = m.ack]
                  ELSE q
  <1>1. m.seq \in SeqNum /\ m.ack \in SeqNum /\ m.wnd \in Wnd
    BY DEF Segment
  <1>2. q \in Pcb
    <2>1. [p EXCEPT !.una = m.ack] \in Pcb
      BY <1>1 DEF Pcb
    <2> QED
      BY <2>1, queueAckType
  <1> HIDE DEF q, newWnd
  <1>3. r \in Pcb
    BY <1>1, <1>2 DEF Pcb
  <1> HIDE DEF r
  <1>4. [r EXCEPT !.state = CASE @ = "FIN-WAIT-1" -> "FIN-WAIT-2"
                              [] @ = "CLOSING" -> "TIME-WAIT"
                              [] OTHER -> @] \in Pcb
    BY <1>3 DEF Pcb, State
  <1> QED
    BY <1>3, <1>4 DEF ProcessAck, q, newWnd, r

\* The text.
LEMMA ProcessTextType ==
    ASSUME NEW p \in Pcb, NEW m \in Segment
    PROVE  ProcessText(p, m) \in Pcb
  <1>1. m.data \in Payload /\ Len(m.data) \in Wnd
    BY PayloadType DEF Segment
  <1>2. p.rxQueue \in [0 .. BufferSize - 1 -> Byte] /\ p.rxLen \in Wnd /\ p.rcvWnd \in Wnd
    BY DEF Pcb
  <1>3. /\ CopyAt(p.rxQueue, p.rxLen, m.data) \in [0 .. BufferSize - 1 -> Byte]
        /\ Add16(p.rxLen, Len(m.data)) \in Wnd
        /\ Sub16(p.rcvWnd, Len(m.data)) \in Wnd
    BY <1>1, <1>2, QueueType, SixteenType
  <1>4. Plus(m.seq, SegLen(m)) \in SeqNum
    BY PlusType, SegLenType DEF Segment
  <1>5. [p EXCEPT !.rxQueue = CopyAt(@, p.rxLen, m.data),
                  !.rxLen = Add16(@, Len(m.data)),
                  !.rcvNxt = Plus(m.seq, SegLen(m)),
                  !.rcvWnd = Sub16(@, Len(m.data))] \in Pcb
    BY <1>3, <1>4 DEF Pcb
  <1> QED
    BY <1>5, signalReceiveType DEF ProcessText

\* The FIN.
LEMMA ProcessFinType ==
    ASSUME NEW p \in Pcb, NEW m \in Segment
    PROVE  ProcessFin(p, m) \in Pcb
  <1> DEFINE q == signalReceive(p)
  <1>1. q \in Pcb /\ Plus(m.seq, 1) \in SeqNum
    BY signalReceiveType, PlusType, SmallType DEF Segment
  <1> HIDE DEF q
  <1>2. (CASE q.state = "ESTABLISHED" -> "CLOSE-WAIT"
           [] q.state = "FIN-WAIT-1" -> "CLOSING"
           [] q.state = "FIN-WAIT-2" -> "TIME-WAIT"
           [] OTHER -> q.state) \in State
    BY <1>1 DEF Pcb, State
  <1>3. [q EXCEPT !.rcvNxt = Plus(m.seq, 1),
                  !.state = CASE @ = "ESTABLISHED" -> "CLOSE-WAIT"
                              [] @ = "FIN-WAIT-1" -> "CLOSING"
                              [] @ = "FIN-WAIT-2" -> "TIME-WAIT"
                              [] OTHER -> @] \in Pcb
    BY <1>1, <1>2 DEF Pcb
  <1> QED
    BY <1>3 DEF ProcessFin, q
-----------------------------------------------------------------------------
(***************************************************************************)
(* The ways a step ends: Set, TxHandler, TxHelperTCP, TxUser.              *)
(***************************************************************************)

\* A quiet step to a pcb.
LEMMA QuietStep ==
    ASSUME TypeOK, NEW h \in Host, NEW q \in Pcb, Set(h, q), Quiet
    PROVE  TypeOK'
  BY DEF TypeOK, Set, Quiet

\* TxHandler sends a segment or none.
LEMMA TxHandlerStep ==
    ASSUME TypeOK, NEW h \in Host, NEW q \in Pcb, NEW m \in Segment,
           TxHandler(h, q, m)
    PROVE  TypeOK'
  BY DEF TypeOK, Set, TxHandler

\* TxHelperTCP sends a segment and queues it, or does neither.
LEMMA TxHelperTCPStep ==
    ASSUME TypeOK, NEW h \in Host, NEW q \in Pcb, NEW flag \in SUBSET Flag,
           TxHelperTCP(h, q, flag)
    PROVE  TypeOK'
  <1> DEFINE m == SegmentOf(h, q, flag, <<>>)
  <1>1. m \in Segment
    BY SegmentOfType, PayloadType
  <1>2. m.seq \in SeqNum
    BY <1>1 DEF Segment
  <1>3. queueAdd(q, m.seq, flag, <<>>, "no", NoCall) \in Pcb
    BY <1>2, queueAddType, PayloadType DEF Trigger
  <1> HIDE DEF m
  <1> QED
    BY <1>1, <1>3 DEF TypeOK, Set, TxHelperTCP, m

\* A user call that sends does so, or is refused.
LEMMA TxUserStep ==
    ASSUME TypeOK, NEW h \in Host, NEW q \in Pcb, NEW c \in Call,
           NEW t \in Trigger, NEW flag \in SUBSET Flag, NEW d \in Payload,
           NEW s \in State, NEW n \in SeqNum, TxUser(h, q, c, t, flag, d, s, n)
    PROVE  TypeOK'
  <1> DEFINE m == SegmentOf(h, q, flag, d)
             r == queueAdd(q, m.seq, flag, d, t, c)
             sent == [r EXCEPT !.state = s, !.nxt = Plus(@, n)]
  <1>1. m \in Segment
    BY SegmentOfType
  <1>2. r \in Pcb
    BY <1>1, queueAddType DEF Segment
  <1>3. Notify(q, {c}, "err") \in Pcb
    BY NotifyType DEF Answer
  <1> HIDE DEF m, r
  <1>4. Plus(r.nxt, n) \in SeqNum
    BY <1>2, PlusType DEF Pcb
  <1>5. sent \in Pcb
    BY <1>2, <1>4 DEF Pcb
  <1> HIDE DEF sent
  <1> QED
    BY <1>1, <1>3, <1>5 DEF TypeOK, Set, TxUser, m, r, sent
-----------------------------------------------------------------------------
(***************************************************************************)
(* The actions.                                                            *)
(***************************************************************************)

\* Making a call.
LEMMA IssueType ==
    ASSUME TypeOK, NEW h \in Host, NEW c \in Call, NEW k \in Kind
    PROVE  pcb[h] \in Pcb /\ Issue(h, c, k) \in Pcb
  BY DEF TypeOK, Issue, Pcb

\* Being refused.
LEMMA RefuseStep ==
    ASSUME TypeOK, NEW h \in Host, NEW p \in Pcb, NEW c \in Call, Refuse(h, p, c)
    PROVE  TypeOK'
  <1>1. Notify(p, {c}, "err") \in Pcb
    BY NotifyType DEF Answer
  <1> QED
    BY <1>1, QuietStep DEF Refuse

\* OPEN, in every state.
LEMMA OpenType ==
    ASSUME TypeOK, NEW h \in Host, NEW c \in Call
    PROVE  /\ PassiveOpen(h, c) => TypeOK'
           /\ \A f \in Endpoint, iss \in ISS : ActiveOpen(h, c, f, iss) => TypeOK'
           /\ OpenExisting(h, c) => TypeOK'
  <1> DEFINE p == Issue(h, c, "open")
  <1>1. p \in Pcb
    BY IssueType DEF Kind
  <1> HIDE DEF p
  <1>2. ASSUME PassiveOpen(h, c) PROVE TypeOK'
    <2>1. [p EXCEPT !.state = "LISTEN"] \in Pcb
      BY <1>1 DEF Pcb, State
    <2>2. Notify([p EXCEPT !.state = "LISTEN"], {c}, "ok") \in Pcb
      BY <2>1, NotifyType DEF Answer
    <2> QED
      BY <1>2, <2>2, QuietStep DEF PassiveOpen, p
  <1>3. ASSUME NEW f \in Endpoint, NEW iss \in ISS, ActiveOpen(h, c, f, iss)
        PROVE  TypeOK'
    <2> DEFINE q == [p EXCEPT !.foreign = f, !.iss = iss,
                              !.una = iss, !.nxt = Plus(iss, 1)]
    <2>1. iss \in SeqNum /\ Plus(iss, 1) \in SeqNum
      BY ISSAssumption, PlusType, SmallType
    <2>2. q \in Pcb
      BY <1>1, <2>1 DEF Pcb
    <2> HIDE DEF q
    <2>3. CASE Refuse(h, p, c)
      BY <1>1, <2>3, RefuseStep
    <2>4. CASE TxUser(h, q, c, "open", {"SYN"}, <<>>, "SYN-SENT", 0)
      BY <2>2, <2>4, TxUserStep, SmallType, PayloadType DEF Trigger, Flag, State
    <2> QED
      BY <1>3, <2>3, <2>4 DEF ActiveOpen, p, q
  <1>4. ASSUME OpenExisting(h, c) PROVE TypeOK'
    BY <1>1, <1>4, RefuseStep DEF OpenExisting, p
  <1> QED
    BY <1>2, <1>3, <1>4

\* SEND.
LEMMA SendType ==
    ASSUME TypeOK, NEW h \in Host, NEW c \in Call, NEW d \in SendData, Send(h, c, d)
    PROVE  TypeOK'
  <1> DEFINE p == Issue(h, c, IF d = <<>> THEN "sendEmpty" ELSE "send")
             q == IF Len(d) > p.wnd THEN Notify(p, {c}, "err") ELSE p
  <1>1. p \in Pcb
    BY IssueType DEF Kind
  <1>2. q \in Pcb
    BY <1>1, NotifyType DEF Answer
  <1>3. d \in Payload /\ Len(d) \in SeqNum
    BY DataAssumption, PayloadType, SmallType
  <1> HIDE DEF p, q
  <1>4. q.state \in State
    BY <1>2 DEF Pcb
  <1>5. CASE TxUser(h, q, c, "send", {"ACK"}, d, q.state, Len(d))
    BY <1>2, <1>3, <1>4, <1>5, TxUserStep DEF Trigger, Flag
  <1>6. CASE Refuse(h, p, c)
    BY <1>1, <1>6, RefuseStep
  <1> QED
    BY <1>5, <1>6 DEF Send, p, q

\* RECEIVE.
LEMMA ReceiveType ==
    ASSUME TypeOK, NEW h \in Host, NEW c \in Call, NEW n \in RecvSize,
           Receive(h, c, n)
    PROVE  TypeOK'
  <1> DEFINE p == Issue(h, c, "receive")
             q == signalReceive([p EXCEPT !.rcvCmd = [call |-> c, size |-> n]])
  <1>1. p \in Pcb
    BY IssueType DEF Kind
  <1>2. [call |-> c, size |-> n] \in RcvCmd
    BY RecvAssumption DEF RcvCmd
  <1> HIDE DEF p
  <1>3. q \in Pcb
    <2>1. [p EXCEPT !.rcvCmd = [call |-> c, size |-> n]] \in Pcb
      BY <1>1, <1>2 DEF Pcb
    <2> QED
      BY <2>1, signalReceiveType
  <1> HIDE DEF q
  <1>4. CASE Set(h, q) /\ Quiet
    BY <1>3, <1>4, QuietStep
  <1>5. CASE Refuse(h, p, c)
    BY <1>1, <1>5, RefuseStep
  <1> QED
    BY <1>4, <1>5 DEF Receive, p, q

\* CLOSE.
LEMMA CloseType ==
    ASSUME TypeOK, NEW h \in Host, NEW c \in Call, Close(h, c)
    PROVE  TypeOK'
  <1> DEFINE p == Issue(h, c, "close")
  <1>1. p \in Pcb
    BY IssueType DEF Kind
  <1> HIDE DEF p
  <1>2. CASE Set(h, Notify(Aborted(p), {c}, "ok")) /\ Quiet
    <2>1. Notify(Aborted(p), {c}, "ok") \in Pcb
      BY <1>1, signalErrType, NotifyType DEF Answer
    <2> QED
      BY <1>2, <2>1, QuietStep
  <1>3. CASE \E s \in {"FIN-WAIT-1", "LAST-ACK"} :
                TxUser(h, p, c, "close", {"ACK", "FIN"}, <<>>, s, 1)
    BY <1>1, <1>3, TxUserStep, SmallType, PayloadType DEF Trigger, Flag, State
  <1>4. CASE Refuse(h, p, c)
    BY <1>1, <1>4, RefuseStep
  <1> QED
    BY <1>2, <1>3, <1>4 DEF Close, p

\* ABORT.
LEMMA AbortType ==
    ASSUME TypeOK, NEW h \in Host, Abort(h)
    PROVE  TypeOK'
  <1> DEFINE p == pcb[h]
  <1>1. p \in Pcb /\ p.nxt \in SeqNum
    BY DEF TypeOK, Pcb
  <1> HIDE DEF p
  <1>2. Aborted(p) \in Pcb
    BY <1>1, signalErrType
  <1>3. CASE Set(h, Aborted(p)) /\ Quiet
    BY <1>2, <1>3, QuietStep
  <1>4. CASE TxHandler(h, Aborted(p), Rst(h, p, p.nxt, 0, {"RST"}))
    <2>1. Rst(h, p, p.nxt, 0, {"RST"}) \in Segment
      BY <1>1, RstType, SmallType DEF Flag
    <2> QED
      BY <1>2, <1>4, <2>1, TxHandlerStep
  <1>5. CASE Set(h, [p EXCEPT !.state = "CLOSED"]) /\ Quiet
    <2>1. [p EXCEPT !.state = "CLOSED"] \in Pcb
      BY <1>1 DEF Pcb, State
    <2> QED
      BY <1>5, <2>1, QuietStep
  <1> QED
    BY <1>3, <1>4, <1>5 DEF Abort, p

\* The timer.
LEMMA TimerType ==
    ASSUME TypeOK, NEW h \in Host, Timer(h)
    PROVE  TypeOK'
  <1> DEFINE p == pcb[h]
             q == queueAck(p)
  <1>1. p \in Pcb
    BY DEF TypeOK
  <1>2. q \in Pcb
    BY <1>1, queueAckType
  <1>3. Aborted(p) \in Pcb /\ Aborted(q) \in Pcb
    BY <1>1, <1>2, signalErrType
  <1> HIDE DEF p, q
  <1>4. CASE TimeWaitOver(h)
    BY <1>3, <1>4, QuietStep DEF TimeWaitOver, p
  <1>5. CASE UserTimeout(h)
    BY <1>3, <1>5, QuietStep DEF UserTimeout, p, q
  <1>6. ASSUME NEW R, Retransmit(h, R)
        PROVE  TypeOK'
    <2>1. q.retxQueue \in SUBSET RetxEntry
      BY <1>2 DEF Pcb
    <2>2. R \subseteq RetxEntry
      BY <1>6, <2>1 DEF Retransmit, p, q
    <2>3. \A e \in R : Retransmission(h, p, e) \in Segment
      BY <1>1, <2>2, HostAssumption DEF Retransmission, Segment, Pcb, RetxEntry
    <2> QED
      BY <1>2, <1>6, <2>3 DEF Retransmit, TypeOK, Set, p, q
  <1> QED
    BY <1>4, <1>5, <1>6 DEF Timer

\* A segment that is dropped.
LEMMA DiscardStep == ASSUME TypeOK, Discard PROVE TypeOK'
  BY DEF TypeOK, Discard, Quiet

\* A segment in CLOSED is reset or dropped.
LEMMA ArriveClosedType ==
    ASSUME TypeOK, NEW h \in Host, NEW m \in Segment, ArriveClosed(h, m)
    PROVE  TypeOK'
  <1> DEFINE p == pcb[h]
             r1 == Rst(h, p, 0, Plus(m.seq, SegLen(m)), {"RST", "ACK"})
             r2 == Rst(h, p, m.ack, 0, {"RST"})
  <1>1. p \in Pcb
    BY DEF TypeOK
  <1>2. Plus(m.seq, SegLen(m)) \in SeqNum /\ m.ack \in SeqNum
    BY PlusType, SegLenType DEF Segment
  <1> HIDE DEF p
  <1>3. r1 \in Segment /\ r2 \in Segment
    BY <1>1, <1>2, RstType, SmallType DEF Flag
  <1> HIDE DEF r1, r2
  <1>4. CASE TxHandler(h, p, r1) \/ TxHandler(h, p, r2)
    BY <1>1, <1>3, <1>4, TxHandlerStep
  <1> QED
    BY <1>4, DiscardStep DEF ArriveClosed, p, r1, r2

\* A segment in LISTEN.
LEMMA ArriveListenType ==
    ASSUME TypeOK, NEW h \in Host, NEW m \in Segment, ArriveListen(h, m)
    PROVE  TypeOK'
  <1> DEFINE p == pcb[h]
             q(iss) == [p EXCEPT !.foreign = m.src,
                                 !.rcvWnd = BufferSize,
                                 !.rcvNxt = Plus(m.seq, 1),
                                 !.iss = iss, !.una = iss,
                                 !.nxt = Plus(iss, 1),
                                 !.state = "SYN-RECEIVED",
                                 !.rxQueue = CopyAt(@, p.rxLen, m.data),
                                 !.rxLen = Add16(@, Len(m.data))]
             r == Rst(h, p, m.ack, 0, {"RST"})
  <1>1. p \in Pcb
    BY DEF TypeOK
  <1>2. /\ m.src \in Endpoint /\ m.seq \in SeqNum /\ m.ack \in SeqNum
        /\ m.data \in Payload /\ Len(m.data) \in Wnd
    BY PayloadType DEF Segment
  <1> HIDE DEF p
  <1>3. r \in Segment
    BY <1>1, <1>2, RstType, SmallType DEF Flag
  <1> HIDE DEF r
  <1>4. ASSUME NEW iss \in ISS PROVE q(iss) \in Pcb
    <2>1. /\ iss \in SeqNum /\ Plus(iss, 1) \in SeqNum
          /\ Plus(m.seq, 1) \in SeqNum /\ BufferSize \in Wnd
      BY <1>2, ISSAssumption, PlusType, SmallType
    <2>2. /\ p.rxQueue \in [0 .. BufferSize - 1 -> Byte]
          /\ p.rxLen \in Wnd
      BY <1>1 DEF Pcb
    <2>3. /\ CopyAt(p.rxQueue, p.rxLen, m.data) \in [0 .. BufferSize - 1 -> Byte]
          /\ Add16(p.rxLen, Len(m.data)) \in Wnd
      BY <1>2, <2>2, QueueType, SixteenType
    <2> QED
      BY <1>1, <1>2, <2>1, <2>3 DEF Pcb, State
  <1> HIDE DEF q
  <1>5. CASE TxHandler(h, p, r)
    BY <1>1, <1>3, <1>5, TxHandlerStep
  <1>6. CASE \E iss \in ISS : TxHelperTCP(h, q(iss), {"SYN", "ACK"})
    BY <1>4, <1>6, TxHelperTCPStep DEF Flag
  <1> QED
    BY <1>5, <1>6, DiscardStep DEF ArriveListen, p, q, r

\* A segment in SYN-SENT.
LEMMA ArriveSynSentType ==
    ASSUME TypeOK, NEW h \in Host, NEW m \in Segment, ArriveSynSent(h, m)
    PROVE  TypeOK'
  <1> DEFINE p == pcb[h]
             acceptable == "ACK" \in m.flag /\ p.una <= m.ack /\ m.ack <= p.nxt
             q == SynSentSyn(p, m, acceptable)
             est == [q EXCEPT !.state = "ESTABLISHED", !.wnd = m.wnd,
                              !.wl1 = m.seq, !.wl2 = m.ack]
             r == Rst(h, p, m.ack, 0, {"RST"})
  <1>1. p \in Pcb /\ Aborted(p) \in Pcb
    BY signalErrType DEF TypeOK
  <1>2. m.seq \in SeqNum /\ m.ack \in SeqNum /\ m.wnd \in Wnd
    BY DEF Segment
  <1> HIDE DEF p
  <1>3. r \in Segment
    BY <1>1, <1>2, RstType, SmallType DEF Flag
  <1>4. q \in Pcb
    BY <1>1, SynSentSynType
  <1> HIDE DEF r, q
  <1>5. signalOpen(est) \in Pcb
    <2>1. est \in Pcb
      BY <1>2, <1>4 DEF Pcb, State
    <2> QED
      BY <2>1, signalOpenType
  <1>6. [q EXCEPT !.state = "SYN-RECEIVED"] \in Pcb
    BY <1>4 DEF Pcb, State
  <1>7. CASE TxHandler(h, p, r)
    BY <1>1, <1>3, <1>7, TxHandlerStep
  <1>8. CASE Set(h, Aborted(p)) /\ Quiet
    BY <1>1, <1>8, QuietStep
  <1>9. CASE TxHelperTCP(h, signalOpen(est), {"ACK"})
    BY <1>5, <1>9, TxHelperTCPStep DEF Flag
  <1>10. CASE TxHelperTCP(h, [q EXCEPT !.state = "SYN-RECEIVED"], {"SYN", "ACK"})
    BY <1>6, <1>10, TxHelperTCPStep DEF Flag
  <1> QED
    BY <1>7, <1>8, <1>9, <1>10, DiscardStep DEF ArriveSynSent, p, q, r

\* A segment refused, or one that resets the connection.
LEMMA ArriveRefusedType ==
    ASSUME TypeOK, NEW h \in Host, NEW m \in Segment, ArriveRefused(h, m)
    PROVE  TypeOK'
  <1> DEFINE p == pcb[h]
  <1>1. p \in Pcb /\ Aborted(p) \in Pcb
    BY signalErrType DEF TypeOK
  <1> HIDE DEF p
  <1>2. CASE TxHelperTCP(h, p, {"ACK"})
    BY <1>1, <1>2, TxHelperTCPStep DEF Flag
  <1>3. CASE Set(h, Aborted(p)) /\ Quiet
    BY <1>1, <1>3, QuietStep
  <1>4. CASE TxHelperTCP(h, Aborted(p), {"RST"})
    BY <1>1, <1>4, TxHelperTCPStep DEF Flag
  <1> QED
    BY <1>2, <1>3, <1>4, DiscardStep DEF ArriveRefused, p

\* A segment processed: its ACK, then its text or its FIN.
LEMMA ArriveAckType ==
    ASSUME TypeOK, NEW h \in Host, NEW m \in Segment, ArriveAck(h, m)
    PROVE  TypeOK'
  <1> DEFINE p == pcb[h]
             q == ProcessAck(Established(p), m)
             r == Rst(h, p, m.ack, 0, {"RST"})
  <1>1. p \in Pcb
    BY DEF TypeOK
  <1> HIDE DEF p
  <1>2. q \in Pcb
    BY <1>1, EstablishedType, ProcessAckType
  <1>3. r \in Segment
    BY <1>1, RstType, SmallType DEF Flag, Segment
  <1> HIDE DEF q, r
  <1>4. ProcessText(q, m) \in Pcb /\ ProcessFin(q, m) \in Pcb
    BY <1>2, ProcessTextType, ProcessFinType
  <1>5. CASE TxHandler(h, p, r)
    BY <1>1, <1>3, <1>5, TxHandlerStep
  <1>6. CASE TxHelperTCP(h, p, {"ACK"})
    BY <1>1, <1>6, TxHelperTCPStep DEF Flag
  <1>7. CASE TxHelperTCP(h, ProcessText(q, m), {"ACK"})
    BY <1>4, <1>7, TxHelperTCPStep DEF Flag
  <1>8. CASE TxHelperTCP(h, ProcessFin(q, m), {"ACK"})
    BY <1>4, <1>8, TxHelperTCPStep DEF Flag
  <1>9. CASE Set(h, q) /\ Quiet
    BY <1>2, <1>9, QuietStep
  <1> QED
    BY <1>5, <1>6, <1>7, <1>8, <1>9 DEF ArriveAck, p, q, r

\* A segment in the last two states.
LEMMA ArriveLastType ==
    ASSUME TypeOK, NEW h \in Host, NEW m \in Segment, ArriveLast(h, m)
    PROVE  TypeOK'
  <1>1. Aborted(pcb[h]) \in Pcb
    BY signalErrType DEF TypeOK
  <1> QED
    BY <1>1, QuietStep, DiscardStep DEF ArriveLast
-----------------------------------------------------------------------------
\* No call, segment or tick takes a field of a pcb outside its type, and all
\* that is sent is a well-formed segment.
THEOREM TypeCorrect == Spec => []TypeOK
  <1>1. Init => TypeOK
    BY InitPcbType DEF Init, TypeOK
  <1>2. TypeOK /\ [Next]_vars => TypeOK'
    <2> SUFFICES ASSUME TypeOK, [Next]_vars PROVE TypeOK'
      OBVIOUS
    <2>1. CASE UNCHANGED vars
      BY <2>1 DEF TypeOK, vars
    <2>2. ASSUME NEW h \in Host, User(h) PROVE TypeOK'
      <3>1. ASSUME NEW d \in SendData, NEW c \in Call, Send(h, c, d) PROVE TypeOK'
        BY <3>1, SendType
      <3>2. ASSUME NEW n \in RecvSize, NEW c \in Call, Receive(h, c, n) PROVE TypeOK'
        BY <3>2, ReceiveType
      <3>3. ASSUME NEW c \in Call, Close(h, c) PROVE TypeOK'
        BY <3>3, CloseType
      <3>4. CASE Abort(h)
        BY <3>4, AbortType
      <3> QED
        BY <2>2, <3>1, <3>2, <3>3, <3>4, OpenType DEF User
    <2>3. ASSUME NEW h \in Host, NEW m \in Arriving, segmentArrives(h, m)
          PROVE  TypeOK'
      <3>1. m \in Segment
        BY ArrivingAssumption
      <3> QED
        BY <2>3, <3>1, ArriveClosedType, ArriveListenType, ArriveSynSentType,
           ArriveRefusedType, ArriveAckType, ArriveLastType DEF segmentArrives
    <2>4. ASSUME NEW h \in Host, Timer(h) PROVE TypeOK'
      BY <2>4, TimerType
    <2> QED
      BY <2>1, <2>2, <2>3, <2>4 DEF Next
  <1> QED
    BY <1>1, <1>2, PTL DEF Spec
=============================================================================
