-------------------------------- MODULE Tcp --------------------------------
(***************************************************************************)
(* The TCP of one or several hosts, one protocol control block (pcb) each: *)
(* the user calls of pkg/tcp/pcb.go, the segment handler of                *)
(* pkg/tcp/protocol.go and the timer of pkg/tcp/timer.go.                  *)
(*                                                                         *)
(* Every one of these runs under the package's one mutex from its first to *)
(* its last statement, so each is one action here.  What it sends on the   *)
(* channels of the user calls it answers is recorded in errCh, and the     *)
(* segments it hands to ip.TxHandler are added to wire.  Where segments    *)
(* come from is left open: the environment delivers any member of          *)
(* Arriving.  TcpConn delivers what two hosts put on the wire instead.     *)
(*                                                                         *)
(* Left out, because nothing in the code reads them or reaches them:       *)
(* pcb.irs, pcb.mss, the urgent pointer (updated only if RST is set, which *)
(* has returned by then), and the give-up branch of the retransmission     *)
(* timer (it counts retransmissions in the loop's copy of the entry, so    *)
(* the stored retxCount stays 0).                                          *)
(***************************************************************************)
EXTENDS Integers, Sequences, FiniteSets

CONSTANTS
    Host,         \* the hosts modelled, each with one pcb
    Endpoint,     \* every endpoint a pcb or a segment may name
    AnyEndpoint,  \* the zero Endpoint
    Call,         \* identities of user calls, each with a channel of its own
    NoCall,       \* a nil errCh
    Byte,         \* values of one byte of text
    SeqMod,       \* 2^32: sequence numbers are uint32
    BufferSize,   \* bufferSize = math.MaxUint16, the largest uint16
    ISS,          \* what createISS may return
    SendData,     \* the texts a user may SEND
    RecvSize,     \* the buffer lengths a user may RECEIVE into
    TxResult,     \* outcomes of ip.TxHandler: TRUE sent, FALSE an error
    Arriving      \* the segments the environment may deliver

SeqNum == 0 .. SeqMod - 1
Wnd == 0 .. BufferSize
Payload == {d \in Seq(Byte) : Len(d) <= BufferSize}
Flag == {"SYN", "ACK", "FIN", "RST"}
Trigger == {"no", "open", "close", "send"}
Answer == {"ok", "err"}
Kind == {"idle", "open", "send", "sendEmpty", "receive", "close"}

State == {"CLOSED", "LISTEN", "SYN-SENT", "SYN-RECEIVED", "ESTABLISHED",
          "FIN-WAIT-1", "FIN-WAIT-2", "CLOSE-WAIT", "CLOSING", "LAST-ACK",
          "TIME-WAIT"}

Segment == [src : Endpoint, dst : Endpoint, seq : SeqNum, ack : SeqNum,
            flag : SUBSET Flag, wnd : Wnd, data : Payload]

RetxEntry == [seq : SeqNum, flag : SUBSET Flag, data : Payload,
              trigger : Trigger, call : Call \cup {NoCall}]

RcvCmd == [call : Call \cup {NoCall}, size : Nat]

(***************************************************************************)
(* A pcb.  una, nxt, wnd, wl1, wl2 are the fields of snd, rcvNxt and       *)
(* rcvWnd those of rcv.  call, errCh and read are the user's side: what    *)
(* each call is, what has been sent on its channel, and the bytes the      *)
(* RECEIVEs have returned, in order.                                       *)
(***************************************************************************)
Pcb == [state : State, foreign : Endpoint,
        iss : SeqNum, una : SeqNum, nxt : SeqNum,
        wnd : Wnd, wl1 : SeqNum, wl2 : SeqNum,
        rcvNxt : SeqNum, rcvWnd : Wnd,
        rxQueue : [0 .. BufferSize - 1 -> Byte], rxLen : Wnd,
        retxQueue : SUBSET RetxEntry, rcvCmd : RcvCmd,
        call : [Call -> Kind], errCh : [Call -> Seq(Answer)],
        read : Seq(Byte)]

ASSUME HostAssumption == Host \subseteq Endpoint
ASSUME AnyAssumption == AnyEndpoint \in Endpoint \ Host
ASSUME CallAssumption == NoCall \notin Call
ASSUME ByteAssumption == 0 \in Byte
ASSUME BufferAssumption == BufferSize \in Nat \ {0}
ASSUME SeqAssumption == SeqMod \in Nat /\ SeqMod > BufferSize + 1
ASSUME ISSAssumption == ISS \subseteq SeqNum
ASSUME DataAssumption == SendData \subseteq Payload
ASSUME RecvAssumption == RecvSize \subseteq Nat
ASSUME TxAssumption == TxResult \subseteq BOOLEAN
ASSUME ArrivingAssumption == Arriving \subseteq Segment

VARIABLES pcb,  \* pcb[h] is the pcb of host h
          wire  \* every segment handed to ip.TxHandler so far

vars == <<pcb, wire>>
-----------------------------------------------------------------------------
(***************************************************************************)
(* Machine arithmetic: uint32 addition and uint16 addition, subtraction.   *)
(***************************************************************************)
\* Slip for TypeOK: no wrap.
PlusSlip(a, b) == a + b

Plus(a, b) == IF a + b < SeqMod THEN a + b ELSE a + b - SeqMod

Add16(a, b) == IF a + b <= BufferSize THEN a + b ELSE a + b - (BufferSize + 1)

Sub16(a, b) == IF b <= a THEN a - b ELSE a - b + BufferSize + 1

NoRcv == [call |-> NoCall, size |-> 0]

\* Newpcb: a fresh control block.
InitPcb ==
    [state |-> "CLOSED", foreign |-> AnyEndpoint,
     iss |-> 0, una |-> 0, nxt |-> 0, wnd |-> 0, wl1 |-> 0, wl2 |-> 0,
     rcvNxt |-> 0, rcvWnd |-> 0,
     rxQueue |-> [i \in 0 .. BufferSize - 1 |-> 0], rxLen |-> 0,
     retxQueue |-> {}, rcvCmd |-> NoRcv,
     call |-> [c \in Call |-> "idle"], errCh |-> [c \in Call |-> <<>>],
     read |-> <<>>]
-----------------------------------------------------------------------------
(***************************************************************************)
(* Helpers on one pcb.                                                     *)
(***************************************************************************)

\* errCh <- r on the channel of every call in C.
Notify(p, C, r) ==
    [p EXCEPT !.errCh =
        [c \in Call |-> IF c \in C THEN Append(p.errCh[c], r) ELSE p.errCh[c]]]

\* The calls whose channels the entries E carry.
Callers(E) == {e.call : e \in E} \ {NoCall}

\* pcb.queueAdd, called only for what can be retransmitted: SYN, FIN or text.
queueAdd(p, seq, flag, data, trigger, c) ==
    IF flag \cap {"SYN", "FIN"} # {} \/ data # <<>>
    THEN [p EXCEPT !.retxQueue = @ \cup
            {[seq |-> seq, flag |-> flag, data |-> data,
              trigger |-> trigger, call |-> c]}]
    ELSE p

\* Slip for CloseIsHeard: an entry is acknowledged by its own number.
AckedSlip(p) == {e \in p.retxQueue : e.seq <= p.una}

\* The entries queueAck takes for acknowledged.
Acked(p) == {e \in p.retxQueue : e.seq < p.una}

\* Slip for OneAnswer: answered entries stay queued.
queueAckSlip(p) == Notify(p, Callers(Acked(p)), "ok")

queueAck(p) ==
    [Notify(p, Callers(Acked(p)), "ok") EXCEPT !.retxQueue = @ \ Acked(p)]

\* Slip for NoLostCall: the pending RECEIVE is dropped unanswered.
signalErrSlip(p) ==
    [Notify(p, Callers(p.retxQueue), "err")
        EXCEPT !.retxQueue = {}, !.rcvCmd = NoRcv]

\* queueFlush, then the pending RECEIVE: everyone who waits gets the error.
signalErr(p) ==
    [Notify(p, Callers(p.retxQueue) \cup ({p.rcvCmd.call} \ {NoCall}), "err")
        EXCEPT !.retxQueue = {}, !.rcvCmd = NoRcv]

\* Slip for ImplementsService: nobody is told.
AbortedSlip(p) == [p EXCEPT !.state = "CLOSED"]

\* signalErr, then transition(PCBStateClosed): how every connection ends.
Aborted(p) == [signalErr(p) EXCEPT !.state = "CLOSED"]

\* signalCmd(triggerOpen): answer and forget the entries of OPEN.
signalOpen(p) ==
    LET E == {e \in p.retxQueue : e.trigger = "open"}
    IN  [Notify(p, Callers(E), "ok") EXCEPT !.retxQueue = @ \ E]

\* copy(q[off:], data): what does not fit is dropped.
CopyAt(q, off, data) ==
    [i \in 0 .. BufferSize - 1 |->
        IF off <= i /\ i < off + Len(data) THEN data[i - off + 1] ELSE q[i]]

\* copy(q[:], q[k:])
ShiftDown(q, k) ==
    [i \in 0 .. BufferSize - 1 |-> IF i + k < BufferSize THEN q[i + k] ELSE q[i]]

\* Slip for HeldOnce: the answered RECEIVE stays pending.
signalReceiveSlip(p) ==
    IF p.rcvCmd.call = NoCall \/ p.rxLen = 0 THEN p
    ELSE [Notify(p, {p.rcvCmd.call}, "ok") EXCEPT !.rxLen = 0]

\* signalCmd(triggerReceive): hand queued text to the pending RECEIVE.
signalReceive(p) ==
    LET dlen == IF p.rcvCmd.size < p.rxLen THEN p.rcvCmd.size ELSE p.rxLen
        done == [Notify(p, {p.rcvCmd.call}, "ok") EXCEPT
                    !.rcvCmd = NoRcv,
                    !.read = @ \o [i \in 1 .. dlen |-> p.rxQueue[i - 1]]]
    IN  IF p.rcvCmd.call = NoCall \/ p.rxLen = 0 THEN p
        ELSE IF dlen = p.rxLen
        THEN [done EXCEPT !.rxLen = 0, !.rcvWnd = BufferSize]
        ELSE [done EXCEPT !.rxQueue = ShiftDown(@, p.rxLen - dlen),
                          !.rxLen = @ - dlen,
                          !.rcvWnd = Add16(@, dlen)]
-----------------------------------------------------------------------------
(***************************************************************************)
(* Transmission.  A segment carries what TxHelperTCP puts into it; if      *)
(* ip.TxHandler returns an error (no route, no ARP entry yet, too long)    *)
(* nothing leaves the host and nothing is queued for retransmission.       *)
(***************************************************************************)
SegmentOf(h, p, flag, data) ==
    [src |-> h, dst |-> p.foreign,
     seq |-> IF "SYN" \in flag THEN p.iss ELSE p.nxt, ack |-> p.rcvNxt,
     flag |-> flag, wnd |-> p.rcvWnd, data |-> data]

Set(h, p) == pcb' = [pcb EXCEPT ![h] = p]

\* return TxHandler(...): the pcb is p whether or not the segment leaves.
TxHandler(h, p, m) ==
    /\ Set(h, p)
    /\ \E ok \in TxResult : wire' = IF ok THEN wire \cup {m} ELSE wire

\* return TxHelperTCP(pcb, flag, []byte{}, 0, nil)
TxHelperTCP(h, p, flag) ==
    \E ok \in TxResult :
        /\ wire' = IF ok THEN wire \cup {SegmentOf(h, p, flag, <<>>)} ELSE wire
        /\ Set(h, IF ok
                  THEN queueAdd(p, SegmentOf(h, p, flag, <<>>).seq, flag, <<>>,
                                "no", NoCall)
                  ELSE p)

\* The loop of a user call c that tries three times to send a segment: it
\* succeeds, and the pcb moves to state s with n more sequence numbers used,
\* or the caller gets the error.
TxUser(h, p, c, trigger, flag, data, s, n) ==
    LET m == SegmentOf(h, p, flag, data) IN
    \E ok \in TxResult :
        /\ wire' = IF ok THEN wire \cup {m} ELSE wire
        /\ Set(h, IF ok
                  THEN [queueAdd(p, m.seq, flag, data, trigger, c)
                            EXCEPT !.state = s, !.nxt = Plus(@, n)]
                  ELSE Notify(p, {c}, "err"))

Quiet == UNCHANGED wire

\* A reset that is not taken from the pcb's own sequence numbers.
Rst(h, p, seq, ack, flag) ==
    [src |-> h, dst |-> p.foreign, seq |-> seq, ack |-> ack,
     flag |-> flag, wnd |-> 0, data |-> <<>>]
-----------------------------------------------------------------------------
(***************************************************************************)
(* User calls.  Each runs in a goroutine of its own with its own channel.  *)
(***************************************************************************)
Issue(h, c, kind) == [pcb[h] EXCEPT !.call[c] = kind]

Idle(h, c) == pcb[h].call[c] = "idle"

Refuse(h, p, c) == Set(h, Notify(p, {c}, "err")) /\ Quiet

PassiveOpen(h, c) ==
    LET p == Issue(h, c, "open") IN
    /\ Idle(h, c)
    /\ p.state \in {"CLOSED", "LISTEN"}
    /\ Set(h, Notify([p EXCEPT !.state = "LISTEN"], {c}, "ok"))
    /\ Quiet

ActiveOpen(h, c, foreign, iss) ==
    LET p == Issue(h, c, "open") IN
    /\ Idle(h, c)
    /\ p.state \in {"CLOSED", "LISTEN"}
    /\ \/ foreign = AnyEndpoint /\ Refuse(h, p, c)
       \/ /\ foreign # AnyEndpoint
          /\ TxUser(h, [p EXCEPT !.foreign = foreign, !.iss = iss,
                                 !.una = iss, !.nxt = Plus(iss, 1)],
                    c, "open", {"SYN"}, <<>>, "SYN-SENT", 0)

\* Open in any other state: "connection already exists".
OpenExisting(h, c) ==
    /\ Idle(h, c)
    /\ pcb[h].state \notin {"CLOSED", "LISTEN"}
    /\ Refuse(h, Issue(h, c, "open"), c)

\* A text longer than the peer's window is answered "insufficient resources",
\* and, as no return follows, sent all the same.
Send(h, c, data) ==
    LET p == Issue(h, c, IF data = <<>> THEN "sendEmpty" ELSE "send")
        q == IF Len(data) > p.wnd THEN Notify(p, {c}, "err") ELSE p
    IN  /\ Idle(h, c)
        /\ \/ /\ p.state \in {"ESTABLISHED", "CLOSE-WAIT"}
              /\ TxUser(h, q, c, "send", {"ACK"}, data, q.state, Len(data))
           \/ /\ p.state \notin {"ESTABLISHED", "CLOSE-WAIT"}
              /\ Refuse(h, p, c)

Receive(h, c, size) ==
    LET p == Issue(h, c, "receive")
        q == signalReceive([p EXCEPT !.rcvCmd = [call |-> c, size |-> size]])
        waits == q.rcvCmd.call # NoCall
        free == p.rcvCmd.call = NoCall
    IN  /\ Idle(h, c)
        /\ \/ /\ p.state \in {"ESTABLISHED", "FIN-WAIT-1", "FIN-WAIT-2"} /\ free
              /\ Set(h, q)
              /\ Quiet
           \/ /\ p.state = "CLOSE-WAIT" /\ free /\ ~waits
              /\ Set(h, q)
              /\ Quiet
           \/ /\ p.state = "CLOSE-WAIT" /\ free /\ waits
              /\ Refuse(h, p, c)
           \/ /\ \/ ~free
                 \/ p.state \notin {"ESTABLISHED", "FIN-WAIT-1", "FIN-WAIT-2",
                                    "CLOSE-WAIT"}
              /\ Refuse(h, p, c)

Close(h, c) ==
    LET p == Issue(h, c, "close") IN
    /\ Idle(h, c)
    /\ \/ /\ p.state \in {"LISTEN", "SYN-SENT"}
          /\ Set(h, Notify(Aborted(p), {c}, "ok"))
          /\ Quiet
       \/ /\ p.state \in {"SYN-RECEIVED", "ESTABLISHED"}
          /\ TxUser(h, p, c, "close", {"ACK", "FIN"}, <<>>, "FIN-WAIT-1", 1)
       \/ /\ p.state = "CLOSE-WAIT"
          /\ TxUser(h, p, c, "close", {"ACK", "FIN"}, <<>>, "LAST-ACK", 1)
       \/ /\ p.state \in {"CLOSED", "FIN-WAIT-1", "FIN-WAIT-2", "CLOSING",
                          "LAST-ACK", "TIME-WAIT"}
          /\ Refuse(h, p, c)

\* Abort answers whoever waits, except in the last three states, where it
\* leaves the queues as they are.  (In CLOSED it only returns an error.)
Abort(h) ==
    LET p == pcb[h] IN
    \/ /\ p.state \in {"LISTEN", "SYN-SENT"}
       /\ Set(h, Aborted(p))
       /\ Quiet
    \/ /\ p.state \in {"SYN-RECEIVED", "ESTABLISHED", "FIN-WAIT-1",
                       "FIN-WAIT-2", "CLOSE-WAIT"}
       /\ TxHandler(h, Aborted(p), Rst(h, p, p.nxt, 0, {"RST"}))
    \/ /\ p.state \in {"CLOSING", "LAST-ACK", "TIME-WAIT"}
       /\ Set(h, [p EXCEPT !.state = "CLOSED"])
       /\ Quiet
-----------------------------------------------------------------------------
(***************************************************************************)
(* segmentArrives: segment m for the pcb of host h.                        *)
(***************************************************************************)

\* seg.len: SYN or FIN counts for one.
SegLen(m) == IF m.flag \cap {"SYN", "FIN"} # {}
             THEN Plus(Len(m.data), 1)
             ELSE Len(m.data)

Discard == UNCHANGED pcb /\ Quiet

ArriveClosed(h, m) ==
    LET p == pcb[h] IN
    /\ p.state = "CLOSED"
    /\ \/ "RST" \in m.flag /\ Discard
       \/ /\ m.flag \cap {"RST", "ACK"} = {}
          /\ TxHandler(h, p, Rst(h, p, 0, Plus(m.seq, SegLen(m)), {"RST", "ACK"}))
       \/ /\ "RST" \notin m.flag /\ "ACK" \in m.flag
          /\ TxHandler(h, p, Rst(h, p, m.ack, 0, {"RST"}))

ArriveListen(h, m) ==
    LET p == pcb[h] IN
    /\ p.state = "LISTEN"
    /\ \/ "RST" \in m.flag /\ Discard
       \/ /\ "RST" \notin m.flag /\ "ACK" \in m.flag
          /\ TxHandler(h, p, Rst(h, p, m.ack, 0, {"RST"}))
       \/ /\ m.flag \cap {"RST", "ACK"} = {} /\ "SYN" \in m.flag
          /\ \E iss \in ISS :
                TxHelperTCP(h, [p EXCEPT !.foreign = m.src,
                                         !.rcvWnd = BufferSize,
                                         !.rcvNxt = Plus(m.seq, 1),
                                         !.iss = iss, !.una = iss,
                                         !.nxt = Plus(iss, 1),
                                         !.state = "SYN-RECEIVED",
                                         !.rxQueue = CopyAt(@, p.rxLen, m.data),
                                         !.rxLen = Add16(@, Len(m.data))],
                            {"SYN", "ACK"})
       \/ m.flag \cap {"RST", "ACK", "SYN"} = {} /\ Discard

\* Slip for EndsAgree: the SYN does not count.
SynSentSynSlip(p, m, acceptable) ==
    LET q == [p EXCEPT !.rcvNxt = m.seq]
    IN  IF acceptable THEN queueAck([q EXCEPT !.una = m.ack]) ELSE q

\* The SYN of m in SYN-SENT; acceptable: m also acknowledges ours.
SynSentSyn(p, m, acceptable) ==
    LET q == [p EXCEPT !.rcvNxt = Plus(m.seq, 1)]
    IN  IF acceptable THEN queueAck([q EXCEPT !.una = m.ack]) ELSE q

ArriveSynSent(h, m) ==
    LET p == pcb[h]
        badAck == "ACK" \in m.flag /\ (m.ack <= p.iss \/ m.ack > p.nxt)
        acceptable == "ACK" \in m.flag /\ p.una <= m.ack /\ m.ack <= p.nxt
        q == SynSentSyn(p, m, acceptable)
    IN  /\ p.state = "SYN-SENT"
        /\ \/ badAck /\ TxHandler(h, p, Rst(h, p, m.ack, 0, {"RST"}))
           \/ /\ ~badAck /\ "RST" \in m.flag /\ acceptable
              /\ Set(h, Aborted(p))
              /\ Quiet
           \/ /\ ~badAck /\ "RST" \notin m.flag /\ "SYN" \in m.flag
              /\ q.una > q.iss
              /\ TxHelperTCP(h, signalOpen([q EXCEPT !.state = "ESTABLISHED",
                                                     !.wnd = m.wnd,
                                                     !.wl1 = m.seq,
                                                     !.wl2 = m.ack]),
                             {"ACK"})
           \/ /\ ~badAck /\ "RST" \notin m.flag /\ "SYN" \in m.flag
              /\ q.una <= q.iss
              /\ TxHelperTCP(h, [q EXCEPT !.state = "SYN-RECEIVED"], {"SYN", "ACK"})
           \/ /\ ~badAck
              /\ \/ "RST" \in m.flag /\ ~acceptable
                 \/ m.flag \cap {"RST", "SYN"} = {}
              /\ Discard

Synchronized == {"SYN-RECEIVED", "ESTABLISHED", "FIN-WAIT-1", "FIN-WAIT-2",
                 "CLOSE-WAIT", "CLOSING", "LAST-ACK", "TIME-WAIT"}

\* Slip for StreamAgrees: the lower end of the window is not checked.
AcceptableSlip(p, m) == m.seq < Plus(p.rcvNxt, p.rcvWnd)

\* The sequence number check.  Go's && binds tighter than ||, so the test on
\* the last sequence number is made for empty segments too.
Acceptable(p, m) ==
    LET last == Plus(Plus(m.seq, SegLen(m)), SeqMod - 1)
        inWindow(x) == p.rcvNxt <= x /\ x < Plus(p.rcvNxt, p.rcvWnd)
    IN  IF p.rcvWnd = 0
        THEN SegLen(m) = 0 /\ m.seq = p.rcvNxt
        ELSE inWindow(m.seq) \/ inWindow(last)

\* Slip for HandshakeCompletes: unacceptable segments are not acknowledged.
ArriveRefusedSlip(h, m) ==
    LET p == pcb[h] IN
    /\ p.state \in Synchronized
    /\ \/ ~Acceptable(p, m) /\ Discard
       \/ /\ Acceptable(p, m) /\ "RST" \in m.flag
          /\ Set(h, Aborted(p))
          /\ Quiet

\* First to fourth check: the segment is refused, resets the connection,
\* or carries no ACK.
ArriveRefused(h, m) ==
    LET p == pcb[h] IN
    /\ p.state \in Synchronized
    /\ \/ /\ ~Acceptable(p, m) /\ "RST" \notin m.flag
          /\ TxHelperTCP(h, p, {"ACK"})
       \/ ~Acceptable(p, m) /\ "RST" \in m.flag /\ Discard
       \/ /\ Acceptable(p, m) /\ "RST" \in m.flag
          /\ Set(h, Aborted(p))
          /\ Quiet
       \/ /\ Acceptable(p, m) /\ "RST" \notin m.flag /\ "SYN" \in m.flag
          /\ TxHelperTCP(h, Aborted(p), {"RST"})
       \/ /\ Acceptable(p, m) /\ m.flag \cap {"RST", "SYN", "ACK"} = {}
          /\ Discard

\* m reached the fifth check, on the ACK field.
Checked(p, m) ==
    Acceptable(p, m) /\ m.flag \cap {"RST", "SYN"} = {} /\ "ACK" \in m.flag

\* SYN-RECEIVED becomes ESTABLISHED on an ACK in range, then falls through.
Established(p) ==
    IF p.state = "SYN-RECEIVED" THEN [p EXCEPT !.state = "ESTABLISHED"] ELSE p

\* Slip for AckedIsDelivered: una jumps to nxt.
ProcessAckSlip(p, m) ==
    IF p.una < m.ack /\ m.ack <= p.nxt THEN queueAck([p EXCEPT !.una = p.nxt])
    ELSE p

\* The ACK of m advances una, answers SENDs, updates the window, and may
\* acknowledge our FIN.
ProcessAck(p, m) ==
    LET new == p.una < m.ack /\ m.ack <= p.nxt
        q == IF new THEN queueAck([p EXCEPT !.una = m.ack]) ELSE p
        newWnd == new /\ (p.wl1 < m.seq \/ (p.wl1 = m.seq /\ p.wl2 <= m.ack))
        r == IF newWnd
             THEN [q EXCEPT !.wnd = m.wnd, !.wl1 = m.seq, !.wl2 = m.ack]
             ELSE q
    IN  IF m.ack # p.nxt THEN r
        ELSE [r EXCEPT !.state = CASE @ = "FIN-WAIT-1" -> "FIN-WAIT-2"
                                   [] @ = "CLOSING" -> "TIME-WAIT"
                                   [] OTHER -> @]

\* Slip for AckedIsDelivered: rxLen is not advanced.
ProcessTextSlip(p, m) ==
    signalReceive([p EXCEPT !.rxQueue = CopyAt(@, p.rxLen, m.data),
                            !.rcvNxt = Plus(m.seq, SegLen(m)),
                            !.rcvWnd = Sub16(@, Len(m.data))])

\* The text of m joins rxQueue wherever in the window it begins.
ProcessText(p, m) ==
    signalReceive([p EXCEPT !.rxQueue = CopyAt(@, p.rxLen, m.data),
                            !.rxLen = Add16(@, Len(m.data)),
                            !.rcvNxt = Plus(m.seq, SegLen(m)),
                            !.rcvWnd = Sub16(@, Len(m.data))])

\* Slip for CloseIsDelivered: the FIN moves no state.
ProcessFinSlip(p, m) == [signalReceive(p) EXCEPT !.rcvNxt = Plus(m.seq, 1)]

ProcessFin(p, m) ==
    [signalReceive(p) EXCEPT
        !.rcvNxt = Plus(m.seq, 1),
        !.state = CASE @ = "ESTABLISHED" -> "CLOSE-WAIT"
                    [] @ = "FIN-WAIT-1" -> "CLOSING"
                    [] @ = "FIN-WAIT-2" -> "TIME-WAIT"
                    [] OTHER -> @]

\* Fifth check and what follows it: ACK, then text, and only without text FIN.
ArriveAck(h, m) ==
    LET p == pcb[h]
        q == ProcessAck(Established(p), m)
        text == m.data # <<>>
                /\ q.state \in {"ESTABLISHED", "FIN-WAIT-1", "FIN-WAIT-2"}
        inRange == p.una <= m.ack /\ m.ack <= p.nxt
        future == p.una <= m.ack /\ m.ack > p.nxt
        goesOn == IF p.state = "SYN-RECEIVED" THEN inRange ELSE ~future
    IN  /\ p.state \in Synchronized \ {"LAST-ACK", "TIME-WAIT"}
        /\ Checked(p, m)
        /\ \/ /\ p.state = "SYN-RECEIVED" /\ ~inRange
              /\ TxHandler(h, p, Rst(h, p, m.ack, 0, {"RST"}))
           \/ /\ p.state # "SYN-RECEIVED" /\ future
              /\ TxHelperTCP(h, p, {"ACK"})
           \/ goesOn /\ text /\ TxHelperTCP(h, ProcessText(q, m), {"ACK"})
           \/ /\ goesOn /\ ~text /\ "FIN" \in m.flag
              /\ TxHelperTCP(h, ProcessFin(q, m), {"ACK"})
           \/ /\ goesOn /\ ~text /\ "FIN" \notin m.flag
              /\ Set(h, q)
              /\ Quiet

\* In LAST-ACK the ACK of our FIN ends the connection; TIME-WAIT at most
\* restarts its timer.
ArriveLast(h, m) ==
    LET p == pcb[h] IN
    /\ Checked(p, m)
    /\ \/ /\ p.state = "LAST-ACK" /\ m.ack = p.nxt
          /\ Set(h, Aborted(p))
          /\ Quiet
       \/ /\ p.state = "TIME-WAIT" \/ (p.state = "LAST-ACK" /\ m.ack # p.nxt)
          /\ Discard

segmentArrives(h, m) ==
    \/ ArriveClosed(h, m)
    \/ ArriveListen(h, m)
    \/ ArriveSynSent(h, m)
    \/ ArriveRefused(h, m)
    \/ ArriveAck(h, m)
    \/ ArriveLast(h, m)
-----------------------------------------------------------------------------
(***************************************************************************)
(* tcpTimer, once a second.  Time is abstracted: at any tick TIME-WAIT may *)
(* or may not be over, the user timeout of the oldest queued entry may or  *)
(* may not have expired (all entries share pcb.timeout, so if any has, the *)
(* first in the queue has and the loop breaks there), and so may the       *)
(* retransmission timeout of any entry.  An entry whose transmission fails *)
(* is one that is not in R.                                                *)
(***************************************************************************)
TimeWaitOver(h) ==
    /\ pcb[h].state = "TIME-WAIT"
    /\ Set(h, Aborted(pcb[h]))
    /\ Quiet

UserTimeout(h) ==
    /\ queueAck(pcb[h]).retxQueue # {}
    /\ Set(h, Aborted(queueAck(pcb[h])))
    /\ Quiet

\* The window a retransmission advertises is snd.wnd, the peer's.
Retransmission(h, p, e) ==
    [src |-> h, dst |-> p.foreign, seq |-> e.seq, ack |-> p.rcvNxt,
     flag |-> e.flag, wnd |-> p.wnd, data |-> e.data]

\* Slip for CallsEnd: only what carries text is sent again.
RetransmitSlip(h, R) ==
    /\ R \subseteq {e \in queueAck(pcb[h]).retxQueue : e.data # <<>>}
    /\ Set(h, queueAck(pcb[h]))
    /\ wire' = wire \cup {Retransmission(h, pcb[h], e) : e \in R}

Retransmit(h, R) ==
    /\ R \subseteq queueAck(pcb[h]).retxQueue
    /\ Set(h, queueAck(pcb[h]))
    /\ wire' = wire \cup {Retransmission(h, pcb[h], e) : e \in R}

Timer(h) ==
    \/ TimeWaitOver(h)
    \/ UserTimeout(h)
    \/ \E R \in SUBSET pcb[h].retxQueue : Retransmit(h, R)
-----------------------------------------------------------------------------
Init ==
    /\ pcb = [h \in Host |-> InitPcb]
    /\ wire = {}

User(h) ==
    \/ \E c \in Call :
        \/ PassiveOpen(h, c)
        \/ \E f \in Endpoint, iss \in ISS : ActiveOpen(h, c, f, iss)
        \/ OpenExisting(h, c)
        \/ \E d \in SendData : Send(h, c, d)
        \/ \E n \in RecvSize : Receive(h, c, n)
        \/ Close(h, c)
    \/ Abort(h)

Next ==
    \E h \in Host :
        \/ User(h)
        \/ \E m \in Arriving : segmentArrives(h, m)
        \/ Timer(h)

Spec == Init /\ [][Next]_vars
-----------------------------------------------------------------------------
(***************************************************************************)
(* Properties.  They hold whatever segments arrive and however the user    *)
(* mixes its calls.                                                        *)
(***************************************************************************)

\* Every field keeps the width its Go type has.
TypeOK ==
    /\ pcb \in [Host -> Pcb]
    /\ wire \subseteq Segment

\* The calls whose channels the pcb still holds.
Held(p) == Callers(p.retxQueue) \cup ({p.rcvCmd.call} \ {NoCall})

\* No call is forgotten: one that was made (but for a SEND of nothing, which
\* TxHelperTCP never queues) has been answered or is still held by the pcb.
NoLostCall ==
    \A h \in Host, c \in Call :
        pcb[h].call[c] \notin {"idle", "sendEmpty"} =>
            pcb[h].errCh[c] # <<>> \/ c \in Held(pcb[h])

\* A user who reads its channel once has read all of it, except after a SEND
\* that was refused for the window and sent all the same.
OneAnswer ==
    \A h \in Host, c \in Call :
        LET answers == pcb[h].errCh[c] IN
        \/ Len(answers) <= 1
        \/ /\ Len(answers) = 2
           /\ answers[1] = "err"
           /\ pcb[h].call[c] \in {"send", "sendEmpty"}

\* What makes OneAnswer inductive: a call is held in one place only, and a
\* held call is unanswered, the refused SEND excepted.
HeldOnce ==
    \A h \in Host :
        LET p == pcb[h] IN
        /\ \A c \in Held(p) :
              \/ p.call[c] # "idle" /\ p.errCh[c] = <<>>
              \/ p.call[c] = "send" /\ p.errCh[c] = <<"err">>
        /\ \A e \in p.retxQueue : e.call # NoCall => e.call # p.rcvCmd.call
        /\ \A e, f \in p.retxQueue : e.call = f.call /\ e.call # NoCall => e = f

\* Text that fits the buffer is taken in from ESTABLISHED on: "Once in the
\* ESTABLISHED state, it is possible to deliver segment text to user RECEIVE
\* buffers ... until either the buffer is full" (protocol.go:387-389).  An
\* actively opened connection refuses all text: its rcv.wnd stays 0.
EstablishedTakesText ==
    \A h \in Host :
        LET p == pcb[h] IN
        p.state = "ESTABLISHED" /\ p.rxLen < BufferSize =>
            Acceptable(p, [seq |-> p.rcvNxt, flag |-> {"ACK"}, data |-> <<0>>])
-----------------------------------------------------------------------------
(***************************************************************************)
(* Tcp implements TcpService under this mapping.                           *)
(***************************************************************************)
PhaseOf(s) ==
    CASE s = "CLOSED" -> "closed"
      [] s = "LISTEN" -> "listening"
      [] s \in {"SYN-SENT", "SYN-RECEIVED"} -> "opening"
      [] s = "ESTABLISHED" -> "open"
      [] s \in {"FIN-WAIT-1", "FIN-WAIT-2", "CLOSE-WAIT"} -> "closing"
      [] s \in {"CLOSING", "LAST-ACK", "TIME-WAIT"} -> "last"

StatusOf(p, c) ==
    IF c \in Held(p) THEN "pending"
    ELSE IF p.errCh[c] # <<>> THEN "answered"
    ELSE IF p.call[c] = "idle" THEN "none"
    ELSE "void"

Service == INSTANCE TcpService WITH
    phase <- [h \in Host |-> PhaseOf(pcb[h].state)],
    status <- [h \in Host |-> [c \in Call |-> StatusOf(pcb[h], c)]]

\* Phases in order, every call answered when its connection ends, no answered
\* call pending again: what the users of Open, Send, Receive, Close rely on.
ImplementsService == Service!SSpec
=============================================================================
