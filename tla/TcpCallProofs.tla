--------------------------- MODULE TcpCallProofs ---------------------------
(***************************************************************************)
(* Every user call is answered or held, and answered once, whatever        *)
(* segments arrive, in whatever order calls, segments and ticks come, for  *)
(* any number of calls and hosts.                                          *)
(*                                                                         *)
(* NoLostCall and OneAnswer are not inductive: that an answer is the first *)
(* one for its call follows only from knowing that a call the pcb holds    *)
(* has no answer yet, and that the pcb holds it in one place.  CallsOK     *)
(* says all of this of one pcb.  The helpers that answer calls (queueAck,  *)
(* signalOpen, signalErr, signalReceive) keep it because each forgets      *)
(* exactly the calls it answers.  Eased says that this is all they do to   *)
(* the calls; TcpServiceProofs needs it.                                   *)
(***************************************************************************)
EXTENDS TcpProofs

Waiting(p, c) == \/ p.call[c] # "idle" /\ p.errCh[c] = <<>>
                 \/ p.call[c] = "send" /\ p.errCh[c] = <<"err">>

HeldWait(p) == \A c \in Held(p) : Waiting(p, c)

Apart(p) ==
    /\ \A e \in p.retxQueue : e.call # NoCall => e.call # p.rcvCmd.call
    /\ \A e, f \in p.retxQueue : e.call = f.call /\ e.call # NoCall => e = f

IdleSilent(p) == \A c \in Call : p.call[c] = "idle" => p.errCh[c] = <<>>

NotLost(p, c) == p.call[c] \notin {"idle", "sendEmpty"} =>
                    p.errCh[c] # <<>> \/ c \in Held(p)

Once(p, c) == \/ Len(p.errCh[c]) <= 1
              \/ /\ Len(p.errCh[c]) = 2
                 /\ p.errCh[c][1] = "err"
                 /\ p.call[c] \in {"send", "sendEmpty"}

\* What holds of a pcb also while call c is being made: c may not be held yet.
CallsBut(p, c) ==
    /\ HeldWait(p)
    /\ Apart(p)
    /\ IdleSilent(p)
    /\ \A d \in Call : Once(p, d)
    /\ \A d \in Call \ {c} : NotLost(p, d)

CallsOK(p) == CallsBut(p, NoCall)

CallsInv == \A h \in Host : CallsOK(pcb[h])
-----------------------------------------------------------------------------
(***************************************************************************)
(* What the helpers do to the fields that matter here.                     *)
(***************************************************************************)

\* p and q agree on the calls.
Same(p, q) == /\ q.call = p.call /\ q.errCh = p.errCh
              /\ q.retxQueue = p.retxQueue /\ q.rcvCmd = p.rcvCmd

\* q is p after the calls in C got one more answer, r.
Told(p, q, C, r) ==
    /\ q.call = p.call
    /\ \A d \in Call : q.errCh[d] = IF d \in C THEN Append(p.errCh[d], r)
                                    ELSE p.errCh[d]

\* From p to q call d noticed nothing, or the pcb held it and it was answered
\* and let go.
EasedAt(p, q, d) ==
    /\ q.call[d] = p.call[d]
    /\ \/ q.errCh[d] = p.errCh[d] /\ (d \in Held(q) <=> d \in Held(p))
       \/ d \in Held(p) \ Held(q) /\ q.errCh[d] # <<>>

Eased(p, q) == \A d \in Call : EasedAt(p, q, d)

\* Pcbs that agree on the calls are Eased, both ways.
LEMMA SameEases == ASSUME NEW p, NEW q, Same(p, q) PROVE Eased(p, q)
  BY DEF Same, Eased, EasedAt, Held

\* Easing twice is easing.
LEMMA EasedTwice == ASSUME NEW p, NEW q, NEW r, Eased(p, q), Eased(q, r)
                    PROVE  Eased(p, r)
  BY DEF Eased, EasedAt

\* Calls in the pcb's queue are calls.
LEMMA HeldIsCall == ASSUME NEW p \in Pcb PROVE Held(p) \subseteq Call
  BY DEF Held, Callers, Pcb, RetxEntry, RcvCmd

\* What matters depends on these fields only.
LEMMA SameKeeps == ASSUME NEW p, NEW q, NEW c, Same(p, q), CallsBut(p, c)
                   PROVE  CallsBut(q, c)
  BY DEF Same, CallsBut, HeldWait, Waiting, Apart, IdleSilent, Once, NotLost, Held

\* Notify changes errCh and nothing else.
LEMMA NotifyTells ==
    ASSUME NEW p \in Pcb, NEW C, NEW r
    PROVE  /\ Told(p, Notify(p, C, r), C, r)
           /\ Notify(p, C, r).retxQueue = p.retxQueue
           /\ Notify(p, C, r).rcvCmd = p.rcvCmd
  BY DEF Notify, Told, Pcb

\* The heart of the matter: answer some of those who wait, and forget exactly
\* these.
LEMMA AnswerKeeps ==
    ASSUME NEW p \in Pcb, NEW q \in Pcb, NEW c, NEW C, NEW r \in Answer,
           CallsBut(p, c), Told(p, q, C, r), C \subseteq Held(p),
           q.retxQueue \subseteq p.retxQueue,
           q.rcvCmd = p.rcvCmd \/ q.rcvCmd.call = NoCall,
           Held(q) = Held(p) \ C
    PROVE  CallsBut(q, c) /\ Eased(p, q)
  <1>1. Held(p) \subseteq Call /\ Held(q) \subseteq Call
    BY HeldIsCall
  <1>2. \A d \in Call : p.errCh[d] \in Seq(Answer)
    BY DEF Pcb
  <1>3. HeldWait(q)
    BY <1>1 DEF CallsBut, HeldWait, Waiting, Told
  <1>4. Apart(q)
    BY DEF CallsBut, Apart
  <1>5. IdleSilent(q)
    <2> SUFFICES ASSUME NEW d \in Call, q.call[d] = "idle"
                 PROVE  q.errCh[d] = <<>>
      BY DEF IdleSilent
    <2>1. p.call[d] = "idle"
      BY DEF Told
    <2>2. d \notin C
      BY <2>1 DEF CallsBut, HeldWait, Waiting
    <2> QED
      BY <2>1, <2>2 DEF CallsBut, IdleSilent, Told
  <1>6. ASSUME NEW d \in Call PROVE Once(q, d)
    <2>1. CASE d \notin C
      BY <2>1 DEF Told, CallsBut, Once
    <2>2. CASE d \in C /\ p.errCh[d] = <<>>
      <3>1. q.errCh[d] = Append(p.errCh[d], r)
        BY <2>2 DEF Told
      <3>2. Len(q.errCh[d]) = 1
        BY <2>2, <3>1, <1>2
      <3> QED
        BY <3>2 DEF Once
    <2>3. CASE d \in C /\ p.call[d] = "send" /\ p.errCh[d] = <<"err">>
      <3>1. q.errCh[d] = Append(<<"err">>, r) /\ q.call[d] = "send"
        BY <2>3 DEF Told
      <3>2. Len(q.errCh[d]) = 2 /\ q.errCh[d][1] = "err"
        BY <3>1
      <3> QED
        BY <3>1, <3>2 DEF Once
    <2> QED
      BY <2>1, <2>2, <2>3 DEF CallsBut, HeldWait, Waiting
  <1>7. ASSUME NEW d \in Call \ {c} PROVE NotLost(q, d)
    <2> SUFFICES ASSUME q.call[d] \notin {"idle", "sendEmpty"},
                        d \notin Held(q)
                 PROVE  q.errCh[d] # <<>>
      BY DEF NotLost
    <2>1. CASE d \in C
      <3>1. q.errCh[d] = Append(p.errCh[d], r) /\ p.errCh[d] \in Seq(Answer)
        BY <2>1, <1>2 DEF Told
      <3>2. Len(q.errCh[d]) = Len(p.errCh[d]) + 1 /\ Len(p.errCh[d]) \in Nat
        BY <3>1
      <3>3. Len(<<>>) = 0
        OBVIOUS
      <3> QED
        BY <3>2, <3>3
    <2>2. CASE d \notin C
      <3>1. q.errCh[d] = p.errCh[d] /\ q.call[d] = p.call[d] /\ d \notin Held(p)
        BY <2>2 DEF Told
      <3> QED
        BY <3>1 DEF CallsBut, NotLost
    <2> QED
      BY <2>1, <2>2
  <1>8. Eased(p, q)
    <2>1. ASSUME NEW d \in C PROVE q.errCh[d] # <<>>
      <3>1. q.errCh[d] = Append(p.errCh[d], r) /\ p.errCh[d] \in Seq(Answer)
        BY <1>1, <1>2, <2>1 DEF Told
      <3>2. Len(q.errCh[d]) = Len(p.errCh[d]) + 1 /\ Len(p.errCh[d]) \in Nat
        BY <3>1
      <3>3. Len(<<>>) = 0
        OBVIOUS
      <3> QED
        BY <3>2, <3>3
    <2> QED
      BY <2>1 DEF Eased, EasedAt, Told
  <1> QED
    BY <1>3, <1>4, <1>5, <1>6, <1>7, <1>8 DEF CallsBut

\* Entries E are answered and removed.
LEMMA RemoveKeeps ==
    ASSUME NEW p \in Pcb, NEW q \in Pcb, NEW c, NEW E \in SUBSET p.retxQueue,
           CallsBut(p, c), Told(p, q, Callers(E), "ok"),
           q.retxQueue = p.retxQueue \ E, q.rcvCmd = p.rcvCmd
    PROVE  CallsBut(q, c) /\ Eased(p, q)
  <1>1. Callers(E) \subseteq Held(p)
    BY DEF Callers, Held
  <1>2. Held(q) = Held(p) \ Callers(E)
    <2>1. ASSUME NEW d \in Held(q) PROVE d \in Held(p) /\ d \notin Callers(E)
      BY <2>1 DEF Held, Callers, CallsBut, Apart
    <2>2. ASSUME NEW d \in Held(p), d \notin Callers(E) PROVE d \in Held(q)
      BY <2>2 DEF Held, Callers
    <2> QED
      BY <2>1, <2>2
  <1> QED
    BY <1>1, <1>2, AnswerKeeps DEF Answer

\* queueAck answers and removes what is acknowledged.
LEMMA queueAckKeeps ==
    ASSUME NEW p \in Pcb, NEW c, CallsBut(p, c)
    PROVE  CallsBut(queueAck(p), c) /\ Eased(p, queueAck(p))
  <1> DEFINE n == Notify(p, Callers(Acked(p)), "ok")
             q == queueAck(p)
  <1>1. Told(p, n, Callers(Acked(p)), "ok") /\ n.retxQueue = p.retxQueue
            /\ n.rcvCmd = p.rcvCmd /\ n \in Pcb
    BY NotifyTells, NotifyType DEF Answer
  <1>2. q \in Pcb
    BY queueAckType
  <1>3. q = [n EXCEPT !.retxQueue = @ \ Acked(p)]
    BY DEF queueAck
  <1> HIDE DEF n, q
  <1>4. /\ q.retxQueue = p.retxQueue \ Acked(p) /\ q.rcvCmd = p.rcvCmd
        /\ Told(p, q, Callers(Acked(p)), "ok")
    BY <1>1, <1>3 DEF Told, Pcb
  <1>5. Acked(p) \subseteq p.retxQueue
    BY DEF Acked
  <1> QED
    BY <1>2, <1>4, <1>5, RemoveKeeps DEF q

\* signalOpen answers and removes the entry of OPEN.
LEMMA signalOpenKeeps ==
    ASSUME NEW p \in Pcb, NEW c, CallsBut(p, c)
    PROVE  CallsBut(signalOpen(p), c) /\ Eased(p, signalOpen(p))
  <1> DEFINE E == {e \in p.retxQueue : e.trigger = "open"}
             n == Notify(p, Callers(E), "ok")
             q == signalOpen(p)
  <1>1. Told(p, n, Callers(E), "ok") /\ n.retxQueue = p.retxQueue
            /\ n.rcvCmd = p.rcvCmd /\ n \in Pcb
    BY NotifyTells, NotifyType DEF Answer
  <1>2. q \in Pcb
    BY signalOpenType
  <1>3. q = [n EXCEPT !.retxQueue = @ \ E]
    BY DEF signalOpen
  <1>4. E \subseteq p.retxQueue
    OBVIOUS
  <1> HIDE DEF n, q, E
  <1>5. /\ q.retxQueue = p.retxQueue \ E /\ q.rcvCmd = p.rcvCmd
        /\ Told(p, q, Callers(E), "ok")
    BY <1>1, <1>3 DEF Told, Pcb
  <1> QED
    BY <1>2, <1>4, <1>5, RemoveKeeps DEF q

\* signalErr leaves nobody waiting.
LEMMA signalErrKeeps ==
    ASSUME NEW p \in Pcb, NEW c, CallsBut(p, c)
    PROVE  /\ CallsBut(Aborted(p), c) /\ Eased(p, Aborted(p))
           /\ Held(Aborted(p)) = {}
           /\ Told(p, Aborted(p), Held(p), "err")
  <1> DEFINE n == Notify(p, Held(p), "err")
             s == signalErr(p)
             q == Aborted(p)
  <1>1. Told(p, n, Held(p), "err") /\ n \in Pcb
    BY NotifyTells, NotifyType DEF Answer
  <1>2. s \in Pcb /\ q \in Pcb
    BY signalErrType
  <1>3. s = [n EXCEPT !.retxQueue = {}, !.rcvCmd = NoRcv]
    BY DEF signalErr, Held
  <1>4. q = [s EXCEPT !.state = "CLOSED"]
    BY DEF Aborted
  <1> HIDE DEF n, s, q
  <1>5. /\ q.retxQueue = {} /\ q.rcvCmd = NoRcv
        /\ Told(p, q, Held(p), "err")
    BY <1>1, <1>2, <1>3, <1>4 DEF Told, Pcb
  <1>6. Held(q) = {}
    BY <1>5 DEF Held, Callers, NoRcv
  <1>7. CallsBut(q, c) /\ Eased(p, q)
    BY <1>2, <1>5, <1>6, AnswerKeeps DEF NoRcv, Answer
  <1> QED
    BY <1>5, <1>6, <1>7 DEF q

\* signalReceive answers the pending RECEIVE and forgets it, or does nothing.
LEMMA signalReceiveKeeps ==
    ASSUME NEW p \in Pcb, NEW c, CallsBut(p, c)
    PROVE  CallsBut(signalReceive(p), c) /\ Eased(p, signalReceive(p))
  <1> DEFINE d == p.rcvCmd.call
             n == Notify(p, {d}, "ok")
             q == signalReceive(p)
             dlen == IF p.rcvCmd.size < p.rxLen THEN p.rcvCmd.size ELSE p.rxLen
             got == [i \in 1 .. dlen |-> p.rxQueue[i - 1]]
             done == [n EXCEPT !.rcvCmd = NoRcv, !.read = @ \o got]
  <1>1. CASE d = NoCall \/ p.rxLen = 0
    <2>1. signalReceive(p) = p
      BY <1>1 DEF signalReceive
    <2> QED
      BY <2>1, SameEases DEF Same
  <1>2. CASE ~(d = NoCall \/ p.rxLen = 0)
    <2>1. Told(p, n, {d}, "ok") /\ n.retxQueue = p.retxQueue /\ n \in Pcb
      BY NotifyTells, NotifyType DEF Answer
    <2>2. q \in Pcb
      BY signalReceiveType
    <2>3. q = IF dlen = p.rxLen
              THEN [done EXCEPT !.rxLen = 0, !.rcvWnd = BufferSize]
              ELSE [done EXCEPT !.rxQueue = ShiftDown(@, p.rxLen - dlen),
                                !.rxLen = @ - dlen,
                                !.rcvWnd = Add16(@, dlen)]
      BY <1>2 DEF signalReceive
    <2> HIDE DEF n, q, dlen, got
    <2>4. /\ done.call = n.call /\ done.errCh = n.errCh
          /\ done.retxQueue = n.retxQueue /\ done.rcvCmd = NoRcv
      BY <2>1 DEF Pcb
    <2> HIDE DEF done
    <2>5. Same(done, q)
      <3>1. DOMAIN done = DOMAIN n
        BY DEF done
      <3> QED
        BY <2>1, <2>3, <3>1 DEF Same, Pcb
    <2>6. /\ q.retxQueue = p.retxQueue /\ q.rcvCmd = NoRcv
          /\ Told(p, q, {d}, "ok")
      BY <2>1, <2>4, <2>5 DEF Same, Told
    <2>7. {d} \subseteq Held(p) /\ Held(q) = Held(p) \ {d}
      BY <1>2, <2>6 DEF Held, Callers, NoRcv, CallsBut, Apart
    <2>8. CallsBut(q, c) /\ Eased(p, q)
      <3> HIDE DEF d
      <3> QED
        BY <2>2, <2>6, <2>7, AnswerKeeps DEF NoRcv, Answer
    <2> QED
      BY <2>8 DEF q
  <1> QED
    BY <1>1, <1>2
-----------------------------------------------------------------------------
(***************************************************************************)
(* What segmentArrives makes of a pcb keeps CallsOK.                       *)
(***************************************************************************)

\* A SYN in SYN-SENT.
LEMMA SynSentSynKeeps ==
    ASSUME NEW p \in Pcb, NEW m \in Segment, NEW acceptable \in BOOLEAN, CallsOK(p)
    PROVE  /\ CallsOK(SynSentSyn(p, m, acceptable))
           /\ Eased(p, SynSentSyn(p, m, acceptable))
  <1> DEFINE q == [p EXCEPT !.rcvNxt = Plus(m.seq, 1)]
             r == [q EXCEPT !.una = m.ack]
  <1>1. Plus(m.seq, 1) \in SeqNum /\ m.ack \in SeqNum
    BY PlusType, SmallType DEF Segment
  <1>2. q \in Pcb /\ r \in Pcb
    BY <1>1 DEF Pcb
  <1>3. Same(p, q) /\ Same(p, r)
    BY DEF Same, Pcb
  <1>4. CallsOK(q) /\ CallsOK(r) /\ Eased(p, q) /\ Eased(p, r)
    BY <1>3, SameKeeps, SameEases DEF CallsOK
  <1> HIDE DEF r
  <1>5. CallsOK(queueAck(r)) /\ Eased(p, queueAck(r))
    BY <1>2, <1>4, queueAckKeeps, EasedTwice DEF CallsOK
  <1> QED
    BY <1>4, <1>5 DEF SynSentSyn, r

\* SYN-RECEIVED to ESTABLISHED touches no call.
LEMMA EstablishedKeeps ==
    ASSUME NEW p \in Pcb, CallsOK(p)
    PROVE  CallsOK(Established(p)) /\ Eased(p, Established(p))
  <1>1. Same(p, Established(p))
    BY DEF Same, Established, Pcb
  <1> QED
    BY <1>1, SameKeeps, SameEases DEF CallsOK

\* An ACK answers what it acknowledges.
LEMMA ProcessAckKeeps ==
    ASSUME NEW p \in Pcb, NEW m \in Segment, CallsOK(p)
    PROVE  CallsOK(ProcessAck(p, m)) /\ Eased(p, ProcessAck(p, m))
  <1> DEFINE new == p.una < m.ack /\ m.ack <= p.nxt
             o == [p EXCEPT !.una = m.ack]
             q == IF new THEN queueAck(o) ELSE p
             newWnd == new /\ (p.wl1 < m.seq \/ (p.wl1 = m.seq /\ p.wl2 <= m.ack))
             r == IF newWnd
                  THEN [q EXCEPT !.wnd = m.wnd, !.wl1 = m.seq, !.wl2 = m.ack]
                  ELSE q
  <1>1. o \in Pcb /\ Same(p, o)
    BY DEF Pcb, Same, Segment
  <1>2. CallsOK(o) /\ Eased(p, o)
    BY <1>1, SameKeeps, SameEases DEF CallsOK
  <1>3. q \in Pcb /\ CallsOK(q) /\ Eased(p, q)
    <2> HIDE DEF o
    <2>1. queueAck(o) \in Pcb /\ CallsOK(queueAck(o)) /\ Eased(p, queueAck(o))
      BY <1>1, <1>2, queueAckType, queueAckKeeps, EasedTwice DEF CallsOK
    <2>2. Eased(p, p)
      BY SameEases DEF Same
    <2> QED
      BY <2>1, <2>2
  <1> HIDE DEF q, newWnd
  <1>4. Same(q, r) /\ DOMAIN r = DOMAIN q
    BY <1>3 DEF Same, Pcb
  <1> HIDE DEF r
  <1>5. Same(q, [r EXCEPT !.state = CASE @ = "FIN-WAIT-1" -> "FIN-WAIT-2"
                                      [] @ = "CLOSING" -> "TIME-WAIT"
                                      [] OTHER -> @])
    BY <1>3, <1>4 DEF Same, Pcb
  <1> QED
    BY <1>3, <1>4, <1>5, SameKeeps, SameEases, EasedTwice
    DEF ProcessAck, CallsOK, o, q, newWnd, r

\* Text answers at most the pending RECEIVE.
LEMMA ProcessTextKeeps ==
    ASSUME NEW p \in Pcb, NEW m \in Segment, CallsOK(p)
    PROVE  CallsOK(ProcessText(p, m)) /\ Eased(p, ProcessText(p, m))
  <1> DEFINE q == [p EXCEPT !.rxQueue = CopyAt(@, p.rxLen, m.data),
                            !.rxLen = Add16(@, Len(m.data)),
                            !.rcvNxt = Plus(m.seq, SegLen(m)),
                            !.rcvWnd = Sub16(@, Len(m.data))]
  <1>1. m.data \in Payload /\ Len(m.data) \in Wnd
    BY PayloadType DEF Segment
  <1>2. p.rxQueue \in [0 .. BufferSize - 1 -> Byte] /\ p.rxLen \in Wnd /\ p.rcvWnd \in Wnd
    BY DEF Pcb
  <1>3. /\ CopyAt(p.rxQueue, p.rxLen, m.data) \in [0 .. BufferSize - 1 -> Byte]
        /\ Add16(p.rxLen, Len(m.data)) \in Wnd
        /\ Sub16(p.rcvWnd, Len(m.data)) \in Wnd
        /\ Plus(m.seq, SegLen(m)) \in SeqNum
    BY <1>1, <1>2, QueueType, SixteenType, PlusType, SegLenType DEF Segment
  <1>4. q \in Pcb /\ Same(p, q)
    BY <1>3 DEF Pcb, Same
  <1> HIDE DEF q
  <1>5. CallsOK(q) /\ Eased(p, q)
    BY <1>4, SameKeeps, SameEases DEF CallsOK
  <1>6. CallsOK(signalReceive(q)) /\ Eased(p, signalReceive(q))
    BY <1>4, <1>5, signalReceiveKeeps, EasedTwice DEF CallsOK
  <1> QED
    BY <1>6 DEF ProcessText, q

\* So does a FIN.
LEMMA ProcessFinKeeps ==
    ASSUME NEW p \in Pcb, NEW m \in Segment, CallsOK(p)
    PROVE  CallsOK(ProcessFin(p, m)) /\ Eased(p, ProcessFin(p, m))
  <1> DEFINE q == signalReceive(p)
  <1>1. q \in Pcb /\ CallsOK(q) /\ Eased(p, q)
    BY signalReceiveType, signalReceiveKeeps DEF CallsOK
  <1> HIDE DEF q
  <1>2. Same(q, [q EXCEPT !.rcvNxt = Plus(m.seq, 1),
                          !.state = CASE @ = "ESTABLISHED" -> "CLOSE-WAIT"
                                      [] @ = "FIN-WAIT-1" -> "CLOSING"
                                      [] @ = "FIN-WAIT-2" -> "TIME-WAIT"
                                      [] OTHER -> @])
    BY <1>1 DEF Same, Pcb
  <1> QED
    BY <1>1, <1>2, SameKeeps, SameEases, EasedTwice DEF ProcessFin, q, CallsOK

\* What is queued without a channel makes no difference to the calls.
LEMMA queueAddKeeps ==
    ASSUME NEW p \in Pcb, NEW seq \in SeqNum, NEW flag \in SUBSET Flag,
           NEW data \in Payload, CallsOK(p)
    PROVE  CallsOK(queueAdd(p, seq, flag, data, "no", NoCall))
  <1> DEFINE e == [seq |-> seq, flag |-> flag, data |-> data,
                   trigger |-> "no", call |-> NoCall]
             q == queueAdd(p, seq, flag, data, "no", NoCall)
  <1>1. /\ q.call = p.call /\ q.errCh = p.errCh /\ q.rcvCmd = p.rcvCmd
        /\ q.retxQueue = p.retxQueue \/ q.retxQueue = p.retxQueue \cup {e}
    BY DEF queueAdd, Pcb
  <1> HIDE DEF q
  <1>2. Held(q) = Held(p)
    BY <1>1 DEF Held, Callers
  <1>3. Apart(q)
    BY <1>1 DEF CallsOK, CallsBut, Apart
  <1> QED
    BY <1>1, <1>2, <1>3
    DEF CallsOK, CallsBut, HeldWait, Waiting, IdleSilent, Once, NotLost, q
-----------------------------------------------------------------------------
(***************************************************************************)
(* A call being made: it waits, but the pcb does not hold it yet.          *)
(***************************************************************************)
Making(p, c) == /\ CallsBut(p, c)
                /\ c \notin Held(p)
                /\ Waiting(p, c)

\* A call made from idle waits, and is not held.
LEMMA IssueMakes ==
    ASSUME TypeOK, CallsInv, NEW h \in Host, NEW c \in Call, NEW k \in Kind,
           Idle(h, c), k # "idle"
    PROVE  /\ Making(Issue(h, c, k), c)
           /\ Issue(h, c, k).call[c] = k /\ Issue(h, c, k).errCh[c] = <<>>
  <1> DEFINE p == pcb[h]
             q == Issue(h, c, k)
  <1>1. p \in Pcb /\ CallsOK(p) /\ p.call[c] = "idle"
    BY DEF TypeOK, CallsInv, Idle
  <1>2. /\ \A d \in Call : q.call[d] = IF d = c THEN k ELSE p.call[d]
        /\ q.errCh = p.errCh /\ q.retxQueue = p.retxQueue /\ q.rcvCmd = p.rcvCmd
    BY <1>1 DEF Issue, Pcb
  <1> HIDE DEF p, q
  <1>3. p.errCh[c] = <<>> /\ c \notin Held(p)
    BY <1>1 DEF CallsOK, CallsBut, IdleSilent, HeldWait, Waiting
  <1>4. Held(q) = Held(p) /\ Held(p) \subseteq Call
    BY <1>1, <1>2, HeldIsCall DEF Held, Callers
  <1>5. HeldWait(q)
    BY <1>1, <1>2, <1>3, <1>4 DEF CallsOK, CallsBut, HeldWait, Waiting
  <1>6. Apart(q) /\ IdleSilent(q)
    BY <1>1, <1>2, <1>3 DEF CallsOK, CallsBut, Apart, IdleSilent
  <1>7. \A d \in Call : Once(q, d)
    <2>1. Len(<<>>) <= 1
      OBVIOUS
    <2> QED
      BY <1>1, <1>2, <1>3, <2>1 DEF CallsOK, CallsBut, Once
  <1>8. \A d \in Call \ {c} : NotLost(q, d)
    BY <1>1, <1>2, <1>4, CallAssumption DEF CallsOK, CallsBut, NotLost
  <1> QED
    BY <1>2, <1>3, <1>4, <1>5, <1>6, <1>7, <1>8 DEF Making, CallsBut, Waiting, q

\* It is answered at once ...
LEMMA ReplyKeeps ==
    ASSUME NEW p \in Pcb, NEW c \in Call, NEW r \in Answer, Making(p, c)
    PROVE  CallsOK(Notify(p, {c}, r))
  <1> DEFINE q == Notify(p, {c}, r)
  <1>1. /\ Told(p, q, {c}, r) /\ q.retxQueue = p.retxQueue /\ q.rcvCmd = p.rcvCmd
    BY NotifyTells
  <1> HIDE DEF q
  <1>2. Held(q) = Held(p) /\ Held(p) \subseteq Call
    BY <1>1, HeldIsCall DEF Held
  <1>3. \A d \in Call : p.errCh[d] \in Seq(Answer)
    BY DEF Pcb
  <1>4. HeldWait(q)
    BY <1>1, <1>2 DEF Making, CallsBut, HeldWait, Waiting, Told
  <1>5. Apart(q) /\ IdleSilent(q)
    BY <1>1 DEF Making, CallsBut, Apart, IdleSilent, Waiting, Told
  <1>6. q.errCh[c] = Append(p.errCh[c], r) /\ q.call[c] = p.call[c]
    BY <1>1 DEF Told
  <1>7. Once(q, c) /\ NotLost(q, c)
    <2>1. CASE p.errCh[c] = <<>>
      <3>1. Len(q.errCh[c]) = 1 /\ Len(<<>>) = 0
        BY <1>6, <2>1
      <3> QED
        BY <3>1 DEF Once, NotLost
    <2>2. CASE p.call[c] = "send" /\ p.errCh[c] = <<"err">>
      <3>1. q.errCh[c] = Append(<<"err">>, r) /\ q.call[c] = "send"
        BY <1>6, <2>2
      <3>2. Len(q.errCh[c]) = 2 /\ q.errCh[c][1] = "err" /\ Len(<<>>) = 0
        BY <3>1
      <3> QED
        BY <3>1, <3>2 DEF Once, NotLost
    <2> QED
      BY <2>1, <2>2 DEF Making, Waiting
  <1>8. \A d \in Call \ {c} : Once(q, d) /\ NotLost(q, d)
    BY <1>1, <1>2 DEF Making, CallsBut, Once, NotLost, Told
  <1> QED
    BY <1>4, <1>5, <1>7, <1>8 DEF CallsOK, CallsBut, q

\* ... or queued, if there is anything to queue ...
LEMMA QueueKeeps ==
    ASSUME NEW p \in Pcb, NEW c \in Call, NEW seq \in SeqNum,
           NEW flag \in SUBSET Flag, NEW data \in Payload, NEW t \in Trigger,
           Making(p, c),
           \/ flag \cap {"SYN", "FIN"} # {} \/ data # <<>>
           \/ p.call[c] = "sendEmpty"
    PROVE  CallsOK(queueAdd(p, seq, flag, data, t, c))
  <1> DEFINE e == [seq |-> seq, flag |-> flag, data |-> data,
                   trigger |-> t, call |-> c]
             q == queueAdd(p, seq, flag, data, t, c)
  <1>1. CASE flag \cap {"SYN", "FIN"} # {} \/ data # <<>>
    <2>1. /\ q.call = p.call /\ q.errCh = p.errCh /\ q.rcvCmd = p.rcvCmd
          /\ q.retxQueue = p.retxQueue \cup {e}
      BY <1>1 DEF queueAdd, Pcb
    <2> HIDE DEF q
    <2>2. Held(q) = Held(p) \cup {c}
      <3>1. {f.call : f \in q.retxQueue} = {f.call : f \in p.retxQueue} \cup {c}
        <4>1. e.call = c
          OBVIOUS
        <4> HIDE DEF e
        <4> QED
          BY <2>1, <4>1
      <3> QED
        BY <2>1, <3>1, CallAssumption DEF Held, Callers
    <2>3. HeldWait(q)
      BY <2>1, <2>2 DEF Making, CallsBut, HeldWait, Waiting
    <2>4. Apart(q)
      BY <2>1 DEF Making, CallsBut, Apart, Held, Callers
    <2>5. \A d \in Call : NotLost(q, d)
      BY <2>1, <2>2 DEF Making, CallsBut, NotLost
    <2> QED
      BY <2>1, <2>3, <2>4, <2>5 DEF Making, CallsOK, CallsBut, IdleSilent, Once, q
  <1>2. CASE /\ ~(flag \cap {"SYN", "FIN"} # {} \/ data # <<>>)
             /\ p.call[c] = "sendEmpty"
    <2>1. queueAdd(p, seq, flag, data, t, c) = p
      BY <1>2 DEF queueAdd
    <2>2. NotLost(p, c)
      BY <1>2 DEF NotLost
    <2> QED
      BY <2>1, <2>2 DEF Making, CallsOK, CallsBut
  <1> QED
    BY <1>1, <1>2
\* ... or becomes the pending RECEIVE, if there is none.
LEMMA PendKeeps ==
    ASSUME NEW p \in Pcb, NEW c \in Call, NEW n \in Nat, Making(p, c),
           p.rcvCmd.call = NoCall
    PROVE  CallsOK([p EXCEPT !.rcvCmd = [call |-> c, size |-> n]])
  <1> DEFINE q == [p EXCEPT !.rcvCmd = [call |-> c, size |-> n]]
  <1>1. /\ q.call = p.call /\ q.errCh = p.errCh /\ q.retxQueue = p.retxQueue
        /\ q.rcvCmd.call = c
    BY DEF Pcb
  <1> HIDE DEF q
  <1>2. Held(q) = Held(p) \cup {c}
    BY <1>1, CallAssumption DEF Held
  <1>3. HeldWait(q)
    BY <1>1, <1>2 DEF Making, CallsBut, HeldWait, Waiting
  <1>4. Apart(q)
    BY <1>1 DEF Making, CallsBut, Apart, Held, Callers
  <1>5. \A d \in Call : NotLost(q, d)
    BY <1>1, <1>2 DEF Making, CallsBut, NotLost
  <1> QED
    BY <1>1, <1>3, <1>4, <1>5 DEF Making, CallsOK, CallsBut, IdleSilent, Once, q

\* The end of the connection answers those held, not the one being made.
LEMMA AbortedMakes ==
    ASSUME NEW p \in Pcb, NEW c \in Call, Making(p, c)
    PROVE  Making(Aborted(p), c)
  <1>1. /\ CallsBut(Aborted(p), c) /\ Held(Aborted(p)) = {}
        /\ Told(p, Aborted(p), Held(p), "err")
    BY signalErrKeeps DEF Making
  <1> QED
    BY <1>1 DEF Making, Waiting, Told
-----------------------------------------------------------------------------
(***************************************************************************)
(* The ways a step ends.                                                   *)
(***************************************************************************)

\* One pcb becomes another that keeps CallsOK.
LEMMA SetKeeps ==
    ASSUME TypeOK, CallsInv, NEW h \in Host, NEW q, CallsOK(q), Set(h, q)
    PROVE  CallsInv'
  BY DEF TypeOK, CallsInv, Set

\* Nothing happens to any pcb.
LEMMA DiscardKeeps == ASSUME CallsInv, UNCHANGED pcb PROVE CallsInv'
  BY DEF CallsInv

\* TxHelperTCP queues for nobody.
LEMMA TxHelperTCPKeeps ==
    ASSUME TypeOK, CallsInv, NEW h \in Host, NEW q \in Pcb, CallsOK(q),
           NEW flag \in SUBSET Flag, TxHelperTCP(h, q, flag)
    PROVE  CallsInv'
  <1> DEFINE m == SegmentOf(h, q, flag, <<>>)
             r == queueAdd(q, m.seq, flag, <<>>, "no", NoCall)
  <1>1. m.seq \in SeqNum
    BY SegmentOfType, PayloadType DEF Segment
  <1>2. CallsOK(r)
    BY <1>1, queueAddKeeps, PayloadType
  <1>3. \/ Set(h, r)
        \/ Set(h, q)
    BY DEF TxHelperTCP
  <1> HIDE DEF m, r
  <1> QED
    BY <1>2, <1>3, SetKeeps

\* A user call that sends is queued with its segment, or answered.
LEMMA TxUserKeeps ==
    ASSUME TypeOK, CallsInv, NEW h \in Host, NEW q \in Pcb, NEW c \in Call,
           NEW t \in Trigger, NEW flag \in SUBSET Flag, NEW d \in Payload,
           NEW s \in State, NEW n \in SeqNum, Making(q, c),
           \/ flag \cap {"SYN", "FIN"} # {} \/ d # <<>>
           \/ q.call[c] = "sendEmpty",
           TxUser(h, q, c, t, flag, d, s, n)
    PROVE  CallsInv'
  <1> DEFINE m == SegmentOf(h, q, flag, d)
             r == queueAdd(q, m.seq, flag, d, t, c)
             sent == [r EXCEPT !.state = s, !.nxt = Plus(@, n)]
  <1>1. m.seq \in SeqNum
    BY SegmentOfType DEF Segment
  <1>2. r \in Pcb /\ CallsOK(r)
    BY <1>1, queueAddType, QueueKeeps
  <1>3. CallsOK(Notify(q, {c}, "err"))
    BY ReplyKeeps DEF Answer
  <1>4. Set(h, sent) \/ Set(h, Notify(q, {c}, "err"))
    BY DEF TxUser
  <1> HIDE DEF m, r
  <1>5. Same(r, sent)
    BY <1>2 DEF Same, Pcb
  <1> HIDE DEF sent
  <1>6. CallsOK(sent)
    BY <1>2, <1>5, SameKeeps DEF CallsOK
  <1> QED
    BY <1>3, <1>4, <1>6, SetKeeps

\* A user call that is refused is answered.
LEMMA RefuseKeeps ==
    ASSUME TypeOK, CallsInv, NEW h \in Host, NEW p \in Pcb, NEW c \in Call,
           Making(p, c), Refuse(h, p, c)
    PROVE  CallsInv'
  <1>1. CallsOK(Notify(p, {c}, "err"))
    BY ReplyKeeps DEF Answer
  <1> QED
    BY <1>1, SetKeeps DEF Refuse
-----------------------------------------------------------------------------
(***************************************************************************)
(* The user calls.                                                         *)
(***************************************************************************)

\* OPEN.
LEMMA OpenKeeps ==
    ASSUME TypeOK, CallsInv, NEW h \in Host, NEW c \in Call
    PROVE  /\ PassiveOpen(h, c) => CallsInv'
           /\ \A f \in Endpoint, iss \in ISS : ActiveOpen(h, c, f, iss) => CallsInv'
           /\ OpenExisting(h, c) => CallsInv'
  <1> DEFINE p == Issue(h, c, "open")
  <1> SUFFICES ASSUME Idle(h, c)
               PROVE  /\ PassiveOpen(h, c) => CallsInv'
                      /\ \A f \in Endpoint, iss \in ISS :
                            ActiveOpen(h, c, f, iss) => CallsInv'
                      /\ OpenExisting(h, c) => CallsInv'
    BY DEF PassiveOpen, ActiveOpen, OpenExisting
  <1>1. p \in Pcb /\ Making(p, c)
    BY IssueType, IssueMakes DEF Kind
  <1> HIDE DEF p
  <1>2. ASSUME PassiveOpen(h, c) PROVE CallsInv'
    <2> DEFINE q == [p EXCEPT !.state = "LISTEN"]
    <2>1. q \in Pcb /\ Same(p, q)
      BY <1>1 DEF Pcb, State, Same
    <2>2. Set(h, Notify(q, {c}, "ok"))
      BY <1>2 DEF PassiveOpen, p
    <2> HIDE DEF q
    <2>3. Making(q, c)
      BY <1>1, <2>1, SameKeeps DEF Making, Same, Waiting, Held
    <2>4. CallsOK(Notify(q, {c}, "ok"))
      BY <2>1, <2>3, ReplyKeeps DEF Answer
    <2> QED
      BY <2>2, <2>4, SetKeeps
  <1>3. ASSUME NEW f \in Endpoint, NEW iss \in ISS, ActiveOpen(h, c, f, iss)
        PROVE  CallsInv'
    <2> DEFINE q == [p EXCEPT !.foreign = f, !.iss = iss,
                              !.una = iss, !.nxt = Plus(iss, 1)]
    <2>1. iss \in SeqNum /\ Plus(iss, 1) \in SeqNum
      BY ISSAssumption, PlusType, SmallType
    <2>2. q \in Pcb /\ Same(p, q)
      BY <1>1, <2>1 DEF Pcb, Same
    <2> HIDE DEF q
    <2>3. Making(q, c)
      BY <1>1, <2>2, SameKeeps DEF Making, Same, Waiting, Held
    <2>4. CASE Refuse(h, p, c)
      BY <1>1, <2>4, RefuseKeeps
    <2>5. CASE TxUser(h, q, c, "open", {"SYN"}, <<>>, "SYN-SENT", 0)
      BY <2>2, <2>3, <2>5, TxUserKeeps, SmallType, PayloadType
      DEF Trigger, Flag, State
    <2> QED
      BY <1>3, <2>4, <2>5 DEF ActiveOpen, p, q
  <1>4. ASSUME OpenExisting(h, c) PROVE CallsInv'
    BY <1>1, <1>4, RefuseKeeps DEF OpenExisting, p
  <1> QED
    BY <1>2, <1>3, <1>4

\* SEND: the text that exceeds the window has its error already.
LEMMA SendKeeps ==
    ASSUME TypeOK, CallsInv, NEW h \in Host, NEW c \in Call, NEW d \in SendData,
           Send(h, c, d)
    PROVE  CallsInv'
  <1> DEFINE k == IF d = <<>> THEN "sendEmpty" ELSE "send"
             p == Issue(h, c, k)
             n == Notify(p, {c}, "err")
             q == IF Len(d) > p.wnd THEN n ELSE p
  <1>1. k \in Kind /\ k # "idle" /\ Idle(h, c)
    BY DEF Kind, Send
  <1>2. p \in Pcb /\ Making(p, c) /\ p.call[c] = k /\ p.errCh[c] = <<>>
    BY <1>1, IssueType, IssueMakes
  <1>3. d \in Payload /\ Len(d) \in SeqNum
    BY DataAssumption, PayloadType, SmallType
  <1>4. p.wnd \in Wnd
    BY <1>2 DEF Pcb
  <1> HIDE DEF p
  <1>5. d = <<>> => q = p
    BY <1>4 DEF Wnd
  <1>6. d # <<>> => n \in Pcb /\ n.call[c] = k /\ Making(n, c)
    <2> HAVE d # <<>>
    <2>1. n \in Pcb
      BY <1>2, NotifyType DEF Answer
    <2>2. /\ Told(p, n, {c}, "err") /\ n.retxQueue = p.retxQueue
          /\ n.rcvCmd = p.rcvCmd
      BY <1>2, NotifyTells
    <2> HIDE DEF n
    <2>3. CallsOK(n)
      BY <1>2, ReplyKeeps DEF Answer, n
    <2>4. n.call[c] = "send" /\ n.errCh[c] = <<"err">>
      <3>1. n.call[c] = k /\ n.errCh[c] = Append(p.errCh[c], "err")
        BY <1>2, <2>2 DEF Told
      <3>2. Append(<<>>, "err") = <<"err">>
        OBVIOUS
      <3> QED
        BY <1>2, <3>1, <3>2
    <2>5. Held(n) = Held(p)
      BY <2>2 DEF Held
    <2>6. CallsBut(n, c)
      BY <2>3, CallAssumption DEF CallsOK, CallsBut
    <2> QED
      BY <1>2, <2>1, <2>4, <2>5, <2>6 DEF Making, Waiting
  <1> HIDE DEF n
  <1>7. q \in Pcb /\ Making(q, c) /\ q.call[c] = k
    BY <1>2, <1>5, <1>6
  <1> HIDE DEF q
  <1>8. q.state \in State
    BY <1>7 DEF Pcb
  <1>9. CASE TxUser(h, q, c, "send", {"ACK"}, d, q.state, Len(d))
    BY <1>3, <1>7, <1>8, <1>9, TxUserKeeps DEF Trigger, Flag
  <1>10. CASE Refuse(h, p, c)
    BY <1>2, <1>10, RefuseKeeps
  <1> QED
    BY <1>9, <1>10 DEF Send, p, q, n

\* RECEIVE.
LEMMA ReceiveKeeps ==
    ASSUME TypeOK, CallsInv, NEW h \in Host, NEW c \in Call, NEW n \in RecvSize,
           Receive(h, c, n)
    PROVE  CallsInv'
  <1> DEFINE p == Issue(h, c, "receive")
             w == [p EXCEPT !.rcvCmd = [call |-> c, size |-> n]]
             q == signalReceive(w)
  <1>1. p \in Pcb /\ Making(p, c)
    BY IssueType, IssueMakes DEF Kind, Receive
  <1>2. [call |-> c, size |-> n] \in RcvCmd /\ n \in Nat
    BY RecvAssumption DEF RcvCmd
  <1>3. \/ p.rcvCmd.call = NoCall /\ Set(h, q)
        \/ Refuse(h, p, c)
    BY DEF Receive
  <1> HIDE DEF p
  <1>4. ASSUME p.rcvCmd.call = NoCall PROVE CallsOK(q)
    <2>1. w \in Pcb
      BY <1>1, <1>2 DEF Pcb
    <2>2. CallsOK(w)
      BY <1>1, <1>2, <1>4, PendKeeps
    <2> HIDE DEF w
    <2> QED
      BY <2>1, <2>2, signalReceiveKeeps DEF CallsOK
  <1> HIDE DEF q
  <1>5. CASE Refuse(h, p, c)
    BY <1>1, <1>5, RefuseKeeps
  <1> QED
    BY <1>3, <1>4, <1>5, SetKeeps

\* CLOSE.
LEMMA CloseKeeps ==
    ASSUME TypeOK, CallsInv, NEW h \in Host, NEW c \in Call, Close(h, c)
    PROVE  CallsInv'
  <1> DEFINE p == Issue(h, c, "close")
  <1>1. p \in Pcb /\ Making(p, c)
    BY IssueType, IssueMakes DEF Kind, Close
  <1> HIDE DEF p
  <1>2. CASE Set(h, Notify(Aborted(p), {c}, "ok"))
    <2>1. Aborted(p) \in Pcb /\ Making(Aborted(p), c)
      BY <1>1, signalErrType, AbortedMakes
    <2>2. CallsOK(Notify(Aborted(p), {c}, "ok"))
      BY <2>1, ReplyKeeps DEF Answer
    <2> QED
      BY <1>2, <2>2, SetKeeps
  <1>3. CASE \E s \in {"FIN-WAIT-1", "LAST-ACK"} :
                TxUser(h, p, c, "close", {"ACK", "FIN"}, <<>>, s, 1)
    <2>1. PICK s \in {"FIN-WAIT-1", "LAST-ACK"} :
                TxUser(h, p, c, "close", {"ACK", "FIN"}, <<>>, s, 1)
      BY <1>3
    <2>2. s \in State /\ {"ACK", "FIN"} \in SUBSET Flag /\ "close" \in Trigger
            /\ {"ACK", "FIN"} \cap {"SYN", "FIN"} # {}
      BY DEF State, Flag, Trigger
    <2> QED
      BY <1>1, <2>1, <2>2, TxUserKeeps, SmallType, PayloadType
  <1>4. CASE Refuse(h, p, c)
    BY <1>1, <1>4, RefuseKeeps
  <1> QED
    BY <1>2, <1>3, <1>4 DEF Close, p

\* ABORT.
LEMMA AbortKeeps ==
    ASSUME TypeOK, CallsInv, NEW h \in Host, Abort(h)
    PROVE  CallsInv'
  <1> DEFINE p == pcb[h]
             q == [p EXCEPT !.state = "CLOSED"]
  <1>1. p \in Pcb /\ CallsOK(p)
    BY DEF TypeOK, CallsInv
  <1>2. Set(h, Aborted(p)) \/ Set(h, q)
    BY DEF Abort, TxHandler
  <1> HIDE DEF p
  <1>3. CallsOK(Aborted(p))
    BY <1>1, signalErrKeeps DEF CallsOK
  <1>4. Same(p, q)
    BY <1>1 DEF Same, Pcb
  <1> HIDE DEF q
  <1>5. CallsOK(q)
    BY <1>1, <1>4, SameKeeps DEF CallsOK
  <1> QED
    BY <1>2, <1>3, <1>5, SetKeeps

\* The timer.
LEMMA TimerKeeps ==
    ASSUME TypeOK, CallsInv, NEW h \in Host, Timer(h)
    PROVE  CallsInv'
  <1> DEFINE p == pcb[h]
             q == queueAck(p)
  <1>1. p \in Pcb /\ CallsOK(p)
    BY DEF TypeOK, CallsInv
  <1>2. Set(h, Aborted(p)) \/ Set(h, Aborted(q)) \/ Set(h, q)
    BY DEF Timer, TimeWaitOver, UserTimeout, Retransmit
  <1> HIDE DEF p
  <1>3. q \in Pcb /\ CallsOK(q)
    BY <1>1, queueAckType, queueAckKeeps DEF CallsOK
  <1> HIDE DEF q
  <1>4. CallsOK(Aborted(p)) /\ CallsOK(Aborted(q))
    BY <1>1, <1>3, signalErrKeeps DEF CallsOK
  <1> QED
    BY <1>2, <1>3, <1>4, SetKeeps
-----------------------------------------------------------------------------
(***************************************************************************)
(* Segments.                                                               *)
(***************************************************************************)

\* A segment for a pcb that is CLOSED, in LISTEN, or not to be had.
LEMMA ArriveClosedKeeps ==
    ASSUME TypeOK, CallsInv, NEW h \in Host, NEW m \in Segment, ArriveClosed(h, m)
    PROVE  CallsInv'
  <1>1. CallsOK(pcb[h])
    BY DEF CallsInv
  <1>2. UNCHANGED pcb \/ Set(h, pcb[h])
    BY DEF ArriveClosed, TxHandler, Discard
  <1> QED
    BY <1>1, <1>2, SetKeeps, DiscardKeeps

\* A segment in LISTEN: the SYN opens the pcb with a queue as it was.
LEMMA ArriveListenKeeps ==
    ASSUME TypeOK, CallsInv, NEW h \in Host, NEW m \in Segment, ArriveListen(h, m)
    PROVE  CallsInv'
  <1> DEFINE p == pcb[h]
             q(iss) == [p EXCEPT !.foreign = m.src,
                                 !.rcvWnd = BufferSize,
                                 !.rcvNxt = Plus(m.seq, 1),
                                 !.iss = iss, !.una = iss,
                                 !.nxt = Plus(iss, 1),
                                 !.state = "SYN-RECEIVED",
                                 !.rxQueue = CopyAt(@, p.rxLen, m.data),
                                 !.rxLen = Add16(@, Len(m.data))]
  <1>1. p \in Pcb /\ CallsOK(p)
    BY DEF TypeOK, CallsInv
  <1>2. \/ UNCHANGED pcb \/ Set(h, p)
        \/ \E iss \in ISS : TxHelperTCP(h, q(iss), {"SYN", "ACK"})
    BY DEF ArriveListen, TxHandler, Discard
  <1> HIDE DEF p
  <1>3. ASSUME NEW iss \in ISS PROVE q(iss) \in Pcb /\ CallsOK(q(iss))
    <2>1. /\ iss \in SeqNum /\ Plus(iss, 1) \in SeqNum
          /\ Plus(m.seq, 1) \in SeqNum /\ BufferSize \in Wnd
          /\ m.src \in Endpoint /\ m.data \in Payload /\ Len(m.data) \in Wnd
      BY ISSAssumption, PlusType, SmallType, PayloadType DEF Segment
    <2>2. /\ p.rxQueue \in [0 .. BufferSize - 1 -> Byte]
          /\ p.rxLen \in Wnd
      BY <1>1 DEF Pcb
    <2>3. /\ CopyAt(p.rxQueue, p.rxLen, m.data) \in [0 .. BufferSize - 1 -> Byte]
          /\ Add16(p.rxLen, Len(m.data)) \in Wnd
      BY <2>1, <2>2, QueueType, SixteenType
    <2>4. q(iss) \in Pcb
      BY <1>1, <2>1, <2>3 DEF Pcb, State
    <2>5. Same(p, q(iss))
      BY <1>1 DEF Same, Pcb
    <2> HIDE DEF q
    <2> QED
      BY <1>1, <2>4, <2>5, SameKeeps DEF CallsOK
  <1> HIDE DEF q
  <1>4. CASE \E iss \in ISS : TxHelperTCP(h, q(iss), {"SYN", "ACK"})
    BY <1>3, <1>4, TxHelperTCPKeeps DEF Flag
  <1> QED
    BY <1>1, <1>2, <1>4, SetKeeps, DiscardKeeps

\* A segment in SYN-SENT.
LEMMA ArriveSynSentKeeps ==
    ASSUME TypeOK, CallsInv, NEW h \in Host, NEW m \in Segment, ArriveSynSent(h, m)
    PROVE  CallsInv'
  <1> DEFINE p == pcb[h]
             acceptable == "ACK" \in m.flag /\ p.una <= m.ack /\ m.ack <= p.nxt
             q == SynSentSyn(p, m, acceptable)
             est == [q EXCEPT !.state = "ESTABLISHED", !.wnd = m.wnd,
                              !.wl1 = m.seq, !.wl2 = m.ack]
             rcv == [q EXCEPT !.state = "SYN-RECEIVED"]
  <1>1. p \in Pcb /\ CallsOK(p)
    BY DEF TypeOK, CallsInv
  <1>2. \/ UNCHANGED pcb \/ Set(h, p) \/ Set(h, Aborted(p))
        \/ TxHelperTCP(h, signalOpen(est), {"ACK"})
        \/ TxHelperTCP(h, rcv, {"SYN", "ACK"})
    BY DEF ArriveSynSent, TxHandler, Discard
  <1> HIDE DEF p
  <1>3. q \in Pcb /\ CallsOK(q)
    BY <1>1, SynSentSynType, SynSentSynKeeps
  <1>4. m.seq \in SeqNum /\ m.ack \in SeqNum /\ m.wnd \in Wnd
    BY DEF Segment
  <1> HIDE DEF q
  <1>5. est \in Pcb /\ rcv \in Pcb /\ Same(q, est) /\ Same(q, rcv)
    BY <1>3, <1>4 DEF Pcb, State, Same
  <1> HIDE DEF est, rcv
  <1>6. CallsOK(est) /\ CallsOK(rcv)
    BY <1>3, <1>5, SameKeeps DEF CallsOK
  <1>7. signalOpen(est) \in Pcb /\ CallsOK(signalOpen(est))
    BY <1>5, <1>6, signalOpenType, signalOpenKeeps DEF CallsOK
  <1>8. CASE TxHelperTCP(h, signalOpen(est), {"ACK"})
    BY <1>7, <1>8, TxHelperTCPKeeps DEF Flag
  <1>9. CASE TxHelperTCP(h, rcv, {"SYN", "ACK"})
    BY <1>5, <1>6, <1>9, TxHelperTCPKeeps DEF Flag
  <1>10. CallsOK(Aborted(p))
    BY <1>1, signalErrKeeps DEF CallsOK
  <1> QED
    BY <1>1, <1>2, <1>8, <1>9, <1>10, SetKeeps, DiscardKeeps

\* A segment refused, or one that resets the connection.
LEMMA ArriveRefusedKeeps ==
    ASSUME TypeOK, CallsInv, NEW h \in Host, NEW m \in Segment, ArriveRefused(h, m)
    PROVE  CallsInv'
  <1> DEFINE p == pcb[h]
  <1>1. p \in Pcb /\ CallsOK(p) /\ Aborted(p) \in Pcb
    BY signalErrType DEF TypeOK, CallsInv
  <1>2. \/ UNCHANGED pcb \/ Set(h, Aborted(p))
        \/ TxHelperTCP(h, p, {"ACK"})
        \/ TxHelperTCP(h, Aborted(p), {"RST"})
    BY DEF ArriveRefused, Discard
  <1> HIDE DEF p
  <1>3. CallsOK(Aborted(p))
    BY <1>1, signalErrKeeps DEF CallsOK
  <1>4. CASE TxHelperTCP(h, p, {"ACK"})
    BY <1>1, <1>4, TxHelperTCPKeeps DEF Flag
  <1>5. CASE TxHelperTCP(h, Aborted(p), {"RST"})
    BY <1>1, <1>3, <1>5, TxHelperTCPKeeps DEF Flag
  <1> QED
    BY <1>2, <1>3, <1>4, <1>5, SetKeeps, DiscardKeeps

\* A segment processed: its ACK, then its text or its FIN.
LEMMA ArriveAckKeeps ==
    ASSUME TypeOK, CallsInv, NEW h \in Host, NEW m \in Segment, ArriveAck(h, m)
    PROVE  CallsInv'
  <1> DEFINE p == pcb[h]
             e == Established(p)
             q == ProcessAck(e, m)
  <1>1. p \in Pcb /\ CallsOK(p)
    BY DEF TypeOK, CallsInv
  <1>2. \/ Set(h, p) \/ Set(h, q)
        \/ TxHelperTCP(h, p, {"ACK"})
        \/ TxHelperTCP(h, ProcessText(q, m), {"ACK"})
        \/ TxHelperTCP(h, ProcessFin(q, m), {"ACK"})
    BY DEF ArriveAck, TxHandler
  <1> HIDE DEF p
  <1>3. e \in Pcb /\ CallsOK(e)
    BY <1>1, EstablishedType, EstablishedKeeps
  <1> HIDE DEF e
  <1>4. q \in Pcb /\ CallsOK(q)
    BY <1>3, ProcessAckType, ProcessAckKeeps
  <1> HIDE DEF q
  <1>5. /\ ProcessText(q, m) \in Pcb /\ CallsOK(ProcessText(q, m))
        /\ ProcessFin(q, m) \in Pcb /\ CallsOK(ProcessFin(q, m))
    BY <1>4, ProcessTextType, ProcessFinType, ProcessTextKeeps, ProcessFinKeeps
  <1>6. CASE TxHelperTCP(h, p, {"ACK"})
    BY <1>1, <1>6, TxHelperTCPKeeps DEF Flag
  <1>7. CASE TxHelperTCP(h, ProcessText(q, m), {"ACK"})
    BY <1>5, <1>7, TxHelperTCPKeeps DEF Flag
  <1>8. CASE TxHelperTCP(h, ProcessFin(q, m), {"ACK"})
    BY <1>5, <1>8, TxHelperTCPKeeps DEF Flag
  <1> QED
    BY <1>1, <1>2, <1>4, <1>6, <1>7, <1>8, SetKeeps

\* A segment in the last two states.
LEMMA ArriveLastKeeps ==
    ASSUME TypeOK, CallsInv, NEW h \in Host, NEW m \in Segment, ArriveLast(h, m)
    PROVE  CallsInv'
  <1>1. pcb[h] \in Pcb /\ CallsOK(pcb[h])
    BY DEF TypeOK, CallsInv
  <1>2. CallsOK(Aborted(pcb[h]))
    BY <1>1, signalErrKeeps DEF CallsOK
  <1>3. UNCHANGED pcb \/ Set(h, Aborted(pcb[h]))
    BY DEF ArriveLast, Discard
  <1> QED
    BY <1>2, <1>3, SetKeeps, DiscardKeeps
-----------------------------------------------------------------------------
(***************************************************************************)
(* CallsInv is inductive, and implies the three properties.                *)
(***************************************************************************)

\* A fresh pcb has no calls.
LEMMA CallsInit == Init => CallsInv
  <1> SUFFICES ASSUME Init, NEW h \in Host PROVE CallsOK(pcb[h])
    BY DEF CallsInv
  <1>1. pcb[h] = InitPcb
    BY DEF Init
  <1>2. /\ InitPcb.retxQueue = {} /\ InitPcb.rcvCmd.call = NoCall
        /\ \A c \in Call : InitPcb.call[c] = "idle" /\ InitPcb.errCh[c] = <<>>
    BY DEF InitPcb, NoRcv
  <1>3. Held(InitPcb) = {} /\ Len(<<>>) <= 1
    BY <1>2 DEF Held, Callers
  <1> QED
    BY <1>1, <1>2, <1>3
    DEF CallsOK, CallsBut, HeldWait, Apart, IdleSilent, Once, NotLost

\* No step of any host loses a call or answers it twice.
LEMMA CallsStep == TypeOK /\ CallsInv /\ [Next]_vars => CallsInv'
  <1> SUFFICES ASSUME TypeOK, CallsInv, [Next]_vars PROVE CallsInv'
    OBVIOUS
  <1>1. CASE UNCHANGED vars
    BY <1>1, DiscardKeeps DEF vars
  <1>2. ASSUME NEW h \in Host, User(h) PROVE CallsInv'
    <2>1. ASSUME NEW d \in SendData, NEW c \in Call, Send(h, c, d) PROVE CallsInv'
      BY <2>1, SendKeeps
    <2>2. ASSUME NEW n \in RecvSize, NEW c \in Call, Receive(h, c, n) PROVE CallsInv'
      BY <2>2, ReceiveKeeps
    <2>3. ASSUME NEW c \in Call, Close(h, c) PROVE CallsInv'
      BY <2>3, CloseKeeps
    <2>4. CASE Abort(h)
      BY <2>4, AbortKeeps
    <2> QED
      BY <1>2, <2>1, <2>2, <2>3, <2>4, OpenKeeps DEF User
  <1>3. ASSUME NEW h \in Host, NEW m \in Arriving, segmentArrives(h, m)
        PROVE  CallsInv'
    <2>1. m \in Segment
      BY ArrivingAssumption
    <2> QED
      BY <1>3, <2>1, ArriveClosedKeeps, ArriveListenKeeps, ArriveSynSentKeeps,
         ArriveRefusedKeeps, ArriveAckKeeps, ArriveLastKeeps DEF segmentArrives
  <1>4. ASSUME NEW h \in Host, Timer(h) PROVE CallsInv'
    BY <1>4, TimerKeeps
  <1> QED
    BY <1>1, <1>2, <1>3, <1>4 DEF Next

\* The inductive invariant holds in every reachable state.
LEMMA CallsAlways == Spec => []CallsInv
  <1>1. TypeOK /\ CallsInv /\ [Next]_vars => CallsInv'
    BY CallsStep
  <1> QED
    BY <1>1, CallsInit, TypeCorrect, PTL DEF Spec

\* Whatever happens to a connection, every call the user made (but an empty
\* SEND) is answered or can still be: pcb.go and protocol.go drop none.
THEOREM NoCallIsLost == Spec => []NoLostCall
  <1>1. CallsInv => NoLostCall
    BY CallAssumption DEF CallsInv, CallsOK, CallsBut, NotLost, NoLostCall
  <1> QED
    BY <1>1, CallsAlways, PTL

\* No channel a user waits on is sent to twice, but for the SEND that goes on
\* after its "insufficient resources".
THEOREM CallsAnsweredOnce == Spec => []OneAnswer
  <1>1. CallsInv => OneAnswer
    BY DEF CallsInv, CallsOK, CallsBut, Once, OneAnswer
  <1> QED
    BY <1>1, CallsAlways, PTL

\* The queue and the pending RECEIVE never share a channel and never keep one
\* that has been answered.
THEOREM CallsHeldOnce == Spec => []HeldOnce
  <1>1. CallsInv => HeldOnce
    BY DEF CallsInv, CallsOK, CallsBut, HeldWait, Waiting, Apart, HeldOnce
  <1> QED
    BY <1>1, CallsAlways, PTL
=============================================================================
