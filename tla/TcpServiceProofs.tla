-------------------------- MODULE TcpServiceProofs --------------------------
(***************************************************************************)
(* Tcp implements TcpService: whatever segments arrive, in whatever order  *)
(* calls, segments and ticks come, a connection goes through its phases in *)
(* order, calls go from pending to answered only, and a connection that    *)
(* ends leaves nobody pending, an Abort in its last phase excepted.        *)
(*                                                                         *)
(* Each step replaces one pcb p by another, q.  It is an Event of the      *)
(* service if the calls of p are Eased and its state Moved, a Request if   *)
(* that holds but for the one call that was Asked.  CallsOK is needed to   *)
(* know that an idle call is neither held nor answered, and that what is   *)
(* answered is let go.                                                     *)
(***************************************************************************)
EXTENDS TcpCallProofs

\* The state of q is one that may follow the state of p, and an ended
\* connection holds no call.
Moved(p, q) ==
    /\ \/ PhaseOf(q.state) = PhaseOf(p.state)
       \/ PhaseOf(q.state) \in Service!Later(PhaseOf(p.state))
    /\ q.state = "CLOSED" /\ p.state # "CLOSED" => Held(q) = {}

\* From p to q call c was made.
Asked(p, q, c) ==
    /\ q.call[c] # "idle"
    /\ \A d \in Call \ {c} : EasedAt(p, q, d)

\* The mapping gives phases and fates.
LEMMA MapType ==
    ASSUME NEW p \in Pcb
    PROVE  /\ PhaseOf(p.state) \in Service!Phase
           /\ PhaseOf(p.state) = "closed" <=> p.state = "CLOSED"
           /\ \A c \in Call : StatusOf(p, c) \in Service!Status
           /\ \A c \in Call : StatusOf(p, c) = "pending" <=> c \in Held(p)
  <1>1. p.state \in State
    BY DEF Pcb
  <1>2. /\ PhaseOf(p.state) \in Service!Phase
        /\ PhaseOf(p.state) = "closed" <=> p.state = "CLOSED"
    BY <1>1 DEF PhaseOf, State, Service!Phase
  <1> QED
    BY <1>2 DEF StatusOf, Service!Status

\* The fate of a call that is eased changes at most from pending to answered.
LEMMA EasedAnswers ==
    ASSUME NEW p, NEW q, NEW d, EasedAt(p, q, d)
    PROVE  \/ StatusOf(q, d) = StatusOf(p, d)
           \/ StatusOf(p, d) = "pending" /\ StatusOf(q, d) = "answered"
  BY DEF EasedAt, StatusOf

\* What the service sees of a step of one host.
LEMMA SetIsSeen ==
    ASSUME TypeOK, NEW h \in Host, NEW q \in Pcb, Set(h, q)
    PROVE  /\ pcb[h] \in Pcb /\ pcb'[h] = q
           /\ \A g \in Host \ {h} : pcb'[g] = pcb[g]
           /\ \A g \in Host : pcb'[g] \in Pcb
  BY DEF TypeOK, Set

\* Steps of the service, in the terms of Tcp.
LEMMA StepIsServed ==
    ASSUME TypeOK, NEW h \in Host, NEW q \in Pcb, Set(h, q), Moved(pcb[h], q)
    PROVE  /\ Service!Others(h)
           /\ Service!Moving(h)
           /\ [g \in Host |-> PhaseOf(pcb[g].state)]' \in [Host -> Service!Phase]
           /\ [g \in Host |-> [c \in Call |-> StatusOf(pcb[g], c)]]'
                    \in [Host -> [Call -> Service!Status]]
  <1>1. /\ pcb[h] \in Pcb /\ pcb'[h] = q
        /\ \A g \in Host \ {h} : pcb'[g] = pcb[g]
        /\ \A g \in Host : pcb'[g] \in Pcb
    BY SetIsSeen
  <1>2. Service!Others(h)
    BY <1>1 DEF Service!Others
  <1>3. Service!Moving(h)
    <2>1. /\ PhaseOf(q.state) = "closed" <=> q.state = "CLOSED"
          /\ PhaseOf(pcb[h].state) = "closed" <=> pcb[h].state = "CLOSED"
          /\ \A c \in Call : StatusOf(q, c) = "pending" <=> c \in Held(q)
      BY <1>1, MapType
    <2> QED
      BY <1>1, <2>1 DEF Service!Moving, Moved
  <1>4. \A g \in Host : /\ PhaseOf(pcb'[g].state) \in Service!Phase
                        /\ \A c \in Call : StatusOf(pcb'[g], c) \in Service!Status
    BY <1>1, MapType
  <1> QED
    BY <1>2, <1>3, <1>4

\* A step that eases the calls is an event.
LEMMA EventIsServed ==
    ASSUME TypeOK, NEW h \in Host, NEW q \in Pcb, Set(h, q),
           Eased(pcb[h], q), Moved(pcb[h], q)
    PROVE  Service!SNext
  <1>1. Service!Answering(h, Call)
    BY SetIsSeen, EasedAnswers DEF Service!Answering, Eased
  <1> QED
    BY <1>1, StepIsServed DEF Service!SNext, Service!Event

\* A step in which an idle call is made is a request.
LEMMA RequestIsServed ==
    ASSUME TypeOK, CallsInv, NEW h \in Host, NEW c \in Call, NEW q \in Pcb,
           Set(h, q), Idle(h, c), Asked(pcb[h], q, c), Moved(pcb[h], q)
    PROVE  Service!SNext
  <1>1. StatusOf(pcb[h], c) = "none"
    BY DEF CallsInv, CallsOK, CallsBut, IdleSilent, HeldWait, Waiting, Idle, StatusOf
  <1>2. StatusOf(q, c) # "none"
    BY DEF Asked, StatusOf
  <1>3. Service!Answering(h, Call \ {c})
    BY SetIsSeen, EasedAnswers DEF Service!Answering, Asked
  <1>4. Service!Request(h, c)
    BY <1>1, <1>2, <1>3, SetIsSeen, StepIsServed DEF Service!Request
  <1> QED
    BY <1>4, StepIsServed DEF Service!SNext

\* Nothing happens.
LEMMA DiscardIsSilent == ASSUME UNCHANGED pcb PROVE UNCHANGED Service!svars
  BY DEF Service!svars
-----------------------------------------------------------------------------
(***************************************************************************)
(* States and phases.                                                      *)
(***************************************************************************)

\* PhaseOf, state by state.
LEMMA Phases ==
    /\ PhaseOf("CLOSED") = "closed" /\ PhaseOf("LISTEN") = "listening"
    /\ \A s \in {"SYN-SENT", "SYN-RECEIVED"} : PhaseOf(s) = "opening"
    /\ PhaseOf("ESTABLISHED") = "open"
    /\ \A s \in {"FIN-WAIT-1", "FIN-WAIT-2", "CLOSE-WAIT"} : PhaseOf(s) = "closing"
    /\ \A s \in {"CLOSING", "LAST-ACK", "TIME-WAIT"} : PhaseOf(s) = "last"
  BY DEF PhaseOf

\* The phases that follow, phase by phase.
LEMMA Laters ==
    /\ Service!Later("closed") = {"listening", "opening"}
    /\ Service!Later("listening") = {"opening", "closed"}
    /\ Service!Later("opening") = {"open", "closing", "closed"}
    /\ Service!Later("open") = {"closing", "closed"}
    /\ Service!Later("closing") = {"last", "closed"}
    /\ Service!Later("last") = {"closed"}
  BY DEF Service!Later

\* Every phase but the first may end.
LEMMA AnyMayEnd ==
    \A s \in State : \/ PhaseOf("CLOSED") = PhaseOf(s)
                     \/ PhaseOf("CLOSED") \in Service!Later(PhaseOf(s))
  BY Phases, Laters DEF State

\* Answering and queueing leave the state alone; Aborted ends it.
LEMMA HelperStates ==
    ASSUME NEW p \in Pcb
    PROVE  /\ \A C : \A r \in Answer : Notify(p, C, r).state = p.state
           /\ queueAck(p).state = p.state
           /\ signalOpen(p).state = p.state
           /\ signalReceive(p).state = p.state
           /\ Aborted(p).state = "CLOSED"
           /\ \A seq, flag, data, t, c :
                  queueAdd(p, seq, flag, data, t, c).state = p.state
  <1>1. ASSUME NEW C, NEW r \in Answer
        PROVE  Notify(p, C, r) \in Pcb /\ Notify(p, C, r).state = p.state
    <2>1. Notify(p, C, r) \in Pcb
      BY NotifyType
    <2> QED
      BY <2>1 DEF Notify, Pcb
  <1>2. queueAck(p).state = p.state
    <2> DEFINE n == Notify(p, Callers(Acked(p)), "ok")
    <2>1. n \in Pcb /\ n.state = p.state
      BY <1>1 DEF Answer
    <2> HIDE DEF n
    <2> QED
      BY <2>1 DEF queueAck, Pcb, n
  <1>3. signalOpen(p).state = p.state
    <2> DEFINE E == {e \in p.retxQueue : e.trigger = "open"}
               n == Notify(p, Callers(E), "ok")
    <2>1. n \in Pcb /\ n.state = p.state
      BY <1>1 DEF Answer
    <2>2. signalOpen(p) = [n EXCEPT !.retxQueue = @ \ E]
      BY DEF signalOpen
    <2> HIDE DEF n, E
    <2> QED
      BY <2>1, <2>2 DEF Pcb
  <1>4. signalReceive(p).state = p.state
    <2> DEFINE n == Notify(p, {p.rcvCmd.call}, "ok")
               dlen == IF p.rcvCmd.size < p.rxLen THEN p.rcvCmd.size ELSE p.rxLen
               got == [i \in 1 .. dlen |-> p.rxQueue[i - 1]]
               done == [n EXCEPT !.rcvCmd = NoRcv, !.read = @ \o got]
    <2>1. n \in Pcb /\ n.state = p.state
      BY <1>1 DEF Answer
    <2>2. signalReceive(p) =
            IF p.rcvCmd.call = NoCall \/ p.rxLen = 0 THEN p
            ELSE IF dlen = p.rxLen
            THEN [done EXCEPT !.rxLen = 0, !.rcvWnd = BufferSize]
            ELSE [done EXCEPT !.rxQueue = ShiftDown(@, p.rxLen - dlen),
                              !.rxLen = @ - dlen,
                              !.rcvWnd = Add16(@, dlen)]
      BY DEF signalReceive
    <2> HIDE DEF n, dlen, got
    <2>3. done.state = p.state /\ "state" \in DOMAIN done
      BY <2>1 DEF Pcb
    <2> HIDE DEF done
    <2> QED
      BY <2>2, <2>3
  <1>5. Aborted(p).state = "CLOSED"
    <2>1. signalErr(p) \in Pcb
      BY signalErrType
    <2> QED
      BY <2>1 DEF Aborted, Pcb
  <1>6. \A seq, flag, data, t, c : queueAdd(p, seq, flag, data, t, c).state = p.state
    BY DEF queueAdd, Pcb
  <1> QED
    BY <1>1, <1>2, <1>3, <1>4, <1>5, <1>6

\* The end of a connection eases everyone and may come in any state.
LEMMA AbortedMoves ==
    ASSUME NEW p \in Pcb, CallsOK(p)
    PROVE  Aborted(p) \in Pcb /\ Eased(p, Aborted(p)) /\ Moved(p, Aborted(p))
  <1>1. /\ Aborted(p) \in Pcb /\ Aborted(p).state = "CLOSED"
        /\ Eased(p, Aborted(p)) /\ Held(Aborted(p)) = {}
    BY signalErrType, signalErrKeeps, HelperStates DEF CallsOK
  <1>2. p.state \in State
    BY DEF Pcb
  <1> QED
    BY <1>1, <1>2, AnyMayEnd DEF Moved

\* A pcb that does not change does not matter.
LEMMA StaysPut == \A p : Eased(p, p) /\ Moved(p, p)
  BY DEF Eased, EasedAt, Moved
-----------------------------------------------------------------------------
(***************************************************************************)
(* What segmentArrives makes of the state.                                 *)
(***************************************************************************)

\* The ACK of our FIN moves the state.
LEMMA AckMoves ==
    ASSUME NEW p \in Pcb, NEW m \in Segment
    PROVE  \/ ProcessAck(p, m).state = p.state
           \/ p.state = "FIN-WAIT-1" /\ ProcessAck(p, m).state = "FIN-WAIT-2"
           \/ p.state = "CLOSING" /\ ProcessAck(p, m).state = "TIME-WAIT"
  <1> DEFINE new == p.una < m.ack /\ m.ack <= p.nxt
             o == [p EXCEPT !.una = m.ack]
             q == IF new THEN queueAck(o) ELSE p
             newWnd == new /\ (p.wl1 < m.seq \/ (p.wl1 = m.seq /\ p.wl2 <= m.ack))
             r == IF newWnd
                  THEN [q EXCEPT !.wnd = m.wnd, !.wl1 = m.seq, !.wl2 = m.ack]
                  ELSE q
             s == CASE r.state = "FIN-WAIT-1" -> "FIN-WAIT-2"
                    [] r.state = "CLOSING" -> "TIME-WAIT"
                    [] OTHER -> r.state
  <1>1. o \in Pcb /\ o.state = p.state
    BY DEF Pcb, Segment
  <1>2. q \in Pcb /\ q.state = p.state
    <2> HIDE DEF o
    <2>1. queueAck(o) \in Pcb /\ queueAck(o).state = p.state
      BY <1>1, queueAckType, HelperStates
    <2> QED
      BY <2>1
  <1>3. ProcessAck(p, m) = IF m.ack # p.nxt THEN r ELSE [r EXCEPT !.state = s]
    BY DEF ProcessAck
  <1> HIDE DEF q, newWnd
  <1>4. r.state = p.state /\ "state" \in DOMAIN r
    BY <1>2 DEF Pcb
  <1> HIDE DEF r
  <1>5. \/ s = r.state
        \/ r.state = "FIN-WAIT-1" /\ s = "FIN-WAIT-2"
        \/ r.state = "CLOSING" /\ s = "TIME-WAIT"
    OBVIOUS
  <1> HIDE DEF s
  <1>6. ProcessAck(p, m).state = r.state \/ ProcessAck(p, m).state = s
    BY <1>3, <1>4
  <1> QED
    BY <1>4, <1>5, <1>6

\* Text leaves the state alone; a FIN moves it.
LEMMA FinMoves ==
    ASSUME NEW p \in Pcb, NEW m \in Segment
    PROVE  /\ ProcessText(p, m).state = p.state
           /\ \/ ProcessFin(p, m).state = p.state
              \/ p.state = "ESTABLISHED" /\ ProcessFin(p, m).state = "CLOSE-WAIT"
              \/ p.state = "FIN-WAIT-1" /\ ProcessFin(p, m).state = "CLOSING"
              \/ p.state = "FIN-WAIT-2" /\ ProcessFin(p, m).state = "TIME-WAIT"
  <1>1. ProcessText(p, m).state = p.state
    <2> DEFINE q == [p EXCEPT !.rxQueue = CopyAt(@, p.rxLen, m.data),
                              !.rxLen = Add16(@, Len(m.data)),
                              !.rcvNxt = Plus(m.seq, SegLen(m)),
                              !.rcvWnd = Sub16(@, Len(m.data))]
    <2>1. q \in Pcb
      <3>1. m.data \in Payload /\ Len(m.data) \in Wnd
        BY PayloadType DEF Segment
      <3>2. /\ p.rxQueue \in [0 .. BufferSize - 1 -> Byte]
            /\ p.rxLen \in Wnd /\ p.rcvWnd \in Wnd
        BY DEF Pcb
      <3>3. /\ CopyAt(p.rxQueue, p.rxLen, m.data) \in [0 .. BufferSize - 1 -> Byte]
            /\ Add16(p.rxLen, Len(m.data)) \in Wnd
            /\ Sub16(p.rcvWnd, Len(m.data)) \in Wnd
            /\ Plus(m.seq, SegLen(m)) \in SeqNum
        BY <3>1, <3>2, QueueType, SixteenType, PlusType, SegLenType DEF Segment
      <3> QED
        BY <3>3 DEF Pcb
    <2>2. q.state = p.state
      BY DEF Pcb
    <2> HIDE DEF q
    <2> QED
      BY <2>1, <2>2, HelperStates DEF ProcessText, q
  <1>2. \/ ProcessFin(p, m).state = p.state
        \/ p.state = "ESTABLISHED" /\ ProcessFin(p, m).state = "CLOSE-WAIT"
        \/ p.state = "FIN-WAIT-1" /\ ProcessFin(p, m).state = "CLOSING"
        \/ p.state = "FIN-WAIT-2" /\ ProcessFin(p, m).state = "TIME-WAIT"
    <2> DEFINE q == signalReceive(p)
               s == CASE q.state = "ESTABLISHED" -> "CLOSE-WAIT"
                      [] q.state = "FIN-WAIT-1" -> "CLOSING"
                      [] q.state = "FIN-WAIT-2" -> "TIME-WAIT"
                      [] OTHER -> q.state
    <2>1. ProcessFin(p, m) = [q EXCEPT !.rcvNxt = Plus(m.seq, 1), !.state = s]
      BY DEF ProcessFin
    <2>2. q \in Pcb /\ q.state = p.state
      BY signalReceiveType, HelperStates
    <2> HIDE DEF q
    <2>3. \/ s = q.state
          \/ q.state = "ESTABLISHED" /\ s = "CLOSE-WAIT"
          \/ q.state = "FIN-WAIT-1" /\ s = "CLOSING"
          \/ q.state = "FIN-WAIT-2" /\ s = "TIME-WAIT"
      OBVIOUS
    <2> HIDE DEF s
    <2>4. ProcessFin(p, m).state = s
      BY <2>1, <2>2 DEF Pcb
    <2> QED
      BY <2>2, <2>3, <2>4
  <1> QED
    BY <1>1, <1>2

\* ACK and FIN together: the state moves on by at most one phase too many for
\* each of them, and nothing ends.
LEMMA ArriveMoves ==
    ASSUME NEW p \in Pcb, NEW m \in Segment, CallsOK(p),
           p.state \in Synchronized \ {"LAST-ACK", "TIME-WAIT"}
    PROVE  LET q == ProcessAck(Established(p), m) IN
           /\ \A r \in {q, ProcessText(q, m), ProcessFin(q, m)} :
                  r \in Pcb /\ Eased(p, r) /\ Moved(p, r)
  <1> DEFINE e == Established(p)
             q == ProcessAck(e, m)
             x == ProcessText(q, m)
             f == ProcessFin(q, m)
  <1>1. e \in Pcb /\ CallsOK(e) /\ Eased(p, e)
    BY EstablishedType, EstablishedKeeps
  <1>2. \/ p.state = "SYN-RECEIVED" /\ e.state = "ESTABLISHED"
        \/ p.state # "SYN-RECEIVED" /\ e.state = p.state
    BY DEF Established, Pcb
  <1> HIDE DEF e
  <1>3. q \in Pcb /\ CallsOK(q) /\ Eased(p, q)
    BY <1>1, ProcessAckType, ProcessAckKeeps, EasedTwice
  <1>4. \/ q.state = e.state
        \/ e.state = "FIN-WAIT-1" /\ q.state = "FIN-WAIT-2"
        \/ e.state = "CLOSING" /\ q.state = "TIME-WAIT"
    BY <1>1, AckMoves
  <1> HIDE DEF q
  <1>5. x \in Pcb /\ f \in Pcb /\ Eased(p, x) /\ Eased(p, f)
    BY <1>3, ProcessTextType, ProcessFinType, ProcessTextKeeps, ProcessFinKeeps,
       EasedTwice
  <1>6. /\ x.state = q.state
        /\ \/ f.state = q.state
           \/ q.state = "ESTABLISHED" /\ f.state = "CLOSE-WAIT"
           \/ q.state = "FIN-WAIT-1" /\ f.state = "CLOSING"
           \/ q.state = "FIN-WAIT-2" /\ f.state = "TIME-WAIT"
    BY <1>3, FinMoves
  <1> HIDE DEF x, f
  <1>7. ASSUME NEW r, r.state \in {q.state, f.state} PROVE Moved(p, r)
    BY <1>2, <1>4, <1>6, <1>7, Phases, Laters DEF Moved, Synchronized
  <1> QED
    BY <1>3, <1>5, <1>6, <1>7 DEF e, q, x, f
-----------------------------------------------------------------------------
(***************************************************************************)
(* A call being made, and the ways a step ends.                            *)
(***************************************************************************)

\* Making a call is no business of the others.
LEMMA IssueAsks ==
    ASSUME TypeOK, NEW h \in Host, NEW c \in Call, NEW k \in Kind, k # "idle"
    PROVE  /\ Asked(pcb[h], Issue(h, c, k), c)
           /\ Issue(h, c, k).state = pcb[h].state
           /\ Issue(h, c, k).rcvCmd = pcb[h].rcvCmd
  <1> DEFINE p == pcb[h]
             q == Issue(h, c, k)
  <1>1. /\ \A d \in Call : q.call[d] = IF d = c THEN k ELSE p.call[d]
        /\ q.errCh = p.errCh /\ q.retxQueue = p.retxQueue
        /\ q.rcvCmd = p.rcvCmd /\ q.state = p.state
    BY DEF Issue, Pcb, TypeOK
  <1> HIDE DEF p, q
  <1>2. Held(q) = Held(p)
    BY <1>1 DEF Held
  <1> QED
    BY <1>1, <1>2 DEF Asked, EasedAt, p, q

\* What eases everyone after a call was made does not unmake it.
LEMMA AskedThenEased ==
    ASSUME NEW p, NEW q, NEW r, NEW c \in Call, Asked(p, q, c), Eased(q, r)
    PROVE  Asked(p, r, c)
  BY DEF Asked, Eased, EasedAt

\* Nor does its answer,
LEMMA AskedThenTold ==
    ASSUME NEW p, NEW q \in Pcb, NEW c \in Call, NEW a \in Answer, Asked(p, q, c)
    PROVE  Asked(p, Notify(q, {c}, a), c)
  <1> DEFINE r == Notify(q, {c}, a)
  <1>1. Told(q, r, {c}, a) /\ r.retxQueue = q.retxQueue /\ r.rcvCmd = q.rcvCmd
    BY NotifyTells
  <1> HIDE DEF r
  <1>2. Held(r) = Held(q)
    BY <1>1 DEF Held
  <1> QED
    BY <1>1, <1>2 DEF Asked, EasedAt, Told, r

\* or its place in the queue.
LEMMA AskedThenQueued ==
    ASSUME NEW p, NEW q \in Pcb, NEW c \in Call \cup {NoCall}, NEW seq, NEW flag,
           NEW data, NEW t
    PROVE  LET r == queueAdd(q, seq, flag, data, t, c) IN
           /\ c \in Call /\ Asked(p, q, c) => Asked(p, r, c)
           /\ c = NoCall => Eased(q, r) /\ Held(r) = Held(q)
  <1> DEFINE e == [seq |-> seq, flag |-> flag, data |-> data,
                   trigger |-> t, call |-> c]
             r == queueAdd(q, seq, flag, data, t, c)
  <1>1. /\ r.call = q.call /\ r.errCh = q.errCh /\ r.rcvCmd = q.rcvCmd
        /\ r.retxQueue = q.retxQueue \/ r.retxQueue = q.retxQueue \cup {e}
    BY DEF queueAdd, Pcb
  <1>2. e.call = c
    OBVIOUS
  <1> HIDE DEF r, e
  <1>3. ASSUME NEW d, d # c \/ c = NoCall PROVE d \in Held(r) <=> d \in Held(q)
    BY <1>1, <1>2, <1>3 DEF Held, Callers
  <1>4. c \in Call /\ Asked(p, q, c) => Asked(p, r, c)
    BY <1>1, <1>3 DEF Asked, EasedAt
  <1>5. c = NoCall => Eased(q, r) /\ Held(r) = Held(q)
    BY <1>1, <1>3 DEF Eased, EasedAt
  <1> QED
    BY <1>4, <1>5 DEF r

\* TxHelperTCP queues for nobody.
LEMMA TxHelperTCPIsServed ==
    ASSUME TypeOK, NEW h \in Host, NEW q \in Pcb, NEW flag \in SUBSET Flag,
           TxHelperTCP(h, q, flag), Eased(pcb[h], q), Moved(pcb[h], q)
    PROVE  Service!SNext
  <1> DEFINE m == SegmentOf(h, q, flag, <<>>)
             r == queueAdd(q, m.seq, flag, <<>>, "no", NoCall)
  <1>1. m.seq \in SeqNum
    BY SegmentOfType, PayloadType DEF Segment
  <1>2. r \in Pcb
    BY <1>1, queueAddType, PayloadType DEF Trigger
  <1>3. Eased(q, r) /\ Held(r) = Held(q) /\ r.state = q.state
    BY AskedThenQueued, HelperStates
  <1>4. Set(h, r) \/ Set(h, q)
    BY DEF TxHelperTCP
  <1> HIDE DEF m, r
  <1>5. Eased(pcb[h], r) /\ Moved(pcb[h], r)
    BY <1>3, EasedTwice DEF Moved
  <1> QED
    BY <1>2, <1>4, <1>5, EventIsServed

\* A user call that is answered at once.
LEMMA ReplyIsServed ==
    ASSUME TypeOK, CallsInv, NEW h \in Host, NEW q \in Pcb, NEW c \in Call,
           NEW a \in Answer, Idle(h, c), Asked(pcb[h], q, c),
           Moved(pcb[h], q), Set(h, Notify(q, {c}, a))
    PROVE  Service!SNext
  <1> DEFINE r == Notify(q, {c}, a)
  <1>1. r \in Pcb /\ r.state = q.state /\ Asked(pcb[h], r, c)
    BY NotifyType, HelperStates, AskedThenTold
  <1>2. Held(r) = Held(q)
    BY NotifyTells DEF Held
  <1> HIDE DEF r
  <1>3. Moved(pcb[h], r)
    BY <1>1, <1>2 DEF Moved
  <1> QED
    BY <1>1, <1>3, RequestIsServed DEF r

\* A user call that sends is queued with its segment, or answered.
LEMMA TxUserIsServed ==
    ASSUME TypeOK, CallsInv, NEW h \in Host, NEW q \in Pcb, NEW c \in Call,
           NEW t \in Trigger, NEW flag \in SUBSET Flag, NEW d \in Payload,
           NEW s \in State, NEW n \in SeqNum,
           Idle(h, c), Asked(pcb[h], q, c), q.state = pcb[h].state,
           s # "CLOSED",
           \/ PhaseOf(s) = PhaseOf(q.state)
           \/ PhaseOf(s) \in Service!Later(PhaseOf(q.state)),
           TxUser(h, q, c, t, flag, d, s, n)
    PROVE  Service!SNext
  <1> DEFINE m == SegmentOf(h, q, flag, d)
             r == queueAdd(q, m.seq, flag, d, t, c)
             sent == [r EXCEPT !.state = s, !.nxt = Plus(@, n)]
  <1>1. m.seq \in SeqNum
    BY SegmentOfType DEF Segment
  <1>2. r \in Pcb
    BY <1>1, queueAddType
  <1>3. Asked(pcb[h], r, c)
    BY AskedThenQueued
  <1>4. Set(h, sent) \/ Set(h, Notify(q, {c}, "err"))
    BY DEF TxUser
  <1> HIDE DEF m, r
  <1>5. Same(r, sent) /\ sent.state = s /\ sent \in Pcb
    <2>1. Plus(r.nxt, n) \in SeqNum
      BY <1>2, PlusType DEF Pcb
    <2> QED
      BY <1>2, <2>1 DEF Same, Pcb
  <1> HIDE DEF sent
  <1>6. Asked(pcb[h], sent, c) /\ Moved(pcb[h], sent)
    BY <1>3, <1>5, SameEases, AskedThenEased DEF Moved
  <1>7. CASE Set(h, sent)
    BY <1>5, <1>6, <1>7, RequestIsServed
  <1>8. CASE Set(h, Notify(q, {c}, "err"))
    <2>1. Moved(pcb[h], q)
      BY DEF Moved
    <2> QED
      BY <1>8, <2>1, ReplyIsServed DEF Answer
  <1> QED
    BY <1>4, <1>7, <1>8

\* A user call that is refused.
LEMMA RefuseIsServed ==
    ASSUME TypeOK, CallsInv, NEW h \in Host, NEW c \in Call, NEW k \in Kind,
           Idle(h, c), k # "idle", Refuse(h, Issue(h, c, k), c)
    PROVE  Service!SNext
  <1> DEFINE p == Issue(h, c, k)
  <1>1. p \in Pcb /\ Asked(pcb[h], p, c) /\ p.state = pcb[h].state
    BY IssueType, IssueAsks
  <1>2. Set(h, Notify(p, {c}, "err"))
    BY DEF Refuse
  <1> HIDE DEF p
  <1>3. Moved(pcb[h], p)
    BY <1>1 DEF Moved
  <1> QED
    BY <1>1, <1>2, <1>3, ReplyIsServed DEF Answer
-----------------------------------------------------------------------------
(***************************************************************************)
(* The user calls.                                                         *)
(***************************************************************************)

\* OPEN.
LEMMA OpenIsServed ==
    ASSUME TypeOK, CallsInv, NEW h \in Host, NEW c \in Call
    PROVE  /\ PassiveOpen(h, c) => Service!SNext
           /\ \A f \in Endpoint, iss \in ISS : ActiveOpen(h, c, f, iss) => Service!SNext
           /\ OpenExisting(h, c) => Service!SNext
  <1> DEFINE p == Issue(h, c, "open")
  <1>1. p \in Pcb /\ Asked(pcb[h], p, c) /\ p.state = pcb[h].state
    BY IssueType, IssueAsks DEF Kind
  <1>2. Idle(h, c) /\ Refuse(h, p, c) => Service!SNext
    BY RefuseIsServed DEF Kind
  <1> HIDE DEF p
  <1>3. ASSUME PassiveOpen(h, c) PROVE Service!SNext
    <2> DEFINE q == [p EXCEPT !.state = "LISTEN"]
    <2>1. q \in Pcb /\ Same(p, q) /\ q.state = "LISTEN"
      BY <1>1 DEF Pcb, State, Same
    <2>2. /\ Set(h, Notify(q, {c}, "ok")) /\ Idle(h, c)
          /\ p.state \in {"CLOSED", "LISTEN"}
      BY <1>3 DEF PassiveOpen, p
    <2> HIDE DEF q
    <2>3. Asked(pcb[h], q, c)
      BY <1>1, <2>1, SameEases, AskedThenEased
    <2>4. Moved(pcb[h], q)
      BY <1>1, <2>1, <2>2, Phases, Laters DEF Moved
    <2> QED
      BY <2>1, <2>2, <2>3, <2>4, ReplyIsServed DEF Answer
  <1>4. ASSUME NEW f \in Endpoint, NEW iss \in ISS, ActiveOpen(h, c, f, iss)
        PROVE  Service!SNext
    <2> DEFINE q == [p EXCEPT !.foreign = f, !.iss = iss,
                              !.una = iss, !.nxt = Plus(iss, 1)]
    <2>1. iss \in SeqNum /\ Plus(iss, 1) \in SeqNum
      BY ISSAssumption, PlusType, SmallType
    <2>2. q \in Pcb /\ Same(p, q) /\ q.state = p.state
      BY <1>1, <2>1 DEF Pcb, Same
    <2> HIDE DEF q
    <2>3. Asked(pcb[h], q, c)
      BY <1>1, <2>2, SameEases, AskedThenEased
    <2>4. Idle(h, c) /\ p.state \in {"CLOSED", "LISTEN"}
      BY <1>4 DEF ActiveOpen, p
    <2>5. PhaseOf("SYN-SENT") \in Service!Later(PhaseOf(q.state))
      BY <2>2, <2>4, Phases, Laters
    <2>6. CASE TxUser(h, q, c, "open", {"SYN"}, <<>>, "SYN-SENT", 0)
      BY <1>1, <2>2, <2>3, <2>4, <2>5, <2>6, TxUserIsServed, SmallType, PayloadType
      DEF Trigger, Flag, State
    <2> QED
      BY <1>2, <1>4, <2>4, <2>6 DEF ActiveOpen, p, q
  <1>5. ASSUME OpenExisting(h, c) PROVE Service!SNext
    BY <1>2, <1>5 DEF OpenExisting, p
  <1> QED
    BY <1>3, <1>4, <1>5

\* SEND: the text that exceeds the window has its error already.
LEMMA SendIsServed ==
    ASSUME TypeOK, CallsInv, NEW h \in Host, NEW c \in Call, NEW d \in SendData,
           Send(h, c, d)
    PROVE  Service!SNext
  <1> DEFINE k == IF d = <<>> THEN "sendEmpty" ELSE "send"
             p == Issue(h, c, k)
             n == Notify(p, {c}, "err")
             q == IF Len(d) > p.wnd THEN n ELSE p
  <1>1. k \in Kind /\ k # "idle" /\ Idle(h, c)
    BY DEF Kind, Send
  <1>2. p \in Pcb /\ Asked(pcb[h], p, c) /\ p.state = pcb[h].state
    BY <1>1, IssueType, IssueAsks
  <1>3. d \in Payload /\ Len(d) \in SeqNum
    BY DataAssumption, PayloadType, SmallType
  <1>4. CASE Refuse(h, p, c)
    BY <1>1, <1>4, RefuseIsServed
  <1> HIDE DEF p
  <1>5. n \in Pcb /\ Asked(pcb[h], n, c) /\ n.state = pcb[h].state
    BY <1>2, NotifyType, AskedThenTold, HelperStates DEF Answer
  <1> HIDE DEF n
  <1>6. q \in Pcb /\ Asked(pcb[h], q, c) /\ q.state = pcb[h].state
    BY <1>2, <1>5
  <1> HIDE DEF q
  <1>7. CASE /\ p.state \in {"ESTABLISHED", "CLOSE-WAIT"}
             /\ TxUser(h, q, c, "send", {"ACK"}, d, q.state, Len(d))
    <2>1. q.state \in State /\ q.state # "CLOSED"
      BY <1>2, <1>6, <1>7 DEF Pcb
    <2> QED
      BY <1>1, <1>3, <1>6, <1>7, <2>1, TxUserIsServed DEF Trigger, Flag
  <1> QED
    BY <1>4, <1>7 DEF Send, p, q, n

\* RECEIVE waits, or is answered with what other text there is.
LEMMA ReceiveIsServed ==
    ASSUME TypeOK, CallsInv, NEW h \in Host, NEW c \in Call, NEW n \in RecvSize,
           Receive(h, c, n)
    PROVE  Service!SNext
  <1> DEFINE p == Issue(h, c, "receive")
             w == [p EXCEPT !.rcvCmd = [call |-> c, size |-> n]]
             q == signalReceive(w)
  <1>1. /\ p \in Pcb /\ Making(p, c) /\ Asked(pcb[h], p, c)
        /\ p.state = pcb[h].state /\ Idle(h, c)
    BY IssueType, IssueMakes, IssueAsks DEF Kind, Receive
  <1>2. [call |-> c, size |-> n] \in RcvCmd /\ n \in Nat
    BY RecvAssumption DEF RcvCmd
  <1>3. \/ p.rcvCmd.call = NoCall /\ Set(h, q)
        \/ Refuse(h, p, c)
    BY DEF Receive
  <1>4. CASE Refuse(h, p, c)
    BY <1>1, <1>4, RefuseIsServed DEF Kind
  <1> HIDE DEF p
  <1>5. CASE p.rcvCmd.call = NoCall /\ Set(h, q)
    <2>1. /\ w \in Pcb /\ w.state = p.state /\ w.call = p.call
          /\ w.errCh = p.errCh /\ w.retxQueue = p.retxQueue /\ w.rcvCmd.call = c
      BY <1>1, <1>2 DEF Pcb
    <2>2. CallsOK(w)
      BY <1>1, <1>2, <1>5, PendKeeps
    <2> HIDE DEF w
    <2>3. Held(w) = Held(p) \cup {c}
      BY <1>5, <2>1, CallAssumption DEF Held
    <2>4. Asked(pcb[h], w, c)
      BY <1>1, <2>1, <2>3 DEF Asked, EasedAt
    <2>5. q \in Pcb /\ Eased(w, q) /\ q.state = pcb[h].state
      BY <1>1, <2>1, <2>2, signalReceiveType, signalReceiveKeeps, HelperStates
      DEF CallsOK
    <2> HIDE DEF q
    <2>6. Asked(pcb[h], q, c) /\ Moved(pcb[h], q)
      BY <2>4, <2>5, AskedThenEased DEF Moved
    <2> QED
      BY <1>1, <1>5, <2>5, <2>6, RequestIsServed
  <1> QED
    BY <1>3, <1>4, <1>5

\* CLOSE.
LEMMA CloseIsServed ==
    ASSUME TypeOK, CallsInv, NEW h \in Host, NEW c \in Call, Close(h, c)
    PROVE  Service!SNext
  <1> DEFINE p == Issue(h, c, "close")
  <1>1. /\ p \in Pcb /\ Making(p, c) /\ Asked(pcb[h], p, c)
        /\ p.state = pcb[h].state /\ Idle(h, c)
    BY IssueType, IssueMakes, IssueAsks DEF Kind, Close
  <1>2. CASE Refuse(h, p, c)
    BY <1>1, <1>2, RefuseIsServed DEF Kind
  <1> HIDE DEF p
  <1>3. CASE Set(h, Notify(Aborted(p), {c}, "ok"))
    <2>1. /\ Aborted(p) \in Pcb /\ Aborted(p).state = "CLOSED"
          /\ Eased(p, Aborted(p)) /\ Held(Aborted(p)) = {}
      BY <1>1, signalErrType, signalErrKeeps, HelperStates DEF Making
    <2>2. Asked(pcb[h], Aborted(p), c)
      BY <1>1, <2>1, AskedThenEased
    <2>3. Moved(pcb[h], Aborted(p))
      <3>1. pcb[h].state \in State
        BY DEF TypeOK, Pcb
      <3> QED
        BY <2>1, <3>1, AnyMayEnd DEF Moved
    <2> QED
      BY <1>1, <1>3, <2>1, <2>2, <2>3, ReplyIsServed DEF Answer
  <1>4. ASSUME NEW s \in {"FIN-WAIT-1", "LAST-ACK"},
               PhaseOf(s) \in Service!Later(PhaseOf(p.state)),
               TxUser(h, p, c, "close", {"ACK", "FIN"}, <<>>, s, 1)
        PROVE  Service!SNext
    <2>1. s \in State /\ s # "CLOSED" /\ {"ACK", "FIN"} \in SUBSET Flag
            /\ "close" \in Trigger
      BY DEF State, Flag, Trigger
    <2> QED
      BY <1>1, <1>4, <2>1, TxUserIsServed, SmallType, PayloadType
  <1>5. CASE /\ p.state \in {"SYN-RECEIVED", "ESTABLISHED"}
             /\ TxUser(h, p, c, "close", {"ACK", "FIN"}, <<>>, "FIN-WAIT-1", 1)
    BY <1>4, <1>5, Phases, Laters
  <1>6. CASE /\ p.state = "CLOSE-WAIT"
             /\ TxUser(h, p, c, "close", {"ACK", "FIN"}, <<>>, "LAST-ACK", 1)
    BY <1>4, <1>6, Phases, Laters
  <1> QED
    BY <1>2, <1>3, <1>5, <1>6 DEF Close, p

\* ABORT.
LEMMA AbortIsServed ==
    ASSUME TypeOK, CallsInv, NEW h \in Host, Abort(h)
    PROVE  Service!SNext
  <1> DEFINE p == pcb[h]
             q == [p EXCEPT !.state = "CLOSED"]
  <1>1. p \in Pcb /\ CallsOK(p)
    BY DEF TypeOK, CallsInv
  <1>2. CASE Set(h, Aborted(p))
    BY <1>1, <1>2, AbortedMoves, EventIsServed
  <1>3. CASE p.state \in {"CLOSING", "LAST-ACK", "TIME-WAIT"} /\ Set(h, q)
    <2>1. Same(p, q) /\ q.state = "CLOSED" /\ q \in Pcb
      BY <1>1 DEF Same, Pcb, State
    <2> HIDE DEF q
    <2>2. \A c \in Call : StatusOf(q, c) = StatusOf(p, c)
      BY <2>1 DEF Same, StatusOf, Held
    <2>3. /\ pcb'[h] = q /\ \A g \in Host \ {h} : pcb'[g] = pcb[g]
          /\ \A g \in Host : pcb'[g] \in Pcb
      BY <1>3, <2>1, SetIsSeen
    <2>4. Service!Drop(h)
      BY <1>3, <2>1, <2>2, <2>3, Phases DEF Service!Drop
    <2>5. Service!Others(h)
      BY <2>3 DEF Service!Others
    <2>6. \A g \in Host : /\ PhaseOf(pcb'[g].state) \in Service!Phase
                          /\ \A c \in Call : StatusOf(pcb'[g], c) \in Service!Status
      BY <2>3, MapType
    <2> QED
      BY <2>4, <2>5, <2>6 DEF Service!SNext
  <1> QED
    BY <1>2, <1>3 DEF Abort, TxHandler

\* The timer.
LEMMA TimerIsServed ==
    ASSUME TypeOK, CallsInv, NEW h \in Host, Timer(h)
    PROVE  Service!SNext
  <1> DEFINE p == pcb[h]
             q == queueAck(p)
  <1>1. p \in Pcb /\ CallsOK(p)
    BY DEF TypeOK, CallsInv
  <1>2. Set(h, Aborted(p)) \/ Set(h, Aborted(q)) \/ Set(h, q)
    BY DEF Timer, TimeWaitOver, UserTimeout, Retransmit
  <1>3. q \in Pcb /\ CallsOK(q) /\ Eased(p, q) /\ q.state = p.state
    BY <1>1, queueAckType, queueAckKeeps, HelperStates DEF CallsOK
  <1> HIDE DEF q
  <1>4. Moved(p, q)
    BY <1>3 DEF Moved
  <1>5. Aborted(q) \in Pcb /\ Eased(p, Aborted(q)) /\ Moved(p, Aborted(q))
    BY <1>3, AbortedMoves, EasedTwice DEF Moved
  <1> QED
    BY <1>1, <1>2, <1>3, <1>4, <1>5, AbortedMoves, EventIsServed
-----------------------------------------------------------------------------
(***************************************************************************)
(* Segments.                                                               *)
(***************************************************************************)

\* A segment for a pcb in CLOSED or in the last two states.
LEMMA ArriveEndsServed ==
    ASSUME TypeOK, CallsInv, NEW h \in Host, NEW m \in Segment,
           ArriveClosed(h, m) \/ ArriveLast(h, m)
    PROVE  Service!SNext \/ UNCHANGED Service!svars
  <1>1. pcb[h] \in Pcb /\ CallsOK(pcb[h])
    BY DEF TypeOK, CallsInv
  <1>2. UNCHANGED pcb \/ Set(h, pcb[h]) \/ Set(h, Aborted(pcb[h]))
    BY DEF ArriveClosed, ArriveLast, TxHandler, Discard
  <1> QED
    BY <1>1, <1>2, StaysPut, AbortedMoves, EventIsServed, DiscardIsSilent

\* A segment in LISTEN.
LEMMA ArriveListenIsServed ==
    ASSUME TypeOK, CallsInv, NEW h \in Host, NEW m \in Segment, ArriveListen(h, m)
    PROVE  Service!SNext \/ UNCHANGED Service!svars
  <1> DEFINE p == pcb[h]
             q(iss) == [p EXCEPT !.foreign = m.src,
                                 !.rcvWnd = BufferSize,
                                 !.rcvNxt = Plus(m.seq, 1),
                                 !.iss = iss, !.una = iss,
                                 !.nxt = Plus(iss, 1),
                                 !.state = "SYN-RECEIVED",
                                 !.rxQueue = CopyAt(@, p.rxLen, m.data),
                                 !.rxLen = Add16(@, Len(m.data))]
  <1>1. p \in Pcb
    BY DEF TypeOK
  <1>2. \/ UNCHANGED pcb \/ Set(h, p)
        \/ /\ p.state = "LISTEN"
           /\ \E iss \in ISS : TxHelperTCP(h, q(iss), {"SYN", "ACK"})
    BY DEF ArriveListen, TxHandler, Discard
  <1>3. ASSUME NEW iss \in ISS
        PROVE  q(iss) \in Pcb /\ Same(p, q(iss)) /\ q(iss).state = "SYN-RECEIVED"
    <2> HIDE DEF p
    <2>1. /\ iss \in SeqNum /\ Plus(iss, 1) \in SeqNum
          /\ Plus(m.seq, 1) \in SeqNum /\ BufferSize \in Wnd
          /\ m.src \in Endpoint /\ m.data \in Payload /\ Len(m.data) \in Wnd
      BY ISSAssumption, PlusType, SmallType, PayloadType DEF Segment
    <2>2. /\ p.rxQueue \in [0 .. BufferSize - 1 -> Byte]
          /\ p.rxLen \in Wnd
      BY <1>1 DEF Pcb
    <2>3. /\ CopyAt(p.rxQueue, p.rxLen, m.data) \in [0 .. BufferSize - 1 -> Byte]
          /\ Add16(p.rxLen, Len(m.data)) \in Wnd
      BY <2>1, <2>2, QueueType, SixteenType
    <2>4. q(iss) \in Pcb
      BY <1>1, <2>1, <2>3 DEF Pcb, State
    <2>5. Same(p, q(iss)) /\ q(iss).state = "SYN-RECEIVED"
      BY <1>1 DEF Same, Pcb
    <2> QED
      BY <2>4, <2>5
  <1> HIDE DEF q
  <1>4. ASSUME NEW iss \in ISS, p.state = "LISTEN",
               TxHelperTCP(h, q(iss), {"SYN", "ACK"})
        PROVE  Service!SNext
    <2>1. Eased(p, q(iss)) /\ Moved(p, q(iss))
      BY <1>3, <1>4, SameEases, Phases, Laters DEF Moved
    <2> QED
      BY <1>3, <1>4, <2>1, TxHelperTCPIsServed DEF Flag
  <1> QED
    BY <1>1, <1>2, <1>4, StaysPut, EventIsServed, DiscardIsSilent

\* A segment in SYN-SENT.
LEMMA ArriveSynSentIsServed ==
    ASSUME TypeOK, CallsInv, NEW h \in Host, NEW m \in Segment, ArriveSynSent(h, m)
    PROVE  Service!SNext \/ UNCHANGED Service!svars
  <1> DEFINE p == pcb[h]
             acceptable == "ACK" \in m.flag /\ p.una <= m.ack /\ m.ack <= p.nxt
             q == SynSentSyn(p, m, acceptable)
             est == [q EXCEPT !.state = "ESTABLISHED", !.wnd = m.wnd,
                              !.wl1 = m.seq, !.wl2 = m.ack]
             rcv == [q EXCEPT !.state = "SYN-RECEIVED"]
  <1>1. p \in Pcb /\ CallsOK(p) /\ p.state = "SYN-SENT"
    BY DEF TypeOK, CallsInv, ArriveSynSent
  <1>2. \/ UNCHANGED pcb \/ Set(h, p) \/ Set(h, Aborted(p))
        \/ TxHelperTCP(h, signalOpen(est), {"ACK"})
        \/ TxHelperTCP(h, rcv, {"SYN", "ACK"})
    BY DEF ArriveSynSent, TxHandler, Discard
  <1>3. q \in Pcb /\ CallsOK(q) /\ Eased(p, q)
    BY <1>1, SynSentSynType, SynSentSynKeeps
  <1>4. m.seq \in SeqNum /\ m.ack \in SeqNum /\ m.wnd \in Wnd
    BY DEF Segment
  <1> HIDE DEF q
  <1>5. /\ est \in Pcb /\ Same(q, est) /\ est.state = "ESTABLISHED"
        /\ rcv \in Pcb /\ Same(q, rcv) /\ rcv.state = "SYN-RECEIVED"
    BY <1>3, <1>4 DEF Pcb, State, Same
  <1> HIDE DEF est, rcv
  <1>6. /\ CallsOK(est) /\ Eased(p, est)
        /\ Eased(p, rcv) /\ Moved(p, rcv)
    BY <1>1, <1>3, <1>5, SameKeeps, SameEases, EasedTwice, Phases DEF CallsOK, Moved
  <1>7. /\ signalOpen(est) \in Pcb /\ signalOpen(est).state = "ESTABLISHED"
        /\ Eased(p, signalOpen(est))
    BY <1>5, <1>6, signalOpenType, signalOpenKeeps, HelperStates, EasedTwice
    DEF CallsOK
  <1>8. Moved(p, signalOpen(est))
    BY <1>1, <1>7, Phases, Laters DEF Moved
  <1>9. CASE TxHelperTCP(h, signalOpen(est), {"ACK"})
    BY <1>7, <1>8, <1>9, TxHelperTCPIsServed DEF Flag
  <1>10. CASE TxHelperTCP(h, rcv, {"SYN", "ACK"})
    BY <1>5, <1>6, <1>10, TxHelperTCPIsServed DEF Flag
  <1> QED
    BY <1>1, <1>2, <1>9, <1>10, StaysPut, AbortedMoves, EventIsServed, DiscardIsSilent

\* A segment refused, or one that resets the connection.
LEMMA ArriveRefusedIsServed ==
    ASSUME TypeOK, CallsInv, NEW h \in Host, NEW m \in Segment, ArriveRefused(h, m)
    PROVE  Service!SNext \/ UNCHANGED Service!svars
  <1> DEFINE p == pcb[h]
  <1>1. p \in Pcb /\ CallsOK(p)
    BY DEF TypeOK, CallsInv
  <1>2. Aborted(p) \in Pcb /\ Eased(p, Aborted(p)) /\ Moved(p, Aborted(p))
    BY <1>1, AbortedMoves
  <1>3. \/ UNCHANGED pcb \/ Set(h, Aborted(p))
        \/ TxHelperTCP(h, p, {"ACK"})
        \/ TxHelperTCP(h, Aborted(p), {"RST"})
    BY DEF ArriveRefused, Discard
  <1>4. CASE TxHelperTCP(h, p, {"ACK"})
    BY <1>1, <1>4, StaysPut, TxHelperTCPIsServed DEF Flag
  <1>5. CASE TxHelperTCP(h, Aborted(p), {"RST"})
    BY <1>2, <1>5, TxHelperTCPIsServed DEF Flag
  <1> QED
    BY <1>2, <1>3, <1>4, <1>5, EventIsServed, DiscardIsSilent

\* A segment processed: its ACK, then its text or its FIN.
LEMMA ArriveAckIsServed ==
    ASSUME TypeOK, CallsInv, NEW h \in Host, NEW m \in Segment, ArriveAck(h, m)
    PROVE  Service!SNext
  <1> DEFINE p == pcb[h]
             q == ProcessAck(Established(p), m)
             x == ProcessText(q, m)
             f == ProcessFin(q, m)
  <1>1. /\ p \in Pcb /\ CallsOK(p)
        /\ p.state \in Synchronized \ {"LAST-ACK", "TIME-WAIT"}
    BY DEF TypeOK, CallsInv, ArriveAck
  <1>2. \/ Set(h, p) \/ Set(h, q)
        \/ \E r \in {p, x, f} : TxHelperTCP(h, r, {"ACK"})
    BY DEF ArriveAck, TxHandler
  <1>3. \A r \in {q, x, f} : r \in Pcb /\ Eased(p, r) /\ Moved(p, r)
    BY <1>1, ArriveMoves
  <1> HIDE DEF q, x, f
  <1>4. CASE \E r \in {p, x, f} : TxHelperTCP(h, r, {"ACK"})
    BY <1>1, <1>3, <1>4, StaysPut, TxHelperTCPIsServed DEF Flag
  <1> QED
    BY <1>1, <1>2, <1>3, <1>4, StaysPut, EventIsServed
-----------------------------------------------------------------------------
\* No step of any host, user or segment shows the users of pkg/tcp anything
\* TcpService does not promise.
LEMMA StepsAreServed ==
    TypeOK /\ CallsInv /\ [Next]_vars => [Service!SNext]_(Service!svars)
  <1> SUFFICES ASSUME TypeOK, CallsInv, [Next]_vars
               PROVE  Service!SNext \/ UNCHANGED Service!svars
    OBVIOUS
  <1>1. CASE UNCHANGED vars
    BY <1>1, DiscardIsSilent DEF vars
  <1>2. ASSUME NEW h \in Host, User(h) PROVE Service!SNext
    <2>1. ASSUME NEW d \in SendData, NEW c \in Call, Send(h, c, d)
          PROVE  Service!SNext
      BY <2>1, SendIsServed
    <2>2. ASSUME NEW n \in RecvSize, NEW c \in Call, Receive(h, c, n)
          PROVE  Service!SNext
      BY <2>2, ReceiveIsServed
    <2>3. ASSUME NEW c \in Call, Close(h, c) PROVE Service!SNext
      BY <2>3, CloseIsServed
    <2>4. CASE Abort(h)
      BY <2>4, AbortIsServed
    <2> QED
      BY <1>2, <2>1, <2>2, <2>3, <2>4, OpenIsServed DEF User
  <1>3. ASSUME NEW h \in Host, NEW m \in Arriving, segmentArrives(h, m)
        PROVE  Service!SNext \/ UNCHANGED Service!svars
    <2>1. m \in Segment
      BY ArrivingAssumption
    <2> QED
      BY <1>3, <2>1, ArriveEndsServed, ArriveListenIsServed, ArriveSynSentIsServed,
         ArriveRefusedIsServed, ArriveAckIsServed DEF segmentArrives
  <1>4. ASSUME NEW h \in Host, Timer(h) PROVE Service!SNext
    BY <1>4, TimerIsServed
  <1> QED
    BY <1>1, <1>2, <1>3, <1>4 DEF Next

\* What Open, Send, Receive and Close of pkg/tcp/pcb.go promise their callers:
\* the connection goes through its phases in order, a call goes from pending to
\* answered only, and the end of the connection answers every call.
THEOREM TcpServiceImplemented == Spec => ImplementsService
  <1>1. Init => Service!SInit
    <2> SUFFICES ASSUME Init PROVE Service!SInit
      OBVIOUS
    <2>1. \A h \in Host : pcb[h] = InitPcb
      BY DEF Init
    <2>2. /\ InitPcb.retxQueue = {} /\ InitPcb.rcvCmd.call = NoCall
          /\ InitPcb.state = "CLOSED"
          /\ \A c \in Call : InitPcb.call[c] = "idle" /\ InitPcb.errCh[c] = <<>>
      BY DEF InitPcb, NoRcv
    <2>3. Held(InitPcb) = {}
      BY <2>2 DEF Held, Callers
    <2>4. \A c \in Call : StatusOf(InitPcb, c) = "none"
      BY <2>2, <2>3 DEF StatusOf
    <2> QED
      BY <2>1, <2>2, <2>4, Phases DEF Service!SInit
  <1> QED
    BY <1>1, StepsAreServed, TypeCorrect, CallsAlways, PTL
    DEF Spec, ImplementsService, Service!SSpec
=============================================================================
