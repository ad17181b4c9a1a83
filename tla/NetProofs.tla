----------------------------- MODULE NetProofs ------------------------------
(***************************************************************************)
(* No frame is lost between the device and a handler, none is handed up    *)
(* more often than there is room for it, and nobody goes on for long after *)
(* the shutdown, for channels and queues of any capacity and any number of *)
(* frames.                                                                 *)
(***************************************************************************)
EXTENDS Net, FiniteSetTheorems, SequenceTheorems, TLAPS

\* What is on its way to p is counted, and it arrived in the order in which it
\* will be taken, before what the device waits with or reads next.
OnTheWay(p) ==
    /\ owed[p] = Cardinality(Frames(chan[p])) + (IF Passing(p) THEN 1 ELSE 0)
    /\ owed[p] <= buf.n
    /\ \A i, j \in Frames(chan[p]) : i < j => chan[p][i].n < chan[p][j].n
    /\ \A i \in Frames(chan[p]) :
          chan[p][i].n <= buf.n /\ (Passing(p) => chan[p][i].n < buf.n)

Numbered ==
    /\ dev.pc = "pass" => buf.n # 0
    /\ \A p \in Proto : OnTheWay(p)

\* The handler of IP is about to look at a frame.
Looks == At("ip", "parse") /\ rx["ip"].item # Loop

\* Between two reads every hand-over uses up a frame that was on its way.
Counted == handed + owed["ip"] + (IF Looks THEN 1 ELSE 0) <= Cap + 2

\* One who has seen done open, and has not passed it since, is not late.
Stopping ==
    /\ \A x \in Proto \cup {"dev"} : late[x] <= 1 /\ (~done => late[x] = 0)
    /\ \A p \in Proto : At(p, "receive") => late[p] = 0
    /\ dev.pc \in {"read", "pass"} => late["dev"] = 0

IInv == TypeOK /\ Numbered /\ Counted /\ Stopping
-----------------------------------------------------------------------------
(***************************************************************************)
(* The frames in a channel.                                                *)
(***************************************************************************)

\* A reference to a frame is not what the loopback device was given.
LEMMA FrameIsNotLoop == \A k : [n |-> k] # Loop
<1> SUFFICES ASSUME NEW k, [n |-> k] = Loop PROVE FALSE
  OBVIOUS
<1>1. DOMAIN [n |-> k] = DOMAIN Loop
  OBVIOUS
<1> QED BY <1>1 DEF Loop

\* There are finitely many.
LEMMA FramesFinite ==
    ASSUME NEW s \in Seq(Item)
    PROVE  IsFiniteSet(Frames(s)) /\ Cardinality(Frames(s)) \in Nat
           /\ Cardinality(Frames(s)) <= Len(s)
<1>1. Frames(s) \subseteq 1 .. Len(s)
  BY DEF Frames
<1>2. IsFiniteSet(1 .. Len(s)) /\ Cardinality(1 .. Len(s)) = Len(s)
  <2>1. 0 \in Int /\ Len(s) \in Nat /\ (1 > Len(s) <=> Len(s) = 0)
    BY LenProperties
  <2> QED BY <2>1, FS_Interval
<1> QED BY <1>1, <1>2, LenProperties, FS_Subset, FS_CardinalityType

\* An item that comes last is one more frame, or none.
LEMMA FramesAppend ==
    ASSUME NEW s \in Seq(Item), NEW e \in Item
    PROVE  /\ Frames(Append(s, e)) = Frames(s) \cup
                 (IF e = Loop THEN {} ELSE {Len(s) + 1})
           /\ Cardinality(Frames(Append(s, e))) =
                 Cardinality(Frames(s)) + (IF e = Loop THEN 0 ELSE 1)
<1>1. Frames(Append(s, e)) = Frames(s) \cup (IF e = Loop THEN {} ELSE {Len(s) + 1})
  BY AppendProperties DEF Frames
<1>2. Len(s) + 1 \notin Frames(s)
  BY LenProperties DEF Frames
<1>3. IsFiniteSet(Frames(s)) /\ Cardinality(Frames(s)) \in Nat
  BY FramesFinite
<1>4. CASE e = Loop
  BY <1>1, <1>3, <1>4
<1>5. CASE e # Loop
  <2>1. Cardinality(Frames(s) \cup {Len(s) + 1}) = Cardinality(Frames(s)) + 1
    BY <1>2, <1>3, FS_AddElement
  <2> QED BY <1>1, <1>5, <2>1
<1> QED BY <1>4, <1>5

\* The first item that is taken is one frame less, or none; the others are
\* one place further ahead.
LEMMA FramesTail ==
    ASSUME NEW s \in Seq(Item), s # <<>>
    PROVE  /\ \A i \in Frames(Tail(s)) : i + 1 \in Frames(s) /\ Tail(s)[i] = s[i + 1]
           /\ Cardinality(Frames(Tail(s))) =
                 Cardinality(Frames(s)) - (IF Head(s) = Loop THEN 0 ELSE 1)
<1> DEFINE t == Tail(s)
           R == Frames(s) \ {1}
           f == [i \in Frames(t) |-> i + 1]
<1>1. /\ t \in Seq(Item) /\ Len(t) = Len(s) - 1 /\ Len(s) \in Nat \ {0}
      /\ \A i \in 1 .. Len(t) : t[i] = s[i + 1]
  BY HeadTailProperties, LenProperties
<1>2. \A i \in Frames(t) : i \in 1 .. Len(t) /\ i + 1 \in Frames(s) /\ t[i] = s[i + 1]
  BY <1>1 DEF Frames
<1>3. \A j \in R : j - 1 \in Frames(t)
  BY <1>1 DEF Frames
<1>4. f \in Bijection(Frames(t), R)
  <2>1. \A i \in Frames(t) : f[i] \in R
    BY <1>2
  <2>2. \A i, j \in Frames(t) : f[i] = f[j] => i = j
    BY <1>2
  <2>3. \A j \in R : \E i \in Frames(t) : f[i] = j
    <3> TAKE j \in R
    <3>1. j \in Nat /\ j - 1 \in Frames(t)
      BY <1>3 DEF Frames
    <3>2. f[j - 1] = j
      BY <3>1
    <3> QED BY <3>1, <3>2
  <2> QED BY <2>1, <2>2, <2>3 DEF Bijection, Injection, Surjection, IsInjective
<1>5. Cardinality(Frames(t)) = Cardinality(R)
  <2>1. IsFiniteSet(Frames(t))
    BY <1>1, FramesFinite
  <2>2. ExistsBijection(Frames(t), R)
    BY <1>4 DEF ExistsBijection
  <2> QED BY <2>1, <2>2, FS_Bijection
<1>6. 1 \in Frames(s) <=> Head(s) # Loop
  BY <1>1 DEF Frames
<1>7. Cardinality(R) = Cardinality(Frames(s)) - (IF Head(s) = Loop THEN 0 ELSE 1)
  <2>1. IsFiniteSet(Frames(s)) /\ Cardinality(Frames(s)) \in Nat
    BY FramesFinite
  <2>2. Cardinality(R) = IF 1 \in Frames(s) THEN Cardinality(Frames(s)) - 1
                         ELSE Cardinality(Frames(s))
    BY <2>1, FS_RemoveElement
  <2> HIDE DEF R
  <2> QED BY <1>6, <2>1, <2>2
<1> QED BY <1>2, <1>5, <1>7
-----------------------------------------------------------------------------
(***************************************************************************)
(* Each step keeps the invariant.                                          *)
(***************************************************************************)

\* A sender over the loopback device, whoever it is.
Loopback == IpLoopbackTx \/ LoopbackTx \/ UdpLoopbackTx

\* The steps, one by one.
LEMMA Steps ==
    Next => \/ EtherTop \/ EtherPass \/ EtherFails
            \/ \E kind \in Kind : EtherRead(kind)
            \/ \E p \in Proto : RxTop(p)
            \/ \E p \in Proto : RxReceive(p)
            \/ ArpParse \/ IpDrop \/ IpParse \/ IpUdp \/ IpTcp \/ IpAnswered
            \/ Loopback
            \/ Listen \/ Lock \/ CallerAnswered \/ NetShutdown \/ Close
  BY DEF Next, EtherSteps, ArpSteps, IpSteps, Proto, Loopback

\* A handler that goes elsewhere.
LEMMA GoesType ==
    ASSUME TypeOK, NEW p \in Proto,
           NEW pc \in Place, Goes(p, pc)
    PROVE  rx' \in [Proto -> [pc : Place, item : Item]]
  BY DEF TypeOK, Goes, Item

LEMMA GoesThere ==
    ASSUME TypeOK, NEW p \in Proto, NEW pc, Goes(p, pc)
    PROVE  /\ rx'[p].pc = pc
           /\ \A q \in Proto \ {p} : rx'[q] = rx[q]
  BY DEF TypeOK, Goes

\* Where the IP handler goes from the frame it has parsed.
LEMMA IpParseGoes ==
    ASSUME IpParse
    PROVE  \E pc \in {"udp", "tcp", "echo", "top"} : Goes("ip", pc)
  BY DEF IpParse, IcmpRxHandler, IpKind

\* Where the handlers go between the top of their loops and the next item, but
\* for IpParse.
LEMMA HandlerGoes ==
    ASSUME ArpParse \/ IpDrop \/ IpUdp \/ IpTcp \/ IpAnswered
    PROVE  \E p \in Proto, pc \in {"top", "gone", "answer", "reply"} : Goes(p, pc)
  BY DEF ArpParse, IpDrop, IpUdp, IpTcp, IpAnswered, Proto

\* What a sender over the loopback device does, and what it leaves alone.
LEMMA LoopbackSends ==
    ASSUME Loopback
    PROVE  /\ DeviceInputHanlder("ip", Loop)
           /\ UNCHANGED <<dev, buf, unread, done, closed, owed, handed, late>>
           /\ rx' = rx \/ Goes("ip", "top")
           /\ caller' \in {caller, "answer", "loop", "out"}
  BY DEF Loopback, IpLoopbackTx, LoopbackTx, UdpLoopbackTx, stop, history

\* A handler gets no item of the channel but those in it.
LEMMA TypeStep ==
    ASSUME TypeOK, Numbered, [Next]_vars
    PROVE  TypeOK'
<1> USE NetAssumption DEF TypeOK
<1>1. CASE EtherTop
  BY <1>1 DEF EtherTop, DevAt, Top, Proto, stop, history
<1>2. CASE EtherPass
  <2>1. dev.proto \in Proto /\ buf.n \in 1 .. MaxFrames /\ [n |-> buf.n] \in Item
    BY <1>2 DEF EtherPass, Numbered, NoFrame, Item
  <2>2. chan' \in [Proto -> Seq(Item)]
    BY <1>2, <2>1 DEF EtherPass, DeviceInputHanlder, stop
  <2>3. \A p \in Proto : Len(chan'[p]) <= Cap
    BY <1>2, <2>1, AppendProperties DEF EtherPass, DeviceInputHanlder, HasRoom
  <2> QED BY <1>2, <2>2, <2>3 DEF EtherPass, DevAt, Late, Proto, stop
<1>3. CASE EtherFails
  BY <1>3 DEF EtherFails, DevAt, Proto, stop, history
<1>4. ASSUME NEW kind \in Kind, EtherRead(kind) PROVE TypeOK'
  <2>1. /\ buf' \in [n : 1 .. MaxFrames, kind : Kind] /\ buf'.n = buf.n + 1
        /\ buf.n \in Number /\ buf.n + 1 \in 1 .. MaxFrames
    BY <1>4 DEF EtherRead, NoFrame, Number
  <2>2. CASE kind = "other"
    BY <1>4, <2>1, <2>2 DEF EtherRead, DevAt, Proto, stop
  <2>3. CASE kind # "other"
    <3> DEFINE q == ProtoOf(kind)
    <3>1. q \in Proto
      BY DEF ProtoOf, Proto
    <3>2. owed[q] + 1 \in Number
      BY <2>1, <3>1 DEF Numbered, OnTheWay, Number
    <3>3. owed' = [owed EXCEPT ![q] = @ + 1] /\ dev' = [pc |-> "pass", proto |-> q]
      BY <1>4, <2>3 DEF EtherRead
    <3> HIDE DEF q
    <3>4. owed' \in [Proto -> Number]
      BY <3>1, <3>2, <3>3
    <3> QED BY <1>4, <2>1, <3>1, <3>3, <3>4 DEF EtherRead, stop
  <2> QED BY <2>2, <2>3
<1>5. ASSUME NEW p \in Proto, RxTop(p) PROVE TypeOK'
  BY <1>5, GoesType DEF RxTop, Top, Place, stop, history
<1>6. ASSUME NEW p \in Proto, RxReceive(p) PROVE TypeOK'
  <2>1. /\ Head(chan[p]) \in Item /\ Tail(chan[p]) \in Seq(Item)
        /\ Len(Tail(chan[p])) = Len(chan[p]) - 1
    BY <1>6, HeadTailProperties DEF RxReceive
  <2>2. chan' \in [Proto -> Seq(Item)] /\ \A q \in Proto : Len(chan'[q]) <= Cap
    BY <1>6, <2>1, LenProperties DEF RxReceive
  <2>3. Head(chan[p]) # Loop => owed[p] >= 1
    <3> SUFFICES ASSUME Head(chan[p]) # Loop PROVE owed[p] >= 1
      OBVIOUS
    <3>1. Cardinality(Frames(Tail(chan[p]))) \in Nat
      BY <2>1, FramesFinite
    <3>2. Cardinality(Frames(chan[p])) = Cardinality(Frames(Tail(chan[p]))) + 1
      <4>1. Cardinality(Frames(chan[p])) \in Nat
        BY FramesFinite
      <4> QED BY <1>6, <4>1, <3>1, FramesTail DEF RxReceive
    <3>3. owed[p] \in Int
             /\ owed[p] = Cardinality(Frames(chan[p])) + (IF Passing(p) THEN 1 ELSE 0)
      BY DEF Numbered, OnTheWay, Number
    <3> QED BY <3>1, <3>2, <3>3
  <2>4. owed' \in [Proto -> Number]
    <3>1. CASE Head(chan[p]) = Loop
      BY <1>6, <3>1 DEF RxReceive
    <3>2. CASE Head(chan[p]) # Loop
      <4>1. owed[p] - 1 \in Number
        BY <2>3, <3>2 DEF Number
      <4> QED BY <1>6, <3>2, <4>1 DEF RxReceive
    <3> QED BY <3>1, <3>2
  <2> QED BY <1>6, <2>1, <2>2, <2>4 DEF RxReceive, Late, Place, stop
<1>7. CASE ArpParse \/ IpDrop \/ IpUdp \/ IpTcp \/ IpAnswered
  <2>1. rx' \in [Proto -> [pc : Place, item : Item]]
    BY <1>7, HandlerGoes, GoesType DEF Place
  <2>2. unread' \in 0 .. UdpCap
    BY <1>7 DEF ArpParse, IpDrop, IpUdp, IpTcp, IpAnswered
  <2> QED BY <1>7, <2>1, <2>2
          DEF ArpParse, IpDrop, IpUdp, IpTcp, IpAnswered, stop, history
<1>8. CASE IpParse
  <2>1. rx' \in [Proto -> [pc : Place, item : Item]]
    BY <1>8, IpParseGoes, GoesType DEF Place, Proto
  <2> QED BY <1>8, <2>1 DEF IpParse, stop
<1>9. CASE Listen
  BY <1>9 DEF Listen, stop, history
<1>10. CASE Lock \/ CallerAnswered
  BY <1>10 DEF Lock, CallerAnswered, stop, history
<1>11. CASE Loopback
  <2>1. Loop \in Item /\ "ip" \in Proto
    BY DEF Item, Proto
  <2>s. DeviceInputHanlder("ip", Loop)
    BY <1>11, LoopbackSends
  <2>2. chan' \in [Proto -> Seq(Item)]
    BY <2>s, <2>1 DEF DeviceInputHanlder
  <2>3. \A p \in Proto : Len(chan'[p]) <= Cap
    BY <2>s, <2>1, AppendProperties DEF DeviceInputHanlder, HasRoom
  <2>4. rx' \in [Proto -> [pc : Place, item : Item]]
    BY <1>11, <2>1, LoopbackSends, GoesType DEF Place
  <2> QED BY <1>11, <2>2, <2>3, <2>4, LoopbackSends
<1>12. CASE NetShutdown
  BY <1>12 DEF NetShutdown, history
<1>13. CASE Close
  BY <1>13 DEF Close, history
<1>14. CASE UNCHANGED vars
  BY <1>14 DEF vars, stop, history
<1> QED BY <1>1, <1>2, <1>3, <1>4, <1>5, <1>6, <1>7, <1>8, <1>9, <1>10, <1>11,
           <1>12, <1>13, <1>14, Steps

\* What is on its way to p is what it was.
Unmoved(p) ==
    /\ chan'[p] = chan[p] /\ owed'[p] = owed[p] /\ buf' = buf
    /\ Passing(p)' = Passing(p)

LEMMA UnmovedKeeps ==
    ASSUME NEW p, Unmoved(p), OnTheWay(p)
    PROVE  OnTheWay(p)'
  BY DEF Unmoved, OnTheWay

\* Frames are counted, and their numbers are numbers.
LEMMA FrameNumbers ==
    ASSUME TypeOK, NEW p \in Proto
    PROVE  /\ Cardinality(Frames(chan[p])) \in Nat /\ owed[p] \in Nat /\ buf.n \in Nat
           /\ \A i \in Frames(chan[p]) : i \in Nat /\ chan[p][i].n \in Nat
<1>1. chan[p] \in Seq(Item)
  BY DEF TypeOK
<1>2. owed[p] \in Nat /\ buf.n \in Nat
  BY NetAssumption DEF TypeOK, Number, NoFrame
<1>3. ASSUME NEW i \in Frames(chan[p]) PROVE i \in Nat /\ chan[p][i].n \in Nat
  <2>1. i \in 1 .. Len(chan[p]) /\ chan[p][i] \in Item /\ chan[p][i] # Loop
    BY <1>1, ElementOfSeq DEF Frames
  <2>2. chan[p][i] \in [n : 1 .. MaxFrames]
    BY <2>1 DEF Item
  <2> QED BY <1>1, <2>1, <2>2, LenProperties
<1> QED BY <1>1, <1>2, <1>3, FramesFinite

\* The device's steps: the frame that it reads is the one it owes, and the
\* youngest; the one that it passes on comes last.
LEMMA ReadKeepsFrames ==
    ASSUME TypeOK, NEW p \in Proto, OnTheWay(p), NEW kind \in Kind, EtherRead(kind)
    PROVE  OnTheWay(p)'
<1>1. buf'.n = buf.n + 1 /\ chan' = chan /\ ~Passing(p)
  BY DEF EtherRead, Passing
<1>2. \A i \in Frames(chan[p]) : chan[p][i].n < buf.n + 1
  BY FrameNumbers DEF OnTheWay
<1>3. CASE kind # "other" /\ ProtoOf(kind) = p
  <2>1. owed'[p] = owed[p] + 1 /\ Passing(p)'
    BY <1>3 DEF EtherRead, Passing, TypeOK
  <2> QED BY <1>1, <1>2, <2>1, FrameNumbers DEF OnTheWay
<1>4. CASE ~(kind # "other" /\ ProtoOf(kind) = p)
  <2>1. owed'[p] = owed[p] /\ ~Passing(p)'
    BY <1>4 DEF EtherRead, Passing, TypeOK, DevAt
  <2> QED BY <1>1, <1>2, <2>1, FrameNumbers DEF OnTheWay
<1> QED BY <1>3, <1>4

LEMMA PassKeepsFrames ==
    ASSUME TypeOK, Numbered, NEW p \in Proto, OnTheWay(p), EtherPass
    PROVE  OnTheWay(p)'
<1>1. CASE dev.proto # p
  BY <1>1, UnmovedKeeps
     DEF EtherPass, DeviceInputHanlder, Unmoved, Passing, DevAt, TypeOK
<1>2. CASE dev.proto = p
  <2> DEFINE s == chan[p]
             e == [n |-> buf.n]
  <2>1. s \in Seq(Item) /\ e \in Item /\ e # Loop /\ e.n = buf.n
    BY FrameIsNotLoop DEF EtherPass, Numbered, NoFrame, Item, TypeOK
  <2>2. chan'[p] = Append(s, e) /\ owed' = owed /\ buf' = buf /\ Passing(p) /\ ~Passing(p)'
    BY <1>2 DEF EtherPass, DeviceInputHanlder, Passing, DevAt, TypeOK
  <2>3. /\ Frames(chan'[p]) = Frames(s) \cup {Len(s) + 1}
        /\ Cardinality(Frames(chan'[p])) = Cardinality(Frames(s)) + 1
    BY <2>1, <2>2, FramesAppend
  <2>4. Frames(s) \subseteq 1 .. Len(s) /\ Len(s) \in Nat
    BY <2>1, LenProperties DEF Frames
  <2>5. chan'[p][Len(s) + 1] = e /\ \A i \in Frames(s) : chan'[p][i] = s[i]
    BY <2>1, <2>2, <2>4, AppendProperties
  <2> HIDE DEF e
  <2>6. \A i \in Frames(chan'[p]) : chan'[p][i].n <= buf.n
    BY <2>1, <2>3, <2>5, FrameNumbers DEF OnTheWay
  <2>7. \A i, j \in Frames(chan'[p]) : i < j => chan'[p][i].n < chan'[p][j].n
    BY <2>1, <2>2, <2>3, <2>4, <2>5, FrameNumbers DEF OnTheWay
  <2>8. owed'[p] = Cardinality(Frames(chan'[p])) + 0 /\ owed'[p] <= buf'.n
    BY <2>2, <2>3, FrameNumbers DEF OnTheWay
  <2> QED BY <2>2, <2>6, <2>7, <2>8 DEF OnTheWay
<1> QED BY <1>1, <1>2

\* A handler takes the oldest frame, or an item that is none.
LEMMA ReceiveKeepsFrames ==
    ASSUME TypeOK, NEW p \in Proto, OnTheWay(p), NEW q \in Proto, RxReceive(q)
    PROVE  OnTheWay(p)'
<1>1. CASE q # p
  BY <1>1, UnmovedKeeps DEF RxReceive, Unmoved, Passing, TypeOK
<1>2. CASE q = p
  <2> DEFINE s == chan[p]
  <2>1. s \in Seq(Item) /\ s # <<>>
    BY <1>2 DEF RxReceive, TypeOK
  <2>2. chan'[p] = Tail(s) /\ buf' = buf /\ Passing(p)' = Passing(p)
    BY <1>2 DEF RxReceive, TypeOK, Passing
  <2>3. owed'[p] = owed[p] - (IF Head(s) = Loop THEN 0 ELSE 1)
    <3>1. CASE Head(s) = Loop
      BY <1>2, <3>1, FrameNumbers DEF RxReceive
    <3>2. CASE Head(s) # Loop
      BY <1>2, <3>2 DEF RxReceive, TypeOK
    <3> QED BY <3>1, <3>2
  <2>4. /\ \A i \in Frames(Tail(s)) : i + 1 \in Frames(s) /\ Tail(s)[i] = s[i + 1]
        /\ Cardinality(Frames(Tail(s))) =
              Cardinality(Frames(s)) - (IF Head(s) = Loop THEN 0 ELSE 1)
    BY <2>1, FramesTail
  <2>5. \A i \in Frames(Tail(s)) : i \in Nat
    BY <2>1, HeadTailProperties, LenProperties DEF Frames
  <2>6. /\ owed'[p] = Cardinality(Frames(chan'[p])) + (IF Passing(p)' THEN 1 ELSE 0)
        /\ owed'[p] <= buf'.n
    BY <2>2, <2>3, <2>4, FrameNumbers DEF OnTheWay
  <2>7. \A i \in Frames(chan'[p]) :
          chan'[p][i].n <= buf.n /\ (Passing(p) => chan'[p][i].n < buf.n)
    BY <2>2, <2>4 DEF OnTheWay
  <2>8. \A i, j \in Frames(chan'[p]) : i < j => chan'[p][i].n < chan'[p][j].n
    <3> SUFFICES ASSUME NEW i \in Frames(Tail(s)), NEW j \in Frames(Tail(s)), i < j
                 PROVE  Tail(s)[i].n < Tail(s)[j].n
      BY <2>2
    <3>1. i + 1 \in Frames(s) /\ j + 1 \in Frames(s) /\ i + 1 < j + 1
      BY <2>4, <2>5
    <3>2. s[i + 1].n < s[j + 1].n
      BY <3>1 DEF OnTheWay
    <3> QED BY <2>4, <3>2
  <2> QED BY <2>2, <2>6, <2>7, <2>8 DEF OnTheWay
<1> QED BY <1>1, <1>2

\* What the loopback device is given counts for nothing.
LEMMA LoopbackKeepsFrames ==
    ASSUME TypeOK, NEW p \in Proto, OnTheWay(p), Loopback
    PROVE  OnTheWay(p)'
<1> DEFINE s == chan[p]
<1>0. DeviceInputHanlder("ip", Loop)
  BY LoopbackSends
<1>1. owed' = owed /\ buf' = buf /\ Passing(p)' = Passing(p)
  BY LoopbackSends DEF Passing
<1>2. CASE p # "ip"
  BY <1>0, <1>1, <1>2, UnmovedKeeps DEF DeviceInputHanlder, Unmoved, TypeOK
<1>3. CASE p = "ip"
  <2>1. chan'[p] = Append(s, Loop) /\ s \in Seq(Item) /\ Loop \in Item
    BY <1>0, <1>3 DEF DeviceInputHanlder, TypeOK, Item
  <2>2. /\ Frames(chan'[p]) = Frames(s)
        /\ Cardinality(Frames(chan'[p])) = Cardinality(Frames(s))
    <3>1. Frames(Append(s, Loop)) = Frames(s) \cup {}
      BY <2>1, FramesAppend
    <3> QED BY <2>1, <3>1
  <2>3. \A i \in Frames(s) : chan'[p][i] = s[i]
    BY <2>1, AppendProperties DEF Frames
  <2> QED BY <1>1, <2>2, <2>3 DEF OnTheWay
<1> QED BY <1>2, <1>3

\* All together.
LEMMA NumberedStep ==
    ASSUME TypeOK, Numbered, [Next]_vars
    PROVE  Numbered'
<1>1. ASSUME NEW kind \in Kind, EtherRead(kind) PROVE Numbered'
  <2>1. buf'.n # 0
    BY <1>1 DEF EtherRead, TypeOK, NoFrame
  <2> QED BY <1>1, <2>1, ReadKeepsFrames DEF Numbered
<1>2. CASE EtherPass
  BY <1>2, PassKeepsFrames DEF Numbered, EtherPass, DevAt
<1>3. ASSUME NEW q \in Proto, RxReceive(q) PROVE Numbered'
  BY <1>3, ReceiveKeepsFrames DEF Numbered, RxReceive
<1>4. CASE Loopback
  <2>1. dev' = dev /\ buf' = buf
    BY <1>4, LoopbackSends
  <2> QED BY <1>4, <2>1, LoopbackKeepsFrames DEF Numbered
<1>5. ASSUME /\ UNCHANGED <<chan, owed, buf>>
             /\ dev' = dev \/ (dev.pc # "pass" /\ dev'.pc # "pass")
      PROVE  Numbered'
  <2>1. \A p \in Proto : Passing(p)' = Passing(p)
    BY <1>5 DEF Passing
  <2>2. \A p \in Proto : Unmoved(p)
    BY <1>5, <2>1 DEF Unmoved
  <2> QED BY <1>5, <2>2, UnmovedKeeps DEF Numbered
<1>6. CASE EtherTop \/ EtherFails
  BY <1>5, <1>6 DEF EtherTop, EtherFails, DevAt, Top, history
<1>7. CASE (\E q \in Proto : RxTop(q)) \/ ArpParse \/ IpDrop \/ IpParse \/ IpUdp \/ IpTcp
           \/ IpAnswered
  BY <1>5, <1>7 DEF RxTop, ArpParse, IpDrop, IpParse, IpUdp, IpTcp, IpAnswered, history
<1>8. CASE Listen \/ Lock \/ CallerAnswered \/ NetShutdown \/ Close \/ UNCHANGED vars
  BY <1>5, <1>8 DEF Listen, Lock, CallerAnswered, NetShutdown, Close, vars, history
<1> QED BY <1>1, <1>2, <1>3, <1>4, <1>6, <1>7, <1>8, Steps

\* A hand-over needs a frame that was on its way when the last was read, and
\* there were at most Cap in the channel, one in the hands of the handler and
\* the one just read.
LEMMA CountedStep ==
    ASSUME TypeOK, Numbered, Counted, [Next]_vars
    PROVE  Counted'
<1>n. handed \in Nat /\ owed["ip"] \in Nat /\ Cap \in Nat /\ "ip" \in Proto
  BY NetAssumption DEF TypeOK, Number, Proto
<1>1. ASSUME NEW kind \in Kind, EtherRead(kind) PROVE Counted'
  <2>1. owed["ip"] <= Cap
    <3>1. chan["ip"] \in Seq(Item) /\ Len(chan["ip"]) <= Cap
      BY <1>n DEF TypeOK
    <3>2. /\ Cardinality(Frames(chan["ip"])) <= Len(chan["ip"])
          /\ Cardinality(Frames(chan["ip"])) \in Nat /\ Len(chan["ip"]) \in Nat
      BY <3>1, FramesFinite, LenProperties
    <3>3. owed["ip"] = Cardinality(Frames(chan["ip"])) + 0
      BY <1>1, <1>n DEF EtherRead, Numbered, OnTheWay, Passing
    <3> QED BY <1>n, <3>1, <3>2, <3>3
  <2>2. owed'["ip"] \in {owed["ip"], owed["ip"] + 1}
    BY <1>1, <1>n DEF EtherRead, TypeOK
  <2> QED BY <1>1, <1>n, <2>1, <2>2 DEF EtherRead, Counted
<1>2. ASSUME NEW p \in Proto, RxReceive(p) PROVE Counted'
  <2>1. CASE p = "arp"
    <3>1. owed'["ip"] = owed["ip"] /\ rx'["ip"] = rx["ip"] /\ handed' = handed
      BY <1>2, <2>1 DEF RxReceive, TypeOK, Proto
    <3> QED BY <3>1 DEF Counted, Looks, At
  <2>2. CASE p = "ip" /\ Head(chan["ip"]) = Loop
    <3>1. owed' = owed /\ handed' = handed /\ ~Looks /\ ~Looks'
      BY <1>2, <2>2 DEF RxReceive, TypeOK, Looks, At
    <3> QED BY <1>n, <3>1 DEF Counted
  <2>3. CASE p = "ip" /\ Head(chan["ip"]) # Loop
    <3>1. owed'["ip"] = owed["ip"] - 1 /\ handed' = handed /\ ~Looks
      BY <1>2, <2>3 DEF RxReceive, TypeOK, Looks, At
    <3> QED BY <1>n, <3>1 DEF Counted
  <2> QED BY <2>1, <2>2, <2>3 DEF Proto
<1>3. CASE IpParse
  <2>1. Looks
    BY <1>3 DEF IpParse, Looks, Content, IpKind
  <2>2. ~Looks' /\ handed' = handed + 1 /\ owed' = owed
    <3>1. PICK pc \in {"udp", "tcp", "echo", "top"} : Goes("ip", pc)
      BY <1>3, IpParseGoes
    <3>2. rx'["ip"].pc = pc
      BY <1>n, <3>1, GoesThere
    <3> QED BY <1>3, <3>2 DEF IpParse, Looks, At
  <2> QED BY <1>n, <2>1, <2>2 DEF Counted
<1>4. ASSUME UNCHANGED <<owed, handed>>, Looks' => Looks
      PROVE  Counted'
  BY <1>n, <1>4 DEF Counted
<1>5. CASE EtherTop \/ EtherPass \/ EtherFails
  BY <1>4, <1>5 DEF EtherTop, EtherPass, EtherFails, Looks, At, history
<1>6. CASE (\E q \in Proto : RxTop(q)) \/ ArpParse \/ IpDrop \/ IpUdp \/ IpTcp
           \/ IpAnswered
  <2>1. PICK p \in Proto, pc \in {"top", "receive", "gone", "answer", "reply"} : Goes(p, pc)
    BY <1>6, HandlerGoes DEF RxTop, Top
  <2>2. Looks' => Looks
    BY <1>n, <2>1, GoesThere DEF Looks, At
  <2> QED BY <1>4, <1>6, <2>2
          DEF RxTop, ArpParse, IpDrop, IpUdp, IpTcp, IpAnswered, history
<1>7. CASE Loopback
  <2>1. Looks' => Looks
    BY <1>7, <1>n, LoopbackSends, GoesThere DEF Looks, At
  <2> QED BY <1>4, <1>7, <2>1, LoopbackSends
<1>8. CASE Listen \/ Lock \/ CallerAnswered \/ NetShutdown \/ Close \/ UNCHANGED vars
  BY <1>4, <1>8 DEF Listen, Lock, CallerAnswered, NetShutdown, Close, vars,
                    Looks, At, history
<1> QED BY <1>1, <1>2, <1>3, <1>5, <1>6, <1>7, <1>8, Steps

\* Late steps are taken by those who had passed the top of their loops, and
\* these steps lead back there.
LEMMA StoppingStep ==
    ASSUME TypeOK, Stopping, [Next]_vars
    PROVE  Stopping'
<1> USE DEF Stopping
<1>1. CASE EtherTop
  BY <1>1 DEF EtherTop, DevAt, Top, At, stop, history
<1>2. CASE EtherPass
  <2>1. late' \in [Proto \cup {"dev"} -> Nat] /\ dev'.pc = "top" /\ rx' = rx /\ done' = done
    BY <1>2 DEF EtherPass, DevAt, Late, TypeOK, stop
  <2>2. \A x \in Proto \cup {"dev"} : late'[x] <= 1 /\ (~done => late'[x] = 0)
    BY <1>2 DEF EtherPass, Late, TypeOK
  <2>3. \A p \in Proto : late'[p] = late[p]
    BY <1>2 DEF EtherPass, Late, TypeOK, Proto
  <2> QED BY <2>1, <2>2, <2>3 DEF At
<1>3. CASE EtherFails
  BY <1>3 DEF EtherFails, DevAt, At, stop, history
<1>4. ASSUME NEW kind \in Kind, EtherRead(kind) PROVE Stopping'
  BY <1>4 DEF EtherRead, DevAt, At, stop
<1>5. ASSUME NEW p \in Proto, RxTop(p) PROVE Stopping'
  <2>1. \A q \in Proto : At(q, "receive")' => At(q, "receive") \/ ~done
    BY <1>5 DEF RxTop, Goes, Top, At, TypeOK
  <2> QED BY <1>5, <2>1 DEF RxTop, stop, history
<1>6. ASSUME NEW p \in Proto, RxReceive(p) PROVE Stopping'
  <2>1. dev' = dev /\ done' = done /\ late[p] = 0
    BY <1>6 DEF RxReceive, stop
  <2>2. \A x \in Proto \cup {"dev"} : late'[x] <= 1 /\ (~done => late'[x] = 0)
    BY <1>6, <2>1 DEF RxReceive, Late, TypeOK
  <2>3. \A q \in Proto : At(q, "receive")' => q # p /\ At(q, "receive")
    BY <1>6 DEF RxReceive, At, TypeOK
  <2>4. \A x \in (Proto \cup {"dev"}) \ {p} : late'[x] = late[x]
    BY <1>6 DEF RxReceive, Late, TypeOK
  <2>5. "dev" # p
    BY DEF Proto
  <2> QED BY <2>1, <2>2, <2>3, <2>4, <2>5
<1>7. CASE ArpParse \/ IpDrop \/ IpParse \/ IpUdp \/ IpTcp \/ IpAnswered
  <2>1. PICK p \in Proto,
             pc \in {"top", "gone", "udp", "tcp", "answer", "reply", "echo"} : Goes(p, pc)
    BY <1>7, HandlerGoes, IpParseGoes DEF Proto
  <2>2. \A q \in Proto : At(q, "receive")' => At(q, "receive")
    BY <2>1, GoesThere DEF At
  <2> QED BY <1>7, <2>2
          DEF ArpParse, IpDrop, IpParse, IpUdp, IpTcp, IpAnswered, stop, history
<1>8. CASE Loopback
  <2>1. \A q \in Proto : At(q, "receive")' => At(q, "receive")
    BY <1>8, LoopbackSends, GoesThere DEF At, Proto
  <2> QED BY <1>8, <2>1, LoopbackSends
<1>9. CASE Listen \/ Lock \/ CallerAnswered \/ NetShutdown \/ Close \/ UNCHANGED vars
  BY <1>9 DEF Listen, Lock, CallerAnswered, NetShutdown, Close, vars, At, stop, history
<1> QED BY <1>1, <1>2, <1>3, <1>4, <1>5, <1>6, <1>7, <1>8, <1>9, Steps
-----------------------------------------------------------------------------
(***************************************************************************)
(* The theorems.                                                           *)
(***************************************************************************)
LEMMA Initially == Init => IInv
<1> SUFFICES ASSUME Init PROVE IInv
  OBVIOUS
<1>1. TypeOK
  <2>1. \A p \in Proto : chan[p] = <<>>
    BY DEF Init
  <2>2. chan \in [Proto -> Seq(Item)] /\ \A p \in Proto : Len(chan[p]) <= Cap
    BY <2>1, NetAssumption DEF Init
  <2>3. rx \in [Proto -> [pc : Place, item : Item]]
    BY DEF Init, Item, Place
  <2>4. owed \in [Proto -> Number] /\ late \in [Proto \cup {"dev"} -> Nat]
    BY NetAssumption DEF Init, Number
  <2>5. unread \in 0 .. UdpCap /\ handed \in Nat
    BY NetAssumption DEF Init
  <2>6. dev \in [pc : {"top", "read", "pass", "gone"}, proto : Proto]
    BY DEF Init, DevAt, Proto
  <2> QED BY <2>2, <2>3, <2>4, <2>5, <2>6 DEF Init, TypeOK
<1>2. \A p \in Proto : Frames(chan[p]) = {}
  BY DEF Init, Frames
<1>3. Numbered
  <2>1. dev.pc # "pass" /\ \A p \in Proto : owed[p] = 0 /\ buf.n = 0 /\ ~Passing(p)
    BY DEF Init, NoFrame, Passing, DevAt
  <2>2. \A p \in Proto : Cardinality(Frames(chan[p])) = 0
    BY <1>2, FS_EmptySet
  <2> QED BY <1>2, <2>1, <2>2 DEF Numbered, OnTheWay
<1>4. Counted /\ Stopping
  BY NetAssumption DEF Init, Counted, Looks, At, Stopping, DevAt, Proto
<1> QED BY <1>1, <1>3, <1>4 DEF IInv

THEOREM Inductive == Spec => []IInv
<1>1. IInv /\ [Next]_vars => IInv'
  BY TypeStep, NumberedStep, CountedStep, StoppingStep DEF IInv
<1> QED BY <1>1, Initially, PTL DEF Spec

\* The state is well typed, and no channel holds more than its capacity.
THEOREM TypeCorrect == Spec => []TypeOK
<1>1. IInv => TypeOK
  BY DEF IInv
<1> QED BY <1>1, Inductive, PTL

\* No frame is lost or overtaken between the device and the handler of its
\* protocol, although the channel has a capacity and the handler may be kept
\* for as long as it likes.
THEOREM FramesArrive == Spec => []NothingLost
<1>1. IInv => NothingLost
  BY DEF IInv, NothingLost, Numbered, OnTheWay
<1> QED BY <1>1, Inductive, PTL

\* The content of the one buffer is handed up at most as often as the channel,
\* the handler and the device together have room for references to it.
THEOREM RepeatsAreBounded == Spec => []RepeatedAtMost
<1>1. IInv => RepeatedAtMost
  <2> SUFFICES ASSUME IInv PROVE RepeatedAtMost
    OBVIOUS
  <2>1. handed \in Nat /\ owed["ip"] \in Nat /\ Cap \in Nat
    BY NetAssumption DEF IInv, TypeOK, Number, Proto
  <2> QED BY <2>1 DEF IInv, Counted, RepeatedAtMost
<1> QED BY <1>1, Inductive, PTL

\* After the shutdown each handler, and the device, takes at most one more
\* item.
THEOREM ShutdownIsSeen == Spec => []OneAfterShutdown
<1>1. IInv => OneAfterShutdown
  BY DEF IInv, TypeOK, Stopping, OneAfterShutdown
<1> QED BY <1>1, Inductive, PTL
=============================================================================
