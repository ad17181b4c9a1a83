----------------------------- MODULE UdpProofs ------------------------------
(***************************************************************************)
(* The sockets of UDP are those of UdpService, for any number of sockets   *)
(* and users and queues of any length.                                     *)
(***************************************************************************)
EXTENDS Udp, SequenceTheorems, WellFoundedInduction, TLAPS

\* Nobody has touched a pcb that Open has not returned.
Fresh == \A s \in Socket \ opened : local[s] = ZeroEndpoint

\* Open is at work on a pcb of its own, the other calls on one that exists.
Owned ==
    /\ \A u \in User : call[u] # Idle => (Makes(u, "open") <=> call[u].pcb \notin opened)
    /\ \A u, v \in User : /\ Makes(u, "open") /\ Makes(v, "open")
                          /\ call[u].pcb = call[v].pcb
                          => u = v

\* The handler waits with one datagram at most, for a socket that is still
\* bound to its destination: the mutex keeps Close and Bind away.
Handling ==
    /\ \A g, h \in handler : g = h
    /\ \A h \in handler : h.pcb \in ToSet(pcbs) /\ local[h.pcb] = h.data.dst

IInv == TypeOK /\ Fresh /\ Owned /\ Handling
-----------------------------------------------------------------------------
(***************************************************************************)
(* The table of pcbs.                                                      *)
(***************************************************************************)

\* A set of numbers that is not empty has a least one.
LEMMA MinIsLeast ==
    ASSUME NEW I \in SUBSET Nat, I # {}
    PROVE  Min(I) \in I /\ \A j \in I : Min(I) <= j
<1>1. PICK i \in I : \A j \in I : ~(<<j, i>> \in OpToRel(<, Nat))
  BY NatLessThanWellFounded, WFMin
<1>2. ASSUME NEW j \in I PROVE i <= j
  <2>1. j < i => <<j, i>> \in OpToRel(<, Nat)
    BY DEF OpToRel
  <2>2. i \in Nat /\ j \in Nat /\ ~(j < i)
    BY <1>1, <2>1
  <2> QED BY <2>2
<1> QED BY <1>2 DEF Min

\* pcbSelect finds a pcb of the endpoint, unless there is none.
LEMMA SelectFinds ==
    ASSUME TypeOK, NEW e
    PROVE  LET n == pcbSelect(e) IN
           \/ n = 0 /\ \A s \in ToSet(pcbs) : local[s] # e
           \/ n \in DOMAIN pcbs /\ n # 0 /\ pcbs[n] \in ToSet(pcbs) /\ local[pcbs[n]] = e
<1> DEFINE I == {i \in 1 .. Len(pcbs) : local[pcbs[i]] = e}
<1>1. pcbSelect(e) = IF I # {} THEN Min(I) ELSE 0
  BY DEF pcbSelect, SelectInSeq
<1>2. DOMAIN pcbs = 1 .. Len(pcbs)
  BY LenProperties DEF TypeOK
<1>3. CASE I = {}
  BY <1>1, <1>2, <1>3 DEF ToSet
<1>4. CASE I # {}
  <2>1. PICK m \in I : m = Min(I)
    <3>1. I \in SUBSET Nat
      OBVIOUS
    <3> HIDE DEF I
    <3> QED BY <1>4, <3>1, MinIsLeast
  <2>2. pcbSelect(e) = m
    BY <1>1, <1>4, <2>1
  <2>3. m \in DOMAIN pcbs /\ m # 0 /\ local[pcbs[m]] = e
    BY <1>2
  <2> QED BY <2>2, <2>3 DEF ToSet
<1> QED BY <1>3, <1>4

\* A table with one pcb more: the pcb is in it, and once.
LEMMA TableGains ==
    ASSUME NEW S, NEW t \in Seq(S), IsInjective(t), NEW s \in S, s \notin ToSet(t)
    PROVE  /\ Append(t, s) \in Seq(S)
           /\ IsInjective(Append(t, s))
           /\ ToSet(Append(t, s)) = ToSet(t) \cup {s}
<1> DEFINE r == Append(t, s)
<1>1. /\ r \in Seq(S) /\ DOMAIN t = 1 .. Len(t) /\ DOMAIN r = 1 .. Len(t) + 1
      /\ Len(t) \in Nat
      /\ r[Len(t) + 1] = s /\ \A i \in 1 .. Len(t) : r[i] = t[i]
  BY AppendProperties, LenProperties
<1> HIDE DEF r
<1>2. ToSet(r) = ToSet(t) \cup {s}
  BY <1>1 DEF ToSet
<1>3. IsInjective(r)
  BY <1>1 DEF IsInjective, ToSet
<1> QED BY <1>1, <1>2, <1>3 DEF r

\* A table with one pcb less.
LEMMA TableLoses ==
    ASSUME NEW S, NEW t \in Seq(S), IsInjective(t), NEW n \in DOMAIN t
    PROVE  /\ RemoveAt(t, n) \in Seq(S)
           /\ IsInjective(RemoveAt(t, n))
           /\ ToSet(RemoveAt(t, n)) = ToSet(t) \ {t[n]}
<1> DEFINE a == SubSeq(t, 1, n - 1)
           b == SubSeq(t, n + 1, Len(t))
           r == RemoveAt(t, n)
<1>1. DOMAIN t = 1 .. Len(t) /\ Len(t) \in Nat /\ n \in 1 .. Len(t)
  BY LenProperties
<1>2. a \in Seq(S) /\ Len(a) = n - 1 /\ \A i \in 1 .. n - 1 : a[i] = t[i]
  BY <1>1, SubSeqProperties
<1>3. b \in Seq(S) /\ Len(b) = Len(t) - n /\ \A i \in 1 .. Len(t) - n : b[i] = t[n + i]
  BY <1>1, SubSeqProperties
<1>4. /\ r \in Seq(S) /\ Len(r) = Len(t) - 1
      /\ \A i \in 1 .. Len(t) - 1 : r[i] = IF i < n THEN t[i] ELSE t[i + 1]
  <2>1. r = a \o b
    BY DEF RemoveAt
  <2> HIDE DEF a, b
  <2>2. /\ r \in Seq(S) /\ Len(r) = Len(a) + Len(b)
        /\ \A i \in 1 .. Len(a) + Len(b) :
              r[i] = IF i <= Len(a) THEN a[i] ELSE b[i - Len(a)]
    BY <1>2, <1>3, <2>1, ConcatProperties
  <2> HIDE DEF r
  <2>3. Len(a) + Len(b) = Len(t) - 1
    BY <1>1, <1>2, <1>3
  <2>4. ASSUME NEW i \in 1 .. Len(t) - 1, i < n PROVE r[i] = t[i]
    BY <1>1, <1>2, <2>2, <2>3, <2>4
  <2>5. ASSUME NEW i \in 1 .. Len(t) - 1, ~(i < n) PROVE r[i] = t[i + 1]
    <3>1. i - (n - 1) \in 1 .. Len(t) - n /\ n + (i - (n - 1)) = i + 1
      BY <1>1, <2>5
    <3>2. r[i] = b[i - (n - 1)]
      BY <1>1, <1>2, <2>2, <2>3, <2>5
    <3> QED BY <1>3, <3>1, <3>2
  <2> QED BY <2>2, <2>3, <2>4, <2>5
<1>5. DOMAIN r = 1 .. Len(t) - 1
  BY <1>4, LenProperties
<1> HIDE DEF r
<1>6. IsInjective(r)
  <2> SUFFICES ASSUME NEW i \in DOMAIN r, NEW j \in DOMAIN r, r[i] = r[j]
               PROVE  i = j
    BY DEF IsInjective
  <2> DEFINE k(m) == IF m < n THEN m ELSE m + 1
  <2>1. k(i) \in DOMAIN t /\ k(j) \in DOMAIN t /\ r[i] = t[k(i)] /\ r[j] = t[k(j)]
    BY <1>1, <1>4, <1>5
  <2>2. k(i) = k(j)
    BY <2>1 DEF IsInjective
  <2> QED BY <1>1, <1>5, <2>2
<1>7. ToSet(r) = ToSet(t) \ {t[n]}
  <2>1. \A i \in DOMAIN r : r[i] \in ToSet(t) \ {t[n]}
    BY <1>1, <1>4, <1>5 DEF IsInjective, ToSet
  <2>2. \A i \in DOMAIN t \ {n} : t[i] \in ToSet(r)
    <3> TAKE i \in DOMAIN t \ {n}
    <3>1. CASE i < n
      <4>1. i \in DOMAIN r /\ r[i] = t[i]
        BY <1>1, <1>4, <1>5, <3>1
      <4> QED BY <4>1 DEF ToSet
    <3>2. CASE i > n
      <4>1. i - 1 \in DOMAIN r /\ r[i - 1] = t[i]
        BY <1>1, <1>4, <1>5, <3>2
      <4> QED BY <4>1 DEF ToSet
    <3> QED BY <1>1, <3>1, <3>2
  <2> QED BY <2>1, <2>2 DEF ToSet
<1> QED BY <1>4, <1>6, <1>7 DEF r
-----------------------------------------------------------------------------
(***************************************************************************)
(* The calls.                                                              *)
(***************************************************************************)

\* A call that is one has a pcb, and what its function needs.
LEMMA CallShape ==
    ASSUME TypeOK, NEW u \in User
    PROVE  /\ call[u] \in CallType
           /\ call[u].op # "idle" <=> call[u] # Idle
           /\ call[u] # Idle => call[u].pcb \in Socket
           /\ Makes(u, "bind") => call[u].to \in Endpoint
           /\ call[u].op \in {"send", "sendPort", "sendSearch", "sendOut"} =>
                 call[u] \in Sending
<1>1. call[u] \in CallType
  BY DEF TypeOK
<1>2. CASE call[u] \in [op : {"idle"}]
  BY <1>1, <1>2 DEF Idle, Makes
<1>3. CASE call[u] \in Sending
  <2>1. call[u].op # "idle" /\ call[u].op # "bind" /\ call[u].pcb \in Socket
    BY <1>3 DEF Sending
  <2> QED BY <1>1, <1>3, <2>1 DEF Idle, Makes
<1>4. CASE call[u] \in Request
  <2>1. call[u].op # "idle" /\ call[u].pcb \in Socket
    BY <1>4 DEF Request
  <2>2. Makes(u, "bind") => call[u].to \in Endpoint
    BY <1>4, UdpAssumption DEF Request, Makes
  <2>3. call[u].op \in {"send", "sendPort", "sendSearch", "sendOut"} => call[u] \in Sending
    <3>1. ZeroEndpoint \in Endpoint
      BY UdpAssumption DEF ZeroEndpoint, Endpoint
    <3> QED BY <1>4, <3>1 DEF Request, Sending
  <2> QED BY <1>1, <2>1, <2>2, <2>3 DEF Idle, Makes
<1> QED BY <1>1, <1>2, <1>3, <1>4 DEF CallType

\* What the invariant says of the calls, and what it says of the pcbs.
CallsOK == call \in [User -> CallType] /\ Owned

PcbsOK ==
    /\ pcbs \in Seq(opened) /\ opened \subseteq Socket /\ IsInjective(pcbs)
    /\ local \in [Socket -> Endpoint]
    /\ rxQueue \in [Socket -> Seq(Datagram)]
    /\ \A s \in Socket : Len(rxQueue[s]) <= BufSize
    /\ handler \subseteq [pcb : opened, data : Datagram]
    /\ Fresh /\ Handling

LEMMA TwoParts == IInv <=> CallsOK /\ PcbsOK
  BY DEF IInv, CallsOK, PcbsOK, TypeOK

\* A call that returns.
LEMMA ReturnsKeeps ==
    ASSUME IInv, NEW u \in User, Returns(u), UNCHANGED opened
    PROVE  CallsOK'
<1>1. call' \in [User -> CallType]
  BY DEF IInv, TypeOK, Returns, Idle, CallType
<1>2. call'[u] = Idle /\ \A v \in User \ {u} : call'[v] = call[v]
  BY DEF IInv, TypeOK, Returns
<1>3. Idle.op = "idle"
  BY DEF Idle
<1> QED BY <1>1, <1>2, <1>3
        DEF IInv, CallsOK, Owned, Makes

\* A Send that goes on, with the source it has so far.
LEMMA SendsKeeps ==
    ASSUME IInv, NEW u \in User, UNCHANGED opened,
           call[u].op \in {"send", "sendPort", "sendSearch"},
           NEW op \in {"sendPort", "sendSearch", "sendOut"}, NEW src \in Endpoint,
           SendTo(u, op, src)
    PROVE  CallsOK'
<1>1. call[u] \in Sending /\ u \in DOMAIN call
  BY CallShape DEF IInv, TypeOK
<1>2. /\ call'[u] \in Sending /\ call'[u].op = op /\ call'[u].src = src
      /\ call'[u].pcb = call[u].pcb
      /\ \A v \in User \ {u} : call'[v] = call[v]
      /\ call' \in [User -> CallType]
  BY <1>1 DEF IInv, TypeOK, SendTo, Sending, CallType
<1>3. call[u] # Idle /\ ~Makes(u, "open")
  BY DEF Idle, Makes
<1> QED BY <1>2, <1>3 DEF IInv, CallsOK, Owned, Makes
-----------------------------------------------------------------------------
(***************************************************************************)
(* Each step keeps the invariant.                                          *)
(***************************************************************************)
LEMMA CallStep ==
    ASSUME IInv, NEW u \in User, NEW c \in Calls[u], Call(u, c)
    PROVE  IInv'
<1> USE DEF IInv
<1>1. c \in Request /\ c.pcb \in Socket /\ c.op \in {"open", "close", "bind", "listen", "send"}
  BY UdpAssumption DEF Request
<1>2. c # Idle
  BY <1>1 DEF Idle
<1>3. /\ call'[u] = c /\ \A v \in User \ {u} : call'[v] = call[v]
      /\ call' \in [User -> CallType]
  BY <1>1 DEF Call, TypeOK, CallType
<1>4. Owned'
  <2>1. c.op = "open" <=> c.pcb \notin opened
    BY DEF Call
  <2>2. \A v \in User : Makes(v, "open") => call[v].pcb # c.pcb
    BY DEF Call
  <2>3. opened' = opened
    BY DEF Call
  <2> QED BY <1>3, <2>1, <2>2, <2>3 DEF Owned, Makes
<1> QED BY <1>3, <1>4 DEF Call, TypeOK, Fresh, Handling

LEMMA OpenStep ==
    ASSUME IInv, NEW u \in User, Open(u)
    PROVE  IInv'
<1> USE DEF IInv
<1> DEFINE s == call[u].pcb
<1>1. s \in Socket /\ s \notin opened /\ s \notin ToSet(pcbs) /\ pcbs \in Seq(opened \cup {s})
  BY CallShape, SeqMonotonic, LenProperties, ElementOfSeq
     DEF Open, Makes, Owned, Idle, ToSet, TypeOK
<1>2. /\ pcbs' \in Seq(opened') /\ IsInjective(pcbs')
      /\ ToSet(pcbs') = ToSet(pcbs) \cup {s}
  BY <1>1, TableGains DEF Open, TypeOK
<1>3. opened' = opened \cup {s} /\ handler = {} /\ handler' = {}
  BY DEF Open, Held
<1>4. PcbsOK'
  BY <1>1, <1>2, <1>3 DEF Open, TypeOK, PcbsOK, Fresh, Handling
<1>5. call' \in [User -> CallType]
  BY DEF TypeOK, Open, Returns, Idle, CallType
<1>6. call'[u] = Idle /\ \A v \in User \ {u} : call'[v] = call[v]
  BY DEF TypeOK, Open, Returns
<1>7. Idle.op = "idle"
  BY DEF Idle
<1>8. Owned'
  BY <1>3, <1>6, <1>7 DEF Owned, Makes, Open
<1> QED BY <1>4, <1>5, <1>8, TwoParts DEF CallsOK, PcbsOK, TypeOK

\* The pcb that Close finds at index is the one it is called with.
LEMMA CloseTakes ==
    ASSUME IInv, NEW u \in User, Close(u)
    PROVE  /\ pcbs' \in Seq(opened) /\ IsInjective(pcbs')
           /\ ToSet(pcbs') = ToSet(pcbs) \ {call[u].pcb}
<1> DEFINE s == call[u].pcb
           I == {i \in 1 .. Len(pcbs) : pcbs[i] = s}
           index == IF I # {} THEN Min(I) ELSE 0
<1> USE DEF IInv, TypeOK
<1>1. pcbs' = IF index = 0 THEN pcbs ELSE RemoveAt(pcbs, index)
  BY DEF Close, SelectInSeq
<1>2. DOMAIN pcbs = 1 .. Len(pcbs)
  BY LenProperties
<1>3. CASE I = {}
  BY <1>1, <1>2, <1>3 DEF ToSet
<1>4. CASE I # {}
  <2>1. I \in SUBSET Nat
    OBVIOUS
  <2>2. PICK m \in I : m = Min(I)
    <3> HIDE DEF I
    <3> QED BY <1>4, <2>1, MinIsLeast
  <2>3. m \in DOMAIN pcbs /\ pcbs[m] = s /\ m # 0
    BY <1>2
  <2>4. pcbs' = RemoveAt(pcbs, m)
    BY <1>1, <1>4, <2>2, <2>3
  <2> HIDE DEF s
  <2> QED BY <2>3, <2>4, TableLoses DEF s
<1> QED BY <1>3, <1>4

LEMMA CloseStep ==
    ASSUME IInv, NEW u \in User, Close(u)
    PROVE  IInv'
<1>1. PcbsOK'
  <2>1. handler = {} /\ UNCHANGED <<opened, local, rxQueue, handler>>
    BY DEF Close, Held
  <2> QED BY <2>1, CloseTakes DEF IInv, TypeOK, PcbsOK, Fresh, Handling
<1>2. CallsOK'
  BY ReturnsKeeps DEF Close
<1> QED BY <1>1, <1>2 DEF IInv, CallsOK, PcbsOK, TypeOK

LEMMA BindStep ==
    ASSUME IInv, NEW u \in User, Bind(u)
    PROVE  IInv'
<1>1. call[u].pcb \in opened /\ call[u].to \in Endpoint
  BY CallShape DEF IInv, Bind, Makes, Owned, Idle
<1>2. PcbsOK'
  <2>1. handler = {} /\ UNCHANGED <<pcbs, opened, rxQueue, handler>>
    BY DEF Bind, Held
  <2>2. local' \in [Socket -> Endpoint] /\ \A s \in Socket \ opened : local'[s] = local[s]
    BY <1>1 DEF Bind, IInv, TypeOK
  <2> QED BY <2>1, <2>2 DEF IInv, TypeOK, PcbsOK, Fresh, Handling
<1>3. CallsOK'
  BY ReturnsKeeps DEF Bind
<1> QED BY <1>2, <1>3 DEF IInv, CallsOK, PcbsOK, TypeOK

LEMMA ListenStep ==
    ASSUME IInv, NEW u \in User, Listen(u)
    PROVE  IInv'
<1>1. PcbsOK'
  <2>1. UNCHANGED <<pcbs, opened, local, handler>>
    BY DEF Listen
  <2>2. /\ rxQueue' \in [Socket -> Seq(Datagram)]
        /\ \A s \in Socket : Len(rxQueue'[s]) <= BufSize
    <3> DEFINE s == call[u].pcb
    <3>1. s \in Socket
      BY CallShape DEF IInv, Listen, Makes, Idle
    <3>2. CASE rxQueue[s] # <<>> /\ rxQueue' = [rxQueue EXCEPT ![s] = Tail(@)]
      <4>1. rxQueue[s] \in Seq(Datagram) /\ Len(rxQueue[s]) <= BufSize
        BY <3>1 DEF IInv, TypeOK
      <4>2. /\ Tail(rxQueue[s]) \in Seq(Datagram) /\ Len(Tail(rxQueue[s])) <= BufSize
        BY <3>2, <4>1, HeadTailProperties, LenProperties, UdpAssumption
      <4> QED BY <3>1, <3>2, <4>2 DEF IInv, TypeOK
    <3>3. CASE rxQueue' = rxQueue
      BY <3>3 DEF IInv, TypeOK
    <3> QED BY <3>2, <3>3 DEF Listen
  <2> QED BY <2>1, <2>2 DEF IInv, TypeOK, PcbsOK, Fresh, Handling
<1>2. CallsOK'
  BY ReturnsKeeps DEF Listen
<1> QED BY <1>1, <1>2 DEF IInv, CallsOK, PcbsOK, TypeOK

\* The steps of Send change nothing but the call.
LEMMA SendStep ==
    ASSUME IInv, NEW u \in User,
           SendReadsAddr(u) \/ SendReadsPort(u) \/ SendSearch(u) \/ SendOut(u)
    PROVE  IInv'
<1>1. UNCHANGED <<pcbs, opened, local, rxQueue, handler>>
  BY DEF SendReadsAddr, SendReadsPort, SendSearch, SendOut
<1>2. call[u] \in Sending /\ call[u].pcb \in Socket /\ call[u].src \in Endpoint
  BY CallShape DEF IInv, SendReadsAddr, SendReadsPort, SendSearch, SendOut, Makes, Sending
<1>3. \A s \in Socket : local[s] \in Endpoint
  BY DEF IInv, TypeOK
<1>4. CASE SendReadsAddr(u)
  <2> DEFINE src == [call[u].src EXCEPT !.addr = local[call[u].pcb].addr]
  <2>1. src \in Endpoint
    BY <1>2, <1>3 DEF Endpoint
  <2>2. SendTo(u, "sendPort", src)
    BY <1>4 DEF SendReadsAddr
  <2> HIDE DEF src
  <2>3. CallsOK'
    BY <1>1, <1>4, <2>1, <2>2, SendsKeeps DEF SendReadsAddr, Makes
  <2> QED BY <1>1, <2>3 DEF IInv, CallsOK, TypeOK, Fresh, Handling
<1>5. CASE SendReadsPort(u)
  <2> DEFINE addr == call[u].src.addr
             port == local[call[u].pcb].port
             src == [addr |-> IF addr = AddrAny THEN Unicast ELSE addr, port |-> port]
  <2>1. src \in Endpoint
    BY <1>2, <1>3, UdpAssumption DEF Endpoint
  <2>2. Returns(u) \/ SendTo(u, IF port = 0 THEN "sendSearch" ELSE "sendOut", src)
    BY <1>5 DEF SendReadsPort
  <2>3. CASE Returns(u)
    BY <1>1, <2>3, ReturnsKeeps DEF IInv, CallsOK, TypeOK, Fresh, Handling
  <2>4. CASE SendTo(u, IF port = 0 THEN "sendSearch" ELSE "sendOut", src)
    <3> HIDE DEF src
    <3>1. CallsOK'
      BY <1>1, <1>5, <2>1, <2>4, SendsKeeps DEF SendReadsPort, Makes
    <3> QED BY <1>1, <3>1 DEF IInv, CallsOK, TypeOK, Fresh, Handling
  <2> QED BY <2>2, <2>3, <2>4
<1>6. CASE SendSearch(u)
  <2>1. PICK s \in Found(u) :
            IF local[s].port = 0 THEN Returns(u) ELSE SendTo(u, "sendOut", local[s])
    BY <1>6 DEF SendSearch
  <2>2. local[s] \in Endpoint
    BY <1>3, ElementOfSeq, LenProperties DEF Found, ToSet, IInv, TypeOK
  <2>3. CASE Returns(u)
    BY <1>1, <2>3, ReturnsKeeps DEF IInv, CallsOK, TypeOK, Fresh, Handling
  <2>4. CASE local[s].port # 0 /\ SendTo(u, "sendOut", local[s])
    <3>1. CallsOK'
      BY <1>1, <1>6, <2>2, <2>4, SendsKeeps DEF SendSearch, Makes
    <3> QED BY <1>1, <3>1 DEF IInv, CallsOK, TypeOK, Fresh, Handling
  <2> QED BY <2>1, <2>3, <2>4
<1>7. CASE SendOut(u)
  BY <1>1, <1>7, ReturnsKeeps DEF SendOut, IInv, CallsOK, TypeOK, Fresh, Handling
<1> QED BY <1>4, <1>5, <1>6, <1>7

\* The handler takes a datagram for the pcb that it found.
LEMMA RxHandlerStep ==
    ASSUME IInv, NEW d \in Datagram, RxHandler(d)
    PROVE  IInv'
<1>1. PICK n : n = pcbSelect(d.dst) /\ n # 0 /\ handler' = {[pcb |-> pcbs[n], data |-> d]}
  BY DEF RxHandler
<1>2. pcbs[n] \in ToSet(pcbs) /\ local[pcbs[n]] = d.dst
  BY <1>1, SelectFinds DEF IInv
<1>3. pcbs[n] \in opened
  BY <1>2, ElementOfSeq, LenProperties DEF ToSet, IInv, TypeOK
<1>4. UNCHANGED <<pcbs, opened, local, rxQueue, call>>
  BY DEF RxHandler
<1>5. handler' \subseteq [pcb : opened, data : Datagram] /\ Handling'
  BY <1>1, <1>2, <1>3, <1>4 DEF Handling
<1> QED BY <1>4, <1>5
        DEF IInv, TypeOK, Fresh, Owned, Makes

LEMMA RxEnqueueStep ==
    ASSUME IInv, RxEnqueue
    PROVE  IInv'
<1>1. PICK h \in handler :
          HasRoom(h.pcb) /\ rxQueue' = [rxQueue EXCEPT ![h.pcb] = Append(@, h.data)]
  BY DEF RxEnqueue
<1>2. h.pcb \in Socket /\ h.data \in Datagram
  BY DEF IInv, TypeOK
<1>3. /\ rxQueue' \in [Socket -> Seq(Datagram)]
      /\ \A s \in Socket : Len(rxQueue'[s]) <= BufSize
  <2>1. rxQueue[h.pcb] \in Seq(Datagram) /\ Len(rxQueue[h.pcb]) < BufSize
    BY <1>1, <1>2 DEF IInv, TypeOK, HasRoom
  <2>2. /\ Append(rxQueue[h.pcb], h.data) \in Seq(Datagram)
        /\ Len(Append(rxQueue[h.pcb], h.data)) <= BufSize
    BY <1>2, <2>1, AppendProperties, LenProperties, UdpAssumption
  <2> QED BY <1>1, <1>2, <2>2 DEF IInv, TypeOK
<1>4. handler' = {} /\ UNCHANGED <<pcbs, opened, local, call>>
  BY DEF RxEnqueue
<1> QED BY <1>3, <1>4
        DEF IInv, TypeOK, Fresh, Handling, Owned, Makes

LEMMA Initially == Init => IInv
<1> SUFFICES ASSUME Init PROVE IInv
  OBVIOUS
<1>1. /\ pcbs \in Seq(opened) /\ IsInjective(pcbs)
      /\ \A s \in Socket : rxQueue[s] \in Seq(Datagram) /\ Len(rxQueue[s]) = 0
  BY DEF Init, IsInjective
<1>2. ZeroEndpoint \in Endpoint
  BY UdpAssumption DEF ZeroEndpoint, Endpoint
<1>3. TypeOK
  BY <1>1, <1>2, UdpAssumption DEF Init, TypeOK, CallType, Idle
<1>4. \A u \in User : call[u] = Idle /\ Idle.op = "idle"
  BY DEF Init, Idle
<1>5. Fresh /\ Owned /\ Handling
  BY <1>4 DEF Init, Fresh, Owned, Handling, Makes
<1> QED BY <1>3, <1>5 DEF IInv

THEOREM Inductive == Spec => []IInv
<1>1. IInv /\ [Next]_vars => IInv'
  <2> SUFFICES ASSUME IInv, [Next]_vars PROVE IInv'
    OBVIOUS
  <2>1. CASE UNCHANGED vars
    BY <2>1 DEF vars, IInv, TypeOK, Fresh, Owned, Handling, Makes
  <2>2. CASE \E u \in User : Step(u) \/ SendSearch(u)
    BY <2>2, OpenStep, CloseStep, BindStep, ListenStep, SendStep DEF Step
  <2> QED BY <2>1, <2>2, CallStep, RxHandlerStep, RxEnqueueStep DEF Next
<1> QED BY <1>1, Initially, PTL DEF Spec

\* The state is well typed: a queue does not overflow, and a pcb is once in
\* the table.
THEOREM TypeCorrect == Spec => []TypeOK
<1>1. IInv => TypeOK
  BY DEF IInv
<1> QED BY <1>1, Inductive, PTL
-----------------------------------------------------------------------------
(***************************************************************************)
(* The sockets are those of UdpService.                                    *)
(***************************************************************************)
SVars == Service!vars

\* What leaves the table, what local says of its pcbs and the queues leaves
\* the service.
LEMMA Stutters ==
    ASSUME UNCHANGED <<pcbs, local, rxQueue>> PROVE UNCHANGED SVars
  BY DEF SVars, Service!vars, bound

LEMMA OpenOpens ==
    ASSUME IInv, NEW u \in User, Open(u) PROVE Service!Open(call[u].pcb)
<1> DEFINE s == call[u].pcb
<1>1. s \in Socket \ opened /\ local[s] = ZeroEndpoint
  BY CallShape DEF IInv, Open, Makes, Owned, Idle, Fresh
<1>2. s \notin ToSet(pcbs) /\ pcbs \in Seq(Socket)
  BY <1>1, ElementOfSeq, LenProperties, SeqMonotonic DEF ToSet, IInv, TypeOK
<1>3. ToSet(pcbs') = ToSet(pcbs) \cup {s}
  BY <1>1, <1>2, TableGains DEF Open, IInv, TypeOK
<1>4. local' = local /\ rxQueue' = rxQueue
  BY DEF Open
<1> HIDE DEF s
<1>5. bound' = [bound EXCEPT ![s] = {ZeroEndpoint}] /\ bound[s] = {}
  BY <1>1, <1>2, <1>3, <1>4 DEF bound
<1> QED BY <1>4, <1>5 DEF Service!Open, Service!SetBound, s

LEMMA CloseCloses ==
    ASSUME IInv, NEW u \in User, Close(u)
    PROVE  Service!Close(call[u].pcb) \/ UNCHANGED SVars
<1> DEFINE s == call[u].pcb
<1>1. s \in Socket
  BY CallShape DEF IInv, Close, Makes, Idle
<1>2. ToSet(pcbs') = ToSet(pcbs) \ {s} /\ local' = local /\ rxQueue' = rxQueue
  BY CloseTakes DEF Close
<1> HIDE DEF s
<1>3. CASE s \in ToSet(pcbs)
  <2>1. bound' = [bound EXCEPT ![s] = {}] /\ bound[s] # {}
    BY <1>1, <1>2, <1>3 DEF bound
  <2> QED BY <1>2, <2>1 DEF Service!Close, Service!SetBound, s
<1>4. CASE s \notin ToSet(pcbs)
  <2>1. bound' = bound
    BY <1>2, <1>4 DEF bound
  <2> QED BY <1>2, <2>1 DEF SVars, Service!vars
<1> QED BY <1>3, <1>4

LEMMA BindBinds ==
    ASSUME IInv, NEW u \in User, Bind(u)
    PROVE  Service!Bind(call[u].pcb, call[u].to) \/ UNCHANGED SVars
<1> DEFINE s == call[u].pcb
           e == call[u].to
<1>1. s \in Socket /\ pcbs' = pcbs /\ rxQueue' = rxQueue
  BY CallShape DEF IInv, Bind, Makes, Idle
<1>2. CASE local' = local
  BY <1>1, <1>2, Stutters
<1>3. CASE pcbSelect(e) = 0 /\ local' = [local EXCEPT ![s] = e]
  <2>1. \A t \in ToSet(pcbs) : local[t] # e
    BY <1>3, SelectFinds DEF IInv
  <2>2. \A t \in Socket : local'[t] = IF t = s THEN e ELSE local[t]
    BY <1>3 DEF IInv, TypeOK
  <2> HIDE DEF s, e
  <2>3. CASE s \in ToSet(pcbs)
    <3>1. /\ bound' = [bound EXCEPT ![s] = {e}] /\ bound[s] # {}
          /\ \A t \in Socket \ {s} : bound[t] # {e}
      BY <1>1, <2>1, <2>2, <2>3 DEF bound
    <3> QED BY <1>1, <3>1 DEF Service!Bind, Service!SetBound, s, e
  <2>4. CASE s \notin ToSet(pcbs)
    <3>1. bound' = bound
      BY <1>1, <2>2, <2>4 DEF bound
    <3> QED BY <1>1, <3>1 DEF SVars, Service!vars
  <2> QED BY <2>3, <2>4
<1> QED BY <1>2, <1>3 DEF Bind

LEMMA ListenReads ==
    ASSUME IInv, NEW u \in User, Listen(u)
    PROVE  Service!Read(call[u].pcb) \/ UNCHANGED SVars
<1>1. bound' = bound
  BY DEF Listen, bound
<1> QED BY <1>1 DEF Listen, Service!Read, SVars, Service!vars

\* The handler accepts at the moment it puts the datagram into the queue.
LEMMA EnqueueAccepts ==
    ASSUME IInv, RxEnqueue
    PROVE  \E s \in Socket, d \in Datagram : Service!Accept(s, d)
<1>1. PICK h \in handler : rxQueue' = [rxQueue EXCEPT ![h.pcb] = Append(@, h.data)]
  BY DEF RxEnqueue
<1>2. h.pcb \in Socket /\ h.data \in Datagram
  BY DEF IInv, TypeOK
<1>3. bound[h.pcb] = {h.data.dst} /\ bound' = bound
  BY <1>2 DEF IInv, Handling, RxEnqueue, bound
<1>4. Service!Accept(h.pcb, h.data)
  BY <1>1, <1>3 DEF Service!Accept
<1> QED BY <1>2, <1>4

\* The sockets of pkg/udp keep what UdpService promises: no two share an
\* endpoint, a datagram goes to the one bound to its destination, and is read
\* in the order of the queue.
THEOREM ServiceImplemented == Spec => ImplementsService
<1>1. Init => Service!Init
  <2>1. Init => ToSet(pcbs) = {}
    BY DEF Init, ToSet
  <2> QED BY <2>1 DEF Init, Service!Init, bound
<1>2. IInv /\ [Next]_vars => [Service!Next]_SVars
  <2> SUFFICES ASSUME IInv, [Next]_vars PROVE Service!Next \/ UNCHANGED SVars
    OBVIOUS
  <2>1. CASE UNCHANGED vars
    BY <2>1, Stutters DEF vars
  <2>2. ASSUME NEW u \in User, call[u] # Idle PROVE call[u].pcb \in Socket
    BY <2>2, CallShape DEF IInv
  <2>3. ASSUME NEW u \in User, Step(u) \/ SendSearch(u)
        PROVE  Service!Next \/ UNCHANGED SVars
    <3>1. CASE Open(u)
      BY <2>2, <3>1, OpenOpens DEF Service!Next, Open, Makes, Idle
    <3>2. CASE Close(u)
      <4>1. call[u].pcb \in Socket
        BY <2>2, <3>2 DEF Close, Makes, Idle
      <4> QED BY <3>2, <4>1, CloseCloses DEF Service!Next
    <3>3. CASE Bind(u)
      <4>1. call[u].to \in Endpoint /\ call[u].pcb \in Socket
        BY <3>3, CallShape DEF IInv, Bind, Makes, Idle
      <4> QED BY <3>3, <4>1, BindBinds DEF Service!Next
    <3>4. CASE Listen(u)
      BY <2>2, <3>4, ListenReads DEF Service!Next, Listen, Makes, Idle
    <3>5. CASE SendReadsAddr(u) \/ SendReadsPort(u) \/ SendSearch(u) \/ SendOut(u)
      BY <3>5, Stutters DEF SendReadsAddr, SendReadsPort, SendSearch, SendOut
    <3> QED BY <2>3, <3>1, <3>2, <3>3, <3>4, <3>5 DEF Step
  <2>4. ASSUME NEW u \in User, NEW c \in Calls[u], Call(u, c) PROVE UNCHANGED SVars
    BY <2>4, Stutters DEF Call
  <2>5. ASSUME NEW d \in Datagram, RxHandler(d) PROVE UNCHANGED SVars
    BY <2>5, Stutters DEF RxHandler
  <2>6. CASE RxEnqueue
    BY <2>6, EnqueueAccepts DEF Service!Next
  <2> QED BY <2>1, <2>3, <2>4, <2>5, <2>6 DEF Next
<1> QED BY <1>1, <1>2, Inductive, PTL DEF Spec, ImplementsService, Service!Spec, SVars
=============================================================================
