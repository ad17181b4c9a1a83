-------------------------------- MODULE Udp ---------------------------------
(***************************************************************************)
(* The sockets of UDP, pkg/udp/pcb.go and protocol.go: a table of pcbs, a  *)
(* queue of received datagrams for each, the mutex, the handler that IP    *)
(* calls for a datagram, and users that call Open, Bind, Close, Send and   *)
(* Listen from their own goroutines.                                       *)
(*                                                                         *)
(* Only the handler keeps the mutex from one step to another: while it     *)
(* waits for room in a queue.  The other critical sections are one step.   *)
(***************************************************************************)
EXTENDS Integers, SequencesExt

CONSTANTS
    Socket, User,
    AddrAny,      \* ip.AddrAny
    Addr,         \* the other addresses
    Unicast,      \* the address of the interface that leads to the peers
    Port,         \* the ports, of which 0 is none
    BufSize,      \* pcbBufSize
    Binds,        \* the endpoints Bind is called with
    Datagram,     \* the datagrams that arrive: their dst, and who sent them
    Calls         \* User -> the calls it may make

Endpoint == [addr : Addr \cup {AddrAny}, port : Port]
ZeroEndpoint == [addr |-> AddrAny, port |-> 0]
Idle == [op |-> "idle"]

\* What a user may call.  Send copies local into a variable of its own, src.
Request ==
    [op : {"open", "close"}, pcb : Socket]
    \cup [op : {"bind"}, pcb : Socket, to : Binds]
    \cup [op : {"listen"}, pcb : Socket, block : BOOLEAN]
    \cup [op : {"send"}, pcb : Socket, src : {ZeroEndpoint}]

ASSUME UdpAssumption ==
    /\ AddrAny \notin Addr /\ Unicast \in Addr /\ 0 \in Port
    /\ BufSize \in Nat \ {0}
    /\ Binds \subseteq Endpoint
    /\ \A d \in Datagram : d.dst \in Endpoint
    /\ \A u \in User : Calls[u] \subseteq Request

VARIABLES
    pcbs,       \* the table
    opened,     \* the sockets that exist
    local,      \* Socket -> its endpoint
    rxQueue,    \* Socket -> its channel
    handler,    \* what the handler holds the mutex for: [pcb, data], if anything
    call        \* User -> the call it is in

vars == <<pcbs, opened, local, rxQueue, handler, call>>
-----------------------------------------------------------------------------
\* Slip for ImplementsService: the mutex is unlocked before the wait for room.
HeldSlip == FALSE

Held == handler # {}

Returns(u) == call' = [call EXCEPT ![u] = Idle]

Makes(u, op) == call[u].op = op

\* A goroutine calls one of the functions, with a pcb that Open has returned.
\* Open makes a new one.
Call(u, c) ==
    /\ call[u] = Idle
    /\ c.op = "open" <=> c.pcb \notin opened
    /\ \A v \in User : Makes(v, "open") => call[v].pcb # c.pcb
    /\ call' = [call EXCEPT ![u] = c]
    /\ UNCHANGED <<pcbs, opened, local, rxQueue, handler>>

pcbSelect(e) == SelectInSeq(pcbs, LAMBDA s : local[s] = e)

Open(u) ==
    /\ Makes(u, "open") /\ ~Held
    /\ pcbs' = Append(pcbs, call[u].pcb)
    /\ opened' = opened \cup {call[u].pcb}
    /\ Returns(u)
    /\ UNCHANGED <<local, rxQueue, handler>>

\* A pcb that is not in the table is answered with an error.
Close(u) ==
    /\ Makes(u, "close") /\ ~Held
    /\ LET index == SelectInSeq(pcbs, LAMBDA s : s = call[u].pcb)
       IN  pcbs' = IF index = 0 THEN pcbs ELSE RemoveAt(pcbs, index)
    /\ Returns(u)
    /\ UNCHANGED <<opened, local, rxQueue, handler>>

\* The pcb need not be in the table.
Bind(u) ==
    /\ Makes(u, "bind") /\ ~Held
    /\ local' = IF pcbSelect(call[u].to) # 0 THEN local
                ELSE [local EXCEPT ![call[u].pcb] = call[u].to]
    /\ Returns(u)
    /\ UNCHANGED <<pcbs, opened, rxQueue, handler>>

\* Slip for CallsReturn: every Listen waits.
ListenSlip(u) ==
    /\ Makes(u, "listen") /\ rxQueue[call[u].pcb] # <<>>
    /\ rxQueue' = [rxQueue EXCEPT ![call[u].pcb] = Tail(@)]
    /\ Returns(u)
    /\ UNCHANGED <<pcbs, opened, local, handler>>

Listen(u) ==
    /\ Makes(u, "listen")
    /\ LET s == call[u].pcb IN
        \/ /\ rxQueue[s] # <<>>
           /\ rxQueue' = [rxQueue EXCEPT ![s] = Tail(@)]
        \/ /\ rxQueue[s] = <<>> /\ ~call[u].block
           /\ UNCHANGED rxQueue
    /\ Returns(u)
    /\ UNCHANGED <<pcbs, opened, local, handler>>
-----------------------------------------------------------------------------
(***************************************************************************)
(* Send reads local without the mutex, its two fields one after the other. *)
(***************************************************************************)
SendTo(u, op, src) == call' = [call EXCEPT ![u].op = op, ![u].src = src]

SendReadsAddr(u) ==
    /\ Makes(u, "send")
    /\ SendTo(u, "sendPort", [call[u].src EXCEPT !.addr = local[call[u].pcb].addr])
    /\ UNCHANGED <<pcbs, opened, local, rxQueue, handler>>

\* There may be no route to the destination.
SendReadsPort(u) ==
    /\ Makes(u, "sendPort")
    /\ LET addr == call[u].src.addr
           port == local[call[u].pcb].port
           src == [addr |-> IF addr = AddrAny THEN Unicast ELSE addr, port |-> port]
       IN  \/ addr = AddrAny /\ Returns(u)
           \/ SendTo(u, IF port = 0 THEN "sendSearch" ELSE "sendOut", src)
    /\ UNCHANGED <<pcbs, opened, local, rxQueue, handler>>

\* The pcbs the search may come upon.
Found(u) == {s \in ToSet(pcbs) : local[s].addr = call[u].src.addr}

\* pcb.go:121-124: p <= PortMax holds for every uint16, so the loop ends
\* only at a port that a pcb of the address HAS, and passes port 0 on its way.
\* It runs without the mutex, and comes upon any of the pcbs.
SendSearch(u) ==
    /\ Makes(u, "sendSearch")
    /\ \E s \in Found(u) :
        IF local[s].port = 0 THEN Returns(u) ELSE SendTo(u, "sendOut", local[s])
    /\ UNCHANGED <<pcbs, opened, local, rxQueue, handler>>

\* TxHandler: whether the datagram leaves is up to IP.
SendOut(u) ==
    /\ Makes(u, "sendOut")
    /\ Returns(u)
    /\ UNCHANGED <<pcbs, opened, local, rxQueue, handler>>
-----------------------------------------------------------------------------
(***************************************************************************)
(* The handler.                                                            *)
(***************************************************************************)
\* Nothing happens to a datagram no pcb is bound for.
RxHandler(d) ==
    /\ ~Held
    /\ LET n == pcbSelect(d.dst) IN n # 0 /\ handler' = {[pcb |-> pcbs[n], data |-> d]}
    /\ UNCHANGED <<pcbs, opened, local, rxQueue, call>>

\* Slip for TypeOK: a datagram too many.
HasRoomSlip(s) == Len(rxQueue[s]) <= BufSize

HasRoom(s) == Len(rxQueue[s]) < BufSize

\* The datagram goes into the queue, and the mutex is unlocked.
RxEnqueue ==
    /\ \E h \in handler :
        /\ HasRoom(h.pcb)
        /\ rxQueue' = [rxQueue EXCEPT ![h.pcb] = Append(@, h.data)]
    /\ handler' = {}
    /\ UNCHANGED <<pcbs, opened, local, call>>
-----------------------------------------------------------------------------
Init ==
    /\ pcbs = <<>> /\ opened = {} /\ handler = {}
    /\ local = [s \in Socket |-> ZeroEndpoint]
    /\ rxQueue = [s \in Socket |-> <<>>]
    /\ call = [u \in User |-> Idle]

Step(u) ==
    \/ Open(u) \/ Close(u) \/ Bind(u) \/ Listen(u)
    \/ SendReadsAddr(u) \/ SendReadsPort(u) \/ SendOut(u)

Next ==
    \/ \E u \in User : Step(u) \/ SendSearch(u) \/ \E c \in Calls[u] : Call(u, c)
    \/ \E d \in Datagram : RxHandler(d)
    \/ RxEnqueue

\* sync.Mutex and channels serve those who wait in turn; the search of Send
\* takes neither, and may miss a pcb that comes and goes.
Fairness ==
    /\ WF_vars(RxEnqueue)
    /\ \A u \in User : SF_vars(Step(u)) /\ WF_vars(SendSearch(u))

Spec == Init /\ [][Next]_vars /\ Fairness
-----------------------------------------------------------------------------
(***************************************************************************)
(* Properties.                                                             *)
(***************************************************************************)

Sending == [op : {"send", "sendPort", "sendSearch", "sendOut"}, pcb : Socket,
            src : Endpoint]
CallType == [op : {"idle"}] \cup Request \cup Sending

\* The type of the state: what Open, Bind and the handler leave in a pcb, the
\* room of a queue, and that a pcb is once in the table.
TypeOK ==
    /\ pcbs \in Seq(opened) /\ opened \subseteq Socket
    /\ IsInjective(pcbs)
    /\ local \in [Socket -> Endpoint]
    /\ rxQueue \in [Socket -> Seq(Datagram)]
    /\ \A s \in Socket : Len(rxQueue[s]) <= BufSize
    /\ handler \subseteq [pcb : opened, data : Datagram]
    /\ call \in [User -> CallType]

\* The sockets are those of UdpService: Bind's check, the search of the
\* handler and its wait for room with the mutex held.
bound == [s \in Socket |-> IF s \in ToSet(pcbs) THEN {local[s]} ELSE {}]
Service == INSTANCE UdpService
               WITH box <- rxQueue, Unbound <- ZeroEndpoint
ImplementsService == Service!Spec

\* A call that will not return before another goroutine acts: a Listen that
\* blocks on an empty queue, a call that needs the mutex while the handler
\* waits for room, a search for a port while no pcb has the address.
Waits(u) ==
    \/ Makes(u, "listen") /\ call[u].block /\ rxQueue[call[u].pcb] = <<>>
    \/ call[u].op \in {"open", "close", "bind"}
       /\ \E h \in handler : ~HasRoom(h.pcb)
    \/ Makes(u, "sendSearch") /\ Found(u) = {}

\* Every call returns, or waits for ever for one of these.
CallsReturn == \A u \in User : []<>(call[u] = Idle) \/ <>[]Waits(u)
=============================================================================
