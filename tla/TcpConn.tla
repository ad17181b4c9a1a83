------------------------------ MODULE TcpConn ------------------------------
(***************************************************************************)
(* Two hosts of Tcp and the network between them: the Client opens a       *)
(* connection actively, the Server passively, the Client's text flows to   *)
(* the Server, and either side closes or aborts.                           *)
(*                                                                         *)
(* The network (pkg/ip and below) promises nothing: a segment on the wire  *)
(* may be delivered late, out of order, any number of times or never.      *)
(* That no segment need ever be delivered is all that safety asks of loss; *)
(* for liveness, Lose takes up to MaxLoss segments off the wire, so that   *)
(* they reach their host only if they are sent again.                      *)
(*                                                                         *)
(* The users follow the discipline of example/tcp and tcp_test.go: one     *)
(* connection each, the Client waits for the answer of a SEND or OPEN      *)
(* before it goes on, and a text is never longer than the window.  With    *)
(* RecvSize = {BufferSize} the Server always reads all there is.           *)
(***************************************************************************)
EXTENDS Tcp

CONSTANTS Client, Server,
          MaxLoss,   \* how many segments the network loses for good
          Uses       \* <<h, k>>: the user of h may make calls of kind k

ASSUME PeersAssumption ==
    /\ MaxLoss \in Nat
    /\ Client # Server
    /\ Host = {Client, Server}
    /\ Uses \subseteq Host \X (Kind \cup {"abort"})

VARIABLE lost  \* the number of segments lost so far

cvars == <<pcb, wire, lost>>

Made(h, kind) == \E c \in Call : pcb[h].call[c] = kind

\* Which call is made next makes no difference: they are used in turn.
Fresh(h) == CHOOSE c \in Call : Idle(h, c)

HasFresh(h) == \E c \in Call : Idle(h, c)

Answered(h) == \A c \in Call : ~Idle(h, c) => pcb[h].errCh[c] # <<>>

ClientUser ==
    /\ HasFresh(Client)
    /\ LET c == Fresh(Client) IN
       \/ /\ ~Made(Client, "open")
          /\ \E iss \in ISS : ActiveOpen(Client, c, Server, iss)
       \/ /\ <<Client, "send">> \in Uses
          /\ pcb[Client].state = "ESTABLISHED" /\ Answered(Client)
          /\ \E d \in SendData \ {<<>>} :
                Len(d) <= pcb[Client].wnd /\ Send(Client, c, d)
       \/ /\ <<Client, "close">> \in Uses
          /\ pcb[Client].state = "ESTABLISHED" /\ Answered(Client)
          /\ Close(Client, c)

ServerUser ==
    /\ HasFresh(Server)
    /\ LET c == Fresh(Server) IN
       \/ ~Made(Server, "open") /\ PassiveOpen(Server, c)
       \/ /\ pcb[Server].state \in {"ESTABLISHED", "CLOSE-WAIT"}
          /\ \/ <<Server, "receive">> \in Uses /\ (\E n \in RecvSize : Receive(Server, c, n))
             \/ <<Server, "close">> \in Uses /\ Close(Server, c)

Deliver(h) == \E m \in wire : m.dst = h /\ segmentArrives(h, m)

Lose ==
    /\ lost < MaxLoss
    /\ \E m \in wire : wire' = wire \ {m}
    /\ lost' = lost + 1
    /\ UNCHANGED pcb

CInit == Init /\ lost = 0

HostStep ==
    \/ ClientUser
    \/ ServerUser
    \/ \E h \in Host :
        \/ <<h, "abort">> \in Uses /\ Abort(h)
        \/ Deliver(h)
        \/ Timer(h)

CNext == Lose \/ (HostStep /\ UNCHANGED lost)

ConnSpec == CInit /\ [][CNext]_cvars
-----------------------------------------------------------------------------
(***************************************************************************)
(* The stream of text.                                                     *)
(***************************************************************************)

\* All the text a host has taken in: what its RECEIVEs returned, then what
\* is queued.
Stream(p) == p.read \o [i \in 1 .. p.rxLen |-> p.rxQueue[i - 1]]

Start(p) == Plus(p.iss, 1)

\* The Server has the Client's bytes in their order: any text segment the
\* Client ever sent that lies below the Server's rcv.nxt is found in the
\* Server's stream at the offset its sequence number says.
StreamAgrees ==
    LET stream == Stream(pcb[Server])
        Offset(m) == m.seq - Start(pcb[Client])
    IN  \A m \in wire :
            (m.src = Client /\ m.data # <<>>
                /\ m.seq + Len(m.data) <= pcb[Server].rcvNxt) =>
                /\ Offset(m) + Len(m.data) <= Len(stream)
                /\ SubSeq(stream, Offset(m) + 1, Offset(m) + Len(m.data)) = m.data

\* How many FINs a host has counted in rcv.nxt: its state tells, unless it is
\* CLOSED again.
FinHeard(p) ==
    CASE p.state \in {"CLOSE-WAIT", "CLOSING", "LAST-ACK", "TIME-WAIT"} -> {1}
      [] p.state = "CLOSED" -> {0, 1}
      [] OTHER -> {0}

\* Nothing is acknowledged that the Server has not taken: what the Client
\* reports as sent is in the Server's stream, which has a byte for every
\* sequence number up to rcv.nxt, that of a FIN aside.
AckedIsDelivered ==
    LET p == pcb[Client]
        q == pcb[Server]
    IN  p.una > p.iss =>
            /\ p.una <= q.rcvNxt
            /\ q.rcvNxt - Start(p) - Len(Stream(q)) \in FinHeard(q)

\* Text that passes the checks is the idealised segment the code goes on to
\* assume, one "that begins at RCV.NXT and does not exceed the window"
\* (protocol.go:227-228): no text is skipped, repeated or cut off.
TextIsIdeal ==
    \A m \in wire :
        LET p == pcb[m.dst] IN
        (/\ m.dst \in Host
         /\ p.state \in {"ESTABLISHED", "FIN-WAIT-1", "FIN-WAIT-2"}
         /\ m.data # <<>>
         /\ Checked(p, m)) =>
            m.seq = p.rcvNxt /\ Len(m.data) <= p.rcvWnd

\* A CLOSE answered "ok" has been heard: the Server is not waiting for more
\* text, and it holds every byte the Client ever put on the wire.
CloseIsHeard ==
    (\E c \in Call : pcb[Client].call[c] = "close"
                        /\ pcb[Client].errCh[c] = <<"ok">>) =>
        /\ pcb[Server].state \notin {"LISTEN", "SYN-RECEIVED", "ESTABLISHED",
                                     "FIN-WAIT-2"}
        /\ pcb[Server].rcvNxt = pcb[Client].nxt

\* When both ends are past the handshake, each has the other's sequence
\* numbers: no end expects a byte the other has not sent, or believes
\* acknowledged what the other has not taken.
EndsAgree ==
    \A h, g \in Host :
        (h # g /\ {pcb[h].state, pcb[g].state} \cap
                    {"CLOSED", "LISTEN", "SYN-SENT", "SYN-RECEIVED"} = {}) =>
            /\ pcb[h].foreign = g
            /\ pcb[h].iss < pcb[h].una
            /\ pcb[h].una <= pcb[g].rcvNxt
            /\ pcb[g].rcvNxt <= pcb[h].nxt
-----------------------------------------------------------------------------
(***************************************************************************)
(* Liveness.  The timer goroutine ticks every second for ever, so what is  *)
(* queued is sent again and again: WF of Tick.  The network may lose       *)
(* segments, but not all of them: WF of Receipt, which asks only that it   *)
(* keeps delivering while it holds something that makes a difference.  No  *)
(* fairness is asked of the users, of UserTimeout or of TimeWaitOver.      *)
(***************************************************************************)
Tick(h) == Retransmit(h, queueAck(pcb[h]).retxQueue) /\ UNCHANGED lost

Receipt(h) == Deliver(h) /\ UNCHANGED lost

ConnFairness ==
    \A h \in Host : WF_cvars(Receipt(h)) /\ WF_cvars(Tick(h))

FairConnSpec == ConnSpec /\ ConnFairness

\* The properties below hold in every behaviour, whichever segments are lost
\* or repeated, but for those that a user timeout or a reset cuts short.
Ended == \E h \in Host : pcb[h].state = "CLOSED"

\* An OPEN, SEND or CLOSE of the Client does not wait for ever.
CallsEnd ==
    \A c \in Call :
        (~Idle(Client, c) /\ pcb[Client].errCh[c] = <<>>)
            ~> (pcb[Client].errCh[c] # <<>> \/ Ended)

\* The Server does not stay half open when the ACK of its SYN is lost: its
\* SYN is retransmitted and the established Client acknowledges it again.
HandshakeCompletes ==
    (pcb[Client].state = "ESTABLISHED")
        ~> (pcb[Server].state \notin {"LISTEN", "SYN-RECEIVED"})

\* The Server hears of the Client's CLOSE.
CloseIsDelivered ==
    (pcb[Client].state = "FIN-WAIT-1")
        ~> (pcb[Server].state = "CLOSE-WAIT" \/ Ended)
=============================================================================
