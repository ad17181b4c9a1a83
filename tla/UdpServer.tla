----------------------------- MODULE UdpServer ------------------------------
(***************************************************************************)
(* The echo server of example/udp/main.go: one goroutine that listens      *)
(* without blocking on its one socket and sends back what it gets, until   *)
(* the clock fires; it then closes the socket.                             *)
(***************************************************************************)
EXTENDS Udp

CONSTANTS soc, main, srcAddr      \* its socket, its goroutine, its endpoint

VARIABLES
    at,      \* where it is in main: listen, got, check, close or end
    clock    \* whether 30 seconds have passed

svars == <<vars, at, clock>>

Goes(from, to) == at = from /\ at' = to /\ call[main] = Idle /\ UNCHANGED clock

ServerListens ==
    /\ Goes("listen", "got")
    /\ Call(main, [op |-> "listen", pcb |-> soc, block |-> FALSE])

\* What was got, if anything, is sent back.
ServerSends ==
    /\ Goes("got", "check")
    /\ \/ Call(main, [op |-> "send", pcb |-> soc, src |-> ZeroEndpoint])
       \/ UNCHANGED vars

ServerChecks ==
    IF clock THEN Goes("check", "close") /\ Call(main, [op |-> "close", pcb |-> soc])
    ELSE Goes("check", "listen") /\ UNCHANGED vars

ServerEnds == Goes("close", "end") /\ UNCHANGED vars

ServerSteps == Step(main) /\ UNCHANGED <<at, clock>>

Clock == ~clock /\ clock' = TRUE /\ UNCHANGED <<vars, at>>

ServerInit ==
    /\ at = "listen" /\ clock = FALSE
    /\ pcbs = <<soc>> /\ opened = {soc} /\ handler = {}
    /\ local = [s \in Socket |-> srcAddr]
    /\ rxQueue = [s \in Socket |-> <<>>]
    /\ call = [u \in User |-> Idle]

Server == ServerListens \/ ServerSends \/ ServerChecks \/ ServerEnds \/ ServerSteps

Enqueue == RxEnqueue /\ UNCHANGED <<at, clock>>

ServerNext ==
    \/ Server \/ Clock \/ Enqueue
    \/ \E d \in Datagram : RxHandler(d) /\ UNCHANGED <<at, clock>>

\* SF for the mutex: Close takes its turn.
ServerSpec ==
    /\ ServerInit /\ [][ServerNext]_svars
    /\ WF_svars(Clock) /\ WF_svars(Enqueue) /\ SF_svars(Server)

\* "This server runs in 30s" (example/udp/main.go:45): it comes to its end.
RunsIn30s == <>(at = "end")
=============================================================================
