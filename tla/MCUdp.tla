------------------------------- MODULE MCUdp --------------------------------
(***************************************************************************)
(* A small instance of Udp: two sockets, one address beside AddrAny, and   *)
(* two goroutines, of which the first sends and the second receives.       *)
(***************************************************************************)
EXTENDS Udp

CONSTANTS s1, s2, u1, u2, any, host, peer1, peer2

MCSocket == {s1, s2}
MCUser == {u1, u2}
At(addr, port) == [addr |-> addr, port |-> port]
MCBinds == {At(any, 1), At(host, 0), At(host, 1)}
MCDatagram == {[dst |-> At(host, 1), src |-> p] : p \in {peer1, peer2}}

Opens == [op : {"open"}, pcb : MCSocket]
Closes == [op : {"close"}, pcb : MCSocket]
MCCalls ==
    u1 :> Opens \cup [op : {"bind"}, pcb : MCSocket, to : MCBinds]
          \cup [op : {"send"}, pcb : MCSocket, src : {ZeroEndpoint}]
    @@ u2 :> Closes \cup [op : {"listen"}, pcb : MCSocket, block : BOOLEAN]
=============================================================================
