---------------------------- MODULE MCUdpServer -----------------------------
(***************************************************************************)
(* The echo server with a queue of two datagrams.                          *)
(***************************************************************************)
EXTENDS UdpServer

CONSTANTS s1, u1, any, host, peer1

MCSrc == [addr |-> host, port |-> 1]
MCDatagram == {[dst |-> MCSrc, src |-> peer1]}
MCCalls == [u \in {u1} |-> {}]
=============================================================================
