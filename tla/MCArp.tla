------------------------------- MODULE MCArp -------------------------------
(***************************************************************************)
(* Small instances of Arp: three entries and two peers.                    *)
(***************************************************************************)
EXTENDS Arp

CONSTANTS any, me, p1, p2, zero, e1, e2

MCAddr == {any, me, p1, p2}
MCEther == {zero, e1, e2}

\* Packets to this host from p1 and p2, and one to another host.
MCPacket ==
    [spa : {p1}, sha : {e1}, tpa : {me}]
        \cup [spa : {p2}, sha : {e2}, tpa : {me, p1}]
=============================================================================
