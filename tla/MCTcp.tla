------------------------------- MODULE MCTcp -------------------------------
(***************************************************************************)
(* Small instances of Tcp: one host, and a peer that may send any of a few *)
(* segments at any time.                                                   *)
(***************************************************************************)
EXTENDS Tcp, TLC

CONSTANTS h1, peer, any, c1, c2, c3, c4

MCHost == {h1}
MCEndpoint == {h1, peer, any}
MCCall == {c1, c2, c3, c4}
MCSendData == {<<>>, <<1>>, <<1, 1>>}

MCFlags == {{"SYN"}, {"SYN", "ACK"}, {"ACK"}, {"ACK", "FIN"}, {"RST"},
            {"RST", "ACK"}}

MCArriving ==
    {m \in [src : {peer}, dst : {h1}, seq : 3 .. 5, ack : {1, 2, 3},
            flag : MCFlags, wnd : {1}, data : {<<>>, <<0>>}] :
        /\ m.data # <<>> => m.flag = {"ACK"}
        /\ "ACK" \notin m.flag => m.ack = 1   \* not looked at
        /\ m.seq = 5 => m.flag = {"ACK"} /\ m.data = <<>> /\ m.ack = 3}

Perms == Permutations(MCCall)

PcbView == pcb
=============================================================================
