----------------------------- MODULE MCTcpConn -----------------------------
(***************************************************************************)
(* Small instances of TcpConn.                                             *)
(***************************************************************************)
EXTENDS TcpConn, TLC

CONSTANTS client, server, any, c1, c2, c3, c4

MCHost == {client, server}
MCEndpoint == {client, server, any}
MCCall == {c1, c2, c3}
MCTwoCalls == {c1, c2}
MCSendData == {<<1>>, <<1, 2>>}
MCLongText == {<<1, 2, 3>>}
MCOneText == {<<1>>}

\* What the users may do: text and no CLOSE; text nobody reads and CLOSE;
\* text and CLOSE; any call of either end, ABORT included.
MCText == {<<client, "send">>, <<server, "receive">>}
MCNoReceive == {<<client, "send">>, <<client, "close">>}
MCClose == MCText \cup {<<client, "close">>}
MCAbort == {<<client, "send">>, <<client, "close">>, <<client, "abort">>,
            <<server, "receive">>, <<server, "close">>, <<server, "abort">>}
=============================================================================
