-------------------------------- MODULE MCIp --------------------------------
(***************************************************************************)
(* A small instance of Ip: three bits of address, an Ethernet and a        *)
(* loopback device.                                                        *)
(***************************************************************************)
EXTENDS Ip

CONSTANTS ether, loop

MCDevice == {ether, loop}
MCMtu == [dev \in MCDevice |-> IF dev = ether THEN 1500 ELSE 65535]
MCIfaceArg == {<<loop, 1, 1>>, <<ether, 5, 2>>}

\* An echo request with a payload, its checksum as a peer computes it.
Ping(payload) ==
    LET w == <<Echo * 256, 0, 7, 1>> \o payload
    IN  [words |-> [w EXCEPT ![2] = CheckSum(w, 0)], zeros |-> 0]

Words(words, zeros) == [words |-> words, zeros |-> zeros]

MCPort == {7}

\* Payloads of zeros that make packets of 256 bytes, 255, 275 and 276, and
\* around the MTU, 2^16 and the limit of UDP; and one that makes the checksum
\* of UDP 0.
MCUdpArg ==
    ({Words(<<>>, n) : n \in {227, 228, 247, 248, 1472, 1473, 65507, 65508}}
        \X {5} \X {4})
    \cup ({Words(<<>>, 0)} \X {1, 5} \X {2, 4, 7})
    \cup {<<Words(<<65535 - 60>>, 0), 5, 4>>}

MCPeerArg ==
    ({ICMP} \X {Ping(<<>>), Ping(<<0>>), Ping(<<5>>),
                [Ping(<<>>) EXCEPT !.words[2] = 0]} \X {4, 6} \X {5, 7, 2})
    \cup ({U!UDP} \X {U!header2data(7, 7, Words(<<>>, 0), 4, 5)} \X {4} \X {5})

\* Each word of the headers of IP and of UDP or ICMP.  The upper words of the
\* addresses stay small: TLC's integers have 32 bits.
MCChanges == {c \in (1 .. 14) \X {0, 1, 65535} : c[1] \in {7, 9} => c[2] < 2 ^ 15}
=============================================================================
