----------------------------- MODULE UdpHeader ------------------------------
(***************************************************************************)
(* The header of UDP, pkg/udp/header.go: four words in front of a payload, *)
(* with a checksum that also covers the addresses.  Addresses have at most *)
(* 16 bits here, so their upper words are 0.                               *)
(***************************************************************************)
EXTENDS Checksum

UDP == 17
HeaderSize == 8
PayloadSizeMax == 65535 - 20   \* ip.PayloadSizeMax

PseudoHeader(src, dst, len) == <<0, src, 0, dst, UDP, len>>

header2data(sport, dport, payload, src, dst) ==
    LET len == (HeaderSize + Size(payload)) % 65536
        Words(sum) == <<sport, dport, len, sum>> \o payload.words
    IN  [payload EXCEPT !.words =
            Words(CheckSum(PseudoHeader(src, dst, len) \o Words(0), 0))]

\* Nothing if data2header returns an error.  A checksum of 0 is not checked.
data2header(data, src, dst) ==
    LET w == data.words
        Base(len) == 65535 - CheckSum(PseudoHeader(src, dst, len), 0)
    IN  IF \/ Size(data) < HeaderSize
           \/ w[3] # Size(data)
           \/ w[4] # 0 /\ CheckSum(w, Base(w[3])) \notin {0, 65535}
        THEN {}
        ELSE {[src |-> w[1], dst |-> w[2],
               payload |-> [data EXCEPT !.words = SubSeq(w, 5, Len(w))]]}
=============================================================================
