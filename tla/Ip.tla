--------------------------------- MODULE Ip ---------------------------------
(***************************************************************************)
(* The IP of one host, pkg/ip, with the ICMP echo, pkg/icmp, above it and  *)
(* net.DeviceOutput below: the routing table, TxHandler from the call of   *)
(* an upper protocol to the device, and RxHandler from the device to the   *)
(* upper protocol.  One packet is followed at a time: what TxHandler puts  *)
(* on the wire may be damaged, and arrives at a host that runs this code.  *)
(*                                                                         *)
(* Addresses have AddrBits bits and a netmask is the number of its leading *)
(* ones: utils.Ntoh32 swaps the bytes of two masks before they are         *)
(* compared, which keeps the order of masks of this form.  Lengths,        *)
(* identifiers and checksums have the width they have in the code.         *)
(***************************************************************************)
EXTENDS Checksum

CONSTANTS
    AddrBits,     \* the bits of an address
    Device,       \* the devices of the host
    Mtu,          \* Device -> MTU()
    NeedARP,      \* the devices with DeviceFlagNeedARP
    Forgetful,    \* the devices whose AddIface does nothing (loopback)
    IfaceArg,     \* the <<device, unicast, masklen>> that may be registered
    Gateway,      \* the default gateways that may be set
    ProtoType,    \* the upper protocols that may be registered
    UdpArg,       \* the calls of udp.TxHandler: <<payload, src, dst>>
    Port,         \* the ports they are sent from and to
    PeerArg,      \* the packets of peers: <<proto, message, src, dst>>
    Changes,      \* the <<word, value>> a packet may be damaged with on the way
    MaxRoutes,    \* the bound on the routing table
    MaxId         \* the bound on the counter of identifiers, past 65535

AddrAny == 0
AddrBroadcast == 2 ^ AddrBits - 1
Addr == AddrAny .. AddrBroadcast
MaskLen == 0 .. AddrBits

ICMP == 1

U == INSTANCE UdpHeader

Iface == [dev : Device, unicast : Addr, mask : MaskLen]
Route == [network : Addr, mask : MaskLen, nexthop : Addr, iface : Iface]

\* A datagram of a peer, built as udp.header2data builds ours.
IsDatagram(msg, src, dst) ==
    /\ Len(msg.words) >= 4
    /\ LET payload == [msg EXCEPT !.words = SubSeq(@, 5, Len(@))]
       IN  msg = U!header2data(msg.words[1], msg.words[2], payload, src, dst)

ASSUME BitsAssumption == AddrBits \in 1 .. 16
ASSUME DeviceAssumption ==
    /\ Mtu \in [Device -> Word]
    /\ NeedARP \subseteq Device /\ Forgetful \subseteq Device
\* udp.Send has put the address of an interface where the source was AddrAny.
ASSUME ArgAssumption ==
    /\ IfaceArg \subseteq Device \X Addr \X MaskLen
    /\ \A a \in UdpArg : a[1] \in Message /\ a[2] \in Addr \ {AddrAny} /\ a[3] \in Addr
    /\ \A a \in PeerArg :
          /\ a[1] \in Byte \ {0} /\ a[2] \in Message /\ a[3] \in Addr /\ a[4] \in Addr
          /\ a[1] = U!UDP => IsDatagram(a[2], a[3], a[4])
    /\ Port \subseteq Word
    /\ Gateway \subseteq Addr
    /\ Changes \subseteq (Nat \ {0}) \X Word
    /\ ProtoType \subseteq Byte \ {0}

VARIABLES
    ifaces,   \* Device -> the interfaces Interfaces() returns
    routes,   \* the routing table
    protos,   \* the upper protocols, in the order of registration
    id,       \* the counter of generateId
    wire,     \* the packets of the device: at most one, on its way out or in
    up        \* history: the entries of protos that were handed the last packet

vars == <<ifaces, routes, protos, id, wire, up>>
-----------------------------------------------------------------------------
(***************************************************************************)
(* Interfaces and routes.                                                  *)
(***************************************************************************)
Network(a, mask) ==
    LET hosts == 2 ^ (AddrBits - mask) IN (a \div hosts) * hosts

\* unicast | ^netmask
Broadcast(i) == Network(i.unicast, i.mask) + 2 ^ (AddrBits - i.mask) - 1

\* A refusal ends the program: the caller drops the error, and reads the nil
\* device of the interface.
NetIfaceRegister(i) ==
    /\ ifaces[i.dev] = <<>>
    /\ ifaces' = IF i.dev \in Forgetful THEN ifaces
                 ELSE [ifaces EXCEPT ![i.dev] = Append(@, i)]

routeAdd(network, mask, nexthop, i) ==
    /\ Len(routes) < MaxRoutes
    /\ routes' = Append(routes, [network |-> network, mask |-> mask,
                                 nexthop |-> nexthop, iface |-> i])
    /\ UNCHANGED <<protos, id, wire, up>>

IfaceRegister(i) ==
    /\ NetIfaceRegister(i)
    /\ routeAdd(Network(i.unicast, i.mask), i.mask, AddrAny, i)

SetDefaultGateway(i, gw) ==
    /\ routeAdd(AddrAny, 0, gw, i)
    /\ UNCHANGED ifaces

\* The entries for a destination.
Matching(dst) ==
    {n \in DOMAIN routes : Network(dst, routes[n].mask) = routes[n].network}

\* candidate points to the variable of the loop, which holds the last entry
\* of the table once the loop has ended.
LookupTable(dst) ==
    IF Matching(dst) = {} THEN {} ELSE {routes[Len(routes)]}

\* Slip for HandledOnce: a type registered twice.
ProtoRegisterSlip(proto) ==
    /\ protos' = Append(protos, proto)
    /\ UNCHANGED <<ifaces, routes, id, wire, up>>

ProtoRegister(proto) ==
    /\ ~Contains(protos, proto)
    /\ protos' = Append(protos, proto)
    /\ UNCHANGED <<ifaces, routes, id, wire, up>>
-----------------------------------------------------------------------------
(***************************************************************************)
(* The header: ten words, checksum the sixth.                              *)
(***************************************************************************)
HeaderSizeMin == 20

\* header2data: the checksum is that of the header with a zero in its place.
header2data(len, ident, proto, src, dst) ==
    LET Words(sum) == <<4 * 4096 + 5 * 256, len % 65536, ident, 0, 255 * 256 + proto,
                        sum, src \div 65536, src % 65536,
                        dst \div 65536, dst % 65536>>
    IN  Words(CheckSum(Words(0), 0))

Data(hdr, msg) == [words |-> hdr \o msg.words, zeros |-> msg.zeros]

\* Slip for DamageIsSeen: no checksum.
data2headerSlip(data) ==
    LET w == data.words IN
    IF Size(data) % 65536 < w[2] THEN {}
    ELSE {[proto |-> w[5] % 256, flags |-> w[4], tol |-> w[2],
           src |-> w[7] * 65536 + w[8], dst |-> w[9] * 65536 + w[10],
           payload |-> [words |-> SubSeq(w, 11, Len(w)), zeros |-> data.zeros]]}

\* Slip for RoundTrip: an empty payload is refused.
TooShortSlip(len, hlen) == len % 256 <= hlen

\* The length of the data is compared as a uint8.
TooShort(len, hlen) == len % 256 < hlen

Larger(m, n) == IF m > n THEN m ELSE n

\* What data2header makes of data: nothing if it returns an error.  Another
\* version than 4 is answered with the zero header and no error.
data2header(data) ==
    LET w == data.words
        len == Size(data)
        hlen == ((w[1] \div 256) % 16) * 4
        rest == [words |-> SubSeq(w, hlen \div 2 + 1, Len(w)),
                 zeros |-> len - Larger(hlen, 2 * Len(w))]
    IN  IF w[1] \div 4096 # 4
        THEN {[proto |-> 0, flags |-> 0, tol |-> 0, src |-> 0, dst |-> 0,
               payload |-> [words |-> <<>>, zeros |-> 0]]}
        ELSE IF \/ TooShort(len, hlen)
                \/ len % 65536 < w[2]
                \/ ~Verifies(SubSeq(w, 1, hlen \div 2))
        THEN {}
        ELSE {[proto |-> w[5] % 256, flags |-> w[4], tol |-> w[2],
               src |-> w[7] * 65536 + w[8], dst |-> w[9] * 65536 + w[10],
               payload |-> rest]}
-----------------------------------------------------------------------------
(***************************************************************************)
(* Sending.  net.DeviceOutput compares the length as a uint16; a device    *)
(* that needs ARP may find the next hop unresolved.                        *)
(***************************************************************************)
\* Slip for TypeOK: an identifier that is not a uint16.
NextIdSlip == id + 1

NextId == (id + 1) % 65536

\* The bound: identifiers from 65535 to MaxId are used.
IdBound == id \in {65535} \cup 0 .. MaxId - 1

Packet(way, dev, ident, proto, msg, src, dst) ==
    LET hdr == header2data(HeaderSizeMin + Size(msg), ident, proto, src, dst)
    IN  [way |-> way, dev |-> dev, data |-> Data(hdr, msg), msg |-> msg, damage |-> <<>>]

\* Whether ARP is asked for the next hop.
Asks(r, dst) ==
    LET nexthop == IF r.nexthop # AddrAny THEN r.nexthop ELSE dst
    IN  /\ r.iface.dev \in NeedARP
        /\ nexthop \notin {Broadcast(r.iface), AddrBroadcast}

Fits(r, msg) ==
    /\ Mtu[r.iface.dev] >= HeaderSizeMin + Size(msg)
    /\ Mtu[r.iface.dev] >= (HeaderSizeMin + Size(msg)) % 65536

\* What a call of TxHandler leaves in id and wire, wire being empty before.
Transmitted(proto, msg, src, dst) ==
    LET failed == [id |-> id, wire |-> {}]
        sendable == {r \in LookupTable(dst) :
                        /\ src # AddrAny \/ dst # AddrBroadcast
                        /\ src \in {AddrAny, r.iface.unicast}
                        /\ Fits(r, msg)}
        way(r) == IF r.iface.dev \in Forgetful THEN "in" ELSE "out"
        packet(r) == Packet(way(r), r.iface.dev, NextId, proto, msg,
                            r.iface.unicast, dst)
    IN  IF sendable = {} THEN {failed}
        ELSE [id : {NextId}, wire : {{packet(r)} : r \in sendable}]
             \cup [id : {NextId}, wire : {{} : r \in {q \in sendable : Asks(q, dst)}}]

TxHandler(proto, msg, src, dst) ==
    /\ wire = {}
    /\ \E t \in Transmitted(proto, msg, src, dst) :
          /\ t.id # id => IdBound
          /\ id' = t.id /\ wire' = t.wire
    /\ UNCHANGED <<ifaces, routes, protos, up>>

UdpTxHandler(sport, dport, payload, src, dst) ==
    /\ Size(payload) + U!HeaderSize <= U!PayloadSizeMax
    /\ TxHandler(U!UDP, U!header2data(sport, dport, payload, src, dst), src, dst)

\* A frame the device has sent is no longer ours.
Leave ==
    /\ \E p \in wire : p.way = "out"
    /\ wire' = {}
    /\ UNCHANGED <<ifaces, routes, protos, id, up>>
-----------------------------------------------------------------------------
(***************************************************************************)
(* ICMP: RxHandler answers an echo, with the address of the interface.     *)
(***************************************************************************)
EchoReply == 0
Echo == 8

\* icmp.header2data sums the header, the first four words, and no payload.
IcmpMessage(typ, values, payload) ==
    LET Header(sum) == <<typ * 256, sum>> \o values
    IN  [payload EXCEPT !.words = Header(CheckSum(Header(0), 0)) \o @]

IsEcho(msg) ==
    /\ Len(msg.words) >= 4 /\ Verifies(msg.words)
    /\ msg.words[1] \div 256 = Echo

IcmpTxHandler(typ, values, payload, src, dst) ==
    Transmitted(ICMP, IcmpMessage(typ, values, payload), src, dst)

IcmpRxHandler(msg, src, iface) ==
    IF IsEcho(msg)
    THEN LET payload == [msg EXCEPT !.words = SubSeq(@, 5, Len(@))]
             values == SubSeq(msg.words, 3, 4)
         IN  IcmpTxHandler(EchoReply, values, payload, iface.unicast, src)
    ELSE {[id |-> id, wire |-> {}]}
-----------------------------------------------------------------------------
(***************************************************************************)
(* Receiving.                                                              *)
(***************************************************************************)
IsFragment(hdr) == hdr.flags % 16384 # 0

\* The loop leaves iface at the interface that matches, or else at the last
\* one of the device.
IfaceFor(dev, dst) ==
    LET Ours(i) == dst \in {i.unicast, Broadcast(i)} \/ Broadcast(i) = AddrBroadcast
        n == SelectInSeq(ifaces[dev], Ours)
    IN  IF n # 0 THEN ifaces[dev][n] ELSE Last(ifaces[dev])

\* The header of a packet RxHandler goes on with.
Taken(p) == {hdr \in data2header(p.data) : ~IsFragment(hdr) /\ ifaces[p.dev] # <<>>}

RxDrop ==
    /\ \E p \in wire : p.way = "in" /\ Taken(p) = {}
    /\ up' = {}
    /\ wire' = {}
    /\ UNCHANGED <<ifaces, routes, protos, id>>

RxHandler ==
    /\ \E p \in wire : \E hdr \in Taken(p) :
        LET handed == {n \in DOMAIN protos : protos[n] = hdr.proto}
        IN  /\ p.way = "in"
            /\ up' = handed
            /\ \E t \in IF hdr.proto = ICMP /\ handed # {}
                        THEN IcmpRxHandler(hdr.payload, hdr.src, IfaceFor(p.dev, hdr.dst))
                        ELSE {[id |-> id, wire |-> {}]} :
                  id' = t.id /\ wire' = t.wire
    /\ UNCHANGED <<ifaces, routes, protos>>

\* What a peer's stack puts on the network of a device, built as ours.
PeerSends(dev, proto, msg, src, dst) ==
    /\ wire = {} /\ IdBound /\ dev \notin Forgetful
    /\ HeaderSizeMin + Size(msg) <= Mtu[dev]
    /\ wire' = {Packet("in", dev, 1, proto, msg, src, dst)}
    /\ UNCHANGED <<ifaces, routes, protos, id, up>>

\* One word of a packet changes on the way, to any other value.
Damage(n, v) ==
    /\ \E p \in wire :
        /\ p.damage = <<>> /\ n \in DOMAIN p.data.words /\ p.data.words[n] # v
        /\ wire' = {[p EXCEPT !.data.words[n] = v, !.damage = <<n, p.data.words[n]>>]}
    /\ UNCHANGED <<ifaces, routes, protos, id, up>>
-----------------------------------------------------------------------------
Init ==
    /\ ifaces = [dev \in Device |-> <<>>]
    /\ routes = <<>> /\ protos = <<>> /\ wire = {} /\ up = {}
    /\ id \in {0, 65535}   \* the program has just started, or sent for long

Next ==
    \/ \E a \in IfaceArg : IfaceRegister([dev |-> a[1], unicast |-> a[2], mask |-> a[3]])
    \/ \E r \in ToSet(routes), gw \in Gateway : SetDefaultGateway(r.iface, gw)
    \/ \E proto \in ProtoType : ProtoRegister(proto)
    \/ \E sport, dport \in Port, a \in UdpArg : UdpTxHandler(sport, dport, a[1], a[2], a[3])
    \/ Leave \/ RxDrop \/ RxHandler
    \/ \E dev \in Device, a \in PeerArg : PeerSends(dev, a[1], a[2], a[3], a[4])
    \/ \E c \in Changes : Damage(c[1], c[2])

Spec == Init /\ [][Next]_vars
-----------------------------------------------------------------------------
(***************************************************************************)
(* Properties.                                                             *)
(***************************************************************************)

\* The type of the state: what generateId, IfaceRegister, routeAdd and
\* ProtoRegister leave behind, and at most one packet.
TypeOK ==
    /\ \A dev \in Device : \A n \in DOMAIN ifaces[dev] : ifaces[dev][n] \in Iface
    /\ \A n \in DOMAIN routes : routes[n] \in Route
    /\ ToSet(protos) \subseteq ProtoType
    /\ id \in Word
    /\ \A p, q \in wire : p = q /\ \A n \in DOMAIN p.data.words : p.data.words[n] \in Word

\* What UDP makes of the payload of a packet.
Datagram(hdr) == U!data2header(hdr.payload, hdr.src, hdr.dst)

\* A packet that TxHandler let out is taken by data2header at the other end,
\* with its length and its payload as they were sent, and a datagram by UDP's.
\* Excepted is one whose length is less than 20 modulo 256: header.go:82
\* compares the length of the data as a uint8 and drops it.
RoundTrip ==
    \A p \in wire :
        p.damage = <<>> =>
            IF Size(p.data) % 256 < HeaderSizeMin THEN data2header(p.data) = {}
            ELSE \E hdr \in data2header(p.data) :
                    /\ hdr.payload = p.msg /\ hdr.tol = Size(p.data)
                    /\ hdr.proto = U!UDP =>
                          \E d \in Datagram(hdr) : <<d.src, d.dst>> = SubSeq(p.msg.words, 1, 2)

\* The checksum of a packet is the Internet's: the sum of its header is 0 in
\* one's complement, that is modulo 65535.
SumIsOnesComplement ==
    \A p \in wire :
        p.damage = <<>> => Sum(SubSeq(p.data.words, 1, 10), 0) % 65535 = 0

\* A packet in which one word has changed is refused by IP, or by UDP if the
\* word is not of the header of IP.  Excepted are a change from 0 to -0, the
\* first word, which says how much is summed, and datagrams with the checksum
\* 0, which is what header2data writes when the sum comes out as 0.
DamageIsSeen ==
    \A p \in wire :
        LET n == p.damage[1] IN
        (/\ p.damage # <<>> /\ n # 1
         /\ ~Opposite(p.damage[2], p.data.words[n])) =>
            \A hdr \in data2header(p.data) :
                /\ n > 10
                /\ (hdr.proto = U!UDP /\ p.data.words[14] # 0) => Datagram(hdr) = {}

\* No packet is handed to an upper protocol twice.
HandledOnce == Cardinality(up) <= 1

\* "In this section, you can ping to 192.0.2.2" (example/icmp/main.go:30): the
\* reply to an echo request passes the check of the sum that ICMP's own
\* RxHandler makes, as any ping does before it counts an answer.
RepliesVerify ==
    \A p \in wire :
        (/\ p.way = "out" /\ p.data.words[5] % 256 = ICMP
         /\ p.damage = <<>> /\ p.msg.words[1] = EchoReply * 256) =>
            Verifies(p.msg.words)
=============================================================================
