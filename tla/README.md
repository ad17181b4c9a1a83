# A TLA+ model of go-network

go-network is a TCP/IP stack in Go: devices, Ethernet and a tap device below,
ARP, IPv4, ICMP, UDP and TCP above. This directory holds its TLA+ model, the
TLC runs that check it and the TLAPS proofs about it. Paths below are relative
to `pkg/` unless they begin with `example/`.

## The system

| part | state | operations | met by |
|---|---|---|---|
| TCP control block (`tcp/pcb.go`) | one `pcb`: state, peer, sequence variables, receive buffer, retransmission queue, pending RECEIVE; one mutex for the package | `Newpcb`, `Deletepcb`, `Open`, `Send`, `Receive`, `Close`, `Abort`, `Status` | user goroutines, each waiting on its own `errCh` |
| TCP segment handler (`tcp/protocol.go`) | none | `RxHandler`, `segmentArrives`, `TxHelperTCP`, `TxHandler` | the IP goroutine |
| TCP timer (`tcp/timer.go`) | `srtt`, `rto` | `tcpTimer`, once a second | its own goroutine |
| ARP (`arp/`) | the table `caches`, a mutex | `RxHandler`, `Resolve`, `timer` | the ARP goroutine, whoever sends, the timer goroutine |
| IP (`ip/`) | routes, upper protocols, the id counter | `TxHandler`, `RxHandler`, `LookupTable` | the IP goroutine, whoever sends |
| UDP (`udp/`) | pcbs with a queue of 100 datagrams, a mutex | `Open`, `Close`, `Bind`, `Send`, `Listen`, `RxHandler` | users, the IP goroutine |
| ICMP (`icmp/`) | none | echo reply | the IP goroutine |
| dispatch (`net/`) | devices, protocols, one channel of 100 buffers each | `DeviceInputHanlder`, `DeviceOutput`, `Open`, `Close` | device and protocol goroutines |
| devices (`device/`) | the tap file, one read buffer | `TxHandler`, `RxHandler` | one goroutine each |
| setup (`setting.go`), codecs, `utils/` | the channel `done` | registration, `NetShutdown`; parsing, checksums | |

A user call runs in a goroutine of its own: it takes the mutex, acts, and either
sends its answer on `errCh` or leaves the channel in the pcb (in an entry of the
retransmission queue, or as the pending RECEIVE), to be answered by a segment or
the timer. A device goroutine puts frames into the channel of a protocol; the
protocol's goroutine handles one at a time and calls the upper protocol directly.
A transmission goes down by calls: `tcp.TxHandler`, `ip.TxHandler`, `arp.Resolve`
(which fails on a miss), `net.DeviceOutput`, the device.

What is hard in it, and what correctness means for each part:

* TCP: three kinds of goroutines work on a pcb in any order, and the network
  loses, repeats and reorders. No caller may be forgotten, or answered twice; the
  two ends must agree on their sequence numbers; the bytes received must be the
  bytes sent; a CLOSE answered `ok` must have been heard; nobody waits for ever
  as long as segments get through.
* ARP: the handler drops the mutex between two sections, and the timer never
  takes it. No address may be resolved to hardware that did not claim it.
* UDP, dispatch: bounded queues and a mutex held across a blocking send; nobody
  may wait on everybody, and shutdown must end the goroutines.
* IP, ICMP, utilities: pure functions with edge cases (route selection, header
  lengths, checksums).

`PROJECT.json` lists the hazards one by one, each at its line.

## The modules

| module | models |
|---|---|
| `Tcp` | the pcb, segment handler and timer of any number of hosts; any segment may arrive |
| `TcpService` | abstract: what users of TCP are promised, with no segments in it |
| `TcpConn` | extends `Tcp`: a Client and a Server over a network that loses, repeats, reorders |
| `Arp` | the ARP table, its handler, `Resolve` and the timer |
| `Net` | the goroutines between the devices and the upper protocols, their channels, the shutdown |
| `Udp` | UDP's sockets: the table, the queues, the mutex, users and the handler |
| `UdpService` | abstract: what sockets promise, without the mutex, the calls and the handler |
| `UdpServer` | extends `Udp`: the echo server of `example/udp` |
| `Ip` | IP from an upper protocol to the device and back, with ICMP's echo and UDP's header on top |
| `UdpHeader`, `Checksum` | the header of UDP and the Internet checksum, as operators |
| `MCTcp`, `MCTcpConn`, `MCArp`, `MCNet`, `MCUdp`, `MCUdpServer`, `MCIp` | the instances TLC checks |
| `TcpProofs` | proofs: type correctness of `Tcp`, and what its helpers map to what |
| `TcpCallProofs` | proofs: no call is lost, none is answered twice |
| `TcpServiceProofs` | proofs: `Tcp` implements `TcpService` |
| `TcpConnProofs` | proofs: the two ends of `TcpConn` agree on text, numbers and the close |
| `ArpProofs`, `NetProofs`, `UdpProofs`, `IpProofs` | proofs: the invariants of these modules, and that `Udp` implements `UdpService` |

The modules meet where the code does. `Net` is the stack from the device's buffer
up to the point where an upper protocol is called, and keeps of the upper
protocols only how long they keep the IP goroutine: `Udp` is what happens there
for UDP (`Held` is the wait that `Net` calls `udp`), `Tcp` for TCP. `Arp` goes on
where `Net` has `ArpParse`. `Ip` is what the IP goroutine and a sender do with one
packet, which `Net` reduces to taken or dropped, and `TcpConn` to a network.

### Tcp

State: `pcb[h]`, one record per host with the fields of the Go struct (`snd` and
`rcv` flattened), and `wire`, all segments ever handed to `ip.TxHandler`. The
user's side is in the record too: `call[c]` is what call `c` is, `errCh[c]` the
sequence of answers sent on its channel, `read` the bytes RECEIVEs have returned.
The retransmission queue is a set: its order is used nowhere but in the user
timeout, whose first expired entry is the first of the queue.

Actions: every function that takes the mutex is one action from the first
statement to the last: `PassiveOpen`, `ActiveOpen`, `OpenExisting` (Open), `Send`,
`Receive`, `Close`, `Abort`; `ArriveClosed`, `ArriveListen`, `ArriveSynSent`,
`ArriveRefused` (sequence number, RST and SYN checks), `ArriveAck` (ACK, text,
FIN), `ArriveLast` (LAST-ACK and TIME-WAIT) for `segmentArrives`; `TimeWaitOver`,
`UserTimeout`, `Retransmit` for the timer's work on one pcb. The helpers have the
names they have in the code. `TxResult` says whether `ip.TxHandler` may fail; a
user call's three attempts are one outcome.

Arithmetic is that of the code: sequence numbers wrap at `SeqMod` and are
compared raw, `rxLen` and the window are 16 bit (`Add16`, `Sub16`), `copy` drops
what does not fit. Oddities are kept as they are: `Send` goes on after
"insufficient resources", an empty SEND is never queued, `Abort` leaves the
queues in the last three states, a retransmission advertises the peer's window,
text with a FIN hides the FIN, resets in CLOSED and LISTEN go to the old peer, a
reset with a bad ACK in SYN-SENT is answered with a reset, which the comment at
`tcp/protocol.go:142` says it should not be; a FIN leaves a pending RECEIVE pending
unless text is queued (`tcp/protocol.go:419` says otherwise), and a SEND is
answered `ok` when its first byte is acknowledged (`:300` says all of it).

Left out: `irs`, `mss` and the urgent pointer, which nothing reads; the limit on
retransmissions, which cannot be reached as the counter is kept in the loop's
copy of the entry; times, which become nondeterminism. An answer counts as
received when it is sent: that the send itself may block with the mutex held, and
whom it then stops, is in `Net`.

### TcpService

Each host has a phase (closed, listening, opening, open, closing, last) and each
call a status (none, pending, answered, void). Phases go forward or to closed; a
call is answered once, from pending or at once; when a connection ends every
pending call is answered, but for an `Abort` in the last phase. `Tcp` implements
it under the mapping at its end (`PhaseOf`, `StatusOf`).

### TcpConn

Two hosts of `Tcp`. `Deliver` hands any segment on the wire to its destination and
leaves it there, so that it may be repeated, reordered, or never delivered; `Lose`
takes up to `MaxLoss` off for good. The Client opens actively, sends, closes; the
Server opens passively, receives, closes. They follow `tcp/tcp_test.go` and
`example/tcp`: the Client waits for an answer before its next call, and no text
exceeds the window. These are assumptions about users: with two SENDs in flight
the code takes in text behind a gap.

### Arp

The table, the handler between its two critical sections, and the timer. `Resolve`
is atomic. The timer is not: the copy of the table that `range` makes may mix old
and new values, and `cacheDelete` writes its fields one by one in any order, for
these accesses race with the others. A packet that cannot be parsed is the zero
header, with which the handler goes on; one for another host ends it. `heard` is a
history variable: which pairs of addresses any packet has claimed. Of an entry the
timer is clearing `Resolve` may return the zero hardware address, without an error,
and a full table always gives up its first entry, not the oldest that
`arp/cache.go:45` speaks of.

### Net

State: `dev`, the place of the Ethernet device's goroutine; `buf`, the one buffer it
reads all frames into; `chan`, a channel for ARP and one for IP; `rx`, the places of
their handlers; `unread`, the length of one UDP socket's queue; `caller`, whether a
user call or the timer has the mutex of TCP, and what it waits for with it; `done`
and `closed` for the shutdown. Three history variables count: frames not yet taken
(`owed`), how often what is in the buffer has been handed up (`handed`), what was
taken or passed after `done` (`late`).

A frame in a channel is a reference into the buffer. What a handler finds there
(`Content`) is what was read last, or something it cannot parse if lengths differ
or a read is going on. A frame of kind `other` is too short, for another host, or
of a protocol nobody registered; one of kind `icmp` that is not replied to stands for
any packet IP or an upper protocol drops. The handlers look at `done` at the top of their
loop only. ARP's returns on the first packet for another host; IP's goes on. The tap
file is in blocking mode: a read that has begun does not end with `Close`, and one
begun later fails, after which the loop looks at `done` again. The receive handlers
of the null and the loopback device only wait for `done`, and are not there.

The upper protocols run on IP's goroutine, so IP's handler waits where they do:

* `udp`: UDP's handler waits for room in the socket's queue.
* `tcp`: `segmentArrives` waits for the mutex.
* `answer`: it has the mutex and sends an answer on an `errCh`, which has no buffer,
  to a caller that may not be reading (`tcp/pcb.go:178`, `:231`). Answers go before
  the reply in every branch of it.
* `reply`: it has the mutex and sends a segment, over the loopback device if that is
  where the route leads; then it waits for room in the channel it alone reads
  (`device/loopback.go:61`).
* `echo`: ICMP's reply waits for the same, without a mutex.

A user call, or the timer, that has the mutex waits in the same two ways: `caller` is
`answer` or `loop`, in any order and number, which is more than a single call does.
Replies that leave over the Ethernet device wait for nobody, like a system call.

`Stuck` lists the ways in which a handler may keep an item for ever: UDP's queue stays
full; an answer is not read; it writes to its own full channel; the mutex is kept by
one who waits for an answer to be read or for room in that channel; or it has
returned. `DeviceGoesOn` and `ShutdownStops` say that in the model there is no other,
and each of the five is needed: without any one of them TLC finds the properties
violated. The ways are real: a full queue nobody reads stops the whole stack, and so
do a caller that does not read its answer, and one packet for another host at ARP's
handler, once ARP's channel is full.

### Udp, UdpService and UdpServer

State: the table `pcbs`, `local` and `rxQueue` of each socket, `call`, the call each
user is in, and `handler`, the datagram the handler has the mutex for. Functions
that hold the mutex from the first to the last statement are one action; the
handler keeps it from `RxHandler` to `RxEnqueue`. `Send` takes no mutex and is four
actions: it reads the address, then the port of `local`, looks for a port, and
sends. The search is kept as it is written: `p <= PortMax` holds for every uint16,
and the test takes a port that is in use; it ends at some pcb of the address,
finds none as long as there is none, and fails if it comes upon port 0. So the source
of a datagram may be another socket's port, or, as the two reads of `Send` may come
before and after a `Bind`, a mix of two endpoints: nothing is promised of it here.
`UdpService` has the sockets' endpoints and their unread datagrams, and no
mutex, calls or handler; the mapping is at the end of `Udp`. `ImplementsService`
says that a datagram enters the queue of a socket that is open and bound to its
destination at that moment, which rests on the handler keeping the mutex.

`UdpServer` adds the main goroutine of `example/udp`, with its clock.

### Ip, UdpHeader, Checksum

`Ip` follows one packet at a time, which is a sequence of 16 bit words and a number
of zero bytes behind them, so that packets of any length cost nothing. Headers,
checksums, lengths and identifiers have the widths of the code; addresses have
`AddrBits` bits, and netmasks are lengths of prefixes. `Transmitted` is
`ip.TxHandler` with `net.DeviceOutput`: its results are the packets that may come
out, and none where an error is returned; ARP may fail to resolve. The packet goes
out on the Ethernet device (and leaves, possibly damaged in one word first), or
comes in again on the loopback device, whose `AddIface` does nothing. `PeerSends` is
a peer. `RxHandler` is IP's, with ICMP's for an echo, up to the transmission of the
reply; `up` is the set of places in the list of protocols that were handed the last
packet.

Kept as they are: `LookupTable` returns the last entry of the table, not the longest
match of `ip/routing.go:56`; `data2header` compares the length of the data as a
uint8; a packet for another host is handed up if the device has an interface; a
version other than 4 yields the zero header without an error; the checksum of ICMP
leaves out the payload (`RepliesVerify`, which is violated); a checksum of 0 in UDP
is not checked. `Damage` changes one of the words of a packet, never one of the zero
bytes behind them; the last byte of a packet of an odd length is always one of
these. Which words change, and to what, is the constant `Changes`: in the runs each
of the first 14 words, the headers, to 0, 1 and 65535; in the proofs any word, to
any value.

## The runs

Runs that pass:

| run | question | bounds | states |
|---|---|---|---|
| `tcp_open_env` | Is any call lost or answered twice, whatever a peer sends? Does `Tcp` implement `TcpService`? | 1 host, 4 calls, 2 initial sequence numbers, numbers mod 8, window 2, 35 segments a peer may send at any time | 105 thousand |
| `conn_close` | Are the bytes and the ends' numbers right with text and a close? | 3 calls each, texts of 1 and 2 bytes, window 2 | 570 thousand |
| `conn_abort` | The same when transmissions fail and either end may close or abort, at the same time too | 2 calls each, text of 1 byte | 367 thousand |
| `conn_live` | Do calls end, does the handshake complete, does the close arrive? | 2 calls each, 2 losses | 100 thousand |
| `arp` | Is an address resolved only to what was claimed? | 3 entries, 2 peers, 3 ticks, timeout 1 | 9.4 million |
| `net` | Is a frame lost or handed up too often? Who can be stuck, and does the shutdown end everyone else? | channels and queue of 1, 3 frames of 6 kinds | 354 thousand |
| `udp` | Do the sockets implement `UdpService`? Does every call return, or wait for something named? | 2 sockets, 2 users, 3 endpoints, queue of 2 | 338 thousand |
| `ip` | Is what is sent taken at the other end, and a changed word of the headers seen? | 3 bits of address, an Ethernet and a loopback device, 3 routes, lengths around 256, the MTU and 2^16 | 474 thousand |

Why the bounds are enough for the interesting cases: four calls are an OPEN, a
RECEIVE, a SEND and a CLOSE on one pcb, or a first and a second connection on it; 1 and 7
as initial sequence numbers of 8 put one connection across the wrap; a window of
2 is filled and overfilled by the texts. In `TcpConn` three calls are an OPEN, a
SEND and a CLOSE, every segment of which may be repeated any number of times at
any later moment. Three ARP entries hold two entries for one address and one for
another, or are full; the clock lets entries time out twice.
`tcp_open_env` uses symmetry of the calls, and a view without `wire`, which no
action of `Tcp` reads.

In `Net` a channel of one item is empty, full, or full with the device waiting, and
three frames are one at the handler, one in the channel and one at the device, all
in the one buffer; what a larger channel adds is the same with more items. In `Udp`
two sockets compete for an endpoint, and two users are a sender that binds against
a receiver that closes; a queue of two shows order. In `Ip` three routes are those
of two interfaces and a gateway, in any order; the payloads make packets of 255,
256, 275 and 276 bytes, of the MTU and one more, of UDP's limit and one more, and
one whose checksum is 0; the counter of identifiers starts at 0 or wraps.

`net`, `udp` and `udp_server_ends` do not check for deadlock: the system
may stop there, with all users waiting or everyone gone, and the liveness properties
say when.

Runs that end in a violation, each a disagreement between the code and a comment or
the README of the repository (quoted in `PROJECT.json`):

| run | what it shows |
|---|---|
| `active_takes_text` | an active open leaves `rcv.wnd` 0: the connection refuses text, and the peer's FIN |
| `partial_read` | a RECEIVE shorter than the queued text corrupts the rest |
| `udp_server_ends` | the echo server waits in `Close` for a mutex the handler keeps until somebody listens |
| `ping_replies` | the reply to a ping with a payload does not pass the check of its checksum |

### Fairness

`conn_live`. `Tick`: the timer goroutine loops for ever with a
sleep of a second, so a due retransmission happens: weak fairness of the
retransmission of the whole queue. `Receipt`: the network keeps delivering while
what it holds makes a difference: weak fairness of delivery, of *some* segment,
never of a particular one; up to two are lost beyond recovery. Nothing is assumed of the
users, the user timeout or the time-wait timer. A connection that a timeout or a
reset ends (`Ended`) is excepted where the code promises no more.

`udp`. A Go mutex in starvation mode and channels serve those who wait in turn, so a
user's step that is possible again and again is taken: strong fairness of each
user's steps, weak fairness of the handler's enqueueing. The search of `Send` takes
neither and may miss a pcb that comes and goes: it has weak fairness only. Nothing
makes users call or datagrams arrive. `udp_server_ends` adds the clock, and strong
fairness of the server's steps.

`net`. For the same reason: strong fairness of the device and of IP's handler, which
compete with the loopback device for IP's channel, and of that device with the mutex;
weak fairness of ARP's handler, which competes with nobody, and of the steps of a
shutdown that has begun. None for frames that arrive, users that listen, read their
answers or call, or the beginning of the shutdown.

Liveness properties are written as "again and again P, or in the end always Q",
where Q names what the code may wait for without an end.

## The proofs

The assumptions are those on the constants, named in each module: what the
configuration of a run must satisfy, and no more. In `Tcp`, for instance, hosts are
endpoints, `NoCall` is no call, 0 is a byte, `BufferSize` is positive and `SeqMod`
exceeds it by more than one, and what users send and peers deliver is of its type.
Hosts, calls, sockets, users, addresses, sizes, capacities and packets are
otherwise arbitrary. Two hypotheses go beyond that, both in `TcpConnProofs`.

| theorem | of every behaviour |
|---|---|
| `TcpProofs!TypeCorrect` | `Tcp!TypeOK` |
| `TcpCallProofs!NoCallIsLost`, `CallsAnsweredOnce`, `CallsHeldOnce` | `NoLostCall`, `OneAnswer`, `HeldOnce` |
| `TcpServiceProofs!TcpServiceImplemented` | `Tcp` implements `TcpService` |
| `TcpConnProofs!ConnTypeCorrect` | `TypeOK`, of two connected hosts |
| `TcpConnProofs!TextArrives`, `AcksAreTrue`, `TextBeginsAtRcvNxt`, `ClosesAreHeard`, `NumbersAgree` | `StreamAgrees`, `AckedIsDelivered`, `TextIsIdeal`, `CloseIsHeard`, `EndsAgree`, under `ReadsAll` and `NoWrap` |
| `ArpProofs!TypeCorrect`, `TwoAtMost`, `HeardOnly` | `Arp!TypeOK`, `AtMostTwo`, `ResolvedIsHeard` |
| `NetProofs!TypeCorrect`, `FramesArrive`, `RepeatsAreBounded`, `ShutdownIsSeen` | `Net!TypeOK`, `NothingLost`, `RepeatedAtMost`, `OneAfterShutdown` |
| `UdpProofs!TypeCorrect`, `ServiceImplemented` | `Udp!TypeOK`, and `Udp` implements `UdpService` |
| `IpProofs!TypeCorrect`, `PacketsRoundTrip`, `HeadersSumToZero`, `DamageIsAlwaysSeen`, `PacketsAreHandledOnce` | `Ip!TypeOK`, `RoundTrip`, `SumIsOnesComplement`, `DamageIsSeen`, `HandledOnce` |

**Tcp, types.** Each action sets one pcb to an expression built of a few helpers, so
there is a lemma per helper (it maps a pcb to a pcb), one per way a step ends
(`Quiet`, `TxHandler`, `TxHelperTCP`, `TxUser`) and one per action.

**Tcp, calls.** None of the three invariants is inductive alone: an
answer is the first of its call only because held calls have no answer yet; a
held call is forgotten with its answer only because it is held in one place. The
inductive invariant `CallsInv` says of each pcb that its held calls are
unanswered (`HeldWait`), held in one place (`Apart`), that calls not made have no
answers (`IdleSilent`), and the two conclusions. `AnswerKeeps` is the heart:
answering some of the held calls and forgetting exactly these keeps it.
`queueAck`, `signalOpen`, `signalErr` and `signalReceive` are instances. A call being
made is neither held nor answered; `Making` names that state, and `ReplyKeeps`,
`QueueKeeps` and `PendKeeps` are the three ways out of it. The exception, a SEND
that has its "insufficient resources" and is queued all the same, is in `Waiting`.

**Tcp implements TcpService.** Every action replaces one pcb by another. `Moved` says
that the phase stays or goes forward and that an ended connection holds no call,
`EasedAt` that a call is let go only with an answer; with these a step is an event
of the service, and with one call `Asked` a request. Each helper and each action
gets a lemma in these terms; `CallsInv` says that what was not yet asked was silent.

**TcpConn.** The five invariants speak of both pcbs and of the wire. `ConnOK` is the
inductive one. Its heart: the Client, who waits for answers, has at most one
segment that is not acknowledged; it begins at `snd.una` and ends at `snd.nxt`, and
the Server's `rcv.nxt` is one of the two (`EndsOK`). So a segment that arrives is
below `rcv.nxt`, and refused, or is that one, and then it begins at `rcv.nxt`; an
acknowledgement that arrives is below `snd.una`, and ignored, or of everything.
`WireOK` says this of all that was ever sent, which is what makes repetition and
reordering harmless. `TextsOK` says that texts with one sequence number are the same
text (a retransmission is what was sent), that what the Server has taken stands in
its stream at its number, and that what it may take next fits its window: the
Client sent it within a window advertised with that `rcv.nxt`, and the window has
only grown since. The proof has a lemma per action of either end, and frames for
those that leave the other end or the wire alone. The hypotheses:

* `ReadsAll`: a RECEIVE asks for the whole buffer. With less the text behind it is
  lost, and `StreamAgrees` false: the run `partial_read` shows that.
* `NoWrap`: neither end comes within a buffer of `SeqMod`. The code compares
  sequence numbers as plain `uint32`, so nothing like these invariants can be
  expected of a connection across the wrap. The instances of the runs satisfy it.
* The discipline of the users, one call at a time at the Client and no text
  larger than the window, is in the actions of `TcpConn` (see above).

The types need neither (`ConnTypeCorrect`). TLC checked the inductive invariants as
invariants, on the instances of the runs, before they were proved.

**Arp.** `Heard` says of every entry that is not half cleared, in whatever state, that
its pair was claimed, and so was the pair of the packet the handler holds between
its two sections: the timer may write `state` before or after the other fields, so
the state of an entry says nothing about them. `Few` says that an address about to be
inserted is in the table at most once; between the handler's sections only a
`Resolve` may have come, and its entry is the second of the two.

**Net.** `OnTheWay` counts what is owed to a handler, namely what is in its channel and
what the device waits with, and says that frames are in a channel in the order of
their arrival, all read before what the device has now; a frame that is dropped or
taken twice would break the count. `Counted` says that handing one buffer up uses up
frames that were on their way, which bounds the repetitions by the channel's
capacity and two. `Stopping` says who may still be late: not one who stands where
`done` is looked at next.

**Udp.** `Owned` says that an Open works on a pcb of its own and other calls on one that
exists, `Fresh` that nobody has touched what Open has not returned, `Handling` that
the pcb the handler waits for is in the table and bound to the destination of its
datagram: it holds only as the handler has the mutex, and is what makes its last
step one of `UdpService`.

**Ip.** Packets of any number of words, on any interfaces and routes. `HandledOnce`
looks at one packet, but `RxHandler` does not stop at the first protocol that
matches: it holds because no type is registered twice (`Distinct`). The others look
at a packet on the wire and hold because of what wrote it. `Built` says what that
was: a header whose ten words sum to 0 and whose second word is the length of the
packet; behind it the message, which sums to 0 with its pseudo header if it is UDP's
(`Datagrammed`). `Damaged` keeps the word a packet had before it changed, so `Built` can
speak of the words that were sent. None of this mentions checksums as such: `IsZero`
is a sum of 0 modulo 65535, and the lemmas that connect the two are arithmetic.
`CarriedIsResidue`: adding the carries back, as often as it takes, gives a word
congruent to the sum. `ZeroVerifies`: the receiver accepts just the sums that are 0.
`WrittenIsZero`: a checksum written where a zero was makes the sum 0. `SumConcat`,
`SumChanged`, `ChangeIsSeen`: a sum may be taken in parts, a changed word changes it
by the difference, and 0 cannot stay 0 unless the words are 0 and 65535.
`SumIsBounded`: the sum of a packet fits the `uint32` of the code. `Sum` is a loop
and `Carried` a recursion, and the induction theorems of the library cannot be used;
`LeastNumber` gives a least counterexample instead, and a function that satisfies
the equations of the loop is built by it (`LoopExists`). For the netmask, `Powers`
lists the powers of two up to 2^16, as an address has at most 16 bits.

Of the constants of `Ip` it is assumed that an MTU is a `uint16`, as it is in the code,
that nobody registers protocol 0, that `Changes` are of words that a packet may have,
to words, that `udp.Send` has put an interface's address for
the wildcard, and that a peer's datagram was built by this `header2data`.

What is left to TLC is liveness, which is outside the prover's reach, and what the
runs that end in a violation show.

## Not modelled

* `Deletepcb` and several TCP pcbs on a host; which call waits for the mutex or on
  which answer channel (a call in `Tcp` is one step, its answer is taken at once;
  `Net` has the waits, not the calls).
* The values of the retransmission timeout, and time in general.
* The layout of the headers of TCP, ARP and Ethernet, and TCP's checksum.
* The tap device's system calls, and what is behind the tap file.
* Shared memory behind payloads: `Send` of TCP keeps the caller's slice, and a UDP
  payload is a part of the device's buffer. `Net` has the buffer, but not what a
  user reads after it has been handed up.
* Parsing of address strings, printing, logging.

## Plan

1. `TcpSync`: the calls of `Tcp` with the mutex and the unbuffered answer channels:
   which callers may stop reading, and whose answers then stop the stack, as `Net`
   has it for any.
2. `TcpTable`: `Newpcb`, `Deletepcb` and the unlocked search; a second connection
   on a pcb and what it inherits; opens from both ends.
