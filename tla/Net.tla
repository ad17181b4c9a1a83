-------------------------------- MODULE Net ---------------------------------
(***************************************************************************)
(* The goroutines of pkg/net between the Ethernet device and the upper     *)
(* protocols: the device's handler reads every frame into its one buffer   *)
(* and passes it on, by reference, over the channel of its protocol; the   *)
(* handlers of ARP and IP take it from there; senders over the loopback    *)
(* device write to the channel of IP themselves; and NetShutdown tells     *)
(* them all to stop.                                                       *)
(*                                                                         *)
(* What the upper protocols do is reduced to what they make the IP handler *)
(* wait for: UDP for room in a queue; TCP for its mutex, then, with the    *)
(* mutex, for those whose calls it answers, and for room in IP's own       *)
(* channel if the reply goes out over the loopback device; ICMP for that   *)
(* room, if its echo reply does.                                           *)
(***************************************************************************)
EXTENDS Integers, Sequences, FiniteSets

CONSTANTS
    Cap,         \* ProtoBufferSize
    UdpCap,      \* pcbBufSize of a UDP socket
    MaxFrames    \* the bound on the frames that arrive

ASSUME NetAssumption == {Cap, UdpCap, MaxFrames} \subseteq Nat \ {0}

Proto == {"arp", "ip"}

\* The kinds of frames.  An "other" is too short, for another host or of
\* another protocol; "bad" is what a handler makes of half of two frames.  An
\* "icmp" is also any packet that IP or an upper protocol drops, as it is one
\* that may be handled without a wait.
ArpKind == {"arpUs", "arpOther"}
IpKind == {"udp", "tcp", "icmp"}
Kind == ArpKind \cup IpKind \cup {"other"}

Number == 0 .. MaxFrames
NoFrame == [n |-> 0, kind |-> "bad"]

\* What goes over a channel: the reference to a frame in the buffer, or what
\* the loopback device was given.
Loop == [loop |-> TRUE]
Item == [n : 1 .. MaxFrames] \cup {Loop}

VARIABLES
    dev,       \* the device's handler: its place, and the protocol it passes to
    buf,       \* its buffer
    chan,      \* Proto -> the channel
    rx,        \* Proto -> the handler: its place and the item it has
    unread,    \* the length of the queue of a UDP socket
    caller,    \* what the user call, or the timer, that has the mutex of TCP
               \* waits for: "answer", "loop"; "out" if none has it
    done,      \* whether the channel done is closed
    closed,    \* whether the tap file is closed
    owed,      \* history: Proto -> the frames for it that it has not taken
    handed,    \* history: how often IP has handed up the frame in the buffer
    late       \* history: how often each has passed or taken one after done

stop == <<done, closed>>
history == <<owed, handed, late>>
vars == <<dev, buf, chan, rx, unread, caller, stop, history>>
-----------------------------------------------------------------------------
\* The check each handler makes at the top of its loop.
Top(next) == IF done THEN "gone" ELSE next

Late(x) == late' = IF done THEN [late EXCEPT ![x] = @ + 1] ELSE late

(***************************************************************************)
(* The device.                                                             *)
(***************************************************************************)
DevAt(pc) == [pc |-> pc, proto |-> "ip"]

EtherTop ==
    /\ dev.pc = "top"
    /\ dev' = DevAt(Top("read"))
    /\ UNCHANGED <<buf, chan, rx, unread, caller, stop, history>>

ProtoOf(kind) == IF kind \in ArpKind THEN "arp" ELSE "ip"

\* A frame arrives.  The tap file is in blocking mode: a Read that has begun
\* outlives Close.
EtherRead(kind) ==
    /\ dev.pc = "read" /\ buf.n < MaxFrames
    /\ buf' = [n |-> buf.n + 1, kind |-> kind]
    /\ handed' = 0
    /\ IF kind = "other" THEN dev' = DevAt("top") /\ UNCHANGED owed
       ELSE /\ dev' = [pc |-> "pass", proto |-> ProtoOf(kind)]
            /\ owed' = [owed EXCEPT ![ProtoOf(kind)] = @ + 1]
    /\ UNCHANGED <<chan, rx, unread, caller, stop, late>>

\* A Read that begins after Close fails.
EtherFails ==
    /\ dev.pc = "read" /\ closed
    /\ dev' = DevAt("top")
    /\ UNCHANGED <<buf, chan, rx, unread, caller, stop, history>>

\* Slip for TypeOK: the channel is larger than it says.
HasRoomSlip(p) == Len(chan[p]) <= Cap

HasRoom(p) == Len(chan[p]) < Cap

\* Slip for NothingLost: what does not fit into the channel is dropped.
DeviceInputHanlderSlip(p, item) ==
    chan' = IF HasRoom(p) THEN [chan EXCEPT ![p] = Append(@, item)] ELSE chan

DeviceInputHanlder(p, item) ==
    /\ HasRoom(p)
    /\ chan' = [chan EXCEPT ![p] = Append(@, item)]

\* Slip for RepeatedAtMost: the search of the protocol goes on after it was
\* found.
EtherPassSlip ==
    /\ dev.pc = "pass"
    /\ DeviceInputHanlder(dev.proto, [n |-> buf.n])
    /\ Late("dev")
    /\ UNCHANGED <<dev, buf, rx, unread, caller, stop, owed, handed>>

EtherPass ==
    /\ dev.pc = "pass"
    /\ DeviceInputHanlder(dev.proto, [n |-> buf.n])
    /\ dev' = DevAt("top")
    /\ Late("dev")
    /\ UNCHANGED <<buf, rx, unread, caller, stop, owed, handed>>
-----------------------------------------------------------------------------
(***************************************************************************)
(* The handlers.                                                           *)
(***************************************************************************)
At(p, pc) == rx[p].pc = pc
Goes(p, pc) == rx' = [rx EXCEPT ![p] = [pc |-> pc, item |-> Loop]]

\* Slip for OneAfterShutdown: done is never looked at.
RxTopSlip(p) ==
    /\ At(p, "top")
    /\ Goes(p, "receive")
    /\ UNCHANGED <<dev, buf, chan, unread, caller, stop, history>>

RxTop(p) ==
    /\ At(p, "top")
    /\ Goes(p, Top("receive"))
    /\ UNCHANGED <<dev, buf, chan, unread, caller, stop, history>>

\* Slip for ShutdownStops: an item does not lead back to the top of the loop.
RxReceiveSlip(p) ==
    /\ At(p, "receive") /\ chan[p] # <<>>
    /\ chan' = [chan EXCEPT ![p] = Tail(@)]
    /\ owed' = IF Head(chan[p]) = Loop THEN owed ELSE [owed EXCEPT ![p] = @ - 1]
    /\ UNCHANGED <<dev, buf, rx, unread, caller, stop, handed, late>>

RxReceive(p) ==
    /\ At(p, "receive") /\ chan[p] # <<>>
    /\ rx' = [rx EXCEPT ![p] = [pc |-> "parse", item |-> Head(chan[p])]]
    /\ chan' = [chan EXCEPT ![p] = Tail(@)]
    /\ owed' = IF Head(chan[p]) = Loop THEN owed ELSE [owed EXCEPT ![p] = @ - 1]
    /\ Late(p)
    /\ UNCHANGED <<dev, buf, unread, caller, stop, handed>>

\* What the handler finds where its item was: the frame now in the buffer.
\* With the length of another frame, or while the device is reading, it may
\* make nothing of it; nor of a packet of the loopback device, which has no
\* interfaces.
Content(item) ==
    IF item = Loop THEN {"bad"}
    ELSE {buf.kind} \cup (IF item.n # buf.n \/ dev.pc = "read" THEN {"bad"} ELSE {})

\* A packet that is not for this host, and one that cannot be parsed, ends
\* the handler.
ArpParse ==
    /\ At("arp", "parse")
    /\ \E kind \in Content(rx["arp"].item) :
          Goes("arp", IF kind = "arpUs" THEN "top" ELSE "gone")
    /\ UNCHANGED <<dev, buf, chan, unread, caller, stop, history>>

\* Slip for DeviceGoesOn: a packet that is refused ends the handler, as it
\* ends that of ARP.
IpDropSlip ==
    /\ At("ip", "parse")
    /\ Content(rx["ip"].item) \ IpKind # {}
    /\ Goes("ip", "gone")
    /\ UNCHANGED <<dev, buf, chan, unread, caller, stop, history>>

IpDrop ==
    /\ At("ip", "parse")
    /\ Content(rx["ip"].item) \ IpKind # {}
    /\ Goes("ip", "top")
    /\ UNCHANGED <<dev, buf, chan, unread, caller, stop, history>>

\* An echo is replied to, with no mutex held.  A reply that finds a route of the
\* loopback device goes into the channel of IP; any other needs no wait.
IcmpRxHandler == \E pc \in {"echo", "top"} : Goes("ip", pc)

IpParse ==
    /\ At("ip", "parse")
    /\ \E kind \in Content(rx["ip"].item) \cap IpKind :
          IF kind = "icmp" THEN IcmpRxHandler ELSE Goes("ip", kind)
    /\ handed' = handed + 1
    /\ UNCHANGED <<dev, buf, chan, unread, caller, stop, owed, late>>

\* UDP's mutex is never held over a wait but by this handler itself.
IpUdp ==
    /\ At("ip", "udp") /\ unread < UdpCap
    /\ unread' = unread + 1
    /\ Goes("ip", "top")
    /\ UNCHANGED <<dev, buf, chan, caller, stop, history>>

\* The mutex of TCP is free.  The handler has it while segmentArrives runs.
Free == caller = "out" /\ \A pc \in {"answer", "reply"} : ~At("ip", pc)

\* segmentArrives takes the mutex.  It first answers the calls that the
\* segment ends, on channels without a buffer, and replies last, if at all; the
\* reply may have to go over the loopback device, like that to an echo.
IpTcp ==
    /\ At("ip", "tcp") /\ Free
    /\ \E pc \in {"answer", "reply", "top"} : Goes("ip", pc)
    /\ UNCHANGED <<dev, buf, chan, unread, caller, stop, history>>

\* Those whose calls it answers have all read their answers.
IpAnswered ==
    /\ At("ip", "answer")
    /\ \E pc \in {"reply", "top"} : Goes("ip", pc)
    /\ UNCHANGED <<dev, buf, chan, unread, caller, stop, history>>

\* The handler writes to the channel that it alone reads.
IpLoopbackTx ==
    /\ At("ip", "reply") \/ At("ip", "echo")
    /\ DeviceInputHanlder("ip", Loop)
    /\ Goes("ip", "top")
    /\ UNCHANGED <<dev, buf, unread, caller, stop, history>>
-----------------------------------------------------------------------------
(***************************************************************************)
(* The users, the timer of TCP, and the shutdown.                          *)
(***************************************************************************)
Listen ==
    /\ unread > 0
    /\ unread' = unread - 1
    /\ UNCHANGED <<dev, buf, chan, rx, caller, stop, history>>

\* A user call or the timer takes the mutex of TCP.  With it, it sends answers
\* and segments, in any order; it waits until an answer is read, and for room
\* if a segment goes over the loopback device.
Lock ==
    /\ Free /\ caller' \in {"answer", "loop"}
    /\ UNCHANGED <<dev, buf, chan, rx, unread, stop, history>>

CallerAnswered ==
    /\ caller = "answer" /\ caller' \in {"loop", "out"}
    /\ UNCHANGED <<dev, buf, chan, rx, unread, stop, history>>

LoopbackTx ==
    /\ caller = "loop" /\ caller' \in {"answer", "loop", "out"}
    /\ DeviceInputHanlder("ip", Loop)
    /\ UNCHANGED <<dev, buf, rx, unread, stop, history>>

\* A user of UDP sends over the loopback device, without any mutex.
UdpLoopbackTx ==
    /\ DeviceInputHanlder("ip", Loop)
    /\ UNCHANGED <<dev, buf, rx, unread, caller, stop, history>>

NetShutdown ==
    /\ ~done /\ done' = TRUE
    /\ UNCHANGED <<dev, buf, chan, rx, unread, caller, closed, history>>

Close ==
    /\ done /\ ~closed /\ closed' = TRUE
    /\ UNCHANGED <<dev, buf, chan, rx, unread, caller, done, history>>
-----------------------------------------------------------------------------
Init ==
    /\ dev = DevAt("top") /\ buf = NoFrame
    /\ chan = [p \in Proto |-> <<>>]
    /\ rx = [p \in Proto |-> [pc |-> "top", item |-> Loop]]
    /\ unread = 0 /\ caller = "out"
    /\ done = FALSE /\ closed = FALSE
    /\ owed = [p \in Proto |-> 0] /\ handed = 0
    /\ late = [x \in Proto \cup {"dev"} |-> 0]

EtherSteps == EtherTop \/ EtherPass
ArpSteps == RxTop("arp") \/ RxReceive("arp") \/ ArpParse
IpSteps ==
    \/ RxTop("ip") \/ RxReceive("ip") \/ IpDrop \/ IpParse
    \/ IpUdp \/ IpTcp \/ IpLoopbackTx

Next ==
    \/ EtherSteps \/ EtherFails \/ \E kind \in Kind : EtherRead(kind)
    \/ ArpSteps \/ IpSteps
    \/ IpAnswered \/ CallerAnswered
    \/ Listen \/ Lock \/ LoopbackTx \/ UdpLoopbackTx
    \/ NetShutdown \/ Close

\* Channels and the mutex serve those who wait in turn.  Nothing makes frames
\* arrive, a user listen, read an answer or call, or a shutdown begin.
Fairness ==
    /\ SF_vars(EtherSteps) /\ WF_vars(ArpSteps) /\ SF_vars(IpSteps)
    /\ SF_vars(LoopbackTx) /\ WF_vars(Close)

Spec == Init /\ [][Next]_vars /\ Fairness
-----------------------------------------------------------------------------
(***************************************************************************)
(* Properties.                                                             *)
(***************************************************************************)

\* Where a handler is: in its loop, or in that of an upper protocol.
Place == {"top", "receive", "parse", "gone"}
         \cup {"udp", "tcp", "answer", "reply", "echo"}

\* The type of the state, and the capacity of the channels of ProtoRegister.
TypeOK ==
    /\ dev \in [pc : {"top", "read", "pass", "gone"}, proto : Proto]
    /\ buf = NoFrame \/ buf \in [n : 1 .. MaxFrames, kind : Kind]
    /\ chan \in [Proto -> Seq(Item)] /\ \A p \in Proto : Len(chan[p]) <= Cap
    /\ rx \in [Proto -> [pc : Place, item : Item]]
    /\ unread \in 0 .. UdpCap
    /\ caller \in {"out", "answer", "loop"} /\ done \in BOOLEAN
    /\ closed \in BOOLEAN
    /\ owed \in [Proto -> Number]
    /\ handed \in Nat /\ late \in [Proto \cup {"dev"} -> Nat]

\* Where the items that the device passed on are in a channel.
Frames(items) == {i \in DOMAIN items : items[i] # Loop}

Passing(p) == dev.pc = "pass" /\ dev.proto = p

\* No frame that the device has accepted for a protocol is lost before the
\* handler takes it, however long the handler is kept: it is in the channel,
\* in the order of arrival, or the device waits with it.
NothingLost ==
    \A p \in Proto :
        /\ owed[p] = Cardinality(Frames(chan[p])) + (IF Passing(p) THEN 1 ELSE 0)
        /\ \A i, j \in Frames(chan[p]) : i < j => chan[p][i].n < chan[p][j].n

\* With one buffer for all frames (ethernet.go:206) the content of the last
\* is handed up in the place of earlier ones still on their way; but not more
\* often than the channel, the handler and the device have room for.
RepeatedAtMost == handed <= Cap + 2

\* After NetShutdown each handler of a protocol takes at most one more item,
\* and the device's passes at most one more frame.
OneAfterShutdown == \A x \in DOMAIN late : late[x] <= 1

\* The handler of p will not take another item before a user acts, if ever:
\* the queue of a UDP socket is full; a caller whose call TCP answers does not
\* read; it writes to its own full channel; or it waits for the mutex of TCP,
\* whose holder waits for one of these.  After done it may have returned, and
\* that of ARP before.
Stuck(p) ==
    \/ At(p, "gone") /\ (p = "arp" \/ done)
    \/ At(p, "udp") /\ unread = UdpCap
    \/ At(p, "answer")
    \/ (At(p, "reply") \/ At(p, "echo")) /\ ~HasRoom(p)
    \/ At(p, "tcp") /\ (caller = "answer" \/ (caller = "loop" /\ ~HasRoom(p)))

\* The device waits for room in the channel of a handler that is stuck.
DeviceStuck == dev.pc = "pass" /\ Stuck(dev.proto) /\ ~HasRoom(dev.proto)

\* The device, and with it every protocol, always goes on after a frame, unless
\* the handler it passes one to is stuck for ever.
DeviceGoesOn == []<>(dev.pc # "pass") \/ <>[]DeviceStuck

\* After NetShutdown every handler returns, except one that is stuck, or that
\* waits for ever for an item or a frame: it looks at done only before.
ShutdownStops ==
    /\ \A p \in Proto :
        \/ []<>(done => At(p, "gone"))
        \/ <>[]Stuck(p)
        \/ <>[](At(p, "receive") /\ chan[p] = <<>>)
    /\ []<>(done => dev.pc = "gone") \/ <>[](dev.pc = "read") \/ <>[]DeviceStuck
=============================================================================
