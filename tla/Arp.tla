-------------------------------- MODULE Arp --------------------------------
(***************************************************************************)
(* The ARP of one host, pkg/arp: the cache table and the three parties     *)
(* that use it.  The receive handler takes the mutex twice for a packet,   *)
(* to update and to insert; Resolve, called by ip.TxHandler, holds it      *)
(* throughout; the timer never takes it, and walks a copy of the table.    *)
(*                                                                         *)
(* The timer's reads and writes race with the others.  A copied entry may  *)
(* mix what the table held at the start and at the end of the copying, and *)
(* an entry is cleared field by field, in any order.  Critical sections    *)
(* are steps: a write of the timer in the middle of one has the effect of  *)
(* one before or after it.                                                 *)
(***************************************************************************)
EXTENDS Integers, FiniteSets

CONSTANTS
    CacheSize,    \* cacheSize
    Timeout,      \* cacheTimeout
    MaxTime,      \* the bound of the model's clock
    Addr,         \* protocol addresses
    AnyAddr,      \* the zero ip.Addr
    Unicast,      \* the address of the host's interface
    EtherAddr,    \* hardware addresses
    AnyEther,     \* the zero EtherAddr
    Wanted,       \* the addresses ip.TxHandler asks for
    Packet        \* the ARP packets that may arrive

Index == 1 .. CacheSize
Time == 0 .. MaxTime
CacheState == {"free", "incomplete", "resolved"}

Entry == [state : CacheState, pa : Addr, ha : EtherAddr, timeval : Time]

Field == {"state", "pa", "ha", "timeval"}

ASSUME SizeAssumption == CacheSize \in Nat \ {0}
ASSUME TimeAssumption == Timeout \in Nat /\ MaxTime \in Nat \ {0}
ASSUME AddrAssumption == {AnyAddr, Unicast} \subseteq Addr /\ AnyEther \in EtherAddr
ASSUME WantedAssumption == Wanted \subseteq Addr
ASSUME PacketAssumption ==
    Packet \subseteq [spa : Addr, sha : EtherAddr, tpa : Addr]

VARIABLES
    caches,   \* the table
    clock,    \* time.Now(): 0 is the zero time, the program starts at 1
    rx,       \* the handler: its place, its packet, and merge
    timer,    \* the timer: its place, the copy, and what is left to clear
    heard     \* history: the <<pa, ha>> pairs that packets have advertised

vars == <<caches, clock, rx, timer, heard>>

Free == [state |-> "free", pa |-> AnyAddr, ha |-> AnyEther, timeval |-> 0]

\* data2header of what it cannot parse: the zero header, which the handler
\* logs and goes on with.
NoPacket == [spa |-> AnyAddr, sha |-> AnyEther, tpa |-> AnyAddr]
-----------------------------------------------------------------------------
(***************************************************************************)
(* The table.                                                              *)
(***************************************************************************)
First(I) == CHOOSE i \in I : \A j \in I : i <= j

\* cacheAlloc.  No timeval lies before the zero time of oldest, so with no
\* free entry the index is that of the first.
cacheAlloc(t) ==
    LET free == {i \in Index : t[i].state = "free"}
    IN  IF free = {} THEN 1 ELSE First(free)

Matches(t, pa) == {i \in Index : t[i].state # "free" /\ t[i].pa = pa}

cacheSelect(t, pa) == First(Matches(t, pa))

\* Slip for TypeOK: the time stored is when the entry will be too old.
ResolvedSlip(pa, ha) ==
    [state |-> "resolved", pa |-> pa, ha |-> ha, timeval |-> clock + Timeout]

Resolved(pa, ha) ==
    [state |-> "resolved", pa |-> pa, ha |-> ha, timeval |-> clock]

cacheInsert(t, pa, ha) == [t EXCEPT ![cacheAlloc(t)] = Resolved(pa, ha)]

\* Slip for ResolvedIsHeard: the entry found keeps its protocol address.
cacheUpdateSlip(t, pa, ha) ==
    IF Matches(t, pa) = {} THEN t
    ELSE [t EXCEPT ![CacheSize] = [@ EXCEPT !.state = "resolved", !.ha = ha]]

cacheUpdate(t, pa, ha) ==
    IF Matches(t, pa) = {} THEN t
    ELSE [t EXCEPT ![cacheSelect(t, pa)] = Resolved(pa, ha)]
-----------------------------------------------------------------------------
(***************************************************************************)
(* RxHandler, one packet at a time.                                        *)
(***************************************************************************)
Receiving == [pc |-> "receive", packet |-> NoPacket, merge |-> FALSE]

Hear(m) == heard' = heard \cup {<<m.spa, m.sha>>}

\* First critical section: cacheUpdate.
RxUpdate(m) ==
    /\ rx.pc = "receive"
    /\ caches' = cacheUpdate(caches, m.spa, m.sha)
    /\ rx' = [pc |-> "check", packet |-> m,
              merge |-> Matches(caches, m.spa) # {}]
    /\ Hear(m)
    /\ UNCHANGED <<clock, timer>>

\* The packet is for another host: the handler returns, and is gone.
RxReturn ==
    /\ rx.pc = "check" /\ rx.packet.tpa # Unicast
    /\ rx' = [Receiving EXCEPT !.pc = "returned"]
    /\ UNCHANGED <<caches, clock, timer, heard>>

\* Second critical section: cacheInsert, unless merge.  A request is then
\* replied to, whatever the table holds by now.
RxInsert ==
    /\ rx.pc = "check" /\ rx.packet.tpa = Unicast
    /\ caches' = IF rx.merge THEN caches
                 ELSE cacheInsert(caches, rx.packet.spa, rx.packet.sha)
    /\ rx' = Receiving
    /\ UNCHANGED <<clock, timer, heard>>
-----------------------------------------------------------------------------
(***************************************************************************)
(* Resolve.  The request it may send is not kept: a peer may send any of   *)
(* Packet at any time.                                                     *)
(***************************************************************************)

\* Slip for AtMostTwo: a new entry though one is there.
ResolveMissSlip(pa) ==
    /\ caches' = [caches EXCEPT ![cacheAlloc(caches)] =
                    [state |-> "incomplete", pa |-> pa, ha |-> AnyEther,
                     timeval |-> clock]]
    /\ UNCHANGED <<clock, rx, timer, heard>>

ResolveMiss(pa) ==
    /\ Matches(caches, pa) = {}
    /\ caches' = [caches EXCEPT ![cacheAlloc(caches)] =
                    [state |-> "incomplete", pa |-> pa, ha |-> AnyEther,
                     timeval |-> clock]]
    /\ UNCHANGED <<clock, rx, timer, heard>>

\* Otherwise the table stays as it is, and the hardware address is that of
\* the entry found, unless it is incomplete and Resolve returns an error.
\* The timer may have freed the entry after the search.
ResolveHit(entry) == IF entry.state = "incomplete" THEN {} ELSE {entry.ha}
-----------------------------------------------------------------------------
(***************************************************************************)
(* The timer.                                                              *)
(***************************************************************************)
Old(i, now) == caches[i].timeval + Timeout < now

NotFree == {i \in Index : caches[i].state # "free"}

Sleeping ==
    [pc |-> "sleep", now |-> 0, used |-> {}, old |-> {},
     doomed |-> {}, left |-> Field]

\* now is taken, and the copying of the table begins; of the copy only the
\* tests of a state and of a timeval are kept ...
TimerCopy ==
    /\ timer.pc = "sleep"
    /\ timer' = [Sleeping EXCEPT !.pc = "copy", !.now = clock, !.used = NotFree,
                                 !.old = {i \in Index : Old(i, clock)}]
    /\ UNCHANGED <<caches, clock, rx, heard>>

\* ... and ends.  Each test comes out as at the beginning or as it would now.
TimerCopied ==
    LET old == {i \in Index : Old(i, timer.now)}
        surely == (timer.used \cap NotFree) \cap (timer.old \cap old)
        maybe == (timer.used \cup NotFree) \cap (timer.old \cup old)
    IN  /\ timer.pc = "copy"
        /\ \E D \in SUBSET maybe :
            /\ surely \subseteq D
            /\ timer' = IF D = {} THEN Sleeping
                        ELSE [Sleeping EXCEPT !.pc = "clear", !.doomed = D]
        /\ UNCHANGED <<caches, clock, rx, heard>>

\* cacheDelete of the next doomed entry writes one of its fields; after the
\* last field it goes on to the next entry.
TimerClear(f) ==
    LET i == First(timer.doomed)
        left == timer.left \ {f}
        rest == IF left = {} THEN timer.doomed \ {i} ELSE timer.doomed
    IN  /\ timer.pc = "clear"
        /\ f \in timer.left
        /\ caches' = [caches EXCEPT ![i] = [@ EXCEPT ![f] = Free[f]]]
        /\ timer' = IF rest = {} THEN Sleeping
                    ELSE [timer EXCEPT !.doomed = rest,
                                       !.left = IF left = {} THEN Field ELSE left]
        /\ UNCHANGED <<clock, rx, heard>>

Pass ==
    /\ clock < MaxTime
    /\ clock' = clock + 1
    /\ UNCHANGED <<caches, rx, timer, heard>>
-----------------------------------------------------------------------------
Init ==
    /\ caches = [i \in Index |-> Free]
    /\ clock = 1
    /\ rx = Receiving
    /\ timer = Sleeping
    /\ heard = {}

RxHandler ==
    \/ \E m \in Packet \cup {NoPacket} : RxUpdate(m)
    \/ RxReturn
    \/ RxInsert

\* The hit is not a step: it changes nothing.
Resolve == \E pa \in Wanted : ResolveMiss(pa)

Timer == TimerCopy \/ TimerCopied \/ (\E f \in Field : TimerClear(f))

Next == RxHandler \/ Resolve \/ Timer \/ Pass

Spec == Init /\ [][Next]_vars
-----------------------------------------------------------------------------
TypeOK ==
    /\ caches \in [Index -> Entry]
    /\ clock \in Time
    /\ rx \in [pc : {"receive", "check", "returned"},
               packet : Packet \cup {NoPacket}, merge : BOOLEAN]
    /\ timer \in [pc : {"sleep", "copy", "clear"}, now : Time,
                  used : SUBSET Index, old : SUBSET Index,
                  doomed : SUBSET Index, left : SUBSET Field]
    /\ heard \subseteq Addr \X EtherAddr

\* The handler's two critical sections leave room for a Resolve between them,
\* so an address may be in the table twice; but never three times.
AtMostTwo ==
    \A pa \in Addr \ {AnyAddr} : Cardinality(Matches(caches, pa)) <= 2

\* No entry makes Resolve return hardware that never claimed the address,
\* however the timer's writes fall between the others': of an entry it is
\* clearing it may return the zero address, but none of another host.
ResolvedIsHeard ==
    \A i \in Index :
        caches[i].pa # AnyAddr =>
            \A ha \in ResolveHit(caches[i]) \ {AnyEther} : <<caches[i].pa, ha>> \in heard
=============================================================================
