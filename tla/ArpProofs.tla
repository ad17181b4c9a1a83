----------------------------- MODULE ArpProofs ------------------------------
(***************************************************************************)
(* What the cache of ARP says of an address has been heard, and it says it *)
(* at most twice, for a table of any size, any addresses and packets, and  *)
(* whatever the timer, which takes no mutex, clears in between.            *)
(***************************************************************************)
EXTENDS Arp, FiniteSetTheorems, WellFoundedInduction, TLAPS

\* No entry joins an address and hardware that no packet has joined: whatever
\* its state, for the timer may write the state before the other fields or
\* after them, and the packet that the handler holds included.
Heard ==
    /\ \A i \in Index : /\ caches[i].pa # AnyAddr
                        /\ caches[i].ha # AnyEther
                        => <<caches[i].pa, caches[i].ha>> \in heard
    /\ rx.pc = "check" => <<rx.packet.spa, rx.packet.sha>> \in heard

\* An address the handler is about to insert is in the table at most once: in
\* its first critical section it was not, and only Resolve has come between.
Few ==
    \A pa \in Addr \ {AnyAddr} :
        /\ Cardinality(Matches(caches, pa)) <= 2
        /\ rx.pc = "check" /\ ~rx.merge /\ rx.packet.spa = pa =>
              Cardinality(Matches(caches, pa)) <= 1

\* The timer that clears has an entry to clear.
Dooming == timer.pc = "clear" => timer.doomed # {}

IInv == TypeOK /\ Heard /\ Few /\ Dooming
-----------------------------------------------------------------------------
(***************************************************************************)
(* The table.                                                              *)
(***************************************************************************)

\* A set of indices that is not empty has a first.
LEMMA FirstIsIn == ASSUME NEW I \in SUBSET Index, I # {} PROVE First(I) \in I
<1>1. I \subseteq Nat
  BY SizeAssumption DEF Index
<1>2. PICK i \in I : \A j \in I : ~(<<j, i>> \in OpToRel(<, Nat))
  BY <1>1, NatLessThanWellFounded, WFMin
<1>3. ASSUME NEW j \in I PROVE i <= j
  <2>1. j < i => <<j, i>> \in OpToRel(<, Nat)
    BY <1>1 DEF OpToRel
  <2>2. i \in Nat /\ j \in Nat /\ ~(j < i)
    BY <1>1, <1>2, <2>1
  <2> QED BY <2>2
<1> QED BY <1>3 DEF First

LEMMA AllocIsIndex == \A t : cacheAlloc(t) \in Index
<1> SUFFICES ASSUME NEW t PROVE cacheAlloc(t) \in Index
  OBVIOUS
<1> DEFINE free == {i \in Index : t[i].state = "free"}
<1>1. cacheAlloc(t) = IF free = {} THEN 1 ELSE First(free)
  BY DEF cacheAlloc
<1>2. 1 \in Index /\ free \subseteq Index
  BY SizeAssumption DEF Index
<1> HIDE DEF free
<1> QED BY <1>1, <1>2, FirstIsIn

LEMMA SelectIsMatch ==
    ASSUME NEW t, NEW pa, Matches(t, pa) # {}
    PROVE  cacheSelect(t, pa) \in Matches(t, pa) /\ cacheSelect(t, pa) \in Index
<1>1. Matches(t, pa) \in SUBSET Index
  BY DEF Matches
<1> QED BY <1>1, FirstIsIn DEF cacheSelect

LEMMA ResolvedType ==
    ASSUME TypeOK, NEW pa \in Addr, NEW ha \in EtherAddr
    PROVE  Resolved(pa, ha) \in Entry
  BY DEF TypeOK, Resolved, Entry, CacheState

\* There are finitely many entries for an address.
LEMMA MatchesFinite ==
    ASSUME NEW t, NEW pa
    PROVE  IsFiniteSet(Matches(t, pa)) /\ Cardinality(Matches(t, pa)) \in Nat
<1>1. IsFiniteSet(Index)
  BY FS_Interval, SizeAssumption DEF Index
<1>2. Matches(t, pa) \subseteq Index
  BY DEF Matches
<1> QED BY <1>1, <1>2, FS_Subset, FS_CardinalityType

\* When one entry is written, the entries for an address become more by one,
\* and only if it is written for the address.
LEMMA WriteCounts ==
    ASSUME TypeOK, NEW i \in Index, NEW e, caches' = [caches EXCEPT ![i] = e], NEW pa
    PROVE  /\ Cardinality(Matches(caches', pa)) <= Cardinality(Matches(caches, pa)) + 1
           /\ (e.pa # pa \/ e.state = "free" \/ i \in Matches(caches, pa)) =>
                 Cardinality(Matches(caches', pa)) <= Cardinality(Matches(caches, pa))
<1> DEFINE M == Matches(caches, pa)
<1>1. Matches(caches', pa) \subseteq M \cup {i}
  BY DEF Matches, TypeOK
<1>2. (e.pa # pa \/ e.state = "free" \/ i \in M) => Matches(caches', pa) \subseteq M
  BY <1>1 DEF Matches, TypeOK
<1>3. IsFiniteSet(M) /\ Cardinality(M) \in Nat
  BY MatchesFinite
<1>4. IsFiniteSet(M \cup {i}) /\ Cardinality(M \cup {i}) <= Cardinality(M) + 1
  BY <1>3, FS_AddElement
<1>5. Cardinality(Matches(caches', pa)) \in Nat /\ Cardinality(M \cup {i}) \in Nat
  BY <1>4, MatchesFinite, FS_CardinalityType
<1>6. Cardinality(Matches(caches', pa)) <= Cardinality(M \cup {i})
  BY <1>1, <1>4, FS_Subset
<1>7. Matches(caches', pa) \subseteq M => Cardinality(Matches(caches', pa)) <= Cardinality(M)
  BY <1>3, FS_Subset
<1>8. Cardinality(Matches(caches', pa)) <= Cardinality(M) + 1
  BY <1>3, <1>4, <1>5, <1>6
<1> QED BY <1>2, <1>7, <1>8
-----------------------------------------------------------------------------
(***************************************************************************)
(* Each step keeps the invariant.                                          *)
(***************************************************************************)

\* What the handler gets.
LEMMA PacketShape ==
    \A m \in Packet \cup {NoPacket} : m.spa \in Addr /\ m.sha \in EtherAddr
  BY PacketAssumption, AddrAssumption DEF NoPacket

LEMMA UpdateStep ==
    ASSUME IInv, NEW m \in Packet \cup {NoPacket}, RxUpdate(m)
    PROVE  IInv'
<1> USE DEF IInv
<1> DEFINE e == Resolved(m.spa, m.sha)
           M == Matches(caches, m.spa)
           i == cacheSelect(caches, m.spa)
<1>1. m.spa \in Addr /\ m.sha \in EtherAddr /\ e \in Entry
  BY PacketShape, ResolvedType
<1>2. /\ heard' = heard \cup {<<m.spa, m.sha>>}
      /\ rx' = [pc |-> "check", packet |-> m, merge |-> M # {}]
      /\ UNCHANGED <<clock, timer>>
  BY DEF RxUpdate, Hear
<1>3. CASE M = {}
  <2>1. caches' = caches
    BY <1>3 DEF RxUpdate, cacheUpdate
  <2>2. Cardinality(M) = 0
    BY <1>3, FS_EmptySet
  <2>3. Few'
    BY <1>2, <2>1, <2>2 DEF Few
  <2> QED BY <1>1, <1>2, <2>1, <2>3 DEF TypeOK, Heard, Dooming
<1>4. CASE M # {}
  <2>1. caches' = [caches EXCEPT ![i] = e]
    BY <1>4 DEF RxUpdate, cacheUpdate
  <2>2. i \in M /\ i \in Index
    BY <1>4, SelectIsMatch
  <2>3. e.pa = m.spa /\ e.ha = m.sha
    BY DEF Resolved
  <2> HIDE DEF e, i
  <2>4. TypeOK'
    BY <1>1, <1>2, <2>1, <2>2 DEF TypeOK
  <2>5. Heard'
    BY <1>2, <2>1, <2>2, <2>3 DEF Heard, TypeOK
  <2>6. \A pa \in Addr : Cardinality(Matches(caches', pa)) <= Cardinality(Matches(caches, pa))
    BY <2>1, <2>2, <2>3, WriteCounts
  <2>7. Few'
    <3> SUFFICES ASSUME NEW pa \in Addr \ {AnyAddr}
                 PROVE  Cardinality(Matches(caches', pa)) <= 2
      BY <1>2, <1>4 DEF Few
    <3> QED BY <2>6, MatchesFinite DEF Few
  <2> QED BY <1>2, <2>4, <2>5, <2>7 DEF Dooming
<1> QED BY <1>3, <1>4

LEMMA ReturnStep == ASSUME IInv, RxReturn PROVE IInv'
<1>1. UNCHANGED <<caches, clock, timer, heard>> /\ rx' = [Receiving EXCEPT !.pc = "returned"]
  BY DEF RxReturn
<1> QED BY <1>1 DEF IInv, TypeOK, Heard, Few, Dooming, Receiving

LEMMA InsertStep == ASSUME IInv, RxInsert PROVE IInv'
<1> USE DEF IInv
<1> DEFINE m == rx.packet
           e == Resolved(m.spa, m.sha)
           i == cacheAlloc(caches)
<1>1. m.spa \in Addr /\ m.sha \in EtherAddr /\ e \in Entry
  BY PacketShape, ResolvedType DEF TypeOK
<1>2. /\ UNCHANGED <<clock, timer, heard>> /\ rx' = Receiving
      /\ <<m.spa, m.sha>> \in heard /\ rx.pc = "check"
  BY DEF RxInsert, Heard
<1>3. rx'.pc = "receive"
  BY <1>2 DEF Receiving
<1>4. CASE rx.merge
  <2>1. caches' = caches
    BY <1>4 DEF RxInsert
  <2> QED BY <1>2, <1>3, <2>1 DEF TypeOK, Heard, Few, Dooming, Receiving
<1>5. CASE ~rx.merge
  <2>1. caches' = [caches EXCEPT ![i] = e] /\ i \in Index
    BY <1>5, AllocIsIndex DEF RxInsert, cacheInsert
  <2>2. e.pa = m.spa /\ e.ha = m.sha
    BY DEF Resolved
  <2> HIDE DEF e, i
  <2>3. TypeOK'
    BY <1>1, <1>2, <2>1 DEF TypeOK, Receiving
  <2>4. Heard'
    BY <1>2, <1>3, <2>1, <2>2 DEF Heard, TypeOK
  <2>5. Few'
    <3> SUFFICES ASSUME NEW pa \in Addr \ {AnyAddr}
                 PROVE  Cardinality(Matches(caches', pa)) <= 2
      BY <1>3 DEF Few
    <3>1. Cardinality(Matches(caches', pa)) \in Nat /\ Cardinality(Matches(caches, pa)) \in Nat
      BY MatchesFinite
    <3>2. CASE pa = m.spa
      <4>1. Cardinality(Matches(caches, pa)) <= 1
        BY <1>2, <1>5, <3>2 DEF Few
      <4>2. Cardinality(Matches(caches', pa)) <= Cardinality(Matches(caches, pa)) + 1
        BY <2>1, WriteCounts
      <4> QED BY <3>1, <4>1, <4>2
    <3>3. CASE pa # m.spa
      <4>1. Cardinality(Matches(caches', pa)) <= Cardinality(Matches(caches, pa))
        BY <2>1, <2>2, <3>3, WriteCounts
      <4> QED BY <3>1, <4>1 DEF Few
    <3> QED BY <3>2, <3>3
  <2> QED BY <1>2, <2>3, <2>4, <2>5 DEF Dooming
<1> QED BY <1>4, <1>5

LEMMA MissStep == ASSUME IInv, NEW a \in Wanted, ResolveMiss(a) PROVE IInv'
<1> USE DEF IInv
<1> DEFINE e == [state |-> "incomplete", pa |-> a, ha |-> AnyEther, timeval |-> clock]
           i == cacheAlloc(caches)
<1>1. UNCHANGED <<clock, rx, timer, heard>> /\ Matches(caches, a) = {}
  BY DEF ResolveMiss
<1>2. caches' = [caches EXCEPT ![i] = e] /\ i \in Index
  BY AllocIsIndex DEF ResolveMiss
<1>3. e \in Entry /\ e.ha = AnyEther /\ e.pa = a
  BY WantedAssumption, AddrAssumption DEF Entry, CacheState, TypeOK
<1> HIDE DEF e, i
<1>4. TypeOK'
  BY <1>1, <1>2, <1>3 DEF TypeOK
<1>5. Heard'
  BY <1>1, <1>2, <1>3 DEF Heard, TypeOK
<1>6. Few'
  <2> SUFFICES ASSUME NEW pa \in Addr \ {AnyAddr}
               PROVE  \/ Cardinality(Matches(caches', pa)) <= 1
                      \/ Cardinality(Matches(caches', pa)) <= Cardinality(Matches(caches, pa))
    BY <1>1, MatchesFinite DEF Few
  <2>1. CASE pa = a
    <3>1. Cardinality(Matches(caches, pa)) = 0
      BY <1>1, <2>1, FS_EmptySet
    <3>2. Cardinality(Matches(caches', pa)) <= Cardinality(Matches(caches, pa)) + 1
      BY <1>2, WriteCounts
    <3> QED BY <3>1, <3>2
  <2>2. CASE pa # a
    BY <1>2, <1>3, <2>2, WriteCounts
  <2> QED BY <2>1, <2>2
<1> QED BY <1>1, <1>4, <1>5, <1>6 DEF Dooming

\* The timer: of the entry that it clears it writes one field, in any order.
LEMMA ClearStep == ASSUME IInv, NEW f \in Field, TimerClear(f) PROVE IInv'
<1> USE DEF IInv
<1> DEFINE i == First(timer.doomed)
           e == [caches[i] EXCEPT ![f] = Free[f]]
<1>1. UNCHANGED <<clock, rx, heard>> /\ caches' = [caches EXCEPT ![i] = e]
  BY DEF TimerClear
<1>2. i \in timer.doomed /\ i \in Index
  <2>1. timer.doomed \in SUBSET Index /\ timer.doomed # {}
    BY DEF TimerClear, Dooming, TypeOK
  <2> QED BY <2>1, FirstIsIn
<1>3. /\ caches[i] \in Entry /\ e \in Entry
      /\ e.pa \in {caches[i].pa, AnyAddr} /\ e.ha \in {caches[i].ha, AnyEther}
      /\ e.state \in {caches[i].state, "free"}
  <2>1. caches[i] \in Entry /\ Free \in Entry
    BY <1>2, AddrAssumption, TimeAssumption
       DEF TypeOK, Free, Entry, CacheState, Time
  <2>2. CASE f = "state"
    BY <2>1, <2>2 DEF Entry, CacheState, Free
  <2>3. CASE f = "pa"
    BY <2>1, <2>3 DEF Entry, CacheState, Free
  <2>4. CASE f = "ha"
    BY <2>1, <2>4 DEF Entry, CacheState, Free
  <2>5. CASE f = "timeval"
    BY <2>1, <2>5 DEF Entry, CacheState, Free
  <2> QED BY <2>2, <2>3, <2>4, <2>5 DEF Field
<1>4. TypeOK' /\ Dooming'
  <2>1. PICK D \in SUBSET Index, L \in SUBSET Field :
            \/ timer' = Sleeping
            \/ D # {} /\ timer' = [timer EXCEPT !.doomed = D, !.left = L]
    <3> DEFINE left == timer.left \ {f}
               rest == IF left = {} THEN timer.doomed \ {i} ELSE timer.doomed
    <3>1. rest \in SUBSET Index /\ (IF left = {} THEN Field ELSE left) \in SUBSET Field
      BY DEF TypeOK
    <3>2. timer' = IF rest = {} THEN Sleeping
                   ELSE [timer EXCEPT !.doomed = rest,
                                      !.left = IF left = {} THEN Field ELSE left]
      BY DEF TimerClear
    <3> HIDE DEF rest, left
    <3> QED BY <3>1, <3>2
  <2>2. 0 \in Time
    BY TimeAssumption DEF Time
  <2> HIDE DEF e, i
  <2>3. caches' \in [Index -> Entry]
    BY <1>1, <1>3 DEF TypeOK
  <2>4. timer' \in [pc : {"sleep", "copy", "clear"}, now : Time,
                    used : SUBSET Index, old : SUBSET Index,
                    doomed : SUBSET Index, left : SUBSET Field] /\ Dooming'
    <3>1. CASE timer' = Sleeping
      BY <2>2, <3>1 DEF Sleeping, Dooming
    <3>2. CASE D # {} /\ timer' = [timer EXCEPT !.doomed = D, !.left = L]
      BY <3>2 DEF TypeOK, Dooming
    <3> QED BY <2>1, <3>1, <3>2
  <2> QED BY <1>1, <2>3, <2>4 DEF TypeOK
<1> HIDE DEF e, i
<1>5. Heard'
  BY <1>1, <1>2, <1>3 DEF Heard, TypeOK
<1>6. Few'
  <2>1. ASSUME NEW pa \in Addr \ {AnyAddr}
        PROVE  /\ Cardinality(Matches(caches', pa)) <= Cardinality(Matches(caches, pa))
               /\ Cardinality(Matches(caches', pa)) \in Nat
               /\ Cardinality(Matches(caches, pa)) \in Nat
    <3>1. e.pa # pa \/ e.state = "free" \/ i \in Matches(caches, pa)
      BY <1>2, <1>3 DEF Matches
    <3> QED BY <1>1, <1>2, <3>1, WriteCounts, MatchesFinite
  <2>2. rx' = rx
    BY <1>1
  <2> SUFFICES ASSUME NEW pa \in Addr \ {AnyAddr}
               PROVE  /\ Cardinality(Matches(caches', pa)) <= 2
                      /\ rx.pc = "check" /\ ~rx.merge /\ rx.packet.spa = pa =>
                            Cardinality(Matches(caches', pa)) <= 1
    BY <2>2 DEF Few
  <2> DEFINE c == Cardinality(Matches(caches, pa))
             d == Cardinality(Matches(caches', pa))
  <2>3. d <= c /\ c \in Nat /\ d \in Nat
    BY <2>1
  <2>4. c <= 2 /\ (rx.pc = "check" /\ ~rx.merge /\ rx.packet.spa = pa => c <= 1)
    BY DEF Few
  <2> HIDE DEF c, d
  <2> QED BY <2>3, <2>4 DEF c, d
<1> QED BY <1>4, <1>5, <1>6

LEMMA TimerStep == ASSUME IInv, TimerCopy \/ TimerCopied PROVE IInv'
<1>1. UNCHANGED <<caches, clock, rx, heard>>
  BY DEF TimerCopy, TimerCopied
<1>2. timer' \in [pc : {"sleep", "copy", "clear"}, now : Time,
                  used : SUBSET Index, old : SUBSET Index,
                  doomed : SUBSET Index, left : SUBSET Field] /\ Dooming'
  <2>1. CASE TimerCopy
    BY <2>1 DEF TimerCopy, Sleeping, IInv, TypeOK, NotFree, Time, Dooming
  <2>2. CASE TimerCopied
    <3>1. PICK D \in SUBSET Index :
              timer' = IF D = {} THEN Sleeping
                       ELSE [Sleeping EXCEPT !.pc = "clear", !.doomed = D]
      <4> DEFINE old == {i \in Index : Old(i, timer.now)}
                 maybe == (timer.used \cup NotFree) \cap (timer.old \cup old)
      <4>1. maybe \subseteq Index
        BY DEF NotFree, IInv, TypeOK
      <4>2. \E D \in SUBSET maybe :
               timer' = IF D = {} THEN Sleeping
                        ELSE [Sleeping EXCEPT !.pc = "clear", !.doomed = D]
        BY <2>2 DEF TimerCopied
      <4> QED BY <4>1, <4>2
    <3>2. 0 \in Time
      BY TimeAssumption DEF Time
    <3> QED BY <3>1, <3>2 DEF Sleeping, Dooming
  <2> QED BY <2>1, <2>2
<1> QED BY <1>1, <1>2 DEF IInv, TypeOK, Heard, Few

LEMMA PassStep == ASSUME IInv, Pass PROVE IInv'
<1>1. clock' \in Time
  BY TimeAssumption DEF IInv, TypeOK, Pass, Time
<1> QED BY <1>1 DEF IInv, TypeOK, Heard, Few, Dooming, Pass
-----------------------------------------------------------------------------
(***************************************************************************)
(* The theorems.                                                           *)
(***************************************************************************)
LEMMA Initially == Init => IInv
<1> SUFFICES ASSUME Init PROVE IInv
  OBVIOUS
<1>1. Free \in Entry /\ 0 \in Time /\ 1 \in Time
  BY AddrAssumption, TimeAssumption DEF Free, Entry, CacheState, Time
<1>2. TypeOK
  BY <1>1 DEF Init, TypeOK, Receiving, Sleeping
<1>3. Heard /\ Dooming
  BY DEF Init, Heard, Dooming, Free, Receiving, Sleeping
<1>4. \A pa : Matches(caches, pa) = {}
  BY DEF Init, Matches, Free
<1>5. Few
  BY <1>4, FS_EmptySet DEF Few
<1> QED BY <1>2, <1>3, <1>5 DEF IInv

THEOREM Inductive == Spec => []IInv
<1>1. IInv /\ [Next]_vars => IInv'
  <2> SUFFICES ASSUME IInv, [Next]_vars PROVE IInv'
    OBVIOUS
  <2>1. CASE UNCHANGED vars
    BY <2>1 DEF vars, IInv, TypeOK, Heard, Few, Dooming, Matches
  <2>2. CASE RxHandler
    BY <2>2, UpdateStep, ReturnStep, InsertStep DEF RxHandler
  <2>3. CASE Resolve
    BY <2>3, MissStep DEF Resolve
  <2>4. CASE Timer
    BY <2>4, TimerStep, ClearStep DEF Timer
  <2> QED BY <2>1, <2>2, <2>3, <2>4, PassStep DEF Next
<1> QED BY <1>1, Initially, PTL DEF Spec

\* The state is well typed.
THEOREM TypeCorrect == Spec => []TypeOK
<1>1. IInv => TypeOK
  BY DEF IInv
<1> QED BY <1>1, Inductive, PTL

\* An address is at most twice in the table, although the handler leaves the
\* mutex between its search and its insertion.
THEOREM TwoAtMost == Spec => []AtMostTwo
<1>1. IInv => AtMostTwo
  BY DEF IInv, Few, AtMostTwo
<1> QED BY <1>1, Inductive, PTL

\* Resolve returns no hardware that has not claimed the address, although the
\* timer clears entries without the mutex, in any order of the fields.
THEOREM HeardOnly == Spec => []ResolvedIsHeard
<1>1. IInv => ResolvedIsHeard
  BY DEF IInv, Heard, ResolvedIsHeard, ResolveHit
<1> QED BY <1>1, Inductive, PTL
=============================================================================
