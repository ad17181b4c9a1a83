----------------------------- MODULE UdpService -----------------------------
(***************************************************************************)
(* What the sockets of UDP promise: no two are bound to one endpoint, a    *)
(* datagram goes to the socket bound to its destination, at the moment it  *)
(* is put into the queue of the socket or nowhere, and a socket is read in *)
(* the order of its queue.                                                 *)
(***************************************************************************)
EXTENDS Sequences

CONSTANTS Socket, Endpoint, Unbound, Datagram

VARIABLES
    bound,    \* Socket -> its endpoint, Unbound, or nothing if it is not open
    box       \* Socket -> the datagrams it has not read

vars == <<bound, box>>

Init ==
    /\ bound = [s \in Socket |-> {}]
    /\ box = [s \in Socket |-> <<>>]

\* Open, Bind and Close.
SetBound(s, e) == bound' = [bound EXCEPT ![s] = e] /\ UNCHANGED box

Open(s) == bound[s] = {} /\ SetBound(s, {Unbound})
Close(s) == bound[s] # {} /\ SetBound(s, {})
Bind(s, e) ==
    /\ bound[s] # {}
    /\ \A t \in Socket \ {s} : bound[t] # {e}
    /\ SetBound(s, {e})

Accept(s, d) ==
    /\ bound[s] = {d.dst}
    /\ box' = [box EXCEPT ![s] = Append(@, d)]
    /\ UNCHANGED bound

Read(s) ==
    /\ box[s] # <<>>
    /\ box' = [box EXCEPT ![s] = Tail(@)]
    /\ UNCHANGED bound

Next ==
    \E s \in Socket :
        \/ Open(s) \/ Close(s) \/ Read(s)
        \/ \E e \in Endpoint : Bind(s, e)
        \/ \E d \in Datagram : Accept(s, d)

Spec == Init /\ [][Next]_vars
=============================================================================
