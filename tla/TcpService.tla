----------------------------- MODULE TcpService -----------------------------
(***************************************************************************)
(* What the users of a host's TCP are promised, with no segments in it: a  *)
(* connection goes through its phases in order, a call is answered at once *)
(* or becomes pending and is answered later, and when a connection ends    *)
(* every pending call is answered, unless an Abort cuts its last phase     *)
(* short.  Tcp implements it.                                              *)
(***************************************************************************)
CONSTANTS Host, Call

VARIABLES phase,  \* phase[h]: how far the connection of h has come
          status  \* status[h][c]: what has become of call c

svars == <<phase, status>>

Phase == {"closed", "listening", "opening", "open", "closing", "last"}

\* "void" is the fate of a SEND of no text, which nothing ever answers.
Status == {"none", "pending", "answered", "void"}

\* The phases that may follow each phase.
Later(f) ==
    CASE f = "closed"    -> {"listening", "opening"}
      [] f = "listening" -> {"opening", "closed"}
      [] f = "opening"   -> {"open", "closing", "closed"}
      [] f = "open"      -> {"closing", "closed"}
      [] f = "closing"   -> {"last", "closed"}
      [] f = "last"      -> {"closed"}

SInit ==
    /\ phase = [h \in Host |-> "closed"]
    /\ status = [h \in Host |-> [c \in Call |-> "none"]]

\* Calls in D change at most from pending to answered.
Answering(h, D) ==
    \A d \in D :
        \/ status'[h][d] = status[h][d]
        \/ status[h][d] = "pending" /\ status'[h][d] = "answered"

\* The connection stays in its phase or moves on; if it ends, nobody is left
\* waiting.
Moving(h) ==
    /\ phase'[h] = phase[h] \/ phase'[h] \in Later(phase[h])
    /\ phase'[h] = "closed" /\ phase[h] # "closed" =>
            \A c \in Call : status'[h][c] # "pending"

\* The user makes call c.
Request(h, c) ==
    /\ status[h][c] = "none"
    /\ status'[h][c] # "none"
    /\ Answering(h, Call \ {c})
    /\ Moving(h)

\* A segment or the timer moves the connection and answers pending calls.
Event(h) ==
    /\ Answering(h, Call)
    /\ Moving(h)

\* An Abort in the last phase leaves the pending calls pending.
Drop(h) ==
    /\ phase[h] = "last"
    /\ phase'[h] = "closed"
    /\ status'[h] = status[h]

\* The hosts other than h notice nothing.
Others(h) ==
    \A g \in Host \ {h} : phase'[g] = phase[g] /\ status'[g] = status[g]

SNext ==
    /\ phase' \in [Host -> Phase]
    /\ status' \in [Host -> [Call -> Status]]
    /\ \E h \in Host :
        /\ Others(h)
        /\ Event(h) \/ Drop(h) \/ (\E c \in Call : Request(h, c))

SSpec == SInit /\ [][SNext]_svars
=============================================================================
