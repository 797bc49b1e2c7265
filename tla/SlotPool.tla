------------------------------- MODULE SlotPool -------------------------------
(***************************************************************************)
(* What the slicing scheduler promises to the owners of tickets, without   *)
(* loops, callbacks and counted starts: a call takes effect at once, and   *)
(* whatever can be served then is served, the better rank first.           *)
(***************************************************************************)
EXTENDS Naturals

CONSTANTS
    Tickets,
    Fits(_),    \* whether the slots have room for a set of tickets
    Rank        \* Rank[t]: the lower is served first

VARIABLES waiting, active

poolVars == <<waiting, active>>

PoolInit == waiting = {} /\ active = {}

\* As many of the tickets w as there is room for beside a.
Filling(w, a) == {c \in SUBSET w : Fits(a \cup c) /\ \A t \in w \ c : ~Fits(a \cup c \cup {t})}

\* What may be served of the tickets w while a hold slots: none is left that
\* would fit, and none of a better rank.
Claimable(w, a) == {c \in Filling(w, a) : \A t \in c, u \in w \ c : Rank[t] <= Rank[u]}

\* Tickets w wait and a hold slots, and a pump has served what it can.
Settle(w, a) ==
    \E c \in Claimable(w, a) :
        /\ waiting' = w \ c
        /\ active' = a \cup c

Enqueue(t) ==
    /\ t \notin waiting \cup active
    /\ Settle(waiting \cup {t}, active)

Cancel(t) ==
    /\ t \in waiting
    /\ waiting' = waiting \ {t}
    /\ UNCHANGED active

Complete(t) ==
    /\ t \in active
    /\ Settle(waiting, active \ {t})

\* A ticket is completed and at once enqueued again: those that waited come
\* first.
Renew(t) ==
    /\ t \in active
    /\ \E c \in Claimable(waiting, active \ {t}) :
        Settle((waiting \ c) \cup {t}, (active \ {t}) \cup c)

\* The owner restarts with the tickets it still knows; they come one by one,
\* so the first are served whatever their rank.
Reopen(ts) ==
    \E c \in Filling(ts, {}) :
        /\ waiting' = ts \ c
        /\ active' = c

PoolNext ==
    \/ \E t \in Tickets : Enqueue(t) \/ Cancel(t) \/ Complete(t) \/ Renew(t)
    \/ \E ts \in SUBSET Tickets : Reopen(ts)

PoolSpec == PoolInit /\ [][PoolNext]_poolVars
=============================================================================
