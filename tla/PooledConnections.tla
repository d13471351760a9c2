------------------------- MODULE PooledConnections -------------------------
(***************************************************************************)
(* What the handlers of the gateway may count on when they ask the pool    *)
(* for a connection, said without a cache, a key or an initialiser.        *)
(*                                                                         *)
(* A connection is a position in `opened`, the credentials of every        *)
(* connection ever opened.  It is live from then on until it is dropped,   *)
(* and is never dropped while a request holds it.                          *)
(***************************************************************************)
EXTENDS Naturals, Sequences

CONSTANTS
    Requests,       \* request handlers
    Credentials     \* what they are known by to Fluss

VARIABLES
    phase,      \* of each request: "idle", "asking", "holding" or "failed"
    want,       \* the credentials it asks with
    held,       \* the connection it holds, 0 for none
    opened,     \* credentials each connection was opened with
    live        \* connections not dropped yet

vars == <<phase, want, held, opened, live>>

Holding == {r \in Requests : phase[r] = "holding"}

Init ==
    /\ phase = [r \in Requests |-> "idle"]
    /\ want \in [Requests -> Credentials]
    /\ held = [r \in Requests |-> 0]
    /\ opened = <<>>
    /\ live = {}

\* Connections may be dropped at any step, but not under a request.
DropsOnlyUnheld(known) ==
    /\ live' \subseteq known
    /\ \A r \in Requests : held'[r] # 0 => held'[r] \in live'

Ask(r, c) ==
    /\ phase[r] = "idle"
    /\ phase' = [phase EXCEPT ![r] = "asking"]
    /\ want' = [want EXCEPT ![r] = c]
    /\ DropsOnlyUnheld(live)
    /\ UNCHANGED <<held, opened>>

\* All of `them`, who asked with the same credentials, get connection n.
Give(them, n) ==
    /\ \A r \in them : phase[r] = "asking"
    /\ phase' = [r \in Requests |-> IF r \in them THEN "holding" ELSE phase[r]]
    /\ held'  = [r \in Requests |-> IF r \in them THEN n ELSE held[r]]
    /\ UNCHANGED want

\* An open connection is shared only by requests with its credentials.
Share(r) ==
    \E n \in live :
        /\ opened[n] = want[r]
        /\ Give({r}, n)
        /\ DropsOnlyUnheld(live)
        /\ UNCHANGED opened

\* A new connection is opened for the credentials of those who will use it.
Open(c) ==
    \E them \in (SUBSET Requests) \ {{}} :
        /\ \A r \in them : want[r] = c
        /\ opened' = Append(opened, c)
        /\ Give(them, Len(opened'))
        /\ DropsOnlyUnheld(live \cup {Len(opened')})

\* Some requests that wait get no connection: they fail, or their client left.
Refuse ==
    \E them \in SUBSET Requests, left \in SUBSET Requests :
        /\ \A r \in them \cup left : phase[r] = "asking"
        /\ phase' = [r \in Requests |-> IF r \in left THEN "idle"
                                        ELSE IF r \in them THEN "failed" ELSE phase[r]]
        /\ DropsOnlyUnheld(live)
        /\ UNCHANGED <<want, held, opened>>

\* A request is over; only its own hold ends.
Leave(r) ==
    /\ phase[r] \in {"holding", "failed"}
    /\ phase' = [phase EXCEPT ![r] = "idle"]
    /\ held' = [held EXCEPT ![r] = 0]
    /\ DropsOnlyUnheld(live)
    /\ UNCHANGED <<want, opened>>

Drop == DropsOnlyUnheld(live) /\ UNCHANGED <<phase, want, held, opened>>

Next ==
    \/ \E r \in Requests : Share(r) \/ Leave(r) \/ \E c \in Credentials : Ask(r, c)
    \/ \E c \in Credentials : Open(c)
    \/ Refuse
    \/ Drop

Spec == Init /\ [][Next]_vars
=============================================================================
