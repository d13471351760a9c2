--------------------------- MODULE ConnectionPool ---------------------------
(***************************************************************************)
(* The connection pool of src/pool.rs: one FlussConnection per credentials *)
(* in a moka cache, shared by the handlers that run at the same time.      *)
(*                                                                         *)
(* moka (external) is modelled by what get_with is documented to do and    *)
(* what get_or_create relies on: the handlers that miss on one key share   *)
(* one initialiser; when the initialiser panics or its handler is dropped  *)
(* the others try again, MaxTries times at most, each with an initialiser  *)
(* of its own.  An entry may leave the cache whenever it is idle or over   *)
(* capacity.  A connection is dropped with its last Arc.                   *)
(***************************************************************************)
EXTENDS Naturals, Sequences, FiniteSets

CONSTANTS
    Requests,       \* slots for request handlers
    Chars,          \* the characters credentials are made of
    Credentials,    \* the credentials in use: a user name and a password
    MaxTries,       \* moka's limit on waiting for another handler (200)
    MaxOpened       \* bound: connections ever opened

ASSUME RequestsAssumption == IsFiniteSet(Requests)
ASSUME CredentialsAssumption ==
    /\ ":" \in Chars
    /\ Credentials # {}
    /\ Credentials \subseteq [user : Seq(Chars), pass : Seq(Chars)]
ASSUME TriesAssumption  == MaxTries \in Nat \ {0}
ASSUME OpenedAssumption == MaxOpened \in Nat

VARIABLES
    pc,         \* where each handler is in get_or_create
    want,       \* the credentials it calls get_or_create with
    tries,      \* initialisers of others it waited for in vain
    held,       \* the connection whose Arc it holds, 0 for none
    cache,      \* the connection cached under each key, 0 for none
    opened      \* history: whom each connection was opened as

vars == <<pc, want, tries, held, cache, opened>>

-----------------------------------------------------------------------------
(***************************************************************************)
(* Keys                                                                    *)
(***************************************************************************)

\* SHA-256, taken as free of collisions: equal digests have equal inputs.
Sha256(text) == <<"sha256", text>>

Joined(c) == c.user \o <<":">> \o c.pass

\* Mutated: the digest alone, without the user name beside it.
KeyDigestOnly(c) == Sha256(Joined(c))

\* hash_credentials
Key(c) == <<c.user, Sha256(Joined(c))>>

Keys == {Key(c) : c \in Credentials}

Anonymous == [user |-> <<>>, pass |-> <<>>]

\* create_connection configures SASL only with a user and a password: Fluss
\* takes a connection opened without one of them for anonymous.
Principal(c) == IF c.user # <<>> /\ c.pass # <<>> THEN c ELSE Anonymous

Principals == {Principal(c) : c \in Credentials}

-----------------------------------------------------------------------------
(***************************************************************************)
(* get_or_create                                                           *)
(***************************************************************************)

MyKey(r) == Key(want[r])

Leaders(k) == {r \in Requests : pc[r] = "dialing" /\ MyKey(r) = k}
Waiters(k) == {r \in Requests : pc[r] = "waiting" /\ MyKey(r) = k}

TypeOK ==
    /\ pc \in [Requests -> {"idle", "getting", "dialing", "waiting", "holding", "failed"}]
    /\ want \in [Requests -> Credentials]
    /\ tries \in [Requests -> 0..MaxTries]
    /\ opened \in Seq(Principals)
    /\ held \in [Requests -> 0..Len(opened)]
    /\ cache \in [Keys -> 0..Len(opened)]

Init ==
    /\ pc = [r \in Requests |-> "idle"]
    /\ want \in {[r \in Requests |-> c] : c \in Credentials}
    /\ tries = [r \in Requests |-> 0]
    /\ held = [r \in Requests |-> 0]
    /\ cache = [k \in Keys |-> 0]
    /\ opened = <<>>

Goto(r, there) == pc' = [pc EXCEPT ![r] = there]

\* A handler calls get_or_create with credentials c.
Get(r, c) ==
    /\ pc[r] = "idle"
    /\ Goto(r, "getting")
    /\ want' = [want EXCEPT ![r] = c]
    /\ tries' = [tries EXCEPT ![r] = 0]
    /\ UNCHANGED <<held, cache, opened>>

\* get_with finds the key: the handler gets a clone of the cached Arc.
Hit(r) ==
    /\ pc[r] = "getting"
    /\ cache[MyKey(r)] # 0
    /\ Goto(r, "holding")
    /\ held' = [held EXCEPT ![r] = cache[MyKey(r)]]
    /\ UNCHANGED <<want, tries, cache, opened>>

\* Mutated: get and insert instead of get_with, each miss dials.
LeadUnshared(r) ==
    /\ pc[r] = "getting"
    /\ cache[MyKey(r)] = 0
    /\ Goto(r, "dialing")
    /\ UNCHANGED <<want, tries, held, cache, opened>>

\* Mutated: the key is taken in the cache before the connection is there.
LeadReserves(r) ==
    /\ pc[r] = "getting"
    /\ cache[MyKey(r)] = 0
    /\ Goto(r, "dialing")
    /\ cache' = [cache EXCEPT ![MyKey(r)] = Len(opened) + 1]
    /\ UNCHANGED <<want, tries, held, opened>>

\* A miss, and nobody is initialising the key: create_connection starts.
Lead(r) ==
    /\ pc[r] = "getting"
    /\ cache[MyKey(r)] = 0
    /\ Leaders(MyKey(r)) = {}
    /\ Goto(r, "dialing")
    /\ UNCHANGED <<want, tries, held, cache, opened>>

\* A miss while another handler is initialising the key: wait for it.
Join(r) ==
    /\ pc[r] = "getting"
    /\ cache[MyKey(r)] = 0
    /\ Leaders(MyKey(r)) # {}
    /\ Goto(r, "waiting")
    /\ UNCHANGED <<want, tries, held, cache, opened>>

\* create_connection succeeds: cached, and given to all who waited for it.
DialOk(r) ==
    LET n == Len(opened) + 1
        served == {r} \cup Waiters(MyKey(r))
    IN  /\ pc[r] = "dialing"
        /\ n <= MaxOpened
        /\ opened' = Append(opened, Principal(want[r]))
        /\ cache' = [cache EXCEPT ![MyKey(r)] = n]
        /\ pc' = [s \in Requests |-> IF s \in served THEN "holding" ELSE pc[s]]
        /\ held' = [s \in Requests |-> IF s \in served THEN n ELSE held[s]]
        /\ UNCHANGED <<want, tries>>

\* The leader r ends at `there` without a value: those who waited for it try
\* again, or panic when that was their last try.
Abandon(r, there) ==
    LET waiters == Waiters(MyKey(r))
        lost(s) == IF tries[s] + 1 < MaxTries THEN "getting" ELSE "failed"
    IN  /\ pc[r] = "dialing"
        /\ pc' = [s \in Requests |-> IF s = r THEN there
                                     ELSE IF s \in waiters THEN lost(s) ELSE pc[s]]
        /\ tries' = [s \in Requests |-> IF s \in waiters THEN tries[s] + 1 ELSE tries[s]]
        /\ UNCHANGED <<want, held, cache, opened>>

\* Mutated: a failure is not passed on to those who wait for it.
DialFailSilently(r) ==
    /\ pc[r] = "dialing"
    /\ Goto(r, "failed")
    /\ UNCHANGED <<want, tries, held, cache, opened>>

\* create_connection fails and panics, and so does the handler's task.
DialFail(r) == Abandon(r, "failed")

\* The client goes away: the handler is dropped where it is.
Leave(r) ==
    /\ pc[r] \in {"getting", "waiting", "holding"}
    /\ Goto(r, "idle")
    /\ held' = [held EXCEPT ![r] = 0]
    /\ UNCHANGED <<want, tries, cache, opened>>

Disconnect(r) == Leave(r) \/ Abandon(r, "idle")

\* The handler is done with its connection and drops its Arc.
Release(r) ==
    /\ pc[r] = "holding"
    /\ Goto(r, "idle")
    /\ held' = [held EXCEPT ![r] = 0]
    /\ UNCHANGED <<want, tries, cache, opened>>

\* The panicked task is gone.
Unwind(r) ==
    /\ pc[r] = "failed"
    /\ Goto(r, "idle")
    /\ UNCHANGED <<want, tries, held, cache, opened>>

-----------------------------------------------------------------------------
(***************************************************************************)
(* The cache                                                               *)
(***************************************************************************)

\* Mutated: an entry that leaves the cache takes its connection with it.
EvictClosing(k) ==
    /\ cache[k] # 0
    /\ cache' = [cache EXCEPT ![k] = 0]
    /\ held' = [r \in Requests |-> IF held[r] = cache[k] THEN 0 ELSE held[r]]
    /\ UNCHANGED <<pc, want, tries, opened>>

\* An entry leaves the cache, idle for idle_timeout_secs or over max_connections.
Evict(k) ==
    /\ cache[k] # 0
    /\ cache' = [cache EXCEPT ![k] = 0]
    /\ UNCHANGED <<pc, want, tries, held, opened>>

\* close: every entry present is invalidated.
Close ==
    /\ cache' = [k \in Keys |-> 0]
    /\ UNCHANGED <<pc, want, tries, held, opened>>

Dialed(r) == DialOk(r) \/ DialFail(r)

Step(r) == Hit(r) \/ Lead(r) \/ Join(r) \/ Dialed(r) \/ Release(r) \/ Unwind(r)

Next ==
    \/ \E r \in Requests :
          \/ Step(r)
          \/ Disconnect(r)
          \/ \E c \in Credentials : Get(r, c)
    \/ \E k \in Keys : Evict(k)
    \/ Close

Spec == Init /\ [][Next]_vars

\* Handlers are polled, a dial ends one way or the other, and a handler is
\* done with its connection some day.  Nothing obliges anybody to arrive, to
\* leave early, or an entry to be evicted.
Fairness == \A r \in Requests : WF_vars(Step(r))

FairSpec == Spec /\ Fairness

-----------------------------------------------------------------------------
(***************************************************************************)
(* What the pool guarantees                                                *)
(***************************************************************************)

\* A handler works on a connection opened with exactly its own credentials, or
\* on an anonymous one if they lack a user or a password, whichever handler
\* opened it and whatever else is in the cache.
OwnCredentials ==
    \A r \in Requests : held[r] # 0 => opened[held[r]] = Principal(want[r])

\* At most one handler at a time is opening a connection for given credentials.
SingleFlight ==
    \A r, s \in Requests :
        pc[r] = "dialing" /\ pc[s] = "dialing" /\ want[r] = want[s] => r = s

\* Nobody waits for an initialiser that is not running: when the leader fails
\* or is dropped, the handlers that shared its initialiser do not hang.
NobodyStranded ==
    \A r \in Requests : pc[r] = "waiting" => Leaders(MyKey(r)) # {}

\* A handler that asks for a connection stops waiting: it gets one or fails,
\* however often the handlers it waits for fail, leave, or are overtaken.
GetReturns ==
    \A r \in Requests : pc[r] = "getting" ~> pc[r] \in {"holding", "failed", "idle"}

-----------------------------------------------------------------------------
(***************************************************************************)
(* The pool implements PooledConnections: a connection is live as long as  *)
(* the cache or a handler has an Arc of it.                                *)
(***************************************************************************)
Phase(r) == IF pc[r] \in {"getting", "dialing", "waiting"} THEN "asking" ELSE pc[r]

Cached == {cache[k] : k \in Keys} \ {0}
InUse  == {held[r] : r \in Requests} \ {0}

Pooled == INSTANCE PooledConnections WITH
              Credentials <- Principals,
              phase <- [r \in Requests |-> Phase(r)],
              want  <- [r \in Requests |-> Principal(want[r])],
              live  <- Cached \cup InUse

\* No request ever gets a dropped connection, one it does not match, or loses
\* the one it holds.
ImplementsPooledConnections == Pooled!Spec
=============================================================================
