------------------------ MODULE ConnectionPoolProofs ------------------------
(***************************************************************************)
(* Proofs of the safety properties of ConnectionPool, for any number of    *)
(* handlers, any set of credentials and any limit on retries.              *)
(***************************************************************************)
EXTENDS ConnectionPool, SequenceTheorems, TLAPS

(***************************************************************************)
(* Keys: the user name and the digest together identify the credentials,   *)
(* although "user:password" alone does not when a user name has a colon.   *)
(***************************************************************************)

\* hash_credentials never confuses two credentials.
LEMMA KeyInjective ==
    ASSUME NEW c \in Credentials, NEW d \in Credentials, Key(c) = Key(d)
    PROVE  c = d
<1>1. /\ c \in [user : Seq(Chars), pass : Seq(Chars)]
      /\ d \in [user : Seq(Chars), pass : Seq(Chars)]
      /\ <<":">> \in Seq(Chars)
      BY CredentialsAssumption
<1>2. c.user = d.user /\ Joined(c) = Joined(d)
      BY DEF Key, Sha256
<1> DEFINE prefix == c.user \o <<":">>
<1>3. prefix \in Seq(Chars) /\ c.pass \in Seq(Chars) /\ d.pass \in Seq(Chars)
      BY <1>1
<1>4. prefix \o c.pass = prefix \o d.pass
      BY <1>2 DEF Joined
<1> HIDE DEF prefix
<1>5. c.pass = d.pass
      BY <1>3, <1>4, ConcatSimplifications
<1> QED BY <1>1, <1>2, <1>5

LEMMA KeyInKeys == ASSUME NEW c \in Credentials PROVE Key(c) \in Keys
BY DEF Keys

LEMMA PrincipalInPrincipals ==
    ASSUME NEW c \in Credentials PROVE Principal(c) \in Principals
BY DEF Principals

(***************************************************************************)
(* The inductive invariant.  OwnCredentials and NobodyStranded are not     *)
(* inductive: the first also needs that the cache files every connection   *)
(* under the key of its credentials, the second that no two handlers       *)
(* initialise one key, or the first to end would leave the waiters of both *)
(* behind.                                                                 *)
(***************************************************************************)

\* A handler on its way to a connection has not used up its tries.
TriesLeft ==
    \A r \in Requests : pc[r] \in {"getting", "dialing", "waiting"} => tries[r] < MaxTries

\* A handler holds a connection exactly while it is in that state.
HoldingExactly == \A r \in Requests : held[r] # 0 <=> pc[r] = "holding"

\* What is cached under the key of some credentials was opened as their principal.
CacheMatches ==
    \A c \in Credentials :
        cache[Key(c)] # 0 => opened[cache[Key(c)]] = Principal(c)

\* One handler at most initialises a key.
OneLeader ==
    \A r, s \in Requests :
        pc[r] = "dialing" /\ pc[s] = "dialing" /\ MyKey(r) = MyKey(s) => r = s

IInv ==
    /\ TypeOK
    /\ TriesLeft
    /\ HoldingExactly
    /\ CacheMatches
    /\ OwnCredentials
    /\ OneLeader
    /\ NobodyStranded

LEMMA InitIInv == Init => IInv
<1> SUFFICES ASSUME Init PROVE IInv
    OBVIOUS
<1> USE TriesAssumption DEF Init
<1>1. TypeOK
  <2>1. opened \in Seq(Principals) /\ Len(opened) = 0 OBVIOUS
  <2>2. want \in [Requests -> Credentials] OBVIOUS
  <2> QED BY <2>1, <2>2 DEF TypeOK
<1>2. TriesLeft /\ HoldingExactly BY DEF TriesLeft, HoldingExactly
<1>3. CacheMatches /\ OwnCredentials BY KeyInKeys DEF CacheMatches, OwnCredentials
<1>4. OneLeader /\ NobodyStranded BY DEF OneLeader, NobodyStranded
<1> QED BY <1>1, <1>2, <1>3, <1>4 DEF IInv

LEMMA GetIInv == ASSUME IInv, NEW r \in Requests, NEW c \in Credentials, Get(r, c) PROVE IInv'
<1> USE TriesAssumption DEF IInv, TypeOK, Get, Goto
<1>1. TypeOK' OBVIOUS
<1>2. TriesLeft' BY DEF TriesLeft
<1>3. HoldingExactly' BY DEF HoldingExactly
<1>4. CacheMatches' BY DEF CacheMatches
<1>5. OwnCredentials' BY DEF OwnCredentials, HoldingExactly
<1>6. OneLeader' BY DEF OneLeader, MyKey
<1>7. NobodyStranded' BY DEF NobodyStranded, Leaders, MyKey
<1> QED BY <1>1, <1>2, <1>3, <1>4, <1>5, <1>6, <1>7

LEMMA HitIInv == ASSUME IInv, NEW r \in Requests, Hit(r) PROVE IInv'
<1> USE TriesAssumption DEF IInv, TypeOK, Hit, Goto
<1>0. opened[cache[MyKey(r)]] = Principal(want[r]) BY DEF CacheMatches, MyKey
<1>1. TypeOK' BY KeyInKeys DEF MyKey
<1>2. TriesLeft' BY DEF TriesLeft
<1>3. HoldingExactly' BY KeyInKeys DEF HoldingExactly, MyKey
<1>4. CacheMatches' BY DEF CacheMatches
<1>5. OwnCredentials' BY <1>0 DEF OwnCredentials, HoldingExactly
<1>6. OneLeader' BY DEF OneLeader, MyKey
<1>7. NobodyStranded' BY DEF NobodyStranded, Leaders, MyKey
<1> QED BY <1>1, <1>2, <1>3, <1>4, <1>5, <1>6, <1>7

LEMMA LeadIInv == ASSUME IInv, NEW r \in Requests, Lead(r) PROVE IInv'
<1> USE TriesAssumption DEF IInv, TypeOK, Lead, Goto
<1>1. TypeOK' OBVIOUS
<1>2. TriesLeft' BY DEF TriesLeft
<1>3. HoldingExactly' BY DEF HoldingExactly
<1>4. CacheMatches' BY DEF CacheMatches
<1>5. OwnCredentials' BY DEF OwnCredentials, HoldingExactly
<1>6. OneLeader' BY DEF OneLeader, Leaders, MyKey
<1>7. NobodyStranded' BY DEF NobodyStranded, Leaders, MyKey
<1> QED BY <1>1, <1>2, <1>3, <1>4, <1>5, <1>6, <1>7

LEMMA JoinIInv == ASSUME IInv, NEW r \in Requests, Join(r) PROVE IInv'
<1> USE TriesAssumption DEF IInv, TypeOK, Join, Goto
<1>1. TypeOK' OBVIOUS
<1>2. TriesLeft' BY DEF TriesLeft
<1>3. HoldingExactly' BY DEF HoldingExactly
<1>4. CacheMatches' BY DEF CacheMatches
<1>5. OwnCredentials' BY DEF OwnCredentials, HoldingExactly
<1>6. OneLeader' BY DEF OneLeader, MyKey
<1>7. NobodyStranded' BY DEF NobodyStranded, Leaders, MyKey
<1> QED BY <1>1, <1>2, <1>3, <1>4, <1>5, <1>6, <1>7

LEMMA DialOkIInv == ASSUME IInv, NEW r \in Requests, DialOk(r) PROVE IInv'
<1> USE TriesAssumption DEF IInv, TypeOK, DialOk
<1>0. /\ Len(opened) \in Nat
      /\ opened' = Append(opened, Principal(want[r])) /\ Len(opened') = Len(opened) + 1
      /\ opened' \in Seq(Principals)
      /\ opened'[Len(opened) + 1] = Principal(want[r])
      /\ \A i \in 1..Len(opened) : opened'[i] = opened[i]
      BY PrincipalInPrincipals, AppendProperties
<1>1. TypeOK' 
  <2>1. (opened \in Seq(Principals))' BY <1>0
  <2> DEFINE n == Len(opened) + 1
  <2>a. n \in 0..Len(opened') /\ 0..Len(opened) \subseteq 0..Len(opened') BY <1>0
  <2>b. cache' = [cache EXCEPT ![MyKey(r)] = n] OBVIOUS
  <2>c. held' = [s \in Requests |-> IF s \in {r} \cup Waiters(MyKey(r)) THEN n ELSE held[s]]
        OBVIOUS
  <2> HIDE DEF n
  <2>2. (cache \in [Keys -> 0..Len(opened)])' BY <2>a, <2>b
  <2>3. (held \in [Requests -> 0..Len(opened)])' BY <2>a, <2>c
  <2>4. (pc \in [Requests -> {"idle", "getting", "dialing", "waiting", "holding", "failed"}])'
        OBVIOUS
  <2> QED BY <2>1, <2>2, <2>3, <2>4
<1>2. TriesLeft' BY DEF TriesLeft
<1>3. HoldingExactly' BY <1>0 DEF HoldingExactly
<1>4. CacheMatches'
  <2> SUFFICES ASSUME NEW c \in Credentials, cache'[Key(c)] # 0
               PROVE  opened'[cache'[Key(c)]] = Principal(c)
      BY DEF CacheMatches
  <2>1. Key(c) \in Keys BY KeyInKeys
  <2>2. CASE Key(c) = MyKey(r)
    <3>1. c = want[r] BY <2>2, KeyInjective DEF MyKey
    <3> QED BY <1>0, <2>1, <2>2, <3>1
  <2>3. CASE Key(c) # MyKey(r)
    <3>1. cache'[Key(c)] = cache[Key(c)] BY <2>1, <2>3
    <3>2. cache[Key(c)] \in 1..Len(opened) BY <2>1, <3>1
    <3> QED BY <1>0, <3>1, <3>2 DEF CacheMatches
  <2> QED BY <2>2, <2>3
<1>5. OwnCredentials' 
  <2> SUFFICES ASSUME NEW s \in Requests, held'[s] # 0
               PROVE  opened'[held'[s]] = Principal(want[s])
      BY DEF OwnCredentials
  <2>1. CASE s \in {r} \cup Waiters(MyKey(r))
    <3>1. Key(want[s]) = Key(want[r]) BY <2>1 DEF Waiters, MyKey
    <3>2. want[s] = want[r] BY <3>1, KeyInjective
    <3> QED BY <1>0, <2>1, <3>2
  <2>2. CASE s \notin {r} \cup Waiters(MyKey(r))
        BY <1>0, <2>2 DEF OwnCredentials
  <2> QED BY <2>1, <2>2
<1>6. OneLeader' BY DEF OneLeader, MyKey
<1>7. NobodyStranded' 
  <2> SUFFICES ASSUME NEW s \in Requests, pc'[s] = "waiting"
               PROVE  \E l \in Requests : pc'[l] = "dialing" /\ MyKey(l) = MyKey(s)
      BY DEF NobodyStranded, Leaders, MyKey
  <2>1. pc[s] = "waiting" /\ MyKey(s) # MyKey(r) BY DEF Waiters
  <2>2. PICK l \in Requests : pc[l] = "dialing" /\ MyKey(l) = MyKey(s)
        BY <2>1 DEF NobodyStranded, Leaders
  <2> QED BY <2>1, <2>2 DEF Waiters
<1> QED BY <1>1, <1>2, <1>3, <1>4, <1>5, <1>6, <1>7

LEMMA AbandonIInv == ASSUME IInv, NEW r \in Requests, NEW there \in {"idle", "failed"}, Abandon(r, there) PROVE IInv'
<1> USE TriesAssumption DEF IInv, TypeOK, Abandon
<1>1. TypeOK' BY DEF TriesLeft, Waiters
<1>2. TriesLeft' BY DEF TriesLeft, Waiters
<1>3. HoldingExactly' BY DEF HoldingExactly, Waiters
<1>4. CacheMatches' BY DEF CacheMatches
<1>5. OwnCredentials' BY DEF OwnCredentials, HoldingExactly
<1>6. OneLeader' BY DEF OneLeader, MyKey
<1>7. NobodyStranded' 
  <2> SUFFICES ASSUME NEW s \in Requests, pc'[s] = "waiting"
               PROVE  \E l \in Requests : pc'[l] = "dialing" /\ MyKey(l) = MyKey(s)
      BY DEF NobodyStranded, Leaders, MyKey
  <2>1. pc[s] = "waiting" /\ MyKey(s) # MyKey(r) BY DEF Waiters
  <2>2. PICK l \in Requests : pc[l] = "dialing" /\ MyKey(l) = MyKey(s)
        BY <2>1 DEF NobodyStranded, Leaders
  <2> QED BY <2>1, <2>2 DEF Waiters
<1> QED BY <1>1, <1>2, <1>3, <1>4, <1>5, <1>6, <1>7

LEMMA LeaveIInv == ASSUME IInv, NEW r \in Requests, Leave(r) PROVE IInv'
<1> USE TriesAssumption DEF IInv, TypeOK, Leave, Goto
<1>1. TypeOK' OBVIOUS
<1>2. TriesLeft' BY DEF TriesLeft
<1>3. HoldingExactly' BY DEF HoldingExactly
<1>4. CacheMatches' BY DEF CacheMatches
<1>5. OwnCredentials' BY DEF OwnCredentials, HoldingExactly
<1>6. OneLeader' BY DEF OneLeader, MyKey
<1>7. NobodyStranded' BY DEF NobodyStranded, Leaders, MyKey
<1> QED BY <1>1, <1>2, <1>3, <1>4, <1>5, <1>6, <1>7

LEMMA ReleaseIInv == ASSUME IInv, NEW r \in Requests, Release(r) PROVE IInv'
<1> USE TriesAssumption DEF IInv, TypeOK, Release, Goto
<1>1. TypeOK' OBVIOUS
<1>2. TriesLeft' BY DEF TriesLeft
<1>3. HoldingExactly' BY DEF HoldingExactly
<1>4. CacheMatches' BY DEF CacheMatches
<1>5. OwnCredentials' BY DEF OwnCredentials, HoldingExactly
<1>6. OneLeader' BY DEF OneLeader, MyKey
<1>7. NobodyStranded' BY DEF NobodyStranded, Leaders, MyKey
<1> QED BY <1>1, <1>2, <1>3, <1>4, <1>5, <1>6, <1>7

LEMMA UnwindIInv == ASSUME IInv, NEW r \in Requests, Unwind(r) PROVE IInv'
<1> USE TriesAssumption DEF IInv, TypeOK, Unwind, Goto
<1>1. TypeOK' OBVIOUS
<1>2. TriesLeft' BY DEF TriesLeft
<1>3. HoldingExactly' BY DEF HoldingExactly
<1>4. CacheMatches' BY DEF CacheMatches
<1>5. OwnCredentials' BY DEF OwnCredentials, HoldingExactly
<1>6. OneLeader' BY DEF OneLeader, MyKey
<1>7. NobodyStranded' BY DEF NobodyStranded, Leaders, MyKey
<1> QED BY <1>1, <1>2, <1>3, <1>4, <1>5, <1>6, <1>7

LEMMA EvictIInv == ASSUME IInv, NEW k \in Keys, Evict(k) PROVE IInv'
<1> USE TriesAssumption DEF IInv, TypeOK, Evict
<1>1. TypeOK' OBVIOUS
<1>2. TriesLeft' BY DEF TriesLeft
<1>3. HoldingExactly' BY DEF HoldingExactly
<1>4. CacheMatches' BY KeyInKeys DEF CacheMatches
<1>5. OwnCredentials' BY DEF OwnCredentials, HoldingExactly
<1>6. OneLeader' BY DEF OneLeader, MyKey
<1>7. NobodyStranded' BY DEF NobodyStranded, Leaders, MyKey
<1> QED BY <1>1, <1>2, <1>3, <1>4, <1>5, <1>6, <1>7

LEMMA CloseIInv == ASSUME IInv, Close PROVE IInv'
<1> USE TriesAssumption DEF IInv, TypeOK, Close
<1>1. TypeOK' OBVIOUS
<1>2. TriesLeft' BY DEF TriesLeft
<1>3. HoldingExactly' BY DEF HoldingExactly
<1>4. CacheMatches' BY KeyInKeys DEF CacheMatches
<1>5. OwnCredentials' BY DEF OwnCredentials, HoldingExactly
<1>6. OneLeader' BY DEF OneLeader, MyKey
<1>7. NobodyStranded' BY DEF NobodyStranded, Leaders, MyKey
<1> QED BY <1>1, <1>2, <1>3, <1>4, <1>5, <1>6, <1>7

LEMMA NextIInv == IInv /\ [Next]_vars => IInv'
<1> SUFFICES ASSUME IInv, [Next]_vars PROVE IInv'
    OBVIOUS
<1>1. ASSUME NEW r \in Requests, Step(r) PROVE IInv'
      BY <1>1, HitIInv, LeadIInv, JoinIInv, DialOkIInv, AbandonIInv, ReleaseIInv, UnwindIInv
      DEF Step, Dialed, DialFail
<1>2. ASSUME NEW r \in Requests, Disconnect(r) PROVE IInv'
      BY <1>2, LeaveIInv, AbandonIInv DEF Disconnect
<1>3. ASSUME NEW r \in Requests, NEW c \in Credentials, Get(r, c) PROVE IInv'
      BY <1>3, GetIInv
<1>4. ASSUME NEW k \in Keys, Evict(k) PROVE IInv' BY <1>4, EvictIInv
<1>5. CASE Close BY <1>5, CloseIInv
<1>6. CASE UNCHANGED vars
      BY <1>6 DEF vars, IInv, TypeOK, TriesLeft, HoldingExactly, CacheMatches,
         OwnCredentials, OneLeader, NobodyStranded, Leaders, MyKey
<1> QED BY <1>1, <1>2, <1>3, <1>4, <1>5, <1>6 DEF Next

THEOREM Invariance == Spec => []IInv
BY InitIInv, NextIInv, PTL DEF Spec

\* Every variable keeps its type; no handler waits for more than MaxTries dials.
THEOREM TypeCorrect == Spec => []TypeOK
<1>1. IInv => TypeOK BY DEF IInv
<1> QED BY <1>1, Invariance, PTL

\* A handler only ever works on a connection opened with its own credentials.
THEOREM CredentialsKept == Spec => []OwnCredentials
<1>1. IInv => OwnCredentials BY DEF IInv
<1> QED BY <1>1, Invariance, PTL

\* Two handlers never dial with the same credentials at the same time.
THEOREM DialsAreShared == Spec => []SingleFlight
<1>1. IInv => SingleFlight BY DEF IInv, SingleFlight, OneLeader, MyKey
<1> QED BY <1>1, Invariance, PTL

\* A handler that waits for an initialiser waits for one that is running.
THEOREM WaitersAreServed == Spec => []NobodyStranded
<1>1. IInv => NobodyStranded BY DEF IInv
<1> QED BY <1>1, Invariance, PTL

(***************************************************************************)
(* The refinement: every step of the pool is a step of PooledConnections   *)
(* or leaves its variables alone.                                          *)
(***************************************************************************)

Live == Cached \cup InUse

\* What the pool drops is held by nobody, because a held connection is live.
LEMMA DropsUnheld ==
    ASSUME NEW known, Live' \subseteq known
    PROVE  Pooled!DropsOnlyUnheld(known)
BY DEF Pooled!DropsOnlyUnheld, Live, InUse

LEMMA SameLive == UNCHANGED <<cache, held>> => Live' = Live
BY DEF Live, Cached, InUse

LEMMA LiveWithoutHold ==
    ASSUME TypeOK, NEW r \in Requests, held' = [held EXCEPT ![r] = 0], UNCHANGED cache
    PROVE  Live' \subseteq Live
BY DEF Live, Cached, InUse, TypeOK

LEMMA InitImplements == Init => Pooled!Init
<1> SUFFICES ASSUME Init PROVE Pooled!Init
    OBVIOUS
<1>1. [r \in Requests |-> Phase(r)] = [r \in Requests |-> "idle"]
      BY DEF Init, Phase
<1>2. Cached \cup InUse = {}
      BY DEF Init, Cached, InUse
<1>3. [r \in Requests |-> Principal(want[r])] \in [Requests -> Principals]
      BY PrincipalInPrincipals DEF Init
<1> QED BY <1>1, <1>2, <1>3 DEF Init, Pooled!Init

LEMMA GetImplements ==
    ASSUME IInv, NEW r \in Requests, NEW c \in Credentials, Get(r, c)
    PROVE  Pooled!Ask(r, Principal(c))
<1> USE DEF IInv, TypeOK, Get, Goto
<1>1. Pooled!DropsOnlyUnheld(Cached \cup InUse)
      BY SameLive, DropsUnheld DEF Live
<1>2. [s \in Requests |-> Phase(s)]' = [[s \in Requests |-> Phase(s)] EXCEPT ![r] = "asking"]
      BY DEF Phase
<1>3. Phase(r) = "idle" BY DEF Phase
<1>4. [s \in Requests |-> Principal(want[s])]'
        = [[s \in Requests |-> Principal(want[s])] EXCEPT ![r] = Principal(c)]
      OBVIOUS
<1> QED BY <1>1, <1>2, <1>3, <1>4 DEF Pooled!Ask

LEMMA HitImplements ==
    ASSUME IInv, NEW r \in Requests, Hit(r)
    PROVE  Pooled!Share(r)
<1> USE DEF IInv, TypeOK, Hit, Goto
<1> DEFINE n == cache[MyKey(r)]
<1>0. MyKey(r) \in Keys BY KeyInKeys DEF MyKey
<1>1. n \in Cached \cup InUse BY <1>0 DEF Cached
<1>2. opened[n] = Principal(want[r]) BY DEF CacheMatches, MyKey
<1>3. Pooled!DropsOnlyUnheld(Cached \cup InUse)
  <2>1. Live' \subseteq Live BY <1>0 DEF Live, Cached, InUse
  <2> QED BY <2>1, DropsUnheld DEF Live
<1>4. Pooled!Give({r}, n)
  <2>1. Phase(r) = "asking" BY DEF Phase
  <2>2. [s \in Requests |-> Phase(s)]'
            = [s \in Requests |-> IF s \in {r} THEN "holding" ELSE [t \in Requests |-> Phase(t)][s]]
        BY DEF Phase
  <2>3. held' = [s \in Requests |-> IF s \in {r} THEN n ELSE held[s]]
        OBVIOUS
  <2>4. [s \in Requests |-> Principal(want[s])]' = [s \in Requests |-> Principal(want[s])]
        OBVIOUS
  <2> QED BY <2>1, <2>2, <2>3, <2>4 DEF Pooled!Give
<1> QED BY <1>1, <1>2, <1>3, <1>4 DEF Pooled!Share

LEMMA DialOkImplements ==
    ASSUME IInv, NEW r \in Requests, DialOk(r)
    PROVE  Pooled!Open(Principal(want[r]))
<1> USE DEF IInv, TypeOK
<1> DEFINE n == Len(opened) + 1
           them == {r} \cup Waiters(MyKey(r))
<1>1. opened' = Append(opened, Principal(want[r])) /\ Len(opened') = n
      BY PrincipalInPrincipals, AppendProperties DEF DialOk
<1>2. ASSUME NEW s \in them PROVE s \in Requests /\ want[s] = want[r] /\ Phase(s) = "asking"
  <2>1. s \in Requests /\ Key(want[s]) = Key(want[r]) BY <1>2 DEF Waiters, MyKey
  <2>2. want[s] = want[r] BY <2>1, KeyInjective
  <2> QED BY <1>2, <2>1, <2>2 DEF Waiters, Phase, DialOk
<1>3. Pooled!DropsOnlyUnheld((Cached \cup InUse) \cup {n})
  <2>1. Live' \subseteq Live \cup {n} BY DEF Live, Cached, InUse, DialOk
  <2> QED BY <2>1, DropsUnheld DEF Live
<1>4. Pooled!Give(them, n)
  <2>1. [s \in Requests |-> Phase(s)]'
            = [s \in Requests |-> IF s \in them THEN "holding" ELSE [t \in Requests |-> Phase(t)][s]]
        BY DEF Phase, DialOk
  <2>2. held' = [s \in Requests |-> IF s \in them THEN n ELSE held[s]] 
        BY DEF DialOk
  <2>3. \A s \in them : [t \in Requests |-> Phase(t)][s] = "asking" BY <1>2
  <2>4. [s \in Requests |-> Principal(want[s])]' = [s \in Requests |-> Principal(want[s])]
        BY DEF DialOk
  <2> HIDE DEF them, n
  <2> QED BY <2>1, <2>2, <2>3, <2>4 DEF Pooled!Give
<1>5. them \in (SUBSET Requests) \ {{}} BY <1>2
<1>6. them \subseteq Requests BY <1>2
<1> HIDE DEF them, n
<1>7. /\ \A s \in them : [t \in Requests |-> Principal(want[t])][s] = Principal(want[r])
      /\ opened' = Append(opened, Principal(want[r]))
      /\ Pooled!Give(them, Len(opened'))
      /\ Pooled!DropsOnlyUnheld((Cached \cup InUse) \cup {Len(opened')})
      BY <1>1, <1>2, <1>3, <1>4, <1>6
<1> QED BY <1>5, <1>7 DEF Pooled!Open

LEMMA AbandonImplements ==
    ASSUME IInv, NEW r \in Requests, NEW there \in {"idle", "failed"}, Abandon(r, there)
    PROVE  Pooled!Refuse
<1> USE DEF IInv, TypeOK, Abandon
<1> DEFINE them == {s \in Requests : pc[s] # "failed" /\ pc'[s] = "failed"}
           left == IF there = "idle" THEN {r} ELSE {}
<1>1. them \in SUBSET Requests /\ left \in SUBSET Requests OBVIOUS
<1>2. ASSUME NEW s \in them \cup left PROVE [t \in Requests |-> Phase(t)][s] = "asking"
      BY <1>2 DEF Phase, Waiters
<1>3. [s \in Requests |-> Phase(s)]'
        = [s \in Requests |-> IF s \in left THEN "idle"
                              ELSE IF s \in them THEN "failed"
                              ELSE [t \in Requests |-> Phase(t)][s]]
      BY DEF Phase, Waiters
<1>4. Pooled!DropsOnlyUnheld(Cached \cup InUse)
      BY SameLive, DropsUnheld DEF Live
<1>5. UNCHANGED <<held, opened>> OBVIOUS
<1>6. [s \in Requests |-> Principal(want[s])]' = [s \in Requests |-> Principal(want[s])]
      OBVIOUS
<1> HIDE DEF them, left
<1> QED BY <1>1, <1>2, <1>3, <1>4, <1>5, <1>6 DEF Pooled!Refuse

LEMMA ReleaseImplements ==
    ASSUME IInv, NEW r \in Requests, pc[r] \in {"holding", "failed"}, Goto(r, "idle"),
           held' = [held EXCEPT ![r] = 0], UNCHANGED <<want, cache, opened>>
    PROVE  Pooled!Leave(r)
<1> USE DEF IInv, TypeOK, Goto
<1>1. Pooled!DropsOnlyUnheld(Cached \cup InUse)
      BY LiveWithoutHold, DropsUnheld DEF Live
<1>2. [s \in Requests |-> Phase(s)]' = [[s \in Requests |-> Phase(s)] EXCEPT ![r] = "idle"]
      BY DEF Phase
<1>3. Phase(r) \in {"holding", "failed"} BY DEF Phase
<1>4. [s \in Requests |-> Principal(want[s])]' = [s \in Requests |-> Principal(want[s])]
      OBVIOUS
<1> QED BY <1>1, <1>2, <1>3, <1>4 DEF Pooled!Leave

LEMMA LeaveImplements ==
    ASSUME IInv, NEW r \in Requests, Leave(r)
    PROVE  Pooled!Leave(r) \/ Pooled!Refuse
<1> USE DEF IInv, TypeOK, Leave, Goto
<1>1. CASE pc[r] = "holding" BY <1>1, ReleaseImplements
<1>2. CASE pc[r] \in {"getting", "waiting"}
  <2> DEFINE them == {}
             left == {r}
  <2>1. held' = held BY <1>2 DEF HoldingExactly
  <2>2. Pooled!DropsOnlyUnheld(Cached \cup InUse) BY <2>1, SameLive, DropsUnheld DEF Live
  <2>3. [s \in Requests |-> Phase(s)]'
          = [s \in Requests |-> IF s \in left THEN "idle"
                                ELSE IF s \in them THEN "failed"
                                ELSE [t \in Requests |-> Phase(t)][s]]
        BY <1>2 DEF Phase
  <2>4. ASSUME NEW s \in them \cup left PROVE [t \in Requests |-> Phase(t)][s] = "asking"
        BY <1>2, <2>4 DEF Phase
  <2>5. them \in SUBSET Requests /\ left \in SUBSET Requests OBVIOUS
  <2>6. UNCHANGED <<held, opened>> BY <2>1
  <2>7. [s \in Requests |-> Principal(want[s])]' = [s \in Requests |-> Principal(want[s])]
        OBVIOUS
  <2> HIDE DEF them, left
  <2> QED BY <2>2, <2>3, <2>4, <2>5, <2>6, <2>7 DEF Pooled!Refuse
<1> QED BY <1>1, <1>2

LEMMA DropImplements ==
    ASSUME IInv, (\E k \in Keys : Evict(k)) \/ Close
    PROVE  Pooled!Drop
<1> USE DEF IInv, TypeOK, Evict, Close
<1>1. UNCHANGED <<pc, want, held, opened>> OBVIOUS
<1>2. Live' \subseteq Live BY DEF Live, Cached, InUse
<1>3. Pooled!DropsOnlyUnheld(Cached \cup InUse) BY <1>2, DropsUnheld DEF Live
<1>4. [s \in Requests |-> Phase(s)]' = [s \in Requests |-> Phase(s)] BY <1>1 DEF Phase
<1>5. [s \in Requests |-> Principal(want[s])]' = [s \in Requests |-> Principal(want[s])]
      BY <1>1
<1> QED BY <1>1, <1>3, <1>4, <1>5 DEF Pooled!Drop

\* Looking up a miss and waiting are the pool's own business.
LEMMA WaitingStutters ==
    ASSUME IInv, NEW r \in Requests, Lead(r) \/ Join(r) \/ UNCHANGED vars
    PROVE  UNCHANGED Pooled!vars
<1> USE DEF IInv, TypeOK, Lead, Join, Goto, vars
<1>1. [s \in Requests |-> Phase(s)]' = [s \in Requests |-> Phase(s)] BY DEF Phase
<1>2. (Cached \cup InUse)' = Cached \cup InUse BY DEF Cached, InUse
<1>3. [s \in Requests |-> Principal(want[s])]' = [s \in Requests |-> Principal(want[s])]
      OBVIOUS
<1> QED BY <1>1, <1>2, <1>3 DEF Pooled!vars

LEMMA StepImplements == IInv /\ [Next]_vars => [Pooled!Next]_(Pooled!vars)
<1> SUFFICES ASSUME IInv, [Next]_vars PROVE [Pooled!Next]_(Pooled!vars)
    OBVIOUS
<1> USE DEF Pooled!Next
<1>1. ASSUME NEW r \in Requests, Hit(r) PROVE Pooled!Next
      BY <1>1, HitImplements
<1>2. ASSUME NEW r \in Requests, DialOk(r) PROVE Pooled!Next
      BY <1>2, DialOkImplements, PrincipalInPrincipals DEF IInv, TypeOK
<1>3. ASSUME NEW r \in Requests, NEW there \in {"idle", "failed"}, Abandon(r, there)
      PROVE  Pooled!Next
      BY <1>3, AbandonImplements
<1>4. ASSUME NEW r \in Requests, Release(r) PROVE Pooled!Next
      BY <1>4, ReleaseImplements DEF Release
<1>5. ASSUME NEW r \in Requests, Unwind(r) PROVE Pooled!Next
  <2>1. held' = [held EXCEPT ![r] = 0]
        BY <1>5 DEF Unwind, IInv, TypeOK, HoldingExactly
  <2> QED BY <1>5, <2>1, ReleaseImplements DEF Unwind
<1>6. ASSUME NEW r \in Requests, Leave(r) PROVE Pooled!Next
      BY <1>6, LeaveImplements
<1>7. ASSUME NEW r \in Requests, NEW c \in Credentials, Get(r, c) PROVE Pooled!Next
      BY <1>7, GetImplements, PrincipalInPrincipals
<1>8. CASE (\E k \in Keys : Evict(k)) \/ Close BY <1>8, DropImplements
<1>9. ASSUME NEW r \in Requests, Lead(r) \/ Join(r) PROVE UNCHANGED Pooled!vars
      BY <1>9, WaitingStutters
<1>10. CASE UNCHANGED vars
  <2>1. [s \in Requests |-> Phase(s)]' = [s \in Requests |-> Phase(s)]
        BY <1>10 DEF Phase, vars
  <2>2. (Cached \cup InUse)' = Cached \cup InUse BY <1>10 DEF Cached, InUse, vars
  <2>3. [s \in Requests |-> Principal(want[s])]' = [s \in Requests |-> Principal(want[s])]
        BY <1>10 DEF vars
  <2> QED BY <1>10, <2>1, <2>2, <2>3 DEF Pooled!vars, vars
<1> HIDE DEF Pooled!Next
<1> QED BY <1>1, <1>2, <1>3, <1>4, <1>5, <1>6, <1>7, <1>8, <1>9, <1>10
        DEF Next, Step, Dialed, DialFail, Disconnect

\* The pool implements PooledConnections: whatever the handlers, evictions and
\* close() do, a handler gets a live connection opened with its credentials
\* and keeps it until it leaves.
THEOREM PoolImplements == Spec => ImplementsPooledConnections
BY InitImplements, StepImplements, Invariance, PTL
   DEF Spec, ImplementsPooledConnections, Pooled!Spec

=============================================================================
