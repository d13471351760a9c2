------------------------ MODULE GatewayServerProofs ------------------------
(***************************************************************************)
(* Proofs of the safety properties of GatewayServer, for any number of     *)
(* handlers, any setups, headers and credentials, and any bounds.          *)
(***************************************************************************)
EXTENDS GatewayServer, FiniteSetTheorems, SequenceTheorems, TLAPS

PoolProofs == INSTANCE ConnectionPoolProofs

(***************************************************************************)
(* Configurations and credentials.                                         *)
(***************************************************************************)

LEMMA DefaultTyped == "type" \in Settings /\ Default.type = "none"
BY SMT DEF Default, Settings

\* Whatever a gateway is set up with, its auth type is one of the two there are.
LEMMA AuthTypeKnown ==
    ASSUME NEW s \in Setups, NEW c \in LoadConfig(s)
    PROVE  c.type \in AuthTypes
<1>1. PICK b \in FromFile(s) \cup {Default} : c = Overridden(s.args, b)
      BY DEF LoadConfig
<1>2. b.type \in AuthTypes BY <1>1, DefaultTyped DEF FromFile, AuthTypes
<1>3. CASE "type" \in Effective(s.args)
      BY <1>1, <1>3, DefaultTyped DEF Overridden, Filled, Effective
<1>4. CASE "type" \notin Effective(s.args)
      BY <1>1, <1>2, <1>4, DefaultTyped DEF Overridden, Filled
<1> QED BY <1>3, <1>4

\* The startup credentials of a gateway are credentials of its pool.
LEMMA StartupKnown ==
    ASSUME setup \in Setups, config \in LoadConfig(setup)
    PROVE  Startup \in Credentials
BY CredentialsAssumption DEF Startup

\* The credentials a request acts with are credentials of the pool.
LEMMA ActsAsKnown ==
    ASSUME setup \in Setups, config \in LoadConfig(setup),
           NEW h \in Headers, ~Refused(h)
    PROVE  ActsAs(h) \in Credentials
<1>1. CASE config.type = "none" BY <1>1, StartupKnown DEF ActsAs
<1>2. CASE config.type = "passthrough"
      BY <1>2, CredentialsAssumption DEF ActsAs, Refused
<1> QED BY <1>1, <1>2, AuthTypeKnown DEF AuthTypes

\* A header is made of the user name before its first colon, the colon, and
\* the password: without a password, of all but its last character.
LEMMA HeaderIsJoined ==
    ASSUME NEW h \in Headers, NEW c \in ParseBasicAuth(h)
    PROVE  /\ Pool!Joined(c) = h.text
           /\ c.user # <<>>
           /\ \A i \in DOMAIN c.user : c.user[i] # ":"
           /\ c.pass = <<>> => c.user = SubSeq(h.text, 1, Len(h.text) - 1)
<1>1. h.text \in Seq(Chars) BY HeadersAssumption
<1>2. PICK i \in 2..Len(h.text) :
         /\ h.text[i] = ":"
         /\ \A j \in 1..(i - 1) : h.text[j] # ":"
         /\ c = [user |-> SubSeq(h.text, 1, i - 1),
                 pass |-> SubSeq(h.text, i + 1, Len(h.text))]
      BY DEF ParseBasicAuth
<1>3. SubSeq(h.text, 1, i) = SubSeq(h.text, 1, i - 1) \o <<":">>
      BY <1>1, <1>2, SubSeqRecursiveSecond
<1>4. SubSeq(h.text, 1, i) \o SubSeq(h.text, i + 1, Len(h.text)) = SubSeq(h.text, 1, Len(h.text))
  <2>1. 1 \in 1..(Len(h.text) + 1) /\ i \in (1 - 1)..Len(h.text) /\ Len(h.text) \in i..Len(h.text)
        BY <1>1
  <2> QED BY <1>1, <2>1, ConcatAdjacentSubSeq
<1>5. Pool!Joined(c) = h.text
      BY <1>1, <1>2, <1>3, <1>4, SubSeqFull DEF Pool!Joined
<1>6. /\ c.user \in Seq(Chars) /\ Len(c.user) = i - 1
      /\ \A j \in 1..(i - 1) : c.user[j] = h.text[j]
      BY <1>1, <1>2
<1>7. DOMAIN c.user = 1..(i - 1) BY <1>6
<1>8. c.user # <<>>
  <2>1. i - 1 # 0 OBVIOUS
  <2> QED BY <1>6, <2>1
<1>9. ASSUME NEW j \in DOMAIN c.user PROVE c.user[j] # ":"
      BY <1>2, <1>6, <1>7, <1>9
<1>10. ASSUME c.pass = <<>> PROVE c.user = SubSeq(h.text, 1, Len(h.text) - 1)
  <2>1. Len(c.pass) = Len(h.text) - i BY <1>1, <1>2
  <2>2. Len(h.text) = i BY <1>1, <1>10, <2>1
  <2> QED BY <1>2, <2>2
<1> QED BY <1>5, <1>8, <1>9, <1>10

(***************************************************************************)
(* The pool: every step of the server is one of the pool's, or leaves the  *)
(* pool alone, so that the pool's invariant is one of the server.          *)
(***************************************************************************)

\* What the pool assumes of its constants.
LEMMA PoolAssumptions ==
    /\ PoolProofs!IsFiniteSet(Requests)
    /\ ":" \in Chars
    /\ Credentials # {}
    /\ Credentials \subseteq [user : Seq(Chars), pass : Seq(Chars)]
    /\ MaxTries \in Nat \ {0}
    /\ MaxOpened \in Nat
<1>1. IsFiniteSet(Requests) BY HandlersAssumption, FS_AddElement DEF Requests
<1> QED BY <1>1, PoolAssumption DEF PoolProofs!IsFiniteSet, IsFiniteSet

LEMMA PoolInit == Pool!Init => PoolProofs!IInv
<1>1. Pool!Init => PoolProofs!Init
      BY DEF Pool!Init, PoolProofs!Init, Pool!Keys, PoolProofs!Keys, Pool!Key, PoolProofs!Key,
             Pool!Sha256, PoolProofs!Sha256, Pool!Joined, PoolProofs!Joined
<1> QED BY <1>1, PoolAssumptions, PoolProofs!InitIInv

\* The pool whose steps the server takes is the one that the proofs are about.
LEMMA SamePool == [Pool!Next]_(Pool!vars) => [PoolProofs!Next]_(PoolProofs!vars)
<1> SUFFICES ASSUME [Pool!Next]_(Pool!vars) PROVE [PoolProofs!Next]_(PoolProofs!vars)
    OBVIOUS
<1> USE DEF Pool!vars, PoolProofs!vars, Pool!Keys, PoolProofs!Keys, Pool!Key, PoolProofs!Key,
            Pool!Sha256, PoolProofs!Sha256, Pool!Joined, PoolProofs!Joined, Pool!Principal,
            PoolProofs!Principal, Pool!Anonymous, PoolProofs!Anonymous,
            Pool!MyKey, PoolProofs!MyKey, Pool!Goto, PoolProofs!Goto
<1>1. ASSUME NEW r \in Requests, Pool!Hit(r) \/ Pool!Lead(r) \/ Pool!Join(r)
      PROVE  PoolProofs!Hit(r) \/ PoolProofs!Lead(r) \/ PoolProofs!Join(r)
      BY <1>1 DEF Pool!Hit, PoolProofs!Hit, Pool!Lead, PoolProofs!Lead, Pool!Join,
         PoolProofs!Join, Pool!Leaders, PoolProofs!Leaders
<1>2. ASSUME NEW r \in Requests, Pool!Dialed(r)
      PROVE  PoolProofs!Dialed(r)
      BY <1>2 DEF Pool!Dialed, PoolProofs!Dialed, Pool!DialOk, PoolProofs!DialOk,
         Pool!DialFail, PoolProofs!DialFail, Pool!Abandon, PoolProofs!Abandon,
         Pool!Waiters, PoolProofs!Waiters
<1>3. ASSUME NEW r \in Requests, Pool!Release(r) \/ Pool!Unwind(r)
      PROVE  PoolProofs!Release(r) \/ PoolProofs!Unwind(r)
      BY <1>3 DEF Pool!Release, PoolProofs!Release, Pool!Unwind, PoolProofs!Unwind
<1>4. ASSUME NEW r \in Requests, Pool!Disconnect(r)
      PROVE  PoolProofs!Disconnect(r)
      BY <1>4 DEF Pool!Disconnect, PoolProofs!Disconnect, Pool!Leave, PoolProofs!Leave,
         Pool!Abandon, PoolProofs!Abandon, Pool!Waiters, PoolProofs!Waiters
<1>5. ASSUME NEW r \in Requests, NEW c \in Credentials, Pool!Get(r, c)
      PROVE  PoolProofs!Get(r, c)
      BY <1>5 DEF Pool!Get, PoolProofs!Get
<1>6. ASSUME NEW k \in Pool!Keys, Pool!Evict(k)
      PROVE  k \in PoolProofs!Keys /\ PoolProofs!Evict(k)
      BY <1>6 DEF Pool!Evict, PoolProofs!Evict
<1>7. ASSUME Pool!Close PROVE PoolProofs!Close
      BY <1>7 DEF Pool!Close, PoolProofs!Close
<1> QED BY <1>1, <1>2, <1>3, <1>4, <1>5, <1>6, <1>7
        DEF Pool!Next, PoolProofs!Next, Pool!Step, PoolProofs!Step

LEMMA PoolNext ==
    ASSUME PoolProofs!IInv, [Pool!Next]_(Pool!vars)
    PROVE  PoolProofs!IInv'
BY SamePool, PoolAssumptions, PoolProofs!NextIInv

\* A request holds a connection exactly while the pool has given it one.
HoldingExactly == \A r \in Requests : held[r] # 0 <=> pc[r] = "holding"

\* The facts of the pool's invariant that the server builds on.
LEMMA PoolFacts == PoolProofs!IInv => Pool!TypeOK /\ HoldingExactly /\ Pool!OwnCredentials
BY DEF PoolProofs!IInv, PoolProofs!TypeOK, Pool!TypeOK, PoolProofs!HoldingExactly,
       HoldingExactly, PoolProofs!OwnCredentials, Pool!OwnCredentials, Pool!Keys,
       PoolProofs!Keys, Pool!Key, PoolProofs!Key, Pool!Sha256, PoolProofs!Sha256,
       Pool!Joined, PoolProofs!Joined, Pool!Principals, PoolProofs!Principals,
       Pool!Principal, PoolProofs!Principal, Pool!Anonymous, PoolProofs!Anonymous

LEMMA PoolFactsNext ==
    PoolProofs!IInv' => Pool!TypeOK' /\ HoldingExactly' /\ Pool!OwnCredentials'
BY PoolFacts, PTL

(***************************************************************************)
(* The inductive invariant.                                                *)
(***************************************************************************)

\* Nothing of the pool is asked for in the name of a handler without a request,
\* or with one that has not all arrived.
FreeIsIdle == \A r \in Handlers : stage[r] \in {"free", "reading"} => pc[r] = "idle"

\* There are requests only from the moment the server serves, until it is closed.
ServingOnly == mode \in {"serving", "draining", "killed"} \/ Inside = {}

\* The main task uses the pool for the warm-up alone, with its own credentials.
MainWarmsUp ==
    /\ mode \notin {"warming", "failed", "killed"} => pc[Main] = "idle"
    /\ mode = "warming" /\ pc[Main] # "idle" => want[Main] = Startup

\* The first connection is that of the warm-up, before there are requests.
WarmUpFirst ==
    /\ mode = "loading" => opened = <<>>
    /\ Inside # {} \/ mode \in {"binding", "serving", "draining"} => opened # <<>>
    /\ opened # <<>> => opened[1] = Pool!Principal(Startup)

\* The configuration is one that the setup loads.
Configured == mode \in {"loading", "failed"} \/ config \in LoadConfig(setup)

\* An API request acts for who its header says, a health check for the gateway
\* and with one backend call.
ActsForItself ==
    \A r \in Handlers :
        /\ stage[r] = "api" => /\ ~Refused(header[r])
                               /\ pc[r] # "idle" => want[r] = ActsAs(header[r])
        /\ stage[r] = "health" => left[r] = 1 /\ pc[r] # "idle"

\* A closed pool has no entries.
ClosedIsEmpty == mode \in {"closed", "exited"} => \A k \in Pool!Keys : cache[k] = 0

PoolInv == PoolProofs!IInv /\ Pool!TypeOK

IInv ==
    /\ PoolInv
    /\ TypeOK
    /\ FreeIsIdle
    /\ ServingOnly
    /\ MainWarmsUp
    /\ WarmUpFirst
    /\ Configured
    /\ ActsForItself
    /\ ClosedIsEmpty
    /\ RequestsAccounted

LEMMA InitIInv == Init => IInv
<1> SUFFICES ASSUME Init PROVE IInv
    OBVIOUS
<1> USE DEF Init
<1>1. PoolInv BY PoolInit, PoolFacts DEF PoolInv
<1>2. TypeOK
      BY <1>1, HeadersAssumption, BoundsAssumption DEF TypeOK, PoolInv
<1>3. FreeIsIdle /\ MainWarmsUp BY DEF FreeIsIdle, MainWarmsUp, Pool!Init, Requests
<1>4. Inside = {} /\ ApiCalls = {} BY DEF Inside, ApiCalls
<1>5. ServingOnly /\ Configured /\ ClosedIsEmpty
      BY <1>4 DEF ServingOnly, Configured, ClosedIsEmpty
<1>6. WarmUpFirst BY <1>4 DEF WarmUpFirst, Pool!Init
<1>7. ActsForItself BY DEF ActsForItself
<1>8. RequestsAccounted BY <1>4, FS_EmptySet DEF RequestsAccounted
<1> QED BY <1>1, <1>2, <1>3, <1>5, <1>6, <1>7, <1>8 DEF IInv

\* Every step of the server is one of the pool's, or leaves the pool alone.
LEMMA StepsThePool == ASSUME IInv, [Next]_vars PROVE [Pool!Next]_(Pool!vars)
<1> USE DEF Pool!Next, Pool!Step, Pool!vars, Requests
<1>1. CASE Load \/ StartupPanics \/ Bind \/ Signal \/ Exit \/ Kill
      BY <1>1 DEF Load, StartupPanics, Bind, Signal, Exit, Kill, poolVars
<1>2. CASE WarmUp
  <2>1. Startup \in Credentials BY <1>2, StartupKnown DEF WarmUp, IInv, Configured, TypeOK
  <2> QED BY <1>2, <2>1 DEF WarmUp
<1>3. CASE Warmed \/ Shutdown \/ EvictIdle BY <1>3 DEF Warmed, Shutdown, EvictIdle
<1>4. ASSUME NEW r \in Requests, PoolStep(r) PROVE Pool!Next
      BY <1>4 DEF PoolStep, Pool!Dialed
<1>5. ASSUME NEW r \in Handlers, NEW h \in Headers, AnswerApi(r, h) PROVE UNCHANGED Pool!vars
      BY <1>5 DEF AnswerApi, poolVars
<1>6. ASSUME NEW r \in Handlers, NEW h \in Headers, NEW calls \in 1..MaxBackendCalls,
             FirstCall(r, h, calls), Serving
      PROVE  Pool!Next
  <2>1. ActsAs(h) \in Credentials
        BY <1>6, ActsAsKnown DEF FirstCall, Serving, IInv, Configured, TypeOK
  <2> QED BY <1>6, <2>1 DEF FirstCall
<1>12. ASSUME NEW r \in Handlers, NEW h \in Headers, NEW calls \in 1..MaxBackendCalls,
              AcceptApi(r, h, calls)
       PROVE  Pool!Next
       BY <1>6, <1>12 DEF AcceptApi, Receive, Serving
<1>13. ASSUME NEW r \in Handlers, NEW h \in Headers, AwaitBody(r, h) PROVE UNCHANGED Pool!vars
       BY <1>13 DEF AwaitBody, poolVars
<1>14. ASSUME NEW r \in Handlers, BodyArrives(r) PROVE [Pool!Next]_(Pool!vars)
  <2>1. header[r] \in Headers BY DEF IInv, TypeOK
  <2>2. CASE UNCHANGED poolVars BY <2>2 DEF poolVars
  <2>3. CASE \E calls \in 1..MaxBackendCalls : FirstCall(r, header[r], calls)
        BY <1>6, <1>14, <2>1, <2>3 DEF BodyArrives
  <2> QED BY <1>14, <2>2, <2>3 DEF BodyArrives
<1>7. ASSUME NEW r \in Handlers, AcceptHealth(r) PROVE Pool!Next
  <2>1. Startup \in Credentials
        BY <1>7, StartupKnown DEF AcceptHealth, IInv, Configured, TypeOK
  <2> QED BY <1>7, <2>1 DEF AcceptHealth
<1>8. ASSUME NEW r \in Handlers, CallAgain(r) PROVE Pool!Next
  <2>1. stage[r] = "api" /\ ~Refused(header[r]) /\ header[r] \in Headers
        BY <1>8 DEF CallAgain, Pool!Get, IInv, ActsForItself, TypeOK
  <2>2. ActsAs(header[r]) \in Credentials
        BY <1>8, <2>1, ActsAsKnown DEF CallAgain, Serving, IInv, Configured, TypeOK
  <2> QED BY <1>8, <2>2 DEF CallAgain
<1>9. ASSUME NEW r \in Handlers, Backend(r) \/ Panics(r) PROVE Pool!Next
      BY <1>9 DEF Backend, BackendDone, BackendErr, BackendNext, Panics
<1>10. ASSUME NEW r \in Handlers, RejectRows(r) \/ ClientLeaves(r) PROVE [Pool!Next]_(Pool!vars)
      BY <1>10 DEF RejectRows, ClientLeaves, poolVars
<1>11. CASE UNCHANGED vars BY <1>11 DEF vars
<1> QED BY <1>1, <1>2, <1>3, <1>4, <1>5, <1>7, <1>8, <1>9, <1>10, <1>11, <1>12, <1>13, <1>14
        DEF Next, Process, Arrive

LEMMA PoolKept == ASSUME IInv, [Next]_vars PROVE PoolInv'
BY StepsThePool, PoolNext, PoolFactsNext DEF IInv, PoolInv

(***************************************************************************)
(* The requests there are.                                                 *)
(***************************************************************************)

LEMMA ApiCallsFinite == IsFiniteSet(ApiCalls) /\ Cardinality(ApiCalls) \in Nat
<1>1. ApiCalls \subseteq Handlers BY DEF ApiCalls
<1> QED BY <1>1, HandlersAssumption, FS_Subset, FS_CardinalityType

LEMMA ApiCallBegins ==
    ASSUME NEW r \in Handlers, stage \in [Handlers -> {"free", "reading", "api", "health"}],
           NEW s \in {"reading", "api"},
           stage[r] = "free", stage' = [stage EXCEPT ![r] = s]
    PROVE  Cardinality(ApiCalls') = Cardinality(ApiCalls) + 1
<1>1. ApiCalls' = ApiCalls \cup {r} /\ r \notin ApiCalls BY DEF ApiCalls
<1> QED BY <1>1, ApiCallsFinite, FS_AddElement

LEMMA ApiCallEnds ==
    ASSUME NEW r \in Handlers, stage \in [Handlers -> {"free", "reading", "api", "health"}],
           stage' = [stage EXCEPT ![r] = "free"]
    PROVE  Cardinality(ApiCalls') = IF r \in ApiCalls THEN Cardinality(ApiCalls) - 1
                                                        ELSE Cardinality(ApiCalls)
<1>1. ApiCalls' = ApiCalls \ {r} BY DEF ApiCalls
<1> QED BY <1>1, ApiCallsFinite, FS_RemoveElement

\* A response is counted once, as one error at most.
LEMMA CountAdds ==
    ASSUME TypeOK, RequestsAccounted, NEW status, Count(status)
    PROVE  /\ answered' = answered + 1 /\ answered' \in Nat
           /\ lost' = lost
           /\ errors' \in [{"client_error", "server_error"} -> Nat]
           /\ errors'["client_error"] + errors'["server_error"] <= answered'
BY DEF TypeOK, RequestsAccounted, Count, ErrorType

(***************************************************************************)
(* Start and stop.                                                         *)
(***************************************************************************)

LEMMA LoadIInv == ASSUME IInv, PoolInv', Load PROVE IInv'
<1> USE DEF PoolInv, IInv, Load, poolVars, handlerVars, metricVars
<1>1. TypeOK' BY DEF TypeOK
<1>2. FreeIsIdle' /\ ActsForItself'
  <2>1. Inside = {} BY DEF ServingOnly
  <2> QED BY <2>1 DEF FreeIsIdle, ActsForItself, Inside, TypeOK
<1>3. ServingOnly' /\ Inside' = {} BY DEF ServingOnly, Inside
<1>4. MainWarmsUp' BY DEF MainWarmsUp
<1>5. WarmUpFirst' BY <1>3 DEF WarmUpFirst
<1>6. Configured' /\ ClosedIsEmpty' BY DEF Configured, ClosedIsEmpty
<1>7. RequestsAccounted' BY DEF RequestsAccounted, ApiCalls
<1> QED BY <1>1, <1>2, <1>3, <1>4, <1>5, <1>6, <1>7

LEMMA WarmUpIInv == ASSUME IInv, PoolInv', WarmUp PROVE IInv'
<1> USE DEF PoolInv, IInv, WarmUp, Pool!Get, Pool!Goto, configVars, handlerVars, metricVars
<1>1. TypeOK' BY DEF TypeOK
<1>2. pc \in [Requests -> {"idle", "getting", "dialing", "waiting", "holding", "failed"}]
      /\ want \in [Requests -> Credentials]
      BY DEF TypeOK, Pool!TypeOK
<1>3. FreeIsIdle' /\ ActsForItself'
  <2>1. \A r \in Handlers : pc'[r] = pc[r] /\ want'[r] = want[r]
        BY <1>2, HandlersAssumption DEF Requests
  <2> QED BY <2>1 DEF FreeIsIdle, ActsForItself, Refused, ActsAs, Startup
<1>4. ServingOnly' /\ Inside' = Inside BY DEF ServingOnly, Inside
<1>5. MainWarmsUp' BY <1>2 DEF MainWarmsUp, Startup, Requests
<1>6. WarmUpFirst' BY <1>4 DEF WarmUpFirst, Startup
<1>7. Configured' /\ ClosedIsEmpty' BY DEF Configured, ClosedIsEmpty
<1>8. RequestsAccounted' BY DEF RequestsAccounted, ApiCalls
<1> QED BY <1>1, <1>3, <1>4, <1>5, <1>6, <1>7, <1>8

LEMMA WarmedIInv == ASSUME IInv, PoolInv', Warmed PROVE IInv'
<1> USE DEF PoolInv, IInv, Warmed, Pool!Release, Pool!Goto, configVars, handlerVars, metricVars
<1>1. TypeOK' BY DEF TypeOK
<1>2. /\ pc \in [Requests -> {"idle", "getting", "dialing", "waiting", "holding", "failed"}]
      /\ held[Main] \in 0..Len(opened) /\ opened \in Seq(Pool!Principals)
      BY DEF TypeOK, Pool!TypeOK, Requests
<1>3. FreeIsIdle' /\ ActsForItself'
  <2>1. \A r \in Handlers : pc'[r] = pc[r] /\ want'[r] = want[r]
        BY <1>2, HandlersAssumption DEF Requests
  <2> QED BY <2>1 DEF FreeIsIdle, ActsForItself, Refused, ActsAs, Startup
<1>4. ServingOnly' /\ Inside' = Inside BY DEF ServingOnly, Inside
<1>5. MainWarmsUp' BY <1>2 DEF MainWarmsUp, Requests
<1>6. opened # <<>>
  <2>1. held[Main] # 0 BY PoolFacts DEF PoolInv, HoldingExactly, Requests
  <2> QED BY <1>2, <2>1
<1>7. WarmUpFirst' BY <1>4, <1>6 DEF WarmUpFirst, Startup
<1>8. Configured' /\ ClosedIsEmpty' BY DEF Configured, ClosedIsEmpty
<1>9. RequestsAccounted' BY DEF RequestsAccounted, ApiCalls
<1> QED BY <1>1, <1>3, <1>4, <1>5, <1>7, <1>8, <1>9

\* The steps that change nothing but how far the process is.
LEMMA ModeIInv ==
    ASSUME IInv, PoolInv', StartupPanics \/ Bind \/ Signal \/ Exit \/ Kill
    PROVE  IInv'
<1> USE DEF PoolInv, IInv, StartupPanics, Bind, Signal, Exit, Kill, Up,
            poolVars, configVars, handlerVars, metricVars
<1>1. TypeOK' BY DEF TypeOK
<1>2. FreeIsIdle' /\ ActsForItself'
      BY DEF FreeIsIdle, ActsForItself, Refused, ActsAs, Startup
<1>3. ServingOnly' /\ Inside' = Inside BY DEF ServingOnly, Inside
<1>4. MainWarmsUp' BY DEF MainWarmsUp, Startup
<1>5. WarmUpFirst' BY <1>3 DEF WarmUpFirst, Startup
<1>6. Configured' /\ ClosedIsEmpty' BY DEF Configured, ClosedIsEmpty
<1>7. RequestsAccounted' BY DEF RequestsAccounted, ApiCalls
<1> QED BY <1>1, <1>2, <1>3, <1>4, <1>5, <1>6, <1>7

LEMMA ShutdownIInv == ASSUME IInv, PoolInv', Shutdown PROVE IInv'
<1> USE DEF PoolInv, IInv, Shutdown, Pool!Close, configVars, handlerVars, metricVars
<1>1. TypeOK' BY DEF TypeOK
<1>2. FreeIsIdle' /\ ActsForItself'
      BY DEF FreeIsIdle, ActsForItself, Refused, ActsAs, Startup
<1>3. ServingOnly' /\ Inside' = Inside BY DEF ServingOnly, Inside
<1>4. MainWarmsUp' BY DEF MainWarmsUp
<1>5. WarmUpFirst' BY <1>3 DEF WarmUpFirst, Startup
<1>6. Configured' /\ ClosedIsEmpty'
      BY DEF Configured, ClosedIsEmpty, Pool!Keys, Pool!Key, Pool!Sha256, Pool!Joined
<1>7. RequestsAccounted' BY DEF RequestsAccounted, ApiCalls
<1> QED BY <1>1, <1>2, <1>3, <1>4, <1>5, <1>6, <1>7

LEMMA EvictIdleIInv == ASSUME IInv, PoolInv', EvictIdle PROVE IInv'
<1> USE DEF PoolInv, IInv, EvictIdle, configVars, handlerVars, metricVars
<1>1. PICK k \in Pool!Keys : Pool!Evict(k) OBVIOUS
<1> USE <1>1 DEF Pool!Evict
<1>2. TypeOK' BY DEF TypeOK
<1>3. FreeIsIdle' /\ ActsForItself'
      BY DEF FreeIsIdle, ActsForItself, Refused, ActsAs, Startup
<1>4. ServingOnly' /\ Inside' = Inside BY DEF ServingOnly, Inside
<1>5. MainWarmsUp' BY DEF MainWarmsUp, Startup
<1>6. WarmUpFirst' BY <1>4 DEF WarmUpFirst, Startup
<1>7. Configured' /\ ClosedIsEmpty' BY DEF Configured, ClosedIsEmpty
<1>8. RequestsAccounted' BY DEF RequestsAccounted, ApiCalls
<1> QED BY <1>2, <1>3, <1>4, <1>5, <1>6, <1>7, <1>8

(***************************************************************************)
(* Requests arrive.                                                        *)
(***************************************************************************)

LEMMA AnswerApiIInv ==
    ASSUME IInv, PoolInv', NEW r \in Handlers, NEW h \in Headers, AnswerApi(r, h)
    PROVE  IInv'
<1> USE DEF PoolInv, IInv, AnswerApi, Receive, poolVars, configVars, handlerVars
<1>1. /\ answered' = answered + 1 /\ answered' \in Nat
      /\ lost' = lost
      /\ errors' \in [{"client_error", "server_error"} -> Nat]
      /\ errors'["client_error"] + errors'["server_error"] <= answered'
      BY CountAdds
<1>2. TypeOK' BY <1>1, BoundsAssumption DEF TypeOK
<1>3. FreeIsIdle' /\ ActsForItself'
      BY DEF FreeIsIdle, ActsForItself, Refused, ActsAs, Startup
<1>4. ServingOnly' /\ Inside' = Inside BY DEF ServingOnly, Inside
<1>5. MainWarmsUp' BY DEF MainWarmsUp
<1>6. WarmUpFirst' BY <1>4 DEF WarmUpFirst, Startup
<1>7. Configured' /\ ClosedIsEmpty' BY DEF Configured, ClosedIsEmpty
<1>8. RequestsAccounted'
  <2>1. ApiCalls' = ApiCalls BY DEF ApiCalls
  <2> QED BY <2>1, <1>1, ApiCallsFinite DEF RequestsAccounted, TypeOK
<1> QED BY <1>2, <1>3, <1>4, <1>5, <1>6, <1>7, <1>8

\* The first backend call of a request, whether its head is all there is of it
\* or its body has been waited for.
LEMMA FirstCallIInv ==
    ASSUME IInv, PoolInv', NEW r \in Handlers, NEW h \in Headers, NEW calls \in 1..MaxBackendCalls,
           Serving, FirstCall(r, h, calls), UNCHANGED <<mode, setup, config>>,
           \/ stage[r] = "free" /\ accepted' = accepted + 1 /\ accepted < MaxAccepted
           \/ stage[r] = "reading" /\ accepted' = accepted
    PROVE  IInv'
<1> USE DEF PoolInv, IInv, FirstCall, Serving, Pool!Get, Pool!Goto
<1>1. TypeOK' BY BoundsAssumption DEF TypeOK
<1>2. /\ pc \in [Requests -> {"idle", "getting", "dialing", "waiting", "holding", "failed"}]
      /\ want \in [Requests -> Credentials]
      /\ stage \in [Handlers -> {"free", "reading", "api", "health"}]
      /\ header \in [Handlers -> Headers]
      /\ left \in [Handlers -> 0..MaxBackendCalls]
      BY DEF TypeOK, Pool!TypeOK
<1>3. FreeIsIdle' BY <1>2 DEF FreeIsIdle, Requests
<1>4. ActsForItself'
  <2> SUFFICES ASSUME NEW s \in Handlers
               PROVE  /\ stage'[s] = "api" => /\ ~Refused(header[s])'
                                              /\ pc'[s] # "idle" => want'[s] = ActsAs(header[s])'
                      /\ stage'[s] = "health" => left'[s] = 1 /\ pc'[s] # "idle"
      BY DEF ActsForItself
  <2>1. CASE s = r BY <2>1, <1>2 DEF Refused, ActsAs, Startup, Requests
  <2>2. CASE s # r BY <2>2, <1>2 DEF ActsForItself, Refused, ActsAs, Startup, Requests
  <2> QED BY <2>1, <2>2
<1>5. ServingOnly' /\ MainWarmsUp'
      BY <1>2, HandlersAssumption DEF ServingOnly, MainWarmsUp, Requests
<1>6. WarmUpFirst' BY DEF WarmUpFirst, Startup
<1>7. Configured' /\ ClosedIsEmpty' BY DEF Configured, ClosedIsEmpty
<1>8. RequestsAccounted'
  <2>1. CASE stage[r] = "free"
    <3>1. Cardinality(ApiCalls') = Cardinality(ApiCalls) + 1
          BY <1>2, <2>1, ApiCallBegins
    <3>2. (Cardinality(ApiCalls))' = Cardinality(ApiCalls) + 1 BY <3>1
    <3> QED BY <2>1, <3>2, ApiCallsFinite DEF RequestsAccounted, TypeOK
  <2>2. CASE stage[r] = "reading"
    <3>1. ApiCalls' = ApiCalls BY <1>2, <2>2 DEF ApiCalls
    <3> QED BY <2>2, <3>1 DEF RequestsAccounted
  <2> QED BY <2>1, <2>2
<1> QED BY <1>1, <1>3, <1>4, <1>5, <1>6, <1>7, <1>8

LEMMA AcceptApiIInv ==
    ASSUME IInv, PoolInv', NEW r \in Handlers, NEW h \in Headers, NEW calls \in 1..MaxBackendCalls,
           AcceptApi(r, h, calls)
    PROVE  IInv'
<1>1. /\ Serving /\ FirstCall(r, h, calls) /\ UNCHANGED <<mode, setup, config>>
      /\ stage[r] = "free" /\ accepted' = accepted + 1 /\ accepted < MaxAccepted
      BY DEF AcceptApi, Receive, Serving, configVars
<1> QED BY <1>1, FirstCallIInv

LEMMA AwaitBodyIInv ==
    ASSUME IInv, PoolInv', NEW r \in Handlers, NEW h \in Headers, AwaitBody(r, h)
    PROVE  IInv'
<1> USE DEF PoolInv, IInv, AwaitBody, Receive, poolVars, configVars
<1>1. TypeOK' BY BoundsAssumption DEF TypeOK
<1>2. /\ stage \in [Handlers -> {"free", "reading", "api", "health"}]
      /\ header \in [Handlers -> Headers]
      BY DEF TypeOK
<1>3. FreeIsIdle' BY <1>2 DEF FreeIsIdle
<1>4. ActsForItself'
  <2>1. \A s \in Handlers \ {r} : stage'[s] = stage[s] /\ header'[s] = header[s] BY <1>2
  <2>2. stage'[r] = "reading" BY <1>2
  <2>3. \A g : (Refused(g))' = Refused(g) /\ (ActsAs(g))' = ActsAs(g)
        BY DEF Refused, ActsAs, Startup
  <2> QED BY <2>1, <2>2, <2>3 DEF ActsForItself
<1>5. ServingOnly' /\ MainWarmsUp' BY DEF ServingOnly, MainWarmsUp
<1>6. WarmUpFirst' BY DEF WarmUpFirst, Startup
<1>7. Configured' /\ ClosedIsEmpty' BY DEF Configured, ClosedIsEmpty
<1>8. RequestsAccounted'
  <2>1. Cardinality(ApiCalls') = Cardinality(ApiCalls) + 1
        BY <1>2, ApiCallBegins
  <2>2. (Cardinality(ApiCalls))' = Cardinality(ApiCalls) + 1 BY <2>1
  <2> QED BY <2>2, ApiCallsFinite DEF RequestsAccounted, TypeOK
<1> QED BY <1>1, <1>3, <1>4, <1>5, <1>6, <1>7, <1>8

LEMMA AcceptHealthIInv == ASSUME IInv, PoolInv', NEW r \in Handlers, AcceptHealth(r) PROVE IInv'
<1> USE DEF PoolInv, IInv, AcceptHealth, Pool!Get, Pool!Goto, configVars, metricVars
<1>1. TypeOK' BY BoundsAssumption DEF TypeOK
<1>2. /\ pc \in [Requests -> {"idle", "getting", "dialing", "waiting", "holding", "failed"}]
      /\ want \in [Requests -> Credentials]
      /\ stage \in [Handlers -> {"free", "reading", "api", "health"}]
      /\ left \in [Handlers -> 0..MaxBackendCalls]
      BY DEF TypeOK, Pool!TypeOK
<1>3. FreeIsIdle' BY <1>2 DEF FreeIsIdle, Requests
<1>4. ActsForItself'
  <2> SUFFICES ASSUME NEW s \in Handlers
               PROVE  /\ stage'[s] = "api" => /\ ~Refused(header[s])'
                                              /\ pc'[s] # "idle" => want'[s] = ActsAs(header[s])'
                      /\ stage'[s] = "health" => left'[s] = 1 /\ pc'[s] # "idle"
      BY DEF ActsForItself
  <2>1. CASE s = r BY <2>1, <1>2 DEF Requests
  <2>2. CASE s # r BY <2>2, <1>2 DEF ActsForItself, Refused, ActsAs, Startup, Requests
  <2> QED BY <2>1, <2>2
<1>5. ServingOnly' /\ MainWarmsUp'
      BY <1>2, HandlersAssumption DEF ServingOnly, MainWarmsUp, Requests
<1>6. WarmUpFirst' BY DEF WarmUpFirst, Startup
<1>7. Configured' /\ ClosedIsEmpty' BY DEF Configured, ClosedIsEmpty
<1>8. RequestsAccounted'
  <2>1. ApiCalls' = ApiCalls BY <1>2 DEF ApiCalls
  <2> QED BY <2>1 DEF RequestsAccounted
<1> QED BY <1>1, <1>3, <1>4, <1>5, <1>6, <1>7, <1>8

(***************************************************************************)
(* Requests go on and end.                                                 *)
(***************************************************************************)

LEMMA BackendNextIInv == ASSUME IInv, PoolInv', NEW r \in Handlers, BackendNext(r) PROVE IInv'
<1> USE DEF PoolInv, IInv, BackendNext, Pool!Release, Pool!Goto, configVars, metricVars
<1>1. /\ pc \in [Requests -> {"idle", "getting", "dialing", "waiting", "holding", "failed"}]
      /\ stage \in [Handlers -> {"free", "reading", "api", "health"}]
      /\ left \in [Handlers -> 0..MaxBackendCalls]
      BY DEF TypeOK, Pool!TypeOK
<1>2. TypeOK'
  <2>1. left' \in [Handlers -> 0..MaxBackendCalls]
    <3>1. left[r] - 1 \in 0..MaxBackendCalls BY <1>1, BoundsAssumption
    <3> QED BY <1>1, <3>1
  <2> QED BY <2>1 DEF TypeOK
<1>3. FreeIsIdle' BY <1>1 DEF FreeIsIdle, Requests
<1>4. ActsForItself'
  <2> SUFFICES ASSUME NEW s \in Handlers
               PROVE  /\ stage'[s] = "api" => /\ ~Refused(header[s])'
                                              /\ pc'[s] # "idle" => want'[s] = ActsAs(header[s])'
                      /\ stage'[s] = "health" => left'[s] = 1 /\ pc'[s] # "idle"
      BY DEF ActsForItself
  <2>1. CASE s = r BY <2>1, <1>1 DEF ActsForItself, Refused, Requests
  <2>2. CASE s # r BY <2>2, <1>1 DEF ActsForItself, Refused, ActsAs, Startup, Requests
  <2> QED BY <2>1, <2>2
<1>5. ServingOnly' /\ Inside' = Inside BY DEF ServingOnly, Inside
<1>6. MainWarmsUp' BY <1>1, HandlersAssumption DEF MainWarmsUp, Startup, Requests
<1>7. WarmUpFirst' BY <1>5 DEF WarmUpFirst, Startup
<1>8. Configured' /\ ClosedIsEmpty' BY DEF Configured, ClosedIsEmpty
<1>9. RequestsAccounted' BY DEF RequestsAccounted, ApiCalls
<1> QED BY <1>2, <1>3, <1>4, <1>5, <1>6, <1>7, <1>8, <1>9

LEMMA CallAgainIInv == ASSUME IInv, PoolInv', NEW r \in Handlers, CallAgain(r) PROVE IInv'
<1> USE DEF PoolInv, IInv, CallAgain, Pool!Get, Pool!Goto, configVars, handlerVars, metricVars
<1>1. /\ pc \in [Requests -> {"idle", "getting", "dialing", "waiting", "holding", "failed"}]
      /\ want \in [Requests -> Credentials]
      /\ stage \in [Handlers -> {"free", "reading", "api", "health"}]
      /\ header \in [Handlers -> Headers]
      BY DEF TypeOK, Pool!TypeOK
<1>2. stage[r] = "api" /\ ~Refused(header[r]) BY <1>1 DEF ActsForItself
<1>3. TypeOK' BY DEF TypeOK
<1>4. FreeIsIdle' BY <1>1 DEF FreeIsIdle, Requests
<1>5. ActsForItself'
  <2> SUFFICES ASSUME NEW s \in Handlers
               PROVE  /\ stage'[s] = "api" => /\ ~Refused(header[s])'
                                              /\ pc'[s] # "idle" => want'[s] = ActsAs(header[s])'
                      /\ stage'[s] = "health" => left'[s] = 1 /\ pc'[s] # "idle"
      BY DEF ActsForItself
  <2>1. CASE s = r BY <2>1, <1>1, <1>2 DEF Refused, ActsAs, Startup, Requests
  <2>2. CASE s # r BY <2>2, <1>1 DEF ActsForItself, Refused, ActsAs, Startup, Requests
  <2> QED BY <2>1, <2>2
<1>6. ServingOnly' /\ Inside' = Inside BY DEF ServingOnly, Inside
<1>7. MainWarmsUp' BY <1>1, HandlersAssumption DEF MainWarmsUp, Serving, Requests
<1>8. WarmUpFirst' BY <1>6 DEF WarmUpFirst, Startup
<1>9. Configured' /\ ClosedIsEmpty' BY DEF Configured, ClosedIsEmpty
<1>10. RequestsAccounted' BY DEF RequestsAccounted, ApiCalls
<1> QED BY <1>3, <1>4, <1>5, <1>6, <1>7, <1>8, <1>9, <1>10

\* A request that ends, answered or not, gives back what it had of the pool.
LEMMA EndIInv ==
    ASSUME IInv, PoolInv', NEW r \in Handlers, Serving, stage[r] # "free", End(r),
           pc'[r] = "idle", \A s \in Requests \ {r} : pc'[s] = "idle" <=> pc[s] = "idle",
           UNCHANGED <<want, cache, opened, mode, setup, config, accepted>>,
           answered' \in Nat, lost' \in Nat,
           errors' \in [{"client_error", "server_error"} -> Nat],
           errors'["client_error"] + errors'["server_error"] <= answered',
           answered' + lost' = answered + lost + (IF r \in ApiCalls THEN 1 ELSE 0)
    PROVE  IInv'
<1> USE DEF PoolInv, IInv, End, Serving
<1>1. TypeOK' BY HeadersAssumption, BoundsAssumption DEF TypeOK
<1>2. /\ stage \in [Handlers -> {"free", "reading", "api", "health"}]
      /\ header \in [Handlers -> Headers]
      /\ left \in [Handlers -> 0..MaxBackendCalls]
      BY DEF TypeOK
<1>3. FreeIsIdle' BY <1>2 DEF FreeIsIdle, Requests
<1>4. ActsForItself'
  <2>1. \A s \in Handlers \ {r} :
           /\ stage'[s] = stage[s] /\ header'[s] = header[s] /\ left'[s] = left[s]
           /\ pc'[s] = "idle" <=> pc[s] = "idle"
        BY <1>2 DEF Requests
  <2>2. stage'[r] = "free" BY <1>2
  <2>3. \A h : (Refused(h))' = Refused(h) /\ (ActsAs(h))' = ActsAs(h)
        BY DEF Refused, ActsAs, Startup
  <2> HIDE DEF IInv, End, Serving
  <2> QED BY <2>1, <2>2, <2>3 DEF ActsForItself, IInv
<1>5. ServingOnly' BY DEF ServingOnly
<1>6. MainWarmsUp' BY HandlersAssumption DEF MainWarmsUp, Requests
<1>7. WarmUpFirst' BY DEF WarmUpFirst, Startup
<1>8. Configured' /\ ClosedIsEmpty' BY DEF Configured, ClosedIsEmpty
<1>9. RequestsAccounted'
  <2>1. Cardinality(ApiCalls') = IF r \in ApiCalls THEN Cardinality(ApiCalls) - 1
                                                    ELSE Cardinality(ApiCalls)
        BY <1>2, ApiCallEnds
  <2>2. (Cardinality(ApiCalls))' = IF r \in ApiCalls THEN Cardinality(ApiCalls) - 1
                                                      ELSE Cardinality(ApiCalls)
        BY <2>1
  <2>3. /\ accepted' = accepted /\ accepted = answered + lost + Cardinality(ApiCalls)
        /\ {accepted, answered, lost} \subseteq Nat
        BY DEF RequestsAccounted, TypeOK
  <2>4. accepted' = answered' + lost' + (Cardinality(ApiCalls))'
    <3>1. CASE r \in ApiCalls BY <3>1, <2>2, <2>3, ApiCallsFinite
    <3>2. CASE r \notin ApiCalls BY <3>2, <2>2, <2>3, ApiCallsFinite
    <3> QED BY <3>1, <3>2
  <2> QED BY <2>4 DEF RequestsAccounted
<1> QED BY <1>1, <1>3, <1>4, <1>5, <1>6, <1>7, <1>8, <1>9

\* A response to an API request is counted, one to a health check is not.
LEMMA RespondCounts ==
    ASSUME IInv, NEW r \in Handlers, NEW status, Respond(r, status)
    PROVE  /\ answered' \in Nat /\ lost' \in Nat
           /\ errors' \in [{"client_error", "server_error"} -> Nat]
           /\ errors'["client_error"] + errors'["server_error"] <= answered'
           /\ answered' + lost' = answered + lost + (IF r \in ApiCalls THEN 1 ELSE 0)
<1> USE DEF PoolInv, IInv, Respond
<1>1. CASE r \in ApiCalls
  <2>1. Count(status) BY <1>1
  <2>2. /\ answered' = answered + 1 /\ answered' \in Nat
        /\ lost' = lost
        /\ errors' \in [{"client_error", "server_error"} -> Nat]
        /\ errors'["client_error"] + errors'["server_error"] <= answered'
        BY <2>1, CountAdds
  <2> QED BY <1>1, <2>2 DEF TypeOK
<1>2. CASE r \notin ApiCalls BY <1>2 DEF TypeOK, RequestsAccounted
<1> QED BY <1>1, <1>2

LEMMA BackendEndsIInv ==
    ASSUME IInv, PoolInv', NEW r \in Handlers, BackendDone(r) \/ BackendErr(r)
    PROVE  IInv'
<1> USE DEF Pool!Release, Pool!Goto
<1>1. Pool!Release(r) /\ \E status : Respond(r, status) BY DEF BackendDone, BackendErr
<1>2. PICK status : Respond(r, status) BY <1>1
<1>3. pc'[r] = "idle" /\ \A s \in Requests \ {r} : pc'[s] = "idle" <=> pc[s] = "idle"
      BY <1>1 DEF IInv, TypeOK, Pool!TypeOK, Requests
<1>4. /\ answered' \in Nat /\ lost' \in Nat
      /\ errors' \in [{"client_error", "server_error"} -> Nat]
      /\ errors'["client_error"] + errors'["server_error"] <= answered'
      /\ answered' + lost' = answered + lost + (IF r \in ApiCalls THEN 1 ELSE 0)
      BY <1>2, RespondCounts
<1>5. /\ Serving /\ stage[r] # "free" /\ End(r)
      /\ UNCHANGED <<want, cache, opened, mode, setup, config, accepted>>
      BY <1>1, <1>2 DEF Respond, configVars
<1> QED BY <1>3, <1>4, <1>5, EndIInv

LEMMA RejectRowsIInv == ASSUME IInv, PoolInv', NEW r \in Handlers, RejectRows(r) PROVE IInv'
<1> USE DEF RejectRows, poolVars
<1>1. pc'[r] = "idle" /\ \A s \in Requests \ {r} : pc'[s] = "idle" <=> pc[s] = "idle"
      OBVIOUS
<1>2. /\ answered' \in Nat /\ lost' \in Nat
      /\ errors' \in [{"client_error", "server_error"} -> Nat]
      /\ errors'["client_error"] + errors'["server_error"] <= answered'
      /\ answered' + lost' = answered + lost + (IF r \in ApiCalls THEN 1 ELSE 0)
      BY RespondCounts
<1>3. /\ Serving /\ stage[r] # "free" /\ End(r)
      /\ UNCHANGED <<want, cache, opened, mode, setup, config, accepted>>
      BY DEF Respond, configVars
<1> QED BY <1>1, <1>2, <1>3, EndIInv

LEMMA BodyArrivesIInv == ASSUME IInv, PoolInv', NEW r \in Handlers, BodyArrives(r) PROVE IInv'
<1>1. stage[r] = "reading" /\ Serving BY DEF BodyArrives
<1>2. pc[r] = "idle" /\ header[r] \in Headers BY <1>1 DEF IInv, FreeIsIdle, TypeOK
<1>3. ASSUME NEW status, Respond(r, status), UNCHANGED poolVars PROVE IInv'
  <2>1. pc'[r] = "idle" /\ \A s \in Requests \ {r} : pc'[s] = "idle" <=> pc[s] = "idle"
        BY <1>2, <1>3 DEF poolVars
  <2>2. /\ answered' \in Nat /\ lost' \in Nat
        /\ errors' \in [{"client_error", "server_error"} -> Nat]
        /\ errors'["client_error"] + errors'["server_error"] <= answered'
        /\ answered' + lost' = answered + lost + (IF r \in ApiCalls THEN 1 ELSE 0)
        BY <1>3, RespondCounts
  <2>3. /\ stage[r] # "free" /\ End(r)
        /\ UNCHANGED <<want, cache, opened, mode, setup, config, accepted>>
        BY <1>3 DEF Respond, configVars, poolVars, Pool!vars
  <2> QED BY <1>1, <2>1, <2>2, <2>3, EndIInv
<1>4. ASSUME NEW calls \in 1..MaxBackendCalls, FirstCall(r, header[r], calls),
             UNCHANGED <<mode, configVars, accepted>>
      PROVE  IInv'
      BY <1>1, <1>2, <1>4, FirstCallIInv DEF configVars
<1> QED BY <1>3, <1>4 DEF BodyArrives

\* A request that ends without a response is counted as lost.
LEMMA LoseIInv ==
    ASSUME IInv, PoolInv', NEW r \in Handlers, Lose(r),
           pc'[r] = "idle", \A s \in Requests \ {r} : pc'[s] = "idle" <=> pc[s] = "idle",
           UNCHANGED <<want, cache, opened>>
    PROVE  IInv'
<1> USE DEF Lose
<1>1. /\ answered' \in Nat /\ lost' \in Nat
      /\ errors' \in [{"client_error", "server_error"} -> Nat]
      /\ errors'["client_error"] + errors'["server_error"] <= answered'
      /\ answered' + lost' = answered + lost + (IF r \in ApiCalls THEN 1 ELSE 0)
      BY DEF IInv, TypeOK, RequestsAccounted
<1>2. /\ Serving /\ stage[r] # "free" /\ End(r)
      /\ UNCHANGED <<mode, setup, config, accepted>>
      BY DEF configVars
<1> QED BY <1>1, <1>2, EndIInv

LEMMA PanicsIInv == ASSUME IInv, PoolInv', NEW r \in Handlers, Panics(r) PROVE IInv'
<1> USE DEF Panics, Pool!Unwind, Pool!Goto
<1>1. pc'[r] = "idle" /\ \A s \in Requests \ {r} : pc'[s] = "idle" <=> pc[s] = "idle"
      BY DEF IInv, TypeOK, Pool!TypeOK, Requests
<1> QED BY <1>1, LoseIInv

LEMMA ClientLeavesIInv == ASSUME IInv, PoolInv', NEW r \in Handlers, ClientLeaves(r) PROVE IInv'
<1> USE DEF ClientLeaves, Pool!Goto
<1>1. CASE Pool!Disconnect(r)
  <2>1. pc'[r] = "idle" /\ \A s \in Requests \ {r} : pc'[s] = "idle" <=> pc[s] = "idle"
        BY <1>1 DEF Pool!Disconnect, Pool!Leave, Pool!Abandon, Pool!Waiters,
           IInv, TypeOK, Pool!TypeOK, Requests
  <2>2. UNCHANGED <<want, cache, opened>>
        BY <1>1 DEF Pool!Disconnect, Pool!Leave, Pool!Abandon
  <2> QED BY <2>1, <2>2, LoseIInv
<1>2. CASE pc[r] = "idle" /\ UNCHANGED poolVars
      BY <1>2, LoseIInv DEF poolVars, Pool!vars
<1> QED BY <1>1, <1>2

(***************************************************************************)
(* The pool works for those who asked.                                     *)
(***************************************************************************)

\* get_or_create goes on for somebody who called it, for nobody else's sake.
LEMMA PoolStepEffect ==
    ASSUME IInv, NEW r \in Requests, PoolStep(r)
    PROVE  /\ want' = want
           /\ pc[r] # "idle"
           /\ \A s \in Requests : pc'[s] = "idle" <=> pc[s] = "idle"
           /\ opened' = opened \/ opened' = Append(opened, Pool!Principal(want[r]))
<1> USE DEF PoolInv, IInv, TypeOK, Pool!TypeOK, Pool!Goto
<1>1. CASE Pool!Hit(r) BY <1>1 DEF Pool!Hit
<1>2. CASE Pool!Lead(r) BY <1>2 DEF Pool!Lead
<1>3. CASE Pool!Join(r) BY <1>3 DEF Pool!Join
<1>4. CASE Pool!DialOk(r)
      BY <1>4 DEF Pool!DialOk, Pool!Waiters
<1>5. CASE Pool!DialFail(r)
      BY <1>5 DEF Pool!DialFail, Pool!Abandon, Pool!Waiters
<1> QED BY <1>1, <1>2, <1>3, <1>4, <1>5 DEF PoolStep

LEMMA PoolStepIInv == ASSUME IInv, PoolInv', NEW r \in Requests, PoolStep(r) PROVE IInv'
<1>1. /\ want' = want
      /\ pc[r] # "idle"
      /\ \A s \in Requests : pc'[s] = "idle" <=> pc[s] = "idle"
      /\ opened' = opened \/ opened' = Append(opened, Pool!Principal(want[r]))
      BY PoolStepEffect
<1>2. /\ r = Main => mode = "warming"
      /\ UNCHANGED <<mode, setup, config, stage, header, left, accepted, answered, errors, lost>>
      BY DEF PoolStep, configVars, handlerVars, metricVars
<1> USE <1>1, <1>2 DEF PoolInv, IInv
<1>3. /\ r = Main => mode = "warming" /\ want[r] = Startup
      /\ r # Main => r \in Inside /\ mode \in {"serving", "draining", "killed"}
      BY DEF MainWarmsUp, FreeIsIdle, ServingOnly, Inside, Requests
<1>4. TypeOK' BY DEF TypeOK
<1>5. FreeIsIdle' BY DEF FreeIsIdle, Requests
<1>6. ActsForItself' BY DEF ActsForItself, Refused, ActsAs, Startup, Requests
<1>7. ServingOnly' /\ Inside' = Inside BY DEF ServingOnly, Inside
<1>8. MainWarmsUp' BY DEF MainWarmsUp, Startup, Requests
<1>9. WarmUpFirst'
  <2>1. mode # "loading" BY <1>3
  <2>2. opened \in Seq(Pool!Principals) /\ want[r] \in Credentials BY DEF TypeOK, Pool!TypeOK
  <2>3. opened # <<>> => opened' # <<>> /\ opened'[1] = opened[1] BY <2>2, AppendProperties
  <2>4. opened = <<>> => r = Main BY <1>3 DEF WarmUpFirst
  <2>5. opened' # <<>> => opened'[1] = Pool!Principal(Startup)
    <3>1. CASE opened # <<>> BY <3>1, <2>3 DEF WarmUpFirst
    <3>2. CASE opened = <<>> /\ opened' = Append(opened, Pool!Principal(want[r]))
          BY <3>2, <2>2, <2>4, <1>3, AppendProperties
    <3> QED BY <3>1, <3>2
  <2> QED BY <1>7, <2>1, <2>3, <2>5 DEF WarmUpFirst, Startup
<1>10. Configured' BY DEF Configured
<1>11. ClosedIsEmpty' BY <1>3 DEF ClosedIsEmpty
<1>12. RequestsAccounted' BY DEF RequestsAccounted, ApiCalls
<1> QED BY <1>4, <1>5, <1>6, <1>7, <1>8, <1>9, <1>10, <1>11, <1>12

(***************************************************************************)
(* Theorems.                                                               *)
(***************************************************************************)

LEMMA NextIInv == IInv /\ [Next]_vars => IInv'
<1> SUFFICES ASSUME IInv, [Next]_vars PROVE IInv'
    OBVIOUS
<1>1. PoolInv' BY PoolKept
<1> USE <1>1
<1>2. CASE Process
      BY <1>2, LoadIInv, WarmUpIInv, WarmedIInv, ModeIInv, ShutdownIInv DEF Process
<1>3. CASE Signal \/ Kill BY <1>3, ModeIInv
<1>4. CASE EvictIdle BY <1>4, EvictIdleIInv
<1>5. ASSUME NEW r \in Requests, PoolStep(r) PROVE IInv' BY <1>5, PoolStepIInv
<1>6. ASSUME NEW r \in Handlers, Arrive(r) PROVE IInv'
      BY <1>6, AnswerApiIInv, AcceptApiIInv, AwaitBodyIInv, AcceptHealthIInv DEF Arrive
<1>7. ASSUME NEW r \in Handlers, Backend(r) PROVE IInv'
      BY <1>7, BackendEndsIInv, BackendNextIInv DEF Backend
<1>8. ASSUME NEW r \in Handlers, BodyArrives(r) \/ CallAgain(r) \/ RejectRows(r) PROVE IInv'
      BY <1>8, BodyArrivesIInv, CallAgainIInv, RejectRowsIInv
<1>9. ASSUME NEW r \in Handlers, Panics(r) \/ ClientLeaves(r) PROVE IInv'
      BY <1>9, PanicsIInv, ClientLeavesIInv
<1>10. CASE UNCHANGED vars
  <2> USE <1>10 DEF vars, PoolInv, IInv
  <2>1. TypeOK' BY DEF TypeOK
  <2>2. FreeIsIdle' /\ ActsForItself'
        BY DEF FreeIsIdle, ActsForItself, Refused, ActsAs, Startup
  <2>3. ServingOnly' /\ MainWarmsUp' /\ WarmUpFirst'
        BY DEF ServingOnly, MainWarmsUp, WarmUpFirst, Inside, Startup
  <2>4. Configured' /\ ClosedIsEmpty' BY DEF Configured, ClosedIsEmpty
  <2>5. RequestsAccounted' BY DEF RequestsAccounted, ApiCalls
  <2> QED BY <2>1, <2>2, <2>3, <2>4, <2>5
<1> QED BY <1>2, <1>3, <1>4, <1>5, <1>6, <1>7, <1>8, <1>9, <1>10 DEF Next

(***************************************************************************)
(* The theorems                                                            *)
(***************************************************************************)

\* The invariant holds whatever order handlers, the signal, the eviction of idle
\* connections and run's own steps come in.
THEOREM Invariance == Spec => []IInv
BY InitIInv, NextIInv, PTL DEF Spec

\* Every variable keeps its type, those of the pool among them.
THEOREM TypeCorrect == Spec => []TypeOK
<1>1. IInv => TypeOK BY DEF IInv
<1> QED BY <1>1, Invariance, PTL

\* Once the pool is closed it is empty, nobody uses it, and no request is left
\* that could open a connection behind the back of run.
THEOREM ClosedPoolStaysEmpty == Spec => []ClosedPoolIsEmpty
<1>1. IInv => ClosedPoolIsEmpty
  <2> SUFFICES ASSUME IInv, mode \in {"closed", "exited"}
               PROVE  Pool!Cached = {} /\ Pool!InUse = {} /\ Inside = {}
      BY DEF ClosedPoolIsEmpty
  <2> USE DEF IInv
  <2>1. Inside = {} BY DEF ServingOnly
  <2>2. Pool!Cached = {} BY DEF ClosedIsEmpty, Pool!Cached
  <2>3. \A r \in Requests : pc[r] = "idle"
        BY <2>1 DEF FreeIsIdle, MainWarmsUp, Inside, Requests
  <2>4. \A r \in Requests : held[r] = 0 BY <2>3, PoolFacts DEF PoolInv, HoldingExactly
  <2> QED BY <2>1, <2>2, <2>4 DEF Pool!InUse
<1> QED BY <1>1, Invariance, PTL

\* A request works with a connection opened as its own user - or with an
\* anonymous one, if its user or the startup user comes without a password -,
\* whoever opened it.
THEOREM IdentitiesKept == Spec => []IdentityRespected
<1>1. IInv => IdentityRespected
  <2> SUFFICES ASSUME IInv, NEW r \in ApiCalls, held[r] # 0
               PROVE  LET as   == opened[held[r]]
                          text == header[r].text
                          user == IF as = Pool!Anonymous
                                  THEN SubSeq(text, 1, Len(text) - 1) ELSE as.user
                      IN  IF config.type = "none" THEN as = Pool!Principal(Startup)
                          ELSE /\ text = user \o <<":">> \o as.pass
                               /\ user # <<>>
                               /\ \A i \in DOMAIN user : user[i] # ":"
      BY DEF IdentityRespected
  <2> USE DEF IInv
  <2>1. r \in Handlers /\ r \in Requests /\ stage[r] \in {"reading", "api"}
        BY DEF ApiCalls, Requests
  <2>2. pc[r] = "holding" BY <2>1, PoolFacts DEF PoolInv, HoldingExactly
  <2>3. opened[held[r]] = Pool!Principal(want[r])
        BY <2>1, PoolFacts DEF PoolInv, Pool!OwnCredentials
  <2>4. want[r] = ActsAs(header[r]) /\ ~Refused(header[r])
        BY <2>1, <2>2 DEF ActsForItself, FreeIsIdle
  <2>5. CASE config.type = "none" BY <2>3, <2>4, <2>5 DEF ActsAs
  <2>6. CASE config.type # "none"
    <3>1. config.type = "passthrough"
      <4>1. setup \in Setups /\ config \in LoadConfig(setup)
            BY <2>1 DEF Configured, TypeOK, ServingOnly, Inside
      <4> QED BY <2>6, <4>1, AuthTypeKnown DEF AuthTypes
    <3>2. want[r] \in ParseBasicAuth(header[r])
          BY <2>4, <2>6, <3>1 DEF ActsAs, Refused
    <3>3. header[r] \in Headers BY <2>1 DEF TypeOK
    <3> DEFINE c == want[r]
               text == header[r].text
    <3>4. /\ text = c.user \o <<":">> \o c.pass
          /\ c.user # <<>>
          /\ \A i \in DOMAIN c.user : c.user[i] # ":"
          /\ c.pass = <<>> => c.user = SubSeq(text, 1, Len(text) - 1)
          BY <3>2, <3>3, HeaderIsJoined DEF Pool!Joined
    <3>5. CASE c.pass # <<>>
      <4>1. Pool!Principal(c) = c /\ c # Pool!Anonymous
            BY <3>4, <3>5 DEF Pool!Principal, Pool!Anonymous
      <4> QED BY <2>3, <2>6, <3>4, <4>1
    <3>6. CASE c.pass = <<>>
      <4>1. Pool!Principal(c) = Pool!Anonymous /\ Pool!Anonymous.pass = c.pass
            BY <3>6 DEF Pool!Principal, Pool!Anonymous
      <4> QED BY <2>3, <2>6, <3>4, <3>6, <4>1
    <3> QED BY <3>5, <3>6
  <2> QED BY <2>5, <2>6
<1> QED BY <1>1, Invariance, PTL

\* A gateway that serves has connected as its startup user.
THEOREM WarmedUpFirst == Spec => []ServesAfterWarmUp
<1>1. IInv => ServesAfterWarmUp
  <2> SUFFICES ASSUME IInv, mode \in {"serving", "draining"}
               PROVE  \E n \in 1..Len(opened) : opened[n] = Pool!Principal(Startup)
      BY DEF ServesAfterWarmUp
  <2>1. /\ opened \in Seq(Pool!Principals) /\ opened # <<>>
        /\ opened[1] = Pool!Principal(Startup)
        BY DEF IInv, TypeOK, Pool!TypeOK, WarmUpFirst
  <2>2. 1 \in 1..Len(opened) BY <2>1
  <2> QED BY <2>1, <2>2
<1> QED BY <1>1, Invariance, PTL

\* Every request that was accepted is counted, lost, or still being served, and
\* none of them is counted as two errors.
THEOREM RequestsCounted == Spec => []RequestsAccounted
<1>1. IInv => RequestsAccounted BY DEF IInv
<1> QED BY <1>1, Invariance, PTL

(***************************************************************************)
(* What is proved of the pool holds in the server.                         *)
(***************************************************************************)

\* The server uses the pool as ConnectionPool says it may be used.
THEOREM ServerRunsThePool == Spec => Pool!Spec
<1>1. Init => Pool!Init BY DEF Init
<1>2. IInv /\ [Next]_vars => [Pool!Next]_(Pool!vars) BY StepsThePool
<1> QED BY <1>1, <1>2, Invariance, PTL DEF Spec, Pool!Spec

LEMMA ServerRunsTheProvedPool == Spec => PoolProofs!Spec
<1>1. Init => PoolProofs!Init
      BY DEF Init, Pool!Init, PoolProofs!Init, Pool!Keys, PoolProofs!Keys, Pool!Key,
             PoolProofs!Key, Pool!Sha256, PoolProofs!Sha256, Pool!Joined, PoolProofs!Joined
<1>2. IInv /\ [Next]_vars => [PoolProofs!Next]_(PoolProofs!vars) BY StepsThePool, SamePool
<1> QED BY <1>1, <1>2, Invariance, PTL DEF Spec, PoolProofs!Spec

\* In the server too, one handler at a time opens a connection for given
\* credentials, and none waits for an initialiser that is not running, whichever
\* health checks, requests and warm-ups use the pool and whenever it is closed.
THEOREM ServerSharesDials == Spec => [](Pool!SingleFlight /\ Pool!NobodyStranded)
<1>1. Spec => []PoolProofs!SingleFlight
      BY ServerRunsTheProvedPool, PoolAssumptions, PoolProofs!DialsAreShared, PTL
<1>2. Spec => []PoolProofs!NobodyStranded
      BY ServerRunsTheProvedPool, PoolAssumptions, PoolProofs!WaitersAreServed, PTL
<1>3. PoolProofs!SingleFlight /\ PoolProofs!NobodyStranded
         => Pool!SingleFlight /\ Pool!NobodyStranded
      BY DEF Pool!SingleFlight, PoolProofs!SingleFlight, Pool!NobodyStranded,
             PoolProofs!NobodyStranded, Pool!Leaders, PoolProofs!Leaders, Pool!MyKey,
             PoolProofs!MyKey, Pool!Key, PoolProofs!Key, Pool!Sha256, PoolProofs!Sha256,
             Pool!Joined, PoolProofs!Joined
<1> QED BY <1>1, <1>2, <1>3, PTL

LEMMA SamePooled ==
    /\ PoolProofs!Pooled!Init => Pool!Pooled!Init
    /\ [PoolProofs!Pooled!Next]_(PoolProofs!Pooled!vars)
          => [Pool!Pooled!Next]_(Pool!Pooled!vars)
<1> USE DEF Pool!Phase, PoolProofs!Phase, Pool!Cached, PoolProofs!Cached, Pool!InUse,
            PoolProofs!InUse, Pool!Keys, PoolProofs!Keys, Pool!Key, PoolProofs!Key,
            Pool!Sha256, PoolProofs!Sha256, Pool!Joined, PoolProofs!Joined,
            Pool!Principals, PoolProofs!Principals, Pool!Principal, PoolProofs!Principal,
            Pool!Anonymous, PoolProofs!Anonymous
<1>1. PoolProofs!Pooled!Init => Pool!Pooled!Init
      BY DEF Pool!Pooled!Init, PoolProofs!Pooled!Init
<1>2. PoolProofs!Pooled!vars = Pool!Pooled!vars
      BY DEF Pool!Pooled!vars, PoolProofs!Pooled!vars
<1>3. PoolProofs!Pooled!vars' = Pool!Pooled!vars'
      BY DEF Pool!Pooled!vars, PoolProofs!Pooled!vars
<1>4. PoolProofs!Pooled!Next => Pool!Pooled!Next
      BY DEF Pool!Pooled!Next, PoolProofs!Pooled!Next, Pool!Pooled!Share,
         PoolProofs!Pooled!Share, Pool!Pooled!Leave, PoolProofs!Pooled!Leave, Pool!Pooled!Ask,
         PoolProofs!Pooled!Ask, Pool!Pooled!Open, PoolProofs!Pooled!Open,
         Pool!Pooled!Refuse, PoolProofs!Pooled!Refuse, Pool!Pooled!Drop,
         PoolProofs!Pooled!Drop, Pool!Pooled!Give, PoolProofs!Pooled!Give,
         Pool!Pooled!DropsOnlyUnheld, PoolProofs!Pooled!DropsOnlyUnheld
<1> QED BY <1>1, <1>2, <1>3, <1>4

\* The handlers of the server see no more of the pool than PooledConnections
\* says: a live connection of their own credentials, kept until they leave.
THEOREM ServerImplementsPooledConnections == Spec => Pool!ImplementsPooledConnections
<1>1. Spec => PoolProofs!ImplementsPooledConnections
      BY ServerRunsTheProvedPool, PoolAssumptions, PoolProofs!PoolImplements, PTL
<1> QED BY <1>1, SamePooled, PTL DEF Pool!ImplementsPooledConnections, Pool!Pooled!Spec,
           PoolProofs!ImplementsPooledConnections, PoolProofs!Pooled!Spec

=============================================================================
