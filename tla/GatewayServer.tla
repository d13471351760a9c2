--------------------------- MODULE GatewayServer ---------------------------
(***************************************************************************)
(* The life of one gateway process and the requests it serves: main.rs,    *)
(* server/mod.rs, server/auth.rs, the credentials part of                  *)
(* server/rest/mod.rs, and the calls of backend/mod.rs on the              *)
(* ConnectionPool, with which this module is composed.                     *)
(*                                                                         *)
(* What a backend call asks of Fluss is left out, it succeeds or fails:    *)
(* that is the matter of RestTables and ProducePath.                       *)
(***************************************************************************)
EXTENDS Naturals, FiniteSets, Sequences, Configuration, GatewayErrors

CONSTANTS
    Main,               \* the task that starts the server
    Handlers,           \* slots for request handlers
    Chars, Credentials, MaxTries, MaxOpened,    \* see ConnectionPool
    Setups,             \* command lines with the configuration files they meet
    Headers,            \* Authorization headers
    MaxBackendCalls,    \* bound: backend calls of one handler
    MaxAccepted         \* bound: API requests accepted

Requests == Handlers \cup {Main}

\* A request without an Authorization header.
NoHeader == [basic |-> FALSE, decodes |-> FALSE, text |-> <<>>]

ASSUME HandlersAssumption == IsFiniteSet(Handlers) /\ Main \notin Handlers
ASSUME PoolAssumption    ==
    /\ ":" \in Chars
    /\ Credentials # {}
    /\ Credentials \subseteq [user : Seq(Chars), pass : Seq(Chars)]
    /\ MaxTries \in Nat \ {0}
    /\ MaxOpened \in Nat
ASSUME SetupsAssumption  == \A s \in Setups : IsSetup(s)
ASSUME HeadersAssumption ==
    /\ NoHeader \in Headers
    /\ \A h \in Headers : {h.basic, h.decodes} \subseteq BOOLEAN /\ h.text \in Seq(Chars)
ASSUME BoundsAssumption  ==
    MaxBackendCalls \in Nat \ {0} /\ MaxAccepted \in Nat

VARIABLES
    pc, want, tries, held, cache, opened,   \* of the pool
    mode,       \* of the process
    setup,      \* what it was started with
    config,     \* its configuration
    stage,      \* of each handler: "free", "reading" its body, "api" or "health"
    header,     \* the Authorization header its request came with
    left,       \* backend calls it still has to make
    accepted,   \* API requests accepted
    answered,   \* http_requests_total
    errors,     \* errors_total, by type
    lost        \* API requests that ended without a response

Pool == INSTANCE ConnectionPool

poolVars   == <<pc, want, tries, held, cache, opened>>
metricVars == <<accepted, answered, errors, lost>>
handlerVars == <<stage, header, left>>
configVars == <<setup, config>>
vars == <<pc, want, tries, held, cache, opened, mode, setup, config, stage,
          header, left, accepted, answered, errors, lost>>

\* The startup credentials, of the configuration.
Startup == [user |-> config.startup_username, pass |-> config.startup_password]

Inside   == {r \in Handlers : stage[r] # "free"}
ApiCalls == {r \in Handlers : stage[r] \in {"reading", "api"}}

Up == mode \in {"warming", "binding", "serving", "draining", "closed"}

TypeOK ==
    /\ Pool!TypeOK
    /\ mode \in {"loading", "warming", "binding", "serving", "draining", "closed",
                 "exited", "failed", "killed"}
    /\ setup \in Setups
    /\ config \in {Default} \cup LoadConfig(setup)
    /\ stage \in [Handlers -> {"free", "reading", "api", "health"}]
    /\ header \in [Handlers -> Headers]
    /\ left \in [Handlers -> 0..MaxBackendCalls]
    /\ accepted \in 0..MaxAccepted
    /\ answered \in Nat
    /\ errors \in [{"client_error", "server_error"} -> Nat]
    /\ lost \in Nat

\* Nothing outlives the process: a restarted gateway starts here again.
Init ==
    /\ Pool!Init
    /\ mode = "loading"
    /\ setup \in Setups
    /\ config = Default
    /\ stage = [r \in Handlers |-> "free"]
    /\ header = [r \in Handlers |-> NoHeader]
    /\ left = [r \in Handlers |-> 0]
    /\ accepted = 0
    /\ answered = 0
    /\ errors = [e \in {"client_error", "server_error"} |-> 0]
    /\ lost = 0

-----------------------------------------------------------------------------
(***************************************************************************)
(* Start                                                                   *)
(***************************************************************************)

\* main loads the configuration, which also names the log level: the log
\* filter may not take one that is not the default.
Load ==
    /\ mode = "loading"
    /\ \/ config' \in LoadConfig(setup) /\ mode' = "warming"
       \/ /\ \A c \in LoadConfig(setup) : c.level # Default.level
          /\ mode' = "failed"
          /\ UNCHANGED config
    /\ UNCHANGED <<poolVars, setup, handlerVars, metricVars>>

\* FlussBackend::new warms the pool up with the startup credentials.
WarmUp ==
    /\ mode = "warming"
    /\ Pool!Get(Main, Startup)
    /\ UNCHANGED <<mode, configVars, handlerVars, metricVars>>

\* Mutated: the warm-up is spawned and not awaited.
WarmedUnawaited ==
    /\ mode = "warming"
    /\ mode' = "binding"
    /\ UNCHANGED <<poolVars, configVars, handlerVars, metricVars>>

\* The warm-up has its connection and drops it: it stays in the cache.
Warmed ==
    /\ mode = "warming"
    /\ Pool!Release(Main)
    /\ mode' = "binding"
    /\ UNCHANGED <<configVars, handlerVars, metricVars>>

\* The warm-up cannot connect: the main task panics and the process ends.
StartupPanics ==
    /\ mode = "warming"
    /\ pc[Main] = "failed"
    /\ mode' = "failed"
    /\ UNCHANGED <<poolVars, configVars, handlerVars, metricVars>>

\* TcpListener::bind.
Bind ==
    /\ mode = "binding"
    /\ mode' \in {"serving", "failed"}
    /\ UNCHANGED <<poolVars, configVars, handlerVars, metricVars>>

-----------------------------------------------------------------------------
(***************************************************************************)
(* Requests                                                                *)
(***************************************************************************)

Serving == mode \in {"serving", "draining"}

\* metrics_middleware sees a response with the given status.
Count(status) ==
    /\ answered' = answered + 1
    /\ errors' = [e \in DOMAIN errors |->
                    IF e \in ErrorType(status) THEN errors[e] + 1 ELSE errors[e]]
    /\ UNCHANGED lost

\* parse_basic_auth: the user name ends at the first colon and is not empty.
ParseBasicAuth(h) ==
    {[user |-> SubSeq(h.text, 1, i - 1), pass |-> SubSeq(h.text, i + 1, Len(h.text))] :
        i \in {i \in 2..Len(h.text) :
                  /\ h.basic /\ h.decodes
                  /\ h.text[i] = ":"
                  /\ \A j \in 1..(i - 1) : h.text[j] # ":"}}

\* The pool's credentials are all that a configuration or a header can name.
ASSUME CredentialsAssumption ==
    /\ \A s \in Setups : \A c \in LoadConfig(s) :
          [user |-> c.startup_username, pass |-> c.startup_password] \in Credentials
    /\ \A h \in Headers : ParseBasicAuth(h) \subseteq Credentials

\* extract_creds refuses a request when it has to authenticate and cannot.
Refused(h) == config.type = "passthrough" /\ ParseBasicAuth(h) = {}

\* Mutated: the credentials of the request are ignored in every mode.
ActsAsStartup(h) == Startup

\* Mutated: the whole text of the header is the user name.
ActsAsText(h) ==
    IF config.type = "none" THEN Startup ELSE [user |-> h.text, pass |-> <<>>]

\* extract_creds and FlussBackend::conn: whose connection the handler gets.
ActsAs(h) ==
    IF config.type = "none" THEN Startup ELSE CHOOSE c \in ParseBasicAuth(h) : TRUE

\* What the head of an API request may be answered with: its body is said to be
\* too large or to be no JSON, its path or query is no good, it is a prefix
\* scan, or a request without a body that may not be served.
FromHead(h) ==
    {StatusCode[e] : e \in {"BodyLimitTooLarge", "Internal"}} \cup {400, 415}
        \cup IF Refused(h) THEN {StatusCode["Unauthorized"]} ELSE {StatusCode["BadRequest"]}

\* What its body may be answered with before a backend call: it is longer than
\* axum reads or not what the handler takes, the request may not be served, its
\* contents are no good, or it asks for nothing.
FromBody(h) ==
    {400, 413, 422}
        \cup IF Refused(h) THEN {StatusCode["Unauthorized"]}
                           ELSE {StatusCode["BadRequest"], 200}

\* The head of an API request arrives.
Receive(r) ==
    /\ mode = "serving"
    /\ stage[r] = "free"
    /\ accepted < MaxAccepted
    /\ accepted' = accepted + 1
    /\ UNCHANGED <<mode, configVars>>

\* It is answered at once.
AnswerApi(r, h) ==
    /\ Receive(r)
    /\ \E status \in FromHead(h) : Count(status)
    /\ UNCHANGED <<poolVars, handlerVars>>

\* The handler makes the first of its backend calls.
FirstCall(r, h, calls) ==
    /\ ~Refused(h)
    /\ stage' = [stage EXCEPT ![r] = "api"]
    /\ header' = [header EXCEPT ![r] = h]
    /\ left' = [left EXCEPT ![r] = calls]
    /\ Pool!Get(r, ActsAs(h))
    /\ UNCHANGED <<answered, errors, lost>>

\* It has no body, and its handler starts with it.
AcceptApi(r, h, calls) == Receive(r) /\ FirstCall(r, h, calls)

\* The Json extractor of its handler waits for its body, which may not have
\* been sent yet.  Nothing in the gateway ends that wait.
AwaitBody(r, h) ==
    /\ Receive(r)
    /\ stage' = [stage EXCEPT ![r] = "reading"]
    /\ header' = [header EXCEPT ![r] = h]
    /\ UNCHANGED <<poolVars, left, answered, errors, lost>>

\* GET /health?deep=true: no middleware, always the startup connection.  (The
\* circuit breaker it consults first is never written, so it stays Healthy.)
AcceptHealth(r) ==
    /\ mode = "serving"
    /\ stage[r] = "free"
    /\ stage' = [stage EXCEPT ![r] = "health"]
    /\ left' = [left EXCEPT ![r] = 1]
    /\ Pool!Get(r, Startup)
    /\ UNCHANGED <<mode, configVars, header, metricVars>>

\* The request of r is over.
End(r) ==
    /\ stage' = [stage EXCEPT ![r] = "free"]
    /\ header' = [header EXCEPT ![r] = NoHeader]
    /\ left' = [left EXCEPT ![r] = 0]

\* The handler of r returns a response with the given status.
Respond(r, status) ==
    /\ Serving
    /\ stage[r] # "free"
    /\ End(r)
    /\ IF r \in ApiCalls THEN Count(status) ELSE UNCHANGED <<answered, errors, lost>>
    /\ UNCHANGED <<mode, configVars, accepted>>

\* The rest of the body arrives: it is answered, or the handler starts.
BodyArrives(r) ==
    /\ stage[r] = "reading"
    /\ Serving
    /\ \/ /\ \E status \in FromBody(header[r]) : Respond(r, status)
          /\ UNCHANGED poolVars
       \/ /\ \E calls \in 1..MaxBackendCalls : FirstCall(r, header[r], calls)
          /\ UNCHANGED <<mode, configVars, accepted>>

\* The last backend call succeeds.
BackendDone(r) == left[r] = 1 /\ Pool!Release(r) /\ Respond(r, 200)

\* A backend call fails, for a reason of the client's or of the cluster's.
BackendErr(r) ==
    /\ Pool!Release(r)
    /\ \E e \in {"BadRequest", "InvalidOperation", "FlussError"} : Respond(r, StatusCode[e])

\* A backend call succeeds and the handler makes another one: its connection
\* is dropped, and asked of the pool again by the next call.
BackendNext(r) ==
    /\ Serving
    /\ stage[r] # "free"
    /\ left[r] > 1
    /\ left' = [left EXCEPT ![r] = @ - 1]
    /\ Pool!Release(r)
    /\ UNCHANGED <<mode, configVars, stage, header, metricVars>>

\* Mutated: once the shutdown has begun no further backend call is made.
CallAgainServing(r) ==
    /\ mode = "serving"
    /\ stage[r] = "api"
    /\ Pool!Get(r, ActsAs(header[r]))
    /\ UNCHANGED <<mode, configVars, handlerVars, metricVars>>

CallAgain(r) ==
    /\ Serving
    /\ stage[r] = "api"
    /\ Pool!Get(r, ActsAs(header[r]))
    /\ UNCHANGED <<mode, configVars, handlerVars, metricVars>>

\* Between two backend calls the handler finds that a row does not fit the table.
RejectRows(r) ==
    /\ stage[r] = "api" /\ pc[r] = "idle"
    /\ Respond(r, StatusCode["BadRequest"])
    /\ UNCHANGED poolVars

\* The request ends without a response: nothing after the handler runs.
Lose(r) ==
    /\ Serving
    /\ stage[r] # "free"
    /\ End(r)
    /\ lost' = IF r \in ApiCalls THEN lost + 1 ELSE lost
    /\ UNCHANGED <<mode, configVars, accepted, answered, errors>>

\* Mutated: a panic is answered outside the metrics.
PanicsAnswered(r) ==
    /\ Serving
    /\ Pool!Unwind(r)
    /\ End(r)
    /\ UNCHANGED <<mode, configVars, metricVars>>

\* create_connection panicked: the task of the client's connection unwinds.
Panics(r) == Pool!Unwind(r) /\ Lose(r)

\* The client closes its connection: the handler is dropped where it is.
ClientLeaves(r) ==
    /\ Lose(r)
    /\ \/ Pool!Disconnect(r)
       \/ pc[r] = "idle" /\ UNCHANGED poolVars

\* get_or_create, for a handler or for the warm-up.
PoolStep(r) ==
    /\ r = Main => mode = "warming"
    /\ Pool!Hit(r) \/ Pool!Lead(r) \/ Pool!Join(r) \/ Pool!DialOk(r) \/ Pool!DialFail(r)
    /\ UNCHANGED <<mode, configVars, handlerVars, metricVars>>

\* An entry of the pool's cache is evicted.
EvictIdle ==
    /\ Up
    /\ \E k \in Pool!Keys : Pool!Evict(k)
    /\ UNCHANGED <<mode, configVars, handlerVars, metricVars>>

-----------------------------------------------------------------------------
(***************************************************************************)
(* Stop                                                                    *)
(***************************************************************************)

\* SIGTERM or SIGINT.  The handlers are installed once the server is serving:
\* before that the signal ends the process, and a second one does nothing.
Signal ==
    /\ \/ mode \in {"warming", "binding"} /\ mode' = "killed"
       \/ mode = "serving" /\ mode' = "draining"
    /\ UNCHANGED <<poolVars, configVars, handlerVars, metricVars>>

\* Mutated: the pool is closed as soon as the signal arrives.
ShutdownUndrained ==
    /\ mode = "draining"
    /\ Pool!Close
    /\ mode' = "closed"
    /\ UNCHANGED <<configVars, handlerVars, metricVars>>

\* Every request has ended: axum::serve returns and run closes the pool.
Shutdown ==
    /\ mode = "draining"
    /\ Inside = {}
    /\ Pool!Close
    /\ mode' = "closed"
    /\ UNCHANGED <<configVars, handlerVars, metricVars>>

Exit ==
    /\ mode = "closed"
    /\ mode' = "exited"
    /\ UNCHANGED <<poolVars, configVars, handlerVars, metricVars>>

\* SIGKILL, or a crash of the machine.
Kill ==
    /\ Up
    /\ mode' = "killed"
    /\ UNCHANGED <<poolVars, configVars, handlerVars, metricVars>>

-----------------------------------------------------------------------------
Arrive(r) ==
    \/ AcceptHealth(r)
    \/ \E h \in Headers : \/ AnswerApi(r, h) \/ AwaitBody(r, h)
                          \/ \E calls \in 1..MaxBackendCalls : AcceptApi(r, h, calls)

Backend(r) == BackendDone(r) \/ BackendErr(r) \/ BackendNext(r)

Process == Load \/ WarmUp \/ Warmed \/ StartupPanics \/ Bind \/ Shutdown \/ Exit

Next ==
    \/ Process \/ Signal \/ Kill \/ EvictIdle
    \/ \E r \in Requests : PoolStep(r)
    \/ \E r \in Handlers :
          \/ Arrive(r) \/ Backend(r)
          \/ BodyArrives(r) \/ CallAgain(r) \/ RejectRows(r)
          \/ Panics(r) \/ ClientLeaves(r)

Spec == Init /\ [][Next]_vars

\* The gateway's own steps are taken.
GatewayFairness ==
    /\ WF_vars(Process)
    /\ \A r \in Requests : WF_vars(PoolStep(r) /\ pc[r] = "getting")
    /\ \A r \in Handlers : WF_vars(CallAgain(r)) /\ WF_vars(Panics(r))

\* Fluss answers: every dial and every call on a connection ends.
FlussFairness ==
    /\ \A r \in Requests : WF_vars(PoolStep(r) /\ pc[r] = "dialing")
    /\ \A r \in Handlers : WF_vars(Backend(r))

\* A client sends the body of the request it has begun, or leaves.
ClientFairness == \A r \in Handlers : WF_vars(BodyArrives(r))

GatewaySpec == Spec /\ GatewayFairness
FairSpec    == Spec /\ GatewayFairness /\ FlussFairness /\ ClientFairness

-----------------------------------------------------------------------------
(***************************************************************************)
(* What the server guarantees                                              *)
(***************************************************************************)

\* Once the pool is closed it stays empty and nobody uses a connection of it:
\* no request is still running that could open one behind run's back.
ClosedPoolIsEmpty ==
    mode \in {"closed", "exited"} => Pool!Cached = {} /\ Pool!InUse = {} /\ Inside = {}

\* A request works with a connection of its own: of the startup credentials when
\* auth.type is none, else one opened as the user and the password that make up
\* its header, of which the user has no colon, or an anonymous one if it gives no
\* password.  A request without a user never gets one, and one with a password
\* never an anonymous one.  The second backend call is held to it like the first.
IdentityRespected ==
    \A r \in ApiCalls : held[r] # 0 =>
        LET as   == opened[held[r]]
            text == header[r].text
            user == IF as = Pool!Anonymous THEN SubSeq(text, 1, Len(text) - 1) ELSE as.user
        IN  IF config.type = "none" THEN as = Pool!Principal(Startup)
            ELSE /\ text = user \o <<":">> \o as.pass
                 /\ user # <<>>
                 /\ \A i \in DOMAIN user : user[i] # ":"

\* A gateway that serves has reached the coordinator as its startup user.
ServesAfterWarmUp ==
    mode \in {"serving", "draining"} =>
        \E n \in 1..Len(opened) : opened[n] = Pool!Principal(Startup)

\* http_requests_total counts every API request that was not lost, once: those
\* accepted are counted, lost without a response, or still inside.  At most one
\* error is counted for each.
RequestsAccounted ==
    /\ accepted = answered + lost + Cardinality(ApiCalls)
    /\ errors["client_error"] + errors["server_error"] <= answered

\* A signalled gateway exits, provided that Fluss answers and that clients send
\* what they have begun or leave: whatever its handlers wait for beside these,
\* however many of them share a dial, and whoever fails in them.
ShutdownCompletes == mode = "draining" ~> mode \in {"exited", "killed"}

-----------------------------------------------------------------------------
(***************************************************************************)
(* What the documentation says and the code does not do                    *)
(***************************************************************************)

\* DEPLOY.md:271, "Wait for existing requests to complete (up to 10 seconds)":
\* the wait for existing requests ends also when Fluss does not answer them.
DrainIsBounded == mode = "draining" ~> mode # "draining"

\* backend/mod.rs:39, "Err(_) if the coordinator is unreachable or
\* unresponsive": a deep health check answers when the coordinator is down.
DeepHealthAnswers == \A r \in Handlers : stage[r] = "health" => pc[r] # "failed"
=============================================================================
