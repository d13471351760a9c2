--------------------------- MODULE MCGatewayServer ---------------------------
(***************************************************************************)
(* GatewayServer for TLC: two handlers, the startup user, another one      *)
(* whose password is a colon or missing, and five ways to start.           *)
(***************************************************************************)
EXTENDS GatewayServer

CONSTANTS h1, h2

TwoHandlers == {h1, h2}

SomeChars == {"s", "u", "p", ":"}

StartupUser == [user |-> <<"s">>, pass |-> <<"p">>]
OtherUser   == [user |-> <<"u">>, pass |-> <<":">>]
NoPassword  == [user |-> <<"u">>, pass |-> <<>>]
Nobody      == [user |-> <<>>, pass |-> <<>>]

SomeCredentials == {StartupUser, OtherUser, NoPassword, Nobody}

Basic(text) == [basic |-> TRUE, decodes |-> TRUE, text |-> text]

\* None, two that name the other user, and one without a user.
SomeHeaders ==
    {NoHeader, Basic(<<"u", ":", ":">>), Basic(<<"u", ":">>), Basic(<<":", "p">>)}

AsStartup == [startup_username |-> <<"s">>, startup_password |-> <<"p">>]

Setup(explicit, exists, valid, file, args) ==
    [explicit |-> explicit, exists |-> exists, valid |-> valid, file |-> file, args |-> args]

\* A named file that asks for passwords and is partly overridden; a gateway.toml
\* with an unknown auth type, which is passed over; named files that stop the
\* start, by their syntax and by their auth type; no file, no startup user and
\* a log level.
SomeSetups ==
    {Setup(TRUE, TRUE, TRUE,
        [type |-> "passthrough", coordinator |-> "c:1", port |-> 1, startup_password |-> <<"p">>],
        [type |-> "basic", port |-> 2, startup_username |-> <<"s">>, level |-> "warn"]),
     Setup(FALSE, TRUE, TRUE, [type |-> "basic", host |-> "h"], AsStartup),
     Setup(TRUE, TRUE, FALSE, [host |-> "h"], AsStartup),
     Setup(TRUE, TRUE, TRUE, [type |-> "basic"], AsStartup),
     Setup(TRUE, FALSE, TRUE, <<>>, [level |-> "loud"])}
=============================================================================
