--------------------------- MODULE Configuration ---------------------------
(***************************************************************************)
(* What a gateway is configured with, given its command line and its       *)
(* configuration file: config.rs and load_config of main.rs.               *)
(*                                                                         *)
(* A setup says whether a configuration file was named (explicit) or is    *)
(* the gateway.toml that need not be there, whether the file exists and is *)
(* well-formed, and what it and the command line set.                      *)
(***************************************************************************)
EXTENDS Naturals

Default ==
    [host |-> "0.0.0.0", port |-> 8080, max_body_size |-> 16777216,
     coordinator |-> "localhost:9123",
     type |-> "none", startup_username |-> <<>>, startup_password |-> <<>>,
     max_connections |-> 500, idle_timeout_secs |-> 600,
     level |-> "info"]

Settings  == DOMAIN Default
AuthTypes == {"none", "passthrough"}

IsSetup(s) ==
    /\ {s.explicit, s.exists, s.valid} \subseteq BOOLEAN
    /\ DOMAIN s.file \subseteq Settings
    /\ DOMAIN s.args \subseteq Settings \ {"max_body_size"}

\* unwrap_or_default: what a setting is that a configuration file leaves out.
Absent == [Default EXCEPT !.host = "", !.port = 0, !.coordinator = "", !.level = ""]

\* The settings of over, and those of base for what over leaves out.
Filled(over, base) == [k \in Settings |-> IF k \in DOMAIN over THEN over[k] ELSE base[k]]

\* GatewayConfig::from_file; no value stands for an error.
FromFile(s) ==
    {c \in {IF s.exists THEN Filled(s.file, Absent) ELSE Default} :
        s.exists => s.valid /\ c.type \in AuthTypes}

\* The arguments that count: an unknown --auth-type is ignored.
Effective(args) == {k \in DOMAIN args : k = "type" => args.type \in AuthTypes}

Overridden(args, c) == Filled([k \in Effective(args) |-> args[k]], c)

\* ServeArgs::load_config.  Without a configuration file of its own the gateway
\* takes a gateway.toml that it cannot read for one that is not there.
LoadConfig(s) ==
    LET read == FromFile(s)
    IN  {Overridden(s.args, c) : c \in IF read = {} /\ ~s.explicit THEN {Default} ELSE read}
=============================================================================
