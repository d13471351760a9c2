--------------------------- MODULE GatewayErrors ---------------------------
(***************************************************************************)
(* The errors of types/mod.rs and the responses they become.               *)
(***************************************************************************)
EXTENDS Naturals

StatusCode ==
    [BadRequest        |-> 400,
     Unauthorized      |-> 401,
     BodyLimitTooLarge |-> 413,
     InvalidOperation  |-> 422,
     FlussError        |-> 500,
     Internal          |-> 500]

ErrorCode ==
    [BadRequest        |-> 40001,
     Unauthorized      |-> 40101,
     BodyLimitTooLarge |-> 41301,
     InvalidOperation  |-> 42205,
     FlussError        |-> 50001,
     Internal          |-> 50001]

Errors == DOMAIN StatusCode

\* The response an error becomes, and that of a request that succeeds.
IntoResponse(e) == [status |-> StatusCode[e], error_code |-> ErrorCode[e]]
Success(status) == [status |-> status, error_code |-> 0]

\* The types under which errors_total counts a response, if it does.
ErrorType(status) ==
    IF status >= 500 THEN {"server_error"}
    ELSE IF status >= 400 THEN {"client_error"} ELSE {}
=============================================================================
