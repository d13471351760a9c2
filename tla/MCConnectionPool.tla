-------------------------- MODULE MCConnectionPool --------------------------
(***************************************************************************)
(* ConnectionPool for TLC.  The two credentials have the same              *)
(* "user:password" text: one is what a client may send, the other what the *)
(* configuration file may give as startup credentials.  The second has no  *)
(* password.                                                               *)
(***************************************************************************)
EXTENDS ConnectionPool

CONSTANTS r1, r2, r3

ThreeRequests == {r1, r2, r3}

SomeChars == {"a", ":"}

SomeCredentials ==
    { [user |-> <<"a">>,      pass |-> <<":">>],
      [user |-> <<"a", ":">>, pass |-> <<>>] }
=============================================================================
