------------------------------ MODULE MCLogin ------------------------------
(***************************************************************************)
(* The requests of Login for model checking: names and passwords of one    *)
(* char, where a segment may end before the name, and one longer name that *)
(* may be cut in two.                                                      *)
(***************************************************************************)
EXTENDS Login

Ask(cmd, user, pass) == [cmd |-> cmd, user |-> user, pass |-> pass]

\* Two users after one name, one of them at the door with its password, and
\* the requests that are refused.
ShortRequests == {
  Ask("REGISTER", <<"a">>, <<"x">>),
  Ask("REGISTER", <<"a">>, <<"y">>),
  Ask("REGISTER", <<RESERVED>>, <<>>),
  Ask("LOGIN", <<"a">>, <<"x">>),
  Ask("OTHER", <<>>, <<>>)
}

LongRequests == {Ask("REGISTER", <<"a", "b">>, <<"x">>)}
=============================================================================
