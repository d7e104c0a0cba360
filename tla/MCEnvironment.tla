--------------------------- MODULE MCEnvironment ----------------------------
(* Three keys: one begins like another, one has a separator in it. *)
EXTENDS Environment
MCChars == {"a", "b", "=", "x", "y"}
MCKeys == {<<"a">>, <<"a", "b">>, <<"a", "=">>}
MCValues == {<<"x">>, <<"y">>}
=============================================================================
