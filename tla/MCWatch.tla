------------------------------ MODULE MCWatch ------------------------------
(***************************************************************************)
(* A small instance of Watch for TLC.                                      *)
(***************************************************************************)
EXTENDS Watch, TLC

CONSTANTS a1, a2

Row(a, b) == [addr |-> a, balance |-> b]

\* Two addresses with comments, one twice, one line that is no address, none.
WatchLists == {<<a1, "comment", a2>>, <<a2, a2>>, <<a1, "invalid">>, <<"comment">>}

\* Both; a2 alone, in another place, before a row of a1 without a balance.
Snapshots ==
  { <<Row(Header, "text"), Row(a1, "positive"), Row(a2, "absent")>>,
    <<Row(a2, "positive"), Row(a1, "zero"), Row(Junk, "positive")>> }

\* a1 has no balance in any of them.
Emptied == {<<Row(a1, "zero"), Row(a2, "positive")>>, <<Row(a1, "zero")>>}

Hooks == {{"webhook", "serverchan"}, {"serverchan"}}

=============================================================================
