------------------------------ MODULE MCMedia -------------------------------
(* Requests of up to three items in one to three shards; plans of up to      *)
(* fourteen rows.  Replies cover white space, blank, overlong and malformed  *)
(* rows, repeats, and more rows than asked for.                              *)
EXTENDS Media

MCTargets == -2..14

MCChoices == <<1, 2>>

R(k, p) == [key |-> k, pad |-> p]
MCReplies == {<<R(1, TRUE), R(2, FALSE)>>, <<R(Blank, TRUE), R(3, FALSE)>>,
              <<R(TooLong, FALSE), R(Malformed, FALSE)>>,
              <<R(2, FALSE), R(2, TRUE), R(1, FALSE)>>}

MCFields == {<<>>, <<"id", "messages">>, <<"label", "text">>}
=============================================================================
