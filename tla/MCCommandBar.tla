---------------------------- MODULE MCCommandBar ----------------------------
(* Two queries, three tiles, and an app that knows one of their addresses.  *)
EXTENDS CommandBar

\* "b" matches two of the tiles "a" matches; two tiles are visited equally often.
MCTiles ==
  {[url |-> "x", visits |-> 1, title |-> 1, matches |-> {"a", "b"}, starts |-> {"b"}],
   [url |-> "y", visits |-> 1, title |-> 0, matches |-> {"a", "b"}, starts |-> {"a"}],
   [url |-> "z", visits |-> 2, title |-> 2, matches |-> {"a"}, starts |-> {}]}
MCReplies == {<<>>, <<"x", "w">>, <<"z">>}
=============================================================================
