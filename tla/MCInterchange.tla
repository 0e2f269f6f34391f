---------------------------- MODULE MCInterchange ----------------------------
(* Interchange on pages of two groups and three tiles, three columns wide.   *)
EXTENDS Interchange

LOCAL Title(word, suffixes) == [word |-> word, suffixes |-> suffixes]

\* A key can be spelled in more ways than one: 01 is an integer to the parser.
MCKeyNumber == [key \in Keys |-> CASE key \in {"1", "01"} -> 1
                              [] key = "2" -> 2
                              [] key = "3" -> 3
                              [] key = "7" -> 7]
MCKeyOf == [c \in 1 .. MaxColumns |-> CASE c = 1 -> "1" [] c = 2 -> "2" [] c = 3 -> "3"]

\* Two tiles called Mail are the case the exporter renames; one called Mail (2)
\* already is the case where the rename itself collides.
MCTitles == {Title("Mail", <<>>), Title("Mail", <<2>>)}

\* And one called << is the case the exporter writes with a tag.
TitlesAndTag == MCTitles \cup {Title("<<", <<>>)}

\* Nothing orders names or urls, and no property is about liveness.
NamesAndUrls ==
  {f @@ g : f \in Permutations(Names \ BlankNames), g \in Permutations(Urls)}
=============================================================================
