------------------------- MODULE MCStreamModeration -------------------------
(* Small instances of StreamModeration for TLC.                            *)
EXTENDS StreamModeration

Doc(n) == [events |-> FALSE, contents |-> <<n>>, valid |-> TRUE, trailers |-> FALSE]
NoDoc == [Doc(0) EXCEPT !.contents = <<>>]
Broken == [Doc(0) EXCEPT !.valid = FALSE]
Events(contents) == [Doc(0) EXCEPT !.events = TRUE, !.contents = contents]
Trailed(m) == [m EXCEPT !.trailers = TRUE]
Exchange(request, response) == [request |-> request, response |-> response]
Nobody == Exchange(NoDoc, NoDoc)

World(max, overlap, streaming, first, second) ==
  [max |-> max, overlap |-> overlap, streaming |-> streaming,
   message |-> [s \in Streams |-> IF s = "a" THEN first ELSE second]]

(* One stream: events with and without content, that fill chunks exactly,  *)
(* cross them, and end in the overlap, after requests of all lengths.      *)
Lengths == {<<2, 2, 0>>, <<1, 4, 1>>, <<5, 0>>, <<0, 3, 3>>}
Alone ==
  {World(k[1], k[2], TRUE, Exchange(IF n = 0 THEN NoDoc ELSE Doc(n), Events(l)), Nobody) :
     k \in {<<2, 0>>, <<4, 2>>, <<3, 1>>, <<4, 3>>}, n \in {0, 3, 4}, l \in Lengths}
Others ==
  {World(2, 1, streaming, Exchange(request, response), Nobody) :
     streaming \in BOOLEAN, request \in {Doc(3), Trailed(Doc(3)), Broken},
     response \in {Doc(5), Events(<<3, 0, 2>>), Trailed(Events(<<2, 1>>)), NoDoc}}
(* Two streams that share the extractor.                                   *)
Shared ==
  {World(2, 0, TRUE, Exchange(Doc(1), Events(<<1, 2>>)), Exchange(Doc(2), Doc(1))),
   World(3, 1, TRUE, Exchange(NoDoc, Events(<<2, 2>>)), Exchange(NoDoc, Events(<<3, 1>>))),
   World(3, 2, TRUE, Exchange(Doc(3), Events(<<1, 3>>)), Exchange(Doc(1), NoDoc))}
MCWorlds == Alone \union Others \union Shared
=============================================================================
