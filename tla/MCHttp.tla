--------------------------------- MODULE MCHttp ---------------------------------
EXTENDS HttpServer, TLC

Plain(route, head, lengths, body) ==
  [head |-> head, endless |-> FALSE, route |-> route, lengths |-> lengths, body |-> body, sane |-> TRUE]

CONSTANTS c1, c2

Pixel == Plain("infer", 1, <<1>>, 1)
Health == Plain("health", 1, <<>>, 0)

\* Heads below the limit of 2, at it, within a chunk of 2 of it and beyond;
\* bodies of one feature, of one float of 2, too short, too long, and odd ones;
\* some are longer than declared, two by more than the limit and a chunk, and
\* one that is declared never comes.
Framings == {
  Plain("metrics", 3, <<>>, 0),
  Plain("other", 2, <<1>>, 2),
  Plain("infer", 5, <<1>>, 1),
  [Plain("infer", 5, <<>>, 0) EXCEPT !.endless = TRUE],
  [Plain("infer", 1, <<>>, 0) EXCEPT !.endless = TRUE],
  [Plain("infer", 1, <<2>>, 2) EXCEPT !.sane = FALSE],
  Plain("infer", 1, <<3>>, 3),
  Plain("infer", 1, <<3>>, 6),
  Plain("infer", 1, <<5>>, 6),
  Plain("infer", 3, <<2>>, 0),
  Plain("infer", 1, <<2, 4, Unparsable>>, 0),
  Plain("infer", 1, <<1, Unparsable>>, 0),
  Plain("infer", 1, <<-1>>, 0)}
Inferences == {Pixel, Plain("infer", 1, <<2>>, 2), Plain("infer", 1, <<2>>, 1), Plain("infer", 2, <<3, 1>>, 2)}

MCTraffic ==
  {c1 :> m @@ c2 :> Health : m \in Framings} \cup {c1 :> m @@ c2 :> Pixel : m \in Inferences}
================================================================================
