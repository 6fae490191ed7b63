--------------------------- MODULE MCMatchEntries ---------------------------
(* Tables of up to three entries over two claim keys: plain, glob, missing, *)
(* repeated and malformed selectors, and entries of another attestor.       *)
EXTENDS MatchEntries

CONSTANTS aws, github, k1, k2, v, w

MCAttestor == {aws, github}
MCKey == {k1, k2}
MCValue == {v, w}

plain == [key |-> k1, vals |-> {v}]
glob == [key |-> k1, vals |-> {v, w}]
other == [key |-> k2, vals |-> {v}]
malformed == [key |-> NoKey, vals |-> {v, w}]

MCSelectors == {<<>>, <<plain>>, <<glob>>, <<other>>, <<plain, other>>, <<glob, glob>>,
                <<other, malformed>>}

MCEntry == [id : 1..3, attestor : {aws}, selectors : MCSelectors]
             \cup [id : {2}, attestor : {github}, selectors : {<<glob>>, <<plain, other>>}]

MCTables == {{a, b, c} : a \in {e \in MCEntry : e.id = 1},
                         b \in {e \in MCEntry : e.id = 2},
                         c \in {e \in MCEntry : e.id = 3}}
              \cup {{e} : e \in MCEntry} \cup {{}}
=============================================================================
