---------------------------- MODULE MCConnectors ----------------------------
(* A connector of each kind, one that replaces another under the same id,    *)
(* and two whose discovery reports a backend beyond its own; the answers     *)
(* have characters of several bytes, lines to skip, text after a finish      *)
(* reason, and end with and without a terminal line.  The second answer of   *)
(* SGLang gets into trouble when its first character is cut: decoded, the    *)
(* text is longer than the bytes.                                            *)
EXTENDS Connectors

MCLine(tag, text, finish) == [tag |-> tag, text |-> text, finish |-> finish]
Junk == MCLine("junk", <<>>, FALSE)
Text(text, finish) == MCLine("text", text, finish)
MCWires ==
    [ sse      |-> {<<Text(<<1, 0, 0>>, FALSE), Text(<<>>, TRUE), MCLine("tool", <<2>>, FALSE),
                      Text(<<2>>, TRUE), Text(<<3>>, FALSE), MCLine("done", <<>>, FALSE)>>},
      generate |-> {<<Text(<<1>>, FALSE), Text(<<1>>, FALSE), Junk, Text(<<1, 2>>, FALSE),
                      Text(<<3>>, TRUE), MCLine("done", <<>>, FALSE)>>,
                    <<Text(<<1, 0>>, FALSE), Text(<<1, 0, 2, 3, 0>>, TRUE)>>},
      nats     |-> {<<Text(<<1>>, FALSE), Junk, Text(<<2>>, FALSE)>>,
                    <<Text(<<1>>, FALSE), MCLine("error", <<>>, FALSE)>>} ]
Backend(scheme, host, engine) ==
    [region |-> "near", scheme |-> scheme, host |-> host, engine |-> engine]
MCConfigs ==
    << Backend("http", "a", "dynamo_http"), Backend("https", "a", "openai"),
       Backend("http", "b", "sglang"), Backend("nats", "c", "dynamo"),
       Backend("http", "e", "dynamo_http") >>
At(host) == <<"near", host>>
MCReports == << {At("a")}, {At("a")}, {At("a"), At("b")}, {At("c"), At("d")}, {At("e")} >>
MCAsks == { [ids |-> TRUE, tools |-> FALSE], [ids |-> FALSE, tools |-> TRUE] }
MCPages ==
    { [kind |-> "server_info", block |-> 0, usedTokens |-> 300, totalTokens |-> 1000],
      [kind |-> "server_info", block |-> 16, usedTokens |-> 300, totalTokens |-> 0],
      [kind |-> "prometheus", lines |-> << [name |-> "usage", value |-> 300],
                                           [name |-> "running", value |-> 1] >>],
      [kind |-> "struct", metrics |-> [used |-> 300, total |-> 1000]],
      [kind |-> "unavailable"] }
=============================================================================
