----------------------------- MODULE Connectors -----------------------------
(* The connectors: their registry and the discovery at startup, the metrics  *)
(* they collect, and the chunk streams they answer forward() with, up to the *)
(* handler that turns chunks into a reply (connector/*.rs, main.rs,          *)
(* handlers.rs).  A text is a sequence of bytes; the lines of an answer      *)
(* arrive in three parts each, a truncated line, a line that lacks its       *)
(* newline, and the whole line, and the ends of the network chunks may cut   *)
(* characters of the text.  The backend may close the connection, and        *)
(* reading may fail, at any point.  Three parsers:                           *)
(*   sse       OpenAI-compatible and vLLM backends, Dynamo without NATS, and *)
(*             SGLang in text form: each line carries new text;              *)
(*   generate  SGLang with token ids: each line repeats the text so far;     *)
(*   nats      Dynamo: one reply with all the lines.                         *)
EXTENDS Integers, Sequences, SequencesExt, FiniteSetsExt, TLC

CONSTANTS
    Configs,        \* the configured backends: a sequence of
                    \* [region, scheme, host, engine]
    EmitTokenIds,   \* forwarding.emit_token_ids
    Reports,        \* connector -> the backend ids its discover() reports
    Asks,           \* the requests: [ids, tools], what the client sent
    Wires,          \* parser -> the line sequences a backend may send
    Pages           \* the metrics pages a scrape may find

\* vLLM, llama.cpp and the like; SGLang; Dynamo over NATS; Dynamo in a build
\* without the `dynamo` feature.
Engines == {"openai", "sglang", "dynamo", "dynamo_http"}

\* backend_id() of the connector made from_endpoint(): the Region, and the host
\* and port of the URL, without the scheme.
AnchorId(c) == <<Configs[c].region, Configs[c].host>>

ASSUME ConnectorAssumption ==
    /\ EmitTokenIds \in BOOLEAN
    /\ Len(Configs) \in Nat
    /\ \A c \in 1 .. Len(Configs) : AnchorId(c) \in Reports[c] /\ Configs[c].engine \in Engines

\* What an answer is made of (see Streams).
Lines ==
    [tag : {"text", "tool", "done", "error", "junk"}, text : Seq(Nat), finish : BOOLEAN]

\* What the backends send: a Dynamo worker sends nothing after its terminal chunk.
ASSUME BackendAssumption ==
    /\ \A parser \in {"sse", "generate", "nats"} : Wires[parser] \subseteq Seq(Lines)
    /\ \A lines \in Wires["nats"] : \A j \in 1 .. Len(lines) : \A i \in 1 .. (j - 1) :
            lines[i].tag \in {"done", "error"} => lines[j].tag = "junk"

\* A cache's usage is turned into blocks of a cache of this many.
UsageBlocks == 1000

VARIABLES
    registry,   \* backend id -> connector (its index in Configs)
    catalog,    \* backend id -> [by, models, events]: what discovery put in the store
    toDiscover, \* the connectors discovery has not asked yet
    sample,     \* the last collected metrics, and whether their page's figures fit
    call        \* the request being forwarded

connectorVars == <<registry, catalog, toDiscover, sample, call>>

NoCallYet == [pc |-> "none"]
EngineOf(id) == Configs[registry[id]].engine
Zeros == [used |-> 0, total |-> 0]

-----------------------------------------------------------------------------
(* Registry and discovery.                                                   *)

\* from_configs(): each connector under its anchor id, a later one replacing an
\* earlier one.
FromConfigs ==
    [ id \in { AnchorId(c) : c \in 1 .. Len(Configs) } |->
        Max({ c \in 1 .. Len(Configs) : AnchorId(c) = id }) ]

\* Startup builds the registry and takes the list of connectors, in any order.
ConnectorInit ==
    /\ registry = FromConfigs
    /\ toDiscover = { registry[id] : id \in DOMAIN registry }
    /\ catalog = <<>> /\ sample = [used |-> 0, total |-> 0, fits |-> TRUE] /\ call = NoCallYet

\* register_alias(): ids that have a connector keep it.
WithAliases(ids, c) ==
    [ id \in DOMAIN registry \cup ids |-> IF id \in DOMAIN registry THEN registry[id] ELSE c ]

\* fetch_models(): only a list that arrives and parses counts.
FetchModels(listing) == IF listing = "models" THEN "served" ELSE "none"

\* discover(): the models the backend serves or, if it does not say, those of the
\* configuration; the backend is announced as healthy in any case.
OpenAIDiscover(listing) ==
    [models |-> IF FetchModels(listing) = "none" THEN "configured" ELSE "served",
     events |-> FALSE]

DynamoDiscover == [models |-> "configured", events |-> TRUE]

\* The stub asks over HTTP and announces KV events nobody can subscribe to.
StubDiscover(listing) == [OpenAIDiscover(listing) EXCEPT !.events = TRUE]

Inventory(engine, listing) ==
    CASE engine \in {"openai", "sglang"} -> OpenAIDiscover(listing)
      [] engine = "dynamo"               -> DynamoDiscover
      [] engine = "dynamo_http"          -> StubDiscover(listing)

SupportsKvEvents(engine) == engine = "dynamo"

\* discover_and_register_backends(): the backends of one connector.
Discover(c, listing) ==
    LET found == Inventory(Configs[c].engine, listing) IN
    /\ c \in toDiscover
    /\ toDiscover' = toDiscover \ {c}
    /\ registry' = WithAliases(Reports[c], c)
    /\ catalog' = [ id \in DOMAIN catalog \cup Reports[c] |->
                      IF id \in Reports[c]
                      THEN [by |-> c, models |-> found.models, events |-> found.events]
                      ELSE catalog[id] ]
    /\ UNCHANGED <<sample, call>>

-----------------------------------------------------------------------------
(* Metrics.                                                                  *)

\* parse_prometheus_metrics(): the last usage line counts, in thousandths, of
\* as many blocks.
PrometheusPage(lines) ==
    LET usage == { i \in 1 .. Len(lines) : lines[i].name = "usage" }
    IN  IF usage = {} THEN [used |-> 0, total |-> 0]
        ELSE [used |-> lines[Max(usage)].value, total |-> UsageBlocks]

\* map_server_info_metrics(): tokens to blocks; a missing field is zero.
ServerInfo(page) ==
    LET block == Max({page.block, 1})
    IN  [used |-> page.usedTokens \div block, total |-> page.totalTokens \div block]

\* The page gives every figure, and no more used than there is.
PageFits(page) ==
    /\ page.kind = "prometheus" =>
           Len(page.lines) \in Nat /\ \A i \in 1 .. Len(page.lines) :
               page.lines[i].name = "usage" => page.lines[i].value \in 0 .. UsageBlocks
    /\ page.kind = "server_info" =>
           page.block \in Nat /\ page.totalTokens \in Nat /\ page.usedTokens \in 0 .. page.totalTokens
    /\ page.kind = "struct" =>
           page.metrics.total \in Nat /\ page.metrics.used \in 0 .. page.metrics.total

SampleOf(page, metrics) ==
    [used |-> metrics.used, total |-> metrics.total, fits |-> PageFits(page)]

\* collect_metrics(): a page that cannot be had leaves zeros.  SGLang prefers
\* the server's own figures; a Dynamo reply that does not parse is zeros too.
OpenAIMetrics(page) == IF page.kind = "prometheus" THEN PrometheusPage(page.lines) ELSE Zeros

SglangMetrics(page) == IF page.kind = "server_info" THEN ServerInfo(page) ELSE OpenAIMetrics(page)

DynamoMetrics(page) == IF page.kind = "struct" THEN page.metrics ELSE Zeros

MetricsOf(engine, page) ==
    CASE engine \in {"openai", "dynamo_http"} -> OpenAIMetrics(page)
      [] engine = "sglang"                    -> SglangMetrics(page)
      [] engine = "dynamo"                    -> DynamoMetrics(page)

CollectMetrics(id, page) ==
    /\ toDiscover = {} /\ id \in DOMAIN catalog
    /\ EngineOf(id) = "dynamo" => page.kind # "unavailable"     \* an error, no metrics
    /\ sample' = SampleOf(page, MetricsOf(EngineOf(id), page))
    /\ UNCHANGED <<registry, catalog, toDiscover, call>>

-----------------------------------------------------------------------------
(* What is sent: the prompt as messages or as token ids, and whether the     *)
(* body names the model and the tools.  Every body asks for a stream.        *)

Body(prompt, model, tools) == [prompt |-> prompt, model |-> model, tools |-> tools]

TokenIdBody == Body("ids", TRUE, FALSE)
ChatBody(ask) == Body("messages", TRUE, ask.tools)
GenerateBody == Body("ids", FALSE, FALSE)
DynamoBody == Body("messages", TRUE, FALSE)

\* build_request_body()
RequestBody(ask, emit) == IF emit /\ ask.ids THEN TokenIdBody ELSE ChatBody(ask)

\* forward(): the body, and the parser that will read the answer.  The OpenAI
\* connector inside the SGLang one and inside the stub never emits token ids.
OpenAIForward(ask, emit) == [parser |-> "sse", body |-> RequestBody(ask, emit)]

SglangForward(ask) ==
    IF EmitTokenIds /\ ask.ids THEN [parser |-> "generate", body |-> GenerateBody]
                               ELSE OpenAIForward(ask, FALSE)

DynamoForward == [parser |-> "nats", body |-> DynamoBody]

StubForward(ask) == OpenAIForward(ask, FALSE)

Sent(engine, ask) ==
    CASE engine = "openai"      -> OpenAIForward(ask, EmitTokenIds)
      [] engine = "sglang"      -> SglangForward(ask)
      [] engine = "dynamo"      -> DynamoForward
      [] engine = "dynamo_http" -> StubForward(ask)

-----------------------------------------------------------------------------
(* Streams.  A line is one of Lines.  The tags are "text", "tool" (a         *)
(* tool call, which hides the text beside it), "done" ([DONE], or a Done     *)
(* chunk), "error" (a Dynamo error chunk) and "junk" (all a parser skips).   *)

\* A text as bytes: 0 stands for every byte that continues a character, a byte
\* other than 0 starts one.
SameCharacter(text, i, j) == \A k \in (i + 1) .. j \cup (j + 1) .. i : text[k] = 0

\* Where the end of a network chunk cuts a character.
Inside(text) == { p \in 1 .. (Len(text) - 1) : text[p + 1] = 0 }

\* U+FFFD.
Replacement == <<9, 0, 0>>

\* String::from_utf8_lossy() on each network chunk, of which those in cuts end
\* inside a character: what there is of a cut character at its first chunk's end
\* becomes one replacement, and so does every byte of it that comes later.
Decoded(text, cuts, i) ==
    LET cut == { p \in cuts : SameCharacter(text, i, p) } IN
    IF cut = {} THEN <<text[i]>>
    ELSE IF text[i] # 0 \/ (\E p \in cut : p < i) THEN Replacement ELSE <<>>

Lossy(text, cuts) == FlattenSeq([ i \in 1 .. Len(text) |-> Decoded(text, cuts, i) ])

\* The lines as the parser finds them, cut in any way.
Decodings(lines) ==
    { [ i \in 1 .. Len(lines) |->
          [lines[i] EXCEPT !.text = Lossy(@, { p \in Inside(@) : <<i, p>> \in cuts })] ] :
      cuts \in SUBSET UNION { {i} \X Inside(lines[i].text) : i \in 1 .. Len(lines) } }

\* A NATS reply is there as a whole.
Received(parser, lines) == IF parser = "nats" THEN {lines} ELSE Decodings(lines)

\* A call and its parser before the first poll.
Fresh(parser, lines, ask, body, mode) ==
    [ pc |-> "reading", ask |-> ask, body |-> body, mode |-> mode,
      text |-> <<>>, shown |-> <<>>, ends |-> 0, reply |-> "none",
      parser |-> parser, lines |-> lines,
      arrived |-> IF parser = "nats" THEN 3 * Len(lines) ELSE 0,
      net |-> IF parser = "nats" THEN "eof" ELSE "open",
      read |-> 0, emitted |-> 0, finished |-> FALSE, doneSent |-> FALSE ]

\* forward() succeeded: send errors and refusals are module Forwarding's.  How
\* the network will cut the answer is settled here.
Forward(id, ask, mode, lines) ==
    LET sent == Sent(EngineOf(id), ask) IN
    /\ toDiscover = {} /\ call.pc # "reading"
    /\ id \in DOMAIN catalog /\ lines \in Wires[sent.parser]
    /\ \E got \in Received(sent.parser, lines) :
            call' = Fresh(sent.parser, got, ask, sent.body, mode)
    /\ UNCHANGED <<registry, catalog, toDiscover, sample>>

\* The bytes of the answer.
BytesArrive ==
    /\ call.pc = "reading" /\ call.net = "open" /\ call.arrived < 3 * Len(call.lines)
    /\ call' = [call EXCEPT !.arrived = @ + 1]
    /\ UNCHANGED <<registry, catalog, toDiscover, sample>>

ConnectionEnds(how) ==
    /\ call.pc = "reading" /\ call.net = "open"
    /\ call' = [call EXCEPT !.net = how]
    /\ UNCHANGED <<registry, catalog, toDiscover, sample>>

\* The terminal chunk: `ends` counts them, 2 and 3 standing for any even and
\* odd number beyond.
Terminal(q, c) ==
    [q EXCEPT !.ends = IF @ = 3 THEN 2 ELSE @ + 1,
              !.reply = IF @ = "none" THEN c.tag ELSE @]

\* aggregate_chunk_stream(): ignores tool calls, stops at Done, fails at Error.
Aggregate(q, c) ==
    CASE c.tag = "text" -> [q EXCEPT !.text = @ \o c.text, !.shown = @ \o c.text]
      [] c.tag = "tool" -> q
      [] c.tag \in {"done", "error"} -> [Terminal(q, c) EXCEPT !.pc = "over"]

\* chunk_to_openai(): every chunk becomes an event; one with a finish reason an
\* event without its text.
ChunkToOpenAI(q, c) ==
    CASE c.tag = "text" -> [q EXCEPT !.text = @ \o c.text,
                                     !.shown = IF c.finish THEN @ ELSE @ \o c.text]
      [] c.tag = "tool" -> q
      [] c.tag \in {"done", "error"} -> Terminal(q, c)

Give(q, c) == IF q.mode = "aggregate" THEN Aggregate(q, c) ELSE ChunkToOpenAI(q, c)

\* Chunks that end a reply.
IsTerminal(c) == c.tag \in {"done", "error"}

Done == [tag |-> "done"]
Error == [tag |-> "error"]

\* Mutant: a line that cannot be parsed ends the stream.
SkippedEnds(q) == Give([q EXCEPT !.finished = TRUE, !.doneSent = TRUE], Done)

\* A line that carries no data or cannot be parsed is passed over.
Skipped(q) == q

HasLine(q) == q.arrived >= 3 * (q.read + 1)
Line(q) == q.lines[q.read + 1]
NextLine(q) == [q EXCEPT !.read = @ + 1]

\* try_parse() of the SSE parser, on one line.  (A finish reason without any
\* content makes a chunk without text, which gives the reply nothing.)
SseParse(q) ==
    IF Line(q).tag = "junk" \/ (Line(q).tag = "text" /\ Line(q).text = <<>>)
    THEN Skipped(NextLine(q))
    ELSE Give(NextLine(q), Line(q))

\* The new part of an accumulated text; one shorter than what was emitted is
\* taken to be new.
NewText(q, line) ==
    IF Len(line.text) >= q.emitted THEN SubSeq(line.text, q.emitted + 1, Len(line.text))
                                   ELSE line.text

\* Slicing the accumulated text where what was emitted ends is a panic unless
\* a character starts there.
SplitsCharacter(q, line) ==
    line.tag = "text" /\ Len(line.text) > q.emitted /\ line.text[q.emitted + 1] = 0

\* try_parse() of the /generate parser, on one line.
GenerateParse(q) ==
    LET line == Line(q)
        new  == NewText(q, line)
    IN
    CASE SplitsCharacter(q, line) -> [q EXCEPT !.pc = "over"]
      [] line.tag = "done" -> Give([NextLine(q) EXCEPT !.finished = TRUE, !.doneSent = TRUE], Done)
      [] line.tag = "text" /\ ~ SplitsCharacter(q, line) /\ (new # <<>> \/ line.finish) ->
            Give([NextLine(q) EXCEPT !.emitted = @ + Len(new), !.finished = line.finish],
                 [tag |-> "text", text |-> new, finish |-> line.finish])
      [] OTHER -> Skipped(NextLine(q))

\* poll_next() of the SSE parser: it never says that the stream is over, and
\* what lacks its newline at the end is dropped.
SsePoll(q) ==
    CASE HasLine(q)                         -> SseParse(q)
      [] ~ HasLine(q) /\ q.net = "broken"   -> Give([q EXCEPT !.net = "eof"], Error)
      [] ~ HasLine(q) /\ q.net # "broken"   -> Give(q, Done)

\* poll_next() of the /generate parser: it stops reading at a finish reason,
\* and at the end it supplies the newline and parses once more.
GeneratePoll(q) ==
    CASE q.finished /\ q.doneSent    -> [q EXCEPT !.pc = "over"]
      [] q.finished /\ ~ q.doneSent  -> Give([q EXCEPT !.doneSent = TRUE], Done)
      [] ~ q.finished /\ HasLine(q)  -> GenerateParse(q)
      [] ~ q.finished /\ ~ HasLine(q) /\ q.net = "broken" -> Give([q EXCEPT !.net = "eof"], Error)
      [] ~ q.finished /\ ~ HasLine(q) /\ q.net = "eof" ->
            IF q.arrived = 3 * q.read + 2 THEN GenerateParse(q)
            ELSE Give([q EXCEPT !.finished = TRUE, !.doneSent = TRUE], Done)

\* The chunks of a Dynamo reply: the lines that parse, and Done if the last of
\* them is not terminal.
NatsPoll(q) ==
    CASE HasLine(q) /\ Line(q).tag = "junk" -> Skipped(NextLine(q))
      [] HasLine(q) /\ Line(q).tag # "junk" ->
            Give([NextLine(q) EXCEPT !.doneSent = IsTerminal(Line(q))], Line(q))
      [] ~ HasLine(q) /\ ~ q.doneSent -> Give([q EXCEPT !.doneSent = TRUE], Done)
      [] ~ HasLine(q) /\ q.doneSent   -> [q EXCEPT !.pc = "over"]

\* One poll of the reply; a poll that finds neither a line nor an end waits.
Poll ==
    /\ call.pc = "reading"
    /\ HasLine(call) \/ call.net # "open" \/ (call.parser = "generate" /\ call.finished)
    /\ call' = CASE call.parser = "sse"      -> SsePoll(call)
                 [] call.parser = "generate" -> GeneratePoll(call)
                 [] call.parser = "nats"     -> NatsPoll(call)
    /\ UNCHANGED <<registry, catalog, toDiscover, sample>>

\* The client of a streaming reply goes away.
ClientLeaves ==
    /\ call.pc = "reading" /\ call.mode = "stream"
    /\ call' = [call EXCEPT !.pc = "over"]
    /\ UNCHANGED <<registry, catalog, toDiscover, sample>>

ConnectorNext ==
    \/ \E c \in toDiscover, listing \in {"models", "unavailable"} : Discover(c, listing)
    \/ \E id \in DOMAIN catalog, page \in Pages : CollectMetrics(id, page)
    \/ \E id \in DOMAIN catalog, ask \in Asks, mode \in {"aggregate", "stream"} :
        \E lines \in Wires[Sent(EngineOf(id), ask).parser] : Forward(id, ask, mode, lines)
    \/ BytesArrive
    \/ \E how \in {"eof", "broken"} : ConnectionEnds(how)
    \/ Poll
    \/ ClientLeaves

\* The server polls the body for as long as the client reads it, the bytes the
\* backend sent arrive, and a backend that has said everything hangs up.
ConnectorSpec ==
    /\ ConnectorInit /\ [][ConnectorNext]_connectorVars
    /\ WF_connectorVars(Poll) /\ WF_connectorVars(BytesArrive)
    /\ WF_connectorVars(call.pc = "reading" /\ call.arrived = 3 * Len(call.lines) /\ ConnectionEnds("eof"))

-----------------------------------------------------------------------------
(* Properties.                                                               *)

\* The text of the first m lines.  A line of /generate repeats the text before
\* it and goes on, or else adds to it.
Said(parser, lines, m) ==
    LET said[n \in 0 .. Len(lines)] ==
            IF n = 0 THEN <<>>
            ELSE IF lines[n].tag # "text" THEN said[n - 1]
            ELSE IF parser = "generate" /\ IsPrefix(said[n - 1], lines[n].text) THEN lines[n].text
            ELSE said[n - 1] \o lines[n].text
    IN  said[m]

\* Each line of /generate repeats the text before it, or is shorter: what the
\* parser can tell from a text that goes on.
Tellable(parser, lines) ==
    parser = "generate" => \A n \in 1 .. Len(lines) :
        lines[n].tag = "text" =>
            LET before == Said(parser, lines, n - 1) IN
            IsPrefix(before, lines[n].text) \/ Len(lines[n].text) < Len(before)

\* A line after which the backend has nothing more to say.
SaysItIsOver(q, i) ==
    q.lines[i].tag = "done" \/ (q.parser = "generate" /\ q.lines[i].finish)

\* What connector.rs and the handlers make of an answer, wherever the bytes
\* stop and the network cuts them: the text handed on is what the lines read so
\* far say as they were decoded, once and in order (of /generate, while its
\* lines still repeat each other once decoded), and an aggregated reply has all
\* of it; a reply that ends with Done has left no complete line out, unless the
\* backend had said it was over; and a parser other than SSE reports its end
\* once, unless reading failed.
StreamKeepsText ==
    call.pc # "none" =>
        /\ Tellable(call.parser, call.lines) =>
               call.text = Said(call.parser, call.lines, call.read)
        /\ call.mode = "aggregate" => call.shown = call.text
        /\ call.reply = "done" =>
               call.read >= call.arrived \div 3 \/ \E i \in 1 .. call.read : SaysItIsOver(call, i)
        /\ call.parser # "sse" /\ call.reply # "error" => call.ends < 2

\* The prompt that is sent is one the client gave, as token ids only to a parser
\* that expects them; tools go missing only with token ids and over NATS.
BodyCarriesAsk ==
    call.pc # "none" =>
        /\ call.body.prompt = "ids" => call.ask.ids /\ call.parser # "nats"
        /\ call.parser = "generate" => call.body = GenerateBody
        /\ call.ask.tools /\ ~ call.body.tools => call.body.prompt = "ids" \/ call.parser = "nats"

\* Every backend the store knows has a connector, one that reported it; one
\* announced with KV events has a connector that delivers them, unless it is the
\* stub; and the figures collected from a page that fits show no more blocks used
\* than there are.
ConnectorContract ==
    /\ StreamKeepsText
    /\ BodyCarriesAsk
    /\ \A id \in DOMAIN catalog :
        /\ id \in DOMAIN registry /\ id \in Reports[registry[id]]
        /\ LET engine == Configs[catalog[id].by].engine IN
           catalog[id].events => SupportsKvEvents(engine) \/ engine = "dynamo_http"
    /\ sample.fits => sample.used <= sample.total

\* A streamed reply ends (handlers.rs:849: "Finally `data: [DONE]\n\n` is
\* sent"; connector.rs:56: "The stream must terminate with Done or Error"),
\* whether or not the client leaves.
StreamedRepliesEnd == call.pc = "reading" ~> call.pc = "over"

=============================================================================
