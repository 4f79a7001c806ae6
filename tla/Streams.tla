------------------------------- MODULE Streams -------------------------------
(***************************************************************************)
(* One answer of the data plane, from the upstream event stream to what    *)
(* the client receives (proxy/kiro.go CallKiroAPI and its parser,          *)
(* proxy/handler.go handleClaudeStream, handleOpenAIStream and the two     *)
(* buffered handlers).                                                     *)
(*                                                                         *)
(* A request tries up to MaxAttempts accounts; a call tries the account's  *)
(* endpoints, each up to StreamAttempts times.  Every HTTP 200 starts a    *)
(* new upstream stream, numbered here so that a piece of output can be     *)
(* traced to the stream it came from.  Text is a sequence of atoms: "x" is *)
(* an ordinary character, "o1" "o2" the two halves of <thinking>, "c1"     *)
(* "c2" those of </thinking>; chunks cut the text anywhere, through a tag  *)
(* as well.  HoldText, HoldThought and Keep are the 50, 20 and 15 runes of *)
(* the code, in atoms.                                                     *)
(***************************************************************************)
EXTENDS Integers, Sequences, FiniteSets, SequencesExt

CONSTANTS MaxAttempts,     \* maxAccountRetryAttempts
          StreamAttempts,  \* maxStreamAttemptsPerEndpoint
          NumEndpoints,    \* bound: endpoints of an account
          HoldText, HoldThought, Keep,
          Chunks,          \* what one text event may carry
          ToolEvents,      \* what one toolUseEvent may carry
          MaxEvents        \* bound: upstream events over the whole request

ASSUME StreamsAssumption ==
    /\ {MaxAttempts, StreamAttempts, NumEndpoints, MaxEvents} \subseteq Nat \ {0}
    /\ {HoldText, HoldThought, Keep} \subseteq Nat \ {0}
    /\ Keep <= HoldText /\ Keep <= HoldThought
    /\ Chunks \subseteq Seq(STRING) \ {<<>>}
    /\ ToolEvents \subseteq [id : STRING, name : STRING, stop : BOOLEAN,
                             input : {"", "open", "close", "object"}]

VARIABLES
    ask,       \* the request: its client dialect, thinking, and thinking style
    call,      \* where the request is: account attempt, endpoint, try, and
               \* the parser's state of the stream being read
    sent,      \* history: the output events of the stream being read
    view,      \* the handler's state of this account attempt
    wire,      \* history: what the client has received
    spent      \* history: [events, streams] counted, and the streams charged

streamVars == <<ask, call, sent, view, wire, spent>>

\* The two streaming dialects with their styles of showing a thought, and the
\* buffered handlers.  Without thinking the style is never looked at.
\* `endpoints' is how many endpoints its accounts have (one for an API key
\* account or without fallback).
Asks == LET Shapes(clients, thinking, styles) ==
                [client : clients, thinking : {thinking}, style : styles,
                 endpoints : 1..NumEndpoints]
        IN  Shapes({"claude"}, TRUE, {"block", "omit", "tags", "plain"})
            \cup Shapes({"openai"}, TRUE, {"tags", "field"})
            \cup Shapes({"claude", "openai", "buffered"}, FALSE, {"none"})

Ended == {"done", "broken", "refused"}

NoTool == [id |-> "", name |-> "", made |-> FALSE, input |-> "none"]

\* The variables an account attempt declares afresh.  `begun' is set by the
\* first byte of the answer (messageStarted, responseStarted); messageStarted
\* outlives the attempt, and an attempt that set it is never followed by
\* another.
FreshView(begun) ==
    [begun |-> begun, next |-> 0, block |-> -1, type |-> "", buffer |-> <<>>,
     inThinking |-> FALSE, drop |-> FALSE, source |-> "unknown",
     started |-> FALSE, open |-> FALSE, content |-> <<>>,
     tools |-> <<>>, out |-> <<>>]

StreamsInit ==
    /\ ask \in Asks
    /\ call = [at |-> "pick", attempt |-> 0, endpoint |-> 1, try |-> 1,
               emitted |-> FALSE, sawOutput |-> FALSE, tool |-> NoTool]
    /\ sent = <<>>
    /\ view = FreshView(FALSE)
    /\ wire = <<>>
    /\ \E used \in 0..MaxEvents : spent = [events |-> used, streams |-> 0, charged |-> <<>>]

(***************************************************************************)
(* What the handler writes.  The operators below take the state v of the   *)
(* attempt and return it with the client events appended to v.out.         *)
(***************************************************************************)
Write(v, event) == [v EXCEPT !.out = Append(@, event)]

Event(ev, index, part, items) ==
    [ev |-> ev, index |-> index, part |-> part, items |-> items]

EnsureMessageStart(v) ==
    IF v.begun THEN v
    ELSE [Write(v, Event("message_start", -1, "", <<>>)) EXCEPT !.begun = TRUE]

CloseActiveBlock(v) ==
    IF v.block < 0 THEN v
    ELSE [Write(v, Event("block_stop", v.block, "", <<>>))
            EXCEPT !.block = -1, !.type = ""]

StartContentBlock(v, type) ==
    IF v.type = type THEN v
    ELSE LET w == CloseActiveBlock(EnsureMessageStart(v))
         IN  [Write(w, Event("block_start", w.next, type, <<>>))
                EXCEPT !.block = w.next, !.type = type, !.next = @ + 1]

Mark(ch) == [ch |-> ch, of |-> 0, n |-> 0]

\* <think> before the first piece of a thought, </think> after the last.
Marked(items, state) ==
    (IF state = 1 THEN <<Mark("open")>> ELSE <<>>) \o items
    \o (IF state = 3 THEN <<Mark("shut")>> ELSE <<>>)

\* sendText of handleClaudeStream.  State 0 is answer text; 1, 2 and 3 are
\* the start, the middle and the end of a thought, which is a block of its own
\* unless the style makes it text; "omit" shows the block and not what is in it.
SendText(v, items, state) ==
    LET own   == state > 0 /\ ask.style \in {"block", "omit"}
        type  == IF own THEN "thinking" ELSE "text"
        shown == CASE state = 0 \/ ask.style \notin {"tags", "omit"} -> items
                   [] state # 0 /\ ask.style = "tags" -> Marked(items, state)
                   [] state # 0 /\ ask.style = "omit" -> <<>>
        w     == IF shown # <<>> \/ (ask.style = "omit" /\ state \in {1, 3})
                 THEN StartContentBlock(v, type) ELSE v
        part  == IF state = 0 THEN "answer" ELSE "thought"
        u     == IF shown = <<>> THEN w
                 ELSE Write(w, Event("block_delta", w.block, part, shown))
    IN  IF state > 0 /\ ~ask.thinking THEN v
        ELSE IF own /\ state = 3 /\ u.type = "thinking" THEN CloseActiveBlock(u) ELSE u

\* sendChunk of handleOpenAIStream: no blocks, one chunk per piece.
SendChunk(v, items, state) ==
    LET text == IF state > 0 /\ ask.style = "tags" THEN Marked(items, state) ELSE items
    IN  IF \/ text = <<>>
           \/ state > 0 /\ ~ask.thinking
           \/ state = 2 /\ items = <<>>
        THEN v
        ELSE [Write(v, Event("chunk", -1, IF state = 0 THEN "answer" ELSE "thought", text))
                EXCEPT !.begun = TRUE]

Send(v, items, state) ==
    IF ask.client = "openai" THEN SendChunk(v, items, state) ELSE SendText(v, items, state)

(***************************************************************************)
(* Splitting the text into answer and thought.                             *)
(***************************************************************************)
Ch(s, i) == s[i].ch

\* strings.Index of a tag; 0 when it is not there.
Find(s, first, second) ==
    LET at == {i \in 1..(Len(s) - 1) : Ch(s, i) = first /\ Ch(s, i + 1) = second}
    IN  IF at = {} THEN 0 ELSE CHOOSE i \in at : \A j \in at : i <= j

From(s, i) == SubSeq(s, i, Len(s))
UpTo(s, i) == SubSeq(s, 1, i)

\* allowTagSource and allowReasoningSource: the first source of thoughts wins.
TagAllowed(v) == v.source # "reasoning"
ReasoningAllowed(v) == v.source # "tag"

\* A whole thought, or what is left of one already started.
EndThought(v, items) ==
    IF v.drop THEN v
    ELSE Send(IF v.started THEN v ELSE Send(v, items, 1),
              IF v.started THEN items ELSE <<>>, 3)

LeaveThought(v) == [v EXCEPT !.inThinking = FALSE, !.drop = FALSE, !.started = FALSE]

\* Mutation: Nothing is held back for a tag that is still arriving.
SafeAll(v, force) == Len(v.buffer)

\* The last Keep atoms stay in the buffer: they may be the first half of a tag.
Safe(v, force) == IF force THEN Len(v.buffer) ELSE Len(v.buffer) - Keep

TakeText(v, force) ==
    LET n == Safe(v, force)
    IN  IF (force \/ Len(v.buffer) > HoldText) /\ n > 0
        THEN [Send(v, UpTo(v.buffer, n), 0) EXCEPT !.buffer = From(@, n + 1)]
        ELSE v

TakeThought(v, force) ==
    LET n == Safe(v, FALSE)
    IN  IF force
        THEN LeaveThought([(IF v.buffer = <<>> THEN v ELSE EndThought(v, v.buffer))
                             EXCEPT !.buffer = <<>>])
        ELSE IF Len(v.buffer) > HoldThought /\ n > 0
        THEN [(IF v.drop THEN v
               ELSE [Send(v, UpTo(v.buffer, n), IF v.started THEN 2 ELSE 1)
                       EXCEPT !.started = TRUE])
                EXCEPT !.buffer = From(@, n + 1)]
        ELSE v

\* Past the next tag: of what comes before it an answer is sent, or a thought
\* ended.
PastTag(v, at) ==
    LET before == UpTo(v.buffer, at - 1)
        rest   == From(v.buffer, at + 2)
    IN  IF v.inThinking
        THEN LeaveThought([EndThought(v, before) EXCEPT !.buffer = rest])
        ELSE [(IF at > 1 THEN Send(v, before, 0) ELSE v)
                EXCEPT !.buffer = rest,
                       !.inThinking = TRUE,
                       !.drop = ~TagAllowed(v),
                       !.source = IF @ = "unknown" THEN "tag" ELSE @,
                       !.started = FALSE]

NextTag(v) ==
    IF v.inThinking THEN Find(v.buffer, "c1", "c2") ELSE Find(v.buffer, "o1", "o2")

\* The loop of processClaudeText and of processText: every tag is passed, and
\* of what is left after the last one as much is taken as is safe.
Drain(v, force) ==
    LET past[n \in 0..Len(v.buffer)] ==
            IF n = 0 THEN v
            ELSE IF NextTag(past[n - 1]) = 0 THEN past[n - 1]
            ELSE PastTag(past[n - 1], NextTag(past[n - 1]))
        last == past[Len(v.buffer)]
    IN  IF last.inThinking THEN TakeThought(last, force) ELSE TakeText(last, force)

CloseEventThought(v) ==
    IF v.open THEN [Send(v, <<>>, 3) EXCEPT !.open = FALSE, !.started = FALSE] ELSE v

Text(v, items, force) ==
    LET w == CloseEventThought(v)
    IN  Drain([w EXCEPT !.buffer = @ \o items], force)

Reasoning(v, items) ==
    IF ~ask.thinking \/ ~ReasoningAllowed(v) THEN v
    ELSE IF v.started THEN Send([v EXCEPT !.source = "reasoning"], items, 2)
    ELSE [Send([v EXCEPT !.source = "reasoning"], items, 1)
            EXCEPT !.started = TRUE, !.open = TRUE]

\* OnToolUse: what is held back comes first.
ClaudeToolUse(v, tool) ==
    LET w == CloseActiveBlock(EnsureMessageStart(v))
        a == Write(w, Event("block_start", w.next, "tool", <<>>))
        b == Write(a, Event("block_delta", w.next, "answer", <<tool>>))
    IN  [Write(b, Event("block_stop", w.next, "", <<>>))
           EXCEPT !.next = @ + 1]

OpenAIToolUse(v, tool) ==
    [Write(v, Event("chunk", -1, "answer", <<tool>>)) EXCEPT !.begun = TRUE]

OnToolUse(v, tool) ==
    IF ask.client = "buffered" THEN [v EXCEPT !.tools = Append(@, tool)]
    ELSE LET w == Text(v, <<>>, TRUE)
         IN  IF ask.client = "claude" THEN ClaudeToolUse(w, tool) ELSE OpenAIToolUse(w, tool)

OnText(v, items, isThinking) ==
    IF ask.client = "buffered" THEN [v EXCEPT !.content = IF isThinking THEN @ ELSE @ \o items]
    ELSE IF isThinking THEN Reasoning(v, items) ELSE Text(v, items, FALSE)

\* extractThinkingFromContent: closed <thinking> spans are cut out one by one,
\* each search starting over; an unclosed tag stays in the content.
ExtractThinking(s) ==
    LET cut[n \in 0..Len(s)] ==
            IF n = 0 THEN s
            ELSE LET t == cut[n - 1]
                     i == Find(t, "o1", "o2")
                     j == IF i = 0 THEN 0 ELSE Find(From(t, i), "c1", "c2")
                 IN  IF j = 0 THEN t ELSE UpTo(t, i - 1) \o From(t, i + j + 1)
    IN  cut[Len(s)]

\* The end of a stream that was read to its end.
FinishClaude(v) ==
    LET w == EnsureMessageStart(CloseActiveBlock(v))
    IN  Write(Write(w, Event("message_delta", -1, "", <<>>)),
              Event("message_stop", -1, "", <<>>))

FinishOpenAI(v) == Write(v, Event("finish", -1, "", <<>>))

FinishBuffered(v) ==
    Write(v, Event("response", -1, "answer", ExtractThinking(v.content) \o v.tools))

Finish(v) ==
    IF ask.client = "buffered" THEN FinishBuffered(v)
    ELSE LET w == CloseEventThought(Text(v, <<>>, TRUE))
         IN  IF ask.client = "claude" THEN FinishClaude(w) ELSE FinishOpenAI(w)

\* The events go out as they are written.
Flush(v) ==
    /\ wire' = wire \o v.out
    /\ view' = [v EXCEPT !.out = <<>>]

(***************************************************************************)
(* Choosing an account.                                                    *)
(***************************************************************************)
\* No account is left: the client gets an error response, and since `begun' is
\* false here nothing else.
NoAccountLeft ==
    /\ call.at = "pick"
    /\ call' = [call EXCEPT !.at = "refused"]
    /\ wire' = Append(wire, Event("http_error", -1, "", <<>>))
    /\ UNCHANGED <<ask, sent, view, spent>>

AccountPicked ==
    /\ call.at = "pick" /\ call.attempt < MaxAttempts
    /\ call' = [call EXCEPT !.at = "post", !.attempt = @ + 1, !.endpoint = 1, !.try = 1]
    /\ view' = FreshView(view.begun)
    /\ UNCHANGED <<ask, sent, wire, spent>>

\* ensureValidToken fails: the account is excluded and the next one tried.
TokenFails ==
    /\ call.at = "pick" /\ call.attempt < MaxAttempts
    /\ call' = [call EXCEPT !.attempt = @ + 1]
    /\ UNCHANGED <<ask, sent, view, wire, spent>>

(***************************************************************************)
(* CallKiroAPI.                                                            *)
(***************************************************************************)
\* The error branch of the handlers after CallKiroAPI returned an error: the
\* next account as long as the client has nothing, an error event otherwise.
\* The buffered handlers have written nothing and always go on.
CallFails ==
    IF view.begun
    THEN /\ call' = [call EXCEPT !.at = "broken"]
         /\ wire' = Append(wire, Event("error", -1, "", <<>>))
    ELSE call' = [call EXCEPT !.at = "pick"] /\ UNCHANGED wire

NextEndpoint ==
    IF call.endpoint < ask.endpoints
    THEN /\ call' = [call EXCEPT !.at = "post", !.endpoint = @ + 1, !.try = 1]
         /\ UNCHANGED wire
    ELSE CallFails

\* The endpoint cannot be reached, or answers 429 or another error status that
\* is not about the account.
EndpointFails ==
    /\ call.at = "post"
    /\ NextEndpoint
    /\ UNCHANGED <<ask, sent, view, spent>>

\* A timeout or a cancellation before the response, or 401, 402 or 403.
CallRefused ==
    /\ call.at = "post"
    /\ CallFails
    /\ UNCHANGED <<ask, sent, view, spent>>

StreamOpens ==
    /\ call.at = "post"
    /\ call' = [call EXCEPT !.at = "read", !.emitted = FALSE, !.sawOutput = FALSE,
                            !.tool = NoTool]
    /\ sent' = <<>>
    /\ spent' = [spent EXCEPT !.streams = @ + 1]
    /\ UNCHANGED <<ask, view, wire>>

(***************************************************************************)
(* parseEventStreamTracked.                                                *)
(***************************************************************************)
\* The atoms of a chunk, each with its stream and its place in it.
Atoms(chunk) ==
    LET n == Len(FlattenSeq([i \in 1..Len(sent) |-> sent[i].items]))
    IN  [i \in 1..Len(chunk) |-> [ch |-> chunk[i], of |-> spent.streams, n |-> n + i]]

Reading == call.at = "read" /\ spent.events < MaxEvents

TextArrives ==
    /\ Reading
    /\ \E chunk \in Chunks, isThinking \in BOOLEAN :
          LET items == Atoms(chunk)
          IN  /\ isThinking => chunk = <<"x">>
              /\ sent' = Append(sent, [kind |-> IF isThinking THEN "reasoning" ELSE "text",
                                       items |-> items])
              /\ Flush(OnText(view, items, isThinking))
    /\ call' = [call EXCEPT !.emitted = TRUE, !.sawOutput = TRUE]
    /\ spent' = [spent EXCEPT !.events = @ + 1]
    /\ UNCHANGED ask

\* The JSON of a tool's input as it accumulates: an "open" fragment, then a
\* "close" one; an object replaces what was there.
Accumulate(input, fragment) ==
    CASE fragment = "" -> input
      [] fragment = "object" -> "whole"
      [] fragment = "open" /\ input = "empty" -> "partial"
      [] fragment = "close" /\ input = "partial" -> "whole"
      [] OTHER -> "broken"

Finishable(tool) == tool.input \in {"empty", "whole"}

ToolItem(tool) == [ch |-> tool.id, of |-> spent.streams, n |-> 0]

\* handleToolUseEvent: whether the event finishes the tool at hand because it
\* names another, by its id or, without an id, by its name.  An id that comes
\* late, under the same name, is the one of a tool that was given a made-up id.
StartsAnother(tool, e) ==
    /\ tool # NoTool /\ e.name # ""
    /\ IF e.id = "" THEN tool.name # e.name
       ELSE tool.id # e.id /\ ~(tool.made /\ tool.name = e.name)

\* The tool the event is about.  An event without a name is about the tool at
\* hand whatever its id, or about none.
Collecting(tool, e) ==
    IF e.name = "" THEN tool
    ELSE IF tool = NoTool \/ StartsAnother(tool, e)
    THEN [id |-> IF e.id = "" THEN "made" ELSE e.id, name |-> e.name, made |-> e.id = "",
          input |-> "empty"]
    ELSE IF e.id # "" THEN [tool EXCEPT !.id = e.id, !.made = FALSE]
    ELSE tool

Receiving(tool, e) ==
    LET at == Collecting(tool, e)
    IN  IF at = NoTool THEN NoTool ELSE [at EXCEPT !.input = Accumulate(@, e.input)]

ToolsShown(e) ==
    LET old  == call.tool
        tool == Receiving(old, e)
        done == StartsAnother(old, e)
        ends == e.stop /\ tool # NoTool /\ Finishable(tool)
    IN  IF done /\ ~Finishable(old) THEN <<>>
        ELSE (IF done THEN <<ToolItem(old)>> ELSE <<>>)
             \o (IF ends THEN <<ToolItem(tool)>> ELSE <<>>)

ShowTools(tools) ==
    LET shown[n \in 0..Len(tools)] ==
            IF n = 0 THEN view ELSE OnToolUse(shown[n - 1], tools[n])
    IN  /\ sent' = sent \o [i \in DOMAIN tools |-> [kind |-> "tool", items |-> <<tools[i]>>]]
        /\ Flush(shown[Len(tools)])

\* The parser returns errIncompleteKiroToolInput when the input of a finished
\* tool is not JSON; whatever it returns an error for is handled by StreamCut.
ToolArrives ==
    /\ Reading
    /\ \E e \in ToolEvents :
          LET tool == Receiving(call.tool, e)
              bad  == \/ StartsAnother(call.tool, e) /\ ~Finishable(call.tool)
                      \/ e.stop /\ tool # NoTool /\ ~Finishable(tool)
              some == ToolsShown(e) # <<>>
          IN  /\ ShowTools(ToolsShown(e))
              /\ call' = [call EXCEPT !.at = IF bad THEN "cut" ELSE @,
                                      !.tool = IF e.stop THEN NoTool ELSE tool,
                                      !.emitted = @ \/ some,
                                      !.sawOutput = @ \/ some]
    /\ spent' = [spent EXCEPT !.events = @ + 1]
    /\ UNCHANGED ask

\* The connection breaks or the server goes away in the middle of the stream.
ReadBreaks ==
    /\ call.at = "read"
    /\ call' = [call EXCEPT !.at = "cut"]
    /\ UNCHANGED <<ask, sent, view, wire, spent>>

\* The read runs into the client's timeout: not retried, whatever was emitted.
ReadTimesOut ==
    /\ call.at = "read"
    /\ CallFails
    /\ UNCHANGED <<ask, sent, view, spent>>

\* The stream ends after a whole event: the tool still open is finished, and a
\* stream without any output is an error.
StreamEnds ==
    /\ call.at = "read"
    /\ LET tool == call.tool
           last == tool # NoTool /\ Finishable(tool)
           v    == IF last THEN OnToolUse(view, ToolItem(tool)) ELSE view
           ok   == (call.sawOutput \/ last) /\ (tool = NoTool \/ last)
       IN  /\ sent' = IF last THEN Append(sent, [kind |-> "tool", items |-> <<ToolItem(tool)>>])
                      ELSE sent
           /\ Flush(IF ok THEN Finish(v) ELSE v)
           /\ call' = [call EXCEPT !.at = IF ok THEN "done" ELSE "cut"]
           /\ spent' = IF ok THEN [spent EXCEPT !.charged = Append(@, spent.streams)] ELSE spent
    /\ UNCHANGED ask

\* Mutation: The guard on emitted output is dropped.
StreamCutRetried ==
    /\ call.at = "cut"
    /\ IF call.try < StreamAttempts
       THEN call' = [call EXCEPT !.at = "post", !.try = @ + 1] /\ UNCHANGED wire
       ELSE NextEndpoint
    /\ UNCHANGED <<ask, sent, view, spent>>

\* A stream that failed is asked for again, on the same endpoint and then on
\* the next, only if none of its output reached the handler.
StreamCut ==
    /\ call.at = "cut"
    /\ IF call.emitted THEN CallFails
       ELSE IF call.try < StreamAttempts
       THEN call' = [call EXCEPT !.at = "post", !.try = @ + 1] /\ UNCHANGED wire
       ELSE NextEndpoint
    /\ UNCHANGED <<ask, sent, view, spent>>

StreamsNext ==
    \/ NoAccountLeft \/ AccountPicked \/ TokenFails
    \/ EndpointFails \/ CallRefused \/ StreamOpens
    \/ TextArrives \/ ToolArrives \/ ReadBreaks \/ ReadTimesOut \/ StreamEnds
    \/ StreamCut

StreamsSpec == StreamsInit /\ [][StreamsNext]_streamVars

(***************************************************************************)
(* What must hold.                                                         *)
(***************************************************************************)
\* The values the variables take; the bounds of one request.
StreamsTypeOK ==
    /\ ask \in Asks
    /\ call.at \in {"pick", "post", "read", "cut"} \cup Ended
    /\ call.attempt \in 0..MaxAttempts /\ call.endpoint \in 1..NumEndpoints
    /\ call.try \in 1..StreamAttempts
    /\ spent.events \in 0..MaxEvents
    /\ spent.streams <= MaxAttempts * NumEndpoints * StreamAttempts
    /\ view.out = <<>>
    /\ view.begun => wire # <<>> /\ ask.client # "buffered"

Shown == FlattenSeq([i \in DOMAIN wire |-> wire[i].items])
IsMark(item) == item.of = 0

\* Whatever fails and is tried again - a stream on the same endpoint, the next
\* endpoint, the next account - the client's answer is the output of one
\* upstream stream: two attempts are never concatenated ("retrying after their
\* callback mutated state would concatenate two attempts", kiro.go), and a
\* charge is made once, for the stream shown.
AnswerFromOneStream ==
    LET shownOf == {Shown[i].of : i \in {k \in DOMAIN Shown : ~IsMark(Shown[k])}}
    IN  /\ Cardinality(shownOf) <= 1
        /\ Len(spent.charged) <= 1
        /\ call.at = "done" => \A n \in shownOf : spent.charged = <<n>>

Opens  == {i \in DOMAIN wire : wire[i].ev = "block_start"}
Closes == {i \in DOMAIN wire : wire[i].ev = "block_stop"}
Positions(ev) == {i \in DOMAIN wire : wire[i].ev = ev}

\* What the Claude client assembles is well formed: the message starts once and
\* before its blocks, the blocks are numbered 0, 1, 2 ..., do not overlap,
\* every delta falls into the block that is open, and a message that stops has
\* no block open.  In the tag style every <think> is closed by </think>.
BlocksWellFormed ==
    LET OpenAt(i) == {k \in Opens : k <= i /\ ~\E c \in Closes : k < c /\ c < i}
    IN  /\ Cardinality(Positions("message_start")) <= 1
        /\ \A i \in Opens : /\ wire[1].ev = "message_start"
                            /\ wire[i].index = Cardinality({k \in Opens : k < i})
                            /\ OpenAt(i) = {i}
        /\ \A i \in Closes \cup Positions("block_delta") :
              \E k \in OpenAt(i) : OpenAt(i) = {k} /\ wire[k].index = wire[i].index
        /\ Positions("message_stop") # {} =>
              Cardinality(Closes) = Cardinality(Opens)
        /\ LET marks == {i \in DOMAIN Shown : IsMark(Shown[i])}
           IN  /\ \A i \in marks :
                     Shown[i].ch = IF Cardinality({k \in marks : k < i}) % 2 = 0
                                   THEN "open" ELSE "shut"
               /\ call.at = "done" => Cardinality(marks) % 2 = 0

\* What a client of the Claude or the OpenAI API assembles is one answer, whole
\* in form, whatever breaks on the way.
OneWellFormedAnswer == AnswerFromOneStream /\ BlocksWellFormed

\* The answer of a stream read one character at a time: everything outside
\* <thinking> spans, and the tools, in the order they arrived.  A tool ends
\* the span it falls into.
Split(s, item) ==
    IF item.n = 0 THEN [s EXCEPT !.out = Append(@, item), !.thought = FALSE, !.prev = ""]
    ELSE IF s.thought
    THEN IF item.ch = "c2" /\ s.prev = "c1" THEN [s EXCEPT !.thought = FALSE, !.prev = ""]
         ELSE [s EXCEPT !.prev = item.ch]
    ELSE IF item.ch = "o2" /\ s.prev = "o1"
         THEN [out |-> Front(s.out), thought |-> TRUE, prev |-> ""]
         ELSE [s EXCEPT !.out = Append(@, item), !.prev = item.ch]

SplitAll(s, items) ==
    LET split[i \in 0..Len(items)] ==
            IF i = 0 THEN s ELSE Split(split[i - 1], items[i])
    IN  split[Len(items)]

TextAndTools(events) ==
    FlattenSeq([i \in DOMAIN events |->
                   IF events[i].kind = "reasoning" THEN <<>> ELSE events[i].items])

AnswerOf(events) ==
    SplitAll([out |-> <<>>, thought |-> FALSE, prev |-> ""], TextAndTools(events)).out

ShownAnswer ==
    FlattenSeq([i \in DOMAIN wire |-> IF wire[i].part = "answer" THEN wire[i].items ELSE <<>>])

\* However the upstream cuts its text into chunks, through a tag as well, and
\* however much of it is held back meanwhile, a streaming client receives the
\* answer text and the tools exactly once and in their order: nothing is lost,
\* repeated, or shown as a thought, and no thought as an answer.
AnswerIsIntact ==
    ask.client # "buffered" =>
        /\ IsPrefix(ShownAnswer, AnswerOf(sent))
        /\ call.at = "done" => ShownAnswer = AnswerOf(sent)
=============================================================================
