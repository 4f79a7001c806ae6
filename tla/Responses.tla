------------------------------ MODULE Responses ------------------------------
(***************************************************************************)
(* The Responses API of the data plane (proxy/responses_handler.go,        *)
(* responses_store.go, responses_history.go, responses_input.go): turns    *)
(* that continue one another through previous_response_id, the item events *)
(* a streaming client receives, and the documents kept on disk.            *)
(*                                                                         *)
(* Content is a sequence of atoms.  Of the answer's text, "x" is visible,  *)
(* "s" is white space and "t" a whole <thinking> span; calls are numbered. *)
(***************************************************************************)
EXTENDS Integers, Sequences, FiniteSets, SequencesExt

CONSTANTS TurnAsks,       \* what a turn may ask: instructions, input, stream, store
          TextPieces,     \* what a text event of the upstream carries
          ReplyAttempts,  \* maxAccountRetryAttempts
          Lifetime,       \* responsesDefaultTTL, in days
          MaxDepth,       \* maxResponsesHistoryDepth
          MaxTurns, MaxPieces, MaxDay  \* bounds

ASSUME ResponsesAssumption ==
    /\ {ReplyAttempts, MaxDepth, MaxTurns, MaxPieces} \subseteq Nat \ {0}
    /\ {Lifetime, MaxDay} \subseteq Nat
    /\ TextPieces \subseteq {"x", "s", "t"}

VARIABLES
    docs,    \* the stored responses, by id; ids are numbered by turn
    turn,    \* the turn being served
    reply,   \* the variables of the account attempt being made
    heard,   \* history: the events the client of this turn received
    spoken,  \* history: of every completed turn, what was said in it
    day, pieces

replyVars == <<docs, turn, reply, heard, spoken, day, pieces>>

NoDoc == [prev |-> -1]
NoTurn == [at |-> "idle", id |-> 0, prev |-> 0, attempt |-> 0, started |-> FALSE, day |-> 0,
           ask |-> <<>>, messages |-> <<>>]

FreshReply == [text |-> <<>>, tools |-> <<>>, open |-> FALSE, index |-> 0]

(***************************************************************************)
(* The input of a turn, as messages.                                       *)
(***************************************************************************)
\* A message: its role, its content and its tool calls.
Message(role, content, calls) == [role |-> role, content |-> content, calls |-> calls]

\* The loose text and image parts collected so far become a user message.
FlushPendingUser(acc) ==
    IF acc.pending = <<>> THEN acc
    ELSE [messages |-> Append(acc.messages, Message("user", acc.pending, <<>>)),
          pending |-> <<>>]

AddMessage(acc, message) ==
    [FlushPendingUser(acc) EXCEPT !.messages = Append(@, message)]

OnlyCalls(message) ==
    message.role = "assistant" /\ message.calls # <<>> /\ message.content = <<>>

\* Consecutive calls stay in one assistant message.
AddCall(acc, call) ==
    LET flushed == FlushPendingUser(acc)
        n == Len(flushed.messages)
    IN  IF n > 0 /\ OnlyCalls(flushed.messages[n])
        THEN [flushed EXCEPT !.messages[n].calls = Append(@, call)]
        ELSE AddMessage(flushed, Message("assistant", <<>>, <<call>>))

\* One item of the input.  A message without content or text yields nothing,
\* one whose content is an empty string an empty message; either ends the
\* user's parts before it.  An unknown item without a role is skipped.
ConvertItem(acc, item) ==
    LET role == IF item.role = "" THEN "user" ELSE item.role
    IN  CASE item.type = "function_call_output" ->
                AddMessage(acc, Message("tool", item.content, <<>>))
          [] item.type = "function_call" -> AddCall(acc, Head(item.content))
          [] item.type \in {"input_text", "input_image"} ->
                [acc EXCEPT !.pending = @ \o item.content]
          [] item.type = "output_text" ->
                IF item.content = <<>> THEN FlushPendingUser(acc)
                ELSE AddMessage(acc, Message("assistant", item.content, <<>>))
          [] OTHER ->
                IF item.type # "message" /\ item.role = "" THEN acc
                ELSE IF item.bare THEN FlushPendingUser(acc)
                ELSE AddMessage(acc, Message(role, item.content, <<>>))

ConvertItems(items) ==
    FlushPendingUser(FoldLeft(ConvertItem, [messages |-> <<>>, pending |-> <<>>], items)).messages

\* A string is one user message, a single object a list of one item.
ParseInput(input) == IF input.shape = "other" THEN <<>> ELSE ConvertItems(input.items)

(***************************************************************************)
(* The turns before it.                                                    *)
(***************************************************************************)
Expired(doc) == day - doc.at > Lifetime

Loadable(id) == id \in DOMAIN docs /\ docs[id] # NoDoc /\ ~Expired(docs[id])

\* Mutation: The walk's newest-first order is kept.
AncestorChainNewestFirst(prev) ==
    LET walk[depth \in 0..MaxDepth] ==
            IF depth = 0 THEN <<prev>>
            ELSE LET older == docs[Last(walk[depth - 1])].prev
                 IN  IF Loadable(older) THEN Append(walk[depth - 1], older) ELSE walk[depth - 1]
    IN  walk[MaxDepth]

\* Backwards along previous_response_id, until the first turn, a link that is
\* gone or a link already seen; oldest first.
AncestorChain(prev) ==
    LET walk[depth \in 0..MaxDepth] ==
            IF depth = 0 THEN <<prev>>
            ELSE LET seen  == walk[depth - 1]
                     older == docs[Last(seen)].prev
                 IN  IF Loadable(older) /\ ~Contains(seen, older)
                     THEN Append(seen, older) ELSE seen
    IN  Reverse(walk[MaxDepth])

System(instructions) ==
    IF instructions = <<>> THEN <<>> ELSE <<Message("system", instructions, <<>>)>>

\* An assistant message without text is left out; every call is a message of
\* its own.
OutputToMessages(output) ==
    FlattenSeq([i \in DOMAIN output |->
        LET item == output[i]
        IN  IF item.type = "function_call" THEN <<Message("assistant", <<>>, item.content)>>
            ELSE IF item.content = <<>> THEN <<>>
            ELSE <<Message("assistant", item.content, <<>>)>>])

ExpandHistory(prev) ==
    LET chain == AncestorChain(prev)
    IN  FlattenSeq([i \in DOMAIN chain |->
            LET doc == docs[chain[i]]
            IN  System(doc.instructions) \o ParseInput(doc.input)
                \o OutputToMessages(doc.output)])

FinalMessages(ask, prev) ==
    (IF prev = 0 THEN <<>> ELSE ExpandHistory(prev))
    \o System(ask.instructions) \o ParseInput(ask.input)

Refused(ask, prev) ==
    \/ ask.input.shape = "other"
    \/ \A i \in DOMAIN FinalMessages(ask, prev) : FinalMessages(ask, prev)[i].role # "user"

\* loadResponse deletes the documents it finds expired; it is not asked for what
\* lies beyond the depth.
AfterLoading(prev) ==
    [i \in DOMAIN docs |->
        IF /\ docs[i] # NoDoc /\ Expired(docs[i])
           /\ prev # 0
           /\ \/ i = prev
              \/ /\ Loadable(prev) /\ Len(AncestorChain(prev)) <= MaxDepth
                 /\ i = docs[Head(AncestorChain(prev))].prev
        THEN NoDoc ELSE docs[i]]

(***************************************************************************)
(* handleOpenAIResponses.                                                  *)
(***************************************************************************)
Say(ev, index, content) ==
    [ev |-> ev, index |-> index, content |-> content, attempt |-> turn.attempt]

Idle == turn.at \in {"idle", "completed", "failed", "rejected"}

\* A turn that cannot be continued, or has nothing to say, is refused before
\* anything is sent or stored.  Its client continues any earlier turn, also
\* one that was never stored.
TurnBegins ==
    /\ Idle /\ turn.id < MaxTurns
    /\ \E ask \in TurnAsks, prev \in 0..turn.id :
          LET id == turn.id + 1
              new == [NoTurn EXCEPT !.id = id, !.prev = prev, !.day = day]
          IN  /\ prev # 0 => prev \in {spoken[i].id : i \in DOMAIN spoken}
              /\ docs' = AfterLoading(prev)
              /\ IF (prev # 0 /\ ~Loadable(prev)) \/ Refused(ask, prev)
                 THEN turn' = [new EXCEPT !.at = "rejected"] /\ heard' = <<>>
                 ELSE /\ turn' = [new EXCEPT !.at = "pick", !.ask = ask,
                                            !.messages = FinalMessages(ask, prev)]
                      /\ heard' = IF ask.stream THEN <<[Say("created", -1, <<>>) EXCEPT !.attempt = 0]>>
                                  ELSE <<>>
    /\ reply' = FreshReply
    /\ UNCHANGED <<spoken, day, pieces>>

Tell(events) == heard' = IF turn.ask.stream THEN heard \o events ELSE heard

ReplyAccountPicked ==
    /\ turn.at = "pick" /\ turn.attempt < ReplyAttempts
    /\ turn' = [turn EXCEPT !.at = "call", !.attempt = @ + 1]
    /\ Tell(<<Say("in_progress", -1, <<>>)>>)
    /\ reply' = FreshReply
    /\ UNCHANGED <<docs, spoken, day, pieces>>

ReplyTokenFails ==
    /\ turn.at = "pick" /\ turn.attempt < ReplyAttempts
    /\ turn' = [turn EXCEPT !.attempt = @ + 1]
    /\ UNCHANGED <<docs, reply, heard, spoken, day, pieces>>

\* No account, or no attempt, is left.
ReplyGivesUp ==
    /\ turn.at = "pick"
    /\ turn' = [turn EXCEPT !.at = "failed"]
    /\ Tell(<<Say("failed", -1, <<>>)>>)
    /\ UNCHANGED <<docs, reply, spoken, day, pieces>>

MessageStarts ==
    IF reply.open THEN <<>>
    ELSE <<Say("item_added", reply.index, <<>>), Say("part_added", reply.index, <<>>)>>

MessageDone(content) ==
    IF reply.open
    THEN <<Say("part_done", reply.index, content), Say("item_done", reply.index, content)>>
    ELSE <<>>

ReplyText ==
    /\ turn.at = "call" /\ pieces < MaxPieces
    /\ \E piece \in TextPieces :
          /\ Tell(MessageStarts \o <<Say("delta", reply.index, <<piece>>)>>)
          /\ reply' = [reply EXCEPT !.text = Append(@, piece), !.open = TRUE]
    /\ turn' = [turn EXCEPT !.started = TRUE]
    /\ pieces' = pieces + 1
    /\ UNCHANGED <<docs, spoken, day>>

\* Mutation: The message before a tool is left open.
ReplyToolOver ==
    /\ turn.at = "call" /\ pieces < MaxPieces
    /\ LET at == reply.index
       IN  /\ Tell(<<Say("item_added", at, <<>>), Say("item_done", at, <<pieces>>)>>)
           /\ reply' = [reply EXCEPT !.tools = Append(@, pieces), !.index = at + 1]
    /\ turn' = [turn EXCEPT !.started = TRUE]
    /\ pieces' = pieces + 1
    /\ UNCHANGED <<docs, spoken, day>>

\* A tool closes the message before it; text after it opens a new one.
ReplyTool ==
    /\ turn.at = "call" /\ pieces < MaxPieces
    /\ LET at == IF reply.open THEN reply.index + 1 ELSE reply.index
       IN  /\ Tell(MessageDone(reply.text)
                   \o <<Say("item_added", at, <<>>), Say("arguments_delta", at, <<pieces>>),
                        Say("item_done", at, <<pieces>>)>>)
           /\ reply' = [reply EXCEPT !.tools = Append(@, pieces), !.open = FALSE,
                                     !.index = at + 1]
    /\ turn' = [turn EXCEPT !.started = TRUE]
    /\ pieces' = pieces + 1
    /\ UNCHANGED <<docs, spoken, day>>

\* CallKiroAPI failed.  The buffered handler has sent nothing and goes on.
ReplyBreaks ==
    /\ turn.at = "call"
    /\ IF turn.ask.stream /\ turn.started
       THEN turn' = [turn EXCEPT !.at = "failed"] /\ Tell(<<Say("failed", -1, <<>>)>>)
       ELSE turn' = [turn EXCEPT !.at = "pick", !.started = FALSE] /\ UNCHANGED heard
    /\ UNCHANGED <<docs, reply, spoken, day, pieces>>

\* extractThinkingFromContent, and strings.TrimSpace.
FinalText(text) == SelectSeq(text, LAMBDA p : p # "t")
IsBlank(text) == \A i \in DOMAIN text : text[i] = "s"

\* buildResponsesObject: the text as one message, then the tools; an empty
\* message when there is neither.
ResponseOutput(content, tools) ==
    LET said == IF IsBlank(content) THEN <<>>
                ELSE <<[type |-> "message", content |-> content]>>
        all  == said \o [i \in DOMAIN tools |-> [type |-> "function_call", content |-> <<tools[i]>>]]
    IN  IF all = <<>> THEN <<[type |-> "message", content |-> <<>>]>> ELSE all

\* The answer is complete.  A response that cannot be stored is sent all the
\* same.  An upstream that sent nothing at all is an error of CallKiroAPI.
ReplyCompletes ==
    /\ turn.at = "call" /\ (reply.text # <<>> \/ reply.tools # <<>>)
    /\ LET content == FinalText(reply.text)
           output  == ResponseOutput(content, reply.tools)
       IN  /\ \E saved \in {TRUE, FALSE} :
                 /\ docs' = IF turn.ask.store /\ saved
                            THEN [docs EXCEPT ![turn.id] =
                                    [prev |-> turn.prev, instructions |-> turn.ask.instructions,
                                     input |-> turn.ask.input, output |-> output, at |-> day]]
                            ELSE docs
                 /\ spoken' = Append(spoken,
                        [id |-> turn.id, prev |-> turn.prev, day |-> day,
                         kept |-> turn.ask.store /\ saved, ask |-> turn.ask,
                         text |-> content, tools |-> reply.tools])
           /\ Tell(MessageDone(content)
                   \o <<Say("completed", -1, FlattenSeq([i \in DOMAIN output |-> output[i].content]))>>)
    /\ turn' = [turn EXCEPT !.at = "completed"]
    /\ UNCHANGED <<reply, day, pieces>>

DayPasses ==
    /\ Idle /\ day < MaxDay
    /\ day' = day + 1
    /\ UNCHANGED <<docs, turn, reply, heard, spoken, pieces>>

\* purgeExpiredResponses, hourly; a document it cannot remove stays.
ResponsesPurged ==
    /\ \E gone \in SUBSET {i \in DOMAIN docs : docs[i] # NoDoc /\ Expired(docs[i])} :
          gone # {} /\ docs' = [i \in DOMAIN docs |-> IF i \in gone THEN NoDoc ELSE docs[i]]
    /\ UNCHANGED <<turn, reply, heard, spoken, day, pieces>>

\* The documents outlive a start of the process: there may be a conversation of
\* former turns, each of which went on from the one before.
ResponsesInit ==
    /\ \E n \in 0..MaxTurns : \E asked \in [1..n -> {a \in TurnAsks : a.store /\ ~Refused(a, 0)}] :
          /\ docs = [i \in 1..MaxTurns |->
                IF i > n THEN NoDoc
                ELSE [prev |-> i - 1, instructions |-> asked[i].instructions,
                      input |-> asked[i].input, output |-> ResponseOutput(<<"x">>, <<>>), at |-> 0]]
          /\ spoken = [i \in 1..n |->
                [id |-> i, prev |-> i - 1, day |-> 0, kept |-> TRUE, ask |-> asked[i],
                 text |-> <<"x">>, tools |-> <<>>]]
          /\ turn = [NoTurn EXCEPT !.id = n]
    /\ reply = FreshReply
    /\ heard = <<>>
    /\ day \in 0..MaxDay /\ pieces = 0

ResponsesNext ==
    \/ TurnBegins \/ ReplyAccountPicked \/ ReplyTokenFails \/ ReplyGivesUp
    \/ ReplyText \/ ReplyTool \/ ReplyBreaks \/ ReplyCompletes
    \/ DayPasses \/ ResponsesPurged

ResponsesSpec == ResponsesInit /\ [][ResponsesNext]_replyVars

(***************************************************************************)
(* What must hold.                                                         *)
(***************************************************************************)
\* The values the variables take; a stored document belongs to a turn that
\* completed and asked for it.
ResponsesTypeOK ==
    /\ turn.at \in {"idle", "rejected", "pick", "call", "completed", "failed"}
    /\ turn.id \in 0..MaxTurns /\ turn.attempt \in 0..ReplyAttempts
    /\ pieces \in 0..MaxPieces /\ day \in 0..MaxDay
    /\ \A i \in DOMAIN docs :
          docs[i] # NoDoc => \E k \in DOMAIN spoken : spoken[k].id = i /\ spoken[k].kept

HeardAt(ev) == {i \in DOMAIN heard : heard[i].ev = ev}

\* The items a streaming client assembles are well formed: numbered 0, 1, 2
\* ..., one at a time, each delta and each part inside the item that is open,
\* no item left open by a completed response, and nothing after its end.
ItemsWellFormed ==
    LET added == HeardAt("item_added")
        done  == HeardAt("item_done")
        Before(i, set) == {k \in set : k < i}
        OpenAt(i) == Before(i, added) # {}
                     /\ Cardinality(Before(i, added)) = Cardinality(Before(i, done)) + 1
    IN  /\ \A i \in added : /\ heard[i].index = Cardinality(Before(i, added))
                            /\ ~OpenAt(i)
        /\ \A i \in DOMAIN heard :
              heard[i].index >= 0 /\ i \notin added =>
                  OpenAt(i) /\ heard[i].index = Cardinality(Before(i, added)) - 1
        /\ HeardAt("completed") # {} => Cardinality(added) = Cardinality(done)
        /\ \A i \in HeardAt("completed") \cup HeardAt("failed") : i = Len(heard)

\* Whatever account attempts fail, the output a streaming client receives is
\* the output of one attempt, and so is the response that completes it.
ReplyFromOneAttempt ==
    LET said == {i \in DOMAIN heard : heard[i].content # <<>>}
    IN  Cardinality({heard[i].attempt : i \in said}) <= 1

\* What a client of the Responses API assembles is one reply, whole in form,
\* whatever account attempts fail.
OneWellFormedReply == ReplyFromOneAttempt /\ ItemsWellFormed

\* The atoms of a turn: what it asked, in order; the text of its answer, in
\* order; then the answer's calls, in order.  The response object puts the text
\* first also where it went on after a call.
Asked(ask) ==
    ask.instructions \o FlattenSeq([i \in DOMAIN ask.input.items |-> ask.input.items[i].content])
Said(entry) ==
    Asked(entry.ask) \o (IF IsBlank(entry.text) THEN <<>> ELSE entry.text) \o entry.tools

\* Calls that follow one another are in one message.
CallsTogether(messages) ==
    \A i \in 1..(Len(messages) - 1) : ~(OnlyCalls(messages[i]) /\ OnlyCalls(messages[i + 1]))

\* What the model is asked with is the whole conversation ("so a multi-turn
\* /v1/responses session preserves full context", responses_history.go): the
\* instructions, inputs and answers of the turn it continues and of MaxDepth
\* turns before that, oldest first, each once, as far back as they were stored
\* and have not expired; then the turn's own.  What is older than that is
\* silently left out.  Calls made in parallel stay in one message
\* (responses_parallel_test.go) in the turn's own input; of an answer that is
\* replayed each call is a message of its own.
ConversationIsWhole ==
    LET entry(id) == CHOOSE e \in ToSet(spoken) : e.id = id
        there(id) == id # 0 /\ entry(id).kept /\ turn.day - entry(id).day <= Lifetime
        talk[n \in 0..(MaxDepth + 1), id \in 0..MaxTurns] ==
            IF n = 0 \/ ~there(id) THEN <<>>
            ELSE talk[n - 1, entry(id).prev] \o Said(entry(id))
        atoms == FlattenSeq([i \in DOMAIN turn.messages |->
                    turn.messages[i].content \o turn.messages[i].calls])
    IN  turn.at \in {"pick", "call"} =>
            /\ atoms = talk[MaxDepth + 1, turn.prev] \o Asked(turn.ask)
            /\ CallsTogether(ParseInput(turn.ask.input))
=============================================================================
