------------------------------ MODULE Translator ------------------------------
(***************************************************************************)
(* What the upstream is asked (proxy/translator.go): a conversation in     *)
(* Claude's or in OpenAI's form becomes a history, a current message and   *)
(* the tool results attached to it.  The upstream accepts one active tool  *)
(* turn: tool uses of the last assistant entry, answered by the results of *)
(* the current message; everything else has to be told as text, and the    *)
(* whole has to fit a byte limit.                                          *)
(*                                                                         *)
(* Content is a sequence of atoms: a piece of text, or the output of a     *)
(* tool.  Wording, tool names, images beyond their presence, and schemas   *)
(* are left out; an entry's size is its number of parts.                   *)
(***************************************************************************)
EXTENDS Integers, Sequences, FiniteSets, SequencesExt, FiniteSetsExt

CONSTANTS ClaudeMessages, OpenAIMessages,  \* what a client may say next
          MaxPayload,  \* maxPayloadBytes, in parts
          MinRecent,   \* minRecentHistoryTurns
          MaxNarrated, \* the 4000 bytes of a continuation, in atoms
          MaxMessages  \* bound: the length of a conversation

ASSUME TranslatorAssumption ==
    /\ {MaxPayload, MinRecent, MaxMessages} \subseteq Nat
    /\ MaxNarrated \in Nat \ {0}
    /\ \A m \in ClaudeMessages \cup OpenAIMessages : m.role \in {"user", "assistant", "tool"}

VARIABLES conversation, \* the client's messages, its dialect, and whether it has instructions
          payload       \* what they are translated to

translatorVars == <<conversation, payload>>

Plain(text) == [kind |-> "text", of |-> text]
Output(id)  == [kind |-> "output", of |-> id]

Dot == Plain(".")              \* minimalFallbackUserContent
AnalyzeImage == Plain("analyze the image")
Elided == Plain("truncated")   \* truncationPlaceholder
Polluted == Plain("[Called tool]")

UserEntry(content, image, results) ==
    [who |-> "user", content |-> content, image |-> image, results |-> results, uses |-> <<>>]
AssistantEntry(content, uses) ==
    [who |-> "assistant", content |-> content, image |-> FALSE, results |-> <<>>, uses |-> uses]

NormalizeUserContent(text, image) ==
    IF text = <<>> /\ image THEN <<AnalyzeImage>> ELSE text

NoCurrent == [history |-> <<>>, content |-> <<>>, image |-> FALSE, results |-> <<>>]

(***************************************************************************)
(* Reading the conversation.                                               *)
(***************************************************************************)
ClaudeTurns(messages) ==
    LET step(acc, i) ==
            LET m == messages[i]
                text == NormalizeUserContent(m.text, m.image)
            IN  CASE m.role = "user" /\ i = Len(messages) ->
                        [acc EXCEPT !.content = text, !.image = m.image, !.results = m.results]
                  [] m.role = "user" /\ i < Len(messages) ->
                        [acc EXCEPT !.history = Append(@, UserEntry(text, m.image, m.results))]
                  [] m.role = "assistant" ->
                        [acc EXCEPT !.history = Append(@, AssistantEntry(m.text, m.uses))]
                  [] OTHER -> acc
    IN  FoldLeftDomain(step, NoCurrent, messages)

\* Mutation: Every tool message becomes an entry of its own, without the ones
\* collected before it.
OpenAITurnsApart(messages) ==
    LET step(acc, i) ==
            LET m == messages[i]
                more == [acc EXCEPT !.results = m.results, !.image = @ \/ m.image]
            IN  CASE m.role = "user" /\ i = Len(messages) ->
                        [acc EXCEPT !.content = NormalizeUserContent(m.text, m.image),
                                    !.image = m.image]
                  [] m.role = "user" /\ i < Len(messages) ->
                        [acc EXCEPT !.history = Append(@,
                            UserEntry(NormalizeUserContent(m.text, m.image), m.image, <<>>))]
                  [] m.role = "assistant" ->
                        [acc EXCEPT !.history = Append(@, AssistantEntry(m.text, m.uses))]
                  [] m.role = "tool" /\ i < Len(messages) /\ messages[i + 1].role # "tool" ->
                        [more EXCEPT !.history = Append(@, UserEntry(<<>>, more.image, more.results)),
                                     !.results = <<>>, !.image = FALSE]
                  [] OTHER -> more
    IN  FoldLeftDomain(step, NoCurrent, messages)

\* Consecutive tool messages are collected; the run becomes one entry of the
\* history, or the current results when the conversation ends with it.
OpenAITurns(messages) ==
    LET step(acc, i) ==
            LET m == messages[i]
                text == NormalizeUserContent(m.text, m.image)
                more == [acc EXCEPT !.results = @ \o m.results, !.image = @ \/ m.image]
            IN  CASE m.role = "user" /\ i = Len(messages) ->
                        [acc EXCEPT !.content = text, !.image = m.image]
                  [] m.role = "user" /\ i < Len(messages) ->
                        [acc EXCEPT !.history = Append(@, UserEntry(text, m.image, <<>>))]
                  [] m.role = "assistant" ->
                        [acc EXCEPT !.history = Append(@, AssistantEntry(m.text, m.uses))]
                  [] m.role = "tool" /\ i < Len(messages) /\ messages[i + 1].role # "tool" ->
                        [more EXCEPT !.history = Append(@, UserEntry(<<>>, more.image, more.results)),
                                     !.results = <<>>, !.image = FALSE]
                  [] OTHER -> more
    IN  FoldLeftDomain(step, NoCurrent, messages)

TrimLeadingAssistant(history) ==
    LET users == {i \in DOMAIN history : history[i].who = "user"}
    IN  IF users = {} THEN <<>> ELSE SubSeq(history, Min(users), Len(history))

Priming == <<UserEntry(<<Plain("instructions")>>, FALSE, <<>>),
             AssistantEntry(<<Plain("I will follow")>>, <<>>)>>

Primed(system, history) == (IF system THEN Priming ELSE <<>>) \o history

(***************************************************************************)
(* The active tool turn.                                                   *)
(***************************************************************************)
ResultIDs(results) == {results[i].id : i \in DOMAIN results}

\* currentToolResultsMatchLastAssistant: every use of the last assistant entry
\* has a result.
MatchLastAssistant(history, ids) ==
    /\ ids # {} /\ history # <<>>
    /\ Last(history).uses # <<>>
    /\ ToSet(Last(history).uses) \subseteq ids

Told(results) ==
    FlattenSeq([i \in DOMAIN results |->
        IF results[i].text = <<>> THEN <<Plain("(no output)")>> ELSE results[i].text])

\* sanitizeKiroHistory, its first pass: structured results become the text of
\* their turn and structured uses go, but for the active turn.  The results of
\* a turn with images are left as they are.
Flattened(entry, active) ==
    LET told == IF entry.image THEN entry.content ELSE entry.content \o Told(entry.results)
    IN  IF entry.who = "assistant"
        THEN [entry EXCEPT !.content = SelectSeq(@, LAMBDA atom : atom # Polluted),
                           !.uses = IF active THEN @ ELSE <<>>]
        ELSE [entry EXCEPT
                !.results = IF entry.image THEN @ ELSE <<>>,
                !.content = IF told = <<>> /\ ~entry.image THEN <<Dot>> ELSE told]

Hollow(entry) ==
    entry.who = "assistant" /\ entry.uses = <<>> /\ entry.content \in {<<>>, <<Dot>>}

Repeats(kept, entry) ==
    /\ entry.who = "user" /\ ~entry.image /\ entry.content # <<>>
    /\ kept # <<>> /\ Last(kept).who = "user" /\ Last(kept).content = entry.content

\* sanitizeKiroHistory; the second pass drops hollow assistant turns and runs
\* of the same user turn.
SanitizeHistory(history, ids) ==
    LET n    == Len(history)
        keep == MatchLastAssistant(history, ids)
        flat == [i \in 1..n |-> Flattened(history[i], keep /\ i = n)]
        add(kept, entry) == IF Hollow(entry) \/ Repeats(kept, entry) THEN kept
                            ELSE Append(kept, entry)
    IN  TrimLeadingAssistant(FoldLeft(add, <<>>, flat))

\* buildToolResultsContinuation: what the tools put out is cut at a length of
\* its own, and nothing marks the cut.
Continuation(results) ==
    LET said == FlattenSeq([i \in DOMAIN results |-> results[i].text])
    IN  IF said = <<>> THEN <<Dot>> ELSE SubSeq(said, 1, Min({MaxNarrated, Len(said)}))

FinalContent(current) ==
    CASE current.content # <<>> -> current.content
      [] current.content = <<>> /\ current.image -> <<AnalyzeImage>>
      [] current.content = <<>> /\ ~current.image -> Continuation(current.results)

(***************************************************************************)
(* Fitting the limit.                                                      *)
(***************************************************************************)
EntrySize(entry) == 1 + Len(entry.content) + Len(entry.uses) + Len(entry.results)

SizeOf(history) == FoldLeft(LAMBDA n, entry : n + EntrySize(entry), 0, history)

PayloadSize(p) == SizeOf(p.history) + Len(p.content) + Len(p.attached)

\* The conversation is kept from here on: the longest tail that fits, and the
\* last MinRecent entries in any case.
KeepFrom(history, base) ==
    LET n == Len(history)
        fits(j) == \/ base + SizeOf(SubSeq(history, j, n)) <= MaxPayload
                   \/ n - j + 1 <= MinRecent
    IN  Min({i \in 1..(n + 1) : \A j \in i..n : fits(j)})

\* truncateCurrentMessage
CutCurrent(p) ==
    LET budget == MaxPayload - (PayloadSize(p) - Len(p.content))
    IN  IF PayloadSize(p) <= MaxPayload THEN p
        ELSE [p EXCEPT !.content = IF budget <= 0 /\ @ # <<>> THEN <<Dot>> ELSE SubSeq(@, 1, budget)]

\* What stands in the history for the turns that were cut.
Note == UserEntry(<<Elided>>, FALSE, <<>>)

\* truncatePayloadToLimit
TruncateToLimit(p, system) ==
    IF PayloadSize(p) <= MaxPayload THEN p
    ELSE LET n    == IF system /\ Len(p.history) >= 2 THEN 2 ELSE 0
             head == SubSeq(p.history, 1, n)
             talk == SubSeq(p.history, n + 1, Len(p.history))
             from == KeepFrom(talk, PayloadSize([p EXCEPT !.history = Append(head, Note)]))
         IN  CutCurrent([p EXCEPT !.history =
                head \o (IF from > 1 THEN <<Note>> ELSE <<>>)
                \o TrimLeadingAssistant(SubSeq(talk, from, Len(talk)))])

\* The results are attached as such when they answer the active tool turn, or
\* when the dialect says so in any case.
ToKiro(system, history, current, anyway) ==
    LET ids  == ResultIDs(current.results)
        keep == MatchLastAssistant(history, ids)
    IN  TruncateToLimit(
            [history  |-> SanitizeHistory(history, IF keep THEN ids ELSE {}),
             content  |-> FinalContent(current),
             image    |-> current.image,
             attached |-> IF keep \/ anyway THEN current.results ELSE <<>>], system)

\* Leading assistant turns go before the instructions are put in front, and
\* results of a message with images are attached.
ClaudeToKiro(system, messages) ==
    LET current == ClaudeTurns(messages)
    IN  ToKiro(system, Primed(system, TrimLeadingAssistant(current.history)), current, current.image)

\* Neither holds of OpenAI's form.
OpenAIToKiro(system, messages) ==
    LET current == OpenAITurns(messages)
    IN  ToKiro(system, Primed(system, current.history), current, FALSE)

(***************************************************************************)
(* A client's conversation grows; every request sends all of it.           *)
(***************************************************************************)
NoPayload == [history |-> <<>>, content |-> <<>>, image |-> FALSE, attached |-> <<>>]

TranslatorInit ==
    /\ conversation \in [dialect : {"claude", "openai"}, system : BOOLEAN, messages : {<<>>}]
    /\ payload = NoPayload

ClientSays ==
    /\ Len(conversation.messages) < MaxMessages
    /\ \E m \in IF conversation.dialect = "claude" THEN ClaudeMessages ELSE OpenAIMessages :
          LET messages == Append(conversation.messages, m)
          IN  /\ conversation' = [conversation EXCEPT !.messages = messages]
              /\ payload' = IF conversation.dialect = "claude"
                            THEN ClaudeToKiro(conversation.system, messages)
                            ELSE OpenAIToKiro(conversation.system, messages)

TranslatorNext == ClientSays

TranslatorSpec == TranslatorInit /\ [][TranslatorNext]_translatorVars

(***************************************************************************)
(* What must hold.                                                         *)
(***************************************************************************)
Entries == {"user", "assistant"}

\* What a payload consists of, and its limit: what exceeds it all the same says
\* nothing but the placeholder.
TranslatorTypeOK ==
    /\ Len(conversation.messages) <= MaxMessages
    /\ \A i \in DOMAIN payload.history :
          /\ payload.history[i].who \in Entries
          /\ payload.history[i].content # <<>> \/ payload.history[i].uses # <<>>
             \/ payload.history[i].image
    /\ conversation.messages # <<>> => payload.content # <<>>
    /\ PayloadSize(payload) <= MaxPayload \/ payload.content = <<Dot>>

\* Every turn of the client's was pushed out of the history.
NoTurnLeft == ToSet(payload.history) \subseteq ToSet(Priming) \cup {Note}

\* The history the upstream gets starts with a user, and carries no structured
\* tool calls but those of its last entry, all of them answered by the results
\* attached to the current message ("upstream only accepts a single active tool
\* turn", translator.go).  Nor are results attached without such calls, but in
\* two cases of the code: beside an image, in Claude's form; and where leading
\* assistant turns are trimmed up to the end, the active one with them, so that
\* no turn is left - although truncatePayloadToLimit means to keep "always the
\* active tool turn".  Results stay structured in the history beside images
\* only, which is more than sanitizeKiroHistory's comment allows.
HistoryIsPlain ==
    LET h == payload.history
    IN  /\ h # <<>> => h[1].who = "user"
        /\ \A i \in DOMAIN h :
              /\ h[i].uses # <<>> =>
                    i = Len(h) /\ ToSet(h[i].uses) \subseteq ResultIDs(payload.attached)
              /\ h[i].results # <<>> => h[i].image
        /\ payload.attached # <<>> =>
              \/ h # <<>> /\ Last(h).uses # <<>>
              \/ NoTurnLeft
              \/ conversation.dialect = "claude" /\ payload.image

Messages == conversation.messages
Cut == \E i \in DOMAIN payload.history : payload.history[i].content = <<Elided>>

\* The messages from here on make up the current one.
CurrentFrom ==
    CASE Messages = <<>> -> 1
      [] Messages # <<>> /\ Last(Messages).role = "assistant" -> Len(Messages) + 1
      [] Messages # <<>> /\ Last(Messages).role = "user" -> Len(Messages)
      [] OTHER -> Min({i \in DOMAIN Messages :
                         \A j \in i..Len(Messages) : Messages[j].role = "tool"})

Outputs(results) == UNION {ToSet(results[i].text) : i \in DOMAIN results}
HistoryAtoms ==
    UNION {ToSet(payload.history[i].content) \cup Outputs(payload.history[i].results) :
             i \in DOMAIN payload.history}

\* Rewriting the history forgets nothing: what users and tools said in earlier
\* messages is in the history that goes out, and so is every assistant's text
\* after the first user's; when the limit forces turns out, the instructions
\* and the last user turns stay and the gap is marked.
NothingIsForgotten ==
    LET said(i) == ToSet(Messages[i].text) \cup Outputs(Messages[i].results)
        kept(i) == IF Messages[i].role = "assistant"
                   THEN {a \in said(i) \ {Dot, Polluted} :
                            \E j \in 1..(i - 1) : Messages[j].role = "user"}
                   ELSE said(i)
    IN  /\ ~Cut => \A i \in 1..(CurrentFrom - 1) : kept(i) \subseteq HistoryAtoms
        /\ conversation.system /\ Messages # <<>> => SubSeq(payload.history, 1, 2) = Priming
        /\ Cut => \A i \in DOMAIN Messages :
              /\ CurrentFrom - MinRecent <= i /\ i < CurrentFrom
              /\ Messages[i].role = "user"
              => said(i) \subseteq HistoryAtoms

\* Violated: every tool result of the current message either answers a call of
\* the last assistant turn and is attached, or is part of the message's text
\* ("Only attach structured tool results when they answer the last history
\* assistant turn; otherwise they have already been folded into finalContent",
\* translator.go:322).
ResultsArePlaced ==
    LET current == IF conversation.dialect = "claude" THEN ClaudeTurns(Messages).results
                   ELSE OpenAITurns(Messages).results
        calls   == IF payload.history = <<>> THEN {} ELSE ToSet(Last(payload.history).uses)
        attached == {payload.attached[i].id : i \in DOMAIN payload.attached}
    IN  \A i \in DOMAIN current :
            \/ current[i].id \in attached \cap calls
            \/ ToSet(current[i].text) \subseteq ToSet(payload.content)
=============================================================================
