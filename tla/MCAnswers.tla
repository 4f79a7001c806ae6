------------------------------ MODULE MCAnswers ------------------------------
(***************************************************************************)
(* What the data plane does for one client: whether it may call, how its   *)
(* conversation is put for the upstream, what it hears of the upstream's   *)
(* answer, how turns continue one another, and what it is told of the      *)
(* cache.  The modules share no state; "focus" says which one a behaviour  *)
(* exercises, the others stay at one of their initial states.              *)
(***************************************************************************)
EXTENDS Streams, Responses, PromptCache, Translator, Admission, TLC

VARIABLE focus
vars == <<streamVars, replyVars, cacheVars, translatorVars, admissionVars, focus>>

(***************************************************************************)
(* Streams: text with the two halves of an opening and of a closing tag,   *)
(* cut in different places; a tool in two fragments, one in one piece, and *)
(* one whose id comes late.                                                *)
(***************************************************************************)
MCChunks == {<<"x">>, <<"o1">>, <<"o2", "x">>, <<"x", "c1">>, <<"c2">>}
Fragment(id, name, input, stop) == [id |-> id, name |-> name, input |-> input, stop |-> stop]
MCToolEvents == {Fragment("t1", "bash", "open", FALSE), Fragment("", "bash", "", FALSE),
                 Fragment("", "", "close", TRUE), Fragment("t2", "read", "object", FALSE)}

(* Four upstream events, or three where a second endpoint or another style *)
(* is watched.                                                             *)
StreamsWatched ==
    spent.events = IF ask.endpoints = 1 /\ ask.style = "block" THEN 0 ELSE 1

(***************************************************************************)
(* Turns of the Responses API: every kind of input item, a turn that is    *)
(* not streamed, one whose input is not a list.                            *)
(***************************************************************************)
Item(type, role, content) ==
    [type |-> type, role |-> role, content |-> content, bare |-> FALSE]
Mixed == <<Item("input_text", "", <<"look">>), Item("function_call", "", <<"c1">>),
           Item("function_call", "", <<"c2">>), Item("function_call_output", "", <<"r1">>),
           Item("input_image", "", <<"pic">>)>>
Trailing == <<Item("output_text", "", <<"was">>), Item("reasoning", "", <<>>),
              [Item("message", "", <<>>) EXCEPT !.bare = TRUE], Item("message", "user", <<>>),
              Item("", "user", <<"more">>)>>
TurnAsk(instructions, shape, items, stream) ==
    [instructions |-> instructions, input |-> [shape |-> shape, items |-> items],
     stream |-> stream, store |-> TRUE]
MCTurnAsks == {TurnAsk(<<"sys">>, "items", Mixed, TRUE), TurnAsk(<<>>, "items", Trailing, FALSE),
               TurnAsk(<<>>, "other", <<>>, TRUE)}

(* Two turns were stored the day before; the two that follow can reach     *)
(* further back than the depth, and outlive the first two.                 *)
TurnsWatched ==
    /\ turn.id = 2 /\ day = 1
    /\ \A i \in DOMAIN spoken : spoken[i].ask.stream = (i = 1)

(***************************************************************************)
(* Prompts: one that grows, one whose first blocks differ, one below the   *)
(* least size that is cached; two times to live.                           *)
(***************************************************************************)
Uncached == [type |-> "none", form |-> "none", minutes |-> 0]
Short == [type |-> "ephemeral", form |-> "none", minutes |-> 0]
Long == [type |-> "ephemeral", form |-> "text", minutes |-> 30]
PromptBlock(of, tokens, control) ==
    [of |-> of, tokens |-> tokens, header |-> FALSE, control |-> control]
BillingHeader == [of |-> "billing", tokens |-> 1, header |-> TRUE, control |-> Uncached]
Speaks(role, of, tokens) == [role |-> role, blocks |-> <<PromptBlock(of, tokens, Uncached)>>]
Base == [prelude |-> "sonnet", min |-> 2, tools |-> <<>>,
         system |-> <<PromptBlock("sys", 2, Short)>>, messages |-> <<Speaks("user", "hi", 3)>>,
         estimate |-> 6]
MCPrompts ==
    {Base,
     [Base EXCEPT !.system = <<BillingHeader>> \o @, !.estimate = 10,
                  !.messages = @ \o <<Speaks("assistant", "yo", 1), Speaks("user", "on", 3)>>],
     [Base EXCEPT !.system = <<PromptBlock("other", 4, Uncached), PromptBlock("sys", 2, Long)>>,
                  !.estimate = 9],
     [Base EXCEPT !.tools = <<PromptBlock("bash", 1, Uncached)>>, !.messages = <<>>, !.min = 4]}

(* Three requests on one account, or two that may use both.                *)
PromptsWatched ==
    \E longer \in {p \in MCPrompts : p.estimate > 6}, wide \in BOOLEAN :
        /\ asking["r1"].prompt = Base /\ asking["r2"].prompt = longer
        /\ asking["r3"].prompt \in {Base, longer}
        /\ \A r \in CacheRequests :
              /\ asking[r].at = IF wide /\ r = "r3" THEN "failed" ELSE "pick"
              /\ asking[r].tried = IF wide THEN {} ELSE {"a2"}

(***************************************************************************)
(* Conversations in either dialect: text, images, results that answer a    *)
(* call, some of them or none, calls in parallel, text that upstream lets  *)
(* leak into its own, and the placeholder it is given.                     *)
(***************************************************************************)
Answers(id, text) == [id |-> id, text |-> text]
Says(role, text, image, results, calls) ==
    [role |-> role, text |-> text, image |-> image, results |-> results, uses |-> calls]
First1 == <<Answers("t1", <<Output("t1")>>)>>
MCClaude ==
    {Says("user", <<Plain("a")>>, FALSE, <<>>, <<>>),
     Says("user", <<>>, TRUE, First1, <<>>), Says("user", <<>>, FALSE, First1, <<>>),
     Says("user", <<Plain("b")>>, FALSE, First1 \o <<Answers("t2", <<>>)>>, <<>>),
     Says("assistant", <<Plain("c"), Polluted>>, FALSE, <<>>, <<>>),
     Says("assistant", <<Dot>>, FALSE, <<>>, <<>>),
     Says("assistant", <<>>, FALSE, <<>>, <<"t1">>),
     Says("assistant", <<Plain("d")>>, FALSE, <<>>, <<"t1", "t2">>)}
MCOpenAI ==
    {Says("user", <<Plain("a")>>, FALSE, <<>>, <<>>), Says("user", <<>>, TRUE, <<>>, <<>>),
     Says("tool", <<>>, FALSE, First1, <<>>),
     Says("tool", <<>>, TRUE, <<Answers("t2", <<Output("t2")>>)>>, <<>>),
     Says("assistant", <<Plain("c")>>, FALSE, <<>>, <<>>),
     Says("assistant", <<>>, FALSE, <<>>, <<"t1">>),
     Says("assistant", <<Plain("d")>>, FALSE, <<>>, <<"t1", "t2">>)}

(***************************************************************************)
(* Keys with both limits and a quota, or without any.                      *)
(***************************************************************************)
MCLimits == {[rpm |-> 1, tpm |-> 2, quota |-> 1], [rpm |-> 0, tpm |-> 0, quota |-> 0]}

-----------------------------------------------------------------------------
Init ==
    /\ focus \in {"streams", "responses", "cache", "translator", "admission"}
    /\ ResponsesInit /\ TurnsWatched
    /\ IF focus = "streams" THEN StreamsInit /\ StreamsWatched
       ELSE StreamsInit /\ spent.events = MaxEvents /\ ask = CHOOSE a \in Asks : TRUE
    /\ IF focus = "cache" THEN PromptCacheInit /\ PromptsWatched
       ELSE /\ PromptCacheInit
            /\ \A r \in CacheRequests : asking[r].at = "failed" /\ asking[r].tried = {}
                                        /\ asking[r].prompt = Base
    /\ TranslatorInit
    /\ focus # "translator" => conversation.dialect = "claude" /\ ~conversation.system
    /\ AdmissionInit
    /\ focus # "admission" => \A k \in KeyEntries : apiKeys[k].limits.rpm = 0

Next ==
    \/ /\ focus = "streams" /\ StreamsNext
       /\ UNCHANGED <<replyVars, cacheVars, translatorVars, admissionVars, focus>>
    \/ /\ focus = "responses" /\ ResponsesNext
       /\ UNCHANGED <<streamVars, cacheVars, translatorVars, admissionVars, focus>>
    \/ /\ focus = "cache" /\ PromptCacheNext
       /\ UNCHANGED <<streamVars, replyVars, translatorVars, admissionVars, focus>>
    \/ /\ focus = "translator" /\ TranslatorNext
       /\ UNCHANGED <<streamVars, replyVars, cacheVars, admissionVars, focus>>
    \/ /\ focus = "admission" /\ AdmissionNext
       /\ UNCHANGED <<streamVars, replyVars, cacheVars, translatorVars, focus>>

Spec == Init /\ [][Next]_vars

-----------------------------------------------------------------------------
(* The requests, documents, cache entries, payloads and keys of the data   *)
(* plane have their types and stay within their limits.                    *)
AnswersTypeOK ==
    CASE focus = "streams" -> StreamsTypeOK
      [] focus = "responses" -> ResponsesTypeOK
      [] focus = "cache" -> PromptCacheTypeOK
      [] focus = "translator" -> TranslatorTypeOK
      [] OTHER -> AdmissionTypeOK

(* The conversation as the upstream gets it is one that it accepts, and    *)
(* says what the client's said.                                            *)
TranslationIsSound == focus = "translator" => HistoryIsPlain /\ NothingIsForgotten
=============================================================================
