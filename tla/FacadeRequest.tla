---------------------------- MODULE FacadeRequest ----------------------------
(***************************************************************************)
(* One request at a time through the whole gateway: the guards, the native *)
(* controllers or one of the two vendor facades (OpenAI, Anthropic), the   *)
(* cache, the adapter of the provider type and the way back through the    *)
(* facade's mapper to the lines on the wire, as JSON or as an SSE stream.  *)
(* Requests follow one another over the same question, so that what one    *)
(* stores the next may be served; their concurrency is in ChatCompletion,  *)
(* the retry policy in ResilientExecutor, the slots in StreamSlots and the *)
(* bucket in TokenBucket: here a limiter only says yes or no.              *)
(*                                                                         *)
(* The vendor is known by what its SDK delivers (Sdk...): pieces of text   *)
(* and thought, tool calls in the fragments of its wire format, and the    *)
(* reason for stopping.  Texts and arguments are sequences of characters.  *)
(***************************************************************************)
EXTENDS Integers, Sequences, FiniteSetsExt, Functions

CONSTANTS Models,      \* the aliases: [type, fallback, caps]
          Facades,     \* the controllers that are mounted
          CallNames,   \* sequence of the ids of the tool calls a vendor may make
          ItemIds,     \* the ids of the items that hold them, in the same order
          MaxText,     \* pieces of text one provider call says
          PieceSize,   \* characters of a piece
          MaxAttempts, \* provider calls of one request
          ChunkSize,   \* STREAM_CACHE_REPLAY_CHUNK_SIZE
          MaxRequests  \* requests in a behaviour

None == "none"

ProviderTypes == {"anthropic", "google", "openai", "openai-compatible"}

ASSUME ModelsAssumption ==
  \A m \in Models : /\ m.type \in ProviderTypes
                    /\ m.fallback \in ProviderTypes \cup {None}
                    /\ m.caps \subseteq {"streaming", "tools", "thinking", "overrides"}

ASSUME BoundsAssumption ==
  /\ Facades \subseteq {"native", "openai", "anthropic"}
  /\ ChunkSize \in Nat \ {0}
  /\ CallNames \in Seq(Range(CallNames) \ {None}) /\ IsInjective(CallNames)
  /\ ItemIds \in Seq(Range(ItemIds)) /\ Len(ItemIds) >= Len(CallNames)
  /\ PieceSize \in Nat /\ MaxText \in Nat /\ MaxAttempts \in Nat \ {0} /\ MaxRequests \in Nat

VARIABLES model,   \* the alias the requests name
          pc,      \* where the handler of the current request is
          req,     \* the request
          attempt, \* the provider call: its number and its alias
          sdk,     \* what the vendor has said in this call
          adapter, \* the variables the adapter's closures keep
          mapper,  \* AnthropicStreamState / OpenAiStreamState
          res,     \* the response: status, source, lines, metaEmitted, writableEnded
          late,    \* an abandoned call still holds emit
          cache,   \* cache[thinking]: the answer stored for these call parameters
          cooling, \* the cooldown of the primary's provider
          served   \* requests so far

vars == <<model, pc, req, attempt, sdk, adapter, mapper, res, late, cache,
          cooling, served>>

-----------------------------------------------------------------------------
(* Lines on the wire, and the SSE events of the gateway they come from *)

Line(ev, ix, data) == [ev |-> ev, ix |-> ix, data |-> data]

Meta == [name |-> "meta"]

Delta(text) == [name |-> "delta", text |-> text]

(* buildStreamDoneEvent *)
Done(answer) == [name |-> "done", calls |-> answer.calls,
                 finish |-> answer.finish, thought |-> answer.thought]

(* createAnthropicStreamState, createOpenAiStreamState *)
NewMapper == [sent |-> FALSE, textBlockStarted |-> FALSE, blockIndex |-> 0,
              thinkingBlockEmitted |-> FALSE]

(* state.textBlockStarted ? ++state.blockIndex : state.blockIndex++, asked *)
(* for the n-th time since the state was m                                 *)
FaultAlwaysPostIncrement(m, n) == m.blockIndex + n - 1

nextToolBlockIndex(m, n) == IF m.textBlockStarted THEN m.blockIndex + n ELSE m.blockIndex + n - 1

(* A whole block at once: thinking (args empty) or one tool call *)
WholeBlock(index, block) ==
  << Line("block_start", index, block.data),
     Line("block_delta", index, block.args),
     Line("block_stop", index, <<>>) >>

(* Blocks one after the other: line i belongs to block (i + 2) \div 3 *)
WholeBlocks(m, blocks) ==
  [i \in 1 .. 3 * Len(blocks) |->
     LET n == (i + 2) \div 3
     IN  WholeBlock(nextToolBlockIndex(m, n), blocks[n])[((i - 1) % 3) + 1]]

mapGatewayFinishReasonToAnthropicStopReason(finish) ==
  CASE finish = "tool_calls" -> "tool_use"
    [] finish = "length" -> "max_tokens"
    [] finish = "content_filter" -> "refusal"
    [] OTHER -> "end_turn"

mapSseEventToAnthropic(e, m) ==
  CASE e.name = "meta" ->
         [lines |-> IF m.sent THEN <<>> ELSE <<Line("message_start", 0, <<>>)>>,
          mapper |-> [m EXCEPT !.sent = TRUE]]
    [] e.name = "delta" ->
         [lines |-> (IF m.textBlockStarted THEN <<>>
                     ELSE <<Line("block_start", m.blockIndex, <<"text">>)>>)
                    \o <<Line("block_delta", m.blockIndex, e.text)>>,
          mapper |-> [m EXCEPT !.textBlockStarted = TRUE]]
    [] e.name = "done" ->
         LET closed == IF m.textBlockStarted
                       THEN <<Line("block_stop", m.blockIndex, <<>>)>> ELSE <<>>
             thinking == IF e.thought /\ ~m.thinkingBlockEmitted
                         THEN << [data |-> <<"thinking">>, args |-> <<>>] >> ELSE <<>>
             tools == [i \in DOMAIN e.calls |->
                         [data |-> <<"tool_use", e.calls[i].id>>, args |-> e.calls[i].args]]
         IN  [lines |-> closed \o WholeBlocks(m, thinking \o tools)
                        \o << Line("message_delta", 0,
                                   <<mapGatewayFinishReasonToAnthropicStopReason(e.finish)>>),
                              Line("message_stop", 0, <<>>) >>,
              mapper |-> [m EXCEPT !.blockIndex = @ + Len(thinking \o tools),
                                   !.thinkingBlockEmitted = @ \/ e.thought]]

(* mapFinishReasontoOpenAI, resolveOpenAiFinishReason *)
resolveOpenAiFinishReason(e) ==
  CASE e.calls # <<>> -> "tool_calls"
    [] e.finish \in {"tool_calls", "length", "content_filter"} -> e.finish
    [] OTHER -> "stop"

mapSseEventToOpenAi(e, m) ==
  CASE e.name = "meta" ->
         [lines |-> IF m.sent THEN <<>> ELSE <<Line("role", 0, <<>>)>>,
          mapper |-> [m EXCEPT !.sent = TRUE]]
    [] e.name = "delta" -> [lines |-> <<Line("content", 0, e.text)>>, mapper |-> m]
    [] e.name = "done" ->
         [lines |-> [i \in DOMAIN e.calls |->
                       Line("tool_call", i - 1, <<e.calls[i].id>> \o e.calls[i].args)]
                    \o << Line("finish", 0, <<resolveOpenAiFinishReason(e)>>),
                          Line("[DONE]", 0, <<>>) >>,
          mapper |-> m]

(* The native stream serializes the events as they are *)
serialize(e, m) ==
  [lines |-> CASE e.name = "meta" -> <<Line("meta", 0, <<>>)>>
               [] e.name = "delta" -> <<Line("content", 0, e.text)>>
               [] e.name = "done" ->
                    [i \in DOMAIN e.calls |->
                       Line("tool_call", i - 1, <<e.calls[i].id>> \o e.calls[i].args)]
                    \o (IF e.thought THEN <<Line("thinking", 0, <<>>)>> ELSE <<>>)
                    \o <<Line("finish", 0, <<e.finish>>)>>,
   mapper |-> m]

MapEvent(e, m) ==
  CASE req.facade = "anthropic" -> mapSseEventToAnthropic(e, m)
    [] req.facade = "openai" -> mapSseEventToOpenAi(e, m)
    [] req.facade = "native" -> serialize(e, m)

(* emit of the three controllers: the mapper runs first, and its lines are *)
(* written unless the response has ended                                   *)
Emitted(out, e) ==
  LET step == MapEvent(e, out.mapper)
  IN  [lines |-> out.lines \o step.lines, mapper |-> step.mapper]

Emit(e) ==
  LET out == Emitted([lines |-> res.lines, mapper |-> mapper], e)
  IN  /\ mapper' = out.mapper
      /\ res' = [res EXCEPT !.lines = IF res.ended THEN @ ELSE out.lines,
                            !.metaEmitted = @ \/ e.name = "meta"]

(* The whole answer as one document.  A document is written as the lines a *)
(* client reads in it; thought comes first, and the OpenAI form has none.  *)
Document(answer, thought, finish) ==
  (IF thought THEN <<Line("thinking", 0, <<>>)>> ELSE <<>>)
  \o (IF answer.text # <<>> THEN <<Line("content", 0, answer.text)>> ELSE <<>>)
  \o [i \in DOMAIN answer.calls |->
        Line("tool_call", i - 1, <<answer.calls[i].id>> \o answer.calls[i].args)]
  \o <<Line("finish", 0, <<finish>>)>>

mapGatewayResponseToAnthropicFormat(answer) ==
  Document(answer, answer.thought,
           mapGatewayFinishReasonToAnthropicStopReason(answer.finish))

mapChatResponseToOpenAi(answer) ==
  Document(answer, FALSE, IF answer.finish \in {"tool_calls", "length", "content_filter"}
                          THEN answer.finish ELSE "stop")

NativeDocument(answer) == Document(answer, answer.thought, answer.finish)

JsonLines(answer) ==
  CASE req.facade = "anthropic" -> mapGatewayResponseToAnthropicFormat(answer)
    [] req.facade = "openai" -> mapChatResponseToOpenAi(answer)
    [] req.facade = "native" -> NativeDocument(answer)

-----------------------------------------------------------------------------
(* Adapters.  A fragment of a vendor's stream: what it is, the position of *)
(* the call or the item it belongs to, the call id and arguments it has.   *)

Fragment(kind, ix, id, args) == [kind |-> kind, ix |-> ix, id |-> id, args |-> args]

NoFragment == Fragment(None, 0, None, <<>>)

FullArgs == <<"a1", "a2">>

(* The provider type behind the alias of the current call *)
AttemptType == IF attempt.alias = "primary" THEN model.type ELSE model.fallback

NewAdapter == [calls |-> <<>>, itemIdToCallId |-> {}, lastChunk |-> NoFragment,
               completed |-> FALSE, thought |-> FALSE, assembledText |-> <<>>]

NewSdk == [open |-> FALSE, calls |-> <<>>, part |-> 0, text |-> 0,
           thought |-> FALSE, stop |-> None]

(* External: the fragments in which each vendor delivers one tool call.    *)
(* Chat completions: id and name, then the rest of the arguments, joined   *)
(* by index.  Responses: the item, its arguments, the finished item.       *)
(* Gemini and the Anthropic SDK: the call as a whole.                      *)
CallFragments(type, ix, id) ==
  CASE type = "openai-compatible" ->
         << Fragment("call", ix, id, <<"a1">>), Fragment("call", ix, None, <<"a2">>) >>
    [] type = "openai" ->
         << Fragment("item.added", ix, id, <<>>),
            Fragment("arguments.done", ix, None, FullArgs),
            Fragment("item.done", ix, id, FullArgs) >>
    [] OTHER -> << Fragment("call", ix, id, FullArgs) >>

(* Map.set: an entry keeps its place, a new one goes to the end *)
MapSet(entries, key, id, args) ==
  LET entry == [key |-> key, id |-> id, args |-> args]
  IN  IF \E i \in DOMAIN entries : entries[i].key = key
      THEN [i \in DOMAIN entries |-> IF entries[i].key = key THEN entry ELSE entries[i]]
      ELSE Append(entries, entry)

MapGet(entries, key, absent) ==
  IF \E i \in DOMAIN entries : entries[i].key = key
  THEN entries[CHOOSE i \in DOMAIN entries : entries[i].key = key] ELSE absent

accumulateOpenAiStreamToolCallDeltas(calls, f) ==
  LET existing == MapGet(calls, f.ix, [key |-> f.ix, id |-> None, args |-> <<>>])
  IN  MapSet(calls, f.ix, IF f.id # None THEN f.id ELSE existing.id, existing.args \o f.args)

(* callByItemId.get(event.item_id) ?? event.item_id *)
FaultKeyByItem(registry, f) == ItemIds[f.ix]

extractResponsesStreamToolCallDone(registry, f) ==
  IF \E r \in registry : r.ix = f.ix
  THEN (CHOOSE r \in registry : r.ix = f.ix).id ELSE ItemIds[f.ix]

ResponsesFragment(a, f) ==
  LET registry == a.itemIdToCallId \cup {[ix |-> f.ix, id |-> f.id]}
      id == extractResponsesStreamToolCallDone(a.itemIdToCallId, f)
  IN  CASE f.kind = "item.added" -> [a EXCEPT !.itemIdToCallId = registry]
        [] f.kind = "arguments.done" -> [a EXCEPT !.calls = MapSet(@, id, id, f.args)]
        [] f.kind = "item.done" ->
             [a EXCEPT !.itemIdToCallId = registry, !.calls = MapSet(@, f.id, f.id, f.args)]
        [] f.kind = "thought" -> [a EXCEPT !.thought = TRUE]
        [] f.kind = "completed" -> [a EXCEPT !.completed = TRUE]
        [] OTHER -> a

ChatCompletionsFragment(a, f) ==
  [a EXCEPT !.lastChunk = f,
            !.calls = IF f.kind = "call"
                      THEN accumulateOpenAiStreamToolCallDeltas(@, f) ELSE @]

GoogleFragment(a, f) ==
  [a EXCEPT !.lastChunk = f, !.thought = @ \/ f.kind = "thought"]

(* The body of the for-await loops; the Anthropic SDK keeps everything in   *)
(* the final message itself                                                *)
Accumulate(a, f) ==
  CASE AttemptType = "openai" -> ResponsesFragment(a, f)
    [] AttemptType = "openai-compatible" -> ChatCompletionsFragment(a, f)
    [] AttemptType = "google" -> GoogleFragment(a, f)
    [] AttemptType = "anthropic" -> a

(* parseAnthropicResponseWithTools and its counterparts over all the calls *)
AllCalls(ids) == [i \in DOMAIN ids |-> [id |-> ids[i], args |-> FullArgs]]

(* The getters of each adapter, read when its stream has ended *)
ResponsesToolCalls ==
  [i \in DOMAIN adapter.calls |->
     [id |-> adapter.calls[i].key, args |-> adapter.calls[i].args]]

(* A call whose id never came is dropped *)
finalizeOpenAiStreamToolCalls ==
  LET kept[n \in 0 .. Len(adapter.calls)] ==
        IF n = 0 THEN <<>>
        ELSE IF adapter.calls[n].id = None THEN kept[n - 1]
        ELSE Append(kept[n - 1], [id |-> adapter.calls[n].id, args |-> adapter.calls[n].args])
  IN  kept[Len(adapter.calls)]

(* Only the last chunk is parsed *)
parseGeminiLastChunk ==
  IF adapter.lastChunk.kind = "call"
  THEN << [id |-> adapter.lastChunk.id, args |-> adapter.lastChunk.args] >> ELSE <<>>

getFinalToolCalls ==
  CASE AttemptType = "openai" -> ResponsesToolCalls
    [] AttemptType = "openai-compatible" -> finalizeOpenAiStreamToolCalls
    [] AttemptType = "google" -> parseGeminiLastChunk
    [] AttemptType = "anthropic" -> AllCalls(sdk.calls)

(* finalResponse is set by response.completed only, so an answer that was  *)
(* cut (response.incomplete) counts as a normal end                        *)
ResponsesStopReason == IF adapter.calls # <<>> THEN "tool_calls" ELSE "stop"

(* A usage chunk after the finish_reason has no choices *)
ChatCompletionsStopReason(stop) == IF adapter.lastChunk.kind = "finish" THEN stop ELSE "stop"

GoogleStopReason == IF parseGeminiLastChunk # <<>> THEN "tool_calls" ELSE "stop"

getStopReason(stop) ==
  CASE AttemptType = "openai" -> ResponsesStopReason
    [] AttemptType = "openai-compatible" -> ChatCompletionsStopReason(stop)
    [] AttemptType = "google" -> GoogleStopReason
    [] AttemptType = "anthropic" -> stop

getThinkingContent ==
  CASE AttemptType \in {"openai", "google"} -> adapter.thought
    [] AttemptType = "openai-compatible" -> FALSE
    [] AttemptType = "anthropic" -> sdk.thought

mapStopReasonToFinishReason(stop, calls) ==
  CASE stop = "length" -> "length"
    [] stop # "length" /\ calls # <<>> -> "tool_calls"
    [] stop \in {"tool_calls", "content_filter"} /\ calls = <<>> -> stop
    [] OTHER -> "stop"

(* complete() of the adapters: what the JSON answer says of the stop.      *)
(* Without tools the Anthropic and Google adapters return no stopReason,   *)
(* and with tools Google tells only a call from the end of a turn.         *)
AnthropicCompletes(stop) == IF req.tools THEN stop ELSE None

GoogleCompletes(calls) ==
  CASE ~req.tools -> None
    [] req.tools /\ calls # <<>> -> "tool_calls"
    [] OTHER -> "stop"

(* mapResponsesStopReason: calls come before the status of the response *)
mapResponsesStopReason(calls, stop) == IF calls # <<>> THEN "tool_calls" ELSE stop

(* mapOpenAiFinishReason passes the vendor's reason on *)
ChatCompletionsCompletes(stop) == stop

CompleteStopReason(calls, stop) ==
  CASE AttemptType = "openai" -> mapResponsesStopReason(calls, stop)
    [] AttemptType = "openai-compatible" -> ChatCompletionsCompletes(stop)
    [] AttemptType = "anthropic" -> AnthropicCompletes(stop)
    [] AttemptType = "google" -> GoogleCompletes(calls)

-----------------------------------------------------------------------------
NoRequest == [facade |-> None, stream |-> FALSE, tools |-> FALSE,
              thinking |-> FALSE, key |-> "valid", flaw |-> None]

NewResponse == [status |-> 0, source |-> None, lines |-> <<>>,
                metaEmitted |-> FALSE, ended |-> FALSE]

NoAttempt == [no |-> 0, alias |-> "primary"]

NoAnswer == [text |-> <<>>, calls |-> <<>>, thought |-> FALSE,
             finish |-> None, full |-> FALSE]

Init ==
  /\ model \in Models
  /\ pc = "idle" /\ req = NoRequest /\ attempt = NoAttempt
  /\ sdk = NewSdk /\ adapter = NewAdapter /\ mapper = NewMapper
  /\ res = NewResponse /\ late = FALSE
  /\ cache = [thinking \in BOOLEAN |-> NoAnswer]
  /\ cooling = FALSE /\ served = 0

Arrive ==
  /\ pc = "idle" /\ served < MaxRequests
  /\ \E facade \in Facades, stream, tools, thinking \in BOOLEAN,
        key \in {"valid", "missing", "unknown", "unconfigured"},
        flaw \in {None, "unknownModel", "noMessages", "tooLong"} :
       /\ key # "valid" => flaw = None
       /\ facade = "native" => flaw # "noMessages"
       /\ req' = [facade |-> facade, stream |-> stream, tools |-> tools,
                  thinking |-> thinking, key |-> key, flaw |-> flaw]
  /\ pc' = "auth" /\ served' = served + 1
  /\ UNCHANGED <<model, attempt, sdk, adapter, mapper, res, late, cache, cooling>>

(* What the handler has of a call is gone with the request; an abandoned   *)
(* call writes to its own response only                                    *)
Close ==
  /\ pc = "ended" /\ pc' = "idle"
  /\ req' = NoRequest /\ attempt' = NoAttempt /\ sdk' = NewSdk /\ adapter' = NewAdapter
  /\ mapper' = NewMapper /\ res' = NewResponse /\ late' = FALSE
  /\ UNCHANGED <<model, cache, cooling, served>>

(* mapType of the facades' filters: the vendor's name of the error *)
OpenAiErrorType(status, code) ==
  CASE code \in {"RATE_LIMITED", "PROVIDER_RATE_LIMITED"} -> "rate_limit_error"
    [] status \in {401, 403} -> "authentication_error"
    [] status >= 500 -> "server_error"
    [] OTHER -> "invalid_request_error"

AnthropicErrorType(status, code) ==
  CASE code \in {"RATE_LIMITED", "PROVIDER_RATE_LIMITED"} -> "rate_limit_error"
    [] status \in {401, 403} -> "authentication_error"
    [] status = 400 -> "invalid_request_error"
    [] OTHER -> "api_error"

(* The envelope of the filter in charge: the global one keeps the code *)
Envelope(status, code) ==
  CASE req.facade = "openai" -> Line("error", status, <<OpenAiErrorType(status, code), code>>)
    [] req.facade = "anthropic" -> Line("error", status, <<AnthropicErrorType(status, code)>>)
    [] req.facade = "native" -> Line("error", status, <<code>>)

(* An exception filter answers.  Once the headers are out it can write     *)
(* nothing more.                                                           *)
Reject(status, code) ==
  /\ res' = IF res.status = 0
            THEN [res EXCEPT !.status = status, !.lines = <<Envelope(status, code)>>,
                             !.ended = TRUE]
            ELSE [res EXCEPT !.ended = TRUE]
  /\ pc' = "ended"

Go(next) == pc' = next /\ UNCHANGED res

Request == <<model, req, attempt, sdk, adapter, mapper, late, cache, served>>

(* GatewayKeyGuard, OpenAiBearerAuthGuard, AnthropicApiKeyGuard *)
Authenticate ==
  /\ pc = "auth"
  /\ CASE req.key = "unconfigured" -> Reject(500, "GATEWAY_KEY_NOT_CONFIGURED")
       [] req.key = "missing" -> Reject(401, "GATEWAY_KEY_MISSING")
       [] req.key = "unknown" -> Reject(403, "GATEWAY_KEY_INVALID")
       [] req.key = "valid" -> Go("limit")
  /\ UNCHANGED <<Request, cooling>>

(* SmartRateLimitGuard: the bucket, and for the native stream its slot *)
RateLimit ==
  /\ pc = "limit"
  /\ \/ Go("validate")
     \/ Reject(429, "RATE_LIMITED")
  /\ UNCHANGED <<Request, cooling>>

(* What can be wrong with a request, each with the answer it gets *)
Check(fails, status, code) == [fails |-> fails, status |-> status, code |-> code]

resolveModelAlias == Check(req.flaw = "unknownModel", 400, "MODEL_ALIAS_NOT_FOUND")

validateForStreaming ==
  Check(req.stream /\ "streaming" \notin model.caps, 400, "STREAMING_NOT_SUPPORTED")

validateChatIngress == Check(req.flaw = "tooLong", 400, "VALIDATION_FAILED")

validateTooling == Check(req.tools /\ "tools" \notin model.caps, 400, "TOOLS_NOT_SUPPORTED")

(* thinkingEnabled is a parameter the alias must allow to be overridden *)
resolveProviderCallOptions ==
  Check(req.thinking /\ "overrides" \notin model.caps, 400, "MODEL_NOT_ALLOWED")

validateThinking ==
  Check(req.thinking /\ "thinking" \notin model.caps, 400, "THINKING_NOT_SUPPORTED")

assertNotInCooldown == Check(cooling, 429, "RATE_LIMITED")

(* The first check that fails answers the request *)
PassAll(checks, next) ==
  LET failing == {i \in DOMAIN checks : checks[i].fails}
  IN  IF failing = {} THEN Go(next)
      ELSE Reject(checks[Min(failing)].status, checks[Min(failing)].code)

(* The controllers ask validateForStreaming before anything else *)
ValidateForStreaming ==
  /\ pc = "validate"
  /\ PassAll(IF req.stream THEN <<resolveModelAlias, validateForStreaming>> ELSE <<>>,
             IF req.facade = "native" THEN "prepare" ELSE "map")
  /\ UNCHANGED <<Request, cooling>>

(* A facade takes the slot of a stream, then maps the request *)
MapRequest ==
  /\ pc = "map"
  /\ \/ req.stream /\ Reject(429, "RATE_LIMITED")
     \/ PassAll(<<Check(req.flaw = "noMessages", 400, "VALIDATION_FAILED")>>, "prepare")
  /\ UNCHANGED <<Request, cooling>>

(* prepareRequestForExecution *)
Prepare ==
  /\ pc = "prepare"
  /\ PassAll(<<validateChatIngress, resolveModelAlias, validateTooling,
               resolveProviderCallOptions, validateThinking, assertNotInCooldown>>,
             "lookup")
  /\ UNCHANGED <<Request, cooling>>

(* The pieces of the stored text, ChunkSize at a time *)
FaultDropsTail(text) ==
  [i \in 1 .. Len(text) \div ChunkSize |->
     Delta(SubSeq(text, (i - 1) * ChunkSize + 1, i * ChunkSize))]

ReplayChunks(text) ==
  [i \in 1 .. (Len(text) + ChunkSize - 1) \div ChunkSize |->
     Delta(SubSeq(text, (i - 1) * ChunkSize + 1,
                  IF i * ChunkSize < Len(text) THEN i * ChunkSize ELSE Len(text)))]

(* Of what a request carries here only the call parameters tell keys apart *)
Entry == cache[req.thinking]

ReplayEvents(answer) ==
  <<Meta>> \o ReplayChunks(answer.text) \o <<Done([answer EXCEPT !.calls = <<>>])>>

(* What emit has written after each of the events *)
EmittedAll(events) ==
  LET out[n \in 0 .. Len(events)] ==
        IF n = 0 THEN [lines |-> <<>>, mapper |-> mapper] ELSE Emitted(out[n - 1], events[n])
  IN  out

(* replay is synchronous: the whole stream is written in one step *)
Replay ==
  /\ pc = "lookup" /\ Entry # NoAnswer /\ ~req.tools
  /\ LET out == IF req.stream
                THEN EmittedAll(ReplayEvents(Entry))[Len(ReplayEvents(Entry))]
                ELSE [lines |-> JsonLines(Entry), mapper |-> mapper]
     IN  /\ mapper' = out.mapper
         /\ res' = [res EXCEPT !.status = IF req.stream THEN 200 ELSE 201,
                               !.source = "cache", !.lines = out.lines, !.ended = TRUE]
  /\ pc' = "ended"
  /\ UNCHANGED <<model, req, attempt, sdk, adapter, late, cache, cooling, served>>

(* A miss: the headers of a stream go out before the provider is called *)
Miss ==
  /\ pc = "lookup" /\ (Entry = NoAnswer \/ req.tools)
  /\ res' = [res EXCEPT !.status = IF req.stream THEN 200 ELSE 0, !.source = "live"]
  /\ attempt' = [no |-> 1, alias |-> "primary"]
  /\ pc' = "live"
  /\ UNCHANGED <<model, req, sdk, adapter, mapper, late, cache, cooling, served>>

-----------------------------------------------------------------------------
(* The provider call *)

Live == pc = "live" /\ req.stream

(* streamOnce: meta goes out once, by the first call that is opened *)
OpenStream ==
  /\ Live /\ ~sdk.open
  /\ sdk' = [sdk EXCEPT !.open = TRUE]
  /\ IF res.metaEmitted THEN UNCHANGED <<mapper, res>>
     ELSE Emit(Meta)
  /\ UNCHANGED <<model, pc, req, attempt, adapter, late, cache, cooling, served>>

Text(pieces) == [i \in 1 .. pieces * PieceSize |-> IF attempt.no = 1 THEN "t1" ELSE "t2"]

SdkText ==
  /\ Live /\ sdk.open /\ sdk.part = 0 /\ sdk.text < MaxText
  /\ sdk' = [sdk EXCEPT !.text = @ + 1]
  /\ adapter' = [Accumulate(adapter, Fragment("text", 0, None, <<>>))
                   EXCEPT !.assembledText = @ \o Text(1)]
  /\ Emit(Delta(Text(1)))
  /\ UNCHANGED <<model, pc, req, attempt, late, cache, cooling, served>>

SdkThought ==
  /\ Live /\ sdk.open /\ sdk.part = 0 /\ req.thinking /\ ~sdk.thought
  /\ sdk' = [sdk EXCEPT !.thought = TRUE]
  /\ adapter' = Accumulate(adapter, Fragment("thought", 0, None, <<>>))
  /\ UNCHANGED <<model, pc, req, attempt, mapper, res, late, cache, cooling, served>>

(* The next fragment of the call being made, or the first of the next one *)
SdkCall ==
  /\ Live /\ sdk.open /\ req.tools /\ Len(sdk.calls) < Len(CallNames)
  /\ LET n == Len(sdk.calls) + 1
         fragments == CallFragments(AttemptType, n, CallNames[n])
         part == sdk.part + 1
     IN  /\ adapter' = Accumulate(adapter, fragments[part])
         /\ sdk' = IF part = Len(fragments)
                   THEN [sdk EXCEPT !.part = 0, !.calls = Append(@, CallNames[n])]
                   ELSE [sdk EXCEPT !.part = part]
  /\ UNCHANGED <<model, pc, req, attempt, mapper, res, late, cache, cooling, served>>

StopReasons(calls) == IF calls = <<>> THEN {"stop", "length", "content_filter"}
                      ELSE {"tool_calls", "length"}

(* External: how a vendor's stream ends, by what that leaves in the        *)
(* adapter.  Chat completions: a chunk with the finish_reason and, when    *)
(* usage was asked for (include_usage), as a rule one more without         *)
(* choices.  Responses: response.completed, or response.incomplete when    *)
(* the answer was cut.  Gemini: the reason is on the last chunk with       *)
(* content or on one of its own.                                           *)
SdkEnding(stop) ==
  LET Chunk(a, kind) == Accumulate(a, Fragment(kind, 0, None, <<>>))
      finished == Chunk(adapter, "finish")
  IN  CASE AttemptType = "openai-compatible" -> {finished, Chunk(finished, "usage")}
        [] AttemptType = "openai" ->
             {Chunk(adapter, IF stop \in {"length", "content_filter"} THEN "incomplete"
                            ELSE "completed")}
        [] AttemptType = "google" -> {adapter, finished}
        [] AttemptType = "anthropic" -> {finished}

SdkEnds ==
  /\ Live /\ sdk.open /\ sdk.part = 0
  /\ \E stop \in StopReasons(sdk.calls) :
       /\ sdk' = [sdk EXCEPT !.stop = stop]
       /\ adapter' \in SdkEnding(stop)
  /\ pc' = "collect"
  /\ UNCHANGED <<model, req, attempt, mapper, res, late, cache, cooling, served>>

(* full: the vendor came to the end of its turn by itself *)
Answer(text, calls, stop, thought) ==
  [text |-> text, calls |-> calls, thought |-> thought,
   finish |-> mapStopReasonToFinishReason(stop, calls), full |-> sdk'.stop = "stop"]

StreamAnswer == Answer(adapter.assembledText, getFinalToolCalls,
                       getStopReason(sdk.stop), getThinkingContent)

(* The getters of streamOnce, then executeStreamMiss emits done *)
EmitDone ==
  /\ pc = "collect"
  /\ UNCHANGED sdk
  /\ Emit(Done(StreamAnswer))
  /\ pc' = "store"
  /\ UNCHANGED <<model, req, attempt, adapter, late, cache, cooling, served>>

DidFallback == attempt.alias = "fallback"

(* shouldStoreChatResponse; SET NX keeps what is there *)
Stored(answer) ==
  IF /\ ~req.tools /\ ~DidFallback /\ Entry = NoAnswer
     /\ answer.finish = "stop" /\ answer.text # <<>> /\ answer.calls = <<>>
  THEN [cache EXCEPT ![req.thinking] = answer] ELSE cache

StoreAndEnd ==
  /\ pc = "store"
  /\ UNCHANGED sdk
  /\ cache' = Stored(StreamAnswer)
  /\ res' = [res EXCEPT !.ended = TRUE]
  /\ pc' = "ended"
  /\ adapter' = NewAdapter
  /\ UNCHANGED <<model, req, attempt, mapper, late, cooling, served>>

(* executeChat: the JSON answer, stored before it is sent *)
CompleteChat ==
  /\ pc = "live" /\ ~req.stream
  /\ \E n \in 0 .. MaxText, k \in 0 .. (IF req.tools THEN Len(CallNames) ELSE 0),
        thought \in (IF req.thinking THEN BOOLEAN ELSE {FALSE}) :
     \E stop \in StopReasons(SubSeq(CallNames, 1, k)) :
       LET ids == SubSeq(CallNames, 1, k)
           calls == AllCalls(ids)
           answer == Answer(Text(n), calls,
                            CompleteStopReason(calls, stop), thought)
       IN  /\ sdk' = [sdk EXCEPT !.open = TRUE, !.text = n, !.calls = ids,
                                 !.thought = thought, !.stop = stop]
           /\ cache' = Stored(answer)
           /\ res' = [res EXCEPT !.status = 201, !.lines = JsonLines(answer), !.ended = TRUE]
  /\ pc' = "ended"
  /\ UNCHANGED <<model, req, attempt, adapter, mapper, late, cooling, served>>

(* A call fails, at once or after some of its text, or is abandoned after  *)
(* its timeout; the executor retries, falls back (never with tools) or     *)
(* gives up, and a 429 puts the provider into cooldown                     *)
MayFallBack == attempt.alias = "primary" /\ model.fallback # None /\ ~req.tools

CallFails(abandoned) ==
  /\ pc = "live"
  /\ abandoned => Live /\ sdk.open
  /\ late' = (late \/ abandoned)
  /\ \/ /\ \/ attempt.no < MaxAttempts /\ attempt' = [attempt EXCEPT !.no = @ + 1]
           \/ MayFallBack /\ attempt' = [no |-> attempt.no + 1, alias |-> "fallback"]
        /\ UNCHANGED <<pc, res, cooling>>
     \/ /\ ~MayFallBack
        /\ \/ ~abandoned /\ cooling' = TRUE /\ Reject(429, "PROVIDER_RATE_LIMITED")
           \/ UNCHANGED cooling /\ Reject(502, "PROVIDER_UNAVAILABLE")
        /\ UNCHANGED attempt
  /\ sdk' = NewSdk /\ adapter' = NewAdapter
  /\ UNCHANGED <<model, req, mapper, cache, served>>

Fail == CallFails(FALSE)

Abandon == CallFails(TRUE)

(* The loop of an abandoned call gets one more piece *)
LateDelta ==
  /\ late
  /\ late' = FALSE
  /\ Emit(Delta(<<"late">>))
  /\ UNCHANGED <<model, pc, req, attempt, sdk, adapter, cache, cooling, served>>

(* The entry or the cooldown expires *)
Expire ==
  /\ pc = "idle"
  /\ \/ \E thinking \in BOOLEAN :
          /\ cache[thinking] # NoAnswer
          /\ cache' = [cache EXCEPT ![thinking] = NoAnswer]
          /\ UNCHANGED cooling
     \/ cooling /\ cooling' = FALSE /\ UNCHANGED cache
  /\ UNCHANGED <<model, pc, req, attempt, sdk, adapter, mapper, res, late, served>>

(* The last request of the behaviour is answered *)
Finished == pc = "idle" /\ served = MaxRequests /\ UNCHANGED vars

Next ==
  \/ Arrive \/ Close \/ Authenticate \/ RateLimit \/ ValidateForStreaming \/ MapRequest
  \/ Prepare \/ Replay \/ Miss
  \/ OpenStream \/ SdkText \/ SdkThought \/ SdkCall \/ SdkEnds \/ EmitDone
  \/ StoreAndEnd \/ CompleteChat \/ Fail \/ Abandon \/ LateDelta
  \/ Expire \/ Finished

Spec == Init /\ [][Next]_vars

-----------------------------------------------------------------------------
(* Properties *)

(* The wire up to the end the facade announces *)
Announced(w) ==
  LET ends == {i \in DOMAIN w : w[i].ev = "message_stop"}
  IN  IF ends = {} THEN w ELSE SubSeq(w, 1, CHOOSE i \in ends : TRUE)

(* What may come right after a line *)
Follows(line, previous) ==
  CASE line.ev = "message_start" -> FALSE
    [] line.ev = "block_start" ->
         IF line.ix = 0 THEN previous.ev = "message_start"
         ELSE previous.ev = "block_stop" /\ previous.ix = line.ix - 1
    [] line.ev \in {"block_delta", "block_stop"} ->
         previous.ev \in {"block_start", "block_delta"} /\ previous.ix = line.ix
    [] line.ev = "message_delta" -> previous.ev \in {"message_start", "block_stop"}
    [] line.ev = "message_stop" -> previous.ev = "message_delta"
    [] OTHER -> FALSE

WellFormed(w) ==
  /\ w # <<>> => w[1].ev = "message_start"
  /\ \A i \in DOMAIN w : i > 1 => Follows(w[i], w[i - 1])

(* The Anthropic stream is one the vendor's SDK can read: it begins with   *)
(* message_start, the blocks are numbered 0, 1, 2 ... in the order they    *)
(* are opened, each is closed before the next one opens and before         *)
(* message_delta, deltas go to the open block, and message_stop follows.   *)
(* Holds whatever mix of text, thought and tool calls the provider sends,  *)
(* over retries that continue on the same response, late text of abandoned *)
(* calls before the end, and in a replay (mapSseEventToAnthropic).         *)
BlocksWellFormed ==
  req.facade = "anthropic" /\ req.stream /\ res.source # None =>
    WellFormed(Announced(res.lines))

(* The lines that tell the client of a call, and what they say of it *)
IsCall(line) ==
  \/ line.ev = "tool_call"
  \/ line.ev = "block_start" /\ line.data[1] = "tool_use"

CallLines(w) == {i \in DOMAIN w : IsCall(w[i])}

CallAt(w, i) == IF w[i].ev = "tool_call" THEN w[i].data
                ELSE <<w[i].data[2]>> \o w[i + 1].data

(* The client finds these calls on the wire, in this order and no other *)
Tells(w, calls) ==
  \E at \in [DOMAIN calls -> CallLines(w)] :
    /\ \A i, j \in DOMAIN calls : i < j => at[i] < at[j]
    /\ \A l \in CallLines(w) : \E i \in DOMAIN calls : at[i] = l
    /\ \A i \in DOMAIN calls : CallAt(w, at[i]) = calls[i]

FinishLines(w) == {i \in DOMAIN w : w[i].ev \in {"finish", "message_delta"}}

(* A live answer delivers every tool call the vendor made, once, with all  *)
(* its arguments and in order, though the fragments of a call arrive under *)
(* the index, the item or the id of the call, and it never announces a     *)
(* normal end of turn with them.  (Of a Gemini stream only the last chunk  *)
(* is read: there the call may be missing, see the README.)                *)
CallsReachClientOnce ==
  res.source = "live" /\ FinishLines(res.lines) # {} =>
    LET made == [i \in DOMAIN sdk.calls |-> <<sdk.calls[i]>> \o FullArgs]
    IN  /\ AttemptType # "google" \/ ~req.stream => Tells(res.lines, made)
        /\ \E n \in 0 .. Len(made) : Tells(res.lines, SubSeq(made, n + 1, Len(made)))
        /\ CallLines(res.lines) # {} =>
             \A i \in FinishLines(res.lines) : res.lines[i].data[1] \notin {"stop", "end_turn"}

(* The text a client puts together *)
TextOf(w) ==
  LET text[n \in 0 .. Len(w)] ==
        IF n = 0 THEN <<>>
        ELSE text[n - 1] \o (IF w[n].ev \in {"content", "block_delta"} THEN w[n].data ELSE <<>>)
  IN  text[Len(w)]

IsThought(line) ==
  line.ev = "thinking" \/ (line.ev = "block_start" /\ line.data = <<"thinking">>)

(* An answer from the cache is, in whatever form and through whatever      *)
(* facade it is asked for, the stored answer: the same text cut into       *)
(* chunks and put together again, the same thought, a normal end and no    *)
(* tool call (StreamCacheReplayService.replay against the JSON mappers).   *)
HitsAgree ==
  res.source = "cache" =>
    /\ TextOf(res.lines) = Entry.text
    /\ req.facade # "openai" =>
         ((\E i \in DOMAIN res.lines : IsThought(res.lines[i])) <=> Entry.thought)
    /\ CallLines(res.lines) = {} /\ FinishLines(res.lines) # {}
    /\ \A i \in FinishLines(res.lines) : res.lines[i].data[1] \in {"stop", "end_turn"}

(* docs/configuration.md says of the store: content_filter, length and     *)
(* tool-invocation replies are not cached.  The test is on the finish      *)
(* reason the adapters pass on, and several pass none or the wrong one.    *)
OnlyFullRepliesStored ==
  \A thinking \in BOOLEAN : cache[thinking] # NoAnswer => cache[thinking].full

=============================================================================
