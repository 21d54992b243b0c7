------------------------- MODULE FacadeRequestProofs -------------------------
(***************************************************************************)
(* The shape of the Anthropic stream, the delivery of tool calls and the   *)
(* agreement of cache hits, for any set of aliases and facades, any number *)
(* of calls, pieces and requests and any size of pieces and chunks.        *)
(***************************************************************************)
EXTENDS FacadeRequest, SequenceTheorems, WellFoundedInduction, TLAPS

-----------------------------------------------------------------------------
(* Induction and sequences *)

(* Induction up to a number, over a set: the provers can instantiate it.   *)
LEMMA Induction ==
  ASSUME NEW N \in Nat, NEW S, 0 \in S, \A n \in 0 .. N - 1 : n \in S => n + 1 \in S
  PROVE  0 .. N \subseteq S
<1>. DEFINE T == (0 .. N) \ S
<1>. SUFFICES ASSUME T # {} PROVE FALSE
  OBVIOUS
<1>1. PICK x \in T : \A y \in T : ~ (<<y, x>> \in OpToRel(<, Nat))
  <2>1. T \subseteq Nat
    OBVIOUS
  <2>. HIDE DEF T
  <2>. QED  BY <2>1, NatLessThanWellFounded, WFMin
<1>2. x \in Nat /\ x # 0 /\ x - 1 \in 0 .. N - 1 /\ x - 1 \notin S
  OBVIOUS
<1>3. <<x - 1, x>> \in OpToRel(<, Nat)
  BY <1>2 DEF OpToRel
<1>4. x - 1 \in T
  BY <1>2
<1>. HIDE DEF T
<1>. QED  BY <1>1, <1>3, <1>4, Zenon

(* A function on 1 .. n is a sequence. *)
LEMMA SeqOf ==
  ASSUME NEW S, NEW n \in Nat, NEW f \in [1 .. n -> S]
  PROVE  f \in Seq(S) /\ Len(f) = n /\ DOMAIN f = 1 .. n
  OBVIOUS

(* Sequences are functions on 1 .. Len. *)
LEMMA SeqIs ==
  ASSUME NEW S, NEW s \in Seq(S)
  PROVE  /\ Len(s) \in Nat /\ DOMAIN s = 1 .. Len(s)
         /\ \A i \in 1 .. Len(s) : s[i] \in S
         /\ s \in [1 .. Len(s) -> S]
  OBVIOUS

(* Concatenation, position by position. *)
LEMMA Joined ==
  ASSUME NEW S, NEW a \in Seq(S), NEW b \in Seq(S)
  PROVE  /\ a \o b \in Seq(S)
         /\ Len(a \o b) = Len(a) + Len(b)
         /\ DOMAIN (a \o b) = 1 .. Len(a) + Len(b)
         /\ \A i \in 1 .. Len(a) : (a \o b)[i] = a[i]
         /\ \A i \in 1 .. Len(b) : (a \o b)[Len(a) + i] = b[i]
  OBVIOUS

-----------------------------------------------------------------------------
(* What the variables hold *)

(* The names, ids and characters there are *)
Word ==
  {"none", "meta", "role", "content", "thinking", "finish",
   "[DONE]", "tool_call", "error", "message_start", "block_start", "block_delta",
   "block_stop", "message_delta", "message_stop", "text", "tool_use", "max_tokens",
   "refusal", "end_turn", "tool_calls", "length", "content_filter", "stop",
   "a1", "a2", "t1", "t2", "late",
   "rate_limit_error", "authentication_error", "server_error", "invalid_request_error",
   "api_error", "GATEWAY_KEY_NOT_CONFIGURED", "GATEWAY_KEY_MISSING", "GATEWAY_KEY_INVALID",
   "RATE_LIMITED", "MODEL_ALIAS_NOT_FOUND", "STREAMING_NOT_SUPPORTED", "VALIDATION_FAILED",
   "TOOLS_NOT_SUPPORTED", "MODEL_NOT_ALLOWED", "THINKING_NOT_SUPPORTED",
   "PROVIDER_RATE_LIMITED", "PROVIDER_UNAVAILABLE"}
  \cup Range(CallNames) \cup Range(ItemIds)

WireLine == [ev : Word, ix : Int, data : Seq(Word)]

ToolCall == [id : Word, args : Seq(Word)]

Reply == [text : Seq(Word), calls : Seq(ToolCall), thought : BOOLEAN,
          finish : Word, full : BOOLEAN]

MapperState == [sent : BOOLEAN, textBlockStarted : BOOLEAN, blockIndex : Nat,
                thinkingBlockEmitted : BOOLEAN]

(* The closures of an adapter *)
IsAdapter(a) ==
  /\ a = [calls |-> a.calls, itemIdToCallId |-> a.itemIdToCallId, lastChunk |-> a.lastChunk,
          completed |-> a.completed, thought |-> a.thought, assembledText |-> a.assembledText]
  /\ a.thought \in BOOLEAN /\ a.assembledText \in Seq(Word)

(* A response *)
IsResponse(r) ==
  /\ r = [status |-> r.status, source |-> r.source, lines |-> r.lines,
          metaEmitted |-> r.metaEmitted, ended |-> r.ended]
  /\ r.status \in Nat /\ r.source \in {None, "live", "cache"} /\ r.lines \in Seq(WireLine)
  /\ r.metaEmitted \in BOOLEAN /\ r.ended \in BOOLEAN

FacadeTypeOK ==
  /\ model \in Models
  /\ req.stream \in BOOLEAN /\ req.tools \in BOOLEAN /\ req.thinking \in BOOLEAN
  /\ req.key \in {"valid", "missing", "unknown", "unconfigured"}
  /\ attempt \in [no : Nat, alias : {"primary", "fallback"}]
  /\ attempt.alias = "fallback" => model.fallback # None
  /\ sdk \in [open : BOOLEAN, calls : Seq(Word), part : Nat, text : Nat,
              thought : BOOLEAN, stop : Word]
  /\ IsAdapter(adapter)
  /\ mapper \in MapperState
  /\ IsResponse(res)
  /\ late \in BOOLEAN /\ cooling \in BOOLEAN /\ served \in Nat
  /\ cache \in [BOOLEAN -> Reply]

(* Where a request is tells what it has so far: nothing before the cache   *)
(* is asked, and an open response as long as its provider call goes on     *)
Early == {"auth", "limit", "validate", "map", "prepare", "lookup"}

PhaseInv ==
  /\ pc \in Early \cup {"idle", "live", "collect", "store", "ended"}
  /\ pc # "idle" => req.facade \in Facades
  /\ pc \in Early \cup {"idle"} =>
       res = NewResponse /\ mapper = NewMapper /\ ~late /\ sdk = NewSdk /\ adapter = NewAdapter
  /\ pc \in {"live", "collect", "store"} => res.source = "live" /\ ~res.ended
  /\ pc = "live" /\ ~req.stream => res.status = 0 /\ res.lines = <<>> /\ sdk = NewSdk
  /\ pc = "live" /\ req.stream => res.status = 200
  /\ pc \in {"collect", "store"} => req.stream /\ res.metaEmitted
  /\ pc = "live" /\ sdk.open => res.metaEmitted
  /\ pc = "ended" => res.ended
  /\ late => res.source = "live" /\ req.stream /\ res.metaEmitted
  /\ res.source = "cache" => pc = "ended"

(* Only whole answers without calls are kept *)
CacheInv ==
  \A thinking \in BOOLEAN :
    cache[thinking] # NoAnswer => cache[thinking].finish = "stop" /\ cache[thinking].calls = <<>>

(* What an adapter holds follows what its vendor has sent: n calls, and    *)
(* part fragments of the next one                                          *)
ResponsesEntries(k) ==
  [i \in 1 .. k |-> [key |-> CallNames[i], id |-> CallNames[i], args |-> FullArgs]]

Registered(k) == {[ix |-> i, id |-> CallNames[i]] : i \in 1 .. k}

ResponsesHolds(a, n, part) ==
  /\ part <= 2
  /\ a.calls = ResponsesEntries(IF part = 2 THEN n + 1 ELSE n)
  /\ a.itemIdToCallId = Registered(IF part = 0 THEN n ELSE n + 1)

ChatEntries(n, k) ==
  [i \in 1 .. k |-> [key |-> i, id |-> CallNames[i],
                     args |-> IF i <= n THEN FullArgs ELSE <<"a1">>]]

ChatCompletionsHolds(a, n, part) == part <= 1 /\ a.calls = ChatEntries(n, n + part)

GoogleHolds(a, n, part) ==
  /\ part = 0
  /\ a.lastChunk.kind = "call" =>
       n > 0 /\ a.lastChunk.id = CallNames[n] /\ a.lastChunk.args = FullArgs

AdapterHolds(type, a, n, part) ==
  /\ type = "openai" => ResponsesHolds(a, n, part)
  /\ type = "openai-compatible" => ChatCompletionsHolds(a, n, part)
  /\ type = "google" => GoogleHolds(a, n, part)
  /\ type = "anthropic" => part = 0

AdapterInv ==
  pc \in {"live", "collect", "store"} /\ req.stream =>
    /\ Len(sdk.calls) <= Len(CallNames)
    /\ sdk.part > 0 => Len(sdk.calls) < Len(CallNames)
    /\ \A i \in 1 .. Len(sdk.calls) : sdk.calls[i] = CallNames[i]
    /\ pc # "live" => sdk.part = 0
    /\ AdapterHolds(AttemptType, adapter, Len(sdk.calls), sdk.part)

BaseInv == FacadeTypeOK /\ PhaseInv /\ CacheInv /\ AdapterInv

-----------------------------------------------------------------------------
(* Types *)

(* The words of the code. *)
LEMMA WordsOfCode ==
  /\ "none" \in Word /\ "meta" \in Word /\ "role" \in Word
  /\ "content" \in Word /\ "thinking" \in Word /\ "finish" \in Word
  /\ "[DONE]" \in Word /\ "tool_call" \in Word /\ "error" \in Word
  /\ "message_start" \in Word /\ "block_start" \in Word /\ "block_delta" \in Word
  /\ "block_stop" \in Word /\ "message_delta" \in Word /\ "message_stop" \in Word
  /\ "text" \in Word /\ "tool_use" \in Word /\ "max_tokens" \in Word
  /\ "refusal" \in Word /\ "end_turn" \in Word /\ "tool_calls" \in Word
  /\ "length" \in Word /\ "content_filter" \in Word /\ "stop" \in Word
  /\ "a1" \in Word /\ "a2" \in Word /\ "t1" \in Word
  /\ "t2" \in Word /\ "late" \in Word
  BY DEF Word

(* The words of the errors. *)
LEMMA WordsOfErrors ==
  /\ "rate_limit_error" \in Word /\ "authentication_error" \in Word
  /\ "server_error" \in Word /\ "invalid_request_error" \in Word /\ "api_error" \in Word
  /\ "GATEWAY_KEY_NOT_CONFIGURED" \in Word /\ "GATEWAY_KEY_MISSING" \in Word
  /\ "GATEWAY_KEY_INVALID" \in Word /\ "RATE_LIMITED" \in Word
  /\ "MODEL_ALIAS_NOT_FOUND" \in Word /\ "STREAMING_NOT_SUPPORTED" \in Word
  /\ "VALIDATION_FAILED" \in Word /\ "TOOLS_NOT_SUPPORTED" \in Word
  /\ "MODEL_NOT_ALLOWED" \in Word /\ "THINKING_NOT_SUPPORTED" \in Word
  /\ "PROVIDER_RATE_LIMITED" \in Word /\ "PROVIDER_UNAVAILABLE" \in Word
  BY DEF Word

(* The ids of calls and items are words. *)
LEMMA Ids ==
  /\ Len(CallNames) \in Nat /\ DOMAIN CallNames = 1 .. Len(CallNames)
  /\ CallNames \in Seq(Word)
  /\ \A i \in 1 .. Len(CallNames) : CallNames[i] \in Word /\ CallNames[i] # None
  /\ \A i, j \in 1 .. Len(CallNames) : CallNames[i] = CallNames[j] => i = j
  /\ \A i \in 1 .. Len(CallNames) : ItemIds[i] \in Word
<1>1. /\ CallNames \in Seq(Range(CallNames) \ {None}) /\ ItemIds \in Seq(Range(ItemIds))
      /\ Len(ItemIds) >= Len(CallNames) /\ IsInjective(CallNames)
  BY BoundsAssumption
<1>2. Range(CallNames) \subseteq Word /\ Range(ItemIds) \subseteq Word
  BY DEF Word
<1>3. /\ Len(CallNames) \in Nat /\ DOMAIN CallNames = 1 .. Len(CallNames)
      /\ \A i \in 1 .. Len(CallNames) : CallNames[i] \in Range(CallNames) \ {None}
      /\ CallNames \in [1 .. Len(CallNames) -> Range(CallNames) \ {None}]
      /\ Len(ItemIds) \in Nat
      /\ \A i \in 1 .. Len(ItemIds) : ItemIds[i] \in Range(ItemIds)
  BY <1>1, SeqIs
<1>4. CallNames \in [1 .. Len(CallNames) -> Word]
  BY <1>2, <1>3
<1>5. CallNames \in Seq(Word)
  BY <1>3, <1>4, SeqOf
<1>6. \A i, j \in 1 .. Len(CallNames) : CallNames[i] = CallNames[j] => i = j
  BY <1>1, <1>3 DEF IsInjective
<1>. QED  BY <1>1, <1>2, <1>3, <1>5, <1>6

(* Lines are lines. *)
LEMMA LineTyped ==
  ASSUME NEW ev \in Word, NEW ix \in Int, NEW data \in Seq(Word)
  PROVE  /\ Line(ev, ix, data) \in WireLine
         /\ Line(ev, ix, data).ev = ev /\ Line(ev, ix, data).ix = ix
         /\ Line(ev, ix, data).data = data
  BY DEF Line, WireLine

(* Most lines carry no index. *)
LEMMA LineZero ==
  ASSUME NEW ev \in Word, NEW data \in Seq(Word)
  PROVE  /\ Line(ev, 0, data) \in WireLine
         /\ Line(ev, 0, data).ev = ev /\ Line(ev, 0, data).data = data
  BY DEF Line, WireLine

(* One line on its own. *)
LEMMA OneLine ==
  ASSUME NEW l \in WireLine
  PROVE  <<l>> \in Seq(WireLine) /\ Len(<<l>>) = 1 /\ <<l>>[1] = l
  OBVIOUS

(* Strings in a sequence. *)
LEMMA Words ==
  /\ <<>> \in Seq(Word)
  /\ \A a \in Word : <<a>> \in Seq(Word) /\ Len(<<a>>) = 1 /\ <<a>>[1] = a
  /\ \A a, b \in Word : <<a, b>> \in Seq(Word) /\ <<a, b>>[1] = a /\ <<a, b>>[2] = b
<1>1. <<>> \in Seq(Word)
  OBVIOUS
<1>2. ASSUME NEW a \in Word PROVE <<a>> \in Seq(Word) /\ Len(<<a>>) = 1 /\ <<a>>[1] = a
  OBVIOUS
<1>3. ASSUME NEW a \in Word, NEW b \in Word
      PROVE  <<a, b>> \in Seq(Word) /\ <<a, b>>[1] = a /\ <<a, b>>[2] = b
  OBVIOUS
<1>. QED  BY <1>1, <1>2, <1>3

(* The lines of the calls of an answer, outside the Anthropic stream. *)
CallWire(calls) ==
  [i \in DOMAIN calls |-> Line("tool_call", i - 1, <<calls[i].id>> \o calls[i].args)]

(* They are lines, one for each call. *)
LEMMA CallWireTyped ==
  ASSUME NEW calls \in Seq(ToolCall)
  PROVE  /\ CallWire(calls) \in Seq(WireLine)
         /\ Len(CallWire(calls)) = Len(calls)
         /\ \A i \in 1 .. Len(calls) :
              /\ <<calls[i].id>> \o calls[i].args \in Seq(Word)
              /\ CallWire(calls)[i] = Line("tool_call", i - 1, <<calls[i].id>> \o calls[i].args)
<1>1. Len(calls) \in Nat /\ DOMAIN calls = 1 .. Len(calls)
  BY SeqIs
<1>2. ASSUME NEW i \in 1 .. Len(calls)
      PROVE  /\ <<calls[i].id>> \o calls[i].args \in Seq(Word)
             /\ Line("tool_call", i - 1, <<calls[i].id>> \o calls[i].args) \in WireLine
  <2>1. calls[i] \in ToolCall
    BY SeqIs
  <2>2. calls[i].id \in Word /\ calls[i].args \in Seq(Word)
    BY <2>1 DEF ToolCall
  <2>3. <<calls[i].id>> \o calls[i].args \in Seq(Word)
    BY <2>2, Words, Joined
  <2>4. i - 1 \in Int
    BY <1>1
  <2>. QED  BY <2>3, <2>4, LineTyped, WordsOfCode
<1>3. CallWire(calls) \in [1 .. Len(calls) -> WireLine]
  BY <1>1, <1>2 DEF CallWire
<1>4. \A i \in 1 .. Len(calls) :
        CallWire(calls)[i] = Line("tool_call", i - 1, <<calls[i].id>> \o calls[i].args)
  BY <1>1 DEF CallWire
<1>. QED  BY <1>1, <1>2, <1>3, <1>4, SeqOf

(* A whole block is three lines. *)
BlockType == [data : Seq(Word), args : Seq(Word)]

(* The blocks of a done event: three lines each, numbered one after the    *)
(* other.                                                                  *)
LEMMA WholeBlocksTyped ==
  ASSUME NEW m \in MapperState, NEW blocks \in Seq(BlockType)
  PROVE  /\ WholeBlocks(m, blocks) \in Seq(WireLine)
         /\ Len(WholeBlocks(m, blocks)) = 3 * Len(blocks)
         /\ \A n \in 1 .. Len(blocks) :
              /\ WholeBlocks(m, blocks)[3 * n - 2] =
                   Line("block_start", nextToolBlockIndex(m, n), blocks[n].data)
              /\ WholeBlocks(m, blocks)[3 * n - 1] =
                   Line("block_delta", nextToolBlockIndex(m, n), blocks[n].args)
              /\ WholeBlocks(m, blocks)[3 * n] =
                   Line("block_stop", nextToolBlockIndex(m, n), <<>>)
<1>1. Len(blocks) \in Nat
  BY SeqIs
<1>2. \A n \in 1 .. Len(blocks) : blocks[n].data \in Seq(Word) /\ blocks[n].args \in Seq(Word)
  <2>1. \A n \in 1 .. Len(blocks) : blocks[n] \in BlockType
    BY SeqIs
  <2>. QED  BY <2>1 DEF BlockType
<1>3. \A n \in 1 .. Len(blocks) : nextToolBlockIndex(m, n) \in Int
  BY <1>1 DEF nextToolBlockIndex, MapperState
<1>4. ASSUME NEW n \in 1 .. Len(blocks)
      PROVE  /\ WholeBlock(nextToolBlockIndex(m, n), blocks[n])[1] =
                  Line("block_start", nextToolBlockIndex(m, n), blocks[n].data)
             /\ WholeBlock(nextToolBlockIndex(m, n), blocks[n])[2] =
                  Line("block_delta", nextToolBlockIndex(m, n), blocks[n].args)
             /\ WholeBlock(nextToolBlockIndex(m, n), blocks[n])[3] =
                  Line("block_stop", nextToolBlockIndex(m, n), <<>>)
             /\ \A j \in 1 .. 3 : WholeBlock(nextToolBlockIndex(m, n), blocks[n])[j] \in WireLine
  <2>1. /\ Line("block_start", nextToolBlockIndex(m, n), blocks[n].data) \in WireLine
        /\ Line("block_delta", nextToolBlockIndex(m, n), blocks[n].args) \in WireLine
        /\ Line("block_stop", nextToolBlockIndex(m, n), <<>>) \in WireLine
    <3>1. "block_start" \in Word /\ "block_delta" \in Word /\ "block_stop" \in Word
      BY WordsOfCode
    <3>2. /\ blocks[n].data \in Seq(Word) /\ blocks[n].args \in Seq(Word)
          /\ <<>> \in Seq(Word) /\ nextToolBlockIndex(m, n) \in Int
      BY <1>2, <1>3, Words
    <3>. QED  BY <3>1, <3>2, LineTyped
  <2>2. \A j \in 1 .. 3 : j = 1 \/ j = 2 \/ j = 3
    OBVIOUS
  <2>. QED  BY <2>1, <2>2 DEF WholeBlock
<1>. DEFINE N(i) == (i + 2) \div 3
            J(i) == ((i - 1) % 3) + 1
            At(i) == WholeBlock(nextToolBlockIndex(m, N(i)), blocks[N(i)])[J(i)]
<1>5. \A i \in 1 .. 3 * Len(blocks) : N(i) \in 1 .. Len(blocks) /\ J(i) \in 1 .. 3
  BY <1>1
<1>6. \A n \in 1 .. Len(blocks) :
        /\ N(3 * n - 2) = n /\ J(3 * n - 2) = 1 /\ 3 * n - 2 \in 1 .. 3 * Len(blocks)
        /\ N(3 * n - 1) = n /\ J(3 * n - 1) = 2 /\ 3 * n - 1 \in 1 .. 3 * Len(blocks)
        /\ N(3 * n) = n /\ J(3 * n) = 3 /\ 3 * n \in 1 .. 3 * Len(blocks)
  BY <1>1
<1>7. WholeBlocks(m, blocks) = [i \in 1 .. 3 * Len(blocks) |-> At(i)]
  BY DEF WholeBlocks
<1>. HIDE DEF N, J
<1>8. \A i \in 1 .. 3 * Len(blocks) : At(i) \in WireLine
  BY <1>4, <1>5
<1>9. \A n \in 1 .. Len(blocks) :
        /\ At(3 * n - 2) = Line("block_start", nextToolBlockIndex(m, n), blocks[n].data)
        /\ At(3 * n - 1) = Line("block_delta", nextToolBlockIndex(m, n), blocks[n].args)
        /\ At(3 * n) = Line("block_stop", nextToolBlockIndex(m, n), <<>>)
  BY <1>4, <1>6
<1>. HIDE DEF At
<1>10. WholeBlocks(m, blocks) \in [1 .. 3 * Len(blocks) -> WireLine]
  BY <1>7, <1>8
<1>11. 3 * Len(blocks) \in Nat
  BY <1>1
<1>12. /\ WholeBlocks(m, blocks) \in Seq(WireLine)
       /\ Len(WholeBlocks(m, blocks)) = 3 * Len(blocks)
  BY <1>10, <1>11, SeqOf
<1>13. \A i \in 1 .. 3 * Len(blocks) : WholeBlocks(m, blocks)[i] = At(i)
  BY <1>7
<1>. QED  BY <1>6, <1>9, <1>12, <1>13

(* The blocks a done event adds to an Anthropic stream: thinking first *)
ThinkingBlock(answer, m) ==
  IF answer.thought /\ ~m.thinkingBlockEmitted
  THEN << [data |-> <<"thinking">>, args |-> <<>>] >> ELSE <<>>

ToolBlocks(answer) ==
  [i \in DOMAIN answer.calls |->
     [data |-> <<"tool_use", answer.calls[i].id>>, args |-> answer.calls[i].args]]

DoneBlocks(answer, m) == ThinkingBlock(answer, m) \o ToolBlocks(answer)

ClosedText(m) == IF m.textBlockStarted THEN <<Line("block_stop", m.blockIndex, <<>>)>> ELSE <<>>

MessageEnd(answer) ==
  << Line("message_delta", 0, <<mapGatewayFinishReasonToAnthropicStopReason(answer.finish)>>),
     Line("message_stop", 0, <<>>) >>

OpenedText(m) ==
  IF m.textBlockStarted THEN <<>> ELSE <<Line("block_start", m.blockIndex, <<"text">>)>>

(* What the Anthropic mapper makes of each event. *)
LEMMA AnthropicEvents ==
  ASSUME NEW m, NEW text, NEW answer
  PROVE  /\ mapSseEventToAnthropic(Meta, m) =
              [lines |-> IF m.sent THEN <<>> ELSE <<Line("message_start", 0, <<>>)>>,
               mapper |-> [m EXCEPT !.sent = TRUE]]
         /\ mapSseEventToAnthropic(Delta(text), m) =
              [lines |-> OpenedText(m) \o <<Line("block_delta", m.blockIndex, text)>>,
               mapper |-> [m EXCEPT !.textBlockStarted = TRUE]]
         /\ mapSseEventToAnthropic(Done(answer), m) =
              [lines |-> ClosedText(m) \o WholeBlocks(m, DoneBlocks(answer, m))
                         \o MessageEnd(answer),
               mapper |-> [m EXCEPT !.blockIndex = @ + Len(DoneBlocks(answer, m)),
                                    !.thinkingBlockEmitted = @ \/ answer.thought]]
<1>1. Meta.name = "meta" /\ Delta(text).name = "delta" /\ Delta(text).text = text
  BY DEF Meta, Delta
<1>2. /\ Done(answer).name = "done" /\ Done(answer).calls = answer.calls
      /\ Done(answer).finish = answer.finish /\ Done(answer).thought = answer.thought
  BY DEF Done
<1>3. mapSseEventToAnthropic(Meta, m) =
        [lines |-> IF m.sent THEN <<>> ELSE <<Line("message_start", 0, <<>>)>>,
         mapper |-> [m EXCEPT !.sent = TRUE]]
  BY <1>1 DEF mapSseEventToAnthropic
<1>4. mapSseEventToAnthropic(Delta(text), m) =
        [lines |-> OpenedText(m) \o <<Line("block_delta", m.blockIndex, text)>>,
         mapper |-> [m EXCEPT !.textBlockStarted = TRUE]]
  BY <1>1 DEF mapSseEventToAnthropic, OpenedText
<1>5. mapSseEventToAnthropic(Done(answer), m) =
        [lines |-> ClosedText(m) \o WholeBlocks(m, DoneBlocks(answer, m))
                   \o MessageEnd(answer),
         mapper |-> [m EXCEPT !.blockIndex = @ + Len(DoneBlocks(answer, m)),
                              !.thinkingBlockEmitted = @ \/ answer.thought]]
  BY <1>2 DEF mapSseEventToAnthropic, ClosedText, DoneBlocks, ThinkingBlock, ToolBlocks, MessageEnd
<1>. QED  BY <1>3, <1>4, <1>5

(* What the OpenAI mapper makes of each event. *)
LEMMA OpenAiEvents ==
  ASSUME NEW m, NEW text, NEW answer
  PROVE  /\ mapSseEventToOpenAi(Meta, m) =
              [lines |-> IF m.sent THEN <<>> ELSE <<Line("role", 0, <<>>)>>,
               mapper |-> [m EXCEPT !.sent = TRUE]]
         /\ mapSseEventToOpenAi(Delta(text), m) =
              [lines |-> <<Line("content", 0, text)>>, mapper |-> m]
         /\ mapSseEventToOpenAi(Done(answer), m) =
              [lines |-> CallWire(answer.calls)
                         \o << Line("finish", 0, <<resolveOpenAiFinishReason(Done(answer))>>),
                               Line("[DONE]", 0, <<>>) >>,
               mapper |-> m]
<1>1. Meta.name = "meta" /\ Delta(text).name = "delta" /\ Delta(text).text = text
  BY DEF Meta, Delta
<1>2. Done(answer).name = "done" /\ Done(answer).calls = answer.calls
  BY DEF Done
<1>3. mapSseEventToOpenAi(Meta, m) =
        [lines |-> IF m.sent THEN <<>> ELSE <<Line("role", 0, <<>>)>>,
         mapper |-> [m EXCEPT !.sent = TRUE]]
  BY <1>1 DEF mapSseEventToOpenAi
<1>4. mapSseEventToOpenAi(Delta(text), m) = [lines |-> <<Line("content", 0, text)>>, mapper |-> m]
  BY <1>1 DEF mapSseEventToOpenAi
<1>5. mapSseEventToOpenAi(Done(answer), m) =
        [lines |-> CallWire(answer.calls)
                   \o << Line("finish", 0, <<resolveOpenAiFinishReason(Done(answer))>>),
                         Line("[DONE]", 0, <<>>) >>,
         mapper |-> m]
  BY <1>2 DEF mapSseEventToOpenAi, CallWire
<1>. QED  BY <1>3, <1>4, <1>5

ThoughtLine(answer) == IF answer.thought THEN <<Line("thinking", 0, <<>>)>> ELSE <<>>

(* What the native stream makes of each event. *)
LEMMA NativeEvents ==
  ASSUME NEW m, NEW text, NEW answer
  PROVE  /\ serialize(Meta, m) = [lines |-> <<Line("meta", 0, <<>>)>>, mapper |-> m]
         /\ serialize(Delta(text), m) = [lines |-> <<Line("content", 0, text)>>, mapper |-> m]
         /\ serialize(Done(answer), m) =
              [lines |-> CallWire(answer.calls) \o ThoughtLine(answer)
                         \o <<Line("finish", 0, <<answer.finish>>)>>,
               mapper |-> m]
<1>1. Meta.name = "meta" /\ Delta(text).name = "delta" /\ Delta(text).text = text
  BY DEF Meta, Delta
<1>2. /\ Done(answer).name = "done" /\ Done(answer).calls = answer.calls
      /\ Done(answer).finish = answer.finish /\ Done(answer).thought = answer.thought
  BY DEF Done
<1>3. serialize(Meta, m) = [lines |-> <<Line("meta", 0, <<>>)>>, mapper |-> m]
  BY <1>1 DEF serialize
<1>4. serialize(Delta(text), m) = [lines |-> <<Line("content", 0, text)>>, mapper |-> m]
  BY <1>1 DEF serialize
<1>5. serialize(Done(answer), m) =
        [lines |-> CallWire(answer.calls) \o ThoughtLine(answer)
                   \o <<Line("finish", 0, <<answer.finish>>)>>,
         mapper |-> m]
  BY <1>2 DEF serialize, CallWire, ThoughtLine
<1>. QED  BY <1>3, <1>4, <1>5

(* The reasons for stopping the facades give. *)
LEMMA StopWords ==
  ASSUME NEW finish, NEW e
  PROVE  /\ mapGatewayFinishReasonToAnthropicStopReason(finish) \in Word
         /\ resolveOpenAiFinishReason(e) \in Word
<1>1. mapGatewayFinishReasonToAnthropicStopReason(finish) \in {"tool_use", "max_tokens", "refusal", "end_turn"}
  BY DEF mapGatewayFinishReasonToAnthropicStopReason
<1>2. resolveOpenAiFinishReason(e) \in {"tool_calls", "length", "content_filter", "stop"}
  BY DEF resolveOpenAiFinishReason
<1>3. {"tool_use", "max_tokens", "refusal", "end_turn"} \subseteq Word
  BY WordsOfCode
<1>4. {"tool_calls", "length", "content_filter", "stop"} \subseteq Word
  BY WordsOfCode
<1>. QED  BY <1>1, <1>2, <1>3, <1>4

(* The blocks of an answer are blocks, the tool calls after the thought. *)
LEMMA DoneBlocksTyped ==
  ASSUME NEW answer \in Reply, NEW m \in MapperState
  PROVE  /\ DoneBlocks(answer, m) \in Seq(BlockType)
         /\ ThinkingBlock(answer, m) \in Seq(BlockType)
         /\ ToolBlocks(answer) \in Seq(BlockType)
         /\ Len(ToolBlocks(answer)) = Len(answer.calls)
         /\ \A i \in 1 .. Len(answer.calls) :
              ToolBlocks(answer)[i] = [data |-> <<"tool_use", answer.calls[i].id>>,
                                       args |-> answer.calls[i].args]
<1>1. answer.calls \in Seq(ToolCall)
  BY DEF Reply
<1>2. Len(answer.calls) \in Nat /\ DOMAIN answer.calls = 1 .. Len(answer.calls)
  BY <1>1, SeqIs
<1>3. ASSUME NEW i \in 1 .. Len(answer.calls)
      PROVE  [data |-> <<"tool_use", answer.calls[i].id>>, args |-> answer.calls[i].args] \in BlockType
  <2>1. answer.calls[i] \in ToolCall
    BY <1>1, SeqIs
  <2>2. answer.calls[i].id \in Word /\ answer.calls[i].args \in Seq(Word)
    BY <2>1 DEF ToolCall
  <2>3. <<"tool_use", answer.calls[i].id>> \in Seq(Word)
    BY <2>2, Words, WordsOfCode
  <2>. QED  BY <2>2, <2>3 DEF BlockType
<1>4. ToolBlocks(answer) \in [1 .. Len(answer.calls) -> BlockType]
  BY <1>2, <1>3 DEF ToolBlocks
<1>5. ToolBlocks(answer) \in Seq(BlockType) /\ Len(ToolBlocks(answer)) = Len(answer.calls)
  BY <1>2, <1>4, SeqOf
<1>6. ThinkingBlock(answer, m) \in Seq(BlockType)
  <2>1. <<"thinking">> \in Seq(Word) /\ <<>> \in Seq(Word)
    BY Words, WordsOfCode
  <2>2. [data |-> <<"thinking">>, args |-> <<>>] \in BlockType
    BY <2>1 DEF BlockType
  <2>. QED  BY <2>2 DEF ThinkingBlock
<1>7. DoneBlocks(answer, m) \in Seq(BlockType)
  BY <1>5, <1>6, Joined DEF DoneBlocks
<1>8. \A i \in 1 .. Len(answer.calls) :
        ToolBlocks(answer)[i] = [data |-> <<"tool_use", answer.calls[i].id>>,
                                 args |-> answer.calls[i].args]
  BY <1>2 DEF ToolBlocks
<1>. QED  BY <1>5, <1>6, <1>7, <1>8

(* The fixed parts of the streams are lines. *)
LEMMA PartsTyped ==
  ASSUME NEW answer \in Reply, NEW m \in MapperState, NEW text \in Seq(Word)
  PROVE  /\ OpenedText(m) \in Seq(WireLine) /\ ClosedText(m) \in Seq(WireLine)
         /\ <<Line("block_delta", m.blockIndex, text)>> \in Seq(WireLine)
         /\ MessageEnd(answer) \in Seq(WireLine) /\ ThoughtLine(answer) \in Seq(WireLine)
         /\ <<Line("content", 0, text)>> \in Seq(WireLine)
         /\ <<Line("finish", 0, <<answer.finish>>)>> \in Seq(WireLine)
         /\ << Line("finish", 0, <<resolveOpenAiFinishReason(Done(answer))>>),
               Line("[DONE]", 0, <<>>) >> \in Seq(WireLine)
<1>1. m.blockIndex \in Int /\ answer.finish \in Word
  BY DEF MapperState, Reply
<1>2. /\ <<"text">> \in Seq(Word) /\ <<>> \in Seq(Word) /\ <<answer.finish>> \in Seq(Word)
      /\ <<mapGatewayFinishReasonToAnthropicStopReason(answer.finish)>> \in Seq(Word)
      /\ <<resolveOpenAiFinishReason(Done(answer))>> \in Seq(Word)
  BY <1>1, Words, WordsOfCode, StopWords
<1>3. /\ Line("block_start", m.blockIndex, <<"text">>) \in WireLine
      /\ Line("block_stop", m.blockIndex, <<>>) \in WireLine
      /\ Line("block_delta", m.blockIndex, text) \in WireLine
  BY <1>1, <1>2, LineTyped, WordsOfCode
<1>4. /\ Line("message_delta", 0, <<mapGatewayFinishReasonToAnthropicStopReason(answer.finish)>>)
           \in WireLine
      /\ Line("message_stop", 0, <<>>) \in WireLine
      /\ Line("thinking", 0, <<>>) \in WireLine
  BY <1>2, LineZero, WordsOfCode
<1>5. /\ Line("content", 0, text) \in WireLine
      /\ Line("finish", 0, <<answer.finish>>) \in WireLine
      /\ Line("finish", 0, <<resolveOpenAiFinishReason(Done(answer))>>) \in WireLine
      /\ Line("[DONE]", 0, <<>>) \in WireLine
  BY <1>2, LineZero, WordsOfCode
<1>6. OpenedText(m) \in Seq(WireLine) /\ ClosedText(m) \in Seq(WireLine)
  BY <1>3 DEF OpenedText, ClosedText
<1>7. MessageEnd(answer) \in Seq(WireLine) /\ ThoughtLine(answer) \in Seq(WireLine)
  BY <1>4 DEF MessageEnd, ThoughtLine
<1>8. /\ <<Line("block_delta", m.blockIndex, text)>> \in Seq(WireLine)
      /\ <<Line("content", 0, text)>> \in Seq(WireLine)
      /\ <<Line("finish", 0, <<answer.finish>>)>> \in Seq(WireLine)
  BY <1>3, <1>5, OneLine
<1>9. << Line("finish", 0, <<resolveOpenAiFinishReason(Done(answer))>>),
         Line("[DONE]", 0, <<>>) >> \in Seq(WireLine)
  BY <1>5
<1>. QED  BY <1>6, <1>7, <1>8, <1>9

(* The three facades. *)
LEMMA FacadeIs ==
  ASSUME req.facade \in Facades
  PROVE  req.facade \in {"native", "openai", "anthropic"}
  BY BoundsAssumption

(* The mapper of the facade in charge. *)
LEMMA MapEventIs ==
  ASSUME NEW e, NEW m
  PROVE  /\ req.facade = "anthropic" => MapEvent(e, m) = mapSseEventToAnthropic(e, m)
         /\ req.facade = "openai" => MapEvent(e, m) = mapSseEventToOpenAi(e, m)
         /\ req.facade = "native" => MapEvent(e, m) = serialize(e, m)
  BY DEF MapEvent

(* A step of a mapper gives lines and keeps a mapper's state. *)
Mapped(step) == step.lines \in Seq(WireLine) /\ step.mapper \in MapperState

(* A step is mapped if its parts are. *)
LEMMA MappedIs ==
  ASSUME NEW step, NEW lines \in Seq(WireLine), NEW m \in MapperState,
         step = [lines |-> lines, mapper |-> m]
  PROVE  Mapped(step)
  BY DEF Mapped

(* Every event is mapped to lines, whatever the facade. *)
LEMMA MapEventTyped ==
  ASSUME req.facade \in Facades, NEW m \in MapperState, NEW text \in Seq(Word),
         NEW answer \in Reply
  PROVE  Mapped(MapEvent(Meta, m)) /\ Mapped(MapEvent(Delta(text), m))
           /\ Mapped(MapEvent(Done(answer), m))
<1>1. answer.thought \in BOOLEAN /\ answer.calls \in Seq(ToolCall)
  BY DEF Reply
<1>2. /\ [m EXCEPT !.sent = TRUE] \in MapperState
      /\ [m EXCEPT !.textBlockStarted = TRUE] \in MapperState
  BY DEF MapperState
<1>3. CASE req.facade = "anthropic"
  <2>1. MapEvent(Meta, m) = mapSseEventToAnthropic(Meta, m)
    BY <1>3, MapEventIs
  <2>2. MapEvent(Delta(text), m) = mapSseEventToAnthropic(Delta(text), m)
    BY <1>3, MapEventIs
  <2>3. MapEvent(Done(answer), m) = mapSseEventToAnthropic(Done(answer), m)
    BY <1>3, MapEventIs
  <2>4. Mapped(MapEvent(Meta, m))
    <3>1. Line("message_start", 0, <<>>) \in WireLine
      BY LineZero, Words, WordsOfCode
    <3>2. (IF m.sent THEN <<>> ELSE <<Line("message_start", 0, <<>>)>>) \in Seq(WireLine)
      BY <3>1
    <3>3. MapEvent(Meta, m) = [lines |-> IF m.sent THEN <<>> ELSE <<Line("message_start", 0, <<>>)>>,
                               mapper |-> [m EXCEPT !.sent = TRUE]]
      BY <2>1, AnthropicEvents
    <3>. QED  BY <3>2, <3>3, <1>2, MappedIs
  <2>5. Mapped(MapEvent(Delta(text), m))
    <3>1. OpenedText(m) \o <<Line("block_delta", m.blockIndex, text)>> \in Seq(WireLine)
      BY PartsTyped, Joined
    <3>2. MapEvent(Delta(text), m) =
            [lines |-> OpenedText(m) \o <<Line("block_delta", m.blockIndex, text)>>,
             mapper |-> [m EXCEPT !.textBlockStarted = TRUE]]
      BY <2>2, AnthropicEvents
    <3>. QED  BY <3>1, <3>2, <1>2, MappedIs
  <2>6. Mapped(MapEvent(Done(answer), m))
    <3>. DEFINE blocks == DoneBlocks(answer, m)
    <3>1. blocks \in Seq(BlockType)
      BY DoneBlocksTyped
    <3>2. Len(blocks) \in Nat
      BY <3>1, SeqIs
    <3>. HIDE DEF blocks
    <3>3. WholeBlocks(m, blocks) \in Seq(WireLine)
      BY <3>1, WholeBlocksTyped
    <3>4. ClosedText(m) \o WholeBlocks(m, blocks) \o MessageEnd(answer) \in Seq(WireLine)
      BY <3>3, PartsTyped, Joined
    <3>5. [m EXCEPT !.blockIndex = @ + Len(blocks), !.thinkingBlockEmitted = @ \/ answer.thought]
            \in MapperState
      <4>1. m.blockIndex + Len(blocks) \in Nat
        BY <3>2 DEF MapperState
      <4>2. (m.thinkingBlockEmitted \/ answer.thought) \in BOOLEAN
        OBVIOUS
      <4>. QED  BY <4>1, <4>2, Zenon DEF MapperState
    <3>6. MapEvent(Done(answer), m) =
            [lines |-> ClosedText(m) \o WholeBlocks(m, blocks) \o MessageEnd(answer),
             mapper |-> [m EXCEPT !.blockIndex = @ + Len(blocks),
                                  !.thinkingBlockEmitted = @ \/ answer.thought]]
      BY <2>3, AnthropicEvents DEF blocks
    <3>. QED  BY <3>4, <3>5, <3>6 DEF Mapped
  <2>. QED  BY <2>4, <2>5, <2>6
<1>4. CASE req.facade = "openai"
  <2>1. MapEvent(Meta, m) = mapSseEventToOpenAi(Meta, m)
    BY <1>4, MapEventIs
  <2>2. MapEvent(Delta(text), m) = mapSseEventToOpenAi(Delta(text), m)
    BY <1>4, MapEventIs
  <2>3. MapEvent(Done(answer), m) = mapSseEventToOpenAi(Done(answer), m)
    BY <1>4, MapEventIs
  <2>4. Mapped(MapEvent(Meta, m))
    <3>1. Line("role", 0, <<>>) \in WireLine
      BY LineZero, Words, WordsOfCode
    <3>2. (IF m.sent THEN <<>> ELSE <<Line("role", 0, <<>>)>>) \in Seq(WireLine)
      BY <3>1
    <3>3. MapEvent(Meta, m) = [lines |-> IF m.sent THEN <<>> ELSE <<Line("role", 0, <<>>)>>,
                               mapper |-> [m EXCEPT !.sent = TRUE]]
      BY <2>1, OpenAiEvents
    <3>. QED  BY <3>2, <3>3, <1>2, MappedIs
  <2>5. Mapped(MapEvent(Delta(text), m))
    <3>1. MapEvent(Delta(text), m) = [lines |-> <<Line("content", 0, text)>>, mapper |-> m]
      BY <2>2, OpenAiEvents
    <3>2. <<Line("content", 0, text)>> \in Seq(WireLine)
      BY PartsTyped
    <3>. QED  BY <3>1, <3>2, MappedIs
  <2>6. Mapped(MapEvent(Done(answer), m))
    <3>. DEFINE end == << Line("finish", 0, <<resolveOpenAiFinishReason(Done(answer))>>),
                          Line("[DONE]", 0, <<>>) >>
    <3>1. end \in Seq(WireLine) /\ CallWire(answer.calls) \in Seq(WireLine)
      BY <1>1, PartsTyped, CallWireTyped
    <3>2. MapEvent(Done(answer), m) = [lines |-> CallWire(answer.calls) \o end, mapper |-> m]
      BY <2>3, OpenAiEvents
    <3>. HIDE DEF end
    <3>3. CallWire(answer.calls) \o end \in Seq(WireLine)
      BY <3>1, Joined
    <3>. QED  BY <3>2, <3>3 DEF Mapped
  <2>. QED  BY <2>4, <2>5, <2>6
<1>5. CASE req.facade = "native"
  <2>1. MapEvent(Meta, m) = serialize(Meta, m)
    BY <1>5, MapEventIs
  <2>2. MapEvent(Delta(text), m) = serialize(Delta(text), m)
    BY <1>5, MapEventIs
  <2>3. MapEvent(Done(answer), m) = serialize(Done(answer), m)
    BY <1>5, MapEventIs
  <2>4. Mapped(MapEvent(Meta, m))
    <3>1. Line("meta", 0, <<>>) \in WireLine
      BY LineZero, Words, WordsOfCode
    <3>2. <<Line("meta", 0, <<>>)>> \in Seq(WireLine)
      BY <3>1
    <3>3. MapEvent(Meta, m) = [lines |-> <<Line("meta", 0, <<>>)>>, mapper |-> m]
      BY <2>1, NativeEvents
    <3>. QED  BY <3>2, <3>3, MappedIs
  <2>5. Mapped(MapEvent(Delta(text), m))
    <3>1. MapEvent(Delta(text), m) = [lines |-> <<Line("content", 0, text)>>, mapper |-> m]
      BY <2>2, NativeEvents
    <3>2. <<Line("content", 0, text)>> \in Seq(WireLine)
      BY PartsTyped
    <3>. QED  BY <3>1, <3>2, MappedIs
  <2>6. Mapped(MapEvent(Done(answer), m))
    <3>1. /\ CallWire(answer.calls) \in Seq(WireLine) /\ ThoughtLine(answer) \in Seq(WireLine)
          /\ <<Line("finish", 0, <<answer.finish>>)>> \in Seq(WireLine)
      BY <1>1, PartsTyped, CallWireTyped
    <3>2. CallWire(answer.calls) \o ThoughtLine(answer) \o <<Line("finish", 0, <<answer.finish>>)>>
            \in Seq(WireLine)
      BY <3>1, Joined
    <3>3. MapEvent(Done(answer), m) =
            [lines |-> CallWire(answer.calls) \o ThoughtLine(answer)
                       \o <<Line("finish", 0, <<answer.finish>>)>>,
             mapper |-> m]
      BY <2>3, NativeEvents
    <3>. QED  BY <3>2, <3>3, MappedIs
  <2>. QED  BY <2>4, <2>5, <2>6
<1>. QED  BY <1>3, <1>4, <1>5, FacadeIs

(* An answer as one document. *)
LEMMA DocumentTyped ==
  ASSUME NEW answer \in Reply, NEW thought \in BOOLEAN, NEW finish \in Word
  PROVE  Document(answer, thought, finish) \in Seq(WireLine)
<1>1. answer.text \in Seq(Word) /\ answer.calls \in Seq(ToolCall)
  BY DEF Reply
<1>2. Line("thinking", 0, <<>>) \in WireLine /\ Line("finish", 0, <<finish>>) \in WireLine
  BY LineZero, Words, WordsOfCode
<1>3. Line("content", 0, answer.text) \in WireLine
  BY <1>1, LineZero, WordsOfCode
<1>4. (IF thought THEN <<Line("thinking", 0, <<>>)>> ELSE <<>>) \in Seq(WireLine)
  BY <1>2
<1>5. (IF answer.text # <<>> THEN <<Line("content", 0, answer.text)>> ELSE <<>>) \in Seq(WireLine)
  BY <1>3
<1>6. CallWire(answer.calls) \in Seq(WireLine)
  BY <1>1, CallWireTyped
<1>7. <<Line("finish", 0, <<finish>>)>> \in Seq(WireLine)
  BY <1>2
<1>. QED  BY <1>4, <1>5, <1>6, <1>7, Joined DEF Document, CallWire

(* What the facade in charge writes. *)
LEMMA JsonLinesIs ==
  ASSUME NEW answer \in Reply, req.facade \in Facades
  PROVE  \E thought \in BOOLEAN, finish \in Word :
           /\ JsonLines(answer) = Document(answer, thought, finish)
           /\ req.facade # "openai" => thought = answer.thought
           /\ answer.finish \in {"tool_calls", "length"} => finish \notin {"stop", "end_turn"}
           /\ answer.finish = "stop" => finish \in {"stop", "end_turn"}
<1>1. answer.thought \in BOOLEAN /\ answer.finish \in Word
  BY DEF Reply
<1>2. CASE req.facade = "anthropic"
  <2>1. JsonLines(answer) = Document(answer, answer.thought,
                                     mapGatewayFinishReasonToAnthropicStopReason(answer.finish))
    BY <1>2 DEF JsonLines, mapGatewayResponseToAnthropicFormat
  <2>2. mapGatewayFinishReasonToAnthropicStopReason(answer.finish) \in Word
    BY StopWords
  <2>3. /\ answer.finish \in {"tool_calls", "length"} =>
             mapGatewayFinishReasonToAnthropicStopReason(answer.finish) \notin {"stop", "end_turn"}
        /\ answer.finish = "stop" =>
             mapGatewayFinishReasonToAnthropicStopReason(answer.finish) \in {"stop", "end_turn"}
    BY DEF mapGatewayFinishReasonToAnthropicStopReason
  <2>. QED  BY <1>1, <2>1, <2>2, <2>3
<1>3. CASE req.facade = "openai"
  <2>. DEFINE f == IF answer.finish \in {"tool_calls", "length", "content_filter"}
                   THEN answer.finish ELSE "stop"
  <2>1. JsonLines(answer) = Document(answer, FALSE, f)
    BY <1>3 DEF JsonLines, mapChatResponseToOpenAi
  <2>2. f \in Word
    BY <1>1, WordsOfCode
  <2>3. /\ answer.finish \in {"tool_calls", "length"} => f \notin {"stop", "end_turn"}
        /\ answer.finish = "stop" => f \in {"stop", "end_turn"}
    OBVIOUS
  <2>. HIDE DEF f
  <2>. QED  BY <1>3, <2>1, <2>2, <2>3
<1>4. CASE req.facade = "native"
  <2>1. JsonLines(answer) = Document(answer, answer.thought, answer.finish)
    BY <1>4 DEF JsonLines, NativeDocument
  <2>. QED  BY <1>1, <2>1
<1>. QED  BY <1>2, <1>3, <1>4, FacadeIs

(* It is lines. *)
LEMMA JsonLinesTyped ==
  ASSUME NEW answer \in Reply, req.facade \in Facades
  PROVE  JsonLines(answer) \in Seq(WireLine)
  BY JsonLinesIs, DocumentTyped

(* The recursion over the events of a replay is well founded: each event   *)
(* is emitted on what the one before it left.                              *)
LEMMA EmittedAllIs ==
  ASSUME NEW events, Len(events) \in Nat
  PROVE  /\ EmittedAll(events)[0] = [lines |-> <<>>, mapper |-> mapper]
         /\ \A n \in 1 .. Len(events) :
              EmittedAll(events)[n] = Emitted(EmittedAll(events)[n - 1], events[n])
<1>. DEFINE base == [lines |-> <<>>, mapper |-> mapper]
            R(n, f) == f = [i \in 0 .. n |-> IF i = 0 THEN base ELSE Emitted(f[i - 1], events[i])]
            S == {n \in Nat : \E f : R(n, f)}
<1>1. 0 \in S
  <2>1. R(0, [i \in 0 .. 0 |-> base])
    OBVIOUS
  <2>. QED  BY <2>1
<1>2. ASSUME NEW n \in 0 .. Len(events) - 1, n \in S PROVE n + 1 \in S
  <2>1. PICK f : R(n, f)
    BY <1>2
  <2>. DEFINE g == [i \in 0 .. n + 1 |-> IF i = n + 1 THEN Emitted(f[n], events[n + 1]) ELSE f[i]]
  <2>2. \A i \in 0 .. n : f[i] = IF i = 0 THEN base ELSE Emitted(f[i - 1], events[i])
    BY <2>1
  <2>3. \A i \in 0 .. n + 1 : g[i] = IF i = 0 THEN base ELSE Emitted(g[i - 1], events[i])
    BY <2>2
  <2>4. R(n + 1, g)
    BY <2>3
  <2>. HIDE DEF g
  <2>. QED  BY <2>4
<1>3. Len(events) \in S
  <2>. HIDE DEF S
  <2>1. 0 .. Len(events) \subseteq S
    BY <1>1, <1>2, Induction
  <2>. QED  BY <2>1
<1>4. PICK f : R(Len(events), f)
  BY <1>3
<1>. DEFINE F == EmittedAll(events)
<1>5. F = [i \in 0 .. Len(events) |-> IF i = 0 THEN base ELSE Emitted(F[i - 1], events[i])]
  BY <1>4 DEF EmittedAll
<1>. HIDE DEF F
<1>6. F[0] = base /\ \A i \in 1 .. Len(events) : F[i] = Emitted(F[i - 1], events[i])
  BY <1>5
<1>. QED  BY <1>6 DEF F

(* The chunks of a stored text: chunk i is the text after position         *)
(* Cut(i - 1) and up to Cut(i)                                             *)
ChunkCount(text) == (Len(text) + ChunkSize - 1) \div ChunkSize

Cut(text, i) == IF i * ChunkSize < Len(text) THEN i * ChunkSize ELSE Len(text)

ChunkText(text, i) == SubSeq(text, Cut(text, i - 1) + 1, Cut(text, i))

(* Integer division rounds down. *)
LEMMA DivBelow ==
  ASSUME NEW x \in Int, NEW w \in Nat \ {0}
  PROVE  x \div w \in Int /\ w * (x \div w) <= x /\ x < w * (x \div w) + w
  OBVIOUS

(* Multiples, for the provers. *)
LEMMA Multiples ==
  ASSUME NEW i \in Int, NEW w \in Nat \ {0}
  PROVE  /\ i * w \in Int /\ w * i = i * w /\ (i - 1) * w = i * w - w
         /\ (i + 1) * w = i * w + w
         /\ i >= 0 => i * w >= 0
  OBVIOUS

(* More of them are more. *)
LEMMA MoreMultiples ==
  ASSUME NEW i \in Int, NEW j \in Int, NEW w \in Nat \ {0}
  PROVE  /\ i <= j => i * w <= j * w
         /\ i * w < j * w => i < j
  OBVIOUS

(* The cuts go up from 0 to the end of the text, and all but the last are  *)
(* whole chunks apart.                                                     *)
LEMMA Cuts ==
  ASSUME NEW text \in Seq(Word)
  PROVE  /\ ChunkCount(text) \in Nat
         /\ Cut(text, 0) = 0 /\ Cut(text, ChunkCount(text)) = Len(text)
         /\ \A i \in 1 .. ChunkCount(text) :
              /\ Cut(text, i - 1) = (i - 1) * ChunkSize
              /\ Cut(text, i - 1) \in 0 .. Len(text) /\ Cut(text, i) \in 0 .. Len(text)
              /\ Cut(text, i - 1) <= Cut(text, i)
<1>. DEFINE C == ChunkSize
            L == Len(text)
            K == ChunkCount(text)
<1>1. L \in Nat /\ C \in Nat \ {0}
  BY SeqIs, BoundsAssumption
<1>. HIDE DEF C, L
<1>2. K = (L + C - 1) \div C
  BY DEF ChunkCount, L, C
<1>. HIDE DEF K
<1>3. L + C - 1 \in Int
  BY <1>1
<1>4. K \in Int /\ C * K <= L + C - 1 /\ L + C - 1 < C * K + C
  BY <1>1, <1>2, <1>3, DivBelow
<1>5. C * K = K * C /\ K * C \in Int /\ (K - 1) * C = K * C - C
  BY <1>1, <1>4, Multiples
<1>6. L <= K * C /\ (K - 1) * C < L
  BY <1>1, <1>4, <1>5
<1>7. K \in Nat
  <2>. SUFFICES ASSUME K < 0 PROVE FALSE
    BY <1>4
  <2>1. K * C <= (-1) * C
    BY <1>1, <1>4, MoreMultiples
  <2>2. (-1) * C < 0
    BY <1>1
  <2>. QED  BY <1>1, <1>5, <1>6, <2>1, <2>2
<1>8. Cut(text, 0) = 0 /\ Cut(text, K) = L
  <2>1. 0 * C = 0
    BY <1>1
  <2>. QED  BY <1>1, <1>5, <1>6, <2>1 DEF Cut, L, C
<1>9. ASSUME NEW i \in 1 .. K
      PROVE  /\ Cut(text, i - 1) = (i - 1) * C
             /\ Cut(text, i - 1) \in 0 .. L /\ Cut(text, i) \in 0 .. L
             /\ Cut(text, i - 1) <= Cut(text, i)
  <2>1. i \in Int /\ i - 1 \in Int /\ K - 1 \in Int /\ i - 1 <= K - 1 /\ i - 1 >= 0
    BY <1>4
  <2>2. (i - 1) * C <= (K - 1) * C
    BY <2>1, <1>1, MoreMultiples
  <2>3. (i - 1) * C = i * C - C /\ i * C \in Int /\ (i - 1) * C \in Int
    BY <2>1, <1>1, Multiples
  <2>4. (i - 1) * C >= 0
    BY <2>1, <1>1, Multiples
  <2>5. (K - 1) * C \in Int
    BY <2>1, <1>1, Multiples
  <2>6. (i - 1) * C < L
    BY <2>2, <2>3, <2>5, <1>1, <1>6
  <2>7. Cut(text, i - 1) = (i - 1) * C
    BY <2>6 DEF Cut, L, C
  <2>8. Cut(text, i) = IF i * C < L THEN i * C ELSE L
    BY DEF Cut, L, C
  <2>. QED  BY <1>1, <2>3, <2>4, <2>6, <2>7, <2>8
<1>. QED  BY <1>7, <1>8, <1>9 DEF K, L, C

(* Any event of the gateway. *)
Event == {Meta} \cup {Delta(text) : text \in Seq(Word)} \cup {Done(answer) : answer \in Reply}

(* A stored answer without its calls, which a replay never emits *)
Bare(answer) == [answer EXCEPT !.calls = <<>>]

(* It is an answer, and the same but for the calls. *)
LEMMA BareTyped ==
  ASSUME NEW answer \in Reply
  PROVE  /\ Bare(answer) \in Reply /\ Bare(answer).calls = <<>>
         /\ Bare(answer).finish = answer.finish /\ Bare(answer).thought = answer.thought
<1>1. <<>> \in Seq(ToolCall)
  OBVIOUS
<1>2. Bare(answer) \in Reply
  BY <1>1 DEF Bare, Reply
<1>. QED  BY <1>2 DEF Bare, Reply

(* A replay is meta, the chunks in order, and done. *)
LEMMA ReplayEventsAre ==
  ASSUME NEW answer \in Reply
  PROVE  LET K == ChunkCount(answer.text)
             events == ReplayEvents(answer)
         IN  /\ K \in Nat /\ Len(events) = K + 2
             /\ events[1] = Meta /\ events[K + 2] = Done(Bare(answer))
             /\ \A i \in 1 .. K : /\ events[i + 1] = Delta(ChunkText(answer.text, i))
                                  /\ ChunkText(answer.text, i) \in Seq(Word)
<1>. DEFINE text == answer.text
            K == ChunkCount(text)
            chunks == ReplayChunks(text)
            events == ReplayEvents(answer)
<1>1. text \in Seq(Word)
  BY DEF Reply
<1>2. K \in Nat
  BY <1>1, Cuts
<1>3. ASSUME NEW i \in 1 .. K
      PROVE  ChunkText(text, i) \in Seq(Word)
  <2>1. /\ Cut(text, i - 1) + 1 \in Int /\ Cut(text, i) \in Int
        /\ Cut(text, i - 1) >= 0 /\ Cut(text, i) <= Len(text) /\ Len(text) \in Nat
    BY <1>1, Cuts, SeqIs
  <2>2. \A j \in Cut(text, i - 1) + 1 .. Cut(text, i) : text[j] \in Word
    <3>1. \A j \in 1 .. Len(text) : text[j] \in Word
      BY <1>1, SeqIs
    <3>2. Cut(text, i - 1) \in Int
      BY <1>1, Cuts
    <3>3. \A j \in Cut(text, i - 1) + 1 .. Cut(text, i) : j \in 1 .. Len(text)
      BY <2>1, <3>2
    <3>. QED  BY <3>1, <3>3
  <2>. QED  BY <2>1, <2>2, SubSeqProperties DEF ChunkText
<1>4. chunks = [i \in 1 .. K |-> Delta(ChunkText(text, i))]
  <2>1. \A i \in 1 .. K : Cut(text, i - 1) = (i - 1) * ChunkSize
    BY <1>1, Cuts
  <2>2. ASSUME NEW i \in 1 .. K
        PROVE  SubSeq(text, (i - 1) * ChunkSize + 1,
                      IF i * ChunkSize < Len(text) THEN i * ChunkSize ELSE Len(text))
                 = ChunkText(text, i)
    BY <2>1 DEF ChunkText, Cut
  <2>3. chunks = [i \in 1 .. K |->
                    Delta(SubSeq(text, (i - 1) * ChunkSize + 1,
                      IF i * ChunkSize < Len(text) THEN i * ChunkSize ELSE Len(text)))]
    BY DEF ReplayChunks, ChunkCount
  <2>. HIDE DEF K, chunks
  <2>. QED  BY <2>2, <2>3
<1>. HIDE DEF chunks
<1>5. \A i \in 1 .. K : Delta(ChunkText(text, i)) \in Event
  BY <1>3 DEF Event
<1>6. chunks \in [1 .. K -> Event]
  BY <1>4, <1>5
<1>7. chunks \in Seq(Event) /\ Len(chunks) = K
  BY <1>2, <1>6, SeqOf
<1>8. Meta \in Event /\ Done(Bare(answer)) \in Event
  BY BareTyped DEF Event
<1>9. <<Meta>> \in Seq(Event) /\ <<Done(Bare(answer))>> \in Seq(Event)
  BY <1>8
<1>10. events = <<Meta>> \o chunks \o <<Done(Bare(answer))>>
  BY DEF ReplayEvents, Bare, chunks
<1>. DEFINE front == <<Meta>> \o chunks
<1>. HIDE DEF events, K, text
<1>11. /\ front \in Seq(Event) /\ Len(front) = 1 + K /\ front[1] = Meta
       /\ \A i \in 1 .. K : front[1 + i] = chunks[i]
  <2>1. Len(<<Meta>>) = 1 /\ <<Meta>>[1] = Meta
    OBVIOUS
  <2>. HIDE DEF Event
  <2>. QED  BY <1>2, <1>7, <1>9, <2>1, Joined
<1>. HIDE DEF front
<1>12. /\ Len(events) = K + 2
       /\ \A i \in 1 .. K + 1 : events[i] = front[i]
       /\ events[K + 2] = Done(Bare(answer))
  <2>1. Len(<<Done(Bare(answer))>>) = 1 /\ <<Done(Bare(answer))>>[1] = Done(Bare(answer))
    OBVIOUS
  <2>2. events = front \o <<Done(Bare(answer))>>
    BY <1>10 DEF front
  <2>3. /\ Len(events) = Len(front) + 1
        /\ \A i \in 1 .. Len(front) : events[i] = front[i]
        /\ \A i \in 1 .. 1 : events[Len(front) + i] = <<Done(Bare(answer))>>[i]
    BY <1>9, <1>11, <2>1, <2>2, Joined
  <2>. QED  BY <2>1, <2>3, <1>2, <1>11
<1>13. \A i \in 1 .. K : events[i + 1] = Delta(ChunkText(text, i))
  BY <1>2, <1>4, <1>11, <1>12
<1>14. events[1] = Meta
  BY <1>2, <1>11, <1>12
<1>. QED  BY <1>2, <1>3, <1>12, <1>13, <1>14 DEF K, events, text

-----------------------------------------------------------------------------
(* Adapters *)

(* The type of the provider in charge is one the gateway knows. *)
LEMMA AttemptTyped ==
  ASSUME model \in Models, attempt.alias \in {"primary", "fallback"},
         attempt.alias = "fallback" => model.fallback # None
  PROVE  AttemptType \in {"anthropic", "google", "openai", "openai-compatible"}
  BY ModelsAssumption DEF AttemptType, ProviderTypes

(* Map.set with a key that is not there. *)
LEMMA MapSetNew ==
  ASSUME NEW entries, NEW key, NEW id, NEW args,
         \A i \in DOMAIN entries : entries[i].key # key
  PROVE  MapSet(entries, key, id, args) = Append(entries, [key |-> key, id |-> id, args |-> args])
  BY DEF MapSet

(* Map.set with the key of exactly one entry. *)
LEMMA MapSetOld ==
  ASSUME NEW entries, NEW k \in DOMAIN entries, NEW id, NEW args,
         \A i \in DOMAIN entries : entries[i].key = entries[k].key => i = k
  PROVE  MapSet(entries, entries[k].key, id, args) =
           [i \in DOMAIN entries |-> IF i = k THEN [key |-> entries[k].key, id |-> id, args |-> args]
                                     ELSE entries[i]]
<1>1. \A i \in DOMAIN entries : (entries[i].key = entries[k].key) <=> (i = k)
  OBVIOUS
<1>. QED  BY <1>1 DEF MapSet

(* Map.get of it. *)
LEMMA MapGetOld ==
  ASSUME NEW entries, NEW k \in DOMAIN entries, NEW absent,
         \A i \in DOMAIN entries : entries[i].key = entries[k].key => i = k
  PROVE  MapGet(entries, entries[k].key, absent) = entries[k]
  BY DEF MapGet

(* One more function value is one more element of the sequence. *)
LEMMA AppendedEntry ==
  ASSUME NEW k \in Nat
  PROVE  /\ k + 1 \in 1 .. Len(CallNames) =>
              ResponsesEntries(k + 1) =
                Append(ResponsesEntries(k),
                       [key |-> CallNames[k + 1], id |-> CallNames[k + 1], args |-> FullArgs])
         /\ ChatEntries(k, k + 1) =
              Append(ChatEntries(k, k), [key |-> k + 1, id |-> CallNames[k + 1], args |-> <<"a1">>])
<1>1. ResponsesEntries(k + 1) =
        Append(ResponsesEntries(k),
               [key |-> CallNames[k + 1], id |-> CallNames[k + 1], args |-> FullArgs])
  BY DEF ResponsesEntries
<1>2. ChatEntries(k, k + 1) =
        Append(ChatEntries(k, k), [key |-> k + 1, id |-> CallNames[k + 1], args |-> <<"a1">>])
  BY DEF ChatEntries
<1>. QED  BY <1>1, <1>2

(* The parts of a Responses call: whether it is known by its item or by    *)
(* its own id, it has one entry.                                           *)
LEMMA ResponsesCall ==
  ASSUME NEW k \in Nat, k + 1 <= Len(CallNames)
  PROVE  LET id == CallNames[k + 1]
         IN  /\ MapSet(ResponsesEntries(k), id, id, FullArgs) = ResponsesEntries(k + 1)
             /\ MapSet(ResponsesEntries(k + 1), id, id, FullArgs) = ResponsesEntries(k + 1)
             /\ Registered(k) \cup {[ix |-> k + 1, id |-> id]} = Registered(k + 1)
             /\ Registered(k + 1) \cup {[ix |-> k + 1, id |-> id]} = Registered(k + 1)
             /\ \A f : f.ix = k + 1 =>
                  extractResponsesStreamToolCallDone(Registered(k + 1), f) = id
<1>. DEFINE id == CallNames[k + 1]
<1>0. /\ Len(CallNames) \in Nat /\ k + 1 \in 1 .. Len(CallNames)
      /\ \A i, j \in 1 .. Len(CallNames) : CallNames[i] = CallNames[j] => i = j
  BY Ids
<1>1. MapSet(ResponsesEntries(k), id, id, FullArgs) = ResponsesEntries(k + 1)
  <2>1. \A i \in DOMAIN ResponsesEntries(k) : ResponsesEntries(k)[i].key # id
    BY <1>0 DEF ResponsesEntries
  <2>2. MapSet(ResponsesEntries(k), id, id, FullArgs) =
          Append(ResponsesEntries(k), [key |-> id, id |-> id, args |-> FullArgs])
    BY <2>1, MapSetNew
  <2>. QED  BY <2>2, <1>0, AppendedEntry
<1>2. MapSet(ResponsesEntries(k + 1), id, id, FullArgs) = ResponsesEntries(k + 1)
  <2>. DEFINE E == ResponsesEntries(k + 1)
  <2>1. /\ DOMAIN E = 1 .. k + 1 /\ k + 1 \in DOMAIN E
        /\ \A i \in 1 .. k + 1 : E[i] = [key |-> CallNames[i], id |-> CallNames[i], args |-> FullArgs]
    BY DEF ResponsesEntries
  <2>4. E = [i \in 1 .. k + 1 |-> E[i]]
    BY DEF ResponsesEntries
  <2>. HIDE DEF E
  <2>2. E[k + 1].key = id
    BY <2>1
  <2>3. \A i \in DOMAIN E : E[i].key = E[k + 1].key => i = k + 1
    <3>1. \A i \in 1 .. k + 1 : E[i].key = CallNames[i] /\ i \in 1 .. Len(CallNames)
      BY <2>1, <1>0
    <3>. QED  BY <3>1, <2>1, <2>2, <1>0
  <2>7. E[k + 1] = [key |-> id, id |-> id, args |-> FullArgs]
    BY <2>1
  <2>. HIDE DEF id
  <2>5. MapSet(E, E[k + 1].key, id, FullArgs) =
          [i \in DOMAIN E |-> IF i = k + 1 THEN [key |-> E[k + 1].key, id |-> id, args |-> FullArgs]
                              ELSE E[i]]
    <3>1. k + 1 \in DOMAIN E
      BY <2>1
    <3>. QED  BY <3>1, <2>3, MapSetOld
  <2>6. MapSet(E, id, id, FullArgs) = [i \in 1 .. k + 1 |-> E[i]]
    BY <2>1, <2>2, <2>5, <2>7
  <2>. QED  BY <2>4, <2>6 DEF E, id
<1>3. /\ Registered(k) \cup {[ix |-> k + 1, id |-> id]} = Registered(k + 1)
      /\ Registered(k + 1) \cup {[ix |-> k + 1, id |-> id]} = Registered(k + 1)
  BY DEF Registered
<1>4. ASSUME NEW f, f.ix = k + 1
      PROVE  extractResponsesStreamToolCallDone(Registered(k + 1), f) = id
  <2>1. [ix |-> k + 1, id |-> id] \in Registered(k + 1)
    BY DEF Registered
  <2>2. \A r \in Registered(k + 1) : r.ix = k + 1 => r.id = id
    BY DEF Registered
  <2>. QED  BY <1>4, <2>1, <2>2 DEF extractResponsesStreamToolCallDone
<1>. QED  BY <1>1, <1>2, <1>3, <1>4

(* Two words in a row. *)
LEMMA TwoWords ==
  ASSUME NEW a, NEW b
  PROVE  <<>> \o <<a>> = <<a>> /\ <<a>> \o <<b>> = <<a, b>>
<1>. DEFINE S == {a, b}
<1>1. <<a>> \in Seq(S) /\ <<b>> \in Seq(S) /\ <<a, b>> \in Seq(S) /\ <<>> \in Seq(S)
  OBVIOUS
<1>2. Len(<<a>>) = 1 /\ Len(<<b>>) = 1 /\ Len(<<a, b>>) = 2 /\ <<a>>[1] = a /\ <<b>>[1] = b
  OBVIOUS
<1>3. <<a, b>>[1] = a /\ <<a, b>>[2] = b
  OBVIOUS
<1>. HIDE DEF S
<1>. DEFINE c == <<a>> \o <<b>>
<1>4. c \in Seq(S) /\ Len(c) = 2 /\ c[1] = a /\ c[2] = b
  <2>1. /\ c \in Seq(S) /\ Len(c) = Len(<<a>>) + Len(<<b>>)
        /\ \A i \in 1 .. Len(<<a>>) : c[i] = <<a>>[i]
        /\ \A i \in 1 .. Len(<<b>>) : c[Len(<<a>>) + i] = <<b>>[i]
    BY <1>1, Joined
  <2>. QED  BY <2>1, <1>2
<1>. HIDE DEF c
<1>5. c = <<a, b>>
  BY <1>1, <1>2, <1>3, <1>4, SeqEqual
<1>6. <<>> \o <<a>> = <<a>>
  BY <1>1, ConcatEmptySeq
<1>. QED  BY <1>5, <1>6 DEF c

(* The parts of a chat-completions call are joined under its index. *)
LEMMA ChatCall ==
  ASSUME NEW k \in Nat, k + 1 <= Len(CallNames)
  PROVE  /\ accumulateOpenAiStreamToolCallDeltas(
              ChatEntries(k, k), Fragment("call", k + 1, CallNames[k + 1], <<"a1">>))
              = ChatEntries(k, k + 1)
         /\ accumulateOpenAiStreamToolCallDeltas(
              ChatEntries(k, k + 1), Fragment("call", k + 1, None, <<"a2">>))
              = ChatEntries(k + 1, k + 1)
<1>. DEFINE id == CallNames[k + 1]
            f1 == Fragment("call", k + 1, id, <<"a1">>)
            f2 == Fragment("call", k + 1, None, <<"a2">>)
<1>0. id # None
  BY Ids
<1>1. /\ f1.ix = k + 1 /\ f1.id = id /\ f1.args = <<"a1">>
      /\ f2.ix = k + 1 /\ f2.id = None /\ f2.args = <<"a2">>
  BY DEF Fragment
<1>. HIDE DEF f1, f2, id
<1>2. accumulateOpenAiStreamToolCallDeltas(ChatEntries(k, k), f1) = ChatEntries(k, k + 1)
  <2>. DEFINE E == ChatEntries(k, k)
              none == [key |-> k + 1, id |-> None, args |-> <<>>]
  <2>1. \A i \in DOMAIN E : E[i].key # k + 1
    BY DEF ChatEntries
  <2>. HIDE DEF E
  <2>2. MapGet(E, k + 1, none) = none
    BY <2>1 DEF MapGet
  <2>3. none.id = None /\ none.args = <<>> /\ <<>> \o <<"a1">> = <<"a1">>
    BY TwoWords
  <2>4. accumulateOpenAiStreamToolCallDeltas(E, f1) =
          MapSet(E, k + 1, id, MapGet(E, k + 1, none).args \o <<"a1">>)
    BY <1>0, <1>1 DEF accumulateOpenAiStreamToolCallDeltas
  <2>6. accumulateOpenAiStreamToolCallDeltas(E, f1) = MapSet(E, k + 1, id, <<"a1">>)
    BY <2>2, <2>3, <2>4
  <2>5. MapSet(E, k + 1, id, <<"a1">>) = Append(E, [key |-> k + 1, id |-> id, args |-> <<"a1">>])
    BY <2>1, MapSetNew
  <2>. QED  BY <2>5, <2>6, AppendedEntry DEF id, E
<1>3. accumulateOpenAiStreamToolCallDeltas(ChatEntries(k, k + 1), f2) = ChatEntries(k + 1, k + 1)
  <2>. DEFINE E == ChatEntries(k, k + 1)
              none == [key |-> k + 1, id |-> None, args |-> <<>>]
  <2>1. /\ DOMAIN E = 1 .. k + 1 /\ k + 1 \in DOMAIN E
        /\ \A i \in 1 .. k + 1 : E[i] = [key |-> i, id |-> CallNames[i],
                                         args |-> IF i <= k THEN FullArgs ELSE <<"a1">>]
    BY DEF ChatEntries
  <2>2. E[k + 1] = [key |-> k + 1, id |-> id, args |-> <<"a1">>]
    BY <2>1 DEF id
  <2>. HIDE DEF E
  <2>3. E[k + 1].key = k + 1 /\ E[k + 1].id = id /\ E[k + 1].args = <<"a1">>
    BY <2>2
  <2>4. \A i \in DOMAIN E : E[i].key = E[k + 1].key => i = k + 1
    <3>1. \A i \in 1 .. k + 1 : E[i].key = i
      BY <2>1
    <3>. QED  BY <3>1, <2>1, <2>3
  <2>5. MapGet(E, E[k + 1].key, none) = E[k + 1]
    BY <2>1, <2>4, MapGetOld
  <2>6. <<"a1">> \o <<"a2">> = FullArgs
    BY TwoWords DEF FullArgs
  <2>7. accumulateOpenAiStreamToolCallDeltas(E, f2) = MapSet(E, E[k + 1].key, id, FullArgs)
    BY <1>1, <2>3, <2>5, <2>6 DEF accumulateOpenAiStreamToolCallDeltas
  <2>8. MapSet(E, E[k + 1].key, id, FullArgs) =
          [i \in DOMAIN E |-> IF i = k + 1 THEN [key |-> E[k + 1].key, id |-> id, args |-> FullArgs]
                              ELSE E[i]]
    BY <2>1, <2>4, MapSetOld
  <2>9. [i \in DOMAIN E |-> IF i = k + 1 THEN [key |-> E[k + 1].key, id |-> id, args |-> FullArgs]
                            ELSE E[i]] = ChatEntries(k + 1, k + 1)
    BY <2>1, <2>3 DEF ChatEntries, id
  <2>. QED  BY <2>7, <2>8, <2>9 DEF E
<1>. QED  BY <1>2, <1>3 DEF f1, f2, id

(* The fragments that are no part of a call *)
OtherKinds == {"text", "thought", "finish", "usage", "completed", "incomplete"}

(* They leave the calls alone. *)
LEMMA OtherFragment ==
  ASSUME NEW a, IsAdapter(a), NEW kind \in OtherKinds, NEW n \in Nat, NEW part \in Nat,
         AttemptType \in {"anthropic", "google", "openai", "openai-compatible"},
         AdapterHolds(AttemptType, a, n, part)
  PROVE  LET b == Accumulate(a, Fragment(kind, 0, None, <<>>))
         IN  /\ IsAdapter(b) /\ b.assembledText = a.assembledText
             /\ AdapterHolds(AttemptType, b, n, part)
<1>. DEFINE f == Fragment(kind, 0, None, <<>>)
            b == Accumulate(a, f)
<1>0. f.kind = kind /\ kind \notin {"call", "item.added", "arguments.done", "item.done"}
  BY DEF Fragment, OtherKinds
<1>. HIDE DEF f
<1>1. CASE AttemptType = "openai"
  <2>1. b = ResponsesFragment(a, f)
    BY <1>1 DEF Accumulate
  <2>2. b = [a EXCEPT !.thought = TRUE] \/ b = [a EXCEPT !.completed = TRUE] \/ b = a
    BY <2>1, <1>0 DEF ResponsesFragment
  <2>. HIDE DEF b
  <2>3. /\ b.calls = a.calls /\ b.itemIdToCallId = a.itemIdToCallId
        /\ b.assembledText = a.assembledText /\ IsAdapter(b)
    BY <2>2 DEF IsAdapter
  <2>4. AdapterHolds(AttemptType, b, n, part)
    BY <2>3, <1>1 DEF AdapterHolds, ResponsesHolds
  <2>. QED  BY <2>3, <2>4 DEF b, f
<1>2. CASE AttemptType = "openai-compatible"
  <2>1. b = ChatCompletionsFragment(a, f)
    BY <1>2 DEF Accumulate
  <2>2. b = [a EXCEPT !.lastChunk = f, !.calls = @]
    BY <2>1, <1>0 DEF ChatCompletionsFragment
  <2>. HIDE DEF b
  <2>3. /\ b.calls = a.calls /\ b.assembledText = a.assembledText /\ IsAdapter(b)
    BY <2>2 DEF IsAdapter
  <2>4. AdapterHolds(AttemptType, b, n, part)
    BY <2>3, <1>2 DEF AdapterHolds, ChatCompletionsHolds
  <2>. QED  BY <2>3, <2>4 DEF b, f
<1>3. CASE AttemptType = "google"
  <2>1. b = GoogleFragment(a, f)
    BY <1>3 DEF Accumulate
  <2>2. b = [a EXCEPT !.lastChunk = f, !.thought = @ \/ f.kind = "thought"]
    BY <2>1 DEF GoogleFragment
  <2>. HIDE DEF b
  <2>3. b.lastChunk = f /\ b.assembledText = a.assembledText
    BY <2>2 DEF IsAdapter
  <2>4. IsAdapter(b)
    <3>1. (a.thought \/ f.kind = "thought") \in BOOLEAN
      OBVIOUS
    <3>. QED  BY <2>2, <3>1 DEF IsAdapter
  <2>5. AdapterHolds(AttemptType, b, n, part)
    BY <2>3, <1>0, <1>3 DEF AdapterHolds, GoogleHolds
  <2>. QED  BY <2>3, <2>4, <2>5 DEF b, f
<1>4. CASE AttemptType = "anthropic"
  <2>1. b = a
    BY <1>4 DEF Accumulate
  <2>. QED  BY <2>1 DEF b, f
<1>. QED  BY <1>1, <1>2, <1>3, <1>4

(* How many fragments a call takes *)
PartsOf(type) == CASE type = "openai" -> 3 [] type = "openai-compatible" -> 2 [] OTHER -> 1

(* One more fragment of the call being made. *)
LEMMA CallFragment ==
  ASSUME NEW a, IsAdapter(a), NEW n \in Nat, NEW part \in Nat, n + 1 <= Len(CallNames),
         AttemptType \in {"anthropic", "google", "openai", "openai-compatible"},
         AdapterHolds(AttemptType, a, n, part)
  PROVE  LET fragments == CallFragments(AttemptType, n + 1, CallNames[n + 1])
             b == Accumulate(a, fragments[part + 1])
         IN  /\ Len(fragments) = PartsOf(AttemptType) /\ part + 1 <= Len(fragments)
             /\ IsAdapter(b) /\ b.assembledText = a.assembledText
             /\ part + 1 = Len(fragments) => AdapterHolds(AttemptType, b, n + 1, 0)
             /\ part + 1 # Len(fragments) => AdapterHolds(AttemptType, b, n, part + 1)
<1>. DEFINE id == CallNames[n + 1]
            fragments == CallFragments(AttemptType, n + 1, id)
            f == fragments[part + 1]
            b == Accumulate(a, f)
            parts == Len(fragments)
<1>. SUFFICES /\ parts = PartsOf(AttemptType) /\ part + 1 <= parts
              /\ IsAdapter(b) /\ b.assembledText = a.assembledText
              /\ part + 1 = parts => AdapterHolds(AttemptType, b, n + 1, 0)
              /\ part + 1 # parts => AdapterHolds(AttemptType, b, n, part + 1)
  OBVIOUS
<1>1. CASE AttemptType = "openai"
  <2>1. /\ fragments = << Fragment("item.added", n + 1, id, <<>>),
                          Fragment("arguments.done", n + 1, None, FullArgs),
                          Fragment("item.done", n + 1, id, FullArgs) >>
        /\ parts = 3 /\ PartsOf(AttemptType) = 3
    BY <1>1 DEF CallFragments, PartsOf
  <2>. HIDE DEF parts
  <2>2. ResponsesHolds(a, n, part)
    BY <1>1 DEF AdapterHolds
  <2>3. part \in {0, 1, 2}
    BY <2>2 DEF ResponsesHolds
  <2>4. b = ResponsesFragment(a, f)
    BY <1>1 DEF Accumulate
  <2>5. CASE part = 0
    <3>1. f = Fragment("item.added", n + 1, id, <<>>)
      BY <2>1, <2>5
    <3>2. f.kind = "item.added" /\ f.ix = n + 1 /\ f.id = id
      BY <3>1 DEF Fragment
    <3>3. a.calls = ResponsesEntries(n) /\ a.itemIdToCallId = Registered(n)
      BY <2>2, <2>5 DEF ResponsesHolds
    <3>. HIDE DEF f
    <3>4. b = [a EXCEPT !.itemIdToCallId = @ \cup {[ix |-> n + 1, id |-> id]}]
      BY <2>4, <3>2 DEF ResponsesFragment
    <3>. HIDE DEF b
    <3>5. IsAdapter(b) /\ b.assembledText = a.assembledText /\ b.calls = a.calls
      BY <3>4 DEF IsAdapter
    <3>6. b.itemIdToCallId = Registered(n) \cup {[ix |-> n + 1, id |-> id]}
      BY <3>3, <3>4 DEF IsAdapter
    <3>7. b.itemIdToCallId = Registered(n + 1)
      BY <3>6, ResponsesCall
    <3>8. ResponsesHolds(b, n, 1)
      BY <3>3, <3>5, <3>7 DEF ResponsesHolds
    <3>. QED  BY <1>1, <2>1, <2>5, <3>5, <3>8 DEF AdapterHolds
  <2>6. CASE part = 1
    <3>1. f = Fragment("arguments.done", n + 1, None, FullArgs)
      BY <2>1, <2>6
    <3>2. f.kind = "arguments.done" /\ f.ix = n + 1 /\ f.args = FullArgs
      BY <3>1 DEF Fragment
    <3>3. a.calls = ResponsesEntries(n) /\ a.itemIdToCallId = Registered(n + 1)
      BY <2>2, <2>6 DEF ResponsesHolds
    <3>. HIDE DEF f
    <3>4. extractResponsesStreamToolCallDone(a.itemIdToCallId, f) = id
      BY <3>2, <3>3, ResponsesCall
    <3>5. b = [a EXCEPT !.calls = MapSet(@, id, id, FullArgs)]
      BY <2>4, <3>2, <3>4 DEF ResponsesFragment
    <3>. HIDE DEF b
    <3>6. IsAdapter(b) /\ b.assembledText = a.assembledText /\ b.itemIdToCallId = a.itemIdToCallId
      BY <3>5 DEF IsAdapter
    <3>7. b.calls = MapSet(ResponsesEntries(n), id, id, FullArgs)
      BY <3>3, <3>5 DEF IsAdapter
    <3>8. b.calls = ResponsesEntries(n + 1)
      BY <3>7, ResponsesCall
    <3>9. ResponsesHolds(b, n, 2)
      BY <3>3, <3>6, <3>8 DEF ResponsesHolds
    <3>. QED  BY <1>1, <2>1, <2>6, <3>6, <3>9 DEF AdapterHolds
  <2>7. CASE part = 2
    <3>1. f = Fragment("item.done", n + 1, id, FullArgs)
      BY <2>1, <2>7
    <3>2. f.kind = "item.done" /\ f.ix = n + 1 /\ f.id = id /\ f.args = FullArgs
      BY <3>1 DEF Fragment
    <3>3. a.calls = ResponsesEntries(n + 1) /\ a.itemIdToCallId = Registered(n + 1)
      BY <2>2, <2>7 DEF ResponsesHolds
    <3>. HIDE DEF f
    <3>4. b = [a EXCEPT !.itemIdToCallId = @ \cup {[ix |-> n + 1, id |-> id]},
                        !.calls = MapSet(@, id, id, FullArgs)]
      BY <2>4, <3>2 DEF ResponsesFragment
    <3>. HIDE DEF b
    <3>5. IsAdapter(b) /\ b.assembledText = a.assembledText
      BY <3>4 DEF IsAdapter
    <3>6. /\ b.itemIdToCallId = Registered(n + 1) \cup {[ix |-> n + 1, id |-> id]}
          /\ b.calls = MapSet(ResponsesEntries(n + 1), id, id, FullArgs)
      BY <3>3, <3>4 DEF IsAdapter
    <3>7. b.itemIdToCallId = Registered(n + 1) /\ b.calls = ResponsesEntries(n + 1)
      BY <3>6, ResponsesCall
    <3>8. ResponsesHolds(b, n + 1, 0)
      BY <3>7 DEF ResponsesHolds
    <3>. QED  BY <1>1, <2>1, <2>7, <3>5, <3>8 DEF AdapterHolds
  <2>. QED  BY <2>3, <2>5, <2>6, <2>7
<1>2. CASE AttemptType = "openai-compatible"
  <2>1. /\ fragments = << Fragment("call", n + 1, id, <<"a1">>),
                          Fragment("call", n + 1, None, <<"a2">>) >>
        /\ parts = 2 /\ PartsOf(AttemptType) = 2
    BY <1>2 DEF CallFragments, PartsOf
  <2>. HIDE DEF parts
  <2>2. ChatCompletionsHolds(a, n, part)
    BY <1>2 DEF AdapterHolds
  <2>3. part \in {0, 1} /\ a.calls = ChatEntries(n, n + part)
    BY <2>2 DEF ChatCompletionsHolds
  <2>4. b = ChatCompletionsFragment(a, f)
    BY <1>2 DEF Accumulate
  <2>5. f = IF part = 0 THEN Fragment("call", n + 1, id, <<"a1">>)
            ELSE Fragment("call", n + 1, None, <<"a2">>)
    BY <2>1, <2>3
  <2>6. f.kind = "call"
    BY <2>5 DEF Fragment
  <2>. HIDE DEF f
  <2>7. b = [a EXCEPT !.lastChunk = f, !.calls = accumulateOpenAiStreamToolCallDeltas(@, f)]
    BY <2>4, <2>6 DEF ChatCompletionsFragment
  <2>. HIDE DEF b
  <2>8. /\ IsAdapter(b) /\ b.assembledText = a.assembledText
        /\ b.calls = accumulateOpenAiStreamToolCallDeltas(a.calls, f)
    BY <2>7 DEF IsAdapter
  <2>9. CASE part = 0
    <3>1. b.calls = ChatEntries(n, n + 1)
      BY <2>3, <2>5, <2>8, <2>9, ChatCall
    <3>2. ChatCompletionsHolds(b, n, 1)
      BY <3>1 DEF ChatCompletionsHolds
    <3>. QED  BY <1>2, <2>1, <2>8, <2>9, <3>2 DEF AdapterHolds
  <2>10. CASE part = 1
    <3>1. b.calls = ChatEntries(n + 1, n + 1)
      BY <2>3, <2>5, <2>8, <2>10, ChatCall
    <3>2. ChatCompletionsHolds(b, n + 1, 0)
      BY <3>1 DEF ChatCompletionsHolds
    <3>. QED  BY <1>2, <2>1, <2>8, <2>10, <3>2 DEF AdapterHolds
  <2>. QED  BY <2>3, <2>9, <2>10
<1>3. CASE AttemptType = "google"
  <2>1. /\ fragments = << Fragment("call", n + 1, id, FullArgs) >>
        /\ parts = 1 /\ PartsOf(AttemptType) = 1
    BY <1>3 DEF CallFragments, PartsOf
  <2>. HIDE DEF parts
  <2>2. part = 0
    BY <1>3 DEF AdapterHolds, GoogleHolds
  <2>3. f = Fragment("call", n + 1, id, FullArgs)
    BY <2>1, <2>2
  <2>4. f.kind = "call" /\ f.id = id /\ f.args = FullArgs
    BY <2>3 DEF Fragment
  <2>. HIDE DEF f
  <2>5. b = [a EXCEPT !.lastChunk = f, !.thought = @ \/ f.kind = "thought"]
    BY <1>3 DEF Accumulate, GoogleFragment
  <2>. HIDE DEF b
  <2>6. b.lastChunk = f /\ b.assembledText = a.assembledText
    BY <2>5 DEF IsAdapter
  <2>7. IsAdapter(b)
    <3>1. (a.thought \/ f.kind = "thought") \in BOOLEAN
      OBVIOUS
    <3>. QED  BY <2>5, <3>1 DEF IsAdapter
  <2>8. GoogleHolds(b, n + 1, 0)
    BY <2>4, <2>6 DEF GoogleHolds
  <2>. QED  BY <1>3, <2>1, <2>2, <2>6, <2>7, <2>8 DEF AdapterHolds
<1>4. CASE AttemptType = "anthropic"
  <2>1. parts = 1 /\ PartsOf(AttemptType) = 1
    BY <1>4 DEF CallFragments, PartsOf
  <2>. HIDE DEF parts
  <2>2. part = 0
    BY <1>4 DEF AdapterHolds
  <2>3. b = a
    BY <1>4 DEF Accumulate
  <2>4. AdapterHolds(AttemptType, b, n + 1, 0)
    BY <1>4 DEF AdapterHolds
  <2>. QED  BY <2>1, <2>2, <2>3, <2>4
<1>. QED  BY <1>1, <1>2, <1>3, <1>4

(* The ids of the calls made so far, each with all its arguments. *)
LEMMA AllCallsTyped ==
  ASSUME NEW ids \in Seq(Word)
  PROVE  /\ AllCalls(ids) \in Seq(ToolCall) /\ Len(AllCalls(ids)) = Len(ids)
         /\ \A i \in 1 .. Len(ids) : AllCalls(ids)[i] = [id |-> ids[i], args |-> FullArgs]
<1>1. /\ Len(ids) \in Nat /\ DOMAIN ids = 1 .. Len(ids)
      /\ \A i \in 1 .. Len(ids) : ids[i] \in Word
  BY SeqIs
<1>2. FullArgs \in Seq(Word)
  BY Words, WordsOfCode DEF FullArgs
<1>3. \A i \in 1 .. Len(ids) : [id |-> ids[i], args |-> FullArgs] \in ToolCall
  BY <1>1, <1>2 DEF ToolCall
<1>4. AllCalls(ids) = [i \in 1 .. Len(ids) |-> [id |-> ids[i], args |-> FullArgs]]
  BY <1>1 DEF AllCalls
<1>5. AllCalls(ids) \in [1 .. Len(ids) -> ToolCall]
  BY <1>3, <1>4
<1>. QED  BY <1>1, <1>4, <1>5, SeqOf

(* No call of a chat-completions stream is dropped: all their ids came. *)
LEMMA NothingDropped ==
  ASSUME NEW n \in Nat, n <= Len(CallNames), adapter.calls = ChatEntries(n, n)
  PROVE  finalizeOpenAiStreamToolCalls =
           [i \in 1 .. n |-> [id |-> CallNames[i], args |-> FullArgs]]
<1>. DEFINE E == adapter.calls
            Call(i) == [id |-> E[i].id, args |-> E[i].args]
            Next1(kept, i) == IF E[i].id = None THEN kept ELSE Append(kept, Call(i))
            R(k, f) == f = [i \in 0 .. k |-> IF i = 0 THEN <<>> ELSE Next1(f[i - 1], i)]
            S == {k \in Nat : \E f : R(k, f)}
<1>0. /\ Len(E) = n /\ \A i \in 1 .. n : /\ E[i].id = CallNames[i] /\ E[i].id # None
                                         /\ E[i].args = FullArgs
  <2>1. Len(E) = n
    BY DEF ChatEntries
  <2>2. \A i \in 1 .. n : E[i] = [key |-> i, id |-> CallNames[i], args |-> FullArgs]
    BY DEF ChatEntries
  <2>3. \A i \in 1 .. n : CallNames[i] # None
    BY Ids
  <2>. QED  BY <2>1, <2>2, <2>3
<1>. HIDE DEF E
<1>1. 0 \in S
  <2>1. R(0, [i \in 0 .. 0 |-> <<>>])
    OBVIOUS
  <2>. QED  BY <2>1
<1>2. ASSUME NEW k \in 0 .. n - 1, k \in S PROVE k + 1 \in S
  <2>1. PICK f : R(k, f)
    BY <1>2
  <2>. DEFINE g == [i \in 0 .. k + 1 |-> IF i = k + 1 THEN Next1(f[k], k + 1) ELSE f[i]]
  <2>. HIDE DEF Next1
  <2>2. \A i \in 0 .. k : f[i] = IF i = 0 THEN <<>> ELSE Next1(f[i - 1], i)
    BY <2>1
  <2>3. \A i \in 0 .. k + 1 : g[i] = IF i = 0 THEN <<>> ELSE Next1(g[i - 1], i)
    BY <2>2
  <2>4. R(k + 1, g)
    BY <2>3
  <2>. HIDE DEF g
  <2>. QED  BY <2>4
<1>3. n \in S
  <2>. HIDE DEF S
  <2>1. 0 .. n \subseteq S
    BY <1>1, <1>2, Induction
  <2>. QED  BY <2>1
<1>4. PICK f : R(n, f)
  BY <1>3
<1>. DEFINE F == CHOOSE f_1 : R(n, f_1)
<1>5. F = [i \in 0 .. n |-> IF i = 0 THEN <<>> ELSE Next1(F[i - 1], i)]
  BY <1>4
<1>6. finalizeOpenAiStreamToolCalls = F[n]
  BY <1>0 DEF finalizeOpenAiStreamToolCalls, E
<1>. HIDE DEF F
<1>7. F[0] = <<>> /\ \A i \in 1 .. n : F[i] = Append(F[i - 1], Call(i))
  <2>. HIDE DEF Next1
  <2>1. \A i \in 1 .. n : F[i] = Next1(F[i - 1], i)
    BY <1>5
  <2>2. F[0] = <<>>
    BY <1>5
  <2>3. \A i \in 1 .. n : Next1(F[i - 1], i) = Append(F[i - 1], Call(i))
    BY <1>0 DEF Next1
  <2>. QED  BY <2>1, <2>2, <2>3
<1>. DEFINE Whole(k) == [i \in 1 .. k |-> [id |-> CallNames[i], args |-> FullArgs]]
            T == {k \in 0 .. n : F[k] = Whole(k)}
<1>8. 0 \in T
  BY <1>7
<1>9. ASSUME NEW k \in 0 .. n - 1, k \in T PROVE k + 1 \in T
  <2>1. Call(k + 1) = [id |-> CallNames[k + 1], args |-> FullArgs]
    BY <1>0
  <2>2. F[k + 1] = Append(Whole(k), Call(k + 1))
    BY <1>7, <1>9
  <2>3. Append(Whole(k), Call(k + 1)) = Whole(k + 1)
    BY <2>1
  <2>. HIDE DEF Whole
  <2>. QED  BY <2>2, <2>3
<1>10. n \in T
  <2>. HIDE DEF T
  <2>1. 0 .. n \subseteq T
    BY <1>8, <1>9, Induction
  <2>. QED  BY <2>1
<1>. QED  BY <1>6, <1>10

(* What the getters give at the end of a stream: the calls the vendor      *)
(* made, and of a Gemini stream at most the last of them.                  *)
LEMMA FinalCalls ==
  ASSUME BaseInv, pc \in {"collect", "store"}
  PROVE  /\ AttemptType \in {"anthropic", "google", "openai", "openai-compatible"}
         /\ getFinalToolCalls \in Seq(ToolCall)
         /\ AttemptType # "google" => getFinalToolCalls = AllCalls(sdk.calls)
         /\ AttemptType = "google" =>
              \/ getFinalToolCalls = <<>>
              \/ /\ Len(sdk.calls) > 0
                 /\ getFinalToolCalls = << [id |-> sdk.calls[Len(sdk.calls)], args |-> FullArgs] >>
<1>. DEFINE n == Len(sdk.calls)
<1>1. /\ FacadeTypeOK /\ sdk.calls \in Seq(Word) /\ req.stream
      /\ AttemptType \in {"anthropic", "google", "openai", "openai-compatible"}
  <2>1. /\ model \in Models /\ attempt.alias \in {"primary", "fallback"}
        /\ attempt.alias = "fallback" => model.fallback # None
        /\ sdk.calls \in Seq(Word)
    BY DEF BaseInv, FacadeTypeOK
  <2>2. req.stream
    BY DEF BaseInv, PhaseInv
  <2>. QED  BY <2>1, <2>2, AttemptTyped DEF BaseInv
<1>2. /\ n \in Nat /\ n <= Len(CallNames) /\ \A i \in 1 .. n : sdk.calls[i] = CallNames[i]
      /\ AdapterHolds(AttemptType, adapter, n, 0)
  <2>1. n \in Nat
    BY <1>1, SeqIs
  <2>2. AdapterInv
    BY DEF BaseInv
  <2>. QED  BY <1>1, <2>1, <2>2 DEF AdapterInv
<1>3. AllCalls(sdk.calls) \in Seq(ToolCall)
  BY <1>1, AllCallsTyped
<1>4. AllCalls(sdk.calls) = [i \in 1 .. n |-> [id |-> CallNames[i], args |-> FullArgs]]
  <2>1. DOMAIN sdk.calls = 1 .. n
    BY <1>1, SeqIs
  <2>. QED  BY <1>2, <2>1 DEF AllCalls
<1>5. CASE AttemptType = "openai"
  <2>1. adapter.calls = ResponsesEntries(n)
    BY <1>2, <1>5 DEF AdapterHolds, ResponsesHolds
  <2>2. ResponsesToolCalls = [i \in 1 .. n |-> [id |-> CallNames[i], args |-> FullArgs]]
    BY <2>1 DEF ResponsesToolCalls, ResponsesEntries
  <2>3. getFinalToolCalls = ResponsesToolCalls
    BY <1>5 DEF getFinalToolCalls
  <2>. QED  BY <1>1, <1>3, <1>4, <1>5, <2>2, <2>3
<1>6. CASE AttemptType = "openai-compatible"
  <2>1. adapter.calls = ChatEntries(n, n)
    BY <1>2, <1>6 DEF AdapterHolds, ChatCompletionsHolds
  <2>2. finalizeOpenAiStreamToolCalls = [i \in 1 .. n |-> [id |-> CallNames[i], args |-> FullArgs]]
    BY <1>2, <2>1, NothingDropped
  <2>3. getFinalToolCalls = finalizeOpenAiStreamToolCalls
    BY <1>6 DEF getFinalToolCalls
  <2>. QED  BY <1>1, <1>3, <1>4, <1>6, <2>2, <2>3
<1>7. CASE AttemptType = "google"
  <2>1. GoogleHolds(adapter, n, 0)
    BY <1>2, <1>7 DEF AdapterHolds
  <2>2. getFinalToolCalls = parseGeminiLastChunk
    BY <1>7 DEF getFinalToolCalls
  <2>3. CASE adapter.lastChunk.kind = "call"
    <3>1. /\ n > 0 /\ adapter.lastChunk.id = CallNames[n] /\ adapter.lastChunk.args = FullArgs
          /\ sdk.calls[n] = CallNames[n]
      BY <1>2, <2>1, <2>3 DEF GoogleHolds
    <3>2. getFinalToolCalls = << [id |-> sdk.calls[n], args |-> FullArgs] >>
      BY <2>2, <2>3, <3>1 DEF parseGeminiLastChunk
    <3>3. [id |-> sdk.calls[n], args |-> FullArgs] \in ToolCall
      <4>1. FullArgs \in Seq(Word)
        BY Words, WordsOfCode DEF FullArgs
      <4>2. sdk.calls[n] \in Word
        BY <1>1, <1>2, <3>1, SeqIs
      <4>. QED  BY <4>1, <4>2 DEF ToolCall
    <3>4. << [id |-> sdk.calls[n], args |-> FullArgs] >> \in Seq(ToolCall)
      BY <3>3
    <3>. QED  BY <1>1, <1>7, <3>1, <3>2, <3>4
  <2>4. CASE adapter.lastChunk.kind # "call"
    <3>1. getFinalToolCalls = <<>>
      BY <2>2, <2>4 DEF parseGeminiLastChunk
    <3>. QED  BY <1>1, <1>7, <3>1
  <2>. QED  BY <2>3, <2>4
<1>8. CASE AttemptType = "anthropic"
  <2>1. getFinalToolCalls = AllCalls(sdk.calls)
    BY <1>8 DEF getFinalToolCalls
  <2>. QED  BY <1>1, <1>3, <1>8, <2>1
<1>. QED  BY <1>1, <1>5, <1>6, <1>7, <1>8

(* A call's reason for stopping is never that of a normal end. *)
LEMMA FinishIs ==
  ASSUME NEW stop, NEW calls
  PROVE  /\ mapStopReasonToFinishReason(stop, calls) \in Word
         /\ calls # <<>> => mapStopReasonToFinishReason(stop, calls) \in {"tool_calls", "length"}
<1>1. mapStopReasonToFinishReason(stop, calls) \in {"length", "tool_calls", "content_filter", "stop"}
  BY DEF mapStopReasonToFinishReason
<1>2. {"length", "tool_calls", "content_filter", "stop"} \subseteq Word
  BY WordsOfCode
<1>3. calls # <<>> => mapStopReasonToFinishReason(stop, calls) \in {"tool_calls", "length"}
  BY DEF mapStopReasonToFinishReason
<1>. QED  BY <1>1, <1>2, <1>3

(* The answer of a stream. *)
LEMMA StreamAnswerIs ==
  ASSUME BaseInv, pc \in {"collect", "store"}, sdk' = sdk
  PROVE  /\ StreamAnswer \in Reply
         /\ StreamAnswer.calls = getFinalToolCalls
         /\ StreamAnswer.calls # <<>> => StreamAnswer.finish \in {"tool_calls", "length"}
<1>1. /\ FacadeTypeOK /\ getFinalToolCalls \in Seq(ToolCall)
      /\ AttemptType \in {"anthropic", "google", "openai", "openai-compatible"}
  BY FinalCalls DEF BaseInv
<1>2. adapter.assembledText \in Seq(Word) /\ adapter.thought \in BOOLEAN /\ sdk.thought \in BOOLEAN
  BY <1>1 DEF FacadeTypeOK, IsAdapter
<1>3. getThinkingContent \in BOOLEAN
  BY <1>1, <1>2 DEF getThinkingContent
<1>. DEFINE finish == mapStopReasonToFinishReason(getStopReason(sdk.stop), getFinalToolCalls)
<1>4. finish \in Word /\ (getFinalToolCalls # <<>> => finish \in {"tool_calls", "length"})
  BY FinishIs
<1>5. StreamAnswer = [text |-> adapter.assembledText, calls |-> getFinalToolCalls,
                      thought |-> getThinkingContent, finish |-> finish, full |-> sdk'.stop = "stop"]
  BY DEF StreamAnswer, Answer
<1>. HIDE DEF finish
<1>6. (sdk'.stop = "stop") \in BOOLEAN
  OBVIOUS
<1>7. StreamAnswer \in Reply
  BY <1>1, <1>2, <1>3, <1>4, <1>5, <1>6 DEF Reply
<1>. QED  BY <1>4, <1>5, <1>7

-----------------------------------------------------------------------------
(* What a step does to the response *)

(* Sets of numbers have a least one, so the first failing check is one. *)
LEMMA LeastOne ==
  ASSUME NEW S \in SUBSET Nat, S # {}
  PROVE  Min(S) \in S
<1>1. PICK x \in S : \A y \in S : ~ (<<y, x>> \in OpToRel(<, Nat))
  BY NatLessThanWellFounded, WFMin
<1>2. \A y \in S : x <= y
  <2>. SUFFICES ASSUME NEW y \in S, y < x PROVE FALSE
    OBVIOUS
  <2>1. <<y, x>> \in OpToRel(<, Nat)
    BY DEF OpToRel
  <2>. QED  BY <1>1, <2>1
<1>. QED  BY <1>2 DEF Min

(* A list of checks lets the request go on or rejects it. *)
LEMMA PassAllIs ==
  ASSUME NEW checks, NEW next, NEW n \in Nat, DOMAIN checks = 1 .. n,
         \A i \in 1 .. n : checks[i].status \in Nat /\ checks[i].code \in Word,
         PassAll(checks, next)
  PROVE  Go(next) \/ \E status \in Nat, code \in Word : Reject(status, code)
<1>. DEFINE failing == {i \in DOMAIN checks : checks[i].fails}
<1>1. CASE failing = {}
  BY <1>1 DEF PassAll
<1>2. CASE failing # {}
  <2>1. failing \in SUBSET Nat /\ failing \subseteq 1 .. n
    OBVIOUS
  <2>2. Reject(checks[Min(failing)].status, checks[Min(failing)].code)
    BY <1>2 DEF PassAll
  <2>. HIDE DEF failing
  <2>3. Min(failing) \in 1 .. n
    BY <1>2, <2>1, LeastOne
  <2>. QED  BY <2>2, <2>3
<1>. QED  BY <1>1, <1>2

(* The envelope of an error is a line that says so. *)
LEMMA EnvelopeTyped ==
  ASSUME NEW status \in Nat, NEW code \in Word, req.facade \in Facades
  PROVE  Envelope(status, code) \in WireLine /\ Envelope(status, code).ev = "error"
<1>1. OpenAiErrorType(status, code) \in Word
  BY WordsOfErrors DEF OpenAiErrorType
<1>2. AnthropicErrorType(status, code) \in Word
  BY WordsOfErrors DEF AnthropicErrorType
<1>3. /\ <<OpenAiErrorType(status, code), code>> \in Seq(Word)
      /\ <<AnthropicErrorType(status, code)>> \in Seq(Word) /\ <<code>> \in Seq(Word)
  BY <1>1, <1>2, Words
<1>4. "error" \in Word /\ status \in Int
  BY WordsOfCode
<1>5. /\ req.facade = "openai" => Envelope(status, code) =
           Line("error", status, <<OpenAiErrorType(status, code), code>>)
      /\ req.facade = "anthropic" => Envelope(status, code) =
           Line("error", status, <<AnthropicErrorType(status, code)>>)
      /\ req.facade = "native" => Envelope(status, code) = Line("error", status, <<code>>)
  BY DEF Envelope
<1>6. /\ Line("error", status, <<OpenAiErrorType(status, code), code>>) \in WireLine
      /\ Line("error", status, <<OpenAiErrorType(status, code), code>>).ev = "error"
  BY <1>3, <1>4 DEF Line, WireLine
<1>7. /\ Line("error", status, <<AnthropicErrorType(status, code)>>) \in WireLine
      /\ Line("error", status, <<AnthropicErrorType(status, code)>>).ev = "error"
  BY <1>3, <1>4 DEF Line, WireLine
<1>8. /\ Line("error", status, <<code>>) \in WireLine
      /\ Line("error", status, <<code>>).ev = "error"
  BY <1>3, <1>4 DEF Line, WireLine
<1>. QED  BY <1>5, <1>6, <1>7, <1>8, FacadeIs

(* What a filter's answer does to the response. *)
LEMMA RejectIs ==
  ASSUME IsResponse(res), req.facade \in Facades, NEW status \in Nat, NEW code \in Word,
         Reject(status, code)
  PROVE  /\ IsResponse(res') /\ pc' = "ended" /\ res'.ended
         /\ res'.source = res.source /\ res'.metaEmitted = res.metaEmitted
         /\ res.status # 0 => res'.lines = res.lines
         /\ res.status = 0 => res'.lines = <<Envelope(status, code)>>
<1>1. <<Envelope(status, code)>> \in Seq(WireLine)
  BY EnvelopeTyped
<1>2. CASE res.status = 0
  <2>1. res' = [res EXCEPT !.status = status, !.lines = <<Envelope(status, code)>>, !.ended = TRUE]
    BY <1>2 DEF Reject
  <2>2. res' = [status |-> status, source |-> res.source, lines |-> <<Envelope(status, code)>>,
                metaEmitted |-> res.metaEmitted, ended |-> TRUE]
    BY <2>1 DEF IsResponse
  <2>. QED  BY <1>1, <1>2, <2>2 DEF IsResponse, Reject
<1>3. CASE res.status # 0
  <2>1. res' = [res EXCEPT !.ended = TRUE]
    BY <1>3 DEF Reject
  <2>2. res' = [status |-> res.status, source |-> res.source, lines |-> res.lines,
                metaEmitted |-> res.metaEmitted, ended |-> TRUE]
    BY <2>1 DEF IsResponse
  <2>. QED  BY <1>3, <2>2 DEF IsResponse, Reject
<1>. QED  BY <1>2, <1>3

(* What emit does to the response. *)
LEMMA EmitIs ==
  ASSUME IsResponse(res), NEW e, Mapped(MapEvent(e, mapper)), Emit(e)
  PROVE  /\ IsResponse(res') /\ mapper' = MapEvent(e, mapper).mapper /\ mapper' \in MapperState
         /\ res'.status = res.status /\ res'.source = res.source /\ res'.ended = res.ended
         /\ res'.metaEmitted = (res.metaEmitted \/ e.name = "meta")
         /\ res.ended => res'.lines = res.lines
         /\ ~res.ended => res'.lines = res.lines \o MapEvent(e, mapper).lines
<1>. DEFINE step == MapEvent(e, mapper)
            lines == IF res.ended THEN res.lines ELSE res.lines \o step.lines
<1>1. Emitted([lines |-> res.lines, mapper |-> mapper], e) =
        [lines |-> res.lines \o step.lines, mapper |-> step.mapper]
  BY DEF Emitted
<1>2. /\ mapper' = step.mapper
      /\ res' = [res EXCEPT !.lines = lines, !.metaEmitted = res.metaEmitted \/ e.name = "meta"]
  <2>. DEFINE out == Emitted([lines |-> res.lines, mapper |-> mapper], e)
  <2>1. /\ mapper' = out.mapper
        /\ res' = [res EXCEPT !.lines = IF res.ended THEN res.lines ELSE out.lines,
                              !.metaEmitted = res.metaEmitted \/ e.name = "meta"]
    BY DEF Emit
  <2>2. out = [lines |-> res.lines \o step.lines, mapper |-> step.mapper]
    BY <1>1
  <2>. HIDE DEF out, step
  <2>. QED  BY <2>1, <2>2
<1>3. step.lines \in Seq(WireLine) /\ step.mapper \in MapperState /\ res.lines \in Seq(WireLine)
  BY DEF Mapped, IsResponse
<1>. HIDE DEF step
<1>4. lines \in Seq(WireLine)
  BY <1>3
<1>5. (res.metaEmitted \/ e.name = "meta") \in BOOLEAN
  OBVIOUS
<1>6. res' = [status |-> res.status, source |-> res.source, lines |-> lines,
              metaEmitted |-> (res.metaEmitted \/ e.name = "meta"), ended |-> res.ended]
  <2>. HIDE DEF lines
  <2>. QED  BY <1>2 DEF IsResponse
<1>7. /\ res'.status = res.status /\ res'.source = res.source /\ res'.ended = res.ended
      /\ res'.metaEmitted = (res.metaEmitted \/ e.name = "meta") /\ res'.lines = lines
  <2>. HIDE DEF lines
  <2>. QED  BY <1>6
<1>8. IsResponse(res')
  <2>. HIDE DEF lines
  <2>. QED  BY <1>4, <1>5, <1>6, <1>7 DEF IsResponse
<1>. QED  BY <1>2, <1>3, <1>7, <1>8 DEF step

-----------------------------------------------------------------------------
(* The base invariant *)

(* Nothing has happened at first. *)
LEMMA BaseInit == Init => BaseInv
<1>. SUFFICES ASSUME Init PROVE BaseInv
  OBVIOUS
<1>. USE DEF Init
<1>1. NewSdk \in [open : BOOLEAN, calls : Seq(Word), part : Nat, text : Nat,
                  thought : BOOLEAN, stop : Word]
  BY WordsOfCode DEF NewSdk, None
<1>2. IsAdapter(NewAdapter)
  BY DEF IsAdapter, NewAdapter
<1>3. NewMapper \in MapperState
  BY DEF NewMapper, MapperState
<1>4. IsResponse(NewResponse)
  BY DEF NewResponse, IsResponse, None
<1>5. NoAnswer \in Reply
  <2>1. <<>> \in Seq(Word) /\ <<>> \in Seq(ToolCall) /\ "none" \in Word
    BY WordsOfCode
  <2>. QED  BY <2>1 DEF NoAnswer, Reply, None
<1>6. cache \in [BOOLEAN -> Reply] /\ \A thinking \in BOOLEAN : cache[thinking] = NoAnswer
  BY <1>5
<1>7. NoAttempt \in [no : Nat, alias : {"primary", "fallback"}] /\ NoAttempt.alias # "fallback"
  BY DEF NoAttempt
<1>8. FacadeTypeOK
  BY <1>1, <1>2, <1>3, <1>4, <1>6, <1>7 DEF FacadeTypeOK, NoRequest
<1>9. PhaseInv
  BY DEF PhaseInv, Early, NewResponse, None
<1>10. CacheInv
  BY <1>6 DEF CacheInv
<1>11. AdapterInv
  BY DEF AdapterInv
<1>. QED  BY <1>8, <1>9, <1>10, <1>11 DEF BaseInv

(* The steps before the cache is asked either go on to the next one or     *)
(* reject the request, and touch nothing else.                             *)
LEMMA EarlyStep ==
  ASSUME BaseInv,
         Authenticate \/ RateLimit \/ ValidateForStreaming \/ MapRequest \/ Prepare
  PROVE  /\ pc \in Early
         /\ UNCHANGED <<model, req, attempt, sdk, adapter, mapper, late, cache, served, cooling>>
         /\ \/ pc' \in Early /\ res' = res
            \/ \E status \in Nat, code \in Word : Reject(status, code)
<1>. USE DEF Early
<1>1. CASE Authenticate
  <2>1. \/ Reject(500, "GATEWAY_KEY_NOT_CONFIGURED") \/ Reject(401, "GATEWAY_KEY_MISSING")
        \/ Reject(403, "GATEWAY_KEY_INVALID") \/ Go("limit")
    BY <1>1 DEF Authenticate, BaseInv, FacadeTypeOK
  <2>2. pc = "auth" /\ UNCHANGED <<Request, cooling>>
    BY <1>1 DEF Authenticate
  <2>3. \/ Go("limit") \/ \E status \in Nat, code \in Word : Reject(status, code)
    BY <2>1, WordsOfErrors
  <2>. QED  BY <2>2, <2>3 DEF Go, Request
<1>2. CASE RateLimit
  <2>1. Reject(429, "RATE_LIMITED") \/ Go("validate")
    BY <1>2 DEF RateLimit
  <2>. QED  BY <1>2, <2>1, WordsOfErrors DEF RateLimit, Go, Request
<1>3. CASE ValidateForStreaming
  <2>. DEFINE checks == IF req.stream THEN <<resolveModelAlias, validateForStreaming>> ELSE <<>>
              next == IF req.facade = "native" THEN "prepare" ELSE "map"
  <2>1. PassAll(checks, next)
    BY <1>3 DEF ValidateForStreaming
  <2>2. DOMAIN checks = 1 .. (IF req.stream THEN 2 ELSE 0)
    OBVIOUS
  <2>3. \A i \in 1 .. (IF req.stream THEN 2 ELSE 0) :
          checks[i].status \in Nat /\ checks[i].code \in Word
    BY WordsOfErrors DEF Check, resolveModelAlias, validateForStreaming
  <2>4. (IF req.stream THEN 2 ELSE 0) \in Nat
    OBVIOUS
  <2>. HIDE DEF checks, next
  <2>5. Go(next) \/ \E status \in Nat, code \in Word : Reject(status, code)
    BY <2>1, <2>2, <2>3, <2>4, PassAllIs
  <2>. QED  BY <1>3, <2>5 DEF ValidateForStreaming, Go, Request, next
<1>4. CASE MapRequest
  <2>. DEFINE checks == <<Check(req.flaw = "noMessages", 400, "VALIDATION_FAILED")>>
  <2>1. \/ Reject(429, "RATE_LIMITED")
        \/ PassAll(checks, "prepare")
    BY <1>4 DEF MapRequest
  <2>2. DOMAIN checks = 1 .. 1
    OBVIOUS
  <2>3. \A i \in 1 .. 1 : checks[i].status \in Nat /\ checks[i].code \in Word
    BY WordsOfErrors DEF Check
  <2>. HIDE DEF checks
  <2>4. \/ Go("prepare") \/ Reject(429, "RATE_LIMITED")
        \/ \E status \in Nat, code \in Word : Reject(status, code)
    BY <2>1, <2>2, <2>3, PassAllIs
  <2>. QED  BY <1>4, <2>4, WordsOfErrors DEF MapRequest, Go, Request
<1>5. CASE Prepare
  <2>. DEFINE checks == <<validateChatIngress, resolveModelAlias, validateTooling,
                          resolveProviderCallOptions, validateThinking, assertNotInCooldown>>
  <2>1. PassAll(checks, "lookup")
    BY <1>5 DEF Prepare
  <2>2. DOMAIN checks = 1 .. 6
    OBVIOUS
  <2>3. \A i \in 1 .. 6 : checks[i].status \in Nat /\ checks[i].code \in Word
    BY WordsOfErrors DEF Check, validateChatIngress, resolveModelAlias, validateTooling,
                         resolveProviderCallOptions, validateThinking, assertNotInCooldown
  <2>. HIDE DEF checks
  <2>4. Go("lookup") \/ \E status \in Nat, code \in Word : Reject(status, code)
    BY <2>1, <2>2, <2>3, PassAllIs
  <2>. QED  BY <1>5, <2>4 DEF Prepare, Go, Request
<1>. QED  BY <1>1, <1>2, <1>3, <1>4, <1>5

(* Nothing but the response changes, and only where the request ends. *)
LEMMA BaseRejected ==
  ASSUME BaseInv, pc \in Early \cup {"live"}, NEW status \in Nat, NEW code \in Word,
         Reject(status, code), UNCHANGED <<model, req, attempt, mapper, cache, served>>,
         IsAdapter(adapter'), cooling' \in BOOLEAN,
         sdk' \in [open : BOOLEAN, calls : Seq(Word), part : Nat, text : Nat,
                   thought : BOOLEAN, stop : Word],
         late' \in BOOLEAN, late' => res.source = "live" /\ req.stream /\ res.metaEmitted
  PROVE  BaseInv'
<1>1. FacadeTypeOK /\ PhaseInv /\ CacheInv /\ AdapterInv
  BY DEF BaseInv
<1>2. IsResponse(res) /\ req.facade \in Facades
  BY <1>1 DEF FacadeTypeOK, PhaseInv, Early
<1>3. /\ IsResponse(res') /\ pc' = "ended" /\ res'.ended
      /\ res'.source = res.source /\ res'.metaEmitted = res.metaEmitted
  BY <1>2, RejectIs
<1>4. FacadeTypeOK'
  BY <1>1, <1>3 DEF FacadeTypeOK
<1>5. PhaseInv'
  BY <1>1, <1>2, <1>3 DEF PhaseInv, Early
<1>6. CacheInv'
  BY <1>1 DEF CacheInv
<1>7. AdapterInv'
  BY <1>3 DEF AdapterInv
<1>. QED  BY <1>4, <1>5, <1>6, <1>7 DEF BaseInv

(* The steps before the cache is asked. *)
LEMMA BaseEarly ==
  ASSUME BaseInv,
         Authenticate \/ RateLimit \/ ValidateForStreaming \/ MapRequest \/ Prepare
  PROVE  BaseInv'
<1>1. FacadeTypeOK /\ PhaseInv /\ CacheInv /\ AdapterInv
  BY DEF BaseInv
<1>2. /\ pc \in Early
      /\ UNCHANGED <<model, req, attempt, sdk, adapter, mapper, late, cache, served, cooling>>
  BY EarlyStep
<1>3. CASE pc' \in Early /\ res' = res
  <2>1. FacadeTypeOK'
    BY <1>1, <1>2, <1>3 DEF FacadeTypeOK
  <2>2. PhaseInv'
    BY <1>1, <1>2, <1>3 DEF PhaseInv, Early
  <2>3. CacheInv' /\ AdapterInv'
    BY <1>1, <1>2, <1>3 DEF CacheInv, AdapterInv, Early
  <2>. QED  BY <2>1, <2>2, <2>3 DEF BaseInv
<1>4. CASE \E status \in Nat, code \in Word : Reject(status, code)
  <2>1. PICK status \in Nat, code \in Word : Reject(status, code)
    BY <1>4
  <2>2. IsAdapter(adapter) /\ late \in BOOLEAN /\ cooling \in BOOLEAN /\ ~late
        /\ sdk \in [open : BOOLEAN, calls : Seq(Word), part : Nat, text : Nat,
                     thought : BOOLEAN, stop : Word]
    BY <1>1, <1>2 DEF FacadeTypeOK, PhaseInv
  <2>. QED  BY <1>2, <2>1, <2>2, BaseRejected
<1>. QED  BY <1>3, <1>4, EarlyStep

-----------------------------------------------------------------------------
(* Replays *)

(* What a replay has written after n of its events *)
Replayed(answer) == EmittedAll(ReplayEvents(answer))

(* A replay writes meta, the chunks and done, each on what is there. *)
LEMMA ReplaySteps ==
  ASSUME NEW answer \in Reply
  PROVE  LET K == ChunkCount(answer.text)
             out == Replayed(answer)
         IN  /\ K \in Nat /\ Len(ReplayEvents(answer)) = K + 2
             /\ out[0] = [lines |-> <<>>, mapper |-> mapper]
             /\ out[1] = Emitted(out[0], Meta)
             /\ \A i \in 1 .. K : /\ out[i + 1] = Emitted(out[i], Delta(ChunkText(answer.text, i)))
                                  /\ ChunkText(answer.text, i) \in Seq(Word)
             /\ out[K + 2] = Emitted(out[K + 1], Done(Bare(answer)))
<1>. DEFINE K == ChunkCount(answer.text)
            out == Replayed(answer)
            events == ReplayEvents(answer)
<1>1. /\ K \in Nat /\ Len(events) = K + 2
      /\ events[1] = Meta /\ events[K + 2] = Done(Bare(answer))
      /\ \A i \in 1 .. K : /\ events[i + 1] = Delta(ChunkText(answer.text, i))
                           /\ ChunkText(answer.text, i) \in Seq(Word)
  BY ReplayEventsAre
<1>. HIDE DEF K, events
<1>2. /\ EmittedAll(events)[0] = [lines |-> <<>>, mapper |-> mapper]
      /\ \A n \in 1 .. Len(events) : EmittedAll(events)[n] = Emitted(EmittedAll(events)[n - 1], events[n])
  BY <1>1, EmittedAllIs
<1>3. out = EmittedAll(events)
  BY DEF Replayed, events
<1>. HIDE DEF out
<1>4. \A n \in 1 .. K + 2 : out[n] = Emitted(out[n - 1], events[n])
  BY <1>1, <1>2, <1>3
<1>5. out[1] = Emitted(out[0], Meta)
  BY <1>1, <1>4
<1>6. \A i \in 1 .. K : out[i + 1] = Emitted(out[i], Delta(ChunkText(answer.text, i)))
  <2>. SUFFICES ASSUME NEW i \in 1 .. K
                PROVE  out[i + 1] = Emitted(out[i], Delta(ChunkText(answer.text, i)))
    OBVIOUS
  <2>1. i + 1 \in 1 .. K + 2 /\ (i + 1) - 1 = i
    BY <1>1
  <2>. QED  BY <1>1, <1>4, <2>1
<1>7. out[K + 2] = Emitted(out[K + 1], Done(Bare(answer)))
  <2>1. K + 2 \in 1 .. K + 2 /\ (K + 2) - 1 = K + 1
    BY <1>1
  <2>. QED  BY <1>1, <1>4, <2>1
<1>. QED  BY <1>1, <1>2, <1>3, <1>5, <1>6, <1>7 DEF K, out, events

(* One event on what is there. *)
LEMMA EmittedIs ==
  ASSUME NEW out, NEW e
  PROVE  /\ Emitted(out, e).lines = out.lines \o MapEvent(e, out.mapper).lines
         /\ Emitted(out, e).mapper = MapEvent(e, out.mapper).mapper
<1>. DEFINE lines == out.lines \o MapEvent(e, out.mapper).lines
            m == MapEvent(e, out.mapper).mapper
<1>1. Emitted(out, e) = [lines |-> lines, mapper |-> m]
  BY DEF Emitted
<1>. HIDE DEF lines, m
<1>2. Emitted(out, e).lines = lines /\ Emitted(out, e).mapper = m
  BY <1>1
<1>. QED  BY <1>2 DEF lines, m

(* ... keeps the types. *)
LEMMA EmittedTyped ==
  ASSUME NEW out, Mapped(out), NEW e, Mapped(MapEvent(e, out.mapper))
  PROVE  Mapped(Emitted(out, e))
<1>. DEFINE step == MapEvent(e, out.mapper)
<1>1. /\ Emitted(out, e).lines = out.lines \o step.lines /\ Emitted(out, e).mapper = step.mapper
  BY EmittedIs
<1>2. /\ out.lines \in Seq(WireLine) /\ step.lines \in Seq(WireLine) /\ step.mapper \in MapperState
  BY DEF Mapped
<1>. HIDE DEF step
<1>. QED  BY <1>1, <1>2 DEF Mapped

(* So all of a replay is typed. *)
LEMMA ReplayTyped ==
  ASSUME NEW answer \in Reply, req.facade \in Facades, mapper \in MapperState
  PROVE  \A n \in 0 .. ChunkCount(answer.text) + 2 : Mapped(Replayed(answer)[n])
<1>. DEFINE K == ChunkCount(answer.text)
            out == Replayed(answer)
            S == {n \in Nat : Mapped(out[n])}
<1>1. /\ K \in Nat
      /\ out[0] = [lines |-> <<>>, mapper |-> mapper]
      /\ out[1] = Emitted(out[0], Meta)
      /\ \A i \in 1 .. K : /\ out[i + 1] = Emitted(out[i], Delta(ChunkText(answer.text, i)))
                           /\ ChunkText(answer.text, i) \in Seq(Word)
      /\ out[K + 2] = Emitted(out[K + 1], Done(Bare(answer)))
  BY ReplaySteps
<1>2. Bare(answer) \in Reply /\ <<>> \in Seq(Word)
  BY BareTyped
<1>. HIDE DEF K, out
<1>3. 0 \in S
  <2>1. out[0].lines = <<>> /\ out[0].mapper = mapper
    BY <1>1
  <2>2. Mapped(out[0])
    BY <2>1 DEF Mapped
  <2>. QED  BY <2>2
<1>4. ASSUME NEW n \in 0 .. (K + 2) - 1, n \in S PROVE n + 1 \in S
  <2>1. Mapped(out[n]) /\ out[n].mapper \in MapperState /\ n + 1 \in Nat
    BY <1>1, <1>4 DEF Mapped
  <2>2. \E e : Mapped(MapEvent(e, out[n].mapper)) /\ out[n + 1] = Emitted(out[n], e)
    <3>1. CASE n = 0
      <4>1. Mapped(MapEvent(Meta, out[n].mapper))
        BY <1>2, <2>1, MapEventTyped
      <4>. QED  BY <1>1, <3>1, <4>1
    <3>2. CASE n \in 1 .. K
      <4>1. Mapped(MapEvent(Delta(ChunkText(answer.text, n)), out[n].mapper))
        BY <1>1, <1>2, <2>1, <3>2, MapEventTyped
      <4>. QED  BY <1>1, <3>2, <4>1
    <3>3. CASE n = K + 1
      <4>1. Mapped(MapEvent(Done(Bare(answer)), out[n].mapper))
        BY <1>2, <2>1, MapEventTyped
      <4>2. n + 1 = K + 2
        BY <1>1, <3>3
      <4>. QED  BY <1>1, <3>3, <4>1, <4>2
    <3>. QED  BY <1>1, <3>1, <3>2, <3>3
  <2>3. PICK e : Mapped(MapEvent(e, out[n].mapper)) /\ out[n + 1] = Emitted(out[n], e)
    BY <2>2
  <2>4. Mapped(out[n + 1])
    BY <2>1, <2>3, EmittedTyped
  <2>. QED  BY <2>1, <2>4
<1>5. 0 .. K + 2 \subseteq S
  <2>1. K + 2 \in Nat
    BY <1>1
  <2>. HIDE DEF S
  <2>. QED  BY <1>3, <1>4, <2>1, Induction
<1>. QED  BY <1>5 DEF K, out

-----------------------------------------------------------------------------
(* The base invariant goes on *)

SdkState == [open : BOOLEAN, calls : Seq(Word), part : Nat, text : Nat,
             thought : BOOLEAN, stop : Word]

(* What is fresh has its type. *)
LEMMA FreshTyped ==
  /\ NewSdk \in SdkState /\ NewSdk.open = FALSE
  /\ NewSdk.calls = <<>> /\ NewSdk.part = 0
  /\ IsAdapter(NewAdapter) /\ NewMapper \in MapperState
  /\ IsResponse(NewResponse) /\ NewResponse.source = None /\ NewResponse.lines = <<>>
  /\ NewResponse.status = 0 /\ NewResponse.ended = FALSE /\ NewResponse.metaEmitted = FALSE
  /\ \A type : AdapterHolds(type, NewAdapter, 0, 0)
<1>1. NewSdk \in SdkState
  BY WordsOfCode DEF NewSdk, None, SdkState
<1>2. IsAdapter(NewAdapter) /\ NewMapper \in MapperState /\ IsResponse(NewResponse)
  BY DEF IsAdapter, NewAdapter, NewMapper, MapperState, NewResponse, IsResponse, None
<1>3. ResponsesHolds(NewAdapter, 0, 0)
  <2>1. NewAdapter.calls = <<>> /\ NewAdapter.itemIdToCallId = {}
    BY DEF NewAdapter
  <2>2. ResponsesEntries(0) = <<>> /\ Registered(0) = {}
    BY DEF ResponsesEntries, Registered
  <2>. QED  BY <2>1, <2>2 DEF ResponsesHolds
<1>4. ChatCompletionsHolds(NewAdapter, 0, 0)
  <2>1. ChatEntries(0, 0) = <<>> /\ NewAdapter.calls = <<>>
    BY DEF ChatEntries, NewAdapter
  <2>. QED  BY <2>1 DEF ChatCompletionsHolds
<1>5. GoogleHolds(NewAdapter, 0, 0)
  BY DEF GoogleHolds, NewAdapter, NoFragment, Fragment, None
<1>6. \A type : AdapterHolds(type, NewAdapter, 0, 0)
  BY <1>3, <1>4, <1>5 DEF AdapterHolds
<1>. QED  BY <1>1, <1>2, <1>6 DEF NewSdk, NewResponse

(* A request arrives. *)
LEMMA BaseArrive == ASSUME BaseInv, Arrive PROVE BaseInv'
<1>1. FacadeTypeOK /\ PhaseInv /\ CacheInv /\ AdapterInv
  BY DEF BaseInv
<1>2. /\ pc = "idle" /\ pc' = "auth" /\ served' = served + 1
      /\ UNCHANGED <<model, attempt, sdk, adapter, mapper, res, late, cache, cooling>>
  BY DEF Arrive
<1>3. /\ req'.facade \in Facades /\ req'.stream \in BOOLEAN /\ req'.tools \in BOOLEAN
      /\ req'.thinking \in BOOLEAN
      /\ req'.key \in {"valid", "missing", "unknown", "unconfigured"}
  BY DEF Arrive
<1>4. FacadeTypeOK'
  BY <1>1, <1>2, <1>3 DEF FacadeTypeOK
<1>5. PhaseInv'
  BY <1>1, <1>2, <1>3 DEF PhaseInv, Early
<1>6. CacheInv' /\ AdapterInv'
  BY <1>1, <1>2 DEF CacheInv, AdapterInv
<1>. QED  BY <1>4, <1>5, <1>6 DEF BaseInv

(* A request is over. *)
LEMMA BaseClose == ASSUME BaseInv, Close PROVE BaseInv'
<1>1. FacadeTypeOK /\ PhaseInv /\ CacheInv /\ AdapterInv
  BY DEF BaseInv
<1>2. /\ pc' = "idle"
      /\ req' = NoRequest /\ attempt' = NoAttempt /\ sdk' = NewSdk /\ adapter' = NewAdapter
      /\ mapper' = NewMapper /\ res' = NewResponse /\ late' = FALSE
      /\ UNCHANGED <<model, cache, cooling, served>>
  BY DEF Close
<1>3. FacadeTypeOK'
  BY <1>1, <1>2, FreshTyped DEF FacadeTypeOK, NoRequest, NoAttempt, SdkState
<1>4. PhaseInv'
  BY <1>1, <1>2, FreshTyped DEF PhaseInv, Early, None
<1>5. CacheInv' /\ AdapterInv'
  BY <1>1, <1>2 DEF CacheInv, AdapterInv
<1>. QED  BY <1>3, <1>4, <1>5 DEF BaseInv

(* What a replay does to the response. *)
LEMMA ReplayIs ==
  ASSUME BaseInv, Replay
  PROVE  /\ pc = "lookup" /\ pc' = "ended" /\ Entry \in Reply /\ Entry # NoAnswer
         /\ Entry.finish = "stop" /\ Entry.calls = <<>>
         /\ mapper = NewMapper /\ req.facade \in Facades
         /\ IsResponse(res') /\ mapper' \in MapperState /\ res'.ended
         /\ res'.source = "cache"
         /\ req.stream => res'.lines = Replayed(Entry)[ChunkCount(Entry.text) + 2].lines
         /\ ~req.stream => res'.lines = JsonLines(Entry)
         /\ UNCHANGED <<model, req, attempt, sdk, adapter, late, cache, cooling, served>>
<1>1. FacadeTypeOK /\ PhaseInv /\ CacheInv
  BY DEF BaseInv
<1>2. /\ pc = "lookup" /\ pc' = "ended" /\ Entry # NoAnswer
      /\ UNCHANGED <<model, req, attempt, sdk, adapter, late, cache, cooling, served>>
  BY DEF Replay
<1>3. /\ res = NewResponse /\ mapper = NewMapper /\ req.facade \in Facades
      /\ Entry \in Reply /\ Entry.finish = "stop" /\ Entry.calls = <<>> /\ mapper \in MapperState
      /\ req.stream \in BOOLEAN /\ IsResponse(res)
  BY <1>1, <1>2 DEF FacadeTypeOK, PhaseInv, CacheInv, Entry, Early
<1>. DEFINE K == ChunkCount(Entry.text)
            out == IF req.stream
                   THEN EmittedAll(ReplayEvents(Entry))[Len(ReplayEvents(Entry))]
                   ELSE [lines |-> JsonLines(Entry), mapper |-> mapper]
<1>4. /\ mapper' = out.mapper
      /\ res' = [res EXCEPT !.status = IF req.stream THEN 200 ELSE 201,
                            !.source = "cache", !.lines = out.lines, !.ended = TRUE]
  BY DEF Replay
<1>5. /\ out.lines \in Seq(WireLine) /\ out.mapper \in MapperState
      /\ req.stream => out = Replayed(Entry)[K + 2]
      /\ ~req.stream => out.lines = JsonLines(Entry)
  <2>1. CASE req.stream
    <3>1. Len(ReplayEvents(Entry)) = K + 2 /\ K \in Nat
      BY <1>3, ReplaySteps
    <3>2. out = Replayed(Entry)[K + 2]
      BY <2>1, <3>1 DEF Replayed
    <3>3. K + 2 \in 0 .. K + 2
      BY <3>1
    <3>4. Mapped(out)
      BY <1>3, <3>2, <3>3, ReplayTyped
    <3>. QED  BY <2>1, <3>2, <3>4 DEF Mapped
  <2>2. CASE ~req.stream
    <3>1. out.lines = JsonLines(Entry) /\ out.mapper = mapper
      BY <2>2
    <3>. HIDE DEF out
    <3>. QED  BY <1>3, <2>2, <3>1, JsonLinesTyped
  <2>. QED  BY <2>1, <2>2
<1>. HIDE DEF out, K
<1>6. res' = [status |-> IF req.stream THEN 200 ELSE 201, source |-> "cache",
              lines |-> out.lines, metaEmitted |-> res.metaEmitted, ended |-> TRUE]
  BY <1>3, <1>4 DEF IsResponse
<1>7. IsResponse(res')
  BY <1>3, <1>5, <1>6 DEF IsResponse
<1>. QED  BY <1>2, <1>3, <1>4, <1>5, <1>6, <1>7 DEF K

(* A replay. *)
LEMMA BaseReplay == ASSUME BaseInv, Replay PROVE BaseInv'
<1>1. FacadeTypeOK /\ PhaseInv /\ CacheInv /\ AdapterInv
  BY DEF BaseInv
<1>2. /\ pc = "lookup" /\ pc' = "ended" /\ req.facade \in Facades
      /\ IsResponse(res') /\ mapper' \in MapperState /\ res'.ended /\ res'.source = "cache"
      /\ UNCHANGED <<model, req, attempt, sdk, adapter, late, cache, cooling, served>>
  BY ReplayIs
<1>3. FacadeTypeOK'
  BY <1>1, <1>2 DEF FacadeTypeOK
<1>4. PhaseInv'
  BY <1>1, <1>2 DEF PhaseInv, Early
<1>5. CacheInv' /\ AdapterInv'
  BY <1>1, <1>2 DEF CacheInv, AdapterInv
<1>. QED  BY <1>3, <1>4, <1>5 DEF BaseInv

(* A miss. *)
LEMMA BaseMiss == ASSUME BaseInv, Miss PROVE BaseInv'
<1>1. FacadeTypeOK /\ PhaseInv /\ CacheInv /\ AdapterInv
  BY DEF BaseInv
<1>2. /\ pc = "lookup" /\ pc' = "live" /\ attempt' = [no |-> 1, alias |-> "primary"]
      /\ res' = [res EXCEPT !.status = IF req.stream THEN 200 ELSE 0, !.source = "live"]
      /\ UNCHANGED <<model, req, sdk, adapter, mapper, late, cache, cooling, served>>
  BY DEF Miss
<1>3. /\ res = NewResponse /\ mapper = NewMapper /\ ~late /\ sdk = NewSdk /\ adapter = NewAdapter
      /\ req.facade \in Facades /\ req.stream \in BOOLEAN
  BY <1>1, <1>2 DEF PhaseInv, Early, FacadeTypeOK
<1>4. res' = [status |-> IF req.stream THEN 200 ELSE 0, source |-> "live", lines |-> <<>>,
              metaEmitted |-> FALSE, ended |-> FALSE]
  BY <1>2, <1>3 DEF NewResponse
<1>5. IsResponse(res')
  BY <1>3, <1>4 DEF IsResponse
<1>6. FacadeTypeOK'
  BY <1>1, <1>2, <1>5 DEF FacadeTypeOK
<1>7. PhaseInv'
  BY <1>1, <1>2, <1>3, <1>4, FreshTyped DEF PhaseInv, Early
<1>8. CacheInv'
  BY <1>1, <1>2 DEF CacheInv
<1>9. AdapterInv'
  <2>1. sdk' = NewSdk /\ adapter' = NewAdapter /\ pc' = "live"
    BY <1>2, <1>3
  <2>2. Len(CallNames) \in Nat /\ Len(sdk'.calls) = 0 /\ sdk'.part = 0
    BY <2>1, FreshTyped, Ids
  <2>3. AdapterHolds(AttemptType', adapter', 0, 0)
    BY <2>1, FreshTyped
  <2>. QED  BY <2>1, <2>2, <2>3 DEF AdapterInv
<1>. QED  BY <1>6, <1>7, <1>8, <1>9 DEF BaseInv

(* The provider behind a call stays as long as the call. *)
LEMMA SameAttempt ==
  ASSUME UNCHANGED <<model, attempt>>
  PROVE  AttemptType' = AttemptType
  BY DEF AttemptType

(* What is known while a call is read. *)
LEMMA LiveFacts ==
  ASSUME BaseInv, pc \in {"live", "collect", "store"} \/ late
  PROVE  /\ FacadeTypeOK /\ PhaseInv /\ CacheInv /\ AdapterInv
         /\ req.facade \in Facades /\ res.source = "live"
         /\ AttemptType \in {"anthropic", "google", "openai", "openai-compatible"}
         /\ sdk \in SdkState /\ Len(sdk.calls) \in Nat /\ sdk.part \in Nat /\ IsAdapter(adapter)
         /\ mapper \in MapperState /\ IsResponse(res)
<1>1. FacadeTypeOK /\ PhaseInv /\ CacheInv /\ AdapterInv
  BY DEF BaseInv
<1>2. /\ model \in Models /\ attempt.alias \in {"primary", "fallback"}
      /\ attempt.alias = "fallback" => model.fallback # None
      /\ sdk \in SdkState /\ IsAdapter(adapter)
      /\ mapper \in MapperState /\ IsResponse(res)
  BY <1>1 DEF FacadeTypeOK, SdkState
<1>3. pc # "idle" /\ res.source = "live"
  BY <1>1 DEF PhaseInv
<1>4. AttemptType \in {"anthropic", "google", "openai", "openai-compatible"}
  BY <1>2, AttemptTyped
<1>5. req.facade \in Facades
  BY <1>1, <1>3 DEF PhaseInv
<1>6. sdk.calls \in Seq(Word) /\ sdk.part \in Nat
  BY <1>2 DEF SdkState
<1>. QED  BY <1>1, <1>2, <1>3, <1>4, <1>5, <1>6

(* A step that reads the vendor: the wire and the adapter go on together. *)
LEMMA BaseReads ==
  ASSUME BaseInv, pc = "live", req.stream, pc' \in {"live", "collect"},
         UNCHANGED <<model, req, attempt, late, cache, cooling, served>>,
         mapper' \in MapperState, IsResponse(res'), sdk' \in SdkState, IsAdapter(adapter'),
         res'.status = res.status, res'.source = res.source, res'.ended = res.ended,
         res.metaEmitted => res'.metaEmitted, sdk'.open, res'.metaEmitted,
         Len(sdk'.calls) <= Len(CallNames),
         sdk'.part > 0 => Len(sdk'.calls) < Len(CallNames),
         \A i \in 1 .. Len(sdk'.calls) : sdk'.calls[i] = CallNames[i],
         pc' # "live" => sdk'.part = 0,
         AdapterHolds(AttemptType, adapter', Len(sdk'.calls), sdk'.part)
  PROVE  BaseInv'
<1>1. FacadeTypeOK /\ PhaseInv /\ CacheInv /\ AdapterInv
  BY DEF BaseInv
<1>2. FacadeTypeOK'
  BY <1>1 DEF FacadeTypeOK, SdkState
<1>3. PhaseInv'
  BY <1>1 DEF PhaseInv, Early
<1>4. CacheInv'
  BY <1>1 DEF CacheInv
<1>5. AdapterInv'
  BY SameAttempt DEF AdapterInv
<1>. QED  BY <1>2, <1>3, <1>4, <1>5 DEF BaseInv

(* What AdapterInv says of a live stream. *)
LEMMA LiveStream ==
  ASSUME BaseInv, pc = "live", req.stream
  PROVE  /\ Len(sdk.calls) <= Len(CallNames) /\ Len(CallNames) \in Nat
         /\ sdk.part > 0 => Len(sdk.calls) < Len(CallNames)
         /\ \A i \in 1 .. Len(sdk.calls) : sdk.calls[i] = CallNames[i]
         /\ AdapterHolds(AttemptType, adapter, Len(sdk.calls), sdk.part)
         /\ sdk.open => res.metaEmitted
  BY Ids DEF BaseInv, AdapterInv, PhaseInv

(* meta goes out. *)
LEMMA BaseOpenStream == ASSUME BaseInv, OpenStream PROVE BaseInv'
<1>1. /\ pc = "live" /\ req.stream /\ pc' = pc
      /\ UNCHANGED <<model, req, attempt, adapter, late, cache, cooling, served>>
      /\ sdk' = [sdk EXCEPT !.open = TRUE]
      /\ IF res.metaEmitted THEN UNCHANGED <<mapper, res>> ELSE Emit(Meta)
  BY DEF OpenStream, Live
<1>2. /\ FacadeTypeOK /\ req.facade \in Facades /\ sdk \in SdkState /\ IsAdapter(adapter)
      /\ mapper \in MapperState /\ IsResponse(res)
  BY <1>1, LiveFacts
<1>3. /\ sdk' \in SdkState /\ sdk'.open /\ sdk'.calls = sdk.calls /\ sdk'.part = sdk.part
  BY <1>1, <1>2, Zenon DEF SdkState
<1>4. /\ mapper' \in MapperState /\ IsResponse(res') /\ res'.status = res.status
      /\ res'.source = res.source /\ res'.ended = res.ended /\ res'.metaEmitted
  <2>1. CASE res.metaEmitted
    BY <1>1, <1>2, <2>1
  <2>2. CASE ~res.metaEmitted
    <3>1. Emit(Meta)
      BY <1>1, <2>2
    <3>2. Mapped(MapEvent(Meta, mapper))
      <4>1. NoAnswer \in Reply /\ <<>> \in Seq(Word)
        BY WordsOfCode DEF NoAnswer, Reply, None
      <4>. QED  BY <1>2, <4>1, MapEventTyped
    <3>3. Meta.name = "meta"
      BY DEF Meta
    <3>. QED  BY <1>2, <3>1, <3>2, <3>3, EmitIs
  <2>. QED  BY <2>1, <2>2
<1>. QED  BY <1>1, <1>2, <1>3, <1>4, LiveStream, BaseReads

(* A piece of text has its type. *)
LEMMA TextTyped ==
  ASSUME NEW n \in Nat
  PROVE  Text(n) \in Seq(Word)
<1>1. n * PieceSize \in Nat
  BY BoundsAssumption
<1>2. "t1" \in Word /\ "t2" \in Word
  BY WordsOfCode
<1>3. Text(n) \in [1 .. n * PieceSize -> Word]
  BY <1>2 DEF Text
<1>. QED  BY <1>1, <1>3, SeqOf

(* What a piece of text does on the wire. *)
LEMMA DeltaIs ==
  ASSUME FacadeTypeOK, req.facade \in Facades, NEW text \in Seq(Word), Emit(Delta(text))
  PROVE  /\ IsResponse(res') /\ mapper' = MapEvent(Delta(text), mapper).mapper
         /\ mapper' \in MapperState
         /\ res'.status = res.status /\ res'.source = res.source /\ res'.ended = res.ended
         /\ res'.metaEmitted = res.metaEmitted
         /\ res.ended => res'.lines = res.lines
         /\ ~res.ended => res'.lines = res.lines \o MapEvent(Delta(text), mapper).lines
<1>1. NoAnswer \in Reply
  BY WordsOfCode DEF NoAnswer, Reply, None
<1>2. IsResponse(res) /\ mapper \in MapperState /\ res.metaEmitted \in BOOLEAN
  BY DEF FacadeTypeOK, IsResponse
<1>3. Mapped(MapEvent(Delta(text), mapper))
  BY <1>1, <1>2, MapEventTyped
<1>4. Delta(text).name # "meta"
  BY DEF Delta
<1>. QED  BY <1>2, <1>3, <1>4, EmitIs

(* Text. *)
LEMMA BaseSdkText == ASSUME BaseInv, SdkText PROVE BaseInv'
<1>. DEFINE a == Accumulate(adapter, Fragment("text", 0, None, <<>>))
            n == Len(sdk.calls)
<1>1. /\ pc = "live" /\ req.stream /\ pc' = pc /\ sdk.open /\ sdk.part = 0
      /\ UNCHANGED <<model, req, attempt, late, cache, cooling, served>>
      /\ sdk' = [sdk EXCEPT !.text = sdk.text + 1] /\ Emit(Delta(Text(1)))
      /\ adapter' = [a EXCEPT !.assembledText = a.assembledText \o Text(1)]
  BY DEF SdkText, Live
<1>2. /\ FacadeTypeOK /\ req.facade \in Facades /\ sdk \in SdkState /\ IsAdapter(adapter)
      /\ AttemptType \in {"anthropic", "google", "openai", "openai-compatible"} /\ n \in Nat
      /\ sdk.part \in Nat
  BY <1>1, LiveFacts
<1>3. /\ sdk' \in SdkState /\ sdk'.open /\ sdk'.calls = sdk.calls /\ sdk'.part = sdk.part
  <2>1. sdk.text + 1 \in Nat
    BY <1>2 DEF SdkState
  <2>. QED  BY <1>1, <1>2, <2>1, Zenon DEF SdkState
<1>4. /\ IsAdapter(a) /\ a.assembledText = adapter.assembledText
      /\ AdapterHolds(AttemptType, a, n, sdk.part)
  <2>1. "text" \in OtherKinds
    BY DEF OtherKinds
  <2>2. AdapterHolds(AttemptType, adapter, n, sdk.part)
    BY <1>1, LiveStream
  <2>. QED  BY <1>2, <2>1, <2>2, OtherFragment
<1>. HIDE DEF a
<1>5. Text(1) \in Seq(Word) /\ a.assembledText \o Text(1) \in Seq(Word)
  BY <1>4, TextTyped DEF IsAdapter
<1>6. /\ IsAdapter(adapter') /\ adapter'.calls = a.calls
      /\ adapter'.itemIdToCallId = a.itemIdToCallId /\ adapter'.lastChunk = a.lastChunk
  BY <1>1, <1>4, <1>5 DEF IsAdapter
<1>7. AdapterHolds(AttemptType, adapter', n, sdk.part)
  BY <1>4, <1>6 DEF AdapterHolds, ResponsesHolds, ChatCompletionsHolds, GoogleHolds
<1>8. /\ mapper' \in MapperState /\ IsResponse(res') /\ res'.status = res.status
      /\ res'.source = res.source /\ res'.ended = res.ended
      /\ res'.metaEmitted = res.metaEmitted
  BY <1>1, <1>2, <1>5, DeltaIs
<1>. QED  BY <1>1, <1>2, <1>3, <1>6, <1>7, <1>8, LiveStream, BaseReads

(* Thought. *)
LEMMA BaseSdkThought == ASSUME BaseInv, SdkThought PROVE BaseInv'
<1>. DEFINE a == Accumulate(adapter, Fragment("thought", 0, None, <<>>))
            n == Len(sdk.calls)
<1>1. /\ pc = "live" /\ req.stream /\ pc' = pc /\ sdk.open /\ sdk.part = 0
      /\ UNCHANGED <<model, req, attempt, mapper, res, late, cache, cooling, served>>
      /\ sdk' = [sdk EXCEPT !.thought = TRUE] /\ adapter' = a
  BY DEF SdkThought, Live
<1>2. /\ FacadeTypeOK /\ sdk \in SdkState /\ IsAdapter(adapter) /\ IsResponse(res)
      /\ AttemptType \in {"anthropic", "google", "openai", "openai-compatible"} /\ n \in Nat
      /\ sdk.part \in Nat /\ mapper \in MapperState
  BY <1>1, LiveFacts
<1>3. /\ sdk' \in SdkState /\ sdk'.open /\ sdk'.calls = sdk.calls /\ sdk'.part = sdk.part
  BY <1>1, <1>2, Zenon DEF SdkState
<1>4. IsAdapter(a) /\ AdapterHolds(AttemptType, a, n, sdk.part)
  <2>1. "thought" \in OtherKinds
    BY DEF OtherKinds
  <2>2. AdapterHolds(AttemptType, adapter, n, sdk.part)
    BY <1>1, LiveStream
  <2>. QED  BY <1>2, <2>1, <2>2, OtherFragment
<1>. HIDE DEF a
<1>. QED  BY <1>1, <1>2, <1>3, <1>4, LiveStream, BaseReads

(* A fragment of a call. *)
LEMMA BaseSdkCall == ASSUME BaseInv, SdkCall PROVE BaseInv'
<1>. DEFINE n == Len(sdk.calls)
            fragments == CallFragments(AttemptType, n + 1, CallNames[n + 1])
            part == sdk.part + 1
            b == Accumulate(adapter, fragments[part])
<1>1. /\ pc = "live" /\ req.stream /\ pc' = pc /\ sdk.open /\ n < Len(CallNames)
      /\ UNCHANGED <<model, req, attempt, mapper, res, late, cache, cooling, served>>
      /\ adapter' = b
      /\ sdk' = IF part = Len(fragments)
                THEN [sdk EXCEPT !.part = 0, !.calls = Append(sdk.calls, CallNames[n + 1])]
                ELSE [sdk EXCEPT !.part = part]
  BY DEF SdkCall, Live
<1>2. /\ FacadeTypeOK /\ sdk \in SdkState /\ IsAdapter(adapter) /\ IsResponse(res)
      /\ AttemptType \in {"anthropic", "google", "openai", "openai-compatible"} /\ n \in Nat
      /\ sdk.part \in Nat /\ mapper \in MapperState
  BY <1>1, LiveFacts
<1>3. /\ Len(CallNames) \in Nat /\ n + 1 <= Len(CallNames)
      /\ \A i \in 1 .. n : sdk.calls[i] = CallNames[i]
      /\ AdapterHolds(AttemptType, adapter, n, sdk.part) /\ CallNames[n + 1] \in Word
      /\ res.metaEmitted
  BY <1>1, <1>2, LiveStream, Ids
<1>4. /\ IsAdapter(b)
      /\ part = Len(fragments) => AdapterHolds(AttemptType, b, n + 1, 0)
      /\ part # Len(fragments) => AdapterHolds(AttemptType, b, n, part)
  <2>. HIDE DEF n
  <2>. QED  BY <1>2, <1>3, CallFragment
<1>. HIDE DEF b
<1>5. CASE part = Len(fragments)
  <2>1. sdk' = [sdk EXCEPT !.part = 0, !.calls = Append(sdk.calls, CallNames[n + 1])]
    BY <1>1, <1>5
  <2>2. sdk.calls \in Seq(Word)
    BY <1>2 DEF SdkState
  <2>. DEFINE calls == Append(sdk.calls, CallNames[n + 1])
  <2>3. /\ calls \in Seq(Word) /\ Len(calls) = n + 1
        /\ \A i \in 1 .. n : calls[i] = sdk.calls[i] /\ calls[n + 1] = CallNames[n + 1]
    BY <1>3, <2>2
  <2>4. \A i \in 1 .. n + 1 : calls[i] = CallNames[i]
    BY <1>2, <1>3, <2>2
  <2>. HIDE DEF calls, n
  <2>5. /\ sdk' \in SdkState /\ sdk'.open /\ sdk'.calls = calls /\ sdk'.part = 0
    <3>1. sdk' = [sdk EXCEPT !.part = 0, !.calls = calls] /\ 0 \in Nat
      BY <2>1 DEF calls
    <3>. QED  BY <1>1, <1>2, <2>3, <3>1, Zenon DEF SdkState
  <2>6. /\ Len(sdk'.calls) <= Len(CallNames) /\ ~ (sdk'.part > 0)
        /\ \A i \in 1 .. Len(sdk'.calls) : sdk'.calls[i] = CallNames[i]
        /\ AdapterHolds(AttemptType, adapter', Len(sdk'.calls), sdk'.part)
    BY <1>1, <1>3, <1>4, <1>5, <2>3, <2>4, <2>5
  <2>. HIDE DEF fragments, part
  <2>. QED  BY <1>1, <1>2, <1>3, <1>4, <2>5, <2>6, BaseReads
<1>6. CASE part # Len(fragments)
  <2>1. sdk' = [sdk EXCEPT !.part = part] /\ part \in Nat
    BY <1>1, <1>2, <1>6
  <2>2. adapter' = b /\ AdapterHolds(AttemptType, b, n, part)
    BY <1>1, <1>4, <1>6
  <2>. HIDE DEF part, fragments
  <2>3. /\ sdk' \in SdkState /\ sdk'.open /\ sdk'.calls = sdk.calls /\ sdk'.part = part
    BY <1>1, <1>2, <2>1, Zenon DEF SdkState
  <2>4. /\ Len(sdk'.calls) < Len(CallNames) /\ Len(sdk'.calls) <= Len(CallNames)
        /\ \A i \in 1 .. Len(sdk'.calls) : sdk'.calls[i] = CallNames[i]
        /\ AdapterHolds(AttemptType, adapter', Len(sdk'.calls), sdk'.part)
    BY <1>2, <1>3, <2>2, <2>3
  <2>. HIDE DEF n
  <2>. QED  BY <1>1, <1>2, <1>3, <1>4, <2>2, <2>3, <2>4, BaseReads
<1>. QED  BY <1>5, <1>6

(* The end of a vendor's stream. *)
LEMMA BaseSdkEnds == ASSUME BaseInv, SdkEnds PROVE BaseInv'
<1>. DEFINE n == Len(sdk.calls)
            Chunk(a, kind) == Accumulate(a, Fragment(kind, 0, None, <<>>))
<1>1. PICK stop \in StopReasons(sdk.calls) :
        sdk' = [sdk EXCEPT !.stop = stop] /\ adapter' \in SdkEnding(stop)
  BY DEF SdkEnds
<1>2. /\ pc = "live" /\ req.stream /\ pc' = "collect" /\ sdk.open /\ sdk.part = 0
      /\ UNCHANGED <<model, req, attempt, mapper, res, late, cache, cooling, served>>
  BY DEF SdkEnds, Live
<1>3. /\ FacadeTypeOK /\ sdk \in SdkState /\ IsAdapter(adapter) /\ IsResponse(res)
      /\ AttemptType \in {"anthropic", "google", "openai", "openai-compatible"} /\ n \in Nat
      /\ sdk.part \in Nat /\ mapper \in MapperState
  BY <1>2, LiveFacts
<1>4. AdapterHolds(AttemptType, adapter, n, sdk.part)
  BY <1>2, LiveStream
<1>5. stop \in Word
  BY WordsOfCode DEF StopReasons
<1>6. /\ sdk' \in SdkState /\ sdk'.open /\ sdk'.calls = sdk.calls /\ sdk'.part = sdk.part
  BY <1>1, <1>2, <1>3, <1>5, Zenon DEF SdkState
<1>7. ASSUME NEW a, IsAdapter(a), AdapterHolds(AttemptType, a, n, sdk.part),
             NEW kind \in {"finish", "usage", "incomplete", "completed"}
      PROVE  IsAdapter(Chunk(a, kind)) /\ AdapterHolds(AttemptType, Chunk(a, kind), n, sdk.part)
  <2>1. kind \in OtherKinds
    BY DEF OtherKinds
  <2>. QED  BY <1>3, <1>7, <2>1, OtherFragment
<1>8. \/ adapter' = adapter
      \/ \E kind \in {"finish", "incomplete", "completed"} : adapter' = Chunk(adapter, kind)
      \/ adapter' = Chunk(Chunk(adapter, "finish"), "usage")
  <2>. HIDE DEF Chunk
  <2>1. AttemptType = "openai-compatible" =>
          SdkEnding(stop) = {Chunk(adapter, "finish"), Chunk(Chunk(adapter, "finish"), "usage")}
    BY DEF SdkEnding, Chunk
  <2>2. AttemptType = "openai" =>
          SdkEnding(stop) = {Chunk(adapter, IF stop \in {"length", "content_filter"}
                                            THEN "incomplete" ELSE "completed")}
    BY DEF SdkEnding, Chunk
  <2>3. AttemptType = "google" => SdkEnding(stop) = {adapter, Chunk(adapter, "finish")}
    BY DEF SdkEnding, Chunk
  <2>4. AttemptType = "anthropic" => SdkEnding(stop) = {Chunk(adapter, "finish")}
    BY DEF SdkEnding, Chunk
  <2>. QED  BY <1>1, <1>3, <2>1, <2>2, <2>3, <2>4
<1>. HIDE DEF Chunk
<1>9. IsAdapter(adapter') /\ AdapterHolds(AttemptType, adapter', n, sdk.part)
  <2>1. IsAdapter(Chunk(adapter, "finish")) /\ AdapterHolds(AttemptType, Chunk(adapter, "finish"), n, sdk.part)
    BY <1>3, <1>4, <1>7
  <2>. QED  BY <1>3, <1>4, <1>7, <1>8, <2>1
<1>. QED  BY <1>2, <1>3, <1>6, <1>9, LiveStream, BaseReads

(* done goes out. *)
LEMMA DoneIs ==
  ASSUME BaseInv, EmitDone
  PROVE  /\ pc = "collect" /\ pc' = "store" /\ sdk' = sdk
         /\ UNCHANGED <<model, req, attempt, adapter, late, cache, cooling, served>>
         /\ StreamAnswer \in Reply
         /\ IsResponse(res') /\ mapper' \in MapperState
         /\ res'.status = res.status /\ res'.source = res.source /\ res'.ended = res.ended
         /\ res'.metaEmitted = res.metaEmitted
         /\ res'.lines = res.lines \o MapEvent(Done(StreamAnswer), mapper).lines
<1>1. /\ pc = "collect" /\ pc' = "store" /\ sdk' = sdk /\ Emit(Done(StreamAnswer))
      /\ UNCHANGED <<model, req, attempt, adapter, late, cache, cooling, served>>
  BY DEF EmitDone
<1>2. /\ FacadeTypeOK /\ PhaseInv /\ req.facade \in Facades
      /\ mapper \in MapperState /\ IsResponse(res)
  BY <1>1, LiveFacts
<1>3. StreamAnswer \in Reply
  BY <1>1, StreamAnswerIs
<1>4. Done(StreamAnswer).name # "meta" /\ ~res.ended /\ <<>> \in Seq(Word)
      /\ res.metaEmitted \in BOOLEAN
  BY <1>1, <1>2 DEF Done, PhaseInv, IsResponse
<1>5. Mapped(MapEvent(Done(StreamAnswer), mapper))
  BY <1>2, <1>3, <1>4, MapEventTyped
<1>6. /\ IsResponse(res') /\ mapper' \in MapperState
      /\ res'.status = res.status /\ res'.source = res.source /\ res'.ended = res.ended
      /\ res'.metaEmitted = (res.metaEmitted \/ Done(StreamAnswer).name = "meta")
      /\ ~res.ended => res'.lines = res.lines \o MapEvent(Done(StreamAnswer), mapper).lines
  BY <1>1, <1>2, <1>5, EmitIs
<1>. QED  BY <1>1, <1>3, <1>4, <1>6

(* ... and the base invariant stays. *)
LEMMA BaseEmitDone == ASSUME BaseInv, EmitDone PROVE BaseInv'
<1>1. /\ pc = "collect" /\ pc' = "store" /\ sdk' = sdk
      /\ UNCHANGED <<model, req, attempt, adapter, late, cache, cooling, served>>
      /\ IsResponse(res') /\ mapper' \in MapperState
      /\ res'.status = res.status /\ res'.source = res.source /\ res'.ended = res.ended
      /\ res'.metaEmitted = res.metaEmitted
  BY DoneIs
<1>2. FacadeTypeOK /\ PhaseInv /\ CacheInv /\ AdapterInv
  BY DEF BaseInv
<1>3. FacadeTypeOK'
  BY <1>1, <1>2 DEF FacadeTypeOK
<1>4. PhaseInv'
  BY <1>1, <1>2 DEF PhaseInv, Early
<1>5. CacheInv'
  BY <1>1, <1>2 DEF CacheInv
<1>6. AdapterInv'
  BY <1>1, <1>2, SameAttempt DEF AdapterInv
<1>. QED  BY <1>3, <1>4, <1>5, <1>6 DEF BaseInv

(* Only whole answers are stored. *)
LEMMA StoredTyped ==
  ASSUME FacadeTypeOK, CacheInv, NEW answer \in Reply
  PROVE  /\ Stored(answer) \in [BOOLEAN -> Reply]
         /\ \A thinking \in BOOLEAN :
              Stored(answer)[thinking] # NoAnswer =>
                Stored(answer)[thinking].finish = "stop" /\ Stored(answer)[thinking].calls = <<>>
<1>1. cache \in [BOOLEAN -> Reply] /\ req.thinking \in BOOLEAN
  BY DEF FacadeTypeOK
<1>2. CASE Stored(answer) = cache
  BY <1>1, <1>2 DEF CacheInv
<1>3. CASE Stored(answer) # cache
  <2>1. /\ Stored(answer) = [cache EXCEPT ![req.thinking] = answer]
        /\ answer.finish = "stop" /\ answer.calls = <<>>
    BY <1>3 DEF Stored
  <2>2. \A thinking \in BOOLEAN : Stored(answer)[thinking] =
          IF thinking = req.thinking THEN answer ELSE cache[thinking]
    BY <1>1, <2>1
  <2>3. Stored(answer) \in [BOOLEAN -> Reply]
    BY <1>1, <2>1
  <2>. QED  BY <2>1, <2>2, <2>3 DEF CacheInv
<1>. QED  BY <1>2, <1>3

(* The answer is stored and the stream ends. *)
LEMMA BaseStoreAndEnd == ASSUME BaseInv, StoreAndEnd PROVE BaseInv'
<1>1. /\ pc = "store" /\ pc' = "ended" /\ sdk' = sdk /\ cache' = Stored(StreamAnswer)
      /\ res' = [res EXCEPT !.ended = TRUE] /\ adapter' = NewAdapter
      /\ UNCHANGED <<model, req, attempt, mapper, late, cooling, served>>
  BY DEF StoreAndEnd
<1>2. /\ FacadeTypeOK /\ PhaseInv /\ CacheInv /\ req.facade \in Facades /\ IsResponse(res)
      /\ res.source = "live"
  BY <1>1, LiveFacts
<1>3. StreamAnswer \in Reply
  BY <1>1, StreamAnswerIs
<1>4. /\ cache' \in [BOOLEAN -> Reply] /\ CacheInv'
  BY <1>1, <1>2, <1>3, StoredTyped DEF CacheInv
<1>5. /\ IsResponse(res') /\ res'.ended /\ res'.source = res.source
      /\ res'.metaEmitted = res.metaEmitted
  BY <1>1, <1>2 DEF IsResponse
<1>6. FacadeTypeOK'
  BY <1>1, <1>2, <1>4, <1>5, FreshTyped DEF FacadeTypeOK
<1>7. PhaseInv'
  BY <1>1, <1>2, <1>5 DEF PhaseInv, Early
<1>8. AdapterInv'
  BY <1>1 DEF AdapterInv
<1>. QED  BY <1>4, <1>6, <1>7, <1>8 DEF BaseInv

(* The JSON answer holds the calls the vendor made. *)
LEMMA CompleteIs ==
  ASSUME BaseInv, CompleteChat
  PROVE  /\ pc = "live" /\ ~req.stream /\ pc' = "ended" /\ res.status = 0
         /\ req.facade \in Facades /\ res.source = "live"
         /\ UNCHANGED <<model, req, attempt, adapter, mapper, late, cooling, served>>
         /\ sdk' \in SdkState
         /\ \E answer \in Reply :
              /\ answer.calls = AllCalls(sdk'.calls)
              /\ answer.calls # <<>> => answer.finish \in {"tool_calls", "length"}
              /\ cache' = Stored(answer)
              /\ res' = [res EXCEPT !.status = 201, !.lines = JsonLines(answer), !.ended = TRUE]
              /\ IsResponse(res') /\ res'.lines = JsonLines(answer) /\ res'.ended
              /\ res'.source = res.source /\ res'.metaEmitted = res.metaEmitted
<1>1. /\ pc = "live" /\ ~req.stream /\ pc' = "ended"
      /\ UNCHANGED <<model, req, attempt, adapter, mapper, late, cooling, served>>
  BY DEF CompleteChat
<1>2. /\ FacadeTypeOK /\ PhaseInv /\ req.facade \in Facades /\ IsResponse(res)
      /\ sdk \in SdkState /\ res.source = "live"
  BY <1>1, LiveFacts
<1>3. PICK n \in 0 .. MaxText, k \in 0 .. (IF req.tools THEN Len(CallNames) ELSE 0),
           thought \in (IF req.thinking THEN BOOLEAN ELSE {FALSE}) :
        \E stop \in StopReasons(SubSeq(CallNames, 1, k)) :
          LET ids == SubSeq(CallNames, 1, k)
              calls == AllCalls(ids)
              answer == Answer(Text(n), calls, CompleteStopReason(calls, stop), thought)
          IN  /\ sdk' = [sdk EXCEPT !.open = TRUE, !.text = n, !.calls = ids,
                                    !.thought = thought, !.stop = stop]
              /\ cache' = Stored(answer)
              /\ res' = [res EXCEPT !.status = 201, !.lines = JsonLines(answer), !.ended = TRUE]
  BY DEF CompleteChat
<1>. DEFINE ids == SubSeq(CallNames, 1, k)
            calls == AllCalls(ids)
<1>4. PICK stop \in StopReasons(ids) :
        /\ sdk' = [sdk EXCEPT !.open = TRUE, !.text = n, !.calls = ids,
                              !.thought = thought, !.stop = stop]
        /\ cache' = Stored(Answer(Text(n), calls, CompleteStopReason(calls, stop), thought))
        /\ res' = [res EXCEPT !.status = 201,
                     !.lines = JsonLines(Answer(Text(n), calls, CompleteStopReason(calls, stop), thought)),
                     !.ended = TRUE]
  BY <1>3
<1>5. ids \in Seq(Word) /\ n \in Nat /\ thought \in BOOLEAN /\ stop \in Word
  <2>1. CallNames \in Seq(Word) /\ k \in 0 .. Len(CallNames)
    BY Ids
  <2>2. ids \in Seq(Word)
    BY <2>1, SubSeqProperties
  <2>3. n \in Nat
    BY BoundsAssumption
  <2>4. stop \in Word
    BY <1>4, WordsOfCode DEF StopReasons
  <2>5. thought \in BOOLEAN
    OBVIOUS
  <2>. QED  BY <2>2, <2>3, <2>4, <2>5
<1>. DEFINE finish == mapStopReasonToFinishReason(CompleteStopReason(calls, stop), calls)
            answer == Answer(Text(n), calls, CompleteStopReason(calls, stop), thought)
<1>6. calls \in Seq(ToolCall) /\ Text(n) \in Seq(Word)
  BY <1>5, AllCallsTyped, TextTyped
<1>7. finish \in Word /\ (calls # <<>> => finish \in {"tool_calls", "length"})
  BY FinishIs
<1>8. answer = [text |-> Text(n), calls |-> calls, thought |-> thought, finish |-> finish,
                full |-> sdk'.stop = "stop"]
  BY DEF Answer
<1>9. (sdk'.stop = "stop") \in BOOLEAN
  OBVIOUS
<1>10. cache' = Stored(answer)
       /\ res' = [res EXCEPT !.status = 201, !.lines = JsonLines(answer), !.ended = TRUE]
  BY <1>4
<1>11. sdk' \in SdkState /\ sdk'.calls = ids
  <2>. HIDE DEF ids
  <2>. QED  BY <1>2, <1>4, <1>5, Zenon DEF SdkState
<1>. HIDE DEF finish, answer, calls
<1>12. /\ answer \in Reply /\ answer.calls = calls /\ answer.finish = finish
  BY <1>5, <1>6, <1>7, <1>8, <1>9 DEF Reply
<1>13. JsonLines(answer) \in Seq(WireLine)
  BY <1>2, <1>12, JsonLinesTyped
<1>14. res' = [status |-> 201, source |-> res.source, lines |-> JsonLines(answer),
               metaEmitted |-> res.metaEmitted, ended |-> TRUE]
  BY <1>2, <1>10 DEF IsResponse
<1>15. /\ IsResponse(res') /\ res'.lines = JsonLines(answer) /\ res'.ended
       /\ res'.source = res.source /\ res'.metaEmitted = res.metaEmitted
  BY <1>2, <1>13, <1>14 DEF IsResponse
<1>16. answer.calls = AllCalls(sdk'.calls)
  BY <1>11, <1>12 DEF calls
<1>17. res.status = 0
  BY <1>1, <1>2 DEF PhaseInv
<1>. QED  BY <1>1, <1>2, <1>7, <1>10, <1>11, <1>12, <1>15, <1>16, <1>17

(* ... and the base invariant stays. *)
LEMMA BaseCompleteChat == ASSUME BaseInv, CompleteChat PROVE BaseInv'
<1>1. FacadeTypeOK /\ PhaseInv /\ CacheInv
  BY DEF BaseInv
<1>2. /\ pc = "live" /\ ~req.stream /\ pc' = "ended" /\ req.facade \in Facades
      /\ res.source = "live" /\ sdk' \in SdkState
      /\ UNCHANGED <<model, req, attempt, adapter, mapper, late, cooling, served>>
  BY CompleteIs
<1>3. PICK answer \in Reply :
        /\ cache' = Stored(answer) /\ IsResponse(res') /\ res'.ended
        /\ res'.source = res.source /\ res'.metaEmitted = res.metaEmitted
  BY CompleteIs
<1>4. cache' \in [BOOLEAN -> Reply] /\ CacheInv'
  BY <1>1, <1>3, StoredTyped DEF CacheInv
<1>5. FacadeTypeOK'
  BY <1>1, <1>2, <1>3, <1>4 DEF FacadeTypeOK, SdkState
<1>6. PhaseInv'
  BY <1>1, <1>2, <1>3 DEF PhaseInv, Early
<1>7. AdapterInv'
  BY <1>2 DEF AdapterInv
<1>. QED  BY <1>4, <1>5, <1>6, <1>7 DEF BaseInv

(* A call fails: it is tried again on the same response, or the request    *)
(* is rejected.                                                            *)
LEMMA FailIs ==
  ASSUME BaseInv, NEW abandoned \in BOOLEAN, CallFails(abandoned)
  PROVE  /\ pc = "live" /\ sdk' = NewSdk /\ adapter' = NewAdapter
         /\ UNCHANGED <<model, req, mapper, cache, served>>
         /\ late' = (late \/ abandoned) /\ (abandoned => req.stream /\ sdk.open)
         /\ \/ /\ UNCHANGED <<pc, res, cooling>>
               /\ attempt' \in [no : Nat, alias : {"primary", "fallback"}]
               /\ attempt'.alias = "fallback" => model.fallback # None
            \/ /\ cooling' \in BOOLEAN /\ UNCHANGED attempt
               /\ \E status \in Nat, code \in Word : Reject(status, code)
<1>1. /\ pc = "live" /\ sdk' = NewSdk /\ adapter' = NewAdapter
      /\ UNCHANGED <<model, req, mapper, cache, served>>
      /\ late' = (late \/ abandoned) /\ (abandoned => req.stream /\ sdk.open)
  BY DEF CallFails, Live
<1>2. /\ attempt.no \in Nat /\ attempt.alias \in {"primary", "fallback"} /\ cooling \in BOOLEAN
      /\ attempt.alias = "fallback" => model.fallback # None
      /\ attempt \in [no : Nat, alias : {"primary", "fallback"}]
  BY DEF BaseInv, FacadeTypeOK
<1>3. CASE /\ \/ attempt.no < MaxAttempts /\ attempt' = [attempt EXCEPT !.no = @ + 1]
              \/ MayFallBack /\ attempt' = [no |-> attempt.no + 1, alias |-> "fallback"]
           /\ UNCHANGED <<pc, res, cooling>>
  <2>1. /\ attempt' \in [no : Nat, alias : {"primary", "fallback"}]
        /\ attempt'.alias = "fallback" => model.fallback # None
    <3>1. CASE attempt' = [attempt EXCEPT !.no = @ + 1]
      BY <1>2, <3>1
    <3>2. CASE MayFallBack /\ attempt' = [no |-> attempt.no + 1, alias |-> "fallback"]
      BY <1>2, <3>2 DEF MayFallBack
    <3>. QED  BY <1>3, <3>1, <3>2
  <2>. QED  BY <1>1, <1>3, <2>1
<1>4. CASE /\ \/ cooling' = TRUE /\ Reject(429, "PROVIDER_RATE_LIMITED")
              \/ UNCHANGED cooling /\ Reject(502, "PROVIDER_UNAVAILABLE")
           /\ UNCHANGED attempt
  <2>1. \E status \in Nat, code \in Word : Reject(status, code)
    BY <1>4, WordsOfErrors
  <2>2. cooling' \in BOOLEAN
    BY <1>2, <1>4
  <2>. QED  BY <1>1, <1>4, <2>1, <2>2
<1>. QED  BY <1>3, <1>4 DEF CallFails

(* ... and the base invariant stays. *)
LEMMA BaseCallFails == ASSUME BaseInv, NEW abandoned \in BOOLEAN, CallFails(abandoned) PROVE BaseInv'
<1>1. FacadeTypeOK /\ PhaseInv /\ CacheInv /\ AdapterInv
  BY DEF BaseInv
<1>2. /\ pc = "live" /\ sdk' = NewSdk /\ adapter' = NewAdapter
      /\ UNCHANGED <<model, req, mapper, cache, served>>
      /\ late' = (late \/ abandoned) /\ (abandoned => req.stream /\ sdk.open)
  BY FailIs
<1>3. /\ late' \in BOOLEAN /\ (late' => res.source = "live" /\ req.stream /\ res.metaEmitted)
  <2>1. late' \in BOOLEAN
    BY <1>1, <1>2 DEF FacadeTypeOK
  <2>2. /\ late => res.source = "live" /\ req.stream /\ res.metaEmitted
        /\ sdk.open => res.source = "live" /\ res.metaEmitted
    BY <1>1, <1>2 DEF PhaseInv
  <2>. QED  BY <1>2, <2>1, <2>2
<1>4. CASE /\ UNCHANGED <<pc, res, cooling>>
           /\ attempt' \in [no : Nat, alias : {"primary", "fallback"}]
           /\ attempt'.alias = "fallback" => model.fallback # None
  <2>1. FacadeTypeOK'
    BY <1>1, <1>2, <1>3, <1>4, FreshTyped DEF FacadeTypeOK, SdkState
  <2>2. PhaseInv'
    BY <1>1, <1>2, <1>3, <1>4, FreshTyped DEF PhaseInv, Early
  <2>3. CacheInv'
    BY <1>1, <1>2 DEF CacheInv
  <2>4. AdapterInv'
    <3>1. Len(CallNames) \in Nat /\ Len(sdk'.calls) = 0 /\ sdk'.part = 0 /\ pc' = "live"
      BY <1>2, <1>4, FreshTyped, Ids
    <3>2. AdapterHolds(AttemptType', adapter', 0, 0)
      BY <1>2, FreshTyped
    <3>. QED  BY <3>1, <3>2 DEF AdapterInv
  <2>. QED  BY <2>1, <2>2, <2>3, <2>4 DEF BaseInv
<1>5. CASE /\ cooling' \in BOOLEAN /\ UNCHANGED attempt
           /\ \E status \in Nat, code \in Word : Reject(status, code)
  <2>1. PICK status \in Nat, code \in Word : Reject(status, code)
    BY <1>5
  <2>2. IsAdapter(adapter') /\ sdk' \in SdkState
    BY <1>2, FreshTyped
  <2>. QED  BY <1>2, <1>3, <1>5, <2>1, <2>2, BaseRejected DEF SdkState
<1>. QED  BY <1>4, <1>5, FailIs

(* The piece of an abandoned call. *)
LEMMA LateIs ==
  ASSUME BaseInv, LateDelta
  PROVE  /\ late /\ late' = FALSE /\ req.stream /\ res.source = "live" /\ res.metaEmitted
         /\ UNCHANGED <<model, pc, req, attempt, sdk, adapter, cache, cooling, served>>
         /\ pc \in {"live", "collect", "store", "ended"} /\ <<"late">> \in Seq(Word)
         /\ IsResponse(res') /\ mapper' = MapEvent(Delta(<<"late">>), mapper).mapper
         /\ mapper' \in MapperState
         /\ res'.status = res.status /\ res'.source = res.source /\ res'.ended = res.ended
         /\ res'.metaEmitted = res.metaEmitted
         /\ res.ended => res'.lines = res.lines
         /\ ~res.ended => res'.lines = res.lines \o MapEvent(Delta(<<"late">>), mapper).lines
<1>1. /\ late /\ late' = FALSE /\ Emit(Delta(<<"late">>))
      /\ UNCHANGED <<model, pc, req, attempt, sdk, adapter, cache, cooling, served>>
  BY DEF LateDelta
<1>2. /\ FacadeTypeOK /\ PhaseInv /\ req.facade \in Facades /\ res.source = "live"
  BY <1>1, LiveFacts
<1>3. <<"late">> \in Seq(Word)
  BY WordsOfCode, Words
<1>4. req.stream /\ res.metaEmitted /\ pc \in {"live", "collect", "store", "ended"}
  BY <1>1, <1>2 DEF PhaseInv
<1>. QED  BY <1>1, <1>2, <1>3, <1>4, DeltaIs

(* ... and the base invariant stays. *)
LEMMA BaseLateDelta == ASSUME BaseInv, LateDelta PROVE BaseInv'
<1>1. FacadeTypeOK /\ PhaseInv /\ CacheInv /\ AdapterInv
  BY DEF BaseInv
<1>2. /\ late' = FALSE /\ req.stream /\ pc \in {"live", "collect", "store", "ended"}
      /\ UNCHANGED <<model, pc, req, attempt, sdk, adapter, cache, cooling, served>>
      /\ IsResponse(res') /\ mapper' \in MapperState
      /\ res'.status = res.status /\ res'.source = res.source /\ res'.ended = res.ended
      /\ res'.metaEmitted = res.metaEmitted
  BY LateIs
<1>3. FacadeTypeOK'
  BY <1>1, <1>2 DEF FacadeTypeOK
<1>4. PhaseInv'
  BY <1>1, <1>2 DEF PhaseInv, Early
<1>5. CacheInv' /\ AdapterInv'
  BY <1>1, <1>2, SameAttempt DEF CacheInv, AdapterInv
<1>. QED  BY <1>3, <1>4, <1>5 DEF BaseInv

(* An entry or the cooldown expires. *)
LEMMA BaseExpire == ASSUME BaseInv, Expire PROVE BaseInv'
<1>1. FacadeTypeOK /\ PhaseInv /\ CacheInv /\ AdapterInv
  BY DEF BaseInv
<1>2. /\ pc = "idle" /\ cooling' \in BOOLEAN
      /\ UNCHANGED <<model, pc, req, attempt, sdk, adapter, mapper, res, late, served>>
      /\ \/ cache' = cache
         \/ \E thinking \in BOOLEAN : cache' = [cache EXCEPT ![thinking] = NoAnswer]
  BY <1>1 DEF Expire, FacadeTypeOK
<1>3. NoAnswer \in Reply
  BY WordsOfCode DEF NoAnswer, Reply, None
<1>4. cache \in [BOOLEAN -> Reply]
  BY <1>1 DEF FacadeTypeOK
<1>5. cache' \in [BOOLEAN -> Reply] /\ CacheInv'
  <2>1. CASE cache' = cache
    BY <1>1, <1>4, <2>1 DEF CacheInv
  <2>2. CASE \E thinking \in BOOLEAN : cache' = [cache EXCEPT ![thinking] = NoAnswer]
    <3>1. PICK thinking \in BOOLEAN : cache' = [cache EXCEPT ![thinking] = NoAnswer]
      BY <2>2
    <3>2. cache' \in [BOOLEAN -> Reply]
      BY <1>3, <1>4, <3>1
    <3>3. \A t \in BOOLEAN : cache'[t] = IF t = thinking THEN NoAnswer ELSE cache[t]
      BY <1>4, <3>1
    <3>. QED  BY <1>1, <3>2, <3>3 DEF CacheInv
  <2>. QED  BY <1>2, <2>1, <2>2
<1>6. FacadeTypeOK'
  BY <1>1, <1>2, <1>5 DEF FacadeTypeOK
<1>7. PhaseInv'
  BY <1>1, <1>2 DEF PhaseInv, Early
<1>8. AdapterInv'
  BY <1>2 DEF AdapterInv
<1>. QED  BY <1>5, <1>6, <1>7, <1>8 DEF BaseInv

(* Nothing changes. *)
LEMMA BaseStutter == ASSUME BaseInv, UNCHANGED vars PROVE BaseInv'
<1>1. FacadeTypeOK'
  BY DEF BaseInv, FacadeTypeOK, vars
<1>2. PhaseInv'
  BY DEF BaseInv, PhaseInv, vars
<1>3. CacheInv' /\ AdapterInv'
  BY SameAttempt DEF BaseInv, CacheInv, AdapterInv, vars
<1>. QED  BY <1>1, <1>2, <1>3 DEF BaseInv

(* Every step keeps the base invariant. *)
LEMMA BaseNext == ASSUME BaseInv, [Next]_vars PROVE BaseInv'
<1>1. CASE Arrive
  BY <1>1, BaseArrive
<1>2. CASE Close
  BY <1>2, BaseClose
<1>3. CASE Authenticate \/ RateLimit \/ ValidateForStreaming \/ MapRequest \/ Prepare
  BY <1>3, BaseEarly
<1>4. CASE Replay
  BY <1>4, BaseReplay
<1>5. CASE Miss
  BY <1>5, BaseMiss
<1>6. CASE OpenStream
  BY <1>6, BaseOpenStream
<1>7. CASE SdkText
  BY <1>7, BaseSdkText
<1>8. CASE SdkThought
  BY <1>8, BaseSdkThought
<1>9. CASE SdkCall
  BY <1>9, BaseSdkCall
<1>10. CASE SdkEnds
  BY <1>10, BaseSdkEnds
<1>11. CASE EmitDone
  BY <1>11, BaseEmitDone
<1>12. CASE StoreAndEnd
  BY <1>12, BaseStoreAndEnd
<1>13. CASE CompleteChat
  BY <1>13, BaseCompleteChat
<1>14. CASE Fail
  BY <1>14, BaseCallFails DEF Fail
<1>15. CASE Abandon
  BY <1>15, BaseCallFails DEF Abandon
<1>16. CASE LateDelta
  BY <1>16, BaseLateDelta
<1>17. CASE Expire
  BY <1>17, BaseExpire
<1>18. CASE Finished \/ UNCHANGED vars
  BY <1>18, BaseStutter DEF Finished
<1>. QED
  BY <1>1, <1>2, <1>3, <1>4, <1>5, <1>6, <1>7, <1>8, <1>9, <1>10, <1>11, <1>12, <1>13,
     <1>14, <1>15, <1>16, <1>17, <1>18 DEF Next

(* What a request holds follows where it is: nothing before the cache is   *)
(* asked, an open response while its call goes on; and the closures of an  *)
(* adapter hold exactly the fragments its vendor has sent so far, under    *)
(* whatever key they came.                                                 *)
THEOREM AdaptersFollowVendors == Spec => []BaseInv
<1>1. Init => BaseInv
  BY BaseInit
<1>2. BaseInv /\ [Next]_vars => BaseInv'
  BY BaseNext
<1>. QED  BY <1>1, <1>2, PTL DEF Spec

-----------------------------------------------------------------------------
(* The Anthropic stream *)

(* Each line may come after the one before it *)
Chained(w) == \A i \in 2 .. Len(w) : Follows(w[i], w[i - 1])

(* The end is not announced *)
NoStop(w) == \A i \in 1 .. Len(w) : w[i].ev # "message_stop"

(* The stream before its end is announced: message_start, then at most one *)
(* block, of text, that is still open                                      *)
Begun(w, m) ==
  /\ m.blockIndex = 0 /\ ~m.thinkingBlockEmitted
  /\ ~m.sent => w = <<>> /\ ~m.textBlockStarted
  /\ m.sent => Len(w) > 0 /\ w[1].ev = "message_start"
  /\ m.sent /\ ~m.textBlockStarted => Len(w) = 1
  /\ m.textBlockStarted =>
       /\ Len(w) > 2
       /\ w[2].ev = "block_start" /\ w[2].ix = 0
       /\ \A i \in 3 .. Len(w) : w[i].ev = "block_delta" /\ w[i].ix = 0

(* ... and after it: more text may follow, but no second end *)
Ended(w) ==
  \E k \in 1 .. Len(w) :
    /\ \A i \in 1 .. Len(w) : (w[i].ev = "message_stop") <=> (i = k)
    /\ WellFormed(SubSeq(w, 1, k))

BlocksInv ==
  req.facade = "anthropic" /\ req.stream =>
    /\ pc \in {"live", "collect"} => Begun(res.lines, mapper) /\ mapper.sent = res.metaEmitted
    /\ pc = "store" => Ended(res.lines)
    /\ pc = "ended" => BlocksWellFormed

(* The parts of a line. *)
LEMMA LineParts ==
  ASSUME NEW ev, NEW ix, NEW data
  PROVE  /\ Line(ev, ix, data).ev = ev /\ Line(ev, ix, data).ix = ix
         /\ Line(ev, ix, data).data = data
  BY DEF Line

(* The parts of a step. *)
LEMMA StepParts ==
  ASSUME NEW step, NEW lines, NEW m, step = [lines |-> lines, mapper |-> m]
  PROVE  step.lines = lines /\ step.mapper = m
  OBVIOUS

(* One line in a sequence, with and without an index. *)
LEMMA LineAlone ==
  ASSUME NEW ev \in Word, NEW ix \in Int, NEW data \in Seq(Word)
  PROVE  LET l == <<Line(ev, ix, data)>>
         IN  /\ l \in Seq(WireLine) /\ Len(l) = 1
             /\ l[1].ev = ev /\ l[1].ix = ix /\ l[1].data = data
<1>1. Line(ev, ix, data) \in WireLine
  BY LineTyped
<1>. QED  BY <1>1, OneLine, LineParts

(* ... *)
LEMMA LineAloneZero ==
  ASSUME NEW ev \in Word, NEW data \in Seq(Word)
  PROVE  LET l == <<Line(ev, 0, data)>>
         IN  /\ l \in Seq(WireLine) /\ Len(l) = 1
             /\ l[1].ev = ev /\ l[1].ix = 0 /\ l[1].data = data
<1>1. Line(ev, 0, data) \in WireLine
  BY LineZero
<1>. QED  BY <1>1, OneLine, LineParts

(* One or two more elements. *)
LEMMA JoinedFew ==
  ASSUME NEW S, NEW a \in Seq(S), NEW b \in Seq(S)
  PROVE  /\ Len(b) = 1 => /\ Len(a \o b) = Len(a) + 1 /\ (a \o b)[Len(a) + 1] = b[1]
         /\ Len(b) = 2 => /\ Len(a \o b) = Len(a) + 2 /\ (a \o b)[Len(a) + 1] = b[1]
                          /\ (a \o b)[Len(a) + 2] = b[2]
<1>. DEFINE c == a \o b
<1>1. /\ Len(c) = Len(a) + Len(b) /\ \A i \in 1 .. Len(b) : c[Len(a) + i] = b[i]
  BY Joined
<1>. HIDE DEF c
<1>2. /\ Len(b) = 1 => Len(c) = Len(a) + 1 /\ c[Len(a) + 1] = b[1]
      /\ Len(b) = 2 => Len(c) = Len(a) + 2 /\ c[Len(a) + 1] = b[1] /\ c[Len(a) + 2] = b[2]
  <2>1. ASSUME Len(b) = 1 PROVE Len(c) = Len(a) + 1 /\ c[Len(a) + 1] = b[1]
    <3>1. 1 \in 1 .. Len(b)
      BY <2>1
    <3>. QED  BY <1>1, <2>1, <3>1
  <2>2. ASSUME Len(b) = 2
        PROVE  Len(c) = Len(a) + 2 /\ c[Len(a) + 1] = b[1] /\ c[Len(a) + 2] = b[2]
    <3>1. 1 \in 1 .. Len(b) /\ 2 \in 1 .. Len(b)
      BY <2>2
    <3>. QED  BY <1>1, <2>2, <3>1
  <2>. QED  BY <2>1, <2>2
<1>. QED  BY <1>2 DEF c

(* Two chains make one if the second may come after the first. *)
LEMMA ChainedJoined ==
  ASSUME NEW a \in Seq(WireLine), NEW b \in Seq(WireLine), Chained(a), Chained(b),
         Len(a) > 0 /\ Len(b) > 0 => Follows(b[1], a[Len(a)])
  PROVE  Chained(a \o b)
<1>1. /\ Len(a) \in Nat /\ Len(b) \in Nat /\ Len(a \o b) = Len(a) + Len(b)
      /\ \A i \in 1 .. Len(a) : (a \o b)[i] = a[i]
      /\ \A i \in 1 .. Len(b) : (a \o b)[Len(a) + i] = b[i]
  BY Joined, SeqIs
<1>. DEFINE c == a \o b
<1>. HIDE DEF c
<1>. SUFFICES ASSUME NEW i \in 2 .. Len(c) PROVE Follows(c[i], c[i - 1])
  BY DEF Chained, c
<1>2. i \in 2 .. Len(a) + Len(b)
  BY <1>1 DEF c
<1>3. CASE i <= Len(a)
  <2>1. c[i] = a[i] /\ c[i - 1] = a[i - 1] /\ i \in 2 .. Len(a)
    BY <1>1, <1>2, <1>3 DEF c
  <2>. QED  BY <2>1 DEF Chained
<1>4. CASE i = Len(a) + 1
  <2>1. CASE Len(a) > 0
    <3>1. c[i - 1] = a[Len(a)]
      BY <1>1, <1>4, <2>1 DEF c
    <3>2. Len(b) > 0 /\ 1 \in 1 .. Len(b)
      BY <1>1, <1>2, <1>4
    <3>3. c[i] = b[1]
      BY <1>1, <1>4, <3>2 DEF c
    <3>. QED  BY <2>1, <3>1, <3>2, <3>3
  <2>2. CASE Len(a) = 0
    BY <1>2, <1>4, <2>2
  <2>. QED  BY <1>1, <2>1, <2>2
<1>5. CASE i > Len(a) + 1
  <2>. DEFINE j == i - Len(a)
  <2>1. j \in 2 .. Len(b) /\ j - 1 \in 1 .. Len(b) /\ i = Len(a) + j /\ i - 1 = Len(a) + (j - 1)
    BY <1>1, <1>2, <1>5
  <2>. HIDE DEF j
  <2>2. c[i] = b[j] /\ c[i - 1] = b[j - 1]
    BY <1>1, <2>1 DEF c
  <2>. QED  BY <2>1, <2>2 DEF Chained
<1>. QED  BY <1>1, <1>2, <1>3, <1>4, <1>5

(* ... and no end is announced in two parts if it is in neither. *)
LEMMA NoStopJoined ==
  ASSUME NEW a \in Seq(WireLine), NEW b \in Seq(WireLine), NoStop(a), NoStop(b)
  PROVE  NoStop(a \o b)
<1>1. /\ Len(a) \in Nat /\ Len(b) \in Nat /\ Len(a \o b) = Len(a) + Len(b)
      /\ \A i \in 1 .. Len(a) : (a \o b)[i] = a[i]
      /\ \A i \in 1 .. Len(b) : (a \o b)[Len(a) + i] = b[i]
  BY Joined, SeqIs
<1>. SUFFICES ASSUME NEW i \in 1 .. Len(a) + Len(b) PROVE (a \o b)[i].ev # "message_stop"
  BY <1>1 DEF NoStop
<1>2. CASE i <= Len(a)
  BY <1>1, <1>2 DEF NoStop
<1>3. CASE i > Len(a)
  <2>1. i - Len(a) \in 1 .. Len(b) /\ i = Len(a) + (i - Len(a))
    BY <1>1, <1>3
  <2>2. (a \o b)[i] = b[i - Len(a)]
    BY <1>1, <2>1
  <2>. QED  BY <2>1, <2>2 DEF NoStop
<1>. QED  BY <1>1, <1>2, <1>3

(* A chain that begins with message_start is well formed. *)
LEMMA ChainWellFormed ==
  ASSUME NEW w \in Seq(WireLine), Chained(w), Len(w) > 0 => w[1].ev = "message_start"
  PROVE  WellFormed(w)
<1>1. Len(w) \in Nat /\ DOMAIN w = 1 .. Len(w) /\ (w # <<>> => Len(w) > 0)
  BY SeqIs
<1>. QED  BY <1>1 DEF WellFormed, Chained

(* Without an end all of the wire counts. *)
LEMMA NothingAnnounced ==
  ASSUME NEW w \in Seq(WireLine), NoStop(w)
  PROVE  Announced(w) = w
<1>1. {i \in DOMAIN w : w[i].ev = "message_stop"} = {}
  BY SeqIs DEF NoStop
<1>. QED  BY <1>1 DEF Announced

(* What has begun is a chain. *)
LEMMA BegunChained ==
  ASSUME NEW w \in Seq(WireLine), NEW m \in MapperState, Begun(w, m)
  PROVE  Chained(w) /\ NoStop(w) /\ (Len(w) > 0 => w[1].ev = "message_start")
<1>1. Len(w) \in Nat /\ m.sent \in BOOLEAN /\ m.textBlockStarted \in BOOLEAN
  BY SeqIs DEF MapperState
<1>2. CASE ~m.sent
  BY <1>2 DEF Begun, Chained, NoStop
<1>3. CASE m.sent /\ ~m.textBlockStarted
  BY <1>3 DEF Begun, Chained, NoStop
<1>4. CASE m.textBlockStarted
  <2>1. /\ m.sent /\ w[1].ev = "message_start" /\ Len(w) > 2
        /\ w[2].ev = "block_start" /\ w[2].ix = 0
        /\ \A i \in 3 .. Len(w) : w[i].ev = "block_delta" /\ w[i].ix = 0
    BY <1>1, <1>4 DEF Begun
  <2>2. NoStop(w)
    <3>. SUFFICES ASSUME NEW i \in 1 .. Len(w) PROVE w[i].ev # "message_stop"
      BY DEF NoStop
    <3>1. i = 1 \/ i = 2 \/ i \in 3 .. Len(w)
      BY <1>1
    <3>. QED  BY <2>1, <3>1
  <2>3. Chained(w)
    <3>. SUFFICES ASSUME NEW i \in 2 .. Len(w) PROVE Follows(w[i], w[i - 1])
      BY DEF Chained
    <3>1. CASE i = 2
      BY <2>1, <3>1 DEF Follows
    <3>2. CASE i = 3
      BY <2>1, <3>2 DEF Follows
    <3>3. CASE i > 3
      <4>1. i \in 3 .. Len(w) /\ i - 1 \in 3 .. Len(w)
        BY <1>1, <3>3
      <4>2. w[i].ev = "block_delta" /\ w[i].ix = 0 /\ w[i - 1].ev = "block_delta" /\ w[i - 1].ix = 0
        BY <2>1, <4>1
      <4>. QED  BY <4>2 DEF Follows
    <3>. QED  BY <1>1, <3>1, <3>2, <3>3
  <2>. QED  BY <2>1, <2>2, <2>3
<1>. QED  BY <1>1, <1>2, <1>3, <1>4

(* ... and well formed as far as it goes. *)
LEMMA BegunWellFormed ==
  ASSUME NEW w \in Seq(WireLine), NEW m \in MapperState, Begun(w, m)
  PROVE  WellFormed(Announced(w))
  BY BegunChained, NothingAnnounced, ChainWellFormed

(* After the end, what counts is what was well formed. *)
LEMMA EndedWellFormed ==
  ASSUME NEW w \in Seq(WireLine), Ended(w)
  PROVE  WellFormed(Announced(w))
<1>1. DOMAIN w = 1 .. Len(w)
  BY SeqIs
<1>2. PICK k \in 1 .. Len(w) :
        /\ \A i \in 1 .. Len(w) : (w[i].ev = "message_stop") <=> (i = k)
        /\ WellFormed(SubSeq(w, 1, k))
  BY DEF Ended
<1>3. {i \in DOMAIN w : w[i].ev = "message_stop"} = {k}
  BY <1>1, <1>2
<1>4. Announced(w) = SubSeq(w, 1, k)
  BY <1>3 DEF Announced
<1>. QED  BY <1>2, <1>4

(* More text after the end changes nothing. *)
LEMMA EndedGoesOn ==
  ASSUME NEW w \in Seq(WireLine), Ended(w), NEW more \in Seq(WireLine), NoStop(more)
  PROVE  Ended(w \o more)
<1>1. /\ Len(w) \in Nat /\ Len(more) \in Nat /\ Len(w \o more) = Len(w) + Len(more)
      /\ \A i \in 1 .. Len(w) : (w \o more)[i] = w[i]
      /\ \A i \in 1 .. Len(more) : (w \o more)[Len(w) + i] = more[i]
  BY Joined, SeqIs
<1>2. PICK k \in 1 .. Len(w) :
        /\ \A i \in 1 .. Len(w) : (w[i].ev = "message_stop") <=> (i = k)
        /\ WellFormed(SubSeq(w, 1, k))
  BY DEF Ended
<1>3. SubSeq(w \o more, 1, k) = SubSeq(w, 1, k)
  <2>1. 1 \in 1 .. Len(w)
    BY <1>1, <1>2
  <2>. QED  BY <2>1, SubSeqOfConcat1
<1>4. ASSUME NEW i \in 1 .. Len(w \o more)
      PROVE  ((w \o more)[i].ev = "message_stop") <=> (i = k)
  <2>1. CASE i <= Len(w)
    BY <1>1, <1>2, <2>1
  <2>2. CASE i > Len(w)
    <3>1. i - Len(w) \in 1 .. Len(more) /\ i = Len(w) + (i - Len(w)) /\ i # k
      BY <1>1, <1>2, <2>2
    <3>2. (w \o more)[i] = more[i - Len(w)]
      BY <1>1, <3>1
    <3>. QED  BY <3>1, <3>2 DEF NoStop
  <2>. QED  BY <1>1, <2>1, <2>2
<1>5. k \in 1 .. Len(w \o more)
  BY <1>1, <1>2
<1>. QED  BY <1>2, <1>3, <1>4, <1>5 DEF Ended

(* meta begins the message, once. *)
LEMMA BegunMeta ==
  ASSUME NEW w \in Seq(WireLine), NEW m \in MapperState, Begun(w, m), ~m.sent
  PROVE  LET step == mapSseEventToAnthropic(Meta, m)
         IN  Begun(w \o step.lines, step.mapper) /\ step.mapper.sent
<1>. DEFINE step == mapSseEventToAnthropic(Meta, m)
            first == <<Line("message_start", 0, <<>>)>>
<1>1. step.lines = first /\ step.mapper = [m EXCEPT !.sent = TRUE]
  <2>1. step = [lines |-> first, mapper |-> [m EXCEPT !.sent = TRUE]]
    BY AnthropicEvents
  <2>. HIDE DEF step, first
  <2>. QED  BY <2>1, StepParts
<1>2. /\ step.mapper.sent /\ step.mapper.textBlockStarted = m.textBlockStarted
      /\ step.mapper.blockIndex = m.blockIndex
      /\ step.mapper.thinkingBlockEmitted = m.thinkingBlockEmitted
  BY <1>1 DEF MapperState
<1>3. first \in Seq(WireLine) /\ Len(first) = 1 /\ first[1].ev = "message_start"
  <2>1. "message_start" \in Word /\ <<>> \in Seq(Word)
    BY Words, WordsOfCode
  <2>. QED  BY <2>1, LineAloneZero
<1>4. w = <<>> /\ ~m.textBlockStarted /\ m.blockIndex = 0 /\ ~m.thinkingBlockEmitted
  BY DEF Begun
<1>. HIDE DEF step, first
<1>5. w \o step.lines = first
  BY <1>1, <1>3, <1>4, ConcatEmptySeq
<1>. QED  BY <1>2, <1>3, <1>4, <1>5 DEF Begun, step

(* A piece of text opens the first block or goes on with it. *)
LEMMA BegunDelta ==
  ASSUME NEW w \in Seq(WireLine), NEW m \in MapperState, Begun(w, m), m.sent,
         NEW text \in Seq(Word)
  PROVE  LET step == mapSseEventToAnthropic(Delta(text), m)
         IN  Begun(w \o step.lines, step.mapper) /\ step.mapper.sent
<1>. DEFINE step == mapSseEventToAnthropic(Delta(text), m)
            piece == <<Line("block_delta", m.blockIndex, text)>>
            lines == OpenedText(m) \o piece
            out == w \o lines
<1>1. step.lines = lines /\ step.mapper = [m EXCEPT !.textBlockStarted = TRUE]
  <2>1. step = [lines |-> lines, mapper |-> [m EXCEPT !.textBlockStarted = TRUE]]
    BY AnthropicEvents
  <2>. HIDE DEF step, lines
  <2>. QED  BY <2>1, StepParts
<1>2. /\ step.mapper.sent /\ step.mapper.textBlockStarted
      /\ step.mapper.blockIndex = m.blockIndex
      /\ step.mapper.thinkingBlockEmitted = m.thinkingBlockEmitted
  BY <1>1 DEF MapperState
<1>3. /\ m.blockIndex = 0 /\ ~m.thinkingBlockEmitted /\ Len(w) > 0 /\ w[1].ev = "message_start"
      /\ Len(w) \in Nat /\ m.textBlockStarted \in BOOLEAN
  BY SeqIs DEF Begun, MapperState
<1>4. /\ piece \in Seq(WireLine) /\ Len(piece) = 1
      /\ piece[1].ev = "block_delta" /\ piece[1].ix = 0
  BY <1>3, LineAloneZero, WordsOfCode
<1>. HIDE DEF piece
<1>5. CASE m.textBlockStarted
  <2>1. lines = piece
    BY <1>4, <1>5, ConcatEmptySeq DEF OpenedText
  <2>. HIDE DEF lines
  <2>2. /\ Len(out) = Len(w) + 1 /\ out[Len(w) + 1] = piece[1]
        /\ \A i \in 1 .. Len(w) : out[i] = w[i]
    BY <1>3, <1>4, <2>1, Joined, JoinedFew
  <2>. HIDE DEF out
  <2>3. /\ Len(w) > 2 /\ w[2].ev = "block_start" /\ w[2].ix = 0
        /\ \A i \in 3 .. Len(w) : w[i].ev = "block_delta" /\ w[i].ix = 0
    BY <1>5 DEF Begun
  <2>4. \A i \in 3 .. Len(out) : out[i].ev = "block_delta" /\ out[i].ix = 0
    <3>. SUFFICES ASSUME NEW i \in 3 .. Len(out) PROVE out[i].ev = "block_delta" /\ out[i].ix = 0
      OBVIOUS
    <3>1. i \in 3 .. Len(w) \/ i = Len(w) + 1
      BY <1>3, <2>2
    <3>. QED  BY <1>3, <1>4, <2>2, <2>3, <3>1
  <2>5. Len(out) > 2 /\ out[1] = w[1] /\ out[2] = w[2]
    BY <1>3, <2>2, <2>3
  <2>6. Begun(out, step.mapper)
    BY <1>2, <1>3, <2>3, <2>4, <2>5 DEF Begun
  <2>. QED  BY <1>1, <1>2, <2>6 DEF out
<1>6. CASE ~m.textBlockStarted
  <2>. DEFINE open == <<Line("block_start", m.blockIndex, <<"text">>)>>
  <2>1. /\ open \in Seq(WireLine) /\ Len(open) = 1
        /\ open[1].ev = "block_start" /\ open[1].ix = 0
    <3>1. "block_start" \in Word /\ <<"text">> \in Seq(Word)
      BY Words, WordsOfCode
    <3>2. open = <<Line("block_start", 0, <<"text">>)>>
      BY <1>3
    <3>. HIDE DEF open
    <3>. QED  BY <3>1, <3>2, LineAloneZero
  <2>2. OpenedText(m) = open
    BY <1>6 DEF OpenedText
  <2>. HIDE DEF open
  <2>3. /\ lines \in Seq(WireLine) /\ Len(lines) = 2 /\ lines[1] = open[1] /\ lines[2] = piece[1]
    <3>1. /\ open \o piece \in Seq(WireLine) /\ Len(open \o piece) = Len(open) + 1
          /\ (open \o piece)[Len(open) + 1] = piece[1]
          /\ \A i \in 1 .. Len(open) : (open \o piece)[i] = open[i]
      BY <1>4, <2>1, Joined, JoinedFew
    <3>2. lines = open \o piece
      BY <2>2
    <3>. HIDE DEF lines
    <3>. QED  BY <2>1, <3>1, <3>2
  <2>. HIDE DEF lines
  <2>4. Len(w) = 1
    BY <1>6 DEF Begun
  <2>5. /\ Len(out) = 3 /\ out[1] = w[1] /\ out[1 + 1] = lines[1] /\ out[1 + 2] = lines[2]
    <3>1. /\ Len(out) = Len(w) + 2 /\ out[Len(w) + 1] = lines[1] /\ out[Len(w) + 2] = lines[2]
          /\ \A i \in 1 .. Len(w) : out[i] = w[i]
      BY <2>3, Joined, JoinedFew
    <3>. HIDE DEF out
    <3>. QED  BY <2>4, <3>1
  <2>. HIDE DEF out
  <2>6. Begun(out, step.mapper)
    BY <1>2, <1>3, <1>4, <2>1, <2>3, <2>5 DEF Begun
  <2>. QED  BY <1>1, <1>2, <2>6 DEF out
<1>. QED  BY <1>3, <1>5, <1>6

(* The blocks of an answer are numbered on from the text. *)
LEMMA BlocksChained ==
  ASSUME NEW m \in MapperState, m.blockIndex = 0, NEW blocks \in Seq(BlockType)
  PROVE  LET W == WholeBlocks(m, blocks)
             first == IF m.textBlockStarted THEN 1 ELSE 0
         IN  /\ Chained(W) /\ NoStop(W)
             /\ Len(W) > 0 => /\ W[1].ev = "block_start" /\ W[1].ix = first
                              /\ W[Len(W)].ev = "block_stop"
<1>. DEFINE W == WholeBlocks(m, blocks)
            N == Len(blocks)
            first == IF m.textBlockStarted THEN 1 ELSE 0
<1>1. /\ W \in Seq(WireLine) /\ Len(W) = 3 * N /\ N \in Nat
      /\ \A n \in 1 .. N :
              /\ W[3 * n - 2] = Line("block_start", nextToolBlockIndex(m, n), blocks[n].data)
              /\ W[3 * n - 1] = Line("block_delta", nextToolBlockIndex(m, n), blocks[n].args)
              /\ W[3 * n] = Line("block_stop", nextToolBlockIndex(m, n), <<>>)
  BY WholeBlocksTyped, SeqIs
<1>2. \A n \in Nat : nextToolBlockIndex(m, n) = first + n - 1
  BY DEF nextToolBlockIndex
<1>3. first \in {0, 1}
  OBVIOUS
<1>. HIDE DEF W, first
<1>4. \A n \in 1 .. N : /\ W[3 * n - 2].ev = "block_start" /\ W[3 * n - 2].ix = first + n - 1
                        /\ W[3 * n - 1].ev = "block_delta" /\ W[3 * n - 1].ix = first + n - 1
                        /\ W[3 * n].ev = "block_stop" /\ W[3 * n].ix = first + n - 1
  <2>. SUFFICES ASSUME NEW n \in 1 .. N
                PROVE  /\ W[3 * n - 2].ev = "block_start" /\ W[3 * n - 2].ix = first + n - 1
                       /\ W[3 * n - 1].ev = "block_delta" /\ W[3 * n - 1].ix = first + n - 1
                       /\ W[3 * n].ev = "block_stop" /\ W[3 * n].ix = first + n - 1
    OBVIOUS
  <2>. DEFINE x == first + n - 1
  <2>1. nextToolBlockIndex(m, n) = x
    BY <1>1, <1>2
  <2>2. /\ W[3 * n - 2] = Line("block_start", x, blocks[n].data)
        /\ W[3 * n - 1] = Line("block_delta", x, blocks[n].args)
        /\ W[3 * n] = Line("block_stop", x, <<>>)
    BY <1>1, <2>1
  <2>. HIDE DEF x
  <2>3. /\ W[3 * n - 2].ev = "block_start" /\ W[3 * n - 2].ix = x
        /\ W[3 * n - 1].ev = "block_delta" /\ W[3 * n - 1].ix = x
        /\ W[3 * n].ev = "block_stop" /\ W[3 * n].ix = x
    BY <2>2, LineParts
  <2>. QED  BY <2>3 DEF x
<1>5. \A i \in 1 .. 3 * N : \E n \in 1 .. N : i = 3 * n - 2 \/ i = 3 * n - 1 \/ i = 3 * n
  <2>. SUFFICES ASSUME NEW i \in 1 .. 3 * N
                PROVE  \E n \in 1 .. N : i = 3 * n - 2 \/ i = 3 * n - 1 \/ i = 3 * n
    OBVIOUS
  <2>1. (i + 2) \div 3 \in 1 .. N
    BY <1>1
  <2>2. i = 3 * ((i + 2) \div 3) - 2 \/ i = 3 * ((i + 2) \div 3) - 1 \/ i = 3 * ((i + 2) \div 3)
    BY <1>1
  <2>. QED  BY <2>1, <2>2
<1>6. NoStop(W)
  <2>. SUFFICES ASSUME NEW i \in 1 .. Len(W) PROVE W[i].ev # "message_stop"
    BY DEF NoStop
  <2>1. PICK n \in 1 .. N : i = 3 * n - 2 \/ i = 3 * n - 1 \/ i = 3 * n
    BY <1>1, <1>5
  <2>. QED  BY <1>4, <2>1
<1>7. Chained(W)
  <2>. SUFFICES ASSUME NEW i \in 2 .. Len(W) PROVE Follows(W[i], W[i - 1])
    BY DEF Chained
  <2>1. PICK n \in 1 .. N : i = 3 * n - 2 \/ i = 3 * n - 1 \/ i = 3 * n
    BY <1>1, <1>5
  <2>2. CASE i = 3 * n - 2
    <3>1. n - 1 \in 1 .. N /\ i - 1 = 3 * (n - 1)
      BY <1>1, <2>2
    <3>2. W[i].ev = "block_start" /\ W[i].ix = first + n - 1
      BY <1>4, <2>2
    <3>3. W[i - 1].ev = "block_stop" /\ W[i - 1].ix = first + (n - 1) - 1
      BY <1>4, <3>1
    <3>. QED  BY <1>3, <3>1, <3>2, <3>3 DEF Follows
  <2>3. CASE i = 3 * n - 1
    <3>1. i - 1 = 3 * n - 2
      BY <1>1, <2>3
    <3>2. W[i].ev = "block_delta" /\ W[i].ix = first + n - 1
      BY <1>4, <2>3
    <3>3. W[i - 1].ev = "block_start" /\ W[i - 1].ix = first + n - 1
      BY <1>4, <3>1
    <3>. QED  BY <3>2, <3>3 DEF Follows
  <2>4. CASE i = 3 * n
    <3>1. i - 1 = 3 * n - 1
      BY <1>1, <2>4
    <3>2. W[i].ev = "block_stop" /\ W[i].ix = first + n - 1
      BY <1>4, <2>4
    <3>3. W[i - 1].ev = "block_delta" /\ W[i - 1].ix = first + n - 1
      BY <1>4, <3>1
    <3>. QED  BY <3>2, <3>3 DEF Follows
  <2>. QED  BY <2>1, <2>2, <2>3, <2>4
<1>8. ASSUME Len(W) > 0
      PROVE  /\ W[1].ev = "block_start" /\ W[1].ix = first /\ W[Len(W)].ev = "block_stop"
  <2>1. 1 \in 1 .. N /\ N \in 1 .. N
    BY <1>1, <1>8
  <2>2. W[3 * 1 - 2].ev = "block_start" /\ W[3 * 1 - 2].ix = first + 1 - 1
    BY <1>4, <2>1
  <2>3. W[3 * N].ev = "block_stop"
    BY <1>4, <2>1
  <2>. QED  BY <1>1, <1>3, <2>2, <2>3
<1>. QED  BY <1>6, <1>7, <1>8 DEF W, first

(* done closes the text, writes the other blocks and ends the message. *)
LEMMA BegunDone ==
  ASSUME NEW w \in Seq(WireLine), NEW m \in MapperState, Begun(w, m), m.sent,
         NEW answer \in Reply
  PROVE  Ended(w \o mapSseEventToAnthropic(Done(answer), m).lines)
<1>. DEFINE step == mapSseEventToAnthropic(Done(answer), m)
            blocks == DoneBlocks(answer, m)
            C == ClosedText(m)
            W == WholeBlocks(m, blocks)
            E == MessageEnd(answer)
            first == IF m.textBlockStarted THEN 1 ELSE 0
<1>1. step.lines = C \o W \o E
  <2>. DEFINE lines == C \o W \o E
              n == [m EXCEPT !.blockIndex = @ + Len(DoneBlocks(answer, m)),
                             !.thinkingBlockEmitted = @ \/ answer.thought]
  <2>1. step = [lines |-> lines, mapper |-> n]
    BY AnthropicEvents
  <2>. HIDE DEF step, lines, n
  <2>2. step.lines = lines
    BY <2>1, StepParts
  <2>. QED  BY <2>2 DEF lines
<1>2. /\ m.blockIndex = 0 /\ Len(w) > 0 /\ w[1].ev = "message_start"
      /\ Len(w) \in Nat /\ m.textBlockStarted \in BOOLEAN
  BY SeqIs DEF Begun, MapperState
<1>3. /\ blocks \in Seq(BlockType) /\ C \in Seq(WireLine) /\ E \in Seq(WireLine)
  BY <1>2, DoneBlocksTyped, PartsTyped, Words
<1>4. W \in Seq(WireLine)
  BY <1>3, WholeBlocksTyped
<1>5. /\ Chained(W) /\ NoStop(W)
      /\ Len(W) > 0 => /\ W[1].ev = "block_start" /\ W[1].ix = first
                       /\ W[Len(W)].ev = "block_stop"
  BY <1>2, <1>3, BlocksChained
<1>6. /\ Len(E) = 2 /\ E[1].ev = "message_delta" /\ E[2].ev = "message_stop"
  BY LineParts DEF MessageEnd
<1>7. /\ m.textBlockStarted => Len(C) = 1 /\ C[1].ev = "block_stop" /\ C[1].ix = 0
      /\ ~m.textBlockStarted => C = <<>>
  BY <1>2, LineParts DEF ClosedText
<1>. DEFINE wc == w \o C
<1>. HIDE DEF step, blocks, C, W, E
<1>8. Chained(w) /\ NoStop(w)
  BY BegunChained
<1>9. /\ wc \in Seq(WireLine) /\ Chained(wc) /\ NoStop(wc) /\ Len(wc) > 0 /\ wc[1] = w[1]
      /\ IF m.textBlockStarted THEN wc[Len(wc)].ev = "block_stop" /\ wc[Len(wc)].ix = 0
                               ELSE wc[Len(wc)].ev = "message_start"
  <2>1. CASE m.textBlockStarted
    <3>1. /\ Len(w) > 2 /\ \A i \in 3 .. Len(w) : w[i].ev = "block_delta" /\ w[i].ix = 0
      BY <2>1 DEF Begun
    <3>2. w[Len(w)].ev = "block_delta" /\ w[Len(w)].ix = 0
      BY <1>2, <3>1
    <3>3. Chained(C) /\ NoStop(C) /\ Len(C) = 1
      <4>1. Len(C) = 1 /\ C[1].ev = "block_stop"
        BY <1>7, <2>1
      <4>2. \A i \in 1 .. Len(C) : i = 1
        BY <4>1
      <4>3. 2 .. Len(C) = {}
        BY <4>1
      <4>. QED  BY <4>1, <4>2, <4>3 DEF Chained, NoStop
    <3>4. Follows(C[1], w[Len(w)])
      BY <1>7, <2>1, <3>2 DEF Follows
    <3>5. Chained(wc) /\ NoStop(wc)
      BY <1>3, <1>8, <3>3, <3>4, ChainedJoined, NoStopJoined
    <3>6. /\ wc \in Seq(WireLine) /\ Len(wc) = Len(w) + 1 /\ wc[Len(w) + 1] = C[1]
          /\ \A i \in 1 .. Len(w) : wc[i] = w[i]
      BY <1>3, <3>3, Joined, JoinedFew
    <3>. HIDE DEF wc
    <3>. QED  BY <1>2, <1>7, <2>1, <3>5, <3>6
  <2>2. CASE ~m.textBlockStarted
    <3>1. wc = w
      BY <1>7, <2>2, ConcatEmptySeq
    <3>2. Len(w) = 1
      BY <2>2 DEF Begun
    <3>. HIDE DEF wc
    <3>. QED  BY <1>2, <1>8, <2>2, <3>1, <3>2
  <2>. QED  BY <1>2, <2>1, <2>2
<1>. DEFINE wcw == wc \o W
<1>10. w \o (C \o W \o E) = wcw \o E
  <2>1. C \o W \in Seq(WireLine)
    BY <1>3, <1>4, Joined
  <2>2. w \o ((C \o W) \o E) = (w \o (C \o W)) \o E
    BY <1>3, <2>1, ConcatAssociative
  <2>3. w \o (C \o W) = wcw
    BY <1>3, <1>4, ConcatAssociative
  <2>. QED  BY <2>2, <2>3
<1>. HIDE DEF wc
<1>11. /\ wcw \in Seq(WireLine) /\ Chained(wcw) /\ NoStop(wcw) /\ Len(wcw) > 0 /\ wcw[1] = w[1]
       /\ Len(wcw) \in Nat /\ wcw[Len(wcw)].ev \in {"block_stop", "message_start"}
  <2>1. /\ wcw \in Seq(WireLine) /\ Len(wcw) = Len(wc) + Len(W)
        /\ \A i \in 1 .. Len(wc) : wcw[i] = wc[i]
        /\ \A i \in 1 .. Len(W) : wcw[Len(wc) + i] = W[i]
        /\ Len(wc) \in Nat /\ Len(W) \in Nat
    BY <1>4, <1>9, Joined, SeqIs
  <2>2. Len(wc) > 0 /\ Len(W) > 0 => Follows(W[1], wc[Len(wc)])
    BY <1>2, <1>5, <1>9 DEF Follows
  <2>3. Chained(wcw) /\ NoStop(wcw)
    BY <1>4, <1>5, <1>9, <2>2, ChainedJoined, NoStopJoined
  <2>. HIDE DEF wcw
  <2>4. wcw[Len(wcw)].ev \in {"block_stop", "message_start"}
    <3>1. CASE Len(W) > 0
      BY <1>5, <2>1, <3>1
    <3>2. CASE Len(W) = 0
      BY <1>2, <1>9, <2>1, <3>2
    <3>. QED  BY <2>1, <3>1, <3>2
  <2>. QED  BY <1>9, <2>1, <2>3, <2>4
<1>. HIDE DEF wcw
<1>. DEFINE v == wcw \o E
            k == Len(wcw) + 2
<1>12. Chained(E) /\ Follows(E[1], wcw[Len(wcw)])
  <2>1. Follows(E[2], E[1])
    BY <1>6 DEF Follows
  <2>2. Follows(E[1], wcw[Len(wcw)])
    BY <1>6, <1>11 DEF Follows
  <2>. QED  BY <1>6, <2>1, <2>2 DEF Chained
<1>13. /\ v \in Seq(WireLine) /\ Len(v) = k /\ v[Len(wcw) + 1] = E[1] /\ v[Len(wcw) + 2] = E[2]
       /\ \A i \in 1 .. Len(wcw) : v[i] = wcw[i]
  BY <1>3, <1>6, <1>11, Joined, JoinedFew
<1>14. Chained(v)
  BY <1>3, <1>11, <1>12, ChainedJoined
<1>. HIDE DEF v
<1>15. v[1] = w[1] /\ WellFormed(v)
  BY <1>2, <1>11, <1>13, <1>14, ChainWellFormed
<1>16. \A i \in 1 .. Len(v) : (v[i].ev = "message_stop") <=> (i = k)
  <2>. SUFFICES ASSUME NEW i \in 1 .. Len(v) PROVE (v[i].ev = "message_stop") <=> (i = k)
    OBVIOUS
  <2>1. i \in 1 .. Len(wcw) \/ i = Len(wcw) + 1 \/ i = Len(wcw) + 2
    BY <1>11, <1>13
  <2>2. CASE i \in 1 .. Len(wcw)
    BY <1>11, <1>13, <2>2 DEF NoStop
  <2>3. CASE i = Len(wcw) + 1
    BY <1>6, <1>11, <1>13, <2>3
  <2>4. CASE i = Len(wcw) + 2
    BY <1>6, <1>11, <1>13, <2>4
  <2>. QED  BY <2>1, <2>2, <2>3, <2>4
<1>17. SubSeq(v, 1, k) = v /\ k \in 1 .. Len(v)
  <2>1. k = Len(v) /\ k \in Nat /\ k > 0
    BY <1>11, <1>13
  <2>. HIDE DEF k
  <2>. QED  BY <1>13, <2>1, SubSeqFull
<1>. HIDE DEF k
<1>18. Ended(v)
  BY <1>15, <1>16, <1>17 DEF Ended
<1>. QED  BY <1>1, <1>10, <1>18 DEF v, step

(* A replay of an Anthropic stream is well formed to its end. *)
LEMMA ReplayEnds ==
  ASSUME NEW answer \in Reply, req.facade = "anthropic", req.facade \in Facades, mapper = NewMapper
  PROVE  Ended(Replayed(answer)[ChunkCount(answer.text) + 2].lines)
<1>. DEFINE K == ChunkCount(answer.text)
            out == Replayed(answer)
            S == {n \in Nat : Begun(out[n + 1].lines, out[n + 1].mapper) /\ out[n + 1].mapper.sent}
<1>1. /\ K \in Nat
      /\ out[0] = [lines |-> <<>>, mapper |-> mapper]
      /\ out[1] = Emitted(out[0], Meta)
      /\ \A i \in 1 .. K : /\ out[i + 1] = Emitted(out[i], Delta(ChunkText(answer.text, i)))
                           /\ ChunkText(answer.text, i) \in Seq(Word)
      /\ out[K + 2] = Emitted(out[K + 1], Done(Bare(answer)))
  BY ReplaySteps
<1>2. Bare(answer) \in Reply
  BY BareTyped
<1>3. \A n \in 0 .. K + 2 : out[n].lines \in Seq(WireLine) /\ out[n].mapper \in MapperState
  BY FreshTyped, ReplayTyped DEF Mapped
<1>. HIDE DEF K, out
<1>4. ASSUME NEW n \in 0 .. K + 2, NEW e
      PROVE  LET step == mapSseEventToAnthropic(e, out[n].mapper)
             IN  /\ Emitted(out[n], e).lines = out[n].lines \o step.lines
                 /\ Emitted(out[n], e).mapper = step.mapper
  <2>. DEFINE o == out[n]
              step == mapSseEventToAnthropic(e, o.mapper)
  <2>1. MapEvent(e, o.mapper) = step
    BY MapEventIs
  <2>. HIDE DEF o, step
  <2>2. /\ Emitted(o, e).lines = o.lines \o MapEvent(e, o.mapper).lines
        /\ Emitted(o, e).mapper = MapEvent(e, o.mapper).mapper
    BY EmittedIs
  <2>3. Emitted(o, e).lines = o.lines \o step.lines /\ Emitted(o, e).mapper = step.mapper
    BY <2>1, <2>2
  <2>. QED  BY <2>3 DEF o, step
<1>5. 0 \in S
  <2>1. out[0].lines = <<>> /\ out[0].mapper = NewMapper /\ 0 \in 0 .. K + 2
    BY <1>1
  <2>2. Begun(out[0].lines, out[0].mapper) /\ ~out[0].mapper.sent
    BY <2>1 DEF Begun, NewMapper
  <2>. DEFINE step == mapSseEventToAnthropic(Meta, out[0].mapper)
  <2>3. Begun(out[0].lines \o step.lines, step.mapper) /\ step.mapper.sent
    BY <1>3, <2>1, <2>2, BegunMeta
  <2>4. out[1].lines = out[0].lines \o step.lines /\ out[1].mapper = step.mapper
    BY <1>1, <1>4, <2>1
  <2>. HIDE DEF step
  <2>5. Begun(out[1].lines, out[1].mapper) /\ out[1].mapper.sent
    BY <2>3, <2>4, Zenon
  <2>. QED  BY <2>5
<1>6. ASSUME NEW n \in 0 .. K - 1, n \in S PROVE n + 1 \in S
  <2>. DEFINE i == n + 1
              text == ChunkText(answer.text, i)
              step == mapSseEventToAnthropic(Delta(text), out[i].mapper)
  <2>1. i \in 1 .. K /\ i \in 0 .. K + 2 /\ i \in Nat
    BY <1>1
  <2>2. Begun(out[i].lines, out[i].mapper) /\ out[i].mapper.sent
    BY <1>6
  <2>. HIDE DEF i
  <2>3. text \in Seq(Word) /\ out[i + 1] = Emitted(out[i], Delta(text))
    BY <1>1, <2>1
  <2>. HIDE DEF text
  <2>4. Begun(out[i].lines \o step.lines, step.mapper) /\ step.mapper.sent
    BY <1>3, <2>1, <2>2, <2>3, BegunDelta
  <2>5. out[i + 1].lines = out[i].lines \o step.lines /\ out[i + 1].mapper = step.mapper
    BY <1>4, <2>1, <2>3
  <2>. HIDE DEF step
  <2>6. i \in S
    BY <2>1, <2>4, <2>5
  <2>. QED  BY <2>6 DEF i
<1>7. K \in S
  <2>. HIDE DEF S
  <2>1. 0 .. K \subseteq S
    BY <1>1, <1>5, <1>6, Induction
  <2>. QED  BY <1>1, <2>1
<1>. DEFINE step == mapSseEventToAnthropic(Done(Bare(answer)), out[K + 1].mapper)
<1>8. K + 1 \in 0 .. K + 2 /\ Begun(out[K + 1].lines, out[K + 1].mapper) /\ out[K + 1].mapper.sent
  BY <1>1, <1>7
<1>9. Ended(out[K + 1].lines \o step.lines)
  BY <1>2, <1>3, <1>8, BegunDone
<1>10. out[K + 2].lines = out[K + 1].lines \o step.lines
  BY <1>1, <1>4, <1>8
<1>. HIDE DEF step
<1>. QED  BY <1>9, <1>10 DEF K, out

(* A piece of text announces no end. *)
LEMMA DeltaNoStop ==
  ASSUME NEW m \in MapperState, NEW text \in Seq(Word)
  PROVE  /\ mapSseEventToAnthropic(Delta(text), m).lines \in Seq(WireLine)
         /\ NoStop(mapSseEventToAnthropic(Delta(text), m).lines)
<1>. DEFINE step == mapSseEventToAnthropic(Delta(text), m)
            piece == <<Line("block_delta", m.blockIndex, text)>>
            lines == OpenedText(m) \o piece
<1>1. step.lines = lines
  <2>1. step = [lines |-> lines, mapper |-> [m EXCEPT !.textBlockStarted = TRUE]]
    BY AnthropicEvents
  <2>. HIDE DEF step, lines
  <2>. QED  BY <2>1, StepParts
<1>2. m.blockIndex \in Int /\ "block_delta" \in Word /\ "block_start" \in Word /\ <<"text">> \in Seq(Word)
  BY WordsOfCode, Words DEF MapperState
<1>3. /\ piece \in Seq(WireLine) /\ Len(piece) = 1 /\ piece[1].ev = "block_delta"
  BY <1>2, LineAlone
<1>4. OpenedText(m) \in Seq(WireLine) /\ NoStop(OpenedText(m))
  <2>1. CASE m.textBlockStarted
    <3>1. OpenedText(m) = <<>>
      BY <2>1 DEF OpenedText
    <3>. QED  BY <3>1 DEF NoStop
  <2>2. CASE ~m.textBlockStarted
    <3>. DEFINE open == <<Line("block_start", m.blockIndex, <<"text">>)>>
    <3>1. open \in Seq(WireLine) /\ Len(open) = 1 /\ open[1].ev = "block_start"
      <4>. DEFINE data == <<"text">>
      <4>1. data \in Seq(Word) /\ open = <<Line("block_start", m.blockIndex, data)>>
        BY <1>2
      <4>. HIDE DEF data, open
      <4>. QED  BY <1>2, <4>1, LineAlone
    <3>2. OpenedText(m) = open
      BY <2>2 DEF OpenedText
    <3>. HIDE DEF open
    <3>3. \A i \in 1 .. Len(open) : i = 1
      BY <3>1
    <3>. QED  BY <3>1, <3>2, <3>3 DEF NoStop
  <2>. QED  BY <2>1, <2>2
<1>. HIDE DEF piece
<1>5. NoStop(piece)
  <2>1. \A i \in 1 .. Len(piece) : i = 1
    BY <1>3
  <2>. QED  BY <1>3, <2>1 DEF NoStop
<1>6. lines \in Seq(WireLine) /\ NoStop(lines)
  BY <1>3, <1>4, <1>5, NoStopJoined, Joined
<1>. QED  BY <1>1, <1>6

(* The states of the wire a step of the vendor leaves alone. *)
LEMMA BlocksFrame ==
  ASSUME BlocksInv, UNCHANGED <<req, mapper, res>>,
         \/ pc' = pc
         \/ pc \in {"live", "collect"} /\ pc' \in {"live", "collect"}
         \/ pc' \notin {"live", "collect", "store", "ended"}
  PROVE  BlocksInv'
  BY DEF BlocksInv, BlocksWellFormed

(* The headers are out and nothing else. *)
LEMMA BlocksMiss == ASSUME BaseInv, Miss PROVE BlocksInv'
<1>1. /\ pc = "lookup" /\ pc' = "live" /\ UNCHANGED <<req, mapper>>
      /\ res' = [res EXCEPT !.status = IF req.stream THEN 200 ELSE 0, !.source = "live"]
  BY DEF Miss
<1>2. res = NewResponse /\ mapper = NewMapper
  BY <1>1 DEF BaseInv, PhaseInv, Early
<1>3. res'.lines = <<>> /\ res'.metaEmitted = FALSE /\ mapper' = NewMapper
  BY <1>1, <1>2 DEF NewResponse
<1>4. Begun(<<>>, NewMapper) /\ NewMapper.sent = FALSE
  BY DEF Begun, NewMapper
<1>. QED  BY <1>1, <1>3, <1>4 DEF BlocksInv

(* meta *)
LEMMA BlocksOpenStream == ASSUME BaseInv, BlocksInv, OpenStream PROVE BlocksInv'
<1>1. /\ pc = "live" /\ req.stream /\ pc' = pc /\ req' = req
      /\ IF res.metaEmitted THEN UNCHANGED <<mapper, res>> ELSE Emit(Meta)
  BY DEF OpenStream, Live
<1>2. CASE res.metaEmitted
  BY <1>1, <1>2, BlocksFrame
<1>3. CASE ~res.metaEmitted /\ req.facade = "anthropic"
  <2>1. /\ FacadeTypeOK /\ PhaseInv /\ req.facade \in Facades /\ mapper \in MapperState
        /\ IsResponse(res) /\ res.lines \in Seq(WireLine) /\ ~res.ended
    BY <1>1, LiveFacts DEF IsResponse, PhaseInv
  <2>2. Mapped(MapEvent(Meta, mapper))
    <3>1. NoAnswer \in Reply /\ <<>> \in Seq(Word)
      BY WordsOfCode DEF NoAnswer, Reply, None
    <3>. QED  BY <2>1, <3>1, MapEventTyped
  <2>. DEFINE step == mapSseEventToAnthropic(Meta, mapper)
  <2>3. MapEvent(Meta, mapper) = step /\ Meta.name = "meta"
    BY <1>3, MapEventIs DEF Meta
  <2>4. /\ mapper' = step.mapper /\ res'.metaEmitted = TRUE /\ res'.lines = res.lines \o step.lines
    <3>. HIDE DEF step
    <3>. QED  BY <1>1, <1>3, <2>1, <2>2, <2>3, EmitIs
  <2>5. Begun(res.lines, mapper) /\ ~mapper.sent
    BY <1>1, <1>3 DEF BlocksInv
  <2>6. Begun(res.lines \o step.lines, step.mapper) /\ step.mapper.sent
    BY <2>1, <2>5, BegunMeta
  <2>7. mapper'.sent \in BOOLEAN
    BY <1>1, <1>3, <2>1, <2>2, EmitIs DEF MapperState
  <2>. HIDE DEF step
  <2>. QED  BY <1>1, <2>4, <2>6, <2>7 DEF BlocksInv
<1>4. CASE req.facade # "anthropic"
  BY <1>1, <1>4 DEF BlocksInv
<1>. QED  BY <1>2, <1>3, <1>4

(* A piece of text, of this call or a late one. *)
LEMMA BlocksDelta ==
  ASSUME BaseInv, BlocksInv, pc \in {"live", "collect", "store", "ended"}, pc' = pc, req' = req,
         NEW text \in Seq(Word), res.metaEmitted, res.source = "live",
         mapper' = MapEvent(Delta(text), mapper).mapper,
         mapper' \in MapperState, res'.source = res.source,
         res'.metaEmitted = res.metaEmitted, res.ended => res'.lines = res.lines,
         ~res.ended => res'.lines = res.lines \o MapEvent(Delta(text), mapper).lines
  PROVE  BlocksInv'
<1>1. /\ mapper \in MapperState /\ res.lines \in Seq(WireLine)
      /\ pc \in {"live", "collect", "store"} => ~res.ended
      /\ pc = "ended" => res.ended
  BY DEF BaseInv, FacadeTypeOK, IsResponse, PhaseInv
<1>. SUFFICES ASSUME req.facade = "anthropic", req.stream PROVE BlocksInv'
  BY DEF BlocksInv
<1>. DEFINE step == mapSseEventToAnthropic(Delta(text), mapper)
<1>2. MapEvent(Delta(text), mapper) = step
  BY MapEventIs
<1>3. mapper' = step.mapper /\ (~res.ended => res'.lines = res.lines \o step.lines)
  BY <1>2
<1>4. step.lines \in Seq(WireLine) /\ NoStop(step.lines)
  BY <1>1, DeltaNoStop
<1>5. CASE pc \in {"live", "collect"}
  <2>1. Begun(res.lines, mapper) /\ mapper.sent
    BY <1>5 DEF BlocksInv
  <2>2. Begun(res.lines \o step.lines, step.mapper) /\ step.mapper.sent
    BY <1>1, <2>1, BegunDelta
  <2>3. mapper'.sent \in BOOLEAN
    BY DEF MapperState
  <2>. HIDE DEF step
  <2>. QED  BY <1>1, <1>3, <1>5, <2>2, <2>3 DEF BlocksInv
<1>6. CASE pc = "store"
  <2>1. Ended(res.lines)
    BY <1>6 DEF BlocksInv
  <2>. HIDE DEF step
  <2>2. Ended(res.lines \o step.lines)
    BY <1>1, <1>4, <2>1, EndedGoesOn
  <2>. QED  BY <1>1, <1>3, <1>6, <2>2 DEF BlocksInv
<1>7. CASE pc = "ended"
  <2>1. BlocksWellFormed /\ res'.lines = res.lines
    BY <1>1, <1>7 DEF BlocksInv
  <2>. QED  BY <1>7, <2>1 DEF BlocksInv, BlocksWellFormed
<1>. QED  BY <1>5, <1>6, <1>7

(* done *)
LEMMA BlocksEmitDone == ASSUME BaseInv, BlocksInv, EmitDone PROVE BlocksInv'
<1>1. /\ pc = "collect" /\ pc' = "store" /\ req' = req /\ StreamAnswer \in Reply
      /\ res'.lines = res.lines \o MapEvent(Done(StreamAnswer), mapper).lines
  BY DoneIs
<1>2. /\ mapper \in MapperState /\ res.lines \in Seq(WireLine) /\ res.metaEmitted
  BY <1>1 DEF BaseInv, FacadeTypeOK, IsResponse, PhaseInv
<1>. SUFFICES ASSUME req.facade = "anthropic", req.stream PROVE Ended(res'.lines)
  BY <1>1 DEF BlocksInv
<1>. DEFINE step == mapSseEventToAnthropic(Done(StreamAnswer), mapper)
<1>3. res'.lines = res.lines \o step.lines
  BY <1>1, MapEventIs
<1>4. Begun(res.lines, mapper) /\ mapper.sent
  BY <1>1, <1>2 DEF BlocksInv
<1>5. Ended(res.lines \o step.lines)
  BY <1>1, <1>2, <1>4, BegunDone
<1>. QED  BY <1>3, <1>5

(* What is out stays out when the request is over. *)
LEMMA BlocksOver ==
  ASSUME BaseInv, BlocksInv, pc \in {"live", "store"}, pc' = "ended", req' = req,
         req.stream => res'.lines = res.lines
  PROVE  BlocksInv'
<1>1. /\ mapper \in MapperState /\ res.lines \in Seq(WireLine)
  BY DEF BaseInv, FacadeTypeOK, IsResponse
<1>. SUFFICES ASSUME req.facade = "anthropic", req.stream PROVE WellFormed(Announced(res.lines))
  BY DEF BlocksInv, BlocksWellFormed
<1>2. CASE pc = "live"
  BY <1>1, <1>2, BegunWellFormed DEF BlocksInv
<1>3. CASE pc = "store"
  BY <1>1, <1>3, EndedWellFormed DEF BlocksInv
<1>. QED  BY <1>2, <1>3

(* Every step keeps the stream in shape. *)
LEMMA BlocksNext == ASSUME BaseInv, BaseInv', BlocksInv, [Next]_vars PROVE BlocksInv'
<1>1. CASE Arrive \/ Close
  <2>1. pc' \in {"auth", "idle"}
    BY <1>1 DEF Arrive, Close
  <2>. QED  BY <2>1 DEF BlocksInv
<1>2. CASE Authenticate \/ RateLimit \/ ValidateForStreaming \/ MapRequest \/ Prepare
  <2>1. /\ pc \in Early /\ req' = req
        /\ \/ pc' \in Early
           \/ \E status \in Nat, code \in Word : Reject(status, code)
    BY <1>2, EarlyStep
  <2>2. CASE pc' \in Early
    BY <2>2 DEF BlocksInv, Early
  <2>3. CASE \E status \in Nat, code \in Word : Reject(status, code)
    <3>1. PICK status \in Nat, code \in Word : Reject(status, code)
      BY <2>3
    <3>2. /\ res = NewResponse /\ req.facade \in Facades
      BY <2>1 DEF BaseInv, PhaseInv, Early
    <3>3. pc' = "ended" /\ res'.source = None
      BY <3>1, <3>2, FreshTyped, RejectIs
    <3>. QED  BY <3>3 DEF BlocksInv, BlocksWellFormed
  <2>. QED  BY <2>1, <2>2, <2>3
<1>3. CASE Replay
  <2>1. /\ pc' = "ended" /\ Entry \in Reply /\ mapper = NewMapper /\ req.facade \in Facades
        /\ req' = req
        /\ req.stream => res'.lines = Replayed(Entry)[ChunkCount(Entry.text) + 2].lines
    BY <1>3, ReplayIs
  <2>2. res'.lines \in Seq(WireLine)
    BY DEF BaseInv, FacadeTypeOK, IsResponse
  <2>3. req.facade = "anthropic" /\ req.stream => Ended(res'.lines)
    BY <2>1, ReplayEnds
  <2>. QED  BY <2>1, <2>2, <2>3, EndedWellFormed DEF BlocksInv, BlocksWellFormed
<1>4. CASE Miss
  BY <1>4, BlocksMiss
<1>5. CASE OpenStream
  BY <1>5, BlocksOpenStream
<1>6. CASE SdkText
  <2>1. /\ pc = "live" /\ req.stream /\ pc' = pc /\ sdk.open /\ req' = req /\ Emit(Delta(Text(1)))
    BY <1>6 DEF SdkText, Live
  <2>2. /\ FacadeTypeOK /\ req.facade \in Facades /\ res.source = "live"
    BY <2>1, LiveFacts
  <2>3. Text(1) \in Seq(Word) /\ res.metaEmitted
    BY <2>1, TextTyped, LiveStream
  <2>. QED  BY <2>1, <2>2, <2>3, DeltaIs, BlocksDelta
<1>7. CASE SdkThought \/ SdkCall \/ SdkEnds
  <2>1. /\ pc = "live" /\ pc' \in {"live", "collect"} /\ UNCHANGED <<req, mapper, res>>
    BY <1>7 DEF SdkThought, SdkCall, SdkEnds, Live
  <2>. QED  BY <2>1, BlocksFrame
<1>8. CASE EmitDone
  BY <1>8, BlocksEmitDone
<1>9. CASE StoreAndEnd
  <2>1. pc = "store" /\ pc' = "ended" /\ req' = req /\ res' = [res EXCEPT !.ended = TRUE]
    BY <1>9 DEF StoreAndEnd
  <2>2. res'.lines = res.lines
    BY <2>1 DEF BaseInv, FacadeTypeOK, IsResponse
  <2>. QED  BY <2>1, <2>2, BlocksOver
<1>10. CASE CompleteChat
  BY <1>10, CompleteIs DEF BlocksInv
<1>11. CASE Fail \/ Abandon
  <2>1. PICK abandoned \in BOOLEAN : CallFails(abandoned)
    BY <1>11 DEF Fail, Abandon
  <2>2. /\ pc = "live" /\ UNCHANGED <<req, mapper>>
        /\ \/ UNCHANGED <<pc, res>>
           \/ \E status \in Nat, code \in Word : Reject(status, code)
    BY <2>1, FailIs
  <2>3. CASE UNCHANGED <<pc, res>>
    BY <2>2, <2>3, BlocksFrame
  <2>4. CASE \E status \in Nat, code \in Word : Reject(status, code)
    <3>1. PICK status \in Nat, code \in Word : Reject(status, code)
      BY <2>4
    <3>2. /\ req.facade \in Facades /\ IsResponse(res) /\ (req.stream => res.status # 0)
      BY <2>2, LiveFacts DEF PhaseInv
    <3>3. pc' = "ended" /\ (req.stream => res'.lines = res.lines)
      BY <3>1, <3>2, RejectIs
    <3>. QED  BY <2>2, <3>3, BlocksOver
  <2>. QED  BY <2>2, <2>3, <2>4
<1>12. CASE LateDelta
  BY <1>12, LateIs, BlocksDelta
<1>13. CASE Expire
  <2>1. pc = "idle" /\ pc' = pc
    BY <1>13 DEF Expire
  <2>. QED  BY <2>1 DEF BlocksInv
<1>14. CASE Finished \/ UNCHANGED vars
  <2>1. UNCHANGED <<req, mapper, res, pc>>
    BY <1>14 DEF Finished, vars
  <2>. QED  BY <2>1, BlocksFrame
<1>. QED
  BY <1>1, <1>2, <1>3, <1>4, <1>5, <1>6, <1>7, <1>8, <1>9, <1>10, <1>11, <1>12, <1>13, <1>14
  DEF Next

(* The Anthropic stream is one the vendor's SDK can read, whatever mix of  *)
(* text, thought and tool calls the provider sends, over retries that      *)
(* continue on the same response, late text of abandoned calls and in a    *)
(* replay, for any number of calls, pieces, attempts and requests and any  *)
(* chunk size (mapSseEventToAnthropic).                                    *)
THEOREM StreamsReadable == Spec => []BlocksWellFormed
<1>1. Init => BaseInv /\ BlocksInv
  <2>1. Init => BlocksInv
    BY DEF Init, BlocksInv
  <2>. QED  BY <2>1, BaseInit
<1>2. (BaseInv /\ BlocksInv) /\ [Next]_vars => (BaseInv /\ BlocksInv)'
  BY BaseNext, BlocksNext
<1>3. BaseInv /\ BlocksInv => BlocksWellFormed
  <2>. SUFFICES ASSUME BaseInv, BlocksInv, req.facade = "anthropic", req.stream,
                       res.source # None
                PROVE  WellFormed(Announced(res.lines))
    BY DEF BlocksWellFormed
  <2>1. mapper \in MapperState /\ res.lines \in Seq(WireLine)
    BY DEF BaseInv, FacadeTypeOK, IsResponse
  <2>2. pc \in {"live", "collect", "store", "ended"}
    BY FreshTyped DEF BaseInv, PhaseInv
  <2>3. CASE pc \in {"live", "collect"}
    BY <2>1, <2>3, BegunWellFormed DEF BlocksInv
  <2>4. CASE pc = "store"
    BY <2>1, <2>4, EndedWellFormed DEF BlocksInv
  <2>5. CASE pc = "ended"
    BY <2>5 DEF BlocksInv, BlocksWellFormed
  <2>. QED  BY <2>2, <2>3, <2>4, <2>5
<1>. QED  BY <1>1, <1>2, <1>3, PTL DEF Spec

-----------------------------------------------------------------------------
(* The calls on the wire *)

IsEnd(line) == line.ev \in {"finish", "message_delta"}

CallFree(w) == \A i \in 1 .. Len(w) : ~IsCall(w[i])

NoEnd(w) == \A i \in 1 .. Len(w) : ~IsEnd(w[i])

(* No call and no end on the wire *)
Quiet(w) == CallFree(w) /\ NoEnd(w)

(* The arguments of a call are out with its id *)
Complete(w) == \A i \in 1 .. Len(w) : IsCall(w[i]) => w[i].ev = "tool_call" \/ i + 1 \in 1 .. Len(w)

(* The end, with its reason *)
Ends(w, word) ==
  /\ \E i \in 1 .. Len(w) : IsEnd(w[i])
  /\ \A i \in 1 .. Len(w) : IsEnd(w[i]) => w[i].data[1] = word

(* A part of the wire that tells of these calls *)
Speaks(w, calls) == Complete(w) /\ Tells(w, calls) /\ NoEnd(w)

(* ... and one with the end *)
Says(w, calls, word) == Complete(w) /\ Tells(w, calls) /\ Ends(w, word)

(* The calls as a client reads them *)
Spelled(calls) == [i \in DOMAIN calls |-> <<calls[i].id>> \o calls[i].args]

(* The lines of calls. *)
LEMMA CallLinesAre ==
  ASSUME NEW w \in Seq(WireLine)
  PROVE  \A i : i \in CallLines(w) <=> i \in 1 .. Len(w) /\ IsCall(w[i])
  BY SeqIs DEF CallLines

(* What comes before the calls does not change them. *)
LEMMA TellsAfter ==
  ASSUME NEW a \in Seq(WireLine), NEW b \in Seq(WireLine), NEW calls,
         CallFree(a), Complete(b), Tells(b, calls)
  PROVE  Complete(a \o b) /\ Tells(a \o b, calls)
<1>. DEFINE c == a \o b
            L == Len(a)
<1>1. /\ c \in Seq(WireLine) /\ Len(c) = L + Len(b) /\ L \in Nat /\ Len(b) \in Nat
      /\ \A i \in 1 .. L : c[i] = a[i]
      /\ \A i \in 1 .. Len(b) : c[L + i] = b[i]
  BY Joined, SeqIs
<1>. HIDE DEF c, L
<1>2. \A i \in 1 .. Len(c) : IsCall(c[i]) => i - L \in 1 .. Len(b) /\ IsCall(b[i - L]) /\ c[i] = b[i - L]
  <2>. SUFFICES ASSUME NEW i \in 1 .. Len(c), IsCall(c[i])
                PROVE  i - L \in 1 .. Len(b) /\ IsCall(b[i - L]) /\ c[i] = b[i - L]
    OBVIOUS
  <2>1. CASE i \in 1 .. L
    <3>1. c[i] = a[i] /\ ~IsCall(a[i])
      BY <1>1, <2>1 DEF CallFree, L
    <3>. QED  BY <3>1
  <2>2. CASE i > L
    <3>1. i - L \in 1 .. Len(b) /\ i = L + (i - L)
      BY <1>1, <2>2
    <3>2. c[i] = b[i - L]
      BY <1>1, <3>1
    <3>. QED  BY <3>1, <3>2
  <2>. QED  BY <1>1, <2>1, <2>2
<1>3. Complete(c)
  <2>. SUFFICES ASSUME NEW i \in 1 .. Len(c), IsCall(c[i])
                PROVE  c[i].ev = "tool_call" \/ i + 1 \in 1 .. Len(c)
    BY DEF Complete
  <2>1. i - L \in 1 .. Len(b) /\ IsCall(b[i - L]) /\ c[i] = b[i - L]
    BY <1>2
  <2>2. b[i - L].ev = "tool_call" \/ (i - L) + 1 \in 1 .. Len(b)
    BY <2>1 DEF Complete
  <2>. QED  BY <1>1, <2>1, <2>2
<1>4. PICK at \in [DOMAIN calls -> CallLines(b)] :
        /\ \A i, j \in DOMAIN calls : i < j => at[i] < at[j]
        /\ \A l \in CallLines(b) : \E i \in DOMAIN calls : at[i] = l
        /\ \A i \in DOMAIN calls : CallAt(b, at[i]) = calls[i]
  BY DEF Tells
<1>5. \A i \in DOMAIN calls : at[i] \in 1 .. Len(b) /\ IsCall(b[at[i]])
  BY CallLinesAre
<1>. DEFINE at2 == [i \in DOMAIN calls |-> L + at[i]]
<1>6. \A i \in DOMAIN calls : at2[i] \in 1 .. Len(c) /\ c[at2[i]] = b[at[i]] /\ at2[i] = L + at[i]
  BY <1>1, <1>5
<1>7. at2 \in [DOMAIN calls -> CallLines(c)]
  BY <1>1, <1>5, <1>6, CallLinesAre
<1>. HIDE DEF at2
<1>8. \A i, j \in DOMAIN calls : i < j => at2[i] < at2[j]
  BY <1>1, <1>4, <1>5, <1>6
<1>9. ASSUME NEW l \in CallLines(c) PROVE \E i \in DOMAIN calls : at2[i] = l
  <2>1. l \in 1 .. Len(c) /\ IsCall(c[l])
    BY <1>1, CallLinesAre
  <2>2. l - L \in CallLines(b)
    BY <1>2, <2>1, CallLinesAre
  <2>3. PICK i \in DOMAIN calls : at[i] = l - L
    BY <1>4, <2>2
  <2>4. at2[i] = l
    BY <1>1, <1>6, <2>1, <2>3
  <2>. QED  BY <2>4
<1>10. ASSUME NEW i \in DOMAIN calls PROVE CallAt(c, at2[i]) = calls[i]
  <2>. DEFINE p == at[i]
              q == at2[i]
  <2>1. /\ p \in 1 .. Len(b) /\ IsCall(b[p]) /\ q = L + p /\ c[q] = b[p]
    BY <1>5, <1>6
  <2>2. b[p].ev = "tool_call" \/ p + 1 \in 1 .. Len(b)
    BY <2>1 DEF Complete
  <2>3. CallAt(b, p) = calls[i]
    BY <1>4
  <2>. HIDE DEF p, q
  <2>4. CallAt(c, q) = calls[i]
    <3>1. CASE b[p].ev = "tool_call"
      BY <2>1, <2>3, <3>1 DEF CallAt
    <3>2. CASE p + 1 \in 1 .. Len(b)
      <4>1. c[L + (p + 1)] = b[p + 1] /\ q + 1 = L + (p + 1)
        BY <1>1, <2>1, <3>2
      <4>2. c[q + 1] = b[p + 1]
        BY <4>1
      <4>. QED  BY <2>1, <2>3, <4>2 DEF CallAt
    <3>. QED  BY <2>2, <3>1, <3>2
  <2>. QED  BY <2>4 DEF q
<1>11. Tells(c, calls)
  BY <1>7, <1>8, <1>9, <1>10 DEF Tells
<1>. QED  BY <1>3, <1>11 DEF c

(* ... nor does what comes after them. *)
LEMMA TellsBefore ==
  ASSUME NEW a \in Seq(WireLine), NEW b \in Seq(WireLine), NEW calls,
         Complete(a), Tells(a, calls), CallFree(b)
  PROVE  Complete(a \o b) /\ Tells(a \o b, calls)
<1>. DEFINE c == a \o b
            L == Len(a)
<1>1. /\ c \in Seq(WireLine) /\ Len(c) = L + Len(b) /\ L \in Nat /\ Len(b) \in Nat
      /\ \A i \in 1 .. L : c[i] = a[i]
      /\ \A i \in 1 .. Len(b) : c[L + i] = b[i]
  BY Joined, SeqIs
<1>. HIDE DEF c, L
<1>2. \A i \in 1 .. Len(c) : IsCall(c[i]) => i \in 1 .. L /\ IsCall(a[i]) /\ c[i] = a[i]
  <2>. SUFFICES ASSUME NEW i \in 1 .. Len(c), IsCall(c[i])
                PROVE  i \in 1 .. L /\ IsCall(a[i]) /\ c[i] = a[i]
    OBVIOUS
  <2>1. CASE i \in 1 .. L
    BY <1>1, <2>1
  <2>2. CASE i > L
    <3>1. i - L \in 1 .. Len(b) /\ i = L + (i - L)
      BY <1>1, <2>2
    <3>2. c[i] = b[i - L] /\ ~IsCall(b[i - L])
      BY <1>1, <3>1 DEF CallFree
    <3>. QED  BY <3>2
  <2>. QED  BY <1>1, <2>1, <2>2
<1>3. Complete(c)
  <2>. SUFFICES ASSUME NEW i \in 1 .. Len(c), IsCall(c[i])
                PROVE  c[i].ev = "tool_call" \/ i + 1 \in 1 .. Len(c)
    BY DEF Complete
  <2>1. i \in 1 .. L /\ IsCall(a[i]) /\ c[i] = a[i]
    BY <1>2
  <2>2. a[i].ev = "tool_call" \/ i + 1 \in 1 .. L
    BY <2>1 DEF Complete, L
  <2>. QED  BY <1>1, <2>1, <2>2
<1>4. PICK at \in [DOMAIN calls -> CallLines(a)] :
        /\ \A i, j \in DOMAIN calls : i < j => at[i] < at[j]
        /\ \A l \in CallLines(a) : \E i \in DOMAIN calls : at[i] = l
        /\ \A i \in DOMAIN calls : CallAt(a, at[i]) = calls[i]
  BY DEF Tells
<1>5. \A i \in DOMAIN calls : at[i] \in 1 .. L /\ IsCall(a[at[i]])
  BY CallLinesAre DEF L
<1>6. \A i \in DOMAIN calls : at[i] \in 1 .. Len(c) /\ c[at[i]] = a[at[i]]
  BY <1>1, <1>5
<1>7. at \in [DOMAIN calls -> CallLines(c)]
  BY <1>1, <1>5, <1>6, CallLinesAre
<1>8. ASSUME NEW l \in CallLines(c) PROVE \E i \in DOMAIN calls : at[i] = l
  <2>1. l \in 1 .. Len(c) /\ IsCall(c[l])
    BY <1>1, CallLinesAre
  <2>2. l \in CallLines(a)
    BY <1>2, <2>1, CallLinesAre DEF L
  <2>. QED  BY <1>4, <2>2
<1>9. ASSUME NEW i \in DOMAIN calls PROVE CallAt(c, at[i]) = calls[i]
  <2>. DEFINE p == at[i]
  <2>1. /\ p \in 1 .. L /\ IsCall(a[p]) /\ c[p] = a[p]
    BY <1>5, <1>6
  <2>2. a[p].ev = "tool_call" \/ p + 1 \in 1 .. L
    BY <2>1 DEF Complete, L
  <2>3. CallAt(a, p) = calls[i]
    BY <1>4
  <2>. HIDE DEF p
  <2>4. CallAt(c, p) = calls[i]
    <3>1. CASE a[p].ev = "tool_call"
      BY <2>1, <2>3, <3>1 DEF CallAt
    <3>2. CASE p + 1 \in 1 .. L
      <4>1. c[p + 1] = a[p + 1]
        BY <1>1, <3>2
      <4>. QED  BY <2>1, <2>3, <4>1 DEF CallAt
    <3>. QED  BY <2>2, <3>1, <3>2
  <2>. QED  BY <2>4 DEF p
<1>10. Tells(c, calls)
  BY <1>4, <1>7, <1>8, <1>9 DEF Tells
<1>. QED  BY <1>3, <1>10 DEF c

(* The end in parts of the wire. *)
LEMMA EndsJoined ==
  ASSUME NEW a \in Seq(WireLine), NEW b \in Seq(WireLine), NEW word
  PROVE  /\ NoEnd(a) /\ NoEnd(b) => NoEnd(a \o b)
         /\ CallFree(a) /\ CallFree(b) => CallFree(a \o b)
         /\ Ends(a, word) /\ NoEnd(b) => Ends(a \o b, word)
         /\ NoEnd(a) /\ Ends(b, word) => Ends(a \o b, word)
<1>. DEFINE c == a \o b
            L == Len(a)
<1>1. /\ c \in Seq(WireLine) /\ Len(c) = L + Len(b) /\ L \in Nat /\ Len(b) \in Nat
      /\ \A i \in 1 .. L : c[i] = a[i]
      /\ \A i \in 1 .. Len(b) : c[L + i] = b[i]
  BY Joined, SeqIs
<1>. HIDE DEF c, L
<1>2. \A i \in 1 .. Len(c) : (i \in 1 .. L /\ c[i] = a[i]) \/ (i - L \in 1 .. Len(b) /\ c[i] = b[i - L])
  <2>. SUFFICES ASSUME NEW i \in 1 .. Len(c), i \notin 1 .. L
                PROVE  i - L \in 1 .. Len(b) /\ c[i] = b[i - L]
    BY <1>1
  <2>1. i - L \in 1 .. Len(b) /\ i = L + (i - L)
    BY <1>1
  <2>. QED  BY <1>1, <2>1
<1>3. NoEnd(a) /\ NoEnd(b) => NoEnd(c)
  BY <1>2 DEF NoEnd, L
<1>4. CallFree(a) /\ CallFree(b) => CallFree(c)
  BY <1>2 DEF CallFree, L
<1>5. ASSUME Ends(a, word), NoEnd(b) PROVE Ends(c, word)
  <2>1. PICK i \in 1 .. L : IsEnd(a[i])
    BY <1>5 DEF Ends, L
  <2>2. i \in 1 .. Len(c) /\ IsEnd(c[i])
    BY <1>1, <2>1
  <2>3. \A j \in 1 .. Len(c) : IsEnd(c[j]) => c[j].data[1] = word
    BY <1>2, <1>5 DEF Ends, NoEnd, L
  <2>. QED  BY <2>2, <2>3 DEF Ends
<1>6. ASSUME NoEnd(a), Ends(b, word) PROVE Ends(c, word)
  <2>1. PICK i \in 1 .. Len(b) : IsEnd(b[i])
    BY <1>6 DEF Ends
  <2>2. L + i \in 1 .. Len(c) /\ IsEnd(c[L + i])
    BY <1>1, <2>1
  <2>3. \A j \in 1 .. Len(c) : IsEnd(c[j]) => c[j].data[1] = word
    BY <1>2, <1>6 DEF Ends, NoEnd, L
  <2>. QED  BY <2>2, <2>3 DEF Ends
<1>. QED  BY <1>3, <1>4, <1>5, <1>6 DEF c

(* Nothing is told by nothing, and by a quiet line. *)
LEMMA QuietFew ==
  /\ Quiet(<<>>) /\ Tells(<<>>, <<>>)
  /\ \A w \in Seq(WireLine) : Len(w) = 1 /\ ~IsCall(w[1]) /\ ~IsEnd(w[1]) => Quiet(w)
<1>1. Len(<<>>) = 0 /\ DOMAIN <<>> = {}
  OBVIOUS
<1>2. Quiet(<<>>)
  BY <1>1 DEF Quiet, CallFree, NoEnd
<1>3. Tells(<<>>, <<>>)
  <2>1. CallLines(<<>>) = {}
    BY <1>1 DEF CallLines
  <2>2. <<>> \in [DOMAIN <<>> -> CallLines(<<>>)]
    OBVIOUS
  <2>. QED  BY <1>1, <2>1, <2>2 DEF Tells
<1>4. ASSUME NEW w \in Seq(WireLine), Len(w) = 1, ~IsCall(w[1]), ~IsEnd(w[1]) PROVE Quiet(w)
  <2>1. \A i \in 1 .. Len(w) : i = 1
    BY <1>4
  <2>. QED  BY <1>4, <2>1 DEF Quiet, CallFree, NoEnd
<1>. QED  BY <1>2, <1>3, <1>4

(* What is free of calls is complete, and tells of none. *)
LEMMA FreeTells ==
  ASSUME NEW w \in Seq(WireLine), CallFree(w)
  PROVE  Complete(w) /\ Tells(w, <<>>) /\ CallLines(w) = {}
<1>1. CallLines(w) = {}
  BY CallLinesAre DEF CallFree
<1>2. Complete(w)
  BY DEF Complete, CallFree
<1>3. Tells(w, <<>>)
  <2>1. <<>> \in [DOMAIN <<>> -> CallLines(w)] /\ DOMAIN <<>> = {}
    OBVIOUS
  <2>. QED  BY <1>1, <2>1 DEF Tells
<1>. QED  BY <1>1, <1>2, <1>3

(* The calls of an answer outside the Anthropic stream: one line each. *)
LEMMA CallWireSpeaks ==
  ASSUME NEW calls \in Seq(ToolCall)
  PROVE  CallWire(calls) \in Seq(WireLine) /\ Speaks(CallWire(calls), Spelled(calls))
<1>. DEFINE W == CallWire(calls)
            N == Len(calls)
            T == Spelled(calls)
<1>1. /\ W \in Seq(WireLine) /\ Len(W) = N /\ N \in Nat /\ DOMAIN calls = 1 .. N
      /\ \A i \in 1 .. N : W[i] = Line("tool_call", i - 1, <<calls[i].id>> \o calls[i].args)
  BY CallWireTyped, SeqIs
<1>2. DOMAIN T = 1 .. N /\ \A i \in 1 .. N : T[i] = <<calls[i].id>> \o calls[i].args
  BY <1>1 DEF Spelled
<1>. HIDE DEF W, T
<1>3. \A i \in 1 .. N : W[i].ev = "tool_call" /\ W[i].data = T[i]
  <2>. SUFFICES ASSUME NEW i \in 1 .. N PROVE W[i].ev = "tool_call" /\ W[i].data = T[i]
    OBVIOUS
  <2>1. W[i] = Line("tool_call", i - 1, T[i])
    BY <1>1, <1>2
  <2>. QED  BY <2>1, LineParts
<1>4. \A i \in 1 .. N : IsCall(W[i]) /\ ~IsEnd(W[i]) /\ CallAt(W, i) = T[i]
  BY <1>3 DEF IsCall, IsEnd, CallAt
<1>5. Complete(W) /\ NoEnd(W)
  BY <1>1, <1>3, <1>4 DEF Complete, NoEnd
<1>. DEFINE at == [i \in 1 .. N |-> i]
<1>6. /\ at \in [DOMAIN T -> CallLines(W)] /\ \A i \in 1 .. N : at[i] = i
  BY <1>1, <1>2, <1>4, CallLinesAre
<1>. HIDE DEF at
<1>7. \A l \in CallLines(W) : \E i \in DOMAIN T : at[i] = l
  BY <1>1, <1>2, <1>6, CallLinesAre
<1>8. Tells(W, T)
  BY <1>2, <1>4, <1>6, <1>7 DEF Tells
<1>. QED  BY <1>1, <1>5, <1>8 DEF Speaks, W, T

(* The calls of an answer in the Anthropic stream: a block each. *)
LEMMA BlocksSpeak ==
  ASSUME NEW answer \in Reply, NEW m \in MapperState
  PROVE  LET W == WholeBlocks(m, DoneBlocks(answer, m))
         IN  W \in Seq(WireLine) /\ Speaks(W, Spelled(answer.calls))
<1>. DEFINE blocks == DoneBlocks(answer, m)
            calls == answer.calls
            N == Len(calls)
            think == ThinkingBlock(answer, m)
            tools == ToolBlocks(answer)
            t == Len(think)
            W == WholeBlocks(m, blocks)
            T == Spelled(calls)
<1>1. /\ blocks \in Seq(BlockType) /\ think \in Seq(BlockType) /\ tools \in Seq(BlockType)
      /\ Len(tools) = N /\ calls \in Seq(ToolCall)
      /\ \A i \in 1 .. N : tools[i] = [data |-> <<"tool_use", calls[i].id>>, args |-> calls[i].args]
  BY DoneBlocksTyped DEF Reply
<1>2. N \in Nat /\ DOMAIN calls = 1 .. N
  BY <1>1, SeqIs
<1>3. t \in {0, 1} /\ (t = 1 => think[1].data[1] = "thinking")
  BY DEF ThinkingBlock
<1>4. /\ W \in Seq(WireLine) /\ Len(W) = 3 * Len(blocks)
      /\ \A n \in 1 .. Len(blocks) :
           /\ W[3 * n - 2] = Line("block_start", nextToolBlockIndex(m, n), blocks[n].data)
           /\ W[3 * n - 1] = Line("block_delta", nextToolBlockIndex(m, n), blocks[n].args)
           /\ W[3 * n] = Line("block_stop", nextToolBlockIndex(m, n), <<>>)
  BY <1>1, WholeBlocksTyped
<1>5. DOMAIN T = 1 .. N /\ \A i \in 1 .. N : T[i] = <<calls[i].id>> \o calls[i].args
  BY <1>2 DEF Spelled
<1>6. /\ Len(blocks) = t + N
      /\ \A i \in 1 .. t : blocks[i] = think[i]
      /\ \A i \in 1 .. N : blocks[t + i] = tools[i]
  <2>1. blocks = think \o tools
    BY DEF DoneBlocks
  <2>2. think \in Seq(BlockType) /\ tools \in Seq(BlockType)
    BY <1>1
  <2>. HIDE DEF blocks, think, tools
  <2>3. /\ Len(blocks) = Len(think) + Len(tools)
        /\ \A i \in 1 .. Len(think) : blocks[i] = think[i]
        /\ \A i \in 1 .. Len(tools) : blocks[Len(think) + i] = tools[i]
    BY <2>1, <2>2, Joined
  <2>. QED  BY <1>1, <2>3
<1>. HIDE DEF W, T, blocks, think, tools, t
<1>7. \A n \in 1 .. t + N : /\ W[3 * n - 2].ev = "block_start" /\ W[3 * n - 2].data = blocks[n].data
                            /\ W[3 * n - 1].ev = "block_delta" /\ W[3 * n - 1].data = blocks[n].args
                            /\ W[3 * n].ev = "block_stop"
  <2>. SUFFICES ASSUME NEW n \in 1 .. t + N
                PROVE  /\ W[3 * n - 2].ev = "block_start" /\ W[3 * n - 2].data = blocks[n].data
                       /\ W[3 * n - 1].ev = "block_delta" /\ W[3 * n - 1].data = blocks[n].args
                       /\ W[3 * n].ev = "block_stop"
    OBVIOUS
  <2>1. /\ W[3 * n - 2] = Line("block_start", nextToolBlockIndex(m, n), blocks[n].data)
        /\ W[3 * n - 1] = Line("block_delta", nextToolBlockIndex(m, n), blocks[n].args)
        /\ W[3 * n] = Line("block_stop", nextToolBlockIndex(m, n), <<>>)
    BY <1>4, <1>6
  <2>. QED  BY <2>1, LineParts
<1>8. \A i \in 1 .. 3 * (t + N) : \E n \in 1 .. t + N : i = 3 * n - 2 \/ i = 3 * n - 1 \/ i = 3 * n
  <2>. SUFFICES ASSUME NEW i \in 1 .. 3 * (t + N)
                PROVE  \E n \in 1 .. t + N : i = 3 * n - 2 \/ i = 3 * n - 1 \/ i = 3 * n
    OBVIOUS
  <2>1. (i + 2) \div 3 \in 1 .. t + N
    BY <1>2, <1>3
  <2>2. i = 3 * ((i + 2) \div 3) - 2 \/ i = 3 * ((i + 2) \div 3) - 1 \/ i = 3 * ((i + 2) \div 3)
    BY <1>2, <1>3
  <2>. QED  BY <2>1, <2>2
<1>9. \A i \in 1 .. N : /\ blocks[t + i].data = <<"tool_use", calls[i].id>>
                        /\ blocks[t + i].args = calls[i].args
  <2>. SUFFICES ASSUME NEW i \in 1 .. N
                PROVE  /\ blocks[t + i].data = <<"tool_use", calls[i].id>>
                       /\ blocks[t + i].args = calls[i].args
    OBVIOUS
  <2>. DEFINE b == blocks[t + i]
              data == <<"tool_use", calls[i].id>>
  <2>1. b = [data |-> data, args |-> calls[i].args]
    BY <1>1, <1>6
  <2>. HIDE DEF b, data
  <2>2. b.data = data /\ b.args = calls[i].args
    BY <2>1
  <2>. QED  BY <2>2 DEF b, data
<1>10. ASSUME NEW i \in 1 .. N
       PROVE  /\ 3 * (t + i) - 2 \in 1 .. Len(W) /\ IsCall(W[3 * (t + i) - 2])
              /\ CallAt(W, 3 * (t + i) - 2) = T[i]
  <2>. DEFINE n == t + i
              p == 3 * n - 2
  <2>1. n \in 1 .. t + N /\ p \in 1 .. Len(W) /\ p + 1 = 3 * n - 1
    BY <1>2, <1>3, <1>4, <1>6
  <2>2. blocks[n].data = <<"tool_use", calls[i].id>> /\ blocks[n].args = calls[i].args
    BY <1>9
  <2>. HIDE DEF n
  <2>3. /\ W[p].ev = "block_start" /\ W[p].data = <<"tool_use", calls[i].id>>
        /\ W[p + 1].data = calls[i].args
    BY <1>7, <2>1, <2>2
  <2>. HIDE DEF p
  <2>4. W[p].data[1] = "tool_use" /\ W[p].data[2] = calls[i].id
    BY <2>3
  <2>5. IsCall(W[p])
    BY <2>3, <2>4 DEF IsCall
  <2>6. CallAt(W, p) = <<calls[i].id>> \o calls[i].args
    BY <2>3, <2>4 DEF CallAt
  <2>. QED  BY <1>5, <2>1, <2>5, <2>6 DEF p, n
<1>11. ASSUME NEW l \in 1 .. Len(W), IsCall(W[l])
       PROVE  l + 1 \in 1 .. Len(W) /\ \E i \in 1 .. N : l = 3 * (t + i) - 2
  <2>1. PICK n \in 1 .. t + N : l = 3 * n - 2 \/ l = 3 * n - 1 \/ l = 3 * n
    BY <1>4, <1>6, <1>8
  <2>2. l = 3 * n - 2
    BY <1>7, <1>11, <2>1 DEF IsCall
  <2>3. n > t
    <3>. SUFFICES ASSUME n <= t PROVE FALSE
      BY <1>3
    <3>1. n = 1 /\ t = 1
      BY <1>2, <1>3
    <3>2. W[l].data[1] = "thinking" /\ W[l].ev = "block_start"
      BY <1>3, <1>6, <1>7, <2>2, <3>1
    <3>. QED  BY <1>11, <3>2 DEF IsCall
  <2>4. n - t \in 1 .. N /\ l = 3 * (t + (n - t)) - 2 /\ l + 1 \in 1 .. Len(W)
    BY <1>2, <1>3, <1>4, <1>6, <2>2, <2>3
  <2>. QED  BY <2>4
<1>12. NoEnd(W)
  <2>. SUFFICES ASSUME NEW l \in 1 .. Len(W) PROVE ~IsEnd(W[l])
    BY DEF NoEnd
  <2>1. PICK n \in 1 .. t + N : l = 3 * n - 2 \/ l = 3 * n - 1 \/ l = 3 * n
    BY <1>4, <1>6, <1>8
  <2>. QED  BY <1>7, <2>1 DEF IsEnd
<1>13. Complete(W)
  BY <1>11 DEF Complete
<1>. DEFINE at == [i \in 1 .. N |-> 3 * (t + i) - 2]
<1>14. at \in [DOMAIN T -> CallLines(W)]
  BY <1>4, <1>5, <1>10, CallLinesAre
<1>15. \A i, j \in DOMAIN T : i < j => at[i] < at[j]
  BY <1>2, <1>3, <1>5
<1>16. \A l \in CallLines(W) : \E i \in DOMAIN T : at[i] = l
  <2>. SUFFICES ASSUME NEW l \in CallLines(W) PROVE \E i \in DOMAIN T : at[i] = l
    OBVIOUS
  <2>1. l \in 1 .. Len(W) /\ IsCall(W[l])
    BY <1>4, CallLinesAre
  <2>2. PICK i \in 1 .. N : l = 3 * (t + i) - 2
    BY <1>11, <2>1
  <2>. QED  BY <1>5, <2>2
<1>17. \A i \in DOMAIN T : CallAt(W, at[i]) = T[i]
  BY <1>5, <1>10
<1>. HIDE DEF at
<1>18. Tells(W, T)
  BY <1>14, <1>15, <1>16, <1>17 DEF Tells
<1>. QED  BY <1>4, <1>12, <1>13, <1>18 DEF Speaks, W, T, blocks

(* A line that is neither a call nor an end. *)
LEMMA QuietLine ==
  ASSUME NEW w \in Seq(WireLine), Len(w) = 1,
         \/ w[1].ev \notin {"tool_call", "finish", "message_delta", "block_start"}
         \/ w[1].ev = "block_start" /\ w[1].data[1] # "tool_use"
  PROVE  Quiet(w)
<1>1. ~IsCall(w[1]) /\ ~IsEnd(w[1])
  BY DEF IsCall, IsEnd
<1>. QED  BY <1>1, QuietFew

(* A line that is an end. *)
LEMMA EndLine ==
  ASSUME NEW w \in Seq(WireLine), Len(w) = 1, w[1].ev \in {"finish", "message_delta"}
  PROVE  CallFree(w) /\ Ends(w, w[1].data[1])
<1>1. ~IsCall(w[1]) /\ IsEnd(w[1])
  BY DEF IsCall, IsEnd
<1>2. 1 \in 1 .. Len(w) /\ \A i \in 1 .. Len(w) : i = 1
  OBVIOUS
<1>. QED  BY <1>1, <1>2 DEF CallFree, Ends

(* The quiet parts of the wire. *)
LEMMA QuietParts ==
  ASSUME NEW m \in MapperState, NEW text \in Seq(Word), NEW answer
  PROVE  /\ OpenedText(m) \in Seq(WireLine) /\ Quiet(OpenedText(m))
         /\ ClosedText(m) \in Seq(WireLine) /\ Quiet(ClosedText(m))
         /\ ThoughtLine(answer) \in Seq(WireLine) /\ Quiet(ThoughtLine(answer))
         /\ <<Line("block_delta", m.blockIndex, text)>> \in Seq(WireLine)
         /\ Quiet(<<Line("block_delta", m.blockIndex, text)>>)
         /\ <<Line("content", 0, text)>> \in Seq(WireLine) /\ Quiet(<<Line("content", 0, text)>>)
<1>. DEFINE none == <<>>
            title == <<"text">>
            ix == m.blockIndex
<1>1. ix \in Int /\ none \in Seq(Word) /\ title \in Seq(Word) /\ title[1] = "text"
  BY Words, WordsOfCode DEF MapperState
<1>2. <<>> \in Seq(WireLine) /\ Quiet(<<>>)
  BY QuietFew
<1>. DEFINE open == <<Line("block_start", ix, title)>>
            close == <<Line("block_stop", ix, none)>>
            thought == <<Line("thinking", 0, none)>>
            piece == <<Line("block_delta", ix, text)>>
            content == <<Line("content", 0, text)>>
<1>3. /\ OpenedText(m) = IF m.textBlockStarted THEN <<>> ELSE open
      /\ ClosedText(m) = IF m.textBlockStarted THEN close ELSE <<>>
      /\ ThoughtLine(answer) = IF answer.thought THEN thought ELSE <<>>
  BY DEF OpenedText, ClosedText, ThoughtLine
<1>. HIDE DEF none, title, ix
<1>4. open \in Seq(WireLine) /\ Quiet(open)
  <2>1. open \in Seq(WireLine) /\ Len(open) = 1 /\ open[1].ev = "block_start" /\ open[1].data = title
    BY <1>1, WordsOfCode, LineAlone
  <2>. HIDE DEF open
  <2>. QED  BY <1>1, <2>1, QuietLine
<1>5. close \in Seq(WireLine) /\ Quiet(close)
  <2>1. close \in Seq(WireLine) /\ Len(close) = 1 /\ close[1].ev = "block_stop"
    BY <1>1, WordsOfCode, LineAlone
  <2>. HIDE DEF close
  <2>. QED  BY <2>1, QuietLine
<1>6. thought \in Seq(WireLine) /\ Quiet(thought)
  <2>1. thought \in Seq(WireLine) /\ Len(thought) = 1 /\ thought[1].ev = "thinking"
    BY <1>1, WordsOfCode, LineAloneZero
  <2>. HIDE DEF thought
  <2>. QED  BY <2>1, QuietLine
<1>7. piece \in Seq(WireLine) /\ Quiet(piece)
  <2>1. piece \in Seq(WireLine) /\ Len(piece) = 1 /\ piece[1].ev = "block_delta"
    BY <1>1, WordsOfCode, LineAlone
  <2>. HIDE DEF piece
  <2>. QED  BY <2>1, QuietLine
<1>8. content \in Seq(WireLine) /\ Quiet(content)
  <2>1. content \in Seq(WireLine) /\ Len(content) = 1 /\ content[1].ev = "content"
    BY <1>1, WordsOfCode, LineAloneZero
  <2>. HIDE DEF content
  <2>. QED  BY <2>1, QuietLine
<1>. HIDE DEF open, close, thought
<1>. QED  BY <1>2, <1>3, <1>4, <1>5, <1>6, <1>7, <1>8 DEF ix

(* The parts that end an answer. *)
LEMMA EndParts ==
  ASSUME NEW word \in Word
  PROVE  /\ <<Line("finish", 0, <<word>>)>> \in Seq(WireLine)
         /\ CallFree(<<Line("finish", 0, <<word>>)>>) /\ Ends(<<Line("finish", 0, <<word>>)>>, word)
         /\ \A pair \in {<<"finish", "[DONE]">>, <<"message_delta", "message_stop">>} :
              LET w == <<Line(pair[1], 0, <<word>>), Line(pair[2], 0, <<>>)>>
              IN  w \in Seq(WireLine) /\ CallFree(w) /\ Ends(w, word)
<1>. DEFINE data == <<word>>
            none == <<>>
<1>1. data \in Seq(Word) /\ none \in Seq(Word) /\ data[1] = word
  BY Words
<1>. HIDE DEF data, none
<1>. DEFINE finish == <<Line("finish", 0, data)>>
<1>2. finish \in Seq(WireLine) /\ CallFree(finish) /\ Ends(finish, word)
  <2>1. finish \in Seq(WireLine) /\ Len(finish) = 1 /\ finish[1].ev = "finish" /\ finish[1].data = data
    BY <1>1, WordsOfCode, LineAloneZero
  <2>. HIDE DEF finish
  <2>2. finish[1].data[1] = word
    BY <1>1, <2>1
  <2>3. CallFree(finish) /\ Ends(finish, finish[1].data[1])
    BY <2>1, EndLine
  <2>. QED  BY <2>1, <2>2, <2>3
<1>3. ASSUME NEW a \in {"finish", "message_delta"}, NEW b \in {"[DONE]", "message_stop"}
      PROVE  LET w == <<Line(a, 0, data), Line(b, 0, none)>>
             IN  w \in Seq(WireLine) /\ CallFree(w) /\ Ends(w, word)
  <2>. DEFINE w == <<Line(a, 0, data), Line(b, 0, none)>>
  <2>1. a \in Word /\ b \in Word
    BY WordsOfCode
  <2>2. /\ Line(a, 0, data) \in WireLine /\ Line(b, 0, none) \in WireLine
    BY <1>1, <2>1, LineZero
  <2>3. w \in Seq(WireLine) /\ Len(w) = 2 /\ w[1] = Line(a, 0, data) /\ w[2] = Line(b, 0, none)
    BY <2>2
  <2>. HIDE DEF w
  <2>4. w[1].ev = a /\ w[1].data = data /\ w[2].ev = b
    BY <2>3, LineParts
  <2>5. ~IsCall(w[1]) /\ IsEnd(w[1]) /\ ~IsCall(w[2]) /\ ~IsEnd(w[2]) /\ w[1].data[1] = word
    BY <1>1, <2>4 DEF IsCall, IsEnd
  <2>6. 1 \in 1 .. Len(w) /\ \A i \in 1 .. Len(w) : i = 1 \/ i = 2
    BY <2>3
  <2>7. CallFree(w) /\ Ends(w, word)
    BY <2>5, <2>6 DEF CallFree, Ends
  <2>. QED  BY <2>3, <2>7 DEF w
<1>4. ASSUME NEW pair \in {<<"finish", "[DONE]">>, <<"message_delta", "message_stop">>}
      PROVE  pair[1] \in {"finish", "message_delta"} /\ pair[2] \in {"[DONE]", "message_stop"}
  BY <1>4
<1>. QED  BY <1>2, <1>3, <1>4 DEF data, none

(* A part that speaks and an end say it all. *)
LEMMA SpeaksAndEnds ==
  ASSUME NEW a \in Seq(WireLine), NEW b \in Seq(WireLine), NEW calls, NEW word
  PROVE  /\ a \o b \in Seq(WireLine)
         /\ Quiet(a) /\ Quiet(b) => Quiet(a \o b)
         /\ Speaks(a, calls) /\ CallFree(b) /\ Ends(b, word) => Says(a \o b, calls, word)
         /\ Speaks(a, calls) /\ Quiet(b) => Speaks(a \o b, calls)
         /\ Quiet(a) /\ Speaks(b, calls) => Speaks(a \o b, calls)
         /\ Quiet(a) /\ Says(b, calls, word) => Says(a \o b, calls, word)
         /\ Says(a, calls, word) /\ Quiet(b) => Says(a \o b, calls, word)
<1>. DEFINE c == a \o b
<1>1. c \in Seq(WireLine)
  BY Joined
<1>2. /\ NoEnd(a) /\ NoEnd(b) => NoEnd(c)
      /\ CallFree(a) /\ CallFree(b) => CallFree(c)
      /\ Ends(a, word) /\ NoEnd(b) => Ends(c, word)
      /\ NoEnd(a) /\ Ends(b, word) => Ends(c, word)
  BY EndsJoined
<1>3. CallFree(a) /\ Complete(b) /\ Tells(b, calls) => Complete(c) /\ Tells(c, calls)
  BY TellsAfter
<1>4. Complete(a) /\ Tells(a, calls) /\ CallFree(b) => Complete(c) /\ Tells(c, calls)
  BY TellsBefore
<1>. HIDE DEF c
<1>5. /\ Quiet(a) /\ Quiet(b) => Quiet(c)
      /\ Speaks(a, calls) /\ CallFree(b) /\ Ends(b, word) => Says(c, calls, word)
      /\ Speaks(a, calls) /\ Quiet(b) => Speaks(c, calls)
      /\ Quiet(a) /\ Speaks(b, calls) => Speaks(c, calls)
      /\ Quiet(a) /\ Says(b, calls, word) => Says(c, calls, word)
      /\ Says(a, calls, word) /\ Quiet(b) => Says(c, calls, word)
  BY <1>2, <1>3, <1>4 DEF Quiet, Speaks, Says
<1>. QED  BY <1>1, <1>5 DEF c

(* The reason on the wire fits the reason of the answer *)
Fits(word, answer) ==
  /\ answer.finish \in {"tool_calls", "length"} => word \notin {"stop", "end_turn"}
  /\ answer.finish = "stop" /\ answer.calls = <<>> => word \in {"stop", "end_turn"}

(* done tells of the calls of the answer, all of them and no other, and    *)
(* of its end.                                                             *)
LEMMA DoneSays ==
  ASSUME NEW answer \in Reply, NEW m \in MapperState, req.facade \in Facades
  PROVE  LET D == MapEvent(Done(answer), m).lines
         IN  /\ D \in Seq(WireLine)
             /\ \E word \in Word : Says(D, Spelled(answer.calls), word) /\ Fits(word, answer)
<1>. DEFINE calls == answer.calls
            T == Spelled(calls)
            step == MapEvent(Done(answer), m)
<1>1. /\ calls \in Seq(ToolCall) /\ answer.finish \in Word /\ <<>> \in Seq(Word)
  BY DEF Reply
<1>2. CASE req.facade = "anthropic"
  <2>. DEFINE word == mapGatewayFinishReasonToAnthropicStopReason(answer.finish)
              C == ClosedText(m)
              W == WholeBlocks(m, DoneBlocks(answer, m))
              E == MessageEnd(answer)
              lines == C \o W \o E
              n == [m EXCEPT !.blockIndex = @ + Len(DoneBlocks(answer, m)),
                             !.thinkingBlockEmitted = @ \/ answer.thought]
  <2>1. step = [lines |-> lines, mapper |-> n]
    <3>1. step = mapSseEventToAnthropic(Done(answer), m)
      BY <1>2, MapEventIs
    <3>2. mapSseEventToAnthropic(Done(answer), m) = [lines |-> lines, mapper |-> n]
      BY AnthropicEvents
    <3>. QED  BY <3>1, <3>2
  <2>2. step.lines = lines
    <3>. HIDE DEF step, lines, n
    <3>. QED  BY <2>1, StepParts
  <2>3. word \in Word /\ Fits(word, answer)
    BY StopWords DEF Fits, mapGatewayFinishReasonToAnthropicStopReason
  <2>4. E \in Seq(WireLine) /\ CallFree(E) /\ Ends(E, word)
    <3>. DEFINE pair == <<"message_delta", "message_stop">>
    <3>1. E = <<Line(pair[1], 0, <<word>>), Line(pair[2], 0, <<>>)>>
      BY DEF MessageEnd
    <3>2. pair \in {<<"finish", "[DONE]">>, <<"message_delta", "message_stop">>}
      OBVIOUS
    <3>. HIDE DEF E, pair, word
    <3>. QED  BY <2>3, <3>1, <3>2, EndParts
  <2>5. C \in Seq(WireLine) /\ Quiet(C)
    BY <1>1, QuietParts
  <2>6. W \in Seq(WireLine) /\ Speaks(W, T)
    BY BlocksSpeak
  <2>. HIDE DEF C, W, E, word, T
  <2>7. C \o W \in Seq(WireLine) /\ Speaks(C \o W, T)
    BY <2>5, <2>6, SpeaksAndEnds
  <2>8. lines \in Seq(WireLine) /\ Says(lines, T, word)
    BY <2>4, <2>7, SpeaksAndEnds
  <2>. HIDE DEF lines
  <2>. QED  BY <2>2, <2>3, <2>8 DEF step, T
<1>3. CASE req.facade = "openai"
  <2>. DEFINE word == resolveOpenAiFinishReason(Done(answer))
              W == CallWire(calls)
              E == << Line("finish", 0, <<word>>), Line("[DONE]", 0, <<>>) >>
              lines == W \o E
  <2>1. step = [lines |-> lines, mapper |-> m]
    BY <1>3, MapEventIs, OpenAiEvents
  <2>2. step.lines = lines
    <3>. HIDE DEF step, lines
    <3>. QED  BY <2>1, StepParts
  <2>3. word \in Word /\ Fits(word, answer)
    <3>1. Done(answer).finish = answer.finish /\ Done(answer).calls = answer.calls
      BY DEF Done
    <3>. QED  BY <3>1, StopWords DEF Fits, resolveOpenAiFinishReason
  <2>4. E \in Seq(WireLine) /\ CallFree(E) /\ Ends(E, word)
    <3>. DEFINE pair == <<"finish", "[DONE]">>
    <3>1. E = <<Line(pair[1], 0, <<word>>), Line(pair[2], 0, <<>>)>>
      OBVIOUS
    <3>2. pair \in {<<"finish", "[DONE]">>, <<"message_delta", "message_stop">>}
      OBVIOUS
    <3>. HIDE DEF E, pair, word
    <3>. QED  BY <2>3, <3>1, <3>2, EndParts
  <2>5. W \in Seq(WireLine) /\ Speaks(W, T)
    BY <1>1, CallWireSpeaks
  <2>. HIDE DEF W, E, word, T
  <2>6. lines \in Seq(WireLine) /\ Says(lines, T, word)
    BY <2>4, <2>5, SpeaksAndEnds
  <2>. HIDE DEF lines
  <2>. QED  BY <2>2, <2>3, <2>6 DEF step, T
<1>4. CASE req.facade = "native"
  <2>. DEFINE word == answer.finish
              W == CallWire(calls)
              C == ThoughtLine(answer)
              E == <<Line("finish", 0, <<word>>)>>
              lines == W \o C \o E
  <2>1. step = [lines |-> lines, mapper |-> m]
    BY <1>4, MapEventIs, NativeEvents
  <2>2. step.lines = lines
    <3>. HIDE DEF step, lines
    <3>. QED  BY <2>1, StepParts
  <2>3. word \in Word /\ Fits(word, answer)
    BY <1>1 DEF Fits
  <2>4. E \in Seq(WireLine) /\ CallFree(E) /\ Ends(E, word)
    BY <2>3, EndParts
  <2>5. W \in Seq(WireLine) /\ Speaks(W, T)
    BY <1>1, CallWireSpeaks
  <2>6. C \in Seq(WireLine) /\ Quiet(C)
    BY <1>1, QuietParts
  <2>. HIDE DEF C, W, E, word, T
  <2>7. W \o C \in Seq(WireLine) /\ Speaks(W \o C, T)
    BY <2>5, <2>6, SpeaksAndEnds
  <2>8. lines \in Seq(WireLine) /\ Says(lines, T, word)
    BY <2>4, <2>7, SpeaksAndEnds
  <2>. HIDE DEF lines
  <2>. QED  BY <2>2, <2>3, <2>8 DEF step, T
<1>. QED  BY <1>2, <1>3, <1>4, FacadeIs

(* So does the document. *)
LEMMA DocumentSays ==
  ASSUME NEW answer \in Reply, NEW thought \in BOOLEAN, NEW word \in Word
  PROVE  Says(Document(answer, thought, word), Spelled(answer.calls), word)
<1>. DEFINE calls == answer.calls
            T == Spelled(calls)
            A == IF thought THEN <<Line("thinking", 0, <<>>)>> ELSE <<>>
            B == IF answer.text # <<>> THEN <<Line("content", 0, answer.text)>> ELSE <<>>
            W == CallWire(calls)
            E == <<Line("finish", 0, <<word>>)>>
<1>1. /\ calls \in Seq(ToolCall) /\ answer.text \in Seq(Word)
  BY DEF Reply
<1>2. Document(answer, thought, word) = A \o B \o W \o E
  BY DEF Document, CallWire
<1>3. A \in Seq(WireLine) /\ Quiet(A)
  <2>. DEFINE none == <<>>
              line == <<Line("thinking", 0, none)>>
  <2>1. none \in Seq(Word)
    BY Words
  <2>2. A = IF thought THEN line ELSE <<>>
    OBVIOUS
  <2>. HIDE DEF none, A
  <2>3. line \in Seq(WireLine) /\ Len(line) = 1 /\ line[1].ev = "thinking"
    BY <2>1, WordsOfCode, LineAloneZero
  <2>. HIDE DEF line
  <2>4. Quiet(line)
    BY <2>3, QuietLine
  <2>. QED  BY <2>2, <2>3, <2>4, QuietFew
<1>4. B \in Seq(WireLine) /\ Quiet(B)
  <2>. DEFINE line == <<Line("content", 0, answer.text)>>
  <2>1. B = IF answer.text # <<>> THEN line ELSE <<>>
    OBVIOUS
  <2>. HIDE DEF B
  <2>2. line \in Seq(WireLine) /\ Len(line) = 1 /\ line[1].ev = "content"
    BY <1>1, WordsOfCode, LineAloneZero
  <2>. HIDE DEF line
  <2>3. Quiet(line)
    BY <2>2, QuietLine
  <2>. QED  BY <2>1, <2>2, <2>3, QuietFew
<1>5. W \in Seq(WireLine) /\ Speaks(W, T)
  BY <1>1, CallWireSpeaks
<1>6. E \in Seq(WireLine) /\ CallFree(E) /\ Ends(E, word)
  BY EndParts
<1>. HIDE DEF A, B, W, E, T
<1>7. A \o B \in Seq(WireLine) /\ Quiet(A \o B)
  BY <1>3, <1>4, SpeaksAndEnds
<1>8. A \o B \o W \in Seq(WireLine) /\ Speaks(A \o B \o W, T)
  BY <1>5, <1>7, SpeaksAndEnds
<1>9. Says(A \o B \o W \o E, T, word)
  BY <1>6, <1>8, SpeaksAndEnds
<1>. QED  BY <1>2, <1>9 DEF T

(* meta and text are quiet. *)
LEMMA EventsQuiet ==
  ASSUME NEW text \in Seq(Word), NEW m \in MapperState, req.facade \in Facades
  PROVE  /\ MapEvent(Meta, m).lines \in Seq(WireLine) /\ Quiet(MapEvent(Meta, m).lines)
         /\ MapEvent(Delta(text), m).lines \in Seq(WireLine) /\ Quiet(MapEvent(Delta(text), m).lines)
<1>. DEFINE none == <<>>
            meta == MapEvent(Meta, m)
            delta == MapEvent(Delta(text), m)
            content == <<Line("content", 0, text)>>
<1>1. none \in Seq(Word)
  BY Words
<1>2. ASSUME NEW ev \in {"message_start", "role", "meta"}
      PROVE  <<Line(ev, 0, none)>> \in Seq(WireLine) /\ Quiet(<<Line(ev, 0, none)>>)
  <2>. DEFINE line == <<Line(ev, 0, none)>>
  <2>1. ev \in Word
    BY WordsOfCode
  <2>. HIDE DEF none
  <2>2. line \in Seq(WireLine) /\ Len(line) = 1 /\ line[1].ev = ev
    BY <1>1, <2>1, LineAloneZero
  <2>. HIDE DEF line
  <2>3. line[1].ev \notin {"tool_call", "finish", "message_delta", "block_start"}
    BY <2>2
  <2>4. line \in Seq(WireLine) /\ Quiet(line)
    BY <2>2, <2>3, QuietLine
  <2>. QED  BY <2>4 DEF line
<1>3. content \in Seq(WireLine) /\ Quiet(content)
  BY QuietParts
<1>4. meta.lines = <<>> \/ \E ev \in {"message_start", "role", "meta"} : meta.lines = <<Line(ev, 0, none)>>
  <2>1. CASE req.facade = "anthropic"
    <3>. DEFINE lines == IF m.sent THEN <<>> ELSE <<Line("message_start", 0, none)>>
    <3>1. meta = mapSseEventToAnthropic(Meta, m)
      BY <2>1, MapEventIs
    <3>2. mapSseEventToAnthropic(Meta, m) = [lines |-> lines, mapper |-> [m EXCEPT !.sent = TRUE]]
      BY AnthropicEvents
    <3>3. meta.lines = lines
      <4>. HIDE DEF meta, lines
      <4>. QED  BY <3>1, <3>2, StepParts
    <3>. QED  BY <3>3
  <2>2. CASE req.facade = "openai"
    <3>. DEFINE lines == IF m.sent THEN <<>> ELSE <<Line("role", 0, none)>>
    <3>1. meta = mapSseEventToOpenAi(Meta, m)
      BY <2>2, MapEventIs
    <3>2. mapSseEventToOpenAi(Meta, m) = [lines |-> lines, mapper |-> [m EXCEPT !.sent = TRUE]]
      BY OpenAiEvents
    <3>3. meta.lines = lines
      <4>. HIDE DEF meta, lines
      <4>. QED  BY <3>1, <3>2, StepParts
    <3>. QED  BY <3>3
  <2>3. CASE req.facade = "native"
    <3>. DEFINE lines == <<Line("meta", 0, none)>>
    <3>1. meta = serialize(Meta, m)
      BY <2>3, MapEventIs
    <3>2. serialize(Meta, m) = [lines |-> lines, mapper |-> m]
      BY NativeEvents
    <3>3. meta.lines = lines
      <4>. HIDE DEF meta, lines
      <4>. QED  BY <3>1, <3>2, StepParts
    <3>. QED  BY <3>3
  <2>. QED  BY <2>1, <2>2, <2>3, FacadeIs
<1>5. delta.lines \in Seq(WireLine) /\ Quiet(delta.lines)
  <2>1. CASE req.facade = "anthropic"
    <3>. DEFINE piece == <<Line("block_delta", m.blockIndex, text)>>
                lines == OpenedText(m) \o piece
    <3>1. delta = [lines |-> lines, mapper |-> [m EXCEPT !.textBlockStarted = TRUE]]
      <4>1. delta = mapSseEventToAnthropic(Delta(text), m)
        BY <2>1, MapEventIs
      <4>2. mapSseEventToAnthropic(Delta(text), m) =
              [lines |-> lines, mapper |-> [m EXCEPT !.textBlockStarted = TRUE]]
        BY AnthropicEvents
      <4>. QED  BY <4>1, <4>2
    <3>2. /\ OpenedText(m) \in Seq(WireLine) /\ Quiet(OpenedText(m))
          /\ piece \in Seq(WireLine) /\ Quiet(piece)
      BY QuietParts
    <3>. HIDE DEF piece
    <3>3. lines \in Seq(WireLine) /\ Quiet(lines)
      BY <3>2, SpeaksAndEnds
    <3>. HIDE DEF lines, delta
    <3>4. delta.lines = lines
      BY <3>1, StepParts
    <3>. QED  BY <3>3, <3>4
  <2>2. CASE req.facade \in {"openai", "native"}
    <3>1. delta = [lines |-> content, mapper |-> m]
      <4>1. /\ req.facade = "openai" => delta = mapSseEventToOpenAi(Delta(text), m)
            /\ req.facade = "native" => delta = serialize(Delta(text), m)
        BY MapEventIs
      <4>2. mapSseEventToOpenAi(Delta(text), m) = [lines |-> content, mapper |-> m]
        BY OpenAiEvents
      <4>3. serialize(Delta(text), m) = [lines |-> content, mapper |-> m]
        BY NativeEvents
      <4>. QED  BY <2>2, <4>1, <4>2, <4>3
    <3>. HIDE DEF content, delta
    <3>2. delta.lines = content
      BY <3>1, StepParts
    <3>. QED  BY <1>3, <3>2
  <2>. QED  BY <2>1, <2>2, FacadeIs
<1>. HIDE DEF meta, delta, none
<1>6. meta.lines \in Seq(WireLine) /\ Quiet(meta.lines)
  <2>1. CASE meta.lines = <<>>
    <3>1. <<>> \in Seq(WireLine) /\ Quiet(<<>>)
      BY QuietFew
    <3>. QED  BY <2>1, <3>1
  <2>2. CASE \E ev \in {"message_start", "role", "meta"} : meta.lines = <<Line(ev, 0, none)>>
    <3>1. PICK ev \in {"message_start", "role", "meta"} : meta.lines = <<Line(ev, 0, none)>>
      BY <2>2
    <3>2. <<Line(ev, 0, none)>> \in Seq(WireLine) /\ Quiet(<<Line(ev, 0, none)>>)
      BY <1>2
    <3>. QED  BY <3>1, <3>2
  <2>. QED  BY <1>4, <2>1, <2>2
<1>. QED  BY <1>5, <1>6 DEF meta, delta

(* The calls the vendor made, as a client reads them *)
AsRead(ids) == [i \in DOMAIN ids |-> <<ids[i]>> \o FullArgs]

Made == AsRead(sdk.calls)

(* All of them, or of a Gemini stream the last ones *)
Matches(calls) ==
  /\ AttemptType # "google" \/ ~req.stream => calls = Made
  /\ \E n \in 0 .. Len(Made) : calls = SubSeq(Made, n + 1, Len(Made))

(* The wire holds an answer, with the calls of the vendor and its end *)
Delivered ==
  \E calls, word :
    /\ Says(res.lines, calls, word) /\ Matches(calls)
    /\ calls # <<>> => word \notin {"stop", "end_turn"}

(* No call and no end before done, and then all of the answer; a request   *)
(* that fails has no end on the wire                                       *)
CallsInv ==
  /\ pc \in {"live", "collect"} => Quiet(res.lines)
  /\ pc \in {"store", "ended"} /\ res.source = "live" => NoEnd(res.lines) \/ Delivered

(* A delivered answer is as the client should find it. *)
LEMMA DeliveredReaches ==
  ASSUME res.lines \in Seq(WireLine), NoEnd(res.lines) \/ Delivered
  PROVE  CallsReachClientOnce
<1>. DEFINE w == res.lines
<1>1. \A i : i \in FinishLines(w) <=> i \in 1 .. Len(w) /\ IsEnd(w[i])
  BY SeqIs DEF FinishLines, IsEnd
<1>2. CASE NoEnd(w)
  <2>1. FinishLines(w) = {}
    BY <1>1, <1>2 DEF NoEnd
  <2>. QED  BY <2>1 DEF CallsReachClientOnce
<1>3. CASE Delivered
  <2>1. PICK calls, word : /\ Says(w, calls, word) /\ Matches(calls)
                           /\ calls # <<>> => word \notin {"stop", "end_turn"}
    BY <1>3 DEF Delivered
  <2>2. Tells(w, calls)
    BY <2>1 DEF Says
  <2>3. \A i \in FinishLines(w) : w[i].data[1] = word
    BY <1>1, <2>1 DEF Says, Ends
  <2>4. CallLines(w) # {} => calls # <<>>
    <3>. SUFFICES ASSUME NEW l \in CallLines(w) PROVE calls # <<>>
      OBVIOUS
    <3>1. PICK i \in DOMAIN calls : TRUE
      BY <2>2 DEF Tells
    <3>. QED  BY <3>1
  <2>5. AttemptType # "google" \/ ~req.stream => Tells(w, Made)
    BY <2>1, <2>2 DEF Matches
  <2>6. \E n \in 0 .. Len(Made) : Tells(w, SubSeq(Made, n + 1, Len(Made)))
    BY <2>1, <2>2 DEF Matches
  <2>7. CallLines(w) # {} => \A i \in FinishLines(w) : w[i].data[1] \notin {"stop", "end_turn"}
    BY <2>1, <2>3, <2>4
  <2>. QED  BY <2>5, <2>6, <2>7 DEF CallsReachClientOnce, Made, AsRead
<1>. QED  BY <1>2, <1>3

(* The calls of the vendor as the whole answer has them. *)
LEMMA AllCallsSpelled ==
  ASSUME NEW ids \in Seq(Word)
  PROVE  Spelled(AllCalls(ids)) = AsRead(ids)
<1>1. \A i \in DOMAIN ids : AllCalls(ids)[i] = [id |-> ids[i], args |-> FullArgs]
  BY DEF AllCalls
<1>2. DOMAIN AllCalls(ids) = DOMAIN ids
  BY DEF AllCalls
<1>3. \A i \in DOMAIN ids : <<AllCalls(ids)[i].id>> \o AllCalls(ids)[i].args = <<ids[i]>> \o FullArgs
  <2>. SUFFICES ASSUME NEW i \in DOMAIN ids
                PROVE  <<AllCalls(ids)[i].id>> \o AllCalls(ids)[i].args = <<ids[i]>> \o FullArgs
    OBVIOUS
  <2>. DEFINE call == AllCalls(ids)[i]
              x == ids[i]
  <2>1. call = [id |-> x, args |-> FullArgs]
    BY <1>1
  <2>. HIDE DEF call, x
  <2>2. call.id = x /\ call.args = FullArgs
    BY <2>1
  <2>3. <<call.id>> \o call.args = <<x>> \o FullArgs
    BY <2>2
  <2>. QED  BY <2>3 DEF call, x
<1>. QED  BY <1>2, <1>3 DEF Spelled, AsRead

(* The calls of the vendor, one by one. *)
LEMMA AsReadIs ==
  ASSUME NEW ids \in Seq(Word)
  PROVE  /\ AsRead(ids) \in Seq(Seq(Word)) /\ Len(AsRead(ids)) = Len(ids) /\ Len(ids) \in Nat
         /\ \A i \in 1 .. Len(ids) : AsRead(ids)[i] = <<ids[i]>> \o FullArgs
<1>. DEFINE n == Len(ids)
<1>1. n \in Nat /\ DOMAIN ids = 1 .. n /\ \A i \in 1 .. n : ids[i] \in Word
  BY SeqIs
<1>2. \A i \in 1 .. n : <<ids[i]>> \o FullArgs \in Seq(Word)
  <2>1. FullArgs \in Seq(Word)
    BY WordsOfCode DEF FullArgs
  <2>. SUFFICES ASSUME NEW i \in 1 .. n PROVE <<ids[i]>> \o FullArgs \in Seq(Word)
    OBVIOUS
  <2>2. <<ids[i]>> \in Seq(Word)
    BY <1>1
  <2>. QED  BY <2>1, <2>2
<1>3. AsRead(ids) \in [1 .. n -> Seq(Word)] /\ \A i \in 1 .. n : AsRead(ids)[i] = <<ids[i]>> \o FullArgs
  BY <1>1, <1>2 DEF AsRead
<1>. HIDE DEF n
<1>4. AsRead(ids) \in Seq(Seq(Word)) /\ Len(AsRead(ids)) = n
  BY <1>1, <1>3, SeqOf
<1>. QED  BY <1>1, <1>3, <1>4 DEF n

(* Made as it is matches. *)
LEMMA AllMatch ==
  ASSUME sdk.calls \in Seq(Word)
  PROVE  Matches(Made)
<1>1. Made \in Seq(Seq(Word)) /\ Len(Made) \in Nat
  BY AsReadIs DEF Made
<1>2. Made = SubSeq(Made, 0 + 1, Len(Made))
  BY <1>1, SubSeqFull
<1>3. 0 \in 0 .. Len(Made)
  BY <1>1
<1>. QED  BY <1>2, <1>3 DEF Matches

(* The calls an adapter has at the end match. *)
LEMMA FinalCallsMatch ==
  ASSUME BaseInv, pc \in {"collect", "store"}
  PROVE  Matches(Spelled(getFinalToolCalls))
<1>1. sdk.calls \in Seq(Word)
  BY DEF BaseInv, FacadeTypeOK
<1>2. CASE AttemptType # "google"
  <2>1. Spelled(getFinalToolCalls) = Made
    BY <1>1, <1>2, FinalCalls, AllCallsSpelled DEF Made
  <2>. QED  BY <1>1, <2>1, AllMatch
<1>3. CASE AttemptType = "google"
  <2>. DEFINE L == Len(Made)
  <2>1. req.stream
    BY DEF BaseInv, PhaseInv
  <2>2. Made \in Seq(Seq(Word)) /\ L \in Nat /\ L = Len(sdk.calls)
    BY <1>1, AsReadIs DEF Made
  <2>. HIDE DEF L
  <2>3. \E n \in 0 .. L : Spelled(getFinalToolCalls) = SubSeq(Made, n + 1, L)
    <3>1. CASE getFinalToolCalls = <<>>
      <4>1. Spelled(getFinalToolCalls) = <<>>
        BY <3>1 DEF Spelled
      <4>2. SubSeq(Made, L + 1, L) = <<>>
        BY <2>2
      <4>. QED  BY <2>2, <4>1, <4>2
    <3>2. CASE /\ L > 0
               /\ getFinalToolCalls = << [id |-> sdk.calls[L], args |-> FullArgs] >>
      <4>. DEFINE call == [id |-> sdk.calls[L], args |-> FullArgs]
                  word == <<sdk.calls[L]>> \o FullArgs
      <4>1. <<call.id>> \o call.args = word
        OBVIOUS
      <4>. HIDE DEF call, word
      <4>2. Spelled(<<call>>) = <<word>>
        <5>1. DOMAIN <<call>> = {1} /\ <<call>>[1] = call
          OBVIOUS
        <5>2. Spelled(<<call>>) = [i \in {1} |-> word]
          BY <4>1, <5>1 DEF Spelled
        <5>. QED  BY <5>2
      <4>3. Made[L] = word
        <5>1. L \in 1 .. Len(sdk.calls)
          BY <2>2, <3>2
        <5>2. AsRead(sdk.calls)[L] = <<sdk.calls[L]>> \o FullArgs
          BY <1>1, <5>1, AsReadIs
        <5>. QED  BY <5>2 DEF Made, word
      <4>4. (L - 1) + 1 = L /\ L - 1 \in 0 .. L
        BY <2>2, <3>2
      <4>5. SubSeq(Made, L, L) = <<Made[L]>>
        <5>1. L \in 1 .. Len(Made) /\ L \in L .. Len(Made)
          BY <2>2, <3>2 DEF L
        <5>2. SubSeq(Made, L, L) = <<Made[L]>> \o SubSeq(Made, L + 1, L)
          BY <2>2, <5>1, SubSeqRecursiveFirst
        <5>3. SubSeq(Made, L + 1, L) = <<>>
          BY <2>2
        <5>4. <<Made[L]>> \in Seq(Seq(Word))
          BY <2>2, <5>1
        <5>. QED  BY <5>2, <5>3, <5>4, ConcatEmptySeq
      <4>. QED  BY <3>2, <4>2, <4>3, <4>4, <4>5 DEF call
    <3>. QED  BY <1>3, <2>2, <3>1, <3>2, FinalCalls
  <2>. QED  BY <1>3, <2>1, <2>3 DEF Matches, L
<1>. QED  BY <1>2, <1>3

(* Quiet parts stay quiet. *)
LEMMA QuietJoined ==
  ASSUME NEW a \in Seq(WireLine), NEW b \in Seq(WireLine), Quiet(b)
  PROVE  (Quiet(a) => Quiet(a \o b)) /\ (NoEnd(a) => NoEnd(a \o b))
<1>1. ASSUME NEW word
      PROVE  /\ NoEnd(a) /\ NoEnd(b) => NoEnd(a \o b)
             /\ CallFree(a) /\ CallFree(b) => CallFree(a \o b)
  BY EndsJoined
<1>2. /\ NoEnd(a) /\ NoEnd(b) => NoEnd(a \o b)
      /\ CallFree(a) /\ CallFree(b) => CallFree(a \o b)
  BY <1>1, Zenon
<1>. QED  BY <1>2 DEF Quiet

(* A step that leaves the wire alone. *)
LEMMA CallsFrame ==
  ASSUME CallsInv, res'.lines = res.lines, res'.source = res.source, req' = req,
         UNCHANGED <<model, attempt, sdk>>, pc' = pc \/ (pc = "store" /\ pc' = "ended")
  PROVE  CallsInv'
<1>1. Made' = Made /\ AttemptType' = AttemptType
  BY DEF Made, AttemptType
<1>2. \A calls : Matches(calls)' <=> Matches(calls)
  BY <1>1 DEF Matches
<1>3. Delivered' <=> Delivered
  BY <1>1, <1>2 DEF Delivered, Matches
<1>. QED  BY <1>3 DEF CallsInv

(* Quiet lines are added, by meta or by text of this call or a late one. *)
LEMMA CallsQuiet ==
  ASSUME BaseInv, CallsInv, pc \in {"live", "collect", "store"}, pc' = pc, req' = req,
         UNCHANGED <<model, attempt>>, sdk'.calls = sdk.calls, res'.source = res.source,
         NEW added \in Seq(WireLine), Quiet(added), res'.lines = res.lines \o added
  PROVE  CallsInv'
<1>1. res.lines \in Seq(WireLine)
  BY DEF BaseInv, FacadeTypeOK, IsResponse
<1>2. CASE pc \in {"live", "collect"}
  <2>1. Quiet(res'.lines)
    BY <1>1, <1>2, QuietJoined DEF CallsInv
  <2>. QED  BY <1>2, <2>1 DEF CallsInv
<1>3. CASE pc = "store"
  <2>1. res.source = "live"
    BY <1>3 DEF BaseInv, PhaseInv
  <2>2. CASE NoEnd(res.lines)
    <3>1. NoEnd(res'.lines)
      BY <1>1, <2>2, QuietJoined
    <3>. QED  BY <1>3, <3>1 DEF CallsInv
  <2>3. CASE Delivered
    <3>1. PICK calls, word : /\ Says(res.lines, calls, word) /\ Matches(calls)
                             /\ calls # <<>> => word \notin {"stop", "end_turn"}
      BY <2>3 DEF Delivered
    <3>2. Says(res'.lines, calls, word)
      BY <1>1, <3>1, SpeaksAndEnds
    <3>3. Made' = Made /\ AttemptType' = AttemptType
      BY DEF Made, AttemptType
    <3>4. Matches(calls)'
      BY <3>1, <3>3 DEF Matches
    <3>5. Delivered'
      BY <3>1, <3>2, <3>4 DEF Delivered, Matches
    <3>. QED  BY <1>3, <3>5 DEF CallsInv
  <2>. QED  BY <1>3, <2>1, <2>2, <2>3 DEF CallsInv
<1>. QED  BY <1>2, <1>3

(* A piece of text. *)
LEMMA CallsDelta ==
  ASSUME BaseInv, CallsInv, pc \in {"live", "collect", "store", "ended"}, pc' = pc, req' = req,
         UNCHANGED <<model, attempt>>, sdk'.calls = sdk.calls, res'.source = res.source,
         NEW text \in Seq(Word), pc = "ended" => sdk' = sdk,
         res.ended => res'.lines = res.lines,
         ~res.ended => res'.lines = res.lines \o MapEvent(Delta(text), mapper).lines
  PROVE  CallsInv'
<1>1. /\ mapper \in MapperState /\ req.facade \in Facades
      /\ pc \in {"live", "collect", "store"} => ~res.ended
      /\ pc = "ended" => res.ended
  BY DEF BaseInv, FacadeTypeOK, PhaseInv
<1>2. CASE pc = "ended"
  BY <1>1, <1>2, CallsFrame
<1>3. CASE pc \in {"live", "collect", "store"}
  <2>. DEFINE added == MapEvent(Delta(text), mapper).lines
  <2>1. added \in Seq(WireLine) /\ Quiet(added)
    BY <1>1, EventsQuiet
  <2>2. res'.lines = res.lines \o added
    BY <1>1, <1>3
  <2>. HIDE DEF added
  <2>. QED  BY <1>3, <2>1, <2>2, CallsQuiet
<1>. QED  BY <1>2, <1>3

(* meta *)
LEMMA CallsOpenStream == ASSUME BaseInv, CallsInv, OpenStream PROVE CallsInv'
<1>1. /\ pc = "live" /\ pc' = pc /\ req' = req /\ UNCHANGED <<model, attempt>>
      /\ sdk' = [sdk EXCEPT !.open = TRUE]
      /\ IF res.metaEmitted THEN UNCHANGED <<mapper, res>> ELSE Emit(Meta)
  BY DEF OpenStream, Live
<1>2. /\ FacadeTypeOK /\ PhaseInv /\ req.facade \in Facades /\ mapper \in MapperState
      /\ IsResponse(res) /\ res.lines \in Seq(WireLine) /\ ~res.ended /\ sdk \in SdkState
  BY <1>1, LiveFacts DEF IsResponse, PhaseInv
<1>3. sdk'.calls = sdk.calls
  BY <1>1, <1>2 DEF SdkState
<1>4. CASE res.metaEmitted
  <2>1. Quiet(res.lines) /\ res' = res
    BY <1>1, <1>4 DEF CallsInv
  <2>. QED  BY <1>1, <2>1 DEF CallsInv
<1>5. CASE ~res.metaEmitted
  <2>1. NoAnswer \in Reply /\ <<>> \in Seq(Word)
    BY WordsOfCode DEF NoAnswer, Reply, None
  <2>2. Mapped(MapEvent(Meta, mapper))
    BY <1>2, <2>1, MapEventTyped
  <2>. DEFINE added == MapEvent(Meta, mapper).lines
  <2>3. added \in Seq(WireLine) /\ Quiet(added)
    BY <1>2, <2>1, EventsQuiet
  <2>4. res'.lines = res.lines \o added /\ res'.source = res.source
    BY <1>1, <1>2, <1>5, <2>2, EmitIs
  <2>. HIDE DEF added
  <2>. QED  BY <1>1, <1>3, <2>3, <2>4, CallsQuiet
<1>. QED  BY <1>4, <1>5

(* done *)
LEMMA CallsEmitDone == ASSUME BaseInv, CallsInv, EmitDone PROVE CallsInv'
<1>. DEFINE added == MapEvent(Done(StreamAnswer), mapper).lines
<1>1. /\ pc = "collect" /\ pc' = "store" /\ req' = req /\ StreamAnswer \in Reply /\ sdk' = sdk
      /\ UNCHANGED <<model, attempt>> /\ res'.lines = res.lines \o added
  BY DoneIs
<1>2. /\ mapper \in MapperState /\ res.lines \in Seq(WireLine) /\ req.facade \in Facades
  BY <1>1 DEF BaseInv, FacadeTypeOK, IsResponse, PhaseInv
<1>3. Quiet(res.lines)
  BY <1>1 DEF CallsInv
<1>. PICK calls : calls = Spelled(getFinalToolCalls)
  OBVIOUS
<1>4. /\ StreamAnswer.calls = getFinalToolCalls
      /\ StreamAnswer.calls # <<>> => StreamAnswer.finish \in {"tool_calls", "length"}
  BY <1>1, StreamAnswerIs
<1>5. /\ added \in Seq(WireLine)
      /\ \E word \in Word : Says(added, calls, word) /\ Fits(word, StreamAnswer)
  BY <1>1, <1>2, <1>4, DoneSays
<1>6. Matches(calls)
  BY <1>1, FinalCallsMatch
<1>7. calls # <<>> => StreamAnswer.calls # <<>>
  BY <1>4 DEF Spelled
<1>. HIDE DEF added
<1>8. PICK word \in Word : Says(added, calls, word) /\ Fits(word, StreamAnswer)
  BY <1>5
<1>9. Says(res'.lines, calls, word)
  BY <1>1, <1>2, <1>3, <1>5, <1>8, SpeaksAndEnds
<1>10. calls # <<>> => word \notin {"stop", "end_turn"}
  BY <1>4, <1>7, <1>8 DEF Fits
<1>11. Made' = Made /\ AttemptType' = AttemptType
  BY <1>1 DEF Made, AttemptType
<1>12. Matches(calls)'
  BY <1>1, <1>6, <1>11 DEF Matches
<1>13. Delivered'
  BY <1>9, <1>10, <1>12 DEF Delivered, Matches
<1>. QED  BY <1>1, <1>13 DEF CallsInv

(* The document. *)
LEMMA CallsCompleteChat == ASSUME BaseInv, CallsInv, CompleteChat PROVE CallsInv'
<1>1. /\ pc' = "ended" /\ ~req.stream /\ req.facade \in Facades
      /\ UNCHANGED <<model, req, attempt>> /\ sdk' \in SdkState
  BY CompleteIs
<1>2. PICK answer \in Reply :
        /\ answer.calls = AllCalls(sdk'.calls)
        /\ answer.calls # <<>> => answer.finish \in {"tool_calls", "length"}
        /\ res'.lines = JsonLines(answer)
  BY CompleteIs
<1>3. PICK thought \in BOOLEAN, word \in Word :
        /\ JsonLines(answer) = Document(answer, thought, word)
        /\ answer.finish \in {"tool_calls", "length"} => word \notin {"stop", "end_turn"}
  BY <1>1, JsonLinesIs
<1>. PICK calls : calls = Spelled(answer.calls)
  OBVIOUS
<1>4. Says(res'.lines, calls, word)
  BY <1>2, <1>3, DocumentSays
<1>5. sdk'.calls \in Seq(Word)
  BY <1>1 DEF SdkState
<1>6. calls = Made'
  BY <1>2, <1>5, AllCallsSpelled DEF Made
<1>7. calls # <<>> => answer.calls # <<>>
  BY DEF Spelled
<1>8. calls \in Seq(Seq(Word)) /\ Len(calls) \in Nat
  BY <1>5, <1>6, AsReadIs DEF Made
<1>9. calls = SubSeq(calls, 0 + 1, Len(calls)) /\ 0 \in 0 .. Len(calls)
  BY <1>8, SubSeqFull
<1>10. Matches(calls)'
  BY <1>6, <1>9 DEF Matches
<1>11. Delivered'
  BY <1>2, <1>3, <1>4, <1>7, <1>10 DEF Delivered, Matches
<1>. QED  BY <1>1, <1>11 DEF CallsInv

(* An error has no end. *)
LEMMA ErrorHasNoEnd ==
  ASSUME req.facade \in Facades, NEW status \in Nat, NEW code \in Word
  PROVE  NoEnd(<<Envelope(status, code)>>)
<1>1. Envelope(status, code).ev = "error"
  BY FacadeIs DEF Envelope, Line
<1>2. Len(<<Envelope(status, code)>>) = 1
  OBVIOUS
<1>3. \A i \in 1 .. 1 : <<Envelope(status, code)>>[i] = Envelope(status, code)
  OBVIOUS
<1>. HIDE DEF Envelope
<1>. QED  BY <1>1, <1>2, <1>3 DEF NoEnd, IsEnd

(* A call that fails. *)
LEMMA CallsFail ==
  ASSUME BaseInv, CallsInv, NEW abandoned \in BOOLEAN, CallFails(abandoned)
  PROVE  CallsInv'
<1>1. /\ pc = "live" /\ UNCHANGED <<req, mapper>>
      /\ \/ UNCHANGED <<pc, res>>
         \/ \E status \in Nat, code \in Word : Reject(status, code)
  BY FailIs
<1>2. Quiet(res.lines)
  BY <1>1 DEF CallsInv
<1>3. CASE UNCHANGED <<pc, res>>
  BY <1>1, <1>2, <1>3 DEF CallsInv
<1>4. CASE \E status \in Nat, code \in Word : Reject(status, code)
  <2>1. PICK status \in Nat, code \in Word : Reject(status, code)
    BY <1>4
  <2>2. req.facade \in Facades /\ IsResponse(res)
    BY <1>1, LiveFacts
  <2>3. /\ pc' = "ended"
        /\ res'.lines = res.lines \/ res'.lines = <<Envelope(status, code)>>
    BY <2>1, <2>2, RejectIs
  <2>4. NoEnd(res'.lines)
    BY <1>2, <2>2, <2>3, ErrorHasNoEnd DEF Quiet
  <2>. QED  BY <2>3, <2>4 DEF CallsInv
<1>. QED  BY <1>1, <1>3, <1>4

(* Every step keeps it. *)
LEMMA CallsNext == ASSUME BaseInv, CallsInv, [Next]_vars PROVE CallsInv'
<1>1. CASE Arrive \/ Close
  <2>1. pc' \in {"auth", "idle"}
    BY <1>1 DEF Arrive, Close
  <2>. QED  BY <2>1 DEF CallsInv
<1>2. CASE Authenticate \/ RateLimit \/ ValidateForStreaming \/ MapRequest \/ Prepare
  <2>1. /\ pc \in Early
        /\ \/ pc' \in Early
           \/ \E status \in Nat, code \in Word : Reject(status, code)
    BY <1>2, EarlyStep
  <2>2. CASE pc' \in Early
    BY <2>2 DEF CallsInv, Early
  <2>3. CASE \E status \in Nat, code \in Word : Reject(status, code)
    <3>1. PICK status \in Nat, code \in Word : Reject(status, code)
      BY <2>3
    <3>2. /\ res = NewResponse /\ req.facade \in Facades
      BY <2>1 DEF BaseInv, PhaseInv, Early
    <3>3. pc' = "ended" /\ res'.source = None
      BY <3>1, <3>2, FreshTyped, RejectIs
    <3>. QED  BY <3>3 DEF CallsInv, None
  <2>. QED  BY <2>1, <2>2, <2>3
<1>3. CASE Replay
  <2>1. pc' = "ended" /\ res'.source = "cache"
    BY <1>3, ReplayIs
  <2>. QED  BY <2>1 DEF CallsInv
<1>4. CASE Miss
  <2>1. /\ pc = "lookup" /\ pc' = "live"
        /\ res' = [res EXCEPT !.status = IF req.stream THEN 200 ELSE 0, !.source = "live"]
    BY <1>4 DEF Miss
  <2>2. res = NewResponse
    BY <2>1 DEF BaseInv, PhaseInv, Early
  <2>3. res'.lines = <<>>
    BY <2>1, <2>2 DEF NewResponse
  <2>. QED  BY <2>1, <2>3, QuietFew DEF CallsInv
<1>5. CASE OpenStream
  BY <1>5, CallsOpenStream
<1>6. CASE SdkText
  <2>1. /\ pc = "live" /\ pc' = pc /\ req' = req /\ Emit(Delta(Text(1))) /\ UNCHANGED <<model, attempt>>
        /\ sdk' = [sdk EXCEPT !.text = @ + 1]
    BY <1>6 DEF SdkText, Live
  <2>2. /\ FacadeTypeOK /\ req.facade \in Facades /\ res.source = "live" /\ sdk \in SdkState
    BY <2>1, LiveFacts
  <2>3. Text(1) \in Seq(Word) /\ sdk'.calls = sdk.calls
    BY <2>1, <2>2, TextTyped DEF SdkState
  <2>. QED  BY <2>1, <2>2, <2>3, DeltaIs, CallsDelta
<1>7. CASE SdkThought \/ SdkCall \/ SdkEnds
  <2>1. /\ pc = "live" /\ pc' \in {"live", "collect"} /\ res' = res
    BY <1>7 DEF SdkThought, SdkCall, SdkEnds, Live
  <2>. QED  BY <2>1 DEF CallsInv
<1>8. CASE EmitDone
  BY <1>8, CallsEmitDone
<1>9. CASE StoreAndEnd
  <2>1. /\ pc = "store" /\ pc' = "ended" /\ req' = req /\ res' = [res EXCEPT !.ended = TRUE]
        /\ UNCHANGED <<model, attempt, sdk>>
    BY <1>9 DEF StoreAndEnd
  <2>2. res'.lines = res.lines /\ res'.source = res.source
    BY <2>1 DEF BaseInv, FacadeTypeOK, IsResponse
  <2>. QED  BY <2>1, <2>2, CallsFrame
<1>10. CASE CompleteChat
  BY <1>10, CallsCompleteChat
<1>11. CASE Fail \/ Abandon
  <2>1. PICK abandoned \in BOOLEAN : CallFails(abandoned)
    BY <1>11 DEF Fail, Abandon
  <2>. QED  BY <2>1, CallsFail
<1>12. CASE LateDelta
  BY <1>12, LateIs, CallsDelta
<1>13. CASE Expire
  <2>1. pc = "idle" /\ pc' = pc
    BY <1>13 DEF Expire
  <2>. QED  BY <2>1 DEF CallsInv
<1>14. CASE Finished \/ UNCHANGED vars
  <2>1. UNCHANGED <<model, attempt, sdk, req, res, pc>>
    BY <1>14 DEF Finished, vars
  <2>. QED  BY <2>1, CallsFrame
<1>. QED
  BY <1>1, <1>2, <1>3, <1>4, <1>5, <1>6, <1>7, <1>8, <1>9, <1>10, <1>11, <1>12, <1>13, <1>14
  DEF Next

(* Every tool call the vendor made reaches the client of a live answer     *)
(* once, with all its arguments and in order (of a Gemini stream the last  *)
(* ones), and never under a normal end of turn, for any number of calls,   *)
(* attempts and requests, in every facade and form.                        *)
THEOREM CallsDelivered == Spec => []CallsReachClientOnce
<1>1. Init => BaseInv /\ CallsInv
  <2>1. Init => CallsInv
    BY DEF Init, CallsInv
  <2>. QED  BY <2>1, BaseInit
<1>2. (BaseInv /\ CallsInv) /\ [Next]_vars => (BaseInv /\ CallsInv)'
  BY BaseNext, CallsNext
<1>3. BaseInv /\ CallsInv => CallsReachClientOnce
  <2>. SUFFICES ASSUME BaseInv, CallsInv, res.source = "live"
                PROVE  CallsReachClientOnce
    BY DEF CallsReachClientOnce
  <2>1. res.lines \in Seq(WireLine)
    BY DEF BaseInv, FacadeTypeOK, IsResponse
  <2>2. pc \in {"live", "collect", "store", "ended"}
    BY FreshTyped DEF BaseInv, PhaseInv, None
  <2>3. NoEnd(res.lines) \/ Delivered
    BY <2>2 DEF CallsInv, Quiet
  <2>. QED  BY <2>1, <2>3, DeliveredReaches
<1>. QED  BY <1>1, <1>2, <1>3, PTL DEF Spec

-----------------------------------------------------------------------------
(* What a client reads *)

(* The text of a line *)
Said(line) == IF line.ev \in {"content", "block_delta"} THEN line.data ELSE <<>>

(* text is put together line by line *)
PutTogether(w, text) ==
  /\ text[0] = <<>>
  /\ \A n \in 1 .. Len(w) : text[n] = text[n - 1] \o Said(w[n])

(* The text of a line is a text. *)
LEMMA SaidTyped ==
  ASSUME NEW w \in Seq(WireLine)
  PROVE  \A n \in 1 .. Len(w) : Said(w[n]) \in Seq(Word)
<1>. SUFFICES ASSUME NEW n \in 1 .. Len(w) PROVE Said(w[n]) \in Seq(Word)
  OBVIOUS
<1>1. w[n] \in WireLine
  OBVIOUS
<1>2. w[n].data \in Seq(Word) /\ <<>> \in Seq(Word)
  BY <1>1 DEF WireLine
<1>. QED  BY <1>2 DEF Said

(* The recursion over the lines is well founded. *)
LEMMA TextExists ==
  ASSUME NEW w \in Seq(WireLine)
  PROVE  \E text : PutTogether(w, text) /\ TextOf(w) = text[Len(w)]
<1>. DEFINE L == Len(w)
            R(n, f) == f = [i \in 0 .. n |-> IF i = 0 THEN <<>> ELSE f[i - 1] \o Said(w[i])]
            S == {n \in Nat : \E f : R(n, f)}
<1>0. L \in Nat
  BY SeqIs
<1>1. 0 \in S
  <2>1. R(0, [i \in 0 .. 0 |-> <<>>])
    OBVIOUS
  <2>. QED  BY <2>1
<1>2. ASSUME NEW n \in 0 .. L - 1, n \in S PROVE n + 1 \in S
  <2>1. PICK f : R(n, f)
    BY <1>2
  <2>. DEFINE g == [i \in 0 .. n + 1 |-> IF i = n + 1 THEN f[n] \o Said(w[n + 1]) ELSE f[i]]
  <2>2. \A i \in 0 .. n : f[i] = IF i = 0 THEN <<>> ELSE f[i - 1] \o Said(w[i])
    BY <2>1
  <2>3. \A i \in 0 .. n + 1 : g[i] = IF i = 0 THEN <<>> ELSE g[i - 1] \o Said(w[i])
    BY <2>2
  <2>4. R(n + 1, g)
    BY <2>3
  <2>. HIDE DEF g
  <2>. QED  BY <2>4
<1>3. L \in S
  <2>. HIDE DEF S, L
  <2>1. 0 .. L \subseteq S
    BY <1>0, <1>1, <1>2, Induction
  <2>. QED  BY <1>0, <2>1
<1>4. PICK f : R(L, f)
  BY <1>3
<1>. DEFINE F == CHOOSE g : g = [n \in 0 .. L |-> IF n = 0 THEN <<>>
                   ELSE g[n - 1] \o (IF w[n].ev \in {"content", "block_delta"} THEN w[n].data ELSE <<>>)]
<1>5. F = [i \in 0 .. L |-> IF i = 0 THEN <<>> ELSE F[i - 1] \o Said(w[i])]
  BY <1>4 DEF Said
<1>6. TextOf(w) = F[L]
  BY DEF TextOf
<1>. HIDE DEF F
<1>7. F[0] = <<>> /\ \A i \in 1 .. L : F[i] = F[i - 1] \o Said(w[i])
  BY <1>0, <1>5
<1>. QED  BY <1>6, <1>7 DEF PutTogether

(* There is one way to put a text together. *)
LEMMA TextIs ==
  ASSUME NEW w \in Seq(WireLine), NEW text, PutTogether(w, text)
  PROVE  TextOf(w) = text[Len(w)] /\ \A n \in 0 .. Len(w) : text[n] \in Seq(Word)
<1>1. PICK f : PutTogether(w, f) /\ TextOf(w) = f[Len(w)]
  BY TextExists
<1>. DEFINE S == {n \in Nat : f[n] = text[n] /\ text[n] \in Seq(Word)}
<1>2. 0 \in S
  <2>1. f[0] = text[0] /\ text[0] = <<>> /\ <<>> \in Seq(Word)
    BY <1>1 DEF PutTogether
  <2>2. text[0] \in Seq(Word)
    BY <2>1
  <2>. QED  BY <2>1, <2>2
<1>3. ASSUME NEW n \in 0 .. Len(w) - 1, n \in S PROVE n + 1 \in S
  <2>1. n + 1 \in 1 .. Len(w) /\ (n + 1) - 1 = n /\ n + 1 \in Nat
    BY SeqIs
  <2>2. f[n + 1] = f[n] \o Said(w[n + 1]) /\ text[n + 1] = text[n] \o Said(w[n + 1])
    BY <1>1, <2>1 DEF PutTogether
  <2>3. f[n] = text[n] /\ text[n] \in Seq(Word) /\ Said(w[n + 1]) \in Seq(Word)
    BY <1>3, <2>1, SaidTyped
  <2>4. f[n + 1] = text[n + 1] /\ text[n + 1] \in Seq(Word)
    BY <2>2, <2>3, Joined
  <2>. QED  BY <2>1, <2>4
<1>4. Len(w) \in Nat
  BY SeqIs
<1>5. 0 .. Len(w) \subseteq S
  <2>. HIDE DEF S
  <2>. QED  BY <1>2, <1>3, <1>4, Induction
<1>. QED  BY <1>1, <1>4, <1>5

(* The text of two parts. *)
LEMMA TextJoined ==
  ASSUME NEW a \in Seq(WireLine), NEW b \in Seq(WireLine)
  PROVE  /\ TextOf(a) \in Seq(Word) /\ TextOf(b) \in Seq(Word)
         /\ TextOf(a \o b) = TextOf(a) \o TextOf(b)
<1>. DEFINE c == a \o b
            A == Len(a)
            B == Len(b)
<1>1. /\ c \in Seq(WireLine) /\ Len(c) = A + B /\ A \in Nat /\ B \in Nat
      /\ \A i \in 1 .. A : c[i] = a[i]
      /\ \A i \in 1 .. B : c[A + i] = b[i]
  BY Joined, SeqIs
<1>2. PICK f : PutTogether(a, f) /\ TextOf(a) = f[A]
  BY TextExists
<1>3. PICK g : PutTogether(b, g) /\ TextOf(b) = g[B]
  BY TextExists
<1>4. /\ \A n \in 0 .. A : f[n] \in Seq(Word)
      /\ \A n \in 0 .. B : g[n] \in Seq(Word)
  BY <1>2, <1>3, TextIs
<1>. DEFINE h == [n \in 0 .. A + B |-> IF n <= A THEN f[n] ELSE f[A] \o g[n - A]]
<1>5. \A i \in 1 .. B : Said(b[i]) \in Seq(Word)
  BY SaidTyped
<1>. HIDE DEF c, A, B
<1>6. h[0] = <<>> /\ h[A + B] = f[A] \o g[B]
  <2>1. h[0] = f[0] /\ f[0] = <<>> /\ g[0] = <<>>
    BY <1>1, <1>2, <1>3 DEF PutTogether
  <2>2. A \in 0 .. A /\ f[A] \in Seq(Word)
    BY <1>1, <1>4
  <2>3. CASE B = 0
    <3>1. h[A + B] = f[A] /\ g[B] = <<>>
      BY <1>1, <2>1, <2>3
    <3>. HIDE DEF h
    <3>. QED  BY <2>1, <2>2, <3>1, ConcatEmptySeq
  <2>4. CASE B # 0
    <3>1. A + B \in 0 .. A + B /\ ~(A + B <= A) /\ (A + B) - A = B
      BY <1>1, <2>4
    <3>. QED  BY <2>1, <3>1
  <2>. QED  BY <2>3, <2>4
<1>7. \A n \in 1 .. A + B : h[n] = h[n - 1] \o Said(c[n])
  <2>. SUFFICES ASSUME NEW n \in 1 .. A + B PROVE h[n] = h[n - 1] \o Said(c[n])
    OBVIOUS
  <2>0. n \in Int /\ n - 1 \in 0 .. A + B /\ n \in 0 .. A + B
    BY <1>1
  <2>1. CASE n <= A
    <3>1. n \in 1 .. A /\ n - 1 <= A
      BY <1>1, <2>0, <2>1
    <3>2. f[n] = f[n - 1] \o Said(a[n]) /\ c[n] = a[n]
      BY <1>1, <1>2, <3>1 DEF PutTogether, A
    <3>3. h[n] = f[n] /\ h[n - 1] = f[n - 1]
      BY <2>0, <3>1
    <3>. QED  BY <3>2, <3>3
  <2>2. CASE ~(n <= A)
    <3>. DEFINE k == n - A
    <3>1. k \in 1 .. B /\ A + k = n /\ k - 1 \in 0 .. B /\ k \in 0 .. B /\ (n - 1) - A = k - 1
          /\ A \in 0 .. A
      BY <1>1, <2>0, <2>2
    <3>2. g[k] = g[k - 1] \o Said(b[k]) /\ c[n] = b[k]
      BY <1>1, <1>3, <3>1 DEF PutTogether, B
    <3>3. h[n] = f[A] \o g[k]
      BY <2>0, <2>2
    <3>4. h[n - 1] = f[A] \o g[k - 1]
      <4>1. CASE k = 1
        <5>1. n - 1 = A /\ h[n - 1] = f[A]
          BY <1>1, <2>0, <4>1
        <5>2. g[k - 1] = <<>> /\ f[A] \in Seq(Word)
          BY <1>3, <1>4, <3>1, <4>1 DEF PutTogether
        <5>. HIDE DEF h, k
        <5>. QED  BY <5>1, <5>2, ConcatEmptySeq
      <4>2. CASE k # 1
        <5>1. ~(n - 1 <= A)
          BY <1>1, <2>0, <3>1, <4>2
        <5>. QED  BY <2>0, <3>1, <5>1
      <4>. QED  BY <4>1, <4>2
    <3>. HIDE DEF h, k
    <3>5. f[A] \in Seq(Word) /\ g[k - 1] \in Seq(Word) /\ Said(b[k]) \in Seq(Word)
      BY <1>4, <1>5, <3>1
    <3>6. (f[A] \o g[k - 1]) \o Said(b[k]) = f[A] \o (g[k - 1] \o Said(b[k]))
      <4>. DEFINE x == f[A]
                  y == g[k - 1]
                  z == Said(b[k])
      <4>1. x \in Seq(Word) /\ y \in Seq(Word) /\ z \in Seq(Word)
        BY <3>5
      <4>. HIDE DEF x, y, z
      <4>2. (x \o y) \o z = x \o (y \o z)
        BY <4>1, ConcatAssociative
      <4>. QED  BY <4>2 DEF x, y, z
    <3>. QED  BY <3>2, <3>3, <3>4, <3>6
  <2>. QED  BY <2>1, <2>2
<1>. HIDE DEF h
<1>8. PutTogether(c, h)
  BY <1>1, <1>6, <1>7 DEF PutTogether
<1>9. TextOf(c) = h[A + B]
  BY <1>1, <1>8, TextIs
<1>10. f[A] \in Seq(Word) /\ g[B] \in Seq(Word)
  BY <1>1, <1>4
<1>. QED  BY <1>2, <1>3, <1>6, <1>9, <1>10 DEF c, A, B

(* A thought is shown *)
Thinks(w) == \E i \in 1 .. Len(w) : IsThought(w[i])

(* A client reads this text, and a thought or none *)
Reads(w, text, thought) == TextOf(w) = text /\ (Thinks(w) <=> thought)

(* Two parts are read one after the other. *)
LEMMA ReadsJoined ==
  ASSUME NEW a \in Seq(WireLine), NEW b \in Seq(WireLine), NEW text, NEW more,
         NEW x \in BOOLEAN, NEW y \in BOOLEAN, Reads(a, text, x), Reads(b, more, y)
  PROVE  /\ a \o b \in Seq(WireLine) /\ text \in Seq(Word) /\ more \in Seq(Word)
         /\ Reads(a \o b, text \o more, x \/ y)
         /\ more = <<>> => Reads(a \o b, text, x \/ y)
         /\ text = <<>> => Reads(a \o b, more, x \/ y)
<1>. DEFINE c == a \o b
            L == Len(a)
<1>1. /\ c \in Seq(WireLine) /\ Len(c) = L + Len(b) /\ L \in Nat /\ Len(b) \in Nat
      /\ \A i \in 1 .. L : c[i] = a[i]
      /\ \A i \in 1 .. Len(b) : c[L + i] = b[i]
  BY Joined, SeqIs
<1>2. text \in Seq(Word) /\ more \in Seq(Word) /\ TextOf(c) = text \o more
  BY TextJoined DEF Reads
<1>. HIDE DEF c, L
<1>3. Thinks(c) <=> x \/ y
  <2>1. ASSUME Thinks(a) PROVE Thinks(c)
    <3>1. PICK i \in 1 .. L : IsThought(a[i])
      BY <2>1 DEF Thinks, L
    <3>2. i \in 1 .. Len(c) /\ c[i] = a[i]
      BY <1>1
    <3>. QED  BY <3>1, <3>2 DEF Thinks
  <2>2. ASSUME Thinks(b) PROVE Thinks(c)
    <3>1. PICK i \in 1 .. Len(b) : IsThought(b[i])
      BY <2>2 DEF Thinks
    <3>2. L + i \in 1 .. Len(c) /\ c[L + i] = b[i]
      BY <1>1
    <3>. QED  BY <3>1, <3>2 DEF Thinks
  <2>3. ASSUME Thinks(c) PROVE Thinks(a) \/ Thinks(b)
    <3>1. PICK i \in 1 .. Len(c) : IsThought(c[i])
      BY <2>3 DEF Thinks
    <3>2. CASE i <= L
      <4>1. i \in 1 .. L /\ c[i] = a[i]
        BY <1>1, <3>2
      <4>. QED  BY <3>1, <4>1 DEF Thinks, L
    <3>3. CASE ~(i <= L)
      <4>1. i - L \in 1 .. Len(b) /\ L + (i - L) = i
        BY <1>1, <3>3
      <4>2. c[i] = b[i - L]
        BY <1>1, <4>1
      <4>. QED  BY <3>1, <4>1, <4>2 DEF Thinks
    <3>. QED  BY <3>2, <3>3
  <2>. QED  BY <2>1, <2>2, <2>3 DEF Reads
<1>4. (more = <<>> => text \o more = text) /\ (text = <<>> => text \o more = more)
  BY <1>2, ConcatEmptySeq
<1>5. /\ Reads(c, text \o more, x \/ y)
      /\ more = <<>> => Reads(c, text, x \/ y)
      /\ text = <<>> => Reads(c, more, x \/ y)
  BY <1>2, <1>3, <1>4 DEF Reads
<1>. QED  BY <1>1, <1>2, <1>5 DEF c

(* Lines without text have none together. *)
LEMMA NothingRead ==
  ASSUME NEW w \in Seq(WireLine), \A i \in 1 .. Len(w) : Said(w[i]) = <<>>
  PROVE  TextOf(w) = <<>>
<1>. DEFINE text == [n \in 0 .. Len(w) |-> <<>>]
<1>1. Len(w) \in Nat
  BY SeqIs
<1>2. PutTogether(w, text)
  <2>1. \A n \in 1 .. Len(w) : n \in 0 .. Len(w) /\ n - 1 \in 0 .. Len(w)
    BY <1>1
  <2>2. <<>> \o <<>> = <<>>
    OBVIOUS
  <2>3. \A n \in 1 .. Len(w) : text[n] = text[n - 1] \o Said(w[n])
    BY <2>1, <2>2
  <2>4. text[0] = <<>>
    BY <1>1
  <2>. QED  BY <2>3, <2>4 DEF PutTogether
<1>3. text[Len(w)] = <<>>
  BY <1>1
<1>. HIDE DEF text
<1>. QED  BY <1>2, <1>3, TextIs

(* Nothing to read. *)
LEMMA ReadsNothing ==
  ASSUME NEW w \in Seq(WireLine), \A i \in 1 .. Len(w) : Said(w[i]) = <<>> /\ ~IsThought(w[i])
  PROVE  Reads(w, <<>>, FALSE)
<1>1. TextOf(w) = <<>>
  BY NothingRead
<1>. QED  BY <1>1 DEF Reads, Thinks

(* No line at all. *)
LEMMA ReadsNone == <<>> \in Seq(WireLine) /\ Reads(<<>>, <<>>, FALSE)
<1>. DEFINE w == <<>>
<1>1. w \in Seq(WireLine) /\ \A i \in 1 .. Len(w) : FALSE
  OBVIOUS
<1>. HIDE DEF w
<1>2. Reads(w, <<>>, FALSE)
  BY <1>1, ReadsNothing
<1>. QED  BY <1>1, <1>2 DEF w

(* One line. *)
LEMMA ReadsLine ==
  ASSUME NEW w \in Seq(WireLine), Len(w) = 1
  PROVE  /\ Reads(w, Said(w[1]), IsThought(w[1]))
         /\ w[1].ev \in {"content", "block_delta"} => Reads(w, w[1].data, FALSE)
         /\ w[1].ev = "thinking" => Reads(w, <<>>, TRUE)
         /\ w[1].ev \notin {"content", "block_delta", "thinking", "block_start"} => Reads(w, <<>>, FALSE)
<1>. DEFINE text == [n \in 0 .. 1 |-> IF n = 0 THEN <<>> ELSE Said(w[1])]
<1>1. Said(w[1]) \in Seq(Word)
  <2>1. 1 \in 1 .. Len(w)
    OBVIOUS
  <2>. QED  BY <2>1, SaidTyped
<1>2. <<>> \o Said(w[1]) = Said(w[1])
  BY <1>1, ConcatEmptySeq
<1>3. text[0] = <<>> /\ text[1] = Said(w[1])
  OBVIOUS
<1>. HIDE DEF text
<1>4. PutTogether(w, text)
  <2>1. \A n \in 1 .. Len(w) : n = 1 /\ n - 1 = 0
    OBVIOUS
  <2>2. \A n \in 1 .. Len(w) : text[n] = text[n - 1] \o Said(w[n])
    BY <1>2, <1>3, <2>1
  <2>. QED  BY <1>3, <2>2 DEF PutTogether
<1>5. TextOf(w) = Said(w[1])
  BY <1>3, <1>4, TextIs
<1>6. Thinks(w) <=> IsThought(w[1])
  <2>1. 1 \in 1 .. Len(w) /\ \A i \in 1 .. Len(w) : i = 1
    OBVIOUS
  <2>. QED  BY <2>1 DEF Thinks
<1>7. w[1].ev \in {"content", "block_delta"} => Said(w[1]) = w[1].data /\ ~IsThought(w[1])
  BY DEF Said, IsThought
<1>8. w[1].ev = "thinking" => Said(w[1]) = <<>> /\ IsThought(w[1])
  BY DEF Said, IsThought
<1>9. w[1].ev \notin {"content", "block_delta", "thinking", "block_start"} =>
        Said(w[1]) = <<>> /\ ~IsThought(w[1])
  BY DEF Said, IsThought
<1>. QED  BY <1>5, <1>6, <1>7, <1>8, <1>9 DEF Reads

(* The parts of the wire. *)
LEMMA ReadsParts ==
  ASSUME NEW m \in MapperState, NEW text \in Seq(Word)
  PROVE  /\ Reads(OpenedText(m), <<>>, FALSE) /\ Reads(ClosedText(m), <<>>, FALSE)
         /\ Reads(<<Line("block_delta", m.blockIndex, text)>>, text, FALSE)
         /\ Reads(<<Line("content", 0, text)>>, text, FALSE)
<1>. DEFINE none == <<>>
            title == <<"text">>
            ix == m.blockIndex
<1>1. ix \in Int /\ none \in Seq(Word) /\ title \in Seq(Word) /\ title # <<"thinking">>
  BY Words, WordsOfCode DEF MapperState
<1>. DEFINE open == <<Line("block_start", ix, title)>>
            close == <<Line("block_stop", ix, none)>>
            piece == <<Line("block_delta", ix, text)>>
            content == <<Line("content", 0, text)>>
<1>3. /\ OpenedText(m) = IF m.textBlockStarted THEN <<>> ELSE open
      /\ ClosedText(m) = IF m.textBlockStarted THEN close ELSE <<>>
  BY DEF OpenedText, ClosedText
<1>. HIDE DEF none, title, ix
<1>4. Reads(open, <<>>, FALSE)
  <2>1. open \in Seq(WireLine) /\ Len(open) = 1 /\ open[1].ev = "block_start" /\ open[1].data = title
    BY <1>1, WordsOfCode, LineAlone
  <2>. HIDE DEF open
  <2>2. Said(open[1]) = <<>> /\ ~IsThought(open[1])
    BY <1>1, <2>1 DEF Said, IsThought
  <2>3. Reads(open, Said(open[1]), IsThought(open[1]))
    BY <2>1, ReadsLine
  <2>. QED  BY <2>2, <2>3 DEF Reads
<1>5. Reads(close, <<>>, FALSE)
  <2>1. close \in Seq(WireLine) /\ Len(close) = 1 /\ close[1].ev = "block_stop"
    BY <1>1, WordsOfCode, LineAlone
  <2>. HIDE DEF close
  <2>. QED  BY <2>1, ReadsLine
<1>7. Reads(piece, text, FALSE)
  <2>1. /\ piece \in Seq(WireLine) /\ Len(piece) = 1 /\ piece[1].ev = "block_delta"
        /\ piece[1].data = text
    BY <1>1, WordsOfCode, LineAlone
  <2>. HIDE DEF piece
  <2>. QED  BY <2>1, ReadsLine
<1>8. Reads(content, text, FALSE)
  <2>1. /\ content \in Seq(WireLine) /\ Len(content) = 1 /\ content[1].ev = "content"
        /\ content[1].data = text
    BY <1>1, WordsOfCode, LineAloneZero
  <2>. HIDE DEF content
  <2>. QED  BY <2>1, ReadsLine
<1>. HIDE DEF open, close
<1>. QED  BY <1>3, <1>4, <1>5, <1>7, <1>8, ReadsNone DEF ix

(* The line of a thought. *)
LEMMA ThoughtLineReads ==
  ASSUME NEW thought \in BOOLEAN
  PROVE  LET w == IF thought THEN <<Line("thinking", 0, <<>>)>> ELSE <<>>
         IN  w \in Seq(WireLine) /\ Reads(w, <<>>, thought)
<1>. DEFINE none == <<>>
            line == <<Line("thinking", 0, none)>>
<1>1. none \in Seq(Word)
  BY Words
<1>. HIDE DEF none
<1>2. line \in Seq(WireLine) /\ Len(line) = 1 /\ line[1].ev = "thinking"
  BY <1>1, WordsOfCode, LineAloneZero
<1>. HIDE DEF line
<1>3. Reads(line, <<>>, TRUE)
  BY <1>2, ReadsLine
<1>. DEFINE w == IF thought THEN line ELSE <<>>
<1>4. w \in Seq(WireLine) /\ Reads(w, <<>>, thought)
  BY <1>2, <1>3, ReadsNone DEF Reads
<1>. QED  BY <1>4 DEF line, none

(* The parts that end an answer have no text. *)
LEMMA ReadsEnds ==
  ASSUME NEW word \in Word
  PROVE  /\ Reads(<<Line("finish", 0, <<word>>)>>, <<>>, FALSE)
         /\ \A pair \in {<<"finish", "[DONE]">>, <<"message_delta", "message_stop">>} :
              Reads(<<Line(pair[1], 0, <<word>>), Line(pair[2], 0, <<>>)>>, <<>>, FALSE)
<1>. DEFINE data == <<word>>
            none == <<>>
<1>1. data \in Seq(Word) /\ none \in Seq(Word)
  BY Words
<1>. HIDE DEF data, none
<1>. DEFINE finish == <<Line("finish", 0, data)>>
<1>2. Reads(finish, <<>>, FALSE)
  <2>1. finish \in Seq(WireLine) /\ Len(finish) = 1 /\ finish[1].ev = "finish"
    BY <1>1, WordsOfCode, LineAloneZero
  <2>. HIDE DEF finish
  <2>. QED  BY <2>1, ReadsLine
<1>3. ASSUME NEW a \in {"finish", "message_delta"}, NEW b \in {"[DONE]", "message_stop"}
      PROVE  Reads(<<Line(a, 0, data), Line(b, 0, none)>>, <<>>, FALSE)
  <2>. DEFINE w == <<Line(a, 0, data), Line(b, 0, none)>>
  <2>1. a \in Word /\ b \in Word
    BY WordsOfCode
  <2>2. /\ Line(a, 0, data) \in WireLine /\ Line(b, 0, none) \in WireLine
    BY <1>1, <2>1, LineZero
  <2>3. w \in Seq(WireLine) /\ Len(w) = 2 /\ w[1] = Line(a, 0, data) /\ w[2] = Line(b, 0, none)
    BY <2>2
  <2>. HIDE DEF w
  <2>4. w[1].ev = a /\ w[2].ev = b
    BY <2>3, LineParts
  <2>5. Said(w[1]) = <<>> /\ Said(w[2]) = <<>> /\ ~IsThought(w[1]) /\ ~IsThought(w[2])
    BY <2>4 DEF Said, IsThought
  <2>6. \A i \in 1 .. Len(w) : i = 1 \/ i = 2
    BY <2>3
  <2>7. Reads(w, <<>>, FALSE)
    BY <2>3, <2>5, <2>6, ReadsNothing
  <2>. QED  BY <2>7 DEF w
<1>4. ASSUME NEW pair \in {<<"finish", "[DONE]">>, <<"message_delta", "message_stop">>}
      PROVE  pair[1] \in {"finish", "message_delta"} /\ pair[2] \in {"[DONE]", "message_stop"}
  BY <1>4
<1>. QED  BY <1>2, <1>3, <1>4 DEF data, none

(* Without calls the only block that done can add is the thought. *)
LEMMA ThoughtRead ==
  ASSUME NEW answer \in Reply, answer.calls = <<>>, NEW m \in MapperState, ~m.thinkingBlockEmitted
  PROVE  Reads(WholeBlocks(m, DoneBlocks(answer, m)), <<>>, answer.thought)
<1>. DEFINE blocks == DoneBlocks(answer, m)
            W == WholeBlocks(m, blocks)
            data == <<"thinking">>
            none == <<>>
            think == [data |-> data, args |-> none]
<1>1. blocks \in Seq(BlockType) /\ answer.thought \in BOOLEAN
  BY DoneBlocksTyped DEF Reply
<1>2. blocks = IF answer.thought THEN <<think>> ELSE <<>>
  <2>1. ToolBlocks(answer) = <<>>
    BY DEF ToolBlocks
  <2>2. ThinkingBlock(answer, m) = IF answer.thought THEN <<think>> ELSE <<>>
    BY DEF ThinkingBlock
  <2>3. blocks = ThinkingBlock(answer, m) \o <<>>
    BY <2>1 DEF DoneBlocks
  <2>4. ThinkingBlock(answer, m) \in Seq(BlockType)
    BY DoneBlocksTyped
  <2>. HIDE DEF blocks, think
  <2>. QED  BY <2>2, <2>3, <2>4, ConcatEmptySeq
<1>3. think.data = data /\ think.args = none
  OBVIOUS
<1>. HIDE DEF think, blocks, W
<1>4. /\ W \in Seq(WireLine) /\ Len(W) = 3 * Len(blocks)
      /\ \A n \in 1 .. Len(blocks) :
           /\ W[3 * n - 2] = Line("block_start", nextToolBlockIndex(m, n), blocks[n].data)
           /\ W[3 * n - 1] = Line("block_delta", nextToolBlockIndex(m, n), blocks[n].args)
           /\ W[3 * n] = Line("block_stop", nextToolBlockIndex(m, n), none)
  BY <1>1, WholeBlocksTyped DEF W
<1>5. CASE ~answer.thought
  <2>1. Len(blocks) = 0
    BY <1>2, <1>5
  <2>2. \A i \in 1 .. Len(W) : FALSE
    BY <1>4, <2>1
  <2>3. Reads(W, <<>>, FALSE)
    BY <1>4, <2>2, ReadsNothing
  <2>. QED  BY <1>5, <2>3 DEF W, blocks, Reads
<1>6. CASE answer.thought
  <2>1. Len(blocks) = 1 /\ blocks[1] = think /\ 1 \in 1 .. Len(blocks)
    BY <1>2, <1>6
  <2>2. 3 * 1 - 2 = 1 /\ 3 * 1 - 1 = 2 /\ 3 * 1 = 3
    OBVIOUS
  <2>. DEFINE x == nextToolBlockIndex(m, 1)
  <2>3. /\ W[1] = Line("block_start", x, blocks[1].data) /\ W[2] = Line("block_delta", x, blocks[1].args)
        /\ W[3] = Line("block_stop", x, none)
    BY <1>4, <2>1, <2>2
  <2>. HIDE DEF x
  <2>4. /\ W[1].ev = "block_start" /\ W[1].data = data /\ W[2].ev = "block_delta" /\ W[2].data = none
        /\ W[3].ev = "block_stop"
    BY <1>3, <2>1, <2>3, LineParts
  <2>5. Len(W) = 3 /\ \A i \in 1 .. Len(W) : i = 1 \/ i = 2 \/ i = 3
    BY <1>4, <2>1
  <2>6. Said(W[1]) = <<>> /\ Said(W[2]) = <<>> /\ Said(W[3]) = <<>> /\ IsThought(W[1])
    BY <2>4 DEF Said, IsThought
  <2>7. TextOf(W) = <<>>
    BY <1>4, <2>5, <2>6, NothingRead
  <2>8. 1 \in 1 .. Len(W)
    BY <2>5
  <2>9. Thinks(W)
    BY <2>6, <2>8 DEF Thinks
  <2>. QED  BY <1>6, <2>7, <2>9 DEF W, blocks, Reads
<1>. QED  BY <1>1, <1>5, <1>6

(* meta has nothing to read and a piece of text its text, and the thought  *)
(* is still to come.                                                       *)
LEMMA EventsRead ==
  ASSUME NEW text \in Seq(Word), NEW m \in MapperState, req.facade \in Facades
  PROVE  /\ Reads(MapEvent(Meta, m).lines, <<>>, FALSE)
         /\ MapEvent(Meta, m).mapper.thinkingBlockEmitted = m.thinkingBlockEmitted
         /\ Reads(MapEvent(Delta(text), m).lines, text, FALSE)
         /\ MapEvent(Delta(text), m).mapper.thinkingBlockEmitted = m.thinkingBlockEmitted
<1>. DEFINE none == <<>>
            meta == MapEvent(Meta, m)
            delta == MapEvent(Delta(text), m)
            content == <<Line("content", 0, text)>>
<1>1. none \in Seq(Word)
  BY Words
<1>2. ASSUME NEW ev \in {"message_start", "role", "meta"}
      PROVE  Reads(<<Line(ev, 0, none)>>, <<>>, FALSE)
  <2>. DEFINE line == <<Line(ev, 0, none)>>
  <2>1. ev \in Word
    BY WordsOfCode
  <2>. HIDE DEF none
  <2>2. line \in Seq(WireLine) /\ Len(line) = 1 /\ line[1].ev = ev
    BY <1>1, <2>1, LineAloneZero
  <2>. HIDE DEF line
  <2>3. line[1].ev \notin {"content", "block_delta", "thinking", "block_start"}
    BY <2>2
  <2>4. Reads(line, <<>>, FALSE)
    BY <2>2, <2>3, ReadsLine
  <2>. QED  BY <2>4 DEF line
<1>4. /\ Reads(OpenedText(m), none, FALSE) /\ Reads(content, text, FALSE)
      /\ Reads(<<Line("block_delta", m.blockIndex, text)>>, text, FALSE)
      /\ OpenedText(m) \in Seq(WireLine) /\ <<Line("block_delta", m.blockIndex, text)>> \in Seq(WireLine)
  <2>1. /\ Reads(OpenedText(m), <<>>, FALSE) /\ Reads(content, text, FALSE)
        /\ Reads(<<Line("block_delta", m.blockIndex, text)>>, text, FALSE)
    BY ReadsParts
  <2>2. OpenedText(m) \in Seq(WireLine)
    BY QuietParts
  <2>3. m.blockIndex \in Int
    BY DEF MapperState
  <2>4. <<Line("block_delta", m.blockIndex, text)>> \in Seq(WireLine)
    BY <2>3, WordsOfCode, LineAlone
  <2>. QED  BY <2>1, <2>2, <2>4
<1>5. /\ [m EXCEPT !.sent = TRUE].thinkingBlockEmitted = m.thinkingBlockEmitted
      /\ [m EXCEPT !.textBlockStarted = TRUE].thinkingBlockEmitted = m.thinkingBlockEmitted
  BY DEF MapperState
<1>6. /\ Reads(meta.lines, none, FALSE)
      /\ meta.mapper.thinkingBlockEmitted = m.thinkingBlockEmitted
  <2>1. CASE req.facade = "anthropic"
    <3>. DEFINE lines == IF m.sent THEN <<>> ELSE <<Line("message_start", 0, none)>>
                n == [m EXCEPT !.sent = TRUE]
    <3>1. meta = mapSseEventToAnthropic(Meta, m)
      BY <2>1, MapEventIs
    <3>2. mapSseEventToAnthropic(Meta, m) = [lines |-> lines, mapper |-> n]
      BY AnthropicEvents
    <3>3. meta.lines = lines /\ meta.mapper = n
      <4>. HIDE DEF meta, lines, n
      <4>. QED  BY <3>1, <3>2, StepParts
    <3>4. Reads(lines, none, FALSE)
      BY <1>2, ReadsNone
    <3>. HIDE DEF lines, meta
    <3>. QED  BY <1>5, <3>3, <3>4
  <2>2. CASE req.facade = "openai"
    <3>. DEFINE lines == IF m.sent THEN <<>> ELSE <<Line("role", 0, none)>>
                n == [m EXCEPT !.sent = TRUE]
    <3>1. meta = mapSseEventToOpenAi(Meta, m)
      BY <2>2, MapEventIs
    <3>2. mapSseEventToOpenAi(Meta, m) = [lines |-> lines, mapper |-> n]
      BY OpenAiEvents
    <3>3. meta.lines = lines /\ meta.mapper = n
      <4>. HIDE DEF meta, lines, n
      <4>. QED  BY <3>1, <3>2, StepParts
    <3>4. Reads(lines, none, FALSE)
      BY <1>2, ReadsNone
    <3>. HIDE DEF lines, meta
    <3>. QED  BY <1>5, <3>3, <3>4
  <2>3. CASE req.facade = "native"
    <3>. DEFINE lines == <<Line("meta", 0, none)>>
    <3>1. meta = serialize(Meta, m)
      BY <2>3, MapEventIs
    <3>2. serialize(Meta, m) = [lines |-> lines, mapper |-> m]
      BY NativeEvents
    <3>3. meta.lines = lines /\ meta.mapper = m
      <4>. HIDE DEF meta, lines
      <4>. QED  BY <3>1, <3>2, StepParts
    <3>4. Reads(lines, none, FALSE)
      BY <1>2
    <3>. HIDE DEF lines, meta
    <3>. QED  BY <3>3, <3>4
  <2>. QED  BY <2>1, <2>2, <2>3, FacadeIs
<1>7. /\ Reads(delta.lines, text, FALSE)
      /\ delta.mapper.thinkingBlockEmitted = m.thinkingBlockEmitted
  <2>1. CASE req.facade = "anthropic"
    <3>. DEFINE piece == <<Line("block_delta", m.blockIndex, text)>>
                open == OpenedText(m)
                lines == open \o piece
                n == [m EXCEPT !.textBlockStarted = TRUE]
    <3>1. delta = [lines |-> lines, mapper |-> n]
      <4>1. delta = mapSseEventToAnthropic(Delta(text), m)
        BY <2>1, MapEventIs
      <4>2. mapSseEventToAnthropic(Delta(text), m) = [lines |-> lines, mapper |-> n]
        BY AnthropicEvents
      <4>. QED  BY <4>1, <4>2
    <3>2. delta.lines = lines /\ delta.mapper = n
      <4>. HIDE DEF delta, lines, n
      <4>. QED  BY <3>1, StepParts
    <3>3. /\ Reads(open, none, FALSE) /\ Reads(piece, text, FALSE)
          /\ open \in Seq(WireLine) /\ piece \in Seq(WireLine)
      BY <1>4
    <3>4. Reads(lines, text, FALSE \/ FALSE)
      <4>. HIDE DEF open, piece
      <4>. QED  BY <3>3, ReadsJoined
    <3>5. Reads(lines, text, FALSE)
      BY <3>4 DEF Reads
    <3>. HIDE DEF lines, delta
    <3>. QED  BY <1>5, <3>2, <3>5
  <2>2. CASE req.facade \in {"openai", "native"}
    <3>1. delta = [lines |-> content, mapper |-> m]
      <4>1. /\ req.facade = "openai" => delta = mapSseEventToOpenAi(Delta(text), m)
            /\ req.facade = "native" => delta = serialize(Delta(text), m)
        BY MapEventIs
      <4>2. mapSseEventToOpenAi(Delta(text), m) = [lines |-> content, mapper |-> m]
        BY OpenAiEvents
      <4>3. serialize(Delta(text), m) = [lines |-> content, mapper |-> m]
        BY NativeEvents
      <4>. QED  BY <2>2, <4>1, <4>2, <4>3
    <3>. HIDE DEF content, delta
    <3>2. delta.lines = content /\ delta.mapper = m
      BY <3>1, StepParts
    <3>. QED  BY <1>4, <3>2
  <2>. QED  BY <2>1, <2>2, FacadeIs
<1>. QED  BY <1>6, <1>7

(* No call, no line of a call. *)
LEMMA NoCallWire ==
  CallWire(<<>>) = <<>> /\ Spelled(<<>>) = <<>>
  BY DEF CallWire, Spelled

(* done without calls shows the thought and no text; OpenAI has none.      *)
LEMMA DoneReads ==
  ASSUME NEW answer \in Reply, answer.calls = <<>>, NEW m \in MapperState, ~m.thinkingBlockEmitted,
         req.facade \in Facades
  PROVE  \E thought \in BOOLEAN :
           /\ Reads(MapEvent(Done(answer), m).lines, <<>>, thought)
           /\ req.facade # "openai" => thought = answer.thought
<1>. DEFINE step == MapEvent(Done(answer), m)
<1>1. answer.thought \in BOOLEAN /\ answer.finish \in Word /\ <<>> \in Seq(Word)
  BY DEF Reply
<1>2. CASE req.facade = "anthropic"
  <2>. DEFINE word == mapGatewayFinishReasonToAnthropicStopReason(answer.finish)
              C == ClosedText(m)
              W == WholeBlocks(m, DoneBlocks(answer, m))
              E == MessageEnd(answer)
              lines == C \o W \o E
              n == [m EXCEPT !.blockIndex = @ + Len(DoneBlocks(answer, m)),
                             !.thinkingBlockEmitted = @ \/ answer.thought]
              thought == answer.thought
  <2>1. step = [lines |-> lines, mapper |-> n]
    <3>1. step = mapSseEventToAnthropic(Done(answer), m)
      BY <1>2, MapEventIs
    <3>2. mapSseEventToAnthropic(Done(answer), m) = [lines |-> lines, mapper |-> n]
      BY AnthropicEvents
    <3>. QED  BY <3>1, <3>2
  <2>2. step.lines = lines
    <3>. HIDE DEF step, lines, n
    <3>. QED  BY <2>1, StepParts
  <2>3. word \in Word
    BY StopWords DEF mapGatewayFinishReasonToAnthropicStopReason
  <2>4. E \in Seq(WireLine) /\ Reads(E, <<>>, FALSE)
    <3>. DEFINE pair == <<"message_delta", "message_stop">>
    <3>1. E = <<Line(pair[1], 0, <<word>>), Line(pair[2], 0, <<>>)>>
      BY DEF MessageEnd
    <3>2. pair \in {<<"finish", "[DONE]">>, <<"message_delta", "message_stop">>}
      OBVIOUS
    <3>. HIDE DEF E, pair, word
    <3>. QED  BY <2>3, <3>1, <3>2, EndParts, ReadsEnds
  <2>5. C \in Seq(WireLine) /\ Reads(C, <<>>, FALSE)
    BY <1>1, QuietParts, ReadsParts
  <2>6. W \in Seq(WireLine) /\ Reads(W, <<>>, thought)
    BY BlocksSpeak, ThoughtRead
  <2>7. thought \in BOOLEAN
    BY <1>1
  <2>. HIDE DEF C, W, E, word, thought
  <2>8. C \o W \in Seq(WireLine) /\ Reads(C \o W, <<>>, FALSE \/ thought)
    BY <2>5, <2>6, <2>7, ReadsJoined
  <2>9. Reads(C \o W, <<>>, thought)
    BY <2>8 DEF Reads
  <2>10. Reads(lines, <<>>, thought \/ FALSE)
    BY <2>4, <2>7, <2>8, <2>9, ReadsJoined
  <2>11. Reads(lines, <<>>, thought)
    BY <2>10 DEF Reads
  <2>. HIDE DEF lines
  <2>. QED  BY <2>2, <2>7, <2>11 DEF thought
<1>3. CASE req.facade = "openai"
  <2>. DEFINE word == resolveOpenAiFinishReason(Done(answer))
              W == CallWire(answer.calls)
              E == << Line("finish", 0, <<word>>), Line("[DONE]", 0, <<>>) >>
              lines == W \o E
  <2>1. step = [lines |-> lines, mapper |-> m]
    <3>1. step = mapSseEventToOpenAi(Done(answer), m)
      BY <1>3, MapEventIs
    <3>2. mapSseEventToOpenAi(Done(answer), m) = [lines |-> lines, mapper |-> m]
      BY OpenAiEvents
    <3>. QED  BY <3>1, <3>2
  <2>2. step.lines = lines
    <3>. HIDE DEF step, lines
    <3>. QED  BY <2>1, StepParts
  <2>3. word \in Word
    <3>1. Done(answer).finish = answer.finish /\ Done(answer).calls = answer.calls
      BY DEF Done
    <3>. QED  BY <3>1, StopWords DEF resolveOpenAiFinishReason
  <2>4. E \in Seq(WireLine) /\ Reads(E, <<>>, FALSE)
    <3>. DEFINE pair == <<"finish", "[DONE]">>
    <3>1. E = <<Line(pair[1], 0, <<word>>), Line(pair[2], 0, <<>>)>>
      OBVIOUS
    <3>2. pair \in {<<"finish", "[DONE]">>, <<"message_delta", "message_stop">>}
      OBVIOUS
    <3>. HIDE DEF E, pair, word
    <3>. QED  BY <2>3, <3>1, <3>2, EndParts, ReadsEnds
  <2>5. W = <<>>
    BY NoCallWire
  <2>. HIDE DEF W, E
  <2>6. lines = E
    BY <2>4, <2>5, ConcatEmptySeq
  <2>. HIDE DEF lines
  <2>. QED  BY <1>3, <2>2, <2>4, <2>6
<1>4. CASE req.facade = "native"
  <2>. DEFINE word == answer.finish
              W == CallWire(answer.calls)
              C == ThoughtLine(answer)
              E == <<Line("finish", 0, <<word>>)>>
              lines == W \o C \o E
              thought == answer.thought
  <2>1. step = [lines |-> lines, mapper |-> m]
    <3>1. step = serialize(Done(answer), m)
      BY <1>4, MapEventIs
    <3>2. serialize(Done(answer), m) = [lines |-> lines, mapper |-> m]
      BY NativeEvents
    <3>. QED  BY <3>1, <3>2
  <2>2. step.lines = lines
    <3>. HIDE DEF step, lines
    <3>. QED  BY <2>1, StepParts
  <2>3. E \in Seq(WireLine) /\ Reads(E, <<>>, FALSE)
    BY <1>1, EndParts, ReadsEnds
  <2>4. C \in Seq(WireLine) /\ Reads(C, <<>>, thought)
    BY <1>1, ThoughtLineReads DEF ThoughtLine
  <2>5. W = <<>> /\ thought \in BOOLEAN
    BY <1>1, NoCallWire
  <2>. HIDE DEF W, C, E, thought
  <2>6. lines = C \o E
    BY <2>4, <2>5, ConcatEmptySeq
  <2>7. Reads(lines, <<>>, thought \/ FALSE)
    BY <2>3, <2>4, <2>5, <2>6, ReadsJoined
  <2>8. Reads(lines, <<>>, thought)
    BY <2>7 DEF Reads
  <2>. HIDE DEF lines
  <2>. QED  BY <2>2, <2>5, <2>8 DEF thought
<1>. QED  BY <1>2, <1>3, <1>4, FacadeIs

(* The document of an answer without calls shows its text and thought. *)
LEMMA DocumentReads ==
  ASSUME NEW answer \in Reply, answer.calls = <<>>, NEW thought \in BOOLEAN, NEW word \in Word
  PROVE  Reads(Document(answer, thought, word), answer.text, thought)
<1>. DEFINE A == IF thought THEN <<Line("thinking", 0, <<>>)>> ELSE <<>>
            B == IF answer.text # <<>> THEN <<Line("content", 0, answer.text)>> ELSE <<>>
            W == CallWire(answer.calls)
            E == <<Line("finish", 0, <<word>>)>>
            text == answer.text
<1>1. text \in Seq(Word)
  BY DEF Reply
<1>2. Document(answer, thought, word) = A \o B \o W \o E
  BY DEF Document, CallWire
<1>3. A \in Seq(WireLine) /\ Reads(A, <<>>, thought)
  BY ThoughtLineReads
<1>4. B \in Seq(WireLine) /\ Reads(B, text, FALSE)
  <2>. DEFINE line == <<Line("content", 0, text)>>
  <2>1. B = IF text # <<>> THEN line ELSE <<>>
    OBVIOUS
  <2>. HIDE DEF B, text
  <2>2. line \in Seq(WireLine) /\ Len(line) = 1 /\ line[1].ev = "content" /\ line[1].data = text
    BY <1>1, WordsOfCode, LineAloneZero
  <2>. HIDE DEF line
  <2>3. Reads(line, text, FALSE)
    BY <2>2, ReadsLine
  <2>. QED  BY <2>1, <2>2, <2>3, ReadsNone
<1>5. W = <<>>
  BY NoCallWire
<1>6. E \in Seq(WireLine) /\ Reads(E, <<>>, FALSE)
  BY EndParts, ReadsEnds
<1>. HIDE DEF A, B, W, E, text
<1>7. A \o B \in Seq(WireLine) /\ Reads(A \o B, text, thought \/ FALSE)
  BY <1>3, <1>4, ReadsJoined
<1>8. Reads(A \o B, text, thought)
  BY <1>7 DEF Reads
<1>9. A \o B \o W = A \o B
  BY <1>5, <1>7, ConcatEmptySeq
<1>10. Reads(A \o B \o W \o E, text, thought \/ FALSE)
  BY <1>6, <1>7, <1>8, <1>9, ReadsJoined
<1>11. Reads(A \o B \o W \o E, text, thought)
  BY <1>10 DEF Reads
<1>. QED  BY <1>2, <1>11 DEF text

(* The chunks, put together up to one of them and with the next. *)
LEMMA NextChunk ==
  ASSUME NEW text \in Seq(Word), NEW i \in 1 .. ChunkCount(text)
  PROVE  /\ SubSeq(text, 1, Cut(text, i - 1)) \o ChunkText(text, i) = SubSeq(text, 1, Cut(text, i))
         /\ SubSeq(text, 1, Cut(text, i - 1)) \in Seq(Word) /\ ChunkText(text, i) \in Seq(Word)
<1>. DEFINE p == Cut(text, i - 1)
            q == Cut(text, i)
<1>1. p \in 0 .. Len(text) /\ q \in 0 .. Len(text) /\ p <= q /\ Len(text) \in Nat
  BY Cuts, SeqIs
<1>2. ChunkText(text, i) = SubSeq(text, p + 1, q)
  BY DEF ChunkText
<1>. HIDE DEF p, q
<1>. DEFINE a == SubSeq(text, 1, p)
            b == SubSeq(text, p + 1, q)
            c == SubSeq(text, 1, q)
<1>3. /\ a \in Seq(Word) /\ Len(a) = p /\ \A j \in 1 .. p : a[j] = text[j]
      /\ b \in Seq(Word) /\ Len(b) = q - p /\ \A j \in 1 .. q - p : b[j] = text[p + j]
      /\ c \in Seq(Word) /\ Len(c) = q /\ \A j \in 1 .. q : c[j] = text[j]
  <2>1. /\ 1 \in Int /\ p + 1 \in Int /\ p \in Int /\ q \in Int
        /\ \A j \in 1 .. p : text[j] \in Word
        /\ \A j \in p + 1 .. q : text[j] \in Word
        /\ \A j \in 1 .. q : text[j] \in Word
    BY <1>1
  <2>2. /\ a \in Seq(Word) /\ Len(a) = (IF 1 <= p THEN p - 1 + 1 ELSE 0)
        /\ \A j \in 1 .. p - 1 + 1 : a[j] = text[1 + j - 1]
    BY <2>1, SubSeqProperties
  <2>3. /\ b \in Seq(Word) /\ Len(b) = (IF p + 1 <= q THEN q - (p + 1) + 1 ELSE 0)
        /\ \A j \in 1 .. q - (p + 1) + 1 : b[j] = text[p + 1 + j - 1]
    BY <2>1, SubSeqProperties
  <2>4. /\ c \in Seq(Word) /\ Len(c) = (IF 1 <= q THEN q - 1 + 1 ELSE 0)
        /\ \A j \in 1 .. q - 1 + 1 : c[j] = text[1 + j - 1]
    BY <2>1, SubSeqProperties
  <2>5. /\ p - 1 + 1 = p /\ q - 1 + 1 = q /\ q - (p + 1) + 1 = q - p
        /\ \A j \in Int : 1 + j - 1 = j /\ p + 1 + j - 1 = p + j
    BY <1>1
  <2>. HIDE DEF a, b, c
  <2>6. Len(a) = p /\ \A j \in 1 .. p : a[j] = text[j]
    BY <1>1, <2>2, <2>5
  <2>7. Len(b) = q - p /\ \A j \in 1 .. q - p : b[j] = text[p + j]
    BY <1>1, <2>3, <2>5
  <2>8. Len(c) = q /\ \A j \in 1 .. q : c[j] = text[j]
    BY <1>1, <2>4, <2>5
  <2>. QED  BY <2>2, <2>3, <2>4, <2>6, <2>7, <2>8
<1>. HIDE DEF a, b, c
<1>4. a \o b = c
  <2>. DEFINE d == a \o b
  <2>1. /\ d \in Seq(Word) /\ Len(d) = p + (q - p)
        /\ \A j \in 1 .. p : d[j] = a[j]
        /\ \A j \in 1 .. q - p : d[p + j] = b[j]
    <3>0. a \in Seq(Word) /\ b \in Seq(Word)
      BY <1>3
    <3>1. /\ d \in Seq(Word) /\ Len(d) = Len(a) + Len(b)
          /\ \A j \in 1 .. Len(a) : d[j] = a[j]
          /\ \A j \in 1 .. Len(b) : d[Len(a) + j] = b[j]
      BY <3>0, Joined
    <3>. HIDE DEF d
    <3>. QED  BY <1>3, <3>1
  <2>. HIDE DEF d
  <2>2. Len(d) = Len(c)
    BY <1>1, <1>3, <2>1
  <2>3. \A j \in 1 .. Len(d) : d[j] = c[j]
    <3>. SUFFICES ASSUME NEW j \in 1 .. q PROVE d[j] = c[j]
      BY <1>3, <2>2
    <3>1. CASE j <= p
      <4>1. j \in 1 .. p
        BY <1>1, <3>1
      <4>. QED  BY <1>3, <2>1, <4>1
    <3>2. CASE ~(j <= p)
      <4>1. j - p \in 1 .. q - p /\ p + (j - p) = j
        BY <1>1, <3>2
      <4>2. d[j] = b[j - p] /\ b[j - p] = text[j]
        BY <1>3, <2>1, <4>1
      <4>. QED  BY <1>3, <4>2
    <3>. QED  BY <3>1, <3>2
  <2>. QED  BY <1>3, <2>1, <2>2, <2>3, SeqEqual DEF d
<1>. QED  BY <1>2, <1>3, <1>4 DEF a, b, c, p, q

(* A replay shows the stored text and thought, no call, and an end that    *)
(* fits.                                                                   *)
LEMMA ReplayReads ==
  ASSUME NEW answer \in Reply, req.facade \in Facades, mapper = NewMapper
  PROVE  LET w == Replayed(answer)[ChunkCount(answer.text) + 2].lines
         IN  /\ \E thought \in BOOLEAN : /\ Reads(w, answer.text, thought)
                                         /\ req.facade # "openai" => thought = answer.thought
             /\ \E word \in Word : Says(w, <<>>, word) /\ Fits(word, Bare(answer))
<1>. DEFINE K == ChunkCount(answer.text)
            T == answer.text
            out == Replayed(answer)
            Good(n) == /\ Reads(out[n + 1].lines, SubSeq(T, 1, Cut(T, n)), FALSE)
                       /\ Quiet(out[n + 1].lines) /\ ~out[n + 1].mapper.thinkingBlockEmitted
            S == {n \in Nat : Good(n)}
<1>1. /\ K \in Nat
      /\ out[0] = [lines |-> <<>>, mapper |-> mapper]
      /\ out[1] = Emitted(out[0], Meta)
      /\ \A i \in 1 .. K : /\ out[i + 1] = Emitted(out[i], Delta(ChunkText(T, i)))
                           /\ ChunkText(T, i) \in Seq(Word)
      /\ out[K + 2] = Emitted(out[K + 1], Done(Bare(answer)))
  BY ReplaySteps
<1>2. /\ Bare(answer) \in Reply /\ Bare(answer).calls = <<>> /\ Bare(answer).thought = answer.thought
  BY BareTyped
<1>3. \A n \in 0 .. K + 2 : out[n].lines \in Seq(WireLine) /\ out[n].mapper \in MapperState
  BY FreshTyped, ReplayTyped DEF Mapped
<1>4. T \in Seq(Word) /\ Cut(T, 0) = 0 /\ Cut(T, K) = Len(T)
  <2>1. T \in Seq(Word)
    BY DEF Reply
  <2>. HIDE DEF T
  <2>. QED  BY <2>1, Cuts DEF T
<1>5. /\ SubSeq(T, 1, 0) = <<>> /\ SubSeq(T, 1, Len(T)) = T
  <2>. HIDE DEF T
  <2>1. SubSeq(T, 1, Len(T)) = T
    BY <1>4, SubSeqFull
  <2>2. SubSeq(T, 1, 0) = <<>>
    BY <1>4
  <2>. QED  BY <2>1, <2>2
<1>. HIDE DEF out
<1>6. ASSUME NEW n \in 0 .. K + 2, NEW e
      PROVE  /\ Emitted(out[n], e).lines = out[n].lines \o MapEvent(e, out[n].mapper).lines
             /\ Emitted(out[n], e).mapper = MapEvent(e, out[n].mapper).mapper
  BY EmittedIs
<1>7. 0 \in S
  <2>1. out[0].lines = <<>> /\ out[0].mapper = NewMapper /\ 0 \in 0 .. K + 2
    BY <1>1
  <2>. DEFINE m == out[0].mapper
              step == MapEvent(Meta, m)
  <2>2. m \in MapperState /\ m.thinkingBlockEmitted = FALSE
    BY <1>3, <2>1 DEF NewMapper
  <2>. HIDE DEF m
  <2>3. /\ step.lines \in Seq(WireLine) /\ Quiet(step.lines)
        /\ Reads(step.lines, <<>>, FALSE)
        /\ step.mapper.thinkingBlockEmitted = m.thinkingBlockEmitted
    BY <1>4, <2>2, EventsQuiet, EventsRead
  <2>4. out[1].lines = out[0].lines \o step.lines /\ out[1].mapper = step.mapper
    BY <1>1, <1>6, <2>1 DEF m
  <2>. HIDE DEF step
  <2>5. out[1].lines = step.lines
    BY <2>1, <2>3, <2>4, ConcatEmptySeq
  <2>6. Reads(out[1].lines, SubSeq(T, 1, Cut(T, 0)), FALSE)
    BY <1>4, <1>5, <2>3, <2>5
  <2>7. Quiet(out[1].lines) /\ ~out[1].mapper.thinkingBlockEmitted
    BY <2>2, <2>3, <2>4, <2>5
  <2>8. 0 \in Nat /\ 0 + 1 = 1
    OBVIOUS
  <2>9. Good(0)
    <3>. HIDE DEF T, K
    <3>. QED  BY <2>6, <2>7, <2>8
  <2>. HIDE DEF Good
  <2>. QED  BY <2>8, <2>9
<1>8. ASSUME NEW n \in 0 .. K - 1, n \in S PROVE n + 1 \in S
  <2>. DEFINE i == n + 1
              text == ChunkText(T, i)
              m == out[i].mapper
              step == MapEvent(Delta(text), m)
              before == SubSeq(T, 1, Cut(T, n))
              after == SubSeq(T, 1, Cut(T, i))
  <2>1. i \in 1 .. K /\ i \in 0 .. K + 2 /\ i \in Nat /\ i - 1 = n
    BY <1>1
  <2>2. Reads(out[i].lines, before, FALSE) /\ Quiet(out[i].lines) /\ ~m.thinkingBlockEmitted
    BY <1>8
  <2>3. before \o text = after
    <3>. HIDE DEF T
    <3>1. SubSeq(T, 1, Cut(T, i - 1)) \o ChunkText(T, i) = SubSeq(T, 1, Cut(T, i))
      <4>1. i \in 1 .. ChunkCount(T)
        BY <2>1 DEF T
      <4>. HIDE DEF i
      <4>. QED  BY <1>4, <4>1, NextChunk
    <3>. QED  BY <2>1, <3>1
  <2>. HIDE DEF i, before, after
  <2>4. text \in Seq(Word) /\ out[i + 1] = Emitted(out[i], Delta(text))
    BY <1>1, <2>1
  <2>5. m \in MapperState /\ out[i].lines \in Seq(WireLine)
    BY <1>3, <2>1
  <2>. HIDE DEF text, m
  <2>6. /\ step.lines \in Seq(WireLine) /\ Quiet(step.lines)
        /\ Reads(step.lines, text, FALSE)
        /\ step.mapper.thinkingBlockEmitted = m.thinkingBlockEmitted
    BY <2>4, <2>5, EventsQuiet, EventsRead
  <2>7. out[i + 1].lines = out[i].lines \o step.lines /\ out[i + 1].mapper = step.mapper
    BY <1>6, <2>1, <2>4 DEF m
  <2>. HIDE DEF step
  <2>8. Reads(out[i].lines \o step.lines, before \o text, FALSE \/ FALSE)
    BY <2>2, <2>5, <2>6, ReadsJoined
  <2>9. Reads(out[i + 1].lines, after, FALSE)
    BY <2>3, <2>7, <2>8 DEF Reads
  <2>10. Quiet(out[i + 1].lines) /\ ~out[i + 1].mapper.thinkingBlockEmitted
    BY <2>2, <2>5, <2>6, <2>7, QuietJoined
  <2>11. i \in S
    BY <2>1, <2>9, <2>10 DEF after
  <2>. QED  BY <2>11 DEF i
<1>9. K \in S
  <2>. HIDE DEF S, K
  <2>1. 0 .. K \subseteq S
    BY <1>1, <1>7, <1>8, Induction
  <2>. QED  BY <1>1, <2>1
<1>10. K + 1 \in 0 .. K + 2
  BY <1>1
<1>. DEFINE m == out[K + 1].mapper
            v == out[K + 1].lines
            D == MapEvent(Done(Bare(answer)), m).lines
<1>11. /\ Reads(v, T, FALSE) /\ Quiet(v) /\ ~m.thinkingBlockEmitted
       /\ v \in Seq(WireLine) /\ m \in MapperState
  BY <1>3, <1>4, <1>5, <1>9, <1>10
<1>12. out[K + 2].lines = v \o D
  BY <1>1, <1>6, <1>10
<1>. HIDE DEF m, v, K, T
<1>13. /\ D \in Seq(WireLine)
       /\ \E word \in Word : Says(D, Spelled(Bare(answer).calls), word) /\ Fits(word, Bare(answer))
  BY <1>2, <1>11, DoneSays
<1>14. \E thought \in BOOLEAN :
         /\ Reads(D, <<>>, thought)
         /\ req.facade # "openai" => thought = Bare(answer).thought
  BY <1>2, <1>11, DoneReads
<1>. HIDE DEF D
<1>15. PICK word \in Word : Says(D, <<>>, word) /\ Fits(word, Bare(answer))
  BY <1>2, <1>13, NoCallWire
<1>16. PICK thought \in BOOLEAN :
         Reads(D, <<>>, thought) /\ (req.facade # "openai" => thought = answer.thought)
  BY <1>2, <1>14
<1>17. Says(v \o D, <<>>, word)
  BY <1>11, <1>13, <1>15, SpeaksAndEnds
<1>18. Reads(v \o D, T, FALSE \/ thought)
  BY <1>11, <1>13, <1>16, ReadsJoined
<1>19. Reads(v \o D, T, thought)
  BY <1>18 DEF Reads
<1>. DEFINE w == Replayed(answer)[ChunkCount(answer.text) + 2].lines
<1>20. w = v \o D
  BY <1>12 DEF K, out
<1>. HIDE DEF w
<1>21. /\ \E y \in BOOLEAN : /\ Reads(w, answer.text, y)
                             /\ req.facade # "openai" => y = answer.thought
       /\ \E y \in Word : Says(w, <<>>, y) /\ Fits(y, Bare(answer))
  BY <1>15, <1>16, <1>17, <1>19, <1>20 DEF T
<1>. QED  BY <1>21 DEF w

(* What the property asks of the wire of a hit. *)
LEMMA HitAgrees ==
  ASSUME NEW w \in Seq(WireLine), NEW answer \in Reply, NEW thought \in BOOLEAN, NEW word,
         Reads(w, answer.text, thought), req.facade # "openai" => thought = answer.thought,
         Says(w, <<>>, word), word \in {"stop", "end_turn"}
  PROVE  /\ TextOf(w) = answer.text
         /\ req.facade # "openai" =>
              ((\E i \in DOMAIN w : IsThought(w[i])) <=> answer.thought)
         /\ CallLines(w) = {} /\ FinishLines(w) # {}
         /\ \A i \in FinishLines(w) : w[i].data[1] \in {"stop", "end_turn"}
<1>1. DOMAIN w = 1 .. Len(w)
  BY SeqIs
<1>2. TextOf(w) = answer.text /\ (Thinks(w) <=> thought)
  BY DEF Reads
<1>3. (\E i \in DOMAIN w : IsThought(w[i])) <=> thought
  BY <1>1, <1>2 DEF Thinks
<1>4. \A i : i \in FinishLines(w) <=> i \in 1 .. Len(w) /\ IsEnd(w[i])
  BY <1>1 DEF FinishLines, IsEnd
<1>5. Tells(w, <<>>) /\ Ends(w, word)
  BY DEF Says
<1>6. CallLines(w) = {}
  <2>1. \A l \in CallLines(w) : \E i \in DOMAIN <<>> : TRUE
    BY <1>5 DEF Tells
  <2>2. DOMAIN <<>> = {}
    OBVIOUS
  <2>. QED  BY <2>1, <2>2
<1>7. FinishLines(w) # {} /\ \A i \in FinishLines(w) : w[i].data[1] \in {"stop", "end_turn"}
  BY <1>4, <1>5 DEF Ends
<1>. QED  BY <1>2, <1>3, <1>6, <1>7

(* The hit itself. *)
LEMMA HitsReplay == ASSUME BaseInv, Replay PROVE HitsAgree'
<1>1. /\ Entry \in Reply /\ Entry.finish = "stop" /\ Entry.calls = <<>>
      /\ mapper = NewMapper /\ req.facade \in Facades
      /\ IsResponse(res')
      /\ req.stream => res'.lines = Replayed(Entry)[ChunkCount(Entry.text) + 2].lines
      /\ ~req.stream => res'.lines = JsonLines(Entry)
      /\ UNCHANGED <<req, cache>>
  BY ReplayIs
<1>2. PICK answer \in Reply : answer = Entry
  BY <1>1
<1>3. Entry' = answer /\ req.facade' = req.facade
  BY <1>1, <1>2 DEF Entry
<1>4. PICK w \in Seq(WireLine) : w = res'.lines
  BY <1>1 DEF IsResponse
<1>5. \E thought \in BOOLEAN, word \in Word :
        /\ Reads(w, answer.text, thought) /\ (req.facade # "openai" => thought = answer.thought)
        /\ Says(w, <<>>, word) /\ word \in {"stop", "end_turn"}
  <2>1. CASE req.stream
    <3>1. w = Replayed(answer)[ChunkCount(answer.text) + 2].lines
      BY <1>1, <1>2, <1>4, <2>1
    <3>2. /\ \E thought \in BOOLEAN : /\ Reads(w, answer.text, thought)
                                      /\ req.facade # "openai" => thought = answer.thought
          /\ \E word \in Word : Says(w, <<>>, word) /\ Fits(word, Bare(answer))
      BY <1>1, <3>1, ReplayReads
    <3>3. PICK word \in Word : Says(w, <<>>, word) /\ Fits(word, Bare(answer))
      BY <3>2
    <3>4. word \in {"stop", "end_turn"}
      BY <1>1, <1>2, <3>3, BareTyped DEF Fits
    <3>. QED  BY <3>2, <3>3, <3>4
  <2>2. CASE ~req.stream
    <3>1. w = JsonLines(answer) /\ answer.calls = <<>> /\ answer.finish = "stop"
      BY <1>1, <1>2, <1>4, <2>2
    <3>2. PICK thought \in BOOLEAN, word \in Word :
            /\ JsonLines(answer) = Document(answer, thought, word)
            /\ req.facade # "openai" => thought = answer.thought
            /\ answer.finish = "stop" => word \in {"stop", "end_turn"}
      BY <1>1, JsonLinesIs
    <3>3. Says(w, Spelled(answer.calls), word)
      BY <3>1, <3>2, DocumentSays
    <3>4. Says(w, <<>>, word)
      BY <3>1, <3>3, NoCallWire
    <3>5. Reads(w, answer.text, thought)
      BY <3>1, <3>2, DocumentReads
    <3>. QED  BY <3>1, <3>2, <3>4, <3>5
  <2>. QED  BY <2>1, <2>2
<1>6. PICK thought \in BOOLEAN, word \in Word :
        /\ Reads(w, answer.text, thought) /\ (req.facade # "openai" => thought = answer.thought)
        /\ Says(w, <<>>, word) /\ word \in {"stop", "end_turn"}
  BY <1>5
<1>7. /\ TextOf(w) = answer.text
      /\ req.facade # "openai" =>
           ((\E i \in DOMAIN w : IsThought(w[i])) <=> answer.thought)
      /\ CallLines(w) = {} /\ FinishLines(w) # {}
      /\ \A i \in FinishLines(w) : w[i].data[1] \in {"stop", "end_turn"}
  BY <1>6, HitAgrees
<1>. QED  BY <1>3, <1>4, <1>7 DEF HitsAgree

(* A hit is over at once; nothing is written to it later. *)
LEMMA HitsNext == ASSUME BaseInv, BaseInv', HitsAgree, [Next]_vars PROVE HitsAgree'
<1>. SUFFICES ASSUME res'.source = "cache" PROVE HitsAgree'
  BY DEF HitsAgree
<1>1. pc' = "ended" /\ (res.source = "cache" => pc = "ended")
  BY DEF BaseInv, PhaseInv
<1>2. CASE Replay
  BY <1>2, HitsReplay
<1>3. CASE Authenticate \/ RateLimit \/ ValidateForStreaming \/ MapRequest \/ Prepare
  <2>1. /\ pc \in Early
        /\ \/ pc' \in Early
           \/ \E status \in Nat, code \in Word : Reject(status, code)
    BY <1>3, EarlyStep
  <2>2. PICK status \in Nat, code \in Word : Reject(status, code)
    BY <1>1, <2>1 DEF Early
  <2>3. /\ res = NewResponse /\ req.facade \in Facades
    BY <2>1 DEF BaseInv, PhaseInv, Early
  <2>4. res'.source = None
    BY <2>2, <2>3, FreshTyped, RejectIs
  <2>. QED  BY <2>4 DEF None
<1>4. CASE StoreAndEnd \/ CompleteChat \/ Fail \/ Abandon \/ LateDelta
  <2>1. CASE StoreAndEnd
    <3>1. pc = "store" /\ res' = [res EXCEPT !.ended = TRUE]
      BY <2>1 DEF StoreAndEnd
    <3>2. res.source = "live" /\ IsResponse(res)
      BY <3>1, LiveFacts
    <3>3. res'.source = "live"
      BY <3>1, <3>2 DEF IsResponse
    <3>. QED  BY <3>3
  <2>2. CASE CompleteChat
    BY <2>2, CompleteIs
  <2>3. CASE Fail \/ Abandon
    <3>1. PICK abandoned \in BOOLEAN : CallFails(abandoned)
      BY <2>3 DEF Fail, Abandon
    <3>2. /\ pc = "live"
          /\ \/ UNCHANGED <<pc, res>>
             \/ \E status \in Nat, code \in Word : Reject(status, code)
      BY <3>1, FailIs
    <3>3. PICK status \in Nat, code \in Word : Reject(status, code)
      BY <1>1, <3>2
    <3>4. req.facade \in Facades /\ IsResponse(res) /\ res.source = "live"
      BY <3>2, LiveFacts
    <3>. QED  BY <3>3, <3>4, RejectIs
  <2>4. CASE LateDelta
    BY <2>4, LateIs
  <2>. QED  BY <1>4, <2>1, <2>2, <2>3, <2>4
<1>5. CASE \/ Arrive \/ Close \/ Miss \/ OpenStream \/ SdkText \/ SdkThought \/ SdkCall \/ SdkEnds
           \/ EmitDone \/ Expire \/ Finished
  <2>1. pc' # "ended"
    BY <1>5 DEF Arrive, Close, Miss, OpenStream, SdkText, SdkThought, SdkCall, SdkEnds, EmitDone,
                Expire, Finished, Live, vars
  <2>. QED  BY <1>1, <2>1
<1>6. CASE UNCHANGED vars
  BY <1>6 DEF HitsAgree, Entry, vars
<1>. QED  BY <1>2, <1>3, <1>4, <1>5, <1>6 DEF Next

(* An answer from the cache is the stored answer, in every facade and      *)
(* form: the same text whatever the size of the chunks, the same thought,  *)
(* a normal end and no tool call (StreamCacheReplayService.replay).        *)
THEOREM HitsFaithful == Spec => []HitsAgree
<1>1. Init => BaseInv /\ HitsAgree
  <2>1. Init => HitsAgree
    BY DEF Init, HitsAgree, NewResponse, None
  <2>. QED  BY <2>1, BaseInit
<1>2. (BaseInv /\ HitsAgree) /\ [Next]_vars => (BaseInv /\ HitsAgree)'
  BY BaseNext, HitsNext
<1>. QED  BY <1>1, <1>2, PTL DEF Spec

=============================================================================
