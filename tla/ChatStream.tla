----------------------------- MODULE ChatStream -----------------------------
(***************************************************************************)
(* A live SSE stream: ChatService.executeStreamMiss around                 *)
(* ChatProviderCallService.streamOnce, run by the ResilientExecutor whose  *)
(* actions this module composes with what they write to the client.        *)
(*                                                                         *)
(* streamOnce writes every chunk to the response as it arrives, so what an *)
(* attempt has written stays written when the attempt fails and another    *)
(* one begins; and an attempt that lost its race with the timer still      *)
(* holds the emit function.                                                *)
(*                                                                         *)
(* The text of an attempt is a sequence of chunks; chunk i of call c is    *)
(* the pair <<c, i>>, so texts of different attempts are never confused.   *)
(***************************************************************************)
EXTENDS ResilientExecutor, Sequences

CONSTANTS MaxChunks   \* longest text a provider call streams

ASSUME MaxChunksAssumption == MaxChunks \in Nat \ {0}

VARIABLES
    tooling,        \* isToolingRequest(requestBody)
    modelFallback,  \* models[alias].fallback of the configuration
    metaEmitted,    \* streamMeta.metaEmitted.value, shared by all attempts
    opened,         \* the calls whose provider stream was obtained
    assembled,      \* assembledText of each call
    finishReason,   \* of the attempt that succeeded
    wire,           \* the SSE events written to the response
    service,        \* "running", "storing", "failing" or "ended" (after res.end())
    cached,         \* the text handed to setCachedIfAllowed, or NoText
    cooldown        \* setCooldown(gatewayKey, primary provider) was called

requestVars == <<tooling, modelFallback>>
streamVars == <<tooling, modelFallback, metaEmitted, opened, assembled, finishReason,
                wire, service, cached, cooldown>>
vars == <<execVars, streamVars>>

NoText == <<>>   \* an empty text is never stored
FinishReason == {"stop", "length"}
NoCall == <<NoAlias, 0>>
MetaEvent(c) == [name |-> "meta", call |-> c, chunk |-> 0]
DeltaEvent(c, i) == [name |-> "delta", call |-> c, chunk |-> i]
DoneEvent(c) == [name |-> "done", call |-> c, chunk |-> 0]

-----------------------------------------------------------------------------
\* The controller's emit: nothing is written once the response has ended.
FaultEmitUnguarded(event) == wire' = Append(wire, event)
emit(event) ==
    wire' = IF service = "ended" THEN wire ELSE Append(wire, event)

\* fallbackAlias as executeStreamMiss passes it to the executor.
FallbackFor(isTooling, configured) == IF isTooling THEN NoAlias ELSE configured

\* Start of executeStreamMiss.  The configuration schema refuses an alias that
\* falls back to itself.
StreamInit ==
    /\ Init
    /\ tooling \in BOOLEAN
    /\ modelFallback \in (Alias \cup {NoAlias}) \ {options.primaryAlias}
    /\ options.fallbackAlias = FallbackFor(tooling, modelFallback)
    /\ metaEmitted = FALSE
    /\ opened = {}
    /\ assembled = [c \in Call |-> <<>>]
    /\ finishReason = "stop"
    /\ wire = <<>>
    /\ service = "running"
    /\ cached = NoText
    /\ cooldown = FALSE

BeginExecution == ValidateFallbackChain /\ UNCHANGED streamVars

\* streamOnce up to the first chunk: the first attempt to get a stream emits meta.
FaultMetaPerAttempt ==
    /\ StartAttempt
    /\ opened' = opened \cup {CurrentCall}
    /\ emit(MetaEvent(CurrentCall))
    /\ metaEmitted' = TRUE
    /\ UNCHANGED <<requestVars, assembled, finishReason, service, cached, cooldown>>

OpenStream ==
    /\ StartAttempt
    /\ opened' = opened \cup {CurrentCall}
    /\ IF metaEmitted THEN UNCHANGED wire ELSE emit(MetaEvent(CurrentCall))
    /\ metaEmitted' = TRUE
    /\ UNCHANGED <<requestVars, assembled, finishReason, service, cached, cooldown>>

\* registry.resolve, resolveProviderCallOptions or a missing provider.stream throws
\* before there is a stream: the attempt can only fail.
RefuseStream == StartAttempt /\ UNCHANGED streamVars

\* One turn of "for await (const textChunk of streamResult.textStream)".  The loop
\* of an abandoned call turns until its SDK has noticed the abort signal.
EmitDelta(c) ==
    LET i == Len(assembled[c]) + 1
    IN  /\ c \in opened
        /\ calls[c] \in {"open", "late"}
        /\ i <= MaxChunks
        /\ assembled' = [assembled EXCEPT ![c] = Append(@, <<c, i>>)]
        /\ emit(DeltaEvent(c, i))
        /\ UNCHANGED <<execVars, requestVars, metaEmitted, opened, finishReason, service,
                       cached, cooldown>>

\* The locals of a streamOnce that has thrown, or that nobody awaits, are gone.
Unwind(c) ==
    /\ assembled' = [assembled EXCEPT ![c] = <<>>]
    /\ UNCHANGED <<requestVars, metaEmitted, opened, finishReason, wire, service, cached,
                   cooldown>>

\* The text stream, or one of the awaited getters after it, throws.
FailStream(e) == AttemptFails(e) /\ Unwind(CurrentCall)

TimeoutStream ==
    /\ CurrentCall \in opened
    /\ AttemptTimesOut
    /\ UNCHANGED streamVars

RetryStream == WakeUp /\ UNCHANGED streamVars

LateStreamEnds(c) == LateCallSettles(c) /\ Unwind(c)

CompleteStream ==
    /\ CurrentCall \in opened
    /\ AttemptSucceeds
    /\ finishReason' \in FinishReason
    /\ UNCHANGED <<requestVars, metaEmitted, opened, assembled, wire, service, cached, cooldown>>

\* emit(doneEvent) after the executor has returned.
EmitDone ==
    /\ service = "running"
    /\ outcome.tag = "ok"
    /\ emit(DoneEvent(CurrentCall))
    /\ service' = "storing"
    /\ UNCHANGED <<execVars, requestVars, metaEmitted, opened, assembled, finishReason,
                   cached, cooldown>>

\* didFallback, the tooling gate and shouldStoreChatResponse.
FaultStorableIgnoresFallback == ~ tooling /\ finishReason = "stop" /\ assembled[CurrentCall] # <<>>
Storable ==
    /\ ~ outcome.didFallback
    /\ ~ tooling
    /\ finishReason = "stop"
    /\ assembled[CurrentCall] # <<>>

\* The awaited dual write and res.end().  The cache may be off or unavailable.
StoreAndEnd ==
    /\ service = "storing"
    /\ cached' \in IF Storable THEN {NoText, assembled[CurrentCall]} ELSE {NoText}
    /\ service' = "ended"
    /\ UNCHANGED <<execVars, requestVars, metaEmitted, opened, assembled, finishReason,
                   wire, cooldown>>

\* handleProviderError: a 429 puts the primary provider into cooldown.
FaultCooldownOnAnyError ==
    /\ service = "running"
    /\ outcome.tag = "error"
    /\ cooldown' = TRUE
    /\ service' = "failing"
    /\ UNCHANGED <<execVars, requestVars, metaEmitted, opened, assembled, finishReason,
                   wire, cached>>

HandleProviderError ==
    /\ service = "running"
    /\ outcome.tag = "error"
    /\ cooldown' = (outcome.error.kind # "other" /\ outcome.error.status = 429)
    /\ service' = "failing"
    /\ UNCHANGED <<execVars, requestVars, metaEmitted, opened, assembled, finishReason,
                   wire, cached>>

\* The rethrown error reaches the controller: finally { res.end() }.
FaultNoFinally == FALSE /\ UNCHANGED vars
EndAfterError ==
    /\ service = "failing"
    /\ service' = "ended"
    /\ UNCHANGED <<execVars, requestVars, metaEmitted, opened, assembled, finishReason,
                   wire, cached, cooldown>>

StreamNext ==
    \/ BeginExecution
    \/ OpenStream
    \/ RefuseStream
    \/ \E c \in Call : EmitDelta(c)
    \/ \E e \in Errors : FailStream(e)
    \/ TimeoutStream
    \/ RetryStream
    \/ \E c \in Call : LateStreamEnds(c)
    \/ CompleteStream
    \/ EmitDone
    \/ StoreAndEnd
    \/ HandleProviderError
    \/ EndAfterError

\* Fairness of the event loop and of its timers; a provider may hang or refuse.
StreamFairness ==
    /\ WF_vars(BeginExecution)
    /\ WF_vars(OpenStream \/ RefuseStream)
    /\ WF_vars(TimeoutStream \/ (CurrentCall \notin opened /\ \E e \in Errors : FailStream(e)))
    /\ WF_vars(RetryStream)
    /\ WF_vars(EmitDone)
    /\ WF_vars(StoreAndEnd)
    /\ WF_vars(HandleProviderError)
    /\ WF_vars(EndAfterError)

StreamSafetySpec == StreamInit /\ [][StreamNext]_vars
StreamSpec == StreamSafetySpec /\ StreamFairness

-----------------------------------------------------------------------------
ChunksUpTo(c, n) == [i \in 1 .. n |-> <<c, i>>]
IsDeltaOf(ev, c) == ev.name = "delta" /\ ev.call = c
Winner == CurrentCall

\* The events w send exactly this text of call c: every chunk, and in its order.
Delivered(w, c, text) ==
    /\ \A n \in 1 .. Len(text) : \E i \in 1 .. Len(w) : w[i] = DeltaEvent(c, n)
    /\ \A i \in 1 .. Len(w) : IsDeltaOf(w[i], c) => w[i].chunk \in 1 .. Len(text)
    /\ \A i, j \in 1 .. Len(w) :
          IsDeltaOf(w[i], c) /\ IsDeltaOf(w[j], c) /\ i < j => w[i].chunk < w[j].chunk

\* meta opens the stream and comes once however many attempts follow, done comes at
\* most once, and a stream that failed has none (SPEC-CHAT-STREAMING F-3, F-5).
StreamShape ==
    /\ wire # <<>> => wire[1].name = "meta"
    /\ \A i \in 2 .. Len(wire) : wire[i].name # "meta"
    /\ \A i, j \in 1 .. Len(wire) : wire[i].name = "done" /\ wire[j].name = "done" => i = j
    /\ outcome.tag = "error" => \A i \in 1 .. Len(wire) : wire[i].name # "done"

\* The text kept for later requests is the whole text of the attempt that succeeded,
\* on the requested alias, with nothing of failed or abandoned attempts in it, and it
\* is what the client of this stream was sent of that attempt.
CachedIsWinnersText ==
    cached # NoText =>
        /\ outcome.tag = "ok" /\ outcome.usedAlias = options.primaryAlias
        /\ cached = ChunksUpTo(Winner, Len(cached))
        /\ Delivered(wire, Winner, cached)


\* How far the code is from DoneEndsStream: what follows done on the wire are deltas of
\* attempts that had timed out, never a delta of the attempt done speaks for, so a client
\* that stops reading at done has the whole answer.
AfterDoneOnlyAbandoned ==
    \A i, j \in 1 .. Len(wire) :
        wire[i].name = "done" /\ i < j =>
            wire[j].name = "delta" /\ wire[j].call # Winner
                /\ calls[wire[j].call] \in {"late", "closed"}

\* A cooldown is set only when the primary provider itself answered 429 last.
CooldownEarned == cooldown => primaryError.status = 429 /\ outcome.tag = "error"

\* Nothing reaches the client after res.end(), though abandoned attempts go on.
SilentAfterEnd == [][service = "ended" => wire' = wire]_vars

\* Every stream is closed, though a provider may hang.
StreamCloses == <>(service = "ended")

=============================================================================
