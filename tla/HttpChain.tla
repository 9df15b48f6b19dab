----------------------------- MODULE HttpChain ------------------------------
(***************************************************************************)
(* The response of one request behind httpserver.Chain: the operations that  *)
(* write to it, as functions of its state, and the steps of the middlewares   *)
(* around the handler.  net/http is external: the first status sent stands,   *)
(* and a write or a flush sends 200 when none was.                           *)
(***************************************************************************)
EXTENDS Naturals, Sequences

CONSTANT RequestId    \* the request's id: the edge's, or a minted one

NoId == 0
ASSUME IdAssumption == RequestId \in Nat \ {NoId}

Codes == { "method_not_allowed", "invalid_json", "empty_messages", "missing_prompt",
           "missing_identity", "forbidden", "insufficient_balance",
           "provider_unavailable", "provider_error", "upstream_call_failed",
           "streaming_not_supported", "agent_error", "internal_error" }

\* codeMeta; a code it does not have is an internal error.
StatusOf(code) ==
    CASE code = "method_not_allowed" -> 405
      [] code \in {"invalid_json", "empty_messages", "missing_prompt"} -> 400
      [] code = "missing_identity" -> 401
      [] code = "forbidden" -> 403
      [] code = "insufficient_balance" -> 402
      [] code = "provider_unavailable" -> 503
      [] code \in {"provider_error", "upstream_call_failed"} -> 502
      [] OTHER -> 500

Statuses == {0, 200} \cup {StatusOf(code) : code \in Codes}

-----------------------------------------------------------------------------
(***************************************************************************)
(* What a body is made of.  Answers, like ids, are numbers.                  *)
(***************************************************************************)
FrameKinds == {"text", "result", "stop", "error", "done", "completion", "envelope"}
Frames == [kind : FrameKinds, data : Nat]
Frame(kind, data) == [kind |-> kind, data |-> data]
EmptyAnswer == 0
Text(answer) == Frame("text", answer)
Result(c) == Frame("result", c)
Stop == Frame("stop", 0)
ErrorContent == Frame("error", 0)
Done == Frame("done", 0)
Completion(answer) == Frame("completion", answer)
Envelope(id) == Frame("envelope", id)

(***************************************************************************)
(* A response: what the client has (status, body), what the statusRecorder    *)
(* took down, the handler's bufio buffer, the X-Request-Id header.            *)
(***************************************************************************)
Responses ==
    [ status : Statuses, body : Seq(Frames), recorded : Statuses,
      wroteHeader : BOOLEAN, buffer : Seq(Frames), header : {RequestId, NoId} ]

NewResponse ==
    [ status |-> 0, body |-> <<>>, recorded |-> 0, wroteHeader |-> FALSE,
      buffer |-> <<>>, header |-> NoId ]

\* http.ResponseWriter
SendHeader(r, status) ==
    IF r.status = 0 THEN [r EXCEPT !.status = status] ELSE r

Send(r, frames) ==
    [SendHeader(r, 200) EXCEPT !.body = @ \o frames]

\* statusRecorder
WriteHeader(r, status) ==
    IF r.wroteHeader THEN r
    ELSE SendHeader([r EXCEPT !.recorded = status, !.wroteHeader = TRUE], status)

\* Mutant: a write without a WriteHeader is not taken down.
Write_Unrecorded(r, frames) == Send(r, frames)

Write(r, frames) ==
    Send(IF r.wroteHeader THEN r
         ELSE [r EXCEPT !.recorded = 200, !.wroteHeader = TRUE], frames)

\* Passed through: the recorder does not learn that a status was sent.
Flush(r) == SendHeader(r, 200)

\* The id in the context, or the one in the header where there is no context.
EnvelopeFor(r, contextId) == Envelope(IF contextId = NoId THEN r.header ELSE contextId)

\* Mutant: an envelope under the status 200.
WriteError_BodyOnly(r, code) == Write(r, <<EnvelopeFor(r, RequestId)>>)

\* WriteError as the handler calls it, through the recorder, and as
\* RecoverMiddleware does, outside of it and without the inner context.
WriteError(r, code) ==
    Write(WriteHeader(r, StatusOf(code)), <<EnvelopeFor(r, RequestId)>>)

RecoverError(r) ==
    Send(SendHeader(r, StatusOf("internal_error")), <<EnvelopeFor(r, NoId)>>)

-----------------------------------------------------------------------------
(***************************************************************************)
(* Server-sent events.  writer is a bufio.Writer over the recorder; the       *)
(* stream helpers of httpserver write to the recorder directly.              *)
(***************************************************************************)
WriteSSE(r, frame) == [r EXCEPT !.buffer = Append(@, frame)]

FlushWriter(r) ==
    IF r.buffer = <<>> THEN r
    ELSE [Write(r, r.buffer) EXCEPT !.buffer = <<>>]

\* Mutant: the chunk is left in the buffer for the next one to flush.
EmitDelta_Buffered(r, delta) == Flush(WriteSSE(r, delta))

EmitDelta(r, delta) == Flush(FlushWriter(WriteSSE(r, delta)))

\* Mutant: what the agents did before, the error without [DONE].
EmitStreamErrorContent_NoDone(r) == Flush(Write(r, <<ErrorContent>>))

EmitStreamErrorContent(r) ==
    Flush(Write(Flush(Write(r, <<ErrorContent>>)), <<Done>>))

EmitStreamDone(r) == Flush(Write(r, <<Done>>))

\* The usual ending: BuildDoneChunk and [DONE] through the buffer, one flush.
EndStream(r) == Flush(FlushWriter(WriteSSE(WriteSSE(r, Stop), Done)))

\* Mutant: the break without [DONE].
EndBrokenStream_NoDone(r) == Flush(FlushWriter(WriteSSE(r, Stop)))

\* A handler that broke out of its loop after the last chunk.
EndBrokenStream(r) ==
    EmitStreamDone(Flush(FlushWriter(WriteSSE(r, Stop))))

WriteNonStreamingResponse(r, answer) == Write(r, <<Completion(answer)>>)

\* The answer of FindRepeatedQuestion is never empty.
WriteRepeatedStream(r, answer) == EndStream(EmitDelta(r, Text(answer)))
WriteRepeatedResponse(r, answer) == WriteNonStreamingResponse(r, answer)

-----------------------------------------------------------------------------
(***************************************************************************)
(* The other end of a non-streaming request: HTTPDelegateTool.InvokableRun    *)
(* of a supervisor.  Only the first JSON value of the body is decoded; an     *)
(* envelope decodes to a response without choices.                           *)
(***************************************************************************)
DelegateReads(r) ==
    LET first == IF r.body = <<>> THEN Done ELSE Head(r.body)
    IN  CASE r.status >= 400 -> "HTTP error"
          [] r.status < 400 /\ first.kind = "completion" ->
                IF first.data = EmptyAnswer THEN "empty answer" ELSE "answer"
          [] r.status < 400 /\ first.kind = "envelope" -> "no answer"
          [] OTHER -> "failed to decode"

-----------------------------------------------------------------------------
VARIABLES
    httpPc,     \* where the request's goroutine is
    stream,     \* did the client ask for a stream?
    response,   \* as above
    record      \* the status in the access record, or NoRecord

chainVars == <<httpPc, stream, response, record>>

NoRecord == 1
HttpPcs == {"arriving", "handler", "streaming", "waiting", "returning",
            "panicking", "ended"}

ChainTypeOK ==
    /\ httpPc \in HttpPcs
    /\ stream \in BOOLEAN
    /\ response \in Responses
    /\ record \in Statuses \cup {NoRecord}

ChainInit ==
    /\ httpPc = "arriving"
    /\ stream \in BOOLEAN
    /\ response = NewResponse
    /\ record = NoRecord

\* Recover, RequestID (the id goes into the header and the context) and AccessLog
\* (a fresh recorder), down to the handler.
EnterChain ==
    /\ httpPc = "arriving"
    /\ response' = [response EXCEPT !.header = RequestId]
    /\ httpPc' = "handler"
    /\ UNCHANGED <<stream, record>>

\* The handler returned: the access record, and net/http's own 200 if nothing
\* was written.
LogAccess ==
    /\ httpPc = "returning"
    /\ record' = response.recorded
    /\ response' = SendHeader(response, 200)
    /\ httpPc' = "ended"
    /\ UNCHANGED stream

\* A panic passes AccessLogMiddleware, which has no defer, on its way to Recover.
Recover ==
    /\ httpPc = "panicking"
    /\ response' = RecoverError(response)
    /\ httpPc' = "ended"
    /\ UNCHANGED <<stream, record>>
=============================================================================
