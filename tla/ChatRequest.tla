---------------------------- MODULE ChatRequest -----------------------------
(***************************************************************************)
(* A chat completion from end to end: the middlewares of HttpChain around a   *)
(* handler, which refuses the request, replays a repeated question, or starts *)
(* an AgentRun and writes what comes of it.  The handlers live in the agents, *)
(* outside this repository; they are modelled as the helpers ask to be used.  *)
(***************************************************************************)
EXTENDS HttpChain, AgentRun

VARIABLES taken,      \* results the stream has written, in order
          early       \* did the handler flush its headers before any content?

chatVars == <<httpPc, stream, response, record, runPc, issued, call, balance,
              others, queue, events, shown, taken, early>>

ChatInit ==
    /\ ChainInit
    /\ RunInit
    /\ taken = <<>>
    /\ early = FALSE

-----------------------------------------------------------------------------
(***************************************************************************)
(* The handler.                                                             *)
(***************************************************************************)
Answer == 1

Refuse ==
    /\ httpPc = "handler"
    /\ \E code \in Codes : response' = WriteError(response, code)
    /\ httpPc' = "returning"
    /\ UNCHANGED <<stream, record, taken, early>>
    /\ UNCHANGED runVars

\* FindRepeatedQuestion found an answer: no run, no charge.
ReplayAnswer ==
    /\ httpPc = "handler"
    /\ response' = IF stream THEN WriteRepeatedStream(response, Answer)
                             ELSE WriteRepeatedResponse(response, Answer)
    /\ httpPc' = "returning"
    /\ UNCHANGED <<stream, record, taken, early>>
    /\ UNCHANGED runVars

\* The run begins; a stream may send its headers first.
Serve ==
    /\ httpPc = "handler"
    /\ StartRun
    /\ \E flushed \in {FALSE, stream} :
          /\ early' = flushed
          /\ response' = IF flushed THEN Flush(response) ELSE response
    /\ httpPc' = IF stream THEN "streaming" ELSE "waiting"
    /\ UNCHANGED <<stream, record, taken>>

\* A result of a tool, as a delta of its own.
StreamResult ==
    /\ httpPc = "streaming"
    /\ TakeEvent
    /\ response' = EmitDelta(response, Result(Head(events)))
    /\ taken' = Append(taken, Head(events))
    /\ UNCHANGED <<httpPc, stream, record, early>>

\* The run has ended and everything it sent was written: the final text and the
\* end of the stream; the error as content, or as an envelope when nothing was
\* written yet.
EndOfStream ==
    /\ httpPc = "streaming"
    /\ events = <<>>
    /\ \/ /\ runPc = "finished"
          /\ LET answered == EmitDelta(response, Text(Answer))
             IN  response' \in {EndStream(answered), EndBrokenStream(answered)}
       \/ /\ runPc = "failed"
          /\ response' = EmitStreamErrorContent(response)
       \/ /\ runPc = "failed"
          /\ taken = <<>>
          /\ response' = WriteError(response, "agent_error")
    /\ httpPc' = "returning"
    /\ UNCHANGED <<stream, record, taken, early>>
    /\ UNCHANGED runVars

\* Without a stream the results are of no interest, only the answer is.
Respond ==
    /\ httpPc = "waiting"
    /\ \/ /\ runPc = "finished"
          /\ \E answer \in {Answer, EmptyAnswer} :
                response' = WriteNonStreamingResponse(response, answer)
       \/ /\ runPc = "failed"
          /\ response' = WriteError(response, "agent_error")
    /\ httpPc' = "returning"
    /\ UNCHANGED <<stream, record, taken, early>>
    /\ UNCHANGED runVars

HandlerStep ==
    Refuse \/ ReplayAnswer \/ Serve \/ StreamResult \/ EndOfStream \/ Respond

\* Anything above may panic, also after it wrote its last byte.
Panic ==
    /\ httpPc \in {"handler", "streaming", "waiting", "returning"}
    /\ httpPc' = "panicking"
    /\ UNCHANGED <<stream, response, record, taken, early>>
    /\ UNCHANGED runVars

ChainStep == (EnterChain \/ LogAccess \/ Recover) /\ UNCHANGED <<runVars, taken, early>>

\* The run's goroutines go on whatever becomes of the request.
RunStep == (RunnerStep \/ \E c \in Calls : CallStep(c)) /\ UNCHANGED <<chainVars, taken, early>>

Others == OtherCharge /\ UNCHANGED <<chainVars, taken, early>>

ChatNext == ChainStep \/ HandlerStep \/ Panic \/ RunStep \/ Others

\* The Go scheduler runs the request's goroutine and the run's; the model, the
\* sidecar, the sibling and the tools answer or time out.
ChatFairness ==
    /\ WF_chatVars(ChainStep)
    /\ WF_chatVars(HandlerStep)
    /\ WF_chatVars(RunnerStep /\ UNCHANGED <<chainVars, taken, early>>)
    /\ \A c \in Calls : WF_chatVars(CallStep(c) /\ UNCHANGED <<chainVars, taken, early>>)

ChatSpec == ChatInit /\ [][ChatNext]_chatVars /\ ChatFairness

-----------------------------------------------------------------------------
ChatTypeOK ==
    /\ ChainTypeOK
    /\ RunTypeOK
    /\ taken \in Seq(Calls)
    /\ early \in BOOLEAN

Kind(i) == response.body[i].kind
Positions(kind) == {i \in DOMAIN response.body : Kind(i) = kind}

Returned == httpPc = "ended" /\ record # NoRecord
Recovered == httpPc = "ended" /\ record = NoRecord

\* A stream that did not end in a panic is one the client can read to its end:
\* it begins with every result the run reported, once and in order, [DONE] is there
\* once and last, and nothing is left in a buffer. Otherwise it is a lone envelope,
\* which is no end of a stream where the handler had flushed its headers before
\* (EmitDelta, EmitStreamErrorContent, EmitStreamDone, WriteRepeatedStream).
StreamReadToItsEnd ==
    Returned /\ stream =>
        \/ Positions("envelope") = {1} /\ Len(response.body) = 1
        \/ /\ response.status = 200
           /\ response.buffer = <<>>
           /\ Positions("done") = {Len(response.body)}
           /\ Positions("result") = DOMAIN taken
           /\ \A i \in DOMAIN taken : response.body[i].data = taken[i]
           /\ runPc = "finished" =>
                 \A c \in Issued : \E i \in DOMAIN taken : taken[i] = c

\* The access record has the status the client was sent, unless the handler had
\* flushed before it wrote: the 200 of that flush passes the recorder by
\* (statusRecorder, AccessLogMiddleware).
RecordHasTheStatus ==
    Returned /\ record # response.status => early /\ response.status = 200

\* Wherever the handler panics, no result it took from the run is lost: each is
\* in the body, at its place, and none in a buffer. What follows them ends with an
\* envelope that bears the id of the request (EmitDelta, RecoverMiddleware). The
\* comment at middleware.go:172-175 calls that write a no-op for the body once the
\* headers are sent; the code appends it, and the property is about what it does.
PanicLosesNoResult ==
    Recovered =>
        /\ response.buffer = <<>>
        /\ \A i \in DOMAIN taken :
              i \in DOMAIN response.body /\ response.body[i] = Result(taken[i])
        /\ response.body[Len(response.body)] = Envelope(RequestId)

\* A supervisor that delegated to this agent is told an answer if and only if one
\* was written, whatever happened next, and an error in all other cases
\* (HTTPDelegateTool.InvokableRun).
DelegateHearsTheAnswer ==
    httpPc = "ended" /\ ~stream =>
        DelegateReads(response) =
            CASE Positions("completion") = {} -> "HTTP error"
              [] Completion(Answer) = response.body[1] -> "answer"
              [] OTHER -> "empty answer"

\* Whatever the run, the tools and the handler do, every response ends, and the
\* client can tell: an event stream has its [DONE], any other response is an answer
\* or an error. Two streams end without: one whose handler panicked after the
\* stream had begun, and one whose handler answered an error with WriteError after
\* it had flushed the headers of the stream (EmitStreamErrorContent: "clients hang
\* waiting").
EndsWithoutDone == record = NoRecord \/ (early /\ Positions("envelope") = {1})

EveryResponseTerminated ==
    httpPc = "handler" ~>
        /\ httpPc = "ended"
        /\ IF stream /\ response.status = 200
           THEN Positions("done") # {} \/ EndsWithoutDone
           ELSE 1 \in Positions("completion") \cup Positions("envelope")

-----------------------------------------------------------------------------
\* What comments say and the code does not do.

\* "the OpenAI-compatible stream contract ends every stream with data: [DONE]"
\* (stream.go:15): a stream of which a chunk was sent has it when it is over.
EveryStreamEndsWithDone ==
    httpPc = "ended" /\ Positions("result") \cup Positions("text") # {} => Positions("done") # {}
=============================================================================
