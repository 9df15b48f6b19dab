------------------------- MODULE ChatRequestProofs --------------------------
(***************************************************************************)
(* Theorems about ChatRequest, for any number of calls, any set of billed     *)
(* kinds, any balances and any number of charges by others.                   *)
(***************************************************************************)
EXTENDS ChatRequest, SequenceTheorems, TLAPS

-----------------------------------------------------------------------------
(***************************************************************************)
(* The operations on a response keep its type.                               *)
(***************************************************************************)
LEMMA StatusTypes ==
    /\ 0 \in Statuses /\ 200 \in Statuses
    /\ \A code \in Codes : StatusOf(code) \in Statuses
    /\ "internal_error" \in Codes /\ "agent_error" \in Codes
BY DEF Statuses, Codes

LEMMA FrameTypes ==
    /\ Stop \in Frames /\ Done \in Frames /\ ErrorContent \in Frames
    /\ \A n \in Nat : /\ Text(n) \in Frames /\ Result(n) \in Frames
                      /\ Completion(n) \in Frames /\ Envelope(n) \in Frames
BY DEF Frames, FrameKinds, Frame, Stop, Done, ErrorContent, Text, Result, Completion, Envelope

LEMMA SendHeaderType ==
    ASSUME NEW r \in Responses, NEW status \in Statuses
    PROVE  SendHeader(r, status) \in Responses
BY DEF Responses, SendHeader

LEMMA SendType ==
    ASSUME NEW r \in Responses, NEW frames \in Seq(Frames)
    PROVE  Send(r, frames) \in Responses
<1> DEFINE s == SendHeader(r, 200)
<1>1. s \in Responses
  BY SendHeaderType, StatusTypes
<1>2. s.body \o frames \in Seq(Frames)
  BY <1>1, ConcatProperties DEF Responses
<1> HIDE DEF s
<1>3. [s EXCEPT !.body = s.body \o frames] \in Responses
  BY <1>1, <1>2 DEF Responses
<1> QED BY <1>3 DEF Send, s

LEMMA WriteHeaderType ==
    ASSUME NEW r \in Responses, NEW status \in Statuses
    PROVE  WriteHeader(r, status) \in Responses
<1>1. [r EXCEPT !.recorded = status, !.wroteHeader = TRUE] \in Responses
  BY DEF Responses
<1> QED BY <1>1, SendHeaderType DEF WriteHeader

LEMMA WriteType ==
    ASSUME NEW r \in Responses, NEW frames \in Seq(Frames)
    PROVE  Write(r, frames) \in Responses
<1>1. [r EXCEPT !.recorded = 200, !.wroteHeader = TRUE] \in Responses
  BY StatusTypes DEF Responses
<1> QED BY <1>1, SendType DEF Write

LEMMA FlushType ==
    ASSUME NEW r \in Responses
    PROVE  Flush(r) \in Responses
BY SendHeaderType, StatusTypes DEF Flush

LEMMA WriteSSEType ==
    ASSUME NEW r \in Responses, NEW frame \in Frames
    PROVE  WriteSSE(r, frame) \in Responses
<1>1. Append(r.buffer, frame) \in Seq(Frames)
  BY AppendProperties DEF Responses
<1>2. [r EXCEPT !.buffer = Append(r.buffer, frame)] \in Responses
  BY <1>1 DEF Responses
<1> QED BY <1>2 DEF WriteSSE

LEMMA FlushWriterType ==
    ASSUME NEW r \in Responses
    PROVE  FlushWriter(r) \in Responses
<1> DEFINE w == Write(r, r.buffer)
<1>1. r.buffer \in Seq(Frames)
  BY DEF Responses
<1>2. w \in Responses
  BY <1>1, WriteType
<1>3. <<>> \in Seq(Frames)
  BY EmptySeq
<1> HIDE DEF w
<1>4. [w EXCEPT !.buffer = <<>>] \in Responses
  BY <1>2, <1>3 DEF Responses
<1> QED BY <1>2, <1>4 DEF FlushWriter, w

LEMMA EmitDeltaType ==
    ASSUME NEW r \in Responses, NEW frame \in Frames
    PROVE  EmitDelta(r, frame) \in Responses
BY WriteSSEType, FlushWriterType, FlushType DEF EmitDelta

LEMMA EnvelopeType ==
    ASSUME NEW r \in Responses, NEW id \in {RequestId, NoId}
    PROVE  EnvelopeFor(r, id) \in Frames
BY FrameTypes, IdAssumption DEF EnvelopeFor, Responses, NoId

LEMMA WriteErrorType ==
    ASSUME NEW r \in Responses, NEW code \in Codes
    PROVE  WriteError(r, code) \in Responses
<1>1. WriteHeader(r, StatusOf(code)) \in Responses
  BY WriteHeaderType, StatusTypes
<1>2. <<EnvelopeFor(r, RequestId)>> \in Seq(Frames)
  BY EnvelopeType
<1> QED BY <1>1, <1>2, WriteType DEF WriteError

LEMMA RecoverErrorType ==
    ASSUME NEW r \in Responses
    PROVE  RecoverError(r) \in Responses
<1>1. SendHeader(r, StatusOf("internal_error")) \in Responses
  BY SendHeaderType, StatusTypes
<1>2. <<EnvelopeFor(r, NoId)>> \in Seq(Frames)
  BY EnvelopeType
<1> QED BY <1>1, <1>2, SendType DEF RecoverError

LEMMA EmitStreamErrorContentType ==
    ASSUME NEW r \in Responses
    PROVE  EmitStreamErrorContent(r) \in Responses
<1>1. <<ErrorContent>> \in Seq(Frames) /\ <<Done>> \in Seq(Frames)
  BY FrameTypes
<1> QED BY <1>1, WriteType, FlushType DEF EmitStreamErrorContent

LEMMA EndStreamType ==
    ASSUME NEW r \in Responses
    PROVE  EndStream(r) \in Responses
BY WriteSSEType, FlushWriterType, FlushType, FrameTypes DEF EndStream

LEMMA EndBrokenStreamType ==
    ASSUME NEW r \in Responses
    PROVE  EndBrokenStream(r) \in Responses
<1>1. Flush(FlushWriter(WriteSSE(r, Stop))) \in Responses
  BY WriteSSEType, FlushWriterType, FlushType, FrameTypes
<1>2. <<Done>> \in Seq(Frames)
  BY FrameTypes
<1> QED BY <1>1, <1>2, WriteType, FlushType DEF EndBrokenStream, EmitStreamDone

LEMMA ResponseWriterType ==
    ASSUME NEW r \in Responses, NEW answer \in Nat
    PROVE  /\ WriteNonStreamingResponse(r, answer) \in Responses
           /\ WriteRepeatedResponse(r, answer) \in Responses
           /\ WriteRepeatedStream(r, answer) \in Responses
<1>1. <<Completion(answer)>> \in Seq(Frames) /\ Text(answer) \in Frames
  BY FrameTypes
<1>2. EmitDelta(r, Text(answer)) \in Responses
  BY <1>1, EmitDeltaType
<1> QED BY <1>1, <1>2, WriteType, EndStreamType
        DEF WriteNonStreamingResponse, WriteRepeatedResponse, WriteRepeatedStream

-----------------------------------------------------------------------------
(***************************************************************************)
(* Types.                                                                   *)
(***************************************************************************)
LEMMA QueueTypes ==
    /\ \A s \in Seq(Calls), c \in Calls : Append(s, c) \in Seq(Calls)
    /\ \A s \in Seq(Calls) : s # <<>> => Head(s) \in Calls /\ Tail(s) \in Seq(Calls)
BY AppendProperties, HeadTailProperties

LEMMA IdleType == IdleCall \in CallStates
BY DEF IdleCall, CallStates, CallPcs, Kinds, Contents

LEMMA RunTypeInit == RunInit => RunTypeOK
<1> SUFFICES ASSUME RunInit PROVE RunTypeOK
  OBVIOUS
<1>1. balance \in Int
  BY BoundsAssumption DEF RunInit
<1>2. <<>> \in Seq(Calls)
  BY EmptySeq
<1> QED BY <1>1, <1>2, IdleType, BoundsAssumption DEF RunInit, RunTypeOK, NoGuidance

LEMMA TurnTypeStep ==
    ASSUME RunTypeOK, IssueTurn
    PROVE  RunTypeOK'
<1>1. PICK size \in 1 .. MaxCalls - issued :
          \E kinds \in [issued + 1 .. issued + size -> Kinds] :
             /\ issued' = issued + size
             /\ call' = [c \in Calls |->
                   IF c \in DOMAIN kinds
                   THEN [IdleCall EXCEPT !.pc = FirstStep(kinds[c]),
                                         !.kind = kinds[c], !.turn = issued + 1]
                   ELSE call[c]]
  BY DEF IssueTurn
<1>2. PICK kinds \in [issued + 1 .. issued + size -> Kinds] :
             /\ issued' = issued + size
             /\ call' = [c \in Calls |->
                   IF c \in DOMAIN kinds
                   THEN [IdleCall EXCEPT !.pc = FirstStep(kinds[c]),
                                         !.kind = kinds[c], !.turn = issued + 1]
                   ELSE call[c]]
  BY <1>1
<1>3. issued \in Nat /\ issued' \in 0 .. MaxCalls /\ issued + 1 \in Calls
  <2>1. issued \in Int /\ MaxCalls \in Int /\ 0 <= issued /\ issued <= MaxCalls
    BY BoundsAssumption DEF RunTypeOK
  <2>2. size \in Int /\ 1 <= size /\ size <= MaxCalls - issued
    BY <2>1
  <2>3. issued' = issued + size
    BY <1>2
  <2> QED BY <2>1, <2>2, <2>3 DEF Calls
<1>4. ASSUME NEW kind \in Kinds
      PROVE  [IdleCall EXCEPT !.pc = FirstStep(kind), !.kind = kind, !.turn = issued + 1]
                 \in CallStates
  <2>1. FirstStep(kind) \in CallPcs
    BY DEF FirstStep, CallPcs
  <2> QED BY <1>3, <1>4, <2>1, IdleType DEF CallStates
<1>5. call' \in [Calls -> CallStates]
  BY <1>2, <1>4 DEF RunTypeOK
<1> QED BY <1>3, <1>5 DEF RunTypeOK, IssueTurn

LEMMA CallTypeStep ==
    ASSUME RunTypeOK, NEW c \in Calls, CallStep(c)
    PROVE  RunTypeOK'
<1>1. /\ call \in [Calls -> CallStates] /\ call[c] \in CallStates
      /\ balance \in Int
  BY DEF RunTypeOK
<1>2. /\ NextStep(c) \in CallPcs
      /\ {"invoke", "errored", "report", "answered", "sidecar"} \subseteq CallPcs
      /\ {"none", "result", "failure", "unreadable"} \subseteq Contents
  BY DEF NextStep, CallPcs, Contents
<1>3. CASE CheckBalance(c)
  <2>1. PICK next \in {"invoke", "errored"} :
            call' = [call EXCEPT ![c].pc = next, ![c].checked = balance]
    BY <1>3 DEF CheckBalance
  <2>2. call' \in [Calls -> CallStates]
    BY <1>1, <1>2, <2>1 DEF CallStates
  <2> QED BY <1>3, <2>2 DEF RunTypeOK, CheckBalance
<1>4. CASE BadArguments(c)
  <2>1. call' \in [Calls -> CallStates]
    BY <1>1, <1>2, <1>4 DEF BadArguments, CallStates
  <2> QED BY <1>4, <2>1 DEF RunTypeOK, BadArguments
<1>5. CASE Find(c)
  <2>1. queue' \in Seq(Calls)
    <3>1. queue' = queue \/ queue' = Append(queue, c)
      BY <1>5, Zenon DEF Find, Push
    <3> QED BY <3>1, QueueTypes DEF RunTypeOK
  <2>2. CASE call' = [call EXCEPT ![c].pc = "errored"]
    <3>1. call' \in [Calls -> CallStates]
      BY <1>1, <1>2, <2>2 DEF CallStates
    <3> QED BY <1>5, <2>1, <3>1 DEF RunTypeOK, Find
  <2>3. ASSUME NEW guided \in BOOLEAN, NEW content \in {"result", "unreadable"},
               call' = [call EXCEPT ![c].pc = NextStep(c), ![c].served = TRUE,
                                    ![c].guided = guided, ![c].content = content]
        PROVE  RunTypeOK'
    <3>1. call' \in [Calls -> CallStates]
      BY <1>1, <1>2, <2>3 DEF CallStates
    <3> QED BY <1>5, <2>1, <3>1 DEF RunTypeOK, Find
  <2> QED BY <1>5, <2>2, <2>3 DEF Find
<1>6. CASE Execute(c)
  <2>1. \/ call' = [call EXCEPT ![c].pc = NextStep(c), ![c].content = "failure"]
        \/ call' = [call EXCEPT ![c].pc = "sidecar", ![c].checked = balance]
    BY <1>6 DEF Execute
  <2>2. call' \in [Calls -> CallStates]
    BY <1>1, <1>2, <2>1 DEF CallStates
  <2> QED BY <1>6, <2>2 DEF RunTypeOK, Execute
<1>7. CASE Perform(c)
  <2>1. balance' \in Int
    <3>1. balance' = balance \/ balance' = balance - 1
      BY <1>7, Zenon DEF Perform
    <3> QED BY <1>1, <3>1
  <2>2. CASE call' = [call EXCEPT ![c].pc = NextStep(c), ![c].content = "failure"]
    <3>1. call' \in [Calls -> CallStates]
      BY <1>1, <1>2, <2>2 DEF CallStates
    <3> QED BY <1>7, <2>1, <3>1 DEF RunTypeOK, Perform
  <2>3. ASSUME NEW lost \in BOOLEAN,
               call' = [call EXCEPT ![c].pc = NextStep(c), ![c].served = TRUE,
                                    ![c].charged = @ + 1,
                                    ![c].content = IF lost THEN "failure" ELSE "result"]
        PROVE  RunTypeOK'
    <3>1. call' \in [Calls -> CallStates]
      BY <1>1, <1>2, <2>3 DEF CallStates
    <3> QED BY <1>7, <2>1, <3>1 DEF RunTypeOK, Perform
  <2> QED BY <1>7, <2>2, <2>3 DEF Perform
<1>8. CASE Delegate(c)
  <2>1. PICK served \in BOOLEAN, lost \in BOOLEAN :
          call' = [call EXCEPT ![c].pc = NextStep(c), ![c].served = served,
                               ![c].content = IF served /\ ~lost THEN "result" ELSE "failure"]
    BY <1>8 DEF Delegate
  <2>2. call' \in [Calls -> CallStates]
    BY <1>1, <1>2, <2>1 DEF CallStates
  <2> QED BY <1>8, <2>2 DEF RunTypeOK, Delegate
<1>9. CASE OtherTool(c)
  <2>1. PICK served \in BOOLEAN :
          call' = [call EXCEPT ![c].pc = IF served THEN NextStep(c) ELSE "errored",
                               ![c].served = served,
                               ![c].content = IF served THEN "result" ELSE "none"]
    BY <1>9 DEF OtherTool
  <2>2. call' \in [Calls -> CallStates]
    BY <1>1, <1>2, <2>1 DEF CallStates
  <2> QED BY <1>9, <2>2 DEF RunTypeOK, OtherTool
<1>10. CASE Record(c)
  <2>1. call' \in [Calls -> CallStates] /\ balance' \in Int
    BY <1>1, <1>2, <1>10 DEF Record, CallStates
  <2> QED BY <1>10, <2>1 DEF RunTypeOK, Record
<1>11. CASE Report(c)
  <2>1. events' \in Seq(Calls)
    BY <1>11, QueueTypes DEF RunTypeOK, Report
  <2>2. call' \in [Calls -> CallStates]
    BY <1>1, <1>2, <1>11 DEF Report, CallStates
  <2> QED BY <1>11, <2>1, <2>2 DEF RunTypeOK, Report
<1> QED BY <1>3, <1>4, <1>5, <1>6, <1>7, <1>8, <1>9, <1>10, <1>11 DEF CallStep

LEMMA TakeTypeStep ==
    ASSUME RunTypeOK, TakeEvent
    PROVE  RunTypeOK' /\ Head(events) \in Calls
<1>1. Head(events) \in Calls /\ events' \in Seq(Calls)
  BY QueueTypes DEF RunTypeOK, TakeEvent
<1>2. queue' \in Seq(Calls)
  BY QueueTypes DEF RunTypeOK, TakeEvent, Pops
<1>3. shown' \in [Calls -> Calls \cup {NoGuidance}]
  BY <1>1, QueueTypes DEF RunTypeOK, TakeEvent, Pops, MergeGuidance
<1> QED BY <1>1, <1>2, <1>3 DEF RunTypeOK, TakeEvent

LEMMA RunnerTypeStep ==
    ASSUME RunTypeOK, IssueTurn \/ EndTurn \/ EndRun \/ StartRun \/ OtherCharge
    PROVE  RunTypeOK'
<1>1. CASE IssueTurn
  BY <1>1, TurnTypeStep
<1>2. CASE EndTurn
  BY <1>2 DEF EndTurn, RunTypeOK
<1>3. CASE EndRun
  BY <1>3 DEF EndRun, RunTypeOK
<1>4. CASE StartRun
  BY <1>4 DEF StartRun, RunTypeOK
<1>5. CASE OtherCharge
  <2>1. balance' \in Int /\ others' \in 0 .. MaxOthers
    BY <1>5, BoundsAssumption DEF OtherCharge, RunTypeOK
  <2> QED BY <1>5, <2>1 DEF OtherCharge, RunTypeOK
<1> QED BY <1>1, <1>2, <1>3, <1>4, <1>5

LEMMA RunTypeKept ==
    ASSUME RunTypeOK, UNCHANGED runVars
    PROVE  RunTypeOK'
BY DEF RunTypeOK, runVars

LEMMA ChatTypeInit == ChatInit => ChatTypeOK
<1> SUFFICES ASSUME ChatInit PROVE ChatTypeOK
  OBVIOUS
<1>1. NewResponse \in Responses
  <2>1. <<>> \in Seq(Frames)
    BY EmptySeq
  <2> QED BY <2>1, StatusTypes DEF NewResponse, Responses
<1>2. ChainTypeOK
  BY <1>1 DEF ChatInit, ChainInit, ChainTypeOK, HttpPcs
<1>3. RunTypeOK
  BY RunTypeInit DEF ChatInit
<1>4. taken \in Seq(Calls) /\ early \in BOOLEAN
  BY EmptySeq DEF ChatInit
<1> QED BY <1>2, <1>3, <1>4 DEF ChatTypeOK

\* What a step of the handler leaves behind, its type included.
LEMMA HandlerTypeStep ==
    ASSUME ChatTypeOK, HandlerStep
    PROVE  ChatTypeOK'
<1>1. response \in Responses /\ RunTypeOK
  BY DEF ChatTypeOK, ChainTypeOK
<1>2. CASE Refuse
  <2>1. response' \in Responses
    BY <1>1, <1>2, WriteErrorType DEF Refuse
  <2>2. RunTypeOK'
    BY <1>1, <1>2, RunTypeKept DEF Refuse
  <2> QED BY <1>2, <2>1, <2>2 DEF Refuse, ChatTypeOK, ChainTypeOK, HttpPcs
<1>3. CASE ReplayAnswer
  <2>1. response' \in Responses
    BY <1>1, <1>3, ResponseWriterType DEF ReplayAnswer, Answer
  <2>2. RunTypeOK'
    BY <1>1, <1>3, RunTypeKept DEF ReplayAnswer
  <2> QED BY <1>3, <2>1, <2>2 DEF ReplayAnswer, ChatTypeOK, ChainTypeOK, HttpPcs
<1>4. CASE Serve
  <2>1. response' \in Responses /\ early' \in BOOLEAN
    BY <1>1, <1>4, FlushType DEF Serve, ChatTypeOK, ChainTypeOK
  <2>2. RunTypeOK'
    BY <1>1, <1>4, RunnerTypeStep DEF Serve
  <2> QED BY <1>4, <2>1, <2>2 DEF Serve, ChatTypeOK, ChainTypeOK, HttpPcs
<1>5. CASE StreamResult
  <2>1. RunTypeOK' /\ Head(events) \in Calls
    BY <1>1, <1>5, TakeTypeStep DEF StreamResult
  <2>2. Result(Head(events)) \in Frames
    BY <2>1, FrameTypes, BoundsAssumption DEF Calls
  <2>3. response' \in Responses
    BY <1>1, <1>5, <2>2, EmitDeltaType DEF StreamResult
  <2>4. taken' \in Seq(Calls)
    BY <1>5, <2>1, QueueTypes DEF StreamResult, ChatTypeOK
  <2> QED BY <1>5, <2>1, <2>3, <2>4 DEF StreamResult, ChatTypeOK, ChainTypeOK
<1>6. CASE EndOfStream
  <2> DEFINE answered == EmitDelta(response, Text(Answer))
  <2>1. Text(Answer) \in Frames
    BY FrameTypes DEF Answer
  <2>2. answered \in Responses
    BY <1>1, <2>1, EmitDeltaType
  <2>3. EndStream(answered) \in Responses /\ EndBrokenStream(answered) \in Responses
    BY <2>2, EndStreamType, EndBrokenStreamType
  <2>4. EmitStreamErrorContent(response) \in Responses
    BY <1>1, EmitStreamErrorContentType
  <2>5. WriteError(response, "agent_error") \in Responses
    BY <1>1, WriteErrorType, StatusTypes
  <2>6. response' \in Responses
    BY <1>6, <2>3, <2>4, <2>5 DEF EndOfStream
  <2>7. RunTypeOK'
    BY <1>1, <1>6, RunTypeKept DEF EndOfStream
  <2> QED BY <1>6, <2>6, <2>7 DEF EndOfStream, ChatTypeOK, ChainTypeOK, HttpPcs
<1>7. CASE Respond
  <2>1. WriteError(response, "agent_error") \in Responses
    BY <1>1, WriteErrorType, StatusTypes
  <2>2. \A answer \in {Answer, EmptyAnswer} :
            WriteNonStreamingResponse(response, answer) \in Responses
    BY <1>1, ResponseWriterType DEF Answer, EmptyAnswer
  <2>3. response' \in Responses
    BY <1>7, <2>1, <2>2 DEF Respond
  <2>4. RunTypeOK'
    BY <1>1, <1>7, RunTypeKept DEF Respond
  <2> QED BY <1>7, <2>3, <2>4 DEF Respond, ChatTypeOK, ChainTypeOK, HttpPcs
<1> QED BY <1>2, <1>3, <1>4, <1>5, <1>6, <1>7 DEF HandlerStep

LEMMA ChainTypeStep ==
    ASSUME ChatTypeOK, ChainStep
    PROVE  ChatTypeOK'
<1>1. response \in Responses /\ RunTypeOK
  BY DEF ChatTypeOK, ChainTypeOK
<1>2. RunTypeOK' /\ taken' = taken /\ early' = early
  BY <1>1, RunTypeKept DEF ChainStep
<1>3. CASE EnterChain
  <2>1. response' \in Responses
    BY <1>1, <1>3 DEF EnterChain, Responses
  <2> QED BY <1>2, <1>3, <2>1 DEF EnterChain, ChatTypeOK, ChainTypeOK, HttpPcs
<1>4. CASE LogAccess
  <2>1. response' \in Responses
    BY <1>1, <1>4, SendHeaderType, StatusTypes DEF LogAccess
  <2>2. record' \in Statuses
    BY <1>1, <1>4 DEF LogAccess, Responses
  <2> QED BY <1>2, <1>4, <2>1, <2>2 DEF LogAccess, ChatTypeOK, ChainTypeOK, HttpPcs
<1>5. CASE Recover
  <2>1. response' \in Responses
    BY <1>1, <1>5, RecoverErrorType DEF Recover
  <2> QED BY <1>2, <1>5, <2>1 DEF Recover, ChatTypeOK, ChainTypeOK, HttpPcs
<1> QED BY <1>3, <1>4, <1>5 DEF ChainStep

LEMMA ChatTypeNext == ChatTypeOK /\ [ChatNext]_chatVars => ChatTypeOK'
<1> SUFFICES ASSUME ChatTypeOK, [ChatNext]_chatVars PROVE ChatTypeOK'
  OBVIOUS
<1>1. CASE ChainStep
  BY <1>1, ChainTypeStep
<1>2. CASE HandlerStep
  BY <1>2, HandlerTypeStep
<1>3. CASE Panic
  BY <1>3, RunTypeKept DEF Panic, ChatTypeOK, ChainTypeOK, HttpPcs
<1>4. CASE RunStep
  <2>1. RunTypeOK'
    BY <1>4, RunnerTypeStep, CallTypeStep DEF RunStep, RunnerStep, ChatTypeOK
  <2> QED BY <1>4, <2>1 DEF RunStep, ChatTypeOK, ChainTypeOK, chainVars
<1>5. CASE Others
  <2>1. RunTypeOK'
    BY <1>5, RunnerTypeStep DEF Others, ChatTypeOK
  <2> QED BY <1>5, <2>1 DEF Others, ChatTypeOK, ChainTypeOK, chainVars
<1>6. CASE UNCHANGED chatVars
  BY <1>6 DEF chatVars, ChatTypeOK, ChainTypeOK, RunTypeOK
<1> QED BY <1>1, <1>2, <1>3, <1>4, <1>5, <1>6 DEF ChatNext

\* Every variable of a request and of its run keeps its type: a call number
\* is never out of range, no guidance is queued that is not a call's.
THEOREM ChatTypeCorrect == ChatSpec => []ChatTypeOK
<1> QED BY ChatTypeInit, ChatTypeNext, PTL DEF ChatSpec

-----------------------------------------------------------------------------
(***************************************************************************)
(* Charges.  What a call has behind it at each of its steps.                 *)
(***************************************************************************)
Before == {"idle", "check", "invoke", "sidecar"}
Worth(k) == k.served \/ (k.kind = "delegate" /\ k.content = "failure")

CallSound(k) ==
    /\ k.pc \in Before =>
          k.charged = 0 /\ ~k.served /\ k.content = "none"
    /\ k.pc = "invoke" /\ k.kind \in Billed => k.checked > 0
    /\ k.pc = "sidecar" => k.kind = "execute" /\ k.checked > 0
    /\ k.pc = "record" =>
          k.kind \in Billed /\ k.charged = 0 /\ k.checked > 0 /\ Worth(k)
    /\ k.pc \in {"report", "answered"} =>
          k.content # "none" /\ k.charged <= 1 /\ (k.charged = 1 => Worth(k))
    /\ k.pc = "errored" => k.charged = 0 /\ ~k.served

CallsSound == \A c \in Calls : CallSound(call[c])

\* A step of a call keeps what the call is.
Keeps(k, l) == k.pc # "idle" /\ l.kind = k.kind

LEMMA CallStepSound ==
    ASSUME RunTypeOK, NEW c \in Calls, CallSound(call[c]), CallStep(c)
    PROVE  /\ CallSound(call'[c])
           /\ Keeps(call[c], call'[c])
           /\ call' = [call EXCEPT ![c] = call'[c]]
<1>1. call \in [Calls -> CallStates] /\ call[c] \in CallStates
  BY DEF RunTypeOK
<1> DEFINE k == call[c]
<1>2. /\ k.kind \in Billed => NextStep(c) = "record"
      /\ k.kind \notin Billed => NextStep(c) = "report"
      /\ "execute" \notin Billed
  BY BilledAssumption DEF NextStep
<1>3. CASE CheckBalance(c)
  <2>1. PICK next \in {"invoke", "errored"} :
            /\ next = "invoke" => balance > 0
            /\ call' = [call EXCEPT ![c].pc = next, ![c].checked = balance]
    BY <1>3 DEF CheckBalance
  <2>2. k.pc = "check"
    BY <1>3 DEF CheckBalance
  <2> QED BY <1>1, <2>1, <2>2 DEF CallStates, CallSound, Keeps, Before, Worth
<1>4. CASE BadArguments(c)
  BY <1>1, <1>4 DEF BadArguments, CallStates, CallSound, Keeps, Before, Worth
<1>5. CASE Find(c)
  <2>1. k.pc = "invoke" /\ k.kind = "find"
    BY <1>5 DEF Find
  <2>2. CASE call' = [call EXCEPT ![c].pc = "errored"]
    BY <1>1, <2>1, <2>2 DEF CallStates, CallSound, Keeps, Before, Worth
  <2>3. ASSUME NEW guided \in BOOLEAN, NEW content \in {"result", "unreadable"},
               call' = [call EXCEPT ![c].pc = NextStep(c), ![c].served = TRUE,
                                    ![c].guided = guided, ![c].content = content]
        PROVE  /\ CallSound(call'[c]) /\ Keeps(call[c], call'[c])
               /\ call' = [call EXCEPT ![c] = call'[c]]
    BY <1>1, <1>2, <2>1, <2>3 DEF CallStates, CallSound, Keeps, Before, Worth
  <2> QED BY <1>5, <2>2, <2>3 DEF Find
<1>6. CASE Execute(c)
  <2>1. k.pc = "invoke" /\ k.kind = "execute"
    BY <1>6 DEF Execute
  <2>2. CASE call' = [call EXCEPT ![c].pc = NextStep(c), ![c].content = "failure"]
    BY <1>1, <1>2, <2>1, <2>2 DEF CallStates, CallSound, Keeps, Before, Worth
  <2>3. CASE balance > 0 /\ call' = [call EXCEPT ![c].pc = "sidecar", ![c].checked = balance]
    BY <1>1, <1>2, <2>1, <2>3 DEF CallStates, CallSound, Keeps, Before, Worth
  <2> QED BY <1>6, <2>2, <2>3 DEF Execute
<1>7. CASE Perform(c)
  <2>1. k.pc = "sidecar" /\ k.kind = "execute"
    BY <1>7 DEF Perform, CallSound
  <2>2. CASE call' = [call EXCEPT ![c].pc = NextStep(c), ![c].content = "failure"]
    BY <1>1, <1>2, <2>1, <2>2 DEF CallStates, CallSound, Keeps, Before, Worth
  <2>3. ASSUME NEW lost \in BOOLEAN,
               call' = [call EXCEPT ![c].pc = NextStep(c), ![c].served = TRUE,
                                    ![c].charged = @ + 1,
                                    ![c].content = IF lost THEN "failure" ELSE "result"]
        PROVE  /\ CallSound(call'[c]) /\ Keeps(call[c], call'[c])
               /\ call' = [call EXCEPT ![c] = call'[c]]
    BY <1>1, <1>2, <2>1, <2>3 DEF CallStates, CallSound, Keeps, Before, Worth
  <2> QED BY <1>7, <2>2, <2>3 DEF Perform
<1>8. CASE Delegate(c)
  <2>1. PICK served \in BOOLEAN, lost \in BOOLEAN :
          call' = [call EXCEPT ![c].pc = NextStep(c), ![c].served = served,
                               ![c].content = IF served /\ ~lost THEN "result" ELSE "failure"]
    BY <1>8 DEF Delegate
  <2>2. k.pc = "invoke" /\ k.kind = "delegate"
    BY <1>8 DEF Delegate
  <2> QED BY <1>1, <1>2, <2>1, <2>2 DEF CallStates, CallSound, Keeps, Before, Worth
<1>9. CASE OtherTool(c)
  <2>1. PICK served \in BOOLEAN :
          call' = [call EXCEPT ![c].pc = IF served THEN NextStep(c) ELSE "errored",
                               ![c].served = served,
                               ![c].content = IF served THEN "result" ELSE "none"]
    BY <1>9 DEF OtherTool
  <2>2. k.pc = "invoke" /\ k.kind = "other"
    BY <1>9 DEF OtherTool
  <2>3. CASE served
    BY <1>1, <1>2, <2>1, <2>2, <2>3 DEF CallStates, CallSound, Keeps, Before, Worth
  <2>4. CASE ~served
    BY <1>1, <1>2, <2>1, <2>2, <2>4 DEF CallStates, CallSound, Keeps, Before, Worth
  <2> QED BY <2>3, <2>4
<1>10. CASE Record(c)
  BY <1>1, <1>10 DEF Record, CallStates, CallSound, Keeps, Before, Worth
<1>11. CASE Report(c)
  BY <1>1, <1>11 DEF Report, CallStates, CallSound, Keeps, Before, Worth
<1> QED BY <1>3, <1>4, <1>5, <1>6, <1>7, <1>8, <1>9, <1>10, <1>11 DEF CallStep

Ahead == \A c \in Calls : c > issued => call[c] = IdleCall

RunSound == CallsSound /\ Ahead

LEMMA RunSoundInit == RunInit => RunSound
BY BoundsAssumption
   DEF RunInit, RunSound, CallsSound, CallSound, Ahead, IdleCall, Before, Calls

LEMMA TurnSound ==
    ASSUME RunTypeOK, RunSound, IssueTurn
    PROVE  RunSound'
<1>1. PICK size \in 1 .. MaxCalls - issued :
          \E kinds \in [issued + 1 .. issued + size -> Kinds] :
             /\ issued' = issued + size
             /\ call' = [c \in Calls |->
                   IF c \in DOMAIN kinds
                   THEN [IdleCall EXCEPT !.pc = FirstStep(kinds[c]),
                                         !.kind = kinds[c], !.turn = issued + 1]
                   ELSE call[c]]
  BY DEF IssueTurn
<1>2. PICK kinds \in [issued + 1 .. issued + size -> Kinds] :
             /\ issued' = issued + size
             /\ call' = [c \in Calls |->
                   IF c \in DOMAIN kinds
                   THEN [IdleCall EXCEPT !.pc = FirstStep(kinds[c]),
                                         !.kind = kinds[c], !.turn = issued + 1]
                   ELSE call[c]]
  BY <1>1
<1>3. issued \in Nat /\ size \in Nat /\ MaxCalls \in Nat
  BY BoundsAssumption DEF RunTypeOK
<1>4. \A c \in Calls : c \in DOMAIN kinds <=> issued < c /\ c <= issued'
  <2>1. DOMAIN kinds = issued + 1 .. issued + size
    OBVIOUS
  <2>2. Calls \subseteq Int
    BY DEF Calls
  <2>3. issued' = issued + size
    BY <1>2, Zenon
  <2> QED BY <1>3, <2>1, <2>2, <2>3
<1>5. \A c \in Calls \ DOMAIN kinds : call'[c] = call[c]
  BY <1>2
<1>6. \A c \in DOMAIN kinds \cap Calls :
          /\ call'[c].kind = kinds[c] /\ call'[c].content = "none"
          /\ CallSound(call'[c])
  BY <1>2 DEF IdleCall, CallSound, Before, FirstStep
<1>7. CallsSound'
  BY <1>5, <1>6 DEF RunSound, CallsSound
<1>8. Ahead'
  <2>1. \A c \in Calls : c > issued' => c \notin DOMAIN kinds /\ c > issued
    <3>1. Calls \subseteq Int
      BY DEF Calls
    <3>2. issued' = issued + size
      BY <1>2, Zenon
    <3> QED BY <1>3, <1>4, <3>1, <3>2
  <2> QED BY <1>5, <2>1 DEF RunSound, Ahead
<1> QED BY <1>7, <1>8 DEF RunSound

LEMMA CallSoundStep ==
    ASSUME RunTypeOK, RunSound, NEW c \in Calls, CallStep(c)
    PROVE  RunSound'
<1>1. /\ CallSound(call'[c])
      /\ Keeps(call[c], call'[c])
      /\ call' = [call EXCEPT ![c] = call'[c]]
  BY CallStepSound DEF RunSound, CallsSound
<1>2. \A d \in Calls \ {c} : call'[d] = call[d]
  BY <1>1 DEF RunTypeOK
<1>3. issued' = issued
  BY DEF CallStep, CheckBalance, BadArguments, Find, Execute, Perform, Delegate, OtherTool,
         Record, Report
<1>4. CallsSound'
  BY <1>1, <1>2 DEF RunSound, CallsSound
<1>5. ~(c > issued)
  BY <1>1 DEF RunSound, Ahead, Keeps, IdleCall
<1>6. Ahead'
  BY <1>2, <1>3, <1>5 DEF RunSound, Ahead
<1> QED BY <1>4, <1>6 DEF RunSound

LEMMA RunSoundNext == ChatTypeOK /\ RunSound /\ [ChatNext]_chatVars => RunSound'
<1> SUFFICES ASSUME ChatTypeOK, RunSound, [ChatNext]_chatVars PROVE RunSound'
  OBVIOUS
<1>1. ASSUME call' = call, issued' = issued PROVE RunSound'
  BY <1>1 DEF RunSound, CallsSound, Ahead
<1>2. CASE ChainStep \/ Panic \/ UNCHANGED chatVars
  BY <1>1, <1>2 DEF ChainStep, Panic, runVars, chatVars
<1>3. CASE HandlerStep
  BY <1>1, <1>3 DEF HandlerStep, Refuse, ReplayAnswer, Serve, StartRun, StreamResult,
                    TakeEvent, EndOfStream, Respond, runVars
<1>4. CASE RunStep
  <2>1. CASE IssueTurn
    BY <2>1, TurnSound DEF ChatTypeOK
  <2>2. CASE EndTurn \/ EndRun
    BY <1>1, <2>2 DEF EndTurn, EndRun
  <2>3. ASSUME NEW c \in Calls, CallStep(c) PROVE RunSound'
    BY <2>3, CallSoundStep DEF ChatTypeOK
  <2> QED BY <1>4, <2>1, <2>2, <2>3 DEF RunStep, RunnerStep
<1>5. CASE Others
  BY <1>1, <1>5 DEF Others, OtherCharge
<1> QED BY <1>2, <1>3, <1>4, <1>5 DEF ChatNext

LEMMA RunSoundAlways == ChatSpec => [](ChatTypeOK /\ RunSound)
<1>1. ChatInit => RunSound
  BY RunSoundInit DEF ChatInit
<1> QED BY <1>1, ChatTypeInit, ChatTypeNext, RunSoundNext, PTL DEF ChatSpec

\* No call is charged twice, none that ended in a Go error, and for work that was
\* not done only a delegation is, whatever is billed and however calls interleave.
THEOREM ChatChargedForWork == ChatSpec => []ChargedForWork
<1>1. ChatTypeOK /\ RunSound => ChargedForWork
  <2> SUFFICES ASSUME ChatTypeOK, RunSound, NEW c \in Calls
               PROVE  /\ call[c].charged <= 1
                      /\ call[c].charged = 1 =>
                            /\ call[c].pc # "errored"
                            /\ \/ call[c].served
                               \/ call[c].kind = "delegate" /\ call[c].content = "failure"
    BY DEF ChargedForWork
  <2>1. call[c] \in CallStates /\ CallSound(call[c])
    BY DEF ChatTypeOK, RunTypeOK, RunSound, CallsSound
  <2> QED BY <2>1 DEF CallStates, CallPcs, CallSound, Before, Worth
<1> QED BY <1>1, RunSoundAlways, PTL

\* A step that overdraws is another request's, or a charge of the middleware's or of
\* the sidecar's whose balance was taken by somebody else since CheckBalance.
THEOREM ChatOverdrawnOnlyIfRaced == ChatSpec => OverdrawnOnlyIfRaced
<1> DEFINE Raced == \/ others' # others
                    \/ \E c \in Calls : /\ call'[c].charged # call[c].charged
                                        /\ balance < call[c].checked
<1>1. ASSUME ChatTypeOK, RunSound, [ChatNext]_chatVars
      PROVE  [balance' < balance /\ balance' < 0 => Raced]_runVars
  <2> SUFFICES ASSUME balance' < balance, balance' < 0 PROVE Raced
    OBVIOUS
  <2>1. /\ balance \in Int /\ others \in Int /\ call \in [Calls -> CallStates]
    BY <1>1 DEF ChatTypeOK, RunTypeOK
  <2>2. balance' # balance
    BY <2>1
  <2>3. CASE Others
    BY <2>1, <2>3 DEF Others, OtherCharge
  <2>4. CASE RunStep
    <3>1. PICK c \in Calls : CallStep(c)
      BY <2>2, <2>4 DEF RunStep, RunnerStep, IssueTurn, EndTurn, EndRun
    <3>2. CASE Record(c)
      <4>1. call[c].checked > 0 /\ call[c] \in CallStates
        BY <1>1, <2>1, <3>2 DEF Record, RunSound, CallsSound, CallSound
      <4>2. call'[c].charged = call[c].charged + 1
        BY <2>1, <3>2 DEF Record, CallStates
      <4>3. balance' = balance - 1
        BY <3>2 DEF Record
      <4> QED BY <2>1, <4>1, <4>2, <4>3 DEF CallStates
    <3>3. CASE Perform(c)
      <4>1. call[c].checked > 0 /\ call[c] \in CallStates
        BY <1>1, <2>1, <3>3 DEF Perform, RunSound, CallsSound, CallSound
      <4>2. PICK lost \in BOOLEAN :
              /\ balance' = balance - 1
              /\ call' = [call EXCEPT ![c].pc = NextStep(c), ![c].served = TRUE,
                                      ![c].charged = @ + 1,
                                      ![c].content = IF lost THEN "failure" ELSE "result"]
        BY <2>2, <3>3, Zenon DEF Perform
      <4>3. call'[c].charged = call[c].charged + 1
        BY <2>1, <4>1, <4>2 DEF CallStates
      <4> QED BY <2>1, <4>1, <4>2, <4>3 DEF CallStates
    <3> QED BY <2>2, <3>1, <3>2, <3>3
            DEF CallStep, CheckBalance, BadArguments, Find, Execute, Delegate, OtherTool, Report
  <2> QED BY <1>1, <2>2, <2>3, <2>4
          DEF ChatNext, ChainStep, HandlerStep, Refuse, ReplayAnswer, Serve, StartRun,
              StreamResult, TakeEvent, EndOfStream, Respond, Panic, runVars, chatVars
<1>2. ChatTypeOK /\ RunSound /\ [ChatNext]_chatVars
          => [balance' < balance /\ balance' < 0 => Raced]_runVars
  BY <1>1
<1> QED BY <1>2, RunSoundAlways, PTL DEF ChatSpec, OverdrawnOnlyIfRaced

-----------------------------------------------------------------------------
(***************************************************************************)
(* The response.  What holds of it while the handler runs, early being TRUE   *)
(* if its first operation was a flush.                                       *)
(***************************************************************************)
Own(frames) ==
    \A i \in DOMAIN frames :
        frames[i].kind = "envelope" => frames[i] = Envelope(RequestId)

Open(r) == r.status \in {0, 200}

Sound(r, flushed) ==
    /\ r.header = RequestId
    /\ Own(r.body) /\ Own(r.buffer)
    /\ flushed => r.status = 200
    /\ r.wroteHeader =>
          r.body # <<>> /\ r.status # 0 /\ (~flushed => r.recorded = r.status)
    /\ ~r.wroteHeader =>
          r.body = <<>> /\ r.recorded = 0 /\ (~flushed => r.status = 0)
    /\ ~Open(r) => \A i \in DOMAIN r.body : r.body[i].kind = "envelope"

Written(r, flushed) == Sound(r, flushed) /\ r.wroteHeader

LEMMA OwnFrames ==
    /\ Own(<<>>)
    /\ Own(<<Done>>) /\ Own(<<ErrorContent>>)
    /\ \A n \in Nat : Own(<<Completion(n)>>)
    /\ \A n \in Nat : /\ Text(n).kind # "envelope" /\ Result(n).kind # "envelope"
    /\ Stop.kind # "envelope" /\ Done.kind # "envelope"
BY DEF Own, Done, ErrorContent, Completion, Text, Result, Stop, Frame

LEMMA OwnConcat ==
    ASSUME NEW s \in Seq(Frames), NEW t \in Seq(Frames), Own(s), Own(t)
    PROVE  Own(s \o t)
<1> SUFFICES ASSUME NEW i \in DOMAIN (s \o t), (s \o t)[i].kind = "envelope"
             PROVE  (s \o t)[i] = Envelope(RequestId)
  BY DEF Own
<1>1. /\ Len(s) \in Nat /\ Len(t) \in Nat /\ i \in 1 .. Len(s) + Len(t)
      /\ DOMAIN s = 1 .. Len(s) /\ DOMAIN t = 1 .. Len(t)
  BY ConcatProperties
<1>2. CASE i <= Len(s)
  BY <1>1, <1>2, ConcatProperties DEF Own
<1>3. CASE i > Len(s)
  <2>1. (s \o t)[i] = t[i - Len(s)] /\ i - Len(s) \in DOMAIN t
    BY <1>1, <1>3, ConcatProperties
  <2> QED BY <2>1 DEF Own
<1> QED BY <1>1, <1>2, <1>3

LEMMA OwnAppend ==
    ASSUME NEW s \in Seq(Frames), NEW frame \in Frames, Own(s), frame.kind # "envelope"
    PROVE  Own(Append(s, frame))
BY AppendProperties DEF Own

\* A write opens the response, whether it was recorded or not.
LEMMA WriteSound ==
    ASSUME NEW r \in Responses, NEW flushed \in BOOLEAN, Sound(r, flushed), Open(r),
           NEW frames \in Seq(Frames), frames # <<>>, Own(frames)
    PROVE  Written(Write(r, frames), flushed) /\ Open(Write(r, frames))
<1>1. /\ Write(r, frames).status = 200
      /\ Write(r, frames).body = r.body \o frames
      /\ Write(r, frames).header = r.header
      /\ Write(r, frames).buffer = r.buffer
      /\ Write(r, frames).wroteHeader = TRUE
      /\ Write(r, frames).recorded = IF r.wroteHeader THEN r.recorded ELSE 200
  BY DEF Write, Send, SendHeader, Responses, Open
<1>2. r.body \in Seq(Frames)
  BY DEF Responses
<1>3. r.body \o frames # <<>>
  BY <1>2, ConcatProperties, EmptySeq
<1>4. Own(r.body \o frames)
  BY <1>2, OwnConcat DEF Sound
<1>5. ~flushed => Write(r, frames).recorded = 200
  BY <1>1 DEF Sound, Open
<1> QED BY <1>1, <1>3, <1>4, <1>5 DEF Written, Sound, Open

LEMMA FlushSound ==
    ASSUME NEW r \in Responses, NEW flushed \in BOOLEAN, Written(r, flushed)
    PROVE  Flush(r) = r
BY DEF Written, Sound, Flush, SendHeader

LEMMA WriteSSESound ==
    ASSUME NEW r \in Responses, NEW flushed \in BOOLEAN, Sound(r, flushed), Open(r),
           NEW frame \in Frames, frame.kind # "envelope"
    PROVE  /\ Sound(WriteSSE(r, frame), flushed) /\ Open(WriteSSE(r, frame))
           /\ WriteSSE(r, frame).buffer # <<>>
<1>1. r.buffer \in Seq(Frames)
  BY DEF Responses
<1>2. Own(Append(r.buffer, frame)) /\ Append(r.buffer, frame) # <<>>
  BY <1>1, OwnAppend, AppendProperties, EmptySeq DEF Sound
<1> DEFINE b == Append(r.buffer, frame)
<1> HIDE DEF b
<1>3. WriteSSE(r, frame) = [r EXCEPT !.buffer = b]
  BY DEF WriteSSE, b
<1> QED BY <1>2, <1>3 DEF Sound, Open, Responses, b

LEMMA FlushWriterSound ==
    ASSUME NEW r \in Responses, NEW flushed \in BOOLEAN, Sound(r, flushed), Open(r),
           r.buffer # <<>>
    PROVE  Written(FlushWriter(r), flushed) /\ Open(FlushWriter(r))
<1> DEFINE w == Write(r, r.buffer)
<1>1. r.buffer \in Seq(Frames) /\ Own(r.buffer)
  BY DEF Responses, Sound
<1>2. w \in Responses /\ Written(w, flushed) /\ Open(w)
  BY <1>1, WriteType, WriteSound
<1> HIDE DEF w
<1>3. FlushWriter(r) = [w EXCEPT !.buffer = <<>>]
  BY DEF FlushWriter, w
<1> QED BY <1>2, <1>3, OwnFrames DEF Written, Sound, Open, Responses

LEMMA EmitDeltaSound ==
    ASSUME NEW r \in Responses, NEW flushed \in BOOLEAN, Sound(r, flushed), Open(r),
           NEW frame \in Frames, frame.kind # "envelope"
    PROVE  Written(EmitDelta(r, frame), flushed) /\ Open(EmitDelta(r, frame))
<1> DEFINE s == WriteSSE(r, frame)
<1>1. s \in Responses /\ Sound(s, flushed) /\ Open(s) /\ s.buffer # <<>>
  BY WriteSSEType, WriteSSESound
<1>2. /\ FlushWriter(s) \in Responses /\ Written(FlushWriter(s), flushed)
      /\ Open(FlushWriter(s))
  BY <1>1, FlushWriterType, FlushWriterSound
<1> QED BY <1>2, FlushSound DEF EmitDelta

LEMMA EndStreamSound ==
    ASSUME NEW r \in Responses, NEW flushed \in BOOLEAN, Sound(r, flushed), Open(r)
    PROVE  Written(EndStream(r), flushed)
<1> DEFINE s == WriteSSE(r, Stop)
           t == WriteSSE(s, Done)
<1>1. s \in Responses /\ Sound(s, flushed) /\ Open(s)
  BY WriteSSEType, WriteSSESound, FrameTypes, OwnFrames
<1>2. t \in Responses /\ Sound(t, flushed) /\ Open(t) /\ t.buffer # <<>>
  BY <1>1, WriteSSEType, WriteSSESound, FrameTypes, OwnFrames
<1>3. FlushWriter(t) \in Responses /\ Written(FlushWriter(t), flushed)
  BY <1>2, FlushWriterType, FlushWriterSound
<1> QED BY <1>3, FlushSound DEF EndStream

\* Writing one frame and flushing, as the helpers of stream.go do.
LEMMA WriteFlushSound ==
    ASSUME NEW r \in Responses, NEW flushed \in BOOLEAN, Sound(r, flushed), Open(r),
           NEW frame \in Frames, Own(<<frame>>)
    PROVE  /\ Flush(Write(r, <<frame>>)) \in Responses
           /\ Written(Flush(Write(r, <<frame>>)), flushed)
           /\ Open(Flush(Write(r, <<frame>>)))
<1>1. <<frame>> \in Seq(Frames) /\ <<frame>> # <<>>
  OBVIOUS
<1>2. /\ Write(r, <<frame>>) \in Responses
      /\ Written(Write(r, <<frame>>), flushed) /\ Open(Write(r, <<frame>>))
  BY <1>1, WriteType, WriteSound
<1> QED BY <1>2, FlushSound

LEMMA EndBrokenStreamSound ==
    ASSUME NEW r \in Responses, NEW flushed \in BOOLEAN, Sound(r, flushed), Open(r)
    PROVE  Written(EndBrokenStream(r), flushed)
<1> DEFINE s == WriteSSE(r, Stop)
           w == FlushWriter(s)
<1>1. s \in Responses /\ Sound(s, flushed) /\ Open(s) /\ s.buffer # <<>>
  BY WriteSSEType, WriteSSESound, FrameTypes, OwnFrames
<1>2. w \in Responses /\ Written(w, flushed) /\ Open(w)
  BY <1>1, FlushWriterType, FlushWriterSound
<1>3. Flush(w) = w
  BY <1>2, FlushSound
<1> QED BY <1>2, <1>3, WriteFlushSound, FrameTypes, OwnFrames
        DEF EndBrokenStream, EmitStreamDone, Written

LEMMA EmitStreamErrorContentSound ==
    ASSUME NEW r \in Responses, NEW flushed \in BOOLEAN, Sound(r, flushed), Open(r)
    PROVE  Written(EmitStreamErrorContent(r), flushed)
<1> DEFINE s == Flush(Write(r, <<ErrorContent>>))
<1>1. s \in Responses /\ Written(s, flushed) /\ Open(s)
  BY WriteFlushSound, FrameTypes, OwnFrames
<1> HIDE DEF s
<1>2. Written(Flush(Write(s, <<Done>>)), flushed)
  BY <1>1, WriteFlushSound, FrameTypes, OwnFrames DEF Written
<1> QED BY <1>2 DEF EmitStreamErrorContent, s

\* An error is sent under its own status if nothing was sent before it.
LEMMA WriteErrorSound ==
    ASSUME NEW r \in Responses, NEW flushed \in BOOLEAN, Sound(r, flushed), Open(r),
           NEW code \in Codes
    PROVE  Written(WriteError(r, code), flushed)
<1> DEFINE e == <<Envelope(RequestId)>>
           w == WriteError(r, code)
<1>1. w = Write(WriteHeader(r, StatusOf(code)), e)
  BY IdAssumption DEF WriteError, EnvelopeFor, NoId
<1>2. StatusOf(code) # 0 /\ 200 # 0
  BY DEF StatusOf
<1>3. /\ w.body = r.body \o e /\ w.header = r.header /\ w.buffer = r.buffer
      /\ w.wroteHeader = TRUE
      /\ w.status = IF r.status = 0 /\ ~r.wroteHeader THEN StatusOf(code) ELSE 200
      /\ w.recorded = IF r.wroteHeader THEN r.recorded ELSE StatusOf(code)
  BY <1>1, <1>2 DEF WriteHeader, Write, Send, SendHeader, Responses, Open
<1> HIDE DEF w
<1>4. r.body \in Seq(Frames) /\ e \in Seq(Frames)
  BY FrameTypes, IdAssumption DEF Responses
<1>5. Own(e) /\ Len(e) = 1
  BY DEF Own
<1>6. Own(w.body) /\ w.body # <<>>
  <2>1. Own(r.body)
    BY DEF Sound
  <2>2. e # <<>>
    OBVIOUS
  <2> HIDE DEF e
  <2>3. Own(r.body \o e)
    BY <1>4, <1>5, <2>1, OwnConcat
  <2>4. r.body \o e # <<>>
    BY <1>4, <2>2, ConcatProperties, EmptySeq
  <2> QED BY <1>3, <2>3, <2>4
<1>7. w.status # 200 => \A i \in DOMAIN w.body : w.body[i].kind = "envelope"
  <2>1. e = <<>> \o e
    BY <1>4
  <2>2. \A i \in DOMAIN e : e[i].kind = "envelope"
    BY DEF Envelope, Frame
  <2>3. w.status # 200 => w.body = e
    <3>1. w.status # 200 => r.body = <<>>
      BY <1>3 DEF Sound
    <3> HIDE DEF e
    <3> QED BY <1>3, <2>1, <3>1
  <2> QED BY <2>2, <2>3
<1>8. ~flushed => w.recorded = w.status
  BY <1>3 DEF Sound, Open
<1>9. flushed => w.status = 200
  BY <1>3 DEF Sound
<1> QED BY <1>2, <1>3, <1>6, <1>7, <1>8, <1>9 DEF Written, Sound, Open, w

-----------------------------------------------------------------------------
(***************************************************************************)
(* The request, from the first middleware back to it.                        *)
(***************************************************************************)
Inside == {"handler", "streaming", "waiting", "returning", "panicking"}

\* What a panic added is the last thing in the body.
RecoveredLast == Recovered => response.body[Len(response.body)] = Envelope(RequestId)

RequestSound ==
    /\ httpPc = "arriving" => response = NewResponse /\ ~early
    /\ httpPc \in Inside => Sound(response, early) /\ record = NoRecord
    /\ httpPc \in {"arriving", "handler", "streaming", "waiting"} => Open(response)
    /\ httpPc = "handler" => response.status = 0 /\ ~early
    /\ httpPc = "arriving" => record = NoRecord
    /\ httpPc = "returning" => response.wroteHeader
    /\ RecordHasTheStatus
    /\ RecoveredLast

\* Inside the chain only the parts that speak of the response say anything.
InsideSound ==
    /\ httpPc \in Inside
    /\ response \in Responses
    /\ Sound(response, early)
    /\ record = NoRecord
    /\ httpPc \in {"handler", "streaming", "waiting"} => Open(response)
    /\ httpPc = "handler" => response.status = 0 /\ ~early
    /\ httpPc = "returning" => response.wroteHeader

LEMMA InsideIsSound == InsideSound => RequestSound
<1> SUFFICES ASSUME InsideSound PROVE RequestSound
  OBVIOUS
<1>1. RecoveredLast
  BY DEF InsideSound, RecoveredLast, Recovered, Inside
<1>2. RecordHasTheStatus
  BY DEF InsideSound, RecordHasTheStatus, Returned, Inside
<1> QED BY <1>1, <1>2 DEF InsideSound, RequestSound, Inside

LEMMA InsideIsSoundNext == InsideSound' => RequestSound'
BY InsideIsSound, PTL

LEMMA RequestSoundInit == ChatInit => RequestSound
BY DEF ChatInit, ChainInit, RequestSound, Inside, RecordHasTheStatus, RecoveredLast,
       Returned, Recovered, NewResponse, Open

LEMMA EnterSound ==
    ASSUME ChatTypeOK, RequestSound, ChainStep, EnterChain
    PROVE  RequestSound'
<1>1. /\ httpPc' = "handler" /\ early' = early /\ ~early /\ record' = NoRecord
      /\ response' = [NewResponse EXCEPT !.header = RequestId]
  BY DEF EnterChain, ChainStep, RequestSound
<1>2. Sound(response', FALSE) /\ Open(response') /\ response'.status = 0
  BY <1>1 DEF Sound, Open, Own, NewResponse
<1>3. response' \in Responses
  BY ChainTypeStep DEF ChatTypeOK, ChainTypeOK
<1>4. early' = FALSE
  BY <1>1 DEF ChatTypeOK
<1>5. InsideSound'
  BY <1>1, <1>2, <1>3, <1>4 DEF InsideSound, Inside
<1> QED BY <1>5, InsideIsSoundNext

\* Each handler operation leaves a written response behind, or an open one.
LEMMA HandlerSound ==
    ASSUME ChatTypeOK, RequestSound, HandlerStep
    PROVE  RequestSound'
<1>1. response \in Responses /\ early \in BOOLEAN
  BY DEF ChatTypeOK, ChainTypeOK
<1>2. /\ httpPc \in {"handler", "streaming", "waiting"}
      /\ record' = record
  BY DEF HandlerStep, Refuse, ReplayAnswer, Serve, StreamResult, EndOfStream, Respond
<1>3. /\ Sound(response, early) /\ Open(response) /\ record = NoRecord
      /\ httpPc = "handler" => response.status = 0 /\ ~early
  BY <1>2 DEF RequestSound, Inside
<1>4. response' \in Responses
  BY HandlerTypeStep DEF ChatTypeOK, ChainTypeOK
<1>5. ASSUME httpPc' = "returning", early' = early, Written(response', early)
      PROVE  RequestSound'
  <2>1. InsideSound'
    BY <1>2, <1>3, <1>4, <1>5 DEF InsideSound, Inside, Written
  <2> QED BY <2>1, InsideIsSoundNext
<1>6. CASE Refuse
  <2>1. Written(response', early)
    BY <1>1, <1>3, <1>6, WriteErrorSound DEF Refuse
  <2> QED BY <1>5, <1>6, <2>1 DEF Refuse
<1>7. CASE ReplayAnswer
  <2>1. Text(Answer) \in Frames /\ Text(Answer).kind # "envelope"
    BY FrameTypes, OwnFrames DEF Answer
  <2> DEFINE s == EmitDelta(response, Text(Answer))
  <2>2. s \in Responses /\ Written(s, early) /\ Open(s)
    BY <1>1, <1>3, <2>1, EmitDeltaType, EmitDeltaSound
  <2>3. Written(WriteRepeatedStream(response, Answer), early)
    BY <1>1, <2>2, EndStreamSound DEF WriteRepeatedStream, Written
  <2>4. Written(WriteRepeatedResponse(response, Answer), early)
    <3>1. Completion(Answer) \in Frames /\ Own(<<Completion(Answer)>>)
      BY FrameTypes, OwnFrames DEF Answer
    <3>2. <<Completion(Answer)>> \in Seq(Frames) /\ <<Completion(Answer)>> # <<>>
      BY <3>1
    <3> QED BY <1>1, <1>3, <3>1, <3>2, WriteSound
            DEF WriteRepeatedResponse, WriteNonStreamingResponse
  <2> QED BY <1>5, <1>7, <2>3, <2>4 DEF ReplayAnswer
<1>8. CASE Serve
  <2>1. PICK flushed \in {FALSE, stream} :
            /\ early' = flushed
            /\ response' = IF flushed THEN Flush(response) ELSE response
    BY <1>8 DEF Serve
  <2>2. response.status = 0 /\ ~early /\ ~response.wroteHeader
    BY <1>3, <1>8 DEF Serve, Sound
  <2>3. flushed \in BOOLEAN
    BY DEF ChatTypeOK, ChainTypeOK
  <2>4. Sound(response', early') /\ Open(response')
    <3>1. CASE flushed
      <4>1. response' = [response EXCEPT !.status = 200]
        BY <2>1, <2>2, <3>1 DEF Flush, SendHeader
      <4> QED BY <1>1, <1>3, <2>1, <2>2, <3>1, <4>1 DEF Sound, Open, Responses
    <3>2. CASE ~flushed
      BY <1>3, <2>1, <2>2, <3>2 DEF Sound
    <3> QED BY <3>1, <3>2
  <2>5. httpPc' \in {"streaming", "waiting"}
    BY <1>8 DEF Serve
  <2>6. InsideSound'
    BY <1>2, <1>3, <1>4, <2>4, <2>5 DEF InsideSound, Inside
  <2> QED BY <2>6, InsideIsSoundNext
<1>9. CASE StreamResult
  <2>1. Head(events) \in Calls
    BY <1>9, TakeTypeStep DEF StreamResult, ChatTypeOK
  <2>2. Result(Head(events)) \in Frames /\ Result(Head(events)).kind # "envelope"
    BY <2>1, FrameTypes, OwnFrames, BoundsAssumption DEF Calls
  <2>3. Written(response', early) /\ Open(response')
    BY <1>1, <1>3, <1>9, <2>2, EmitDeltaSound DEF StreamResult
  <2>4. InsideSound'
    BY <1>2, <1>3, <1>4, <1>9, <2>3 DEF StreamResult, InsideSound, Inside, Written
  <2> QED BY <2>4, InsideIsSoundNext
<1>10. CASE EndOfStream
  <2>1. Text(Answer) \in Frames /\ Text(Answer).kind # "envelope"
    BY FrameTypes, OwnFrames DEF Answer
  <2> DEFINE answered == EmitDelta(response, Text(Answer))
  <2>2. answered \in Responses /\ Sound(answered, early) /\ Open(answered)
    BY <1>1, <1>3, <2>1, EmitDeltaType, EmitDeltaSound DEF Written
  <2>3. Written(EndStream(answered), early) /\ Written(EndBrokenStream(answered), early)
    BY <1>1, <2>2, EndStreamSound, EndBrokenStreamSound
  <2>4. /\ Written(EmitStreamErrorContent(response), early)
        /\ Written(WriteError(response, "agent_error"), early)
    BY <1>1, <1>3, EmitStreamErrorContentSound, WriteErrorSound, StatusTypes
  <2>5. Written(response', early)
    BY <1>10, <2>3, <2>4 DEF EndOfStream
  <2> QED BY <1>5, <1>10, <2>5 DEF EndOfStream
<1>11. CASE Respond
  <2>1. Written(WriteError(response, "agent_error"), early)
    BY <1>1, <1>3, WriteErrorSound, StatusTypes
  <2>2. ASSUME NEW answer \in {Answer, EmptyAnswer}
        PROVE  Written(WriteNonStreamingResponse(response, answer), early)
    <3>1. Completion(answer) \in Frames /\ Own(<<Completion(answer)>>)
      BY FrameTypes, OwnFrames DEF Answer, EmptyAnswer
    <3>2. <<Completion(answer)>> \in Seq(Frames) /\ <<Completion(answer)>> # <<>>
      BY <3>1
    <3> QED BY <1>1, <1>3, <3>1, <3>2, WriteSound DEF WriteNonStreamingResponse
  <2>3. Written(response', early)
    BY <1>11, <2>1, <2>2 DEF Respond
  <2> QED BY <1>5, <1>11, <2>3 DEF Respond
<1> QED BY <1>6, <1>7, <1>8, <1>9, <1>10, <1>11 DEF HandlerStep

LEMMA LogAccessSound ==
    ASSUME ChatTypeOK, RequestSound, ChainStep, LogAccess
    PROVE  RequestSound'
<1>1. /\ Sound(response, early) /\ response.wroteHeader
      /\ early' = early /\ httpPc' = "ended" /\ record' = response.recorded
      /\ response' = SendHeader(response, 200)
  BY DEF LogAccess, ChainStep, RequestSound, Inside
<1>2. response' = response /\ response \in Responses
  BY <1>1 DEF SendHeader, Sound, ChatTypeOK, ChainTypeOK
<1>3. record' # NoRecord
  BY <1>1, <1>2 DEF Responses, Statuses, StatusOf, NoRecord
<1>4. RecordHasTheStatus'
  BY <1>1, <1>2 DEF RecordHasTheStatus, Sound
<1>5. RecoveredLast'
  BY <1>3 DEF RecoveredLast, Recovered
<1> QED BY <1>1, <1>4, <1>5 DEF RequestSound, Inside

LEMMA ConcatOne ==
    ASSUME NEW s \in Seq(Frames), NEW frame \in Frames
    PROVE  /\ s \o <<frame>> \in Seq(Frames)
           /\ Len(s) \in Nat /\ Len(s \o <<frame>>) = Len(s) + 1
           /\ \A i \in 1 .. Len(s) : (s \o <<frame>>)[i] = s[i]
           /\ (s \o <<frame>>)[Len(s) + 1] = frame
<1>1. <<frame>> \in Seq(Frames) /\ Len(<<frame>>) = 1 /\ <<frame>>[1] = frame
  OBVIOUS
<1>2. Len(s) \in Nat
  BY LenProperties
<1> DEFINE t == <<frame>>
<1> HIDE DEF t
<1>3. /\ t \in Seq(Frames) /\ Len(t) = 1 /\ t[1] = frame
  BY <1>1 DEF t
<1>4. /\ s \o t \in Seq(Frames) /\ Len(s \o t) = Len(s) + 1
      /\ \A i \in 1 .. Len(s) + 1 : (s \o t)[i] = IF i <= Len(s) THEN s[i] ELSE t[i - Len(s)]
  BY <1>3, ConcatProperties
<1>5. Len(s) + 1 - Len(s) = 1
  BY <1>2
<1>6. (s \o t)[Len(s) + 1] = frame
  BY <1>2, <1>3, <1>4, <1>5
<1> QED BY <1>2, <1>4, <1>6 DEF t

LEMMA RecoverSound ==
    ASSUME ChatTypeOK, RequestSound, ChainStep, Recover
    PROVE  RequestSound'
<1> DEFINE r == response
           e == <<Envelope(RequestId)>>
<1>1. /\ Sound(r, early) /\ r \in Responses /\ record' = NoRecord
      /\ early' = early /\ httpPc' = "ended" /\ response' = RecoverError(r)
  BY DEF Recover, ChainStep, RequestSound, Inside, ChatTypeOK, ChainTypeOK
<1>2. /\ response'.body = r.body \o e
      /\ response'.status = IF r.status = 0 THEN 500 ELSE r.status
  BY <1>1 DEF RecoverError, Send, SendHeader, EnvelopeFor, Responses, Sound, StatusOf
<1>3. /\ r.body \in Seq(Frames) /\ e \in Seq(Frames) /\ Len(e) = 1 /\ Own(e)
      /\ e[1] = Envelope(RequestId)
  BY <1>1, FrameTypes, IdAssumption DEF Responses, Own
<1> HIDE DEF e
<1>4. /\ response'.body \in Seq(Frames)
      /\ Len(response'.body) = Len(r.body) + 1
      /\ \A i \in 1 .. Len(r.body) : response'.body[i] = r.body[i]
      /\ response'.body[Len(r.body) + 1] = Envelope(RequestId)
      /\ Len(r.body) \in Nat
  BY <1>2, <1>3, ConcatOne, FrameTypes, IdAssumption DEF e
<1>5. RecoveredLast'
  BY <1>4 DEF RecoveredLast
<1>6. RecordHasTheStatus'
  BY <1>1 DEF RecordHasTheStatus, Returned
<1> QED BY <1>1, <1>5, <1>6 DEF RequestSound, Inside

LEMMA RequestSoundNext == ChatTypeOK /\ RequestSound /\ [ChatNext]_chatVars => RequestSound'
<1> SUFFICES ASSUME ChatTypeOK, RequestSound, [ChatNext]_chatVars PROVE RequestSound'
  OBVIOUS
<1>1. CASE ChainStep
  BY <1>1, EnterSound, LogAccessSound, RecoverSound DEF ChainStep
<1>2. CASE HandlerStep
  BY <1>2, HandlerSound
<1>3. CASE Panic
  <2>1. /\ response \in Responses /\ Sound(response, early) /\ record = NoRecord
    BY <1>3 DEF Panic, RequestSound, Inside, ChatTypeOK, ChainTypeOK
  <2>2. InsideSound'
    BY <1>3, <2>1 DEF Panic, InsideSound, Inside
  <2> QED BY <2>2, InsideIsSoundNext
<1>4. CASE RunStep \/ Others \/ UNCHANGED chatVars
  <2>1. UNCHANGED <<httpPc, response, record, early>>
    BY <1>4 DEF RunStep, Others, chainVars, chatVars
  <2> QED BY <2>1 DEF RequestSound, Sound, Open, Own, RecordHasTheStatus, RecoveredLast,
                      Returned, Recovered
<1> QED BY <1>1, <1>2, <1>3, <1>4 DEF ChatNext

LEMMA RequestSoundAlways == ChatSpec => []RequestSound
<1> QED BY ChatTypeInit, ChatTypeNext, RequestSoundInit, RequestSoundNext, PTL DEF ChatSpec

\* The access record differs from the status sent only after an early flush, and
\* then 200 was sent.
THEOREM ChatRecordHasTheStatus == ChatSpec => []RecordHasTheStatus
<1>1. RequestSound => RecordHasTheStatus
  BY DEF RequestSound
<1> QED BY <1>1, RequestSoundAlways, PTL

-----------------------------------------------------------------------------
(***************************************************************************)
(* Delivery: what reaches the client of a chat completion, and the supervisor *)
(* behind a delegation: the whole stream, the answer or the error, each       *)
(* result with the guidance that is its own.                                *)
(***************************************************************************)

-----------------------------------------------------------------------------
(***************************************************************************)
(* Bodies.  s is what r became by a write of frames that left nothing in the  *)
(* buffer.                                                                  *)
(***************************************************************************)
Wrote(r, s, frames) ==
    /\ s \in Responses
    /\ s.status = 200
    /\ s.buffer = <<>>
    /\ s.body = r.body \o frames

LEMMA WriteWrote ==
    ASSUME NEW r \in Responses, Open(r), NEW frames \in Seq(Frames)
    PROVE  Wrote(r, [Write(r, frames) EXCEPT !.buffer = <<>>], frames)
<1>1. Write(r, frames) \in Responses
  BY WriteType
<1>2. Write(r, frames).status = 200 /\ Write(r, frames).body = r.body \o frames
  BY DEF Write, Send, SendHeader, Responses, Open
<1> DEFINE w == Write(r, frames)
<1> HIDE DEF w
<1>3. w \in Responses /\ w.status = 200 /\ w.body = r.body \o frames
  BY <1>1, <1>2, Zenon DEF w
<1>4. <<>> \in Seq(Frames)
  BY EmptySeq
<1>5. [w EXCEPT !.buffer = <<>>] \in Responses
  BY <1>3, <1>4 DEF Responses
<1>6. /\ [w EXCEPT !.buffer = <<>>].status = w.status
      /\ [w EXCEPT !.buffer = <<>>].body = w.body
      /\ [w EXCEPT !.buffer = <<>>].buffer = <<>>
  BY <1>3 DEF Responses
<1>7. [w EXCEPT !.buffer = <<>>].body = r.body \o frames
  BY <1>3, <1>6, Zenon
<1>8. Wrote(r, [w EXCEPT !.buffer = <<>>], frames)
  BY <1>3, <1>5, <1>6, <1>7 DEF Wrote
<1> QED BY <1>8 DEF w

LEMMA WroteFlush ==
    ASSUME NEW r, NEW s, NEW frames, Wrote(r, s, frames)
    PROVE  Flush(s) = s /\ Open(s) /\ s.buffer = <<>> /\ s \in Responses
BY DEF Wrote, Flush, SendHeader, Open

\* One frame through an empty buffer, and a flush.
LEMMA EmitDeltaWrote ==
    ASSUME NEW r \in Responses, Open(r), r.buffer = <<>>, NEW frame \in Frames
    PROVE  Wrote(r, EmitDelta(r, frame), <<frame>>)
<1> DEFINE b == <<frame>>
<1>1. b \in Seq(Frames) /\ Append(<<>>, frame) = b /\ b # <<>>
  OBVIOUS
<1> HIDE DEF b
<1>2. PICK s : s = [r EXCEPT !.buffer = b]
  OBVIOUS
<1>3. s \in Responses /\ Open(s) /\ s.buffer = b /\ s.body = r.body
  BY <1>1, <1>2 DEF Responses, Open
<1>4. WriteSSE(r, frame) = s
  BY <1>1, <1>2 DEF WriteSSE
<1>5. FlushWriter(s) = [Write(s, b) EXCEPT !.buffer = <<>>]
  BY <1>1, <1>3 DEF FlushWriter
<1>6. Wrote(s, FlushWriter(s), b)
  BY <1>1, <1>3, <1>5, WriteWrote
<1>7. Flush(FlushWriter(s)) = FlushWriter(s)
  BY <1>6, WroteFlush
<1>8. Wrote(r, EmitDelta(r, frame), b)
  BY <1>3, <1>4, <1>6, <1>7 DEF Wrote, EmitDelta
<1> QED BY <1>8 DEF b

\* What EmitStreamDone and its like write past an empty buffer.
LEMMA WriteFlushWrote ==
    ASSUME NEW r \in Responses, Open(r), r.buffer = <<>>, NEW frame \in Frames
    PROVE  Wrote(r, Flush(Write(r, <<frame>>)), <<frame>>)
<1> DEFINE b == <<frame>>
<1>1. b \in Seq(Frames)
  OBVIOUS
<1> HIDE DEF b
<1>2. Write(r, b) \in Responses /\ Write(r, b).buffer = <<>>
  <2>1. Write(r, b).buffer = r.buffer
    BY DEF Write, Send, SendHeader, Responses
  <2> QED BY <1>1, <2>1, WriteType
<1>3. [Write(r, b) EXCEPT !.buffer = <<>>] = Write(r, b)
  BY <1>2 DEF Responses
<1>4. Wrote(r, Write(r, b), b)
  BY <1>1, <1>3, WriteWrote
<1>5. Flush(Write(r, b)) = Write(r, b)
  BY <1>4, WroteFlush
<1> QED BY <1>4, <1>5 DEF b

\* The end of a stream in two writes of a frame.
EndsWith(r, frame, s) ==
    \E mid : Wrote(r, mid, <<frame>>) /\ Wrote(mid, s, <<Done>>)

LEMMA EndBrokenStreamEnds ==
    ASSUME NEW r \in Responses, Open(r), r.buffer = <<>>
    PROVE  EndsWith(r, Stop, EndBrokenStream(r))
<1>1. PICK s : s = EmitDelta(r, Stop)
  OBVIOUS
<1>2. Wrote(r, s, <<Stop>>)
  BY <1>1, EmitDeltaWrote, FrameTypes
<1>3. EndBrokenStream(r) = Flush(Write(s, <<Done>>))
  BY <1>1 DEF EndBrokenStream, EmitStreamDone, EmitDelta
<1>4. Wrote(s, EndBrokenStream(r), <<Done>>)
  BY <1>2, <1>3, WroteFlush, WriteFlushWrote, FrameTypes
<1> QED BY <1>2, <1>4 DEF EndsWith

LEMMA EmitStreamErrorContentEnds ==
    ASSUME NEW r \in Responses, Open(r), r.buffer = <<>>
    PROVE  EndsWith(r, ErrorContent, EmitStreamErrorContent(r))
<1>1. PICK s : s = Flush(Write(r, <<ErrorContent>>))
  OBVIOUS
<1>2. Wrote(r, s, <<ErrorContent>>)
  BY <1>1, WriteFlushWrote, FrameTypes
<1>3. EmitStreamErrorContent(r) = Flush(Write(s, <<Done>>))
  BY <1>1 DEF EmitStreamErrorContent
<1>4. Wrote(s, EmitStreamErrorContent(r), <<Done>>)
  BY <1>2, <1>3, WroteFlush, WriteFlushWrote, FrameTypes
<1> QED BY <1>2, <1>4 DEF EndsWith

\* One flush for both frames comes to the same.
LEMMA EndStreamEnds ==
    ASSUME NEW r \in Responses, Open(r), r.buffer = <<>>
    PROVE  EndsWith(r, Stop, EndStream(r))
<1> DEFINE b == Append(Append(<<>>, Stop), Done)
<1>1. b = <<Stop>> \o <<Done>> /\ b # <<>> /\ b \in Seq(Frames)
  BY FrameTypes
<1> HIDE DEF b
<1>2. PICK s : s = [r EXCEPT !.buffer = b]
  OBVIOUS
<1>3. s \in Responses /\ Open(s) /\ s.buffer = b /\ s.body = r.body
  BY <1>1, <1>2 DEF Responses, Open
<1>4. WriteSSE(WriteSSE(r, Stop), Done) = s
  BY <1>2 DEF WriteSSE, Responses, b
<1>5. FlushWriter(s) = [Write(s, b) EXCEPT !.buffer = <<>>]
  BY <1>1, <1>3 DEF FlushWriter
<1>6. Wrote(s, FlushWriter(s), b)
  BY <1>1, <1>3, <1>5, WriteWrote
<1>7. EndStream(r) = FlushWriter(s)
  BY <1>4, <1>6, WroteFlush DEF EndStream
<1>8. PICK mid : mid = EmitDelta(r, Stop)
  OBVIOUS
<1>9. Wrote(r, mid, <<Stop>>)
  BY <1>8, EmitDeltaWrote, FrameTypes
<1>10. r.body \o (<<Stop>> \o <<Done>>) = (r.body \o <<Stop>>) \o <<Done>>
  <2>1. r.body \in Seq(Frames) /\ <<Stop>> \in Seq(Frames) /\ <<Done>> \in Seq(Frames)
    BY FrameTypes DEF Responses
  <2> QED BY <2>1, ConcatAssociative
<1>11. FlushWriter(s).body = mid.body \o <<Done>>
  <2>1. FlushWriter(s).body = r.body \o b
    BY <1>3, <1>6, Zenon DEF Wrote
  <2>2. mid.body = r.body \o <<Stop>>
    BY <1>9, Zenon DEF Wrote
  <2> QED BY <1>1, <1>10, <2>1, <2>2, Zenon
<1>12. Wrote(mid, EndStream(r), <<Done>>)
  BY <1>6, <1>7, <1>11, Zenon DEF Wrote
<1> QED BY <1>9, <1>12 DEF EndsWith

LEMMA ErrorStatus == \A code \in Codes : StatusOf(code) >= 400
BY DEF StatusOf

\* An error before anything else is the whole body.
LEMMA WriteErrorIs ==
    ASSUME NEW r \in Responses, r.body = <<>>, NEW code \in Codes
    PROVE  /\ WriteError(r, code).body = <<Envelope(RequestId)>>
           /\ r.status = 0 /\ ~r.wroteHeader => WriteError(r, code).status = StatusOf(code)
<1> DEFINE e == <<Envelope(RequestId)>>
<1>1. WriteError(r, code) = Write(WriteHeader(r, StatusOf(code)), e)
  BY IdAssumption DEF WriteError, EnvelopeFor, NoId
<1>2. StatusOf(code) # 0
  BY DEF StatusOf
<1>3. e \in Seq(Frames)
  BY FrameTypes, IdAssumption
<1>4. <<>> \o e = e
  BY <1>3, ConcatEmptySeq
<1> HIDE DEF e
<1>5. /\ WriteError(r, code).body = r.body \o e
      /\ r.status = 0 /\ ~r.wroteHeader => WriteError(r, code).status = StatusOf(code)
  BY <1>1, <1>2 DEF WriteHeader, Write, Send, SendHeader, Responses
<1> QED BY <1>4, <1>5 DEF e

-----------------------------------------------------------------------------
(***************************************************************************)
(* The answer of a request without a stream: nothing yet, an answer, or       *)
(* errors only.  Envelopes may follow, of a panic after the last byte.        *)
(***************************************************************************)
Answered(r) ==
    /\ r.status = 200
    /\ r.body # <<>>
    /\ r.body[1] \in {Completion(Answer), Completion(EmptyAnswer)}
    /\ \A i \in DOMAIN r.body : i # 1 => r.body[i].kind = "envelope"

Failed(r) ==
    /\ r.status >= 400
    /\ r.body # <<>>
    /\ \A i \in DOMAIN r.body : r.body[i].kind = "envelope"

ReplySound ==
    ~stream =>
        /\ ~early /\ httpPc # "streaming"
        /\ httpPc \in {"arriving", "handler", "waiting"} => ~response.wroteHeader
        /\ httpPc \in Inside \cup {"ended"} =>
              \/ Answered(response) \/ Failed(response)
              \/ response.body = <<>> /\ httpPc \notin {"returning", "ended"}

LEMMA WriteErrorFails ==
    ASSUME NEW r \in Responses, r.body = <<>>, r.status = 0, ~r.wroteHeader,
           NEW code \in Codes
    PROVE  Failed(WriteError(r, code))
<1>1. PICK s : s = WriteError(r, code)
  OBVIOUS
<1>2. s.body = <<Envelope(RequestId)>> /\ s.status = StatusOf(code)
  BY <1>1, WriteErrorIs
<1>3. s.status >= 400
  BY <1>2, ErrorStatus
<1>4. Failed(s)
  BY <1>2, <1>3 DEF Failed, Envelope, Frame
<1> QED BY <1>1, <1>4

LEMMA CompletionAnswers ==
    ASSUME NEW r \in Responses, r.body = <<>>, Open(r), NEW answer \in {Answer, EmptyAnswer}
    PROVE  Answered(WriteNonStreamingResponse(r, answer))
<1> DEFINE b == <<Completion(answer)>>
<1>1. b \in Seq(Frames) /\ b[1] = Completion(answer) /\ DOMAIN b = {1} /\ b # <<>>
  BY FrameTypes DEF Answer, EmptyAnswer
<1> HIDE DEF b
<1>2. Write(r, b).status = 200 /\ Write(r, b).body = r.body \o b
  BY DEF Write, Send, SendHeader, Responses, Open
<1>3. <<>> \o b = b
  BY <1>1, ConcatEmptySeq
<1>4. PICK s : s = Write(r, b)
  OBVIOUS
<1>5. s.status = 200 /\ s.body = b
  BY <1>2, <1>3, <1>4
<1>6. Answered(s)
  BY <1>1, <1>5 DEF Answered
<1> QED BY <1>4, <1>6 DEF WriteNonStreamingResponse, b

\* An envelope after what was sent leaves an answer an answer.
LEMMA RecoverKeepsReply ==
    ASSUME NEW r \in Responses, r.header = RequestId,
           r.body = <<>> => r.status = 0
    PROVE  /\ r.body = <<>> => Failed(RecoverError(r))
           /\ Answered(r) => Answered(RecoverError(r))
           /\ Failed(r) => Failed(RecoverError(r))
<1> DEFINE e == Envelope(RequestId)
<1>1. e \in Frames /\ e.kind = "envelope"
  BY FrameTypes, IdAssumption DEF Envelope, Frame
<1>2. PICK s : s = RecoverError(r)
  OBVIOUS
<1>3. /\ s.body = r.body \o <<e>>
      /\ s.status = IF r.status = 0 THEN 500 ELSE r.status
  BY <1>2 DEF RecoverError, Send, SendHeader, EnvelopeFor, Responses, StatusOf
<1> HIDE DEF e
<1>4. r.body \in Seq(Frames)
  BY DEF Responses
<1>5. /\ s.body \in Seq(Frames)
      /\ Len(r.body) \in Nat /\ Len(s.body) = Len(r.body) + 1
      /\ \A i \in 1 .. Len(r.body) : s.body[i] = r.body[i]
      /\ s.body[Len(r.body) + 1] = e
  BY <1>1, <1>3, <1>4, ConcatOne
<1>6. s.body # <<>> /\ DOMAIN s.body = 1 .. Len(r.body) + 1
  BY <1>5, EmptySeq, LenProperties
<1>7. ASSUME r.body = <<>> PROVE Failed(s)
  <2>1. Len(r.body) = 0
    BY <1>7, EmptySeq
  <2>2. s.status = 500
    BY <1>3, <1>7
  <2>3. \A i \in DOMAIN s.body : i = 1
    BY <1>6, <2>1
  <2> QED BY <1>1, <1>5, <1>6, <2>1, <2>2, <2>3 DEF Failed
<1>8. \A i \in DOMAIN s.body : (i \in DOMAIN r.body /\ s.body[i] = r.body[i])
                               \/ (i = Len(r.body) + 1 /\ s.body[i] = e)
  BY <1>4, <1>5, <1>6, LenProperties
<1>9. ASSUME Failed(r) PROVE Failed(s)
  <2>1. s.status = r.status
    BY <1>3, <1>9 DEF Failed
  <2> QED BY <1>1, <1>6, <1>8, <1>9, <2>1 DEF Failed
<1>10. ASSUME Answered(r) PROVE Answered(s)
  <2>1. s.status = 200
    BY <1>3, <1>10 DEF Answered
  <2>2. 1 \in 1 .. Len(r.body)
    BY <1>4, <1>10, EmptySeq DEF Answered
  <2>3. s.body[1] = r.body[1]
    BY <1>5, <2>2
  <2>4. \A i \in DOMAIN s.body : i # 1 => s.body[i].kind = "envelope"
    BY <1>1, <1>8, <1>10 DEF Answered
  <2> QED BY <1>6, <1>10, <2>1, <2>3, <2>4 DEF Answered
<1> QED BY <1>2, <1>7, <1>9, <1>10

LEMMA ReplySoundInit == ChatInit => ReplySound
BY DEF ChatInit, ChainInit, ReplySound, NewResponse, Inside

LEMMA ReplySoundNext ==
    ChatTypeOK /\ RequestSound /\ ReplySound /\ [ChatNext]_chatVars => ReplySound'
<1> SUFFICES ASSUME ChatTypeOK, RequestSound, ReplySound, [ChatNext]_chatVars PROVE ReplySound'
  OBVIOUS
<1>1. stream' = stream
  BY DEF ChatNext, ChainStep, EnterChain, LogAccess, Recover, HandlerStep, Refuse,
         ReplayAnswer, Serve, StreamResult, EndOfStream, Respond, Panic, RunStep, Others,
         chainVars, chatVars
<1> SUFFICES ASSUME ~stream PROVE ReplySound'
  BY <1>1 DEF ReplySound
<1>2. response \in Responses /\ ~early /\ httpPc # "streaming"
  BY DEF ChatTypeOK, ChainTypeOK, ReplySound
<1> DEFINE Begun == early' = FALSE /\ response' = response /\ httpPc' = "waiting"
<1>0. Serve => Begun
  <2> SUFFICES ASSUME Serve PROVE Begun
    OBVIOUS
  <2>1. stream = FALSE
    BY DEF ChatTypeOK, ChainTypeOK
  <2>2. PICK flushed \in {FALSE, stream} :
            /\ early' = flushed
            /\ response' = IF flushed THEN Flush(response) ELSE response
    BY DEF Serve
  <2>3. flushed = FALSE
    BY <2>1
  <2> QED BY <2>2, <2>3 DEF Serve
<1>3. early' = FALSE
  <2>1. early = FALSE
    BY <1>2 DEF ChatTypeOK
  <2> QED BY <1>0, <2>1
          DEF ChatNext, ChainStep, HandlerStep, Refuse, ReplayAnswer, StreamResult,
              EndOfStream, Respond, Panic, RunStep, Others, chatVars
<1>4. httpPc \in {"handler", "waiting"} =>
          response.body = <<>> /\ response.status = 0 /\ ~response.wroteHeader
  BY <1>2 DEF ReplySound, RequestSound, Inside, Sound
<1>5. ASSUME httpPc' = "returning", Answered(response') \/ Failed(response')
      PROVE  ReplySound'
  BY <1>3, <1>5 DEF ReplySound, Inside
<1>6. CASE ChainStep /\ EnterChain
  <2>1. response = NewResponse
    BY <1>6 DEF EnterChain, RequestSound
  <2>2. response'.body = <<>> /\ ~response'.wroteHeader
    BY <1>6, <2>1 DEF EnterChain, NewResponse
  <2> QED BY <1>3, <1>6, <2>2 DEF EnterChain, ReplySound, Inside
<1>7. CASE ChainStep /\ LogAccess
  <2>1. response.status # 0
    BY <1>7 DEF LogAccess, RequestSound, Inside, Sound
  <2>2. response' = response
    BY <1>7, <2>1 DEF LogAccess, SendHeader
  <2> QED BY <1>3, <1>7, <2>2 DEF LogAccess, ReplySound, Inside
<1>8. CASE ChainStep /\ Recover
  <2>1. response.header = RequestId /\ (response.body = <<>> => response.status = 0)
    BY <1>2, <1>8 DEF Recover, RequestSound, Inside, Sound
  <2>2. Answered(response') \/ Failed(response')
    BY <1>2, <1>8, <2>1, RecoverKeepsReply DEF Recover, ReplySound, Inside
  <2> QED BY <1>3, <1>8, <2>2 DEF Recover, ReplySound, Inside
<1>9. CASE Refuse
  <2>1. Failed(response')
    BY <1>2, <1>4, <1>9, WriteErrorFails DEF Refuse
  <2> QED BY <1>5, <1>9, <2>1 DEF Refuse
<1>10. CASE ReplayAnswer
  <2>1. response' = WriteNonStreamingResponse(response, Answer)
    BY <1>10 DEF ReplayAnswer, WriteRepeatedResponse
  <2>2. Answered(response')
    BY <1>2, <1>4, <1>10, <2>1, CompletionAnswers DEF ReplayAnswer, Open
  <2> QED BY <1>5, <1>10, <2>2 DEF ReplayAnswer
<1>11. CASE Serve
  <2>1. response' = response /\ httpPc' = "waiting"
    BY <1>11, <1>0
  <2> QED BY <1>3, <1>4, <1>11, <2>1 DEF Serve, ReplySound, Inside
<1>12. CASE StreamResult \/ EndOfStream
  BY <1>2, <1>12 DEF StreamResult, EndOfStream
<1>13. CASE Respond
  <2>1. CASE response' = WriteError(response, "agent_error")
    <3>1. Failed(response')
      BY <1>2, <1>4, <1>13, <2>1, WriteErrorFails, StatusTypes DEF Respond
    <3> QED BY <1>5, <1>13, <3>1 DEF Respond
  <2>2. ASSUME NEW answer \in {Answer, EmptyAnswer},
               response' = WriteNonStreamingResponse(response, answer)
        PROVE  ReplySound'
    <3>1. Answered(response')
      BY <1>2, <1>4, <1>13, <2>2, CompletionAnswers DEF Respond, Open
    <3> QED BY <1>5, <1>13, <3>1 DEF Respond
  <2> QED BY <1>13, <2>1, <2>2 DEF Respond
<1>14. CASE Panic
  BY <1>3, <1>14 DEF Panic, ReplySound, Inside
<1>15. CASE RunStep \/ Others \/ UNCHANGED chatVars
  <2>1. UNCHANGED <<httpPc, response>>
    BY <1>15 DEF RunStep, Others, chainVars, chatVars
  <2> QED BY <1>3, <2>1 DEF ReplySound
<1> QED BY <1>6, <1>7, <1>8, <1>9, <1>10, <1>11, <1>12, <1>13, <1>14, <1>15
        DEF ChatNext, ChainStep, HandlerStep

\* Whatever the handler, the run and a panic do, and in whatever order: a supervisor
\* is told an answer exactly when one was written, and an error otherwise.
THEOREM ChatDelegateHearsTheAnswer == ChatSpec => []DelegateHearsTheAnswer
<1>1. ChatTypeOK /\ ReplySound => DelegateHearsTheAnswer
  <2> SUFFICES ASSUME ChatTypeOK, ReplySound, httpPc = "ended", ~stream
               PROVE  DelegateReads(response) =
                          CASE Positions("completion") = {} -> "HTTP error"
                            [] Completion(Answer) = response.body[1] -> "answer"
                            [] OTHER -> "empty answer"
    BY DEF DelegateHearsTheAnswer
  <2>1. /\ response.body \in Seq(Frames) /\ response.body # <<>>
        /\ Answered(response) \/ Failed(response)
    BY DEF ChatTypeOK, ChainTypeOK, Responses, ReplySound, Answered, Failed
  <2>2. 1 \in DOMAIN response.body /\ Head(response.body) = response.body[1]
    BY <2>1, EmptySeq, LenProperties
  <2>3. CASE Failed(response)
    <3>1. Positions("completion") = {} /\ Completion(Answer) # response.body[1]
      BY <2>2, <2>3 DEF Failed, Positions, Kind, Completion, Frame
    <3>2. response.status >= 400 /\ ~(response.status < 400)
      <4>1. response.status \in Nat
        BY DEF ChatTypeOK, ChainTypeOK, Responses, Statuses, StatusOf
      <4> QED BY <2>3, <4>1 DEF Failed
    <3>3. DelegateReads(response) = "HTTP error"
      BY <3>2 DEF DelegateReads
    <3> QED BY <3>1, <3>3
  <2>4. CASE Answered(response)
    <3>1. response.body[1].kind = "completion" /\ Positions("completion") # {}
      BY <2>2, <2>4 DEF Answered, Positions, Kind, Completion, Frame
    <3>2. response.status = 200
      BY <2>4 DEF Answered
    <3>3. CASE response.body[1] = Completion(Answer)
      <4>1. response.body[1].data # EmptyAnswer
        BY <3>3 DEF Completion, Frame, Answer, EmptyAnswer
      <4>2. DelegateReads(response) = "answer"
        BY <2>1, <2>2, <3>1, <3>2, <4>1 DEF DelegateReads
      <4> QED BY <3>1, <3>3, <4>2
    <3>4. CASE response.body[1] = Completion(EmptyAnswer)
      <4>1. /\ response.body[1].data = EmptyAnswer
            /\ response.body[1] # Completion(Answer)
        BY <3>4 DEF Completion, Frame, Answer, EmptyAnswer
      <4>2. DelegateReads(response) = "empty answer"
        BY <2>1, <2>2, <3>1, <3>2, <4>1 DEF DelegateReads
      <4> QED BY <3>1, <4>1, <4>2
    <3> QED BY <2>4, <3>3, <3>4 DEF Answered
  <2> QED BY <2>1, <2>3, <2>4
<1> QED BY <1>1, ChatTypeInit, ChatTypeNext, RequestSoundInit, RequestSoundNext,
           ReplySoundInit, ReplySoundNext, PTL DEF ChatSpec

-----------------------------------------------------------------------------
(***************************************************************************)
(* A step of a call, as the stream and the queue see it.                      *)
(***************************************************************************)
GuidedSound(k) ==
    k.guided => /\ k.kind = "find" /\ k.content = "result"
                /\ k.pc \in {"record", "report", "answered"}

Moves(c) ==
    /\ runPc' = runPc /\ issued' = issued /\ shown' = shown
    /\ call[c].pc \notin {"idle", "answered", "errored"}
    /\ \A d \in Calls \ {c} : call'[d] = call[d]
    /\ call'[c].kind = call[c].kind /\ call'[c].turn = call[c].turn
    /\ GuidedSound(call'[c])

Pushes(c) ==
    /\ queue' = Append(queue, c) /\ events' = events
    /\ ~call[c].guided /\ call'[c].guided /\ call'[c].pc # "answered"

Reports(c) ==
    /\ queue' = queue /\ events' = Append(events, c)
    /\ call'[c].pc = "answered" /\ call'[c].guided = call[c].guided

Works(c) ==
    /\ queue' = queue /\ events' = events
    /\ call'[c].pc # "answered" /\ call'[c].guided = call[c].guided

LEMMA CallStepMoves ==
    ASSUME RunTypeOK, NEW c \in Calls, GuidedSound(call[c]), CallStep(c)
    PROVE  Moves(c) /\ (Pushes(c) \/ Reports(c) \/ Works(c))
<1>1. call \in [Calls -> CallStates] /\ call[c] \in CallStates
  BY DEF RunTypeOK
<1>2. NextStep(c) \in {"record", "report"}
  BY DEF NextStep
<1>3. runPc' = runPc /\ issued' = issued /\ shown' = shown
  BY DEF CallStep, CheckBalance, BadArguments, Find, Execute, Perform, Delegate, OtherTool,
         Record, Report
<1>4. CASE CheckBalance(c)
  <2>1. PICK next \in {"invoke", "errored"} :
            call' = [call EXCEPT ![c].pc = next, ![c].checked = balance]
    BY <1>4 DEF CheckBalance
  <2>2. call[c].pc = "check" /\ queue' = queue /\ events' = events
    BY <1>4 DEF CheckBalance
  <2> QED BY <1>1, <1>3, <2>1, <2>2 DEF CallStates, GuidedSound, Moves, Works
<1>5. CASE BadArguments(c)
  <2>1. /\ call[c].pc = "invoke" /\ queue' = queue /\ events' = events
        /\ call' = [call EXCEPT ![c].pc = "errored"]
    BY <1>5 DEF BadArguments
  <2> QED BY <1>1, <1>3, <2>1 DEF CallStates, GuidedSound, Moves, Works
<1>6. CASE Find(c)
  <2>1. call[c].pc = "invoke" /\ call[c].kind = "find" /\ events' = events
    BY <1>6 DEF Find
  <2>2. CASE call' = [call EXCEPT ![c].pc = "errored"] /\ queue' = queue
    BY <1>1, <1>3, <2>1, <2>2 DEF CallStates, GuidedSound, Moves, Works
  <2>3. ASSUME NEW guided \in BOOLEAN, NEW content \in {"result", "unreadable"},
               guided => content = "result",
               call' = [call EXCEPT ![c].pc = NextStep(c), ![c].served = TRUE,
                                    ![c].guided = guided, ![c].content = content],
               queue' = Push(c, guided)
        PROVE  Moves(c) /\ (Pushes(c) \/ Reports(c) \/ Works(c))
    <3>1. ~call[c].guided
      BY <2>1 DEF GuidedSound
    <3>2. CASE guided = TRUE
      <4>1. queue' = Append(queue, c) /\ content = "result"
        BY <2>3, <3>2 DEF Push
      <4> QED BY <1>1, <1>2, <1>3, <2>1, <2>3, <3>1, <3>2, <4>1
              DEF CallStates, GuidedSound, Moves, Pushes
    <3>3. CASE guided = FALSE
      <4>1. queue' = queue
        BY <2>3, <3>3 DEF Push
      <4> QED BY <1>1, <1>2, <1>3, <2>1, <2>3, <3>1, <3>3, <4>1
              DEF CallStates, GuidedSound, Moves, Works
    <3> QED BY <3>2, <3>3
  <2> QED BY <1>6, <2>2, <2>3 DEF Find
<1>7. CASE Execute(c)
  <2>1. call[c].pc = "invoke" /\ queue' = queue /\ events' = events
    BY <1>7 DEF Execute
  <2>2. CASE call' = [call EXCEPT ![c].pc = NextStep(c), ![c].content = "failure"]
    BY <1>1, <1>2, <1>3, <2>1, <2>2 DEF CallStates, GuidedSound, Moves, Works
  <2>3. CASE call' = [call EXCEPT ![c].pc = "sidecar", ![c].checked = balance]
    BY <1>1, <1>3, <2>1, <2>3 DEF CallStates, GuidedSound, Moves, Works
  <2> QED BY <1>7, <2>2, <2>3 DEF Execute
<1>8. CASE Perform(c)
  <2>1. call[c].pc = "sidecar" /\ queue' = queue /\ events' = events
    BY <1>8 DEF Perform
  <2>2. CASE call' = [call EXCEPT ![c].pc = NextStep(c), ![c].content = "failure"]
    BY <1>1, <1>2, <1>3, <2>1, <2>2 DEF CallStates, GuidedSound, Moves, Works
  <2>3. ASSUME NEW lost \in BOOLEAN,
               call' = [call EXCEPT ![c].pc = NextStep(c), ![c].served = TRUE,
                                    ![c].charged = @ + 1,
                                    ![c].content = IF lost THEN "failure" ELSE "result"]
        PROVE  Moves(c) /\ Works(c)
    BY <1>1, <1>2, <1>3, <2>1, <2>3 DEF CallStates, GuidedSound, Moves, Works
  <2> QED BY <1>8, <2>2, <2>3 DEF Perform
<1>9. CASE Delegate(c)
  <2>1. PICK served \in BOOLEAN, lost \in BOOLEAN :
          call' = [call EXCEPT ![c].pc = NextStep(c), ![c].served = served,
                               ![c].content = IF served /\ ~lost THEN "result" ELSE "failure"]
    BY <1>9 DEF Delegate
  <2>2. call[c].pc = "invoke" /\ queue' = queue /\ events' = events
    BY <1>9 DEF Delegate
  <2> QED BY <1>1, <1>2, <1>3, <2>1, <2>2 DEF CallStates, GuidedSound, Moves, Works
<1>10. CASE OtherTool(c)
  <2>1. PICK served \in BOOLEAN :
          call' = [call EXCEPT ![c].pc = IF served THEN NextStep(c) ELSE "errored",
                               ![c].served = served,
                               ![c].content = IF served THEN "result" ELSE "none"]
    BY <1>10 DEF OtherTool
  <2>2. call[c].pc = "invoke" /\ queue' = queue /\ events' = events
    BY <1>10 DEF OtherTool
  <2> QED BY <1>1, <1>2, <1>3, <2>1, <2>2 DEF CallStates, GuidedSound, Moves, Works
<1>11. CASE Record(c)
  <2>1. /\ call[c].pc = "record" /\ queue' = queue /\ events' = events
        /\ call' = [call EXCEPT ![c].pc = "report", ![c].charged = @ + 1]
    BY <1>11 DEF Record
  <2> QED BY <1>1, <1>3, <2>1 DEF CallStates, GuidedSound, Moves, Works
<1>12. CASE Report(c)
  <2>1. /\ call[c].pc = "report" /\ queue' = queue /\ events' = Append(events, c)
        /\ call' = [call EXCEPT ![c].pc = "answered"]
    BY <1>12 DEF Report
  <2> QED BY <1>1, <1>3, <2>1 DEF CallStates, GuidedSound, Moves, Reports
<1> QED BY <1>4, <1>5, <1>6, <1>7, <1>8, <1>9, <1>10, <1>11, <1>12 DEF CallStep

\* A turn: calls up to the last are as they were, the new ones are of one turn.
Begins(c) ==
    /\ ~call'[c].guided /\ call'[c].turn = issued + 1
    /\ call'[c].pc \in {"check", "invoke"}

LEMMA TurnBegins ==
    ASSUME RunTypeOK, IssueTurn
    PROVE  /\ issued \in Nat /\ issued' \in Nat /\ issued < issued'
           /\ \A c \in Calls : ~(issued < c /\ c <= issued') => call'[c] = call[c]
           /\ \A c \in Calls : issued < c /\ c <= issued' => Begins(c)
           /\ runPc = "model" /\ runPc' = "tools"
           /\ UNCHANGED <<queue, events, shown>>
<1>1. PICK size \in 1 .. MaxCalls - issued :
          \E kinds \in [issued + 1 .. issued + size -> Kinds] :
             /\ issued' = issued + size
             /\ call' = [c \in Calls |->
                   IF c \in DOMAIN kinds
                   THEN [IdleCall EXCEPT !.pc = FirstStep(kinds[c]),
                                         !.kind = kinds[c], !.turn = issued + 1]
                   ELSE call[c]]
  BY DEF IssueTurn
<1>2. PICK kinds \in [issued + 1 .. issued + size -> Kinds] :
             /\ issued' = issued + size
             /\ call' = [c \in Calls |->
                   IF c \in DOMAIN kinds
                   THEN [IdleCall EXCEPT !.pc = FirstStep(kinds[c]),
                                         !.kind = kinds[c], !.turn = issued + 1]
                   ELSE call[c]]
  BY <1>1
<1>3. issued \in Nat /\ size \in Nat /\ size >= 1 /\ issued' = issued + size
  <2>1. issued \in Nat /\ MaxCalls \in Nat
    BY BoundsAssumption DEF RunTypeOK
  <2>2. size \in Nat /\ size >= 1
    BY <2>1
  <2> QED BY <1>2, <2>1, <2>2, Zenon
<1>4. \A c \in Calls : c \in DOMAIN kinds <=> issued < c /\ c <= issued'
  <2>1. DOMAIN kinds = issued + 1 .. issued + size
    OBVIOUS
  <2>2. Calls \subseteq Int
    BY DEF Calls
  <2> QED BY <1>3, <2>1, <2>2
<1>5. \A c \in Calls \ DOMAIN kinds : call'[c] = call[c]
  BY <1>2
<1>6. \A c \in DOMAIN kinds \cap Calls : Begins(c)
  BY <1>2 DEF IdleCall, FirstStep, Begins
<1>7. \A c \in Calls : ~(issued < c /\ c <= issued') => call'[c] = call[c]
  BY <1>4, <1>5, Zenon
<1>8. \A c \in Calls : issued < c /\ c <= issued' => Begins(c)
  BY <1>4, <1>6, Zenon
<1>9. issued' \in Nat /\ issued < issued'
  BY <1>3
<1>10. runPc = "model" /\ runPc' = "tools" /\ UNCHANGED <<queue, events, shown>>
  BY DEF IssueTurn
<1> QED BY <1>3, <1>7, <1>8, <1>9, <1>10, Zenon

-----------------------------------------------------------------------------
(***************************************************************************)
(* What the run owes the stream: every answered call is on its way to the     *)
(* client or was written, and between turns every call was answered.          *)
(***************************************************************************)
In(s, c) == \E i \in 1 .. Len(s) : s[i] = c

RunDelivers ==
    /\ httpPc \in {"arriving", "handler"} => runPc = "none"
    /\ runPc = "none" => issued = 0
    /\ runPc \in {"model", "finished"} => \A c \in Issued : call[c].pc = "answered"
    /\ \A c \in Calls : call[c].pc = "answered" => In(events, c) \/ In(taken, c)

CallsGuided == \A c \in Calls : GuidedSound(call[c])

LEMMA RunDeliversInit == ChatInit => RunDelivers /\ CallsGuided
BY DEF ChatInit, ChainInit, RunInit, RunDelivers, CallsGuided, GuidedSound, IdleCall

LEMMA AppendedIn ==
    ASSUME NEW s \in Seq(Calls), NEW c \in Calls
    PROVE  /\ Len(s) \in Nat /\ Len(Append(s, c)) = Len(s) + 1
           /\ \A i \in 1 .. Len(s) : Append(s, c)[i] = s[i]
           /\ Append(s, c)[Len(s) + 1] = c
BY AppendProperties, LenProperties

LEMMA HeadAndTail ==
    ASSUME NEW s \in Seq(Calls), s # <<>>
    PROVE  /\ Len(s) \in Nat /\ Len(s) >= 1 /\ Len(Tail(s)) = Len(s) - 1
           /\ s[1] = Head(s) /\ Head(s) \in Calls /\ Tail(s) \in Seq(Calls)
           /\ \A i \in 1 .. Len(s) - 1 : Tail(s)[i] = s[i + 1]
<1>1. Len(s) \in Nat /\ Len(s) >= 1
  BY EmptySeq, LenProperties
<1> QED BY <1>1, HeadTailProperties

LEMMA CallsGuidedNext == RunTypeOK /\ CallsGuided /\ [ChatNext]_chatVars => CallsGuided'
<1> SUFFICES ASSUME RunTypeOK, CallsGuided, [ChatNext]_chatVars PROVE CallsGuided'
  OBVIOUS
<1>1. CASE call' = call
  BY <1>1 DEF CallsGuided
<1>2. CASE IssueTurn
  BY <1>2, TurnBegins DEF CallsGuided, GuidedSound, Begins
<1>3. ASSUME NEW c \in Calls, CallStep(c) PROVE CallsGuided'
  <2>1. Moves(c)
    BY <1>3, CallStepMoves DEF CallsGuided
  <2> QED BY <2>1 DEF Moves, CallsGuided
<1> QED BY <1>1, <1>2, <1>3
        DEF ChatNext, ChainStep, HandlerStep, Refuse, ReplayAnswer, Serve, StartRun,
            StreamResult, TakeEvent, EndOfStream, Respond, Panic, RunStep, RunnerStep,
            EndTurn, EndRun, Others, OtherCharge, runVars, chatVars

LEMMA RunDeliversRunStep ==
    ASSUME ChatTypeOK, CallsGuided, RunDelivers, RunStep
    PROVE  RunDelivers'
<1>1. UNCHANGED <<httpPc, taken>> /\ RunTypeOK
  BY DEF RunStep, chainVars, ChatTypeOK
<1>2. CASE IssueTurn
  <2>1. /\ issued \in Nat /\ issued' \in Nat /\ issued < issued'
        /\ runPc = "model" /\ runPc' = "tools" /\ events' = events
        /\ \A c \in Calls : ~(issued < c /\ c <= issued') => call'[c] = call[c]
        /\ \A c \in Calls : issued < c /\ c <= issued' => Begins(c)
    BY <1>1, <1>2, TurnBegins
  <2>2. \A c \in Calls : call'[c].pc = "answered" => call[c].pc = "answered"
    BY <2>1 DEF Begins
  <2> QED BY <1>1, <2>1, <2>2 DEF RunDelivers, In
<1>3. CASE EndTurn
  <2>1. UNCHANGED <<issued, call, events>> /\ runPc = "tools"
    BY <1>3 DEF EndTurn
  <2>2. runPc' \in {"model", "failed"}
    BY <1>3 DEF EndTurn
  <2>3. runPc' = "model" => \A c \in Issued : call[c].pc = "answered"
    BY <1>3 DEF EndTurn, Ended
  <2> QED BY <1>1, <2>1, <2>2, <2>3 DEF RunDelivers, In, Issued
<1>4. CASE EndRun
  <2>1. UNCHANGED <<issued, call, events>> /\ runPc = "model"
    BY <1>4 DEF EndRun
  <2>2. runPc' \in {"finished", "failed"}
    BY <1>4 DEF EndRun
  <2> QED BY <1>1, <2>1, <2>2 DEF RunDelivers, In, Issued
<1>5. ASSUME NEW c \in Calls, CallStep(c) PROVE RunDelivers'
  <2>1. Moves(c) /\ (Pushes(c) \/ Reports(c) \/ Works(c))
    BY <1>1, <1>5, CallStepMoves DEF CallsGuided
  <2>2. runPc' = runPc /\ issued' = issued
    BY <2>1 DEF Moves
  <2>3. ASSUME runPc \in {"model", "finished"}, NEW d \in Issued
        PROVE  call'[d].pc = "answered"
    <3>1. call[d].pc = "answered"
      BY <2>3 DEF RunDelivers
    <3>2. d \in Calls
      BY <1>1, BoundsAssumption DEF RunTypeOK, Issued, Calls
    <3>3. d # c
      BY <2>1, <3>1 DEF Moves
    <3> QED BY <2>1, <3>1, <3>2, <3>3 DEF Moves
  <2>4. ASSUME NEW d \in Calls, call'[d].pc = "answered"
        PROVE  In(events, d)' \/ In(taken, d)'
    <3>1. events \in Seq(Calls)
      BY <1>1 DEF RunTypeOK
    <3>2. CASE d = c
      <4>1. events' = Append(events, c)
        BY <2>1, <2>4, <3>2 DEF Pushes, Reports, Works
      <4>2. Len(events') = Len(events) + 1 /\ events'[Len(events) + 1] = c
            /\ Len(events) \in Nat
        BY <3>1, <4>1, AppendedIn
      <4>3. Len(events) + 1 \in 1 .. Len(events')
        BY <4>2
      <4> QED BY <3>2, <4>2, <4>3 DEF In
    <3>3. CASE d # c
      <4>1. In(events, d) \/ In(taken, d)
        BY <2>1, <2>4, <3>3 DEF Moves, RunDelivers
      <4>2. CASE In(taken, d)
        BY <1>1, <4>2 DEF In
      <4>3. CASE In(events, d)
        <5>1. PICK i \in 1 .. Len(events) : events[i] = d
          BY <4>3 DEF In
        <5>2. CASE events' = events
          BY <5>1, <5>2 DEF In
        <5>3. CASE events' = Append(events, c)
          <6>1. /\ Len(events') = Len(events) + 1 /\ Len(events) \in Nat
                /\ events'[i] = events[i]
            BY <3>1, <5>1, <5>3, AppendedIn
          <6>2. i \in 1 .. Len(events')
            BY <5>1, <6>1
          <6> QED BY <5>1, <6>1, <6>2 DEF In
        <5> QED BY <2>1, <5>2, <5>3 DEF Pushes, Reports, Works
      <4> QED BY <4>1, <4>2, <4>3
    <3> QED BY <3>2, <3>3
  <2>5. (runPc \in {"model", "finished"} => \A d \in Issued : call[d].pc = "answered")'
    BY <2>2, <2>3 DEF Issued
  <2> QED BY <1>1, <2>2, <2>4, <2>5 DEF RunDelivers
<1> QED BY <1>2, <1>3, <1>4, <1>5 DEF RunStep, RunnerStep

LEMMA RunDeliversNext ==
    ChatTypeOK /\ CallsGuided /\ RunDelivers /\ [ChatNext]_chatVars => RunDelivers'
<1> SUFFICES ASSUME ChatTypeOK, CallsGuided, RunDelivers, [ChatNext]_chatVars
             PROVE  RunDelivers'
  OBVIOUS
<1>1. ASSUME UNCHANGED <<runPc, issued, call, events, taken>>,
             httpPc' \in {"arriving", "handler"} => httpPc \in {"arriving", "handler"}
      PROVE  RunDelivers'
  BY <1>1 DEF RunDelivers, In, Issued
<1>2. CASE RunStep
  BY <1>2, RunDeliversRunStep
<1>3. CASE StreamResult
  <2>1. /\ UNCHANGED <<runPc, issued, call, httpPc>> /\ httpPc = "streaming"
        /\ events # <<>> /\ events' = Tail(events) /\ taken' = Append(taken, Head(events))
    BY <1>3 DEF StreamResult, TakeEvent
  <2>2. events \in Seq(Calls) /\ taken \in Seq(Calls)
    BY DEF ChatTypeOK, RunTypeOK
  <2>3. /\ Len(events) \in Nat /\ Len(events') = Len(events) - 1
        /\ events[1] = Head(events) /\ Head(events) \in Calls
        /\ \A i \in 1 .. Len(events) - 1 : events'[i] = events[i + 1]
    BY <2>1, <2>2, HeadAndTail
  <2>4. /\ Len(taken) \in Nat /\ Len(taken') = Len(taken) + 1
        /\ \A i \in 1 .. Len(taken) : taken'[i] = taken[i]
        /\ taken'[Len(taken) + 1] = Head(events)
    BY <2>1, <2>2, <2>3, AppendedIn
  <2>5. ASSUME NEW c \in Calls, In(events, c) \/ In(taken, c)
        PROVE  In(events, c)' \/ In(taken, c)'
    <3>1. CASE In(taken, c)
      <4>1. PICK i \in 1 .. Len(taken) : taken[i] = c
        BY <3>1 DEF In
      <4>2. i \in 1 .. Len(taken') /\ taken'[i] = c
        BY <2>4, <4>1
      <4> QED BY <4>2 DEF In
    <3>2. CASE In(events, c)
      <4>1. PICK i \in 1 .. Len(events) : events[i] = c
        BY <3>2 DEF In
      <4>2. CASE i = 1
        <5>1. Len(taken) + 1 \in 1 .. Len(taken') /\ taken'[Len(taken) + 1] = c
          BY <2>3, <2>4, <4>1, <4>2
        <5> QED BY <5>1 DEF In
      <4>3. CASE i # 1
        <5>1. i - 1 \in 1 .. Len(events) - 1 /\ (i - 1) + 1 = i
          BY <2>3, <4>1, <4>3
        <5>2. i - 1 \in 1 .. Len(events') /\ events'[i - 1] = c
          BY <2>3, <4>1, <5>1
        <5> QED BY <5>2 DEF In
      <4> QED BY <4>2, <4>3
    <3> QED BY <2>5, <3>1, <3>2
  <2> QED BY <2>1, <2>5 DEF RunDelivers, Issued
<1>4. CASE Serve
  <2>1. /\ UNCHANGED <<issued, call, events, taken>> /\ runPc = "none" /\ runPc' = "model"
        /\ httpPc' \notin {"arriving", "handler"}
    BY <1>4 DEF Serve, StartRun
  <2>2. Issued = {}
    BY <2>1 DEF RunDelivers, Issued
  <2> QED BY <2>1, <2>2 DEF RunDelivers, In, Issued
<1> QED BY <1>1, <1>2, <1>3, <1>4
        DEF ChatNext, ChainStep, EnterChain, LogAccess, Recover, HandlerStep, Refuse,
            ReplayAnswer, EndOfStream, Respond, Panic, Others, OtherCharge,
            runVars, chatVars, chainVars

-----------------------------------------------------------------------------
(***************************************************************************)
(* A stream: the results t taken so far, frames that are neither results nor  *)
(* the end, and the end.                                                     *)
(***************************************************************************)
OpensWith(b, t) ==
    /\ Len(t) <= Len(b)
    /\ \A i \in 1 .. Len(t) : b[i] = Result(t[i])

Telling(b, t) ==
    /\ OpensWith(b, t)
    /\ \A i \in 1 .. Len(b) : i > Len(t) => b[i].kind \notin {"result", "done"}

Told(b, t) ==
    /\ OpensWith(b, t)
    /\ \A i \in 1 .. Len(b) : /\ i > Len(t) => b[i].kind # "result"
                              /\ b[i].kind = "done" <=> i = Len(b)
    /\ Len(t) < Len(b)

Lone(b) == Len(b) = 1 /\ b[1].kind = "envelope"

StreamOver ==
    \/ Lone(response.body)
    \/ /\ response.status = 200 /\ response.buffer = <<>>
       /\ Told(response.body, taken)
       /\ runPc \in {"none", "finished", "failed"}
       /\ runPc = "finished" => \A c \in Issued : In(taken, c)

StreamSound ==
    stream =>
        /\ httpPc # "waiting"
        /\ httpPc \in {"arriving", "handler"} => taken = <<>> /\ response.body = <<>>
        /\ httpPc \in {"arriving", "handler", "streaming"} => response.buffer = <<>>
        /\ httpPc = "streaming" =>
              OpensWith(response.body, taken) /\ Len(response.body) = Len(taken)
        /\ httpPc = "returning" \/ Returned => StreamOver

LEMMA TellingMore ==
    ASSUME NEW b \in Seq(Frames), NEW t \in Seq(Calls), Telling(b, t),
           NEW frame \in Frames
    PROVE  /\ frame.kind \notin {"result", "done"} => Telling(b \o <<frame>>, t)
           /\ frame = Done => Told(b \o <<frame>>, t)
<1>1. PICK s : s = b \o <<frame>>
  OBVIOUS
<1>2. /\ Len(b) \in Nat /\ Len(s) = Len(b) + 1 /\ s[Len(b) + 1] = frame
      /\ \A i \in 1 .. Len(b) : s[i] = b[i]
  BY <1>1, ConcatOne
<1>3. Len(t) \in Nat /\ Len(t) <= Len(b)
  BY LenProperties DEF Telling, OpensWith
<1>4. OpensWith(s, t)
  BY <1>2, <1>3 DEF Telling, OpensWith
<1>5. \A i \in 1 .. Len(s) : i \in 1 .. Len(b) \/ i = Len(b) + 1
  BY <1>2
<1>6. frame.kind \notin {"result", "done"} => Telling(s, t)
  BY <1>2, <1>4, <1>5 DEF Telling
<1>7. ASSUME frame = Done PROVE Told(s, t)
  <2>1. frame.kind = "done"
    BY <1>7 DEF Done, Frame
  <2>2. ASSUME NEW i \in 1 .. Len(b)
        PROVE  /\ i > Len(t) => s[i].kind # "result"
               /\ s[i].kind # "done" /\ i # Len(s)
    <3>1. s[i] = b[i] /\ i # Len(s)
      BY <1>2, <2>2
    <3>2. CASE i > Len(t)
      BY <3>1, <3>2 DEF Telling
    <3>3. CASE ~(i > Len(t))
      <4>1. i \in 1 .. Len(t)
        BY <1>2, <1>3, <3>3
      <4>2. b[i] = Result(t[i])
        BY <4>1, Zenon DEF Telling, OpensWith
      <4>3. b[i].kind = "result"
        BY <4>2 DEF Result, Frame
      <4> QED BY <3>1, <3>3, <4>3
    <3> QED BY <3>2, <3>3
  <2>3. Len(t) < Len(s)
    BY <1>2, <1>3
  <2> QED BY <1>2, <1>4, <1>5, <2>1, <2>2, <2>3 DEF Told
<1> QED BY <1>1, <1>6, <1>7

\* A stream that told its results and then ends was told to its end.
LEMMA EndingTold ==
    ASSUME NEW r \in Responses, NEW t \in Seq(Calls), Telling(r.body, t),
           NEW frame \in {Stop, ErrorContent}, NEW s, EndsWith(r, frame, s)
    PROVE  s.status = 200 /\ s.buffer = <<>> /\ Told(s.body, t)
<1>1. PICK mid : Wrote(r, mid, <<frame>>) /\ Wrote(mid, s, <<Done>>)
  BY DEF EndsWith
<1>2. r.body \in Seq(Frames) /\ mid.body \in Seq(Frames) /\ frame \in Frames
  BY <1>1, FrameTypes DEF Wrote, Responses
<1>3. frame.kind \notin {"result", "done"}
  BY DEF Stop, ErrorContent, Frame
<1>4. mid.body = r.body \o <<frame>> /\ s.body = mid.body \o <<Done>>
  BY <1>1, Zenon DEF Wrote
<1>5. Telling(r.body \o <<frame>>, t)
  BY <1>2, <1>3, TellingMore
<1>6. Telling(mid.body, t)
  BY <1>4, <1>5, Zenon
<1>7. Told(mid.body \o <<Done>>, t)
  BY <1>2, <1>6, TellingMore, FrameTypes
<1>8. Told(s.body, t)
  BY <1>4, <1>7, Zenon
<1> QED BY <1>1, <1>8 DEF Wrote

\* The text of an answer comes before the end.
LEMMA DeltaTelling ==
    ASSUME NEW r \in Responses, NEW t \in Seq(Calls), Telling(r.body, t),
           Open(r), r.buffer = <<>>, NEW frame \in Frames,
           frame.kind \notin {"result", "done"}
    PROVE  /\ EmitDelta(r, frame) \in Responses /\ Open(EmitDelta(r, frame))
           /\ EmitDelta(r, frame).buffer = <<>> /\ Telling(EmitDelta(r, frame).body, t)
<1>1. PICK s : s = EmitDelta(r, frame)
  OBVIOUS
<1>2. Wrote(r, s, <<frame>>)
  BY <1>1, EmitDeltaWrote
<1>3. s.body = r.body \o <<frame>> /\ r.body \in Seq(Frames)
  BY <1>2, Zenon DEF Wrote, Responses
<1>4. Telling(r.body \o <<frame>>, t)
  BY <1>3, TellingMore
<1>5. Telling(s.body, t)
  BY <1>3, <1>4, Zenon
<1> QED BY <1>1, <1>2, <1>5, WroteFlush

\* A result that is written comes right behind those written before it.
LEMMA ResultOpens ==
    ASSUME ChatTypeOK, StreamResult, Open(response), response.buffer = <<>>,
           OpensWith(response.body, taken), Len(response.body) = Len(taken)
    PROVE  /\ OpensWith(response'.body, taken') /\ Len(response'.body) = Len(taken')
           /\ response'.buffer = <<>>
<1>0. /\ response \in Responses /\ taken \in Seq(Calls) /\ response.body \in Seq(Frames)
      /\ RunTypeOK
  BY DEF ChatTypeOK, ChainTypeOK, Responses
<1>1. Head(events) \in Calls
  BY <1>0, TakeTypeStep DEF StreamResult
<1>2. PICK c \in Calls : c = Head(events)
  BY <1>1
<1>3. Result(c) \in Frames
  BY FrameTypes, BoundsAssumption DEF Calls
<1>4. Wrote(response, response', <<Result(c)>>) /\ taken' = Append(taken, c)
  BY <1>0, <1>2, <1>3, EmitDeltaWrote DEF StreamResult
<1>5. response'.body = response.body \o <<Result(c)>>
  BY <1>4, Zenon DEF Wrote
<1>6. /\ Len(response.body) \in Nat /\ Len(response'.body) = Len(response.body) + 1
      /\ \A i \in 1 .. Len(response.body) : response'.body[i] = response.body[i]
      /\ response'.body[Len(response.body) + 1] = Result(c)
  <2>1. PICK b : b = response.body
    OBVIOUS
  <2>2. PICK d : d = response'.body
    OBVIOUS
  <2>3. d = b \o <<Result(c)>> /\ b \in Seq(Frames)
    BY <1>0, <1>5, <2>1, <2>2, Zenon
  <2>4. /\ Len(b) \in Nat /\ Len(d) = Len(b) + 1 /\ d[Len(b) + 1] = Result(c)
        /\ \A i \in 1 .. Len(b) : d[i] = b[i]
    BY <1>3, <2>3, ConcatOne
  <2> QED BY <2>1, <2>2, <2>4
<1>7. /\ Len(taken') = Len(taken) + 1 /\ taken'[Len(taken) + 1] = c
      /\ \A i \in 1 .. Len(taken) : taken'[i] = taken[i]
  BY <1>0, <1>4, AppendedIn
<1>8. \A i \in 1 .. Len(taken) : response.body[i] = Result(taken[i])
  BY DEF OpensWith
<1>9. \A i \in 1 .. Len(taken') : response'.body[i] = Result(taken'[i])
  <2> SUFFICES ASSUME NEW i \in 1 .. Len(taken')
               PROVE  response'.body[i] = Result(taken'[i])
    OBVIOUS
  <2>1. i \in 1 .. Len(taken) \/ i = Len(taken) + 1
    BY <1>6, <1>7
  <2> QED BY <1>6, <1>7, <1>8, <2>1
<1>10. Len(response'.body) = Len(taken') /\ Len(taken') <= Len(response'.body)
  BY <1>6, <1>7
<1>11. response'.buffer = <<>>
  BY <1>4 DEF Wrote
<1> QED BY <1>9, <1>10, <1>11 DEF OpensWith

LEMMA StreamSoundInit == ChatInit => StreamSound
BY DEF ChatInit, ChainInit, StreamSound, NewResponse, Returned

\* The handler's part of a stream.
LEMMA StreamSoundHandler ==
    ASSUME ChatTypeOK, RequestSound, RunDelivers, StreamSound, stream, HandlerStep
    PROVE  StreamSound'
<1>1. /\ response \in Responses /\ taken \in Seq(Calls) /\ response.body \in Seq(Frames)
      /\ RunTypeOK
  BY DEF ChatTypeOK, ChainTypeOK, Responses
<1>2. httpPc \in {"handler", "streaming"} => Open(response) /\ response.buffer = <<>>
  BY DEF RequestSound, StreamSound
<1>3. httpPc = "handler" => Telling(response.body, taken)
  <2>1. httpPc = "handler" => Len(response.body) = 0 /\ Len(taken) = 0
    BY EmptySeq DEF StreamSound
  <2> QED BY <2>1 DEF Telling, OpensWith
<1>4. httpPc = "streaming" => Telling(response.body, taken)
  <2>1. Len(taken) \in Nat
    BY <1>1, LenProperties
  <2> QED BY <2>1 DEF StreamSound, Telling
<1>5. ASSUME httpPc' = "returning", StreamOver' PROVE StreamSound'
  BY <1>5 DEF StreamSound, Returned
<1>6. CASE Refuse
  <2>1. response.body = <<>>
    BY <1>6 DEF Refuse, StreamSound
  <2>2. response'.body = <<Envelope(RequestId)>>
    BY <1>1, <1>6, <2>1, WriteErrorIs DEF Refuse
  <2>3. StreamOver'
    BY <2>2 DEF StreamOver, Lone, Envelope, Frame
  <2> QED BY <1>5, <1>6, <2>3 DEF Refuse
<1>7. CASE ReplayAnswer
  <2>1. PICK s : s = EmitDelta(response, Text(Answer))
    OBVIOUS
  <2>2. Text(Answer) \in Frames /\ Text(Answer).kind \notin {"result", "done"}
    BY FrameTypes DEF Answer, Text, Frame
  <2>3. s \in Responses /\ Open(s) /\ s.buffer = <<>> /\ Telling(s.body, taken)
    BY <1>1, <1>2, <1>3, <1>7, <2>1, <2>2, DeltaTelling DEF ReplayAnswer
  <2>4. response' = EndStream(s)
    BY <1>7, <2>1 DEF ReplayAnswer, WriteRepeatedStream
  <2>5. EndsWith(s, Stop, response')
    BY <2>3, <2>4, EndStreamEnds
  <2>6. response'.status = 200 /\ response'.buffer = <<>> /\ Told(response'.body, taken)
    BY <1>1, <2>3, <2>5, EndingTold
  <2>7. runPc' = "none" /\ taken' = taken
    BY <1>7 DEF ReplayAnswer, RunDelivers, runVars
  <2>8. StreamOver'
    BY <2>6, <2>7 DEF StreamOver
  <2> QED BY <1>5, <1>7, <2>8 DEF ReplayAnswer
<1>8. CASE Serve
  <2>1. httpPc' = "streaming" /\ taken' = taken /\ stream' = stream
    BY <1>8 DEF Serve
  <2>2. response'.body = response.body /\ response'.buffer = response.buffer
    <3>1. response' = Flush(response) \/ response' = response
      BY <1>8 DEF Serve
    <3> QED BY <1>1, <3>1 DEF Flush, SendHeader, Responses
  <2>3. OpensWith(response.body, taken) /\ Len(response.body) = Len(taken)
    BY <1>3, <1>8 DEF Serve, StreamSound, Telling
  <2> QED BY <1>2, <1>8, <2>1, <2>2, <2>3 DEF Serve, StreamSound, Returned
<1>9. CASE StreamResult
  <2>1. httpPc' = "streaming" /\ stream' = stream
    BY <1>9 DEF StreamResult
  <2>2. /\ OpensWith(response'.body, taken') /\ Len(response'.body) = Len(taken')
        /\ response'.buffer = <<>>
    BY <1>2, <1>9, ResultOpens DEF StreamResult, StreamSound
  <2> QED BY <2>1, <2>2 DEF StreamSound, Returned
<1>10. CASE EndOfStream
  <2>1. /\ httpPc = "streaming" /\ httpPc' = "returning" /\ events = <<>>
        /\ taken' = taken /\ runPc' = runPc /\ issued' = issued
        /\ runPc \in {"finished", "failed"}
    BY <1>10 DEF EndOfStream, runVars
  <2>2. runPc = "finished" => \A c \in Issued : In(taken, c)
    <3>1. \A c \in Calls : ~In(events, c)
      BY <2>1, EmptySeq DEF In
    <3>2. Issued \subseteq Calls
      BY <1>1, BoundsAssumption DEF RunTypeOK, Issued, Calls
    <3> QED BY <3>1, <3>2 DEF RunDelivers
  <2>3. (runPc = "finished" => \A c \in Issued : In(taken, c))'
    BY <2>1, <2>2 DEF In, Issued
  <2>4. ASSUME response'.status = 200, response'.buffer = <<>>, Told(response'.body, taken)
        PROVE  StreamSound'
    <3>1. StreamOver'
      BY <2>1, <2>3, <2>4 DEF StreamOver
    <3> QED BY <1>5, <2>1, <3>1
  <2>5. PICK s : s = EmitDelta(response, Text(Answer))
    OBVIOUS
  <2>6. s \in Responses /\ Open(s) /\ s.buffer = <<>> /\ Telling(s.body, taken)
    <3>1. Text(Answer) \in Frames /\ Text(Answer).kind \notin {"result", "done"}
      BY FrameTypes DEF Answer, Text, Frame
    <3> QED BY <1>1, <1>2, <1>4, <2>1, <2>5, <3>1, DeltaTelling
  <2>7. CASE response' \in {EndStream(s), EndBrokenStream(s)}
    <3>1. EndsWith(s, Stop, response')
      BY <2>6, <2>7, EndStreamEnds, EndBrokenStreamEnds
    <3> QED BY <1>1, <2>4, <2>6, <3>1, EndingTold
  <2>8. CASE response' = EmitStreamErrorContent(response)
    <3>1. EndsWith(response, ErrorContent, response')
      BY <1>1, <1>2, <2>1, <2>8, EmitStreamErrorContentEnds
    <3> QED BY <1>1, <1>4, <2>1, <2>4, <3>1, EndingTold
  <2>9. CASE taken = <<>> /\ response' = WriteError(response, "agent_error")
    <3>1. Len(response.body) = 0
      BY <2>1, <2>9, EmptySeq DEF StreamSound
    <3>2. response.body = <<>>
      BY <1>1, <3>1, EmptySeq
    <3>3. response'.body = <<Envelope(RequestId)>>
      BY <1>1, <2>9, <3>2, WriteErrorIs, StatusTypes
    <3>4. StreamOver'
      BY <3>3 DEF StreamOver, Lone, Envelope, Frame
    <3> QED BY <1>5, <2>1, <3>4
  <2> QED BY <1>10, <2>5, <2>7, <2>8, <2>9 DEF EndOfStream
<1>11. CASE Respond
  BY <1>11 DEF Respond, StreamSound
<1> QED BY <1>6, <1>7, <1>8, <1>9, <1>10, <1>11 DEF HandlerStep

LEMMA StreamSoundNext ==
    ChatTypeOK /\ RequestSound /\ RunDelivers /\ CallsGuided /\ StreamSound
        /\ [ChatNext]_chatVars => StreamSound'
<1> SUFFICES ASSUME ChatTypeOK, RequestSound, RunDelivers, CallsGuided, StreamSound,
                    [ChatNext]_chatVars
             PROVE  StreamSound'
  OBVIOUS
<1>1. stream' = stream
  BY DEF ChatNext, ChainStep, EnterChain, LogAccess, Recover, HandlerStep, Refuse,
         ReplayAnswer, Serve, StreamResult, EndOfStream, Respond, Panic, RunStep, Others,
         chainVars, chatVars
<1> SUFFICES ASSUME stream PROVE StreamSound'
  BY <1>1 DEF StreamSound
<1>2. CASE HandlerStep
  BY <1>2, StreamSoundHandler
<1>3. ASSUME StreamOver, UNCHANGED <<response, taken>>,
             runPc \in {"none", "finished", "failed"} => UNCHANGED <<runPc, issued>>
      PROVE  StreamOver'
  BY <1>3 DEF StreamOver, In, Issued
<1>4. CASE ChainStep /\ EnterChain
  <2>1. response'.body = response.body /\ response'.buffer = response.buffer
    BY <1>4 DEF EnterChain, ChatTypeOK, ChainTypeOK, Responses
  <2> QED BY <1>4, <2>1 DEF EnterChain, ChainStep, StreamSound, Returned
<1>5. CASE ChainStep /\ LogAccess
  <2>1. response.status # 0
    BY <1>5 DEF LogAccess, RequestSound, Inside, Sound
  <2>2. response' = response /\ httpPc = "returning" /\ httpPc' = "ended"
    BY <1>5, <2>1 DEF LogAccess, SendHeader
  <2>3. UNCHANGED <<runPc, issued, taken>>
    BY <1>5 DEF ChainStep, runVars
  <2>4. StreamOver'
    BY <1>3, <2>2, <2>3 DEF StreamSound
  <2> QED BY <2>2, <2>4 DEF StreamSound
<1>6. CASE ChainStep /\ Recover
  <2>1. httpPc' = "ended" /\ record' = NoRecord
    BY <1>6 DEF Recover, RequestSound, Inside
  <2> QED BY <2>1 DEF StreamSound, Returned
<1>7. CASE Panic
  BY <1>7 DEF Panic, StreamSound, Returned
<1>8. CASE RunStep \/ Others \/ UNCHANGED chatVars
  <2>1. UNCHANGED <<httpPc, stream, response, record, taken>>
    BY <1>8 DEF RunStep, Others, chainVars, chatVars
  <2>2. runPc \in {"none", "finished", "failed"} => UNCHANGED <<runPc, issued>>
    <3>1. CASE RunnerStep
      BY <3>1 DEF RunnerStep, IssueTurn, EndTurn, EndRun
    <3>2. ASSUME NEW c \in Calls, CallStep(c) PROVE UNCHANGED <<runPc, issued>>
      BY <3>2, CallStepMoves DEF CallsGuided, ChatTypeOK, Moves
    <3> QED BY <1>8, <3>1, <3>2 DEF RunStep, Others, OtherCharge, chatVars
  <2>3. StreamOver => StreamOver'
    BY <1>3, <2>1, <2>2
  <2> QED BY <2>1, <2>3 DEF StreamSound, Returned
<1> QED BY <1>2, <1>4, <1>5, <1>6, <1>7, <1>8 DEF ChatNext, ChainStep

\* However the calls' results, the run's end and the handler's writes interleave: a
\* stream that was not cut off by a panic has all its results, in order, before
\* one [DONE], which is last; or it is a lone envelope.
THEOREM ChatStreamReadToItsEnd == ChatSpec => []StreamReadToItsEnd
<1>1. ChatTypeOK /\ StreamSound => StreamReadToItsEnd
  <2> SUFFICES ASSUME ChatTypeOK, StreamSound, Returned, stream
               PROVE  \/ Positions("envelope") = {1} /\ Len(response.body) = 1
                      \/ /\ response.status = 200
                         /\ response.buffer = <<>>
                         /\ Positions("done") = {Len(response.body)}
                         /\ Positions("result") = DOMAIN taken
                         /\ \A i \in DOMAIN taken : response.body[i].data = taken[i]
                         /\ runPc = "finished" =>
                               \A c \in Issued : \E i \in DOMAIN taken : taken[i] = c
    BY DEF StreamReadToItsEnd
  <2>1. /\ DOMAIN response.body = 1 .. Len(response.body) /\ Len(response.body) \in Nat
        /\ DOMAIN taken = 1 .. Len(taken) /\ Len(taken) \in Nat
    BY LenProperties DEF ChatTypeOK, ChainTypeOK, Responses
  <2>2. CASE Lone(response.body)
    BY <2>1, <2>2 DEF Lone, Positions, Kind
  <2>3. CASE ~Lone(response.body)
    <3>1. /\ response.status = 200 /\ response.buffer = <<>> /\ Told(response.body, taken)
          /\ runPc = "finished" => \A c \in Issued : In(taken, c)
      BY <2>3 DEF StreamSound, StreamOver
    <3>2. Positions("done") = {Len(response.body)}
      <4>1. Len(response.body) \in 1 .. Len(response.body)
        BY <2>1, <3>1 DEF Told
      <4> QED BY <2>1, <3>1, <4>1 DEF Told, Positions, Kind
    <3>3. \A i \in 1 .. Len(taken) :
              /\ i \in 1 .. Len(response.body)
              /\ response.body[i].kind = "result" /\ response.body[i].data = taken[i]
      <4>1. Len(taken) <= Len(response.body)
        BY <3>1 DEF Told, OpensWith
      <4>2. \A i \in 1 .. Len(taken) : i \in 1 .. Len(response.body)
        BY <2>1, <4>1
      <4>3. \A i \in 1 .. Len(taken) : response.body[i] = Result(taken[i])
        BY <3>1, Zenon DEF Told, OpensWith
      <4>4. \A n : Result(n).kind = "result" /\ Result(n).data = n
        BY DEF Result, Frame
      <4> SUFFICES ASSUME NEW i \in 1 .. Len(taken)
                   PROVE  response.body[i].kind = "result" /\ response.body[i].data = taken[i]
        BY <4>2
      <4>5. response.body[i] = Result(taken[i])
        BY <4>3
      <4> QED BY <4>4, <4>5, Zenon
    <3>4. \A i \in 1 .. Len(response.body) :
              response.body[i].kind = "result" => i \in 1 .. Len(taken)
      <4> SUFFICES ASSUME NEW i \in 1 .. Len(response.body),
                          response.body[i].kind = "result"
                   PROVE  i \in 1 .. Len(taken)
        OBVIOUS
      <4>1. ~(i > Len(taken))
        BY <3>1 DEF Told
      <4> QED BY <2>1, <4>1
    <3>5. Positions("result") = 1 .. Len(taken)
      BY <2>1, <3>3, <3>4 DEF Positions, Kind
    <3> QED BY <2>1, <3>1, <3>2, <3>3, <3>5 DEF In
  <2> QED BY <2>2, <2>3
<1> QED BY <1>1, ChatTypeInit, ChatTypeNext, RequestSoundInit, RequestSoundNext,
           RunDeliversInit, RunDeliversNext, CallsGuidedNext, StreamSoundInit,
           StreamSoundNext, PTL DEF ChatSpec, ChatTypeOK

-----------------------------------------------------------------------------
(***************************************************************************)
(* A panic.  Whatever becomes of the request, its body opens with the results *)
(* that were taken, and no frame waits in the buffer.                         *)
(***************************************************************************)
Kept(r, t) == OpensWith(r.body, t) /\ r.buffer = <<>>

KeptSound ==
    /\ httpPc \in {"arriving", "handler"} => response.body = <<>>
    /\ httpPc \in {"arriving", "handler", "waiting"} => taken = <<>>
    /\ httpPc = "streaming" => Len(response.body) = Len(taken)
    /\ Kept(response, taken)

LEMMA ConcatOpens ==
    ASSUME NEW b \in Seq(Frames), NEW t \in Seq(Calls), OpensWith(b, t), NEW frame \in Frames
    PROVE  OpensWith(b \o <<frame>>, t)
<1>1. PICK s : s = b \o <<frame>>
  OBVIOUS
<1>2. /\ Len(b) \in Nat /\ Len(s) = Len(b) + 1
      /\ \A i \in 1 .. Len(b) : s[i] = b[i]
  BY <1>1, ConcatOne
<1>3. Len(t) \in Nat /\ Len(t) <= Len(b)
  BY LenProperties DEF OpensWith
<1>4. OpensWith(s, t)
  BY <1>2, <1>3 DEF OpensWith
<1> QED BY <1>1, <1>4

LEMMA WroteKept ==
    ASSUME NEW r \in Responses, NEW t \in Seq(Calls), OpensWith(r.body, t),
           NEW frame \in Frames, NEW s, Wrote(r, s, <<frame>>)
    PROVE  Kept(s, t) /\ s \in Responses
<1>1. s.body = r.body \o <<frame>> /\ r.body \in Seq(Frames)
  BY Zenon DEF Wrote, Responses
<1>2. OpensWith(r.body \o <<frame>>, t)
  BY <1>1, ConcatOpens
<1>3. OpensWith(s.body, t)
  BY <1>1, <1>2, Zenon
<1> QED BY <1>3 DEF Kept, Wrote

LEMMA EndingKept ==
    ASSUME NEW r \in Responses, NEW t \in Seq(Calls), OpensWith(r.body, t),
           NEW frame \in {Stop, ErrorContent}, NEW s, EndsWith(r, frame, s)
    PROVE  Kept(s, t)
<1>1. PICK mid : Wrote(r, mid, <<frame>>) /\ Wrote(mid, s, <<Done>>)
  BY DEF EndsWith
<1>2. Kept(mid, t) /\ mid \in Responses
  BY <1>1, WroteKept, FrameTypes
<1> QED BY <1>1, <1>2, WroteKept, FrameTypes DEF Kept

\* Nothing was taken: anything written opens with it.
LEMMA NothingTaken ==
    ASSUME NEW r \in Responses
    PROVE  /\ OpensWith(r.body, <<>>)
           /\ \A code \in Codes : WriteError(r, code).buffer = r.buffer
           /\ \A answer \in Nat : WriteNonStreamingResponse(r, answer).buffer = r.buffer
<1>1. Len(r.body) \in Nat /\ Len(<<>>) = 0
  BY LenProperties DEF Responses
<1>2. OpensWith(r.body, <<>>)
  BY <1>1 DEF OpensWith
<1> QED BY <1>2 DEF WriteError, WriteNonStreamingResponse, WriteHeader, Write, Send, SendHeader,
                    Responses

LEMMA KeptSoundHandler ==
    ASSUME ChatTypeOK, RequestSound, KeptSound, HandlerStep
    PROVE  KeptSound'
<1>1. /\ response \in Responses /\ taken \in Seq(Calls) /\ response.body \in Seq(Frames)
      /\ response' \in Responses
  BY HandlerTypeStep DEF ChatTypeOK, ChainTypeOK, Responses
<1>2. /\ httpPc \in {"handler", "streaming", "waiting"} /\ Open(response)
      /\ response.buffer = <<>> /\ OpensWith(response.body, taken)
  BY DEF HandlerStep, Refuse, ReplayAnswer, Serve, StreamResult, EndOfStream, Respond,
         RequestSound, KeptSound, Kept
<1>3. ASSUME httpPc' = "returning", Kept(response', taken) , taken' = taken
      PROVE  KeptSound'
  BY <1>3 DEF KeptSound
<1>4. ASSUME taken = <<>>, response'.buffer = <<>> PROVE Kept(response', taken)
  BY <1>1, <1>4, NothingTaken DEF Kept
<1>5. Text(Answer) \in Frames /\ Answer \in Nat /\ EmptyAnswer \in Nat
  BY FrameTypes DEF Answer, EmptyAnswer
<1>6. PICK s : s = EmitDelta(response, Text(Answer))
  OBVIOUS
<1>7. Wrote(response, s, <<Text(Answer)>>)
  BY <1>1, <1>2, <1>5, <1>6, EmitDeltaWrote
<1>8. s \in Responses /\ Kept(s, taken) /\ Open(s)
  BY <1>1, <1>2, <1>5, <1>7, WroteKept, WroteFlush
<1>9. CASE Refuse
  <2>1. response'.buffer = <<>> /\ taken = <<>>
    BY <1>1, <1>2, <1>9, NothingTaken DEF Refuse, KeptSound
  <2> QED BY <1>3, <1>4, <1>9, <2>1 DEF Refuse
<1>10. CASE ReplayAnswer
  <2>1. CASE response' = WriteRepeatedStream(response, Answer)
    <3>1. EndsWith(s, Stop, response')
      BY <1>6, <1>8, <2>1, EndStreamEnds DEF WriteRepeatedStream, Kept
    <3>2. Kept(response', taken)
      BY <1>1, <1>8, <3>1, EndingKept DEF Kept
    <3> QED BY <1>3, <1>10, <3>2 DEF ReplayAnswer
  <2>2. CASE response' = WriteRepeatedResponse(response, Answer)
    <3>1. response'.buffer = <<>> /\ taken = <<>>
      BY <1>1, <1>2, <1>5, <1>10, <2>2, NothingTaken
      DEF ReplayAnswer, WriteRepeatedResponse, KeptSound
    <3> QED BY <1>3, <1>4, <1>10, <3>1 DEF ReplayAnswer
  <2> QED BY <1>10, <2>1, <2>2 DEF ReplayAnswer
<1>11. CASE Serve
  <2>1. response'.body = response.body /\ response'.buffer = response.buffer
    <3>1. response' = Flush(response) \/ response' = response
      BY <1>11 DEF Serve
    <3> QED BY <1>1, <3>1 DEF Flush, SendHeader, Responses
  <2>2. /\ taken = <<>> /\ taken' = taken /\ response.body = <<>>
        /\ httpPc' \in {"streaming", "waiting"}
    BY <1>11 DEF Serve, KeptSound
  <2> QED BY <1>2, <2>1, <2>2 DEF KeptSound, Kept
<1>12. CASE StreamResult
  <2>1. httpPc = "streaming" /\ httpPc' = "streaming"
    BY <1>12 DEF StreamResult
  <2>2. /\ OpensWith(response'.body, taken') /\ Len(response'.body) = Len(taken')
        /\ response'.buffer = <<>>
    BY <1>2, <1>12, <2>1, ResultOpens DEF KeptSound
  <2> QED BY <2>1, <2>2 DEF KeptSound, Kept
<1>13. CASE EndOfStream
  <2>1. httpPc' = "returning" /\ taken' = taken
    BY <1>13 DEF EndOfStream
  <2>2. CASE response' \in {EndStream(s), EndBrokenStream(s)}
    <3>1. EndsWith(s, Stop, response')
      BY <1>8, <2>2, EndStreamEnds, EndBrokenStreamEnds DEF Kept
    <3>2. Kept(response', taken)
      BY <1>1, <1>8, <3>1, EndingKept DEF Kept
    <3> QED BY <1>3, <2>1, <3>2
  <2>3. CASE response' = EmitStreamErrorContent(response)
    <3>1. EndsWith(response, ErrorContent, response')
      BY <1>1, <1>2, <2>3, EmitStreamErrorContentEnds
    <3>2. Kept(response', taken)
      BY <1>1, <1>2, <3>1, EndingKept
    <3> QED BY <1>3, <2>1, <3>2
  <2>4. CASE taken = <<>> /\ response' = WriteError(response, "agent_error")
    <3>1. response'.buffer = <<>>
      BY <1>1, <1>2, <2>4, NothingTaken, StatusTypes
    <3> QED BY <1>3, <1>4, <2>1, <2>4, <3>1
  <2> QED BY <1>6, <1>13, <2>2, <2>3, <2>4 DEF EndOfStream
<1>14. CASE Respond
  <2>1. response'.buffer = <<>> /\ taken = <<>>
    BY <1>1, <1>2, <1>5, <1>14, NothingTaken, StatusTypes DEF Respond, KeptSound
  <2> QED BY <1>3, <1>4, <1>14, <2>1 DEF Respond
<1> QED BY <1>9, <1>10, <1>11, <1>12, <1>13, <1>14 DEF HandlerStep

LEMMA KeptSoundNext ==
    ChatTypeOK /\ RequestSound /\ KeptSound /\ [ChatNext]_chatVars => KeptSound'
<1> SUFFICES ASSUME ChatTypeOK, RequestSound, KeptSound, [ChatNext]_chatVars
             PROVE  KeptSound'
  OBVIOUS
<1>1. response \in Responses /\ taken \in Seq(Calls) /\ response.body \in Seq(Frames)
  BY DEF ChatTypeOK, ChainTypeOK, Responses
<1>2. ASSUME UNCHANGED taken, response'.body = response.body,
             response'.buffer = response.buffer,
             httpPc' = httpPc \/ httpPc' \in {"panicking", "ended"}
                \/ (httpPc = "arriving" /\ httpPc' = "handler")
      PROVE  KeptSound'
  BY <1>2 DEF KeptSound, Kept
<1>3. CASE HandlerStep
  BY <1>3, KeptSoundHandler
<1>4. CASE ChainStep /\ EnterChain
  BY <1>1, <1>2, <1>4 DEF EnterChain, ChainStep, Responses
<1>5. CASE ChainStep /\ LogAccess
  BY <1>1, <1>2, <1>5 DEF LogAccess, ChainStep, SendHeader, Responses
<1>6. CASE ChainStep /\ Recover
  <2>1. /\ response.header = RequestId /\ httpPc' = "ended" /\ taken' = taken
        /\ response' = RecoverError(response)
    BY <1>6 DEF Recover, ChainStep, RequestSound, Inside, Sound
  <2>2. /\ response'.body = response.body \o <<Envelope(RequestId)>>
        /\ response'.buffer = response.buffer
    BY <1>1, <2>1 DEF RecoverError, Send, SendHeader, EnvelopeFor, Responses
  <2>3. OpensWith(response.body \o <<Envelope(RequestId)>>, taken)
    BY <1>1, ConcatOpens, FrameTypes, IdAssumption DEF KeptSound, Kept
  <2>4. OpensWith(response'.body, taken)
    BY <2>2, <2>3, Zenon
  <2> QED BY <2>1, <2>2, <2>4 DEF KeptSound, Kept
<1>7. CASE Panic
  BY <1>2, <1>7 DEF Panic
<1>8. CASE RunStep \/ Others \/ UNCHANGED chatVars
  BY <1>2, <1>8 DEF RunStep, Others, chainVars, chatVars
<1> QED BY <1>3, <1>4, <1>5, <1>6, <1>7, <1>8 DEF ChatNext, ChainStep

\* Wherever the handler panics, every result it had taken from the run is in the
\* body, at its place, and none in a buffer; the last thing written is the envelope
\* of this request.
THEOREM ChatPanicLosesNoResult == ChatSpec => []PanicLosesNoResult
<1>1. ChatInit => KeptSound
  <2>1. Len(<<>>) = 0
    OBVIOUS
  <2> QED BY <2>1 DEF ChatInit, ChainInit, NewResponse, KeptSound, Kept, OpensWith
<1>2. ChatTypeOK /\ RequestSound /\ KeptSound => PanicLosesNoResult
  <2> SUFFICES ASSUME ChatTypeOK, RequestSound, KeptSound, Recovered
               PROVE  /\ response.buffer = <<>>
                      /\ \A i \in DOMAIN taken :
                            i \in DOMAIN response.body /\ response.body[i] = Result(taken[i])
                      /\ response.body[Len(response.body)] = Envelope(RequestId)
    BY DEF PanicLosesNoResult
  <2>1. /\ DOMAIN response.body = 1 .. Len(response.body) /\ Len(response.body) \in Nat
        /\ DOMAIN taken = 1 .. Len(taken) /\ Len(taken) \in Nat
    BY LenProperties DEF ChatTypeOK, ChainTypeOK, Responses
  <2>2. response.buffer = <<>> /\ OpensWith(response.body, taken)
    BY DEF KeptSound, Kept
  <2>3. \A i \in 1 .. Len(taken) :
            i \in 1 .. Len(response.body) /\ response.body[i] = Result(taken[i])
    BY <2>1, <2>2 DEF OpensWith
  <2> QED BY <2>1, <2>2, <2>3 DEF RequestSound, RecoveredLast
<1> QED BY <1>1, <1>2, ChatTypeInit, ChatTypeNext, RequestSoundInit, RequestSoundNext,
           KeptSoundNext, PTL DEF ChatSpec

-----------------------------------------------------------------------------
(***************************************************************************)
(* Guidance.  Results and guidance wait in the order of their turns, and no   *)
(* call waits twice.                                                         *)
(***************************************************************************)
Ordered(s, k) ==
    \A i, j \in 1 .. Len(s) : i < j => s[i] # s[j] /\ k[s[i]].turn <= k[s[j]].turn

LEMMA OrderedAppend ==
    ASSUME NEW s \in Seq(Calls), NEW k, Ordered(s, k), NEW c \in Calls,
           \A i \in 1 .. Len(s) : s[i] # c /\ k[s[i]].turn <= k[c].turn
    PROVE  Ordered(Append(s, c), k)
<1>1. PICK t : t = Append(s, c)
  OBVIOUS
<1>2. /\ Len(s) \in Nat /\ Len(t) = Len(s) + 1 /\ t[Len(s) + 1] = c
      /\ \A i \in 1 .. Len(s) : t[i] = s[i]
  BY <1>1, AppendedIn
<1>3. ASSUME NEW i \in 1 .. Len(t), NEW j \in 1 .. Len(t), i < j
      PROVE  t[i] # t[j] /\ k[t[i]].turn <= k[t[j]].turn
  <2>1. i \in 1 .. Len(s) /\ (j \in 1 .. Len(s) \/ j = Len(s) + 1)
    BY <1>2, <1>3
  <2>2. CASE j \in 1 .. Len(s)
    BY <1>2, <1>3, <2>1, <2>2 DEF Ordered
  <2>3. CASE j = Len(s) + 1
    BY <1>2, <2>1, <2>3
  <2> QED BY <2>1, <2>2, <2>3
<1>4. Ordered(t, k)
  BY <1>3 DEF Ordered
<1> QED BY <1>1, <1>4


\* The first one has the earliest turn, and leaves the others in order.
LEMMA OrderedFirst ==
    ASSUME NEW s \in Seq(Calls), s # <<>>, NEW k, Ordered(s, k),
           \A d \in Calls : k[d].turn \in Int
    PROVE  /\ In(s, Head(s)) /\ Head(s) \in Calls
           /\ \A d : In(s, d) => k[Head(s)].turn <= k[d].turn
           /\ \A d : In(Tail(s), d) <=> In(s, d) /\ d # Head(s)
           /\ Ordered(Tail(s), k)
<1>1. PICK t : t = Tail(s)
  OBVIOUS
<1>2. PICK h : h = Head(s)
  OBVIOUS
<1>3. /\ Len(s) \in Nat /\ Len(s) >= 1 /\ Len(t) = Len(s) - 1
      /\ s[1] = h /\ h \in Calls
      /\ \A i \in 1 .. Len(s) - 1 : t[i] = s[i + 1]
  BY <1>1, <1>2, HeadAndTail
<1>4. 1 \in 1 .. Len(s) /\ In(s, h)
  BY <1>3 DEF In
<1>5. ASSUME NEW i \in 1 .. Len(t)
      PROVE  i + 1 \in 1 .. Len(s) /\ t[i] = s[i + 1] /\ 1 < i + 1
  BY <1>3, <1>5
<1>6. ASSUME NEW i \in 1 .. Len(s), i # 1
      PROVE  i - 1 \in 1 .. Len(t) /\ t[i - 1] = s[i] /\ s[i] # h
  <2>1. i - 1 \in 1 .. Len(s) - 1 /\ (i - 1) + 1 = i /\ 1 < i
    BY <1>3, <1>6
  <2> QED BY <1>3, <1>4, <2>1 DEF Ordered
<1>7. ASSUME NEW d, In(s, d) PROVE k[h].turn <= k[d].turn
  <2>1. PICK i \in 1 .. Len(s) : s[i] = d
    BY <1>7 DEF In
  <2>2. CASE i = 1
    BY <1>3, <2>1, <2>2
  <2>3. CASE i # 1
    <3>1. 1 < i
      BY <1>3, <2>3
    <3> QED BY <1>3, <1>4, <2>1, <3>1 DEF Ordered
  <2> QED BY <2>2, <2>3
<1>8. ASSUME NEW d PROVE In(t, d) <=> In(s, d) /\ d # h
  <2>1. ASSUME In(t, d) PROVE In(s, d) /\ d # h
    <3>1. PICK i \in 1 .. Len(t) : t[i] = d
      BY <2>1 DEF In
    <3>2. i + 1 \in 1 .. Len(s) /\ s[i + 1] = d /\ 1 < i + 1
      BY <1>5, <3>1
    <3> QED BY <1>3, <1>4, <3>2 DEF In, Ordered
  <2>2. ASSUME In(s, d), d # h PROVE In(t, d)
    <3>1. PICK i \in 1 .. Len(s) : s[i] = d
      BY <2>2 DEF In
    <3>2. i # 1
      BY <1>3, <2>2, <3>1
    <3> QED BY <1>6, <3>1, <3>2 DEF In
  <2> QED BY <2>1, <2>2
<1>9. Ordered(t, k)
  <2> SUFFICES ASSUME NEW i \in 1 .. Len(t), NEW j \in 1 .. Len(t), i < j
               PROVE  t[i] # t[j] /\ k[t[i]].turn <= k[t[j]].turn
    BY DEF Ordered
  <2>1. i + 1 < j + 1
    BY <1>3
  <2> QED BY <1>5, <2>1 DEF Ordered
<1> QED BY <1>1, <1>2, <1>3, <1>4, <1>7, <1>8, <1>9

-----------------------------------------------------------------------------
(***************************************************************************)
(* Turns come one after the other.                                           *)
(***************************************************************************)
TurnsSound ==
    /\ \A c \in Issued : call[c].turn <= c
    /\ \A a, b \in Issued :
          /\ a <= b => call[a].turn <= call[b].turn
          /\ call[a].turn < call[b].turn => call[a].pc = "answered"

QueueSound ==
    /\ \A c : In(queue, c) => c \in Issued /\ call[c].guided
    /\ Ordered(queue, call)

EventsSound ==
    /\ \A c : In(events, c) => c \in Issued /\ call[c].pc = "answered"
    /\ Ordered(events, call)

OrderSound == TurnsSound /\ QueueSound /\ EventsSound

LEMMA OrderSoundInit == ChatInit => OrderSound
BY EmptySeq DEF ChatInit, RunInit, OrderSound, TurnsSound, QueueSound, EventsSound,
                Ordered, In, Issued

LEMMA TypesOfCalls ==
    ASSUME RunTypeOK
    PROVE  /\ issued \in Nat /\ Issued \subseteq Calls /\ Calls \subseteq Nat
           /\ \A c \in Issued : c <= issued
           /\ \A c \in Calls : call[c] \in CallStates /\ call[c].turn \in Nat
           /\ queue \in Seq(Calls) /\ events \in Seq(Calls)
<1>1. issued \in Nat /\ MaxCalls \in Nat /\ issued <= MaxCalls
  BY BoundsAssumption DEF RunTypeOK
<1>2. Issued \subseteq Calls /\ Calls \subseteq Nat /\ \A c \in Issued : c <= issued
  BY <1>1 DEF Issued, Calls
<1>3. \A c \in Calls : call[c] \in CallStates
  BY DEF RunTypeOK
<1>4. \A c \in Calls : call[c].turn \in Nat
  <2> SUFFICES ASSUME NEW c \in Calls PROVE call[c].turn \in Nat
    OBVIOUS
  <2>1. call[c].turn \in Calls \cup {0}
    BY <1>3 DEF CallStates
  <2>2. Calls \cup {0} \subseteq Nat
    BY <1>2
  <2> QED BY <2>1, <2>2
<1> QED BY <1>1, <1>2, <1>3, <1>4 DEF RunTypeOK

\* A call that has not ended is of the latest turn.
LEMMA RunningIsLatest ==
    ASSUME RunTypeOK, RunSound, TurnsSound, NEW c \in Calls,
           call[c].pc \notin {"idle", "answered", "errored"}
    PROVE  c \in Issued /\ \A d \in Issued : call[d].turn <= call[c].turn
<1>1. c \in Issued
  <2>1. ~(c > issued)
    BY DEF RunSound, Ahead, IdleCall
  <2>2. c \in Nat /\ c >= 1 /\ issued \in Nat
    BY TypesOfCalls DEF Calls
  <2> QED BY <2>1, <2>2 DEF Issued
<1>2. ASSUME NEW d \in Issued PROVE call[d].turn <= call[c].turn
  <2>1. ~(call[c].turn < call[d].turn)
    BY <1>1 DEF TurnsSound
  <2>2. call[c].turn \in Nat /\ call[d].turn \in Nat
    BY TypesOfCalls
  <2> QED BY <2>1, <2>2
<1> QED BY <1>1, <1>2

LEMMA InAppend ==
    ASSUME NEW s \in Seq(Calls), NEW c \in Calls, NEW d
    PROVE  In(Append(s, c), d) <=> In(s, d) \/ d = c
<1>1. PICK t : t = Append(s, c)
  OBVIOUS
<1>2. /\ Len(s) \in Nat /\ Len(t) = Len(s) + 1 /\ t[Len(s) + 1] = c
      /\ \A i \in 1 .. Len(s) : t[i] = s[i]
  BY <1>1, AppendedIn
<1>3. \A i : i \in 1 .. Len(t) <=> i \in 1 .. Len(s) \/ i = Len(s) + 1
  BY <1>2
<1>4. In(t, d) <=> In(s, d) \/ d = c
  BY <1>2, <1>3 DEF In
<1> QED BY <1>1, <1>4

LEMMA OrderedIn ==
    ASSUME NEW s, NEW k, NEW l, Ordered(s, k),
           \A d : In(s, d) => l[d].turn = k[d].turn
    PROVE  Ordered(s, l)
<1>1. \A i \in 1 .. Len(s) : l[s[i]].turn = k[s[i]].turn
  BY DEF In
<1> QED BY <1>1 DEF Ordered

\* One more at the end, of the latest turn.
LEMMA OrderedLatest ==
    ASSUME NEW s \in Seq(Calls), NEW k, Ordered(s, k), NEW c \in Calls,
           \A d : In(s, d) => d # c /\ k[d].turn <= k[c].turn
    PROVE  Ordered(Append(s, c), k)
<1>1. \A i \in 1 .. Len(s) : s[i] # c /\ k[s[i]].turn <= k[c].turn
  BY DEF In
<1> QED BY <1>1, OrderedAppend

LEMMA OrderSoundTurn ==
    ASSUME RunTypeOK, RunDelivers, OrderSound, IssueTurn
    PROVE  OrderSound'
<1>1. /\ issued \in Nat /\ issued' \in Nat /\ issued < issued'
      /\ \A c \in Calls : ~(issued < c /\ c <= issued') => call'[c] = call[c]
      /\ \A c \in Calls : issued < c /\ c <= issued' => Begins(c)
      /\ runPc = "model"
      /\ queue' = queue /\ events' = events
  BY TurnBegins
<1>2. /\ Issued \subseteq Calls /\ Calls \subseteq Nat
      /\ \A c \in Calls : call[c].turn \in Nat
  BY TypesOfCalls
<1>3. ASSUME NEW c \in Issued PROVE c <= issued /\ call'[c] = call[c] /\ c \in Issued'
  <2>1. c \in Nat /\ 1 <= c /\ c <= issued
    BY <1>1 DEF Issued
  <2>2. ~(issued < c /\ c <= issued') /\ c <= issued'
    BY <1>1, <2>1
  <2> QED BY <1>1, <1>2, <2>1, <2>2 DEF Issued
<1>4. ASSUME NEW c \in Issued', c \notin Issued
      PROVE  issued < c /\ c \in Nat /\ call'[c].turn = issued + 1
  <2>1. c \in Nat /\ 1 <= c /\ c <= issued'
    BY <1>1, <1>4 DEF Issued
  <2>2. issued < c
    BY <1>1, <1>4, <2>1 DEF Issued
  <2>3. c \in Calls
    <3>1. RunTypeOK'
      BY TurnTypeStep
    <3>2. Issued' \subseteq Calls
      BY <3>1, BoundsAssumption DEF RunTypeOK, Issued, Calls
    <3> QED BY <1>4, <3>2
  <2> QED BY <1>1, <2>1, <2>2, <2>3 DEF Begins
<1>5. \A c \in Issued : call[c].pc = "answered" /\ call[c].turn <= c
  BY <1>1 DEF RunDelivers, OrderSound, TurnsSound
<1>6. TurnsSound'
  <2>1. ASSUME NEW c \in Issued' PROVE call'[c].turn <= c
    <3>1. CASE c \in Issued
      BY <1>3, <1>5, <3>1
    <3>2. CASE c \notin Issued
      BY <1>1, <1>4, <3>2
    <3> QED BY <3>1, <3>2
  <2>2. ASSUME NEW a \in Issued', NEW b \in Issued'
        PROVE  /\ a <= b => call'[a].turn <= call'[b].turn
               /\ call'[a].turn < call'[b].turn => call'[a].pc = "answered"
    <3>1. CASE a \in Issued /\ b \in Issued
      BY <1>3, <3>1 DEF OrderSound, TurnsSound
    <3>2. CASE a \in Issued /\ b \notin Issued
      <4>1. call'[a].turn <= a /\ a <= issued /\ call'[b].turn = issued + 1
            /\ call'[a].pc = "answered"
        BY <1>3, <1>4, <1>5, <3>2
      <4>2. a \in Nat /\ call'[a].turn \in Nat
        BY <1>2, <1>3, <3>2
      <4>3. call'[a].turn <= call'[b].turn
        BY <1>1, <4>1, <4>2
      <4> QED BY <4>1, <4>3
    <3>3. CASE a \notin Issued /\ b \notin Issued
      <4>1. call'[a].turn = issued + 1 /\ call'[b].turn = issued + 1
        BY <1>4, <3>3
      <4> QED BY <1>1, <4>1
    <3>4. CASE a \notin Issued /\ b \in Issued
      <4>1. issued < a /\ a \in Nat /\ call'[a].turn = issued + 1
        BY <1>4, <3>4
      <4>2. b <= issued /\ b \in Nat /\ call'[b].turn <= b /\ call'[b].turn \in Nat
        BY <1>2, <1>3, <1>5, <3>4
      <4>3. ~(a <= b) /\ ~(call'[a].turn < call'[b].turn)
        BY <1>1, <4>1, <4>2
      <4> QED BY <4>3
    <3> QED BY <3>1, <3>2, <3>3, <3>4
  <2> QED BY <2>1, <2>2 DEF TurnsSound
<1>7. QueueSound'
  <2>1. \A c : In(queue, c) => c \in Issued /\ call[c].guided
    BY DEF OrderSound, QueueSound
  <2>2. Ordered(queue, call')
    BY <1>3, <2>1, OrderedIn DEF OrderSound, QueueSound
  <2> QED BY <1>1, <1>3, <2>1, <2>2 DEF QueueSound
<1>8. EventsSound'
  <2>1. \A c : In(events, c) => c \in Issued /\ call[c].pc = "answered"
    BY DEF OrderSound, EventsSound
  <2>2. Ordered(events, call')
    BY <1>3, <2>1, OrderedIn DEF OrderSound, EventsSound
  <2> QED BY <1>1, <1>3, <2>1, <2>2 DEF EventsSound
<1> QED BY <1>6, <1>7, <1>8 DEF OrderSound

LEMMA OrderSoundCall ==
    ASSUME RunTypeOK, RunSound, CallsGuided, OrderSound, NEW c \in Calls, CallStep(c)
    PROVE  OrderSound'
<1>1. Moves(c) /\ (Pushes(c) \/ Reports(c) \/ Works(c))
  BY CallStepMoves DEF CallsGuided
<1>2. /\ Issued \subseteq Calls /\ queue \in Seq(Calls) /\ events \in Seq(Calls)
  BY TypesOfCalls
<1>3. c \in Issued /\ \A d \in Issued : call[d].turn <= call[c].turn
  BY <1>1, RunningIsLatest DEF Moves, OrderSound
<1>4. Issued' = Issued /\ \A d \in Calls : call'[d].turn = call[d].turn
  BY <1>1 DEF Moves, Issued
<1>5. \A d \in Calls : /\ call[d].pc = "answered" => d # c /\ call'[d].pc = "answered"
                       /\ call[d].guided => call'[d].guided
  BY <1>1 DEF Moves, Pushes, Reports, Works
<1>6. TurnsSound'
  BY <1>2, <1>4, <1>5 DEF OrderSound, TurnsSound
<1>7. QueueSound'
  <2>1. \A d : In(queue, d) => d \in Issued /\ call[d].guided
    BY DEF OrderSound, QueueSound
  <2>2. Ordered(queue, call')
    BY <1>2, <1>4, <2>1, OrderedIn DEF OrderSound, QueueSound
  <2>3. CASE queue' = queue
    BY <1>2, <1>4, <1>5, <2>1, <2>2, <2>3 DEF QueueSound
  <2>4. CASE Pushes(c)
    <3>1. \A d : In(queue, d) => d # c /\ call'[d].turn <= call'[c].turn
      BY <1>2, <1>3, <1>4, <2>1, <2>4 DEF Pushes
    <3>2. Ordered(Append(queue, c), call')
      BY <1>2, <2>2, <3>1, OrderedLatest
    <3>3. queue' = Append(queue, c) /\ call'[c].guided
      BY <2>4 DEF Pushes
    <3>4. \A d : In(queue', d) => In(queue, d) \/ d = c
      BY <1>2, <3>3, InAppend
    <3>5. \A d : In(queue', d) => d \in Issued' /\ call'[d].guided
      BY <1>2, <1>3, <1>4, <1>5, <2>1, <3>3, <3>4
    <3> QED BY <3>2, <3>3, <3>5 DEF QueueSound
  <2> QED BY <1>1, <2>3, <2>4 DEF Reports, Works
<1>8. EventsSound'
  <2>1. \A d : In(events, d) => d \in Issued /\ call[d].pc = "answered"
    BY DEF OrderSound, EventsSound
  <2>2. Ordered(events, call')
    BY <1>2, <1>4, <2>1, OrderedIn DEF OrderSound, EventsSound
  <2>3. CASE events' = events
    BY <1>2, <1>4, <1>5, <2>1, <2>2, <2>3 DEF EventsSound
  <2>4. CASE Reports(c)
    <3>1. \A d : In(events, d) => d # c /\ call'[d].turn <= call'[c].turn
      BY <1>2, <1>3, <1>4, <1>5, <2>1
    <3>2. Ordered(Append(events, c), call')
      BY <1>2, <2>2, <3>1, OrderedLatest
    <3>3. events' = Append(events, c) /\ call'[c].pc = "answered"
      BY <2>4 DEF Reports
    <3>4. \A d : In(events', d) => In(events, d) \/ d = c
      BY <1>2, <3>3, InAppend
    <3>5. \A d : In(events', d) => d \in Issued' /\ call'[d].pc = "answered"
      BY <1>2, <1>3, <1>4, <1>5, <2>1, <3>3, <3>4
    <3> QED BY <3>2, <3>3, <3>5 DEF EventsSound
  <2> QED BY <1>1, <2>3, <2>4 DEF Pushes, Works
<1> QED BY <1>6, <1>7, <1>8 DEF OrderSound

\* What a taken result does to the two queues.
LEMMA TakeEffect ==
    ASSUME RunTypeOK, OrderSound, TakeEvent
    PROVE  /\ In(events, Head(events)) /\ Head(events) \in Issued
           /\ \A d : In(events, d) => call[Head(events)].turn <= call[d].turn
           /\ \A d : In(events', d) <=> In(events, d) /\ d # Head(events)
           /\ Ordered(events', call)
           /\ queue # <<>> =>
                 /\ In(queue, Head(queue)) /\ Head(queue) \in Issued
                 /\ \A d : In(queue, d) => call[Head(queue)].turn <= call[d].turn
           /\ Pops(Head(events)) =>
                 /\ queue # <<>>
                 /\ \A d : In(queue', d) <=> In(queue, d) /\ d # Head(queue)
           /\ ~Pops(Head(events)) => queue' = queue
           /\ Ordered(queue', call)
<1>1. /\ queue \in Seq(Calls) /\ events \in Seq(Calls)
      /\ \A c \in Calls : call[c].turn \in Int
  BY TypesOfCalls
<1>2. events # <<>> /\ events' = Tail(events) /\ Ordered(events, call)
  BY DEF TakeEvent, OrderSound, EventsSound
<1>3. /\ In(events, Head(events))
      /\ \A d : In(events, d) => call[Head(events)].turn <= call[d].turn
      /\ \A d : In(events', d) <=> In(events, d) /\ d # Head(events)
      /\ Ordered(events', call)
  BY <1>1, <1>2, OrderedFirst
<1>4. Head(events) \in Issued
  BY <1>3 DEF OrderSound, EventsSound
<1>5. ASSUME queue # <<>>
      PROVE  /\ In(queue, Head(queue)) /\ Head(queue) \in Issued
             /\ \A d : In(queue, d) => call[Head(queue)].turn <= call[d].turn
             /\ \A d : In(Tail(queue), d) <=> In(queue, d) /\ d # Head(queue)
             /\ Ordered(Tail(queue), call)
  <2>1. /\ In(queue, Head(queue))
        /\ \A d : In(queue, d) => call[Head(queue)].turn <= call[d].turn
        /\ \A d : In(Tail(queue), d) <=> In(queue, d) /\ d # Head(queue)
        /\ Ordered(Tail(queue), call)
    BY <1>1, <1>5, OrderedFirst DEF OrderSound, QueueSound
  <2> QED BY <2>1 DEF OrderSound, QueueSound
<1>6. queue' = IF Pops(Head(events)) THEN Tail(queue) ELSE queue
  BY DEF TakeEvent
<1>7. Pops(Head(events)) => queue # <<>>
  BY DEF Pops
<1>8. Ordered(queue', call)
  BY <1>5, <1>6, <1>7 DEF OrderSound, QueueSound
<1> QED BY <1>3, <1>4, <1>5, <1>6, <1>7, <1>8

LEMMA OrderSoundTake ==
    ASSUME RunTypeOK, OrderSound, TakeEvent
    PROVE  OrderSound'
<1>1. call' = call /\ issued' = issued /\ Issued' = Issued
  BY DEF TakeEvent, Issued
<1>2. /\ \A d : In(events', d) => In(events, d)
      /\ \A d : In(queue', d) => In(queue, d)
      /\ Ordered(events', call) /\ Ordered(queue', call)
  BY TakeEffect
<1>3. TurnsSound'
  BY <1>1 DEF OrderSound, TurnsSound
<1>4. QueueSound'
  BY <1>1, <1>2 DEF OrderSound, QueueSound
<1>5. EventsSound'
  BY <1>1, <1>2 DEF OrderSound, EventsSound
<1> QED BY <1>3, <1>4, <1>5 DEF OrderSound

-----------------------------------------------------------------------------
(***************************************************************************)
(* A search is apart when no search up to it shares a turn with another or    *)
(* was answered without guidance.  While its result waits its guidance does,  *)
(* and no longer.                                                            *)
(***************************************************************************)
Apart(c) ==
    /\ \A a, b \in Issued :
          a # b /\ IsFind(a) /\ IsFind(b) /\ call[a].turn = call[b].turn
              => call[c].turn < call[a].turn
    /\ \A a \in 1 .. c : IsFind(a) /\ call[a].pc = "answered" => call[a].guided

PairSound(c) ==
    Apart(c) =>
        /\ call[c].guided /\ ~Taken(c) => In(queue, c)
        /\ In(queue, c) => ~Taken(c)
        /\ IsFind(c) /\ Taken(c) => shown[c] = OwnGuidance(c)

Pairs == \A c \in Issued : PairSound(c)

LEMMA PairsInit == ChatInit => Pairs
BY DEF ChatInit, RunInit, Pairs, Issued

LEMMA TakenIs ==
    ASSUME RunTypeOK, NEW c
    PROVE  Taken(c) <=> call[c].pc = "answered" /\ ~In(events, c)
<1>1. DOMAIN events = 1 .. Len(events)
  BY LenProperties DEF RunTypeOK
<1> QED BY <1>1 DEF Taken, In

LEMMA ApartFrom ==
    ASSUME RunTypeOK, TurnsSound, NEW c \in Issued, Apart(c)
    PROVE  /\ IsFind(c) /\ call[c].pc = "answered" => call[c].guided
           /\ \A a \in Issued : a # c /\ IsFind(a) /\ IsFind(c)
                 => call[a].turn # call[c].turn
           /\ \A a \in Issued : call[a].turn < call[c].turn
                 => call[a].pc = "answered" /\ Apart(a)
<1>1. \A a \in Issued : a \in Nat /\ a >= 1 /\ call[a].turn \in Nat
  <2>1. \A a \in Issued : a \in Nat /\ call[a].turn \in Nat /\ issued \in Nat
    BY TypesOfCalls
  <2>2. \A a \in Issued : a >= 1
    BY <2>1 DEF Issued
  <2> QED BY <2>1, <2>2
<1>2. c \in 1 .. c
  BY <1>1
<1>3. IsFind(c) /\ call[c].pc = "answered" => call[c].guided
  BY <1>2 DEF Apart
<1>4. ASSUME NEW a \in Issued, a # c, IsFind(a), IsFind(c)
      PROVE  call[a].turn # call[c].turn
  <2>1. call[a].turn = call[c].turn => call[c].turn < call[a].turn
    BY <1>4 DEF Apart
  <2> QED BY <1>1, <2>1
<1>5. ASSUME NEW a \in Issued, call[a].turn < call[c].turn
      PROVE  call[a].pc = "answered" /\ Apart(a)
  <2>1. call[a].pc = "answered"
    BY <1>5 DEF TurnsSound
  <2>2. a < c
    <3>1. c <= a => call[c].turn <= call[a].turn
      BY DEF TurnsSound
    <3> QED BY <1>1, <1>5, <3>1
  <2>3. ASSUME NEW d \in Issued, NEW b \in Issued, d # b, IsFind(d), IsFind(b),
               call[d].turn = call[b].turn
        PROVE  call[a].turn < call[d].turn
    <3>1. call[c].turn < call[d].turn
      BY <2>3 DEF Apart
    <3> QED BY <1>1, <1>5, <3>1
  <2>4. \A d \in 1 .. a : d \in 1 .. c
    BY <1>1, <2>2
  <2>5. \A d \in 1 .. a : IsFind(d) /\ call[d].pc = "answered" => call[d].guided
    BY <2>4 DEF Apart
  <2> QED BY <2>1, <2>3, <2>5 DEF Apart
<1> QED BY <1>3, <1>4, <1>5

\* What held of the searches up to c is not undone.
LEMMA ApartBefore ==
    ASSUME NEW c \in Issued, Apart(c)', Issued \subseteq Issued',
           \A d \in Issued : /\ call'[d].kind = call[d].kind
                             /\ call'[d].turn = call[d].turn
                             /\ call[d].pc = "answered" => call'[d] = call[d]
    PROVE  Apart(c)
<1>1. \A d \in Issued : IsFind(d) => IsFind(d)'
  BY DEF IsFind
<1>2. ASSUME NEW a \in Issued, NEW b \in Issued, a # b, IsFind(a), IsFind(b),
             call[a].turn = call[b].turn
      PROVE  call[c].turn < call[a].turn
  <2>1. IsFind(a)' /\ IsFind(b)' /\ call'[a].turn = call'[b].turn
    BY <1>1, <1>2
  <2>2. call'[c].turn < call'[a].turn
    BY <1>2, <2>1 DEF Apart
  <2> QED BY <2>2
<1>3. ASSUME NEW a \in 1 .. c, IsFind(a), call[a].pc = "answered"
      PROVE  call[a].guided
  <2>1. a \in Issued
    BY <1>3 DEF IsFind
  <2>2. IsFind(a)' /\ call'[a] = call[a]
    BY <1>1, <1>3, <2>1
  <2>3. call'[a].guided
    BY <1>3, <2>2 DEF Apart
  <2> QED BY <2>2, <2>3
<1> QED BY <1>2, <1>3 DEF Apart

LEMMA PairsTurn ==
    ASSUME RunTypeOK, OrderSound, Pairs, IssueTurn
    PROVE  Pairs'
<1>1. /\ issued \in Nat /\ issued' \in Nat /\ issued < issued'
      /\ \A c \in Calls : ~(issued < c /\ c <= issued') => call'[c] = call[c]
      /\ \A c \in Calls : issued < c /\ c <= issued' => Begins(c)
      /\ queue' = queue /\ events' = events /\ shown' = shown
  BY TurnBegins
<1>2. Issued \subseteq Calls /\ RunTypeOK' /\ Issued' \subseteq Calls
  <2>1. RunTypeOK'
    BY TurnTypeStep
  <2>2. Issued' \subseteq Calls
    BY <2>1, BoundsAssumption DEF RunTypeOK, Issued, Calls
  <2> QED BY <2>1, <2>2, TypesOfCalls
<1>3. \A c \in Issued : call'[c] = call[c] /\ c \in Issued'
  <2> SUFFICES ASSUME NEW c \in Issued PROVE call'[c] = call[c] /\ c \in Issued'
    OBVIOUS
  <2>1. c \in Nat /\ 1 <= c /\ c <= issued /\ c <= issued' /\ ~(issued < c)
    BY <1>1 DEF Issued
  <2> QED BY <1>1, <1>2, <2>1 DEF Issued
<1>4. ASSUME NEW c \in Issued', c \in Issued, Apart(c)'
      PROVE  /\ (call[c].guided /\ ~Taken(c) => In(queue, c))'
             /\ (In(queue, c) => ~Taken(c))'
             /\ (IsFind(c) /\ Taken(c) => shown[c] = OwnGuidance(c))'
  <2>1. Apart(c)
    BY <1>3, <1>4, ApartBefore
  <2>2. /\ call[c].guided /\ ~Taken(c) => In(queue, c)
        /\ In(queue, c) => ~Taken(c)
        /\ IsFind(c) /\ Taken(c) => shown[c] = OwnGuidance(c)
    BY <1>4, <2>1 DEF Pairs, PairSound
  <2>3. /\ call'[c] = call[c] /\ (Taken(c)' <=> Taken(c)) /\ (IsFind(c)' <=> IsFind(c))
        /\ OwnGuidance(c)' = OwnGuidance(c) /\ (In(queue, c)' <=> In(queue, c))
    BY <1>1, <1>3, <1>4 DEF Taken, IsFind, OwnGuidance, In
  <2> QED BY <1>1, <2>2, <2>3
<1>5. ASSUME NEW c \in Issued', c \notin Issued
      PROVE  ~call'[c].guided /\ ~Taken(c)'
  <2>1. issued < c /\ c <= issued' /\ c \in Calls
    BY <1>1, <1>2, <1>5 DEF Issued
  <2>2. Begins(c)
    BY <1>1, <2>1
  <2> QED BY <2>2 DEF Begins, Taken
<1> QED BY <1>4, <1>5 DEF Pairs, PairSound

LEMMA PairsCall ==
    ASSUME RunTypeOK, RunSound, CallsGuided, OrderSound, Pairs, NEW c \in Calls, CallStep(c)
    PROVE  Pairs'
<1>1. Moves(c) /\ (Pushes(c) \/ Reports(c) \/ Works(c))
  BY CallStepMoves DEF CallsGuided
<1>2. /\ Issued \subseteq Calls /\ queue \in Seq(Calls) /\ events \in Seq(Calls)
      /\ RunTypeOK'
  BY TypesOfCalls, CallTypeStep
<1>3. Issued' = Issued /\ shown' = shown
  BY <1>1 DEF Moves, Issued
<1>4. \A d \in Calls : /\ call'[d].kind = call[d].kind /\ call'[d].turn = call[d].turn
                       /\ call[d].pc = "answered" => call'[d] = call[d]
                       /\ d # c => call'[d] = call[d]
  BY <1>1 DEF Moves
<1>5. ASSUME NEW d
      PROVE  /\ In(queue', d) => In(queue, d) \/ d = c
             /\ In(events', d) => In(events, d) \/ d = c
             /\ In(queue, d) => In(queue', d)
             /\ In(events, d) => In(events', d)
             /\ Pushes(c) => In(queue', c)
             /\ Reports(c) => In(events', c)
  <2>1. /\ In(Append(queue, c), d) <=> In(queue, d) \/ d = c
        /\ In(Append(events, c), d) <=> In(events, d) \/ d = c
        /\ In(Append(queue, c), c) /\ In(Append(events, c), c)
    BY <1>2, InAppend
  <2>2. CASE Pushes(c)
    BY <2>1, <2>2 DEF Pushes, Reports
  <2>3. CASE Reports(c)
    BY <2>1, <2>3 DEF Reports, Pushes
  <2>4. CASE Works(c)
    BY <2>4 DEF Works, Pushes, Reports
  <2> QED BY <1>1, <2>2, <2>3, <2>4
<1>6. ASSUME NEW d \in Issued', Apart(d)'
      PROVE  /\ (call[d].guided /\ ~Taken(d) => In(queue, d))'
             /\ (In(queue, d) => ~Taken(d))'
             /\ (IsFind(d) /\ Taken(d) => shown[d] = OwnGuidance(d))'
  <2>1. d \in Issued /\ d \in Calls
    BY <1>2, <1>3, <1>6
  <2>2. Apart(d)
    BY <1>2, <1>3, <1>4, <1>6, <2>1, ApartBefore
  <2>3. /\ call[d].guided /\ ~Taken(d) => In(queue, d)
        /\ In(queue, d) => ~Taken(d)
        /\ IsFind(d) /\ Taken(d) => shown[d] = OwnGuidance(d)
    BY <2>1, <2>2 DEF Pairs, PairSound
  <2>4. /\ Taken(d) <=> call[d].pc = "answered" /\ ~In(events, d)
        /\ Taken(d)' <=> call'[d].pc = "answered" /\ ~In(events', d)
    <3>1. Taken(d) <=> call[d].pc = "answered" /\ ~In(events, d)
      BY TakenIs
    <3>2. DOMAIN events' = 1 .. Len(events')
      BY <1>2, LenProperties DEF RunTypeOK
    <3>3. Taken(d)' <=> call'[d].pc = "answered" /\ ~In(events', d)
      BY <3>2 DEF Taken, In
    <3> QED BY <3>1, <3>3
  <2>5. CASE d # c
    <3>1. /\ call'[d] = call[d] /\ (Taken(d)' <=> Taken(d)) /\ (IsFind(d)' <=> IsFind(d))
          /\ OwnGuidance(d)' = OwnGuidance(d) /\ (In(queue, d)' <=> In(queue, d))
      BY <1>3, <1>4, <1>5, <2>1, <2>4, <2>5 DEF IsFind, OwnGuidance
    <3> QED BY <1>3, <2>3, <3>1
  <2>6. CASE d = c
    <3>1. ~Taken(d)'
      BY <1>1, <1>5, <2>4, <2>6 DEF Pushes, Works
    <3>2. ~Taken(d)
      BY <1>1, <2>4, <2>6 DEF Moves
    <3>3. CASE Pushes(c)
      <4>1. In(queue', d)
        BY <1>5, <2>6, <3>3
      <4> QED BY <3>1, <4>1
    <3>4. CASE Reports(c) \/ Works(c)
      <4>1. queue' = queue /\ call'[d].guided = call[d].guided
        BY <2>6, <3>4 DEF Reports, Works
      <4> QED BY <2>3, <3>1, <3>2, <4>1
    <3> QED BY <1>1, <3>3, <3>4
  <2> QED BY <2>5, <2>6
<1> QED BY <1>6 DEF Pairs, PairSound

\* The heart of it: the oldest result and the oldest guidance belong together,
\* when one of them is apart.
LEMMA HeadsMatch ==
    ASSUME RunTypeOK, CallsGuided, OrderSound, Pairs, TakeEvent,
           IsFind(Head(events))
    PROVE  /\ Apart(Head(events)) =>
                 /\ queue # <<>> /\ Head(queue) = Head(events)
                 /\ call[Head(events)].guided
           /\ queue # <<>> /\ Apart(Head(queue)) => Head(queue) = Head(events)
<1>1. PICK c : c = Head(events)
  OBVIOUS
<1>2. /\ In(events, c) /\ c \in Issued /\ IsFind(c) /\ call[c].pc = "answered"
      /\ \A d : In(events, d) => call[c].turn <= call[d].turn
  BY <1>1, TakeEffect DEF OrderSound, EventsSound
<1>3. \A d \in Issued : call[d].turn \in Nat
  BY TypesOfCalls
<1>4. ~Taken(c)
  BY <1>2, TakenIs
<1>5. ASSUME queue # <<>>, Apart(Head(queue)), Head(queue) # c,
             call[Head(queue)].turn < call[c].turn
      PROVE  FALSE
  <2>1. PICK h : h = Head(queue)
    OBVIOUS
  <2>2. In(queue, h) /\ h \in Issued
    BY <1>5, <2>1, TakeEffect
  <2>3. call[h].pc = "answered"
    BY <1>2, <1>5, <2>1, <2>2 DEF OrderSound, TurnsSound
  <2>4. ~Taken(h)
    BY <1>5, <2>1, <2>2 DEF Pairs, PairSound
  <2>5. In(events, h)
    BY <2>3, <2>4, TakenIs
  <2>6. call[c].turn <= call[h].turn /\ call[h].turn < call[c].turn
    BY <1>2, <1>5, <2>1, <2>5
  <2> QED BY <1>2, <1>3, <2>2, <2>6
<1>6. ASSUME Apart(c)
      PROVE  queue # <<>> /\ Head(queue) = c /\ call[c].guided
  <2>1. call[c].guided
    BY <1>2, <1>6, ApartFrom DEF OrderSound
  <2>2. In(queue, c)
    BY <1>2, <1>4, <1>6, <2>1 DEF Pairs, PairSound
  <2>3. queue # <<>>
    BY <2>2, EmptySeq DEF In
  <2>4. PICK h : h = Head(queue)
    OBVIOUS
  <2>5. h \in Issued /\ call[h].turn <= call[c].turn /\ In(queue, h)
    BY <2>2, <2>3, <2>4, TakeEffect
  <2>6. IsFind(h)
    <3>1. call[h].guided /\ h \in Calls
      BY <2>5, TypesOfCalls DEF OrderSound, QueueSound
    <3> QED BY <2>5, <3>1 DEF CallsGuided, GuidedSound, IsFind
  <2>7. h = c
    <3> SUFFICES ASSUME h # c PROVE FALSE
      OBVIOUS
    <3>1. call[h].turn # call[c].turn
      BY <1>2, <1>6, <2>5, <2>6, ApartFrom DEF OrderSound
    <3>2. call[h].turn < call[c].turn
      BY <1>2, <1>3, <2>5, <3>1
    <3>3. Apart(h)
      BY <1>2, <1>6, <2>5, <3>2, ApartFrom DEF OrderSound
    <3> QED BY <1>5, <2>3, <2>4, <3>2, <3>3
  <2> QED BY <2>1, <2>3, <2>4, <2>7
<1>7. ASSUME queue # <<>>, Apart(Head(queue)) PROVE Head(queue) = c
  <2>1. PICK h : h = Head(queue)
    OBVIOUS
  <2>2. h \in Issued /\ In(queue, h)
    BY <1>7, <2>1, TakeEffect
  <2>3. IsFind(h)
    <3>1. call[h].guided /\ h \in Calls
      BY <2>2, TypesOfCalls DEF OrderSound, QueueSound
    <3> QED BY <2>2, <3>1 DEF CallsGuided, GuidedSound, IsFind
  <2> SUFFICES ASSUME h # c PROVE FALSE
    BY <2>1
  <2>4. call[c].turn # call[h].turn
    BY <1>2, <1>7, <2>1, <2>2, <2>3, ApartFrom DEF OrderSound
  <2>5. CASE call[c].turn < call[h].turn
    <3>1. Apart(c)
      BY <1>2, <1>7, <2>1, <2>2, <2>5, ApartFrom DEF OrderSound
    <3> QED BY <1>6, <2>1, <3>1
  <2>6. CASE call[h].turn < call[c].turn
    BY <1>5, <1>7, <2>1, <2>6
  <2> QED BY <1>2, <1>3, <2>2, <2>4, <2>5, <2>6
<1> QED BY <1>1, <1>6, <1>7

LEMMA PairsTake ==
    ASSUME RunTypeOK, CallsGuided, OrderSound, Pairs, TakeEvent
    PROVE  Pairs'
<1>1. PICK c : c = Head(events)
  OBVIOUS
<1>2. /\ call' = call /\ issued' = issued /\ Issued' = Issued
      /\ \A d : d # c => shown'[d] = shown[d]
  BY <1>1 DEF TakeEvent, Issued, RunTypeOK
<1>3. /\ In(events, c) /\ c \in Issued /\ c \in Calls /\ call[c].pc = "answered"
      /\ \A d : In(events', d) <=> In(events, d) /\ d # c
      /\ Pops(c) => /\ queue # <<>>
                    /\ \A d : In(queue', d) <=> In(queue, d) /\ d # Head(queue)
      /\ ~Pops(c) => queue' = queue
  BY <1>1, TakeEffect, TypesOfCalls DEF OrderSound, EventsSound
<1>4. RunTypeOK'
  BY TakeTypeStep
<1>5. ASSUME NEW d \in Issued, Apart(d)
      PROVE  /\ (call[d].guided /\ ~Taken(d) => In(queue, d))'
             /\ (In(queue, d) => ~Taken(d))'
             /\ (IsFind(d) /\ Taken(d) => shown[d] = OwnGuidance(d))'
  <2>1. /\ call[d].guided /\ ~Taken(d) => In(queue, d)
        /\ In(queue, d) => ~Taken(d)
        /\ IsFind(d) /\ Taken(d) => shown[d] = OwnGuidance(d)
    BY <1>5 DEF Pairs, PairSound
  <2>2. Taken(d)' <=> Taken(d) \/ d = c
    <3>1. Taken(d) <=> call[d].pc = "answered" /\ ~In(events, d)
      BY TakenIs
    <3>2. DOMAIN events' = 1 .. Len(events')
      BY <1>4, LenProperties DEF RunTypeOK
    <3>3. Taken(d)' <=> call[d].pc = "answered" /\ ~In(events', d)
      BY <1>2, <3>2 DEF Taken, In
    <3> QED BY <1>3, <3>1, <3>3
  <2>3. /\ IsFind(d)' <=> IsFind(d)
        /\ OwnGuidance(d)' = OwnGuidance(d)
    BY <1>2 DEF IsFind, OwnGuidance
  <2>4. CASE d = c /\ IsFind(c)
    <3>1. queue # <<>> /\ Head(queue) = c /\ call[c].guided
      BY <1>1, <1>5, <2>4, HeadsMatch
    <3>2. Pops(c)
      BY <2>4, <3>1 DEF Pops, IsFind
    <3>3. ~In(queue', c)
      BY <1>3, <3>1, <3>2
    <3>4. shown'[c] = c
      <4>1. call[c].content = "result"
        BY <1>3, <3>1 DEF CallsGuided, GuidedSound
      <4>2. shown'[c] = MergeGuidance(c, Head(queue))
        BY <1>1, <1>3, <3>2 DEF TakeEvent, RunTypeOK
      <4> QED BY <3>1, <4>1, <4>2 DEF MergeGuidance
    <3>5. OwnGuidance(c) = c
      BY <3>1 DEF OwnGuidance
    <3> QED BY <2>2, <2>3, <2>4, <3>3, <3>4, <3>5
  <2>5. CASE d = c /\ ~IsFind(c)
    <3>1. ~In(queue, c) /\ queue' = queue
      <4>1. ~In(queue, c)
        BY <1>3, <2>5 DEF OrderSound, QueueSound, CallsGuided, GuidedSound, IsFind
      <4>2. ~Pops(c)
        BY <1>3, <2>5 DEF Pops, IsFind
      <4> QED BY <1>3, <4>1, <4>2
    <3> QED BY <2>2, <2>3, <2>5, <3>1
  <2>6. CASE d # c
    <3>1. Taken(d)' <=> Taken(d)
      BY <2>2, <2>6
    <3>2. In(queue', d) <=> In(queue, d)
      <4>1. CASE ~Pops(c)
        BY <1>3, <4>1
      <4>2. CASE Pops(c)
        <5>1. IsFind(c) /\ queue # <<>>
          BY <1>3, <4>2 DEF Pops, IsFind
        <5>2. d # Head(queue)
          BY <1>1, <1>5, <2>6, <5>1, HeadsMatch
        <5> QED BY <1>3, <4>2, <5>2
      <4> QED BY <4>1, <4>2
    <3> QED BY <1>2, <2>1, <2>3, <2>6, <3>1, <3>2
  <2> QED BY <2>4, <2>5, <2>6
<1>6. \A d \in Issued : Apart(d)' => Apart(d)
  BY <1>2 DEF Apart, IsFind
<1> QED BY <1>2, <1>5, <1>6 DEF Pairs, PairSound

GuidanceSound == OrderSound /\ Pairs

LEMMA GuidanceSoundNext ==
    ChatTypeOK /\ RunSound /\ CallsGuided /\ RunDelivers /\ GuidanceSound
        /\ [ChatNext]_chatVars => GuidanceSound'
<1> SUFFICES ASSUME ChatTypeOK, RunSound, CallsGuided, RunDelivers, GuidanceSound,
                    [ChatNext]_chatVars
             PROVE  GuidanceSound'
  OBVIOUS
<1>1. RunTypeOK /\ OrderSound /\ Pairs
  BY DEF ChatTypeOK, GuidanceSound
<1>2. CASE UNCHANGED <<issued, call, queue, events, shown>>
  <2>1. OrderSound'
    BY <1>1, <1>2 DEF OrderSound, TurnsSound, QueueSound, EventsSound, Ordered, In, Issued
  <2>2. Pairs'
    BY <1>1, <1>2 DEF Pairs, PairSound, Apart, Taken, IsFind, OwnGuidance, In, Issued
  <2> QED BY <2>1, <2>2 DEF GuidanceSound
<1>3. CASE IssueTurn
  BY <1>1, <1>3, OrderSoundTurn, PairsTurn DEF GuidanceSound
<1>4. ASSUME NEW c \in Calls, CallStep(c) PROVE GuidanceSound'
  BY <1>1, <1>4, OrderSoundCall, PairsCall DEF GuidanceSound
<1>5. CASE TakeEvent
  BY <1>1, <1>5, OrderSoundTake, PairsTake DEF GuidanceSound
<1> QED BY <1>2, <1>3, <1>4, <1>5
        DEF ChatNext, ChainStep, HandlerStep, Refuse, ReplayAnswer, Serve, StartRun,
            StreamResult, EndOfStream, Respond, Panic, RunStep, RunnerStep, EndTurn,
            EndRun, Others, OtherCharge, runVars, chatVars

\* The result of a search is shown with its own guidance, whatever else runs, unless
\* two searches shared a turn or one up to it was answered without guidance.
THEOREM ChatGuidanceIsOwn == ChatSpec => []GuidanceIsOwn
<1>1. ChatTypeOK /\ GuidanceSound => GuidanceIsOwn
  <2> SUFFICES ASSUME ChatTypeOK, GuidanceSound, NEW c \in Calls,
                      IsFind(c), Taken(c), shown[c] # OwnGuidance(c)
               PROVE  \/ \E a, b \in 1 .. issued :
                            /\ a # b /\ IsFind(a) /\ IsFind(b)
                            /\ call[a].turn = call[b].turn
                            /\ call[a].turn <= call[c].turn
                      \/ \E a \in 1 .. c : /\ IsFind(a) /\ call[a].pc = "answered"
                                           /\ ~call[a].guided
    BY DEF GuidanceIsOwn
  <2>1. c \in Issued /\ \A a \in Issued : call[a].turn \in Nat
    BY TypesOfCalls DEF ChatTypeOK, IsFind
  <2>2. ~Apart(c)
    BY <2>1 DEF GuidanceSound, Pairs, PairSound
  <2>3. CASE \E a, b \in Issued :
                /\ a # b /\ IsFind(a) /\ IsFind(b) /\ call[a].turn = call[b].turn
                /\ ~(call[c].turn < call[a].turn)
    BY <2>1, <2>3 DEF Issued
  <2>4. CASE \E a \in 1 .. c : IsFind(a) /\ call[a].pc = "answered" /\ ~call[a].guided
    BY <2>4
  <2> QED BY <2>2, <2>3, <2>4 DEF Apart
<1>2. ChatInit => GuidanceSound
  BY OrderSoundInit, PairsInit DEF GuidanceSound
<1> QED BY <1>1, <1>2, RunSoundAlways, ChatTypeInit, ChatTypeNext, RunDeliversInit,
           RunDeliversNext, CallsGuidedNext, GuidanceSoundNext, PTL DEF ChatSpec, ChatTypeOK
=============================================================================
