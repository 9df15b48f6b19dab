# egent-common in TLA+

`egent-common` is the Go library the agents of one platform share: the policy
layer that decides whether an agent may run a tool, the checkpoint stores that
let an interrupted run resume, the two file backends an agent's context is
offloaded to, the connector tools, the billing wrapper, and the HTTP and SSE
plumbing in front of it. Nearly all of it runs on many goroutines at once (Eino
runs the tool calls of one model turn in parallel), and the parts with state
guard single map accesses with a mutex, not whole operations. That is where the
hazards are, and what this project models.

Paths below are relative to `src/`.

## 1. Inventory

### Policy (`policy/`)

| part | state | operations | what is hard | what makes it correct |
|---|---|---|---|---|
| resolution, risk (`policy.go`, `risk.go`) | none | `InferFromHTTPMethod`, `Resolve`, `ForHTTP`, the YAML round trip, `ClassifyRisk`, `hitlEscalates` | a partial declaration is patched field by field, in an order that matters; misspelt values and triggers are kept | a resolved policy is complete and stable; a mutating verb never weakens a gate; a gate is dead only if its declaration lists triggers nobody knows |
| registry (`registry.go`) | tool -> policy, a default, an RWMutex | `Register`, `RegisterBatch`, `Lookup` | written at startup, read by calls | a call gets a registered, declared or default policy |
| throttle and preference (`hitl.go`) | actor -> time of the last prompt, a mutex | `Record`, `LastInterrupt`, `ShouldInterrupt`, `ResolveUserPolicyPref` | the mutex covers one access, the decision spans two and looks at the clock between | prompts of an actor are a cooldown apart |
| middleware (`middleware.go`) | per call: resume data, what was read of the throttle | `WrapInvokableToolCall`: resume, subject, HITL gate, authorizer, tool, audit | interleaved calls, interrupt and resume, an authorizer that fails, deployments that observe only | what must be signed off is; a refusal stands; the audit trail tells what happened |
| decorator (`decorator.go`) | none | `InvokableRun`: the older wrapper around a tool | a second way into the same gate, without risk, throttle or resume | as above |
| audit (`audit.go`) | none | redaction and emission of records | which records an execution leaves | records agree with the outcome |

### Persistence and files

| part | state | operations | what is hard | what makes it correct |
|---|---|---|---|---|
| memory checkpoints (`checkpoint.go:40-96`) | id -> bytes and expiry; id -> owner | `BindOwner`, `OwnerMatches`, `Get`, `Set`, `Delete` | lazy expiry, restarts, an owner map apart from the items | as the durable store |
| durable checkpoints (`checkpoint.go:98-177`) | the table `agent_checkpoints` | the same, one SQL statement each | an upsert that keeps the owner of a row, whoever calls; statements that fail | only the owner of a row ends it |
| local backend (`localbackend/backend.go`) | files of a namespace, a map of expiries, a mutex | `Write`, `Edit`, `Read`, `LsInfo`, `GlobInfo`, `GrepRaw`, `CleanupExpired` | expiry looks at a file and then removes by name, outside the mutex, and drops the error of the removal; the quota check measures the directory; restarts | quota; what Read serves; expired files go; the map does not leak |
| context middleware (`contextmw.go`) | the goroutine of `StartContextCleanup` | assembly; the cleanup tick | runs beside the tool calls | as above |
| Alist backend (`alistbackend/`) | path -> size and deadline, a mutex; files on a remote server | `Write`, `Edit`, `Read`, listing, `Remove`, `CleanupExpired`, `CleanupAllExpired` | reservation before upload, release on failure, lost answers, overlapping writes of one path | the booked quota holds and does not leak; a record never expires before its file |

### Requests

| part | state | operations | what is hard | what makes it correct |
|---|---|---|---|---|
| guidance collector (`connector_guidance.go`) | FIFO, a mutex | `Push` by the tool, `Pop` and `MergeGuidance` by the stream | matched by position although finds run in parallel, fail, or have no guidance | a result gets its own guidance |
| connector tools (`connector.go`) | none | find, execute; slimming of tool lists, capping of results | an answer that is lost after the action was done; budgets, runes, empty, unreadable and refused answers, schemas that do not parse | what the model is told of a call is so; a result is within the budget, with true counts; the parameters of a tool are shown |
| billing (`billing/middleware.go`) | none here, a balance outside | `CheckBalance`, tool, `Record` | check and record are two calls; a failure returned as content counts as success | a charge is for work done, once; an overdraft needs a race |
| HTTP chain (`httpserver/middleware.go`, `envelope.go`) | per request: the status recorded, whether the header was written | request id, recover, access log, `WriteError` | a panic at any point of a response, a flush before the first write | the client is told how it ended; the record tells what was sent |
| stream termination (`httpserver/stream.go`) | none | `EmitStreamErrorContent`, `EmitStreamDone` | two ways to the same body, one of them buffered | every stream is read to its end |
| chat and SSE (`chat.go`) | none | framing, flushing, texts, prompts, ids | as above; ids from the clock | as above; ids differ |
| repeated questions (`repeated.go`) | none | search of a history, replay of an answer | the first earlier occurrence may be unanswered; a turn may say something before its answer; a client may send a tail of its history | what is replayed was said to the same question |
| delegation (`delegation/`) | none | one HTTP call to a sibling | the sibling may refuse, fail, panic before or after its answer | an answer is reported if and only if there was one |
| identity, envutil | none | context values; environment variables | - | - |

### How they interact

The agent runner (Eino, outside `src/`) calls tools through
`PolicyMiddleware.WrapInvokableToolCall`, or through a tool wrapped by the
decorator. The gate may end the execution with `compose.Interrupt`; the runner
then saves a checkpoint, and a later request resumes the call with the human's
answer. Billing and the connector tools sit behind the gate. The file backends
sit behind the context middlewares and are called by the same parallel tool
calls, and by the cleanup goroutine. Everything reads the identity from the
context. The state shared between goroutines is: the registry and the throttle
(`PolicyGate`), the checkpoint stores (`CheckpointStore`), the local and remote
files with their maps (`LocalBackend`, `AlistBackend`), and, within one request, the
guidance FIFO and the balance (`AgentRun`).

A chat completion comes in through `httpserver.Chain`. Its handler (in the agents,
outside `src/`) refuses it with `WriteError`, replays the answer of a repeated
question, or builds the model's input and starts a run. The run's tool calls work in
parallel; their results reach the stream as events, where guidance is popped and
merged. A delegation is a chat completion of a sibling, whose response
`HTTPDelegateTool` reads.

`PROJECT.json` lists the hazards at their lines, with the property that covers
each, or why none does.

## 2. Modules

| module | models | role |
|---|---|---|
| `AgenticAccess` | `policy.go`, `risk.go`, the pure part of `hitl.go` | operators: defaults by verb, `Resolve` with its patch, `HitlEscalates`, `ClassifyRisk`, `ShouldInterrupt` |
| `PolicyResolution` | a policy declared, resolved, published as YAML and resolved again | every declaration and verb |
| `SignOffGate` | abstract: what the policy layer promises about sign-off | refined by `PolicyGate` |
| `PolicyGate` | `middleware.go`, `decorator.go`, `hitl.go`, `registry.go` | concurrent tool calls |
| `PolicyProofs` | - | theorems about `PolicyResolution` and `PolicyGate` |
| `CheckpointStore` | both stores of `checkpoint.go`, driven by the same calls | the memory store compared with the durable one |
| `CheckpointStoreProofs` | - | theorems about `CheckpointStore` |
| `FileSizes` | the sums that `totalBytesLocked` and `reserve` compare with a quota | an operator of both backends |
| `SetLemmas` | - | lemmas about finite sets: least and greatest numbers, sums over files |
| `LocalBackend` | `localbackend/backend.go`, the goroutine of `contextmw.go` | tool calls, cleaner, restarts |
| `LocalBackendProofs` | - | theorems about `LocalBackend` |
| `AlistBackend` | `alistbackend/backend.go` | goroutines, the index, the remote server |
| `AlistBackendProofs` | - | theorems about `AlistBackend` |
| `Session` | `repeated.go`, the conversation helpers of `chat.go` | the turns of one chat session |
| `SessionProofs` | - | theorems about `Session` |
| `ConnectorPayload` | the pure part of `connector.go` | what the model is shown of a sidecar answer |
| `ConnectorPayloadProofs` | - | theorems about `ConnectorPayload` |
| `HttpChain` | `httpserver/`, the SSE helpers of `chat.go` and `repeated.go`, how `delegation.go` reads a response | one response: operations and middlewares |
| `AgentRun` | `connector_guidance.go`, the effects of `connector.go`, `billing/middleware.go`, `delegation.go` | parallel tool calls of one run |
| `ChatRequest` | the handler between them | composes `HttpChain` and `AgentRun` |
| `ChatRequestProofs` | - | theorems about `ChatRequest`: the response, the charges, and what reaches the client and the supervisor |
| `MCPolicy` | - | `PolicyResolution` and `PolicyGate` in one run |
| `MCRequests` | - | `ChatRequest`, `Session` and `ConnectorPayload` in one run |
| other `MC*` | - | values of the constants for TLC |

### PolicyGate

A call is one goroutine with a program counter. It is at `enter` when the
endpoint begins, `gate` after the subject check, `decide` between
`LastInterrupt` and `ShouldInterrupt`, `prompt` between `ShouldInterrupt` and
`Record`, `authz` before the authorizer, `run` in the tool; it ends `done`,
`denied`, `rejected` (the human said no), `blocked` (the decorator) or
`interrupted`, from which `Resume` runs the endpoint again from its first line
with an answer, or with no data for this call. `lastSeen` is the throttle's map;
`seen` is the local variable `last` of a call. `trail` is the set of verdicts the
execution handed to the auditor. `env` is the deployment: whether HITL and
authorization are enforced.

The decorator shares the actions: `GateDecorator` replaces the branch with risk
and throttle. Two values are left to chance where the code takes them from
outside: the preference getter and the triggers in the context. Policies are
built with the same `Resolve` that `PolicyResolution` checks.

### CheckpointStore

Each call is applied to both stores in one step, which is exact for each of them:
the memory store holds its mutex throughout a call, the durable one runs one
statement. `users` and `lost` are history: which owners an id was used by, and
which ids a restart or a failed statement set the stores apart on. `BindOwner` binds in memory and
does nothing in Postgres, as in the code. A statement that fails is an action of its own
(`SetFails`, `DeleteFails`): the memory store has the call, the table has not, and the id
counts as lost. `consumed_at` is read by the queries
and written by nothing in the repository; it is NULL throughout.

### LocalBackend

One action per system call on the expiry path, since the code holds no lock
there: `CheckFile` is the `os.Stat` of `expireIfNeeded`, `Unlink` its `os.Remove`,
`UnlinkFails` the case that the removal fails, whose error the code drops, and
`Untrack` the locked delete from the map. `Write` is `LockAndStat`, `Measure` (the
walk that sums the namespace), `Truncate` and `Fill` (the two effects of
`os.WriteFile`), with `WriteFails` for the system calls that may fail. `Edit` is a
fetch followed by a write. The listing operations and the cleaner are walks over a
set of paths; `Sweep` is the cleaner's locked pass over the map. `since` is when a
goroutine last looked at an age. `Restart` empties the map and every goroutine;
the disk stays, a truncated file included.

### AlistBackend

Each access to the index is one step under the mutex. A remote call is a step of
its own with three outcomes where the code can see three: it takes effect and
answers, it fails, or it takes effect and its answer is lost. `Reserve` is
`reserve` with the `expireLocked` it begins with. A file on the server carries the
deadline its own writer reserved for, so that a record can be compared with the
file it stands for. `untold` is history: the files a removal took without the
index being told. `StartContextCleanup` is a no-op for this backend, so its cleanup is
whatever worker an application runs, and no fairness is assumed of it. The server is external; it
is modelled from the calls the
backend makes.

### HttpChain

A response is what the client has (`status`, `body`) beside what `statusRecorder`
took down (`recorded`, `wroteHeader`), the handler's `bufio.Writer` (`buffer`) and the
`X-Request-Id` header. The operations are functions of it, composed as the code
composes them: `EmitDelta` writes to the buffer, flushes it through the recorder, and
flushes `net/http`; `EmitStreamErrorContent` goes past the buffer. `net/http` is external
and modelled by what it does: the first status stands, a write or a flush sends 200
when none was sent. `RecoverError` writes to the writer outside of the recorder and
without the inner context. A body is a sequence of frames; their JSON is left out.
`DelegateReads` is the other end of a non-streaming response.

### AgentRun

A call has a program counter: `check` before `CheckBalance`, `invoke` before the tool,
`sidecar` while the connector's sidecar has an execution, `record` before `Record`, `report`
before its result becomes an event, and it ends
`answered` or `errored` (a Go error, which ends the run after the turn). Each step is
one call the code makes to something shared: the balance, the sidecar, the sibling,
the queue. `served` and `charged` are history: whether the work was done, whoever heard, and
the charges for it. `connector.go:222-223` says how the sidecar bills: `Execute` is its
`CheckBalance`, `Perform` the action with its `Record`, and other charges may come between.
An execution the agent gave up waiting for is settled before its call reports. `balance` is kept
by `plano-usage`, outside; every charge is 1. `OtherCharge` is another session of the actor,
or a sibling it delegated to. `queue` and `events` are the two queues between the
tools and the stream, and the point of `GuidanceIsOwn` is that they are two.

Nothing is assumed of the model: it may issue any tools in any order, the same ones in
parallel and again. What the code owes it is the truth about a call, which it does
not always get: an execution whose answer was lost is reported as failed (section 4).

### ChatRequest

The handler as the helpers ask to be used: `WriteError` before anything was written, one
`EmitDelta` per result, one of the endings of `HttpChain`. `Panic` may happen between
any two of its steps and after the last one. `Serve` may flush the headers of a stream before
there is content, which is what an SSE handler does; one that answers in one piece has
no reason to. The run goes on when the handler is gone.

### Session

Texts are sequences of tokens (words in either case, space, punctuation), so
`NormalizeQuestion` is computed step by step as in the code: lower case, trim,
collapse, strip. Contents are strings, typed parts or none. `Ask` sends the history or any
tail of it: `repeated.go:15-19` says clients resend the history, `chat.go:184-187` that they
no longer do, and a tail is what both leave open. `given` is history: which question a turn was
asked, whether in plain text, the first thing said in it and the last. A turn may leave a text
beside its tool call, with or without an answer after it. The prompt is built in the three ways
the helpers offer.

### ConnectorPayload

A JSON value is a tree, a function from the paths of its nodes to what is there, with the
sizes of their encodings. `CapArrays`, a recursion in the code, is one expression over paths:
a node stays if on the way to it no array longer than the limit is entered beyond the
limit, and each such array that stays gets its marker. `SlimConnectorArrays` is the loop over
limits. A raw result is a value, its length and the
width of its runes (0 for data in which no byte starts one): `CapConnectorResponse` cuts
at the last rune start within the budget and adds a note (`NoteSize`). A refusal is an answer
with a status of 400 or more, whose body `ShowFailure` shows whole, inside an error and a hint
(`HintSize`). A tool's schema is readable or not. The properties restate what the model may
rely on (`Shows` compares a slimmed value with the original), not the algorithm.

## 3. Runs

| run | question | answer |
|---|---|---|
| `policy` | every declared policy, every verb, resolved and republished; two calls interleaved through both entries, interrupts and resumes, a moving clock | policies are complete (`ResolutionTypeOK`), stable, never laxer for a mutating verb, a dead gate only where no declared trigger is known; the audit trail matches the outcome, a refusal stands, prompts come closer than the cooldown only through the race between read and record, the gate implements `SignOffGate` |
| `approved_asked_again` | is an approved call put to the human again? | yes: finding 1 |
| `checkpoint_store` | what do the stores agree on, who may end a row? | a sole user reads the same from both; only the owner ends a row |
| `checkpoint_contract` | have both stores the same ownership contract? | no: finding 2 |
| `local_backend` | quota, expiry and the map under a tool call, the cleaner and restarts | the quota is exceeded by less than one file; Read serves what was live when it looked; a fresh file is reaped only if rewritten after the look; the map does not leak |
| `local_backend_live` | do expired files go, do operations return? | yes, unless the process restarts or the removal fails for ever |
| `local_backend_reap` | is only what has expired removed? | no: finding 3 |
| `alist_backend` | the booked quota, its leaks, the order of deadlines | they hold, through lost answers, overlapping writes and restarts |
| `requests` | may a client, a supervisor, the access log, the balance and the model rely on what they are told? | yes, with the exceptions the properties spell out: see below |
| `alist_expired_forgotten` | does every expired file leave the index by being removed? | no: finding 4 |
| `stream_without_done` | does every stream end with `[DONE]`? | no: finding 5 |
| `preamble_replayed` | is what is replayed the answer of the earlier turn? | no: finding 6 |

`requests` has three parts in one state space (the constants of the modules are
apart, and a behaviour moves in one part only):

* the chat part. Streams: a stream that did not panic begins with every result taken
  from the run, once and in order, and is read to its end (`StreamReadToItsEnd`), a delegate hears
  an answer if and only if there was one
  (`DelegateHearsTheAnswer`), a panic loses no result and is followed by an envelope with the
  id of the request (`PanicLosesNoResult`), the record has the status sent unless headers were
  flushed early (`RecordHasTheStatus`), and every request the handler sees ends, an event stream
  with its `[DONE]` (`EveryResponseTerminated`). The last has two exceptions, in which a client is
  left waiting: a panic after the stream began (finding 5), and a handler that calls
  `WriteError` after it flushed the headers of the stream. `StreamReadToItsEnd` has the
  second of them too. Tools: `GuidanceIsOwn` finds the two ways
  a card can show foreign guidance, one more than the comment of `GuidanceCollector` knows;
  `ChargedForWork` and `OverdrawnOnlyIfRaced` give the only ways a call is charged for nothing or
  overdraws. Each of the excused cases does occur in the run.
* the session part: what is replayed is the first thing said to that question in plain
  text (`ReplayAnswersSameQuestion`), which need not be its answer (finding 6), and a known
  answer is paid for again only when the first occurrence went unanswered
  (`AnsweredTwiceOnlyIfFirstUnanswered`).
* the payload part: `ResultWithinBudget` is about executions that succeeded and leaves the note
  after a cut out of the budget, as the code does; refusals are shown whole. `CountsAreTrue`.
  `ToolsCanBeCalled` is about tools whose schema can be read; the others are shown without any. A
  name that
  a schema requires twice is listed twice, as the schema has it.

The two runs after it are the same state space with one property each, which a comment
states and the code does not keep. `policy` has two parts in the same way (`MCPolicy`).

### Bounds, and why they are enough

* `policy`, the resolution: exhaustive, all declarations over the constants of the
  package, a misspelt value and the empty one, all verbs.
* `policy`, the gate: two calls and two actors, since every throttle property is about
  a pair; one tool, registered or not, so that the registered, the declared and
  the default policy all occur, one always gated and safety-critical, one gated on
  a trigger and unaudited. The cooldown is 2 and the clock ends at 3, so that a
  prompt can be recent, and can be a whole cooldown back. Deployments are
  everything enforced and nothing enforced; the two switches act on different
  steps of a call. The proofs cover all values of these constants.
* `checkpoint_store`: an id is all the stores relate, so one id; two users and a
  request without an actor; time for two expiries (TTL 2, clock to 5).
* `local_backend`: the quota can be passed only if another file fills the
  namespace and the new content is larger than the old, hence two files and sizes
  1 and 2 with both limits 2; TTL 2 and a clock to 3, so that a file is fresh, due,
  and rewritten when due. One tool call at a time beside the cleaner: two tool
  calls contend for the mutex only within `Write`, which excludes them; the pairs
  that race are a write and an expiry, and the cleaner is one of them.
  `local_backend_live` has two tool calls, for starvation.
* `alist_backend`: two goroutines, two files in different namespaces, sizes 1 and 2
  under a limit of 2, TTL 1, clock to 3; the goroutines are interchangeable, and
  only safety is checked under that symmetry.
* `requests`: two calls, which may be of one turn or of two, since guidance and
  charges relate pairs (an unguided find and one of the next turn; two finds in one
  turn; two billed calls on one balance); balances 1 and 2
  and one foreign charge, so that a balance is left, spent or spent by somebody else.
  Three turns of a session: a question, what came of it, and its repetition, with another
  question between. Values have arrays of up to five items nested to depth three under a
  budget of 14 and limits 3, 2, 1 (20, 10, 5, 3, 1 and 6144 in the code), so that every
  limit is the first that fits for some value and none fits for others; runes are up to
  four bytes wide. The note and the hint take 2 bytes, which tells a cut with its note from one
  without; a refusal may be longer than the budget, a tool may require a name twice, and a
  schema may be unreadable. The proofs cover all numbers of calls and all balances.
* `MaxTime` bounds every clock in the guard of `Tick`, and nothing else.

`CHECK_DEADLOCK FALSE` is given where the model really may stop: when every call
has ended and the clock is at its bound. Where it is absent some operation can
always begin.

### Fairness

Weak fairness on the steps of a goroutine: the Go scheduler runs it, system calls,
the authorizer and the tool return (they are given contexts and timeouts by their
callers). In `LocalBackend` the steps that take the mutex are strongly fair:
`sync.Mutex` hands itself to a waiter that has starved for a millisecond, so a
goroutine for which the mutex is free infinitely often gets it. `StartCleanup` is
weakly fair because of the ticker. `PolicyGate` states the same
of a call, and no property of its runs depends on it. Nothing obliges an agent to call a tool, a
human to answer, a clock to move or a process to restart, and no property assumes
it. In `ChatRequest` the chain, the handler, the runner and each call are weakly fair: they are
goroutines, and the model, the sidecar (30 s), the sibling (90 s) and the tools answer
or time out. Nothing obliges anybody to panic or to charge. The properties of the session
and of the payloads need no fairness. `ExpiredFileGoes` excuses a process that restarts for ever:
each restart stops
the cleaner before its walk. It also excuses a file whose removal fails infinitely often: the
file system may refuse for ever, and the code only tries again.

## 4. Findings

1. `policy/middleware.go:88-90` says a resumed call passes before the normal HITL
   gate is evaluated again. Only a rejected one returns early. An approval that
   takes longer than the cooldown (for a high-risk tool) leads to a second prompt,
   and so on without end.
2. `checkpoint.go:40-41` says the memory store has the ownership contract of the
   durable store. In memory the last `BindOwner` wins, whatever the context of
   `Set`; in Postgres the owner of the first `Set` keeps the row.
3. `localbackend/backend.go:287-291` looks at the age of a file and removes the name
   afterwards. A file rewritten in between is removed while fresh, after its `Write`
   returned nil. `FreshReapedOnlyIfRaced` shows that this race is the only way.
4. `alistbackend/backend.go:457`: `expireLocked`, which every `Write` runs, drops the
   expired records of every namespace without removing the files. No cleanup finds
   them any more, they are outside the quota, and they can be read again.
5. `httpserver/stream.go:15-19` says every stream ends with `[DONE]` and that clients hang without
   it. A stream whose handler panics after a chunk gets an envelope and no `[DONE]`.
6. `repeated.go:56` says the prior answer is replayed. It is the first text after the question
   (86): where the model said something beside its tool call, the answer is never replayed.

Divergences met on the way for which no run is kept:

* `policy/policy.go:64` calls the audit requirement one on each invocation; a resumed call that
  the human rejected returns at `middleware.go:93` before any record.
* `policy/risk.go:30-35` puts "conditional + read" in a lower class than the code does, and line 4
  has high-risk calls "always interrupt", which the throttle may keep from happening.
* `localbackend/backend.go:311-312` says operations enforce the TTL; `Edit` reads the file at 164
  without looking at its age, and writes expired content back as fresh.
* `httpserver/middleware.go:173-174` says the write after a mid-stream panic is a no-op for the
  body; the envelope is appended to it, after `[DONE]` as the case may be.
* `httpserver/middleware.go:102` promises one record per request; it is written after the handler
  returns, not in a `defer`, so a panic leaves none.
* `httpserver/middleware.go:48-50` says `http.Hijacker` is passed through, and it is not.
* `connector.go:255` tells the model that the call failed and to retry, for every error, the loss
  of the answer included: then the action was done and charged for.
* `connector.go:289` says the cap is on what the model is returned of an execution; the body of an
  HTTP error is in the error whole (84), which is returned without it (254).
* `connector.go:299-300` says that on any parse error the payload is passed on unchanged; a schema
  that does not parse is answered with no parameters (350-352), required ones too.
* `connector_guidance.go:19-23` calls two parallel finds the only imperfect case; a find without
  guidance also takes the guidance of the next one when the stream is a turn behind.
* `chat.go:169` says `PrefixLatestUserMessage` adds context, and it replaces the message.
* `chat.go:199` makes ids from the clock: two requests in one tick share one.
* An error that `EmitStreamErrorContent` wrote as content is replayed when the question is repeated.

## 5. What is proved

The theorems are for every value of the constants, from the assumptions in the
modules that declare them, and TLC evaluates those on every run.

**PolicyResolution** (no constants: TLC visits every state, and the theorems say why they are
sound). `ResolutionInv` is that an effective policy is what `Resolve` made of what is declared.
`ResolutionTypeCorrect`, `ResolutionStable`, `ResolutionWriteVerbNeverLaxer` and
`ResolutionWriteGateCanFire` follow from it by lemmas about `Patch`: it fills every field
(`PatchComplete`), what it fills it does not fill again (`PatchTwice`), and what the write default
fills in gates no less than what the read default does (`WriteFillsMore`).

**PolicyGate** (assumptions: deployments, policies, actors, firings and times have
their types; no bound on the number of calls, actors or tools, or on the cooldown).

* `TypeCorrect`: `TypeOK` is inductive.
* `ThrottleSound`: `ThrottleInv` is inductive with `TypeOK` and `IdleInv`. The latter,
  that a call not yet invoked has read nothing, was answered nothing and has an empty
  trail, is needed because `Invoke` changes a call's actor, about which `ThrottleInv`
  compares what the call read.
* `PromptsSpaced`: the action property `PromptsSpacedUnlessRaced` follows from
  `ThrottleInv`: who prompts had read nothing or a time a cooldown back, so a prompt
  within the cooldown means the throttle was written after that read.
* `TrailSound`: from `TrailInv`, which gives the exact trail at each location;
  `TrailMatchesOutcome` alone says nothing of the locations passed on the way, and
  is not inductive.
* `RefusalHolds`: `RefusalStands` is inductive with `TypeOK` and `IdleInv`.
* `GateImplementsSignOff`: the refinement. `GateInv` adds `EntryInv` (only the middleware
  reads the throttle) to the above. The step that matters is the clearing of a call
  that must be signed off: `ObservedIsRecent` derives from `ShouldInterrupt` and
  `ThrottleInv` that the throttle still holds a prompt within the cooldown, although
  the call decided on what it had read before.

**CheckpointStore** (assumptions: complete owners are owners, `Nothing` is no state,
the TTL is positive).

* `StoreTypeCorrect`: `TypeOK` is inductive.
* `RowsKeepTheirOwner`: the action property `OnlyOwnerEndsRow`, step by step.
* `StoresAgree`: `SoleUserReadsTheSame`, from `AgreeInv`. That the answers agree is not
  inductive: the stores must hold the same state and the same expiry, and what the
  memory store has dropped must be past its expiry in the table.

**LocalBackend** (assumptions: `Cleaner` and `Nobody` are not calls, there is a file, sizes
and limits are numbers; no bound on goroutines, files, sizes or the ttl).

* `LocalTypeCorrect`: `TypeOK` is inductive. Its last conjunct is the mutual exclusion of
  `Write`s: a goroutine is between `Lock` and the end of `Write` if and only if it holds the
  mutex. `LockKept` and `LockReleased` do that part for every step.
* `LocalFreshReapedOnlyIfRaced` and `LocalReadServesLive`: action properties about an age that
  was looked at before it is acted upon. `Aged` carries the look to the act: the file a
  goroutine is about to remove is overdue or younger than the look, and the file a `Read`
  is about to open was live at the look. What other goroutines do in between keeps it
  because every step leaves a file as it is or makes it as young as the clock (`NextYounger`).
* `LocalExpiresTracksDisk`: inductive with `Filling`, that a `Write` whose truncated file was
  removed before it is filled has a goroutine yet to wait for the mutex: `Fill` then books an
  expiry for a file that is not there, and that goroutine will delete it.
* `LocalQuotaOvershootBounded`: `QuotaOvershootBounded` is inductive with `Room`, which carries
  what a `Write` found to what it fills in: its file is as it was at the `Stat`, or it was
  reaped since, and then the namespace had room for it before the reaping; after the
  quota check the sum without what is about to be truncated fits the new content. Files
  that others reap only make the sum smaller (`FewerBytes`). That the disk holds finitely
  many files is part of the invariant and not assumed.

**AlistBackend** (assumptions: sizes and limits are numbers, there is a file, every file has a
namespace; no bound on
goroutines, files, sizes or the ttl).

* `AlistTypeCorrect`: inductive with `Sized`, that a write has the size it was asked for from its
  reservation on, since that is what it books.
* `AlistDeadlineCoversFile`: inductive with `JobCovered`: while a write is under way its record, if
  there is one, is due no earlier than what it will upload. Overlapping writes of a path
  replace each other's records, but only by later deadlines.
* `AlistBookedFilesExist`: inductive with the types. A goroutine that reserves a file stays at it
  until the server has it or the record is gone, one that removes a file comes back to book
  it out or is among the `untold`, and nobody else's step makes it leave (`HeldByOthers`).
* `AlistQuotaRespected`: inductive with the types and the finiteness of the index. `Reserve`
  decides on the sum without the record it replaces and under the mutex in which it puts
  the new one (`SumOfPut`); every other step at most drops records (`SumOfDrop`).

**FileSizes.** The quotas are about sums over a set of files, a recursive function.
`SetLemmas` gets the induction they need from the well-foundedness of strict
inclusion on the subsets of a finite set, as a minimal counterexample
(`MinimalSubset`): the function that `MapThenSumSet` chooses exists and is unique, a sum
is split at any of its files, and is the larger the more files there are. Both backends
cite `SumOfSplit`, `SumOfFewer` and `SumOfWritten`.

**ChatRequest** (assumptions: the bounds are numbers, balances are numbers, the sidecar's
tool is not billed by the middleware, a request id is not the empty one; no bound on the
number of calls, the balances or which other tools are billed).

* `ChatTypeCorrect`: `ChatTypeOK` is inductive; the queues hold calls because `Push` is
  given a call and events come from calls.
* `RunSound` is the invariant about the run: `CallsSound` gives for each location of a
  call what it has been charged and what its content can be, `Ahead` that calls not yet
  issued are idle. `ChatChargedForWork` follows from it, and is not inductive itself, since it
  says nothing of a call on its way.
* `ChatOverdrawnOnlyIfRaced`: the action property, from `RunSound`, which keeps what a call saw
  at its check positive until it is recorded, the sidecar's check of an execution included.
* `RequestSound` is the invariant about the response. `Sound` ties what the recorder took
  down to what was sent: a header is written if and only if there is a body, an unflushed
  response was recorded as sent, a status other than 200 stands over envelopes only, and
  every envelope has the id of the request. Around it, a response is open (no status, or
  200) until the handler has returned, and written when it has.
  `ChatRecordHasTheStatus` follows from it and holds however the handler is interrupted.
* `ChatPanicLosesNoResult`: `KeptSound` says that every result taken is in the body at its
  place from the moment it was taken, whatever is written after it, and nothing waits in a
  buffer between steps; with `RequestSound` for the envelope.

**ChatRequest, delivery** (the same assumptions; no bound on calls, turns or foreign charges).

* `ChatDelegateHearsTheAnswer`: the property speaks of the end only. `ReplySound` says what a
  response without a stream is on its way there: nothing yet, one completion that stands
  first under a 200 with nothing but envelopes after it (`Answered`), or envelopes under an
  error status (`Failed`). A panic between any two steps leads from one to another, never
  from `Failed` to `Answered`.
* `ChatStreamReadToItsEnd`: two halves. `StreamSound` is the shape of the body: as many
  results as were taken and each at its position while streaming, then frames that are
  neither results nor the end, then `[DONE]`. `RunDelivers` is what the run owes the stream:
  an answered call is among the events or was taken, and between turns every call is
  answered; so when the run has finished and the events are used up, every call was taken.
* `ChatGuidanceIsOwn`: `OrderSound` has turns follow one another, and events and queued
  guidance in the order of their turns, no call twice. A search is `Apart` when neither
  excuse of the property applies to it; the searches up to such a one had a turn each and
  guidance each. `PairSound` says that the guidance of such a search waits exactly as long as
  its result. From both, the heads of the two queues belong together when its result is
  taken (`HeadsMatch`). The invariant was checked on the bounds of `requests` and on three calls
  before it was proved.

**Session** (assumption: the number of turns is positive; no bound on it, on the questions or
on the answers; the theorems are about `SessionSpec`, whose steps the session part of
`requests` takes).

* `SessionReplayAnswersSameQuestion`: the property relates what was replayed to what was
  said first in a turn, possibly turns ago, and a replay becomes a turn that may be replayed.
  `Remembered`
  says it of the whole history: the first reply that follows a plain question, whichever tail
  is searched, was the first thing said to it (`FirstSaidIs`). `FindRepeatedQuestion` is a search
  by least index, and the fact
  that makes a replayed replay the same text is that trimming twice is trimming once
  (`TrimSpace` is defined by a least and a greatest index too).
* `SessionAnsweredTwiceOnlyIfFirstUnanswered`: from `Called`, that the model is called only when the
  search found nothing, and what the search finding nothing means for the first
  occurrence.

**ConnectorPayload** (assumptions: the budget and the limits are positive, the limits
decrease, answers are JSON trees or not JSON, with any length and rune width, or refusals of any
length; tools have sets of
properties and lists of required ones; the theorems are about `PayloadSpec`, whose steps the
payload part of `requests` takes).

* `PayloadResultWithinBudget`: a slimmed value was measured, and the longest cut loses less than
  a rune, or the next rune would have fitted (`NextRune`).
* `PayloadCountsAreTrue`: `CapArraysShows`, for trees of any depth, is the lemma: an item that
  is gone although what it is in stayed is beyond the limit of a long array, and that
  array has its marker in the place of the item after the last one kept. The first limit
  that fits is a least index.
* `PayloadToolsCanBeCalled`: by cases on the search: unread, empty, or any list of tools, each
  with a schema that can be read or not.

**Only model-checked**: liveness (`ExpiredFileGoes`, `OperationsReturn`,
`EveryResponseTerminated`), out of the prover's reach together with fairness and ENABLED; and the
runs that expect a violation. Every invariant and every action property a passing run checks
is a theorem.

## 6. What is not modelled

* The contents of files, payloads and messages; globs, regular expressions,
  encodings and the layout of records. Files have sizes, checkpoints are values.
* Redaction of arguments and the auditors' sinks.
* A request to the Alist server that takes effect only after its client has given up:
  an effect comes before the answer, or its loss, is seen. `Remove` of a directory is
  modelled for the directory of a namespace only; listing and globbing change nothing.
* Writes to the registry while calls run: nothing in `src/` does it. Its RWMutex would make
  each `Register` and each `Lookup` one step.
* The agent runner, the human, the authorizer, the SQL server and the Alist server
  are external, and appear as the outcomes the code can see.
* The agents' handlers: `ChatRequest` has what the helpers ask of them. A handler that
  ignores the helpers is not covered. A model that repeats a call is: `AgentRun` lets it issue
  any.
* Client disconnects: a write to a connection that is gone is lost without a trace in
  this code.
* The JSON of chunks, interrupts and envelopes, `GenerateID`, the size and the duration in
  an access record, the tools' descriptions, the environment variables that turn parts off.
* What a delegated sibling does: it is a `ChatRequest` of its own; its charges are `OtherCharge`.
* `WithContextScope` and `BuildContextMiddlewares` choose namespaces and assemble middlewares;
  the namespaces are a parameter of `AlistBackend`.
* `identity` and `envutil` keep no state.

## 7. Plan

Done, in this order: the policy layer with its abstract specification and proofs; the
checkpoint stores with proofs; the local and the remote backend with proofs, the quotas included;
the
request path, from the HTTP chain to the tools, with proofs about the run, the response and
what reaches the client; the session with proofs.

Next:

1. A composition of the gate with the checkpoint store: interrupt, save, restart,
   resume by the same and by another owner.
2. `Get` at a miss, which deletes the owner binding (`checkpoint.go:75-78`), as a property of
   the memory store alone.

The runs are few on purpose; new modules are to share runs where one model can
carry several questions.
