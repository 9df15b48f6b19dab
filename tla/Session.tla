------------------------------ MODULE Session -------------------------------
(***************************************************************************)
(* The turns of one chat session as the agent sees them: the client sends   *)
(* its history, or only the tail of it, the agent replays the answer of a    *)
(* repeated question or hands the conversation to the model, and whatever    *)
(* the client displays becomes part of the history it sends next.           *)
(***************************************************************************)
EXTENDS Naturals, SequencesExt, FiniteSetsExt

CONSTANTS
    Questions,    \* contents a user may send
    MaxTurns      \* bound: questions per session

ASSUME MaxTurnsAssumption == MaxTurns \in Nat \ {0}

-----------------------------------------------------------------------------
(***************************************************************************)
(* Contents and texts.  A text is a sequence of tokens: words, in either     *)
(* case, white space and trailing punctuation.  A content is a text, a list  *)
(* of typed parts, or none (null, or any other JSON value).                  *)
(***************************************************************************)
Space == "_"
Punctuation == "?"
LowerCase(token) == IF token = "HI" THEN "hi" ELSE token

Str(text) == [form |-> "string", text |-> text]
Parts(parts) == [form |-> "parts", parts |-> parts]
NoContent == [form |-> "none"]

TextTypes == {"text", "input_text", "output_text", "bare"}
ImageTypes == {"image_url", "image", "input_image"}

\* The text of every part that has some, concatenated.
MessageText(content) ==
    CASE content.form = "string" -> content.text
      [] content.form = "parts" ->
            FlattenSeq([i \in DOMAIN content.parts |->
                IF content.parts[i].type \in TextTypes
                THEN content.parts[i].text ELSE <<>>])
      [] OTHER -> <<>>

IsPlainText(content) ==
    \/ content.form = "string"
    \/ /\ content.form = "parts"
       /\ \A part \in ToSet(content.parts) : part.type \notin ImageTypes

TrimSpace(text) ==
    LET words == {i \in DOMAIN text : text[i] # Space}
    IN  IF words = {} THEN <<>> ELSE SubSeq(text, Min(words), Max(words))

\* strings.Fields and Join: every run of white space becomes one space.
CollapseSpace(text) ==
    FoldLeft(LAMBDA acc, token :
                 IF token = Space /\ acc # <<>> /\ Last(acc) = Space
                 THEN acc ELSE Append(acc, token),
             <<>>, TrimSpace(text))

TrimRightPunctuation(text) ==
    LET kept == {i \in DOMAIN text : text[i] \notin {Punctuation, Space}}
    IN  IF kept = {} THEN <<>> ELSE SubSeq(text, 1, Max(kept))

NormalizeQuestion(text) ==
    LET lower == [i \in DOMAIN text |-> LowerCase(text[i])]
    IN  TrimRightPunctuation(CollapseSpace(lower))

-----------------------------------------------------------------------------
(***************************************************************************)
(* Messages.                                                                *)
(***************************************************************************)
Message(role, content) == [role |-> role, content |-> content]

\* The nil result: an answer is never blank.
NoAnswer == <<>>

\* m is an earlier user turn that asks what target asks.
Asks(m, target) ==
    /\ m.role = "user"
    /\ IsPlainText(m.content)
    /\ NormalizeQuestion(MessageText(m.content)) = target

\* Mutant: another question in between does not end the search.
ReplyAfter_AnyTurn(messages, i) ==
    LET later == {j \in i + 1 .. Len(messages) :
                     /\ messages[j].role = "assistant"
                     /\ TrimSpace(MessageText(messages[j].content)) # <<>>}
    IN  IF later = {} THEN NoAnswer
        ELSE TrimSpace(MessageText(messages[Min(later)].content))

\* The text of the first reply after position i that has one, unless the
\* next user turn comes first.
ReplyAfter(messages, i) ==
    LET decides(j) ==
            \/ messages[j].role = "user"
            \/ /\ messages[j].role = "assistant"
               /\ TrimSpace(MessageText(messages[j].content)) # <<>>
        later == {j \in i + 1 .. Len(messages) : decides(j)}
    IN  IF later = {} \/ messages[Min(later)].role = "user" THEN NoAnswer
        ELSE TrimSpace(MessageText(messages[Min(later)].content))

\* Mutant: the search starts one message late.
AskedBefore_FromSecond(messages, target) ==
    {i \in 2 .. Len(messages) - 1 : Asks(messages[i], target)}

AskedBefore(messages, target) ==
    {i \in 1 .. Len(messages) - 1 : Asks(messages[i], target)}

\* The inner loop always ends in a return, since the last message is a user's:
\* the first earlier occurrence decides.
FindRepeatedQuestion(messages) ==
    LET n      == Len(messages)
        newest == messages[n]
        target == NormalizeQuestion(MessageText(newest.content))
        asked  == AskedBefore(messages, target)
    IN  IF \/ n < 3
           \/ newest.role # "user"
           \/ ~IsPlainText(newest.content)
           \/ target = <<>>
           \/ asked = {}
        THEN NoAnswer
        ELSE ReplyAfter(messages, Min(asked))

LastUserQuestion(messages) ==
    LET users == {i \in DOMAIN messages : messages[i].role = "user"}
    IN  IF users = {} THEN <<>> ELSE MessageText(messages[Max(users)].content)

\* The conversation as Eino messages: system and unknown roles are left out.
BuildConversationMessages(messages) ==
    LET kept == SelectSeq(messages,
                          LAMBDA m : m.role \in {"user", "assistant", "tool"})
    IN  [i \in DOMAIN kept |->
            [role |-> kept[i].role, text |-> MessageText(kept[i].content)]]

\* The latest user message is replaced by the prefix, which the caller builds
\* around the question.
PrefixLatestUserMessage(prompt, prefix) ==
    LET users == {i \in DOMAIN prompt : prompt[i].role = "user"}
    IN  IF prefix = <<>> \/ users = {} THEN prompt
        ELSE [prompt EXCEPT ![Max(users)].text = prefix]

\* The conversation as one text, here one prompt message: the text of a single
\* message as it is, or the lines of the user and the assistant.
BuildConversationQuery(messages) ==
    LET spoken == SelectSeq(messages, LAMBDA m : m.role \in {"user", "assistant"})
    IN  IF Len(messages) = 1 THEN MessageText(messages[1].content)
        ELSE FlattenSeq([i \in DOMAIN spoken |->
                 <<spoken[i].role>> \o MessageText(spoken[i].content)])

-----------------------------------------------------------------------------
VARIABLES
    history,    \* the conversation on the client
    request,    \* the messages of the request being served, <<>> between turns
    replayed,   \* the answer served from the request's own history, or NoAnswer
    prompt,     \* the messages the model was given for this request
    concept,    \* the question the turn is remembered by
    given       \* the turns so far: what the model said to what question

sessionVars == <<history, request, replayed, prompt, concept, given>>

SessionInit ==
    /\ history = <<Message("system", Str(<<"rules">>))>>
    /\ request = <<>>
    /\ replayed = NoAnswer
    /\ prompt = <<>>
    /\ concept = <<>>
    /\ given = {}

Turns == Cardinality({i \in DOMAIN history : history[i].role = "user"})

\* The client sends a question, with its history or a tail of it.
Ask ==
    /\ request = <<>>
    /\ Turns < MaxTurns
    /\ \E question \in Questions :
          LET sent == Append(history, Message("user", question))
          IN  /\ history' = sent
              /\ \E first \in DOMAIN sent :
                    request' = SubSeq(sent, first, Len(sent))
    /\ replayed' = NoAnswer
    /\ prompt' = <<>>
    /\ concept' = <<>>
    /\ UNCHANGED given

Serving == request # <<>> /\ replayed = NoAnswer /\ prompt = <<>>

\* WriteRepeatedStream or WriteRepeatedResponse: the model is not called.
Replay ==
    /\ Serving
    /\ FindRepeatedQuestion(request) # NoAnswer
    /\ replayed' = FindRepeatedQuestion(request)
    /\ UNCHANGED <<history, request, prompt, concept, given>>

\* As native messages, with memory or without, or flattened into one. A prefix
\* carries the question it replaces.
CallModel ==
    /\ Serving
    /\ FindRepeatedQuestion(request) = NoAnswer
    /\ \/ \E prefix \in {<<>>, <<"memory">> \o LastUserQuestion(request)} :
             prompt' = PrefixLatestUserMessage(BuildConversationMessages(request), prefix)
       \/ prompt' = <<[role |-> "user", text |-> BuildConversationQuery(request)]>>
    /\ concept' = LastUserQuestion(request)
    /\ UNCHANGED <<history, request, replayed, given>>

\* What a turn leaves on the client when the model was called: an answer, alone or
\* after a tool call that came with a text of its own or without, white space only,
\* the error that EmitStreamErrorContent writes as content, or, when the turn was
\* cut off, nothing or the tool call alone.
Fresh == <<"answer", ToString(Turns)>>
Failure == <<"error", ToString(Turns)>>
Aside == <<"let me check", ToString(Turns)>>
ToolResult == Message("tool", Str(<<"result">>))
Outcomes ==
    { <<Message("assistant", Str(Fresh))>>,
      <<Message("assistant", NoContent), ToolResult,
        Message("assistant", Parts(<<[type |-> "text", text |-> Fresh]>>))>>,
      <<Message("assistant", Str(Aside)), ToolResult, Message("assistant", Str(Fresh))>>,
      <<Message("assistant", Str(Aside)), ToolResult>>,
      <<Message("assistant", Str(<<Space>>))>>,
      <<Message("assistant", Str(Failure))>>,
      <<>> }

\* What the assistant said in a turn, first and, to end it, last.
Said(outcome, i) ==
    IF outcome[i].role = "assistant" THEN TrimSpace(MessageText(outcome[i].content)) ELSE <<>>

FirstSaid(outcome) ==
    LET spoken == {i \in DOMAIN outcome : Said(outcome, i) # <<>>}
    IN  IF spoken = {} THEN <<>> ELSE Said(outcome, Min(spoken))

FinalAnswer(outcome) ==
    IF outcome = <<>> THEN <<>> ELSE Said(outcome, Len(outcome))

Display ==
    /\ prompt # <<>>
    /\ \E outcome \in Outcomes :
          /\ history' = history \o outcome
          /\ given' = given \cup {[question |-> NormalizeQuestion(concept),
                                   plain |-> IsPlainText(Last(history).content),
                                   text |-> FirstSaid(outcome),
                                   answer |-> FinalAnswer(outcome)]}
    /\ request' = <<>>
    /\ prompt' = <<>>
    /\ UNCHANGED <<replayed, concept>>

DisplayReplay ==
    /\ request # <<>>
    /\ replayed # NoAnswer
    /\ history' = Append(history, Message("assistant", Str(replayed)))
    /\ request' = <<>>
    /\ UNCHANGED <<replayed, prompt, concept, given>>

SessionNext == Ask \/ Replay \/ CallModel \/ Display \/ DisplayReplay

SessionSpec == SessionInit /\ [][SessionNext]_sessionVars

-----------------------------------------------------------------------------
Newest == request[Len(request)]

\* What is replayed is the first thing the model said in a turn with the same
\* question, asked in plain text: never a text of another turn, of an image turn, or
\* of the question in between (FindRepeatedQuestion).
ReplayAnswersSameQuestion ==
    request # <<>> /\ replayed # NoAnswer =>
        \E turn \in given :
            /\ turn.question = NormalizeQuestion(MessageText(Newest.content))
            /\ turn.plain
            /\ turn.text = replayed

\* The model is called (and paid) for a question whose answer the request already
\* holds only if the request's first turn with that question has no reply: later
\* occurrences are not looked at (FindRepeatedQuestion, case "user").
AnsweredTwiceOnlyIfFirstUnanswered ==
    LET target == NormalizeQuestion(MessageText(Newest.content))
        answered(i) == ReplyAfter(request, i) # NoAnswer
        asked == {i \in 1 .. Len(request) - 1 : Asks(request[i], target)}
    IN  (/\ prompt # <<>>
         /\ target # <<>>
         /\ IsPlainText(Newest.content)
         /\ \E i \in asked : answered(i))
            => \E i \in asked : ~answered(i) /\ \A j \in asked : i <= j

-----------------------------------------------------------------------------
\* What a comment says and the code does not do.

\* "FindRepeatedQuestion returns the prior assistant answer text" (repeated.go:56):
\* what is replayed is the answer a turn with that question ended with.
ReplayedIsTheAnswer ==
    request # <<>> /\ replayed # NoAnswer =>
        \E turn \in given :
            /\ turn.question = NormalizeQuestion(MessageText(Newest.content))
            /\ turn.answer = replayed
=============================================================================
