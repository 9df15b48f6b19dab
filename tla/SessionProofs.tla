---------------------------- MODULE SessionProofs ----------------------------
(***************************************************************************)
(* Theorems about Session, for any questions, asked in any number of turns.   *)
(***************************************************************************)
EXTENDS Session, Integers, SetLemmas, SequenceTheorems

-----------------------------------------------------------------------------
(***************************************************************************)
(* Texts.  What is trimmed stays as it is when trimmed again: a replayed      *)
(* answer is the answer it replays.                                          *)
(***************************************************************************)
IsSeq(s) == \E S : s \in Seq(S)

LEMMA TrimNone == TrimSpace(<<>>) = <<>>
  BY DEF TrimSpace

LEMMA TrimTwice ==
  ASSUME NEW text, IsSeq(text)
  PROVE  IsSeq(TrimSpace(text)) /\ TrimSpace(TrimSpace(text)) = TrimSpace(text)
<1> DEFINE words == {i \in DOMAIN text : text[i] # Space}
           a == Min(words)
           b == Max(words)
           trimmed == SubSeq(text, a, b)
           kept == {i \in DOMAIN trimmed : trimmed[i] # Space}
<1>1. PICK S : text \in Seq(S)
  BY DEF IsSeq
<1>2. Len(text) \in Nat /\ DOMAIN text = 1 .. Len(text) /\ \A i \in 1 .. Len(text) : text[i] \in S
  BY <1>1, LenProperties, ElementOfSeq
<1>3. CASE words = {}
  <2>1. TrimSpace(text) = <<>>
    BY <1>3 DEF TrimSpace
  <2>2. <<>> \in Seq({})
    BY EmptySeq
  <2>3. QED
    BY <2>1, <2>2, TrimNone DEF IsSeq
<1>4. CASE words # {}
  <2>1. words \subseteq Nat /\ words \subseteq 0 .. Len(text)
    BY <1>2
  <2>2. a \in words /\ (\A i \in words : a <= i) /\ b \in words /\ \A i \in words : i <= b
    <3> HIDE DEF words
    <3>1. QED
      BY <1>2, <1>4, <2>1, LeastOf, GreatestOf
  <2>3. a \in 1 .. Len(text) /\ b \in a .. Len(text) /\ text[a] # Space /\ text[b] # Space
    BY <1>2, <2>2
  <2> DEFINE m == b - a + 1
  <2>4. /\ trimmed \in Seq(S) /\ Len(trimmed) = m
        /\ \A i \in 1 .. m : trimmed[i] = text[a + i - 1]
    <3> HIDE DEF a, b
    <3>1. a \in Int /\ b \in Int /\ a <= b /\ \A i \in a .. b : text[i] \in S
      BY <1>2, <2>3
    <3>2. QED
      BY <3>1, SubSeqProperties
  <2>5. m \in Nat /\ m >= 1 /\ a + m - 1 = b /\ a + 1 - 1 = a
    BY <2>3
  <2> HIDE DEF words, a, b, m, trimmed
  <2>6. trimmed[1] # Space /\ trimmed[m] # Space /\ DOMAIN trimmed = 1 .. m
    BY <2>3, <2>4, <2>5, LenProperties
  <2>7. kept \subseteq 1 .. m /\ 1 \in kept /\ m \in kept
    BY <2>5, <2>6
  <2> HIDE DEF kept
  <2>8. Min(kept) = 1 /\ Max(kept) = m
    <3>1. kept \in SUBSET Nat /\ kept \in SUBSET (0 .. m) /\ kept # {}
      BY <2>5, <2>7
    <3>2. Min(kept) \in kept /\ Min(kept) <= 1 /\ Max(kept) \in kept /\ m <= Max(kept)
      BY <2>5, <2>7, <3>1, LeastOf, GreatestOf
    <3>3. Min(kept) \in 1 .. m /\ Max(kept) \in 1 .. m
      BY <2>7, <3>2
    <3>4. QED
      BY <2>5, <3>2, <3>3
  <2>9. TrimSpace(text) = trimmed
    BY <1>4 DEF TrimSpace, trimmed, a, b, words
  <2>10. TrimSpace(trimmed) = SubSeq(trimmed, 1, m)
    BY <2>7, <2>8 DEF TrimSpace, kept
  <2>11. SubSeq(trimmed, 1, m) = trimmed
    BY <2>4, SubSeqFull
  <2>12. QED
    BY <2>4, <2>9, <2>10, <2>11 DEF IsSeq
<1>5. QED
  BY <1>3, <1>4

-----------------------------------------------------------------------------
(***************************************************************************)
(* The reply to a turn, without the search for it.                           *)
(***************************************************************************)
Words(m) == TrimSpace(MessageText(m.content))

Decides(m) == m.role = "user" \/ (m.role = "assistant" /\ Words(m) # <<>>)

\* The message at j is the first after i that decides, and a reply.
Replies(messages, i, j) ==
  /\ j \in i + 1 .. Len(messages)
  /\ messages[j].role = "assistant" /\ Words(messages[j]) # <<>>
  /\ \A k \in i + 1 .. j - 1 : ~Decides(messages[k])

LEMMA ReplyAfterIs ==
  ASSUME NEW messages, Len(messages) \in Nat, NEW i \in Nat
  PROVE  /\ ReplyAfter(messages, i) # NoAnswer => \E j : Replies(messages, i, j)
         /\ \A j : Replies(messages, i, j) =>
                 ReplyAfter(messages, i) = Words(messages[j]) /\ Words(messages[j]) # NoAnswer
<1> DEFINE later == {j \in i + 1 .. Len(messages) : Decides(messages[j])}
<1>1. ReplyAfter(messages, i) =
        IF later = {} \/ messages[Min(later)].role = "user" THEN NoAnswer
        ELSE Words(messages[Min(later)])
  BY DEF ReplyAfter, Decides, Words
<1>2. later \in SUBSET Nat /\ \A j \in later : j \in i + 1 .. Len(messages) /\ Decides(messages[j])
  OBVIOUS
<1>3. \A j \in i + 1 .. Len(messages) : Decides(messages[j]) => j \in later
  OBVIOUS
<1> HIDE DEF later
<1>4. later # {} => Min(later) \in later /\ \A k \in later : Min(later) <= k
  BY <1>2, LeastOf
<1>5. ASSUME ReplyAfter(messages, i) # NoAnswer PROVE Replies(messages, i, Min(later))
  <2>1. later # {} /\ messages[Min(later)].role # "user" /\ Words(messages[Min(later)]) # <<>>
    BY <1>1, <1>5 DEF NoAnswer
  <2>2. \A k \in i + 1 .. Min(later) - 1 : ~Decides(messages[k])
    BY <1>2, <1>3, <1>4, <2>1
  <2>3. QED
    BY <1>2, <1>4, <2>1, <2>2 DEF Replies, Decides
<1>6. ASSUME NEW j, Replies(messages, i, j) PROVE Min(later) = j
  <2>1. j \in later /\ j \in Nat
    BY <1>3, <1>6 DEF Replies, Decides
  <2>2. Min(later) \in i + 1 .. Len(messages) /\ Decides(messages[Min(later)]) /\ Min(later) <= j
    BY <1>2, <1>4, <2>1
  <2>3. QED
    BY <1>6, <2>1, <2>2 DEF Replies
<1>7. QED
  BY <1>1, <1>3, <1>5, <1>6 DEF Replies, NoAnswer, Decides

\* The first of the turns that ask the newest question decides what is found.
LEMMA FoundIs ==
  ASSUME NEW messages, Len(messages) \in Nat, NEW newest, newest = messages[Len(messages)],
         NEW target, target = NormalizeQuestion(MessageText(newest.content)),
         NEW asked, asked = AskedBefore(messages, target)
  PROVE  /\ asked # {} => Min(asked) \in asked /\ \A i \in asked : Min(asked) <= i
         /\ asked \subseteq 1 .. Len(messages) - 1
         /\ FindRepeatedQuestion(messages) =
              IF Len(messages) < 3 \/ newest.role # "user" \/ ~IsPlainText(newest.content)
                 \/ target = <<>> \/ asked = {}
              THEN NoAnswer ELSE ReplyAfter(messages, Min(asked))
<1>1. asked \subseteq 1 .. Len(messages) - 1
  BY DEF AskedBefore
<1>2. asked \in SUBSET Nat
  BY <1>1
<1>3. QED
  BY <1>1, <1>2, LeastOf DEF FindRepeatedQuestion

\* all is messages, and what came after.
Extends(all, messages) ==
  /\ Len(messages) \in Nat /\ Len(all) \in Nat /\ Len(messages) <= Len(all)
  /\ DOMAIN all = 1 .. Len(all)
  /\ \A k \in 1 .. Len(messages) : all[k] = messages[k]

\* A conversation that goes on replies to a turn as it did.
LEMMA RepliesKept ==
  ASSUME NEW all, NEW messages, Extends(all, messages),
         NEW i \in 1 .. Len(messages), NEW j \in 1 .. Len(messages), Replies(all, i, j)
  PROVE  Replies(messages, i, j)
  BY DEF Replies, Extends

\* A tail of the conversation replies to a turn as the conversation does.
LEMMA RepliesInTail ==
  ASSUME NEW S, NEW messages \in Seq(S), NEW first \in 1 .. Len(messages),
         NEW tail, tail = SubSeq(messages, first, Len(messages)),
         NEW i \in 1 .. Len(tail), NEW j, Replies(tail, i, j)
  PROVE  Replies(messages, first + i - 1, first + j - 1)
<1> DEFINE n == Len(messages)
<1>1. n \in Nat /\ first \in Int /\ n \in Int /\ first <= n /\ \A k \in first .. n : messages[k] \in S
  BY LenProperties, ElementOfSeq
<1> HIDE DEF n
<1>2. /\ Len(SubSeq(messages, first, n)) = n - first + 1
      /\ \A k \in 1 .. n - first + 1 : SubSeq(messages, first, n)[k] = messages[first + k - 1]
  BY <1>1, SubSeqProperties
<1>3. Len(tail) = n - first + 1 /\ \A k \in 1 .. n - first + 1 : tail[k] = messages[first + k - 1]
  BY <1>2 DEF n
<1>4. j \in i + 1 .. Len(tail) /\ j \in 1 .. n - first + 1 /\ i \in 1 .. n - first + 1
  BY <1>1, <1>3 DEF Replies
<1>5. first + j - 1 \in first + i - 1 + 1 .. n
  BY <1>1, <1>3, <1>4
<1>6. ASSUME NEW k \in first + i - 1 + 1 .. first + j - 1 - 1 PROVE ~Decides(messages[k])
  <2>1. k - first + 1 \in i + 1 .. j - 1 /\ k - first + 1 \in 1 .. n - first + 1
    BY <1>1, <1>4
  <2>2. first + (k - first + 1) - 1 = k
    BY <1>1
  <2>3. QED
    BY <1>3, <2>1, <2>2 DEF Replies
<1>7. QED
  BY <1>3, <1>4, <1>5, <1>6 DEF Replies, n

-----------------------------------------------------------------------------
(***************************************************************************)
(* The invariant.  Every reply in the history was given to the plain question *)
(* before it, as the model gave it; so what the first occurrence of a         *)
(* question in a tail of the history finds, was.                             *)
(***************************************************************************)
Question(m) == NormalizeQuestion(MessageText(m.content))

\* One of the turns was asked this in plain text, and this is what was said first.
Told(turns, question, text) ==
  \E turn \in turns : turn.question = question /\ turn.plain /\ turn.text = text

Given(question, text) == Told(given, question, text)

Remembered ==
  \A i, j \in DOMAIN history :
     history[i].role = "user" /\ IsPlainText(history[i].content) /\ Replies(history, i, j)
        => Given(Question(history[i]), Words(history[j]))

\* What assistants say are texts.
Spoken ==
  \A i \in DOMAIN history :
     history[i].role = "assistant" => IsSeq(MessageText(history[i].content))

\* The request is a tail of the history, which ends in a question.
Current ==
  request # <<>> =>
    /\ \E first \in 1 .. Len(history) : request = SubSeq(history, first, Len(history))
    /\ history[Len(history)].role = "user"

Replayed ==
  request # <<>> /\ replayed # NoAnswer =>
    /\ prompt = <<>>
    /\ IsSeq(replayed) /\ TrimSpace(replayed) = replayed
    /\ Given(Question(Newest), replayed)

Called ==
  prompt # <<>> =>
    /\ request # <<>> /\ replayed = NoAnswer
    /\ concept = MessageText(Newest.content)
    /\ FindRepeatedQuestion(request) = NoAnswer

SessionSound ==
  IsSeq(history) /\ Remembered /\ Spoken /\ Current /\ Replayed /\ Called

\* The newest message of a request is the last of the history.
LEMMA CurrentIs ==
  ASSUME IsSeq(history), Current, request # <<>>
  PROVE  \E S, first : /\ history \in Seq(S) /\ first \in 1 .. Len(history)
                       /\ request = SubSeq(history, first, Len(history))
                       /\ Len(request) = Len(history) - first + 1
                       /\ Len(history) \in Nat /\ DOMAIN history = 1 .. Len(history)
                       /\ \A k \in 1 .. Len(request) : request[k] = history[first + k - 1]
                       /\ Newest = history[Len(history)] /\ Newest.role = "user"
<1>1. PICK S : history \in Seq(S)
  BY DEF IsSeq
<1> DEFINE n == Len(history)
<1>2. PICK first \in 1 .. n : request = SubSeq(history, first, n) /\ history[n].role = "user"
  BY DEF Current
<1>3. /\ n \in Nat /\ first \in Int /\ n \in Int /\ first <= n /\ DOMAIN history = 1 .. n
      /\ \A k \in first .. n : history[k] \in S
  BY <1>1, LenProperties, ElementOfSeq
<1>4. /\ Len(request) = n - first + 1
      /\ \A k \in 1 .. n - first + 1 : request[k] = history[first + k - 1]
  <2> HIDE DEF n
  <2>1. QED
    BY <1>2, <1>3, SubSeqProperties
<1> HIDE DEF n
<1>5. n - first + 1 \in 1 .. n - first + 1 /\ first + (n - first + 1) - 1 = n
  BY <1>3
<1>6. Newest = history[n]
  BY <1>4, <1>5 DEF Newest
<1>7. QED
  BY <1>1, <1>2, <1>3, <1>4, <1>6 DEF n

\* A reply that comes later is one to the last turn, if no turn came with it.
LEMMA RememberedKept ==
  ASSUME IsSeq(history), Remembered, Extends(history', history), given \subseteq given',
         \A k \in Len(history) + 1 .. Len(history') : history'[k].role # "user",
         NEW n, n = Len(history), history[n].role = "user",
         \A j \in n + 1 .. Len(history') :
            IsPlainText(history'[n].content) /\ Replies(history', n, j)
               => Given(Question(history[n]), Words(history[j]))'
  PROVE  Remembered'
<1>1. SUFFICES ASSUME NEW i \in 1 .. Len(history'), NEW j \in 1 .. Len(history'),
                      history'[i].role = "user", IsPlainText(history'[i].content),
                      Replies(history', i, j)
               PROVE  Given(Question(history[i]), Words(history[j]))'
  BY DEF Remembered, Extends
<1>2. /\ i \in 1 .. n /\ j \in i + 1 .. Len(history') /\ history'[i] = history[i]
      /\ n \in Nat /\ DOMAIN history = 1 .. n
  <2>1. DOMAIN history = 1 .. n
    BY LenProperties DEF IsSeq
  <2>2. QED
    BY <1>1, <2>1 DEF Extends, Replies
<1>3. CASE j <= n
  <2>1. j \in 1 .. n /\ history'[j] = history[j]
    BY <1>2, <1>3 DEF Extends
  <2>2. Replies(history, i, j)
    BY <1>1, <1>2, <2>1, RepliesKept
  <2>3. Given(Question(history[i]), Words(history[j]))
    BY <1>1, <1>2, <2>1, <2>2 DEF Remembered
  <2>4. QED
    BY <1>2, <2>1, <2>3 DEF Given, Told
<1>4. CASE j > n
  <2>1. i = n
    <3>1. SUFFICES ASSUME i # n PROVE FALSE
      OBVIOUS
    <3>2. n \in i + 1 .. j - 1 /\ n \in 1 .. n
      BY <1>2, <1>4, <3>1
    <3>3. Decides(history'[n])
      BY <1>1, <1>2, <1>4, <3>2 DEF Decides, Extends
    <3>4. QED
      BY <1>1, <3>2, <3>3 DEF Replies
  <2>2. QED
    BY <1>1, <1>2, <1>4, <2>1
<1>5. QED
  BY <1>2, <1>3, <1>4

LEMMA SoundInit == SessionInit => SessionSound
<1> SUFFICES ASSUME SessionInit PROVE SessionSound
  OBVIOUS
<1>1. /\ history \in Seq({Message("system", Str(<<"rules">>))}) /\ DOMAIN history = 1 .. 1
      /\ history[1].role = "system" /\ request = <<>> /\ prompt = <<>>
  BY DEF SessionInit, Message
<1>2. QED
  BY <1>1 DEF SessionSound, IsSeq, Remembered, Spoken, Current, Replayed, Called

\* Ask: nobody has replied to a question that was only now asked.
LEMMA SoundAsk == ASSUME SessionSound, Ask PROVE SessionSound'
<1>1. PICK question \in Questions :
        /\ history' = Append(history, Message("user", question))
        /\ \E first \in DOMAIN history' : request' = SubSeq(history', first, Len(history'))
  BY DEF Ask
<1>2. replayed' = NoAnswer /\ prompt' = <<>> /\ given' = given
  BY DEF Ask
<1> DEFINE m == Message("user", question)
           n == Len(history)
<1>3. PICK S : history \in Seq(S)
  BY DEF SessionSound, IsSeq
<1>4. /\ history' \in Seq(S \cup {m}) /\ n \in Nat /\ Len(history') = n + 1
      /\ DOMAIN history = 1 .. n /\ DOMAIN history' = 1 .. n + 1
      /\ history'[n + 1] = m /\ \A k \in 1 .. n : history'[k] = history[k]
  <2>1. history \in Seq(S \cup {m}) /\ m \in S \cup {m}
    BY <1>3, SeqMonotonic
  <2> HIDE DEF m
  <2>2. QED
    BY <1>1, <1>3, <2>1, AppendProperties, LenProperties DEF m
<1>5. m.role = "user"
  BY DEF Message
<1> HIDE DEF m, n
<1>6. IsSeq(history') /\ Extends(history', history)
  BY <1>4 DEF IsSeq, Extends, n
<1>7. Remembered'
  <2>1. SUFFICES ASSUME NEW i \in 1 .. n + 1, NEW j \in 1 .. n + 1,
                        history'[i].role = "user", IsPlainText(history'[i].content),
                        Replies(history', i, j)
                 PROVE  Given(Question(history[i]), Words(history[j]))'
    BY <1>4 DEF Remembered
  <2>2. j \in i + 1 .. n + 1 /\ j # n + 1
    BY <1>4, <1>5, <2>1 DEF Replies
  <2>3. i \in 1 .. n /\ j \in 1 .. n /\ history'[i] = history[i] /\ history'[j] = history[j]
    BY <1>4, <2>2
  <2>4. Replies(history, i, j)
    BY <1>6, <2>1, <2>3, RepliesKept DEF n
  <2>5. Given(Question(history[i]), Words(history[j]))
    BY <1>4, <2>1, <2>3, <2>4 DEF SessionSound, Remembered
  <2>6. QED
    BY <1>2, <2>3, <2>5 DEF Given, Told
<1>8. Spoken'
  BY <1>4, <1>5 DEF SessionSound, Spoken
<1>9. Current'
  BY <1>1, <1>4, <1>5 DEF Current
<1>10. QED
  BY <1>2, <1>6, <1>7, <1>8, <1>9 DEF SessionSound, Replayed, Called

\* Replay: the reply to the first occurrence in the request is one in the history.
LEMMA SoundReplay == ASSUME SessionSound, Replay PROVE SessionSound'
<1>1. /\ request # <<>> /\ prompt = <<>> /\ FindRepeatedQuestion(request) # NoAnswer
      /\ replayed' = FindRepeatedQuestion(request)
      /\ UNCHANGED <<history, request, prompt, given>>
  BY DEF Replay, Serving
<1>2. PICK S, first : /\ history \in Seq(S) /\ first \in 1 .. Len(history)
                      /\ request = SubSeq(history, first, Len(history))
                      /\ Len(request) = Len(history) - first + 1
                      /\ Len(history) \in Nat /\ DOMAIN history = 1 .. Len(history)
                      /\ \A k \in 1 .. Len(request) : request[k] = history[first + k - 1]
                      /\ Newest = history[Len(history)] /\ Newest.role = "user"
  BY <1>1, CurrentIs DEF SessionSound
<1> DEFINE target == NormalizeQuestion(MessageText(Newest.content))
           asked == AskedBefore(request, target)
           i == Min(asked)
<1>3. Len(request) \in Nat /\ Newest = request[Len(request)]
  BY <1>2 DEF Newest
<1>4. /\ i \in asked /\ asked \subseteq 1 .. Len(request) - 1
      /\ FindRepeatedQuestion(request) = ReplyAfter(request, i)
  <2> HIDE DEF asked, target
  <2>1. /\ asked # {} => Min(asked) \in asked
        /\ asked \subseteq 1 .. Len(request) - 1
        /\ FindRepeatedQuestion(request) =
              IF Len(request) < 3 \/ Newest.role # "user" \/ ~IsPlainText(Newest.content)
                 \/ target = <<>> \/ asked = {}
              THEN NoAnswer ELSE ReplyAfter(request, Min(asked))
    BY <1>3, FoundIs DEF asked, target
  <2>2. QED
    BY <1>1, <2>1
<1>5. Asks(request[i], target)
  BY <1>4 DEF AskedBefore
<1> HIDE DEF i, asked
<1>6. i \in 1 .. Len(request) - 1 /\ i \in Nat /\ i \in 1 .. Len(request)
  BY <1>3, <1>4
<1>7. PICK j : Replies(request, i, j) /\ ReplyAfter(request, i) = Words(request[j])
  BY <1>1, <1>3, <1>4, <1>6, ReplyAfterIs
<1> DEFINE a == first + i - 1
           b == first + j - 1
<1>8. Replies(history, a, b)
  BY <1>2, <1>6, <1>7, RepliesInTail
<1>9. j \in 1 .. Len(request) /\ a \in DOMAIN history /\ b \in DOMAIN history
  BY <1>2, <1>6, <1>7 DEF Replies
<1>10. request[i] = history[a] /\ request[j] = history[b]
  BY <1>2, <1>6, <1>9
<1> HIDE DEF a, b
<1>11. Given(target, Words(history[b]))
  BY <1>5, <1>8, <1>9, <1>10 DEF SessionSound, Remembered, Asks, Question
<1>12. IsSeq(MessageText(history[b].content))
  BY <1>8, <1>9 DEF SessionSound, Spoken, Replies
<1>13. replayed' = Words(history[b])
  BY <1>1, <1>4, <1>7, <1>10
<1>14. Replayed'
  BY <1>1, <1>11, <1>12, <1>13, TrimTwice DEF Replayed, Given, Question, Newest, Words
<1>15. QED
  BY <1>1, <1>14 DEF SessionSound, Remembered, Given, Spoken, Current, Called

\* CallModel: the question is the newest message of the request.
LEMMA SoundCallModel == ASSUME SessionSound, CallModel PROVE SessionSound'
<1>1. /\ request # <<>> /\ replayed = NoAnswer /\ FindRepeatedQuestion(request) = NoAnswer
      /\ concept' = LastUserQuestion(request)
      /\ UNCHANGED <<history, request, replayed, given>>
  BY DEF CallModel, Serving
<1>2. PICK S : request \in Seq(S) /\ Len(request) >= 1 /\ Newest.role = "user"
  <2>1. PICK S, first : /\ history \in Seq(S) /\ first \in 1 .. Len(history)
                        /\ request = SubSeq(history, first, Len(history))
                        /\ Len(request) = Len(history) - first + 1 /\ Len(history) \in Nat
                        /\ Newest.role = "user"
    BY <1>1, CurrentIs DEF SessionSound
  <2>2. \A k \in first .. Len(history) : history[k] \in S
    BY <2>1, ElementOfSeq
  <2>3. QED
    BY <2>1, <2>2, SubSeqProperties
<1> DEFINE users == {k \in DOMAIN request : request[k].role = "user"}
<1>3. Len(request) \in Nat /\ Len(request) \in users /\ users \subseteq 0 .. Len(request)
  BY <1>2, LenProperties DEF Newest
<1>4. LastUserQuestion(request) = IF users = {} THEN <<>> ELSE MessageText(request[Max(users)].content)
  BY DEF LastUserQuestion
<1> HIDE DEF users
<1>5. Max(users) = Len(request)
  <2>1. Max(users) \in users /\ Len(request) <= Max(users)
    BY <1>3, GreatestOf
  <2>2. Max(users) \in 0 .. Len(request)
    BY <1>3, <2>1
  <2>3. QED
    BY <1>3, <2>1, <2>2
<1>6. concept' = MessageText(Newest.content)
  BY <1>1, <1>3, <1>4, <1>5 DEF Newest
<1>7. Called'
  BY <1>1, <1>6 DEF Called, Newest
<1>8. QED
  BY <1>1, <1>7 DEF SessionSound, Remembered, Given, Spoken, Current, Replayed

LEMMA TuplesAreSeqs ==
  ASSUME NEW x, NEW y
  PROVE  IsSeq(<<x>>) /\ IsSeq(<<x, y>>)
<1>1. <<x>> \in Seq({x}) /\ <<x, y>> \in Seq({x, y})
  OBVIOUS
<1>2. QED
  BY <1>1 DEF IsSeq

\* The text of a message of one part is the text of that part.
LEMMA OnePart ==
  ASSUME NEW text
  PROVE  MessageText(Parts(<<[type |-> "text", text |-> text]>>)) = text
<1> DEFINE texts == <<text>>
           flat == CHOOSE f : f = [i \in 1 .. Len(texts) |->
                                     IF i = 1 THEN texts[i] ELSE f[i - 1] \o texts[i]]
           one == [i \in 1 .. 1 |-> text]
<1>1. Len(texts) = 1 /\ texts[1] = text
  OBVIOUS
<1>2. one = [i \in 1 .. Len(texts) |-> IF i = 1 THEN texts[i] ELSE one[i - 1] \o texts[i]]
  BY <1>1
<1> HIDE DEF one
<1>3. flat = [i \in 1 .. Len(texts) |-> IF i = 1 THEN texts[i] ELSE flat[i - 1] \o texts[i]]
  BY <1>2
<1> HIDE DEF flat
<1>4. flat[1] = text
  BY <1>1, <1>3
<1>5. FlattenSeq(texts) = flat[Len(texts)]
  BY <1>1 DEF FlattenSeq, flat
<1>6. [i \in 1 .. 1 |-> text] = texts
  OBVIOUS
<1>7. QED
  BY <1>1, <1>4, <1>5, <1>6 DEF MessageText, Parts, TextTypes

\* What a turn leaves on the client are texts, and no other question.
LEMMA OutcomeSays ==
  ASSUME NEW outcome \in Outcomes
  PROVE  /\ IsSeq(outcome) /\ Len(outcome) \in Nat
         /\ \A k \in 1 .. Len(outcome) :
              /\ outcome[k].role # "user"
              /\ outcome[k].role = "assistant" => IsSeq(MessageText(outcome[k].content))
<1> DEFINE says(text) == Message("assistant", Str(text))
           nothing == Message("assistant", NoContent)
           parts == Message("assistant", Parts(<<[type |-> "text", text |-> Fresh]>>))
           fine(m) == m.role # "user" /\ (m.role = "assistant" => IsSeq(MessageText(m.content)))
<1>1. outcome \in { <<says(Fresh)>>, <<nothing, ToolResult, parts>>,
                    <<says(Aside), ToolResult, says(Fresh)>>, <<says(Aside), ToolResult>>,
                    <<says(<<Space>>)>>, <<says(Failure)>>, <<>> }
  BY DEF Outcomes
<1>2. IsSeq(Fresh) /\ IsSeq(Failure) /\ IsSeq(Aside) /\ IsSeq(<<Space>>)
  BY TuplesAreSeqs DEF Fresh, Failure, Aside
<1>3. \A text : IsSeq(text) => fine(says(text))
  BY DEF Message, Str, MessageText
<1>4. fine(nothing)
  <2>1. IsSeq(<<>>)
    BY EmptySeq DEF IsSeq
  <2>2. QED
    BY <2>1 DEF Message, NoContent, MessageText
<1>5. fine(parts)
  <2>1. parts.role = "assistant" /\ parts.content = Parts(<<[type |-> "text", text |-> Fresh]>>)
    BY DEF Message
  <2>2. MessageText(parts.content) = Fresh
    BY <2>1, OnePart
  <2> HIDE DEF parts
  <2>3. QED
    BY <1>2, <2>1, <2>2
<1>6. fine(ToolResult)
  BY DEF ToolResult, Message
<1> HIDE DEF says, nothing, parts, fine
<1>7. fine(says(Fresh)) /\ fine(says(Failure)) /\ fine(says(Aside)) /\ fine(says(<<Space>>))
  BY <1>2, <1>3
<1>8. \A x : fine(x) => IsSeq(<<x>>) /\ Len(<<x>>) \in Nat /\ \A k \in 1 .. Len(<<x>>) : fine(<<x>>[k])
  <2>1. SUFFICES ASSUME NEW x, fine(x)
                 PROVE  IsSeq(<<x>>) /\ Len(<<x>>) \in Nat /\ \A k \in 1 .. Len(<<x>>) : fine(<<x>>[k])
    OBVIOUS
  <2>2. <<x>> \in Seq({x}) /\ Len(<<x>>) = 1 /\ <<x>>[1] = x /\ \A k \in 1 .. 1 : k = 1
    OBVIOUS
  <2>3. QED
    BY <2>1, <2>2 DEF IsSeq
<1>9. \A x, y : fine(x) /\ fine(y) =>
        /\ IsSeq(<<x, y>>) /\ Len(<<x, y>>) \in Nat
        /\ \A k \in 1 .. Len(<<x, y>>) : fine(<<x, y>>[k])
  <2>1. SUFFICES ASSUME NEW x, NEW y, fine(x), fine(y)
                 PROVE  /\ IsSeq(<<x, y>>) /\ Len(<<x, y>>) \in Nat
                        /\ \A k \in 1 .. Len(<<x, y>>) : fine(<<x, y>>[k])
    OBVIOUS
  <2>2. <<x, y>> \in Seq({x, y}) /\ Len(<<x, y>>) = 2 /\ <<x, y>>[1] = x /\ <<x, y>>[2] = y
    OBVIOUS
  <2>3. \A k \in 1 .. 2 : k = 1 \/ k = 2
    OBVIOUS
  <2>4. QED
    BY <2>1, <2>2, <2>3 DEF IsSeq
<1>10. \A x, y, z : fine(x) /\ fine(y) /\ fine(z) =>
        /\ IsSeq(<<x, y, z>>) /\ Len(<<x, y, z>>) \in Nat
        /\ \A k \in 1 .. Len(<<x, y, z>>) : fine(<<x, y, z>>[k])
  <2>1. SUFFICES ASSUME NEW x, NEW y, NEW z, fine(x), fine(y), fine(z)
                 PROVE  /\ IsSeq(<<x, y, z>>) /\ Len(<<x, y, z>>) \in Nat
                        /\ \A k \in 1 .. Len(<<x, y, z>>) : fine(<<x, y, z>>[k])
    OBVIOUS
  <2>2. /\ <<x, y, z>> \in Seq({x, y, z}) /\ Len(<<x, y, z>>) = 3
        /\ <<x, y, z>>[1] = x /\ <<x, y, z>>[2] = y /\ <<x, y, z>>[3] = z
    OBVIOUS
  <2>3. \A k \in 1 .. 3 : k = 1 \/ k = 2 \/ k = 3
    OBVIOUS
  <2>4. QED
    BY <2>1, <2>2, <2>3 DEF IsSeq
<1>11. IsSeq(<<>>) /\ Len(<<>>) = 0 /\ \A k \in 1 .. 0 : FALSE
  BY EmptySeq DEF IsSeq
<1>12. IsSeq(outcome) /\ Len(outcome) \in Nat /\ \A k \in 1 .. Len(outcome) : fine(outcome[k])
  BY <1>1, <1>4, <1>5, <1>6, <1>7, <1>8, <1>9, <1>10, <1>11
<1>13. QED
  BY <1>12 DEF fine

\* The first of its messages that decides is what was said first.
LEMMA FirstSaidIs ==
  ASSUME NEW outcome, IsSeq(outcome), NEW k, Replies(outcome, 0, k)
  PROVE  FirstSaid(outcome) = Words(outcome[k])
<1> DEFINE spoken == {i \in DOMAIN outcome : Said(outcome, i) # <<>>}
<1>1. Len(outcome) \in Nat /\ DOMAIN outcome = 1 .. Len(outcome)
  BY LenProperties DEF IsSeq
<1>2. k \in 1 .. Len(outcome) /\ Said(outcome, k) = Words(outcome[k]) /\ k \in spoken
  BY <1>1 DEF Replies, Said, Words
<1>3. \A i \in 1 .. k - 1 : i \notin spoken
  BY <1>1, <1>2 DEF Replies, Decides, Said, Words
<1>4. FirstSaid(outcome) = IF spoken = {} THEN <<>> ELSE Said(outcome, Min(spoken))
  BY DEF FirstSaid
<1>5. spoken \in SUBSET Nat /\ \A i \in spoken : i \in 1 .. Len(outcome)
  BY <1>1
<1> HIDE DEF spoken
<1>6. Min(spoken) \in spoken /\ Min(spoken) <= k
  BY <1>2, <1>5, LeastOf
<1>7. Min(spoken) = k
  <2>1. PICK m : m = Min(spoken)
    OBVIOUS
  <2>2. m \in 1 .. Len(outcome) /\ m \in spoken /\ m <= k
    BY <1>5, <1>6, <2>1
  <2>3. m \notin 1 .. k - 1
    BY <1>3, <2>2
  <2>4. m = k
    BY <1>1, <1>2, <2>2, <2>3
  <2>5. QED
    BY <2>1, <2>4
<1>8. QED
  BY <1>2, <1>4, <1>7

\* A position within what is appended, counted from the start and from the appended.
LEMMA Shifted ==
  ASSUME NEW n \in Nat, NEW m \in Nat, NEW j \in n + 1 .. n + m, NEW k \in 1 .. j - n - 1
  PROVE  k + n \in n + 1 .. j - 1 /\ k + n \in n + 1 .. n + m /\ (k + n) - n = k
OBVIOUS

\* Nothing is displayed that would be another question, or a reply but to this one.
LEMMA SoundGrows ==
  ASSUME SessionSound, request # <<>>, NEW new, IsSeq(new), history' = history \o new,
         given \subseteq given',
         \A k \in 1 .. Len(new) :
            /\ new[k].role # "user"
            /\ new[k].role = "assistant" => IsSeq(MessageText(new[k].content))
            /\ Replies(new, 0, k) /\ IsPlainText(Newest.content)
                 => Told(given', Question(Newest), Words(new[k]))
  PROVE  IsSeq(history') /\ Remembered' /\ Spoken'
<1>1. PICK S : history \in Seq(S) /\ Newest = history[Len(history)] /\ Newest.role = "user"
                 /\ Len(history) >= 1
  BY CurrentIs DEF SessionSound
<1>2. PICK T : new \in Seq(T)
  BY DEF IsSeq
<1>0. PICK n : n = Len(history)
  OBVIOUS
<1>3. history \in Seq(S \cup T) /\ new \in Seq(S \cup T)
  BY <1>1, <1>2, SeqMonotonic
<1>4. /\ history' \in Seq(S \cup T) /\ n \in Nat /\ Len(new) \in Nat /\ Len(history') = n + Len(new)
      /\ DOMAIN history = 1 .. n /\ DOMAIN history' = 1 .. n + Len(new)
      /\ \A k \in 1 .. n : history'[k] = history[k]
      /\ \A k \in n + 1 .. n + Len(new) : history'[k] = new[k - n] /\ k - n \in 1 .. Len(new)
  BY <1>0, <1>3, ConcatProperties, LenProperties
<1>5. IsSeq(history')
  BY <1>4 DEF IsSeq
<1>6. Extends(history', history)
  BY <1>0, <1>4 DEF Extends
<1>7. Spoken'
  BY <1>4 DEF SessionSound, Spoken
<1>8. \A k \in n + 1 .. Len(history') : history'[k].role # "user"
  BY <1>4
<1>9. ASSUME NEW j \in n + 1 .. Len(history'), IsPlainText(history'[n].content),
             Replies(history', n, j)
      PROVE  Given(Question(history[n]), Words(history[j]))'
  <2>1. history'[n] = Newest
    BY <1>0, <1>1, <1>4
  <2>2. /\ history'[j] = new[j - n] /\ j - n \in 1 .. Len(new)
        /\ history'[j].role = "assistant" /\ Words(history'[j]) # <<>>
        /\ \A k \in n + 1 .. j - 1 : ~Decides(history'[k])
    BY <1>4, <1>9 DEF Replies
  <2>3. ASSUME NEW k \in 1 .. j - n - 1 PROVE ~Decides(new[k])
    <3>1. k + n \in n + 1 .. j - 1 /\ k + n \in n + 1 .. n + Len(new) /\ (k + n) - n = k
      BY <1>4, Shifted
    <3>2. \A i \in n + 1 .. n + Len(new) : history'[i] = new[i - n]
      BY <1>4
    <3>3. history'[k + n] = new[k]
      BY <3>1, <3>2
    <3>4. ~Decides(history'[k + n])
      BY <2>2, <3>1
    <3>5. QED
      BY <3>3, <3>4
  <2>4. Replies(new, 0, j - n)
    BY <2>2, <2>3 DEF Replies
  <2>5. Told(given', Question(Newest), Words(new[j - n]))
    BY <1>9, <2>1, <2>2, <2>4
  <2>6. QED
    BY <1>0, <1>1, <2>2, <2>5 DEF Given
<1>10. Remembered'
  BY <1>0, <1>1, <1>6, <1>8, <1>9, RememberedKept DEF SessionSound
<1>11. QED
  BY <1>5, <1>7, <1>10

\* Display: the model answered the newest question, by which the turn is remembered.
LEMMA SoundDisplay == ASSUME SessionSound, Display PROVE SessionSound'
<1>1. /\ prompt # <<>> /\ request # <<>> /\ concept = MessageText(Newest.content)
      /\ request' = <<>> /\ prompt' = <<>>
  BY DEF Display, SessionSound, Called
<1>2. PICK outcome \in Outcomes :
        /\ history' = history \o outcome
        /\ given' = given \cup {[question |-> NormalizeQuestion(concept),
                                 plain |-> IsPlainText(Last(history).content),
                                 text |-> FirstSaid(outcome),
                                 answer |-> FinalAnswer(outcome)]}
  BY DEF Display
<1>3. Newest = Last(history)
  BY <1>1, CurrentIs DEF SessionSound, Last
<1>4. IsPlainText(Newest.content) => Told(given', Question(Newest), FirstSaid(outcome))
  <2> DEFINE turn == [question |-> NormalizeQuestion(concept),
                      plain |-> IsPlainText(Last(history).content),
                      text |-> FirstSaid(outcome), answer |-> FinalAnswer(outcome)]
  <2>1. SUFFICES ASSUME IsPlainText(Newest.content)
                 PROVE  Told(given', Question(Newest), FirstSaid(outcome))
    OBVIOUS
  <2>2. turn \in given' /\ turn.text = FirstSaid(outcome) /\ turn.question = Question(Newest)
    BY <1>1, <1>2 DEF Question
  <2>3. turn.plain
    BY <1>3, <2>1
  <2> HIDE DEF turn
  <2>4. QED
    BY <2>2, <2>3 DEF Told
<1>5. ASSUME NEW k \in 1 .. Len(outcome)
      PROVE  /\ outcome[k].role # "user"
             /\ outcome[k].role = "assistant" => IsSeq(MessageText(outcome[k].content))
             /\ Replies(outcome, 0, k) /\ IsPlainText(Newest.content)
                  => Told(given', Question(Newest), Words(outcome[k]))
  BY <1>4, <1>5, OutcomeSays, FirstSaidIs
<1>6. IsSeq(outcome) /\ given \subseteq given'
  BY <1>2, OutcomeSays
<1>7. IsSeq(history') /\ Remembered' /\ Spoken'
  BY <1>1, <1>2, <1>5, <1>6, SoundGrows
<1>8. QED
  BY <1>1, <1>7 DEF SessionSound, Current, Replayed, Called

\* DisplayReplay: the client displays what was replayed.
LEMMA SoundDisplayReplay == ASSUME SessionSound, DisplayReplay PROVE SessionSound'
<1>1. /\ request # <<>> /\ replayed # NoAnswer /\ request' = <<>>
      /\ history' = Append(history, Message("assistant", Str(replayed)))
      /\ UNCHANGED <<prompt, given>>
  BY DEF DisplayReplay
<1>2. PICK text : text = replayed
  OBVIOUS
<1>3. /\ prompt = <<>> /\ IsSeq(text) /\ TrimSpace(text) = text
      /\ Told(given, Question(Newest), text)
  BY <1>1, <1>2 DEF SessionSound, Replayed, Given
<1>4. PICK m : m = Message("assistant", Str(text))
  OBVIOUS
<1>5. m.role = "assistant" /\ MessageText(m.content) = text /\ Words(m) = text
  BY <1>3, <1>4 DEF Message, Str, MessageText, Words
<1>6. PICK new : new = <<m>>
  OBVIOUS
<1>7. IsSeq(new) /\ \A k \in 1 .. Len(new) : new[k] = m
  <2>1. Len(new) = 1 /\ new[1] = m /\ \A k \in 1 .. 1 : k = 1
    BY <1>6
  <2>2. IsSeq(new)
    BY <1>6, TuplesAreSeqs
  <2>3. QED
    BY <2>1, <2>2
<1>8. history' = history \o new
  <2>1. PICK S : history \in Seq(S)
    BY DEF SessionSound, IsSeq
  <2>2. history \in Seq(S \cup {m}) /\ m \in S \cup {m}
    BY <2>1, SeqMonotonic
  <2>3. Append(history, m) = history \o <<m>>
    BY <2>2, AppendIsConcat
  <2>4. QED
    BY <1>1, <1>2, <1>4, <1>6, <2>3
<1>9. \A k \in 1 .. Len(new) :
        /\ new[k].role # "user"
        /\ new[k].role = "assistant" => IsSeq(MessageText(new[k].content))
        /\ Replies(new, 0, k) /\ IsPlainText(Newest.content)
             => Told(given', Question(Newest), Words(new[k]))
  BY <1>1, <1>3, <1>5, <1>7
<1>10. IsSeq(history') /\ Remembered' /\ Spoken'
  BY <1>1, <1>7, <1>8, <1>9, SoundGrows
<1>11. QED
  BY <1>1, <1>3, <1>10 DEF SessionSound, Current, Replayed, Called

LEMMA SoundNext == SessionSound /\ [SessionNext]_sessionVars => SessionSound'
<1>1. ASSUME SessionSound, UNCHANGED sessionVars PROVE SessionSound'
  BY <1>1 DEF sessionVars, SessionSound, Remembered, Given, Spoken, Current, Replayed, Called, Newest
<1>2. QED
  BY <1>1, SoundAsk, SoundReplay, SoundCallModel, SoundDisplay, SoundDisplayReplay DEF SessionNext

LEMMA SoundAlways == SessionSpec => []SessionSound
  BY SoundInit, SoundNext, PTL DEF SessionSpec

\* What is replayed is the first thing the model said to the same question in plain
\* text, in a session of any length, of which a request may carry any tail.
THEOREM SessionReplayAnswersSameQuestion == SessionSpec => []ReplayAnswersSameQuestion
<1>1. SessionSound => ReplayAnswersSameQuestion
  BY DEF SessionSound, Replayed, Given, Told, Question, ReplayAnswersSameQuestion
<1>2. QED
  BY <1>1, SoundAlways, PTL

\* The model is called for a question that was replied to only if its first
\* occurrence in the request was not, whatever the session.
THEOREM SessionAnsweredTwiceOnlyIfFirstUnanswered ==
  SessionSpec => []AnsweredTwiceOnlyIfFirstUnanswered
<1>1. SessionSound => AnsweredTwiceOnlyIfFirstUnanswered
  <2> DEFINE target == NormalizeQuestion(MessageText(Newest.content))
             asked == {i \in 1 .. Len(request) - 1 : Asks(request[i], target)}
             answered(i) == ReplyAfter(request, i) # NoAnswer
  <2>1. SUFFICES ASSUME SessionSound, prompt # <<>>, target # <<>>, IsPlainText(Newest.content),
                        NEW i \in asked, answered(i)
                 PROVE  \E first \in asked : ~answered(first) /\ \A j \in asked : first <= j
    BY DEF AnsweredTwiceOnlyIfFirstUnanswered
  <2>2. request # <<>> /\ FindRepeatedQuestion(request) = NoAnswer
    BY <2>1 DEF SessionSound, Called
  <2>3. Len(request) \in Nat /\ Newest.role = "user" /\ Newest = request[Len(request)]
    BY <2>1, <2>2, CurrentIs DEF SessionSound, Newest
  <2>4. asked = AskedBefore(request, target)
    BY DEF AskedBefore
  <2>5. Len(request) >= 3
    <3>1. i \in 1 .. Len(request) - 1 /\ i \in Nat
      BY <2>1, <2>3
    <3>2. PICK j : Replies(request, i, j)
      BY <2>1, <2>3, <3>1, ReplyAfterIs
    <3>3. j \in i + 1 .. Len(request) /\ j # Len(request)
      BY <2>3, <3>2 DEF Replies
    <3>4. QED
      BY <2>3, <3>1, <3>3
  <2> HIDE DEF target, asked
  <2>6. asked # {} /\ Min(asked) \in asked /\ \A j \in asked : Min(asked) <= j
    BY <2>1, <2>3, <2>4, FoundIs DEF target
  <2>7. ReplyAfter(request, Min(asked)) = NoAnswer
    <3>1. FindRepeatedQuestion(request) =
            IF Len(request) < 3 \/ Newest.role # "user" \/ ~IsPlainText(Newest.content)
               \/ target = <<>> \/ asked = {}
            THEN NoAnswer ELSE ReplyAfter(request, Min(asked))
      BY <2>3, <2>4, FoundIs DEF target
    <3>2. ~(Len(request) < 3)
      BY <2>3, <2>5
    <3>3. QED
      BY <2>1, <2>2, <2>3, <2>6, <3>1, <3>2
  <2>8. QED
    BY <2>6, <2>7
<1>2. QED
  BY <1>1, SoundAlways, PTL
=============================================================================
