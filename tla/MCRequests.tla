---------------------------- MODULE MCRequests -----------------------------
(***************************************************************************)
(* The request path: one chat completion, or the turns of one session, or one *)
(* connector payload.  The three share no state, so a behaviour is one of     *)
(* them and the others stay as they begin.                                   *)
(***************************************************************************)
EXTENDS ChatRequest, Session, ConnectorPayload

VARIABLE part
allVars == <<chatVars, sessionVars, payloadVars, part>>

-----------------------------------------------------------------------------
MCBilled == {"find", "delegate", "other"}
MCBalances == {1, 2}

\* One question in two spellings and with an image, another one, and a blank one.
MCQuestions ==
    { Str(<<"hi">>), Str(<<"HI", "_", "?">>), Str(<<"bye">>), Str(<<"?">>),
      Parts(<<[type |-> "text", text |-> <<"hi">>], [type |-> "image", text |-> <<>>]>>) }

MCLimits == <<3, 2, 1>>

\* The tree of a value from the trees of its items.
Leaf(node) == [p \in {<<>>} |-> node]
Tree(node, items) ==
    LET below(i) == {<<i>> \o p : p \in DOMAIN items[i]}
    IN  [p \in {<<>>} \cup UNION {below(i) : i \in DOMAIN items} |->
            IF p = <<>> THEN node ELSE items[Head(p)][Tail(p)]]

Scalars == {Leaf(Scalar(1)), Leaf(Scalar(4))}
Lists == {Tree(Array, [i \in 1 .. n |-> s]) : n \in 0 .. 5, s \in Scalars}
Records == {Tree(Object, <<s, t>>) : s \in Scalars, t \in Lists \cup Scalars}
Nested == {Tree(Array, [i \in 1 .. n |-> IF i = 1 THEN v ELSE w]) :
               n \in 1 .. 4, v \in Lists \cup Records, w \in Scalars \cup Lists}
Values == Scalars \cup Lists \cup Records \cup Nested \cup {Tree(Object, <<v>>) : v \in Nested}

\* JSON as compact as can be or with three bytes of white space, other data of up
\* to twenty bytes, in runes of up to four, and errors of as many.
MCAnswers ==
    {Raw(v, Size(v) + blanks, 1) : v \in Values, blanks \in {0, 3}}
    \cup {Raw(NotJson, n, width) : n \in 0 .. 20, width \in 0 .. 4}
    \cup {Refusal(n) : n \in 0 .. 20}

Tools == {[readable |-> TRUE, properties |-> p, required |-> r] :
             p \in SUBSET {"a", "b"}, r \in {<<>>, <<"a">>, <<"b", "a">>, <<"c">>, <<"a", "a">>}}
         \cup {[readable |-> FALSE, properties |-> {"a", "b"}, required |-> <<"a">>]}
MCSearches ==
    {UnreadableSearch, Search(<<>>)} \cup {Search(<<t>>) : t \in Tools}
    \cup {Search(<<t, u>>) : t, u \in Tools}

-----------------------------------------------------------------------------
NoChat == ChatInit /\ stream /\ balance = 1
NoPayload == raw = UnreadableSearch /\ told = NotShown

RequestsInit ==
    \/ part = "chat" /\ ChatInit /\ SessionInit /\ NoPayload
    \/ part = "session" /\ NoChat /\ SessionInit /\ NoPayload
    \/ part = "payload" /\ NoChat /\ SessionInit /\ PayloadInit

ChatPart ==
    /\ part = "chat"
    /\ ChatNext
    /\ UNCHANGED <<part, sessionVars, payloadVars>>

SessionPart ==
    /\ part = "session"
    /\ SessionNext
    /\ UNCHANGED <<part, chatVars, payloadVars>>

PayloadPart ==
    /\ part = "payload"
    /\ PayloadNext
    /\ UNCHANGED <<part, chatVars, sessionVars>>

RequestsNext == ChatPart \/ SessionPart \/ PayloadPart

RequestsSpec == RequestsInit /\ [][RequestsNext]_allVars /\ ChatFairness
=============================================================================
