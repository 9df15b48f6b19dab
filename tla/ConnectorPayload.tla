-------------------------- MODULE ConnectorPayload --------------------------
(***************************************************************************)
(* What the model is shown of a sidecar answer: the tools a search found,    *)
(* with the names of their parameters only, and the result of an execution,   *)
(* brought under a byte budget.                                              *)
(***************************************************************************)
EXTENDS Naturals, SequencesExt, FiniteSetsExt

CONSTANTS
    Answers,      \* raw results of /tools/execute
    Searches,     \* raw results of /tools/search
    Budget,       \* connectorExecuteMaxBytes
    Limits,       \* the array lengths tried, 20, 10, 5, 3, 1 in the code
    MarkerSize,   \* bytes of the marker that replaces the tail of an array
    NoteSize,     \* bytes of the note after a cut, with the longest number in it
    HintSize      \* bytes of the error and the hint around what a refusal said

ASSUME BudgetAssumption == Budget \in Nat \ {0}
ASSUME NotesAssumption == {NoteSize, HintSize} \subseteq Nat
ASSUME LimitsAssumption ==
    /\ Limits \in Seq(Nat \ {0})
    /\ \A i, j \in DOMAIN Limits : i < j => Limits[i] > Limits[j]

-----------------------------------------------------------------------------
(***************************************************************************)
(* A JSON value is a tree: what is at each path, where a path is the sequence *)
(* of positions that leads there from the whole value, <<>>.  The names of an *)
(* object's fields stay, so its fields have positions, too.                   *)
(***************************************************************************)
Scalar(size) == [kind |-> "scalar", size |-> size]
Object == [kind |-> "object"]
Array == [kind |-> "array"]
Marker(kept, total) == [kind |-> "marker", kept |-> kept, total |-> total]

Items(value, p) == {q \in DOMAIN value : q # <<>> /\ Front(q) = p}
Length(value, p) == Cardinality(Items(value, p))

IsJson(value) ==
    /\ IsFiniteSet(DOMAIN value)
    /\ <<>> \in DOMAIN value
    /\ \A p \in DOMAIN value :
          /\ p \in Seq(Nat \ {0})
          /\ value[p] \in {Object, Array} \/ value[p] = Scalar(value[p].size)
          /\ p # <<>> => /\ Front(p) \in DOMAIN value
                         /\ value[Front(p)] \in {Object, Array}
                         /\ \A i \in 1 .. Last(p) : Append(Front(p), i) \in DOMAIN value

\* The bytes of the compact encoding: brackets, and a comma or bracket per item.
Size(value) ==
    LET bytes(p) == (CASE value[p].kind = "scalar" -> value[p].size
                       [] value[p].kind = "marker" -> MarkerSize
                       [] OTHER -> 2) + (IF p = <<>> THEN 0 ELSE 1)
    IN  MapThenSumSet(bytes, DOMAIN value)

\* Every array longer than limit, at whatever depth, ends in a marker after its
\* first limit items; what is below the others goes with them.
CapArrays(value, limit) ==
    LET long == {p \in DOMAIN value : value[p] = Array /\ Length(value, p) > limit}
        kept == {p \in DOMAIN value :
                    \A k \in DOMAIN p : SubSeq(p, 1, k - 1) \in long => p[k] <= limit}
        markers == {Append(p, limit + 1) : p \in long \cap kept}
    IN  [p \in kept \cup markers |->
            IF p \in kept THEN value[p] ELSE Marker(limit, Length(value, Front(p)))]

(***************************************************************************)
(* A raw result has a length in bytes, the value it parses to, if it does,   *)
(* and the width of its runes: 0 when no byte starts one (binary data).      *)
(***************************************************************************)
NotJson == <<>>
Raw(value, bytes, width) ==
    [of |-> "execute", value |-> value, bytes |-> bytes, width |-> width]

\* Mutant: the cut is made at the budget, wherever that is.
RuneStart_Always(raw, offset) == TRUE
RuneStart(raw, offset) == raw.width > 0 /\ offset % raw.width = 0

\* The body of an answer with a status of 400 or more: the error is made of it.
Refusal(bytes) == [of |-> "refusal", bytes |-> bytes]

\* What the model is shown: all of it, a slimmer value, its first bytes and a note,
\* or the error. kept are the bytes of the sidecar's answer that are in it.
Whole(raw) == [form |-> "whole", kept |-> raw.bytes, bytes |-> raw.bytes]
Slim(value) ==
    [form |-> "slim", kept |-> Size(value), bytes |-> Size(value), value |-> value]
Cut(kept, total) ==
    [form |-> "cut", kept |-> kept, bytes |-> kept + NoteSize, total |-> total]
FailureHint(raw) == [form |-> "failure", kept |-> raw.bytes, bytes |-> raw.bytes + HintSize]

\* Mutant: the last limit that fits instead of the first.
SlimConnectorArrays_Last(raw, budget) ==
    LET capped(i) == CapArrays(raw.value, Limits[i])
        fits == {i \in DOMAIN Limits : Size(capped(i)) <= budget}
    IN  IF raw.value = NotJson \/ fits = {} THEN {} ELSE {Slim(capped(Max(fits)))}

\* Capped at the first limit that meets the budget.
SlimConnectorArrays(raw, budget) ==
    LET capped(i) == CapArrays(raw.value, Limits[i])
        fits == {i \in DOMAIN Limits : Size(capped(i)) <= budget}
    IN  IF raw.value = NotJson \/ fits = {} THEN {} ELSE {Slim(capped(Min(fits)))}

CapConnectorResponse(raw) ==
    LET slim == SlimConnectorArrays(raw, Budget)
        cuts == {n \in 1 .. Budget : RuneStart(raw, n)} \cup {0}
    IN  CASE raw.bytes <= Budget -> Whole(raw)
          [] raw.bytes > Budget /\ slim # {} -> CHOOSE s \in slim : TRUE
          [] OTHER -> Cut(Max(cuts), raw.bytes)

-----------------------------------------------------------------------------
(***************************************************************************)
(* The tool list.  A tool has the properties its schema names and the list of *)
(* those it requires; both are empty when it has no schema.  A schema that    *)
(* cannot be read has names, too, but nobody learns them.                    *)
(***************************************************************************)
Search(tools) == [of |-> "find", readable |-> TRUE, tools |-> tools]
UnreadableSearch == [of |-> "find", readable |-> FALSE]

\* Mutant: required parameters are listed as optional, too.
SchemaParamNames_Twice(tool) ==
    [required |-> tool.required, optional |-> tool.properties]

SchemaParamNames(tool) ==
    IF tool.readable
    THEN [ required |-> tool.required,
           optional |-> tool.properties \ ToSet(tool.required) ]
    ELSE [ required |-> <<>>, optional |-> {} ]

Unchanged(search) == [form |-> "unchanged", search |-> search]
SlimTools(tools) == [form |-> "tools", tools |-> tools]

\* What cannot be read, or has no tools, is passed on as it is.
SlimToolList(search) ==
    IF search.readable /\ search.tools # <<>>
    THEN SlimTools([i \in DOMAIN search.tools |-> SchemaParamNames(search.tools[i])])
    ELSE Unchanged(search)

NoConnectorTools(slimmed) ==
    slimmed.form = "unchanged" /\ slimmed.search.readable

\* No match: the model is told to have the user connect the app.
ConnectApp == [form |-> "connect"]
FindPayload(search) ==
    LET slimmed == SlimToolList(search)
    IN  IF NoConnectorTools(slimmed) THEN ConnectApp ELSE slimmed

-----------------------------------------------------------------------------
\* What the sidecar may answer.
ASSUME AnswersAssumption ==
    \A a \in Answers :
        \/ a = Refusal(a.bytes) /\ a.bytes \in Nat
        \/ /\ a = Raw(a.value, a.bytes, a.width) /\ {a.bytes, a.width} \subseteq Nat
           /\ a.value = NotJson \/ IsJson(a.value)
ASSUME SearchesAssumption ==
    \A s \in Searches :
        \/ s = UnreadableSearch
        \/ /\ s = Search(s.tools)
           /\ s.tools \in Seq([ readable : BOOLEAN, properties : SUBSET STRING,
                                required : Seq(STRING) ])

VARIABLES
    raw,      \* what the sidecar answered
    told      \* what the tool returned for the model, NotShown before

payloadVars == <<raw, told>>

NotShown == [form |-> "none"]

PayloadInit == raw \in Answers \cup Searches /\ told = NotShown

ShowResult ==
    /\ told = NotShown
    /\ raw.of = "execute"
    /\ told' = CapConnectorResponse(raw)
    /\ UNCHANGED raw

\* connectorClient.do makes an error of the whole body, which is not capped.
ShowFailure ==
    /\ told = NotShown
    /\ raw.of = "refusal"
    /\ told' = FailureHint(raw)
    /\ UNCHANGED raw

ShowTools ==
    /\ told = NotShown
    /\ raw.of = "find"
    /\ told' = FindPayload(raw)
    /\ UNCHANGED raw

PayloadNext == ShowResult \/ ShowFailure \/ ShowTools

PayloadSpec == PayloadInit /\ [][PayloadNext]_payloadVars

-----------------------------------------------------------------------------
\* What an execution that succeeded shows the model is within the budget, but for
\* the note after a cut, and a result of whole runes that is cut loses no more than
\* one of them to the budget (capConnectorResponse).
ResultWithinBudget ==
    raw.of = "execute" /\ told # NotShown =>
        /\ told.bytes <= Budget + (IF told.form = "cut" THEN NoteSize ELSE 0)
        /\ told.form = "cut" /\ raw.width > 0 =>
               /\ told.kept % raw.width = 0
               /\ Budget - told.kept < raw.width

\* slim shows value with nothing left out unseen: an item of value is in slim, or
\* a marker before it tells how many are and the true length, at every depth.
Shows(slim, value) ==
    /\ <<>> \in DOMAIN slim
    /\ \A p \in DOMAIN slim :
          IF slim[p].kind = "marker"
          THEN LET total == Length(value, Front(p))
               IN  p # <<>> /\ Last(p) <= total /\ slim[p] = Marker(Last(p) - 1, total)
          ELSE /\ p \in DOMAIN value /\ slim[p] = value[p]
               /\ \A q \in Items(value, p) :
                     \E r \in Items(slim, p) :
                        IF slim[r].kind = "marker" THEN Last(r) <= Last(q) ELSE r = q

\* A slimmed result still tells the true number of items of every array it shows,
\* and is slimmed no more than the budget asks for (slimConnectorArrays).
CountsAreTrue ==
    raw.of = "execute" /\ told.form = "slim" =>
        /\ Shows(told.value, raw.value)
        /\ \A i \in DOMAIN Limits :
              Size(CapArrays(raw.value, Limits[i])) <= Budget
                 => \E j \in 1 .. i : told.value = CapArrays(raw.value, Limits[j])

\* The model reads every parameter of a tool whose schema can be read, as required
\* or as optional but never as both, the required ones as the schema lists them and
\* no other, and is sent to the connections page only when the search was answered
\* and found nothing (slimToolList, noConnectorTools).
ToolsCanBeCalled ==
    raw.of = "find" /\ told # NotShown =>
        /\ told = ConnectApp <=> raw.readable /\ raw.tools = <<>>
        /\ told.form = "tools" =>
              /\ Len(told.tools) = Len(raw.tools)
              /\ \A i \in DOMAIN told.tools : raw.tools[i].readable =>
                    LET params == told.tools[i]
                    IN  /\ params.required = raw.tools[i].required
                        /\ ToSet(params.required) \cap params.optional = {}
                        /\ raw.tools[i].properties \subseteq
                               ToSet(params.required) \cup params.optional
                        /\ params.optional \subseteq raw.tools[i].properties
=============================================================================
