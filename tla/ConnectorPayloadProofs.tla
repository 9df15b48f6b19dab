----------------------- MODULE ConnectorPayloadProofs -----------------------
(***************************************************************************)
(* Theorems about ConnectorPayload, for any answers, any budget and any       *)
(* limits.                                                                  *)
(***************************************************************************)
EXTENDS ConnectorPayload, Integers, SetLemmas, SequenceTheorems

Positive == Nat \ {0}

-----------------------------------------------------------------------------
(***************************************************************************)
(* Paths.                                                                   *)
(***************************************************************************)
LEMMA PathParts ==
  ASSUME NEW p \in Seq(Positive), p # <<>>
  PROVE  /\ Len(p) \in Positive /\ DOMAIN p = 1 .. Len(p)
         /\ Front(p) \in Seq(Positive) /\ Len(Front(p)) = Len(p) - 1
         /\ SubSeq(p, 1, Len(p) - 1) = Front(p) /\ p[Len(p)] = Last(p)
         /\ \A k \in 1 .. Len(p) - 1 :
               Front(p)[k] = p[k] /\ SubSeq(Front(p), 1, k - 1) = SubSeq(p, 1, k - 1)
<1>1. /\ Len(p) \in Nat /\ Len(p) # 0 /\ DOMAIN p = 1 .. Len(p)
      /\ \A k \in 1 .. Len(p) : p[k] \in Positive
  <2>1. Len(p) \in Nat /\ DOMAIN p = 1 .. Len(p) /\ p \in [1 .. Len(p) -> Positive]
    BY LenProperties
  <2>2. Len(p) # 0
    BY EmptySeq
  <2>3. QED
    BY <2>1, <2>2
<1> DEFINE n == Len(p) - 1
<1>2. n \in Nat /\ 1 \in Int /\ n \in Int /\ 1 .. n \subseteq 1 .. Len(p)
  BY <1>1
<1>3. /\ Front(p) \in Seq(Positive) /\ Len(Front(p)) = n
      /\ \A k \in 1 .. n : Front(p)[k] = p[k]
  <2>1. \A k \in 1 .. n : p[k] \in Positive
    BY <1>1, <1>2
  <2> HIDE DEF n
  <2>2. /\ SubSeq(p, 1, n) \in Seq(Positive)
        /\ Len(SubSeq(p, 1, n)) = IF 1 <= n THEN n - 1 + 1 ELSE 0
        /\ \A k \in 1 .. n - 1 + 1 : SubSeq(p, 1, n)[k] = p[1 + k - 1]
    BY <1>2, <2>1, SubSeqProperties
  <2>3. n - 1 + 1 = n /\ (~ 1 <= n => n = 0) /\ \A k \in 1 .. n : 1 + k - 1 = k
    BY <1>2
  <2>4. Front(p) = SubSeq(p, 1, n)
    BY DEF Front, n
  <2>5. QED
    BY <2>2, <2>3, <2>4
<1>4. ASSUME NEW k \in 1 .. n
      PROVE  SubSeq(Front(p), 1, k - 1) = SubSeq(p, 1, k - 1)
  <2> PICK f : f = Front(p)
    OBVIOUS
  <2> DEFINE m == k - 1
  <2>1. m \in Nat /\ m \in Int /\ 1 .. m \subseteq 1 .. n
    BY <1>2
  <2>2. \A i \in 1 .. m : f[i] = p[i] /\ p[i] \in Positive /\ 1 + i - 1 = i
    BY <1>1, <1>2, <1>3, <2>1
  <2>3. m - 1 + 1 = m
    BY <2>1
  <2> HIDE DEF m, n
  <2>4. /\ SubSeq(f, 1, m) \in Seq(Positive) /\ SubSeq(p, 1, m) \in Seq(Positive)
        /\ Len(SubSeq(f, 1, m)) = Len(SubSeq(p, 1, m))
        /\ Len(SubSeq(f, 1, m)) = IF 1 <= m THEN m ELSE 0
        /\ \A i \in 1 .. m : SubSeq(f, 1, m)[i] = f[1 + i - 1]
                             /\ SubSeq(p, 1, m)[i] = p[1 + i - 1]
    BY <1>2, <2>1, <2>2, <2>3, SubSeqProperties
  <2>5. \A i \in 1 .. Len(SubSeq(f, 1, m)) : SubSeq(f, 1, m)[i] = SubSeq(p, 1, m)[i]
    BY <2>1, <2>2, <2>4
  <2>6. SubSeq(f, 1, m) = SubSeq(p, 1, m)
    BY <2>4, <2>5, SeqEqual
  <2>7. QED
    BY <2>6 DEF m
<1>5. SubSeq(p, 1, Len(p) - 1) = Front(p) /\ p[Len(p)] = Last(p)
  BY DEF Front, Last
<1>6. Len(p) \in Positive /\ DOMAIN p = 1 .. Len(p)
  BY <1>1 DEF Positive
<1>7. QED
  BY <1>3, <1>4, <1>5, <1>6

LEMMA PathAppend ==
  ASSUME NEW p \in Seq(Positive), NEW i \in Positive
  PROVE  /\ Append(p, i) \in Seq(Positive) /\ Append(p, i) # <<>>
         /\ Front(Append(p, i)) = p /\ Last(Append(p, i)) = i
<1> PICK q : q = Append(p, i)
  OBVIOUS
<1>1. /\ q \in Seq(Positive) /\ q # <<>> /\ Len(q) = Len(p) + 1 /\ q[Len(p) + 1] = i
      /\ \A k \in 1 .. Len(p) : q[k] = p[k]
  BY AppendProperties
<1>2. Len(p) \in Nat
  BY LenProperties
<1>3. Front(q) \in Seq(Positive) /\ Len(Front(q)) = Len(p)
      /\ \A k \in 1 .. Len(p) : Front(q)[k] = q[k]
  <2>1. Front(q) \in Seq(Positive) /\ Len(Front(q)) = Len(q) - 1
        /\ \A k \in 1 .. Len(q) - 1 : Front(q)[k] = q[k]
    BY <1>1, PathParts
  <2>2. Len(q) - 1 = Len(p)
    BY <1>1, <1>2
  <2>3. QED
    BY <2>1, <2>2
<1>4. Front(q) = p
  BY <1>1, <1>3, SeqEqual
<1>5. QED
  BY <1>1, <1>4 DEF Last

-----------------------------------------------------------------------------
(***************************************************************************)
(* Capping: what is not there of a long array is told by its marker.          *)
(***************************************************************************)
LEMMA CapArraysShows ==
  ASSUME NEW value, IsJson(value), NEW limit \in Positive
  PROVE  Shows(CapArrays(value, limit), value)
<1> DEFINE long == {p \in DOMAIN value : value[p] = Array /\ Length(value, p) > limit}
           kept == {p \in DOMAIN value :
                       \A k \in DOMAIN p : SubSeq(p, 1, k - 1) \in long => p[k] <= limit}
           markers == {Append(p, limit + 1) : p \in long \cap kept}
           slim == CapArrays(value, limit)
<1>1. \A p \in DOMAIN value : p \in Seq(Positive) /\ value[p].kind # "marker"
  BY DEF IsJson, Positive, Object, Array, Scalar
<1>2. \A p \in DOMAIN value : Length(value, p) \in Nat
  <2>1. ASSUME NEW p \in DOMAIN value PROVE IsFiniteSet(Items(value, p))
    BY FS_Subset DEF IsJson, Items
  <2>2. QED
    BY <2>1, FS_CardinalityType DEF Length
<1>3. limit \in Nat /\ limit + 1 \in Positive /\ limit + 1 - 1 = limit
  BY DEF Positive
<1>4. ASSUME NEW p \in long
      PROVE  /\ Front(Append(p, limit + 1)) = p /\ Last(Append(p, limit + 1)) = limit + 1
             /\ Append(p, limit + 1) # <<>> /\ Append(p, limit + 1) \notin kept
  <2> PICK q : q = Append(p, limit + 1)
    OBVIOUS
  <2>1. q \in Seq(Positive) /\ q # <<>> /\ Front(q) = p /\ Last(q) = limit + 1
    BY <1>1, <1>3, PathAppend
  <2>2. /\ Len(q) \in DOMAIN q /\ SubSeq(q, 1, Len(q) - 1) = p
        /\ q[Len(q)] = limit + 1
    BY <2>1, PathParts DEF Positive
  <2>3. ~ q[Len(q)] <= limit
    BY <1>3, <2>2
  <2>4. q \notin kept
    BY <2>2, <2>3
  <2>5. QED
    BY <2>1, <2>4
<1>5. DOMAIN slim = kept \cup markers /\ \A p \in kept : slim[p] = value[p]
  BY DEF CapArrays
<1>6. ASSUME NEW q \in markers
      PROVE  \E p \in long \cap kept :
               /\ Front(q) = p /\ Last(q) = limit + 1 /\ q # <<>>
               /\ slim[q] = Marker(limit, Length(value, p))
  <2> PICK p \in long \cap kept : q = Append(p, limit + 1)
    OBVIOUS
  <2>1. Front(q) = p /\ Last(q) = limit + 1 /\ q # <<>> /\ q \notin kept
    BY <1>4
  <2>2. slim[q] = Marker(limit, Length(value, Front(q)))
    BY <2>1 DEF CapArrays
  <2>3. QED
    BY <2>1, <2>2
<1>7. <<>> \in kept
  <2>1. DOMAIN <<>> = {}
    OBVIOUS
  <2>2. QED
    BY <2>1 DEF IsJson
<1>8. ASSUME NEW p \in kept, NEW q \in Items(value, p)
      PROVE  \E r \in Items(slim, p) :
                IF slim[r].kind = "marker" THEN Last(r) <= Last(q) ELSE r = q
  <2>1. q \in DOMAIN value /\ q # <<>> /\ Front(q) = p /\ p \in DOMAIN value
    BY DEF Items
  <2>2. CASE q \in kept
    <3>1. q \in Items(slim, p) /\ slim[q].kind # "marker"
      BY <1>1, <1>5, <2>1, <2>2 DEF Items
    <3>2. QED
      BY <3>1
  <2>3. CASE q \notin kept
    <3>1. /\ Len(q) \in Positive /\ DOMAIN q = 1 .. Len(q)
          /\ SubSeq(q, 1, Len(q) - 1) = p /\ q[Len(q)] = Last(q)
          /\ DOMAIN p = 1 .. Len(q) - 1
          /\ \A k \in 1 .. Len(q) - 1 :
                p[k] = q[k] /\ SubSeq(p, 1, k - 1) = SubSeq(q, 1, k - 1)
      BY <1>1, <2>1, PathParts, LenProperties
    <3>2. PICK k \in DOMAIN q : SubSeq(q, 1, k - 1) \in long /\ ~ q[k] <= limit
      BY <2>1, <2>3
    <3>3. k = Len(q)
      <4>1. SUFFICES ASSUME k # Len(q) PROVE FALSE
        OBVIOUS
      <4>2. k \in 1 .. Len(q) - 1
        BY <3>1, <4>1 DEF Positive
      <4>3. k \in DOMAIN p /\ SubSeq(p, 1, k - 1) \in long /\ ~ p[k] <= limit
        BY <3>1, <3>2, <4>2
      <4>4. QED
        BY <4>3
    <3>4. p \in long /\ ~ Last(q) <= limit
      BY <3>1, <3>2, <3>3
    <3>5. PICK r : r = Append(p, limit + 1)
      OBVIOUS
    <3>6. r \in markers /\ Front(r) = p /\ Last(r) = limit + 1 /\ r # <<>>
      BY <1>4, <3>4, <3>5
    <3>7. r \in Items(slim, p) /\ slim[r].kind = "marker"
      <4>1. r \in DOMAIN slim
        BY <1>5, <3>6
      <4>2. PICK total : slim[r] = Marker(limit, total)
        BY <1>6, <3>6
      <4> HIDE DEF slim
      <4>3. r \in Items(slim, p)
        BY <3>6, <4>1 DEF Items
      <4>4. QED
        BY <4>2, <4>3 DEF Marker
    <3>8. Last(q) \in Nat
      BY <1>1, <2>1, <3>1, LenProperties DEF Positive
    <3>9. Last(r) <= Last(q)
      BY <1>3, <3>4, <3>6, <3>8
    <3>10. QED
      BY <3>7, <3>9
  <2>4. QED
    BY <2>2, <2>3
<1>9. ASSUME NEW p \in DOMAIN slim
      PROVE  IF slim[p].kind = "marker"
             THEN LET total == Length(value, Front(p))
                  IN  p # <<>> /\ Last(p) <= total /\ slim[p] = Marker(Last(p) - 1, total)
             ELSE /\ p \in DOMAIN value /\ slim[p] = value[p]
                  /\ \A q \in Items(value, p) :
                        \E r \in Items(slim, p) :
                           IF slim[r].kind = "marker" THEN Last(r) <= Last(q) ELSE r = q
  <2>1. CASE p \in kept
    <3>1. p \in DOMAIN value /\ slim[p] = value[p] /\ slim[p].kind # "marker"
      BY <1>1, <1>5, <2>1
    <3> HIDE DEF slim, kept
    <3>2. QED
      BY <1>8, <2>1, <3>1
  <2>2. CASE p \in markers
    <3>1. PICK a \in long : /\ Front(p) = a /\ Last(p) = limit + 1 /\ p # <<>>
                            /\ slim[p] = Marker(limit, Length(value, a))
      BY <1>6, <2>2
    <3>2. Length(value, a) \in Nat /\ Length(value, a) > limit
      BY <1>2
    <3>3. Last(p) <= Length(value, a) /\ Last(p) - 1 = limit /\ slim[p].kind = "marker"
      BY <1>3, <3>1, <3>2 DEF Marker
    <3> HIDE DEF slim
    <3>4. QED
      BY <3>1, <3>3
  <2>3. QED
    BY <1>5, <2>1, <2>2
<1> HIDE DEF slim, kept, markers
<1>10. Shows(slim, value)
  BY <1>5, <1>7, <1>9 DEF Shows
<1>11. QED
  BY <1>10 DEF slim

-----------------------------------------------------------------------------
(***************************************************************************)
(* The slimmed value is the first that fits, the cut the last that ends at    *)
(* the start of a rune.                                                      *)
(***************************************************************************)
LEMMA SlimIsFirstFit ==
  ASSUME NEW r, NEW s \in SlimConnectorArrays(r, Budget)
  PROVE  /\ r.value # NotJson
         /\ \E j \in DOMAIN Limits :
               /\ s = Slim(CapArrays(r.value, Limits[j]))
               /\ Size(CapArrays(r.value, Limits[j])) <= Budget
               /\ \A i \in DOMAIN Limits :
                     Size(CapArrays(r.value, Limits[i])) <= Budget => j <= i
<1> DEFINE capped(i) == CapArrays(r.value, Limits[i])
           fits == {i \in DOMAIN Limits : Size(capped(i)) <= Budget}
<1>1. r.value # NotJson /\ fits # {} /\ s = Slim(capped(Min(fits)))
  BY DEF SlimConnectorArrays
<1>2. fits \in SUBSET Nat
  BY LimitsAssumption, LenProperties
<1>3. Min(fits) \in fits /\ \A i \in fits : Min(fits) <= i
  <2> HIDE DEF fits
  <2>1. QED
    BY <1>1, <1>2, LeastOf
<1>4. QED
  BY <1>1, <1>3

LEMMA Capped ==
  ASSUME NEW r, r.bytes \in Nat
  PROVE  \/ r.bytes <= Budget /\ CapConnectorResponse(r) = Whole(r)
         \/ CapConnectorResponse(r) \in SlimConnectorArrays(r, Budget)
         \/ CapConnectorResponse(r) =
               Cut(Max({n \in 1 .. Budget : RuneStart(r, n)} \cup {0}), r.bytes)
<1>1. CASE r.bytes <= Budget
  BY <1>1, BudgetAssumption DEF CapConnectorResponse
<1>2. CASE ~ r.bytes <= Budget /\ SlimConnectorArrays(r, Budget) # {}
  BY <1>2, BudgetAssumption DEF CapConnectorResponse
<1>3. CASE ~ r.bytes <= Budget /\ SlimConnectorArrays(r, Budget) = {}
  BY <1>3, BudgetAssumption DEF CapConnectorResponse
<1>4. QED
  BY <1>1, <1>2, <1>3

LEMMA NextRune ==
  ASSUME NEW m \in Nat, NEW w \in Nat, w > 0, m % w = 0
  PROVE  (m + w) % w = 0
<1> PICK a \in Int : a = m \div w
  OBVIOUS
<1> PICK b \in Int : b = (m + w) \div w
  OBVIOUS
<1> PICK rest \in Int : rest = (m + w) % w
  OBVIOUS
<1>1. m = w * a
  OBVIOUS
<1>2. m + w = w * b + rest /\ rest >= 0 /\ rest < w
  OBVIOUS
<1>3. w * (b - a) = w - rest
  BY <1>1, <1>2
<1>4. PICK d \in Int : d = b - a
  OBVIOUS
<1>5. w * d > 0 /\ w * d <= w
  BY <1>2, <1>3, <1>4
<1>6. d >= 1
  <2>1. SUFFICES ASSUME d <= 0 PROVE FALSE
    OBVIOUS
  <2>2. w * d <= 0
    BY <2>1
  <2>3. QED
    BY <1>5, <2>2
<1>7. w * d >= w
  BY <1>6
<1>8. QED
  BY <1>2, <1>3, <1>4, <1>5, <1>7

LEMMA ZeroIsRune == ASSUME NEW w \in Nat, w > 0 PROVE 0 % w = 0
  OBVIOUS

LEMMA CutAtLastRune ==
  ASSUME NEW r, r.width \in Nat,
         NEW m, m = Max({n \in 1 .. Budget : RuneStart(r, n)} \cup {0})
  PROVE  /\ m \in Nat /\ m <= Budget
         /\ r.width > 0 => m % r.width = 0 /\ Budget - m < r.width
<1> DEFINE cuts == {n \in 1 .. Budget : RuneStart(r, n)} \cup {0}
<1>1. Budget \in Nat /\ cuts \in SUBSET (0 .. Budget) /\ cuts # {}
  BY BudgetAssumption
<1>2. m \in cuts /\ \A n \in cuts : n <= m
  <2>1. m = Max(cuts)
    OBVIOUS
  <2> HIDE DEF cuts
  <2>2. QED
    BY <1>1, <2>1, GreatestOf
<1>3. m \in Nat /\ m <= Budget
  BY <1>1, <1>2
<1>4. ASSUME r.width > 0 PROVE m % r.width = 0 /\ Budget - m < r.width
  <2>1. m % r.width = 0
    BY <1>2, <1>4, ZeroIsRune DEF RuneStart
  <2>2. SUFFICES ASSUME ~ Budget - m < r.width PROVE FALSE
    BY <2>1
  <2>3. m + r.width \in 1 .. Budget /\ m + r.width > m
    BY <1>1, <1>3, <1>4, <2>2
  <2>4. RuneStart(r, m + r.width)
    BY <1>3, <1>4, <2>1, NextRune DEF RuneStart
  <2>5. QED
    BY <1>1, <1>2, <1>3, <2>3, <2>4
<1>5. QED
  BY <1>3, <1>4

-----------------------------------------------------------------------------
(***************************************************************************)
(* The theorems.  What was told is what the handler made of the answer.       *)
(***************************************************************************)
Told ==
  /\ raw \in Answers \cup Searches
  /\ \/ told = NotShown
     \/ raw.of = "execute" /\ told = CapConnectorResponse(raw)
     \/ raw.of = "refusal" /\ told = FailureHint(raw)
     \/ raw.of = "find" /\ told = FindPayload(raw)

LEMMA ToldAlways == PayloadSpec => []Told
<1>1. PayloadInit => Told
  BY DEF PayloadInit, Told
<1>2. Told /\ [PayloadNext]_payloadVars => Told'
  BY DEF Told, PayloadNext, ShowResult, ShowFailure, ShowTools, payloadVars
<1>3. QED
  BY <1>1, <1>2, PTL DEF PayloadSpec

LEMMA RawIsAnswer ==
  ASSUME Told, raw.of = "execute"
  PROVE  /\ raw.bytes \in Nat /\ raw.width \in Nat
         /\ raw.value = NotJson \/ IsJson(raw.value)
         /\ told = NotShown \/ told = CapConnectorResponse(raw)
<1>1. raw \in Answers
  BY SearchesAssumption DEF Told, Search, UnreadableSearch
<1>2. QED
  BY <1>1, AnswersAssumption DEF Told, Refusal

\* What an execution that succeeded shows the model is within the budget, but for the
\* note after a cut, and a cut loses less than a rune (capConnectorResponse).
THEOREM PayloadResultWithinBudget == PayloadSpec => []ResultWithinBudget
<1>1. ASSUME Told, raw.of = "execute", told # NotShown
      PROVE  /\ told.bytes <= Budget + (IF told.form = "cut" THEN NoteSize ELSE 0)
             /\ told.form = "cut" /\ raw.width > 0 =>
                   told.kept % raw.width = 0 /\ Budget - told.kept < raw.width
  <2>1. raw.bytes \in Nat /\ raw.width \in Nat /\ told = CapConnectorResponse(raw)
    BY <1>1, RawIsAnswer
  <2>2. CASE raw.bytes <= Budget /\ told = Whole(raw)
    BY <2>2, BudgetAssumption DEF Whole
  <2>3. CASE told \in SlimConnectorArrays(raw, Budget)
    <3>1. PICK v : told = Slim(v) /\ Size(v) <= Budget
      BY <2>3, SlimIsFirstFit
    <3>2. QED
      BY <3>1, BudgetAssumption DEF Slim
  <2>4. CASE told = Cut(Max({n \in 1 .. Budget : RuneStart(raw, n)} \cup {0}), raw.bytes)
    <3>1. PICK m : m = Max({n \in 1 .. Budget : RuneStart(raw, n)} \cup {0})
      OBVIOUS
    <3>2. m \in Nat /\ m <= Budget /\ (raw.width > 0 => m % raw.width = 0 /\ Budget - m < raw.width)
      BY <2>1, <3>1, CutAtLastRune
    <3>3. told.form = "cut" /\ told.kept = m /\ told.bytes = m + NoteSize
      BY <2>4, <3>1 DEF Cut
    <3>4. QED
      BY <3>2, <3>3, BudgetAssumption, NotesAssumption
  <2>5. QED
    BY <2>1, <2>2, <2>3, <2>4, Capped
<1>2. Told => ResultWithinBudget
  BY <1>1 DEF ResultWithinBudget
<1>3. QED
  BY <1>2, ToldAlways, PTL

\* A slimmed result tells the true number of items of every array it shows, at any
\* depth, and is slimmed no more than the budget asks for (slimConnectorArrays).
THEOREM PayloadCountsAreTrue == PayloadSpec => []CountsAreTrue
<1>1. ASSUME Told, raw.of = "execute", told.form = "slim"
      PROVE  /\ Shows(told.value, raw.value)
             /\ \A i \in DOMAIN Limits :
                   Size(CapArrays(raw.value, Limits[i])) <= Budget
                      => \E j \in 1 .. i : told.value = CapArrays(raw.value, Limits[j])
  <2>1. /\ raw.bytes \in Nat /\ raw.width \in Nat
        /\ raw.value = NotJson \/ IsJson(raw.value)
        /\ told = CapConnectorResponse(raw)
    BY <1>1, RawIsAnswer DEF NotShown
  <2>2. told \in SlimConnectorArrays(raw, Budget)
    <3>1. told # Whole(raw)
      BY <1>1 DEF Whole
    <3>2. \A n : told # Cut(n, raw.bytes)
      BY <1>1 DEF Cut
    <3>3. QED
      BY <2>1, <3>1, <3>2, Capped, Zenon
  <2>3. PICK j \in DOMAIN Limits :
          /\ raw.value # NotJson
          /\ told = Slim(CapArrays(raw.value, Limits[j]))
          /\ \A i \in DOMAIN Limits :
                Size(CapArrays(raw.value, Limits[i])) <= Budget => j <= i
    BY <2>2, SlimIsFirstFit
  <2>4. told.value = CapArrays(raw.value, Limits[j])
    BY <2>3 DEF Slim
  <2>5. DOMAIN Limits = 1 .. Len(Limits) /\ Len(Limits) \in Nat
        /\ Limits \in [1 .. Len(Limits) -> Positive]
    BY LimitsAssumption, LenProperties DEF Positive
  <2>6. Limits[j] \in Positive
    BY <2>5
  <2>7. Shows(told.value, raw.value)
    BY <2>1, <2>3, <2>4, <2>6, CapArraysShows
  <2>8. ASSUME NEW i \in DOMAIN Limits, Size(CapArrays(raw.value, Limits[i])) <= Budget
        PROVE  \E k \in 1 .. i : told.value = CapArrays(raw.value, Limits[k])
    <3>1. j \in 1 .. i
      BY <2>3, <2>5, <2>8
    <3>2. QED
      BY <2>4, <3>1
  <2>9. QED
    BY <2>7, <2>8
<1>2. Told => CountsAreTrue
  BY <1>1 DEF CountsAreTrue
<1>3. QED
  BY <1>2, ToldAlways, PTL

\* The model reads every parameter of a tool whose schema can be read, never as required
\* and optional both, and is sent to the connections page only when nothing was found
\* (slimToolList, noConnectorTools).
THEOREM PayloadToolsCanBeCalled == PayloadSpec => []ToolsCanBeCalled
<1>1. ASSUME Told, raw.of = "find", told # NotShown
      PROVE  /\ told = ConnectApp <=> raw.readable /\ raw.tools = <<>>
             /\ told.form = "tools" =>
                   /\ Len(told.tools) = Len(raw.tools)
                   /\ \A i \in DOMAIN told.tools : raw.tools[i].readable =>
                         LET params == told.tools[i]
                         IN  /\ params.required = raw.tools[i].required
                             /\ ToSet(params.required) \cap params.optional = {}
                             /\ raw.tools[i].properties \subseteq
                                    ToSet(params.required) \cup params.optional
                             /\ params.optional \subseteq raw.tools[i].properties
  <2>1. told = FindPayload(raw)
    BY <1>1 DEF Told
  <2>2. \/ raw = UnreadableSearch
        \/ /\ raw = Search(raw.tools)
           /\ raw.tools \in Seq([ readable : BOOLEAN, properties : SUBSET STRING,
                                required : Seq(STRING) ])
    BY <1>1, AnswersAssumption, SearchesAssumption DEF Told, Raw, Refusal
  <2>3. CASE raw = UnreadableSearch
    BY <2>1, <2>3 DEF UnreadableSearch, FindPayload, NoConnectorTools, SlimToolList, Unchanged,
                      ConnectApp
  <2>4. CASE raw = Search(raw.tools) /\ raw.tools = <<>>
    BY <2>1, <2>4 DEF Search, FindPayload, NoConnectorTools, SlimToolList, Unchanged, ConnectApp
  <2>5. CASE /\ raw = Search(raw.tools) /\ raw.tools # <<>>
             /\ raw.tools \in Seq([ readable : BOOLEAN, properties : SUBSET STRING,
                                required : Seq(STRING) ])
    <3> DEFINE tools == raw.tools
               slimmed == [i \in DOMAIN tools |-> SchemaParamNames(tools[i])]
    <3>1. told = SlimTools(slimmed)
      BY <2>1, <2>5 DEF Search, FindPayload, NoConnectorTools, SlimToolList, SlimTools
    <3>2. told.tools = slimmed /\ told # ConnectApp
      BY <3>1 DEF SlimTools, ConnectApp
    <3>3. DOMAIN tools = 1 .. Len(tools) /\ Len(tools) \in Nat
      BY <2>5, LenProperties
    <3>4. Len(slimmed) = Len(tools)
      BY <3>3
    <3>5. ASSUME NEW i \in DOMAIN slimmed, tools[i].readable
          PROVE  /\ slimmed[i].required = tools[i].required
                 /\ ToSet(slimmed[i].required) \cap slimmed[i].optional = {}
                 /\ tools[i].properties \subseteq
                        ToSet(slimmed[i].required) \cup slimmed[i].optional
                 /\ slimmed[i].optional \subseteq tools[i].properties
      BY <3>5 DEF SchemaParamNames
    <3>6. QED
      BY <2>5, <3>2, <3>4, <3>5
  <2>6. QED
    BY <2>2, <2>3, <2>4, <2>5
<1>2. Told => ToolsCanBeCalled
  BY <1>1 DEF ToolsCanBeCalled
<1>3. QED
  BY <1>2, ToldAlways, PTL
=============================================================================
