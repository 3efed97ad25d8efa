------------------------- MODULE SearchQueryProofs -------------------------
(***************************************************************************)
(* From the search box to an answer, proved for every index, every text    *)
(* and every runtime.                                                      *)
(***************************************************************************)
EXTENDS SearchQuery, TLAPS, FiniteSetTheorems, FunctionTheorems, SequenceTheorems,
        WellFoundedInduction

-----------------------------------------------------------------------------
(* Induction, with a set in place of the predicate.                        *)

LEMMA LeastNumber ==
  ASSUME NEW T, T \subseteq Nat, T # {}
  PROVE  \E x \in T : \A y \in T : x <= y
<1> DEFINE R == OpToRel(<, Nat)
<1>1. IsWellFoundedOn(R, Nat)
  BY NatLessThanWellFounded
<1>2. \A x, y \in Nat : x < y => <<x, y>> \in R
  BY DEF OpToRel
<1> HIDE DEF R
<1>3. \E x \in T : \A y \in T : ~(<<y, x>> \in R)
  BY <1>1, WFMin
<1>4. \A x, y \in Nat : ~(<<y, x>> \in R) => x <= y
  BY <1>2
<1> QED BY <1>3, <1>4

LEMMA Induction ==
  ASSUME NEW S, 0 \in S, \A n \in Nat : n \in S => n + 1 \in S
  PROVE  Nat \subseteq S
<1> DEFINE T == Nat \ S
<1>1. CASE T # {}
  <2>1. PICK x \in T : \A y \in T : x <= y
    BY <1>1, LeastNumber
  <2>2. x # 0 /\ x \in Nat /\ x - 1 \in Nat
    OBVIOUS
  <2>3. x - 1 \in S
    BY <2>1, <2>2
  <2>4. (x - 1) + 1 = x
    BY <2>2
  <2> QED BY <2>2, <2>3, <2>4
<1> QED BY <1>1

LEMMA SeqInduction ==
  ASSUME NEW T, NEW S, <<>> \in S,
         \A s \in Seq(T), t \in T : s \in S => Append(s, t) \in S
  PROVE  Seq(T) \subseteq S
<1> DEFINE N == {n \in Nat : \A s \in Seq(T) : Len(s) = n => s \in S}
<1>1. 0 \in N
  BY EmptySeq
<1>2. ASSUME NEW n \in Nat, n \in N
      PROVE  n + 1 \in N
  <2>1. ASSUME NEW s \in Seq(T), Len(s) = n + 1
        PROVE  s \in S
    <3> DEFINE u == SubSeq(s, 1, n)
    <3>1. u \in Seq(T) /\ Len(u) = n /\ s[n + 1] \in T
      BY <2>1
    <3>2. s = Append(u, s[n + 1])
      BY <2>1, <3>1
    <3> HIDE DEF u
    <3> QED BY <1>2, <3>1, <3>2
  <2> QED BY <2>1
<1>3. Nat \subseteq N
  <2> HIDE DEF N
  <2> QED BY <1>1, <1>2, Induction
<1> QED BY <1>3

-----------------------------------------------------------------------------
(* What ParseStage computes.                                               *)

Reading(g, stage, d, n) ==
  g = [i \in 0 .. n |-> IF i = 0 THEN NoFilter ELSE Read(g[i - 1], stage[i], d)]

LEMMA ReadingExists ==
  ASSUME NEW stage, NEW d, NEW n \in Nat
  PROVE  \E g : Reading(g, stage, d, n)
<1> DEFINE N == {m \in Nat : \E g : Reading(g, stage, d, m)}
<1>1. 0 \in N
  <2> DEFINE g == [i \in 0 .. 0 |-> NoFilter]
  <2>1. Reading(g, stage, d, 0)
    BY DEF Reading
  <2> QED BY <2>1
<1>2. ASSUME NEW m \in Nat, m \in N
      PROVE  m + 1 \in N
  <2>1. PICK g : Reading(g, stage, d, m)
    BY <1>2
  <2> DEFINE h == [i \in 0 .. (m + 1) |-> IF i = m + 1 THEN Read(g[m], stage[i], d) ELSE g[i]]
  <2>2. \A i \in 0 .. m : g[i] = IF i = 0 THEN NoFilter ELSE Read(g[i - 1], stage[i], d)
    BY <2>1 DEF Reading
  <2>3. \A i \in 0 .. (m + 1) : h[i] = IF i = 0 THEN NoFilter ELSE Read(h[i - 1], stage[i], d)
    BY <2>2
  <2>4. Reading(h, stage, d, m + 1)
    <3> HIDE DEF h
    <3>1. h = [i \in 0 .. (m + 1) |-> h[i]]
      BY DEF h
    <3> QED BY <2>3, <3>1 DEF Reading
  <2> QED BY <2>4
<1>3. Nat \subseteq N
  <2> HIDE DEF N
  <2> QED BY <1>1, <1>2, Induction
<1> QED BY <1>3

LEMMA ParseIsReading ==
  ASSUME NEW stage, NEW d, Len(stage) \in Nat
  PROVE  \E g : Reading(g, stage, d, Len(stage)) /\ ParseStage(stage, d) = g[Len(stage)]
<1> DEFINE g == CHOOSE f : Reading(f, stage, d, Len(stage))
<1>1. Reading(g, stage, d, Len(stage))
  BY ReadingExists
<1>2. ParseStage(stage, d) = g[Len(stage)]
  BY DEF ParseStage, Reading
<1> QED BY <1>1, <1>2

LEMMA ReadingsAgree ==
  ASSUME NEW s, NEW u, NEW d, NEW m \in Nat, NEW n \in Nat, m <= n,
         \A i \in 1 .. m : s[i] = u[i],
         NEW g, NEW h, Reading(g, s, d, m), Reading(h, u, d, n)
  PROVE  g[m] = h[m]
<1> DEFINE N == {k \in Nat : k <= m => g[k] = h[k]}
<1>1. /\ \A i \in 0 .. m : g[i] = IF i = 0 THEN NoFilter ELSE Read(g[i - 1], s[i], d)
      /\ \A i \in 0 .. n : h[i] = IF i = 0 THEN NoFilter ELSE Read(h[i - 1], u[i], d)
  BY DEF Reading
<1>2. 0 \in N
  BY <1>1
<1>3. ASSUME NEW k \in Nat, k \in N
      PROVE  k + 1 \in N
  <2>1. CASE k + 1 <= m
    <3>1. /\ g[k + 1] = Read(g[k], s[k + 1], d)
          /\ h[k + 1] = Read(h[k], u[k + 1], d)
      BY <1>1, <2>1
    <3> QED BY <1>3, <2>1, <3>1
  <2> QED BY <2>1
<1>4. Nat \subseteq N
  <2> HIDE DEF N
  <2> QED BY <1>2, <1>3, Induction
<1> QED BY <1>4

\* Nothing typed is no filter.
LEMMA ParseNothing ==
  ASSUME NEW d
  PROVE  ParseStage(<<>>, d) = NoFilter
<1>1. PICK g : Reading(g, <<>>, d, 0) /\ ParseStage(<<>>, d) = g[0]
  BY ParseIsReading
<1> QED BY <1>1 DEF Reading

\* One more token is one more step of the parser.
LEMMA ParseToken ==
  ASSUME NEW T, NEW s \in Seq(T), NEW t \in T, NEW d
  PROVE  ParseStage(Append(s, t), d) = Read(ParseStage(s, d), t, d)
<1> DEFINE n == Len(s)
           u == Append(s, t)
<1>1. n \in Nat /\ Len(u) = n + 1 /\ u[n + 1] = t /\ \A i \in 1 .. n : s[i] = u[i]
  OBVIOUS
<1> HIDE DEF n, u
<1>2. PICK g : Reading(g, s, d, n) /\ ParseStage(s, d) = g[n]
  BY <1>1, ParseIsReading DEF n
<1>3. PICK h : Reading(h, u, d, n + 1) /\ ParseStage(u, d) = h[n + 1]
  BY <1>1, ParseIsReading
<1>4. g[n] = h[n]
  BY <1>1, <1>2, <1>3, ReadingsAgree
<1>5. h[n + 1] = Read(h[n], u[n + 1], d)
  BY <1>1, <1>3 DEF Reading
<1> QED BY <1>1, <1>2, <1>3, <1>4, <1>5 DEF u

-----------------------------------------------------------------------------
(* Answers are whole or errors.                                            *)

LEMMA CutAll ==
  ASSUME NEW S, IsFiniteSet(S)
  PROVE  Cut(S, 0) = {S}
<1>1. ASSUME NEW s \in SUBSET S, Cardinality(s) = Cardinality(S)
      PROVE  s = S
  BY <1>1, FS_Subset
<1> QED BY <1>1 DEF Cut

LEMMA CutNone ==
  ASSUME NEW limit \in Nat
  PROVE  Cut({}, limit) = {{}}
<1>1. Cardinality({}) = 0
  BY FS_EmptySet
<1>2. 0 <= limit
  OBVIOUS
<1>3. Min({limit, 0}) = 0
  <2>1. \A x \in {limit, 0} : 0 <= x
    BY <1>2
  <2>2. \A m \in {limit, 0} : (\A x \in {limit, 0} : m <= x) => m = 0
    BY <1>2
  <2> QED BY <2>1, <2>2 DEF Min
<1> QED BY <1>1, <1>3 DEF Cut

\* What an answer is, whatever the question.
Sound(answers) ==
  \A a \in answers :
    /\ a.hits \subseteq library /\ a.error \in Errors
    /\ a.error # "none" => a.hits = {}

\* An answer without an error is taken from the only one there is with no limit
\* and a runtime that works.
TakenFrom(answers, whole, limit) ==
  \A a \in answers :
    a.error = "none" => \E S \in SUBSET library : whole = {Found(S)} /\ a.hits \in Cut(S, limit)

LEMMA RowsAreSound ==
  ASSUME NEW S \in SUBSET library, NEW limit
  PROVE  Sound({Found(rows) : rows \in Cut(S, limit)})
<1>1. \A rows \in Cut(S, limit) : rows \subseteq library
  BY DEF Cut
<1>2. \A rows : Found(rows).hits = rows /\ Found(rows).error = "none"
  BY DEF Found
<1>3. "none" \in Errors
  BY DEF Errors
<1> QED BY <1>1, <1>2, <1>3 DEF Sound

LEMMA RowsAreTaken ==
  ASSUME IsFiniteSet(library), NEW S \in SUBSET library, NEW limit
  PROVE  TakenFrom({Found(rows) : rows \in Cut(S, limit)},
                   {Found(rows) : rows \in Cut(S, 0)}, limit)
<1>1. Cut(S, 0) = {S}
  BY FS_Subset, CutAll
<1> QED BY <1>1 DEF TakenFrom, Found

LEMMA RefusalIsSound ==
  ASSUME NEW why \in Errors \ {"none"}, NEW whole, NEW limit
  PROVE  Sound({Refusal(why)}) /\ TakenFrom({Refusal(why)}, whole, limit)
BY DEF Sound, TakenFrom, Refusal

LEMMA NothingIsSound ==
  ASSUME NEW limit \in Nat
  PROVE  Sound({Found({})}) /\ TakenFrom({Found({})}, {Found({})}, limit)
BY CutNone DEF Sound, TakenFrom, Found, Errors

LEMMA FilesAreSound ==
  ASSUME IsFiniteSet(library), NEW q, NEW limit, NEW d, NEW broken
  PROVE  /\ Sound(SearchFiles(q, limit, d, broken))
         /\ TakenFrom(SearchFiles(q, limit, d, broken), SearchFiles(q, 0, d, {}), limit)
<1> DEFINE S == Kept(q, d)
<1>1. S \subseteq library
  BY DEF Kept, RuntimeRows
<1>2. SearchFiles(q, 0, d, {}) = {Found(rows) : rows \in Cut(S, 0)}
  BY DEF SearchFiles
<1>3. CASE "files" \in broken
  BY <1>3, RefusalIsSound DEF SearchFiles, Errors
<1>4. CASE "files" \notin broken
  <2>1. SearchFiles(q, limit, d, broken) = {Found(rows) : rows \in Cut(S, limit)}
    BY <1>4 DEF SearchFiles
  <2> HIDE DEF S
  <2> QED BY <1>1, <1>2, <2>1, RowsAreSound, RowsAreTaken
<1> QED BY <1>3, <1>4

LEMMA ContentIsSound ==
  ASSUME IsFiniteSet(library), NEW text, NEW ids, NEW limit, NEW broken
  PROVE  /\ Sound(ContentCall(text, ids, limit, broken))
         /\ TakenFrom(ContentCall(text, ids, limit, broken), ContentCall(text, ids, 0, {}), limit)
<1> DEFINE S == {f \in ContentRows(text, ids) : SearchableText(f)}
<1>1. S \subseteq library
  BY DEF ContentRows
<1>2. ContentCall(text, ids, 0, {}) = {Found(rows) : rows \in Cut(S, 0)}
  BY DEF ContentCall
<1>3. CASE "content" \in broken
  BY <1>3, RefusalIsSound DEF ContentCall, Errors
<1>4. CASE "content" \notin broken
  <2>1. ContentCall(text, ids, limit, broken) = {Found(rows) : rows \in Cut(S, limit)}
    BY <1>4 DEF ContentCall
  <2> HIDE DEF S
  <2> QED BY <1>1, <1>2, <2>1, RowsAreSound, RowsAreTaken
<1> QED BY <1>3, <1>4

\* The constraints of a content query, as a filter for files.
Own(f) == [f EXCEPT !.content = FALSE, !.text = <<>>, !.terms = {}]

\* Which search a content search becomes.
LEMMA ContentPlan ==
  ASSUME NEW f, NEW ids, NEW restricted, NEW limit, NEW d, NEW broken
  PROVE  SearchContent(f, ids, restricted, limit, d, broken) =
           IF engine.readOnly THEN {Refusal("still indexing")}
           ELSE IF ~engine.content THEN {Refusal("not supported")}
           ELSE IF f.text = <<>> THEN {Found({})}
           ELSE IF restricted \/ Own(f) = NoFilter THEN ContentCall(f.text, ids, limit, broken)
           ELSE IF "files" \in broken THEN {Refusal("search failed")}
           ELSE IF Candidates(Kept(<<Compile(Own(f), d)>>, d)) = {} THEN {Found({})}
           ELSE ContentCall(f.text, Candidates(Kept(<<Compile(Own(f), d)>>, d)), limit, broken)
BY DEF SearchContent, Within, Own

LEMMA ContentSearchIsSound ==
  ASSUME IsFiniteSet(library), NEW f, NEW ids, NEW restricted, NEW limit \in Nat, NEW d,
         NEW broken
  PROVE  /\ Sound(SearchContent(f, ids, restricted, limit, d, broken))
         /\ TakenFrom(SearchContent(f, ids, restricted, limit, d, broken),
                      SearchContent(f, ids, restricted, 0, d, {}), limit)
<1>1. {"still indexing", "not supported", "search failed"} \subseteq Errors \ {"none"}
  BY DEF Errors
<1> QED BY <1>1, ContentPlan, RefusalIsSound, NothingIsSound, ContentIsSound

LEMMA DrillPlan ==
  ASSUME NEW q, NEW limit, NEW d, NEW broken
  PROVE  Drill(q, limit, d, broken) =
           IF "files" \in broken THEN {Refusal("search failed")}
           ELSE IF Candidates(Kept(Front(q), d)) = {} THEN {Found({})}
           ELSE SearchContent(ParseStage(Last(q), d), Candidates(Kept(Front(q), d)), TRUE,
                              limit, d, broken)
BY DEF Drill, Within

\* Every answer of RuntimeClient::search is sound, and the whole one but for its
\* limit.
LEMMA AnswersAreSound ==
  ASSUME IsFiniteSet(library), NEW q, NEW limit \in Nat, NEW d, NEW broken
  PROVE  /\ Sound(Answers(q, limit, d, broken))
         /\ TakenFrom(Answers(q, limit, d, broken), Answers(q, 0, d, {}), limit)
<1>1. {"search failed", "/inside must be the final stage"} \subseteq Errors \ {"none"}
  BY DEF Errors
<1>2. CASE ContentStages(q, d) = {}
  BY <1>2, FilesAreSound DEF Answers
<1>3. CASE ContentStages(q, d) # {} /\ Len(q) = 1
  BY <1>3, ContentSearchIsSound DEF Answers
<1>4. CASE ContentStages(q, d) # {} /\ Len(q) # 1 /\ ContentStages(q, d) = {Len(q)}
  <2>1. \A l, b : Answers(q, l, d, b) = Drill(q, l, d, b)
    BY <1>4 DEF Answers
  <2>2. /\ Sound(Drill(q, limit, d, broken))
        /\ TakenFrom(Drill(q, limit, d, broken), Drill(q, 0, d, {}), limit)
    BY <1>1, DrillPlan, RefusalIsSound, NothingIsSound, ContentSearchIsSound
  <2> QED BY <2>1, <2>2
<1>5. CASE ContentStages(q, d) # {} /\ Len(q) # 1 /\ ContentStages(q, d) # {Len(q)}
  BY <1>1, <1>5, RefusalIsSound DEF Answers
<1> QED BY <1>2, <1>3, <1>4, <1>5

-----------------------------------------------------------------------------
(* The specification.                                                      *)

\* A slash typed, or a completion taken, is still a token.
LEMMA CompletionsAreTokens ==
  ASSUME library \subseteq Files, NEW d, NEW slashes
  PROVE  Autocomplete(d, slashes) \subseteq Token
<1> {NoWord, "claude", "codex", "font", "index", "drive", "reindex", "roots"} \subseteq Words
  BY SearchAssumption
<1>1. \A n \in {1, 2}, w \in Words : Command(n, w) \in Token
  BY DEF Command, Token, Kinds
<1>2. \A n \in {1, 2}, k \in Kinds, day \in Int : Operator(n, k, day) \in Token
  BY DEF Operator, Token
<1>3. \A w \in Words : Control("word", w, 0, "unix") \in Token
  BY DEF Control, Prefix, Token, Kinds
<1>4. \A f \in library : f.ext \in Words
  BY DEF Files
<1>5. {"pin", "relative", "recent", "inside"} \subseteq Kinds
  BY DEF Kinds
<1>6. Universal(d) \subseteq Token
  BY <1>1, <1>2, <1>5 DEF Universal
<1>7. UnixFixed \subseteq Token
  BY <1>1, <1>2, <1>3, <1>4, <1>5 DEF UnixFixed
<1> QED BY <1>6, <1>7 DEF Autocomplete

LEMMA EditKeepsQuery ==
  ASSUME NEW q \in Seq(Seq(Token)), q # <<>>, NEW t \in Token
  PROVE  /\ ReplaceAt(q, Len(q), Append(Last(q), t)) \in Seq(Seq(Token)) \ {<<>>}
         /\ Append(q, <<>>) \in Seq(Seq(Token)) \ {<<>>}
<1>1. Len(q) \in 1 .. Len(q) /\ Last(q) \in Seq(Token)
  BY DEF Last
<1>2. Append(Last(q), t) \in Seq(Token)
  BY <1>1
<1>3. /\ ReplaceAt(q, Len(q), Append(Last(q), t)) \in Seq(Seq(Token))
      /\ Len(ReplaceAt(q, Len(q), Append(Last(q), t))) = Len(q)
  BY <1>1, <1>2 DEF ReplaceAt
<1>4. Append(q, <<>>) \in Seq(Seq(Token)) /\ Len(Append(q, <<>>)) # 0
  OBVIOUS
<1> QED BY <1>1, <1>3, <1>4

LEMMA NotAskedIsSound == NotAsked.hits = {} /\ NotAsked.error \in Errors
BY DEF NotAsked, Errors

\* What every state has: an answer that was asked for is the answer to the text
\* in the box.
QInv ==
  /\ TypeOK
  /\ IsFiniteSet(library) /\ library \subseteq Files
  /\ offered \subseteq Autocomplete(dialect, 1) \cup Autocomplete(dialect, 2)
  /\ \/ answer = NotAsked
     \/ \E limit \in Nat : \E broken, a :
          /\ a \in Answers(query, limit, dialect, broken)
          /\ answer = [hits |-> a.hits, error |-> a.error, limit |-> limit]

LEMMA QInit == Init => QInv
<1> SUFFICES ASSUME Init PROVE QInv
  OBVIOUS
<1>1. IsFiniteSet(library) /\ library \subseteq Files /\ query \in Seq(Seq(Token)) \ {<<>>}
  BY SearchAssumption DEF Init
<1>2. TypeOK
  BY <1>1, SearchAssumption, NotAskedIsSound DEF Init, TypeOK
<1> QED BY <1>1, <1>2 DEF Init, QInv

\* Only the search box changes while one types.
LEMMA EditKeeps ==
  ASSUME QInv, NEW q \in Seq(Seq(Token)) \ {<<>>}, Edit(q),
         offered' \subseteq Autocomplete(dialect, 1) \cup Autocomplete(dialect, 2)
  PROVE  QInv'
<1>1. /\ typed' \in 0 .. TypeLimit /\ query' = q /\ answer' = NotAsked
      /\ UNCHANGED <<dialect, now, library, engine>>
  BY SearchAssumption DEF Edit, QInv, TypeOK
<1>2. TypeOK'
  BY <1>1, NotAskedIsSound DEF QInv, TypeOK
<1> QED BY <1>1, <1>2 DEF QInv, Autocomplete, Universal, UnixFixed

\* What a search returns depends on the index, the runtime and the clock, none of
\* which a step changes.
LEMMA SameAnswers ==
  ASSUME UNCHANGED <<now, library, engine>>
  PROVE  \A q, limit, d, broken : Answers(q, limit, d, broken)' = Answers(q, limit, d, broken)
<1>1. Registered' = Registered
  BY DEF Registered
<1>2. \A f, t : ApplyDate(f, t)' = ApplyDate(f, t)
  BY DEF ApplyDate, DayStart
<1>3. \A f, t, d : Read(f, t, d)' = Read(f, t, d)
  BY <1>1, <1>2 DEF Read
<1>4. \A s, d : ParseStage(s, d)' = ParseStage(s, d)
  BY <1>3 DEF ParseStage
<1>5. \A q, d : Parse(q, d)' = Parse(q, d)
  BY <1>4 DEF Parse
<1>6. \A line, d : RuntimeRows(line, d)' = RuntimeRows(line, d)
  BY <1>4 DEF RuntimeRows
<1>7. \A q, d : Kept(q, d)' = Kept(q, d)
  BY <1>5, <1>6 DEF Kept
<1>8. \A q, limit, d, broken : SearchFiles(q, limit, d, broken)' = SearchFiles(q, limit, d, broken)
  BY <1>7 DEF SearchFiles
<1>9. \A text, ids : ContentRows(text, ids)' = ContentRows(text, ids)
  BY DEF ContentRows
<1>10. \A text, ids, limit, broken :
         ContentCall(text, ids, limit, broken)' = ContentCall(text, ids, limit, broken)
  BY <1>9 DEF ContentCall
<1>11. \A f, ids, r, limit, d, broken :
         SearchContent(f, ids, r, limit, d, broken)' = SearchContent(f, ids, r, limit, d, broken)
  <2> SUFFICES ASSUME NEW f, NEW ids, NEW r, NEW limit, NEW d, NEW broken
               PROVE  SearchContent(f, ids, r, limit, d, broken)'
                        = SearchContent(f, ids, r, limit, d, broken)
    OBVIOUS
  <2> DEFINE own == <<Compile(Own(f), d)>>
             rows == Candidates(Kept(own, d))
             plan == IF engine.readOnly THEN {Refusal("still indexing")}
                     ELSE IF ~engine.content THEN {Refusal("not supported")}
                     ELSE IF f.text = <<>> THEN {Found({})}
                     ELSE IF r \/ Own(f) = NoFilter THEN ContentCall(f.text, ids, limit, broken)
                     ELSE IF "files" \in broken THEN {Refusal("search failed")}
                     ELSE IF rows = {} THEN {Found({})}
                     ELSE ContentCall(f.text, rows, limit, broken)
  <2>1. SearchContent(f, ids, r, limit, d, broken) = plan
    BY ContentPlan
  <2>2. SearchContent(f, ids, r, limit, d, broken)' = plan'
    BY DEF SearchContent, Within, Own
  <2>3. rows' = rows
    BY <1>7
  <2> HIDE DEF own, rows
  <2>4. plan' = plan
    BY <1>10, <2>3
  <2> HIDE DEF plan
  <2> QED BY <2>1, <2>2, <2>4
<1>12. \A q, limit, d, broken : Drill(q, limit, d, broken)' = Drill(q, limit, d, broken)
  BY <1>4, <1>7, <1>11 DEF Drill, Within
<1>13. \A q, d : ContentStages(q, d)' = ContentStages(q, d)
  BY <1>4 DEF ContentStages
<1> SUFFICES ASSUME NEW q, NEW limit, NEW d, NEW broken
             PROVE  Answers(q, limit, d, broken)' = Answers(q, limit, d, broken)
  OBVIOUS
<1>14. /\ ContentStages(q, d)' = ContentStages(q, d)
       /\ SearchFiles(q, limit, d, broken)' = SearchFiles(q, limit, d, broken)
       /\ SearchContent(Parse(q, d), {}, FALSE, limit, d, broken)'
            = SearchContent(Parse(q, d), {}, FALSE, limit, d, broken)
       /\ Drill(q, limit, d, broken)' = Drill(q, limit, d, broken)
  BY <1>5, <1>8, <1>11, <1>12, <1>13
<1> QED BY <1>14 DEF Answers

LEMMA SearchKeeps ==
  ASSUME QInv, NEW limit \in ResultLimits, NEW broken, Search(limit, broken)
  PROVE  QInv'
<1>1. PICK a \in Answers(query, limit, dialect, broken) :
        answer' = [hits |-> a.hits, error |-> a.error, limit |-> limit]
  BY DEF Search
<1>2. UNCHANGED <<dialect, now, library, engine, query, offered, typed>> /\ limit \in Nat
  BY SearchAssumption DEF Search
<1>3. a.hits \subseteq library /\ a.error \in Errors /\ (a.error # "none" => a.hits = {})
  BY <1>2, AnswersAreSound DEF QInv, Sound
<1>4. TypeOK'
  BY <1>1, <1>2, <1>3 DEF QInv, TypeOK
<1>5. a \in Answers(query, limit, dialect, broken)'
  BY <1>2, SameAnswers
<1> QED BY <1>1, <1>2, <1>4, <1>5 DEF QInv, Autocomplete, Universal, UnixFixed

LEMMA QNext == QInv /\ [Next]_vars => QInv'
<1> SUFFICES ASSUME QInv, [Next]_vars PROVE QInv'
  OBVIOUS
<1> USE DEF QInv, TypeOK
<1>1. ASSUME NEW t \in Tokens, Type(t)
      PROVE  QInv'
  <2>1. t \in Token
    BY SearchAssumption
  <2> QED BY <1>1, <2>1, EditKeepsQuery, EditKeeps DEF Type, Extended
<1>2. ASSUME Branch
      PROVE  QInv'
  <2>1. Append(query, <<>>) \in Seq(Seq(Token)) \ {<<>>}
    OBVIOUS
  <2> QED BY <1>2, <2>1, EditKeeps DEF Branch
<1>3. ASSUME NEW t \in Autocomplete(dialect, 1) \cup Autocomplete(dialect, 2), Complete(t)
      PROVE  QInv'
  <2>1. t \in Token
    BY CompletionsAreTokens
  <2> QED BY <1>3, <2>1, EditKeepsQuery, EditKeeps DEF Complete, Extended
<1>4. ASSUME NEW limit \in ResultLimits, NEW broken, Search(limit, broken)
      PROVE  QInv'
  BY <1>4, SearchKeeps
<1>5. ASSUME UNCHANGED vars
      PROVE  QInv'
  <2>1. \A q, limit, d, broken : Answers(q, limit, d, broken)' = Answers(q, limit, d, broken)
    BY <1>5, SameAnswers DEF vars
  <2> QED BY <1>5, <2>1 DEF vars, Autocomplete, Universal, UnixFixed
<1> QED BY <1>1, <1>2, <1>3, <1>4, <1>5 DEF Next

\* The invariant of the search box.
THEOREM SearchInvariant == Spec => []QInv
BY QInit, QNext, PTL DEF Spec

\* For every text that can be typed and every runtime: an answer is rows of the
\* index, or an error and no rows.
THEOREM SearchTypeCorrect == Spec => []TypeOK
<1>1. QInv => TypeOK
  BY DEF QInv
<1> QED BY <1>1, SearchInvariant, PTL

\* For every index and every runtime, whichever calls fail: an answer without an
\* error is all there is to find, or as much of it as the caller asked for.
THEOREM AnswersAreWhole == Spec => []AnswerIsWhole
<1>1. QInv => AnswerIsWhole
  <2> SUFFICES ASSUME QInv, Answered PROVE answer.hits \in Cut(Whole, answer.limit)
    BY DEF AnswerIsWhole
  <2>1. answer # NotAsked
    <3>1. NotAsked.error = "not asked"
      BY DEF NotAsked
    <3> QED BY <3>1 DEF Answered
  <2>2. PICK limit \in Nat : \E broken, a :
          /\ a \in Answers(query, limit, dialect, broken)
          /\ answer = [hits |-> a.hits, error |-> a.error, limit |-> limit]
    BY <2>1 DEF QInv
  <2>3. PICK broken, a :
          /\ a \in Answers(query, limit, dialect, broken)
          /\ answer = [hits |-> a.hits, error |-> a.error, limit |-> limit]
    BY <2>2
  <2>4. PICK S \in SUBSET library :
          Answers(query, 0, dialect, {}) = {Found(S)} /\ a.hits \in Cut(S, limit)
    BY <2>3, AnswersAreSound DEF QInv, TakenFrom, Answered
  <2>5. Whole = S
    <3>1. Found(S).hits = S
      BY DEF Found
    <3> QED BY <2>4, <3>1 DEF Whole
  <2> QED BY <2>3, <2>4, <2>5
<1> QED BY <1>1, SearchInvariant, PTL

-----------------------------------------------------------------------------
(* The drill from files to their contents.                                 *)

LEMMA OnlyAnswer ==
  ASSUME IsFiniteSet(library), NEW q, NEW d, NEW broken,
         NEW a \in Answers(q, 0, d, broken), a.error = "none"
  PROVE  Answers(q, 0, d, {}) = {Found(a.hits)}
<1>1. PICK S \in SUBSET library : Answers(q, 0, d, {}) = {Found(S)} /\ a.hits \in Cut(S, 0)
  BY AnswersAreSound DEF TakenFrom
<1>2. a.hits = S
  BY <1>1, CutAll, FS_Subset
<1> QED BY <1>1, <1>2

LEMMA FoundIsFound ==
  ASSUME NEW S, NEW R, {Found(S)} = {Found(R)}
  PROVE  S = R
<1>1. Found(S).hits = S /\ Found(R).hits = R
  BY DEF Found
<1>2. Found(S) = Found(R)
  OBVIOUS
<1> QED BY <1>1, <1>2

\* What a runtime that works finds in the contents of some candidates.
LEMMA ContentAnswer ==
  ASSUME IsFiniteSet(library), NEW text, NEW ids
  PROVE  ContentCall(text, ids, 0, {})
           = {Found(IF ids = {} THEN Readable(text) ELSE Readable(text) \cap ids)}
<1> DEFINE S == {f \in ContentRows(text, ids) : SearchableText(f)}
<1>1. S = IF ids = {} THEN Readable(text) ELSE Readable(text) \cap ids
  BY DEF ContentRows, Readable
<1>2. IsFiniteSet(S)
  BY FS_Subset DEF ContentRows
<1>3. ContentCall(text, ids, 0, {}) = {Found(rows) : rows \in Cut(S, 0)}
  BY DEF ContentCall
<1> HIDE DEF S
<1> QED BY <1>1, <1>2, <1>3, CutAll

LEMMA DrillAnswer ==
  ASSUME IsFiniteSet(library), NEW q, NEW d, NEW S, Drill(q, 0, d, {}) = {Found(S)}
  PROVE  S = LET text == ParseStage(Last(q), d).text
             IN IF text = <<>> THEN {} ELSE Kept(Front(q), d) \cap Readable(text)
<1> DEFINE text == ParseStage(Last(q), d).text
           kept == Kept(Front(q), d)
<1>1. kept \cap Readable(text) = Candidates(kept) \cap Readable(text)
  BY DEF Candidates, Readable
<1>2. CASE Candidates(kept) = {}
  <2>1. Drill(q, 0, d, {}) = {Found({})}
    BY <1>2, DrillPlan
  <2> QED BY <1>1, <1>2, <2>1, FoundIsFound
<1>3. CASE Candidates(kept) # {}
  <2>1. Drill(q, 0, d, {}) = SearchContent(ParseStage(Last(q), d), Candidates(kept), TRUE, 0, d, {})
    BY <1>3, DrillPlan
  <2>2. \A why : Refusal(why).error = why
    BY DEF Refusal
  <2>3. Found(S).error = "none"
    BY DEF Found
  <2>4. CASE text = <<>>
    <3>1. \/ Drill(q, 0, d, {}) = {Found({})}
          \/ \E why \in {"still indexing", "not supported"} : Drill(q, 0, d, {}) = {Refusal(why)}
      BY <2>1, <2>4, ContentPlan
    <3>2. Drill(q, 0, d, {}) = {Found({})}
      BY <2>2, <2>3, <3>1
    <3> QED BY <2>4, <3>2, FoundIsFound
  <2>5. CASE text # <<>>
    <3>1. \/ Drill(q, 0, d, {}) = ContentCall(text, Candidates(kept), 0, {})
          \/ \E why \in {"still indexing", "not supported"} : Drill(q, 0, d, {}) = {Refusal(why)}
      BY <2>1, <2>5, ContentPlan
    <3>2. Drill(q, 0, d, {}) = ContentCall(text, Candidates(kept), 0, {})
      BY <2>2, <2>3, <3>1
    <3>3. {Found(S)} = {Found(Readable(text) \cap Candidates(kept))}
      BY <1>3, <3>2, ContentAnswer
    <3>4. S = Readable(text) \cap Candidates(kept)
      BY <3>3, FoundIsFound
    <3> QED BY <1>1, <2>5, <3>4
  <2> QED BY <2>4, <2>5
<1> QED BY <1>2, <1>3

LEMMA AnswerIsOnly ==
  ASSUME QInv, Answered, answer.limit = 0
  PROVE  Answers(query, 0, dialect, {}) = {Found(answer.hits)}
<1>1. answer # NotAsked
  <2>1. NotAsked.error = "not asked"
    BY DEF NotAsked
  <2> QED BY <2>1 DEF Answered
<1>2. PICK limit \in Nat : \E broken, a :
        /\ a \in Answers(query, limit, dialect, broken)
        /\ answer = [hits |-> a.hits, error |-> a.error, limit |-> limit]
  BY <1>1 DEF QInv
<1>3. PICK broken, a :
        /\ a \in Answers(query, limit, dialect, broken)
        /\ answer = [hits |-> a.hits, error |-> a.error, limit |-> limit]
  BY <1>2
<1> QED BY <1>3, OnlyAnswer DEF QInv, Answered

\* For every query with earlier stages: /inside finds exactly the rows of those
\* stages whose contents hold the text.
THEOREM DrillIsExact == Spec => []DrillSearchesCandidates
<1>1. QInv => DrillSearchesCandidates
  <2> SUFFICES ASSUME QInv, Answered, Len(query) > 1, ContentStages(query, dialect) # {},
                      answer.limit = 0
               PROVE  answer.hits = LET text == ParseStage(Last(query), dialect).text
                                    IN IF text = <<>> THEN {}
                                       ELSE Kept(Front(query), dialect) \cap Readable(text)
    BY DEF DrillSearchesCandidates
  <2>1. Answers(query, 0, dialect, {}) = {Found(answer.hits)}
    BY AnswerIsOnly
  <2>2. \/ Answers(query, 0, dialect, {}) = Drill(query, 0, dialect, {})
        \/ Answers(query, 0, dialect, {}) = {Refusal("/inside must be the final stage")}
    <3>1. Len(query) # 1
      <4>1. Len(query) \in Nat
        BY DEF QInv, TypeOK
      <4>2. \A n \in Nat : n > 1 => n # 1
        OBVIOUS
      <4> QED BY <4>1, <4>2
    <3> QED BY <3>1 DEF Answers
  <2>3. Answers(query, 0, dialect, {}) = Drill(query, 0, dialect, {})
    <3>1. Refusal("/inside must be the final stage").error = "/inside must be the final stage"
      BY DEF Refusal
    <3>2. Found(answer.hits).error = "none"
      BY DEF Found
    <3> QED BY <2>1, <2>2, <3>1, <3>2
  <2> QED BY <2>1, <2>3, DrillAnswer DEF QInv
<1> QED BY <1>1, SearchInvariant, PTL

-----------------------------------------------------------------------------
(* Completions.                                                            *)

LEMMA ParseOne ==
  ASSUME NEW t, NEW d
  PROVE  ParseStage(<<t>>, d) = Read(NoFilter, t, d)
<1>1. <<>> \in Seq({t}) /\ Append(<<>>, t) = <<t>>
  OBVIOUS
<1> QED BY <1>1, ParseToken, ParseNothing

\* The five things a token can be.
Scopes(t) == t.kind = "inside" /\ t.slashes = 1
Pins(t, d) == t.kind = "pin" /\ Prefixed(t, d)
Extends(t, d) == t.kind = "word" /\ Prefixed(t, d) /\ t.word \in Registered
IsText(t, d) == ~Scopes(t) /\ ~IsDate(t, d) /\ ~Pins(t, d) /\ ~Extends(t, d)

LEMMA ReadByClass ==
  ASSUME NEW f, NEW t, NEW d
  PROVE  /\ Scopes(t) => Read(f, t, d) = [f EXCEPT !.content = TRUE]
         /\ IsDate(t, d) => Read(f, t, d) = ApplyDate(f, t)
         /\ Pins(t, d) => Read(f, t, d) = [f EXCEPT !.pinned = TRUE]
         /\ Extends(t, d) => Read(f, t, d) = [f EXCEPT !.exts = @ \cup {t.word}]
         /\ IsText(t, d) => Read(f, t, d) = [f EXCEPT !.text = Append(@, t)]
<1>1. CASE Scopes(t)
  <2>1. ~IsDate(t, d) /\ ~Pins(t, d) /\ ~Extends(t, d)
    BY <1>1 DEF Scopes, Pins, Extends, IsDate
  <2>2. Read(f, t, d) = [f EXCEPT !.content = TRUE]
    BY <1>1, <2>1 DEF Read, Scopes, Pins, Extends
  <2> QED BY <1>1, <2>1, <2>2 DEF IsText
<1>2. CASE IsDate(t, d)
  <2>1. ~Scopes(t) /\ ~Pins(t, d) /\ ~Extends(t, d)
    BY <1>2 DEF Scopes, Pins, Extends, IsDate
  <2>2. Read(f, t, d) = ApplyDate(f, t)
    BY <1>2, <2>1 DEF Read, Scopes, Pins, Extends
  <2> QED BY <1>2, <2>1, <2>2 DEF IsText
<1>3. CASE ~Scopes(t) /\ ~IsDate(t, d)
  <2>1. ~(Pins(t, d) /\ Extends(t, d))
    BY DEF Pins, Extends
  <2>2. CASE Pins(t, d)
    <3>1. Read(f, t, d) = [f EXCEPT !.pinned = TRUE]
      BY <1>3, <2>2 DEF Read, Scopes, Pins
    <3> QED BY <1>3, <2>1, <2>2, <3>1 DEF IsText
  <2>3. CASE Extends(t, d)
    <3>1. Read(f, t, d) = [f EXCEPT !.exts = @ \cup {t.word}]
      BY <1>3, <2>1, <2>3 DEF Read, Scopes, Pins, Extends
    <3> QED BY <1>3, <2>1, <2>3, <3>1 DEF IsText
  <2>4. CASE IsText(t, d)
    <3>1. Read(f, t, d) = [f EXCEPT !.text = Append(@, t)]
      BY <2>4 DEF Read, Scopes, Pins, Extends, IsText
    <3> QED BY <2>4, <3>1 DEF IsText
  <2> QED BY <1>3, <2>2, <2>3, <2>4 DEF IsText
<1> QED BY <1>1, <1>2, <1>3

LEMMA DateIsNoText ==
  ASSUME NEW t
  PROVE  ApplyDate(NoFilter, t).text = <<>>
BY DEF ApplyDate, NoFilter

\* For every index on either platform: whatever the search box offers is a
\* command or an operator once it is taken.
THEOREM OffersAreUnderstood == Spec => []SuggestedIsUnderstood
<1>1. QInv => SuggestedIsUnderstood
  <2> SUFFICES ASSUME QInv, NEW t \in offered
               PROVE  \/ IsCommand(<< <<t>> >>, dialect)
                      \/ ParseStage(<<t>>, dialect).text = <<>>
    BY DEF SuggestedIsUnderstood
  <2>0. (Scopes(t) \/ IsDate(t, dialect) \/ Pins(t, dialect) \/ Extends(t, dialect)) =>
           ParseStage(<<t>>, dialect).text = <<>>
    <3>1. ParseStage(<<t>>, dialect) = Read(NoFilter, t, dialect)
      BY ParseOne
    <3>2. /\ [NoFilter EXCEPT !.content = TRUE].text = <<>>
          /\ [NoFilter EXCEPT !.pinned = TRUE].text = <<>>
          /\ [NoFilter EXCEPT !.exts = @ \cup {t.word}].text = <<>>
      BY DEF NoFilter
    <3>3. /\ Scopes(t) => Read(NoFilter, t, dialect) = [NoFilter EXCEPT !.content = TRUE]
          /\ IsDate(t, dialect) => Read(NoFilter, t, dialect) = ApplyDate(NoFilter, t)
          /\ Pins(t, dialect) => Read(NoFilter, t, dialect) = [NoFilter EXCEPT !.pinned = TRUE]
          /\ Extends(t, dialect) =>
               Read(NoFilter, t, dialect) = [NoFilter EXCEPT !.exts = @ \cup {t.word}]
      BY ReadByClass
    <3> QED BY <3>1, <3>2, <3>3, DateIsNoText
  <2>1. dialect \in {"windows", "unix"}
    BY SearchAssumption DEF QInv, TypeOK
  <2>2. t \in Universal(dialect) \/ (dialect = "unix" /\ t \in UnixFixed)
    BY DEF QInv, Autocomplete
  <2>3. NoFilter.text = <<>>
    BY DEF NoFilter
  <2>4. ASSUME NEW n, NEW w, t = Command(n, w)
        PROVE  IsCommand(<< <<t>> >>, dialect) <=>
                 \/ w \in {"claude", "codex"} /\ n \in {1, Prefix(dialect)}
                 \/ w \in {"font", "index", "drive", "reindex", "roots"} /\ n = Prefix(dialect)
    <3>1. t.kind = "command" /\ t.word = w /\ t.slashes = n
      BY <2>4 DEF Command
    <3> QED BY <3>1 DEF IsCommand, Prefixed
  <2>5. CASE t = Operator(1, "inside", 0)
    <3>1. Scopes(t)
      BY <2>5 DEF Operator, Scopes
    <3> QED BY <3>1, <2>3, <2>0
  <2>6. CASE t \in {Operator(2, "relative", 0), Operator(2, "relative", -1),
                    Operator(2, "recent", 1)} /\ dialect = "unix"
    <3>1. t.kind \in {"relative", "recent"} /\ t.slashes = Prefix(dialect)
      BY <2>6 DEF Operator, Prefix
    <3>2. IsDate(t, dialect)
      BY <3>1 DEF IsDate, Prefixed
    <3> QED BY <3>2, <2>0
  <2>7. CASE t = Operator(2, "pin", 0) /\ dialect = "unix"
    <3>1. Pins(t, dialect)
      BY <2>7 DEF Operator, Prefix, Prefixed, Pins
    <3> QED BY <3>1, <2>3, <2>0
  <2>8. CASE dialect = "unix" /\ \E f \in library : t = Control("word", f.ext, 0, "unix")
    <3>1. Extends(t, dialect)
      BY <2>8 DEF Control, Registered, Prefixed, Extends
    <3> QED BY <3>1, <2>3, <2>0
  <2>9. CASE \E w \in {"claude", "codex"} : t = Command(1, w)
    BY <2>4, <2>9
  <2>10. CASE dialect = "windows" /\ \E w \in {"drive", "index"} : t = Command(1, w)
    BY <2>4, <2>10 DEF Prefix
  <2>11. CASE dialect = "unix" /\ \E w \in {"font", "index", "drive", "reindex", "roots"} :
                                   t = Command(2, w)
    BY <2>4, <2>11 DEF Prefix
  <2>12. t \in Universal(dialect) =>
           \/ t = Operator(1, "inside", 0)
           \/ \E w \in {"claude", "codex"} : t = Command(1, w)
           \/ dialect = "windows" /\ \E w \in {"drive", "index"} : t = Command(1, w)
    BY DEF Universal
  <2>13. t \in UnixFixed =>
           \/ t \in {Operator(2, "relative", 0), Operator(2, "relative", -1),
                     Operator(2, "recent", 1)}
           \/ t = Operator(2, "pin", 0)
           \/ \E f \in library : t = Control("word", f.ext, 0, "unix")
           \/ \E w \in {"font", "index", "drive", "reindex", "roots"} : t = Command(2, w)
    BY DEF UnixFixed
  <2> QED BY <2>2, <2>5, <2>6, <2>7, <2>8, <2>9, <2>10, <2>11, <2>12, <2>13
<1> QED BY <1>1, SearchInvariant, PTL

-----------------------------------------------------------------------------
(* What parsing yields, and what compiling it and parsing that yields.     *)

\* A set as a sequence has every element of it.
LEMMA SequenceOfSet ==
  ASSUME NEW S, IsFiniteSet(S)
  PROVE  /\ SetToSeq(S) \in Seq(S)
         /\ \A x \in S : \E i \in DOMAIN SetToSeq(S) : SetToSeq(S)[i] = x
<1> DEFINE n == Cardinality(S)
           f == SetToSeq(S)
<1>1. n \in Nat
  BY FS_CardinalityType
<1>2. \E g : g \in [1 .. n -> S] /\ IsInjective(g)
  <2>1. PICK g : g \in Bijection(1 .. n, S)
    BY FS_CardinalityType, Fun_ExistsBij
  <2>2. g \in [1 .. n -> S] /\ \A a, b \in 1 .. n : g[a] = g[b] => a = b
    BY <2>1, Fun_BijectionProperties
  <2> QED BY <2>2 DEF IsInjective
<1>3. f \in [1 .. n -> S] /\ IsInjective(f)
  BY <1>2 DEF SetToSeq
<1>4. f \in Injection(1 .. n, S)
  BY <1>3 DEF Injection
<1>5. Cardinality(1 .. n) = n
  BY <1>1, FS_Interval
<1>6. f \in Surjection(1 .. n, S)
  BY <1>4, <1>5, FS_Injection
<1>7. \A x \in S : \E i \in 1 .. n : f[i] = x
  BY <1>6 DEF Surjection
<1>8. f \in Seq(S) /\ DOMAIN f = 1 .. n
  BY <1>1, <1>3
<1> HIDE DEF f
<1> QED BY <1>7, <1>8 DEF f

LEMMA SequenceOfOne ==
  /\ SetToSeq({}) = <<>>
  /\ \A x : SetToSeq({x}) = <<x>>
<1>1. SetToSeq({}) = <<>>
  <2>1. SetToSeq({}) \in Seq({})
    BY SequenceOfSet, FS_EmptySet
  <2> QED BY <2>1
<1>2. ASSUME NEW x
      PROVE  SetToSeq({x}) = <<x>>
  <2>1. Cardinality({x}) = 1
    BY FS_Singleton
  <2>2. SetToSeq({x}) = CHOOSE f \in [1 .. 1 -> {x}] : IsInjective(f)
    BY <2>1 DEF SetToSeq
  <2>3. \A f \in [1 .. 1 -> {x}] : f = <<x>>
    OBVIOUS
  <2>4. <<x>> \in [1 .. 1 -> {x}] /\ IsInjective(<<x>>)
    BY DEF IsInjective
  <2> QED BY <2>2, <2>3, <2>4
<1> QED BY <1>1, <1>2

Bounds == {{}} \cup {{k} : k \in Int}

\* The filters a parser makes.
Filters(d) ==
  [content : BOOLEAN, text : Seq({t \in Token : IsText(t, d)}),
   exts : {E \in SUBSET Registered : IsFiniteSet(E)}, pinned : BOOLEAN,
   after : Bounds, before : Bounds, terms : {{}}]

LEMMA DateKeepsType ==
  ASSUME now \in Nat, NEW d, NEW f \in Filters(d), NEW t \in Token
  PROVE  ApplyDate(f, t) \in Filters(d)
<1>1. DayLength \in Nat \ {0} /\ t.from \in Int /\ t.to \in Int
  BY SearchAssumption DEF Token
<1>2. /\ t.from * DayLength \in Int
      /\ now - t.from * DayLength \in Int
      /\ now + 1 \in Int
      /\ (t.to + 1) * DayLength \in Int
      /\ DayStart(now) + t.from * DayLength \in Int
      /\ DayStart(now) + t.from * DayLength + DayLength \in Int
  BY <1>1 DEF DayStart
<1>3. \A k \in Int : {k} \in Bounds
  BY DEF Bounds
<1>4. \A A, B \in Bounds : /\ [f EXCEPT !.after = A] \in Filters(d)
                           /\ [f EXCEPT !.before = B] \in Filters(d)
                           /\ [f EXCEPT !.after = A, !.before = B] \in Filters(d)
  BY DEF Filters
<1> QED BY <1>2, <1>3, <1>4 DEF ApplyDate

LEMMA ReadKeepsType ==
  ASSUME now \in Nat, NEW d, NEW f \in Filters(d), NEW t \in Token
  PROVE  Read(f, t, d) \in Filters(d)
<1>1. CASE Scopes(t)
  <2>1. [f EXCEPT !.content = TRUE] \in Filters(d)
    BY DEF Filters
  <2> QED BY <1>1, <2>1, ReadByClass
<1>2. CASE IsDate(t, d)
  BY <1>2, DateKeepsType, ReadByClass
<1>3. CASE Pins(t, d)
  <2>1. [f EXCEPT !.pinned = TRUE] \in Filters(d)
    BY DEF Filters
  <2> QED BY <1>3, <2>1, ReadByClass
<1>4. CASE Extends(t, d)
  <2>1. f.exts \cup {t.word} \in {E \in SUBSET Registered : IsFiniteSet(E)}
    BY <1>4, FS_AddElement DEF Filters, Extends
  <2>2. [f EXCEPT !.exts = @ \cup {t.word}] \in Filters(d)
    BY <2>1 DEF Filters
  <2>3. Extends(t, d) => Read(f, t, d) = [f EXCEPT !.exts = @ \cup {t.word}]
    BY ReadByClass
  <2> QED BY <1>4, <2>2, <2>3
<1>5. CASE IsText(t, d)
  <2>1. Append(f.text, t) \in Seq({u \in Token : IsText(u, d)})
    BY <1>5 DEF Filters
  <2>2. [f EXCEPT !.text = Append(@, t)] \in Filters(d)
    BY <2>1 DEF Filters
  <2> QED BY <1>5, <2>2, ReadByClass
<1> QED BY <1>1, <1>2, <1>3, <1>4, <1>5 DEF IsText

LEMMA NoFilterType == \A d : NoFilter \in Filters(d)
<1>1. IsFiniteSet({}) /\ {} \in Bounds
  BY FS_EmptySet DEF Bounds
<1> QED BY <1>1 DEF NoFilter, Filters

LEMMA ParseType ==
  ASSUME now \in Nat, NEW d, NEW s \in Seq(Token)
  PROVE  ParseStage(s, d) \in Filters(d)
<1> DEFINE S == {u \in Seq(Token) : ParseStage(u, d) \in Filters(d)}
<1>1. <<>> \in S
  BY ParseNothing, NoFilterType
<1>2. ASSUME NEW u \in Seq(Token), NEW t \in Token, u \in S
      PROVE  Append(u, t) \in S
  BY <1>2, ParseToken, ReadKeepsType
<1>3. Seq(Token) \subseteq S
  <2> HIDE DEF S
  <2> QED BY <1>1, <1>2, SeqInduction
<1> QED BY <1>3

TextTokens(d) == {t \in Token : IsText(t, d)}
Extensions(d) == {Control("word", e, 0, d) : e \in Registered}

\* Text stays text when it is read again.
LEMMA ParseText ==
  ASSUME NEW d, NEW s \in Seq(TextTokens(d))
  PROVE  ParseStage(s, d) = [NoFilter EXCEPT !.text = s]
<1> DEFINE S == {u \in Seq(TextTokens(d)) : ParseStage(u, d) = [NoFilter EXCEPT !.text = u]}
<1>1. <<>> \in S
  <2>1. [NoFilter EXCEPT !.text = <<>>] = NoFilter
    BY DEF NoFilter
  <2> QED BY <2>1, ParseNothing
<1>2. ASSUME NEW u \in Seq(TextTokens(d)), NEW t \in TextTokens(d), u \in S
      PROVE  Append(u, t) \in S
  <2> DEFINE g == [NoFilter EXCEPT !.text = u]
  <2>1. [g EXCEPT !.text = Append(@, t)] = [NoFilter EXCEPT !.text = Append(u, t)]
    BY DEF NoFilter
  <2>2. ParseStage(u, d) = g
    BY <1>2
  <2> HIDE DEF g
  <2>3. IsText(t, d)
    BY DEF TextTokens
  <2>4. ParseStage(Append(u, t), d) = Read(g, t, d)
    BY <2>2, ParseToken
  <2>5. Read(g, t, d) = [g EXCEPT !.text = Append(@, t)]
    BY <2>3, ReadByClass
  <2>6. Append(u, t) \in Seq(TextTokens(d))
    OBVIOUS
  <2> QED BY <2>1, <2>4, <2>5, <2>6
<1>3. Seq(TextTokens(d)) \subseteq S
  <2> HIDE DEF S
  <2> QED BY <1>1, <1>2, SeqInduction
<1> QED BY <1>3

LEMMA ExtensionControls ==
  ASSUME library \subseteq Files, NEW d, NEW t \in Extensions(d)
  PROVE  t \in Token /\ Extends(t, d)
<1>1. PICK e \in Registered : t = Control("word", e, 0, d)
  BY DEF Extensions
<1>2. e \in Words
  BY SearchAssumption DEF Registered, Files
<1>3. t \in Token
  BY <1>1, <1>2 DEF Control, Token, Kinds, Prefix
<1>4. Extends(t, d)
  BY <1>1 DEF Control, Extends, Prefixed
<1> QED BY <1>3, <1>4

\* Extensions after a line are added to those in it.
LEMMA ParseExtensions ==
  ASSUME library \subseteq Files, now \in Nat, NEW d, NEW s \in Seq(Token),
         NEW u \in Seq(Extensions(d))
  PROVE  ParseStage(s \o u, d)
           = [ParseStage(s, d) EXCEPT !.exts = @ \cup {u[i].word : i \in DOMAIN u}]
<1> DEFINE f == ParseStage(s, d)
           W(v) == {v[i].word : i \in DOMAIN v}
           S == {v \in Seq(Extensions(d)) : ParseStage(s \o v, d) = [f EXCEPT !.exts = @ \cup W(v)]}
<1>0. f \in Filters(d)
  BY ParseType
<1>1. <<>> \in S
  <2>1. s \o <<>> = s
    OBVIOUS
  <2>2. W(<<>>) = {}
    OBVIOUS
  <2>3. [f EXCEPT !.exts = @ \cup {}] = f
    <3> HIDE DEF f
    <3> QED BY <1>0 DEF Filters
  <2> QED BY <2>1, <2>2, <2>3
<1>2. ASSUME NEW v \in Seq(Extensions(d)), NEW t \in Extensions(d), v \in S
      PROVE  Append(v, t) \in S
  <2>1. s \o Append(v, t) = Append(s \o v, t) /\ s \o v \in Seq(Token)
    BY ExtensionControls
  <2>2. t \in Token /\ Extends(t, d)
    BY ExtensionControls
  <2> DEFINE g == ParseStage(s \o v, d)
  <2>3. ParseStage(s \o Append(v, t), d) = Read(g, t, d)
    BY <2>1, <2>2, ParseToken
  <2>4. g = [f EXCEPT !.exts = @ \cup W(v)]
    BY <1>2
  <2> HIDE DEF g
  <2>5. Read(g, t, d) = [g EXCEPT !.exts = @ \cup {t.word}]
    BY <2>2, ReadByClass
  <2>6. W(Append(v, t)) = W(v) \cup {t.word}
    <3>1. DOMAIN Append(v, t) = DOMAIN v \cup {Len(v) + 1}
      OBVIOUS
    <3>2. Append(v, t)[Len(v) + 1] = t /\ \A i \in DOMAIN v : Append(v, t)[i] = v[i]
      OBVIOUS
    <3> QED BY <3>1, <3>2
  <2>7. [g EXCEPT !.exts = @ \cup {t.word}] = [f EXCEPT !.exts = @ \cup W(Append(v, t))]
    <3> HIDE DEF f, W
    <3> QED BY <1>0, <2>4, <2>6 DEF Filters
  <2>8. Append(v, t) \in Seq(Extensions(d))
    OBVIOUS
  <2> QED BY <2>3, <2>5, <2>7, <2>8
<1>3. Seq(Extensions(d)) \subseteq S
  <2> HIDE DEF S
  <2> QED BY <1>1, <1>2, SeqInduction
<1> QED BY <1>3

\* A bound becomes the beginning of its day.
Days(A) == {(a \div DayLength) * DayLength : a \in A}

LEMMA DateControl ==
  ASSUME NEW d, NEW f, NEW k \in Int, NEW kind \in {"after", "before"}
  PROVE  /\ Control(kind, NoWord, k, d) \in Token
         /\ kind = "after" =>
              Read(f, Control(kind, NoWord, k, d), d) = [f EXCEPT !.after = {k * DayLength}]
         /\ kind = "before" =>
              Read(f, Control(kind, NoWord, k, d), d) = [f EXCEPT !.before = {k * DayLength}]
<1> DEFINE t == Control(kind, NoWord, k, d)
<1>1. t.kind = kind /\ t.slashes = Prefix(d) /\ t.from = k
  BY DEF Control
<1>2. t \in Token
  BY SearchAssumption DEF Control, Token, Kinds, Prefix
<1> HIDE DEF t
<1>3. IsDate(t, d)
  BY <1>1 DEF IsDate, Prefixed
<1>4. Read(f, t, d) = ApplyDate(f, t)
  BY <1>3, ReadByClass
<1>5. /\ kind = "after" => ApplyDate(f, t) = [f EXCEPT !.after = {t.from * DayLength}]
      /\ kind = "before" => ApplyDate(f, t) = [f EXCEPT !.before = {t.from * DayLength}]
  BY <1>1 DEF ApplyDate
<1> QED BY <1>1, <1>2, <1>4, <1>5 DEF t

AfterLine(A, d) == SetToSeq({Control("after", NoWord, a \div DayLength, d) : a \in A})

LEMMA ParseAfter ==
  ASSUME now \in Nat, NEW d, NEW s \in Seq(Token), NEW A \in Bounds,
         ParseStage(s, d).after = {}
  PROVE  /\ s \o AfterLine(A, d) \in Seq(Token)
         /\ ParseStage(s \o AfterLine(A, d), d) = [ParseStage(s, d) EXCEPT !.after = Days(A)]
<1> DEFINE C == {Control("after", NoWord, a \div DayLength, d) : a \in A}
           f == ParseStage(s, d)
<1>0. f \in Filters(d) /\ f.after = {}
  BY ParseType
<1>a. AfterLine(A, d) = SetToSeq(C)
  BY DEF AfterLine
<1>1. CASE A = {}
  <2>1. C = {} /\ Days(A) = {}
    BY <1>1 DEF Days
  <2>2. s \o SetToSeq(C) = s
    <3> HIDE DEF C
    <3>1. SetToSeq(C) = <<>>
      BY <2>1, SequenceOfOne
    <3> QED BY <3>1
  <2>3. [f EXCEPT !.after = {}] = f
    <3> HIDE DEF f
    <3> QED BY <1>0 DEF Filters
  <2> HIDE DEF C, f
  <2> QED BY <1>a, <2>1, <2>2, <2>3 DEF f
<1>2. CASE A # {}
  <2>1. PICK a \in Int : A = {a}
    BY <1>2 DEF Bounds
  <2> DEFINE k == a \div DayLength
             t == Control("after", NoWord, k, d)
  <2>2. C = {t} /\ Days(A) = {k * DayLength}
    BY <2>1 DEF Days
  <2>3. k \in Int
    BY SearchAssumption
  <2> HIDE DEF k
  <2>4. t \in Token /\ Read(f, t, d) = [f EXCEPT !.after = {k * DayLength}]
    BY <2>3, DateControl
  <2>5. s \o SetToSeq(C) = Append(s, t)
    <3>1. SetToSeq(C) = <<t>>
      BY <2>2, SequenceOfOne
    <3> HIDE DEF C, t
    <3> QED BY <3>1
  <2>6. ParseStage(Append(s, t), d) = Read(f, t, d)
    BY <2>4, ParseToken
  <2>7. Append(s, t) \in Seq(Token)
    BY <2>4
  <2> HIDE DEF t, C, f
  <2> QED BY <1>a, <2>2, <2>4, <2>5, <2>6, <2>7 DEF f
<1> QED BY <1>1, <1>2

BeforeLine(B, d) == SetToSeq({Control("before", NoWord, b \div DayLength, d) : b \in B})

LEMMA ParseBefore ==
  ASSUME now \in Nat, NEW d, NEW s \in Seq(Token), NEW B \in Bounds,
         ParseStage(s, d).before = {}
  PROVE  /\ s \o BeforeLine(B, d) \in Seq(Token)
         /\ ParseStage(s \o BeforeLine(B, d), d) = [ParseStage(s, d) EXCEPT !.before = Days(B)]
<1> DEFINE C == {Control("before", NoWord, b \div DayLength, d) : b \in B}
           f == ParseStage(s, d)
<1>0. f \in Filters(d) /\ f.before = {}
  BY ParseType
<1>a. BeforeLine(B, d) = SetToSeq(C)
  BY DEF BeforeLine
<1>1. CASE B = {}
  <2>1. C = {} /\ Days(B) = {}
    BY <1>1 DEF Days
  <2>2. s \o SetToSeq(C) = s
    <3> HIDE DEF C
    <3>1. SetToSeq(C) = <<>>
      BY <2>1, SequenceOfOne
    <3> QED BY <3>1
  <2>3. [f EXCEPT !.before = {}] = f
    <3> HIDE DEF f
    <3> QED BY <1>0 DEF Filters
  <2> HIDE DEF C, f
  <2> QED BY <1>a, <2>1, <2>2, <2>3 DEF f
<1>2. CASE B # {}
  <2>1. PICK b \in Int : B = {b}
    BY <1>2 DEF Bounds
  <2> DEFINE k == b \div DayLength
             t == Control("before", NoWord, k, d)
  <2>2. C = {t} /\ Days(B) = {k * DayLength}
    BY <2>1 DEF Days
  <2>3. k \in Int
    BY SearchAssumption
  <2> HIDE DEF k
  <2>4. t \in Token /\ Read(f, t, d) = [f EXCEPT !.before = {k * DayLength}]
    BY <2>3, DateControl
  <2>5. s \o SetToSeq(C) = Append(s, t)
    <3>1. SetToSeq(C) = <<t>>
      BY <2>2, SequenceOfOne
    <3> HIDE DEF C, t
    <3> QED BY <3>1
  <2>6. ParseStage(Append(s, t), d) = Read(f, t, d)
    BY <2>4, ParseToken
  <2>7. Append(s, t) \in Seq(Token)
    BY <2>4
  <2> HIDE DEF t, C, f
  <2> QED BY <1>a, <2>2, <2>4, <2>5, <2>6, <2>7 DEF f
<1> QED BY <1>1, <1>2

LEMMA ParsePin ==
  ASSUME now \in Nat, NEW d, NEW s \in Seq(Token), NEW pinned \in BOOLEAN,
         ParseStage(s, d).pinned = FALSE
  PROVE  LET u == IF pinned THEN <<Control("pin", NoWord, 0, d)>> ELSE <<>>
         IN /\ s \o u \in Seq(Token)
            /\ ParseStage(s \o u, d) = [ParseStage(s, d) EXCEPT !.pinned = pinned]
<1> DEFINE t == Control("pin", NoWord, 0, d)
           f == ParseStage(s, d)
<1>1. f \in Filters(d) /\ f.pinned = FALSE
  BY ParseType
<1>2. CASE ~pinned
  <2>1. [f EXCEPT !.pinned = FALSE] = f
    <3> HIDE DEF f
    <3> QED BY <1>1 DEF Filters
  <2>2. s \o <<>> = s
    OBVIOUS
  <2> QED BY <1>2, <2>1, <2>2
<1>3. CASE pinned
  <2>1. t \in Token /\ Pins(t, d)
    BY SearchAssumption DEF Control, Token, Kinds, Prefix, Pins, Prefixed
  <2>2. Read(f, t, d) = [f EXCEPT !.pinned = TRUE]
    BY <2>1, ReadByClass
  <2>3. ParseStage(Append(s, t), d) = Read(f, t, d)
    BY <2>1, ParseToken
  <2>4. s \o <<t>> = Append(s, t) /\ Append(s, t) \in Seq(Token)
    BY <2>1
  <2> HIDE DEF t, f
  <2> QED BY <1>3, <2>2, <2>3, <2>4 DEF t, f
<1> QED BY <1>2, <1>3

\* What compile_runtime_query keeps of a filter: its bounds become whole days, and
\* scope and terms are gone.
Recompiled(f) ==
  [f EXCEPT !.content = FALSE, !.after = Days(f.after), !.before = Days(f.before), !.terms = {}]

LEMMA SameFilter ==
  ASSUME NEW d, NEW f \in Filters(d), NEW g \in Filters(d),
         f.content = g.content, f.text = g.text, f.exts = g.exts, f.pinned = g.pinned,
         f.after = g.after, f.before = g.before, f.terms = g.terms
  PROVE  f = g
BY DEF Filters

LEMMA DaysAreBounds ==
  ASSUME NEW A \in Bounds
  PROVE  Days(A) \in Bounds
<1>1. CASE A = {}
  BY <1>1 DEF Bounds, Days
<1>2. CASE A # {}
  <2>1. PICK a \in Int : A = {a}
    BY <1>2 DEF Bounds
  <2>2. (a \div DayLength) * DayLength \in Int
    BY SearchAssumption
  <2> QED BY <2>1, <2>2 DEF Bounds, Days
<1> QED BY <1>1, <1>2

\* The line that is made of a filter reads as that filter.
LEMMA CompiledIsRead ==
  ASSUME library \subseteq Files, now \in Nat, NEW d, NEW f \in Filters(d)
  PROVE  Compile(f, d) \in Seq(Token) /\ ParseStage(Compile(f, d), d) = Recompiled(f)
<1> DEFINE exts == {Control("word", e, 0, d) : e \in f.exts}
           u1 == SetToSeq(exts)
           u2 == IF f.pinned THEN <<Control("pin", NoWord, 0, d)>> ELSE <<>>
           u3 == AfterLine(f.after, d)
           u4 == BeforeLine(f.before, d)
           s1 == f.text \o u1
           s2 == s1 \o u2
           s3 == s2 \o u3
           s4 == s3 \o u4
<1>1. /\ f.text \in Seq(TextTokens(d)) /\ f.exts \subseteq Registered /\ IsFiniteSet(f.exts)
      /\ f.pinned \in BOOLEAN /\ f.after \in Bounds /\ f.before \in Bounds
  BY DEF Filters, TextTokens
<1>2. Compile(f, d) = s4
  BY DEF Compile, AfterLine, BeforeLine
<1>3. exts \subseteq Extensions(d)
  BY <1>1 DEF Extensions
<1>4. IsFiniteSet(exts)
  <2> DEFINE g == [e \in f.exts |-> Control("word", e, 0, d)]
  <2>1. g \in Surjection(f.exts, exts)
    BY DEF Surjection
  <2> HIDE DEF g, exts
  <2> QED BY <1>1, <2>1, FS_Surjection
<1>5. u1 \in Seq(Extensions(d)) /\ {u1[i].word : i \in DOMAIN u1} = f.exts
  <2>1. u1 \in Seq(exts) /\ \A x \in exts : \E i \in DOMAIN u1 : u1[i] = x
    BY <1>4, SequenceOfSet
  <2>2. \A i \in DOMAIN u1 : u1[i] \in exts
    <3> HIDE DEF u1, exts
    <3> QED BY <2>1
  <2>3. \A e : Control("word", e, 0, d).word = e
    BY DEF Control
  <2>4. {u1[i].word : i \in DOMAIN u1} = {x.word : x \in exts}
    <3> HIDE DEF u1, exts
    <3> QED BY <2>1, <2>2
  <2>5. {x.word : x \in exts} = f.exts
    BY <2>3
  <2> HIDE DEF u1, exts
  <2> QED BY <1>3, <2>1, <2>4, <2>5
<1>6. f.text \in Seq(Token) /\ ParseStage(f.text, d) = [NoFilter EXCEPT !.text = f.text]
  BY <1>1, ParseText DEF TextTokens
<1>7. Extensions(d) \subseteq Token
  BY ExtensionControls
<1> HIDE DEF u1, exts
<1>8. s1 \in Seq(Token)
  BY <1>5, <1>6, <1>7
<1>9. ParseStage(s1, d) = [ParseStage(f.text, d) EXCEPT !.exts = @ \cup f.exts]
  <2> DEFINE s == f.text
  <2>1. s \in Seq(Token)
    BY <1>6
  <2> HIDE DEF s
  <2>2. ParseStage(s \o u1, d)
          = [ParseStage(s, d) EXCEPT !.exts = @ \cup {u1[i].word : i \in DOMAIN u1}]
    BY <1>5, <2>1, ParseExtensions
  <2> QED BY <1>5, <2>2 DEF s
<1>10. ParseStage(s1, d) = [NoFilter EXCEPT !.text = f.text, !.exts = f.exts]
  BY <1>6, <1>9 DEF NoFilter
<1>11. ParseStage(s1, d).pinned = FALSE
  BY <1>10 DEF NoFilter
<1> HIDE DEF s1
<1>12. s2 \in Seq(Token) /\ ParseStage(s2, d) = [ParseStage(s1, d) EXCEPT !.pinned = f.pinned]
  BY <1>1, <1>8, <1>11, ParsePin
<1>13. ParseStage(s2, d)
         = [NoFilter EXCEPT !.text = f.text, !.exts = f.exts, !.pinned = f.pinned]
  BY <1>10, <1>12 DEF NoFilter
<1>14. ParseStage(s2, d).after = {}
  BY <1>13 DEF NoFilter
<1> HIDE DEF s2
<1>15. s3 \in Seq(Token) /\ ParseStage(s3, d) = [ParseStage(s2, d) EXCEPT !.after = Days(f.after)]
  <2>1. PICK A \in Bounds : A = f.after
    BY <1>1
  <2>2. s2 \o AfterLine(A, d) \in Seq(Token)
        /\ ParseStage(s2 \o AfterLine(A, d), d) = [ParseStage(s2, d) EXCEPT !.after = Days(A)]
    BY <1>12, <1>14, ParseAfter, ZenonT(60)
  <2> QED BY <2>1, <2>2
<1>16. ParseStage(s3, d)
         = [NoFilter EXCEPT !.text = f.text, !.exts = f.exts, !.pinned = f.pinned,
                            !.after = Days(f.after)]
  BY <1>13, <1>15 DEF NoFilter
<1>17. ParseStage(s3, d).before = {}
  BY <1>16 DEF NoFilter
<1> HIDE DEF s3
<1>18. s4 \in Seq(Token) /\ ParseStage(s4, d) = [ParseStage(s3, d) EXCEPT !.before = Days(f.before)]
  <2>1. PICK B \in Bounds : B = f.before
    BY <1>1
  <2>2. s3 \o BeforeLine(B, d) \in Seq(Token)
        /\ ParseStage(s3 \o BeforeLine(B, d), d) = [ParseStage(s3, d) EXCEPT !.before = Days(B)]
    BY <1>15, <1>17, ParseBefore, ZenonT(60)
  <2> QED BY <2>1, <2>2
<1>19. ParseStage(s4, d)
         = [NoFilter EXCEPT !.text = f.text, !.exts = f.exts, !.pinned = f.pinned,
                            !.after = Days(f.after), !.before = Days(f.before)]
  BY <1>16, <1>18 DEF NoFilter
<1>20. Recompiled(f)
         = [NoFilter EXCEPT !.text = f.text, !.exts = f.exts, !.pinned = f.pinned,
                            !.after = Days(f.after), !.before = Days(f.before)]
  <2> DEFINE g == [NoFilter EXCEPT !.text = f.text, !.exts = f.exts, !.pinned = f.pinned,
                                   !.after = Days(f.after), !.before = Days(f.before)]
  <2>1. Days(f.after) \in Bounds /\ Days(f.before) \in Bounds
    BY <1>1, DaysAreBounds
  <2>2. f.text \in Seq({t \in Token : IsText(t, d)})
    BY DEF Filters
  <2>3. Recompiled(f) \in Filters(d)
    BY <2>1 DEF Recompiled, Filters
  <2>4. g \in Filters(d)
    BY <1>1, <2>1, <2>2 DEF NoFilter, Filters
  <2>5. /\ g.content = FALSE /\ g.text = f.text /\ g.exts = f.exts /\ g.pinned = f.pinned
        /\ g.after = Days(f.after) /\ g.before = Days(f.before) /\ g.terms = {}
    BY DEF NoFilter
  <2>6. LET h == Recompiled(f)
        IN /\ h.content = FALSE /\ h.text = f.text /\ h.exts = f.exts /\ h.pinned = f.pinned
           /\ h.after = Days(f.after) /\ h.before = Days(f.before) /\ h.terms = {}
    BY DEF Recompiled, Filters
  <2> HIDE DEF g
  <2>7. g = Recompiled(f)
    BY <2>3, <2>4, <2>5, <2>6, SameFilter
  <2> QED BY <2>7 DEF g
<1> QED BY <1>2, <1>18, <1>19, <1>20

-----------------------------------------------------------------------------
(* The constraints of a direct content query.                              *)

Keep(kept, t, d) == IF Constrains(t, d) THEN Append(kept, t) ELSE kept

Keeping(g, stage, d, n) ==
  g = [i \in 0 .. n |-> IF i = 0 THEN <<>> ELSE Keep(g[i - 1], stage[i], d)]

LEMMA KeepingExists ==
  ASSUME NEW stage, NEW d, NEW n \in Nat
  PROVE  \E g : Keeping(g, stage, d, n)
<1> DEFINE N == {m \in Nat : \E g : Keeping(g, stage, d, m)}
<1>1. 0 \in N
  <2> DEFINE g == [i \in 0 .. 0 |-> <<>>]
  <2>1. Keeping(g, stage, d, 0)
    BY DEF Keeping
  <2> QED BY <2>1
<1>2. ASSUME NEW m \in Nat, m \in N
      PROVE  m + 1 \in N
  <2>1. PICK g : Keeping(g, stage, d, m)
    BY <1>2
  <2> DEFINE h == [i \in 0 .. (m + 1) |-> IF i = m + 1 THEN Keep(g[m], stage[i], d) ELSE g[i]]
  <2>2. \A i \in 0 .. m : g[i] = IF i = 0 THEN <<>> ELSE Keep(g[i - 1], stage[i], d)
    BY <2>1 DEF Keeping
  <2>3. \A i \in 0 .. (m + 1) : h[i] = IF i = 0 THEN <<>> ELSE Keep(h[i - 1], stage[i], d)
    BY <2>2
  <2>4. Keeping(h, stage, d, m + 1)
    <3> HIDE DEF h
    <3>1. h = [i \in 0 .. (m + 1) |-> h[i]]
      BY DEF h
    <3> QED BY <2>3, <3>1 DEF Keeping
  <2> QED BY <2>4
<1>3. Nat \subseteq N
  <2> HIDE DEF N
  <2> QED BY <1>1, <1>2, Induction
<1> QED BY <1>3

LEMMA ConstraintsAreKept ==
  ASSUME NEW stage, NEW d, Len(stage) \in Nat
  PROVE  \E g : Keeping(g, stage, d, Len(stage)) /\ ConstraintsOf(stage, d) = g[Len(stage)]
<1> DEFINE g == CHOOSE f : Keeping(f, stage, d, Len(stage))
<1>1. Keeping(g, stage, d, Len(stage))
  BY KeepingExists
<1>2. ConstraintsOf(stage, d) = g[Len(stage)]
  BY DEF ConstraintsOf, Keeping, Keep
<1> QED BY <1>1, <1>2

LEMMA KeepingsAgree ==
  ASSUME NEW s, NEW u, NEW d, NEW m \in Nat, NEW n \in Nat, m <= n,
         \A i \in 1 .. m : s[i] = u[i],
         NEW g, NEW h, Keeping(g, s, d, m), Keeping(h, u, d, n)
  PROVE  g[m] = h[m]
<1> DEFINE N == {k \in Nat : k <= m => g[k] = h[k]}
<1>1. /\ \A i \in 0 .. m : g[i] = IF i = 0 THEN <<>> ELSE Keep(g[i - 1], s[i], d)
      /\ \A i \in 0 .. n : h[i] = IF i = 0 THEN <<>> ELSE Keep(h[i - 1], u[i], d)
  BY DEF Keeping
<1>2. 0 \in N
  <2>1. 0 \in 0 .. m /\ 0 \in 0 .. n
    OBVIOUS
  <2>2. g[0] = <<>> /\ h[0] = <<>>
    BY <1>1, <2>1
  <2> QED BY <2>2
<1>3. ASSUME NEW k \in Nat, k \in N
      PROVE  k + 1 \in N
  <2>1. CASE k + 1 <= m
    <3>1. /\ g[k + 1] = Keep(g[k], s[k + 1], d)
          /\ h[k + 1] = Keep(h[k], u[k + 1], d)
      BY <1>1, <2>1
    <3> QED BY <1>3, <2>1, <3>1
  <2> QED BY <2>1
<1>4. Nat \subseteq N
  <2> HIDE DEF N
  <2> QED BY <1>2, <1>3, Induction
<1> QED BY <1>4

LEMMA ConstraintsOfNothing ==
  ASSUME NEW d
  PROVE  ConstraintsOf(<<>>, d) = <<>>
<1>1. PICK g : Keeping(g, <<>>, d, 0) /\ ConstraintsOf(<<>>, d) = g[0]
  BY ConstraintsAreKept
<1> QED BY <1>1 DEF Keeping

LEMMA ConstraintsOfToken ==
  ASSUME NEW T, NEW s \in Seq(T), NEW t \in T, NEW d
  PROVE  ConstraintsOf(Append(s, t), d) = Keep(ConstraintsOf(s, d), t, d)
<1> DEFINE n == Len(s)
           u == Append(s, t)
<1>1. n \in Nat /\ Len(u) = n + 1 /\ u[n + 1] = t /\ \A i \in 1 .. n : s[i] = u[i]
  OBVIOUS
<1> HIDE DEF n, u
<1>2. PICK g : Keeping(g, s, d, n) /\ ConstraintsOf(s, d) = g[n]
  BY <1>1, ConstraintsAreKept DEF n
<1>3. PICK h : Keeping(h, u, d, n + 1) /\ ConstraintsOf(u, d) = h[n + 1]
  BY <1>1, ConstraintsAreKept
<1>4. g[n] = h[n]
  BY <1>1, <1>2, <1>3, KeepingsAgree
<1>5. h[n + 1] = Keep(h[n], u[n + 1], d)
  BY <1>1, <1>3 DEF Keeping
<1> QED BY <1>1, <1>2, <1>3, <1>4, <1>5 DEF u

LEMMA OwnType ==
  ASSUME NEW d, NEW f \in Filters(d)
  PROVE  Own(f) \in Filters(d)
<1>1. <<>> \in Seq({t \in Token : IsText(t, d)})
  OBVIOUS
<1> QED BY <1>1 DEF Own, Filters

\* A token is a constraint unless it is text or sets the scope.
LEMMA ConstrainsByClass ==
  ASSUME NEW t, NEW d
  PROVE  Constrains(t, d) <=> (IsDate(t, d) \/ Pins(t, d) \/ Extends(t, d))
<1>1. ParseStage(<<t>>, d) = Read(NoFilter, t, d)
  BY ParseOne
<1>2. Constrains(t, d) <=> Read(NoFilter, t, d).text = <<>> /\ ~Read(NoFilter, t, d).content
  BY <1>1 DEF Constrains
<1>3. /\ [NoFilter EXCEPT !.content = TRUE].content = TRUE
      /\ [NoFilter EXCEPT !.pinned = TRUE].text = <<>>
      /\ [NoFilter EXCEPT !.pinned = TRUE].content = FALSE
      /\ [NoFilter EXCEPT !.exts = @ \cup {t.word}].text = <<>>
      /\ [NoFilter EXCEPT !.exts = @ \cup {t.word}].content = FALSE
      /\ [NoFilter EXCEPT !.text = Append(@, t)].text = Append(<<>>, t)
      /\ ApplyDate(NoFilter, t).text = <<>>
      /\ ApplyDate(NoFilter, t).content = FALSE
  BY DEF NoFilter, ApplyDate
<1>4. Append(<<>>, t) # <<>>
  OBVIOUS
<1>5. CASE Scopes(t)
  <2>1. ~IsDate(t, d) /\ ~Pins(t, d) /\ ~Extends(t, d)
    BY <1>5 DEF Scopes, IsDate, Pins, Extends
  <2>2. Read(NoFilter, t, d) = [NoFilter EXCEPT !.content = TRUE]
    BY <1>5, ReadByClass
  <2> QED BY <1>2, <1>3, <2>1, <2>2
<1>6. CASE IsDate(t, d)
  BY <1>2, <1>3, <1>6, ReadByClass
<1>7. CASE Pins(t, d)
  BY <1>2, <1>3, <1>7, ReadByClass
<1>8. CASE Extends(t, d)
  <2>1. Read(NoFilter, t, d) = [NoFilter EXCEPT !.exts = @ \cup {t.word}]
    BY <1>8, ReadByClass
  <2> QED BY <1>2, <1>3, <1>8, <2>1
<1>9. CASE IsText(t, d)
  <2>1. Read(NoFilter, t, d) = [NoFilter EXCEPT !.text = Append(@, t)]
    BY <1>9, ReadByClass
  <2> QED BY <1>2, <1>3, <1>4, <1>9, <2>1 DEF IsText
<1> QED BY <1>5, <1>6, <1>7, <1>8, <1>9 DEF IsText

LEMMA OwnNothing == Own(NoFilter) = NoFilter
<1>1. \A d : NoFilter \in Filters(d) /\ Own(NoFilter) \in Filters(d)
  BY NoFilterType, OwnType
<1>2. LET f == Own(NoFilter)
      IN /\ f.content = NoFilter.content /\ f.text = NoFilter.text /\ f.exts = NoFilter.exts
         /\ f.pinned = NoFilter.pinned /\ f.after = NoFilter.after
         /\ f.before = NoFilter.before /\ f.terms = NoFilter.terms
  BY DEF Own, NoFilter
<1> QED BY <1>1, <1>2, SameFilter

\* Leaving the text and the scope out commutes with reading.
LEMMA OwnByClass ==
  ASSUME now \in Nat, NEW d, NEW f \in Filters(d), NEW t \in Token
  PROVE  Own(Read(f, t, d)) = IF Constrains(t, d) THEN Read(Own(f), t, d) ELSE Own(f)
<1>0. Own(f) \in Filters(d)
  BY OwnType
<1> DEFINE g == Own(f)
<1>1. CASE Scopes(t)
  <2>1. ~Constrains(t, d) /\ Read(f, t, d) = [f EXCEPT !.content = TRUE]
    <3>1. ~IsDate(t, d) /\ ~Pins(t, d) /\ ~Extends(t, d)
      BY <1>1 DEF Scopes, IsDate, Pins, Extends
    <3> QED BY <1>1, <3>1, ReadByClass, ConstrainsByClass
  <2>2. Own([f EXCEPT !.content = TRUE]) \in Filters(d)
    BY <2>1, ReadKeepsType, OwnType
  <2>3. Own([f EXCEPT !.content = TRUE]) = Own(f)
    BY <1>0, <2>2, SameFilter DEF Own, Filters
  <2> QED BY <2>1, <2>3
<1>2. CASE IsDate(t, d)
  <2>1. Constrains(t, d) /\ Read(f, t, d) = ApplyDate(f, t) /\ Read(g, t, d) = ApplyDate(g, t)
    BY <1>2, ReadByClass, ConstrainsByClass
  <2>2. Own(ApplyDate(f, t)) \in Filters(d) /\ ApplyDate(g, t) \in Filters(d)
    BY <1>0, DateKeepsType, OwnType
  <2>3. Own(ApplyDate(f, t)) = ApplyDate(g, t)
    BY <1>0, <2>2, SameFilter DEF Own, ApplyDate, Filters
  <2> QED BY <2>1, <2>3
<1>3. CASE Pins(t, d)
  <2>1. Constrains(t, d) /\ Read(f, t, d) = [f EXCEPT !.pinned = TRUE]
          /\ Read(g, t, d) = [g EXCEPT !.pinned = TRUE]
    BY <1>3, ReadByClass, ConstrainsByClass
  <2>2. [f EXCEPT !.pinned = TRUE] \in Filters(d) /\ [g EXCEPT !.pinned = TRUE] \in Filters(d)
    BY <1>0 DEF Filters
  <2>4. Own([f EXCEPT !.pinned = TRUE]) \in Filters(d)
    BY <2>2, OwnType
  <2>3. Own([f EXCEPT !.pinned = TRUE]) = [g EXCEPT !.pinned = TRUE]
    BY <1>0, <2>2, <2>4, SameFilter DEF Own, Filters
  <2> QED BY <2>1, <2>3
<1>4. CASE Extends(t, d)
  <2>1. Constrains(t, d)
    BY <1>4, ConstrainsByClass
  <2>2. Extends(t, d) => Read(f, t, d) = [f EXCEPT !.exts = @ \cup {t.word}]
    BY ReadByClass
  <2>3. Extends(t, d) => Read(g, t, d) = [g EXCEPT !.exts = @ \cup {t.word}]
    BY ReadByClass
  <2>4. Own([f EXCEPT !.exts = @ \cup {t.word}]) \in Filters(d)
          /\ [g EXCEPT !.exts = @ \cup {t.word}] \in Filters(d)
    BY <1>0, <1>4, <2>2, <2>3, ReadKeepsType, OwnType
  <2>5. Own([f EXCEPT !.exts = @ \cup {t.word}]) = [g EXCEPT !.exts = @ \cup {t.word}]
    BY <1>0, <2>4, SameFilter DEF Own, Filters
  <2> QED BY <1>4, <2>1, <2>2, <2>3, <2>5
<1>5. CASE IsText(t, d)
  <2>1. ~Constrains(t, d)
    BY <1>5, ConstrainsByClass DEF IsText
  <2>2. Read(f, t, d) = [f EXCEPT !.text = Append(@, t)]
    BY <1>5, ReadByClass
  <2>3. Own([f EXCEPT !.text = Append(@, t)]) \in Filters(d)
    BY <2>2, ReadKeepsType, OwnType
  <2>4. Own([f EXCEPT !.text = Append(@, t)]) = Own(f)
    BY <1>0, <2>3, SameFilter DEF Own, Filters
  <2> QED BY <2>1, <2>2, <2>4
<1> QED BY <1>1, <1>2, <1>3, <1>4, <1>5 DEF IsText

\* The constraints of a line, read on their own, are those of the line.
LEMMA ConstraintsAreOwn ==
  ASSUME now \in Nat, NEW d, NEW s \in Seq(Token)
  PROVE  /\ ConstraintsOf(s, d) \in Seq(Token)
         /\ ParseStage(ConstraintsOf(s, d), d) = Own(ParseStage(s, d))
<1> DEFINE S == {u \in Seq(Token) : /\ ConstraintsOf(u, d) \in Seq(Token)
                                    /\ ParseStage(ConstraintsOf(u, d), d) = Own(ParseStage(u, d))}
<1>1. <<>> \in S
  <2>1. ConstraintsOf(<<>>, d) = <<>> /\ ParseStage(<<>>, d) = NoFilter
    BY ConstraintsOfNothing, ParseNothing
  <2>2. <<>> \in Seq(Token)
    OBVIOUS
  <2> QED BY <2>1, <2>2, OwnNothing
<1>2. ASSUME NEW u \in Seq(Token), NEW t \in Token, u \in S
      PROVE  Append(u, t) \in S
  <2> DEFINE c == ConstraintsOf(u, d)
             f == ParseStage(u, d)
  <2>1. c \in Seq(Token) /\ ParseStage(c, d) = Own(f)
    BY <1>2
  <2>2. ConstraintsOf(Append(u, t), d) = Keep(c, t, d)
    BY ConstraintsOfToken
  <2>3. ParseStage(Append(u, t), d) = Read(f, t, d)
    BY ParseToken
  <2>4. Own(Read(f, t, d)) = IF Constrains(t, d) THEN Read(Own(f), t, d) ELSE Own(f)
    BY ParseType, OwnByClass
  <2> HIDE DEF c, f
  <2>5. Keep(c, t, d) \in Seq(Token) /\ ParseStage(Keep(c, t, d), d) = Own(Read(f, t, d))
    <3>1. CASE Constrains(t, d)
      <4>1. ParseStage(Append(c, t), d) = Read(Own(f), t, d)
        BY <2>1, ParseToken
      <4>2. Append(c, t) \in Seq(Token)
        BY <2>1
      <4> QED BY <2>4, <3>1, <4>1, <4>2 DEF Keep
    <3>2. CASE ~Constrains(t, d)
      BY <2>1, <2>4, <3>2 DEF Keep
    <3> QED BY <3>1, <3>2
  <2>6. Append(u, t) \in Seq(Token)
    OBVIOUS
  <2> QED BY <2>2, <2>3, <2>5, <2>6
<1>3. Seq(Token) \subseteq S
  <2> HIDE DEF S
  <2> QED BY <1>1, <1>2, SeqInduction
<1> QED BY <1>3

\* Bounds that are the beginning of a day.
DayBounds == {{}} \cup {{k * DayLength} : k \in Int}
DayBounded(f) == f.after \in DayBounds /\ f.before \in DayBounds

LEMMA WholeDays ==
  ASSUME NEW k \in Int, NEW m \in Nat \ {0}
  PROVE  (k * m) \div m = k
OBVIOUS

LEMMA DaysOfDays ==
  ASSUME NEW A \in DayBounds
  PROVE  Days(A) = A
<1>1. CASE A = {}
  BY <1>1 DEF Days
<1>2. CASE A # {}
  <2>1. PICK k \in Int : A = {k * DayLength}
    BY <1>2 DEF DayBounds
  <2>2. (k * DayLength) \div DayLength = k
    BY WholeDays, SearchAssumption
  <2> QED BY <2>1, <2>2 DEF Days
<1> QED BY <1>1, <1>2

\* Every date but /week, /month and /year is a day or days.
LEMMA DateKeepsDays ==
  ASSUME now \in Nat, NEW d, NEW f \in Filters(d), NEW t \in Token, t.kind # "recent",
         DayBounded(f)
  PROVE  DayBounded(ApplyDate(f, t))
<1> DEFINE k == now \div DayLength
<1>1. DayLength \in Nat \ {0} /\ t.from \in Int /\ t.to \in Int /\ k \in Int
  BY SearchAssumption DEF Token
<1>2. DayStart(now) + t.from * DayLength = (k + t.from) * DayLength
  <2>1. DayStart(now) = DayLength * k
    BY DEF DayStart
  <2> HIDE DEF k
  <2>2. \A a, b, m \in Int : m * a + b * m = (a + b) * m
    OBVIOUS
  <2> QED BY <1>1, <2>1, <2>2
<1> HIDE DEF k
<1>3. DayStart(now) + t.from * DayLength + DayLength = (k + t.from + 1) * DayLength
  <2>1. \A a, m \in Int : a * m + m = (a + 1) * m
    OBVIOUS
  <2>2. k + t.from \in Int
    BY <1>1
  <2> QED BY <1>1, <1>2, <2>1, <2>2
<1>4. \A n \in Int : {n * DayLength} \in DayBounds
  BY DEF DayBounds
<1>5. t.to + 1 \in Int /\ k + t.from \in Int /\ k + t.from + 1 \in Int
  BY <1>1
<1>6. /\ {t.from * DayLength} \in DayBounds
      /\ {(t.to + 1) * DayLength} \in DayBounds
      /\ {DayStart(now) + t.from * DayLength} \in DayBounds
      /\ {DayStart(now) + t.from * DayLength + DayLength} \in DayBounds
  BY <1>1, <1>2, <1>3, <1>4, <1>5
<1>7. \A A, B \in DayBounds : /\ DayBounded([f EXCEPT !.after = A])
                              /\ DayBounded([f EXCEPT !.before = B])
                              /\ DayBounded([f EXCEPT !.after = A, !.before = B])
  BY DEF DayBounded, Filters
<1> QED BY <1>6, <1>7 DEF ApplyDate

LEMMA ReadKeepsDays ==
  ASSUME now \in Nat, NEW d, NEW f \in Filters(d), NEW t \in Token, t.kind # "recent",
         DayBounded(f)
  PROVE  DayBounded(Read(f, t, d))
<1>1. /\ DayBounded([f EXCEPT !.content = TRUE])
      /\ DayBounded([f EXCEPT !.pinned = TRUE])
      /\ DayBounded([f EXCEPT !.exts = @ \cup {t.word}])
      /\ DayBounded([f EXCEPT !.text = Append(@, t)])
  BY DEF DayBounded, Filters
<1>2. CASE IsDate(t, d)
  BY <1>2, ReadByClass, DateKeepsDays
<1>3. CASE Extends(t, d)
  <2>1. Extends(t, d) => Read(f, t, d) = [f EXCEPT !.exts = @ \cup {t.word}]
    BY ReadByClass
  <2> QED BY <1>1, <1>3, <2>1
<1>4. CASE Scopes(t)
  <2>1. Read(f, t, d) = [f EXCEPT !.content = TRUE]
    BY <1>4, ReadByClass
  <2> QED BY <1>1, <2>1
<1>5. CASE Pins(t, d)
  <2>1. Read(f, t, d) = [f EXCEPT !.pinned = TRUE]
    BY <1>5, ReadByClass
  <2> QED BY <1>1, <2>1
<1>6. CASE IsText(t, d)
  BY <1>1, <1>6, ReadByClass
<1> QED BY <1>2, <1>3, <1>4, <1>5, <1>6 DEF IsText

LEMMA ParseDays ==
  ASSUME now \in Nat, NEW d, NEW s \in Seq(Token), \A i \in DOMAIN s : s[i].kind # "recent"
  PROVE  DayBounded(ParseStage(s, d))
<1> DEFINE Dated == {t \in Token : t.kind # "recent"}
           S == {u \in Seq(Dated) : DayBounded(ParseStage(u, d))}
<1>1. <<>> \in S
  <2>1. DayBounded(NoFilter)
    BY DEF DayBounded, DayBounds, NoFilter
  <2>2. <<>> \in Seq(Dated)
    OBVIOUS
  <2> QED BY <2>1, <2>2, ParseNothing
<1>2. ASSUME NEW u \in Seq(Dated), NEW t \in Dated, u \in S
      PROVE  Append(u, t) \in S
  <2>1. u \in Seq(Token) /\ Append(u, t) \in Seq(Dated)
    OBVIOUS
  <2>2. ParseStage(u, d) \in Filters(d)
    BY <2>1, ParseType
  <2> QED BY <1>2, <2>1, <2>2, ParseToken, ReadKeepsDays
<1>3. Seq(Dated) \subseteq S
  <2> HIDE DEF S, Dated
  <2> QED BY <1>1, <1>2, SeqInduction
<1>4. s \in Seq(Dated)
  OBVIOUS
<1> QED BY <1>3, <1>4

\* Such constraints survive being compiled.
LEMMA OwnIsRecompiled ==
  ASSUME NEW d, NEW f \in Filters(d), DayBounded(f)
  PROVE  Recompiled(Own(f)) = Own(f)
<1>1. Own(f) \in Filters(d)
  BY OwnType
<1>2. Days(f.after) = f.after /\ Days(f.before) = f.before
  BY DaysOfDays DEF DayBounded
<1>3. Own(f).after = f.after /\ Own(f).before = f.before
  BY DEF Own, Filters
<1>4. Recompiled(Own(f)) \in Filters(d)
  BY <1>1, <1>2, <1>3 DEF Recompiled, Filters
<1> QED BY <1>1, <1>2, <1>3, <1>4, SameFilter DEF Recompiled, Own, Filters

-----------------------------------------------------------------------------
(* One stage.                                                              *)

LEMMA FlattenOne ==
  ASSUME NEW T, NEW s \in Seq(T)
  PROVE  FlattenSeq(<<s>>) = s
<1> DEFINE q == <<s>>
           Flat(f) == f = [i \in 1 .. 1 |-> IF i = 1 THEN q[i] ELSE f[i - 1] \o q[i]]
<1>1. Len(q) = 1 /\ q[1] = s
  OBVIOUS
<1> HIDE DEF q
<1>2. FlattenSeq(q) = (CHOOSE f : Flat(f))[1]
  BY <1>1 DEF FlattenSeq
<1>3. \E f : Flat(f)
  <2> DEFINE g == [i \in 1 .. 1 |-> s]
  <2>1. Flat(g)
    BY <1>1
  <2> QED BY <2>1
<1>4. (CHOOSE f : Flat(f))[1] = s
  <2> DEFINE g == CHOOSE f : Flat(f)
  <2>1. Flat(g)
    BY <1>3
  <2> HIDE DEF g
  <2>2. g[1] = q[1]
    BY <2>1
  <2> QED BY <1>1, <2>2 DEF g
<1> QED BY <1>2, <1>4 DEF q

LEMMA ParseLine ==
  ASSUME now \in Nat, NEW d, NEW s \in Seq(Token)
  PROVE  Parse(<<s>>, d) = ParseStage(s, d)
<1> DEFINE f == ParseStage(s, d)
<1>1. f \in Filters(d)
  BY ParseType
<1>2. FlattenSeq(<<s>>) = s /\ Len(<<s>>) = 1
  BY FlattenOne
<1>3. {ParseStage(<<s>>[i], d).text : i \in 2 .. 1} \ {<<>>} = {}
  OBVIOUS
<1>4. Parse(<<s>>, d) = [f EXCEPT !.terms = {}]
  BY <1>2, <1>3 DEF Parse
<1> HIDE DEF f
<1>5. [f EXCEPT !.terms = {}] = f
  <2>1. [f EXCEPT !.terms = {}] \in Filters(d)
    BY <1>1 DEF Filters
  <2> QED BY <1>1, <2>1, SameFilter DEF Filters
<1> QED BY <1>4, <1>5 DEF f

\* What a file search keeps depends on the filter alone.
LEMMA KeptByFilter ==
  ASSUME NEW d, NEW q, NEW r, Parse(q, d) = Parse(r, d)
  PROVE  Kept(q, d) = Kept(r, d)
BY DEF Kept

\* No filter keeps all the files that are shown.
LEMMA KeptOfNothing ==
  ASSUME library \subseteq Files, now \in Nat, NEW d, NEW q, Parse(q, d) = NoFilter
  PROVE  Kept(q, d) = {f \in library : SearchableFilename(f)}
<1>1. NoFilter \in Filters(d)
  BY NoFilterType
<1>2. ParseStage(Compile(NoFilter, d), d) = Recompiled(NoFilter)
  BY <1>1, CompiledIsRead
<1>3. /\ Recompiled(NoFilter).text = <<>> /\ Recompiled(NoFilter).pinned = FALSE
      /\ Recompiled(NoFilter).exts = {} /\ Recompiled(NoFilter).after = {}
      /\ Recompiled(NoFilter).before = {}
  BY DEF Recompiled, NoFilter, Days
<1>4. \A f : Meets(f, NoFilter) /\ Meets(f, Recompiled(NoFilter))
  BY <1>3 DEF Meets, NoFilter
<1>5. \A f : Holds(f.name, <<>>)
  BY DEF Holds
<1>6. RuntimeRows(Compile(NoFilter, d), d) = library
  BY <1>2, <1>3, <1>4, <1>5 DEF RuntimeRows
<1>7. NoFilter.terms = {}
  BY DEF NoFilter
<1> QED BY <1>4, <1>6, <1>7 DEF Kept

\* A content search on its own finds the files that its constraints keep.
LEMMA DirectAnswer ==
  ASSUME library \subseteq Files, IsFiniteSet(library), now \in Nat, NEW d,
         NEW s \in Seq(Token), \A i \in DOMAIN s : s[i].kind # "recent",
         NEW S, SearchContent(Parse(<<s>>, d), {}, FALSE, 0, d, {}) = {Found(S)}
  PROVE  S = LET text == ParseStage(s, d).text
             IN IF text = <<>> THEN {}
                ELSE Kept(<<ConstraintsOf(s, d)>>, d) \cap Readable(text)
<1> DEFINE f == ParseStage(s, d)
           text == f.text
           c == ConstraintsOf(s, d)
           kept == Kept(<<c>>, d)
           compiled == Compile(Own(f), d)
           Answer == SearchContent(f, {}, FALSE, 0, d, {})
<1>1. f \in Filters(d) /\ Parse(<<s>>, d) = f
  BY ParseType, ParseLine
<1>2. Parse(<<c>>, d) = Own(f)
  BY ConstraintsAreOwn, ParseLine
<1>3. Parse(<<compiled>>, d) = Own(f)
  <2>1. Own(f) \in Filters(d)
    BY <1>1, OwnType
  <2>2. compiled \in Seq(Token) /\ ParseStage(compiled, d) = Recompiled(Own(f))
    BY <2>1, CompiledIsRead
  <2>3. Recompiled(Own(f)) = Own(f)
    BY <1>1, ParseDays, OwnIsRecompiled
  <2> HIDE DEF compiled, f
  <2> QED BY <2>2, <2>3, ParseLine
<1>4. Kept(<<compiled>>, d) = kept
  BY <1>2, <1>3, KeptByFilter
<1>5. Answer = {Found(S)}
  BY <1>1
<1>6. Answer = IF engine.readOnly THEN {Refusal("still indexing")}
               ELSE IF ~engine.content THEN {Refusal("not supported")}
               ELSE IF text = <<>> THEN {Found({})}
               ELSE IF Own(f) = NoFilter THEN ContentCall(text, {}, 0, {})
               ELSE IF Candidates(Kept(<<compiled>>, d)) = {} THEN {Found({})}
               ELSE ContentCall(text, Candidates(Kept(<<compiled>>, d)), 0, {})
  BY ContentPlan
<1> HIDE DEF f, c, kept, compiled, Answer
<1>7. /\ Found(S).error = "none"
      /\ Refusal("still indexing").error = "still indexing"
      /\ Refusal("not supported").error = "not supported"
  BY DEF Found, Refusal
<1>8. Found(S) # Refusal("still indexing") /\ Found(S) # Refusal("not supported")
  BY <1>7
<1>9. ~engine.readOnly /\ engine.content
  BY <1>5, <1>6, <1>8
<1>10. CASE text = <<>>
  <2>1. {Found(S)} = {Found({})}
    BY <1>5, <1>6, <1>9, <1>10
  <2> QED BY <1>10, <2>1, FoundIsFound DEF f
<1>11. CASE text # <<>> /\ Own(f) = NoFilter
  <2>1. {Found(S)} = {Found(Readable(text))}
    BY <1>5, <1>6, <1>9, <1>11, ContentAnswer
  <2>2. S = Readable(text)
    BY <2>1, FoundIsFound
  <2>3. kept = {x \in library : SearchableFilename(x)}
    BY <1>2, <1>11, KeptOfNothing DEF kept
  <2>4. kept \cap Readable(text) = Readable(text)
    BY <2>3 DEF Readable, SearchableText
  <2> QED BY <1>11, <2>2, <2>4 DEF f, kept, c
<1>12. CASE text # <<>> /\ Own(f) # NoFilter
  <2>1. kept \cap Readable(text) = Candidates(kept) \cap Readable(text)
    BY DEF Candidates, Readable
  <2>2. CASE Candidates(kept) = {}
    <3>1. {Found(S)} = {Found({})}
      BY <1>4, <1>5, <1>6, <1>9, <1>12, <2>2
    <3>2. S = {}
      BY <3>1, FoundIsFound
    <3> QED BY <1>12, <2>1, <2>2, <3>2 DEF f, kept, c
  <2>3. CASE Candidates(kept) # {}
    <3>1. {Found(S)} = ContentCall(text, Candidates(kept), 0, {})
      BY <1>4, <1>5, <1>6, <1>9, <1>12, <2>3
    <3>2. ContentCall(text, Candidates(kept), 0, {})
            = {Found(Readable(text) \cap Candidates(kept))}
      BY <2>3, ContentAnswer
    <3>3. S = Readable(text) \cap Candidates(kept)
      BY <3>1, <3>2, FoundIsFound
    <3> QED BY <1>12, <2>1, <3>3 DEF f, kept, c
  <2> QED BY <2>2, <2>3
<1> QED BY <1>10, <1>11, <1>12

\* For every line, index and runtime: /inside on its own keeps every constraint
\* beside it, windows that end now excepted.
THEOREM DaysSurvive == Spec => []DayConstraintsKept
<1>1. QInv => DayConstraintsKept
  <2> SUFFICES ASSUME QInv, Direct, \A i \in DOMAIN query[1] : query[1][i].kind # "recent"
               PROVE  answer.hits = RowsOfBoth
    BY DEF DayConstraintsKept
  <2>1. Answered /\ Len(query) = 1 /\ ContentStages(query, dialect) # {} /\ answer.limit = 0
    BY DEF Direct
  <2>2. Answers(query, 0, dialect, {}) = {Found(answer.hits)}
    BY <2>1, AnswerIsOnly
  <2>3. query \in Seq(Seq(Token)) /\ query[1] \in Seq(Token) /\ query = <<query[1]>>
    BY <2>1 DEF QInv, TypeOK
  <2>4. SearchContent(Parse(<<query[1]>>, dialect), {}, FALSE, 0, dialect, {})
          = {Found(answer.hits)}
    BY <2>1, <2>2, <2>3 DEF Answers
  <2>5. library \subseteq Files /\ IsFiniteSet(library) /\ now \in Nat
    BY SearchAssumption DEF QInv, TypeOK
  <2> QED BY <2>3, <2>4, <2>5, DirectAnswer DEF RowsOfBoth
<1> QED BY <1>1, SearchInvariant, PTL

-----------------------------------------------------------------------------
(* The two dialects.                                                       *)

\* A token of the Windows dialect as the Unix dialect writes it.
UnixToken(t) ==
  IF t.slashes = 1 /\ t.kind \notin {"inside", "compact"} THEN [t EXCEPT !.slashes = 2] ELSE t
UnixStage(s) == [j \in DOMAIN s |-> UnixToken(s[j])]
UnixFilter(f) == [f EXCEPT !.text = UnixStage(@)]

WindowsTokens == {t \in Token : t.slashes <= 1}

LEMMA UnixTokenFields ==
  ASSUME NEW t \in Token
  PROVE  LET u == UnixToken(t)
         IN /\ u \in Token
            /\ u.kind = t.kind /\ u.word = t.word /\ u.from = t.from /\ u.to = t.to
            /\ u.slashes = IF t.slashes = 1 /\ t.kind \notin {"inside", "compact"}
                             THEN 2 ELSE t.slashes
BY DEF UnixToken, Token

\* What a token is, it is in both dialects.
LEMMA UnixClass ==
  ASSUME NEW t \in WindowsTokens
  PROVE  LET u == UnixToken(t)
         IN /\ Scopes(u) <=> Scopes(t)
            /\ IsDate(u, "unix") <=> IsDate(t, "windows")
            /\ Pins(u, "unix") <=> Pins(t, "windows")
            /\ Extends(u, "unix") <=> Extends(t, "windows")
            /\ IsText(u, "unix") <=> IsText(t, "windows")
<1> DEFINE u == UnixToken(t)
<1>1. /\ u.kind = t.kind /\ u.word = t.word /\ u.from = t.from /\ u.to = t.to
      /\ u.slashes = IF t.slashes = 1 /\ t.kind \notin {"inside", "compact"} THEN 2 ELSE t.slashes
  BY UnixTokenFields DEF WindowsTokens
<1>2. t.slashes \in {0, 1}
  BY DEF WindowsTokens, Token
<1> HIDE DEF u
<1>3. Prefix("windows") = 1 /\ Prefix("unix") = 2
  BY DEF Prefix
<1>4. t.kind \notin {"inside", "compact"} => (Prefixed(u, "unix") <=> Prefixed(t, "windows"))
  BY <1>1, <1>2, <1>3 DEF Prefixed
<1>5. Scopes(u) <=> Scopes(t)
  BY <1>1, <1>2 DEF Scopes
<1>6. IsDate(u, "unix") <=> IsDate(t, "windows")
  BY <1>1, <1>2, <1>4 DEF IsDate
<1>7. Pins(u, "unix") <=> Pins(t, "windows")
  BY <1>1, <1>4 DEF Pins
<1>8. Extends(u, "unix") <=> Extends(t, "windows")
  BY <1>1, <1>4 DEF Extends
<1> QED BY <1>5, <1>6, <1>7, <1>8 DEF IsText, u

LEMMA UnixAppend ==
  ASSUME NEW s \in Seq(Token), NEW t \in Token
  PROVE  UnixStage(Append(s, t)) = Append(UnixStage(s), UnixToken(t))
<1>1. \A v \in Seq(Token) : UnixStage(v) \in Seq(Token) /\ Len(UnixStage(v)) = Len(v)
                            /\ \A j \in 1 .. Len(v) : UnixStage(v)[j] = UnixToken(v[j])
  BY UnixTokenFields DEF UnixStage
<1> DEFINE a == UnixStage(Append(s, t))
           b == Append(UnixStage(s), UnixToken(t))
<1>2. Append(s, t) \in Seq(Token) /\ Len(Append(s, t)) = Len(s) + 1
  OBVIOUS
<1>3. a \in Seq(Token) /\ Len(a) = Len(s) + 1
      /\ \A j \in 1 .. (Len(s) + 1) : a[j] = UnixToken(Append(s, t)[j])
  BY <1>1, <1>2
<1>4. b \in Seq(Token) /\ Len(b) = Len(s) + 1 /\ b[Len(s) + 1] = UnixToken(t)
      /\ \A j \in 1 .. Len(s) : b[j] = UnixToken(s[j])
  BY <1>1, UnixTokenFields
<1>5. Append(s, t)[Len(s) + 1] = t /\ \A j \in 1 .. Len(s) : Append(s, t)[j] = s[j]
  OBVIOUS
<1> HIDE DEF a, b
<1>6. \A j \in 1 .. Len(a) : a[j] = b[j]
  BY <1>3, <1>4, <1>5
<1> QED BY <1>3, <1>4, <1>6, SeqEqual DEF a, b

LEMMA UnixStageType ==
  ASSUME NEW s \in Seq(Token)
  PROVE  /\ UnixStage(s) \in Seq(Token) /\ Len(UnixStage(s)) = Len(s)
         /\ DOMAIN UnixStage(s) = DOMAIN s
         /\ \A j \in DOMAIN s : UnixStage(s)[j] = UnixToken(s[j])
BY UnixTokenFields DEF UnixStage

AnyFilter ==
  [content : BOOLEAN, text : Seq(Token), exts : SUBSET Registered, pinned : BOOLEAN,
   after : Bounds, before : Bounds, terms : {{}}]

LEMMA FilterIsAny ==
  ASSUME NEW d, NEW f \in Filters(d)
  PROVE  f \in AnyFilter
<1>1. f.text \in Seq(Token)
  BY DEF Filters
<1> QED BY <1>1 DEF Filters, AnyFilter

LEMMA SameAny ==
  ASSUME NEW f \in AnyFilter, NEW g \in AnyFilter,
         f.content = g.content, f.text = g.text, f.exts = g.exts, f.pinned = g.pinned,
         f.after = g.after, f.before = g.before, f.terms = g.terms
  PROVE  f = g
BY DEF AnyFilter

LEMMA UnixFilterType ==
  ASSUME NEW f \in AnyFilter
  PROVE  /\ UnixFilter(f) \in AnyFilter
         /\ UnixFilter(f).text = UnixStage(f.text)
         /\ UnixFilter(f).content = f.content /\ UnixFilter(f).exts = f.exts
         /\ UnixFilter(f).pinned = f.pinned /\ UnixFilter(f).after = f.after
         /\ UnixFilter(f).before = f.before /\ UnixFilter(f).terms = f.terms
<1>1. UnixStage(f.text) \in Seq(Token)
  BY UnixStageType DEF AnyFilter
<1> QED BY <1>1 DEF UnixFilter, AnyFilter

\* One token is read alike in both dialects.
LEMMA UnixRead ==
  ASSUME now \in Nat, NEW f \in Filters("windows"), NEW g \in Filters("unix"),
         g = UnixFilter(f), NEW t \in WindowsTokens
  PROVE  Read(g, UnixToken(t), "unix") = UnixFilter(Read(f, t, "windows"))
<1> DEFINE u == UnixToken(t)
           r == Read(f, t, "windows")
           v == Read(g, u, "unix")
<1>1. /\ t \in Token /\ u \in Token /\ u.kind = t.kind /\ u.word = t.word
      /\ u.from = t.from /\ u.to = t.to
  BY UnixTokenFields DEF WindowsTokens
<1>2. r \in AnyFilter /\ v \in AnyFilter /\ f \in AnyFilter /\ g \in AnyFilter
  BY <1>1, ReadKeepsType, FilterIsAny
<1>3. /\ g.text = UnixStage(f.text) /\ g.content = f.content /\ g.exts = f.exts
      /\ g.pinned = f.pinned /\ g.after = f.after /\ g.before = f.before /\ g.terms = f.terms
  BY <1>2, UnixFilterType
<1> SUFFICES /\ v.text = UnixStage(r.text) /\ v.content = r.content /\ v.exts = r.exts
             /\ v.pinned = r.pinned /\ v.after = r.after /\ v.before = r.before
             /\ v.terms = r.terms
  <2> HIDE DEF r, v, u
  <2>1. LET h == UnixFilter(r)
        IN /\ h \in AnyFilter /\ h.text = UnixStage(r.text) /\ h.content = r.content
           /\ h.exts = r.exts /\ h.pinned = r.pinned /\ h.after = r.after
           /\ h.before = r.before /\ h.terms = r.terms
    BY <1>2, UnixFilterType
  <2>2. v = UnixFilter(r)
    BY <1>2, <2>1, SameAny
  <2> QED BY <2>2 DEF r, v, u
<1>4. /\ Scopes(u) <=> Scopes(t)
      /\ IsDate(u, "unix") <=> IsDate(t, "windows")
      /\ Pins(u, "unix") <=> Pins(t, "windows")
      /\ Extends(u, "unix") <=> Extends(t, "windows")
      /\ IsText(u, "unix") <=> IsText(t, "windows")
  BY UnixClass
<1> HIDE DEF u
<1>5. CASE Scopes(t)
  <2>1. r = [f EXCEPT !.content = TRUE] /\ v = [g EXCEPT !.content = TRUE]
    BY <1>4, <1>5, ReadByClass
  <2> HIDE DEF r, v
  <2> QED BY <1>2, <1>3, <2>1 DEF AnyFilter
<1>6. CASE IsDate(t, "windows")
  <2>1. r = ApplyDate(f, t) /\ v = ApplyDate(g, u)
    BY <1>4, <1>6, ReadByClass
  <2> HIDE DEF r, v
  <2> QED BY <1>1, <1>2, <1>3, <2>1 DEF ApplyDate, AnyFilter
<1>7. CASE Pins(t, "windows")
  <2>1. r = [f EXCEPT !.pinned = TRUE] /\ v = [g EXCEPT !.pinned = TRUE]
    BY <1>4, <1>7, ReadByClass
  <2> HIDE DEF r, v
  <2> QED BY <1>2, <1>3, <2>1 DEF AnyFilter
<1>8. CASE Extends(t, "windows")
  <2>1. Extends(t, "windows") => r = [f EXCEPT !.exts = @ \cup {t.word}]
    BY ReadByClass
  <2>2. Extends(u, "unix") => v = [g EXCEPT !.exts = @ \cup {u.word}]
    BY ReadByClass
  <2> HIDE DEF r, v
  <2>3. r = [f EXCEPT !.exts = @ \cup {t.word}]
    BY <1>8, <2>1
  <2>4. v = [g EXCEPT !.exts = @ \cup {t.word}]
    BY <1>1, <1>4, <1>8, <2>2
  <2> QED BY <1>2, <1>3, <2>3, <2>4 DEF AnyFilter
<1>9. CASE IsText(t, "windows")
  <2>1. r = [f EXCEPT !.text = Append(@, t)]
    BY <1>9, ReadByClass
  <2>2. v = [g EXCEPT !.text = Append(@, u)]
    BY <1>4, <1>9, ReadByClass
  <2>3. UnixStage(Append(f.text, t)) = Append(UnixStage(f.text), u)
    BY <1>1, <1>2, UnixAppend DEF AnyFilter, u
  <2> HIDE DEF r, v
  <2> QED BY <1>2, <1>3, <2>1, <2>2, <2>3 DEF AnyFilter
<1> QED BY <1>5, <1>6, <1>7, <1>8, <1>9 DEF IsText

\* A line is read alike in both dialects.
LEMMA UnixParse ==
  ASSUME now \in Nat, NEW s \in Seq(WindowsTokens)
  PROVE  ParseStage(UnixStage(s), "unix") = UnixFilter(ParseStage(s, "windows"))
<1> DEFINE S == {v \in Seq(WindowsTokens) :
                   ParseStage(UnixStage(v), "unix") = UnixFilter(ParseStage(v, "windows"))}
<1>0. Seq(WindowsTokens) \subseteq Seq(Token)
  BY DEF WindowsTokens
<1>1. <<>> \in S
  <2>1. UnixStage(<<>>) = <<>>
    <3>1. <<>> \in Seq(Token)
      OBVIOUS
    <3>2. UnixStage(<<>>) \in Seq(Token) /\ Len(UnixStage(<<>>)) = 0
      BY <3>1, UnixStageType
    <3> QED BY <3>2
  <2>2. UnixFilter(NoFilter) = NoFilter
    <3>1. NoFilter \in AnyFilter
      BY NoFilterType, FilterIsAny
    <3>2. UnixFilter(NoFilter).text = NoFilter.text
      BY <2>1, <3>1, UnixFilterType DEF NoFilter
    <3> QED BY <3>1, <3>2, UnixFilterType, SameAny
  <2>3. <<>> \in Seq(WindowsTokens)
    OBVIOUS
  <2>4. ParseStage(<<>>, "unix") = NoFilter /\ ParseStage(<<>>, "windows") = NoFilter
    BY ParseNothing
  <2> QED BY <2>1, <2>2, <2>3, <2>4
<1>2. ASSUME NEW v \in Seq(WindowsTokens), NEW t \in WindowsTokens, v \in S
      PROVE  Append(v, t) \in S
  <2> DEFINE f == ParseStage(v, "windows")
             g == ParseStage(UnixStage(v), "unix")
  <2>1. v \in Seq(Token) /\ t \in Token /\ UnixToken(t) \in Token
    BY <1>0, UnixTokenFields DEF WindowsTokens
  <2>2. UnixStage(v) \in Seq(Token) /\ UnixStage(Append(v, t)) = Append(UnixStage(v), UnixToken(t))
    BY <2>1, UnixStageType, UnixAppend
  <2>3. f \in Filters("windows") /\ g \in Filters("unix")
    BY <2>1, <2>2, ParseType
  <2>4. g = UnixFilter(f)
    BY <1>2
  <2>5. ParseStage(Append(v, t), "windows") = Read(f, t, "windows")
    BY <2>1, ParseToken
  <2>6. ParseStage(UnixStage(Append(v, t)), "unix") = Read(g, UnixToken(t), "unix")
    BY <2>1, <2>2, ParseToken
  <2> HIDE DEF f, g
  <2>7. ParseStage(UnixStage(Append(v, t)), "unix")
          = UnixFilter(ParseStage(Append(v, t), "windows"))
    BY <2>3, <2>4, <2>5, <2>6, UnixRead
  <2>8. Append(v, t) \in Seq(WindowsTokens)
    OBVIOUS
  <2> QED BY <2>7, <2>8
<1>3. Seq(WindowsTokens) \subseteq S
  <2> HIDE DEF S
  <2> QED BY <1>1, <1>2, SeqInduction
<1> QED BY <1>3

\* A text matches the same names and contents in both dialects.
LEMMA UnixHolds ==
  ASSUME NEW words, NEW x \in Seq(Token)
  PROVE  /\ Holds(words, UnixStage(x)) <=> Holds(words, x)
         /\ HoldsPhrase(words, UnixStage(x)) <=> HoldsPhrase(words, x)
         /\ UnixStage(x) = <<>> <=> x = <<>>
<1>1. /\ UnixStage(x) \in Seq(Token) /\ Len(UnixStage(x)) = Len(x)
      /\ DOMAIN UnixStage(x) = DOMAIN x
      /\ \A j \in DOMAIN x : UnixStage(x)[j] = UnixToken(x[j])
  BY UnixStageType
<1>2. \A t \in Token : UnixToken(t).word = t.word /\ (Plain(UnixToken(t)) <=> Plain(t))
  <2> SUFFICES ASSUME NEW t \in Token
               PROVE  UnixToken(t).word = t.word /\ (Plain(UnixToken(t)) <=> Plain(t))
    OBVIOUS
  <2>1. LET u == UnixToken(t)
        IN /\ u.kind = t.kind /\ u.word = t.word
           /\ u.slashes = IF t.slashes = 1 /\ t.kind \notin {"inside", "compact"}
                            THEN 2 ELSE t.slashes
    BY UnixTokenFields
  <2>2. t.slashes \in Nat
    BY DEF Token
  <2> QED BY <2>1, <2>2 DEF Plain
<1>3. \A j \in DOMAIN x : x[j] \in Token
  OBVIOUS
<1>4. \A j \in DOMAIN x : /\ UnixStage(x)[j].word = x[j].word
                          /\ Plain(UnixStage(x)[j]) <=> Plain(x[j])
  BY <1>1, <1>2, <1>3
<1>5. Holds(words, UnixStage(x)) <=> Holds(words, x)
  BY <1>1, <1>4 DEF Holds
<1>6. HoldsPhrase(words, UnixStage(x)) <=> HoldsPhrase(words, x)
  BY <1>1, <1>4 DEF HoldsPhrase
<1>7. UnixStage(x) = <<>> <=> x = <<>>
  <2> DEFINE y == UnixStage(x)
  <2>1. y \in Seq(Token) /\ Len(y) = Len(x)
    BY <1>1
  <2> HIDE DEF y
  <2>2. y = <<>> <=> x = <<>>
    BY <2>1
  <2> QED BY <2>2 DEF y
<1> QED BY <1>5, <1>6, <1>7

\* The rows that a filter and its detail terms keep.
Rows(f, T) ==
  {file \in library :
     /\ Holds(file.name, f.text)
     /\ engine.filters => Meets(file, Recompiled(f))
     /\ SearchableFilename(file)
     /\ Meets(file, f)
     /\ \A x \in T : HoldsPhrase(file.name, x)}

LEMMA KeptRows ==
  ASSUME library \subseteq Files, now \in Nat, NEW d, NEW q, NEW f \in Filters(d), NEW T,
         Parse(q, d) = [f EXCEPT !.terms = T]
  PROVE  Kept(q, d) = Rows(f, T)
<1> DEFINE p == Parse(q, d)
<1>1. /\ p.text = f.text /\ p.exts = f.exts /\ p.pinned = f.pinned /\ p.after = f.after
      /\ p.before = f.before /\ p.terms = T
  BY DEF Filters
<1> HIDE DEF p
<1>2. Compile(p, d) = Compile(f, d)
  BY <1>1 DEF Compile
<1>3. ParseStage(Compile(f, d), d) = Recompiled(f)
  BY CompiledIsRead
<1>4. Recompiled(f).text = f.text
  BY DEF Recompiled, Filters
<1>5. \A file : Meets(file, p) <=> Meets(file, f)
  BY <1>1 DEF Meets
<1>6. Kept(q, d) = {file \in RuntimeRows(Compile(f, d), d) :
                      /\ SearchableFilename(file)
                      /\ Meets(file, p)
                      /\ \A x \in T : HoldsPhrase(file.name, x)}
  BY <1>1, <1>2 DEF Kept, p
<1>7. RuntimeRows(Compile(f, d), d)
        = {file \in library : /\ Holds(file.name, f.text)
                              /\ engine.filters => Meets(file, Recompiled(f))}
  BY <1>3, <1>4 DEF RuntimeRows
<1> QED BY <1>5, <1>6, <1>7 DEF Rows

\* The rows of a filter are the rows of that filter in the other dialect.
LEMMA UnixRows ==
  ASSUME NEW f \in AnyFilter, NEW T \in SUBSET Seq(Token)
  PROVE  Rows(UnixFilter(f), {UnixStage(x) : x \in T}) = Rows(f, T)
<1> DEFINE g == UnixFilter(f)
           TT == {UnixStage(x) : x \in T}
<1>1. /\ g.text = UnixStage(f.text) /\ g.exts = f.exts
      /\ g.pinned = f.pinned /\ g.after = f.after /\ g.before = f.before /\ g \in AnyFilter
  BY UnixFilterType
<1> HIDE DEF g
<1>2. f.text \in Seq(Token)
  BY DEF AnyFilter
<1>3. \A words : Holds(words, g.text) <=> Holds(words, f.text)
  BY <1>1, <1>2, UnixHolds
<1>4. LET a == Recompiled(g)
          b == Recompiled(f)
      IN a.exts = b.exts /\ a.pinned = b.pinned /\ a.after = b.after /\ a.before = b.before
  BY <1>1 DEF Recompiled, AnyFilter
<1>5. \A file : /\ Meets(file, g) <=> Meets(file, f)
                /\ Meets(file, Recompiled(g)) <=> Meets(file, Recompiled(f))
  BY <1>1, <1>4 DEF Meets
<1>6. \A words : (\A x \in TT : HoldsPhrase(words, x)) <=> (\A x \in T : HoldsPhrase(words, x))
  BY UnixHolds
<1> HIDE DEF TT
<1> QED BY <1>3, <1>5, <1>6 DEF Rows, g, TT

\* The stages of a query, one after the other.
Flattening(g, q, n) ==
  g = [i \in 1 .. n |-> IF i = 1 THEN q[i] ELSE g[i - 1] \o q[i]]

LEMMA FlatteningExists ==
  ASSUME NEW q, NEW n \in Nat
  PROVE  \E g : Flattening(g, q, n)
<1> DEFINE N == {m \in Nat : \E g : Flattening(g, q, m)}
<1>1. 0 \in N
  <2> DEFINE g == [i \in 1 .. 0 |-> <<>>]
  <2>1. Flattening(g, q, 0)
    BY DEF Flattening
  <2> QED BY <2>1
<1>2. ASSUME NEW m \in Nat, m \in N
      PROVE  m + 1 \in N
  <2>1. PICK g : Flattening(g, q, m)
    BY <1>2
  <2> DEFINE h == [i \in 1 .. (m + 1) |->
                     IF i = m + 1 THEN (IF i = 1 THEN q[i] ELSE g[m] \o q[i]) ELSE g[i]]
  <2>2. \A i \in 1 .. m : g[i] = IF i = 1 THEN q[i] ELSE g[i - 1] \o q[i]
    BY <2>1 DEF Flattening
  <2>3. \A i \in 1 .. (m + 1) : h[i] = IF i = 1 THEN q[i] ELSE h[i - 1] \o q[i]
    BY <2>2
  <2>4. Flattening(h, q, m + 1)
    <3> HIDE DEF h
    <3>1. h = [i \in 1 .. (m + 1) |-> h[i]]
      BY DEF h
    <3> QED BY <2>3, <3>1 DEF Flattening
  <2> QED BY <2>4
<1>3. Nat \subseteq N
  <2> HIDE DEF N
  <2> QED BY <1>1, <1>2, Induction
<1> QED BY <1>3

LEMMA FlattenIsFlattening ==
  ASSUME NEW q, Len(q) \in Nat \ {0}
  PROVE  \E g : Flattening(g, q, Len(q)) /\ FlattenSeq(q) = g[Len(q)]
<1> DEFINE g == CHOOSE f : Flattening(f, q, Len(q))
<1>1. Flattening(g, q, Len(q))
  BY FlatteningExists
<1>2. FlattenSeq(q) = g[Len(q)]
  BY DEF FlattenSeq, Flattening
<1> QED BY <1>1, <1>2

LEMMA ConcatParts ==
  ASSUME NEW T, NEW a \in Seq(T), NEW b \in Seq(T)
  PROVE  /\ a \o b \in Seq(T) /\ Len(a \o b) = Len(a) + Len(b)
         /\ \A j \in 1 .. (Len(a) + Len(b)) :
              (a \o b)[j] = IF j <= Len(a) THEN a[j] ELSE b[j - Len(a)]
OBVIOUS

LEMMA UnixConcat ==
  ASSUME NEW a \in Seq(Token), NEW b \in Seq(Token)
  PROVE  UnixStage(a \o b) = UnixStage(a) \o UnixStage(b)
<1> DEFINE x == UnixStage(a \o b)
           y == UnixStage(a) \o UnixStage(b)
<1> DEFINE c == a \o b
<1>1. c \in Seq(Token) /\ Len(c) = Len(a) + Len(b)
      /\ \A j \in 1 .. (Len(a) + Len(b)) : c[j] = IF j <= Len(a) THEN a[j] ELSE b[j - Len(a)]
  BY ConcatParts
<1> HIDE DEF c
<1>2. x \in Seq(Token) /\ Len(x) = Len(a) + Len(b)
      /\ \A j \in 1 .. (Len(a) + Len(b)) : x[j] = UnixToken(c[j])
  <2>1. Len(a) + Len(b) \in Nat /\ DOMAIN c = 1 .. (Len(a) + Len(b))
    BY <1>1
  <2>2. x = UnixStage(c)
    BY DEF c
  <2> HIDE DEF x
  <2> QED BY <1>1, <2>1, <2>2, UnixStageType
<1>3. /\ UnixStage(a) \in Seq(Token) /\ Len(UnixStage(a)) = Len(a)
      /\ \A j \in 1 .. Len(a) : UnixStage(a)[j] = UnixToken(a[j])
      /\ UnixStage(b) \in Seq(Token) /\ Len(UnixStage(b)) = Len(b)
      /\ \A j \in 1 .. Len(b) : UnixStage(b)[j] = UnixToken(b[j])
  BY UnixStageType
<1>4. y \in Seq(Token) /\ Len(y) = Len(a) + Len(b)
      /\ \A j \in 1 .. (Len(a) + Len(b)) :
           y[j] = IF j <= Len(a) THEN UnixStage(a)[j] ELSE UnixStage(b)[j - Len(a)]
  <2> DEFINE u == UnixStage(a)
             v == UnixStage(b)
  <2>1. /\ u \in Seq(Token) /\ v \in Seq(Token) /\ Len(u) = Len(a) /\ Len(v) = Len(b)
        /\ y = u \o v
    BY <1>3
  <2> HIDE DEF u, v, y
  <2>2. u \o v \in Seq(Token) /\ Len(u \o v) = Len(u) + Len(v)
        /\ \A j \in 1 .. (Len(u) + Len(v)) :
             (u \o v)[j] = IF j <= Len(u) THEN u[j] ELSE v[j - Len(u)]
    BY <2>1, ConcatParts
  <2> QED BY <2>1, <2>2 DEF u, v
<1> HIDE DEF x, y
<1>5. ASSUME NEW j \in 1 .. (Len(a) + Len(b))
      PROVE  x[j] = y[j]
  <2>1. CASE j <= Len(a)
    <3>1. j \in 1 .. Len(a)
      BY <2>1
    <3> QED BY <1>1, <1>2, <1>3, <1>4, <2>1, <3>1
  <2>2. CASE ~(j <= Len(a))
    <3>1. j - Len(a) \in 1 .. Len(b)
      BY <2>2
    <3> QED BY <1>1, <1>2, <1>3, <1>4, <2>2, <3>1
  <2> QED BY <2>1, <2>2
<1> QED BY <1>2, <1>4, <1>5, SeqEqual DEF x, y

WindowsQueries == Seq(Seq(WindowsTokens)) \ {<<>>}

LEMMA UnixQuery ==
  ASSUME NEW q \in WindowsQueries
  PROVE  /\ Len(q) \in Nat \ {0} /\ DOMAIN q = 1 .. Len(q)
         /\ Len(ToUnix(q)) = Len(q) /\ DOMAIN ToUnix(q) = 1 .. Len(q)
         /\ \A i \in 1 .. Len(q) : /\ q[i] \in Seq(WindowsTokens) /\ q[i] \in Seq(Token)
                                   /\ ToUnix(q)[i] = UnixStage(q[i])
         /\ ToUnix(q) \in Seq(Seq(Token)) \ {<<>>}
<1>1. Len(q) \in Nat \ {0} /\ DOMAIN q = 1 .. Len(q)
      /\ \A i \in 1 .. Len(q) : q[i] \in Seq(WindowsTokens)
  BY DEF WindowsQueries
<1>2. Seq(WindowsTokens) \subseteq Seq(Token)
  BY DEF WindowsTokens
<1>3. ToUnix(q) = [i \in 1 .. Len(q) |-> UnixStage(q[i])]
  BY <1>1 DEF ToUnix, UnixStage, UnixToken
<1>4. \A i \in 1 .. Len(q) : UnixStage(q[i]) \in Seq(Token)
  BY <1>1, <1>2, UnixStageType
<1>5. ToUnix(q) \in Seq(Seq(Token)) /\ Len(ToUnix(q)) = Len(q)
  BY <1>1, <1>3, <1>4
<1> QED BY <1>1, <1>2, <1>3, <1>5

LEMMA UnixFlatten ==
  ASSUME NEW q \in WindowsQueries
  PROVE  /\ FlattenSeq(q) \in Seq(WindowsTokens)
         /\ FlattenSeq(ToUnix(q)) = UnixStage(FlattenSeq(q))
<1> DEFINE n == Len(q)
           r == ToUnix(q)
<1>1. /\ n \in Nat \ {0} /\ Len(r) = n
      /\ \A i \in 1 .. n : q[i] \in Seq(WindowsTokens) /\ q[i] \in Seq(Token)
                           /\ r[i] = UnixStage(q[i])
  BY UnixQuery
<1>2. PICK g : Flattening(g, q, n) /\ FlattenSeq(q) = g[n]
  BY <1>1, FlattenIsFlattening
<1>3. PICK h : Flattening(h, r, n) /\ FlattenSeq(r) = h[n]
  BY <1>1, FlattenIsFlattening
<1> HIDE DEF n, r
<1>4. /\ \A i \in 1 .. n : g[i] = IF i = 1 THEN q[i] ELSE g[i - 1] \o q[i]
      /\ \A i \in 1 .. n : h[i] = IF i = 1 THEN r[i] ELSE h[i - 1] \o r[i]
  BY <1>2, <1>3 DEF Flattening
<1> DEFINE Good(k) == /\ g[k] \in Seq(WindowsTokens) /\ g[k] \in Seq(Token)
                      /\ h[k] = UnixStage(g[k])
           N == {k \in Nat : k \in 1 .. n => Good(k)}
<1>5. 0 \in N
  OBVIOUS
<1>6. ASSUME NEW k \in Nat, k \in N
      PROVE  k + 1 \in N
  <2> SUFFICES ASSUME k + 1 \in 1 .. n PROVE Good(k + 1)
    OBVIOUS
  <2>1. CASE k = 0
    <3>1. g[1] = q[1] /\ h[1] = r[1] /\ 1 \in 1 .. n
      BY <1>1, <1>4
    <3> QED BY <1>1, <2>1, <3>1
  <2>2. CASE k # 0
    <3>1. Good(k) /\ k \in 1 .. n
      <4>1. k \in 1 .. n
        BY <1>1, <2>2
      <4> HIDE DEF Good
      <4> QED BY <1>6, <4>1
    <3>2. g[k + 1] = g[k] \o q[k + 1] /\ h[k + 1] = h[k] \o r[k + 1]
      <4>1. k + 1 # 1 /\ (k + 1) - 1 = k
        BY <2>2
      <4> QED BY <1>4, <4>1
    <3>3. UnixStage(g[k] \o q[k + 1]) = UnixStage(g[k]) \o UnixStage(q[k + 1])
      BY <1>1, <3>1, UnixConcat
    <3>4. g[k + 1] \in Seq(WindowsTokens) /\ g[k + 1] \in Seq(Token)
      BY <1>1, <3>1, <3>2
    <3> QED BY <1>1, <3>1, <3>2, <3>3, <3>4
  <2> QED BY <2>1, <2>2
<1>7. Nat \subseteq N
  <2> HIDE DEF N
  <2> QED BY <1>5, <1>6, Induction
<1>8. Good(n)
  <2>1. n \in Nat /\ n \in 1 .. n
    BY <1>1
  <2> HIDE DEF Good
  <2> QED BY <1>7, <2>1
<1> QED BY <1>2, <1>3, <1>8 DEF n, r

\* A query parses alike in both dialects.
LEMMA UnixQueryParse ==
  ASSUME now \in Nat, NEW q \in WindowsQueries
  PROVE  \E f \in Filters("windows"), T \in SUBSET Seq(Token) :
           /\ UnixFilter(f) \in Filters("unix")
           /\ Parse(q, "windows") = [f EXCEPT !.terms = T]
           /\ Parse(ToUnix(q), "unix")
                = [UnixFilter(f) EXCEPT !.terms = {UnixStage(x) : x \in T}]
<1> DEFINE n == Len(q)
           f == ParseStage(FlattenSeq(q), "windows")
           g == ParseStage(FlattenSeq(ToUnix(q)), "unix")
           Text(i) == ParseStage(q[i], "windows").text
           UnixText(i) == ParseStage(ToUnix(q)[i], "unix").text
           T == {Text(i) : i \in 2 .. n} \ {<<>>}
<1>1. /\ n \in Nat \ {0} /\ Len(ToUnix(q)) = n
      /\ \A i \in 1 .. n : q[i] \in Seq(WindowsTokens) /\ q[i] \in Seq(Token)
                           /\ ToUnix(q)[i] = UnixStage(q[i])
  BY UnixQuery
<1>2. Seq(WindowsTokens) \subseteq Seq(Token)
  BY DEF WindowsTokens
<1>3. g = UnixFilter(f)
  BY UnixFlatten, UnixParse
<1>4. f \in Filters("windows") /\ g \in Filters("unix")
  <2>1. FlattenSeq(q) \in Seq(Token) /\ FlattenSeq(ToUnix(q)) \in Seq(Token)
    BY <1>2, UnixFlatten, UnixStageType
  <2> QED BY <2>1, ParseType
<1>5. \A i \in 2 .. n : Text(i) \in Seq(Token) /\ UnixText(i) = UnixStage(Text(i))
  <2> SUFFICES ASSUME NEW i \in 2 .. n
               PROVE  Text(i) \in Seq(Token) /\ UnixText(i) = UnixStage(Text(i))
    OBVIOUS
  <2> DEFINE p == ParseStage(q[i], "windows")
  <2>1. q[i] \in Seq(WindowsTokens) /\ q[i] \in Seq(Token) /\ ToUnix(q)[i] = UnixStage(q[i])
    BY <1>1
  <2>2. p \in AnyFilter
    BY <2>1, ParseType, FilterIsAny
  <2>3. ParseStage(ToUnix(q)[i], "unix") = UnixFilter(p)
    BY <2>1, UnixParse
  <2> HIDE DEF p
  <2>4. UnixFilter(p).text = UnixStage(p.text) /\ p.text \in Seq(Token)
    BY <2>2, UnixFilterType DEF AnyFilter
  <2> QED BY <2>3, <2>4 DEF p
<1>6. T \in SUBSET Seq(Token)
  BY <1>5
<1>7. {UnixText(i) : i \in 2 .. n} \ {<<>>} = {UnixStage(x) : x \in T}
  <2>1. \A x \in Seq(Token) : UnixStage(x) = <<>> <=> x = <<>>
    BY UnixHolds
  <2> HIDE DEF Text, UnixText
  <2> QED BY <1>5, <2>1
<1>8. Parse(q, "windows") = [f EXCEPT !.terms = T]
  BY DEF Parse
<1>9. Parse(ToUnix(q), "unix") = [g EXCEPT !.terms = {UnixText(i) : i \in 2 .. n} \ {<<>>}]
  BY <1>1 DEF Parse
<1> HIDE DEF f, g, T, UnixText
<1> QED BY <1>3, <1>4, <1>6, <1>7, <1>8, <1>9

LEMMA UnixKept ==
  ASSUME library \subseteq Files, now \in Nat, NEW q \in WindowsQueries
  PROVE  Kept(ToUnix(q), "unix") = Kept(q, "windows")
<1>1. PICK f \in Filters("windows"), T \in SUBSET Seq(Token) :
        /\ UnixFilter(f) \in Filters("unix")
        /\ Parse(q, "windows") = [f EXCEPT !.terms = T]
        /\ Parse(ToUnix(q), "unix") = [UnixFilter(f) EXCEPT !.terms = {UnixStage(x) : x \in T}]
  BY UnixQueryParse
<1>2. Kept(q, "windows") = Rows(f, T)
  BY <1>1, KeptRows
<1>3. Kept(ToUnix(q), "unix") = Rows(UnixFilter(f), {UnixStage(x) : x \in T})
  <2> DEFINE g == UnixFilter(f)
             TT == {UnixStage(x) : x \in T}
  <2>1. g \in Filters("unix") /\ Parse(ToUnix(q), "unix") = [g EXCEPT !.terms = TT]
    BY <1>1
  <2> HIDE DEF g, TT
  <2>2. Kept(ToUnix(q), "unix") = Rows(g, TT)
    BY <2>1, KeptRows
  <2> QED BY <2>2 DEF g, TT
<1> QED BY <1>2, <1>3, UnixRows, FilterIsAny

LEMMA UnixContentCall ==
  ASSUME NEW x \in Seq(Token), NEW ids
  PROVE  ContentCall(UnixStage(x), ids, 0, {}) = ContentCall(x, ids, 0, {})
<1>1. ContentRows(UnixStage(x), ids) = ContentRows(x, ids)
  BY UnixHolds DEF ContentRows
<1> QED BY <1>1 DEF ContentCall

\* A content search is the same in both dialects.
LEMMA UnixContent ==
  ASSUME library \subseteq Files, now \in Nat, NEW f \in Filters("windows"),
         UnixFilter(f) \in Filters("unix"), NEW ids, NEW restricted
  PROVE  SearchContent(UnixFilter(f), ids, restricted, 0, "unix", {})
           = SearchContent(f, ids, restricted, 0, "windows", {})
<1> DEFINE g == UnixFilter(f)
<1>1. f \in AnyFilter /\ g \in AnyFilter
  BY FilterIsAny
<1>2. /\ g.text = UnixStage(f.text) /\ g.content = f.content /\ g.exts = f.exts
      /\ g.pinned = f.pinned /\ g.after = f.after /\ g.before = f.before /\ g.terms = f.terms
  BY <1>1, UnixFilterType
<1>3. g.text = <<>> <=> f.text = <<>>
  BY <1>1, <1>2, UnixHolds DEF AnyFilter
<1>4. \A c : ContentCall(g.text, c, 0, {}) = ContentCall(f.text, c, 0, {})
  BY <1>1, <1>2, UnixContentCall DEF AnyFilter
<1> HIDE DEF g
<1>5. Own(f) \in Filters("windows") /\ Own(g) \in Filters("unix")
  BY OwnType DEF g
<1>6. Own(g) = Own(f)
  <2>1. Own(f) \in AnyFilter /\ Own(g) \in AnyFilter
    BY <1>5, FilterIsAny
  <2> QED BY <1>1, <1>2, <2>1, SameAny DEF Own, AnyFilter
<1> DEFINE o == Own(f)
           w == Compile(o, "windows")
           u == Compile(o, "unix")
<1>7. /\ w \in Seq(Token) /\ ParseStage(w, "windows") = Recompiled(o)
      /\ u \in Seq(Token) /\ ParseStage(u, "unix") = Recompiled(o)
  BY <1>5, <1>6, CompiledIsRead
<1> HIDE DEF o, w, u
<1> DEFINE r == Recompiled(o)
<1>8. /\ Parse(<<w>>, "windows") = r /\ Parse(<<u>>, "unix") = r
      /\ r \in Filters("windows") /\ r \in Filters("unix")
  BY <1>7, ParseLine, ParseType
<1> HIDE DEF r
<1>9. r = [r EXCEPT !.terms = {}]
  <2>1. [r EXCEPT !.terms = {}] \in Filters("windows")
    BY <1>8 DEF Filters
  <2> QED BY <1>8, <2>1, SameFilter DEF Filters
<1>10. Kept(<<w>>, "windows") = Rows(r, {}) /\ Kept(<<u>>, "unix") = Rows(r, {})
  BY <1>8, <1>9, KeptRows
<1> DEFINE ids2 == Candidates(Rows(r, {}))
           Plan(text) == IF engine.readOnly THEN {Refusal("still indexing")}
                         ELSE IF ~engine.content THEN {Refusal("not supported")}
                         ELSE IF text = <<>> THEN {Found({})}
                         ELSE IF restricted \/ o = NoFilter THEN ContentCall(text, ids, 0, {})
                         ELSE IF ids2 = {} THEN {Found({})}
                         ELSE ContentCall(text, ids2, 0, {})
<1>11. SearchContent(f, ids, restricted, 0, "windows", {}) = Plan(f.text)
  BY <1>10, ContentPlan DEF o, w
<1>12. SearchContent(g, ids, restricted, 0, "unix", {}) = Plan(g.text)
  BY <1>6, <1>10, ContentPlan DEF o, u
<1>13. Plan(g.text) = Plan(f.text)
  <2>1. CASE f.text = <<>>
    BY <1>3, <2>1
  <2>2. CASE f.text # <<>>
    <3>1. g.text # <<>> /\ ContentCall(g.text, ids, 0, {}) = ContentCall(f.text, ids, 0, {})
          /\ ContentCall(g.text, ids2, 0, {}) = ContentCall(f.text, ids2, 0, {})
      BY <1>3, <1>4, <2>2
    <3> HIDE DEF ids2
    <3> QED BY <2>2, <3>1
  <2> QED BY <2>1, <2>2
<1> HIDE DEF Plan
<1>14. SearchContent(g, ids, restricted, 0, "unix", {})
         = SearchContent(f, ids, restricted, 0, "windows", {})
  BY <1>11, <1>12, <1>13
<1> QED BY <1>14 DEF g

\* The stages of a query that are content searches, and their parts.
LEMMA UnixStages ==
  ASSUME now \in Nat, NEW q \in WindowsQueries
  PROVE  /\ ContentStages(ToUnix(q), "unix") = ContentStages(q, "windows")
         /\ \A i \in 1 .. Len(q) :
              /\ ParseStage(ToUnix(q)[i], "unix") = UnixFilter(ParseStage(q[i], "windows"))
              /\ ParseStage(q[i], "windows") \in Filters("windows")
              /\ ParseStage(ToUnix(q)[i], "unix") \in Filters("unix")
<1>1. /\ DOMAIN q = 1 .. Len(q) /\ DOMAIN ToUnix(q) = 1 .. Len(q)
      /\ \A i \in 1 .. Len(q) : q[i] \in Seq(WindowsTokens) /\ q[i] \in Seq(Token)
                                /\ ToUnix(q)[i] = UnixStage(q[i])
  BY UnixQuery
<1>2. ASSUME NEW i \in 1 .. Len(q)
      PROVE  /\ ParseStage(ToUnix(q)[i], "unix") = UnixFilter(ParseStage(q[i], "windows"))
             /\ ParseStage(q[i], "windows") \in Filters("windows")
             /\ ParseStage(ToUnix(q)[i], "unix") \in Filters("unix")
  BY <1>1, UnixParse, UnixStageType, ParseType
<1>3. ASSUME NEW i \in 1 .. Len(q)
      PROVE  ParseStage(ToUnix(q)[i], "unix").content = ParseStage(q[i], "windows").content
  BY <1>2, UnixFilterType, FilterIsAny
<1>4. ContentStages(ToUnix(q), "unix") = ContentStages(q, "windows")
  BY <1>1, <1>3 DEF ContentStages
<1> QED BY <1>2, <1>4

LEMMA FrontParts ==
  ASSUME NEW T, NEW s \in Seq(T), Len(s) > 1
  PROVE  /\ Front(s) \in Seq(T) /\ Len(Front(s)) = Len(s) - 1 /\ Len(s) - 1 \in Nat \ {0}
         /\ \A i \in 1 .. (Len(s) - 1) : Front(s)[i] = s[i]
<1>1. Len(s) \in Nat /\ Len(s) - 1 \in Nat \ {0} /\ Len(s) - 1 <= Len(s)
  <2>1. Len(s) \in Nat
    OBVIOUS
  <2>2. \A n \in Nat : n > 1 => n - 1 \in Nat \ {0} /\ n - 1 <= n
    OBVIOUS
  <2> QED BY <2>1, <2>2
<1>2. \A i \in 1 .. (Len(s) - 1) : s[i] \in T
  OBVIOUS
<1> DEFINE m == Len(s) - 1
           v == [i \in 1 .. m |-> s[i]]
<1>3. SubSeq(s, 1, m) = v
  OBVIOUS
<1>4. v \in Seq(T) /\ Len(v) = m /\ \A i \in 1 .. m : v[i] = s[i]
  <2> HIDE DEF m
  <2>1. m \in Nat /\ \A i \in 1 .. m : s[i] \in T
    BY <1>1, <1>2 DEF m
  <2> QED BY <2>1
<1> HIDE DEF v
<1> QED BY <1>1, <1>3, <1>4 DEF Front

LEMMA OneElement ==
  ASSUME NEW T, NEW s \in Seq(T), Len(s) = 1
  PROVE  s[1] \in T /\ s = <<s[1]>>
OBVIOUS

LEMMA UnixDrill ==
  ASSUME library \subseteq Files, now \in Nat, NEW q \in WindowsQueries, Len(q) > 1
  PROVE  Drill(ToUnix(q), 0, "unix", {}) = Drill(q, 0, "windows", {})
<1> DEFINE n == Len(q)
           r == ToUnix(q)
           f == ParseStage(Last(q), "windows")
           kept == Kept(Front(q), "windows")
<1>1. n \in Nat /\ n > 1 /\ Len(r) = n /\ r \in Seq(Seq(Token)) /\ q \in Seq(Seq(WindowsTokens))
      /\ \A i \in 1 .. n : r[i] = UnixStage(q[i])
  BY UnixQuery DEF WindowsQueries
<1>2. Last(q) = q[n] /\ Last(r) = r[n] /\ n \in 1 .. n
  BY <1>1 DEF Last
<1>3. ParseStage(Last(r), "unix") = UnixFilter(f) /\ f \in Filters("windows")
      /\ UnixFilter(f) \in Filters("unix")
  BY <1>2, UnixStages
<1>4. Front(q) \in WindowsQueries /\ Front(r) = ToUnix(Front(q))
  <2> DEFINE v == Front(q)
             w == Front(r)
  <2>1. /\ v \in Seq(Seq(WindowsTokens)) /\ Len(v) = n - 1 /\ n - 1 \in Nat \ {0}
        /\ w \in Seq(Seq(Token)) /\ Len(w) = n - 1
        /\ \A i \in 1 .. (n - 1) : v[i] = q[i] /\ w[i] = r[i]
    <3> HIDE DEF n, r
    <3>1. n = Len(q) /\ n = Len(r)
      BY <1>1 DEF n
    <3> QED BY <1>1, <3>1, FrontParts
  <2> HIDE DEF v, w
  <2>2. v \in WindowsQueries
    BY <2>1 DEF WindowsQueries
  <2>3. /\ Len(ToUnix(v)) = n - 1 /\ ToUnix(v) \in Seq(Seq(Token))
        /\ \A i \in 1 .. (n - 1) : ToUnix(v)[i] = UnixStage(v[i])
    BY <2>1, <2>2, UnixQuery
  <2>4. \A i \in 1 .. Len(w) : w[i] = ToUnix(v)[i]
    <3> SUFFICES ASSUME NEW i \in 1 .. (n - 1) PROVE w[i] = ToUnix(v)[i]
      BY <2>1
    <3>1. i \in 1 .. n
      BY <1>1
    <3> QED BY <1>1, <2>1, <2>3, <3>1
  <2>5. w = ToUnix(v)
    BY <2>1, <2>3, <2>4, SeqEqual
  <2>6. Front(q) = v /\ Front(r) = w
    BY DEF v, w
  <2> QED BY <2>2, <2>5, <2>6
<1>5. Kept(Front(r), "unix") = kept
  BY <1>4, UnixKept
<1>6. Drill(q, 0, "windows", {})
        = IF Candidates(kept) = {} THEN {Found({})}
          ELSE SearchContent(f, Candidates(kept), TRUE, 0, "windows", {})
  BY DrillPlan
<1>7. Drill(r, 0, "unix", {})
        = IF Candidates(kept) = {} THEN {Found({})}
          ELSE SearchContent(UnixFilter(f), Candidates(kept), TRUE, 0, "unix", {})
  BY <1>3, <1>5, DrillPlan
<1>8. SearchContent(UnixFilter(f), Candidates(kept), TRUE, 0, "unix", {})
        = SearchContent(f, Candidates(kept), TRUE, 0, "windows", {})
  BY <1>3, UnixContent
<1> HIDE DEF f, kept
<1> QED BY <1>6, <1>7, <1>8 DEF r

LEMMA UnixAnswers ==
  ASSUME library \subseteq Files, now \in Nat, NEW q \in WindowsQueries
  PROVE  Answers(ToUnix(q), 0, "unix", {}) = Answers(q, 0, "windows", {})
<1> DEFINE r == ToUnix(q)
           stages == ContentStages(q, "windows")
<1>1. Len(q) \in Nat \ {0} /\ Len(r) = Len(q) /\ ContentStages(r, "unix") = stages
  BY UnixQuery, UnixStages
<1>2. SearchFiles(r, 0, "unix", {}) = SearchFiles(q, 0, "windows", {})
  BY UnixKept DEF SearchFiles
<1>3. ASSUME Len(q) = 1
      PROVE  SearchContent(Parse(r, "unix"), {}, FALSE, 0, "unix", {})
               = SearchContent(Parse(q, "windows"), {}, FALSE, 0, "windows", {})
  <2>1. q[1] \in Seq(Token) /\ r[1] \in Seq(Token) /\ q = <<q[1]>> /\ r = <<r[1]>>
    <3>1. q \in Seq(Seq(Token)) /\ r \in Seq(Seq(Token)) /\ Len(r) = 1
      <4>1. Seq(WindowsTokens) \subseteq Seq(Token)
        BY DEF WindowsTokens
      <4> QED BY <1>1, <1>3, <4>1, UnixQuery DEF WindowsQueries
    <3> HIDE DEF r
    <3> QED BY <1>3, <3>1, OneElement
  <2>2. Parse(q, "windows") = ParseStage(q[1], "windows")
          /\ Parse(r, "unix") = ParseStage(r[1], "unix")
    BY <2>1, ParseLine
  <2>3. /\ ParseStage(r[1], "unix") = UnixFilter(ParseStage(q[1], "windows"))
        /\ ParseStage(q[1], "windows") \in Filters("windows")
        /\ ParseStage(r[1], "unix") \in Filters("unix")
    BY <1>3, UnixStages
  <2> QED BY <2>2, <2>3, UnixContent
<1>4. Len(q) # 1 => Drill(r, 0, "unix", {}) = Drill(q, 0, "windows", {})
  <2>1. Len(q) # 1 => Len(q) > 1
    BY <1>1
  <2> QED BY <2>1, UnixDrill
<1> HIDE DEF r, stages
<1> QED BY <1>1, <1>2, <1>3, <1>4 DEF Answers, r, stages

\* For every index and every runtime: a query of the Windows dialect finds what
\* the same query finds as a Linux user types it.
THEOREM OneLanguage == Spec => []DialectsAgree
<1>1. QInv => DialectsAgree
  <2> SUFFICES ASSUME QInv, OneSlash(query)
               PROVE  Answers(query, 0, "windows", {}) = Answers(ToUnix(query), 0, "unix", {})
    BY DEF DialectsAgree
  <2>1. query \in WindowsQueries
    <3>1. query \in Seq(Seq(Token)) /\ query # <<>>
      BY DEF QInv, TypeOK
    <3>2. \A i \in DOMAIN query : query[i] \in Seq(WindowsTokens)
      <4> SUFFICES ASSUME NEW i \in DOMAIN query PROVE query[i] \in Seq(WindowsTokens)
        OBVIOUS
      <4>1. query[i] \in Seq(Token) /\ \A j \in DOMAIN query[i] : query[i][j].slashes <= 1
        BY <3>1 DEF OneSlash
      <4>2. \A j \in DOMAIN query[i] : query[i][j] \in WindowsTokens
        BY <4>1 DEF WindowsTokens
      <4> QED BY <4>1, <4>2
    <3> QED BY <3>1, <3>2 DEF WindowsQueries
  <2>2. library \subseteq Files /\ now \in Nat
    BY SearchAssumption DEF QInv, TypeOK
  <2> QED BY <2>1, <2>2, UnixAnswers
<1> QED BY <1>1, SearchInvariant, PTL
=============================================================================
