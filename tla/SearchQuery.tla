---------------------------- MODULE SearchQuery ----------------------------
(***************************************************************************)
(* One search, from the text in the search box to the rows on the screen:  *)
(* the search dialect (src/ui/SearchDialect.cpp), the plan that            *)
(* RuntimeClient::search makes of it (src/runtime/RuntimeClient.cpp) and   *)
(* the admission filters (src/runtime/SearchableFiles.cpp).                *)
(*                                                                         *)
(* A query is a sequence of stages (split at "/;"), a stage a sequence of  *)
(* tokens, a token a record:                                               *)
(*   slashes   how many slashes it starts with                             *)
(*   kind      "word", "inside", "pin", "command", or a date:              *)
(*             "relative" (today, yesterday), "recent" (week, month, year),*)
(*             "after", "before", "span" (an ISO day or month, date:),     *)
(*             "compact" (an eight-digit day or a range of them)           *)
(*   word      the word; from, to: the days of a date                      *)
(* What the private runtime does with a query is known only through the C  *)
(* ABI: it must match the text, and it may or may not apply the            *)
(* constraints that the compiled query carries as well.                    *)
(***************************************************************************)
EXTENDS Integers, FiniteSets, SequencesExt

CONSTANTS
  BuiltInExtensions,  \* extensions the dialect knows by itself
  AllowedExtensions,  \* extensions of files that are shown at all
  TextExtensions,     \* and of those whose contents are searched
  Words,              \* what names, texts and extensions are made of
  DayLength,          \* units of time in a day
  Times,              \* the times a search may be made at
  Libraries,          \* the sets of files an index may hold
  Engines,            \* what the private runtime can do
  Dialects,           \* the platforms: "windows", "unix"
  Tokens,             \* the tokens a user types
  Drafts,             \* the texts a search box may hold to begin with
  TypeLimit,          \* bound: tokens and branches typed after that
  ResultLimits        \* the max_results a caller passes; 0 is no limit

Kinds == {"word", "inside", "pin", "command", "relative", "recent", "after", "before", "span",
          "compact"}
NoWord == "none"
Token == [slashes : Nat, kind : Kinds, word : Words, from : Int, to : Int]
Files == [name : Seq(Words), ext : Words, modified : Int, pinned : BOOLEAN,
          indexed : BOOLEAN, inside : Seq(Words)]

ASSUME SearchAssumption ==
  /\ {NoWord, "claude", "codex", "font", "index", "drive", "reindex", "roots"} \subseteq Words
  /\ BuiltInExtensions \subseteq Words
  /\ DayLength \in Nat \ {0}
  /\ Times \subseteq Nat
  /\ Dialects \subseteq {"windows", "unix"}
  /\ Engines \subseteq [filters : BOOLEAN, content : BOOLEAN, readOnly : BOOLEAN]
  /\ TextExtensions \subseteq AllowedExtensions
  /\ ResultLimits \subseteq Nat /\ TypeLimit \in Nat
  /\ \A l \in Libraries : IsFiniteSet(l) /\ l \subseteq Files
  /\ Tokens \subseteq Token
  /\ Drafts \subseteq Seq(Seq(Token)) \ {<<>>}

VARIABLES
  dialect, now, library, engine,  \* the platform, the clock, the runtime
  query,    \* the text of the search box
  offered,  \* the completion that was taken last, if any
  typed,    \* how much was typed
  answer    \* what the search returned

vars == <<dialect, now, library, engine, query, offered, typed, answer>>

-----------------------------------------------------------------------------
(* The dialect.                                                            *)

\* operator_prefix: the slashes of a platform's operators.
Prefix(d) == IF d = "windows" THEN 1 ELSE 2

Prefixed(t, d) == t.slashes = Prefix(d)

\* Mutated form: the extensions seen in the index are not registered.
RegisteredBuiltIn == BuiltInExtensions

Registered == BuiltInExtensions \cup {f.ext : f \in library}

NoFilter == [content |-> FALSE, text |-> <<>>, exts |-> {}, pinned |-> FALSE,
             after |-> {}, before |-> {}, terms |-> {}]

\* A compact date needs no prefix, and stands for a range only in order.
IsDate(t, d) ==
  \/ t.kind = "compact" /\ t.slashes <= 2 /\ t.from <= t.to
  \/ t.kind \in {"relative", "recent", "after", "before", "span"} /\ Prefixed(t, d)

DayStart(time) == DayLength * (time \div DayLength)

\* apply_date_token: a later date replaces the bounds it has in common with an
\* earlier one.
ApplyDate(f, t) ==
  CASE t.kind = "after"    -> [f EXCEPT !.after = {t.from * DayLength}]
    [] t.kind = "before"   -> [f EXCEPT !.before = {t.from * DayLength}]
    [] t.kind = "recent"   -> [f EXCEPT !.after = {now - t.from * DayLength}, !.before = {now + 1}]
    [] t.kind = "relative" -> LET start == DayStart(now) + t.from * DayLength
                              IN [f EXCEPT !.after = {start}, !.before = {start + DayLength}]
    [] OTHER -> [f EXCEPT !.after = {t.from * DayLength}, !.before = {(t.to + 1) * DayLength}]

\* Mutated form: /inside takes the platform's prefix like the other operators.
ReadInsidePrefixed(f, t, d) ==
  CASE t.kind = "inside" /\ Prefixed(t, d) -> [f EXCEPT !.content = TRUE]
    [] IsDate(t, d) -> ApplyDate(f, t)
    [] t.kind = "pin" /\ Prefixed(t, d) -> [f EXCEPT !.pinned = TRUE]
    [] t.kind = "word" /\ Prefixed(t, d) /\ t.word \in Registered ->
         [f EXCEPT !.exts = @ \cup {t.word}]
    [] OTHER -> [f EXCEPT !.text = Append(@, t)]

\* One token of parse_impl; what nothing else claims is text.
Read(f, t, d) ==
  CASE t.kind = "inside" /\ t.slashes = 1 -> [f EXCEPT !.content = TRUE]
    [] IsDate(t, d) -> ApplyDate(f, t)
    [] t.kind = "pin" /\ Prefixed(t, d) -> [f EXCEPT !.pinned = TRUE]
    [] t.kind = "word" /\ Prefixed(t, d) /\ t.word \in Registered ->
         [f EXCEPT !.exts = @ \cup {t.word}]
    [] OTHER -> [f EXCEPT !.text = Append(@, t)]

ParseStage(stage, d) ==
  LET read[i \in 0 .. Len(stage)] ==
        IF i = 0 THEN NoFilter ELSE Read(read[i - 1], stage[i], d)
  IN read[Len(stage)]

\* parse_search_query: all the tokens of all the stages, and the text of each
\* refinement as a detail term.
Parse(q, d) ==
  [ParseStage(FlattenSeq(q), d) EXCEPT
     !.terms = {ParseStage(q[i], d).text : i \in 2 .. Len(q)} \ {<<>>}]

Control(kind, word, day, d) ==
  [slashes |-> Prefix(d), kind |-> kind, word |-> word, from |-> day, to |-> day]

\* Mutated form: the upper bound of the window is left out.
CompileNoBefore(f, d) ==
  f.text
    \o SetToSeq({Control("word", e, 0, d) : e \in f.exts})
    \o (IF f.pinned THEN <<Control("pin", NoWord, 0, d)>> ELSE <<>>)
    \o SetToSeq({Control("after", NoWord, a \div DayLength, d) : a \in f.after})

\* compile_runtime_query: the filter as one line of the dialect again, its
\* bounds as the local days they fall on.  Scope and terms are not in it.
Compile(f, d) ==
  f.text
    \o SetToSeq({Control("word", e, 0, d) : e \in f.exts})
    \o (IF f.pinned THEN <<Control("pin", NoWord, 0, d)>> ELSE <<>>)
    \o SetToSeq({Control("after", NoWord, a \div DayLength, d) : a \in f.after})
    \o SetToSeq({Control("before", NoWord, b \div DayLength, d) : b \in f.before})

-----------------------------------------------------------------------------
(* Completions.                                                            *)

Command(n, w) == [slashes |-> n, kind |-> "command", word |-> w, from |-> 0, to |-> 0]
Operator(n, k, day) == [slashes |-> n, kind |-> k, word |-> NoWord, from |-> day, to |-> day]

\* Typed with one slash: the commands that are the same everywhere, and on
\* Windows the index commands (the branch "/;" is the action Branch).
Universal(d) ==
  {Command(1, w) : w \in {"claude", "codex"} \cup
                         (IF d = "windows" THEN {"drive", "index"} ELSE {})}
    \cup {Operator(1, "inside", 0)}

\* Typed with the Unix prefix: its commands and operators, and the extensions
\* seen in the index.
UnixFixed ==
  {Command(2, w) : w \in {"font", "index", "drive", "reindex", "roots"}}
    \cup {Operator(2, "pin", 0), Operator(2, "relative", 0), Operator(2, "relative", -1),
          Operator(2, "recent", 1)}
    \cup {Control("word", f.ext, 0, "unix") : f \in library}

Autocomplete(d, slashes) ==
  IF slashes = 1 THEN Universal(d) ELSE IF d = "unix" THEN UnixFixed ELSE {}

\* parse_agent_command, parse_font_command and parse_index_command: such a
\* query is a command and never searched.
IsCommand(q, d) ==
  /\ Len(q) = 1 /\ Len(q[1]) = 1 /\ q[1][1].kind = "command"
  /\ LET t == q[1][1]
     IN \/ t.word \in {"claude", "codex"} /\ t.slashes \in {1, Prefix(d)}
        \/ t.word \in {"font", "index", "drive", "reindex", "roots"} /\ Prefixed(t, d)

-----------------------------------------------------------------------------
(* The files.                                                              *)

\* searchable_filename and searchable_text_filename: known suffixes only.
SearchableFilename(f) == f.ext \in AllowedExtensions
SearchableText(f) == SearchableFilename(f) /\ f.ext \in TextExtensions

Plain(t) == t.slashes = 0 /\ t.kind = "word"

Holds(words, text) ==
  \A i \in DOMAIN text : Plain(text[i]) /\ text[i].word \in ToSet(words)

\* A detail term is looked for as one piece of text.
HoldsPhrase(name, term) ==
  \E k \in 0 .. (Len(name) - Len(term)) :
    \A i \in DOMAIN term : Plain(term[i]) /\ name[k + i] = term[i].word

Meets(file, f) ==
  /\ f.pinned => file.pinned
  /\ f.exts # {} => file.ext \in f.exts
  /\ \A a \in f.after : file.modified >= a
  /\ \A b \in f.before : file.modified < b

-----------------------------------------------------------------------------
(* RuntimeClient::search.                                                  *)

Found(rows) == [hits |-> rows, error |-> "none"]
Refusal(why) == [hits |-> {}, error |-> why]

\* The answers when at most limit of the rows are taken.
Cut(rows, limit) ==
  {s \in SUBSET rows :
     Cardinality(s) = IF limit = 0 THEN Cardinality(rows) ELSE Min({limit, Cardinality(rows)})}

\* such_runtime_search_v1: the rows of a compiled query, in an order of its own.
RuntimeRows(line, d) ==
  LET f == ParseStage(line, d)
  IN {file \in library : Holds(file.name, f.text) /\ (engine.filters => Meets(file, f))}

\* What search_files keeps of them: every constraint again, exactly.
Kept(q, d) ==
  LET f == Parse(q, d)
  IN {file \in RuntimeRows(Compile(f, d), d) :
        /\ SearchableFilename(file)
        /\ Meets(file, f)
        /\ \A term \in f.terms : HoldsPhrase(file.name, term)}

\* Mutated form: the runtime is asked for no more rows than the caller wants.
SearchFilesCapped(q, limit, d, broken) ==
  IF "files" \in broken
    THEN {Refusal("search failed")}
    ELSE {Found(rows \cap Kept(q, d)) : rows \in Cut(RuntimeRows(Compile(Parse(q, d), d), d), limit)}

\* search_files: the runtime is asked for all rows, and the limit is applied
\* to those that are kept.  broken: the ABI calls that fail.
SearchFiles(q, limit, d, broken) ==
  IF "files" \in broken
    THEN {Refusal("search failed")}
    ELSE {Found(rows) : rows \in Cut(Kept(q, d), limit)}

\* The files whose ids are handed to the content engine.
Candidates(rows) == {f \in rows : f.indexed /\ SearchableText(f)}

\* such_runtime_search_content_v1: no candidate ids means the whole index.
ContentRows(text, ids) ==
  {f \in library : f.indexed /\ Holds(f.inside, text) /\ (ids # {} => f \in ids)}

\* Mutated form: the rows that came before the failure are returned with it.
ContentCallPartial(text, ids, limit, broken) ==
  IF "content" \in broken
    THEN {[hits |-> rows, error |-> "content search failed"] : rows \in SUBSET ContentRows(text, ids)}
    ELSE {Found(rows) : rows \in Cut({f \in ContentRows(text, ids) : SearchableText(f)}, limit)}

ContentCall(text, ids, limit, broken) ==
  IF "content" \in broken
    THEN {Refusal("content search failed")}
    ELSE {Found(rows) : rows \in Cut({f \in ContentRows(text, ids) : SearchableText(f)}, limit)}

\* A set of candidate files, and then the search Inside them: a failing file
\* search is reported, and no candidate at all is the answer.
Within(q, d, broken, Inside(_)) ==
  IF "files" \in broken
    THEN {Refusal("search failed")}
    ELSE LET ids == Candidates(Kept(q, d))
         IN IF ids = {} THEN {Found({})} ELSE Inside(ids)

\* search_content.  ids are candidates from earlier stages (restricted), or the
\* filter's own constraints are resolved into candidates first.
SearchContent(f, ids, restricted, limit, d, broken) ==
  LET own == [f EXCEPT !.content = FALSE, !.text = <<>>, !.terms = {}]
      Call(candidates) == ContentCall(f.text, candidates, limit, broken)
  IN CASE engine.readOnly -> {Refusal("still indexing")}
       [] ~engine.readOnly /\ ~engine.content -> {Refusal("not supported")}
       [] OTHER ->
            IF f.text = <<>> THEN {Found({})}
            ELSE IF restricted \/ own = NoFilter THEN Call(ids)
            ELSE Within(<<Compile(own, d)>>, d, broken, Call)

\* Mutated form: an empty set of candidates is passed on.
DrillEmpty(q, limit, d, broken) ==
  IF "files" \in broken
    THEN {Refusal("search failed")}
    ELSE SearchContent(ParseStage(Last(q), d), Candidates(Kept(Front(q), d)), TRUE, limit, d, broken)

\* The plan of a query whose last stage is /inside: the earlier stages make
\* the candidates of the last.
Drill(q, limit, d, broken) ==
  LET Inside(ids) == SearchContent(ParseStage(Last(q), d), ids, TRUE, limit, d, broken)
  IN Within(Front(q), d, broken, Inside)

ContentStages(q, d) == {i \in DOMAIN q : ParseStage(q[i], d).content}

\* RuntimeClient::search.
Answers(q, limit, d, broken) ==
  LET stages == ContentStages(q, d)
  IN IF stages = {} THEN SearchFiles(q, limit, d, broken)
     ELSE IF Len(q) = 1 THEN SearchContent(Parse(q, d), {}, FALSE, limit, d, broken)
     ELSE IF stages = {Len(q)} THEN Drill(q, limit, d, broken)
     ELSE {Refusal("/inside must be the final stage")}

-----------------------------------------------------------------------------
(* Typing and searching.                                                   *)

NotAsked == [hits |-> {}, error |-> "not asked", limit |-> 0]

Init ==
  /\ dialect \in Dialects /\ now \in Times
  /\ library \in Libraries /\ engine \in Engines
  /\ query \in Drafts
  /\ offered = {} /\ typed = 0
  /\ answer = NotAsked

Extended(t) == ReplaceAt(query, Len(query), Append(Last(query), t))

Edit(q) ==
  /\ typed < TypeLimit
  /\ typed' = typed + 1
  /\ query' = q
  /\ answer' = NotAsked
  /\ UNCHANGED <<dialect, now, library, engine>>

Type(t) == Edit(Extended(t)) /\ offered' = {}

Branch == Edit(Append(query, <<>>)) /\ offered' = {}

\* A completion replaces the word that is being typed.
Complete(t) ==
  /\ \E slashes \in {1, 2} : t \in Autocomplete(dialect, slashes)
  /\ Edit(Extended(t))
  /\ offered' = {t}

\* refresh_query, run: the text is searched unless it is a command.
Search(limit, broken) ==
  /\ answer = NotAsked
  /\ ~IsCommand(query, dialect)
  /\ \E a \in Answers(query, limit, dialect, broken) :
       answer' = [hits |-> a.hits, error |-> a.error, limit |-> limit]
  /\ UNCHANGED <<dialect, now, library, engine, query, offered, typed>>

Next ==
  \/ \E t \in Tokens : Type(t)
  \/ Branch
  \/ \E t \in Autocomplete(dialect, 1) \cup Autocomplete(dialect, 2) : Complete(t)
  \/ \E limit \in ResultLimits : \E broken \in SUBSET {"files", "content"} : Search(limit, broken)

Spec == Init /\ [][Next]_vars

-----------------------------------------------------------------------------
(* Properties.                                                             *)

Errors == {"none", "not asked", "search failed", "content search failed", "still indexing",
           "not supported", "/inside must be the final stage"}

\* Type correctness; an answer with an error has no rows.
TypeOK ==
  /\ dialect \in Dialects /\ now \in Times /\ library \in Libraries /\ engine \in Engines
  /\ query \in Seq(Seq(Token)) \ {<<>>} /\ typed \in 0 .. TypeLimit
  /\ answer.hits \subseteq library
  /\ answer.error \in Errors
  /\ answer.error # "none" => answer.hits = {}

Answered == answer.error = "none"

\* The files the contents of which a text may be found in.
Readable(text) == {f \in library : f.indexed /\ SearchableText(f) /\ Holds(f.inside, text)}

\* Everything the search would find with no limit and a runtime that works.
Whole == UNION {a.hits : a \in Answers(query, 0, dialect, {})}

\* An answer without an error is the whole answer, up to the caller's limit: no
\* failing call of a staged plan is taken for an empty result, and rows that the
\* filters reject use up none of the limit (lines 435-498, 532-557, 612-646).
AnswerIsWhole ==
  Answered => answer.hits \in Cut(Whole, answer.limit)

\* After files, /inside searches exactly those files: the rows are the rows of
\* the earlier stages on their own whose contents hold the text, and no
\* candidates is never taken for no restriction (lines 586-646).
DrillSearchesCandidates ==
  Answered /\ Len(query) > 1 /\ ContentStages(query, dialect) # {} /\ answer.limit = 0 =>
    LET text == ParseStage(Last(query), dialect).text
    IN answer.hits = IF text = <<>> THEN {} ELSE Kept(Front(query), dialect) \cap Readable(text)

\* The constraints of a direct /inside query, as a file search on their own.
Constrains(t, d) == LET f == ParseStage(<<t>>, d) IN f.text = <<>> /\ ~f.content

ConstraintsOf(stage, d) ==
  LET kept[i \in 0 .. Len(stage)] ==
        IF i = 0 THEN <<>>
        ELSE IF Constrains(stage[i], d) THEN Append(kept[i - 1], stage[i])
        ELSE kept[i - 1]
  IN kept[Len(stage)]

Direct == Answered /\ Len(query) = 1 /\ ContentStages(query, dialect) # {} /\ answer.limit = 0

RowsOfBoth ==
  LET text == ParseStage(query[1], dialect).text
  IN IF text = <<>> THEN {}
     ELSE Kept(<<ConstraintsOf(query[1], dialect)>>, dialect) \cap Readable(text)

\* Direct content queries carry file-level constraints such as /docx, /pin or
\* dates (lines 520-522): the rows are those that a file search with the same
\* constraints finds and whose contents hold the text.
ContentKeepsConstraints == Direct => answer.hits = RowsOfBoth

\* The same, but for the windows that end now (/week, /month, /year).
DayConstraintsKept ==
  Direct /\ (\A i \in DOMAIN query[1] : query[1][i].kind # "recent") => answer.hits = RowsOfBoth

\* A query of the Windows dialect, as a Linux user would type it.
ToUnix(q) ==
  [i \in DOMAIN q |-> [j \in DOMAIN q[i] |->
     IF q[i][j].slashes = 1 /\ q[i][j].kind \notin {"inside", "compact"}
       THEN [q[i][j] EXCEPT !.slashes = 2] ELSE q[i][j]]]

OneSlash(q) == \A i \in DOMAIN q : \A j \in DOMAIN q[i] : q[i][j].slashes <= 1

\* The two dialects differ in the prefix only: a query finds the same on both
\* (operator_prefix; /inside and compact dates are the same on both).
DialectsAgree ==
  answer = NotAsked /\ dialect = "windows" /\ OneSlash(query) =>
    Answers(query, 0, "windows", {}) = Answers(ToUnix(query), 0, "unix", {})

\* A completion that the search box offers is understood once it is taken: it is
\* a command, or an operator, and never searched for as text (autocomplete,
\* parse_impl and parse_index_command know the same words).
SuggestedIsUnderstood ==
  \A t \in offered : IsCommand(<< <<t>> >>, dialect) \/ ParseStage(<<t>>, dialect).text = <<>>
=============================================================================
