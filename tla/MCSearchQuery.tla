--------------------------- MODULE MCSearchQuery ---------------------------
EXTENDS SearchQuery

Word(n, w) == [slashes |-> n, kind |-> "word", word |-> w, from |-> 0, to |-> 0]
Date(n, k, a, b) == [slashes |-> n, kind |-> k, word |-> NoWord, from |-> a, to |-> b]

MCBuiltIn == {"txt", "pdf"}
MCAllowed == {"txt", "pdf", "log"}
MCText    == {"txt", "log"}

File(name, ext, modified, pinned, indexed, inside) ==
  [name |-> name, ext |-> ext, modified |-> modified, pinned |-> pinned,
   indexed |-> indexed, inside |-> inside]

MCWords == {NoWord, "plan", "note", "txt", "pdf", "log", "tmp",
            "claude", "codex", "font", "index", "drive", "reindex", "roots"}

\* Days are three units long and the search is made in the middle of day 2.
MCTimes == {7}

Plan     == File(<<"plan">>, "txt", 7, FALSE, TRUE, <<"note">>)
PlanNote == File(<<"plan", "note">>, "txt", 4, TRUE, TRUE, <<"note">>)
NotePlan == File(<<"note", "plan">>, "log", 6, TRUE, TRUE, <<"plan", "note">>)
Sheet    == File(<<"plan">>, "pdf", 7, FALSE, TRUE, <<"note">>)
Gone     == File(<<"note">>, "txt", 5, TRUE, FALSE, <<"note">>)
Junk     == File(<<"plan", "note">>, "tmp", 7, TRUE, TRUE, <<"note">>)

MCLibraries == { {Plan, PlanNote, NotePlan, Sheet, Gone, Junk} }

Working == [filters |-> FALSE, content |-> TRUE, readOnly |-> FALSE]

\* A runtime that leaves the filters to the client, one that applies them, the
\* reader of a checkpoint, and a runtime without content search.
MCEngines == { Working, [Working EXCEPT !.filters = TRUE], [Working EXCEPT !.readOnly = TRUE],
               [Working EXCEPT !.content = FALSE] }
OnlyWorking == { Working }

MCTokens ==
  { Word(0, "plan"), Word(0, "note"), Word(1, "txt"), Word(2, "pdf"), Word(1, "log"),
    Date(1, "inside", 0, 0), Date(1, "pin", 0, 0), Date(2, "pin", 0, 0),
    Date(1, "relative", 0, 0), Date(1, "recent", 1, 1),
    Date(1, "after", 2, 2), Date(2, "before", 2, 2), Date(0, "compact", 1, 1),
    Date(1, "compact", 2, 1) }

Inside == Date(1, "inside", 0, 0)

\* Nothing, up to two tokens, and those followed by a content stage, or the
\* beginning of a content query.
MCDrafts ==
  LET short == BoundedSeq(MCTokens, 2)
  IN {<<s>> : s \in short}
       \cup {<<s, <<Inside, Word(0, "note")>> >> : s \in short}
       \cup {<< <<Inside, Word(0, "note"), t>> >> : t \in MCTokens}
=============================================================================
