--------------------------- MODULE MCSearchInput ---------------------------
EXTENDS SearchInput, TLC

CONSTANTS none, typed, full, a, b, t1, t2

MCTexts == {none, typed, full}

\* What is typed can be completed.
MCCompletion == [t \in MCTexts |-> IF t = typed THEN full ELSE t]

\* Another file comes first when the index has changed, and for a longer text.
MCAnswer ==
  [t \in MCTexts |-> [g \in 0..1 |->
     CASE t = none -> <<>>
       [] t = typed -> IF g = 0 THEN <<a, b>> ELSE <<b>>
       [] OTHER -> IF g = 0 THEN <<b>> ELSE <<b, a>>]]

\* From the last action of the tray to beyond its far end.
MCXs == {100, 300, 470}

\* A level drag, and one row down.
MCDrops == {0, 60}

MCSymmetry == Permutations({t1, t2})
=============================================================================
