------------------------- MODULE MCIndexRootService -------------------------
EXTENDS IndexRootService

Me    == <<"C:", "me">>
MyApp == Me \o <<"AppData">>
MyLoc == MyApp \o <<"Local">>
Such  == <<"D:", "Such">>
Note  == Me \o <<"note.txt">>

MCTree ==
  { <<"C:">>, Me, MyLoc, MyLoc \o <<"Temp">>, MyLoc \o <<".git">>, Note, Such,
    Me \o <<".git">>, <<"D:">>, <<"D:", "W">> }

MCOSNames  == { "Windows" }
MCRoaming  == MyApp \o <<"Roaming">>
MCLocalLow == <<"E:", "AppData", "Low">>
MCProfiles == <<"U:">>
None       == {}
MCTerms    == <<".git">>

MCRootPaths == { <<"C:">>, MyLoc, <<"D:">> }
MCHidePaths == { Note, MyLoc \o <<"Temp">> }

Plain(p) == [path |-> p, explicit |-> FALSE]
Named(p) == [path |-> p, explicit |-> TRUE]

MCSelections ==
  { {}, { Plain(<<"C:">>) }, { Plain(<<"D:">>), Plain(<<"C:">>), Named(MyLoc) } }

NoLegacy == { {} }
MCSingle == { {}, { Plain(<<"C:">>) } }
MCLegacy == { {}, {<<"C:">>, <<"D:">>} }
=============================================================================
