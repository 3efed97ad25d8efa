--------------------------- MODULE MCIndexWorker ---------------------------
EXTENDS IndexWorker

Me    == <<"C:", "me">>
MyApp == Me \o <<"AppData">>
MyLoc == MyApp \o <<"Local">>

\* An installed copy below a noise directory, with another one below it.
Such  == Me \o <<".git", "Such">>

MCTree ==
  { <<"C:">>, <<"C:", "Windows">>, Me, MyLoc, Such, Such \o <<"node_modules">>,
    <<"C:", "web">>, <<"C:", "web", "node_modules">>,
    <<"C:", "web", "node_modules", "a">>, <<"C:", "web", "gitnotes">>,
    <<"C:", "web", "node_modules", "a", "node_modules">>, <<"C:", "web", ".git">>,
    Me \o <<"node_modules">> }

MCKnownSystem == {}
MCOSNames     == { "Windows" }
MCProfile     == Me
MCProfiles    == <<"U:">>
MCRoaming     == MyApp \o <<"Roaming">>
MCLocalLow    == <<"E:", "AppData", "Low">>
MCLocal       == MyLoc
MCInstall     == Such

MCTerms  == <<"node_modules", ".git", "__pycache__">>
MCDecoys == { <<"C:", "web", "gitnotes">> }
None     == {}

MCWorkerRoots      == { {<<"C:">>}, {<<"C:">>, MyLoc}, {Me} }
MCWorkerExclusions == { <<"C:", "Windows">> }
=============================================================================
