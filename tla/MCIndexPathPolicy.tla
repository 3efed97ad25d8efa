-------------------------- MODULE MCIndexPathPolicy --------------------------
EXTENDS IndexPathPolicyCheck

ASSUME MCLayout == StandardLayout

Me     == <<"C:", "Users", "me">>
MyApp  == Me \o <<"AppData">>
MyLoc  == MyApp \o <<"Local">>
You    == <<"C:", "Users", "you">>
Progs  == MyLoc \o <<"Programs">>

MCTree ==
  { <<"C:">>, <<"C:", "Windows">>, <<"C:", "Windows", "System32">>,
    <<"C:", "Windows", "Tools">>, <<"C:", "Windows", "Tools", "Such">>,
    <<"C:", "Users">>, Me, Me \o <<"Docs">>, MyApp,
    MyApp \o <<"Roaming">>, MyApp \o <<"Roaming", "Mail">>,
    MyApp \o <<"LocalLow">>, MyLoc, MyLoc \o <<"Temp">>,
    MyLoc \o <<"Application Data">>, Progs, Progs \o <<"Such">>,
    Progs \o <<"Such", "cli">>, Progs \o <<"Editor">>,
    You, You \o <<"AppData">>, You \o <<"AppData", "Roaming">>, You \o <<"Docs">>,
    <<"D:">>, <<"D:", "Such">>, <<"D:", "Work">>,
    <<"D:", "Work", "node_modules">> }

MCReparse     == { MyLoc \o <<"Application Data">> }
MCKnownSystem == { <<"C:", "ProgramData">> }
MCOSNames     == { "Windows", "ProgramData" }
MCProfile     == Me
MCProfiles    == <<"C:", "Users">>
MCRoaming     == MyApp \o <<"Roaming">>
MCLocalLow    == MyApp \o <<"LocalLow">>
MCLocal       == MyLoc

\* Inside a system directory, which is then excluded sibling by sibling.
MCInstall == <<"C:", "Windows", "Tools", "Such">>

Plain(p) == [path |-> p, explicit |-> FALSE]
Named(p) == [path |-> p, explicit |-> TRUE]

MCRequests ==
  { Plain(<<"C:">>), Plain(<<"D:">>), Plain(<<"C:", "Users">>), Plain(Me),
    Plain(You \o <<"Docs">>), Plain(MCInstall), Plain(Progs \o <<"Such">>),
    Plain(<<"C:", "Windows", "Tools">>), Plain(<<"D:", "Work", "node_modules">>),
    Named(MyLoc), Plain(MyLoc), Named(MyApp \o <<"Roaming">>) }
=============================================================================
