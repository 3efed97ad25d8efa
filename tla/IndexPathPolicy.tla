-------------------------- MODULE IndexPathPolicy --------------------------
(***************************************************************************)
(* The default index policy (src/runtime/IndexPathPolicy.cpp): which       *)
(* search roots are admitted, and which directories below an admitted set  *)
(* of roots the private runtime must be told to leave out before it crawls *)
(* them.  This is a constant module: pure functions of the file system     *)
(* tree and of the Windows known folders.                                  *)
(*                                                                         *)
(* A path is the sequence of its components, already normalised and case   *)
(* folded (path_key).  Only the bounded, non-recursive planning that the   *)
(* product uses is modelled (discover_noise_directories = false).          *)
(***************************************************************************)
EXTENDS Integers, Sequences, FiniteSets, SequencesExt

CONSTANTS
  OnWindows,    \* TRUE for the Windows build, FALSE for the Linux one
  Tree,         \* the directories that exist
  Reparse,      \* those of them that are junctions (reparse points)
  KnownSystem,  \* ProgramData, ProgramFiles, ProgramFilesX86 known folders
  OSNames,      \* protected directory names directly below C:
  Profile,      \* the current user's profile
  Profiles,     \* the directory of all profiles
  Roaming,      \* the current user's Roaming AppData
  LocalLow,     \* the current user's LocalLow AppData
  Local,        \* the current user's Local AppData
  Install       \* where Such itself is installed

\* That these names are strings is true, and no prover's axiom says so.
ASSUME PolicyAssumption ==
  /\ {"C:", "AppData", "Programs"} \subseteq STRING
  /\ OnWindows \in BOOLEAN
  /\ Tree \subseteq Seq(STRING) \ {<<>>}
  /\ Reparse \subseteq Tree
  /\ {Profile, Profiles, Roaming, LocalLow, Local, Install}
        \subseteq Seq(STRING) \ {<<>>}
  /\ KnownSystem \subseteq Seq(STRING) \ {<<>>}
  /\ OSNames \subseteq STRING

NoiseNames == {"node_modules", ".git", "__pycache__"}

Path == Seq(STRING) \ {<<>>}

\* A requested or persisted root: its path, and whether it carries the
\* ExplicitCurrentUserAppData override.
RootRequest == [path : Path, explicit : BOOLEAN]

-----------------------------------------------------------------------------
(* Path relations.                                                         *)

Within(p, parent) == IsPrefix(parent, p)

Related(p, q) == Within(p, q) \/ Within(q, p)

Components(p) == {p[i] : i \in DOMAIN p}

ChildrenExcept(parent, allowed) ==
  {c \in Tree \ Reparse : /\ Len(c) = Len(parent) + 1
                          /\ Within(c, parent)
                          /\ c # allowed}

-----------------------------------------------------------------------------
(* Classification of a single path.                                        *)

ManualAppDataRoot(p) == OnWindows /\ p \in {Roaming, Local}

InstallPath(p) == OnWindows /\ Within(p, Install)

ProtectedPath(p) ==
  \/ Components(p) \cap (NoiseNames \cup {"AppData"}) # {}
  \/ Len(p) >= 2 /\ p[1] = "C:" /\ p[2] \in OSNames

-----------------------------------------------------------------------------
(* The fixed exclusions below one root.                                    *)

SystemDirs == KnownSystem \cup {<<"C:", n>> : n \in OSNames}

OtherAppData ==
  {Append(c, "AppData") : c \in {d \in Tree : /\ Len(d) = Len(Profiles) + 1
                                              /\ Within(d, Profiles)
                                              /\ d # Profile}} \cap Tree

\* LocalAppData is never excluded as a whole: its children are, apart from
\* Programs, and the children of Programs apart from the installed product.
LocalAppDataSiblings ==
  LET programs == Append(Local, "Programs")
  IN ChildrenExcept(Local, programs) \cup
       (IF programs \in Tree THEN ChildrenExcept(programs, Install) ELSE {})

\* Mutated form: an exclusion above the product is kept whole.
SplitNothing(excluded) ==
  IF Within(excluded, Install) THEN {} ELSE {excluded}

\* Exclusion is parent dominant in the runtime, so an exclusion above the
\* installed product is replaced by the siblings of the way down to it.
SplitAroundInstall(excluded) ==
  IF Within(excluded, Install) THEN {}
  ELSE IF ~Within(Install, excluded) THEN {excluded}
  ELSE UNION {ChildrenExcept(SubSeq(Install, 1, n - 1), SubSeq(Install, 1, n)) :
                n \in (Len(excluded) + 1) .. Len(Install)}

WindowsFixedExclusions(scope) ==
  LET inside == {d \in SystemDirs \cup {Roaming, LocalLow} \cup OtherAppData :
                   Within(d, scope)}
      local  == IF Within(Local, scope) THEN LocalAppDataSiblings ELSE {}
  IN UNION {SplitAroundInstall(e) : e \in inside \cup local}

-----------------------------------------------------------------------------
(* Planning.                                                               *)

Denied == [allowed |-> FALSE, exclusions |-> {}]

Admit(exclusions) == [allowed |-> TRUE, exclusions |-> exclusions]

\* plan_default_index_policy for one root.
PlanRoot(req) ==
  LET explicit == req.explicit /\ ManualAppDataRoot(req.path)
      fixed    == {e \in WindowsFixedExclusions(req.path) :
                     ~(explicit /\ Related(e, req.path))}
  IN IF InstallPath(req.path) THEN Admit({})
     ELSE IF Last(req.path) \in NoiseNames THEN Denied
     ELSE IF ~OnWindows THEN Admit({})
     ELSE IF req.explicit # explicit THEN Denied
     ELSE IF ~explicit /\ ProtectedPath(req.path) THEN Denied
     ELSE IF \E e \in fixed : Within(req.path, e) THEN Denied
     ELSE Admit({e \in fixed : Within(e, req.path)})

\* The explicit AppData selections of a set of requests.
ExplicitRoots(reqs) == {r \in reqs : r.explicit /\ ManualAppDataRoot(r.path)}

\* Mutated form: the plans of the roots are just collected.
PlanSetPerRoot(reqs) ==
  IF \E r \in reqs : ~PlanRoot(r).allowed THEN Denied
  ELSE Admit(UNION {PlanRoot(r).exclusions : r \in reqs})

\* plan_default_index_policy_set: one refused root refuses the set, and an
\* explicit AppData root reopens itself below every broader root.
PlanSet(reqs) ==
  IF \E r \in reqs : ~PlanRoot(r).allowed THEN Denied
  ELSE Admit({e \in UNION {PlanRoot(r).exclusions : r \in reqs} :
                \A x \in ExplicitRoots(reqs) : ~Related(e, x.path)})
=============================================================================
