------------------------ MODULE IndexPathPolicyCheck ------------------------
(***************************************************************************)
(* Every set of search roots a user can ask for, planned, against a        *)
(* reference definition of what the policy is meant to leave to the crawl. *)
(***************************************************************************)
EXTENDS IndexPathPolicy

CONSTANT Requests  \* the root requests a user may make

ASSUME RequestAssumption == Requests \subseteq RootRequest

\* Where Windows keeps these directories unless someone has moved them:  the
\* known folders lie where the policy, which knows their names only, protects
\* them, and the user's AppData lies in a profile directly below Profiles.
StandardLayout ==
  /\ \A d \in Tree : \A n \in 1 .. Len(d) : SubSeq(d, 1, n) \in Tree
  /\ Len(Profile) = Len(Profiles) + 1
  /\ \A s \in KnownSystem \cup {Roaming, LocalLow, Local} : ProtectedPath(s)
  /\ \A a \in {Roaming, Local} :
       \A s \in SystemDirs \cup OtherAppData \cup {LocalLow} : ~Within(a, s)
  /\ ~Related(Roaming, Local)

VARIABLE wanted  \* the set of roots asked for

PolicyInit == wanted = {}

\* One more root in the set; a set names a path once (prepare_root_set).
Ask ==
  \E r \in Requests :
    /\ \A q \in wanted : q.path # r.path
    /\ wanted' = wanted \cup {r}

PolicySpec == PolicyInit /\ [][Ask]_wanted

Planned == PlanSet(wanted)

\* The crawl of an admitted set visits what lies below a root and below no
\* exclusion.
Visited(d) ==
  /\ \E r \in wanted : Within(d, r.path)
  /\ \A e \in Planned.exclusions : ~Within(d, e)

\* What the policy is meant to keep out, whatever the roots are: the system
\* directories, the user's AppData folders, and every other user's AppData.
Private(d) ==
  \/ \E s \in KnownSystem \cup {Roaming, LocalLow} : Within(d, s)
  \/ Len(d) > 1 /\ d[1] = "C:" /\ d[2] \in OSNames
  \/ Within(d, Local) /\ d \notin {Local, Append(Local, "Programs")}
  \/ /\ Within(d, Profiles) /\ ~Within(d, Profile)
     /\ Len(d) > Len(Profiles) + 1 /\ d[Len(Profiles) + 2] = "AppData"

\* The way to the installed product and everything below it stays open.
InstallSpine(d) == Related(d, Install)

\* An explicitly selected AppData folder is open as a whole.
ExplicitlyOpen(d) == \E x \in ExplicitRoots(wanted) : Within(d, x.path)

\* Junctions are never planned as exclusions (the runtime would resolve
\* them), so nothing is promised about what is below one.
BelowJunction(d) == \E j \in Reparse : Within(d, j)

\* For every admitted set of roots, the directories left to the crawl are
\* exactly those below a root that are not private, or lie on the way to the
\* installed product, or below an AppData folder the user named: the union of
\* the per-root plans neither closes what another root opened nor opens what
\* another root closed (plan_default_index_policy_set, windows_fixed_exclusions).
PlanMatchesIntent ==
  (OnWindows /\ Planned.allowed) =>
    \A d \in Tree : ~BelowJunction(d) =>
      (Visited(d) <=> /\ \E r \in wanted : Within(d, r.path)
                      /\ ~Private(d) \/ InstallSpine(d) \/ ExplicitlyOpen(d))

\* The installed product is never hidden: no exclusion, of any set of roots and
\* for any place of installation, is above the product or inside it
\* (the ancestor splitting of windows_fixed_exclusions).
InstallNeverExcluded ==
  \A e \in Planned.exclusions : ~Related(e, Install)
=============================================================================
