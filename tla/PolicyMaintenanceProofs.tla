----------------------- MODULE PolicyMaintenanceProofs -----------------------
(***************************************************************************)
(* What the default index policy plans, and what the deferred maintenance  *)
(* does with it, proved for every file system tree, every known folder,    *)
(* every set of search roots and whatever the runtime's queries return.    *)
(***************************************************************************)
EXTENDS PolicyMaintenance, IndexPathPolicyCheck, TLAPS, FiniteSetTheorems,
        NaturalsInduction

-----------------------------------------------------------------------------
(* Numbers.                                                                *)

\* A set of numbers has a least one.
LEMMA LeastNumber ==
  ASSUME NEW T, T \subseteq Nat, T # {}
  PROVE  \E x \in T : \A y \in T : x <= y
<1> DEFINE R == OpToRel(<, Nat)
<1>1. IsWellFoundedOn(R, Nat)
  BY NatLessThanWellFounded
<1>2. \A x, y \in Nat : x < y => <<x, y>> \in R
  BY DEF OpToRel
<1> HIDE DEF R
<1>3. \E x \in T : \A y \in T : ~(<<y, x>> \in R)
  BY <1>1, WFMin
<1>4. \A x, y \in Nat : ~(<<y, x>> \in R) => x <= y
  BY <1>2
<1> QED BY <1>3, <1>4

-----------------------------------------------------------------------------
(* Where the planned exclusions come from.                                 *)

\* An exclusion that PlanSet plans was planned for one of the roots, and is one
\* of its fixed exclusions (plan_default_index_policy_set, lines 572-609).
LEMMA PlannedIsFixed ==
  ASSUME NEW reqs, NEW e \in PlanSet(reqs).exclusions
  PROVE  \E r \in reqs : e \in WindowsFixedExclusions(r.path)
<1>1. /\ ~ \E r \in reqs : ~PlanRoot(r).allowed
      /\ e \in UNION {PlanRoot(r).exclusions : r \in reqs}
  BY DEF PlanSet, Denied, Admit
<1>2. PICK r \in reqs : e \in PlanRoot(r).exclusions
  BY <1>1
<1>3. e \in WindowsFixedExclusions(r.path)
  BY <1>2 DEF PlanRoot, Denied, Admit
<1>4. QED
  BY <1>3

\* A fixed exclusion is what remains of a path of the policy once it has been
\* split around the installed product (windows_fixed_exclusions, lines 163-274).
LEMMA FixedIsSplit ==
  ASSUME NEW scope, NEW e \in WindowsFixedExclusions(scope)
  PROVE  \E x \in Path : e \in SplitAroundInstall(x)
<1>1. PICK x \in SystemDirs \cup {Roaming, LocalLow} \cup OtherAppData
                  \cup LocalAppDataSiblings :
        e \in SplitAroundInstall(x)
  BY DEF WindowsFixedExclusions
<1>2. x \in Path
  <2>1. CASE x \in SystemDirs
    <3>1. ASSUME NEW n \in OSNames
          PROVE  <<"C:", n>> \in Path
      <4>1. "C:" \in STRING /\ n \in STRING
        BY PolicyAssumption
      <4>2. <<"C:", n>> \in Seq(STRING)
        BY <4>1
      <4>3. <<"C:", n>> # <<>>
        OBVIOUS
      <4>4. QED
        BY <4>2, <4>3 DEF Path
    <3>2. QED
      BY <2>1, <3>1, PolicyAssumption DEF SystemDirs, Path
  <2>2. CASE x \in {Roaming, LocalLow}
    BY <2>2, PolicyAssumption DEF Path
  <2>3. CASE x \in OtherAppData \cup LocalAppDataSiblings
    BY <2>3, PolicyAssumption
    DEF OtherAppData, LocalAppDataSiblings, ChildrenExcept, Path
  <2>4. QED
    BY <1>1, <2>1, <2>2, <2>3
<1>3. QED
  BY <1>1, <1>2

\* The runtime is only ever given paths to exclude.
LEMMA PlannedArePaths ==
  ASSUME NEW reqs
  PROVE  PlanSet(reqs).exclusions \subseteq Path
<1>1. ASSUME NEW x \in Path, NEW e \in SplitAroundInstall(x)
      PROVE  e \in Path
  BY <1>1, PolicyAssumption DEF SplitAroundInstall, ChildrenExcept, Path
<1>2. QED
  BY <1>1, PlannedIsFixed, FixedIsSplit

-----------------------------------------------------------------------------
(* The installed product.                                                  *)

\* A path that is a prefix of another is the part of it of its own length.
LEMMA PrefixIsSubSeq ==
  ASSUME NEW p \in Path, NEW q \in Path
  PROVE  IsPrefix(p, q) <=> Len(p) <= Len(q) /\ p = SubSeq(q, 1, Len(p))
<1>1. Len(p) \in Nat /\ SubSeq(p, 1, Len(p)) = p
  BY DEF Path
<1>2. QED
  BY <1>1 DEF IsPrefix

\* The siblings of the n-th step of the way down to the product are neither
\* above it nor inside it: the splitting loop of windows_fixed_exclusions.
LEMMA SiblingsMissInstall ==
  ASSUME NEW n \in 1 .. Len(Install),
         NEW e \in ChildrenExcept(SubSeq(Install, 1, n - 1), SubSeq(Install, 1, n))
  PROVE  ~Related(e, Install)
<1>1. /\ Install \in Path /\ e \in Path
      /\ Len(Install) \in Nat /\ n \in Nat
      /\ n <= Len(Install)
  BY PolicyAssumption DEF ChildrenExcept, Path
<1>2. Len(SubSeq(Install, 1, n - 1)) = n - 1
  BY <1>1 DEF Path
<1>3. Len(e) = n /\ e # SubSeq(Install, 1, n)
  <2>1. /\ Len(e) = Len(SubSeq(Install, 1, n - 1)) + 1
        /\ e # SubSeq(Install, 1, n)
    BY DEF ChildrenExcept
  <2>2. (n - 1) + 1 = n
    BY <1>1
  <2>3. QED
    BY <1>2, <2>1, <2>2
<1>4. ~IsPrefix(e, Install)
  BY <1>1, <1>3, PrefixIsSubSeq
<1>5. ~IsPrefix(Install, e)
  <2>1. SUFFICES ASSUME IsPrefix(Install, e)
                 PROVE  FALSE
    OBVIOUS
  <2>2. Len(Install) <= n /\ Install = SubSeq(e, 1, Len(Install))
    BY <1>1, <1>3, <2>1, PrefixIsSubSeq
  <2>3. n = Len(Install)
    <3>1. Len(Install) <= n
      BY <1>3, <2>2
    <3>2. QED
      BY <1>1, <3>1
  <2>4. e = SubSeq(e, 1, n) /\ Install = SubSeq(Install, 1, n)
    BY <1>1, <1>3, <2>3 DEF Path
  <2>5. QED
    BY <1>3, <2>2, <2>3, <2>4
<1>6. QED
  BY <1>4, <1>5 DEF Related, Within

\* Whatever path the policy sets out to exclude, what is left of it after the
\* split neither hides the product nor reaches into it.
LEMMA SplitMissesInstall ==
  ASSUME NEW x \in Path, NEW e \in SplitAroundInstall(x)
  PROVE  ~Related(e, Install)
<1>1. CASE Within(x, Install)
  BY <1>1 DEF SplitAroundInstall
<1>2. CASE ~Within(x, Install) /\ ~Within(Install, x)
  BY <1>2 DEF SplitAroundInstall, Related
<1>3. CASE ~Within(x, Install) /\ Within(Install, x)
  <2>1. PICK n \in (Len(x) + 1) .. Len(Install) :
          e \in ChildrenExcept(SubSeq(Install, 1, n - 1), SubSeq(Install, 1, n))
    BY <1>3 DEF SplitAroundInstall
  <2>2. Len(x) \in Nat /\ Len(Install) \in Nat
    BY PolicyAssumption DEF Path
  <2>3. n \in 1 .. Len(Install)
    BY <2>2
  <2>4. QED
    BY <2>1, <2>3, SiblingsMissInstall
<1>4. QED
  BY <1>1, <1>2, <1>3

\* For every set of roots, in every tree: no planned exclusion is above the
\* installed product or inside it.
THEOREM PlanKeepsInstall ==
  ASSUME NEW reqs, NEW e \in PlanSet(reqs).exclusions
  PROVE  ~Related(e, Install)
BY PlannedIsFixed, FixedIsSplit, SplitMissesInstall

-----------------------------------------------------------------------------
(* Paths that contain each other.                                          *)

\* A directory is within another when it has its components first.
LEMMA WithinByComponents ==
  ASSUME NEW p \in Path, NEW q \in Path
  PROVE  Within(p, q) <=> Len(q) <= Len(p) /\ \A i \in 1 .. Len(q) : q[i] = p[i]
<1>1. p \in Seq(STRING) /\ q \in Seq(STRING) /\ Len(p) \in Nat /\ Len(q) \in Nat
  BY DEF Path
<1>2. Within(p, q) <=> Len(q) <= Len(p) /\ q = SubSeq(p, 1, Len(q))
  BY PrefixIsSubSeq DEF Within
<1>3. ASSUME Len(q) <= Len(p)
      PROVE  q = SubSeq(p, 1, Len(q)) <=> \A i \in 1 .. Len(q) : q[i] = p[i]
  <2>1. /\ SubSeq(p, 1, Len(q)) \in Seq(STRING)
        /\ Len(SubSeq(p, 1, Len(q))) = Len(q)
        /\ \A i \in 1 .. Len(q) : SubSeq(p, 1, Len(q))[i] = p[i]
    BY <1>1, <1>3
  <2> QED BY <1>1, <2>1
<1> QED BY <1>2, <1>3

\* Two directories above a third are related, and one of them when they are
\* equally deep.
LEMMA AboveTheSame ==
  ASSUME NEW d \in Path, NEW p \in Path, NEW q \in Path, Within(d, p), Within(d, q)
  PROVE  /\ Len(p) <= Len(q) => Within(q, p)
         /\ Related(p, q)
         /\ Len(p) = Len(q) => p = q
<1>1. /\ p \in Seq(STRING) /\ q \in Seq(STRING)
      /\ Len(p) \in Nat /\ Len(q) \in Nat /\ Len(d) \in Nat
  BY DEF Path
<1>2. /\ Len(p) <= Len(d) /\ \A i \in 1 .. Len(p) : p[i] = d[i]
      /\ Len(q) <= Len(d) /\ \A i \in 1 .. Len(q) : q[i] = d[i]
  BY WithinByComponents
<1>3. Len(p) <= Len(q) => Within(q, p)
  BY <1>1, <1>2, WithinByComponents
<1>4. Len(q) <= Len(p) => Within(p, q)
  BY <1>1, <1>2, WithinByComponents
<1>5. Len(p) = Len(q) => p = q
  BY <1>1, <1>2
<1>6. Len(p) <= Len(q) \/ Len(q) <= Len(p)
  BY <1>1
<1> QED BY <1>3, <1>4, <1>5, <1>6 DEF Related

\* What lies in a directory lies in those above it.
LEMMA WithinIsTransitive ==
  ASSUME NEW p \in Path, NEW q \in Path, NEW r \in Path, Within(p, q), Within(q, r)
  PROVE  Within(p, r)
<1>1. Len(p) \in Nat /\ Len(q) \in Nat /\ Len(r) \in Nat
  BY DEF Path
<1> QED BY <1>1, WithinByComponents

\* The way down to a directory.
LEMMA CutPath ==
  ASSUME NEW d \in Path, NEW n \in 1 .. Len(d)
  PROVE  /\ SubSeq(d, 1, n) \in Path
         /\ Len(SubSeq(d, 1, n)) = n
         /\ \A i \in 1 .. n : SubSeq(d, 1, n)[i] = d[i]
         /\ Within(d, SubSeq(d, 1, n))
<1>1. d \in Seq(STRING) /\ Len(d) \in Nat /\ n \in Nat /\ 1 <= n /\ n <= Len(d)
  BY DEF Path
<1>2. /\ SubSeq(d, 1, n) \in Seq(STRING)
      /\ Len(SubSeq(d, 1, n)) = n
      /\ \A i \in 1 .. n : SubSeq(d, 1, n)[i] = d[i]
  BY <1>1
<1>3. SubSeq(d, 1, n) \in Path
  BY <1>1, <1>2 DEF Path
<1> QED BY <1>1, <1>2, <1>3, WithinByComponents

-----------------------------------------------------------------------------
(* One planned root.                                                       *)

\* What is left of a directory after the split lies within it.
LEMMA SplitLiesWithin ==
  ASSUME NEW x \in Path, NEW e \in SplitAroundInstall(x)
  PROVE  e \in Path /\ Within(e, x)
<1>1. Install \in Path
  BY PolicyAssumption DEF Path
<1>2. CASE e = x
  <2>1. Len(x) \in Nat
    BY DEF Path
  <2> QED BY <1>2, <2>1, WithinByComponents
<1>3. CASE e # x
  <2>1. Within(Install, x)
    BY <1>3 DEF SplitAroundInstall
  <2>2. PICK n \in (Len(x) + 1) .. Len(Install) :
          e \in ChildrenExcept(SubSeq(Install, 1, n - 1), SubSeq(Install, 1, n))
    BY <1>3 DEF SplitAroundInstall
  <2>3. Len(x) \in Nat /\ Len(x) >= 1 /\ Len(Install) \in Nat
    BY <1>1 DEF Path
  <2>4. n - 1 \in 1 .. Len(Install) /\ Len(x) <= n - 1
    BY <2>3
  <2>5. e \in Path /\ Within(e, SubSeq(Install, 1, n - 1))
    BY <2>2, PolicyAssumption DEF ChildrenExcept, Path
  <2>6. /\ SubSeq(Install, 1, n - 1) \in Path
        /\ Len(SubSeq(Install, 1, n - 1)) = n - 1
        /\ Within(Install, SubSeq(Install, 1, n - 1))
    BY <1>1, <2>4, CutPath
  <2>7. Within(SubSeq(Install, 1, n - 1), x)
    <3> DEFINE c == SubSeq(Install, 1, n - 1)
    <3>1. c \in Path /\ Within(Install, c) /\ Len(x) <= Len(c)
      BY <2>4, <2>6
    <3> HIDE DEF c
    <3>2. Within(c, x)
      BY <1>1, <2>1, <3>1, AboveTheSame
    <3> QED BY <3>2 DEF c
  <2> QED BY <2>5, <2>6, <2>7, WithinIsTransitive
<1> QED BY <1>2, <1>3

\* A directory that has nothing to do with the product, and lies below no
\* junction, is covered by what is left of the directory it lies in.
LEMMA SplitStillCovers ==
  ASSUME NEW x \in Path, NEW d \in Tree, Within(d, x),
         ~BelowJunction(d), ~Related(d, Install),
         \A n \in 1 .. Len(d) : SubSeq(d, 1, n) \in Tree
  PROVE  \E e \in SplitAroundInstall(x) : Within(d, e)
<1>1. /\ Install \in Path /\ d \in Path
      /\ Len(Install) \in Nat /\ Len(d) \in Nat /\ Len(x) \in Nat /\ Len(x) >= 1 /\ Len(d) >= 1
  BY PolicyAssumption DEF Path
<1>2. ~Within(x, Install)
  BY <1>1, WithinIsTransitive DEF Related
<1>3. CASE ~Within(Install, x)
  BY <1>2, <1>3 DEF SplitAroundInstall
<1>4. CASE Within(Install, x)
  <2> DEFINE T == {n \in 1 .. Len(d) : ~Within(Install, SubSeq(d, 1, n))}
  <2>1. Len(d) \in T
    <3>1. SubSeq(d, 1, Len(d)) = d
      BY <1>1 DEF Path
    <3>2. ~Within(Install, d)
      BY DEF Related
    <3>3. ~Within(Install, SubSeq(d, 1, Len(d)))
      BY <3>1, <3>2
    <3>4. Len(d) \in 1 .. Len(d)
      BY <1>1
    <3> QED BY <3>3, <3>4
  <2>2. PICK n \in T : \A m \in T : n <= m
    <3>1. T \subseteq Nat /\ T # {}
      BY <2>1
    <3> HIDE DEF T
    <3> QED BY <3>1, LeastNumber
  <2>3. n \in 1 .. Len(d) /\ ~Within(Install, SubSeq(d, 1, n))
    OBVIOUS
  <2>4. Len(x) < n
    <3>1. SUFFICES ASSUME n <= Len(x)
                   PROVE  FALSE
      BY <1>1, <2>3
    <3>2. SubSeq(d, 1, n) \in Path /\ Len(SubSeq(d, 1, n)) = n /\ Within(d, SubSeq(d, 1, n))
      BY <1>1, <2>3, CutPath
    <3>3. Within(x, SubSeq(d, 1, n))
      BY <1>1, <3>1, <3>2, AboveTheSame
    <3> QED BY <1>1, <1>4, <2>3, <3>2, <3>3, WithinIsTransitive
  <2>5. n - 1 \in 1 .. Len(d) /\ n - 1 < n
    BY <1>1, <2>3, <2>4
  <2>6. Within(Install, SubSeq(d, 1, n - 1))
    BY <1>1, <2>2, <2>3, <2>5
  <2> HIDE DEF T
  <2>7. /\ SubSeq(d, 1, n - 1) \in Path
        /\ Len(SubSeq(d, 1, n - 1)) = n - 1
        /\ \A i \in 1 .. (n - 1) : SubSeq(d, 1, n - 1)[i] = d[i]
        /\ Within(d, SubSeq(d, 1, n - 1))
    BY <1>1, <2>5, CutPath
  <2>8. /\ SubSeq(d, 1, n) \in Path
        /\ Len(SubSeq(d, 1, n)) = n
        /\ \A i \in 1 .. n : SubSeq(d, 1, n)[i] = d[i]
        /\ Within(d, SubSeq(d, 1, n))
    BY <1>1, <2>3, CutPath
  <2>9. n <= Len(Install) /\ SubSeq(Install, 1, n - 1) = SubSeq(d, 1, n - 1)
    <3>1. n - 1 <= Len(Install) /\ SubSeq(d, 1, n - 1) = SubSeq(Install, 1, n - 1)
      BY <1>1, <2>6, <2>7, PrefixIsSubSeq DEF Within
    <3>2. n - 1 # Len(Install)
      <4>1. SUFFICES ASSUME n - 1 = Len(Install)
                     PROVE  FALSE
        OBVIOUS
      <4>2. SubSeq(Install, 1, Len(Install)) = Install
        BY <1>1 DEF Path
      <4> QED BY <2>7, <3>1, <4>1, <4>2 DEF Related
    <3> QED BY <1>1, <2>3, <3>1, <3>2
  <2>10. SubSeq(d, 1, n) # SubSeq(Install, 1, n)
    <3>1. n \in 1 .. Len(Install)
      BY <1>1, <2>3, <2>9
    <3>2. Within(Install, SubSeq(Install, 1, n))
      BY <1>1, <3>1, CutPath
    <3> QED BY <2>3, <3>2
  <2>11. SubSeq(d, 1, n) \in ChildrenExcept(SubSeq(Install, 1, n - 1), SubSeq(Install, 1, n))
    <3>1. SubSeq(d, 1, n) \in Tree \ Reparse
      BY <2>3, <2>8 DEF BelowJunction
    <3>2. Len(SubSeq(d, 1, n)) = Len(SubSeq(d, 1, n - 1)) + 1
      BY <1>1, <2>3, <2>7, <2>8
    <3>3. Within(SubSeq(d, 1, n), SubSeq(d, 1, n - 1))
      <4> DEFINE c == SubSeq(d, 1, n)
                 b == SubSeq(d, 1, n - 1)
      <4>1. /\ c \in Path /\ Within(d, c) /\ b \in Path /\ Within(d, b)
            /\ Len(b) <= Len(c)
        BY <1>1, <2>3, <2>7, <2>8
      <4> HIDE DEF b, c
      <4>2. Within(c, b)
        BY <1>1, <4>1, AboveTheSame
      <4> QED BY <4>2 DEF b, c
    <3> QED BY <2>9, <2>10, <3>1, <3>2, <3>3 DEF ChildrenExcept
  <2>12. n \in (Len(x) + 1) .. Len(Install)
    BY <1>1, <2>3, <2>4, <2>9
  <2> QED BY <1>2, <1>4, <2>8, <2>11, <2>12 DEF SplitAroundInstall
<1> QED BY <1>3, <1>4

-----------------------------------------------------------------------------
(* What the fixed exclusions are made of.                                  *)

\* The directories that windows_fixed_exclusions sets out to exclude.
Sources == SystemDirs \cup {Roaming, LocalLow} \cup OtherAppData \cup LocalAppDataSiblings

\* A system directory below C:, by its components.
LEMMA SystemDirIsPath ==
  ASSUME NEW n \in OSNames
  PROVE  /\ <<"C:", n>> \in Path
         /\ \A p \in Path : Within(p, <<"C:", n>>) <=> Len(p) > 1 /\ p[1] = "C:" /\ p[2] = n
<1>1. "C:" \in STRING /\ n \in STRING
  BY PolicyAssumption
<1>2. <<"C:", n>> \in Path
  <2>1. <<"C:", n>> \in Seq(STRING)
    BY <1>1
  <2> QED BY <2>1 DEF Path
<1>3. Len(<<"C:", n>>) = 2 /\ <<"C:", n>>[1] = "C:" /\ <<"C:", n>>[2] = n
  OBVIOUS
<1>4. ASSUME NEW p \in Path
      PROVE  Within(p, <<"C:", n>>) <=> Len(p) > 1 /\ p[1] = "C:" /\ p[2] = n
  <2>1. Within(p, <<"C:", n>>) <=>
          2 <= Len(p) /\ \A i \in 1 .. 2 : <<"C:", n>>[i] = p[i]
    BY <1>2, <1>3, WithinByComponents
  <2>2. (\A i \in 1 .. 2 : <<"C:", n>>[i] = p[i]) <=> (p[1] = "C:" /\ p[2] = n)
    BY <1>3
  <2>3. Len(p) \in Nat
    BY DEF Path
  <2> QED BY <2>1, <2>2, <2>3
<1> QED BY <1>2, <1>4

\* They are paths.
LEMMA SourcesArePaths == Sources \subseteq Path
<1>1. SystemDirs \subseteq Path
  <2>1. {<<"C:", n>> : n \in OSNames} \subseteq Path
    BY SystemDirIsPath
  <2>2. KnownSystem \subseteq Path
    BY PolicyAssumption DEF Path
  <2> QED BY <2>1, <2>2 DEF SystemDirs
<1>2. {Roaming, LocalLow} \subseteq Path
  BY PolicyAssumption DEF Path
<1>3. OtherAppData \cup LocalAppDataSiblings \subseteq Path
  BY PolicyAssumption DEF OtherAppData, LocalAppDataSiblings, ChildrenExcept, Path
<1> QED BY <1>1, <1>2, <1>3 DEF Sources

\* A directory below a protected one is protected (default_index_path_allowed).
LEMMA ProtectedBelow ==
  ASSUME NEW p \in Path, NEW q \in Path, Within(p, q), ProtectedPath(q)
  PROVE  ProtectedPath(p)
<1>1. Len(p) \in Nat /\ Len(q) \in Nat /\ DOMAIN p = 1 .. Len(p) /\ DOMAIN q = 1 .. Len(q)
  BY DEF Path
<1>2. Len(q) <= Len(p) /\ \A i \in 1 .. Len(q) : q[i] = p[i]
  BY WithinByComponents
<1>3. Components(q) \subseteq Components(p)
  BY <1>1, <1>2 DEF Components
<1>4. Len(q) >= 2 => Len(p) >= 2 /\ q[1] = p[1] /\ q[2] = p[2]
  BY <1>1, <1>2
<1> QED BY <1>3, <1>4 DEF ProtectedPath

\* A sequence with one more element, for any kind of element.
LEMMA AppendIs ==
  ASSUME NEW S, NEW c \in Seq(S), NEW x \in S
  PROVE  /\ Append(c, x) \in Seq(S) /\ Len(Append(c, x)) = Len(c) + 1
         /\ \A i \in 1 .. Len(c) : Append(c, x)[i] = c[i]
         /\ Append(c, x)[Len(c) + 1] = x
OBVIOUS

\* A child of a directory, by its components.
LEMMA ChildIs ==
  ASSUME NEW c \in Path, NEW name, name \in STRING, NEW p \in Path
  PROVE  /\ Append(c, name) \in Path
         /\ Len(Append(c, name)) = Len(c) + 1
         /\ Within(p, Append(c, name)) <=>
              Within(p, c) /\ Len(p) > Len(c) /\ p[Len(c) + 1] = name
<1> DEFINE a == Append(c, name)
<1>1. c \in Seq(STRING) /\ Len(c) \in Nat /\ Len(p) \in Nat
  BY DEF Path
<1>2. /\ a \in Seq(STRING) /\ Len(a) = Len(c) + 1
      /\ \A i \in 1 .. Len(c) : a[i] = c[i]
      /\ a[Len(c) + 1] = name
  BY <1>1, AppendIs
<1> HIDE DEF a
<1>3. a \in Path
  BY <1>1, <1>2 DEF Path
<1>4. Within(p, a) <=> Len(c) + 1 <= Len(p) /\ \A i \in 1 .. (Len(c) + 1) : a[i] = p[i]
  BY <1>2, <1>3, WithinByComponents
<1>5. Within(p, c) <=> Len(c) <= Len(p) /\ \A i \in 1 .. Len(c) : c[i] = p[i]
  BY WithinByComponents
<1>6. (\A i \in 1 .. (Len(c) + 1) : a[i] = p[i]) <=>
        (\A i \in 1 .. Len(c) : c[i] = p[i]) /\ p[Len(c) + 1] = name
  <2>1. \A i : i \in 1 .. (Len(c) + 1) <=> i \in 1 .. Len(c) \/ i = Len(c) + 1
    BY <1>1
  <2> QED BY <1>2, <2>1
<1>7. Len(c) + 1 <= Len(p) <=> Len(c) <= Len(p) /\ Len(p) > Len(c)
  BY <1>1
<1>8. Within(p, a) <=> Within(p, c) /\ Len(p) > Len(c) /\ p[Len(c) + 1] = name
  BY <1>4, <1>5, <1>6, <1>7
<1> QED BY <1>2, <1>3, <1>8 DEF a

\* The folders excluded one by one lie in Local, one or two levels down, and
\* Programs is none of them.
LEMMA LocalSiblings ==
  ASSUME NEW s \in LocalAppDataSiblings
  PROVE  /\ s \in Path /\ Within(s, Local) /\ Len(s) > Len(Local)
         /\ s # Append(Local, "Programs")
         /\ Len(s) = Len(Local) + 1 \/ Len(s) = Len(Local) + 2
<1> DEFINE programs == Append(Local, "Programs")
<1>1. Local \in Path /\ "Programs" \in STRING /\ Len(Local) \in Nat
  BY PolicyAssumption DEF Path
<1>2. programs \in Path /\ Len(programs) = Len(Local) + 1 /\ Within(programs, Local)
  <2>1. programs \in Path /\ Len(programs) = Len(Local) + 1
    BY <1>1, ChildIs
  <2>2. Within(programs, programs)
    <3>1. Len(programs) \in Nat
      BY <1>1, <2>1
    <3> HIDE DEF programs
    <3> QED BY <2>1, <3>1, WithinByComponents
  <2> QED BY <1>1, <2>1, <2>2, ChildIs
<1>3. CASE s \in ChildrenExcept(Local, programs)
  <2>1. /\ s \in Tree /\ Len(s) = Len(Local) + 1
        /\ Within(s, Local) /\ s # programs
    BY <1>3 DEF ChildrenExcept
  <2> QED BY <1>1, <2>1, PolicyAssumption DEF Path
<1>4. CASE s \in ChildrenExcept(programs, Install)
  <2>1. s \in Tree /\ Len(s) = Len(programs) + 1 /\ Within(s, programs)
    BY <1>4 DEF ChildrenExcept
  <2>2. s \in Path
    BY <2>1, PolicyAssumption DEF Path
  <2>3. Len(s) = Len(Local) + 2 /\ Len(s) > Len(Local) /\ Len(s) # Len(programs)
    BY <1>1, <1>2, <2>1
  <2> HIDE DEF programs
  <2>4. Within(s, Local)
    BY <1>1, <1>2, <2>1, <2>2, WithinIsTransitive
  <2> QED BY <2>2, <2>3, <2>4 DEF programs
<1> QED BY <1>3, <1>4 DEF LocalAppDataSiblings

\* Everything the policy sets out to exclude is private.
LEMMA SourceIsPrivate ==
  ASSUME StandardLayout, NEW s \in Sources, NEW d \in Path, Within(d, s)
  PROVE  Private(d)
<1>1. CASE s \in KnownSystem \cup {Roaming, LocalLow}
  BY <1>1 DEF Private
<1>2. CASE s \in {<<"C:", n>> : n \in OSNames}
  BY <1>2, SystemDirIsPath DEF Private
<1>3. CASE s \in OtherAppData
  <2>1. PICK c \in Tree : /\ Len(c) = Len(Profiles) + 1 /\ Within(c, Profiles) /\ c # Profile
                          /\ s = Append(c, "AppData")
    BY <1>3 DEF OtherAppData
  <2>2. c \in Path /\ Profile \in Path /\ Profiles \in Path /\ "AppData" \in STRING
    BY PolicyAssumption DEF Path
  <2>3. Len(Profiles) \in Nat
    BY <2>2 DEF Path
  <2>4. Within(d, c) /\ Len(d) > Len(c) /\ d[Len(c) + 1] = "AppData"
    BY <2>1, <2>2, ChildIs
  <2>5. Within(d, Profiles)
    BY <2>1, <2>2, <2>4, WithinIsTransitive
  <2>6. ~Within(d, Profile)
    <3>1. Len(Profile) = Len(c)
      BY <2>1 DEF StandardLayout
    <3> QED BY <2>1, <2>2, <2>4, <3>1, AboveTheSame
  <2>7. Len(d) > Len(Profiles) + 1 /\ d[Len(Profiles) + 2] = "AppData"
    <3>1. (Len(Profiles) + 1) + 1 = Len(Profiles) + 2
      BY <2>3
    <3> QED BY <2>1, <2>4, <3>1
  <2> QED BY <2>5, <2>6, <2>7 DEF Private
<1>4. CASE s \in LocalAppDataSiblings
  <2>1. /\ s \in Path /\ Within(s, Local) /\ Len(s) > Len(Local)
        /\ s # Append(Local, "Programs")
        /\ Len(s) = Len(Local) + 1 \/ Len(s) = Len(Local) + 2
    BY <1>4, LocalSiblings
  <2>2. Local \in Path /\ Append(Local, "Programs") \in Path
        /\ Len(Append(Local, "Programs")) = Len(Local) + 1
    <3>1. Local \in Path /\ "Programs" \in STRING
      BY PolicyAssumption DEF Path
    <3> QED BY <3>1, ChildIs
  <2>3. Within(d, Local)
    BY <2>1, <2>2, WithinIsTransitive
  <2>4. Len(s) <= Len(d) /\ Len(Local) \in Nat /\ Len(s) \in Nat /\ Len(d) \in Nat
    BY <2>1, <2>2, WithinByComponents DEF Path
  <2>5. d # Local
    BY <2>1, <2>4
  <2>6. d # Append(Local, "Programs")
    <3>1. SUFFICES ASSUME d = Append(Local, "Programs")
                   PROVE  FALSE
      OBVIOUS
    <3>2. Len(d) = Len(Local) + 1
      BY <2>2, <3>1
    <3>3. Len(s) = Len(d)
      BY <2>1, <2>4, <3>2
    <3>4. Within(d, d)
      BY <2>4, WithinByComponents
    <3>5. s = d
      BY <2>1, <3>3, <3>4, AboveTheSame
    <3> QED BY <2>1, <3>1, <3>5
  <2> QED BY <2>3, <2>5, <2>6 DEF Private
<1> QED BY <1>1, <1>2, <1>3, <1>4 DEF Sources, SystemDirs

\* The directories on the way down to one that is below no junction can be listed.
LEMMA CutIsListed ==
  ASSUME StandardLayout, NEW d \in Tree, ~BelowJunction(d), NEW n \in 1 .. Len(d)
  PROVE  SubSeq(d, 1, n) \in Tree \ Reparse
<1>1. d \in Path
  BY PolicyAssumption DEF Path
<1>2. Within(d, SubSeq(d, 1, n))
  BY <1>1, CutPath
<1> QED BY <1>2 DEF StandardLayout, BelowJunction

\* A private folder of the user's Local AppData lies in one of the siblings that
\* are excluded one by one, unless it leads to the product.
LEMMA LocalIsCovered ==
  ASSUME StandardLayout, NEW d \in Tree, ~BelowJunction(d), ~Related(d, Install),
         Within(d, Local), d \notin {Local, Append(Local, "Programs")}
  PROVE  \E s \in LocalAppDataSiblings : Within(d, s)
<1> DEFINE programs == Append(Local, "Programs")
           c == SubSeq(d, 1, Len(Local) + 1)
           b == SubSeq(d, 1, Len(Local) + 2)
<1>1. d \in Path /\ Local \in Path /\ Len(Local) \in Nat /\ Len(d) \in Nat
  BY PolicyAssumption DEF Path
<1>2. programs \in Path /\ Len(programs) = Len(Local) + 1
  <2>1. "Programs" \in STRING
    BY PolicyAssumption
  <2> QED BY <1>1, <2>1, ChildIs
<1>3. Within(d, d)
  BY <1>1, WithinByComponents
<1>4. Len(Local) <= Len(d)
  BY <1>1, WithinByComponents
<1>5. Len(Local) + 1 \in 1 .. Len(d)
  <2>1. Len(d) # Len(Local)
    BY <1>1, <1>3, AboveTheSame
  <2> QED BY <1>1, <1>4, <2>1
<1>6. /\ c \in Path /\ Len(c) = Len(Local) + 1 /\ Within(d, c)
      /\ c \in Tree \ Reparse
  BY <1>1, <1>5, CutPath, CutIsListed
<1>7. Within(c, Local)
  <2>1. Len(Local) <= Len(c)
    BY <1>1, <1>6
  <2> HIDE DEF c
  <2> QED BY <1>1, <1>6, <2>1, AboveTheSame
<1>8. CASE c # programs
  BY <1>6, <1>7, <1>8 DEF LocalAppDataSiblings, ChildrenExcept
<1>9. CASE c = programs
  <2>1. Len(d) # Len(programs)
    <3> HIDE DEF c, programs
    <3>1. d # programs
      BY DEF programs
    <3> QED BY <1>1, <1>2, <1>3, <1>6, <1>9, <3>1, AboveTheSame
  <2>2. Len(Local) + 2 \in 1 .. Len(d)
    BY <1>1, <1>2, <1>5, <2>1
  <2>3. /\ b \in Path /\ Len(b) = Len(Local) + 2 /\ Within(d, b)
        /\ b \in Tree \ Reparse
    BY <1>1, <2>2, CutPath, CutIsListed
  <2>4. Within(b, programs)
    <3>1. Within(d, programs)
      BY <1>6, <1>9
    <3>2. Len(programs) <= Len(b)
      <4> HIDE DEF b, programs
      <4> QED BY <1>1, <1>2, <2>3
    <3> HIDE DEF b, programs
    <3> QED BY <1>1, <1>2, <2>3, <3>1, <3>2, AboveTheSame
  <2>5. b # Install
    BY <2>3 DEF Related
  <2>6. programs \in Tree
    BY <1>6, <1>9
  <2>7. Len(b) = Len(programs) + 1
    BY <1>1, <1>2, <2>3
  <2>8. b \in ChildrenExcept(programs, Install)
    BY <2>3, <2>4, <2>5, <2>7 DEF ChildrenExcept
  <2> QED BY <2>3, <2>6, <2>8 DEF LocalAppDataSiblings
<1> QED BY <1>8, <1>9

\* What is private below another profile lies in that profile's AppData.
LEMMA OtherIsCovered ==
  ASSUME StandardLayout, NEW d \in Tree, ~BelowJunction(d),
         Within(d, Profiles), ~Within(d, Profile),
         Len(d) > Len(Profiles) + 1, d[Len(Profiles) + 2] = "AppData"
  PROVE  \E s \in OtherAppData : Within(d, s) /\ ProtectedPath(s)
<1> DEFINE c == SubSeq(d, 1, Len(Profiles) + 1)
           b == SubSeq(d, 1, Len(Profiles) + 2)
<1>1. d \in Path /\ Profiles \in Path /\ Len(Profiles) \in Nat /\ Len(d) \in Nat
  BY PolicyAssumption DEF Path
<1>2. Len(Profiles) + 1 \in 1 .. Len(d) /\ Len(Profiles) + 2 \in 1 .. Len(d)
  BY <1>1
<1>3. /\ c \in Path /\ Len(c) = Len(Profiles) + 1 /\ Within(d, c) /\ c \in Tree
      /\ \A i \in 1 .. (Len(Profiles) + 1) : c[i] = d[i]
  BY <1>1, <1>2, CutPath, CutIsListed
<1>4. /\ b \in Path /\ Len(b) = Len(Profiles) + 2 /\ Within(d, b) /\ b \in Tree
      /\ \A i \in 1 .. (Len(Profiles) + 2) : b[i] = d[i]
  BY <1>1, <1>2, CutPath, CutIsListed
<1> HIDE DEF b, c
<1>5. Within(c, Profiles)
  <2>1. Len(Profiles) <= Len(c)
    BY <1>1, <1>3
  <2> QED BY <1>1, <1>3, <2>1, AboveTheSame
<1>6. c # Profile
  BY <1>3
<1>7. b = Append(c, "AppData")
  <2>1. "AppData" \in STRING
    BY PolicyAssumption
  <2>2. /\ Append(c, "AppData") \in Path
        /\ Len(Append(c, "AppData")) = Len(c) + 1
        /\ Within(d, Append(c, "AppData")) <=>
             Within(d, c) /\ Len(d) > Len(c) /\ d[Len(c) + 1] = "AppData"
    BY <1>1, <1>3, <2>1, ChildIs
  <2>3. Len(c) + 1 = Len(Profiles) + 2 /\ Len(d) > Len(c)
    BY <1>1, <1>3
  <2>4. Within(d, Append(c, "AppData")) /\ Len(b) = Len(Append(c, "AppData"))
    BY <1>3, <1>4, <2>2, <2>3
  <2> QED BY <1>1, <1>4, <2>2, <2>4, AboveTheSame
<1>8. b \in OtherAppData
  BY <1>3, <1>4, <1>5, <1>6, <1>7 DEF OtherAppData
<1>9. ProtectedPath(b)
  <2>1. Len(Profiles) + 2 \in DOMAIN b /\ b[Len(Profiles) + 2] = "AppData"
    BY <1>1, <1>4 DEF Path
  <2> QED BY <2>1 DEF ProtectedPath, Components
<1> QED BY <1>4, <1>8, <1>9

\* A private directory below a root that the policy admits lies in a directory
\* that the policy sets out to exclude for that root.
LEMMA PrivateIsCovered ==
  ASSUME StandardLayout, NEW d \in Tree, Private(d), ~BelowJunction(d), ~Related(d, Install),
         NEW scope \in Path, Within(d, scope), ~ProtectedPath(scope)
  PROVE  \E s \in Sources :
           /\ Within(d, s) /\ Within(s, scope)
           /\ s \in LocalAppDataSiblings => Within(Local, scope)
<1>1. d \in Path /\ Local \in Path
  BY PolicyAssumption DEF Path
<1>2. ASSUME NEW s \in Path, Within(d, s), ProtectedPath(s)
      PROVE  Within(s, scope)
  <2>1. Within(s, scope) \/ Within(scope, s)
    BY <1>1, <1>2, AboveTheSame DEF Related
  <2> QED BY <1>2, <2>1, ProtectedBelow
<1>3. Within(d, Local) => Within(Local, scope)
  BY <1>1, <1>2 DEF StandardLayout
<1>4. ASSUME NEW s \in LocalAppDataSiblings, Within(d, s)
      PROVE  Within(d, Local)
  BY <1>1, <1>4, LocalSiblings, WithinIsTransitive
<1>5. SUFFICES \E s \in Sources : Within(d, s) /\ Within(s, scope)
  BY <1>3, <1>4
<1>6. CASE \E s \in KnownSystem \cup {Roaming, LocalLow} : Within(d, s)
  <2>1. PICK s \in KnownSystem \cup {Roaming, LocalLow} : Within(d, s)
    BY <1>6
  <2>2. s \in Sources
    BY DEF Sources, SystemDirs
  <2> QED BY <1>2, <2>1, <2>2, SourcesArePaths DEF StandardLayout
<1>7. CASE Len(d) > 1 /\ d[1] = "C:" /\ d[2] \in OSNames
  <2> DEFINE n == d[2]
             s == <<"C:", n>>
  <2>1. n \in OSNames
    BY <1>7
  <2>2. s \in Path /\ Within(d, s)
    BY <1>1, <1>7, <2>1, SystemDirIsPath
  <2>3. s \in Sources
    BY <2>1 DEF Sources, SystemDirs
  <2>4. ProtectedPath(s)
    <3>1. Len(s) = 2 /\ s[1] = "C:" /\ s[2] = n
      OBVIOUS
    <3> QED BY <2>1, <3>1 DEF ProtectedPath
  <2> QED BY <1>2, <2>2, <2>3, <2>4
<1>8. CASE Within(d, Local) /\ d \notin {Local, Append(Local, "Programs")}
  <2>1. PICK s \in LocalAppDataSiblings : Within(d, s)
    BY <1>8, LocalIsCovered
  <2>2. s \in Path /\ Within(s, Local)
    BY LocalSiblings
  <2>3. Within(s, scope)
    BY <1>1, <1>3, <1>8, <2>2, WithinIsTransitive
  <2> QED BY <2>1, <2>3 DEF Sources
<1>9. CASE /\ Within(d, Profiles) /\ ~Within(d, Profile)
           /\ Len(d) > Len(Profiles) + 1 /\ d[Len(Profiles) + 2] = "AppData"
  <2>1. PICK s \in OtherAppData : Within(d, s) /\ ProtectedPath(s)
    BY <1>9, OtherIsCovered
  <2>2. s \in Sources
    BY DEF Sources
  <2> QED BY <1>2, <2>1, <2>2, SourcesArePaths
<1> QED BY <1>6, <1>7, <1>8, <1>9 DEF Private

-----------------------------------------------------------------------------
(* The plan of a set of roots and what it is meant to be.                  *)

\* A fixed exclusion is what the split has left of a source.
LEMMA FixedHasSource ==
  ASSUME NEW scope, NEW e \in WindowsFixedExclusions(scope)
  PROVE  \E s \in Sources : e \in SplitAroundInstall(s)
BY DEF WindowsFixedExclusions, Sources

\* What the split has left of a source in scope is a fixed exclusion.
LEMMA SourceIsFixed ==
  ASSUME NEW scope, NEW s \in Sources, Within(s, scope),
         s \in LocalAppDataSiblings => Within(Local, scope),
         NEW e \in SplitAroundInstall(s)
  PROVE  e \in WindowsFixedExclusions(scope)
<1>1. CASE s \in LocalAppDataSiblings
  BY <1>1 DEF WindowsFixedExclusions
<1>2. CASE s \in SystemDirs \cup {Roaming, LocalLow} \cup OtherAppData
  BY <1>2 DEF WindowsFixedExclusions
<1> QED BY <1>1, <1>2 DEF Sources

\* A root that is admitted, and is neither the product nor an AppData folder that
\* the user named, is not protected and is planned every fixed exclusion in it.
LEMMA PlainRootIsPlanned ==
  ASSUME OnWindows, NEW r \in RootRequest, PlanRoot(r).allowed,
         ~InstallPath(r.path), ~(r.explicit /\ ManualAppDataRoot(r.path))
  PROVE  /\ ~ProtectedPath(r.path)
         /\ \A e \in WindowsFixedExclusions(r.path) :
              Within(e, r.path) => e \in PlanRoot(r).exclusions
BY DEF PlanRoot, Denied, Admit, RootRequest

\* What the plan of a set is made of (plan_default_index_policy_set).
LEMMA PlanOfSet ==
  ASSUME NEW R, PlanSet(R).allowed
  PROVE  /\ \A r \in R : PlanRoot(r).allowed
         /\ \A e : e \in PlanSet(R).exclusions <=>
              /\ \E r \in R : e \in PlanRoot(r).exclusions
              /\ \A x \in ExplicitRoots(R) : ~Related(e, x.path)
BY DEF PlanSet, Denied, Admit

\* The policy never sets out to exclude what contains an AppData folder that the
\* user may name, but that folder itself.
LEMMA SourceSparesNamed ==
  ASSUME StandardLayout, NEW s \in Sources, NEW a \in {Roaming, Local}, s # a
  PROVE  ~Within(a, s)
<1>1. Roaming \in Path /\ Local \in Path /\ Len(Local) \in Nat
  BY PolicyAssumption DEF Path
<1>2. CASE s \in SystemDirs \cup OtherAppData \cup {LocalLow}
  BY <1>2 DEF StandardLayout
<1>3. CASE s = Roaming
  BY <1>3 DEF StandardLayout, Related
<1>4. CASE s \in LocalAppDataSiblings
  <2>1. s \in Path /\ Within(s, Local) /\ Len(s) > Len(Local) /\ Len(s) \in Nat
    BY <1>4, LocalSiblings DEF Path
  <2>2. ~Within(Local, s)
    BY <1>1, <2>1, WithinByComponents
  <2>3. ~Within(Roaming, s)
    BY <1>1, <2>1, WithinIsTransitive DEF StandardLayout, Related
  <2> QED BY <2>2, <2>3
<1> QED BY <1>2, <1>3, <1>4 DEF Sources

\* An exclusion covers private directories only, neither on the way to the product
\* nor below a folder that the user named.
LEMMA ExcludedIsMeant ==
  ASSUME StandardLayout, wanted \subseteq RootRequest, Planned.allowed,
         NEW d \in Tree, NEW e \in Planned.exclusions, Within(d, e)
  PROVE  Private(d) /\ ~InstallSpine(d) /\ ~ExplicitlyOpen(d)
<1>1. d \in Path /\ Install \in Path /\ e \in Path
  BY PolicyAssumption, PlannedArePaths DEF Path, Planned
<1>2. Private(d)
  <2>1. PICK r \in wanted : e \in WindowsFixedExclusions(r.path)
    BY PlannedIsFixed DEF Planned
  <2>2. PICK s \in Sources : e \in SplitAroundInstall(s)
    BY <2>1, FixedHasSource
  <2>3. s \in Path /\ Within(d, s)
    BY <1>1, <2>2, SourcesArePaths, SplitLiesWithin, WithinIsTransitive
  <2> QED BY <1>1, <2>3, SourceIsPrivate
<1>3. ~InstallSpine(d)
  <2>1. ~Related(e, Install)
    BY PlanKeepsInstall DEF Planned
  <2>2. ~Within(d, Install)
    BY <1>1, <2>1, AboveTheSame
  <2>3. ~Within(Install, d)
    BY <1>1, <2>1, WithinIsTransitive DEF Related
  <2> QED BY <2>2, <2>3 DEF InstallSpine, Related
<1>4. ~ExplicitlyOpen(d)
  <2>1. SUFFICES ASSUME NEW x \in ExplicitRoots(wanted), Within(d, x.path)
                 PROVE  FALSE
    BY DEF ExplicitlyOpen
  <2>2. ~Related(e, x.path)
    BY PlanOfSet DEF Planned
  <2>3. x.path \in Path
    BY DEF ExplicitRoots, RootRequest
  <2> QED BY <1>1, <2>1, <2>2, <2>3, AboveTheSame
<1> QED BY <1>2, <1>3, <1>4

\* A private directory below a root is excluded, unless it is on the way to the
\* product or below a folder that the user named.
LEMMA MeantIsExcluded ==
  ASSUME StandardLayout, OnWindows, wanted \subseteq RootRequest, Planned.allowed,
         NEW d \in Tree, ~BelowJunction(d), Private(d), ~InstallSpine(d), ~ExplicitlyOpen(d),
         NEW r \in wanted, Within(d, r.path)
  PROVE  \E e \in Planned.exclusions : Within(d, e)
<1>1. /\ d \in Path /\ Install \in Path
      /\ r \in RootRequest /\ r.path \in Path
      /\ PlanRoot(r).allowed
  BY PolicyAssumption, PlanOfSet DEF Path, RootRequest, Planned
<1>2. ~InstallPath(r.path)
  BY <1>1, WithinIsTransitive DEF InstallPath, InstallSpine, Related
<1>3. ~(r.explicit /\ ManualAppDataRoot(r.path))
  BY DEF ExplicitlyOpen, ExplicitRoots
<1>4. /\ ~ProtectedPath(r.path)
      /\ \A e \in WindowsFixedExclusions(r.path) :
           Within(e, r.path) => e \in PlanRoot(r).exclusions
  BY <1>1, <1>2, <1>3, PlainRootIsPlanned
<1>5. PICK s \in Sources : /\ Within(d, s) /\ Within(s, r.path)
                           /\ s \in LocalAppDataSiblings => Within(Local, r.path)
  BY <1>1, <1>4, PrivateIsCovered DEF InstallSpine
<1>6. s \in Path
  BY SourcesArePaths
<1>7. PICK e \in SplitAroundInstall(s) : Within(d, e)
  BY <1>5, <1>6, SplitStillCovers DEF InstallSpine, StandardLayout
<1>8. e \in Path /\ Within(e, s)
  BY <1>6, SplitLiesWithin
<1>9. e \in PlanRoot(r).exclusions
  <2>1. e \in WindowsFixedExclusions(r.path)
    BY <1>5, SourceIsFixed
  <2>2. Within(e, r.path)
    BY <1>1, <1>5, <1>6, <1>8, WithinIsTransitive
  <2> QED BY <1>4, <2>1, <2>2
<1>10. ASSUME NEW x \in ExplicitRoots(wanted)
       PROVE  ~Related(e, x.path)
  <2>1. x.path \in {Roaming, Local} /\ x.path \in Path /\ ~Within(d, x.path)
    BY DEF ExplicitRoots, ManualAppDataRoot, RootRequest, ExplicitlyOpen
  <2>2. ~Within(e, x.path)
    BY <1>1, <1>7, <1>8, <2>1, WithinIsTransitive
  <2>3. ~Within(x.path, e)
    <3>1. ~Within(x.path, s)
      BY <1>5, <2>1, SourceSparesNamed
    <3> QED BY <1>6, <1>8, <2>1, <3>1, WithinIsTransitive
  <2> QED BY <2>2, <2>3 DEF Related
<1>11. e \in Planned.exclusions
  BY <1>9, <1>10, PlanOfSet DEF Planned
<1> QED BY <1>7, <1>11

\* For every file system tree with Windows' own layout, every place of
\* installation and every set of roots: an admitted set leaves to the crawl what it
\* is meant to leave, and nothing else.
THEOREM IntentIsPlanned == StandardLayout => (PolicySpec => []PlanMatchesIntent)
<1>1. PolicyInit => wanted \subseteq RootRequest
  BY DEF PolicyInit
<1>2. wanted \subseteq RootRequest /\ [Ask]_wanted => (wanted \subseteq RootRequest)'
  BY RequestAssumption DEF Ask
<1>3. wanted \subseteq RootRequest /\ StandardLayout => PlanMatchesIntent
  BY ExcludedIsMeant, MeantIsExcluded DEF PlanMatchesIntent, Visited
<1>4. StandardLayout => StandardLayout'
  OBVIOUS
<1> QED BY <1>1, <1>2, <1>3, <1>4, PTL DEF PolicySpec

\* For every tree, every place of installation and every set of roots: no planned
\* exclusion is above the product or inside it.
THEOREM InstallIsNeverExcluded == PolicySpec => []InstallNeverExcluded
<1>1. InstallNeverExcluded
  BY PlanKeepsInstall DEF InstallNeverExcluded, Planned
<1> QED BY <1>1, PTL

-----------------------------------------------------------------------------
(* Lemmas about a poll.                                                    *)

\* The rows of a query are directories of the tree.
LEMMA AnswersInTree ==
  ASSUME NEW t, NEW ex, NEW rows \in QueryAnswers(t, ex)
  PROVE  rows \subseteq Tree
BY MaintenanceAssumption DEF QueryAnswers, IndexedRows, CrawledRows, NoiseRows

\* A noise prefix of a path is a path (default_noise_directory_prefix).
LEMMA PrefixesArePaths ==
  ASSUME NEW p \in Path, NEW t
  PROVE  NoisePrefixes(p, t) \subseteq Path
<1>1. ASSUME NEW i \in DOMAIN p
      PROVE  SubSeq(p, 1, i) \in Path
  <2>1. p \in Seq(STRING) /\ i \in 1 .. Len(p) /\ Len(p) \in Nat
    BY DEF Path
  <2>2. SubSeq(p, 1, i) \in Seq(STRING) /\ Len(SubSeq(p, 1, i)) = i
    BY <2>1
  <2>3. SubSeq(p, 1, i) # <<>>
    BY <2>1, <2>2
  <2>4. QED
    BY <2>2, <2>3 DEF Path
<1>2. QED
  BY <1>1 DEF NoisePrefixes

\* A noise prefix ends in the noise name.
LEMMA PrefixesEndInNoise ==
  ASSUME NEW p \in Path, NEW t, NEW x \in NoisePrefixes(p, t)
  PROVE  Last(x) = t
<1>1. PICK i \in DOMAIN p : p[i] = t /\ x = SubSeq(p, 1, i)
  BY DEF NoisePrefixes
<1>2. p \in Seq(STRING) /\ i \in 1 .. Len(p) /\ Len(p) \in Nat
  BY DEF Path
<1>3. Len(x) = i /\ x[i] = p[i]
  BY <1>1, <1>2
<1>4. QED
  BY <1>1, <1>3 DEF Last

\* The prefixes a poll tries are paths that end in the term, and none is related
\* to the product.
LEMMA FreshAreSafe ==
  ASSUME NEW t, NEW ex, NEW rows \in QueryAnswers(t, ex)
  PROVE  /\ FreshPrefixes(rows, t) \subseteq Path
         /\ \A x \in FreshPrefixes(rows, t) :
              Last(x) = t /\ (OnWindows => ~Related(x, Install))
<1>1. rows \subseteq Path
  BY AnswersInTree, PolicyAssumption DEF Path
<1>2. QED
  BY <1>1, PrefixesArePaths, PrefixesEndInNoise DEF FreshPrefixes

\* So is the fixed list of a poll.
LEMMA FixedListIsPaths ==
  ASSUME MaintenanceTypeOK
  PROVE  FixedList \subseteq Path
BY PlannedArePaths DEF FixedList, MaintenanceTypeOK

\* The fixed list of a poll spares the product (PlanKeepsInstall).
LEMMA FixedListIsSafe ==
  ASSUME MaintenanceInv
  PROVE  \A e \in FixedList : OnWindows => ~Related(e, Install)
BY PlanKeepsInstall DEF FixedList, MaintenanceInv

\* A poll never touches the roots or the crawl, and only adds exclusions.
LEMMA PollOnlyExcludes ==
  ASSUME Poll
  PROVE  UNCHANGED <<roots, indexing>> /\ excluded \subseteq excluded'
<1>1. CASE PollPrepareFails
  BY <1>1 DEF PollPrepareFails, runtimeVars
<1>2. CASE PollFixed
  BY <1>2 DEF PollFixed
<1>3. CASE PollSearchFails
  BY <1>3 DEF PollSearchFails, FinishFixed, TablesAfterFixed
<1>4. CASE PollNoise
  BY <1>4 DEF PollNoise, FinishFixed, TablesAfterFixed
<1>5. QED
  BY <1>1, <1>2, <1>3, <1>4 DEF Poll

\* A noise poll either excludes a batch of fresh prefixes and stays with its
\* term, or moves on; past the last term nothing is pending.
LEMMA NoisePoll ==
  ASSUME PollNoise
  PROVE  \E ex \in TablesAfterFixed : \E rows \in QueryAnswers(Terms[term], ex) :
         \E batch \in SUBSET FreshPrefixes(rows, Terms[term]) :
           /\ excluded' = ex \cup batch
           /\ IF batch = {}
                THEN term' = term + 1 /\ seen' = {}
                ELSE term' = term /\ seen' = seen \cup batch
           /\ IF term' > Len(Terms) THEN pending' = FALSE ELSE UNCHANGED pending
BY DEF PollNoise, Batches, Advance

\* All a poll ever excludes is members of its fixed list and a batch of
\* noise directories that misses the product.
LEMMA PollAdds ==
  ASSUME MaintenanceTypeOK, CurrentTerm, Poll
  PROVE  /\ fixedTodo' \subseteq fixedTodo \cup FixedList
         /\ \E batch \in SUBSET Path :
              /\ excluded' \subseteq excluded \cup FixedList \cup batch
              /\ \A e \in batch :
                   Last(e) \in NoiseNames /\ (OnWindows => ~Related(e, Install))
<1>1. CASE fixedTodo' \subseteq fixedTodo \cup FixedList /\ excluded' \subseteq excluded \cup FixedList
  <2>1. {} \in SUBSET Path
        /\ \A e \in {} : Last(e) \in NoiseNames /\ (OnWindows => ~Related(e, Install))
    OBVIOUS
  <2>2. excluded' \subseteq excluded \cup FixedList \cup {}
    BY <1>1
  <2>3. QED
    BY <1>1, <2>1, <2>2
<1>2. CASE PollFixed
  <2>1. PICK batch \in Batches(FixedList) :
          fixedTodo' = FixedList \ batch /\ excluded' \subseteq excluded \cup batch
    BY <1>2 DEF PollFixed
  <2>2. batch \subseteq FixedList
    BY DEF Batches
  <2>3. QED
    BY <1>1, <2>1, <2>2
<1>3. CASE PollPrepareFails \/ PollSearchFails
  BY <1>1, <1>3 DEF PollPrepareFails, runtimeVars, PollSearchFails, FinishFixed, TablesAfterFixed
<1>4. CASE PollNoise
  <2>1. PICK ex \in TablesAfterFixed : \E rows \in QueryAnswers(Terms[term], ex) :
          \E batch \in SUBSET FreshPrefixes(rows, Terms[term]) : excluded' = ex \cup batch
    BY <1>4, NoisePoll
  <2>2. PICK rows \in QueryAnswers(Terms[term], ex) :
          \E batch \in SUBSET FreshPrefixes(rows, Terms[term]) : excluded' = ex \cup batch
    BY <2>1
  <2>3. ex \subseteq excluded \cup FixedList
    BY <2>1 DEF TablesAfterFixed
  <2>4. fixedTodo' = {}
    BY <1>4 DEF PollNoise, FinishFixed
  <2>5. Terms[term] \in NoiseNames
    <3>1. Terms \in Seq(NoiseNames)
      BY MaintenanceAssumption
    <3>2. term \in 1 .. Len(Terms)
      BY <1>4 DEF PollNoise, FinishFixed, CanPoll, CurrentTerm, MaintenanceTypeOK
    <3>3. QED
      BY <3>1, <3>2
  <2>6. QED
    BY <2>2, <2>3, <2>4, <2>5, FreshAreSafe
<1>5. QED
  BY <1>1, <1>2, <1>3, <1>4 DEF Poll

\* A poll keeps the maintenance's state well formed.
LEMMA PollKeepsTypes ==
  ASSUME MaintenanceTypeOK, CurrentTerm, Poll
  PROVE  MaintenanceTypeOK' /\ CurrentTerm'
<1> USE DEF MaintenanceTypeOK, CurrentTerm
<1>1. /\ roots' \subseteq Path /\ indexing' \in BOOLEAN
      /\ fixedTodo' \subseteq Path /\ excluded' \subseteq Path
  BY PollOnlyExcludes, PollAdds, FixedListIsPaths
<1>2. fixedReady' \in BOOLEAN
  BY DEF Poll, PollPrepareFails, PollFixed, PollSearchFails, PollNoise, FinishFixed
<1>3. CASE PollPrepareFails \/ PollSearchFails
  BY <1>1, <1>2, <1>3 DEF PollPrepareFails, PollSearchFails, Abandon
<1>4. CASE PollFixed
  BY <1>1, <1>2, <1>4 DEF PollFixed
<1>5. CASE PollNoise
  <2>1. PICK ex \in TablesAfterFixed : \E rows \in QueryAnswers(Terms[term], ex) :
         \E batch \in SUBSET FreshPrefixes(rows, Terms[term]) :
           /\ IF batch = {}
                THEN term' = term + 1 /\ seen' = {}
                ELSE term' = term /\ seen' = seen \cup batch
           /\ IF term' > Len(Terms) THEN pending' = FALSE ELSE UNCHANGED pending
    BY <1>5, NoisePoll
  <2>2. PICK rows \in QueryAnswers(Terms[term], ex) :
         \E batch \in SUBSET FreshPrefixes(rows, Terms[term]) :
           /\ IF batch = {}
                THEN term' = term + 1 /\ seen' = {}
                ELSE term' = term /\ seen' = seen \cup batch
           /\ IF term' > Len(Terms) THEN pending' = FALSE ELSE UNCHANGED pending
    BY <2>1
  <2>3. FreshPrefixes(rows, Terms[term]) \subseteq Path
    BY <2>2, FreshAreSafe
  <2>4. seen' \subseteq Path
    BY <2>2, <2>3
  <2>5. /\ pending = TRUE /\ Len(Terms) \in Nat
        /\ term \in Nat /\ term <= Len(Terms)
    BY <1>5, MaintenanceAssumption DEF PollNoise, FinishFixed, CanPoll
  <2>6. term' \in 1 .. (Len(Terms) + 1)
    BY <2>2, <2>5
  <2>7. pending' \in BOOLEAN /\ (pending' => term' <= Len(Terms))
    <3>1. CASE term' > Len(Terms)
      BY <2>2, <3>1
    <3>2. CASE ~(term' > Len(Terms))
      BY <2>2, <2>5, <2>6, <3>2
    <3>3. QED
      BY <3>1, <3>2
  <2>8. QED
    BY <1>1, <1>2, <2>4, <2>6, <2>7
<1>6. QED
  BY <1>3, <1>4, <1>5 DEF Poll

\* A poll keeps the whole invariant of the maintenance.
LEMMA PollKeepsInv ==
  ASSUME MaintenanceInv, Poll
  PROVE  MaintenanceInv'
<1>1. MaintenanceTypeOK' /\ CurrentTerm'
  BY PollKeepsTypes DEF MaintenanceInv
<1>2. \A e \in excluded' \cup fixedTodo' : OnWindows => ~Related(e, Install)
  BY PollAdds, FixedListIsSafe DEF MaintenanceInv
<1>3. QED
  BY <1>1, <1>2 DEF MaintenanceInv

-----------------------------------------------------------------------------
(* Theorems.                                                               *)

\* The invariant of the maintenance on its own, started by any root change.
THEOREM MaintenanceInvariant == MaintenanceSpec => []MaintenanceInv
<1>1. MaintenanceInit => MaintenanceInv
  <2>1. Len(Terms) \in Nat /\ 1 <= Len(Terms)
    BY MaintenanceAssumption
  <2>2. SUFFICES ASSUME MaintenanceInit
                 PROVE  MaintenanceInv
    OBVIOUS
  <2>3. /\ roots \subseteq Path /\ excluded \subseteq Path
        /\ \A e \in excluded : OnWindows => ~Related(e, Install)
    BY <2>2, InitialAssumption DEF MaintenanceInit
  <2>4. term \in 1 .. (Len(Terms) + 1) /\ term <= Len(Terms)
    BY <2>1, <2>2 DEF MaintenanceInit
  <2>5. QED
    BY <2>2, <2>3, <2>4 DEF MaintenanceInit, MaintenanceInv, MaintenanceTypeOK, CurrentTerm
<1>2. MaintenanceInv /\ [MaintenanceNext]_<<runtimeVars, maintVars>> => MaintenanceInv'
  <2>1. CASE Poll
    BY <2>1, PollKeepsInv
  <2>2. CASE CrawlEnds
    BY <2>2 DEF CrawlEnds, maintVars, MaintenanceInv, MaintenanceTypeOK, CurrentTerm
  <2>3. CASE UNCHANGED <<runtimeVars, maintVars>>
    BY <2>3 DEF runtimeVars, maintVars, MaintenanceInv, MaintenanceTypeOK, CurrentTerm
  <2>4. QED
    BY <2>1, <2>2, <2>3 DEF MaintenanceNext
<1>3. QED
  BY <1>1, <1>2, PTL DEF MaintenanceSpec

\* Type correctness of the maintenance: in particular the index of the current
\* noise term never runs past the end of the list while a poll is due.
THEOREM MaintenanceTypeCorrect == MaintenanceSpec => []MaintenanceTypeOK
<1>1. MaintenanceInv => MaintenanceTypeOK
  BY DEF MaintenanceInv
<1>2. QED
  BY <1>1, MaintenanceInvariant, PTL

\* No poll ever hides the directory the product is installed in, wherever that is
\* (scrub_one_batch).
THEOREM InstallStaysVisible == MaintenanceSpec => []InstallNeverHidden
<1>1. MaintenanceInv => InstallNeverHidden
  BY DEF MaintenanceInv, InstallNeverHidden, Related
<1>2. QED
  BY <1>1, MaintenanceInvariant, PTL
=============================================================================
