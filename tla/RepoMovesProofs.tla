-------------------------- MODULE RepoMovesProofs --------------------------
(***************************************************************************)
(* What the two commands that move repositories promise, for any           *)
(* repositories, worktrees, names, failures and deaths (RepoMoves).        *)
(*                                                                         *)
(* MovesInv is the inductive invariant: DiskInv says what the links of     *)
(* worktrees can be at any time, RenameInv where a rename that runs has    *)
(* put the worktrees of its plan, EntryInv and FixInv what fix relies on.  *)
(* It needs WorktreesApart, that no directory lies in a worktree: a rename *)
(* moves what lies in one along and nobody repairs its links.  A later     *)
(* part proves that condition for the layouts that keep the managed places *)
(* apart, the last part that in them a rename goes through undisturbed.    *)
(***************************************************************************)
EXTENDS RepoMoves, SequenceTheorems, TLAPS

------------------------------------------------------------------------------
(***************************************************************************)
(* Paths.  Names are sequences of segments and the model compares paths by *)
(* prefix: these lemmas say what a move of a directory does to a path.     *)
(***************************************************************************)

\* The segments of paths are strings; the ones that the module uses are named
\* since the provers do not know of a literal that it is a string.
Segments == STRING \cup {".git", "timber/repos", "timber-review", "worktree"}

\* Paths below the worktree root.
Path == Seq(Segments)

\* The path is a bare directory or inside one.
InHome(p) == \E home \in Homes : Within(home, p)

\* A path is within another when it begins with its segments.
LEMMA WithinElements ==
    ASSUME NEW p \in Path, NEW x \in Path
    PROVE  Within(p, x) <=> /\ x # Nowhere /\ Len(p) <= Len(x)
                            /\ \A i \in 1 .. Len(p) : x[i] = p[i]
  <1>0. Len(p) \in Nat /\ Len(x) \in Nat
    BY LenProperties DEF Path
  <1>1. CASE Len(p) <= Len(x)
    <2>1. /\ SubSeq(p, 1, Len(p)) = p
          /\ SubSeq(x, 1, Len(p)) \in Seq(Segments) /\ Len(SubSeq(x, 1, Len(p))) = Len(p)
          /\ \A i \in 1 .. Len(p) : SubSeq(x, 1, Len(p))[i] = x[i]
      BY <1>0, <1>1, SubSeqProperties, SubSeqFull, ElementOfSeq DEF Path
    <2>2. (\A i \in 1 .. Len(p) : x[i] = p[i]) => SubSeq(x, 1, Len(p)) = p
      BY <2>1, SeqEqual DEF Path
    <2> QED BY <1>1, <2>1, <2>2 DEF Within, IsPrefix
  <1> QED BY <1>0, <1>1 DEF Within, IsPrefix

\* Every path but Nowhere is within itself.
LEMMA WithinSelf ==
    ASSUME NEW p \in Path, p # Nowhere
    PROVE  Within(p, p)
  <1>0. Len(p) \in Nat
    BY LenProperties DEF Path
  <1> QED BY <1>0, WithinElements

\* What is not within the moved directory stays where it is.
LEMMA RebaseKeeps ==
    ASSUME NEW p, NEW q, NEW x
    PROVE  /\ ~Within(p, x) => Rebase(p, q, x) = x
           /\ Rebase(p, q, Nowhere) = Nowhere
  BY DEF Rebase, Within

\* What is within it has the segments of the new place, then its own.
LEMMA RebaseElements ==
    ASSUME NEW p \in Path, NEW q \in Path, q # Nowhere, NEW x \in Path, Within(p, x)
    PROVE  /\ Rebase(p, q, x) \in Path /\ Rebase(p, q, x) # Nowhere
           /\ Len(Rebase(p, q, x)) = Len(q) + Len(x) - Len(p)
           /\ \A i \in 1 .. Len(q) : Rebase(p, q, x)[i] = q[i]
           /\ \A i \in Len(q) + 1 .. Len(q) + Len(x) - Len(p) : Rebase(p, q, x)[i] = x[i - Len(q) + Len(p)]
           /\ Within(q, Rebase(p, q, x))
  <1> DEFINE s == SubSeq(x, Len(p) + 1, Len(x))
             y == Rebase(p, q, x)
  <1>0. Len(p) \in Nat /\ Len(x) \in Nat /\ Len(p) <= Len(x) /\ Len(q) \in Nat \ {0}
    BY LenProperties, EmptySeq, WithinElements DEF Path, Nowhere
  <1>1. s \in Path /\ Len(s) = Len(x) - Len(p) /\ \A i \in 1 .. Len(x) - Len(p) : s[i] = x[Len(p) + i]
    <2>1. \A i \in Len(p) + 1 .. Len(x) : x[i] \in Segments
      BY <1>0, ElementOfSeq DEF Path
    <2> HIDE DEF s
    <2>2. /\ s \in Path /\ Len(s) = IF Len(p) + 1 <= Len(x) THEN Len(x) - (Len(p) + 1) + 1 ELSE 0
          /\ \A i \in 1 .. Len(x) - (Len(p) + 1) + 1 : s[i] = x[(Len(p) + 1) + i - 1]
      BY <1>0, <2>1, SubSeqProperties DEF Path, s
    <2> QED BY <1>0, <2>2
  <1>2. y = q \o s
    BY DEF Rebase
  <1> HIDE DEF s, y
  <1>3. /\ y \in Path /\ Len(y) = Len(q) + Len(s)
        /\ \A i \in 1 .. Len(q) + Len(s) : y[i] = IF i <= Len(q) THEN q[i] ELSE s[i - Len(q)]
    BY <1>1, <1>2, ConcatProperties DEF Path
  <1>4. \A i \in Len(q) + 1 .. Len(q) + Len(x) - Len(p) : y[i] = x[i - Len(q) + Len(p)]
    <2> TAKE i \in Len(q) + 1 .. Len(q) + Len(x) - Len(p)
    <2>1. y[i] = s[i - Len(q)]
      BY <1>0, <1>1, <1>3
    <2>2. i - Len(q) \in 1 .. Len(x) - Len(p)
      BY <1>0
    <2>3. s[i - Len(q)] = x[Len(p) + (i - Len(q))]
      BY <1>1, <2>2
    <2> QED BY <1>0, <2>1, <2>3
  <1>5. Len(y) = Len(q) + Len(x) - Len(p) /\ \A i \in 1 .. Len(q) : y[i] = q[i]
    BY <1>0, <1>1, <1>3
  <1>6. y # Nowhere
    BY <1>0, <1>3, <1>1, EmptySeq DEF Nowhere, Path
  <1>7. Within(q, y)
    BY <1>0, <1>3, <1>5, <1>6, <1>1, WithinElements
  <1> QED BY <1>3, <1>4, <1>5, <1>6, <1>7 DEF y

\* Two paths with the same segments are the same.
LEMMA PathEqual ==
    ASSUME NEW x \in Path, NEW y \in Path, Len(x) = Len(y), \A i \in 1 .. Len(x) : x[i] = y[i]
    PROVE  x = y
  BY SeqEqual DEF Path

\* Two moves in a row are one.
LEMMA RebaseAgain ==
    ASSUME NEW p \in Path, NEW q \in Path, q # Nowhere, NEW s \in Path, s # Nowhere,
           NEW x \in Path, Within(p, x)
    PROVE  Rebase(q, s, Rebase(p, q, x)) = Rebase(p, s, x)
  <1> DEFINE y == Rebase(p, q, x)
             z == Rebase(q, s, y)
             w == Rebase(p, s, x)
  <1>0. Len(p) \in Nat /\ Len(x) \in Nat /\ Len(p) <= Len(x) /\ Len(q) \in Nat /\ Len(s) \in Nat
    BY LenProperties, WithinElements DEF Path
  <1>1. /\ y \in Path /\ Within(q, y) /\ Len(y) = Len(q) + Len(x) - Len(p)
        /\ \A i \in Len(q) + 1 .. Len(q) + Len(x) - Len(p) : y[i] = x[i - Len(q) + Len(p)]
    BY RebaseElements
  <1> HIDE DEF y
  <1>2. /\ z \in Path /\ Len(z) = Len(s) + Len(y) - Len(q)
        /\ \A i \in 1 .. Len(s) : z[i] = s[i]
        /\ \A i \in Len(s) + 1 .. Len(s) + Len(y) - Len(q) : z[i] = y[i - Len(s) + Len(q)]
    <2>1. y \in Path /\ Within(q, y)
      BY <1>1
    <2> QED BY <2>1, RebaseElements
  <1>3. /\ w \in Path /\ Len(w) = Len(s) + Len(x) - Len(p)
        /\ \A i \in 1 .. Len(s) : w[i] = s[i]
        /\ \A i \in Len(s) + 1 .. Len(s) + Len(x) - Len(p) : w[i] = x[i - Len(s) + Len(p)]
    BY RebaseElements
  <1> HIDE DEF z, w
  <1>4. Len(z) = Len(w) /\ Len(z) = Len(s) + Len(x) - Len(p)
    BY <1>0, <1>1, <1>2, <1>3
  <1>5. \A i \in 1 .. Len(z) : z[i] = w[i]
    <2> TAKE i \in 1 .. Len(z)
    <2>1. CASE i <= Len(s)
      BY <2>1, <1>0, <1>2, <1>3
    <2>2. CASE i > Len(s)
      <3>1. i \in Len(s) + 1 .. Len(s) + Len(x) - Len(p) /\ i \in Len(s) + 1 .. Len(s) + Len(y) - Len(q)
        BY <2>2, <1>0, <1>1, <1>4
      <3>2. z[i] = y[i - Len(s) + Len(q)] /\ w[i] = x[i - Len(s) + Len(p)]
        BY <3>1, <1>2, <1>3
      <3>3. i - Len(s) + Len(q) \in Len(q) + 1 .. Len(q) + Len(x) - Len(p)
        BY <3>1, <1>0
      <3>4. y[i - Len(s) + Len(q)] = x[(i - Len(s) + Len(q)) - Len(q) + Len(p)]
        BY <3>3, <1>1
      <3>5. (i - Len(s) + Len(q)) - Len(q) + Len(p) = i - Len(s) + Len(p)
        BY <1>0, <3>1
      <3> QED BY <3>2, <3>4, <3>5
    <2> QED BY <2>1, <2>2, <1>0
  <1>6. z = w
    BY <1>2, <1>3, <1>4, <1>5, PathEqual
  <1> QED BY <1>6 DEF y, z, w

\* A move to the same place changes nothing.
LEMMA RebaseSelf ==
    ASSUME NEW p \in Path, p # Nowhere, NEW x \in Path
    PROVE  Rebase(p, p, x) = x
  <1>1. CASE Within(p, x)
    <2>0. Len(p) \in Nat /\ Len(x) \in Nat /\ Len(p) <= Len(x) /\ \A i \in 1 .. Len(p) : x[i] = p[i]
      BY <1>1, LenProperties, WithinElements DEF Path
    <2> DEFINE y == Rebase(p, p, x)
    <2>1. /\ y \in Path /\ Len(y) = Len(p) + Len(x) - Len(p)
          /\ \A i \in 1 .. Len(p) : y[i] = p[i]
          /\ \A i \in Len(p) + 1 .. Len(p) + Len(x) - Len(p) : y[i] = x[i - Len(p) + Len(p)]
      BY <1>1, RebaseElements
    <2> HIDE DEF y
    <2>2. \A i \in 1 .. Len(y) : y[i] = x[i]
      <3> TAKE i \in 1 .. Len(y)
      <3>1. CASE i <= Len(p)
        BY <3>1, <2>0, <2>1
      <3>2. CASE i > Len(p)
        <4>1. i \in Len(p) + 1 .. Len(p) + Len(x) - Len(p) /\ i - Len(p) + Len(p) = i
          BY <3>2, <2>0, <2>1
        <4> QED BY <4>1, <2>1
      <3> QED BY <3>1, <3>2, <2>0
    <2>3. y = x
      BY <2>0, <2>1, <2>2, PathEqual
    <2> QED BY <2>3 DEF y
  <1> QED BY <1>1 DEF Rebase

\* The moved directory is at the new place.
LEMMA RebaseTop ==
    ASSUME NEW p \in Path, p # Nowhere, NEW q \in Path
    PROVE  Rebase(p, q, p) = q
  <1>1. Within(p, p) /\ Len(p) \in Nat /\ Len(p) + 1 \in Int /\ Len(p) < Len(p) + 1
    BY WithinSelf, LenProperties DEF Path
  <1>2. SubSeq(p, Len(p) + 1, Len(p)) = <<>>
    BY <1>1, SubSeqEmpty
  <1>3. q \o <<>> = q
    BY ConcatEmptySeq DEF Path
  <1> QED BY <1>1, <1>2, <1>3 DEF Rebase

\* What is moved back is where it was, and two places stay two.
LEMMA RebaseInjective ==
    ASSUME NEW p \in Path, p # Nowhere, NEW q \in Path, q # Nowhere,
           NEW x \in Path, NEW y \in Path, Within(p, x), Within(p, y),
           Rebase(p, q, x) = Rebase(p, q, y)
    PROVE  x = y
  <1>1. Rebase(q, p, Rebase(p, q, x)) = Rebase(p, p, x)
    BY RebaseAgain
  <1>2. Rebase(q, p, Rebase(p, q, y)) = Rebase(p, p, y)
    BY RebaseAgain
  <1>3. Rebase(p, p, x) = x /\ Rebase(p, p, y) = y
    BY RebaseSelf
  <1> QED BY <1>1, <1>2, <1>3

\* No segment of a name is .git or the legacy directory.
LEMMA NameElements ==
    ASSUME NEW name \in Names
    PROVE  /\ name \in Path /\ Len(name) \in Nat \ {0}
           /\ \A k \in 1 .. Len(name) : /\ name[k] \in Segments /\ name[k] # ".git"
                                        /\ name[k] # "timber/repos"
  <1>1. name \in Path /\ name # <<>>
    BY NamesAssumption, SeqMonotonic DEF Path, Segments
  <1>2. Len(name) \in Nat \ {0}
    BY <1>1, LenProperties, EmptySeq DEF Path
  <1>3. \A k \in 1 .. Len(name) : name[k] \in Segments
    BY <1>1, ElementOfSeq DEF Path
  <1> QED BY <1>1, <1>2, <1>3, NamesAssumption

\* The segments of a bare path under the worktree root.
LEMMA BareElements ==
    ASSUME NEW name \in Names
    PROVE  /\ BarePath(name) \in Path /\ Len(BarePath(name)) = Len(name) + 1
           /\ \A k \in 1 .. Len(name) : BarePath(name)[k] = name[k]
           /\ BarePath(name)[Len(name) + 1] = ".git"
  <1>1. name \in Seq(Segments) /\ ".git" \in Segments /\ Len(name) \in Nat
    <2>1. ".git" \in Segments
      BY DEF Segments
    <2> QED BY <2>1, NameElements DEF Path
  <1>2. /\ Append(name, ".git") \in Seq(Segments)
        /\ Len(Append(name, ".git")) = Len(name) + 1
        /\ \A k \in 1 .. Len(name) : Append(name, ".git")[k] = name[k]
        /\ Append(name, ".git")[Len(name) + 1] = ".git"
    BY <1>1, AppendProperties
  <1> QED BY <1>2 DEF BarePath, Path

\* The segments of a bare path in the legacy directory.
LEMMA LegacyElements ==
    ASSUME NEW name \in Names
    PROVE  /\ LegacyPath(name) \in Path /\ Len(LegacyPath(name)) = Len(name) + 2
           /\ LegacyPath(name)[1] = "timber/repos"
           /\ \A k \in 2 .. Len(name) + 2 : LegacyPath(name)[k] = BarePath(name)[k - 1]
  <1> DEFINE top == <<"timber/repos">>
  <1>1. top \in Seq(Segments) /\ Len(top) = 1 /\ top[1] = "timber/repos" /\ Len(name) \in Nat
    <2>1. "timber/repos" \in Segments
      BY DEF Segments
    <2>2. top \in Seq(Segments) /\ Len(top) = 1 /\ top[1] = "timber/repos"
      BY <2>1
    <2> QED BY <2>2, NameElements
  <1>2. BarePath(name) \in Seq(Segments) /\ Len(BarePath(name)) = Len(name) + 1
    BY BareElements DEF Path
  <1>3. LegacyPath(name) = top \o BarePath(name)
    BY DEF LegacyPath
  <1> HIDE DEF top
  <1>4. /\ LegacyPath(name) \in Seq(Segments)
        /\ Len(LegacyPath(name)) = Len(top) + Len(BarePath(name))
        /\ \A k \in 1 .. Len(top) + Len(BarePath(name)) :
              LegacyPath(name)[k] = IF k <= Len(top) THEN top[k] ELSE BarePath(name)[k - Len(top)]
    <2>1. top \in Seq(Segments) /\ BarePath(name) \in Seq(Segments)
      BY <1>1, <1>2
    <2> QED BY <2>1, <1>3, ConcatProperties
  <1>5. LegacyPath(name)[1] = top[1]
    BY <1>1, <1>2, <1>4
  <1>6. \A k \in 2 .. Len(name) + 2 : LegacyPath(name)[k] = BarePath(name)[k - 1]
    BY <1>1, <1>2, <1>4
  <1> QED BY <1>1, <1>2, <1>4, <1>5, <1>6 DEF Path

\* The path of a bare directory ends with its only .git.
LEMMA HomeElements ==
    ASSUME NEW home \in Homes
    PROVE  /\ home \in Path /\ Len(home) \in Nat \ {0} /\ home # Nowhere
           /\ home[Len(home)] = ".git"
           /\ \A k \in 1 .. Len(home) - 1 : home[k] # ".git"
  <1>1. CASE \E name \in Names : home = BarePath(name)
    <2> PICK name \in Names : home = BarePath(name)
      BY <1>1
    <2>1. Len(name) \in Nat \ {0} /\ \A k \in 1 .. Len(name) : name[k] # ".git"
      BY NameElements
    <2>2. /\ home \in Path /\ Len(home) = Len(name) + 1 /\ home[Len(name) + 1] = ".git"
          /\ \A k \in 1 .. Len(name) : home[k] = name[k]
      BY BareElements
    <2>3. Len(home) - 1 = Len(name)
      BY <2>1, <2>2
    <2>4. \A k \in 1 .. Len(home) - 1 : home[k] # ".git"
      BY <2>1, <2>2, <2>3
    <2> QED BY <2>1, <2>2, <2>4, EmptySeq DEF Nowhere
  <1>2. CASE \E name \in Names : home = LegacyPath(name)
    <2> PICK name \in Names : home = LegacyPath(name)
      BY <1>2
    <2> DEFINE bare == BarePath(name)
    <2>1. Len(name) \in Nat \ {0} /\ \A k \in 1 .. Len(name) : name[k] # ".git"
      BY NameElements
    <2>2. /\ bare[Len(name) + 1] = ".git" /\ \A k \in 1 .. Len(name) : bare[k] = name[k]
      BY BareElements
    <2>3. /\ home \in Path /\ Len(home) = Len(name) + 2 /\ home[1] = "timber/repos"
          /\ \A k \in 2 .. Len(name) + 2 : home[k] = bare[k - 1]
      BY LegacyElements
    <2> HIDE DEF bare
    <2>4. \A k \in 1 .. Len(home) - 1 : home[k] # ".git"
      <3> TAKE k \in 1 .. Len(home) - 1
      <3>1. CASE k = 1
        BY <3>1, <2>3
      <3>2. CASE k # 1
        <4>1. k \in 2 .. Len(name) + 2 /\ k - 1 \in 1 .. Len(name)
          BY <3>2, <2>1, <2>3
        <4>2. home[k] = name[k - 1]
          BY <4>1, <2>2, <2>3
        <4> QED BY <4>1, <4>2, <2>1
      <3> QED BY <3>1, <3>2
    <2>5. home[Len(home)] = ".git"
      <3>1. Len(name) + 2 \in 2 .. Len(name) + 2 /\ (Len(name) + 2) - 1 = Len(name) + 1
        BY <2>1
      <3>2. home[Len(name) + 2] = bare[(Len(name) + 2) - 1]
        BY <3>1, <2>3
      <3> QED BY <3>1, <3>2, <2>2, <2>3
    <2>6. Len(home) \in Nat \ {0}
      BY <2>1, <2>3
    <2> QED BY <2>3, <2>4, <2>5, <2>6, EmptySeq DEF Nowhere
  <1> QED BY <1>1, <1>2 DEF Homes

\* No path is in two bare directories.
LEMMA HomesApart ==
    ASSUME NEW g \in Homes, NEW h \in Homes, NEW x \in Path, Within(g, x), Within(h, x)
    PROVE  g = h
  <1>1. /\ g \in Path /\ Len(g) \in Nat \ {0} /\ g[Len(g)] = ".git" /\ \A k \in 1 .. Len(g) - 1 : g[k] # ".git"
        /\ h \in Path /\ Len(h) \in Nat \ {0} /\ h[Len(h)] = ".git" /\ \A k \in 1 .. Len(h) - 1 : h[k] # ".git"
    BY HomeElements
  <1>2. /\ \A i \in 1 .. Len(g) : x[i] = g[i]
        /\ \A i \in 1 .. Len(h) : x[i] = h[i]
    BY <1>1, WithinElements
  <1>3. ~(Len(g) < Len(h))
    <2> SUFFICES ASSUME Len(g) < Len(h) PROVE FALSE
      OBVIOUS
    <2>1. Len(g) \in 1 .. Len(h) - 1 /\ Len(g) \in 1 .. Len(g) /\ Len(g) \in 1 .. Len(h)
      BY <1>1
    <2>2. h[Len(g)] = x[Len(g)] /\ x[Len(g)] = g[Len(g)]
      BY <2>1, <1>2
    <2> QED BY <2>1, <2>2, <1>1
  <1>4. ~(Len(h) < Len(g))
    <2> SUFFICES ASSUME Len(h) < Len(g) PROVE FALSE
      OBVIOUS
    <2>1. Len(h) \in 1 .. Len(g) - 1 /\ Len(h) \in 1 .. Len(h) /\ Len(h) \in 1 .. Len(g)
      BY <1>1
    <2>2. g[Len(h)] = x[Len(h)] /\ x[Len(h)] = h[Len(h)]
      BY <2>1, <1>2
    <2> QED BY <2>1, <2>2, <1>1
  <1>5. Len(g) = Len(h)
    BY <1>1, <1>3, <1>4
  <1>6. \A i \in 1 .. Len(g) : g[i] = h[i]
    BY <1>2, <1>5
  <1> QED BY <1>1, <1>5, <1>6, PathEqual

\* No bare directory is inside another.
LEMMA HomeWithin ==
    ASSUME NEW g \in Homes, NEW h \in Homes
    PROVE  Within(g, h) <=> g = h
  <1>1. g \in Path /\ h \in Path /\ g # Nowhere /\ h # Nowhere
    BY HomeElements
  <1>2. Within(g, g) /\ Within(h, h)
    BY <1>1, WithinSelf
  <1> QED BY <1>1, <1>2, HomesApart

\* A bare path tells the name, and whether it is the legacy one.
LEMMA HomesOfNames ==
    ASSUME NEW m \in Names, NEW n \in Names
    PROVE  /\ BarePath(m) \in Homes /\ LegacyPath(m) \in Homes
           /\ BarePath(m) = BarePath(n) => m = n
           /\ LegacyPath(m) = LegacyPath(n) => m = n
           /\ BarePath(m) # LegacyPath(n)
           /\ Front(BarePath(m)) = m
  <1>0. BarePath(m) \in Homes /\ LegacyPath(m) \in Homes
    BY DEF Homes
  <1>1. /\ m \in Path /\ Len(m) \in Nat \ {0} /\ \A k \in 1 .. Len(m) : m[k] # "timber/repos"
        /\ n \in Path /\ Len(n) \in Nat \ {0}
    BY NameElements
  <1>2. /\ BarePath(m) \in Path /\ Len(BarePath(m)) = Len(m) + 1
        /\ \A k \in 1 .. Len(m) : BarePath(m)[k] = m[k]
        /\ BarePath(n) \in Path /\ Len(BarePath(n)) = Len(n) + 1
        /\ \A k \in 1 .. Len(n) : BarePath(n)[k] = n[k]
    BY BareElements
  <1>3. /\ Len(LegacyPath(m)) = Len(m) + 2 /\ Len(LegacyPath(n)) = Len(n) + 2
        /\ LegacyPath(n)[1] = "timber/repos"
        /\ \A k \in 2 .. Len(m) + 2 : LegacyPath(m)[k] = BarePath(m)[k - 1]
        /\ \A k \in 2 .. Len(n) + 2 : LegacyPath(n)[k] = BarePath(n)[k - 1]
    BY LegacyElements
  <1>4. ASSUME BarePath(m) = BarePath(n) PROVE m = n
    <2>1. Len(m) = Len(n)
      BY <1>1, <1>2, <1>4
    <2>2. \A k \in 1 .. Len(m) : m[k] = n[k]
      BY <1>2, <1>4, <2>1
    <2> QED BY <1>1, <2>1, <2>2, PathEqual
  <1>5. ASSUME LegacyPath(m) = LegacyPath(n) PROVE m = n
    <2>1. Len(m) = Len(n)
      BY <1>1, <1>3, <1>5
    <2>2. \A k \in 1 .. Len(m) : m[k] = n[k]
      <3> TAKE k \in 1 .. Len(m)
      <3>1. k + 1 \in 2 .. Len(m) + 2 /\ (k + 1) - 1 = k
        BY <1>1
      <3>2. LegacyPath(m)[k + 1] = BarePath(m)[k] /\ LegacyPath(n)[k + 1] = BarePath(n)[k]
        BY <3>1, <2>1, <1>3
      <3> QED BY <3>2, <1>2, <2>1, <1>5
    <2> QED BY <1>1, <2>1, <2>2, PathEqual
  <1>6. BarePath(m) # LegacyPath(n)
    <2>1. 1 \in 1 .. Len(m)
      BY <1>1
    <2> QED BY <2>1, <1>1, <1>2, <1>3
  <1>7. Front(BarePath(m)) = m
    <2>1. \A i \in 1 .. Len(m) : BarePath(m)[i] \in Segments
      BY <1>1, <1>2, ElementOfSeq DEF Path
    <2>2. /\ SubSeq(BarePath(m), 1, Len(m)) \in Path
          /\ Len(SubSeq(BarePath(m), 1, Len(m))) = Len(m)
          /\ \A i \in 1 .. Len(m) : SubSeq(BarePath(m), 1, Len(m))[i] = BarePath(m)[i]
      BY <1>1, <2>1, SubSeqProperties DEF Path
    <2>3. SubSeq(BarePath(m), 1, Len(m)) = m
      BY <2>2, <1>1, <1>2, PathEqual
    <2>4. Len(BarePath(m)) - 1 = Len(m)
      BY <1>1, <1>2
    <2> QED BY <2>3, <2>4 DEF Front
  <1> QED BY <1>0, <1>4, <1>5, <1>6, <1>7

\* The segments of the path that `create` gives a worktree.
LEMMA ManagedElements ==
    ASSUME NEW name \in Names, NEW branch \in STRING \ {".git"}
    PROVE  /\ ManagedPath(name, branch) \in Path /\ ManagedPath(name, branch) # Nowhere
           /\ Len(ManagedPath(name, branch)) = Len(name) + 2
           /\ \A k \in 1 .. Len(name) : ManagedPath(name, branch)[k] = name[k]
           /\ ManagedPath(name, branch)[Len(name) + 1] = branch
           /\ ManagedPath(name, branch)[Len(name) + 2] = Last(name)
           /\ Last(name) # ".git"
  <1>1. /\ name \in Seq(Segments) /\ Len(name) \in Nat \ {0}
        /\ \A k \in 1 .. Len(name) : name[k] \in Segments /\ name[k] # ".git"
    BY NameElements DEF Path
  <1>2. Last(name) \in Segments /\ Last(name) # ".git"
    <2>1. Len(name) \in 1 .. Len(name)
      BY <1>1
    <2> QED BY <1>1, <2>1 DEF Last
  <1> DEFINE end == <<branch, Last(name)>>
             path == ManagedPath(name, branch)
  <1>3. end \in Seq(Segments) /\ Len(end) = 2 /\ end[1] = branch /\ end[2] = Last(name)
    <2>1. branch \in Segments
      BY DEF Segments
    <2> QED BY <1>2, <2>1
  <1>4. path = name \o end
    BY DEF ManagedPath
  <1> HIDE DEF end, path
  <1>5. /\ path \in Seq(Segments) /\ Len(path) = Len(name) + Len(end)
        /\ \A k \in 1 .. Len(name) + Len(end) : path[k] = IF k <= Len(name) THEN name[k] ELSE end[k - Len(name)]
    BY <1>1, <1>3, <1>4, ConcatProperties
  <1>6. path[Len(name) + 1] = end[1] /\ path[Len(name) + 2] = end[2]
    BY <1>1, <1>3, <1>5
  <1>7. \A k \in 1 .. Len(name) : path[k] = name[k]
    BY <1>1, <1>3, <1>5
  <1>8. path # Nowhere
    BY <1>1, <1>3, <1>5, EmptySeq DEF Nowhere
  <1> QED BY <1>2, <1>3, <1>5, <1>6, <1>7, <1>8 DEF path, Path

\* That path is in no bare directory.
LEMMA ManagedOutside ==
    ASSUME NEW name \in Names, NEW branch \in STRING \ {".git"}
    PROVE  ~InHome(ManagedPath(name, branch))
  <1> DEFINE path == ManagedPath(name, branch)
  <1>1. /\ path \in Path /\ Len(path) = Len(name) + 2 /\ Last(name) # ".git"
        /\ \A k \in 1 .. Len(name) : path[k] = name[k]
        /\ path[Len(name) + 1] = branch /\ path[Len(name) + 2] = Last(name)
    BY ManagedElements
  <1>2. Len(name) \in Nat \ {0} /\ \A k \in 1 .. Len(name) : name[k] # ".git"
    BY NameElements
  <1> HIDE DEF path
  <1>3. \A k \in 1 .. Len(path) : path[k] # ".git"
    <2> TAKE k \in 1 .. Len(path)
    <2>1. k \in 1 .. Len(name) \/ k = Len(name) + 1 \/ k = Len(name) + 2
      BY <1>1, <1>2
    <2> QED BY <2>1, <1>1, <1>2
  <1>4. ASSUME NEW home \in Homes, Within(home, path) PROVE FALSE
    <2>1. /\ home \in Path /\ Len(home) \in Nat \ {0} /\ home[Len(home)] = ".git"
      BY HomeElements
    <2>2. Len(home) <= Len(path) /\ \A i \in 1 .. Len(home) : path[i] = home[i]
      BY <1>1, <1>4, <2>1, WithinElements
    <2>3. Len(home) \in 1 .. Len(path) /\ Len(home) \in 1 .. Len(home)
      BY <1>1, <1>2, <2>1, <2>2
    <2> QED BY <1>3, <2>1, <2>2, <2>3
  <1> QED BY <1>4 DEF path, InHome

\* It tells the name and the branch.
LEMMA ManagedApart ==
    ASSUME NEW m \in Names, NEW n \in Names, NEW b \in STRING \ {".git"}, NEW c \in STRING \ {".git"},
           ManagedPath(m, b) = ManagedPath(n, c)
    PROVE  m = n /\ b = c
  <1> DEFINE x == ManagedPath(m, b)
             y == ManagedPath(n, c)
  <1>1. /\ Len(x) = Len(m) + 2 /\ x[Len(m) + 1] = b /\ \A k \in 1 .. Len(m) : x[k] = m[k]
        /\ Len(y) = Len(n) + 2 /\ y[Len(n) + 1] = c /\ \A k \in 1 .. Len(n) : y[k] = n[k]
    BY ManagedElements
  <1>2. x = y
    OBVIOUS
  <1> HIDE DEF x, y
  <1>3. m \in Path /\ n \in Path /\ Len(m) \in Nat \ {0} /\ Len(n) \in Nat \ {0}
    BY NameElements
  <1>4. Len(m) = Len(n)
    BY <1>1, <1>2, <1>3
  <1>5. b = c
    BY <1>1, <1>2, <1>4
  <1>6. \A k \in 1 .. Len(m) : m[k] = n[k]
    BY <1>1, <1>2, <1>4
  <1> QED BY <1>3, <1>4, <1>5, <1>6, PathEqual

\* The review checkout is inside the bare directory and moves with it.
LEMMA ReviewElements ==
    ASSUME NEW home \in Path, home # Nowhere
    PROVE  /\ ReviewPath(home) \in Path /\ ReviewPath(home) # Nowhere /\ Within(home, ReviewPath(home))
           /\ \A g \in Path \ {Nowhere} : Rebase(home, g, ReviewPath(home)) = ReviewPath(g)
           /\ ~Within(ReviewPath(home), home)
  <1> DEFINE end == <<"timber-review", "worktree">>
             path == ReviewPath(home)
  <1>1. end \in Seq(Segments) /\ Len(end) = 2 /\ home \in Seq(Segments) /\ Len(home) \in Nat
    <2>1. "timber-review" \in Segments /\ "worktree" \in Segments
      BY DEF Segments
    <2>2. end \in Seq(Segments) /\ Len(end) = 2
      BY <2>1
    <2> QED BY <2>2, LenProperties DEF Path
  <1>2. path = home \o end
    BY DEF ReviewPath
  <1>e. \A g : ReviewPath(g) = g \o end
    BY DEF ReviewPath
  <1> HIDE DEF end, path
  <1>3. /\ path \in Seq(Segments) /\ Len(path) = Len(home) + Len(end)
        /\ \A k \in 1 .. Len(home) + Len(end) : path[k] = IF k <= Len(home) THEN home[k] ELSE end[k - Len(home)]
    BY <1>1, <1>2, ConcatProperties
  <1>4. path # Nowhere
    BY <1>1, <1>3, EmptySeq DEF Nowhere
  <1>5. Within(home, path)
    <2>1. \A k \in 1 .. Len(home) : path[k] = home[k]
      BY <1>1, <1>3
    <2>2. Len(home) <= Len(path) /\ path \in Path /\ home \in Path
      BY <1>1, <1>3 DEF Path
    <2> QED BY <1>4, <2>1, <2>2, WithinElements
  <1>6. SubSeq(path, Len(home) + 1, Len(path)) = end
    <2>1. Len(home) + 1 \in Len(home) + 1 .. Len(home) + Len(end) /\ Len(path) \in Len(home) + 1 .. Len(home) + Len(end)
      BY <1>1, <1>3
    <2>2. SubSeq(path, Len(home) + 1, Len(path)) = SubSeq(end, (Len(home) + 1) - Len(home), Len(path) - Len(home))
      BY <1>1, <1>2, <2>1, SubSeqOfConcat2
    <2>3. (Len(home) + 1) - Len(home) = 1 /\ Len(path) - Len(home) = Len(end)
      BY <1>1, <1>3
    <2> QED BY <1>1, <2>2, <2>3, SubSeqFull
  <1>7. \A g \in Path \ {Nowhere} : Rebase(home, g, path) = ReviewPath(g)
    BY <1>5, <1>6, <1>e DEF Rebase
  <1>8. ~Within(path, home)
    <2>1. ~(Len(path) <= Len(home)) /\ path \in Path
      BY <1>1, <1>3 DEF Path
    <2> QED BY <2>1, WithinElements
  <1> QED BY <1>3, <1>4, <1>5, <1>7, <1>8 DEF path, Path

------------------------------------------------------------------------------
(***************************************************************************)
(* The disk.  A worktree is inside the bare directory of its repository or *)
(* outside of all of them; one inside moves with it and its links then agree *)
(* on where it was.                                                        *)
(***************************************************************************)

\* No directory lies in a worktree.
WorktreesApart ==
    \A t \in Trees : place[t] # Nowhere => \A d \in Dirs \ {t} : ~Within(place[t], place[d])

\* The types of the three disk variables.
DiskTyped == place \in [Dirs -> Path] /\ back \in [Trees -> Path] /\ link \in [Trees -> Path]

\* A repository is at a bare path, and no two are at the same one.
ReposInv ==
    /\ \A r \in Repos : place[r] \in Homes \cup {Nowhere}
    /\ \A r, s \in Repos : place[r] = place[s] => r = s \/ place[r] = Nowhere

\* A worktree outside of all bare directories, and so is what its entry names.
Outside(t) == ~InHome(place[t]) /\ ~InHome(back[t])

\* A worktree in the bare directory of its repository, and its entry names it
\* there or at the same place of the directory that its .git file names.
Inside(t) ==
    LET bare == place[RepoOf[t]]
    IN  /\ Within(bare, place[t])
        /\ \/ back[t] = place[t]
           \/ Within(link[t], back[t]) /\ Rebase(link[t], bare, back[t]) = place[t]

\* A worktree has an entry, its repository exists, its .git file names a bare
\* path, and it is inside the repository or outside of them all.
TreeInv(t) ==
    /\ place[t] = Nowhere <=> back[t] = Nowhere
    /\ place[t] # Nowhere =>
         place[RepoOf[t]] # Nowhere /\ link[t] \in Homes /\ (Outside(t) \/ Inside(t))

\* All worktrees.
TreesInv == \A t \in Trees : TreeInv(t)

\* The entry of a worktree does not name the place of another one.
EntriesInv ==
    \A t, u \in Trees : RepoOf[t] = RepoOf[u] /\ place[u] # Nowhere /\ back[t] = place[u] => t = u

\* The worktrees of a legacy repository are linked, and no .git file names the
\* legacy path of another repository.
LegacyInv ==
    \A name \in Names :
      /\ \A t \in Trees : place[t] # Nowhere /\ place[RepoOf[t]] = LegacyPath(name) => Sound(t)
      /\ \A t \in Trees : place[t] # Nowhere /\ link[t] = LegacyPath(name) =>
            \A r \in Repos : place[r] = LegacyPath(name) => r = RepoOf[t]

\* The invariant of the disk.
DiskInv == DiskTyped /\ ReposInv /\ TreesInv /\ EntriesInv /\ LegacyInv

\* Worktrees and repositories are different directories.
LEMMA RepoOfTree == \A t \in Trees : t \in Dirs /\ RepoOf[t] \in Repos /\ RepoOf[t] \in Dirs /\ t \notin Repos
  BY LayoutAssumption DEF Dirs

\* The types, one directory at a time.
LEMMA DiskTypes ==
    ASSUME DiskInv
    PROVE  /\ \A d \in Dirs : place[d] \in Path
           /\ \A t \in Trees : place[t] \in Path /\ back[t] \in Path /\ link[t] \in Path
           /\ \A r \in Repos : place[r] \in Path
  BY DEF DiskInv, DiskTyped, Dirs

\* Two directories of which one is a worktree are in two places.
LEMMA PlacesApart ==
    ASSUME DiskInv, WorktreesApart, NEW t \in Trees, NEW d \in Dirs, place[t] # Nowhere, place[d] = place[t]
    PROVE  d = t
  <1>1. Within(place[t], place[t])
    BY DiskTypes, RepoOfTree, WithinSelf
  <1> QED BY <1>1 DEF WorktreesApart

\* A worktree in a bare directory is in that of its repository.
LEMMA HomeOfTree ==
    ASSUME DiskInv, NEW t \in Trees, NEW home \in Homes, Within(home, place[t])
    PROVE  place[RepoOf[t]] = home /\ Inside(t)
  <1>1. place[t] # Nowhere
    BY DEF Within
  <1>2. Inside(t)
    BY <1>1 DEF DiskInv, TreesInv, TreeInv, Outside, InHome
  <1>3. place[RepoOf[t]] \in Homes /\ Within(place[RepoOf[t]], place[t])
    BY <1>1, <1>2, RepoOfTree DEF Inside, DiskInv, TreesInv, TreeInv, ReposInv
  <1> QED BY <1>2, <1>3, HomesApart, DiskTypes

\* A worktree is inside its repository exactly when its place, or what its entry
\* names, is in a bare directory.
LEMMA InsideIsInHome ==
    ASSUME DiskInv, NEW t \in Trees, place[t] # Nowhere
    PROVE  /\ place[RepoOf[t]] \in Homes
           /\ Inside(t) <=> InHome(place[t])
           /\ Outside(t) <=> ~InHome(place[t])
           /\ InHome(back[t]) <=> InHome(place[t])
  <1>1. place[RepoOf[t]] \in Homes
    BY RepoOfTree DEF DiskInv, TreesInv, TreeInv, ReposInv
  <1>2. Inside(t) => InHome(place[t])
    BY <1>1 DEF Inside, InHome
  <1>3. InHome(place[t]) => Inside(t)
    BY HomeOfTree DEF InHome
  <1>4. Outside(t) \/ Inside(t)
    BY DEF DiskInv, TreesInv, TreeInv
  <1>5. Inside(t) => InHome(back[t])
    BY <1>1 DEF Inside, InHome, DiskInv, TreesInv, TreeInv
  <1> QED BY <1>1, <1>2, <1>3, <1>4, <1>5 DEF Outside

\* No directory is at or below a path where nothing is.
LEMMA FreePlace ==
    ASSUME NEW p, ~Exists(p)
    PROVE  \A d \in Dirs : ~Within(p, place[d])
  BY DEF Exists
-----------------------------------------------------------------------------

\* `git worktree repair` keeps the invariant of the disk.
LEMMA RelinkKeeps ==
    ASSUME DiskInv, WorktreesApart, NEW r \in Repos, NEW B, NEW L, place[r] # Nowhere,
           \A t \in B : t \in Trees /\ RepoOf[t] = r /\ place[t] # Nowhere,
           L \subseteq InPlace(r, B), Relink(r, B, L), UNCHANGED place
    PROVE  DiskInv'
  <1>0. /\ \A t \in Trees : back'[t] = IF t \in B THEN place[t] ELSE back[t]
        /\ \A t \in Trees : link'[t] = IF t \in L THEN place[r] ELSE link[t]
        /\ place' = place
    BY DEF Relink
  <1>1. \A t \in L : /\ t \in Trees /\ RepoOf[t] = r
                     /\ t \in B \/ (place[t] # Nowhere /\ back[t] = place[t])
    BY DEF InPlace, Entries
  <1>2. place[r] \in Homes /\ place[r] \in Path
    BY DiskTypes DEF DiskInv, ReposInv
  <1>3. DiskTyped'
    <2>1. back' \in [Trees -> Path]
      BY DiskTypes DEF Relink
    <2>2. link' \in [Trees -> Path]
      BY <1>2, DiskTypes DEF Relink
    <2> QED BY <2>1, <2>2, <1>0 DEF DiskInv, DiskTyped
  <1>4. ReposInv'
    BY <1>0 DEF DiskInv, ReposInv
  <1>5. TreesInv'
    <2> SUFFICES ASSUME NEW t \in Trees PROVE TreeInv(t)'
      BY DEF TreesInv
    <2>1. TreeInv(t)
      BY DEF DiskInv, TreesInv
    <2>2. place'[t] = Nowhere <=> back'[t] = Nowhere
      BY <1>0, <2>1 DEF TreeInv
    <2>3. ASSUME place[t] # Nowhere PROVE link'[t] \in Homes
      BY <1>0, <1>2, <2>1, <2>3 DEF TreeInv
    <2>4. ASSUME place[t] # Nowhere, Outside(t) PROVE Outside(t)'
      BY <1>0, <2>4 DEF Outside
    <2>5. ASSUME place[t] # Nowhere, Inside(t) PROVE Inside(t)'
      <3>1. CASE t \in B
        BY <3>1, <1>0, <2>5 DEF Inside
      <3>2. CASE t \notin B
        BY <3>2, <1>0, <1>1, <2>5 DEF Inside
      <3> QED BY <3>1, <3>2
    <2> QED BY <1>0, <2>1, <2>2, <2>3, <2>4, <2>5 DEF TreeInv
  <1>6. EntriesInv'
    <2> SUFFICES ASSUME NEW t \in Trees, NEW u \in Trees, RepoOf[t] = RepoOf[u], place[u] # Nowhere,
                        back'[t] = place[u]
                 PROVE  t = u
      BY <1>0 DEF EntriesInv
    <2>1. CASE t \in B
      BY <2>1, <1>0, PlacesApart, RepoOfTree
    <2>2. CASE t \notin B
      BY <2>2, <1>0 DEF DiskInv, EntriesInv
    <2> QED BY <2>1, <2>2
  <1>7. LegacyInv'
    <2> SUFFICES ASSUME NEW name \in Names, NEW t \in Trees, place[t] # Nowhere
                 PROVE  /\ place[RepoOf[t]] = LegacyPath(name) => Sound(t)'
                        /\ link'[t] = LegacyPath(name) =>
                              \A s \in Repos : place[s] = LegacyPath(name) => s = RepoOf[t]
      BY <1>0 DEF LegacyInv
    <2>1. place[RepoOf[t]] = LegacyPath(name) => Sound(t)
      BY DEF DiskInv, LegacyInv
    <2>2. Sound(t) => Sound(t)'
      BY <1>0, <1>1 DEF Sound
    <2>3. link[t] = LegacyPath(name) => \A s \in Repos : place[s] = LegacyPath(name) => s = RepoOf[t]
      BY DEF DiskInv, LegacyInv
    <2>4. ASSUME t \in L, place[r] = LegacyPath(name), NEW s \in Repos, place[s] = LegacyPath(name)
          PROVE  s = RepoOf[t]
      BY <2>4, <1>1 DEF DiskInv, ReposInv
    <2> QED BY <1>0, <2>1, <2>2, <2>3, <2>4
  <1> QED BY <1>3, <1>4, <1>5, <1>6, <1>7 DEF DiskInv

\* A move of a worktree moves nothing else.
LEMMA TreeMoves ==
    ASSUME DiskInv, WorktreesApart, NEW t \in Trees, place[t] # Nowhere, NEW q \in Path
    PROVE  Moved(place[t], q) = [place EXCEPT ![t] = q]
  <1>1. \A d \in Dirs \ {t} : Rebase(place[t], q, place[d]) = place[d]
    BY RebaseKeeps DEF WorktreesApart
  <1>2. Rebase(place[t], q, place[t]) = q
    BY DiskTypes, RebaseTop
  <1>3. place \in [Dirs -> Path] /\ t \in Dirs
    BY RepoOfTree DEF DiskInv, DiskTyped
  <1> QED BY <1>1, <1>2, <1>3 DEF Moved

\* So does the move of a worktree that is outside to a free place.
LEMMA TreeMoveKeeps ==
    ASSUME DiskInv, WorktreesApart, NEW t \in Trees, place[t] # Nowhere, NEW q \in Path, q # Nowhere,
           ~InHome(place[t]), ~InHome(q),
           NEW name \in Names, place[RepoOf[t]] = BarePath(name),
           \A u \in Trees \ {t} : RepoOf[u] = RepoOf[t] => back[u] # q,
           place' = Moved(place[t], q), UNCHANGED <<link, back>>
    PROVE  DiskInv'
  <1>0. /\ place' = [place EXCEPT ![t] = q]
        /\ place'[t] = q /\ \A d \in Dirs \ {t} : place'[d] = place[d]
        /\ link' = link /\ back' = back
    <2>1. place' = [place EXCEPT ![t] = q]
      BY TreeMoves
    <2>2. place \in [Dirs -> Path] /\ t \in Dirs
      BY RepoOfTree DEF DiskInv, DiskTyped
    <2> QED BY <2>1, <2>2
  <1>r. \A r \in Repos : place'[r] = place[r]
    BY <1>0, RepoOfTree DEF Dirs
  <1>3. DiskTyped'
    BY <1>0, RepoOfTree DEF DiskInv, DiskTyped
  <1>4. ReposInv'
    BY <1>r DEF DiskInv, ReposInv
  <1>5. TreesInv'
    <2> SUFFICES ASSUME NEW u \in Trees PROVE TreeInv(u)'
      BY DEF TreesInv
    <2>1. TreeInv(u) /\ place'[RepoOf[u]] = place[RepoOf[u]]
      BY <1>r, RepoOfTree DEF DiskInv, TreesInv
    <2>2. CASE u = t
      <3>1. Outside(t)
        BY InsideIsInHome
      <3>2. Outside(t)'
        BY <3>1, <1>0 DEF Outside
      <3> QED BY <2>1, <2>2, <3>2, <1>0 DEF TreeInv
    <2>3. CASE u # t
      <3>1. place'[u] = place[u]
        BY <2>3, <1>0, RepoOfTree
      <3>2. (Outside(u) => Outside(u)') /\ (Inside(u) => Inside(u)')
        BY <2>1, <3>1, <1>0 DEF Outside, Inside
      <3> QED BY <2>1, <3>1, <3>2, <1>0 DEF TreeInv
    <2> QED BY <2>2, <2>3
  <1>6. EntriesInv'
    <2> SUFFICES ASSUME NEW v \in Trees, NEW u \in Trees, RepoOf[v] = RepoOf[u], place'[u] # Nowhere,
                        back[v] = place'[u]
                 PROVE  v = u
      BY <1>0 DEF EntriesInv
    <2>1. CASE u = t
      BY <2>1, <1>0
    <2>2. CASE u # t
      BY <2>2, <1>0, RepoOfTree DEF DiskInv, EntriesInv
    <2> QED BY <2>1, <2>2
  <1>7. LegacyInv'
    <2> SUFFICES ASSUME NEW n \in Names, NEW u \in Trees, place'[u] # Nowhere
                 PROVE  /\ place[RepoOf[u]] = LegacyPath(n) => Sound(u)'
                        /\ link[u] = LegacyPath(n) =>
                              \A s \in Repos : place[s] = LegacyPath(n) => s = RepoOf[u]
      BY <1>0, <1>r, RepoOfTree DEF LegacyInv
    <2>1. place[u] # Nowhere
      BY <1>0, RepoOfTree
    <2>2. CASE u = t
      BY <2>1, <2>2, HomesOfNames DEF DiskInv, LegacyInv
    <2>3. CASE u # t
      <3>1. place'[u] = place[u] /\ place'[RepoOf[u]] = place[RepoOf[u]]
        BY <2>3, <1>0, <1>r, RepoOfTree
      <3>2. Sound(u) => Sound(u)'
        BY <3>1, <1>0 DEF Sound
      <3> QED BY <2>1, <3>2 DEF DiskInv, LegacyInv
    <2> QED BY <2>2, <2>3
  <1> QED BY <1>3, <1>4, <1>5, <1>6, <1>7 DEF DiskInv

\* A move of a bare directory moves the worktrees in it, which are its own.
LEMMA BareMoves ==
    ASSUME DiskInv, NEW r \in Repos, NEW h \in Homes, place[r] = h, NEW q \in Homes,
           place' = Moved(h, q)
    PROVE  /\ place' \in [Dirs -> Path]
           /\ place'[r] = q
           /\ \A s \in Repos \ {r} : place'[s] = place[s]
           /\ \A t \in Trees : RepoOf[t] # r \/ ~Within(h, place[t]) => place'[t] = place[t]
           /\ \A t \in Trees : RepoOf[t] = r /\ Within(h, place[t]) => place'[t] = Rebase(h, q, place[t])
           /\ \A t \in Trees : (place'[t] = Nowhere) <=> (place[t] = Nowhere)
  <1>0. h \in Path /\ h # Nowhere /\ q \in Path /\ q # Nowhere
    BY HomeElements
  <1>1. \A d \in Dirs : place'[d] = Rebase(h, q, place[d])
    BY DEF Moved
  <1>2. \A d \in Dirs : Rebase(h, q, place[d]) \in Path
    BY <1>0, DiskTypes, RebaseElements, RebaseKeeps
  <1>3. place' \in [Dirs -> Path]
    BY <1>2 DEF Moved
  <1>4. place'[r] = q
    BY <1>0, <1>1, RebaseTop DEF Dirs
  <1>5. \A s \in Repos \ {r} : place'[s] = place[s]
    <2> TAKE s \in Repos \ {r}
    <2>1. ~Within(h, place[s])
      <3>1. CASE place[s] = Nowhere
        BY <3>1 DEF Within
      <3>2. CASE place[s] # Nowhere
        <4>1. place[s] \in Homes /\ place[s] # h
          BY <3>2 DEF DiskInv, ReposInv
        <4> QED BY <4>1, HomeWithin
      <3> QED BY <3>1, <3>2
    <2> QED BY <2>1, <1>1, RebaseKeeps DEF Dirs
  <1>6. ASSUME NEW t \in Trees, RepoOf[t] # r \/ ~Within(h, place[t]) PROVE place'[t] = place[t]
    <2>1. ~Within(h, place[t])
      <3>1. CASE Within(h, place[t])
        <4>1. place[RepoOf[t]] = h
          BY <3>1, HomeOfTree
        <4> QED BY <4>1, <3>1, <1>6, <1>0, RepoOfTree DEF DiskInv, ReposInv
      <3> QED BY <3>1
    <2> QED BY <2>1, <1>1, RebaseKeeps, RepoOfTree
  <1>7. \A t \in Trees : RepoOf[t] = r /\ Within(h, place[t]) => place'[t] = Rebase(h, q, place[t])
    BY <1>1, RepoOfTree
  <1>8. \A t \in Trees : (place'[t] = Nowhere) <=> (place[t] = Nowhere)
    <2> TAKE t \in Trees
    <2>1. CASE Within(h, place[t])
      <3>1. Rebase(h, q, place[t]) # Nowhere
        BY <2>1, <1>0, DiskTypes, RebaseElements
      <3> QED BY <3>1, <2>1, <1>1, RepoOfTree DEF Within
    <2>2. CASE ~Within(h, place[t])
      BY <2>2, <1>6
    <2> QED BY <2>1, <2>2
  <1> QED BY <1>3, <1>4, <1>5, <1>6, <1>7, <1>8

\* After a move of the bare directory the entry and the .git file of a worktree
\* in it still agree on where it was.
LEMMA InsideAfterMove ==
    ASSUME DiskInv, NEW r \in Repos, NEW h \in Homes, place[r] = h, NEW q \in Homes,
           place' = Moved(h, q), UNCHANGED <<link, back>>,
           NEW t \in Trees, RepoOf[t] = r, place[t] # Nowhere, Inside(t),
           back[t] = place[t] => link[t] = h
    PROVE  Within(q, place'[t]) /\ Within(link[t], back[t]) /\ Rebase(link[t], q, back[t]) = place'[t]
  <1>0. h \in Path /\ h # Nowhere /\ q \in Path /\ q # Nowhere
    BY HomeElements
  <1>1. Within(h, place[t]) /\ place[t] \in Path /\ back[t] \in Path
    BY DiskTypes DEF Inside
  <1>2. place'[t] = Rebase(h, q, place[t])
    BY <1>1, BareMoves
  <1>3. Within(q, place'[t])
    BY <1>0, <1>1, <1>2, RebaseElements
  <1>4. CASE back[t] = place[t]
    BY <1>4, <1>1, <1>2, <1>3
  <1>5. CASE back[t] # place[t]
    <2>1. Within(link[t], back[t]) /\ Rebase(link[t], h, back[t]) = place[t]
      BY <1>5 DEF Inside
    <2>2. link[t] \in Homes
      BY DEF DiskInv, TreesInv, TreeInv
    <2>3. link[t] \in Path
      BY <2>2, HomeElements
    <2>4. Rebase(h, q, Rebase(link[t], h, back[t])) = Rebase(link[t], q, back[t])
      BY <2>1, <2>3, <1>0, <1>1, RebaseAgain
    <2> QED BY <1>2, <1>3, <2>1, <2>4
  <1> QED BY <1>4, <1>5

\* The move of a bare directory keeps the invariant of the disk.
LEMMA BareMoveKeeps ==
    ASSUME DiskInv, WorktreesApart, NEW r \in Repos, NEW h \in Homes, place[r] = h,
           NEW name \in Names, ~Exists(BarePath(name)),
           \A t \in Trees : RepoOf[t] = r /\ Within(h, place[t]) /\ back[t] = place[t] => link[t] = h,
           place' = Moved(h, BarePath(name)), UNCHANGED <<link, back>>
    PROVE  DiskInv'
  <1> DEFINE q == BarePath(name)
  <1>0. /\ q \in Homes /\ q \in Path /\ q # Nowhere
        /\ h \in Path /\ h # Nowhere
        /\ \A d \in Dirs : ~Within(q, place[d])
        /\ \A n \in Names : q # LegacyPath(n)
    BY HomesOfNames, HomeElements, FreePlace
  <1> HIDE DEF q
  <1>1. /\ place' \in [Dirs -> Path]
        /\ place'[r] = q
        /\ \A s \in Repos \ {r} : place'[s] = place[s]
        /\ \A t \in Trees : RepoOf[t] # r \/ ~Within(h, place[t]) => place'[t] = place[t]
        /\ \A t \in Trees : RepoOf[t] = r /\ Within(h, place[t]) => place'[t] = Rebase(h, q, place[t])
        /\ \A t \in Trees : (place'[t] = Nowhere) <=> (place[t] = Nowhere)
    <2>1. place' = Moved(h, q)
      BY DEF q
    <2> QED BY <2>1, <1>0, BareMoves
  <1>2. \A s \in Repos : place[s] # q
    <2>1. Within(q, q)
      BY <1>0, WithinSelf
    <2> QED BY <2>1, <1>0 DEF Dirs
  <1>3. DiskTyped'
    BY <1>1 DEF DiskInv, DiskTyped
  <1>4. ReposInv'
    <2>1. \A s \in Repos : place'[s] \in Homes \cup {Nowhere}
      BY <1>0, <1>1 DEF DiskInv, ReposInv
    <2>2. \A s, u \in Repos : place'[s] = place'[u] => s = u \/ place'[s] = Nowhere
      BY <1>1, <1>2 DEF DiskInv, ReposInv
    <2> QED BY <2>1, <2>2 DEF ReposInv
  <1>5. TreesInv'
    <2> SUFFICES ASSUME NEW t \in Trees PROVE TreeInv(t)'
      BY DEF TreesInv
    <2>1. TreeInv(t)
      BY DEF DiskInv, TreesInv
    <2>2. place'[RepoOf[t]] # Nowhere \/ place[t] = Nowhere
      BY <1>0, <1>1, <2>1, RepoOfTree DEF TreeInv
    <2>3. ASSUME place[t] # Nowhere PROVE Outside(t)' \/ Inside(t)'
      <3>1. CASE RepoOf[t] # r
        <4>1. place'[t] = place[t] /\ place'[RepoOf[t]] = place[RepoOf[t]]
          BY <3>1, <1>1, RepoOfTree
        <4>2. (Outside(t) => Outside(t)') /\ (Inside(t) => Inside(t)')
          BY <4>1 DEF Outside, Inside
        <4> QED BY <4>2, <2>1, <2>3 DEF TreeInv
      <3>2. CASE RepoOf[t] = r /\ ~Within(h, place[t])
        <4>1. place'[t] = place[t]
          BY <3>2, <1>1
        <4>2. Outside(t)
          BY <3>2, <2>1, <2>3 DEF TreeInv, Inside
        <4> QED BY <4>1, <4>2 DEF Outside
      <3>3. CASE RepoOf[t] = r /\ Within(h, place[t])
        <4>1. Inside(t)
          BY <3>3, HomeOfTree
        <4>2. place' = Moved(h, q)
          BY DEF q
        <4>3. Within(q, place'[t]) /\ Within(link[t], back[t]) /\ Rebase(link[t], q, back[t]) = place'[t]
          BY <4>1, <4>2, <3>3, <2>3, <1>0, InsideAfterMove
        <4> QED BY <4>3, <3>3, <1>1 DEF Inside
      <3> QED BY <3>1, <3>2, <3>3
    <2> QED BY <2>1, <2>2, <2>3, <1>1 DEF TreeInv
  <1>6. EntriesInv'
    <2> SUFFICES ASSUME NEW t \in Trees, NEW u \in Trees, RepoOf[t] = RepoOf[u], place'[u] # Nowhere,
                        back[t] = place'[u]
                 PROVE  t = u
      BY DEF EntriesInv
    <2>1. CASE RepoOf[u] # r \/ ~Within(h, place[u])
      BY <2>1, <1>1 DEF DiskInv, EntriesInv
    <2>2. CASE RepoOf[u] = r /\ Within(h, place[u])
      <3>0. place[u] \in Path /\ back[t] \in Path /\ place[t] \in Path
        BY DiskTypes
      <3>1. place'[u] = Rebase(h, q, place[u]) /\ Within(q, place'[u])
        <4>1. place'[u] = Rebase(h, q, place[u])
          BY <2>2, <1>1
        <4>2. Within(q, Rebase(h, q, place[u]))
          BY <2>2, <3>0, <1>0, RebaseElements
        <4> QED BY <4>1, <4>2
      <3>2. place[t] # Nowhere /\ Within(q, back[t]) /\ InHome(back[t])
        BY <3>1, <1>0 DEF DiskInv, TreesInv, TreeInv, InHome
      <3>3. Inside(t) /\ link[t] \in Homes
        BY <3>2, InsideIsInHome DEF DiskInv, TreesInv, TreeInv
      <3>4. back[t] # place[t]
        BY <3>2, <1>0, RepoOfTree
      <3>5. Within(link[t], back[t]) /\ Rebase(link[t], h, back[t]) = place[t]
        BY <3>3, <3>4, <2>2 DEF Inside
      <3>6. link[t] = q
        BY <3>0, <3>2, <3>3, <3>5, <1>0, HomesApart
      <3>7. Rebase(q, h, Rebase(h, q, place[u])) = Rebase(h, h, place[u])
        BY <2>2, <3>0, <1>0, RebaseAgain
      <3>8. Rebase(h, h, place[u]) = place[u]
        BY <3>0, <1>0, RebaseSelf
      <3>9. place[t] = place[u]
        BY <3>1, <3>5, <3>6, <3>7, <3>8
      <3> QED BY <3>2, <3>9, PlacesApart, RepoOfTree
    <2> QED BY <2>1, <2>2
  <1>7. LegacyInv'
    <2> SUFFICES ASSUME NEW n \in Names, NEW t \in Trees, place'[t] # Nowhere
                 PROVE  /\ place'[RepoOf[t]] = LegacyPath(n) => Sound(t)'
                        /\ link[t] = LegacyPath(n) =>
                              \A s \in Repos : place'[s] = LegacyPath(n) => s = RepoOf[t]
      BY DEF LegacyInv
    <2>1. place[t] # Nowhere
      BY <1>1
    <2>2. ASSUME place'[RepoOf[t]] = LegacyPath(n) PROVE Sound(t)'
      <3>1. RepoOf[t] # r
        BY <2>2, <1>0, <1>1
      <3>2. place'[t] = place[t] /\ place'[RepoOf[t]] = place[RepoOf[t]]
        BY <3>1, <1>1, RepoOfTree
      <3>3. Sound(t)
        BY <2>1, <2>2, <3>2 DEF DiskInv, LegacyInv
      <3> QED BY <3>2, <3>3 DEF Sound
    <2>3. ASSUME link[t] = LegacyPath(n), NEW s \in Repos, place'[s] = LegacyPath(n) PROVE s = RepoOf[t]
      <3>1. s # r
        BY <2>3, <1>0, <1>1
      <3>2. place[s] = LegacyPath(n)
        BY <3>1, <2>3, <1>1
      <3> QED BY <2>1, <2>3, <3>2 DEF DiskInv, LegacyInv
    <2> QED BY <2>2, <2>3
  <1> QED BY <1>3, <1>4, <1>5, <1>6, <1>7 DEF DiskInv

\* So does `git worktree add` outside of all bare directories or in that of the
\* repository.
LEMMA AttachKeeps ==
    ASSUME DiskInv, WorktreesApart, NEW t \in Trees, NEW path \in Path, path # Nowhere, Attach(t, path),
           place[RepoOf[t]] # Nowhere,
           ~InHome(path) \/ Within(place[RepoOf[t]], path)
    PROVE  /\ DiskInv'
           /\ place'[t] = path /\ Sound(t)'
           /\ \A d \in Dirs \ {t} : place'[d] = place[d]
           /\ \A r \in Repos : place'[r] = place[r]
           /\ \A u \in Trees \ {t} : back'[u] = back[u] /\ link'[u] = link[u]
  <1> DEFINE bare == place[RepoOf[t]]
  <1>0. /\ place[t] = Nowhere /\ back[t] = Nowhere
        /\ \A d \in Dirs : ~Within(path, place[d])
        /\ \A u \in Trees : RepoOf[u] = RepoOf[t] => back[u] # path
    BY FreePlace DEF Attach
  <1>1. /\ place' = [place EXCEPT ![t] = path] /\ back' = [back EXCEPT ![t] = path]
        /\ link' = [link EXCEPT ![t] = bare]
    BY DEF Attach
  <1>2. /\ place \in [Dirs -> Path] /\ back \in [Trees -> Path] /\ link \in [Trees -> Path]
        /\ t \in Dirs /\ bare \in Path /\ bare \in Homes
    BY RepoOfTree, DiskTypes DEF DiskInv, DiskTyped, ReposInv
  <1> HIDE DEF bare
  <1>3. /\ place'[t] = path /\ \A d \in Dirs \ {t} : place'[d] = place[d]
        /\ back'[t] = path /\ link'[t] = bare
        /\ \A u \in Trees \ {t} : back'[u] = back[u] /\ link'[u] = link[u]
    BY <1>1, <1>2
  <1>4. \A r \in Repos : place'[r] = place[r]
    BY <1>3, RepoOfTree DEF Dirs
  <1>5. place'[RepoOf[t]] = bare
    BY <1>4, RepoOfTree DEF bare
  <1>6. Sound(t)'
    BY <1>3, <1>5 DEF Sound
  <1>7. DiskTyped'
    BY <1>1, <1>2 DEF DiskTyped
  <1>8. ReposInv'
    BY <1>4 DEF DiskInv, ReposInv
  <1>9. TreesInv'
    <2> SUFFICES ASSUME NEW u \in Trees PROVE TreeInv(u)'
      BY DEF TreesInv
    <2>1. TreeInv(u) /\ place'[RepoOf[u]] = place[RepoOf[u]]
      BY <1>4, RepoOfTree DEF DiskInv, TreesInv
    <2>2. CASE u = t
      <3>1. Outside(t)' \/ Inside(t)'
        BY <1>3, <1>5 DEF Outside, Inside, bare
      <3> QED BY <2>2, <3>1, <1>2, <1>3, <1>5, HomeElements DEF TreeInv
    <2>3. CASE u # t
      <3>1. place'[u] = place[u] /\ back'[u] = back[u] /\ link'[u] = link[u]
        BY <2>3, <1>3, RepoOfTree
      <3>2. (Outside(u) => Outside(u)') /\ (Inside(u) => Inside(u)')
        BY <2>1, <3>1 DEF Outside, Inside
      <3> QED BY <2>1, <3>1, <3>2 DEF TreeInv
    <2> QED BY <2>2, <2>3
  <1>10. EntriesInv'
    <2> SUFFICES ASSUME NEW v \in Trees, NEW u \in Trees, RepoOf[v] = RepoOf[u], place'[u] # Nowhere,
                        back'[v] = place'[u], v # u
                 PROVE  FALSE
      BY DEF EntriesInv
    <2>1. CASE u = t
      BY <2>1, <1>0, <1>3
    <2>2. CASE v = t
      <3>1. place[u] = path
        BY <2>2, <1>3, RepoOfTree
      <3>2. Within(path, path)
        BY WithinSelf
      <3> QED BY <3>1, <3>2, <1>0, RepoOfTree
    <2>3. CASE u # t /\ v # t
      BY <2>3, <1>3, RepoOfTree DEF DiskInv, EntriesInv
    <2> QED BY <2>1, <2>2, <2>3
  <1>11. LegacyInv'
    <2> SUFFICES ASSUME NEW n \in Names, NEW u \in Trees, place'[u] # Nowhere
                 PROVE  /\ place[RepoOf[u]] = LegacyPath(n) => Sound(u)'
                        /\ link'[u] = LegacyPath(n) =>
                              \A s \in Repos : place[s] = LegacyPath(n) => s = RepoOf[u]
      BY <1>4, RepoOfTree DEF LegacyInv
    <2>1. CASE u = t
      <3>1. ASSUME bare = LegacyPath(n), NEW s \in Repos, place[s] = LegacyPath(n) PROVE s = RepoOf[t]
        BY <3>1, <1>2, HomeElements, RepoOfTree DEF bare, DiskInv, ReposInv
      <3> QED BY <3>1, <2>1, <1>3, <1>6
    <2>2. CASE u # t
      <3>1. place'[u] = place[u] /\ back'[u] = back[u] /\ link'[u] = link[u]
            /\ place'[RepoOf[u]] = place[RepoOf[u]]
        BY <2>2, <1>3, <1>4, RepoOfTree
      <3>2. Sound(u) => Sound(u)'
        BY <3>1 DEF Sound
      <3> QED BY <3>1, <3>2 DEF DiskInv, LegacyInv
    <2> QED BY <2>1, <2>2
  <1> QED BY <1>3, <1>4, <1>6, <1>7, <1>8, <1>9, <1>10, <1>11 DEF DiskInv

\* So does the removal of a worktree.
LEMMA RemoveTreeKeeps ==
    ASSUME DiskInv, NEW t \in Trees,
           place' = [place EXCEPT ![t] = Nowhere], back' = [back EXCEPT ![t] = Nowhere],
           link' = [link EXCEPT ![t] = Nowhere]
    PROVE  DiskInv'
  <1>2. /\ place \in [Dirs -> Path] /\ back \in [Trees -> Path] /\ link \in [Trees -> Path]
        /\ t \in Dirs /\ Nowhere \in Path
    BY RepoOfTree, EmptySeq DEF DiskInv, DiskTyped, Path, Nowhere
  <1>3. /\ place'[t] = Nowhere /\ \A d \in Dirs \ {t} : place'[d] = place[d]
        /\ back'[t] = Nowhere /\ link'[t] = Nowhere
        /\ \A u \in Trees \ {t} : back'[u] = back[u] /\ link'[u] = link[u]
    BY <1>2
  <1>4. \A r \in Repos : place'[r] = place[r]
    BY <1>3, RepoOfTree DEF Dirs
  <1>7. DiskTyped'
    BY <1>2 DEF DiskTyped
  <1>8. ReposInv'
    BY <1>4 DEF DiskInv, ReposInv
  <1>o. ASSUME NEW u \in Trees, place'[u] # Nowhere
        PROVE  /\ u # t /\ place'[u] = place[u] /\ back'[u] = back[u] /\ link'[u] = link[u]
               /\ place'[RepoOf[u]] = place[RepoOf[u]]
    BY <1>o, <1>3, <1>4, RepoOfTree
  <1>9. TreesInv'
    <2> SUFFICES ASSUME NEW u \in Trees PROVE TreeInv(u)'
      BY DEF TreesInv
    <2>1. TreeInv(u)
      BY DEF DiskInv, TreesInv
    <2>2. CASE u = t
      BY <2>2, <1>3 DEF TreeInv
    <2>3. CASE u # t
      <3>1. place'[u] = place[u] /\ back'[u] = back[u] /\ link'[u] = link[u]
            /\ place'[RepoOf[u]] = place[RepoOf[u]]
        BY <2>3, <1>3, <1>4, RepoOfTree
      <3>2. (Outside(u) => Outside(u)') /\ (Inside(u) => Inside(u)')
        BY <3>1 DEF Outside, Inside
      <3> QED BY <2>1, <3>1, <3>2 DEF TreeInv
    <2> QED BY <2>2, <2>3
  <1>10. EntriesInv'
    <2> SUFFICES ASSUME NEW v \in Trees, NEW u \in Trees, RepoOf[v] = RepoOf[u], place'[u] # Nowhere,
                        back'[v] = place'[u]
                 PROVE  v = u
      BY DEF EntriesInv
    <2>1. v # t
      BY <1>3
    <2> QED BY <2>1, <1>o, <1>3 DEF DiskInv, EntriesInv
  <1>11. LegacyInv'
    <2> SUFFICES ASSUME NEW n \in Names, NEW u \in Trees, place'[u] # Nowhere
                 PROVE  /\ place[RepoOf[u]] = LegacyPath(n) => Sound(u)'
                        /\ link[u] = LegacyPath(n) =>
                              \A s \in Repos : place[s] = LegacyPath(n) => s = RepoOf[u]
      BY <1>4, <1>o, RepoOfTree DEF LegacyInv
    <2>1. Sound(u) => Sound(u)'
      BY <1>o DEF Sound
    <2> QED BY <2>1, <1>o DEF DiskInv, LegacyInv
  <1> QED BY <1>7, <1>8, <1>9, <1>10, <1>11 DEF DiskInv

\* A repository without worktrees comes or goes.
LEMMA RepoKeeps ==
    ASSUME DiskInv, NEW r \in Repos, NEW p, place' = [place EXCEPT ![r] = p], UNCHANGED <<link, back>>,
           \A t \in Trees : RepoOf[t] = r => place[t] = Nowhere,
           p = Nowhere \/ \E name \in Names : p = BarePath(name) /\ ~Exists(p)
    PROVE  DiskInv'
  <1>1. /\ p \in Path /\ p \in Homes \cup {Nowhere}
        /\ \A s \in Repos : place[s] = p => p = Nowhere
        /\ \A n \in Names : p # LegacyPath(n)
    <2>1. CASE p = Nowhere
      BY <2>1, EmptySeq, HomesOfNames, HomeElements DEF Path, Nowhere
    <2>2. CASE \E name \in Names : p = BarePath(name) /\ ~Exists(p)
      <3>1. /\ p \in Homes /\ p \in Path /\ p # Nowhere /\ \A n \in Names : p # LegacyPath(n)
            /\ \A d \in Dirs : ~Within(p, place[d])
        BY <2>2, HomesOfNames, HomeElements, FreePlace
      <3>2. Within(p, p)
        BY <3>1, WithinSelf
      <3> QED BY <3>1, <3>2 DEF Dirs
    <2> QED BY <2>1, <2>2
  <1>2. /\ place' \in [Dirs -> Path] /\ place'[r] = p /\ \A s \in Repos \ {r} : place'[s] = place[s]
        /\ \A t \in Trees : place'[t] = place[t]
    BY <1>1, RepoOfTree DEF DiskInv, DiskTyped, Dirs
  <1>3. \A t \in Trees : place[t] # Nowhere => place'[RepoOf[t]] = place[RepoOf[t]]
    BY <1>2, RepoOfTree
  <1>7. DiskTyped'
    BY <1>2 DEF DiskInv, DiskTyped
  <1>8. ReposInv'
    <2>1. \A s \in Repos : place'[s] \in Homes \cup {Nowhere}
      BY <1>1, <1>2 DEF DiskInv, ReposInv
    <2>2. \A s, u \in Repos : place'[s] = place'[u] => s = u \/ place'[s] = Nowhere
      BY <1>1, <1>2 DEF DiskInv, ReposInv
    <2> QED BY <2>1, <2>2 DEF ReposInv
  <1>9. TreesInv'
    <2> SUFFICES ASSUME NEW u \in Trees PROVE TreeInv(u)'
      BY DEF TreesInv
    <2>1. TreeInv(u)
      BY DEF DiskInv, TreesInv
    <2>2. place[u] # Nowhere => (Outside(u) => Outside(u)') /\ (Inside(u) => Inside(u)')
      BY <1>2, <1>3 DEF Outside, Inside
    <2> QED BY <2>1, <2>2, <1>2, <1>3 DEF TreeInv
  <1>10. EntriesInv'
    BY <1>2 DEF DiskInv, EntriesInv
  <1>11. LegacyInv'
    <2> SUFFICES ASSUME NEW n \in Names, NEW u \in Trees, place[u] # Nowhere
                 PROVE  /\ place[RepoOf[u]] = LegacyPath(n) => Sound(u)'
                        /\ link[u] = LegacyPath(n) =>
                              \A s \in Repos : place'[s] = LegacyPath(n) => s = RepoOf[u]
      BY <1>2, <1>3 DEF LegacyInv
    <2>1. Sound(u) => Sound(u)'
      BY <1>2, <1>3 DEF Sound
    <2>2. \A s \in Repos : place'[s] = LegacyPath(n) => place[s] = LegacyPath(n)
      BY <1>1, <1>2
    <2> QED BY <2>1, <2>2 DEF DiskInv, LegacyInv
  <1> QED BY <1>7, <1>8, <1>9, <1>10, <1>11 DEF DiskInv

\* So does a step that leaves the disk alone.
LEMMA DiskUnchanged ==
    ASSUME DiskInv, UNCHANGED <<place, link, back>>
    PROVE  DiskInv'
  <1>1. DiskTyped' /\ ReposInv' /\ EntriesInv'
    BY DEF DiskInv, DiskTyped, ReposInv, EntriesInv
  <1>2. TreesInv'
    BY DEF DiskInv, TreesInv, TreeInv, Outside, Inside
  <1>3. LegacyInv'
    BY DEF DiskInv, LegacyInv, Sound
  <1> QED BY <1>1, <1>2, <1>3 DEF DiskInv

\* It holds at first.
LEMMA DiskStarts ==
    ASSUME Init, WorktreesApart
    PROVE  DiskInv
  <1>1. /\ place \in [Dirs -> Path]
        /\ \A r \in Repos : place[r] \in Homes \cup {Nowhere}
        /\ \A r, s \in Repos : place[r] = place[s] => r = s \/ place[r] = Nowhere
        /\ \A t \in Trees : place[t] # Nowhere =>
              /\ place[RepoOf[t]] # Nowhere
              /\ \A bare \in Homes : IsPrefix(bare, place[t]) => bare = place[RepoOf[t]]
    <2>1. place \in Starts
      BY DEF Init
    <2>2. place \in [Dirs -> Seq(STRING)]
      BY <2>1, StartsAssumption
    <2>3. \A p \in Seq(STRING) : p \in Path
      BY SeqMonotonic DEF Path, Segments
    <2> QED BY <2>1, <2>2, <2>3, StartsAssumption
  <1>2. /\ back = [t \in Trees |-> place[t]]
        /\ link = [t \in Trees |-> IF place[t] = Nowhere THEN Nowhere ELSE place[RepoOf[t]]]
    BY DEF Init
  <1>3. DiskTyped
    <2>1. Nowhere \in Path
      BY EmptySeq DEF Path, Nowhere
    <2> QED BY <1>1, <1>2, <2>1, RepoOfTree DEF DiskTyped
  <1>4. ReposInv
    BY <1>1 DEF ReposInv
  <1>5. TreesInv
    <2> SUFFICES ASSUME NEW t \in Trees PROVE TreeInv(t)
      BY DEF TreesInv
    <2>1. back[t] = place[t] /\ (place[t] # Nowhere => link[t] = place[RepoOf[t]])
      BY <1>2
    <2>2. ASSUME place[t] # Nowhere PROVE Outside(t) \/ Inside(t)
      <3>1. CASE InHome(place[t])
        BY <3>1, <2>1, <1>1, <2>2 DEF InHome, Within, Inside
      <3>2. CASE ~InHome(place[t])
        BY <3>2, <2>1 DEF Outside
      <3> QED BY <3>1, <3>2
    <2>3. place[t] # Nowhere => link[t] \in Homes
      BY <2>1, <1>1, RepoOfTree
    <2> QED BY <2>1, <2>2, <2>3, <1>1 DEF TreeInv
  <1>6. EntriesInv
    <2> SUFFICES ASSUME NEW t \in Trees, NEW u \in Trees, place[u] # Nowhere, place[t] = place[u]
                 PROVE  t = u
      BY <1>2 DEF EntriesInv
    <2>1. Within(place[u], place[u])
      BY <1>1, RepoOfTree, WithinSelf
    <2> QED BY <2>1, RepoOfTree DEF WorktreesApart
  <1>7. LegacyInv
    <2>1. \A t \in Trees : place[t] # Nowhere => Sound(t)
      BY <1>2, RepoOfTree DEF Sound
    <2>2. ASSUME NEW name \in Names, NEW t \in Trees, place[t] # Nowhere, link[t] = LegacyPath(name),
                 NEW r \in Repos, place[r] = LegacyPath(name)
          PROVE  r = RepoOf[t]
      BY <2>2, <1>1, <1>2, RepoOfTree
    <2> QED BY <2>1, <2>2 DEF LegacyInv
  <1> QED BY <1>3, <1>4, <1>5, <1>6, <1>7 DEF DiskInv

------------------------------------------------------------------------------
(***************************************************************************)
(* The command.                                                            *)
(***************************************************************************)

\* The kinds of commands.
Kinds == {"none", "rename", "fix", "add", "remove"}
\* Their steps.
Steps == {"done", "trees", "repair", "cleanup", "undo bare", "undo trees", "move"}
\* What they report.
Results == {"none", "ok", "error"}

\* What the plan says of a worktree.
Move == [from : Path, to : Path]
\* A plan; the empty sequence is the function without arguments.
Plans == {<<>>} \cup UNION {[planned -> Move] : planned \in SUBSET Trees}

\* The type of the command.
Commands ==
    [kind : Kinds, step : Steps, result : Results, repo : Repos \cup {None},
     from : Path, to : Path, plan : Plans, todo : SUBSET Trees, moved : Seq(Trees),
     undone : BOOLEAN, disturbed : BOOLEAN, sound : SUBSET Trees, here : Trees \cup {None},
     target : Path, queue : SUBSET Repos]

\* What does not change while a command runs.
SamePlan ==
    /\ command'.kind = command.kind /\ command'.repo = command.repo
    /\ command'.from = command.from /\ command'.to = command.to /\ command'.plan = command.plan
    /\ command'.sound = command.sound /\ command'.here = command.here /\ command'.target = command.target

\* No worktree has been moved or moved back.
SameProgress == command'.todo = command.todo /\ command'.moved = command.moved

\* The command before the first one.
LEMMA NoCommandType ==
    /\ NoCommand \in Commands /\ NoCommand.kind = "none" /\ NoCommand.step = "done" /\ NoCommand.result = "none"
  <1>1. <<>> \in Path /\ <<>> \in Seq(Trees) /\ <<>> \in Plans
    BY EmptySeq DEF Path, Plans
  <1> QED BY <1>1 DEF NoCommand, Commands, Kinds, Steps, Results, Nowhere

\* Goto changes the step only.
LEMMA GotoFields ==
    ASSUME command \in Commands, NEW step \in Steps, Goto(step)
    PROVE  /\ command' \in Commands /\ SamePlan /\ SameProgress
           /\ command'.step = step /\ command'.result = command.result
           /\ command'.undone = command.undone /\ command'.queue = command.queue
  BY DEF Goto, Commands, SamePlan, SameProgress

\* Finish changes the step and the result.
LEMMA FinishFields ==
    ASSUME command \in Commands, NEW result \in Results, Finish(result)
    PROVE  /\ command' \in Commands /\ SamePlan /\ SameProgress
           /\ command'.step = "done" /\ command'.result = result
           /\ command'.undone = command.undone /\ command'.queue = command.queue
  BY DEF Finish, Commands, SamePlan, SameProgress, Steps

\* A disturbed step changes no plan.
LEMMA DisturbedFields ==
    ASSUME command \in Commands, NEW step \in Steps, Disturbed(step)
    PROVE  /\ command' \in Commands /\ SamePlan /\ SameProgress
           /\ command'.step = step /\ command'.result = command.result
           /\ command'.undone = command.undone /\ command'.queue = command.queue
  BY DEF Disturbed, Commands, SamePlan, SameProgress

\* A failed rollback step sets undone.
LEMMA UnrestoredFields ==
    ASSUME command \in Commands, NEW step \in Steps, NEW moved \in Seq(Trees), Unrestored(step, moved)
    PROVE  /\ command' \in Commands /\ SamePlan
           /\ command'.todo = command.todo /\ command'.moved = moved
           /\ command'.step = step /\ command'.result = IF step = "done" THEN "error" ELSE command.result
           /\ command'.undone = FALSE
  BY DEF Unrestored, Commands, SamePlan, Results

\* A failed cleanup ends the rename.
LEMMA ErrorFields ==
    ASSUME command \in Commands,
           command' = [command EXCEPT !.step = "done", !.result = "error", !.disturbed = TRUE]
    PROVE  /\ command' \in Commands /\ SamePlan /\ SameProgress
           /\ command'.step = "done" /\ command'.result = "error"
           /\ command'.undone = command.undone
  BY DEF Commands, SamePlan, SameProgress, Steps, Results

\* fix goes on to the next repository.
LEMMA QueueFields ==
    ASSUME command \in Commands, NEW r, command' = [command EXCEPT !.queue = @ \ {r}]
    PROVE  /\ command' \in Commands /\ SamePlan /\ SameProgress
           /\ command'.step = command.step /\ command'.result = command.result
           /\ command'.queue = command.queue \ {r}
  BY DEF Commands, SamePlan, SameProgress

\* fix has listed the repositories.
LEMMA ListFields ==
    ASSUME command \in Commands, NEW queue \in SUBSET Repos,
           command' = [command EXCEPT !.step = "repair", !.queue = queue]
    PROVE  /\ command' \in Commands /\ SamePlan /\ SameProgress
           /\ command'.step = "repair" /\ command'.result = command.result
           /\ command'.queue = queue
  BY DEF Commands, SamePlan, SameProgress, Steps

\* A worktree has been moved.
LEMMA MovedFields ==
    ASSUME command \in Commands, NEW t \in Trees,
           command' = [command EXCEPT !.todo = @ \ {t}, !.moved = Append(@, t)]
    PROVE  /\ command' \in Commands /\ SamePlan
           /\ command'.step = command.step /\ command'.result = command.result
           /\ command'.todo = command.todo \ {t} /\ command'.moved = Append(command.moved, t)
  <1> DEFINE moved == Append(command.moved, t)
  <1>1. moved \in Seq(Trees)
    BY AppendProperties DEF Commands
  <1>2. command' = [command EXCEPT !.todo = command.todo \ {t}, !.moved = moved]
    OBVIOUS
  <1> HIDE DEF moved
  <1>3. /\ command' \in Commands /\ SamePlan
        /\ command'.step = command.step /\ command'.result = command.result
        /\ command'.todo = command.todo \ {t} /\ command'.moved = moved
    BY <1>1, <1>2 DEF Commands, SamePlan
  <1> QED BY <1>3 DEF moved

\* The front of a sequence.
LEMMA FrontElements ==
    ASSUME NEW S, NEW s \in Seq(S), s # <<>>
    PROVE  /\ Front(s) \in Seq(S) /\ Len(s) \in Nat \ {0} /\ Len(Front(s)) = Len(s) - 1
           /\ \A i \in 1 .. Len(s) - 1 : Front(s)[i] = s[i]
           /\ Last(s) = s[Len(s)] /\ Last(s) \in S
  <1>1. Len(s) \in Nat \ {0}
    BY LenProperties, EmptySeq
  <1>2. \A i \in 1 .. Len(s) - 1 : s[i] \in S
    BY <1>1, ElementOfSeq
  <1>3. /\ SubSeq(s, 1, Len(s) - 1) \in Seq(S)
        /\ Len(SubSeq(s, 1, Len(s) - 1)) = IF 1 <= Len(s) - 1 THEN (Len(s) - 1) - 1 + 1 ELSE 0
        /\ \A i \in 1 .. (Len(s) - 1) - 1 + 1 : SubSeq(s, 1, Len(s) - 1)[i] = s[1 + i - 1]
    BY <1>1, <1>2, SubSeqProperties
  <1>4. Len(SubSeq(s, 1, Len(s) - 1)) = Len(s) - 1
    <2> DEFINE n == Len(SubSeq(s, 1, Len(s) - 1))
    <2>1. n = IF 1 <= Len(s) - 1 THEN (Len(s) - 1) - 1 + 1 ELSE 0
      BY <1>3
    <2> HIDE DEF n
    <2>2. \A k \in Nat \ {0} : (IF 1 <= k - 1 THEN (k - 1) - 1 + 1 ELSE 0) = k - 1
      OBVIOUS
    <2>3. n = Len(s) - 1
      BY <1>1, <2>1, <2>2
    <2> QED BY <2>3 DEF n
  <1>5. \A i \in 1 .. Len(s) - 1 : SubSeq(s, 1, Len(s) - 1)[i] = s[i]
    <2> DEFINE front == SubSeq(s, 1, Len(s) - 1)
    <2>1. \A i \in 1 .. (Len(s) - 1) - 1 + 1 : front[i] = s[1 + i - 1]
      BY <1>3
    <2> HIDE DEF front
    <2>2. \A i \in 1 .. Len(s) - 1 : i \in 1 .. (Len(s) - 1) - 1 + 1 /\ 1 + i - 1 = i
      BY <1>1
    <2>3. \A i \in 1 .. Len(s) - 1 : front[i] = s[i]
      BY <2>1, <2>2
    <2> QED BY <2>3 DEF front
  <1>6. s[Len(s)] \in S
    BY <1>1, ElementOfSeq
  <1> QED BY <1>1, <1>3, <1>4, <1>5, <1>6 DEF Front, Last

\* The last moved worktree has been moved back.
LEMMA UndoneFields ==
    ASSUME command \in Commands, command.moved # <<>>, command' = [command EXCEPT !.moved = Front(@)]
    PROVE  /\ command' \in Commands /\ SamePlan
           /\ command'.step = command.step /\ command'.result = command.result
           /\ command'.todo = command.todo /\ command'.moved = Front(command.moved)
  <1> DEFINE moved == Front(command.moved)
  <1>0. command.moved \in Seq(Trees)
    BY DEF Commands
  <1>1. moved \in Seq(Trees)
    BY <1>0, FrontElements
  <1>2. command' = [command EXCEPT !.moved = moved]
    OBVIOUS
  <1> HIDE DEF moved
  <1>3. /\ command' \in Commands /\ SamePlan
        /\ command'.step = command.step /\ command'.result = command.result
        /\ command'.todo = command.todo /\ command'.moved = moved
    BY <1>1, <1>2 DEF Commands, SamePlan
  <1> QED BY <1>3 DEF moved

------------------------------------------------------------------------------
(***************************************************************************)
(* The invariant of the commands.                                          *)
(***************************************************************************)

\* A rename is between two steps.
Running == command.kind = "rename" /\ command.step # "done"

\* The entry names the worktree, or it moved inside the bare directory out of
\* the legacy directory.
EntryFine(t) ==
    \/ back[t] = place[t]
    \/ \E name \in Names : /\ place[RepoOf[t]] = BarePath(name)
                           /\ link[t] = LegacyPath(name) /\ Within(link[t], back[t])

\* This holds of every worktree but those that a rename moves now or has left
\* torn.
EntryInv ==
    \A t \in Trees \ torn :
        place[t] # Nowhere /\ ~(Running /\ t \in DOMAIN command.plan) => EntryFine(t)

\* A worktree of the plan; only one in the standard layout moves.
Pathed(t) ==
    LET move == command.plan[t]
    IN  /\ t \in Trees /\ RepoOf[t] = command.repo
        /\ move.from \in Path \ {Nowhere} /\ move.to \in Path \ {Nowhere}
        /\ move.from # move.to => /\ BranchOf[t] # Detached
                                  /\ move.from = ManagedPath(command.from, BranchOf[t])
                                  /\ move.to = ManagedPath(command.to, BranchOf[t])
        /\ InHome(move.from) => Within(BarePath(command.from), move.from)

\* The plan sends no two worktrees to the same place, nor one to the place of
\* another, and it has every worktree that was linked and the target directory.
PlanInv ==
    /\ command.repo \in Repos /\ command.from \in Names /\ command.to \in Names
    /\ command.from # command.to
    /\ \A t \in DOMAIN command.plan : Pathed(t)
    /\ \A t, u \in DOMAIN command.plan : t # u =>
          /\ command.plan[t].from \notin {command.plan[u].from, command.plan[u].to}
          /\ command.plan[t].to # command.plan[u].to
    /\ command.sound \subseteq DOMAIN command.plan
    /\ command.target # Nowhere =>
          command.here \in DOMAIN command.plan /\ command.target = command.plan[command.here].to

\* The worktrees that are still to move, and those that have, are apart.
ProgressInv ==
    /\ command.todo \subseteq Moving(command.plan)
    /\ \A i \in 1 .. Len(command.moved) : command.moved[i] \in Moving(command.plan) \ command.todo
    /\ \A i, j \in 1 .. Len(command.moved) : command.moved[i] = command.moved[j] => i = j

\* Where the bare directory of the rename is.
BareNow == IF command.step \in {"trees", "undo trees"} THEN BarePath(command.from) ELSE BarePath(command.to)

\* A worktree inside the bare directory has moved with it and its links have
\* not changed.
Carried(t) ==
    LET move == command.plan[t]
    IN  /\ place[t] = Rebase(BarePath(command.from), BareNow, move.from)
        /\ back[t] = move.from /\ link[t] = BarePath(command.from)

\* Any other worktree of the plan is at its old or its new place.
OnItsWay(t) ==
    LET move == command.plan[t]
    IN  /\ place[t] \in {move.from, move.to} /\ back[t] \in {move.from, move.to}
        /\ command.step = "trees" => place[t] = IF t \in command.todo THEN move.from ELSE move.to
        /\ command.step \in {"repair", "undo bare", "cleanup"} => place[t] = move.to
        /\ \A i \in 1 .. Len(command.moved) : command.moved[i] = t => place[t] = move.to

\* A worktree of the plan is where the step says.
Planned(t) == IF InHome(command.plan[t].from) THEN Carried(t) ELSE OnItsWay(t)

\* A worktree that was created beside the rename is in nobody's way.
Newcomer(u) ==
    /\ back[u] = place[u] /\ ~InHome(place[u])
    /\ \A t \in DOMAIN command.plan : place[u] \notin {command.plan[t].from, command.plan[t].to}

\* The worktrees of the repository that the plan does not have are new.
NewcomersInv ==
    \A u \in Trees \ DOMAIN command.plan : RepoOf[u] = command.repo /\ place[u] # Nowhere => Newcomer(u)

\* What the disk looks like while a rename runs.
PlacesInv ==
    /\ place[command.repo] = BareNow
    /\ \A t \in DOMAIN command.plan : Planned(t)
    /\ NewcomersInv
    /\ command.step = "cleanup" => Stands(command.to, To)

\* The invariant of a rename.
RenameInv == Running => PlanInv /\ ProgressInv /\ PlacesInv

\* What fix has listed and left behind is linked.
FixInv ==
    command.kind = "fix" =>
      /\ command.step = "repair" => \A r \in command.queue : \E name \in Names : place[r] = BarePath(name)
      /\ command.step = "repair" \/ (command.step = "done" /\ command.result = "ok") =>
           \A t \in Trees \ torn :
              place[t] # Nowhere /\ Listed(RepoOf[t])
                /\ (command.step = "repair" => RepoOf[t] \notin command.queue) => Sound(t)

\* The inductive invariant.
MovesInv ==
    /\ DiskInv /\ command \in Commands
    /\ EntryInv /\ RenameInv /\ FixInv
    /\ RenameIsAllOrNothing /\ RenamedRepoWorks
-----------------------------------------------------------------------------

\* While a command runs it has reported nothing.
LEMMA StillRunning ==
    ASSUME Running'
    PROVE  FixInv' /\ RenameIsAllOrNothing' /\ RenamedRepoWorks'
  BY DEF Running, FixInv, RenameIsAllOrNothing, RenamedRepoWorks, Finished, Idle

\* A command that is no rename.
LEMMA NotRenaming ==
    ASSUME command'.kind # "rename"
    PROVE  RenameInv' /\ RenameIsAllOrNothing' /\ RenamedRepoWorks' /\ ~Running'
  BY DEF Running, RenameInv, RenameIsAllOrNothing, RenamedRepoWorks, Finished

\* A command that is no fix.
LEMMA NotFixing ==
    ASSUME command'.kind # "fix"
    PROVE  FixInv'
  BY DEF FixInv

\* A command of one step, and a process that is dead.
LEMMA NoPlan ==
    ASSUME command' = NoCommand
    PROVE  /\ command' \in Commands /\ ~Running'
           /\ RenameInv' /\ RenameIsAllOrNothing' /\ RenamedRepoWorks' /\ FixInv'
  <1>1. command'.kind = "none" /\ command' \in Commands
    BY NoCommandType
  <1> QED BY <1>1, NotRenaming, NotFixing

\* The plan is made once.
LEMMA PlanKept ==
    ASSUME PlanInv, SamePlan
    PROVE  PlanInv'
  BY DEF PlanInv, SamePlan, Pathed

\* The worktrees that stay, and those that move.
LEMMA PlanPaths ==
    ASSUME PlanInv, NEW t \in DOMAIN command.plan
    PROVE  /\ t \in Trees /\ t \in Dirs /\ RepoOf[t] = command.repo
           /\ command.plan[t].from \in Path /\ command.plan[t].from # Nowhere
           /\ command.plan[t].to \in Path /\ command.plan[t].to # Nowhere
           /\ InHome(command.plan[t].from) =>
                command.plan[t].to = command.plan[t].from
                  /\ Within(BarePath(command.from), command.plan[t].from)
           /\ ~InHome(command.plan[t].from) => ~InHome(command.plan[t].to)
  <1>1. Pathed(t) /\ command.from \in Names /\ command.to \in Names
    BY DEF PlanInv
  <1>2. CASE command.plan[t].from = command.plan[t].to
    BY <1>1, <1>2, RepoOfTree DEF Pathed
  <1>3. CASE command.plan[t].from # command.plan[t].to
    <2>1. BranchOf[t] \in STRING \ {".git"}
      BY <1>1, NamesAssumption DEF Pathed
    <2>2. ~InHome(ManagedPath(command.from, BranchOf[t])) /\ ~InHome(ManagedPath(command.to, BranchOf[t]))
      BY <1>1, <2>1, ManagedOutside
    <2> QED BY <1>1, <1>3, <2>2, RepoOfTree DEF Pathed
  <1> QED BY <1>2, <1>3

\* The old and the new bare path of a rename.
LEMMA BareHomes ==
    ASSUME PlanInv
    PROVE  /\ BarePath(command.from) \in Homes /\ BarePath(command.from) \in Path /\ BarePath(command.from) # Nowhere
           /\ BarePath(command.to) \in Homes /\ BarePath(command.to) \in Path /\ BarePath(command.to) # Nowhere
           /\ BarePath(command.from) # BarePath(command.to)
           /\ BareNow \in Homes /\ BareNow \in Path /\ BareNow # Nowhere
           /\ command.repo \in Repos
  <1>1. command.from \in Names /\ command.to \in Names /\ command.from # command.to /\ command.repo \in Repos
    BY DEF PlanInv
  <1> QED BY <1>1, HomesOfNames, HomeElements DEF BareNow

\* Every planned worktree is there; it is inside the bare directory as it was when the rename began.
LEMMA PlannedPlace ==
    ASSUME PlanInv, PlacesInv, NEW t \in DOMAIN command.plan
    PROVE  /\ place[t] # Nowhere
           /\ InHome(command.plan[t].from) => Within(BareNow, place[t]) /\ InHome(place[t])
           /\ ~InHome(command.plan[t].from) => ~InHome(place[t])
  <1>1. Planned(t)
    BY DEF PlacesInv
  <1>2. CASE InHome(command.plan[t].from)
    <2>1. place[t] = Rebase(BarePath(command.from), BareNow, command.plan[t].from)
      BY <1>1, <1>2 DEF Planned, Carried
    <2>2. Within(BareNow, place[t]) /\ place[t] # Nowhere
      BY <1>2, <2>1, PlanPaths, BareHomes, RebaseElements
    <2> QED BY <1>2, <2>2, BareHomes DEF InHome
  <1>3. CASE ~InHome(command.plan[t].from)
    <2>1. place[t] \in {command.plan[t].from, command.plan[t].to}
      BY <1>1, <1>3 DEF Planned, OnItsWay
    <2> QED BY <1>3, <2>1, PlanPaths
  <1> QED BY <1>2, <1>3

\* A step that changes no directory and no link.
LEMMA EntryKept ==
    ASSUME EntryInv, UNCHANGED <<place, link, back, torn>>,
           \A t \in Trees : Running /\ t \in DOMAIN command.plan /\ place[t] # Nowhere
              => EntryFine(t) \/ (Running' /\ t \in DOMAIN command'.plan)
    PROVE  EntryInv'
  BY DEF EntryInv, EntryFine

\* A rename that is cut off marks the worktrees that its entries do not name.
LEMMA EntryTorn ==
    ASSUME EntryInv, UNCHANGED <<place, link, back>>, Tear
    PROVE  EntryInv'
  BY DEF EntryInv, EntryFine, Tear

------------------------------------------------------------------------------
(***************************************************************************)
(* The steps of rename: buildRepositoryRenamePlan, then apply.             *)
(***************************************************************************)

\* The invariant after a step of a rename that goes on.
LEMMA MovesRun ==
    ASSUME DiskInv', command' \in Commands, EntryInv', Running', PlanInv', ProgressInv', PlacesInv'
    PROVE  MovesInv'
  BY StillRunning DEF MovesInv, RenameInv

\* While a rename runs, the entries of the worktrees that are not its own stay fine.
LEMMA EntriesBeside ==
    ASSUME EntryInv, Running', SamePlan, UNCHANGED torn,
           \A t \in Trees \ DOMAIN command.plan :
              place'[t] # Nowhere =>
                \/ EntryFine(t)'
                \/ /\ place'[t] = place[t] /\ back'[t] = back[t] /\ link'[t] = link[t]
                   /\ place'[RepoOf[t]] = place[RepoOf[t]]
    PROVE  EntryInv'
  <1> SUFFICES ASSUME NEW t \in Trees \ torn, place'[t] # Nowhere, t \notin DOMAIN command.plan
               PROVE  EntryFine(t)'
    BY DEF EntryInv, SamePlan
  <1>1. CASE EntryFine(t)'
    BY <1>1
  <1>2. CASE /\ place'[t] = place[t] /\ back'[t] = back[t] /\ link'[t] = link[t]
             /\ place'[RepoOf[t]] = place[RepoOf[t]]
    <2>1. EntryFine(t)
      BY <1>2 DEF EntryInv
    <2> QED BY <1>2, <2>1 DEF EntryFine
  <1> QED BY <1>1, <1>2

\* The new path of a worktree.
LEMMA RenamedPathIs ==
    ASSUME NEW r \in Repos, NEW from \in Names, NameOf(r) = from, NEW new \in Names, NEW t \in Trees,
           back[t] \in Path, back[t] # Nowhere
    PROVE  LET to == RenamedPath(r, new, t)
           IN  /\ to \in Path /\ to # Nowhere
               /\ back[t] # to => /\ BranchOf[t] # Detached
                                  /\ back[t] = ManagedPath(from, BranchOf[t])
                                  /\ to = ManagedPath(new, BranchOf[t])
  <1>1. BranchOf[t] \in STRING \ {".git"}
    BY NamesAssumption
  <1>2. ManagedPath(new, BranchOf[t]) \in Path /\ ManagedPath(new, BranchOf[t]) # Nowhere
    BY <1>1, ManagedElements
  <1> QED BY <1>2 DEF RenamedPath

\* The plan has every entry, each with its worktree in place and linked.
LEMMA StartedPlan ==
    ASSUME MovesInv, WorktreesApart, NEW r \in Repos, NEW new \in Names, NEW from \in Names,
           place[r] = BarePath(from), NEW t \in Collected(r), ~Prunable(t), Opens(r, back[t])
    PROVE  /\ t \in Trees /\ RepoOf[t] = r /\ back[t] # Nowhere /\ back[t] \in Path
           /\ place[t] = back[t] /\ link[t] = BarePath(from)
           /\ InHome(back[t]) => Within(BarePath(from), back[t])
  <1>1. t \in Trees /\ RepoOf[t] = r /\ back[t] # Nowhere /\ back[t] \in Path
    BY DiskTypes DEF Collected, Entries, MovesInv
  <1>2. PICK u \in Trees : place[u] = back[t] /\ RepoOf[u] = r /\ link[u] = place[r]
    BY DEF Opens
  <1>3. t = u
    BY <1>1, <1>2 DEF MovesInv, DiskInv, EntriesInv
  <1>4. ASSUME InHome(back[t]) PROVE Within(BarePath(from), back[t])
    <2>1. PICK home \in Homes : Within(home, place[t])
      BY <1>2, <1>3, <1>4 DEF InHome
    <2>2. place[r] = home
      BY <1>1, <2>1, HomeOfTree DEF MovesInv
    <2> QED BY <2>1, <2>2, <1>2, <1>3
  <1> QED BY <1>1, <1>2, <1>3, <1>4

\* buildRepositoryRenamePlan makes a plan of worktrees that are all linked.
LEMMA StartRenameKeeps ==
    ASSUME MovesInv, WorktreesApart, NEW r \in Repos, NEW new \in Names, NEW here \in Trees \cup {None},
           StartRename(r, new, here)
    PROVE  MovesInv'
  <1> DEFINE from == NameOf(r)
             plan == [t \in Collected(r) |-> [from |-> back[t], to |-> RenamedPath(r, new, t)]]
             sound == {t \in Entries(r) : Sound(t)}
             target == CurrentTarget(plan, here)
  <1>0. /\ UNCHANGED <<place, link, back, torn>> /\ Listed(r) /\ new # from
        /\ \A t \in Collected(r) : ~Prunable(t) /\ Opens(r, back[t])
        /\ \A t \in Moving(plan) : ~Exists(plan[t].to)
        /\ command' = [NoCommand EXCEPT
                         !.kind = "rename", !.step = "trees", !.repo = r, !.from = from, !.to = new,
                         !.plan = plan, !.todo = Moving(plan), !.sound = sound, !.here = here, !.target = target]
    BY DEF StartRename, disk
  <1>1. from \in Names /\ place[r] = BarePath(from)
    <2>1. PICK name \in Names : place[r] = BarePath(name)
      BY <1>0 DEF Listed
    <2>2. Front(BarePath(name)) = name
      BY HomesOfNames
    <2> QED BY <2>1, <2>2 DEF NameOf
  <1>d. DOMAIN plan = Collected(r) /\ Collected(r) \subseteq Trees
    BY DEF Collected, Entries
  <1>2. ASSUME NEW t \in Collected(r)
        PROVE  /\ t \in Trees /\ t \in Dirs /\ RepoOf[t] = r /\ back[t] # Nowhere /\ back[t] \in Path
               /\ place[t] = back[t] /\ link[t] = BarePath(from)
               /\ InHome(back[t]) => Within(BarePath(from), back[t])
               /\ plan[t].from = back[t] /\ plan[t].to = RenamedPath(r, new, t)
               /\ plan[t].to \in Path /\ plan[t].to # Nowhere
               /\ plan[t].from # plan[t].to => /\ BranchOf[t] # Detached
                                               /\ plan[t].from = ManagedPath(from, BranchOf[t])
                                               /\ plan[t].to = ManagedPath(new, BranchOf[t])
    <2>1. /\ t \in Trees /\ RepoOf[t] = r /\ back[t] # Nowhere /\ back[t] \in Path
          /\ place[t] = back[t] /\ link[t] = BarePath(from)
          /\ InHome(back[t]) => Within(BarePath(from), back[t])
      BY <1>0, <1>1, StartedPlan
    <2>2. plan[t].from = back[t] /\ plan[t].to = RenamedPath(r, new, t)
      OBVIOUS
    <2> QED BY <1>1, <2>1, <2>2, RenamedPathIs, RepoOfTree
  <1>3. plan \in Plans
    <2>1. \A t \in Collected(r) : [from |-> back[t], to |-> RenamedPath(r, new, t)] \in Move
      BY <1>2 DEF Move
    <2>2. plan \in [Collected(r) -> Move]
      BY <2>1
    <2> QED BY <1>d, <2>2 DEF Plans
  <1> HIDE DEF plan
  <1>m. \A t \in Moving(plan) : t \in Collected(r) /\ plan[t].from # plan[t].to
    BY <1>d DEF Moving
  <1>n. \A t \in Collected(r) : t \notin Moving(plan) => plan[t].from = plan[t].to
    BY <1>d DEF Moving
  <1>f. \A t, u \in Collected(r) : t \in Moving(plan) => plan[t].to # plan[u].from
    <2> TAKE t, u \in Collected(r)
    <2>1. Within(place[u], place[u]) /\ plan[u].from = place[u]
      BY <1>2, WithinSelf
    <2> QED BY <2>1, <1>0, <1>2, FreePlace
  <1>4. target # Nowhere => here \in DOMAIN plan /\ target = plan[here].to
    <2> DEFINE under == {t \in Moving(plan) : here # None /\ Within(plan[t].from, place[here])}
               pick == CHOOSE t \in under : TRUE
    <2> SUFFICES ASSUME target # Nowhere PROVE here \in DOMAIN plan /\ target = plan[here].to
      OBVIOUS
    <2>1. under # {} /\ target = Rebase(plan[pick].from, plan[pick].to, place[here])
      BY DEF CurrentTarget
    <2>2. pick \in under
      BY <2>1
    <2> HIDE DEF pick
    <2>3. /\ pick \in Collected(r) /\ here \in Trees /\ here \in Dirs
          /\ Within(plan[pick].from, place[here])
      BY <2>2, <1>m, RepoOfTree
    <2>4. here = pick
      BY <2>3, <1>2 DEF WorktreesApart
    <2>5. Rebase(plan[pick].from, plan[pick].to, place[here]) = plan[pick].to
      BY <2>3, <2>4, <1>2, RebaseTop
    <2> QED BY <2>1, <2>3, <2>4, <2>5, <1>d
  <1>5. target \in Path
    <2>1. CASE target = Nowhere
      BY <2>1, EmptySeq DEF Path, Nowhere
    <2> QED BY <2>1, <1>2, <1>4, <1>d
  <1> HIDE DEF target
  <1>6. /\ command' \in Commands
        /\ command'.kind = "rename" /\ command'.step = "trees" /\ command'.repo = r
        /\ command'.from = from /\ command'.to = new /\ command'.plan = plan /\ command'.todo = Moving(plan)
        /\ command'.moved = <<>> /\ command'.sound = sound /\ command'.here = here /\ command'.target = target
    <2>1. from \in Path /\ new \in Path
      BY <1>1, NameElements
    <2>2. Moving(plan) \in SUBSET Trees /\ sound \in SUBSET Trees
      BY <1>2, <1>m DEF Entries
    <2> DEFINE todo == Moving(plan)
    <2>3. command' = [NoCommand EXCEPT
                        !.kind = "rename", !.step = "trees", !.repo = r, !.from = from, !.to = new,
                        !.plan = plan, !.todo = todo, !.sound = sound, !.here = here, !.target = target]
      BY <1>0
    <2>4. todo \in SUBSET Trees
      BY <2>2
    <2> HIDE DEF from, sound, todo
    <2>5. /\ command' \in Commands
          /\ command'.kind = "rename" /\ command'.step = "trees" /\ command'.repo = r
          /\ command'.from = from /\ command'.to = new /\ command'.plan = plan /\ command'.todo = todo
          /\ command'.moved = <<>> /\ command'.sound = sound /\ command'.here = here /\ command'.target = target
      <3>1. <<>> \in Path /\ <<>> \in Seq(Trees)
        BY EmptySeq DEF Path
      <3>2. sound \in SUBSET Trees
        BY <2>2
      <3> QED BY <1>3, <1>5, <2>1, <3>1, <3>2, <2>3, <2>4 DEF NoCommand, Commands, Kinds, Steps, Results
    <2> QED BY <2>5 DEF todo
  <1> HIDE DEF from
  <1>7. Running'
    BY <1>6 DEF Running
  <1>8. PlanInv'
    <2>1. ASSUME NEW t \in DOMAIN plan PROVE Pathed(t)'
      BY <2>1, <1>2, <1>6, <1>d DEF Pathed
    <2>2. ASSUME NEW t \in Collected(r), NEW u \in Collected(r), t # u
          PROVE  /\ plan[t].from \notin {plan[u].from, plan[u].to}
                 /\ plan[t].to # plan[u].to
      <3>1. plan[t].from # plan[u].from
        BY <2>2, <1>2, PlacesApart DEF MovesInv
      <3>2. CASE u \in Moving(plan) /\ t \in Moving(plan)
        <4>1. BranchOf[t] \in STRING \ {".git"} /\ BranchOf[u] \in STRING \ {".git"}
          BY <1>2, NamesAssumption
        <4>2. /\ plan[t].to = ManagedPath(new, BranchOf[t]) /\ plan[u].to = ManagedPath(new, BranchOf[u])
              /\ BranchOf[t] # Detached
          BY <3>2, <1>2, <1>m
        <4>3. BranchOf[t] # BranchOf[u]
          BY <4>2, <2>2, <1>2, BranchAssumption
        <4>4. plan[t].to # plan[u].to
          BY <4>1, <4>2, <4>3, ManagedApart
        <4> QED BY <3>1, <3>2, <4>4, <1>f
      <3>3. CASE u \notin Moving(plan) /\ t \in Moving(plan)
        BY <3>1, <3>3, <1>f, <1>n
      <3>4. CASE u \in Moving(plan) /\ t \notin Moving(plan)
        BY <3>1, <3>4, <1>f, <1>n
      <3>5. CASE u \notin Moving(plan) /\ t \notin Moving(plan)
        BY <3>1, <3>5, <1>n
      <3> QED BY <3>2, <3>3, <3>4, <3>5
    <2>3. sound \subseteq DOMAIN plan
      BY <1>d DEF Collected
    <2> QED BY <2>1, <2>2, <2>3, <1>0, <1>1, <1>4, <1>6, <1>d DEF PlanInv
  <1>9. ProgressInv'
    BY <1>6 DEF ProgressInv
  <1>10. PlacesInv'
    <2>1. BareNow' = BarePath(from) /\ place'[r] = BarePath(from)
      BY <1>0, <1>1, <1>6 DEF BareNow
    <2>2. ASSUME NEW t \in DOMAIN plan PROVE Planned(t)'
      <3>0. t \in Collected(r)
        BY <1>d
      <3>1. CASE InHome(plan[t].from)
        <4>1. BarePath(from) \in Path /\ BarePath(from) # Nowhere
          BY <1>1, HomesOfNames, HomeElements
        <4>2. Rebase(BarePath(from), BarePath(from), plan[t].from) = plan[t].from
          BY <3>0, <4>1, <1>2, RebaseSelf
        <4>3. Carried(t)'
          BY <3>0, <4>2, <2>1, <1>0, <1>2, <1>6 DEF Carried
        <4> QED BY <4>3, <3>1, <1>6 DEF Planned
      <3>2. CASE ~InHome(plan[t].from)
        <4>1. OnItsWay(t)'
          BY <3>0, <1>0, <1>2, <1>6, <1>n DEF OnItsWay
        <4> QED BY <4>1, <3>2, <1>6 DEF Planned
      <3> QED BY <3>1, <3>2
    <2>3. NewcomersInv'
      <3> SUFFICES ASSUME NEW u \in Trees \ DOMAIN plan, RepoOf[u] = r, place[u] # Nowhere PROVE FALSE
        BY <1>0, <1>6 DEF NewcomersInv
      <3>1. back[u] # Nowhere
        BY DEF MovesInv, DiskInv, TreesInv, TreeInv
      <3> QED BY <3>1, <1>d DEF Collected, Entries
    <2> QED BY <2>1, <2>2, <2>3, <1>6 DEF PlacesInv
  <1>11. DiskInv'
    BY <1>0, DiskUnchanged DEF MovesInv
  <1>12. EntryInv'
    <2>1. ~Running
      BY DEF StartRename, Idle, Running
    <2> QED BY <2>1, <1>0, EntryKept DEF MovesInv
  <1> QED BY <1>6, <1>7, <1>8, <1>9, <1>10, <1>11, <1>12, MovesRun

\* What the invariant says of a rename that runs.
LEMMA RunningParts ==
    ASSUME MovesInv, command.kind = "rename", NEW step \in Steps \ {"done"}, command.step = step
    PROVE  /\ Running /\ DiskInv /\ EntryInv /\ command \in Commands
           /\ PlanInv /\ ProgressInv /\ PlacesInv /\ NewcomersInv
           /\ \A t \in DOMAIN command.plan : Planned(t)
  BY DEF MovesInv, Running, RenameInv, PlacesInv

\* The worktrees of the rename are its planned ones and the newcomers.
LEMMA OwnTrees ==
    ASSUME PlanInv, PlacesInv, NEW t \in Trees, RepoOf[t] = command.repo, place[t] # Nowhere
    PROVE  t \in DOMAIN command.plan \/ (t \notin DOMAIN command.plan /\ Newcomer(t))
  BY DEF PlacesInv, NewcomersInv

\* A shorter list of moved worktrees is the beginning of the longer one.
LEMMA KeptPrefix ==
    ASSUME NEW old \in Seq(Trees), NEW new, new = old \/ (old # <<>> /\ new = Front(old))
    PROVE  \A i \in 1 .. Len(new) : i \in 1 .. Len(old) /\ new[i] = old[i]
  <1>1. CASE new = old
    BY <1>1
  <1>2. CASE old # <<>> /\ new = Front(old)
    <2>1. /\ Len(new) = Len(old) - 1 /\ Len(old) \in Nat \ {0}
          /\ \A i \in 1 .. Len(old) - 1 : new[i] = old[i]
      BY <1>2, FrontElements
    <2>2. 1 .. Len(new) = 1 .. Len(old) - 1
      BY <2>1
    <2> QED BY <2>1, <2>2
  <1> QED BY <1>1, <1>2

\* A step that goes back, or goes on, and changes no directory.
LEMMA TurnBack ==
    ASSUME MovesInv, Running, command.step \in {"trees", "undo trees"},
           UNCHANGED <<place, link, back, torn>>, command' \in Commands, SamePlan,
           command'.todo = command.todo, command'.step = "undo trees",
           \/ command'.moved = command.moved
           \/ command.moved # <<>> /\ command'.moved = Front(command.moved)
    PROVE  MovesInv'
  <1>0. /\ DiskInv /\ EntryInv /\ command \in Commands
        /\ PlanInv /\ ProgressInv /\ PlacesInv /\ NewcomersInv
        /\ \A t \in DOMAIN command.plan : Planned(t)
        /\ command.kind = "rename"
    BY DEF MovesInv, RenameInv, PlacesInv, Running
  <1>1. Running'
    BY <1>0 DEF Running, SamePlan
  <1>2. DiskInv'
    BY <1>0, DiskUnchanged
  <1>3. EntryInv'
    BY <1>0, <1>1, EntriesBeside
  <1>4. PlanInv'
    BY <1>0, PlanKept
  <1>5. \A i \in 1 .. Len(command'.moved) :
           i \in 1 .. Len(command.moved) /\ command'.moved[i] = command.moved[i]
    <2>1. command.moved \in Seq(Trees)
      BY <1>0 DEF Commands
    <2> QED BY <2>1, KeptPrefix
  <1>6. ProgressInv'
    <2>1. /\ command.todo \subseteq Moving(command.plan)
          /\ \A i \in 1 .. Len(command.moved) : command.moved[i] \in Moving(command.plan) \ command.todo
          /\ \A i, j \in 1 .. Len(command.moved) : command.moved[i] = command.moved[j] => i = j
      BY <1>0 DEF ProgressInv
    <2>2. command'.plan = command.plan
      BY DEF SamePlan
    <2> QED BY <1>5, <2>1, <2>2 DEF ProgressInv
  <1>7. BareNow' = BareNow
    BY <1>0 DEF BareNow, SamePlan
  <1>8. ASSUME NEW t \in DOMAIN command.plan PROVE Planned(t)'
    <2>1. Carried(t) => Carried(t)'
      BY <1>7 DEF Carried, SamePlan
    <2>2. OnItsWay(t) => OnItsWay(t)'
      BY <1>5 DEF OnItsWay, SamePlan
    <2> QED BY <1>0, <2>1, <2>2 DEF Planned, SamePlan
  <1>9. NewcomersInv'
    BY <1>0 DEF NewcomersInv, Newcomer, SamePlan
  <1>10. PlacesInv'
    BY <1>0, <1>7, <1>8, <1>9 DEF PlacesInv, SamePlan
  <1> QED BY <1>1, <1>2, <1>3, <1>4, <1>6, <1>10, MovesRun

\* A worktree of the rename can take the old or the new place of another.
LEMMA FreeEntry ==
    ASSUME PlanInv, PlacesInv, DiskInv, NEW t \in DOMAIN command.plan, ~InHome(command.plan[t].from),
           NEW q \in {command.plan[t].from, command.plan[t].to}, NEW u \in Trees \ {t}, RepoOf[u] = command.repo
    PROVE  back[u] # q
  <1>0. q # Nowhere
    BY PlanPaths
  <1>1. CASE place[u] = Nowhere
    BY <1>0, <1>1 DEF DiskInv, TreesInv, TreeInv
  <1>2. CASE place[u] # Nowhere /\ u \notin DOMAIN command.plan
    BY <1>2, OwnTrees DEF Newcomer
  <1>3. CASE u \in DOMAIN command.plan
    <2>1. back[u] \in {command.plan[u].from, command.plan[u].to}
      BY <1>3 DEF PlacesInv, Planned, Carried, OnItsWay
    <2>2. /\ command.plan[t].from \notin {command.plan[u].from, command.plan[u].to}
          /\ command.plan[u].from \notin {command.plan[t].from, command.plan[t].to}
          /\ command.plan[t].to # command.plan[u].to
      BY <1>3 DEF PlanInv
    <2> QED BY <2>1, <2>2
  <1> QED BY <1>1, <1>2, <1>3

\* A worktree of the plan moves between its two places.
LEMMA PlannedMoves ==
    ASSUME MovesInv, WorktreesApart, Running, command.step \in {"trees", "undo trees"},
           NEW t \in Moving(command.plan),
           NEW q \in {command.plan[t].from, command.plan[t].to},
           place' = Moved(place[t], q), UNCHANGED <<link, back, torn>>,
           SamePlan, command'.step = command.step
    PROVE  /\ DiskInv' /\ EntryInv' /\ PlanInv' /\ Running'
           /\ BareNow' = BareNow /\ place'[command.repo] = BareNow' /\ NewcomersInv'
           /\ place'[t] = q /\ \A d \in Dirs \ {t} : place'[d] = place[d]
           /\ OnItsWay(t) /\ Planned(t) /\ ~InHome(command.plan[t].from)
  <1>0. /\ DiskInv /\ EntryInv /\ command \in Commands
        /\ PlanInv /\ ProgressInv /\ PlacesInv /\ NewcomersInv
        /\ \A u \in DOMAIN command.plan : Planned(u)
        /\ command.kind = "rename"
    BY DEF MovesInv, RenameInv, PlacesInv, Running
  <1>1. t \in DOMAIN command.plan /\ command.plan[t].from # command.plan[t].to
    BY DEF Moving
  <1>2. ~InHome(command.plan[t].from)
    BY <1>0, <1>1, PlanPaths
  <1>3. /\ t \in Trees /\ t \in Dirs /\ RepoOf[t] = command.repo /\ q \in Path /\ q # Nowhere /\ ~InHome(q)
    BY <1>0, <1>1, <1>2, PlanPaths
  <1>4. place[t] # Nowhere /\ ~InHome(place[t])
    BY <1>0, <1>1, <1>2, PlannedPlace
  <1>5. command.from \in Names /\ place[RepoOf[t]] = BarePath(command.from) /\ command.repo \in Repos
    BY <1>0, <1>3 DEF PlanInv, PlacesInv, BareNow
  <1>6. \A u \in Trees \ {t} : RepoOf[u] = RepoOf[t] => back[u] # q
    BY <1>0, <1>1, <1>2, <1>3, FreeEntry
  <1>7. DiskInv'
    BY <1>0, <1>3, <1>4, <1>5, <1>6, TreeMoveKeeps
  <1>8. place'[t] = q /\ \A d \in Dirs \ {t} : place'[d] = place[d]
    <2>1. place' = [place EXCEPT ![t] = q]
      BY <1>0, <1>3, <1>4, TreeMoves
    <2>2. place \in [Dirs -> Path]
      BY <1>0 DEF DiskInv, DiskTyped
    <2> QED BY <2>1, <2>2, <1>3
  <1>r. \A r \in Repos : place'[r] = place[r]
    BY <1>8, RepoOfTree, <1>3 DEF Dirs
  <1>9. Running'
    BY <1>0 DEF Running, SamePlan
  <1>10. EntryInv'
    <2>1. \A u \in Trees \ DOMAIN command.plan : place'[u] = place[u] /\ place'[RepoOf[u]] = place[RepoOf[u]]
      BY <1>1, <1>8, <1>r, RepoOfTree
    <2> QED BY <2>1, <1>0, <1>9, EntriesBeside
  <1>11. PlanInv'
    BY <1>0, PlanKept
  <1>12. BareNow' = BareNow /\ place'[command.repo] = BareNow'
    BY <1>0, <1>5, <1>r DEF BareNow, SamePlan, PlacesInv
  <1>13. NewcomersInv'
    <2> SUFFICES ASSUME NEW u \in Trees \ DOMAIN command.plan, RepoOf[u] = command.repo, place'[u] # Nowhere
                 PROVE  Newcomer(u)'
      BY DEF NewcomersInv, SamePlan
    <2>1. place'[u] = place[u]
      BY <1>1, <1>8, RepoOfTree
    <2>2. Newcomer(u)
      BY <2>1, <1>0 DEF NewcomersInv
    <2> QED BY <2>1, <2>2 DEF Newcomer, SamePlan
  <1>14. OnItsWay(t) /\ Planned(t)
    BY <1>0, <1>1, <1>2 DEF Planned
  <1> QED BY <1>2, <1>7, <1>8, <1>9, <1>10, <1>11, <1>12, <1>13, <1>14

\* The other worktrees of the plan stay where the plan has them.
LEMMA OthersStay ==
    ASSUME NEW t, NEW u \in DOMAIN command.plan, u # t, Planned(u), u \in Trees, u \in Dirs,
           \A d \in Dirs \ {t} : place'[d] = place[d], UNCHANGED <<link, back>>, SamePlan,
           command'.step = command.step, BareNow' = BareNow,
           (u \in command'.todo) = (u \in command.todo),
           \A i \in 1 .. Len(command'.moved) : command'.moved[i] = u =>
              \E j \in 1 .. Len(command.moved) : command.moved[j] = u
    PROVE  Planned(u)'
  <1>1. place'[u] = place[u]
    OBVIOUS
  <1>2. Carried(u) => Carried(u)'
    BY <1>1 DEF Carried, SamePlan
  <1>3. OnItsWay(u) => OnItsWay(u)'
    BY <1>1 DEF OnItsWay, SamePlan
  <1> QED BY <1>2, <1>3 DEF Planned, SamePlan

\* apply moves a worktree.
LEMMA MoveTreeKeeps ==
    ASSUME MovesInv, WorktreesApart, NEW t \in Trees, MoveTree(t)
    PROVE  MovesInv'
  <1> DEFINE from == command.plan[t].from
             to == command.plan[t].to
  <1>0. Renaming("trees") /\ t \in command.todo /\ UNCHANGED <<link, back, torn>>
    BY DEF MoveTree
  <1>1. /\ Running /\ DiskInv /\ EntryInv /\ command \in Commands
        /\ PlanInv /\ ProgressInv /\ PlacesInv /\ NewcomersInv
        /\ \A u \in DOMAIN command.plan : Planned(u)
        /\ command.step = "trees"
    BY <1>0, RunningParts DEF Renaming, Steps
  <1>2. CASE ~CanMove(from, to)
    <2>1. Goto("undo trees") /\ UNCHANGED place
      BY <1>2 DEF MoveTree
    <2>2. "undo trees" \in Steps
      BY DEF Steps
    <2>3. command' \in Commands /\ SamePlan /\ SameProgress /\ command'.step = "undo trees"
      BY <1>1, <2>1, <2>2, GotoFields
    <2> QED BY <1>0, <1>1, <2>1, <2>3, TurnBack DEF SameProgress
  <1>3. CASE CanMove(from, to)
    <2>1. place' = Moved(from, to) /\ command' = [command EXCEPT !.todo = @ \ {t}, !.moved = Append(@, t)]
      BY <1>3 DEF MoveTree
    <2>2. /\ command' \in Commands /\ SamePlan /\ command'.step = command.step
          /\ command'.todo = command.todo \ {t} /\ command'.moved = Append(command.moved, t)
      BY <1>1, <2>1, MovedFields
    <2>3. t \in Moving(command.plan) /\ t \in DOMAIN command.plan
      BY <1>0, <1>1 DEF ProgressInv, Moving
    <2>4. place[t] = from
      <3>1. ~InHome(from)
        BY <1>1, <2>3, PlanPaths DEF Moving
      <3> QED BY <1>0, <1>1, <2>3, <3>1 DEF Planned, OnItsWay
    <2>5. /\ DiskInv' /\ EntryInv' /\ PlanInv' /\ Running'
          /\ BareNow' = BareNow /\ place'[command.repo] = BareNow' /\ NewcomersInv'
          /\ place'[t] = to /\ \A d \in Dirs \ {t} : place'[d] = place[d]
          /\ OnItsWay(t) /\ Planned(t) /\ ~InHome(from)
      BY <1>0, <1>1, <2>1, <2>2, <2>3, <2>4, PlannedMoves
    <2>6. /\ command.moved \in Seq(Trees) /\ Len(command.moved) \in Nat
          /\ Len(command'.moved) = Len(command.moved) + 1
          /\ \A i \in 1 .. Len(command.moved) : command'.moved[i] = command.moved[i]
          /\ command'.moved[Len(command.moved) + 1] = t
      <3>1. command.moved \in Seq(Trees)
        BY <1>1 DEF Commands
      <3>2. Len(command.moved) \in Nat
        BY <3>1, LenProperties
      <3> QED BY <2>2, <3>1, <3>2, AppendProperties
    <2>7. \A i \in 1 .. Len(command'.moved) :
             i \in 1 .. Len(command.moved) \/ (i = Len(command.moved) + 1 /\ command'.moved[i] = t)
      BY <2>6
    <2>8. ProgressInv'
      <3>1. /\ command.todo \subseteq Moving(command.plan)
            /\ \A i \in 1 .. Len(command.moved) : command.moved[i] \in Moving(command.plan) \ command.todo
            /\ \A i, j \in 1 .. Len(command.moved) : command.moved[i] = command.moved[j] => i = j
        BY <1>1 DEF ProgressInv
      <3>2. command'.plan = command.plan
        BY <2>2 DEF SamePlan
      <3>3. command'.todo \subseteq Moving(command'.plan)
        BY <2>2, <3>1, <3>2
      <3>4. \A i \in 1 .. Len(command'.moved) : command'.moved[i] \in Moving(command'.plan) \ command'.todo
        BY <2>2, <2>3, <2>6, <2>7, <3>1, <3>2
      <3>5. \A i, j \in 1 .. Len(command'.moved) : command'.moved[i] = command'.moved[j] => i = j
        BY <1>0, <2>6, <2>7, <3>1
      <3> QED BY <3>3, <3>4, <3>5 DEF ProgressInv
    <2>9. ASSUME NEW u \in DOMAIN command.plan PROVE Planned(u)'
      <3>1. CASE u = t
        <4>1. command'.plan = command.plan /\ command'.step = "trees" /\ t \notin command'.todo
          BY <1>1, <2>2 DEF SamePlan
        <4>2. back[t] \in {from, to}
          BY <2>5 DEF OnItsWay
        <4>3. OnItsWay(t)'
          BY <1>0, <2>5, <4>1, <4>2 DEF OnItsWay
        <4> QED BY <3>1, <4>1, <4>3, <2>5 DEF Planned
      <3>2. CASE u # t
        <4>1. \A i \in 1 .. Len(command'.moved) : command'.moved[i] = u =>
                 \E j \in 1 .. Len(command.moved) : command.moved[j] = u
          BY <3>2, <2>6, <2>7
        <4>2. u \in Trees /\ u \in Dirs /\ Planned(u)
          BY <1>1, PlanPaths
        <4>3. (u \in command'.todo) = (u \in command.todo)
          BY <3>2, <2>2
        <4> QED BY <3>2, <4>1, <4>2, <4>3, <1>0, <2>2, <2>5, OthersStay
      <3> QED BY <3>1, <3>2
    <2>10. PlacesInv'
      BY <1>1, <2>2, <2>5, <2>9 DEF PlacesInv, SamePlan
    <2> QED BY <2>2, <2>5, <2>8, <2>10, MovesRun
  <1> QED BY <1>2, <1>3

\* A worktree of the plan that is back at its old place.
LEMMA BackInPlace ==
    ASSUME NEW u \in DOMAIN command.plan, back[u] \in {command.plan[u].from, command.plan[u].to},
           ~InHome(command.plan[u].from), place'[u] = command.plan[u].from,
           UNCHANGED back, command'.plan = command.plan, command'.step = "undo trees",
           \A i \in 1 .. Len(command'.moved) : command'.moved[i] # u
    PROVE  Planned(u)'
  <1>1. OnItsWay(u)'
    BY DEF OnItsWay
  <1> QED BY <1>1 DEF Planned

\* The last index of a list is one of its indices.
LEMMA LastIndex == \A k \in Nat \ {0} : k \in 1 .. k
  OBVIOUS

\* The worktree that goes back next is at its new place.
LEMMA LastMoved ==
    ASSUME MovesInv, Renaming("undo trees"), command.moved # <<>>
    PROVE  \E t \in Moving(command.plan) : t = Last(command.moved) /\ place[t] = command.plan[t].to
  <1> DEFINE n == Len(command.moved)
  <1>1. /\ PlanInv /\ ProgressInv /\ command \in Commands
        /\ \A u \in DOMAIN command.plan : Planned(u)
    BY RunningParts DEF Renaming, Steps
  <1>2. n \in 1 .. n /\ Last(command.moved) = command.moved[n]
    <2>1. command.moved \in Seq(Trees)
      BY <1>1 DEF Commands
    <2>2. n \in Nat \ {0} /\ Last(command.moved) = command.moved[n]
      BY <2>1, FrontElements
    <2> QED BY <2>2, LastIndex
  <1>3. PICK t \in Moving(command.plan) : t = command.moved[n]
    BY <1>1, <1>2 DEF ProgressInv
  <1>4. t \in DOMAIN command.plan /\ ~InHome(command.plan[t].from)
    BY <1>1, PlanPaths DEF Moving
  <1>5. place[t] = command.plan[t].to
    BY <1>1, <1>2, <1>3, <1>4 DEF Planned, OnItsWay
  <1> QED BY <1>2, <1>3, <1>5

\* The rollback moves a worktree back.
LEMMA UndoTreeKeeps ==
    ASSUME MovesInv, WorktreesApart, UndoTree
    PROVE  MovesInv'
  <1> DEFINE t == Last(command.moved)
             n == Len(command.moved)
             from == command.plan[t].from
             to == command.plan[t].to
  <1>0. /\ Renaming("undo trees") /\ command.moved # <<>> /\ UNCHANGED <<link, back, torn>>
        /\ place' = Moved(to, from) /\ command' = [command EXCEPT !.moved = Front(@)]
    BY DEF UndoTree
  <1>1. /\ Running /\ DiskInv /\ EntryInv /\ command \in Commands
        /\ PlanInv /\ ProgressInv /\ PlacesInv /\ NewcomersInv
        /\ \A u \in DOMAIN command.plan : Planned(u)
        /\ command.step = "undo trees"
    BY <1>0, RunningParts DEF Renaming, Steps
  <1>2. /\ command' \in Commands /\ SamePlan /\ command'.step = command.step
        /\ command'.todo = command.todo /\ command'.moved = Front(command.moved)
    BY <1>0, <1>1, UndoneFields
  <1>3. /\ n \in Nat \ {0} /\ Len(command'.moved) = n - 1 /\ t = command.moved[n] /\ t \in Trees
        /\ \A i \in 1 .. n - 1 : command'.moved[i] = command.moved[i]
    <2>1. command.moved \in Seq(Trees)
      BY <1>1 DEF Commands
    <2>2. \A s \in Seq(Trees) : s # <<>> =>
            /\ Len(s) \in Nat \ {0} /\ Len(Front(s)) = Len(s) - 1
            /\ \A i \in 1 .. Len(s) - 1 : Front(s)[i] = s[i]
            /\ Last(s) = s[Len(s)] /\ Last(s) \in Trees
      BY FrontElements
    <2>3. /\ n \in Nat \ {0} /\ Len(Front(command.moved)) = n - 1
          /\ \A i \in 1 .. n - 1 : Front(command.moved)[i] = command.moved[i]
          /\ t = command.moved[n] /\ t \in Trees
      BY <1>0, <2>1, <2>2
    <2> HIDE DEF t, n
    <2> QED BY <1>2, <2>3
  <1> HIDE DEF t, n
  <1>n. Len(command.moved) = n
    BY DEF n
  <1>4. t \in Moving(command.plan) /\ t \in DOMAIN command.plan
    <2>1. n \in 1 .. Len(command.moved)
      BY <1>3, <1>n
    <2> QED BY <1>1, <1>3, <2>1 DEF ProgressInv, Moving
  <1>5. place[t] = to
    <2>1. ~InHome(from)
      BY <1>1, <1>4, PlanPaths DEF Moving
    <2>2. n \in 1 .. Len(command.moved)
      BY <1>3, <1>n
    <2> QED BY <1>1, <1>3, <1>4, <2>1, <2>2 DEF Planned, OnItsWay
  <1>6. /\ DiskInv' /\ EntryInv' /\ PlanInv' /\ Running'
        /\ BareNow' = BareNow /\ place'[command.repo] = BareNow' /\ NewcomersInv'
        /\ place'[t] = from /\ \A d \in Dirs \ {t} : place'[d] = place[d]
        /\ OnItsWay(t) /\ Planned(t) /\ ~InHome(from)
    BY <1>0, <1>1, <1>2, <1>4, <1>5, PlannedMoves
  <1>7. \A i \in 1 .. Len(command'.moved) : i \in 1 .. Len(command.moved) /\ i # n
    BY <1>3, <1>n
  <1>8. /\ \A i \in 1 .. Len(command'.moved) : command'.moved[i] = command.moved[i]
        /\ n \in 1 .. Len(command.moved)
    BY <1>3, <1>n
  <1>9. /\ command.todo \subseteq Moving(command.plan)
        /\ \A i \in 1 .. Len(command.moved) : command.moved[i] \in Moving(command.plan) \ command.todo
        /\ \A i, j \in 1 .. Len(command.moved) : command.moved[i] = command.moved[j] => i = j
    BY <1>1 DEF ProgressInv
  <1>10. ProgressInv'
    <2>1. command'.plan = command.plan
      BY <1>2 DEF SamePlan
    <2> QED BY <2>1, <1>2, <1>7, <1>8, <1>9 DEF ProgressInv
  <1>11. ASSUME NEW u \in DOMAIN command.plan PROVE Planned(u)'
    <2>1. CASE u = t
      <3>1. \A i \in 1 .. Len(command'.moved) : command'.moved[i] # t
        BY <1>3, <1>7, <1>8, <1>9
      <3>2. command'.plan = command.plan /\ command'.step = "undo trees"
        BY <1>1, <1>2 DEF SamePlan
      <3>3. back[t] \in {from, to}
        BY <1>6 DEF OnItsWay
      <3>4. /\ back[u] \in {command.plan[u].from, command.plan[u].to}
            /\ ~InHome(command.plan[u].from) /\ place'[u] = command.plan[u].from
            /\ \A i \in 1 .. Len(command'.moved) : command'.moved[i] # u
        BY <2>1, <3>1, <3>3, <1>6
      <3> QED BY <1>0, <3>2, <3>4, BackInPlace
    <2>2. CASE u # t
      <3>1. \A i \in 1 .. Len(command'.moved) : command'.moved[i] = u =>
               \E j \in 1 .. Len(command.moved) : command.moved[j] = u
        BY <1>7, <1>8
      <3>2. u \in Trees /\ u \in Dirs /\ Planned(u)
        BY <1>1, PlanPaths
      <3>3. (u \in command'.todo) = (u \in command.todo)
        BY <1>2
      <3> QED BY <2>2, <3>1, <3>2, <3>3, <1>0, <1>2, <1>6, OthersStay
    <2> QED BY <2>1, <2>2
  <1>12. PlacesInv'
    BY <1>1, <1>2, <1>6, <1>11 DEF PlacesInv, SamePlan
  <1> QED BY <1>2, <1>6, <1>10, <1>12, MovesRun

\* A move fails, forward or back.
LEMMA TurningBackKeeps ==
    ASSUME MovesInv, MoveFails \/ UndoTreeFails
    PROVE  MovesInv'
  <1>0. "undo trees" \in Steps /\ "trees" \in Steps
    BY DEF Steps
  <1>1. CASE MoveFails
    <2>1. /\ Running /\ command \in Commands /\ command.step = "trees"
          /\ UNCHANGED <<place, link, back, torn>> /\ Disturbed("undo trees")
      BY <1>1, <1>0 DEF MoveFails, Renaming, disk, MovesInv, Running
    <2>2. command' \in Commands /\ SamePlan /\ SameProgress /\ command'.step = "undo trees"
      BY <1>0, <2>1, DisturbedFields
    <2> QED BY <2>1, <2>2, TurnBack DEF SameProgress
  <1>2. CASE UndoTreeFails
    <2>1. /\ Running /\ command \in Commands /\ command.step = "undo trees" /\ command.moved # <<>>
          /\ UNCHANGED <<place, link, back, torn>> /\ Unrestored("undo trees", Front(command.moved))
      BY <1>2, <1>0 DEF UndoTreeFails, Renaming, disk, MovesInv, Running
    <2>2. Front(command.moved) \in Seq(Trees)
      BY <2>1, FrontElements DEF Commands
    <2>3. /\ command' \in Commands /\ SamePlan /\ command'.todo = command.todo
          /\ command'.moved = Front(command.moved) /\ command'.step = "undo trees"
      BY <1>0, <2>1, <2>2, UnrestoredFields
    <2> QED BY <2>1, <2>3, TurnBack
  <1> QED BY <1>1, <1>2

------------------------------------------------------------------------------
(***************************************************************************)
(* The moves of the bare directory.                                        *)
(***************************************************************************)

\* The bare directory moves with the worktrees of the plan in it.
LEMMA PlannedBareMoves ==
    ASSUME MovesInv, WorktreesApart, Running, command.step # "cleanup",
           NEW name \in Names, ~Exists(BarePath(name)),
           place' = Moved(BareNow, BarePath(name)), UNCHANGED <<link, back, torn>>,
           command' \in Commands, SamePlan, SameProgress,
           BareNow' = BarePath(name), command'.step \notin {"done", "cleanup"},
           \A t \in DOMAIN command.plan : OnItsWay(t) /\ place'[t] = place[t] => OnItsWay(t)'
    PROVE  MovesInv'
  <1> DEFINE r == command.repo
             h == BareNow
             q == BarePath(name)
             first == BarePath(command.from)
  <1>0. /\ DiskInv /\ EntryInv /\ command \in Commands
        /\ PlanInv /\ ProgressInv /\ PlacesInv /\ NewcomersInv
        /\ \A t \in DOMAIN command.plan : Planned(t)
        /\ command.kind = "rename" /\ place[r] = h
    BY DEF MovesInv, RenameInv, PlacesInv, Running
  <1>1. /\ h \in Homes /\ h \in Path /\ h # Nowhere /\ q \in Homes /\ q \in Path /\ q # Nowhere
        /\ first \in Homes /\ first \in Path /\ first # Nowhere /\ r \in Repos
    BY <1>0, BareHomes, HomesOfNames, HomeElements
  <1>p. command'.plan = command.plan /\ command'.repo = command.repo /\ command'.from = command.from
    BY DEF SamePlan
  <1> HIDE DEF h, q, first, r
  <1>m. place' = Moved(h, q)
    BY DEF h, q
  <1>2. /\ place'[r] = q
        /\ \A s \in Repos \ {r} : place'[s] = place[s]
        /\ \A t \in Trees : RepoOf[t] # r \/ ~Within(h, place[t]) => place'[t] = place[t]
        /\ \A t \in Trees : RepoOf[t] = r /\ Within(h, place[t]) => place'[t] = Rebase(h, q, place[t])
        /\ \A t \in Trees : (place'[t] = Nowhere) <=> (place[t] = Nowhere)
    BY <1>0, <1>1, <1>m, BareMoves
  <1>3. ASSUME NEW t \in Trees, RepoOf[t] = r, Within(h, place[t])
        PROVE  /\ t \in DOMAIN command.plan /\ InHome(command.plan[t].from) /\ Carried(t)
               /\ command.plan[t].from \in Path /\ Within(first, command.plan[t].from)
    <2>1. InHome(place[t]) /\ place[t] # Nowhere
      BY <1>1, <1>3 DEF InHome, Within
    <2>2. t \in DOMAIN command.plan
      BY <1>0, <1>3, <2>1, OwnTrees DEF Newcomer, r
    <2>3. InHome(command.plan[t].from)
      BY <1>0, <2>1, <2>2, PlannedPlace
    <2>4. Planned(t)
      BY <1>0, <2>2
    <2>5. /\ command.plan[t].from \in Path
          /\ InHome(command.plan[t].from) => Within(BarePath(command.from), command.plan[t].from)
      BY <1>0, <2>2, PlanPaths
    <2> QED BY <2>2, <2>3, <2>4, <2>5 DEF Planned, first
  <1>4. \A t \in Trees : RepoOf[t] = r /\ Within(h, place[t]) /\ back[t] = place[t] => link[t] = h
    <2> SUFFICES ASSUME NEW t \in Trees, RepoOf[t] = r, Within(h, place[t]), back[t] = place[t]
                 PROVE  link[t] = h
      OBVIOUS
    <2>1. back[t] = command.plan[t].from /\ link[t] = first
      BY <1>3 DEF Carried, first
    <2>2. Within(first, place[t]) /\ place[t] \in Path
      BY <1>3, <2>1
    <2>3. first = h
      BY <1>1, <2>2, HomesApart
    <2> QED BY <2>1, <2>3
  <1>5. DiskInv'
    <2>1. place[r] = h /\ ~Exists(BarePath(name)) /\ place' = Moved(h, BarePath(name))
      BY <1>0, <1>m DEF q
    <2> QED BY <1>0, <1>1, <1>4, <2>1, BareMoveKeeps
  <1>6. Running'
    BY <1>0 DEF Running, SamePlan
  <1>7. ASSUME NEW t \in Trees \ DOMAIN command.plan, place'[t] # Nowhere
        PROVE  /\ place'[t] = place[t]
               /\ RepoOf[t] = r => Newcomer(t)
               /\ RepoOf[t] # r => place'[RepoOf[t]] = place[RepoOf[t]]
    <2>1. place[t] # Nowhere
      BY <1>2, <1>7
    <2>2. RepoOf[t] = r => Newcomer(t)
      BY <1>0, <1>7, <2>1 DEF NewcomersInv, r
    <2>3. place'[t] = place[t]
      BY <1>2, <1>3
    <2> QED BY <1>2, <2>2, <2>3, RepoOfTree
  <1>8. EntryInv'
    <2>1. ASSUME NEW t \in Trees \ DOMAIN command.plan, place'[t] # Nowhere, RepoOf[t] = r
          PROVE  EntryFine(t)'
      BY <2>1, <1>7 DEF EntryFine, Newcomer
    <2> QED BY <1>0, <1>6, <1>7, <2>1, EntriesBeside
  <1>9. PlanInv'
    BY <1>0, PlanKept
  <1>10. ProgressInv'
    BY <1>0 DEF ProgressInv, SamePlan, SameProgress
  <1>11. ASSUME NEW t \in DOMAIN command.plan PROVE Planned(t)'
    <2>0. /\ t \in Trees /\ RepoOf[t] = r /\ Planned(t)
          /\ command.plan[t].from \in Path
          /\ InHome(command.plan[t].from) =>
                Within(h, place[t]) /\ Within(BarePath(command.from), command.plan[t].from)
          /\ ~InHome(command.plan[t].from) => ~InHome(place[t])
      BY <1>0, <1>11, PlanPaths, PlannedPlace DEF r, h
    <2>1. CASE InHome(command.plan[t].from)
      <3>1. /\ place[t] = Rebase(first, h, command.plan[t].from)
            /\ back[t] = command.plan[t].from /\ link[t] = first
        BY <2>0, <2>1 DEF Planned, Carried, first, h
      <3>2. Within(first, command.plan[t].from) /\ place'[t] = Rebase(h, q, place[t])
        BY <2>0, <2>1, <1>2 DEF first
      <3>3. place'[t] = Rebase(first, q, command.plan[t].from)
        BY <2>0, <3>1, <3>2, <1>1, RebaseAgain
      <3>4. Carried(t)'
        BY <3>1, <3>3, <1>p DEF Carried, first, q
      <3> QED BY <2>1, <3>4, <1>p DEF Planned
    <2>2. CASE ~InHome(command.plan[t].from)
      <3>1. place'[t] = place[t]
        BY <2>0, <2>2, <1>1, <1>2 DEF InHome
      <3>2. OnItsWay(t)
        BY <2>0, <2>2 DEF Planned
      <3>3. OnItsWay(t)'
        BY <3>1, <3>2
      <3> QED BY <2>2, <3>3, <1>p DEF Planned
    <2> QED BY <2>1, <2>2
  <1>12. NewcomersInv'
    <2> SUFFICES ASSUME NEW u \in Trees \ DOMAIN command.plan, RepoOf[u] = r, place'[u] # Nowhere
                 PROVE  Newcomer(u)'
      BY <1>p DEF NewcomersInv, r
    <2>1. place'[u] = place[u] /\ Newcomer(u)
      BY <1>7
    <2> QED BY <2>1, <1>p DEF Newcomer
  <1>13. PlacesInv'
    BY <1>2, <1>11, <1>12, <1>p DEF PlacesInv, r, q
  <1> QED BY <1>5, <1>6, <1>8, <1>9, <1>10, <1>13, MovesRun

\* apply moves the bare directory.
LEMMA MoveBareKeeps ==
    ASSUME MovesInv, WorktreesApart, MoveBare
    PROVE  MovesInv'
  <1>0. Renaming("trees") /\ command.todo = {} /\ UNCHANGED <<link, back, torn>>
    BY DEF MoveBare
  <1>1. /\ Running /\ command \in Commands /\ command.step = "trees"
        /\ "trees" \in Steps /\ "undo trees" \in Steps /\ "repair" \in Steps
        /\ PlanInv /\ BareNow = BarePath(command.from)
    BY <1>0, RunningParts DEF Renaming, Steps, BareNow
  <1>2. CASE ~CanMove(BarePath(command.from), BarePath(command.to))
    <2>1. Goto("undo trees") /\ UNCHANGED place
      BY <1>2 DEF MoveBare
    <2>2. command' \in Commands /\ SamePlan /\ SameProgress /\ command'.step = "undo trees"
      BY <1>1, <2>1, GotoFields
    <2> QED BY <1>0, <1>1, <2>1, <2>2, TurnBack DEF SameProgress
  <1>3. CASE CanMove(BarePath(command.from), BarePath(command.to))
    <2> DEFINE name == command.to
    <2>1. place' = Moved(BarePath(command.from), BarePath(name)) /\ Goto("repair")
      BY <1>3 DEF MoveBare
    <2>2. command' \in Commands /\ SamePlan /\ SameProgress /\ command'.step = "repair"
      BY <1>1, <2>1, GotoFields
    <2>3. command'.to = command.to /\ command'.plan = command.plan /\ command'.moved = command.moved
      BY <2>2 DEF SamePlan, SameProgress
    <2>4. BareNow' = BarePath(name) /\ name \in Names /\ ~Exists(BarePath(name))
      BY <1>1, <1>3, <2>2, <2>3 DEF BareNow, PlanInv, CanMove
    <2>5. ASSUME NEW t \in DOMAIN command.plan, OnItsWay(t), place'[t] = place[t] PROVE OnItsWay(t)'
      BY <2>5, <2>2, <2>3, <1>0, <1>1 DEF OnItsWay
    <2> HIDE DEF name
    <2>6. place' = Moved(BareNow, BarePath(name))
      BY <1>1, <2>1
    <2> QED BY <1>0, <1>1, <2>2, <2>4, <2>5, <2>6, PlannedBareMoves
  <1> QED BY <1>2, <1>3

\* The rollback moves it back.
LEMMA UndoBareKeeps ==
    ASSUME MovesInv, WorktreesApart, UndoBare
    PROVE  MovesInv'
  <1> DEFINE name == command.from
  <1>0. /\ Renaming("undo bare") /\ UNCHANGED <<link, back, torn>> /\ Goto("undo trees")
        /\ CanMove(BarePath(command.to), BarePath(name))
        /\ place' = Moved(BarePath(command.to), BarePath(name))
    BY DEF UndoBare
  <1>1. /\ Running /\ command \in Commands /\ command.step = "undo bare"
        /\ "undo bare" \in Steps /\ "undo trees" \in Steps
        /\ PlanInv /\ BareNow = BarePath(command.to)
    BY <1>0, RunningParts DEF Renaming, Steps, BareNow
  <1>2. command' \in Commands /\ SamePlan /\ SameProgress /\ command'.step = "undo trees"
    BY <1>0, <1>1, GotoFields
  <1>3. command'.from = command.from /\ command'.plan = command.plan /\ command'.moved = command.moved
    BY <1>2 DEF SamePlan, SameProgress
  <1>4. BareNow' = BarePath(name) /\ name \in Names /\ ~Exists(BarePath(name))
    BY <1>0, <1>1, <1>2, <1>3 DEF BareNow, PlanInv, CanMove
  <1>5. ASSUME NEW t \in DOMAIN command.plan, OnItsWay(t), place'[t] = place[t] PROVE OnItsWay(t)'
    BY <1>5, <1>2, <1>3, <1>0, <1>1 DEF OnItsWay
  <1> HIDE DEF name
  <1>6. place' = Moved(BareNow, BarePath(name))
    BY <1>0, <1>1
  <1> QED BY <1>0, <1>1, <1>2, <1>4, <1>5, <1>6, PlannedBareMoves

\* A rename that stops, by a failed rollback or by its death, marks the
\* worktrees that are not where their entry says.
LEMMA StopsTorn ==
    ASSUME MovesInv, DiskInv', Tear, UNCHANGED place,
           \A t \in Trees \ DOMAIN command.plan : place[t] # Nowhere /\ t \notin torn => EntryFine(t)',
           command' \in Commands, SamePlan, command'.kind = "rename", command'.step = "done",
           command'.result = "error", command'.undone = FALSE
    PROVE  MovesInv'
  <1>1. EntryInv'
    BY DEF EntryInv, EntryFine, Tear
  <1>2. RenameInv' /\ FixInv' /\ RenameIsAllOrNothing' /\ RenamedRepoWorks'
    BY DEF RenameInv, Running, FixInv, RenameIsAllOrNothing, RenamedRepoWorks, Finished
  <1> QED BY <1>1, <1>2 DEF MovesInv

\* The rollback ends when it cannot.
LEMMA UndoBareFailsKeeps ==
    ASSUME MovesInv, UndoBareFails
    PROVE  MovesInv'
  <1>0. /\ Renaming("undo bare") /\ Unrestored("done", command.moved) /\ Tear
        /\ UNCHANGED <<place, link, back>>
    BY DEF UndoBareFails, disk
  <1>1. /\ Running /\ DiskInv /\ EntryInv /\ command \in Commands /\ command.kind = "rename"
        /\ "undo bare" \in Steps /\ "done" \in Steps /\ command.moved \in Seq(Trees)
    BY <1>0, RunningParts DEF Renaming, Steps, Commands
  <1>2. /\ command' \in Commands /\ SamePlan /\ command'.step = "done"
        /\ command'.result = "error" /\ command'.undone = FALSE
    BY <1>0, <1>1, UnrestoredFields
  <1>3. command'.kind = "rename"
    BY <1>1, <1>2 DEF SamePlan
  <1>4. DiskInv'
    BY <1>0, <1>1, DiskUnchanged
  <1>5. \A t \in Trees \ DOMAIN command.plan : place[t] # Nowhere /\ t \notin torn => EntryFine(t)'
    BY <1>0, <1>1 DEF EntryInv, EntryFine
  <1> QED BY <1>0, <1>2, <1>3, <1>4, <1>5, StopsTorn

------------------------------------------------------------------------------
(***************************************************************************)
(* The repairs of the links.                                               *)
(***************************************************************************)

\* `git worktree repair` harms no entry and no worktree that is linked.
LEMMA PartlyRepairedKeeps ==
    ASSUME DiskInv, WorktreesApart, NEW r \in Repos, place[r] # Nowhere,
           NEW paths, Nowhere \notin paths, PartlyRepaired(r, paths), UNCHANGED place
    PROVE  /\ DiskInv'
           /\ \A t \in Trees : /\ EntryFine(t) => EntryFine(t)'
                               /\ Sound(t) => Sound(t)'
                               /\ back'[t] \in {back[t], place[t]}
                               /\ t \notin At(r, paths) => back'[t] = back[t]
                               /\ back'[t] # place[t] => link'[t] = link[t]
                               /\ RepoOf[t] # r => back'[t] = back[t] /\ link'[t] = link[t]
  <1>1. PICK B \in SUBSET At(r, paths) : \E L \in SUBSET InPlace(r, B) : Relink(r, B, L)
    BY DEF PartlyRepaired
  <1>2. PICK L \in SUBSET InPlace(r, B) : Relink(r, B, L)
    BY <1>1
  <1>3. \A t \in B : t \in Trees /\ RepoOf[t] = r /\ place[t] # Nowhere /\ t \in At(r, paths)
    BY <1>1 DEF At
  <1>4. DiskInv'
    BY <1>2, <1>3, RelinkKeeps
  <1>5. /\ \A t \in Trees : back'[t] = IF t \in B THEN place[t] ELSE back[t]
        /\ \A t \in Trees : link'[t] = IF t \in L THEN place[r] ELSE link[t]
        /\ place' = place
    BY <1>2 DEF Relink
  <1>6. \A t \in L : RepoOf[t] = r /\ (t \in B \/ back[t] = place[t])
    BY <1>2 DEF InPlace, Entries
  <1>7. ASSUME NEW t \in Trees
        PROVE  /\ back'[t] \in {back[t], place[t]}
               /\ t \notin At(r, paths) => back'[t] = back[t]
               /\ back'[t] # place[t] => link'[t] = link[t]
               /\ RepoOf[t] # r => back'[t] = back[t] /\ link'[t] = link[t]
               /\ link'[t] \in {link[t], place[RepoOf[t]]}
    BY <1>3, <1>5, <1>6
  <1>8. ASSUME NEW t \in Trees, Sound(t) PROVE Sound(t)'
    BY <1>5, <1>7, <1>8 DEF Sound
  <1>9. ASSUME NEW t \in Trees, EntryFine(t) PROVE EntryFine(t)'
    <2>1. CASE back'[t] = place[t]
      BY <2>1, <1>5 DEF EntryFine
    <2>2. CASE back'[t] # place[t]
      <3>1. back'[t] = back[t] /\ link'[t] = link[t] /\ back[t] # place[t]
        BY <2>2, <1>7
      <3> QED BY <3>1, <1>5, <1>9 DEF EntryFine
    <2> QED BY <2>1, <2>2
  <1> QED BY <1>4, <1>7, <1>8, <1>9

\* When it reports no error it has linked the worktrees at the paths.
LEMMA RepairedSound ==
    ASSUME DiskInv, NEW r \in Repos, NEW paths, Nowhere \notin paths, Repaired(r, paths), UNCHANGED place
    PROVE  /\ AllThere(r, paths) /\ PartlyRepaired(r, paths)
           /\ \A t \in At(r, paths) : Sound(t)'
  <1>t. \A t \in At(r, paths) : t \in Trees /\ RepoOf[t] = r /\ place[t] # Nowhere /\ place[t] \in paths
    BY DEF At
  <1>1. CASE paths = {}
    <2>1. UNCHANGED <<back, link>>
      BY <1>1 DEF Repaired
    <2>2. back \in [Trees -> Path] /\ link \in [Trees -> Path]
      BY DEF DiskInv, DiskTyped
    <2>3. Relink(r, {}, {})
      BY <2>1, <2>2 DEF Relink
    <2>4. PartlyRepaired(r, paths)
      BY <2>3 DEF PartlyRepaired
    <2> QED BY <1>1, <1>t, <2>4 DEF AllThere
  <1>2. CASE paths # {}
    <2> DEFINE B == At(r, paths)
    <2>1. AllThere(r, paths) /\ Relink(r, B, InPlace(r, B))
      BY <1>2 DEF Repaired
    <2>2. PartlyRepaired(r, paths)
      BY <2>1 DEF PartlyRepaired
    <2>3. ASSUME NEW t \in B PROVE t \in InPlace(r, B)
      <3>1. back[t] # Nowhere
        BY <2>3, <1>t DEF DiskInv, TreesInv, TreeInv
      <3> QED BY <2>3, <3>1, <1>t DEF InPlace, Entries
    <2>4. ASSUME NEW t \in B PROVE Sound(t)'
      <3>1. t \in Trees /\ back'[t] = place[t] /\ link'[t] = place[r] /\ RepoOf[t] = r /\ place[t] # Nowhere
        BY <2>1, <2>3, <2>4, <1>t DEF Relink
      <3> QED BY <3>1 DEF Sound
    <2> QED BY <2>1, <2>2, <2>4
  <1> QED BY <1>1, <1>2

\* The entries after a repair.
LEMMA EntriesRepaired ==
    ASSUME EntryInv, UNCHANGED <<place, torn>>,
           \A t \in Trees : EntryFine(t) => EntryFine(t)',
           \A t \in Trees : Running /\ t \in DOMAIN command.plan =>
              EntryFine(t)' \/ (Running' /\ t \in DOMAIN command'.plan)
    PROVE  EntryInv'
  BY DEF EntryInv

\* The two lists of paths name worktrees.
LEMMA PathsOfPlan ==
    ASSUME PlanInv
    PROVE  /\ Nowhere \notin OriginalPaths(command.plan)
           /\ Nowhere \notin RenamedPaths(command.plan)
  BY PlanPaths DEF OriginalPaths, RenamedPaths

\* The repair at the new places, whole or in part.
LEMMA RepairKeeps ==
    ASSUME MovesInv, WorktreesApart, Renaming("repair"),
           PartlyRepaired(command.repo, RenamedPaths(command.plan)), UNCHANGED <<place, torn>>,
           command' \in Commands, SamePlan, SameProgress, command'.step \in {"undo bare", "cleanup"},
           command'.step = "cleanup" => Stands(command.to, To)'
    PROVE  MovesInv'
  <1> DEFINE r == command.repo
             paths == RenamedPaths(command.plan)
             first == BarePath(command.from)
             h == BarePath(command.to)
  <1>1. /\ Running /\ DiskInv /\ EntryInv /\ command \in Commands /\ command.kind = "rename"
        /\ PlanInv /\ ProgressInv /\ PlacesInv /\ NewcomersInv
        /\ \A t \in DOMAIN command.plan : Planned(t)
        /\ command.step = "repair"
    BY RunningParts DEF Renaming, Steps
  <1>p. /\ command'.plan = command.plan /\ command'.repo = command.repo /\ command'.moved = command.moved
        /\ command'.from = command.from /\ command'.to = command.to /\ command'.kind = command.kind
    BY DEF SamePlan, SameProgress
  <1>2. /\ r \in Repos /\ place[r] = h /\ h \in Homes /\ h \in Path /\ h # Nowhere
        /\ first \in Homes /\ first # h /\ BareNow = h /\ BareNow' = h
    BY <1>1, <1>p, BareHomes DEF PlacesInv, BareNow
  <1> HIDE DEF paths, h, first, r
  <1>3. /\ DiskInv'
        /\ \A t \in Trees : /\ EntryFine(t) => EntryFine(t)'
                            /\ back'[t] \in {back[t], place[t]}
                            /\ t \notin At(r, paths) => back'[t] = back[t]
                            /\ back'[t] # place[t] => link'[t] = link[t]
    <2>1. Nowhere \notin paths /\ PartlyRepaired(r, paths) /\ place[r] # Nowhere
      BY <1>1, <1>2, PathsOfPlan DEF paths, r
    <2> QED BY <1>1, <1>2, <2>1, PartlyRepairedKeeps
  <1>4. Running'
    BY <1>1, <1>p DEF Running
  <1>5. EntryInv'
    BY <1>1, <1>3, <1>4, <1>p, EntriesRepaired
  <1>6. PlanInv'
    BY <1>1, PlanKept
  <1>7. ProgressInv'
    BY <1>1 DEF ProgressInv, SamePlan, SameProgress
  <1>8. ASSUME NEW t \in DOMAIN command.plan PROVE Planned(t)'
    <2>0. /\ t \in Trees /\ Planned(t) /\ place[t] \in Path
          /\ command.plan[t].from \in Path
          /\ InHome(command.plan[t].from) =>
               Within(h, place[t]) /\ Within(first, command.plan[t].from)
      BY <1>1, <1>2, <1>8, PlanPaths, PlannedPlace, DiskTypes DEF first
    <2>1. CASE InHome(command.plan[t].from)
      <3>1. /\ back[t] = command.plan[t].from /\ link[t] = first
            /\ place[t] = Rebase(first, h, command.plan[t].from)
        BY <2>0, <2>1, <1>2 DEF Planned, Carried, first
      <3>2. back[t] # place[t]
        BY <2>0, <2>1, <3>1, <1>2, HomesApart
      <3>3. t \notin At(r, paths)
        <4> SUFFICES ASSUME NEW u \in DOMAIN command.plan, place[t] = command.plan[u].to PROVE FALSE
          BY DEF At, paths, RenamedPaths
        <4>1. InHome(command.plan[u].to)
          BY <2>0, <2>1, <1>2 DEF InHome
        <4>2. command.plan[u].to = command.plan[u].from /\ Within(first, command.plan[u].from)
          BY <1>1, <4>1, PlanPaths DEF first
        <4>3. Within(first, place[t])
          BY <4>2
        <4> QED BY <4>3, <2>0, <2>1, <1>2, HomesApart
      <3>4. back'[t] = back[t] /\ link'[t] = link[t]
        BY <2>0, <3>2, <3>3, <1>3
      <3>5. Carried(t)'
        BY <3>1, <3>4, <1>2, <1>p DEF Carried, first
      <3> QED BY <2>1, <3>5, <1>p DEF Planned
    <2>2. CASE ~InHome(command.plan[t].from)
      <3>1. OnItsWay(t)
        BY <2>0, <2>2 DEF Planned
      <3>2. place[t] = command.plan[t].to /\ back'[t] \in {command.plan[t].from, command.plan[t].to}
        BY <2>0, <3>1, <1>1, <1>3 DEF OnItsWay
      <3>3. OnItsWay(t)'
        BY <3>2, <1>p DEF OnItsWay
      <3> QED BY <2>2, <3>3, <1>p DEF Planned
    <2> QED BY <2>1, <2>2
  <1>9. NewcomersInv'
    <2> SUFFICES ASSUME NEW u \in Trees \ DOMAIN command.plan, RepoOf[u] = r, place[u] # Nowhere
                 PROVE  Newcomer(u)'
      BY <1>p DEF NewcomersInv, r
    <2>1. Newcomer(u)
      BY <1>1 DEF NewcomersInv, r
    <2>2. back'[u] = place[u]
      BY <2>1, <1>3 DEF Newcomer
    <2> QED BY <2>1, <2>2, <1>p DEF Newcomer
  <1>10. PlacesInv'
    <2>1. place'[command'.repo] = BareNow'
      BY <1>2, <1>p DEF r
    <2>2. command'.step = "cleanup" => Stands(command.to, To)'
      OBVIOUS
    <2>3. \A t \in DOMAIN command'.plan : Planned(t)'
      BY <1>8, <1>p
    <2> QED BY <2>1, <2>2, <2>3, <1>9 DEF PlacesInv
  <1> QED BY <1>3, <1>4, <1>5, <1>6, <1>7, <1>10, MovesRun

\* The repair at the new places links every worktree of the plan.
LEMMA RepairMovedKeeps ==
    ASSUME MovesInv, WorktreesApart, RepairMoved
    PROVE  MovesInv'
  <1> DEFINE r == command.repo
             paths == RenamedPaths(command.plan)
             first == BarePath(command.from)
             h == BarePath(command.to)
  <1>0. /\ Renaming("repair") /\ UNCHANGED <<place, torn>> /\ Goto("cleanup")
        /\ Repaired(r, paths)
    BY DEF RepairMoved
  <1>1. /\ Running /\ DiskInv /\ command \in Commands
        /\ PlanInv /\ PlacesInv
        /\ \A t \in DOMAIN command.plan : Planned(t)
        /\ command.step = "repair" /\ "cleanup" \in Steps
    BY <1>0, RunningParts DEF Renaming, Steps
  <1>2. /\ r \in Repos /\ place[r] = h /\ h # Nowhere
        /\ first \in Homes /\ first # h
    BY <1>1, BareHomes DEF PlacesInv, BareNow
  <1>3. command' \in Commands /\ SamePlan /\ SameProgress /\ command'.step = "cleanup"
    BY <1>0, <1>1, GotoFields
  <1>4. AllThere(r, paths) /\ PartlyRepaired(r, paths) /\ \A t \in At(r, paths) : Sound(t)'
    <2>1. Nowhere \notin paths
      BY <1>1, PathsOfPlan
    <2> HIDE DEF paths, r
    <2> QED BY <1>0, <1>1, <1>2, <2>1, RepairedSound
  <1>5. ASSUME NEW t \in DOMAIN command.plan
        PROVE  place[t] = command.plan[t].to /\ Sound(t)'
    <2>0. /\ t \in Trees /\ RepoOf[t] = r /\ Planned(t)
          /\ InHome(command.plan[t].from) =>
               command.plan[t].to = command.plan[t].from /\ Within(first, command.plan[t].from)
      BY <1>1, <1>5, PlanPaths
    <2>1. command.plan[t].to \in paths
      BY DEF RenamedPaths
    <2>2. ~InHome(command.plan[t].from)
      <3> SUFFICES ASSUME InHome(command.plan[t].from) PROVE FALSE
        OBVIOUS
      <3>1. PICK u \in At(r, paths) : place[u] = command.plan[t].to
        BY <1>4, <2>1 DEF AllThere
      <3>2. u \in Trees /\ RepoOf[u] = r /\ Within(first, place[u])
        BY <2>0, <3>1 DEF At
      <3>3. place[r] = first
        BY <1>1, <1>2, <3>2, HomeOfTree
      <3> QED BY <3>3, <1>2
    <2>3. place[t] = command.plan[t].to
      BY <2>0, <2>2, <1>1 DEF Planned, OnItsWay
    <2>4. t \in At(r, paths)
      BY <2>0, <2>1, <2>3 DEF At
    <2> QED BY <2>3, <2>4, <1>4
  <1>6. Stands(command.to, To)'
    <2>1. command'.plan = command.plan /\ command'.repo = command.repo /\ command'.to = command.to
      BY <1>3 DEF SamePlan
    <2> QED BY <1>0, <1>2, <1>5, <2>1 DEF Stands, To
  <1> QED BY <1>0, <1>3, <1>4, <1>6, RepairKeeps

\* It fails, and may have linked some.
LEMMA RepairRefusedKeeps ==
    ASSUME MovesInv, WorktreesApart, RepairRefused \/ RepairFails
    PROVE  MovesInv'
  <1>0. /\ Renaming("repair") /\ UNCHANGED <<place, torn>>
        /\ PartlyRepaired(command.repo, RenamedPaths(command.plan))
        /\ Goto("undo bare") \/ Disturbed("undo bare")
    BY DEF RepairRefused, RepairFails
  <1>1. command \in Commands /\ "undo bare" \in Steps
    BY DEF MovesInv, Steps
  <1>2. command' \in Commands /\ SamePlan /\ SameProgress /\ command'.step = "undo bare"
    BY <1>0, <1>1, GotoFields, DisturbedFields
  <1> QED BY <1>0, <1>2, RepairKeeps

\* The end of a rename that leaves its plan standing.
LEMMA RenameEnds ==
    ASSUME DiskInv', command' \in Commands, EntryInv', command'.kind = "rename", command'.step = "done",
           RenameIsAllOrNothing', RenamedRepoWorks'
    PROVE  MovesInv'
  BY DEF MovesInv, RenameInv, Running, FixInv

\* The repair of the rollback links every worktree at its old place.
LEMMA UndoRepairKeeps ==
    ASSUME MovesInv, WorktreesApart, UndoRepair
    PROVE  MovesInv'
  <1> DEFINE r == command.repo
             paths == OriginalPaths(command.plan)
             first == BarePath(command.from)
  <1>0. /\ Renaming("undo trees") /\ UNCHANGED <<place, torn>> /\ Finish("error")
        /\ Repaired(r, paths)
    BY DEF UndoRepair
  <1>1. /\ Running /\ DiskInv /\ EntryInv /\ command \in Commands /\ command.kind = "rename"
        /\ PlanInv /\ PlacesInv
        /\ \A t \in DOMAIN command.plan : Planned(t)
        /\ command.step = "undo trees" /\ "error" \in Results
    BY <1>0, RunningParts DEF Renaming, Steps, Results
  <1>2. /\ r \in Repos /\ place[r] = first /\ first # Nowhere /\ first \in Path /\ BareNow = first
    BY <1>1, BareHomes DEF PlacesInv, BareNow
  <1>3. /\ command' \in Commands /\ command'.step = "done" /\ command'.result = "error"
        /\ command'.plan = command.plan /\ command'.repo = command.repo /\ command'.from = command.from
        /\ command'.kind = "rename"
    BY <1>0, <1>1, FinishFields DEF SamePlan
  <1>n. Nowhere \notin paths
    BY <1>1, PathsOfPlan
  <1>4. AllThere(r, paths) /\ PartlyRepaired(r, paths) /\ \A t \in At(r, paths) : Sound(t)'
    <2> HIDE DEF paths, r
    <2> QED BY <1>0, <1>1, <1>2, <1>n, RepairedSound
  <1>5. DiskInv' /\ \A t \in Trees : EntryFine(t) => EntryFine(t)'
    <2> HIDE DEF paths, r
    <2> QED BY <1>0, <1>1, <1>2, <1>n, <1>4, PartlyRepairedKeeps
  <1>6. ASSUME NEW t \in DOMAIN command.plan, ~InHome(command.plan[t].from)
        PROVE  place[t] = command.plan[t].from
    <2>1. command.plan[t].from \in paths
      BY DEF OriginalPaths
    <2>2. PICK u \in At(r, paths) : place[u] = command.plan[t].from
      BY <1>4, <2>1 DEF AllThere
    <2>3. u \in Trees /\ RepoOf[u] = r /\ place[u] # Nowhere
      BY <1>n, <2>2 DEF At
    <2>4. u \in DOMAIN command.plan
      BY <1>1, <1>6, <2>2, <2>3, OwnTrees DEF Newcomer
    <2>5. place[u] \in {command.plan[u].from, command.plan[u].to}
      <3>1. CASE InHome(command.plan[u].from)
        <4>1. place[u] = Rebase(first, first, command.plan[u].from) /\ command.plan[u].from \in Path
          BY <1>1, <1>2, <2>4, <3>1, PlanPaths DEF Planned, Carried
        <4> QED BY <4>1, <1>2, RebaseSelf
      <3>2. CASE ~InHome(command.plan[u].from)
        BY <1>1, <2>4, <3>2 DEF Planned, OnItsWay
      <3> QED BY <3>1, <3>2
    <2>6. u # t => command.plan[t].from \notin {command.plan[u].from, command.plan[u].to}
      BY <1>1, <2>4, <1>6 DEF PlanInv
    <2> QED BY <2>2, <2>5, <2>6
  <1>7. ASSUME NEW t \in DOMAIN command.plan PROVE place[t] = command.plan[t].from /\ Sound(t)'
    <2>0. t \in Trees /\ RepoOf[t] = r /\ Planned(t) /\ command.plan[t].from \in Path
      BY <1>1, <1>7, PlanPaths
    <2>1. place[t] = command.plan[t].from
      <3>1. CASE InHome(command.plan[t].from)
        <4>1. place[t] = Rebase(first, first, command.plan[t].from)
          BY <1>2, <2>0, <3>1 DEF Planned, Carried
        <4> QED BY <4>1, <2>0, <1>2, RebaseSelf
      <3>2. CASE ~InHome(command.plan[t].from)
        BY <1>6, <3>2
      <3> QED BY <3>1, <3>2
    <2>2. t \in At(r, paths)
      BY <2>0, <2>1 DEF At, OriginalPaths
    <2> QED BY <2>1, <2>2, <1>4
  <1>8. EntryInv'
    <2>1. \A t \in Trees : Running /\ t \in DOMAIN command.plan => EntryFine(t)'
      BY <1>7 DEF Sound, EntryFine
    <2> QED BY <1>0, <1>1, <1>5, <2>1, EntriesRepaired
  <1>9. Stands(command.from, From)'
    BY <1>0, <1>2, <1>3, <1>7 DEF Stands, From
  <1>10. RenameIsAllOrNothing' /\ RenamedRepoWorks'
    BY <1>3, <1>9 DEF RenameIsAllOrNothing, RenamedRepoWorks, Finished
  <1> QED BY <1>3, <1>5, <1>8, <1>10, RenameEnds

\* It fails, and the rename ends.
LEMMA UndoRepairFailsKeeps ==
    ASSUME MovesInv, WorktreesApart, UndoRepairFails
    PROVE  MovesInv'
  <1> DEFINE r == command.repo
             paths == OriginalPaths(command.plan)
  <1>0. /\ Renaming("undo trees") /\ UNCHANGED place /\ Unrestored("done", <<>>) /\ Tear
        /\ PartlyRepaired(r, paths)
    BY DEF UndoRepairFails
  <1>1. /\ Running /\ DiskInv /\ EntryInv /\ command \in Commands /\ command.kind = "rename"
        /\ PlanInv /\ PlacesInv /\ "done" \in Steps
    BY <1>0, RunningParts DEF Renaming, Steps
  <1>2. r \in Repos /\ place[r] # Nowhere /\ Nowhere \notin paths
    BY <1>1, BareHomes, PathsOfPlan DEF PlacesInv
  <1>3. <<>> \in Seq(Trees)
    BY EmptySeq
  <1>4. /\ command' \in Commands /\ SamePlan /\ command'.step = "done"
        /\ command'.result = "error" /\ command'.undone = FALSE
    BY <1>0, <1>1, <1>3, UnrestoredFields
  <1>5. command'.kind = "rename"
    BY <1>1, <1>4 DEF SamePlan
  <1>6. DiskInv' /\ \A t \in Trees : EntryFine(t) => EntryFine(t)'
    <2> HIDE DEF paths, r
    <2> QED BY <1>0, <1>1, <1>2, PartlyRepairedKeeps
  <1>7. \A t \in Trees \ DOMAIN command.plan : place[t] # Nowhere /\ t \notin torn => EntryFine(t)'
    BY <1>1, <1>6 DEF EntryInv
  <1> QED BY <1>0, <1>4, <1>5, <1>6, <1>7, StopsTorn

\* The rename ends under the new name.
LEMMA CleanUpKeeps ==
    ASSUME MovesInv, CleanUp
    PROVE  MovesInv'
  <1>0. /\ Renaming("cleanup") /\ UNCHANGED <<place, link, back, torn>>
        /\ \/ Finish("ok")
           \/ command' = [command EXCEPT !.step = "done", !.result = "error", !.disturbed = TRUE]
    BY DEF CleanUp, disk
  <1>1. /\ DiskInv /\ EntryInv /\ command \in Commands /\ command.kind = "rename"
        /\ PlanInv /\ PlacesInv /\ command.step = "cleanup" /\ "ok" \in Results
    BY <1>0, RunningParts DEF Renaming, Steps, Results
  <1>2. /\ command' \in Commands /\ SamePlan /\ command'.step = "done"
        /\ command'.result \in {"ok", "error"}
    BY <1>0, <1>1, FinishFields, ErrorFields
  <1>p. /\ command'.plan = command.plan /\ command'.repo = command.repo /\ command'.to = command.to
        /\ command'.sound = command.sound /\ command'.here = command.here
        /\ command'.target = command.target /\ command'.kind = "rename"
    BY <1>1, <1>2 DEF SamePlan
  <1>3. Stands(command.to, To)
    BY <1>1 DEF PlacesInv
  <1>4. Stands(command.to, To)'
    BY <1>0, <1>3, <1>p DEF Stands, To, Sound
  <1>5. EntryInv'
    <2>1. \A t \in DOMAIN command.plan : EntryFine(t)
      BY <1>3 DEF Stands, Sound, EntryFine
    <2> QED BY <1>0, <1>1, <2>1, EntryKept
  <1>6. RenameIsAllOrNothing'
    BY <1>4 DEF RenameIsAllOrNothing
  <1>7. RenamedRepoWorks'
    <2>1. /\ command.sound \subseteq DOMAIN command.plan
          /\ command.target # Nowhere =>
                command.here \in DOMAIN command.plan /\ command.target = command.plan[command.here].to
      BY <1>1 DEF PlanInv
    <2>2. /\ place'[command.repo] = BarePath(command.to)
          /\ \A t \in DOMAIN command.plan : place'[t] = command.plan[t].to /\ Sound(t)'
      BY <1>4, <1>p DEF Stands, To
    <2> QED BY <2>1, <2>2, <1>p DEF RenamedRepoWorks
  <1>8. DiskInv'
    BY <1>0, <1>1, DiskUnchanged
  <1> QED BY <1>2, <1>5, <1>6, <1>7, <1>8, <1>p, RenameEnds

------------------------------------------------------------------------------
(***************************************************************************)
(* The steps of fix.                                                       *)
(***************************************************************************)

\* What a fix keeps of the invariant while it runs.
LEMMA FixKeeps ==
    ASSUME DiskInv', EntryInv', command' \in Commands, command'.kind = "fix", FixInv'
    PROVE  MovesInv'
  BY NotRenaming DEF MovesInv

\* A fix claims nothing before it has listed the repositories, nor when it fails.
LEMMA FixClaims ==
    ASSUME command'.step = "move" \/ (command'.step = "done" /\ command'.result = "error")
    PROVE  FixInv'
  BY DEF FixInv

\* FixRepos begins.
LEMMA StartFixKeeps ==
    ASSUME MovesInv, StartFix
    PROVE  MovesInv'
  <1> DEFINE queue == {r \in Repos : Legacy(r)}
  <1>0. /\ Idle /\ UNCHANGED <<place, link, back, torn>>
        /\ command' = [NoCommand EXCEPT !.kind = "fix", !.step = "move", !.queue = queue]
    BY DEF StartFix, disk
  <1>1. queue \in SUBSET Repos
    OBVIOUS
  <1> HIDE DEF queue
  <1>2. command' \in Commands /\ command'.kind = "fix" /\ command'.step = "move"
    <2>1. <<>> \in Path /\ <<>> \in Seq(Trees) /\ <<>> \in Plans
      BY EmptySeq DEF Path, Plans
    <2> QED BY <1>0, <1>1, <2>1 DEF NoCommand, Commands, Kinds, Steps, Results, Nowhere
  <1>3. ~Running
    BY <1>0 DEF Idle, Running
  <1>4. DiskInv' /\ EntryInv'
    BY <1>0, <1>3, DiskUnchanged, EntryKept DEF MovesInv
  <1> QED BY <1>2, <1>4, FixClaims, FixKeeps

\* A legacy repository moves into the worktree root.
LEMMA LegacyMoveKeeps ==
    ASSUME MovesInv, WorktreesApart, command.kind = "fix",
           NEW r \in Repos, NEW name \in Names, place[r] = LegacyPath(name), ~Exists(BarePath(name)),
           place' = Moved(LegacyPath(name), BarePath(name)), UNCHANGED <<link, back, torn>>
    PROVE  DiskInv' /\ EntryInv'
  <1> DEFINE h == LegacyPath(name)
             q == BarePath(name)
  <1>0. DiskInv /\ EntryInv /\ ~Running
    BY DEF MovesInv, Running
  <1>1. h \in Homes /\ q \in Homes
    BY HomesOfNames
  <1>2. \A t \in Trees : RepoOf[t] = r /\ place[t] # Nowhere => back[t] = place[t] /\ link[t] = h
    BY <1>0 DEF DiskInv, LegacyInv, Sound
  <1>3. DiskInv'
    <2>1. \A t \in Trees : RepoOf[t] = r /\ Within(h, place[t]) /\ back[t] = place[t] => link[t] = h
      BY <1>2 DEF Within
    <2> QED BY <1>0, <1>1, <2>1, BareMoveKeeps
  <1>4. /\ place'[r] = q
        /\ \A s \in Repos \ {r} : place'[s] = place[s]
        /\ \A t \in Trees : RepoOf[t] # r \/ ~Within(h, place[t]) => place'[t] = place[t]
        /\ \A t \in Trees : (place'[t] = Nowhere) <=> (place[t] = Nowhere)
    BY <1>0, <1>1, BareMoves
  <1>5. EntryInv'
    <2> SUFFICES ASSUME NEW t \in Trees \ torn, place'[t] # Nowhere PROVE EntryFine(t)'
      BY DEF EntryInv
    <2>1. place[t] # Nowhere
      BY <1>4
    <2>2. CASE RepoOf[t] # r
      <3>1. EntryFine(t)
        BY <1>0, <2>1 DEF EntryInv
      <3>2. place'[t] = place[t] /\ place'[RepoOf[t]] = place[RepoOf[t]]
        BY <2>2, <1>4, RepoOfTree
      <3> QED BY <3>1, <3>2 DEF EntryFine
    <2>3. CASE RepoOf[t] = r /\ ~Within(h, place[t])
      BY <2>1, <2>3, <1>2, <1>4 DEF EntryFine
    <2>4. CASE RepoOf[t] = r /\ Within(h, place[t])
      <3>1. back[t] = place[t] /\ link[t] = h /\ place'[RepoOf[t]] = q
        BY <2>1, <2>4, <1>2, <1>4
      <3> QED BY <3>1, <2>4 DEF EntryFine
    <2> QED BY <2>2, <2>3, <2>4
  <1> QED BY <1>3, <1>5

\* FixRepos moves a legacy repository, or cannot.
LEMMA MoveLegacyKeeps ==
    ASSUME MovesInv, WorktreesApart, NEW r \in Repos, MoveLegacy(r) \/ MoveLegacyFails(r)
    PROVE  MovesInv'
  <1>0. /\ Fixing("move") /\ UNCHANGED <<link, back, torn>>
        /\ command' = [command EXCEPT !.queue = @ \ {r}] \/ Finish("error")
    BY DEF MoveLegacy, MoveLegacyFails
  <1>1. /\ command \in Commands /\ command.kind = "fix" /\ command.step = "move" /\ "error" \in Results
        /\ DiskInv /\ EntryInv /\ ~Running
    BY <1>0 DEF MovesInv, Fixing, Results, Running
  <1>2. /\ command' \in Commands /\ SamePlan
        /\ command'.step = "move" \/ (command'.step = "done" /\ command'.result = "error")
    BY <1>0, <1>1, QueueFields, FinishFields
  <1>3. command'.kind = "fix"
    BY <1>1, <1>2 DEF SamePlan
  <1>4. DiskInv' /\ EntryInv'
    <2>1. CASE UNCHANGED place
      BY <1>0, <1>1, <2>1, DiskUnchanged, EntryKept
    <2>2. CASE ~UNCHANGED place
      <3>1. PICK name \in Names : /\ place[r] = LegacyPath(name) /\ CanMove(place[r], BarePath(name))
                                  /\ place' = Moved(place[r], BarePath(name))
        BY <2>2 DEF MoveLegacy, MoveLegacyFails
      <3>2. ~Exists(BarePath(name))
        BY <3>1 DEF CanMove
      <3> QED BY <1>0, <1>1, <3>1, <3>2, LegacyMoveKeeps
    <2> QED BY <2>1, <2>2
  <1> QED BY <1>2, <1>3, <1>4, FixClaims, FixKeeps

\* The list of the repositories depends on the directories only.
LEMMA ListedSame ==
    ASSUME NEW r \in Repos, UNCHANGED place
    PROVE  Listed(r)' <=> Listed(r)
  BY DEF Listed, NameOf, Exists

\* FixRepos lists the repositories.
LEMMA ListReposKeeps ==
    ASSUME MovesInv, ListRepos
    PROVE  MovesInv'
  <1> DEFINE queue == {r \in Repos : Listed(r)}
  <1>0. /\ Fixing("move") /\ UNCHANGED <<place, link, back, torn>>
        /\ command' = [command EXCEPT !.step = "repair", !.queue = queue]
    BY DEF ListRepos, disk
  <1>1. command \in Commands /\ command.kind = "fix" /\ ~Running /\ queue \in SUBSET Repos
    BY <1>0 DEF MovesInv, Fixing, Running
  <1>2. /\ command' \in Commands /\ SamePlan /\ command'.step = "repair" /\ command'.queue = queue
    <2> HIDE DEF queue
    <2> QED BY <1>0, <1>1, ListFields
  <1>3. command'.kind = "fix"
    BY <1>1, <1>2 DEF SamePlan
  <1>4. DiskInv' /\ EntryInv'
    BY <1>0, <1>1, DiskUnchanged, EntryKept DEF MovesInv
  <1>5. \A r \in queue : \E name \in Names : place'[r] = BarePath(name)
    BY <1>0 DEF Listed
  <1>6. \A t \in Trees : Listed(RepoOf[t])' => RepoOf[t] \in queue
    BY <1>0, ListedSame, RepoOfTree
  <1>7. FixInv'
    BY <1>2, <1>5, <1>6 DEF FixInv
  <1> QED BY <1>2, <1>3, <1>4, <1>7, FixKeeps

\* The paths that fix repairs.
LEMMA StalePaths ==
    ASSUME DiskInv, NEW r \in Repos, NEW name \in Names, place[r] = BarePath(name)
    PROVE  Nowhere \notin Stale(r)
  <1>1. Nowhere \notin StaleInPlace(r)
    BY DEF StaleInPlace, Entries
  <1>2. Nowhere \notin MovedInternal(r)
    <2> DEFINE old == LegacyPath(NameOf(r))
    <2>1. NameOf(r) = name
      BY HomesOfNames DEF NameOf
    <2>2. old \in Path /\ place[r] \in Path /\ place[r] # Nowhere
      BY <2>1, HomesOfNames, HomeElements
    <2>3. ASSUME NEW t \in Trees, Within(old, back[t]) PROVE Rebase(old, place[r], back[t]) # Nowhere
      BY <2>2, <2>3, DiskTypes, RebaseElements
    <2> HIDE DEF old
    <2>4. \A p \in MovedInternal(r) : \E t \in Trees : Within(old, back[t]) /\ p = Rebase(old, place[r], back[t])
      BY DEF MovedInternal, Entries, old
    <2> QED BY <2>3, <2>4
  <1> QED BY <1>1, <1>2 DEF Stale

\* A worktree whose entry is fine and that is not linked is at one of them.
LEMMA StaleTree ==
    ASSUME DiskInv, NEW r \in Repos, NEW name \in Names, place[r] = BarePath(name),
           NEW t \in Trees, RepoOf[t] = r, place[t] # Nowhere, EntryFine(t), ~Sound(t)
    PROVE  t \in At(r, Stale(r))
  <1>0. TreeInv(t) /\ back[t] # Nowhere /\ t \in Entries(r)
    BY DEF DiskInv, TreesInv, TreeInv, Entries
  <1>1. CASE back[t] = place[t]
    <2>1. link[t] # place[r]
      BY <1>1 DEF Sound
    <2>2. ~Within(place[r], link[t])
      BY <2>1, <1>0, HomesOfNames, HomeWithin DEF TreeInv
    <2>3. back[t] \in StaleInPlace(r)
      BY <1>0, <1>1, <2>2 DEF StaleInPlace
    <2> QED BY <1>1, <2>3 DEF At, Stale
  <1>2. CASE back[t] # place[t]
    <2> DEFINE old == LegacyPath(NameOf(r))
    <2>1. PICK n \in Names : place[r] = BarePath(n) /\ link[t] = LegacyPath(n) /\ Within(link[t], back[t])
      BY <1>2 DEF EntryFine
    <2>2. n = name /\ NameOf(r) = name /\ old \in Homes
      BY <2>1, HomesOfNames DEF NameOf
    <2>3. link[t] = old /\ Within(old, back[t]) /\ old = LegacyPath(name)
      BY <2>1, <2>2
    <2> HIDE DEF old
    <2>4. Rebase(old, place[r], back[t]) = place[t]
      <3>1. InHome(back[t])
        BY <2>2, <2>3 DEF InHome
      <3>2. Inside(t)
        BY <1>0, <3>1 DEF TreeInv, Outside
      <3> QED BY <3>2, <1>2, <2>3 DEF Inside
    <2>5. Prunable(t)
      <3> SUFFICES ASSUME NEW u \in Trees, place[u] = back[t] PROVE FALSE
        BY DEF Prunable
      <3>1. place[RepoOf[u]] = old
        BY <2>2, <2>3, HomeOfTree
      <3>2. RepoOf[u] = RepoOf[t]
        BY <2>3, <3>1, RepoOfTree DEF DiskInv, LegacyInv
      <3> QED BY <3>1, <3>2, <2>3, HomesOfNames
    <2>6. place[t] \in MovedInternal(r)
      BY <1>0, <2>3, <2>4, <2>5 DEF MovedInternal, old
    <2> QED BY <2>6 DEF At, Stale
  <1> QED BY <1>1, <1>2

\* FixRepos repairs the worktrees of a repository.
LEMMA FixRepoKeeps ==
    ASSUME MovesInv, WorktreesApart, NEW r \in Repos, FixRepo(r)
    PROVE  MovesInv'
  <1>0. /\ Fixing("repair") /\ r \in command.queue /\ UNCHANGED <<place, torn>>
        /\ Repaired(r, Stale(r)) /\ command' = [command EXCEPT !.queue = @ \ {r}]
    BY DEF FixRepo
  <1>1. /\ DiskInv /\ EntryInv /\ command \in Commands /\ command.kind = "fix" /\ command.step = "repair"
        /\ FixInv /\ ~Running
    BY <1>0 DEF MovesInv, Fixing, Running
  <1>2. /\ command' \in Commands /\ SamePlan
        /\ command'.step = "repair" /\ command'.queue = command.queue \ {r}
    BY <1>0, <1>1, QueueFields
  <1>3. command'.kind = "fix"
    BY <1>1, <1>2 DEF SamePlan
  <1>4. /\ \A s \in command.queue : \E name \in Names : place[s] = BarePath(name)
        /\ \A t \in Trees \ torn :
             place[t] # Nowhere /\ Listed(RepoOf[t]) /\ RepoOf[t] \notin command.queue => Sound(t)
    BY <1>1 DEF FixInv
  <1>5. PICK name \in Names : place[r] = BarePath(name)
    BY <1>0, <1>4
  <1>6. Nowhere \notin Stale(r) /\ place[r] # Nowhere
    BY <1>1, <1>5, StalePaths, HomesOfNames, HomeElements
  <1> DEFINE paths == Stale(r)
  <1>7. PartlyRepaired(r, paths) /\ \A t \in At(r, paths) : Sound(t)'
    <2> HIDE DEF paths
    <2> QED BY <1>0, <1>1, <1>6, RepairedSound DEF paths
  <1>8. DiskInv' /\ \A t \in Trees : (EntryFine(t) => EntryFine(t)') /\ (Sound(t) => Sound(t)')
    <2> HIDE DEF paths
    <2> QED BY <1>0, <1>1, <1>6, <1>7, PartlyRepairedKeeps DEF paths
  <1>9. EntryInv'
    BY <1>0, <1>1, <1>8, EntriesRepaired
  <1>10. ASSUME NEW t \in Trees \ torn, place[t] # Nowhere, Listed(RepoOf[t])',
                RepoOf[t] \notin command.queue \ {r}
         PROVE  Sound(t)'
    <2>0. Listed(RepoOf[t])
      BY <1>0, <1>10, ListedSame, RepoOfTree
    <2>1. CASE RepoOf[t] # r
      BY <2>0, <2>1, <1>4, <1>8, <1>10
    <2>2. CASE RepoOf[t] = r
      <3>1. EntryFine(t)
        BY <1>1, <1>10 DEF EntryInv
      <3>2. Sound(t) \/ t \in At(r, paths)
        BY <1>1, <1>5, <1>10, <2>2, <3>1, StaleTree
      <3> QED BY <3>2, <1>7, <1>8
    <2> QED BY <2>1, <2>2
  <1>11. FixInv'
    BY <1>0, <1>2, <1>4, <1>10 DEF FixInv
  <1> QED BY <1>2, <1>3, <1>8, <1>9, <1>11, FixKeeps

\* It cannot.
LEMMA FixRepoFailsKeeps ==
    ASSUME MovesInv, WorktreesApart, NEW r \in Repos, FixRepoFails(r)
    PROVE  MovesInv'
  <1>0. /\ Fixing("repair") /\ r \in command.queue /\ UNCHANGED <<place, torn>>
        /\ PartlyRepaired(r, Stale(r)) /\ Finish("error")
    BY DEF FixRepoFails
  <1>1. /\ DiskInv /\ EntryInv /\ command \in Commands /\ command.kind = "fix" /\ command.step = "repair"
        /\ FixInv /\ ~Running /\ "error" \in Results
    BY <1>0 DEF MovesInv, Fixing, Running, Results
  <1>2. command' \in Commands /\ SamePlan /\ command'.step = "done" /\ command'.result = "error"
    BY <1>0, <1>1, FinishFields
  <1>3. command'.kind = "fix"
    BY <1>1, <1>2 DEF SamePlan
  <1>4. PICK name \in Names : place[r] = BarePath(name)
    BY <1>0, <1>1 DEF FixInv
  <1>5. Nowhere \notin Stale(r) /\ place[r] # Nowhere
    BY <1>1, <1>4, StalePaths, HomesOfNames, HomeElements
  <1>6. DiskInv' /\ \A t \in Trees : EntryFine(t) => EntryFine(t)'
    BY <1>0, <1>1, <1>5, PartlyRepairedKeeps
  <1>7. EntryInv'
    BY <1>0, <1>1, <1>6, EntriesRepaired
  <1> QED BY <1>2, <1>3, <1>6, <1>7, FixClaims, FixKeeps

\* FixRepos is done.
LEMMA FinishFixKeeps ==
    ASSUME MovesInv, FinishFix
    PROVE  MovesInv'
  <1>0. /\ Fixing("repair") /\ command.queue = {} /\ UNCHANGED <<place, link, back, torn>> /\ Finish("ok")
    BY DEF FinishFix, disk
  <1>1. /\ DiskInv /\ EntryInv /\ command \in Commands /\ command.kind = "fix" /\ command.step = "repair"
        /\ FixInv /\ ~Running /\ "ok" \in Results
    BY <1>0 DEF MovesInv, Fixing, Running, Results
  <1>2. command' \in Commands /\ SamePlan /\ command'.step = "done"
    BY <1>0, <1>1, FinishFields
  <1>3. command'.kind = "fix"
    BY <1>1, <1>2 DEF SamePlan
  <1>4. DiskInv' /\ EntryInv'
    BY <1>0, <1>1, DiskUnchanged, EntryKept
  <1>5. ASSUME NEW t \in Trees \ torn, place[t] # Nowhere, Listed(RepoOf[t])' PROVE Sound(t)'
    <2>1. Listed(RepoOf[t])
      BY <1>0, <1>5, ListedSame, RepoOfTree
    <2>2. Sound(t)
      BY <1>0, <1>1, <1>5, <2>1 DEF FixInv
    <2> QED BY <2>2, <1>0 DEF Sound
  <1>6. FixInv'
    BY <1>0, <1>2, <1>5 DEF FixInv
  <1> QED BY <1>2, <1>3, <1>4, <1>6, FixKeeps

------------------------------------------------------------------------------
(***************************************************************************)
(* The other commands.                                                     *)
(***************************************************************************)

\* A command of one step, neither rename nor fix.
LEMMA OtherCommand ==
    ASSUME DiskInv', EntryInv', command' \in Commands, command'.kind \notin {"rename", "fix"}
    PROVE  MovesInv'
  BY NotRenaming, NotFixing DEF MovesInv

\* A repository without worktrees comes or goes.
LEMMA RepoChangeKeeps ==
    ASSUME MovesInv, Idle, NEW r \in Repos, NEW p, place' = [place EXCEPT ![r] = p],
           UNCHANGED <<link, back, torn>>,
           \A t \in Trees : RepoOf[t] = r => place[t] = Nowhere,
           p = Nowhere \/ \E name \in Names : p = BarePath(name) /\ ~Exists(p),
           command' \in Commands, command'.kind \notin {"rename", "fix"}
    PROVE  MovesInv'
  <1>1. DiskInv'
    BY RepoKeeps DEF MovesInv
  <1>2. ~Running
    BY DEF Idle, Running
  <1>3. place \in [Dirs -> Path]
    BY DEF MovesInv, DiskInv, DiskTyped
  <1>4. EntryInv'
    <2> SUFFICES ASSUME NEW t \in Trees \ torn, place'[t] # Nowhere PROVE EntryFine(t)'
      BY DEF EntryInv
    <2>1. place'[t] = place[t]
      BY <1>3, RepoOfTree
    <2>2. RepoOf[t] # r
      BY <2>1
    <2>3. place'[RepoOf[t]] = place[RepoOf[t]]
      BY <2>2, <1>3, RepoOfTree
    <2>4. EntryFine(t)
      BY <2>1, <1>2 DEF MovesInv, EntryInv
    <2> QED BY <2>1, <2>3, <2>4 DEF EntryFine
  <1> QED BY <1>1, <1>4, OtherCommand

\* `repo add`.
LEMMA AddRepoKeeps ==
    ASSUME MovesInv, NEW r \in Repos, NEW name \in Names, AddRepo(r, name)
    PROVE  MovesInv'
  <1> DEFINE p == BarePath(name)
  <1>0. /\ Idle /\ place[r] = Nowhere /\ ~Exists(p) /\ place' = [place EXCEPT ![r] = p]
        /\ UNCHANGED <<link, back, torn>>
        /\ command' = [NoCommand EXCEPT !.kind = "add", !.repo = r]
    BY DEF AddRepo
  <1>1. command' \in Commands /\ command'.kind = "add"
    <2>1. <<>> \in Path /\ <<>> \in Seq(Trees) /\ <<>> \in Plans
      BY EmptySeq DEF Path, Plans
    <2> QED BY <1>0, <2>1 DEF NoCommand, Commands, Kinds, Steps, Results, Nowhere
  <1>2. \A t \in Trees : RepoOf[t] = r => place[t] = Nowhere
    BY <1>0 DEF MovesInv, DiskInv, TreesInv, TreeInv
  <1> QED BY <1>0, <1>1, <1>2, RepoChangeKeeps

\* `repo remove`.
LEMMA RemoveRepoKeeps ==
    ASSUME MovesInv, NEW r \in Repos, RemoveRepo(r)
    PROVE  MovesInv'
  <1> DEFINE result == IF Entries(r) = {} THEN "ok" ELSE "error"
  <1>0. /\ Idle /\ UNCHANGED <<link, back, torn>>
        /\ place' = IF Entries(r) = {} THEN [place EXCEPT ![r] = Nowhere] ELSE place
        /\ command' = [NoCommand EXCEPT !.kind = "remove", !.repo = r, !.result = result]
    BY DEF RemoveRepo
  <1>1. result \in {"ok", "error"}
    OBVIOUS
  <1> HIDE DEF result
  <1>2. command' \in Commands /\ command'.kind = "remove"
    <2>1. <<>> \in Path /\ <<>> \in Seq(Trees) /\ <<>> \in Plans
      BY EmptySeq DEF Path, Plans
    <2> QED BY <1>0, <1>1, <2>1 DEF NoCommand, Commands, Kinds, Steps, Results, Nowhere
  <1>3. CASE Entries(r) = {}
    <2>1. \A t \in Trees : RepoOf[t] = r => place[t] = Nowhere
      BY <1>3 DEF Entries, MovesInv, DiskInv, TreesInv, TreeInv
    <2>2. place' = [place EXCEPT ![r] = Nowhere]
      BY <1>0, <1>3
    <2> QED BY <1>0, <1>2, <2>1, <2>2, RepoChangeKeeps
  <1>4. CASE Entries(r) # {}
    <2>1. place' = place /\ ~Running
      BY <1>0, <1>4 DEF Idle, Running
    <2>2. DiskInv' /\ EntryInv'
      BY <1>0, <2>1, DiskUnchanged, EntryKept DEF MovesInv
    <2> QED BY <1>2, <2>2, OtherCommand
  <1> QED BY <1>3, <1>4

\* A new worktree disturbs no entry.
LEMMA EntriesAttached ==
    ASSUME EntryInv, NEW t \in Trees, Sound(t)', UNCHANGED torn,
           \A d \in Dirs \ {t} : place'[d] = place[d],
           \A u \in Trees \ {t} : back'[u] = back[u] /\ link'[u] = link[u],
           ~Running \/ UNCHANGED command
    PROVE  EntryInv'
  <1> SUFFICES ASSUME NEW u \in Trees \ torn, place'[u] # Nowhere, ~(Running' /\ u \in DOMAIN command'.plan)
               PROVE  EntryFine(u)'
    BY DEF EntryInv
  <1>1. CASE u = t
    BY <1>1 DEF Sound, EntryFine
  <1>2. CASE u # t
    <2>1. ~(Running /\ u \in DOMAIN command.plan)
      BY DEF Running
    <2>2. place'[u] = place[u] /\ place'[RepoOf[u]] = place[RepoOf[u]]
      BY <1>2, RepoOfTree
    <2>3. EntryFine(u)
      BY <2>1, <2>2 DEF EntryInv
    <2> QED BY <1>2, <2>2, <2>3 DEF EntryFine
  <1> QED BY <1>1, <1>2

\* A worktree that is created while a rename runs.
LEMMA CreatedBeside ==
    ASSUME MovesInv, WorktreesApart, Running, UNCHANGED <<command, torn>>,
           NEW t \in Trees, BranchOf[t] # Detached, NEW name \in Names,
           place[RepoOf[t]] = BarePath(name),
           Attach(t, ManagedPath(name, BranchOf[t]))
    PROVE  MovesInv'
  <1> DEFINE path == ManagedPath(name, BranchOf[t])
  <1>0. /\ DiskInv /\ EntryInv /\ command \in Commands
        /\ PlanInv /\ ProgressInv /\ PlacesInv /\ NewcomersInv
        /\ \A u \in DOMAIN command.plan : Planned(u)
    BY DEF MovesInv, RenameInv, PlacesInv
  <1>b. BranchOf[t] \in STRING \ {".git"}
    BY NamesAssumption
  <1>1. path \in Path /\ path # Nowhere /\ ~InHome(path)
    BY <1>b, ManagedElements, ManagedOutside
  <1>2. place[RepoOf[t]] # Nowhere
    BY HomesOfNames, HomeElements
  <1>a. place[t] = Nowhere /\ ~Exists(path)
    BY DEF Attach
  <1>3. /\ DiskInv'
        /\ place'[t] = path /\ Sound(t)'
        /\ \A d \in Dirs \ {t} : place'[d] = place[d]
        /\ \A r \in Repos : place'[r] = place[r]
        /\ \A u \in Trees \ {t} : back'[u] = back[u] /\ link'[u] = link[u]
    <2> HIDE DEF path
    <2> QED BY <1>0, <1>1, <1>2, AttachKeeps DEF path
  <1>p. /\ command'.plan = command.plan /\ command'.repo = command.repo /\ command'.from = command.from
        /\ command'.to = command.to /\ command'.step = command.step /\ command'.kind = command.kind
        /\ command'.todo = command.todo /\ command'.moved = command.moved
    OBVIOUS
  <1>4. Running'
    BY DEF Running
  <1>5. EntryInv'
    BY <1>0, <1>3, EntriesAttached
  <1>6. PlanInv' /\ ProgressInv' /\ BareNow' = BareNow
    BY <1>0 DEF PlanInv, ProgressInv, BareNow, Pathed
  <1>7. ASSUME NEW u \in DOMAIN command.plan
        PROVE  /\ u # t /\ u \in Trees /\ place'[u] = place[u] /\ back'[u] = back[u] /\ link'[u] = link[u]
               /\ place'[RepoOf[u]] = place[RepoOf[u]]
    <2>1. u # t /\ u \in Trees
      BY <1>0, <1>a, <1>7, PlanPaths, PlannedPlace
    <2> QED BY <2>1, <1>3, RepoOfTree
  <1>8. ASSUME NEW u \in DOMAIN command.plan PROVE Planned(u)'
    <2>1. Carried(u) => Carried(u)'
      BY <1>6, <1>7, <1>p DEF Carried
    <2>2. OnItsWay(u) => OnItsWay(u)'
      BY <1>7, <1>p DEF OnItsWay
    <2> QED BY <1>0, <2>1, <2>2, <1>p DEF Planned
  <1>9. ASSUME RepoOf[t] = command.repo, NEW u \in DOMAIN command.plan
        PROVE  path \notin {command.plan[u].from, command.plan[u].to}
    <2>0. /\ u \in Trees /\ u \in Dirs /\ RepoOf[u] = RepoOf[t] /\ u # t /\ Planned(u) /\ Pathed(u)
          /\ command.from \in Names /\ command.to \in Names
          /\ InHome(command.plan[u].from) => command.plan[u].to = command.plan[u].from
      BY <1>0, <1>7, <1>9, PlanPaths DEF PlanInv
    <2>1. CASE command.plan[u].from = command.plan[u].to
      <3>1. CASE InHome(command.plan[u].from)
        BY <2>1, <3>1, <1>1
      <3>2. CASE ~InHome(command.plan[u].from)
        <4>1. place[u] = command.plan[u].from
          BY <2>0, <2>1, <3>2 DEF Planned, OnItsWay
        <4>2. ~Within(path, place[u])
          BY <2>0, <1>a, FreePlace
        <4>3. Within(path, path)
          BY <1>1, WithinSelf
        <4> QED BY <2>1, <4>1, <4>2, <4>3
      <3> QED BY <3>1, <3>2
    <2>2. CASE command.plan[u].from # command.plan[u].to
      <3>1. /\ command.plan[u].from = ManagedPath(command.from, BranchOf[u])
            /\ command.plan[u].to = ManagedPath(command.to, BranchOf[u])
        BY <2>0, <2>2 DEF Pathed
      <3>2. BranchOf[u] \in STRING \ {".git"} /\ BranchOf[t] # BranchOf[u]
        BY <2>0, NamesAssumption, BranchAssumption
      <3>a. \A n \in Names : \A b, c \in STRING \ {".git"} : ManagedPath(name, b) = ManagedPath(n, c) => b = c
        BY ManagedApart
      <3>3. ASSUME ManagedPath(name, BranchOf[t]) = ManagedPath(command.from, BranchOf[u]) PROVE FALSE
        <4>1. BranchOf[t] = BranchOf[u]
          BY <1>b, <2>0, <3>2, <3>3, <3>a
        <4> QED BY <4>1, <3>2
      <3>4. ASSUME ManagedPath(name, BranchOf[t]) = ManagedPath(command.to, BranchOf[u]) PROVE FALSE
        <4>1. BranchOf[t] = BranchOf[u]
          BY <1>b, <2>0, <3>2, <3>4, <3>a
        <4> QED BY <4>1, <3>2
      <3> QED BY <3>1, <3>3, <3>4
    <2> QED BY <2>1, <2>2
  <1>10. NewcomersInv'
    <2> SUFFICES ASSUME NEW u \in Trees \ DOMAIN command.plan, RepoOf[u] = command.repo, place'[u] # Nowhere
                 PROVE  Newcomer(u)'
      BY <1>p DEF NewcomersInv
    <2>1. CASE u = t
      <3>1. back'[t] = path
        BY <1>3 DEF Sound
      <3>2. \A v \in DOMAIN command.plan : path \notin {command.plan[v].from, command.plan[v].to}
        BY <2>1, <1>9
      <3> HIDE DEF path
      <3> QED BY <2>1, <3>1, <3>2, <1>1, <1>3, <1>p DEF Newcomer
    <2>2. CASE u # t
      <3>1. place'[u] = place[u] /\ back'[u] = back[u]
        BY <2>2, <1>3, RepoOfTree
      <3>2. Newcomer(u)
        BY <3>1, <1>0 DEF NewcomersInv
      <3> QED BY <3>1, <3>2, <1>p DEF Newcomer
    <2> QED BY <2>1, <2>2
  <1>11. PlacesInv'
    <2>1. place'[command.repo] = BareNow'
      BY <1>0, <1>3, <1>6, BareHomes DEF PlacesInv
    <2>2. command.step = "cleanup" => Stands(command.to, To)'
      <3> SUFFICES ASSUME command.step = "cleanup" PROVE Stands(command.to, To)'
        OBVIOUS
      <3>1. Stands(command.to, To)
        BY <1>0 DEF PlacesInv
      <3>2. place'[command.repo] = place[command.repo]
        BY <1>0, <1>3, BareHomes
      <3> QED BY <3>1, <3>2, <1>7, <1>p DEF Stands, To, Sound
    <2> QED BY <2>1, <2>2, <1>8, <1>10, <1>p DEF PlacesInv
  <1> QED BY <1>0, <1>3, <1>4, <1>5, <1>6, <1>11, MovesRun

\* A worktree that is created while a fix runs.
LEMMA CreatedDuringFix ==
    ASSUME FixInv, command \in Commands, command.kind = "fix", UNCHANGED <<command, torn>>,
           NEW t \in Trees, place[t] = Nowhere, Sound(t)',
           \A d \in Dirs \ {t} : place'[d] = place[d],
           \A u \in Trees \ {t} : back'[u] = back[u] /\ link'[u] = link[u]
    PROVE  FixInv'
  <1>r. \A r \in Repos : place'[r] = place[r]
    BY RepoOfTree DEF Dirs
  <1>q. command.queue \subseteq Repos
    BY DEF Commands
  <1>1. ASSUME NEW p, Exists(p) PROVE Exists(p)'
    <2>1. CASE \E d \in Dirs : Within(p, place[d])
      <3>1. PICK d \in Dirs : Within(p, place[d])
        BY <2>1
      <3>2. d # t
        BY <3>1 DEF Within
      <3>3. Within(p, place'[d])
        BY <3>1, <3>2
      <3> QED BY <3>3 DEF Exists
    <2>2. CASE \E u \in Trees : place[u] # Nowhere /\ p = BarePath(place[u])
      <3>1. PICK u \in Trees : place[u] # Nowhere /\ p = BarePath(place[u])
        BY <2>2
      <3>2. place'[u] = place[u]
        BY <3>1, RepoOfTree
      <3> QED BY <3>1, <3>2 DEF Exists
    <2> QED BY <2>1, <2>2, <1>1 DEF Exists
  <1>2. ASSUME NEW r \in Repos, Listed(r)' PROVE Listed(r)
    <2>1. NameOf(r)' = NameOf(r)
      BY <1>r DEF NameOf
    <2> QED BY <2>1, <1>1, <1>2, <1>r DEF Listed
  <1>3. ASSUME NEW u \in Trees \ torn, place'[u] # Nowhere, Listed(RepoOf[u])',
               \A v \in Trees \ torn : place[v] # Nowhere /\ Listed(RepoOf[v]) /\ RepoOf[v] = RepoOf[u] => Sound(v)
        PROVE  Sound(u)'
    <2>1. CASE u = t
      BY <2>1
    <2>2. CASE u # t
      <3>1. place'[u] = place[u] /\ place'[RepoOf[u]] = place[RepoOf[u]]
        BY <2>2, RepoOfTree
      <3>2. Sound(u)
        BY <1>2, <1>3, <3>1, RepoOfTree
      <3> QED BY <2>2, <3>1, <3>2 DEF Sound
    <2> QED BY <2>1, <2>2
  <1>4. command.step = "repair" => \A r \in command.queue : \E name \in Names : place'[r] = BarePath(name)
    BY <1>q, <1>r DEF FixInv
  <1>5. ASSUME command.step = "repair" \/ (command.step = "done" /\ command.result = "ok"),
               NEW u \in Trees \ torn, place'[u] # Nowhere, Listed(RepoOf[u])',
               command.step = "repair" => RepoOf[u] \notin command.queue
        PROVE  Sound(u)'
    <2>1. \A v \in Trees \ torn : place[v] # Nowhere /\ Listed(RepoOf[v]) /\ RepoOf[v] = RepoOf[u] => Sound(v)
      BY <1>5 DEF FixInv
    <2> QED BY <2>1, <1>3, <1>5
  <1> QED BY <1>4, <1>5 DEF FixInv

\* `create`, alone or beside a rename or a fix.
LEMMA CreateWorktreeKeeps ==
    ASSUME MovesInv, WorktreesApart, NEW t \in Trees, CreateWorktree(t)
    PROVE  MovesInv'
  <1>1. PICK name \in Names : place[RepoOf[t]] = BarePath(name)
    BY DEF CreateWorktree, Listed
  <1> DEFINE path == ManagedPath(name, BranchOf[t])
  <1>2. NameOf(RepoOf[t]) = name
    BY <1>1, HomesOfNames DEF NameOf
  <1>3. /\ BranchOf[t] # Detached /\ Attach(t, path) /\ UNCHANGED torn
        /\ command' = IF Idle THEN NoCommand ELSE command
    BY <1>2 DEF CreateWorktree, Attach
  <1>4. path \in Path /\ path # Nowhere /\ ~InHome(path)
    BY NamesAssumption, ManagedElements, ManagedOutside
  <1>5. place[RepoOf[t]] # Nowhere
    BY <1>1, HomesOfNames, HomeElements
  <1>6. /\ DiskInv' /\ Sound(t)' /\ place[t] = Nowhere
        /\ \A d \in Dirs \ {t} : place'[d] = place[d]
        /\ \A u \in Trees \ {t} : back'[u] = back[u] /\ link'[u] = link[u]
    <2>1. DiskInv /\ place[t] = Nowhere
      BY <1>3 DEF MovesInv, Attach
    <2> HIDE DEF path
    <2> QED BY <2>1, <1>3, <1>4, <1>5, AttachKeeps
  <1>7. CASE Idle
    <2>1. ~Running /\ command' = NoCommand
      BY <1>3, <1>7 DEF Idle, Running
    <2>2. EntryInv'
      BY <1>3, <1>6, <2>1, EntriesAttached DEF MovesInv
    <2> QED BY <1>6, <2>1, <2>2, NoPlan DEF MovesInv
  <1>8. CASE ~Idle /\ command.kind = "rename"
    <2>1. Running /\ command' = command
      BY <1>3, <1>8 DEF Idle, Running
    <2> QED BY <1>1, <1>3, <2>1, CreatedBeside
  <1>9. CASE ~Idle /\ command.kind # "rename"
    <2>1. ~Running /\ command' = command
      BY <1>3, <1>9 DEF Running
    <2>2. EntryInv'
      BY <1>3, <1>6, <2>1, EntriesAttached DEF MovesInv
    <2>3. FixInv'
      <3>1. CASE command.kind = "fix"
        BY <1>3, <1>6, <2>1, <3>1, CreatedDuringFix DEF MovesInv
      <3>2. CASE command.kind # "fix"
        BY <2>1, <3>2, NotFixing
      <3> QED BY <3>1, <3>2
    <2> QED BY <1>6, <1>9, <2>1, <2>2, <2>3, NotRenaming DEF MovesInv
  <1> QED BY <1>7, <1>8, <1>9

\* `remove`.
LEMMA RemoveWorktreeKeeps ==
    ASSUME MovesInv, NEW t \in Trees, RemoveWorktree(t)
    PROVE  MovesInv'
  <1>0. /\ Idle /\ command' = NoCommand /\ UNCHANGED torn
        /\ place' = [place EXCEPT ![t] = Nowhere] /\ back' = [back EXCEPT ![t] = Nowhere]
        /\ link' = [link EXCEPT ![t] = Nowhere]
    BY DEF RemoveWorktree
  <1>1. DiskInv' /\ DiskTyped /\ ~Running
    BY <1>0, RemoveTreeKeeps DEF MovesInv, DiskInv, Idle, Running
  <1>2. EntryInv'
    <2> SUFFICES ASSUME NEW u \in Trees \ torn, place'[u] # Nowhere PROVE EntryFine(u)'
      BY <1>0 DEF EntryInv
    <2>1. /\ u # t /\ place'[u] = place[u] /\ back'[u] = back[u] /\ link'[u] = link[u]
          /\ place'[RepoOf[u]] = place[RepoOf[u]]
      BY <1>0, <1>1, RepoOfTree DEF DiskTyped
    <2>2. EntryFine(u)
      BY <2>1, <1>1 DEF MovesInv, EntryInv
    <2> QED BY <2>1, <2>2 DEF EntryFine
  <1> QED BY <1>0, <1>1, <1>2, NoPlan DEF MovesInv

\* The review checkout is made, or repaired after a move.
LEMMA PrepareReviewKeeps ==
    ASSUME MovesInv, WorktreesApart, NEW t \in Trees, PrepareReview(t)
    PROVE  MovesInv'
  <1> DEFINE bare == place[RepoOf[t]]
  <1>0. /\ Idle /\ command' = NoCommand /\ Reviewable(RepoOf[t])
        /\ \/ Attach(t, ReviewPath(bare))
           \/ Movable(t) /\ Repaired(RepoOf[t], {place[t]}) /\ torn' = torn \ {t} /\ UNCHANGED place
    BY DEF PrepareReview
  <1>1. DiskInv /\ EntryInv /\ ~Running /\ RepoOf[t] \in Repos
    BY <1>0, RepoOfTree DEF MovesInv, Idle, Running
  <1>2. bare # Nowhere /\ bare \in Path
    BY <1>0, <1>1, DiskTypes DEF Reviewable, DiskInv, TreesInv, TreeInv
  <1>3. CASE Attach(t, ReviewPath(bare))
    <2> DEFINE path == ReviewPath(bare)
    <2>1. path \in Path /\ path # Nowhere /\ Within(bare, path)
      BY <1>2, ReviewElements
    <2>2. UNCHANGED torn /\ Attach(t, path)
      BY <1>3 DEF Attach
    <2> HIDE DEF path
    <2>3. /\ DiskInv' /\ Sound(t)'
          /\ \A d \in Dirs \ {t} : place'[d] = place[d]
          /\ \A u \in Trees \ {t} : back'[u] = back[u] /\ link'[u] = link[u]
      BY <1>1, <1>2, <2>1, <2>2, AttachKeeps
    <2>4. EntryInv'
      BY <1>1, <2>2, <2>3, EntriesAttached
    <2> QED BY <1>0, <2>3, <2>4, NoPlan DEF MovesInv
  <1>4. CASE Movable(t) /\ Repaired(RepoOf[t], {place[t]}) /\ torn' = torn \ {t} /\ UNCHANGED place
    <2> DEFINE paths == {place[t]}
               r == RepoOf[t]
    <2>1. Nowhere \notin paths /\ t \in At(r, paths)
      BY <1>4 DEF Movable, IsReview, At
    <2>2. Repaired(r, paths) /\ place[r] # Nowhere /\ r \in Repos
      BY <1>1, <1>2, <1>4
    <2> HIDE DEF paths, r
    <2>3. PartlyRepaired(r, paths) /\ Sound(t)'
      BY <1>1, <1>4, <2>1, <2>2, RepairedSound
    <2>4. DiskInv' /\ \A u \in Trees : EntryFine(u) => EntryFine(u)'
      BY <1>1, <1>4, <2>1, <2>2, <2>3, PartlyRepairedKeeps
    <2>5. EntryInv'
      <3> SUFFICES ASSUME NEW u \in Trees, u = t \/ u \notin torn, place'[u] # Nowhere PROVE EntryFine(u)'
        BY <1>4 DEF EntryInv
      <3>1. CASE u = t
        BY <3>1, <2>3 DEF Sound, EntryFine
      <3>2. CASE u # t
        BY <3>2, <1>1, <1>4, <2>4 DEF EntryInv
      <3> QED BY <3>1, <3>2
    <2> QED BY <1>0, <2>4, <2>5, NoPlan DEF MovesInv
  <1> QED BY <1>0, <1>3, <1>4

\* A process dies.
LEMMA KillKeeps ==
    ASSUME MovesInv, Kill
    PROVE  MovesInv'
  <1>0. command' = NoCommand /\ UNCHANGED <<place, link, back>> /\ Tear
    BY DEF Kill, disk
  <1>1. DiskInv' /\ EntryInv'
    BY <1>0, DiskUnchanged, EntryTorn DEF MovesInv
  <1> QED BY <1>0, <1>1, NoPlan DEF MovesInv

\* Nothing happens.
LEMMA StutterKeeps ==
    ASSUME MovesInv, UNCHANGED vars
    PROVE  MovesInv'
  <1>0. UNCHANGED <<place, link, back, torn>> /\ command' = command
    BY DEF vars
  <1>1. DiskInv' /\ command' \in Commands
    BY <1>0, DiskUnchanged DEF MovesInv
  <1>2. EntryInv'
    BY <1>0 DEF MovesInv, EntryInv, EntryFine, Running
  <1>3. RenameInv'
    <2> SUFFICES ASSUME Running' PROVE PlanInv' /\ ProgressInv' /\ PlacesInv'
      BY DEF RenameInv
    <2>1. PlanInv /\ ProgressInv /\ PlacesInv
      BY <1>0 DEF MovesInv, RenameInv, Running
    <2>2. BareNow' = BareNow
      BY <1>0 DEF BareNow
    <2>3. \A t \in DOMAIN command.plan : Planned(t) => Planned(t)'
      BY <1>0, <2>2 DEF Planned, Carried, OnItsWay
    <2>4. PlacesInv'
      BY <1>0, <2>1, <2>2, <2>3 DEF PlacesInv, NewcomersInv, Newcomer, Stands, To, Sound
    <2> QED BY <1>0, <2>1, <2>4 DEF PlanInv, Pathed, ProgressInv
  <1>4. FixInv'
    <2>1. \A r \in Repos : Listed(r)' <=> Listed(r)
      BY <1>0, ListedSame
    <2>2. \A t \in Trees : Sound(t)' <=> Sound(t)
      BY <1>0 DEF Sound
    <2>3. FixInv
      BY DEF MovesInv
    <2> QED BY <1>0, <2>1, <2>2, <2>3, RepoOfTree DEF FixInv
  <1>5. RenameIsAllOrNothing' /\ RenamedRepoWorks'
    BY <1>0 DEF MovesInv, RenameIsAllOrNothing, RenamedRepoWorks, Finished, Idle, Stands, From, To, Sound
  <1> QED BY <1>1, <1>2, <1>3, <1>4, <1>5 DEF MovesInv
-----------------------------------------------------------------------------
\* The invariant holds at first.
LEMMA MovesStart ==
    ASSUME Init, WorktreesApart
    PROVE  MovesInv
  <1>1. DiskInv
    BY DiskStarts
  <1>2. /\ command \in Commands /\ command.kind = "none" /\ command.step = "done"
    BY NoCommandType DEF Init
  <1>3. EntryInv
    BY DEF Init, EntryInv, EntryFine
  <1> QED BY <1>1, <1>2, <1>3
        DEF MovesInv, RenameInv, Running, FixInv, RenameIsAllOrNothing, RenamedRepoWorks, Finished

\* Every step keeps it.
LEMMA MovesStep ==
    ASSUME MovesInv, WorktreesApart, [Next]_vars
    PROVE  MovesInv'
  <1>1. CASE Rename
    <2>1. CASE \E r \in Repos, new \in Names, here \in Trees \cup {None} : StartRename(r, new, here)
      BY <2>1, StartRenameKeeps
    <2>2. CASE \E t \in Trees : MoveTree(t)
      BY <2>2, MoveTreeKeeps
    <2>3. CASE MoveBare
      BY <2>3, MoveBareKeeps
    <2>4. CASE MoveFails \/ UndoTreeFails
      BY <2>4, TurningBackKeeps
    <2>5. CASE RepairMoved
      BY <2>5, RepairMovedKeeps
    <2>6. CASE RepairRefused \/ RepairFails
      BY <2>6, RepairRefusedKeeps
    <2>7. CASE CleanUp
      BY <2>7, CleanUpKeeps
    <2>8. CASE UndoBare
      BY <2>8, UndoBareKeeps
    <2>9. CASE UndoBareFails
      BY <2>9, UndoBareFailsKeeps
    <2>10. CASE UndoTree
      BY <2>10, UndoTreeKeeps
    <2>11. CASE UndoRepair
      BY <2>11, UndoRepairKeeps
    <2>12. CASE UndoRepairFails
      BY <2>12, UndoRepairFailsKeeps
    <2> QED BY <1>1, <2>1, <2>2, <2>3, <2>4, <2>5, <2>6, <2>7, <2>8, <2>9, <2>10, <2>11, <2>12 DEF Rename
  <1>2. CASE Fix
    <2>1. CASE StartFix
      BY <2>1, StartFixKeeps
    <2>2. CASE \E r \in Repos : MoveLegacy(r) \/ MoveLegacyFails(r)
      BY <2>2, MoveLegacyKeeps
    <2>3. CASE ListRepos
      BY <2>3, ListReposKeeps
    <2>4. CASE \E r \in Repos : FixRepo(r)
      BY <2>4, FixRepoKeeps
    <2>5. CASE \E r \in Repos : FixRepoFails(r)
      BY <2>5, FixRepoFailsKeeps
    <2>6. CASE FinishFix
      BY <2>6, FinishFixKeeps
    <2> QED BY <1>2, <2>1, <2>2, <2>3, <2>4, <2>5, <2>6 DEF Fix
  <1>3. CASE \E r \in Repos : RemoveRepo(r) \/ \E name \in Names : AddRepo(r, name)
    BY <1>3, RemoveRepoKeeps, AddRepoKeeps
  <1>4. CASE \E t \in Trees : CreateWorktree(t) \/ RemoveWorktree(t) \/ PrepareReview(t)
    BY <1>4, CreateWorktreeKeeps, RemoveWorktreeKeeps, PrepareReviewKeeps
  <1>5. CASE Kill
    BY <1>5, KillKeeps
  <1>6. CASE UNCHANGED vars
    BY <1>6, StutterKeeps
  <1> QED BY <1>1, <1>2, <1>3, <1>4, <1>5, <1>6 DEF Next

\* The invariant.
THEOREM MovesInvariant == Spec /\ []WorktreesApart => []MovesInv
  <1>1. Init /\ WorktreesApart => MovesInv
    BY MovesStart
  <1>2. MovesInv /\ WorktreesApart /\ [Next]_vars => MovesInv'
    BY MovesStep
  <1> QED BY <1>1, <1>2, PTL DEF Spec

\* While no directory lies in a worktree, a rename that reports an error and no
\* failed rollback step has left the repository, and every worktree of its
\* plan, wholly under the old name or wholly under the new one (apply, rollback).
THEOREM RenamesWholly == Spec /\ []WorktreesApart => []RenameIsAllOrNothing
  <1>1. MovesInv => RenameIsAllOrNothing
    BY DEF MovesInv
  <1> QED BY <1>1, MovesInvariant, PTL

\* While no directory lies in a worktree, a rename that succeeds has kept every
\* worktree linked that was linked when it began, and sends the shell to the
\* place where the directory it was in is now (apply, repairAndVerify,
\* findCurrentTargetDirectory).
THEOREM RenamesWork == Spec /\ []WorktreesApart => []RenamedRepoWorks
  <1>1. MovesInv => RenamedRepoWorks
    BY DEF MovesInv
  <1> QED BY <1>1, MovesInvariant, PTL

\* While no directory lies in a worktree, a fix that succeeds has linked every
\* worktree of the repositories that are listed, but those that a rename left
\* torn (FixRepos, repairStaleWorktrees, movedInternalWorktree).
THEOREM FixLinks == Spec /\ []WorktreesApart => []FixLinksWorktrees
  <1>1. MovesInv => FixLinksWorktrees
    BY DEF MovesInv, FixInv, FixLinksWorktrees, Finished, Idle
  <1> QED BY <1>1, MovesInvariant, PTL

\* The invariant shows that a review checkout can be repaired.
LEMMA MovedCheckout ==
    ASSUME DiskInv, NEW t \in Trees, IsReview(t), Prunable(t)
    PROVE  Movable(t)
  <1> DEFINE bare == place[RepoOf[t]]
  <1>1. place[t] # Nowhere /\ place[t] = ReviewPath(bare) /\ back[t] # place[t]
    BY DEF IsReview, Prunable
  <1>2. TreeInv(t)
    BY DEF DiskInv, TreesInv
  <1>3. /\ bare \in Homes /\ bare \in Path /\ bare # Nowhere
        /\ link[t] \in Homes /\ link[t] \in Path /\ link[t] # Nowhere /\ back[t] \in Path
    BY <1>1, <1>2, InsideIsInHome, HomeElements, DiskTypes DEF TreeInv
  <1>4. Inside(t)
    <2>1. Within(bare, place[t])
      BY <1>1, <1>3, ReviewElements
    <2> QED BY <1>1, <1>3, <2>1, InsideIsInHome DEF InHome
  <1>5. Within(link[t], back[t]) /\ Rebase(link[t], bare, back[t]) = place[t]
    BY <1>1, <1>4 DEF Inside
  <1>6. Rebase(bare, link[t], place[t]) = back[t]
    BY <1>3, <1>5, RebaseAgain, RebaseSelf
  <1>7. back[t] = ReviewPath(link[t])
    BY <1>1, <1>3, <1>6, ReviewElements
  <1>8. link[t] # bare
    BY <1>1, <1>7
  <1> QED BY <1>7, <1>8 DEF Movable

\* While no directory lies in a worktree, the next review can repair a review
\* checkout that moved with its bare directory (repairMovedReviewCheckout).
THEOREM CheckoutRecovers == Spec /\ []WorktreesApart => []ReviewCheckoutRecovers
  <1>1. MovesInv => ReviewCheckoutRecovers
    BY MovedCheckout DEF MovesInv, ReviewCheckoutRecovers
  <1> QED BY <1>1, MovesInvariant, PTL

------------------------------------------------------------------------------
(***************************************************************************)
(* Layouts in which no directory comes to lie in a worktree.               *)
(***************************************************************************)

\* Of two paths above a third, one is above the other.
LEMMA PrefixesCompare ==
    ASSUME NEW p \in Path, p # Nowhere, NEW q \in Path, q # Nowhere, NEW x \in Path, Within(p, x), Within(q, x)
    PROVE  Within(p, q) \/ Within(q, p)
  <1>0. Len(p) \in Nat /\ Len(q) \in Nat
    BY LenProperties DEF Path
  <1>1. /\ \A i \in 1 .. Len(p) : x[i] = p[i]
        /\ \A i \in 1 .. Len(q) : x[i] = q[i]
    BY WithinElements
  <1>2. CASE Len(p) <= Len(q)
    <2>1. \A i \in 1 .. Len(p) : q[i] = p[i]
      BY <1>0, <1>1, <1>2
    <2> QED BY <1>2, <2>1, WithinElements
  <1>3. CASE Len(q) <= Len(p)
    <2>1. \A i \in 1 .. Len(q) : p[i] = q[i]
      BY <1>0, <1>1, <1>3
    <2> QED BY <1>3, <2>1, WithinElements
  <1> QED BY <1>0, <1>2, <1>3

\* Within is transitive.
LEMMA WithinTransitive ==
    ASSUME NEW p \in Path, NEW q \in Path, NEW x \in Path, Within(p, q), Within(q, x)
    PROVE  Within(p, x)
  <1>0. Len(p) \in Nat /\ Len(q) \in Nat /\ Len(x) \in Nat
    BY LenProperties DEF Path
  <1>1. /\ Len(p) <= Len(q) /\ Len(q) <= Len(x) /\ x # Nowhere
        /\ \A i \in 1 .. Len(p) : q[i] = p[i]
        /\ \A i \in 1 .. Len(q) : x[i] = q[i]
    BY WithinElements
  <1>2. Len(p) <= Len(x) /\ \A i \in 1 .. Len(p) : x[i] = p[i]
    BY <1>0, <1>1
  <1> QED BY <1>1, <1>2, WithinElements

\* The places of the standard layout are in no bare directory.
LEMMA ManagedPathsAre ==
    ASSUME NEW p \in ManagedPaths
    PROVE  p \in Path /\ p # Nowhere /\ ~InHome(p)
  <1>1. PICK name \in Names, t \in Trees : p = ManagedPath(name, BranchOf[t])
    BY DEF ManagedPaths
  <1>2. BranchOf[t] \in STRING \ {".git"}
    BY NamesAssumption
  <1> QED BY <1>1, <1>2, ManagedElements, ManagedOutside

\* A path beside the standard layout.
Beside(p) == \A q \in Homes \cup ManagedPaths : Apart(p, q)

\* A worktree is at a place of the standard layout, is the review checkout, or
\* is where it was at first, beside the layout.
Spot(start, t) ==
    \/ place[t] \in ManagedPaths \cup {Nowhere, ReviewPath(place[RepoOf[t]])}
    \/ place[t] = start[t] /\ Beside(start[t])

\* Every worktree is at such a place.
SpotsInv == \E start \in Starts : \A t \in Trees : Spot(start, t)

\* No two worktrees are at the same place.
TwoPlaces == \A t, u \in Trees : place[t] = place[u] => t = u \/ place[t] = Nowhere

\* The invariant of the layout.
LayoutInv ==
    /\ place \in [Dirs -> Path] /\ ReposInv /\ SpotsInv /\ TwoPlaces
    /\ \A t \in Trees : place[t] # Nowhere => place[RepoOf[t]] # Nowhere

\* It keeps the directories out of the worktrees.
LEMMA SpotsApart ==
    ASSUME SeparateLayout, LayoutInv
    PROVE  WorktreesApart
  <1>i. /\ place \in [Dirs -> Path] /\ ReposInv /\ SpotsInv /\ TwoPlaces
        /\ \A t \in Trees : place[t] # Nowhere => place[RepoOf[t]] # Nowhere
    BY DEF LayoutInv
  <1>0. PICK start \in Starts : \A t \in Trees : Spot(start, t)
    BY <1>i DEF SpotsInv
  <1> SUFFICES ASSUME NEW t \in Trees, place[t] # Nowhere, NEW d \in Dirs \ {t}, Within(place[t], place[d])
               PROVE  FALSE
    BY DEF WorktreesApart
  <1> DEFINE p == place[t]
             x == place[d]
  <1>1. /\ t \in Dirs /\ p \in Path /\ p # Nowhere /\ x \in Path /\ x # Nowhere /\ Within(p, x) /\ IsPrefix(p, x)
    BY <1>i, RepoOfTree DEF Within
  <1>2. ASSUME NEW u \in Trees, place[u] # Nowhere
        PROVE  /\ place[RepoOf[u]] \in Homes /\ place[RepoOf[u]] \in Path /\ place[RepoOf[u]] # Nowhere
               /\ ReviewPath(place[RepoOf[u]]) \in Path
               /\ Within(place[RepoOf[u]], ReviewPath(place[RepoOf[u]]))
               /\ ~Within(ReviewPath(place[RepoOf[u]]), place[RepoOf[u]])
    <2>1. place[RepoOf[u]] \in Homes
      BY <1>i, <1>2, RepoOfTree DEF ReposInv
    <2>2. place[RepoOf[u]] \in Path /\ place[RepoOf[u]] # Nowhere
      BY <2>1, HomeElements
    <2> QED BY <2>1, <2>2, ReviewElements
  <1>3. \A h \in Homes : h \in Path /\ h # Nowhere
    BY HomeElements
  <1>4. \A m \in ManagedPaths : m \in Path /\ m # Nowhere /\ ~InHome(m)
    BY ManagedPathsAre
  <1>5. \A m \in ManagedPaths : \A q \in Homes \cup ManagedPaths : Within(m, q) => m = q
    BY DEF SeparateLayout, Within
  <1>6. ASSUME NEW u \in Trees, place[u] # Nowhere
        PROVE  \/ place[u] \in ManagedPaths
               \/ place[u] = ReviewPath(place[RepoOf[u]])
               \/ place[u] = start[u] /\ Beside(start[u])
    BY <1>0, <1>6 DEF Spot
  <1>7. ASSUME NEW q \in Path, Beside(q), q # Nowhere
        PROVE  /\ ~InHome(q)
               /\ \A h \in Homes : ~Within(q, h)
               /\ \A m \in ManagedPaths : ~Within(q, m) /\ ~Within(m, q)
    BY <1>7 DEF Beside, Apart, Within, InHome
  <1>8. CASE d \in Repos
    <2>1. x \in Homes
      BY <1>i, <1>1, <1>8 DEF ReposInv
    <2>2. CASE p \in ManagedPaths
      <3>1. p = x
        BY <1>1, <1>5, <2>1, <2>2
      <3>2. InHome(p)
        BY <1>1, <2>1, <3>1 DEF InHome
      <3> QED BY <3>2, <1>4, <2>2
    <2>3. CASE p = ReviewPath(place[RepoOf[t]])
      <3>1. Within(place[RepoOf[t]], x)
        BY <1>1, <1>2, <2>3, WithinTransitive
      <3>2. place[RepoOf[t]] = x
        BY <1>2, <2>1, <3>1, HomeWithin
      <3> QED BY <3>2, <1>1, <1>2, <2>3
    <2>4. CASE p = start[t] /\ Beside(start[t])
      BY <2>1, <2>4, <1>1, <1>7
    <2> QED BY <2>2, <2>3, <2>4, <1>6
  <1>9. CASE d \in Trees
    <2>0. d # t /\ x # p
      BY <1>i, <1>1, <1>9 DEF TwoPlaces
    <2>1. CASE x \in ManagedPaths
      <3>1. CASE p \in ManagedPaths
        BY <1>1, <1>5, <2>0, <2>1, <3>1
      <3>2. CASE p = ReviewPath(place[RepoOf[t]])
        <4>1. Within(place[RepoOf[t]], x)
          BY <1>1, <1>2, <3>2, WithinTransitive
        <4> QED BY <4>1, <1>2, <1>4, <2>1 DEF InHome
      <3>3. CASE p = start[t] /\ Beside(start[t])
        BY <3>3, <2>1, <1>1, <1>7
      <3> QED BY <3>1, <3>2, <3>3, <1>6
    <2>2. CASE x = ReviewPath(place[RepoOf[d]])
      <3> DEFINE bare == place[RepoOf[d]]
      <3>0. bare \in Homes /\ bare \in Path /\ bare # Nowhere /\ Within(bare, x)
        BY <1>1, <1>2, <1>9, <2>2
      <3> HIDE DEF bare
      <3>1. Within(p, bare) \/ Within(bare, p)
        BY <1>1, <3>0, PrefixesCompare
      <3>2. CASE p \in ManagedPaths
        <4>1. ~InHome(p)
          BY <1>4, <3>2
        <4>2. Within(bare, p) => FALSE
          BY <3>0, <4>1 DEF InHome
        <4>3. Within(p, bare) => p = bare
          BY <1>5, <3>0, <3>2
        <4> QED BY <3>1, <4>2, <4>3
      <3>3. CASE p = ReviewPath(place[RepoOf[t]])
        <4>1. Within(place[RepoOf[t]], x)
          BY <1>1, <1>2, <3>3, WithinTransitive
        <4>2. place[RepoOf[t]] = bare
          BY <1>1, <1>2, <3>0, <4>1, HomesApart
        <4> QED BY <4>2, <3>3, <2>0, <2>2 DEF bare
      <3>4. CASE p = start[t] /\ Beside(start[t])
        BY <3>0, <3>1, <3>4, <1>1, <1>7 DEF InHome
      <3> QED BY <3>2, <3>3, <3>4, <1>6
    <2>3. CASE x = start[d] /\ Beside(start[d])
      <3>1. CASE p \in ManagedPaths
        BY <1>1, <1>7, <2>3, <3>1
      <3>2. CASE p = ReviewPath(place[RepoOf[t]])
        <4>1. Within(place[RepoOf[t]], x)
          BY <1>1, <1>2, <3>2, WithinTransitive
        <4> QED BY <4>1, <1>1, <1>2, <1>7, <2>3 DEF InHome
      <3>3. CASE p = start[t] /\ Beside(start[t])
        <4>1. IsPrefix(start[t], start[d]) /\ start[t] # Nowhere
          BY <1>1, <2>3, <3>3
        <4> QED BY <4>1, <1>9, <2>0 DEF SeparateLayout
      <3> QED BY <3>1, <3>2, <3>3, <1>6
    <2> QED BY <2>1, <2>2, <2>3, <1>1, <1>6, <1>9
  <1> QED BY <1>8, <1>9 DEF Dirs
-----------------------------------------------------------------------------
\* What a step does to the places of the directories.
TreePlaced(t, q) ==
    /\ place' = [place EXCEPT ![t] = q]
    /\ \/ q = Nowhere /\ BranchOf[t] # Detached
       \/ q \in ManagedPaths
       \/ /\ q = ReviewPath(place[RepoOf[t]]) /\ place[RepoOf[t]] # Nowhere
          /\ BranchOf[t] = Detached /\ place[t] = Nowhere
    /\ q # Nowhere => ~Exists(q)

\* A repository without worktrees comes or goes.
RepoPlaced(r, q) ==
    /\ place' = [place EXCEPT ![r] = q]
    /\ q \in Homes \cup {Nowhere}
    /\ \A t \in Trees : RepoOf[t] = r => place[t] = Nowhere

\* A bare directory moves.
BareMoved(r, name) ==
    place[r] \in Homes /\ ~Exists(BarePath(name)) /\ place' = Moved(place[r], BarePath(name))

\* All that a step can do.
PlaceStep ==
    \/ place' = place
    \/ \E t \in Trees : \E q \in Path : TreePlaced(t, q)
    \/ \E r \in Repos : \E q \in Homes \cup {Nowhere} : RepoPlaced(r, q)
    \/ \E r \in Repos : \E name \in Names : BareMoved(r, name)

\* All of it keeps the layout.
LEMMA SpotsStay ==
    ASSUME DiskInv, WorktreesApart, SpotsInv, PlaceStep
    PROVE  SpotsInv' /\ TwoPlaces'
  <1>0. PICK start \in Starts : \A t \in Trees : Spot(start, t)
    BY DEF SpotsInv
  <1>1. TwoPlaces
    BY PlacesApart, RepoOfTree DEF TwoPlaces
  <1>2. place \in [Dirs -> Path]
    BY DEF DiskInv, DiskTyped
  <1> SUFFICES (\A t \in Trees : Spot(start, t)') /\ TwoPlaces'
    BY DEF SpotsInv
  <1>3. CASE place' = place
    BY <1>0, <1>1, <1>3 DEF Spot, TwoPlaces
  <1>4. CASE \E t \in Trees : \E q \in Path : TreePlaced(t, q)
    <2>1. PICK t \in Trees, q \in Path : TreePlaced(t, q)
      BY <1>4
    <2>2. /\ place'[t] = q /\ \A d \in Dirs \ {t} : place'[d] = place[d]
          /\ \A u \in Trees : place'[RepoOf[u]] = place[RepoOf[u]]
      BY <2>1, <1>2, RepoOfTree DEF TreePlaced
    <2>3. \A u \in Trees : Spot(start, u)'
      <3> SUFFICES ASSUME NEW u \in Trees PROVE Spot(start, u)'
        OBVIOUS
      <3>1. CASE u = t
        BY <2>1, <2>2, <3>1 DEF Spot, TreePlaced
      <3>2. CASE u # t
        BY <1>0, <2>2, <3>2, RepoOfTree DEF Spot
      <3> QED BY <3>1, <3>2
    <2>4. \A u \in Trees \ {t} : place'[u] = q => q = Nowhere
      <3> SUFFICES ASSUME NEW u \in Trees \ {t}, place'[u] = q, q # Nowhere PROVE FALSE
        OBVIOUS
      <3>1. u \in Dirs /\ place[u] = q
        BY <2>2, RepoOfTree
      <3>2. ~Within(q, place[u])
        BY <2>1, <3>1, FreePlace DEF TreePlaced
      <3> QED BY <3>1, <3>2, WithinSelf
    <2>5. TwoPlaces'
      BY <1>1, <2>2, <2>4, RepoOfTree DEF TwoPlaces
    <2> QED BY <2>3, <2>5
  <1>5. CASE \E r \in Repos : \E q \in Homes \cup {Nowhere} : RepoPlaced(r, q)
    <2>1. PICK r \in Repos, q \in Homes \cup {Nowhere} : RepoPlaced(r, q)
      BY <1>5
    <2>2. \A t \in Trees : place'[t] = place[t] /\ (place[t] # Nowhere => place'[RepoOf[t]] = place[RepoOf[t]])
      BY <2>1, <1>2, RepoOfTree DEF RepoPlaced
    <2>3. \A t \in Trees : Spot(start, t)'
      BY <1>0, <2>2 DEF Spot
    <2>4. TwoPlaces'
      BY <1>1, <2>2 DEF TwoPlaces
    <2> QED BY <2>3, <2>4
  <1>6. CASE \E r \in Repos : \E name \in Names : BareMoved(r, name)
    <2>1. PICK r \in Repos, name \in Names : BareMoved(r, name)
      BY <1>6
    <2> DEFINE h == place[r]
               q == BarePath(name)
    <2>2. /\ h \in Homes /\ q \in Homes /\ place' = Moved(h, q) /\ ~Exists(q)
          /\ h \in Path /\ h # Nowhere /\ q \in Path /\ q # Nowhere /\ place[r] = h
      BY <2>1, HomesOfNames, HomeElements DEF BareMoved
    <2> HIDE DEF h, q
    <2>3. /\ place'[r] = q
          /\ \A s \in Repos \ {r} : place'[s] = place[s]
          /\ \A t \in Trees : RepoOf[t] # r \/ ~Within(h, place[t]) => place'[t] = place[t]
          /\ \A t \in Trees : RepoOf[t] = r /\ Within(h, place[t]) => place'[t] = Rebase(h, q, place[t])
      BY <2>2, BareMoves
    <2>4. ReviewPath(q) \in Path /\ Within(h, ReviewPath(h)) /\ Within(q, ReviewPath(q))
          /\ Rebase(h, q, ReviewPath(h)) = ReviewPath(q)
      BY <2>2, ReviewElements
    <2>5. ASSUME NEW t \in Trees, RepoOf[t] = r, Within(h, place[t])
          PROVE  place[t] = ReviewPath(h) /\ place'[t] = ReviewPath(q)
      <3>1. InHome(place[t]) /\ place[t] # Nowhere
        BY <2>2, <2>5 DEF InHome, Within
      <3>2. place[t] \notin ManagedPaths
        BY <3>1, ManagedPathsAre
      <3>3. ~Beside(place[t])
        BY <2>2, <2>5 DEF Beside, Apart, Within
      <3>4. place[t] = ReviewPath(h)
        BY <1>0, <2>2, <2>5, <3>1, <3>2, <3>3 DEF Spot
      <3> QED BY <2>3, <2>4, <2>5, <3>4
    <2>6. \A t \in Trees : Spot(start, t)'
      <3> SUFFICES ASSUME NEW t \in Trees PROVE Spot(start, t)'
        OBVIOUS
      <3>1. CASE RepoOf[t] # r
        <4>1. place'[t] = place[t] /\ place'[RepoOf[t]] = place[RepoOf[t]]
          BY <2>3, <3>1, RepoOfTree
        <4> QED BY <4>1, <1>0 DEF Spot
      <3>2. CASE RepoOf[t] = r /\ Within(h, place[t])
        BY <2>3, <2>5, <3>2 DEF Spot
      <3>3. CASE RepoOf[t] = r /\ ~Within(h, place[t])
        <4>1. place'[t] = place[t] /\ place[t] # ReviewPath(place[RepoOf[t]])
          BY <2>2, <2>3, <2>4, <3>3
        <4> QED BY <4>1, <1>0 DEF Spot
      <3> QED BY <3>1, <3>2, <3>3
    <2>7. \A t \in Trees : place[t] # ReviewPath(q)
      BY <2>2, <2>4, FreePlace, RepoOfTree
    <2>8. TwoPlaces'
      <3> SUFFICES ASSUME NEW t \in Trees, NEW u \in Trees, place'[t] = place'[u], place'[t] # Nowhere
                   PROVE  t = u
        BY DEF TwoPlaces
      <3>1. ASSUME NEW v \in Trees
            PROVE  place'[v] = place[v] \/ (place[v] = ReviewPath(h) /\ place'[v] = ReviewPath(q))
        BY <2>3, <2>5
      <3>2. ReviewPath(h) # Nowhere
        BY <2>4 DEF Within
      <3>3. place[t] = place[u] /\ place[t] # Nowhere
        BY <2>7, <3>1, <3>2
      <3> QED BY <3>3, <1>1 DEF TwoPlaces
    <2> QED BY <2>6, <2>8
  <1> QED BY <1>3, <1>4, <1>5, <1>6 DEF PlaceStep
-----------------------------------------------------------------------------
\* A worktree that a rename moves goes to a place of the standard layout.
LEMMA PlannedTreePlaced ==
    ASSUME DiskInv, WorktreesApart, PlanInv, NEW t \in Moving(command.plan),
           NEW q \in {command.plan[t].from, command.plan[t].to}, ~Exists(q), place[t] # Nowhere,
           place' = Moved(place[t], q)
    PROVE  PlaceStep
  <1>1. t \in DOMAIN command.plan /\ command.plan[t].from # command.plan[t].to
    BY DEF Moving
  <1>2. Pathed(t) /\ command.from \in Names /\ command.to \in Names
    BY <1>1 DEF PlanInv
  <1>3. t \in Trees /\ q \in Path /\ q \in ManagedPaths
    BY <1>1, <1>2 DEF Pathed, ManagedPaths
  <1>4. place' = [place EXCEPT ![t] = q]
    BY <1>3, TreeMoves
  <1> QED BY <1>3, <1>4 DEF PlaceStep, TreePlaced

\* There is no other step.
LEMMA PlaceSteps ==
    ASSUME MovesInv, WorktreesApart, [Next]_vars
    PROVE  PlaceStep
  <1>0. DiskInv
    BY DEF MovesInv
  <1>1. CASE Rename
    <2>1. CASE \E t \in Trees : MoveTree(t)
      <3>1. PICK t \in Trees : MoveTree(t)
        BY <2>1
      <3>2. CASE ~CanMove(command.plan[t].from, command.plan[t].to)
        BY <3>1, <3>2 DEF MoveTree, PlaceStep
      <3>3. CASE CanMove(command.plan[t].from, command.plan[t].to)
        <4>1. PlanInv /\ PlacesInv /\ command.step = "trees" /\ t \in command.todo /\ ProgressInv
          BY <3>1, RunningParts DEF MoveTree, Renaming, Steps
        <4>2. t \in Moving(command.plan) /\ t \in DOMAIN command.plan
          BY <4>1 DEF ProgressInv, Moving
        <4>3. place[t] = command.plan[t].from /\ place[t] # Nowhere
          <5>1. ~InHome(command.plan[t].from)
            BY <4>1, <4>2, PlanPaths DEF Moving
          <5> QED BY <4>1, <4>2, <5>1, PlannedPlace DEF PlacesInv, Planned, OnItsWay
        <4> DEFINE q == command.plan[t].to
        <4>4. ~Exists(q) /\ place' = Moved(place[t], q)
          BY <3>1, <3>3, <4>3 DEF MoveTree, CanMove
        <4> QED BY <1>0, <4>1, <4>2, <4>3, <4>4, PlannedTreePlaced
      <3> QED BY <3>2, <3>3
    <2>2. CASE UndoTree
      <3>0. Renaming("undo trees") /\ command.moved # <<>>
        BY <2>2 DEF UndoTree
      <3>1. PICK t \in Moving(command.plan) : t = Last(command.moved) /\ place[t] = command.plan[t].to
        BY <3>0, LastMoved
      <3>2. PlanInv /\ PlacesInv /\ t \in DOMAIN command.plan
        BY <3>0, RunningParts DEF Renaming, Steps, Moving
      <3>3. place[t] # Nowhere
        BY <3>2, PlannedPlace
      <3> DEFINE q == command.plan[t].from
      <3>4. ~Exists(q) /\ place' = Moved(place[t], q)
        BY <2>2, <3>1 DEF UndoTree, CanMove
      <3> QED BY <1>0, <3>2, <3>3, <3>4, PlannedTreePlaced
    <2>3. CASE MoveBare \/ UndoBare
      <3>1. /\ command.kind = "rename" /\ command.step \in {"trees", "undo bare"}
            /\ command.step = "trees" => MoveBare
            /\ command.step = "undo bare" => UndoBare
        BY <2>3 DEF MoveBare, UndoBare, Renaming
      <3>2. PlanInv /\ PlacesInv
        BY <3>1, RunningParts DEF Steps
      <3>3. place[command.repo] = BareNow /\ BareNow \in Homes /\ command.repo \in Repos
        BY <3>2, BareHomes DEF PlacesInv
      <3>4. command.from \in Names /\ command.to \in Names
        BY <3>2 DEF PlanInv
      <3>5. CASE command.step = "trees"
        BY <3>1, <3>3, <3>4, <3>5 DEF MoveBare, CanMove, BareNow, PlaceStep, BareMoved
      <3>6. CASE command.step = "undo bare"
        BY <3>1, <3>3, <3>4, <3>6 DEF UndoBare, CanMove, BareNow, PlaceStep, BareMoved
      <3> QED BY <3>1, <3>5, <3>6
    <2>4. CASE \E r \in Repos, new \in Names, here \in Trees \cup {None} : StartRename(r, new, here)
      BY <2>4 DEF StartRename, disk, PlaceStep
    <2>5. CASE MoveFails \/ RepairMoved \/ RepairRefused \/ RepairFails \/ CleanUp
      BY <2>5 DEF MoveFails, RepairMoved, RepairRefused, RepairFails, CleanUp, disk, PlaceStep
    <2>6. CASE UndoBareFails \/ UndoTreeFails \/ UndoRepair \/ UndoRepairFails
      BY <2>6 DEF UndoBareFails, UndoTreeFails, UndoRepair, UndoRepairFails, disk, PlaceStep
    <2> QED BY <1>1, <2>1, <2>2, <2>3, <2>4, <2>5, <2>6 DEF Rename
  <1>2. CASE Fix
    <2>1. CASE \E r \in Repos : MoveLegacy(r) \/ MoveLegacyFails(r)
      <3>1. PICK r \in Repos : MoveLegacy(r) \/ MoveLegacyFails(r)
        BY <2>1
      <3>2. CASE place' = place
        BY <3>2 DEF PlaceStep
      <3>3. CASE place' # place
        <4>1. PICK name \in Names : /\ place[r] = LegacyPath(name) /\ CanMove(place[r], BarePath(name))
                                    /\ place' = Moved(place[r], BarePath(name))
          BY <3>1, <3>3 DEF MoveLegacy, MoveLegacyFails
        <4>2. place[r] \in Homes
          BY <4>1, HomesOfNames
        <4> QED BY <4>1, <4>2 DEF CanMove, PlaceStep, BareMoved
      <3> QED BY <3>2, <3>3
    <2>2. CASE StartFix \/ ListRepos \/ FinishFix
      BY <2>2 DEF StartFix, ListRepos, FinishFix, disk, PlaceStep
    <2>3. CASE \E r \in Repos : FixRepo(r) \/ FixRepoFails(r)
      BY <2>3 DEF FixRepo, FixRepoFails, PlaceStep
    <2> QED BY <1>2, <2>1, <2>2, <2>3 DEF Fix
  <1>3. CASE \E r \in Repos : RemoveRepo(r) \/ \E name \in Names : AddRepo(r, name)
    <2>1. PICK r \in Repos : RemoveRepo(r) \/ \E name \in Names : AddRepo(r, name)
      BY <1>3
    <2>2. CASE place' = place
      BY <2>2 DEF PlaceStep
    <2>3. CASE place' # place /\ RemoveRepo(r)
      <3>1. place' = [place EXCEPT ![r] = Nowhere] /\ Entries(r) = {}
        BY <2>3 DEF RemoveRepo
      <3>2. \A t \in Trees : RepoOf[t] = r => place[t] = Nowhere
        BY <1>0, <3>1 DEF Entries, DiskInv, TreesInv, TreeInv
      <3> QED BY <3>1, <3>2 DEF PlaceStep, RepoPlaced
    <2>4. CASE \E name \in Names : AddRepo(r, name)
      <3>1. PICK name \in Names : AddRepo(r, name)
        BY <2>4
      <3>2. place' = [place EXCEPT ![r] = BarePath(name)] /\ BarePath(name) \in Homes /\ place[r] = Nowhere
        BY <3>1, HomesOfNames DEF AddRepo
      <3>3. \A t \in Trees : RepoOf[t] = r => place[t] = Nowhere
        BY <1>0, <3>2 DEF DiskInv, TreesInv, TreeInv
      <3> QED BY <3>2, <3>3 DEF PlaceStep, RepoPlaced
    <2> QED BY <2>1, <2>2, <2>3, <2>4
  <1>4. CASE \E t \in Trees : CreateWorktree(t) \/ RemoveWorktree(t) \/ PrepareReview(t)
    <2>1. PICK t \in Trees : CreateWorktree(t) \/ RemoveWorktree(t) \/ PrepareReview(t)
      BY <1>4
    <2>2. CASE CreateWorktree(t)
      <3>1. PICK name \in Names : place[RepoOf[t]] = BarePath(name)
        BY <2>2 DEF CreateWorktree, Listed
      <3>2. NameOf(RepoOf[t]) = name
        BY <3>1, HomesOfNames DEF NameOf
      <3> DEFINE path == ManagedPath(name, BranchOf[t])
      <3>3. path \in ManagedPaths
        BY <2>2 DEF CreateWorktree, ManagedPaths
      <3>4. ~Exists(path) /\ place' = [place EXCEPT ![t] = path]
        BY <2>2, <3>2 DEF CreateWorktree, Attach
      <3>5. path \in Path
        BY <3>3, ManagedPathsAre
      <3> HIDE DEF path
      <3> QED BY <3>3, <3>4, <3>5 DEF PlaceStep, TreePlaced
    <2>3. CASE RemoveWorktree(t)
      <3>1. place' = [place EXCEPT ![t] = Nowhere] /\ Nowhere \in Path /\ BranchOf[t] # Detached
        BY <2>3, EmptySeq DEF RemoveWorktree, Path, Nowhere
      <3> QED BY <3>1 DEF PlaceStep, TreePlaced
    <2>4. CASE PrepareReview(t)
      <3> DEFINE bare == place[RepoOf[t]]
                 path == ReviewPath(bare)
      <3>1. BranchOf[t] = Detached /\ (Attach(t, path) \/ place' = place)
        BY <2>4 DEF PrepareReview
      <3>2. bare # Nowhere /\ bare \in Path
        BY <1>0, <2>4, DiskTypes, RepoOfTree DEF PrepareReview, Reviewable, DiskInv, TreesInv, TreeInv
      <3>3. path \in Path
        BY <3>2, ReviewElements
      <3>4. Attach(t, path) => ~Exists(path) /\ place[t] = Nowhere /\ place' = [place EXCEPT ![t] = path]
        BY DEF Attach
      <3> QED BY <3>1, <3>2, <3>3, <3>4 DEF PlaceStep, TreePlaced
    <2> QED BY <2>1, <2>2, <2>3, <2>4
  <1>5. CASE Kill
    BY <1>5 DEF Kill, disk, PlaceStep
  <1>6. CASE UNCHANGED vars
    BY <1>6 DEF vars, PlaceStep
  <1> QED BY <1>1, <1>2, <1>3, <1>4, <1>5, <1>6 DEF Next
-----------------------------------------------------------------------------
\* The layout at first.
LEMMA SpotsStart ==
    ASSUME SeparateLayout, Init
    PROVE  LayoutInv
  <1>1. place \in Starts
    BY DEF Init
  <1>2. /\ place \in [Dirs -> Seq(STRING)]
        /\ \A r \in Repos : place[r] \in Homes \cup {Nowhere}
        /\ \A r, s \in Repos : place[r] = place[s] => r = s \/ place[r] = Nowhere
        /\ \A t \in Trees : place[t] # Nowhere => place[RepoOf[t]] # Nowhere
    BY <1>1, StartsAssumption
  <1>3. place \in [Dirs -> Path]
    BY <1>2, SeqMonotonic DEF Path, Segments
  <1>4. \A t \in Trees : Spot(place, t)
    BY <1>1 DEF SeparateLayout, Spot, Beside
  <1>5. TwoPlaces
    <2> SUFFICES ASSUME NEW t \in Trees, NEW u \in Trees, place[t] = place[u], place[t] # Nowhere PROVE t = u
      BY DEF TwoPlaces
    <2>1. place[t] \in Path
      BY <1>3, RepoOfTree
    <2>2. IsPrefix(place[t], place[u])
      BY <2>1, WithinSelf DEF Within
    <2> QED BY <2>2, <1>1 DEF SeparateLayout
  <1>6. SpotsInv
    BY <1>1, <1>4 DEF SpotsInv
  <1>7. ReposInv
    BY <1>2 DEF ReposInv
  <1> QED BY <1>2, <1>3, <1>5, <1>6, <1>7 DEF LayoutInv

\* Every step keeps both invariants.
LEMMA SpotsStep ==
    ASSUME SeparateLayout, MovesInv, LayoutInv, [Next]_vars
    PROVE  MovesInv' /\ LayoutInv'
  <1>0. WorktreesApart
    BY SpotsApart
  <1>1. MovesInv' /\ DiskInv' /\ DiskInv
    BY <1>0, MovesStep DEF MovesInv
  <1>2. SpotsInv' /\ TwoPlaces'
    BY <1>0, <1>1, PlaceSteps, SpotsStay DEF LayoutInv
  <1>3. /\ place' \in [Dirs -> Path] /\ ReposInv'
        /\ \A t \in Trees : place'[t] # Nowhere => place'[RepoOf[t]] # Nowhere
    BY <1>1 DEF DiskInv, DiskTyped, TreesInv, TreeInv
  <1> QED BY <1>1, <1>2, <1>3 DEF LayoutInv

\* In a layout whose managed places are apart (SeparateLayout) no directory ever
\* comes to lie in a worktree, so that the four properties of rename, fix and
\* the review checkout hold without a condition on the behaviour.
THEOREM SeparateLayoutMoves ==
    ASSUME SeparateLayout
    PROVE  Spec => [](/\ WorktreesApart /\ RenameIsAllOrNothing /\ RenamedRepoWorks
                      /\ FixLinksWorktrees /\ ReviewCheckoutRecovers)
  <1> DEFINE Inv == MovesInv /\ LayoutInv
             Goal == /\ WorktreesApart /\ RenameIsAllOrNothing /\ RenamedRepoWorks
                     /\ FixLinksWorktrees /\ ReviewCheckoutRecovers
  <1>1. Init => Inv
    BY SpotsStart, SpotsApart, MovesStart
  <1>2. Inv /\ [Next]_vars => Inv'
    BY SpotsStep
  <1>3. Inv => Goal
    BY SpotsApart, MovedCheckout
       DEF MovesInv, FixInv, FixLinksWorktrees, Finished, Idle, ReviewCheckoutRecovers
  <1> HIDE DEF Inv, Goal
  <1>4. Spec => []Goal
    BY <1>1, <1>2, <1>3, PTL DEF Spec
  <1> QED BY <1>4 DEF Goal

------------------------------------------------------------------------------
(***************************************************************************)
(* A rename that nothing disturbs succeeds.                                *)
(***************************************************************************)

\* Every rename that runs is of a repository without a worktree in its bare
\* directory: it has not been reviewed.
RenamesUnreviewed == Running => \A t \in DOMAIN command.plan : ~InHome(command.plan[t].from)

\* A rename that nothing outside has disturbed goes forward, and what it has
\* found free stays free until it needs it.
QuietInv ==
    command.kind = "rename" /\ ~command.disturbed =>
      /\ command.step \in {"trees", "repair", "cleanup", "done"}
      /\ command.step = "done" => command.result = "ok"
      /\ command.step = "trees" =>
           /\ ~Exists(BarePath(command.to))
           /\ \A t \in command.todo : ~Exists(command.plan[t].to)

\* A command that ends or goes on disturbed, and one that is no rename.
LEMMA NotQuiet ==
    ASSUME command'.kind # "rename" \/ command'.disturbed
    PROVE  QuietInv'
  BY DEF QuietInv

\* A step that keeps what the command knows of disturbances.
LEMMA StepKeepsDisturbed ==
    ASSUME command \in Commands
    PROVE  /\ \A step \in Steps : Goto(step) =>
                 command'.disturbed = command.disturbed /\ command'.step = step /\ command'.kind = command.kind
           /\ \A result \in Results : Finish(result) =>
                 /\ command'.disturbed = command.disturbed /\ command'.step = "done"
                 /\ command'.result = result /\ command'.kind = command.kind
           /\ \A step \in Steps : Disturbed(step) => command'.disturbed
           /\ \A step \in Steps : \A moved \in Seq(Trees) : Unrestored(step, moved) => command'.disturbed
  BY DEF Commands, Goto, Finish, Disturbed, Unrestored

\* What is at p is below p.
LEMMA BareBelow ==
    ASSUME NEW p \in Path, p # Nowhere
    PROVE  /\ BarePath(p) \in Path /\ BarePath(p) # p /\ Within(p, BarePath(p))
  <1>1. Len(p) \in Nat /\ ".git" \in Segments
    BY LenProperties DEF Path, Segments
  <1>2. /\ BarePath(p) \in Path /\ Len(BarePath(p)) = Len(p) + 1
        /\ \A i \in 1 .. Len(p) : BarePath(p)[i] = p[i]
    BY <1>1, AppendProperties DEF BarePath, Path
  <1>3. BarePath(p) # Nowhere
    BY <1>1, <1>2, EmptySeq DEF Nowhere
  <1>4. Within(p, BarePath(p))
    BY <1>1, <1>2, <1>3, WithinElements
  <1> QED BY <1>1, <1>2, <1>4

\* A worktree that comes to a managed place leaves every other place of the
\* layout free that was free.
LEMMA StaysFree ==
    ASSUME SeparateLayout, place \in [Dirs -> Path], NEW t \in Trees, NEW q \in ManagedPaths,
           place' = [place EXCEPT ![t] = q],
           NEW p \in Homes \cup ManagedPaths, p # q, ~Exists(p)
    PROVE  ~Exists(p)'
  <1>1. q \in Path /\ q # Nowhere /\ ~InHome(q)
    BY ManagedPathsAre
  <1>2. \A m \in ManagedPaths : \A x \in Homes \cup ManagedPaths : Within(m, x) => m = x
    BY DEF SeparateLayout, Within
  <1>3. t \in Dirs /\ place'[t] = q /\ \A d \in Dirs \ {t} : place'[d] = place[d]
    BY RepoOfTree
  <1>4. ASSUME NEW d \in Dirs, Within(p, place'[d]) PROVE FALSE
    <2>1. CASE d # t
      BY <1>3, <1>4, <2>1 DEF Exists
    <2>2. CASE d = t
      <3>1. Within(p, q)
        BY <1>3, <1>4, <2>2
      <3>2. p \notin Homes
        BY <1>1, <3>1 DEF InHome
      <3> QED BY <1>2, <3>1, <3>2
    <2> QED BY <2>1, <2>2
  <1>5. ASSUME NEW u \in Trees, place'[u] # Nowhere, p = BarePath(place'[u]) PROVE FALSE
    <2>1. CASE u # t
      <3>1. place'[u] = place[u]
        BY <1>3, <2>1, RepoOfTree
      <3> QED BY <3>1, <1>5 DEF Exists
    <2>2. CASE u = t
      <3>1. p = BarePath(q)
        BY <1>3, <1>5, <2>2
      <3>2. Within(q, p)
        BY <1>1, <3>1, BareBelow
      <3> QED BY <1>2, <3>2
    <2> QED BY <2>1, <2>2
  <1> QED BY <1>4, <1>5 DEF Exists

\* A rename finds all that it looks for free (buildRepositoryRenamePlan).
LEMMA StartQuiet ==
    ASSUME NEW r \in Repos, NEW new \in Names, NEW here \in Trees \cup {None}, StartRename(r, new, here)
    PROVE  QuietInv'
  <1> DEFINE plan == [t \in Collected(r) |-> [from |-> back[t], to |-> RenamedPath(r, new, t)]]
             sound == {t \in Entries(r) : Sound(t)}
             target == CurrentTarget(plan, here)
             from == NameOf(r)
  <1>1. /\ place' = place /\ ~Exists(BarePath(new))
        /\ \A t \in Moving(plan) : ~Exists(plan[t].to)
        /\ command' = [NoCommand EXCEPT
                         !.kind = "rename", !.step = "trees", !.repo = r, !.from = from, !.to = new,
                         !.plan = plan, !.todo = Moving(plan), !.sound = sound, !.here = here, !.target = target]
    BY DEF StartRename, disk
  <1> HIDE DEF plan, sound, target, from
  <1>2. /\ command'.kind = "rename" /\ command'.step = "trees" /\ command'.to = new
        /\ command'.plan = plan /\ command'.todo = Moving(plan)
    BY <1>1 DEF NoCommand
  <1>3. \A p : Exists(p)' <=> Exists(p)
    BY <1>1 DEF Exists
  <1> QED BY <1>1, <1>2, <1>3 DEF QuietInv

\* A worktree of a quiet rename can be moved, and leaves the rest free.
LEMMA MoveTreeQuiet ==
    ASSUME SeparateLayout, MovesInv, WorktreesApart, QuietInv, NEW t \in Trees, MoveTree(t)
    PROVE  QuietInv'
  <1> DEFINE from == command.plan[t].from
             to == command.plan[t].to
  <1>0. Renaming("trees") /\ t \in command.todo
    BY DEF MoveTree
  <1>1. /\ DiskInv /\ command \in Commands /\ PlanInv /\ ProgressInv /\ PlacesInv
        /\ \A u \in DOMAIN command.plan : Planned(u)
        /\ command.kind = "rename" /\ command.step = "trees"
    BY <1>0, RunningParts DEF Renaming, Steps
  <1> SUFFICES ASSUME ~command'.disturbed PROVE QuietInv'
    BY NotQuiet
  <1>2. command'.disturbed = command.disturbed
    <2>1. CASE CanMove(from, to)
      BY <1>1, <2>1 DEF MoveTree, Commands
    <2>2. CASE ~CanMove(from, to)
      <3>1. Goto("undo trees")
        BY <2>2 DEF MoveTree
      <3> QED BY <1>1, <3>1 DEF Goto, Commands
    <2> QED BY <2>1, <2>2
  <1>3. /\ ~Exists(BarePath(command.to))
        /\ \A u \in command.todo : ~Exists(command.plan[u].to)
    BY <1>1, <1>2 DEF QuietInv
  <1>4. ASSUME NEW u \in Moving(command.plan)
        PROVE  /\ u \in DOMAIN command.plan /\ u \in Trees /\ ~InHome(command.plan[u].from)
               /\ command.plan[u].from \in ManagedPaths /\ command.plan[u].to \in ManagedPaths
               /\ command.plan[u].from # command.plan[u].to
    <2>1. Pathed(u) /\ u \in DOMAIN command.plan /\ command.plan[u].from # command.plan[u].to
      BY <1>1, <1>4 DEF Moving, PlanInv
    <2>2. command.from \in Names /\ command.to \in Names
      BY <1>1 DEF PlanInv
    <2>3. command.plan[u].from \in ManagedPaths /\ command.plan[u].to \in ManagedPaths
      BY <2>1, <2>2 DEF Pathed, ManagedPaths
    <2>4. ~InHome(command.plan[u].from)
      BY <2>3, ManagedPathsAre
    <2> QED BY <2>1, <2>3, <2>4 DEF Pathed
  <1>5. command.todo \subseteq Moving(command.plan) /\ t \in Moving(command.plan)
    BY <1>0, <1>1 DEF ProgressInv
  <1>6. place[t] = from /\ from # Nowhere /\ from \in Path
    <2>1. t \in DOMAIN command.plan /\ ~InHome(from)
      BY <1>4, <1>5
    <2>2. from # Nowhere /\ from \in Path
      BY <1>1, <2>1, PlanPaths
    <2> QED BY <1>0, <1>1, <2>1, <2>2 DEF Planned, OnItsWay
  <1>7. CanMove(from, to)
    <2>1. Exists(from)
      BY <1>6, WithinSelf, RepoOfTree DEF Exists
    <2>2. ~Within(from, to)
      BY <1>4, <1>5 DEF SeparateLayout, Within
    <2>3. ~Exists(to)
      BY <1>0, <1>3
    <2> QED BY <2>1, <2>2, <2>3 DEF CanMove
  <1>8. /\ place' = Moved(from, to)
        /\ command' = [command EXCEPT !.todo = @ \ {t}, !.moved = Append(@, t)]
    BY <1>7 DEF MoveTree
  <1>9. /\ command'.kind = "rename" /\ command'.step = "trees" /\ command'.to = command.to
        /\ command'.plan = command.plan /\ command'.todo = command.todo \ {t}
    BY <1>1, <1>8 DEF Commands
  <1>10. place' = [place EXCEPT ![t] = to] /\ to \in ManagedPaths /\ place \in [Dirs -> Path]
    <2>1. to \in ManagedPaths /\ to \in Path
      BY <1>4, <1>5, ManagedPathsAre
    <2>2. place \in [Dirs -> Path]
      BY <1>1 DEF DiskInv, DiskTyped
    <2> QED BY <1>1, <1>6, <1>8, <2>1, <2>2, TreeMoves
  <1>11. \A x \in Homes \cup ManagedPaths : x # to /\ ~Exists(x) => ~Exists(x)'
    <2> HIDE DEF to
    <2> QED BY <1>10, StaysFree
  <1>12. ~Exists(BarePath(command.to))'
    <2>1. BarePath(command.to) \in Homes
      BY <1>1, BareHomes
    <2>2. BarePath(command.to) # to
      <3>1. ~InHome(to) /\ to \in Path /\ to # Nowhere
        BY <1>10, ManagedPathsAre
      <3> QED BY <2>1, <3>1, WithinSelf DEF InHome
    <2>3. PICK x : x = BarePath(command.to)
      OBVIOUS
    <2>4. ~Exists(x)'
      BY <1>3, <1>11, <2>1, <2>2, <2>3
    <2>5. BarePath(command'.to) = x
      BY <1>9, <2>3
    <2> QED BY <2>4, <2>5
  <1>13. \A u \in command.todo \ {t} : \A x : x = command.plan[u].to => ~Exists(x)'
    <2> SUFFICES ASSUME NEW u \in command.todo \ {t}, NEW x, x = command.plan[u].to PROVE ~Exists(x)'
      OBVIOUS
    <2>1. x \in ManagedPaths /\ ~Exists(x)
      BY <1>3, <1>4, <1>5
    <2>2. x # to
      BY <1>1, <1>4, <1>5 DEF PlanInv
    <2> QED BY <1>11, <2>1, <2>2
  <1> QED BY <1>9, <1>12, <1>13 DEF QuietInv

\* The bare directory of a quiet rename can be moved.
LEMMA MoveBareQuiet ==
    ASSUME MovesInv, QuietInv, MoveBare
    PROVE  QuietInv'
  <1> DEFINE from == BarePath(command.from)
             to == BarePath(command.to)
  <1>0. Renaming("trees")
    BY DEF MoveBare
  <1>1. /\ command \in Commands /\ PlanInv /\ PlacesInv /\ BareNow = from
        /\ command.kind = "rename" /\ command.step = "trees"
        /\ "repair" \in Steps /\ "undo trees" \in Steps
    BY <1>0, RunningParts DEF Renaming, Steps, BareNow
  <1> SUFFICES ASSUME ~command'.disturbed PROVE QuietInv'
    BY NotQuiet
  <1>2. command'.disturbed = command.disturbed
    <2>1. Goto("repair") \/ Goto("undo trees")
      BY DEF MoveBare
    <2> QED BY <1>1, <2>1, StepKeepsDisturbed
  <1>3. ~Exists(to)
    BY <1>1, <1>2 DEF QuietInv
  <1>4. CanMove(from, to)
    <2>1. /\ from \in Homes /\ to \in Homes /\ from \in Path /\ from # Nowhere /\ from # to
          /\ command.repo \in Repos /\ place[command.repo] = from
      BY <1>1, BareHomes DEF PlacesInv
    <2>2. Exists(from)
      BY <2>1, WithinSelf DEF Exists, Dirs
    <2>3. ~Within(from, to)
      BY <2>1, HomeWithin
    <2> QED BY <1>3, <2>2, <2>3 DEF CanMove
  <1>5. Goto("repair")
    BY <1>4 DEF MoveBare
  <1>6. command'.step = "repair"
    BY <1>1, <1>5, StepKeepsDisturbed
  <1> QED BY <1>6 DEF QuietInv

\* Each worktree that `git worktree repair` gets is there when none is in the
\* bare directory.
LEMMA AllMovedThere ==
    ASSUME MovesInv, RenamesUnreviewed, Renaming("repair")
    PROVE  AllThere(command.repo, RenamedPaths(command.plan))
  <1>1. /\ PlanInv /\ Running /\ command.step = "repair"
        /\ \A t \in DOMAIN command.plan : Planned(t)
    BY RunningParts DEF Renaming, Steps
  <1> SUFFICES ASSUME NEW t \in DOMAIN command.plan
               PROVE  \E u \in At(command.repo, RenamedPaths(command.plan)) : place[u] = command.plan[t].to
    BY DEF AllThere, RenamedPaths
  <1>2. ~InHome(command.plan[t].from)
    BY <1>1 DEF RenamesUnreviewed
  <1>3. place[t] = command.plan[t].to
    BY <1>1, <1>2 DEF Planned, OnItsWay
  <1>4. t \in Trees /\ RepoOf[t] = command.repo
    BY <1>1, PlanPaths
  <1> QED BY <1>3, <1>4 DEF At, RenamedPaths

\* The repair of a quiet rename meets every worktree, and the rename ends well.
LEMMA RepairQuiet ==
    ASSUME MovesInv, RenamesUnreviewed, QuietInv, RepairMoved \/ RepairRefused \/ RepairFails \/ CleanUp
    PROVE  QuietInv'
  <1>0. command \in Commands
    BY DEF MovesInv
  <1>1. CASE RepairMoved
    <2>1. Goto("cleanup") /\ "cleanup" \in Steps
      BY <1>1 DEF RepairMoved, Steps
    <2>2. command'.step = "cleanup"
      BY <1>0, <2>1, StepKeepsDisturbed
    <2> QED BY <2>2 DEF QuietInv
  <1>2. CASE RepairRefused
    BY <1>2, AllMovedThere DEF RepairRefused
  <1>3. CASE RepairFails
    <2>1. Disturbed("undo bare") /\ "undo bare" \in Steps
      BY <1>3 DEF RepairFails, Steps
    <2> QED BY <1>0, <2>1, StepKeepsDisturbed, NotQuiet
  <1>4. CASE CleanUp
    <2>1. CASE Finish("ok")
      <3>1. command'.step = "done" /\ command'.result = "ok"
        BY <1>0, <2>1, StepKeepsDisturbed DEF Results
      <3> QED BY <3>1 DEF QuietInv
    <2>2. CASE command' = [command EXCEPT !.step = "done", !.result = "error", !.disturbed = TRUE]
      <3>1. command'.disturbed
        BY <1>0, <2>2 DEF Commands
      <3> QED BY <3>1, NotQuiet
    <2> QED BY <1>4, <2>1, <2>2 DEF CleanUp
  <1> QED BY <1>1, <1>2, <1>3, <1>4

\* Only a disturbed rename goes back.
LEMMA RollbackQuiet ==
    ASSUME MovesInv, QuietInv,
           MoveFails \/ UndoBare \/ UndoBareFails \/ UndoTree \/ UndoTreeFails \/ UndoRepair \/ UndoRepairFails
    PROVE  QuietInv'
  <1>0. command \in Commands
    BY DEF MovesInv
  <1>1. ASSUME command'.disturbed = command.disturbed, Renaming("undo bare") \/ Renaming("undo trees")
        PROVE  QuietInv'
    BY <1>1, NotQuiet DEF Renaming, QuietInv
  <1>2. CASE MoveFails
    <2>1. Disturbed("undo trees") /\ "undo trees" \in Steps
      BY <1>2 DEF MoveFails, Steps
    <2> QED BY <1>0, <2>1, StepKeepsDisturbed, NotQuiet
  <1>3. CASE UndoBare
    <2>1. Goto("undo trees") /\ "undo trees" \in Steps /\ Renaming("undo bare")
      BY <1>3 DEF UndoBare, Steps
    <2> QED BY <1>0, <1>1, <2>1, StepKeepsDisturbed
  <1>4. CASE UndoBareFails \/ UndoRepairFails
    <2>1. \E moved : Unrestored("done", moved)
      BY <1>4 DEF UndoBareFails, UndoRepairFails
    <2>2. command'.disturbed
      BY <1>0, <2>1 DEF Unrestored, Commands
    <2> QED BY <2>2, NotQuiet
  <1>5. CASE UndoTree
    <2>1. Renaming("undo trees") /\ command' = [command EXCEPT !.moved = Front(@)]
      BY <1>5 DEF UndoTree
    <2>2. command'.disturbed = command.disturbed
      BY <1>0, <2>1 DEF Commands
    <2> QED BY <1>1, <2>1, <2>2
  <1>6. CASE UndoTreeFails
    <2>1. \E moved : Unrestored("undo trees", moved)
      BY <1>6 DEF UndoTreeFails
    <2>2. command'.disturbed
      BY <1>0, <2>1 DEF Unrestored, Commands
    <2> QED BY <2>2, NotQuiet
  <1>7. CASE UndoRepair
    <2>1. Renaming("undo trees") /\ Finish("error") /\ "error" \in Results
      BY <1>7 DEF UndoRepair, Results
    <2> QED BY <1>0, <1>1, <2>1, StepKeepsDisturbed
  <1> QED BY <1>2, <1>3, <1>4, <1>5, <1>6, <1>7

\* A worktree that is created beside a quiet rename of an unreviewed repository
\* does not take a place that the rename needs: it is of another repository, or
\* its name is still the old one.
LEMMA CreateQuiet ==
    ASSUME SeparateLayout, MovesInv, QuietInv, NEW t \in Trees, CreateWorktree(t)
    PROVE  QuietInv'
  <1>0. PICK name \in Names : place[RepoOf[t]] = BarePath(name)
    BY DEF CreateWorktree, Listed
  <1> DEFINE path == ManagedPath(name, BranchOf[t])
  <1>1. NameOf(RepoOf[t]) = name
    BY <1>0, HomesOfNames DEF NameOf
  <1>2. /\ BranchOf[t] # Detached /\ Attach(t, path)
        /\ command' = IF Idle THEN NoCommand ELSE command
    BY <1>1 DEF CreateWorktree
  <1>3. place' = [place EXCEPT ![t] = path]
    BY <1>2 DEF Attach
  <1>4. BranchOf[t] \in STRING \ {".git"} /\ path \in ManagedPaths
    BY <1>2, NamesAssumption DEF ManagedPaths
  <1>5. path \in Path /\ path # Nowhere /\ ~InHome(path)
    BY <1>4, ManagedPathsAre
  <1>6. place \in [Dirs -> Path]
    BY DEF MovesInv, DiskInv, DiskTyped
  <1>7. CASE Idle
    <2>1. command'.kind = "none"
      BY <1>2, <1>7, NoCommandType
    <2> QED BY <2>1, NotQuiet
  <1>8. CASE ~Idle
    <2>1. command' = command
      BY <1>2, <1>8
    <2> SUFFICES ASSUME command.kind = "rename", ~command.disturbed, command.step = "trees" PROVE QuietInv'
      BY <2>1 DEF QuietInv
    <2>2. PlanInv /\ ProgressInv
      BY RunningParts DEF Steps
    <2>3. /\ ~Exists(BarePath(command.to))
          /\ \A u \in command.todo : ~Exists(command.plan[u].to)
      BY DEF QuietInv
    <2> HIDE DEF path
    <2>4. \A x \in Homes \cup ManagedPaths : x # path /\ ~Exists(x) => ~Exists(x)'
      BY <1>3, <1>4, <1>6, StaysFree
    <2>5. name # command.to
      <3>1. BarePath(name) \in Path /\ BarePath(name) # Nowhere
        BY HomesOfNames, HomeElements
      <3>2. Within(BarePath(name), place[RepoOf[t]])
        BY <1>0, <3>1, WithinSelf
      <3> QED BY <2>3, <3>2, RepoOfTree DEF Exists
    <2>6. ~Exists(BarePath(command.to))'
      <3>1. BarePath(command.to) \in Homes
        BY <2>2, BareHomes
      <3>2. BarePath(command.to) # path
        BY <1>5, <3>1, WithinSelf DEF InHome
      <3>3. PICK x : x = BarePath(command.to)
        OBVIOUS
      <3>4. ~Exists(x)'
        BY <2>3, <2>4, <3>1, <3>2, <3>3
      <3>5. BarePath(command'.to) = x
        BY <2>1, <3>3
      <3> QED BY <3>4, <3>5
    <2>7. \A u \in command.todo : \A x : x = command.plan[u].to => ~Exists(x)'
      <3> SUFFICES ASSUME NEW u \in command.todo, NEW x, x = command.plan[u].to PROVE ~Exists(x)'
        OBVIOUS
      <3>1. /\ Pathed(u) /\ command.to \in Names
            /\ command.plan[u].from # command.plan[u].to
        BY <2>2 DEF ProgressInv, PlanInv, Moving
      <3>2. u \in Trees /\ BranchOf[u] # Detached /\ x = ManagedPath(command.to, BranchOf[u])
        BY <3>1 DEF Pathed
      <3>3. x \in ManagedPaths
        BY <3>1, <3>2 DEF ManagedPaths
      <3>4. x # path
        <4>1. BranchOf[u] \in STRING \ {".git"}
          BY <3>2, NamesAssumption
        <4>2. BranchOf[t] \in STRING \ {".git"}
          BY NamesAssumption
        <4>3. ManagedPath(command.to, BranchOf[u]) # ManagedPath(name, BranchOf[t])
          BY <2>5, <3>1, <4>1, <4>2, ManagedApart
        <4> QED BY <3>2, <4>3 DEF path
      <3> QED BY <2>3, <2>4, <3>3, <3>4
    <2> QED BY <2>1, <2>6, <2>7 DEF QuietInv
  <1> QED BY <1>7, <1>8

\* A command that is no rename, and a step that changes nothing.
LEMMA OthersQuiet ==
    ASSUME MovesInv, QuietInv,
           \/ Fix
           \/ \E r \in Repos : RemoveRepo(r) \/ \E name \in Names : AddRepo(r, name)
           \/ \E t \in Trees : RemoveWorktree(t) \/ PrepareReview(t)
           \/ Kill
           \/ UNCHANGED vars
    PROVE  QuietInv'
  <1>0. command \in Commands
    BY DEF MovesInv
  <1>1. CASE Fix
    <2>1. command'.kind = "fix"
      <3>1. CASE StartFix
        BY <3>1 DEF StartFix, NoCommand
      <3>2. CASE \E r \in Repos : MoveLegacy(r) \/ MoveLegacyFails(r) \/ FixRepo(r) \/ FixRepoFails(r)
        BY <1>0, <3>2 DEF MoveLegacy, MoveLegacyFails, FixRepo, FixRepoFails, Fixing, Finish, Commands
      <3>3. CASE ListRepos \/ FinishFix
        BY <1>0, <3>3 DEF ListRepos, FinishFix, Fixing, Finish, Commands
      <3> QED BY <1>1, <3>1, <3>2, <3>3 DEF Fix
    <2> QED BY <2>1, NotQuiet
  <1>2. CASE \E r \in Repos : RemoveRepo(r) \/ \E name \in Names : AddRepo(r, name)
    <2>1. command'.kind \in {"add", "remove"}
      BY <1>2 DEF RemoveRepo, AddRepo, NoCommand
    <2> QED BY <2>1, NotQuiet
  <1>3. CASE (\E t \in Trees : RemoveWorktree(t) \/ PrepareReview(t)) \/ Kill
    <2>1. command' = NoCommand
      BY <1>3 DEF RemoveWorktree, PrepareReview, Kill
    <2> QED BY <2>1, NoCommandType, NotQuiet
  <1>4. CASE UNCHANGED vars
    <2>1. command' = command /\ place' = place
      BY <1>4 DEF vars
    <2> QED BY <2>1 DEF QuietInv, Exists
  <1> QED BY <1>1, <1>2, <1>3, <1>4

\* Every step keeps a rename quiet.
LEMMA QuietStep ==
    ASSUME SeparateLayout, MovesInv, WorktreesApart, RenamesUnreviewed, QuietInv, [Next]_vars
    PROVE  QuietInv'
  <1>1. CASE Rename
    <2>1. CASE \E r \in Repos, new \in Names, here \in Trees \cup {None} : StartRename(r, new, here)
      BY <2>1, StartQuiet
    <2>2. CASE \E t \in Trees : MoveTree(t)
      BY <2>2, MoveTreeQuiet
    <2>3. CASE MoveBare
      BY <2>3, MoveBareQuiet
    <2>4. CASE RepairMoved \/ RepairRefused \/ RepairFails \/ CleanUp
      BY <2>4, RepairQuiet
    <2>5. CASE MoveFails \/ UndoBare \/ UndoBareFails \/ UndoTree \/ UndoTreeFails \/ UndoRepair \/ UndoRepairFails
      BY <2>5, RollbackQuiet
    <2> QED BY <1>1, <2>1, <2>2, <2>3, <2>4, <2>5 DEF Rename
  <1>2. CASE \E t \in Trees : CreateWorktree(t)
    BY <1>2, CreateQuiet
  <1>3. CASE /\ ~Rename
             /\ ~\E t \in Trees : CreateWorktree(t)
    BY <1>3, OthersQuiet DEF Next
  <1> QED BY <1>1, <1>2, <1>3

\* Where no worktree can come to hold another directory, a rename of a
\* repository that has not been reviewed succeeds unless something outside
\* disturbs it, whatever was killed before and whatever is created beside it:
\* what buildRepositoryRenamePlan finds free is free when apply comes to it.
THEOREM RenamesSucceed ==
    ASSUME SeparateLayout
    PROVE  Spec /\ []RenamesUnreviewed => []UndisturbedRenameSucceeds
  <1>1. Init => QuietInv
    BY NoCommandType DEF Init, QuietInv
  <1>2. MovesInv /\ WorktreesApart /\ RenamesUnreviewed /\ QuietInv /\ [Next]_vars => QuietInv'
    BY QuietStep
  <1>3. QuietInv => UndisturbedRenameSucceeds
    BY DEF QuietInv, UndisturbedRenameSucceeds, Idle
  <1>4. Spec => []WorktreesApart
    BY SeparateLayoutMoves, PTL
  <1> QED BY <1>1, <1>2, <1>3, <1>4, MovesInvariant, PTL DEF Spec

\* No worktree is in a bare directory, and no detached worktree is missing.
NoReviews == \A t \in Trees : ~InHome(place[t]) /\ (BranchOf[t] = Detached => place[t] # Nowhere)

\* It stays so, whatever happens to the directories.
LEMMA NoReviewsStay ==
    ASSUME DiskInv, WorktreesApart, NoReviews, PlaceStep
    PROVE  NoReviews'
  <1>0. place \in [Dirs -> Path] /\ ~InHome(Nowhere)
    BY DEF DiskInv, DiskTyped, InHome, Within
  <1>1. CASE \A t \in Trees : place'[t] = place[t]
    BY <1>1 DEF NoReviews, InHome
  <1>2. CASE \E t \in Trees : \E q \in Path : TreePlaced(t, q)
    <2>1. PICK t \in Trees, q \in Path : TreePlaced(t, q)
      BY <1>2
    <2>2. place'[t] = q /\ \A u \in Trees \ {t} : place'[u] = place[u]
      BY <2>1, <1>0, RepoOfTree DEF TreePlaced
    <2>3. ~InHome(q) /\ (BranchOf[t] = Detached => q # Nowhere)
      BY <2>1, <1>0, ManagedPathsAre DEF TreePlaced, NoReviews
    <2>4. \A p : InHome(p)' <=> InHome(p)
      BY DEF InHome
    <2> QED BY <2>2, <2>3, <2>4 DEF NoReviews
  <1>3. CASE \E r \in Repos : \E q \in Homes \cup {Nowhere} : RepoPlaced(r, q)
    BY <1>3, <1>0, <1>1, RepoOfTree DEF RepoPlaced
  <1>4. CASE \E r \in Repos : \E name \in Names : BareMoved(r, name)
    <2>1. PICK r \in Repos, name \in Names : BareMoved(r, name)
      BY <1>4
    <2>2. PICK h \in Homes, q \in Homes : h = place[r] /\ q = BarePath(name)
      BY <2>1, HomesOfNames DEF BareMoved
    <2>3. place' = Moved(h, q) /\ place[r] = h
      BY <2>1, <2>2 DEF BareMoved
    <2>4. \A t \in Trees : RepoOf[t] # r \/ ~Within(h, place[t]) => place'[t] = place[t]
      BY <2>3, BareMoves
    <2>5. \A t \in Trees : ~Within(h, place[t])
      BY DEF NoReviews, InHome
    <2> QED BY <1>1, <2>4, <2>5
  <1> QED BY <1>1, <1>2, <1>3, <1>4 DEF PlaceStep

\* Where nothing is reviewed and no worktree can come to hold another
\* directory, a rename succeeds unless something outside disturbs it
\* (buildRepositoryRenamePlan, apply).
THEOREM UnreviewedRenamesSucceed ==
    ASSUME SeparateLayout, Unreviewed
    PROVE  Spec => []UndisturbedRenameSucceeds
  <1>1. Init => MovesInv /\ LayoutInv /\ NoReviews
    <2>1. Init => NoReviews
      <3> SUFFICES ASSUME Init, NEW t \in Trees
                   PROVE  ~InHome(place[t]) /\ (BranchOf[t] = Detached => place[t] # Nowhere)
        BY DEF NoReviews
      <3>1. place \in Starts
        BY DEF Init
      <3> QED BY <3>1 DEF Unreviewed, InHome, Within
    <2> QED BY <2>1, SpotsStart, SpotsApart, MovesStart
  <1>2. MovesInv /\ LayoutInv /\ NoReviews /\ [Next]_vars => (MovesInv /\ LayoutInv /\ NoReviews)'
    BY SpotsApart, SpotsStep, PlaceSteps, NoReviewsStay DEF MovesInv
  <1>3. MovesInv /\ NoReviews => RenamesUnreviewed
    <2> SUFFICES ASSUME MovesInv, NoReviews, Running, NEW t \in DOMAIN command.plan
                 PROVE  ~InHome(command.plan[t].from)
      BY DEF RenamesUnreviewed
    <2>1. PlanInv /\ PlacesInv
      BY DEF MovesInv, RenameInv
    <2> QED BY <2>1, PlanPaths, PlannedPlace DEF NoReviews
  <1>4. Spec => []RenamesUnreviewed
    BY <1>1, <1>2, <1>3, PTL DEF Spec
  <1> QED BY <1>4, RenamesSucceed, PTL
==============================================================================
