------------------------- MODULE ReleaseTrain_proofs -------------------------
(***************************************************************************)
(* Proofs about ReleaseTrain: for any packages, bumps, bounds and number   *)
(* of trains, and whatever fails, is cancelled, re-run or done by hand,    *)
(* main declares only what is published, a train's notes list every tag on *)
(* its commit, and no version is published before what it depends on.      *)
(***************************************************************************)
EXTENDS ReleaseTrain, FiniteSetTheorems, SequenceTheorems, WellFoundedInduction, TLAPS

-----------------------------------------------------------------------------
(* Versions.                                                               *)

Commit == {"bump", "fix", "train", "main"} \X Nat

Bump == [of : SUBSET Packages, flaw : Flaws]

\* A bump that a branch holds has been merged.
Bumped(merged, tree) == \A n : << "bump", n >> \in tree => n \in DOMAIN merged

\* The version of p in a tree once the given bumps are merged, what is wrong with it,
\* and what keeps a tree from being planned.
VersionOf(merged, tree, p) ==
  Max({0} \cup {n \in DOMAIN merged : << "bump", n >> \in tree /\ p \in merged[n].of})

FlawOf(merged, tree, p, flaw) ==
  /\ VersionOf(merged, tree, p) # 0
  /\ merged[VersionOf(merged, tree, p)].flaw = flaw
  /\ << "fix", VersionOf(merged, tree, p) >> \notin tree

LEMMA VersionIs ==
  ASSUME NEW tree, NEW p
  PROVE  /\ Version(tree, p) = VersionOf(bumps, tree, p)
         /\ \A flaw : Flawed(tree, p, flaw) <=> FlawOf(bumps, tree, p, flaw)
<1>1. Version(tree, p) = VersionOf(bumps, tree, p)
  BY DEF Version, VersionOf
<1>2. ASSUME NEW flaw PROVE Flawed(tree, p, flaw) <=> FlawOf(bumps, tree, p, flaw)
  BY <1>1, Zenon DEF Flawed, FlawOf
<1> QED
  BY <1>1, <1>2

\* Merging one more bump changes no version of a tree that does not hold it.
LEMMA OlderTrees ==
  ASSUME NEW merged \in Seq(Bump), NEW bump \in Bump, NEW tree, Bumped(merged, tree), NEW p
  PROVE  LET more == Append(merged, bump)
         IN  /\ VersionOf(more, tree, p) = VersionOf(merged, tree, p)
             /\ Bumped(more, tree)
             /\ \A n \in DOMAIN merged : more[n] = merged[n]
<1> DEFINE more == Append(merged, bump)
           held(b) == {n \in DOMAIN b : << "bump", n >> \in tree /\ p \in b[n].of}
<1>1. /\ DOMAIN merged \subseteq DOMAIN more
      /\ \A n \in DOMAIN merged : more[n] = merged[n]
  OBVIOUS
<1> HIDE DEF more
<1>2. held(more) = held(merged)
  BY <1>1 DEF Bumped
<1>3. \A b : VersionOf(b, tree, p) = Max({0} \cup held(b))
  BY DEF VersionOf
<1>4. VersionOf(more, tree, p) = VersionOf(merged, tree, p)
  <2> HIDE DEF held
  <2> QED
    BY <1>2, <1>3
<1>5. Bumped(more, tree)
  BY <1>1 DEF Bumped
<1> QED
  BY <1>1, <1>4, <1>5 DEF more

\* Trees that hold the same bumps declare the same versions.
LEMMA SameBumps ==
  ASSUME NEW merged, NEW s, NEW t, \A n : << "bump", n >> \in s <=> << "bump", n >> \in t, NEW p
  PROVE  VersionOf(merged, s, p) = VersionOf(merged, t, p)
<1> DEFINE held(tree) == {n \in DOMAIN merged : << "bump", n >> \in tree /\ p \in merged[n].of}
<1>1. held(s) = held(t)
  OBVIOUS
<1>2. \A tree : VersionOf(merged, tree, p) = Max({0} \cup held(tree))
  BY DEF VersionOf
<1> HIDE DEF held
<1> QED
  BY <1>1, <1>2

\* A set of naturals that is not empty has a least element.
LEMMA LeastOf ==
  ASSUME NEW T, T \subseteq Nat, T # {}
  PROVE  \E x \in T : \A y \in T : x <= y
<1>1. \E x \in T : \A y \in T : ~ (<< y, x >> \in OpToRel(<, Nat))
  BY NatLessThanWellFounded, WFMin
<1>2. PICK x \in T : \A y \in T : ~ (<< y, x >> \in OpToRel(<, Nat))
  BY <1>1
<1>3. \A y \in T : << y, x >> \in Nat \X Nat
  OBVIOUS
<1>4. \A y \in T : ~ (y < x)
  BY <1>2, <1>3 DEF OpToRel
<1> QED
  BY <1>4

\* The version is one the bumps declare, or none.
LEMMA VersionIsBump ==
  ASSUME NEW merged \in Seq(Bump), NEW tree, NEW p
  PROVE  VersionOf(merged, tree, p) = 0 \/ VersionOf(merged, tree, p) \in DOMAIN merged
<1> DEFINE S == {0} \cup {n \in DOMAIN merged : << "bump", n >> \in tree /\ p \in merged[n].of}
           N == Len(merged)
<1>1. N \in Nat /\ DOMAIN merged = 1 .. N
  OBVIOUS
<1>2. S \subseteq 0 .. N /\ 0 \in S
  BY <1>1
<1>3. VersionOf(merged, tree, p) = CHOOSE x \in S : \A y \in S : x >= y
  BY DEF VersionOf, Max
<1> HIDE DEF S, N
<1>4. \E x \in S : \A y \in S : x >= y
  <2> DEFINE T == {N - x : x \in S}
  <2>1. T \subseteq Nat /\ N - 0 \in T
    BY <1>1, <1>2
  <2>2. PICK least \in T : \A other \in T : least <= other
    <3> HIDE DEF T
    <3> QED
      BY <2>1, LeastOf
  <2>3. PICK x \in S : least = N - x
    OBVIOUS
  <2>4. \A y \in S : N - x <= N - y
    BY <2>2, <2>3
  <2>5. \A y \in S : x >= y
    BY <1>1, <1>2, <2>4
  <2> QED
    BY <2>5
<1>5. VersionOf(merged, tree, p) \in S
  BY <1>3, <1>4
<1> QED
  BY <1>5 DEF S

\* Nor does it change what is wrong with them.
LEMMA OlderFlaws ==
  ASSUME NEW merged \in Seq(Bump), NEW bump \in Bump, NEW tree, Bumped(merged, tree), NEW p, NEW flaw
  PROVE  FlawOf(Append(merged, bump), tree, p, flaw) <=> FlawOf(merged, tree, p, flaw)
<1> DEFINE more == Append(merged, bump)
           v == VersionOf(merged, tree, p)
<1>1. VersionOf(more, tree, p) = v /\ \A n \in DOMAIN merged : more[n] = merged[n]
  BY OlderTrees
<1>2. v = 0 \/ v \in DOMAIN merged
  BY VersionIsBump
<1> HIDE DEF more, v
<1>3. v # 0 => more[v] = merged[v]
  BY <1>1, <1>2
<1>4. FlawOf(more, tree, p, flaw) <=> v # 0 /\ more[v].flaw = flaw /\ << "fix", v >> \notin tree
  BY <1>1 DEF FlawOf
<1>5. FlawOf(merged, tree, p, flaw) <=> v # 0 /\ merged[v].flaw = flaw /\ << "fix", v >> \notin tree
  BY DEF FlawOf, v
<1> QED
  BY <1>3, <1>4, <1>5 DEF more

-----------------------------------------------------------------------------
(* The branches.                                                           *)

Has(tree, t) == << "train", t >> \in tree

Cuts == [step : {"none", "checked out"}, head : SUBSET Commit, newest : Nat]

BranchTypes ==
  /\ bumps \in Seq(Bump) /\ Len(bumps) <= Len(Changes) /\ \A n \in DOMAIN bumps : bumps[n] \in Changes[n]
  /\ develop \in SUBSET Commit /\ rc \in SUBSET Commit /\ main \in SUBSET Commit
  /\ trees \in Seq(SUBSET Commit)
  /\ cut \in Cuts /\ cut.newest <= Newest
  /\ raced \subseteq 1 .. (Newest + 1)

KnownBumps ==
  /\ Bumped(bumps, develop) /\ Bumped(bumps, rc) /\ Bumped(bumps, main) /\ Bumped(bumps, cut.head)
  /\ \A t \in 1 .. Newest : Bumped(bumps, trees[t])

\* What a branch holds of a train came to it through main; a train on main or on release
\* is there whole, with all that came before it; what is cut holds the release it was
\* tested against, so while release has what main has not, no train is open but one that
\* was cut past it.
Lineage ==
  /\ \A t \in DOMAIN syncs : syncs[t] \subseteq main
  /\ \A t : Has(develop, t) \/ Has(rc, t) \/ Has(cut.head, t) => Has(main, t)
  /\ \A t : Has(main, t) => t \in 1 .. Newest /\ trees[t] \subseteq main
  /\ \A t : Has(Release, t) => t \in 1 .. Newest /\ trees[t] \subseteq Release
  /\ Newest > 0 => Has(Release, Newest)
  /\ \A t : Has(main, t) => Has(Release, t)
  /\ \A n : << "bump", n >> \in main => << "bump", n >> \in Release
  /\ cut.step = "checked out" /\ cut.newest = Newest => Release \subseteq cut.head
  /\ rc # {} => Release \subseteq main \/ Newest + 1 \in raced
  /\ mainPr => ~(Release \subseteq main)

BranchInv == BranchTypes /\ KnownBumps /\ Lineage

branchVars == << branches, syncs, mainPr, cuts >>

LEMMA ReleaseIs ==
  ASSUME trees \in Seq(SUBSET Commit)
  PROVE  /\ Newest \in Nat /\ Release \in SUBSET Commit
         /\ Newest = 0 => Release = {}
         /\ Newest > 0 => Newest \in 1 .. Newest /\ Release = trees[Newest]
<1>1. Newest \in Nat /\ (trees = <<>> <=> Newest = 0)
  BY EmptySeq DEF Newest
<1>2. Newest > 0 => Newest \in 1 .. Newest /\ trees[Newest] \in SUBSET Commit
  BY <1>1 DEF Newest
<1> QED
  BY <1>1, <1>2 DEF Release, Last, Newest

\* The run of a cut holds what it checked out, or nothing.
LEMMA CutIs ==
  ASSUME BranchTypes
  PROVE  /\ cut.step \in {"none", "checked out"} /\ cut.head \in SUBSET Commit /\ cut.newest \in Nat
         /\ cut.newest <= Newest
<1>1. cut \in Cuts /\ cut.newest <= Newest
  BY DEF BranchTypes
<1> QED
  BY <1>1 DEF Cuts

LEMMA NoCutIs ==
  ASSUME cut' = NoCut
  PROVE  /\ cut' \in Cuts /\ cut'.newest = 0 /\ cut'.step = "none"
         /\ \A c : c \notin cut'.head
  BY DEF NoCut, Cuts

LEMMA CheckedOutIs ==
  ASSUME BranchTypes, cut' = [step |-> "checked out", head |-> develop, newest |-> Newest]
  PROVE  cut' \in Cuts /\ cut'.newest = Newest /\ cut'.head = develop
<1>1. develop \in SUBSET Commit /\ Newest \in Nat
  BY ReleaseIs DEF BranchTypes
<1> QED
  BY <1>1 DEF Cuts

LEMMA BranchInit == TrainInit => BranchInv
<1> SUFFICES ASSUME TrainInit PROVE BranchInv
  OBVIOUS
<1>1. /\ bumps = <<>> /\ develop = {} /\ rc = {} /\ trees = <<>> /\ main = {} /\ mainPr = FALSE
      /\ syncs = [t \in {0} |-> {}] /\ cut = NoCut /\ raced = {}
  BY DEF TrainInit
<1>2. Changes \in Seq(SUBSET Bump)
  BY TrainAssumption DEF Bump
<1>3. Len(bumps) = 0 /\ Newest = 0 /\ Release = {} /\ bumps \in Seq(Bump) /\ trees \in Seq(SUBSET Commit)
  BY <1>1 DEF Newest, Release
<1>4. Len(Changes) \in Nat
  BY <1>2
<1>5. BranchTypes
  <2>1. cut \in Cuts /\ cut.newest <= Newest
    BY <1>1, <1>3 DEF Cuts, NoCut
  <2> QED
    BY <1>1, <1>3, <1>4, <2>1 DEF BranchTypes
<1>6. KnownBumps
  BY <1>1, <1>3 DEF KnownBumps, Bumped, NoCut
<1>7. \A t \in DOMAIN syncs : syncs[t] \subseteq main
  BY <1>1
<1>8. Lineage
  BY <1>1, <1>3, <1>7 DEF Lineage, Has, NoCut
<1> QED
  BY <1>5, <1>6, <1>8 DEF BranchInv

LEMMA BranchStutter ==
  ASSUME BranchInv, UNCHANGED branchVars
  PROVE  BranchInv'
<1>1. UNCHANGED << bumps, develop, rc, trees, main, syncs, mainPr, cut, raced >>
  BY DEF branchVars, branches, cuts
<1>2. BranchTypes' /\ KnownBumps'
  BY <1>1 DEF BranchInv, BranchTypes, KnownBumps, Newest, Bumped
<1>3. Newest' = Newest /\ Release' = Release
  BY <1>1 DEF Newest, Release, Last
<1>4. Lineage'
  BY <1>1, <1>3 DEF BranchInv, Lineage, Has
<1> QED
  BY <1>2, <1>4 DEF BranchInv

\* Commits that bring no train are merged into develop or into the open rc branch.
LEMMA Merging ==
  ASSUME BranchInv, BranchTypes', Bumped(bumps', develop'), Bumped(bumps', rc'),
         DOMAIN bumps \subseteq DOMAIN bumps',
         UNCHANGED << trees, main, mainPr, syncs, cut, raced >>,
         NEW commits, \A t : << "train", t >> \notin commits,
         \/ develop' = develop \cup commits /\ rc' = rc
         \/ rc # {} /\ rc' = rc \cup commits /\ develop' = develop
  PROVE  BranchInv'
<1>1. Newest' = Newest /\ Release' = Release
  BY DEF Newest, Release, Last
<1>2. KnownBumps'
  <2>1. \A tree : Bumped(bumps, tree) => Bumped(bumps', tree)
    BY DEF Bumped
  <2>2. Bumped(bumps', main') /\ Bumped(bumps', cut'.head) /\ \A t \in 1 .. Newest : Bumped(bumps', trees'[t])
    BY <2>1 DEF BranchInv, KnownBumps
  <2> QED
    BY <1>1, <2>2 DEF KnownBumps
<1>3. Lineage'
  <2>1. \A t : Has(develop', t) \/ Has(rc', t) => Has(develop, t) \/ Has(rc, t)
    BY DEF Has
  <2>2. rc' # {} => rc # {}
    OBVIOUS
  <2> QED
    BY <1>1, <2>1, <2>2 DEF BranchInv, Lineage, Has
<1> QED
  BY <1>2, <1>3 DEF BranchInv

LEMMA BumpKeepsBranches ==
  ASSUME BranchInv, NEW branch \in {"develop", "rc"}, MergeBump(branch)
  PROVE  BranchInv'
<1> DEFINE n == Len(bumps) + 1
           commits == {<< "bump", n >>}
<1>1. BranchTypes
  BY DEF BranchInv
<1>2. PICK change \in Changes[n] : bumps' = Append(bumps, change)
  BY DEF MergeBump
<1>3. /\ Len(bumps) < Len(Changes) /\ UNCHANGED << trees, main, mainPr, syncs, cut, raced >>
      /\ \/ develop' = develop \cup commits /\ rc' = rc
         \/ rc # {} /\ rc' = rc \cup commits /\ develop' = develop
  BY DEF MergeBump, MergedInto, cuts
<1>4. Len(bumps) \in Nat /\ Len(Changes) \in Nat /\ n \in 1 .. Len(Changes)
  <2>1. Changes \in Seq(SUBSET Bump)
    BY TrainAssumption DEF Bump
  <2> QED
    BY <1>1, <1>3, <2>1 DEF BranchTypes
<1>5. change \in Bump
  <2>1. Changes \in Seq(SUBSET Bump)
    BY TrainAssumption DEF Bump
  <2>2. Changes[n] \in SUBSET Bump
    BY <1>4, <2>1
  <2> QED
    BY <2>2
<1>6. /\ bumps' \in Seq(Bump) /\ Len(bumps') = n /\ bumps'[n] = change
      /\ \A k \in DOMAIN bumps : bumps'[k] = bumps[k]
      /\ DOMAIN bumps' = 1 .. n /\ DOMAIN bumps = 1 .. Len(bumps)
  BY <1>1, <1>2, <1>5 DEF BranchTypes
<1>7. n \in Nat /\ commits \in SUBSET Commit /\ \A t : << "train", t >> \notin commits
  BY <1>4 DEF Commit
<1>8. \A k \in DOMAIN bumps' : bumps'[k] \in Changes[k]
  <2> SUFFICES ASSUME NEW k \in 1 .. n PROVE bumps'[k] \in Changes[k]
    BY <1>6
  <2>1. k = n \/ k \in DOMAIN bumps
    BY <1>4, <1>6
  <2> QED
    BY <1>1, <1>2, <1>6, <2>1 DEF BranchTypes
<1>9. BranchTypes'
  <2>1. develop' \in SUBSET Commit /\ rc' \in SUBSET Commit
    <3> HIDE DEF commits
    <3> QED
      BY <1>1, <1>3, <1>7 DEF BranchTypes
  <2>2. main' \in SUBSET Commit /\ trees' \in Seq(SUBSET Commit)
    BY <1>1, <1>3 DEF BranchTypes
  <2>3. Len(bumps') <= Len(Changes)
    BY <1>4, <1>6
  <2>4. cut' \in Cuts /\ cut'.newest <= Newest' /\ raced' \subseteq 1 .. (Newest' + 1)
    BY <1>1, <1>3 DEF BranchTypes, Newest
  <2> QED
    BY <1>6, <1>8, <2>1, <2>2, <2>3, <2>4 DEF BranchTypes
<1>10. DOMAIN bumps \subseteq DOMAIN bumps' /\ n \in DOMAIN bumps'
  BY <1>4, <1>6
<1>11. Bumped(bumps', develop') /\ Bumped(bumps', rc')
  <2>1. Bumped(bumps, develop) /\ Bumped(bumps, rc)
    BY DEF BranchInv, KnownBumps
  <2>2. \A tree : Bumped(bumps, tree) => Bumped(bumps', tree) /\ Bumped(bumps', tree \cup commits)
    BY <1>10 DEF Bumped
  <2> HIDE DEF commits
  <2> QED
    BY <1>3, <2>1, <2>2
<1> HIDE DEF commits, n
<1> QED
  BY <1>3, <1>7, <1>9, <1>10, <1>11, Merging

LEMMA FixKeepsBranches ==
  ASSUME BranchInv, NEW branch \in {"develop", "rc"}, MergeFix(branch)
  PROVE  BranchInv'
<1>1. BranchTypes
  BY DEF BranchInv
<1>2. PICK n \in DOMAIN bumps : MergedInto(branch, {<< "fix", n >>})
  BY DEF MergeFix
<1> DEFINE commits == {<< "fix", n >>}
<1>3. /\ UNCHANGED << bumps, trees, main, mainPr, syncs, cut, raced >>
      /\ \/ develop' = develop \cup commits /\ rc' = rc
         \/ rc # {} /\ rc' = rc \cup commits /\ develop' = develop
  BY <1>2 DEF MergeFix, MergedInto, cuts
<1>4. n \in Nat
  BY <1>1 DEF BranchTypes
<1>5. commits \in SUBSET Commit /\ \A t : << "train", t >> \notin commits /\ << "bump", t >> \notin commits
  BY <1>4 DEF Commit
<1>6. BranchTypes'
  BY <1>1, <1>3, <1>5 DEF BranchTypes, Newest
<1>7. Bumped(bumps', develop') /\ Bumped(bumps', rc')
  BY <1>3, <1>5 DEF BranchInv, KnownBumps, Bumped
<1> HIDE DEF commits
<1> QED
  BY <1>3, <1>5, <1>6, <1>7, Merging

\* What is checked out holds all that release has at that moment.
LEMMA CheckOutKeepsBranches ==
  ASSUME BranchInv, CheckOut \/ StopCut
  PROVE  BranchInv'
<1>1. BranchTypes /\ KnownBumps /\ Lineage
  BY DEF BranchInv
<1>2. UNCHANGED << bumps, develop, rc, trees, main, mainPr, syncs, raced >>
  BY DEF CheckOut, Fetch, StopCut, branches, requests
<1>3. Newest' = Newest /\ Release' = Release /\ Newest \in Nat
  BY <1>1, <1>2, ReleaseIs DEF Newest, Release, Last, BranchTypes
<1>4. \/ cut' = [step |-> "checked out", head |-> develop, newest |-> Newest] /\ Release \subseteq develop
      \/ cut' = NoCut
  BY DEF CheckOut, Fetch, StopCut
<1>5. /\ cut' \in Cuts /\ cut'.newest <= Newest /\ cut'.head \subseteq develop
      /\ cut'.step = "checked out" => Release \subseteq cut'.head
  <2>1. CASE cut' = NoCut
    <3>1. cut' \in Cuts /\ cut'.newest = 0 /\ cut'.step = "none" /\ \A c : c \notin cut'.head
      BY <2>1, NoCutIs
    <3> QED
      BY <1>3, <3>1
  <2>2. CASE cut' # NoCut
    <3>1. cut' \in Cuts /\ cut'.newest = Newest /\ cut'.head = develop
      BY <1>1, <1>4, <2>2, CheckedOutIs
    <3>2. cut'.newest <= Newest
      BY <1>3, <3>1
    <3>3. Release \subseteq cut'.head /\ cut'.head \subseteq develop
      BY <1>4, <2>2, <3>1
    <3> QED
      BY <3>1, <3>2, <3>3, Zenon
  <2> QED
    BY <2>1, <2>2
<1>6. BranchTypes'
  BY <1>1, <1>2, <1>3, <1>5 DEF BranchTypes
<1>7. KnownBumps'
  BY <1>1, <1>2, <1>3, <1>5 DEF KnownBumps, Bumped
<1>8. Lineage'
  <2>1. \A t : Has(cut'.head, t) => Has(main, t)
    BY <1>1, <1>5 DEF Lineage, Has
  <2> QED
    BY <1>1, <1>2, <1>3, <1>5, <2>1 DEF Lineage, Has
<1> QED
  BY <1>6, <1>7, <1>8 DEF BranchInv

\* A candidate is cut with all that release had when it was tested: unless release has
\* moved since, so has main.
LEMMA CutKeepsBranches ==
  ASSUME BranchInv, Cut
  PROVE  BranchInv'
<1>1. BranchTypes /\ KnownBumps /\ Lineage
  BY DEF BranchInv
<1>2. /\ rc' = cut.head /\ cut' = NoCut /\ cut.step = "checked out"
      /\ raced' = IF cut.newest = Newest THEN raced \ {Newest + 1} ELSE raced \cup {Newest + 1}
      /\ UNCHANGED << bumps, develop, trees, main, mainPr, syncs >>
  BY DEF Cut
<1>3. Newest' = Newest /\ Release' = Release /\ Newest \in Nat
  BY <1>1, <1>2, ReleaseIs DEF Newest, Release, Last, BranchTypes
<1>4. BranchTypes'
  <2>1. cut' \in Cuts /\ cut'.newest <= Newest /\ rc' \in SUBSET Commit
    <3>1. cut' \in Cuts /\ cut'.newest = 0
      BY <1>2, NoCutIs
    <3>2. cut'.newest <= Newest
      BY <1>3, <3>1
    <3>3. rc' \in SUBSET Commit
      BY <1>1, <1>2, CutIs
    <3> QED
      BY <3>1, <3>2, <3>3, Zenon
  <2>2. raced' \subseteq 1 .. (Newest + 1)
    <3>1. raced \subseteq 1 .. (Newest + 1)
      BY <1>1 DEF BranchTypes
    <3>2. Newest + 1 \in 1 .. (Newest + 1)
      BY <1>3
    <3> QED
      BY <1>2, <3>1, <3>2
  <2> QED
    BY <1>1, <1>2, <1>3, <2>1, <2>2 DEF BranchTypes
<1>5. KnownBumps'
  BY <1>1, <1>2, <1>3 DEF KnownBumps, Bumped, NoCut
<1>6. cut.newest = Newest => Release \subseteq main
  <2>1. /\ (Newest = 0 => Release = {})
        /\ (Newest > 0 => Newest \in 1 .. Newest /\ Release = trees[Newest])
    BY <1>1, ReleaseIs DEF BranchTypes
  <2>2. CASE Newest > 0 /\ cut.newest = Newest
    <3>1. Has(Release, Newest)
      BY <1>1, <2>2 DEF Lineage
    <3>2. Has(cut.head, Newest)
      BY <1>1, <1>2, <2>2, <3>1 DEF Has, Lineage
    <3>3. trees[Newest] \subseteq main
      BY <1>1, <3>2 DEF Lineage
    <3> QED
      BY <2>1, <2>2, <3>3
  <2> QED
    BY <1>3, <2>1, <2>2
<1>7. rc' # {} => Release \subseteq main \/ Newest + 1 \in raced'
  BY <1>2, <1>6
<1>8. Lineage'
  <2>1. \A t : Has(rc', t) => Has(main, t)
    BY <1>1, <1>2 DEF Lineage
  <2>2. \A t : ~Has(cut'.head, t)
    BY <1>2 DEF NoCut, Has
  <2>3. cut'.step # "checked out"
    BY <1>2 DEF NoCut
  <2> QED
    BY <1>1, <1>2, <1>3, <1>7, <2>1, <2>2, <2>3 DEF Lineage, Has
<1> QED
  BY <1>4, <1>5, <1>8 DEF BranchInv

LEMMA CloseKeepsBranches ==
  ASSUME BranchInv, CloseRc
  PROVE  BranchInv'
<1>1. BranchTypes /\ KnownBumps /\ Lineage
  BY DEF BranchInv
<1>2. rc' = {} /\ UNCHANGED << bumps, develop, trees, main, mainPr, syncs, cut, raced >>
  BY DEF CloseRc, cuts
<1>3. Newest' = Newest /\ Release' = Release
  BY <1>2 DEF Newest, Release, Last
<1>4. BranchTypes' /\ KnownBumps'
  BY <1>1, <1>2, <1>3 DEF BranchTypes, KnownBumps, Bumped
<1>5. Lineage'
  BY <1>1, <1>2, <1>3 DEF Lineage, Has
<1> QED
  BY <1>4, <1>5 DEF BranchInv

\* The rc branch is merged into release.
LEMMA ReleaseGrows ==
  ASSUME BranchTypes, MergeRc
  PROVE  LET tree == Release \cup rc \cup {<< "train", Newest + 1 >>}
         IN  /\ trees' = Append(trees, tree) /\ tree \in SUBSET Commit
             /\ trees' \in Seq(SUBSET Commit)
             /\ Newest' = Newest + 1 /\ Newest \in Nat /\ Release' = tree /\ trees'[Newest + 1] = tree
             /\ \A t \in 1 .. Newest : trees'[t] = trees[t]
<1> DEFINE tree == Release \cup rc \cup {<< "train", Newest + 1 >>}
<1>1. trees \in Seq(SUBSET Commit) /\ rc \in SUBSET Commit /\ trees' = Append(trees, tree)
  BY DEF BranchTypes, MergeRc
<1>2. Newest \in Nat /\ Release \in SUBSET Commit
  BY <1>1, ReleaseIs
<1>3. << "train", Newest + 1 >> \in Commit
  BY <1>2 DEF Commit
<1>4. tree \in SUBSET Commit
  BY <1>1, <1>2, <1>3
<1> HIDE DEF tree
<1>5. /\ trees' \in Seq(SUBSET Commit) /\ Len(trees') = Newest + 1 /\ trees'[Newest + 1] = tree
      /\ \A t \in 1 .. Newest : trees'[t] = trees[t]
  BY <1>1, <1>2, <1>4 DEF Newest
<1>6. Newest' = Newest + 1
  BY <1>5 DEF Newest
<1>7. Release' = trees'[Newest']
  BY <1>1, <1>2, <1>5, <1>6, EmptySeq DEF Release, Last, Newest
<1> QED
  BY <1>1, <1>2, <1>4, <1>5, <1>6, <1>7 DEF tree

LEMMA MergeRcKeepsBranches ==
  ASSUME BranchInv, MergeRc
  PROVE  BranchInv'
<1> DEFINE tree == Release \cup rc \cup {<< "train", Newest + 1 >>}
<1>1. BranchTypes /\ KnownBumps /\ Lineage
  BY DEF BranchInv
<1>2. rc # {} /\ rc' = {} /\ UNCHANGED << bumps, develop, main, mainPr, syncs, cut, raced >>
  BY DEF MergeRc, cuts
<1>3. /\ trees' = Append(trees, tree) /\ tree \in SUBSET Commit
      /\ trees' \in Seq(SUBSET Commit)
      /\ Newest' = Newest + 1 /\ Newest \in Nat /\ Release' = tree /\ trees'[Newest + 1] = tree
      /\ \A t \in 1 .. Newest : trees'[t] = trees[t]
  BY <1>1, ReleaseGrows
<1>4. BranchTypes'
  <2>1. cut' \in Cuts /\ cut'.newest < Newest' /\ cut'.newest <= Newest'
    <3>1. cut' \in Cuts
      BY <1>1, <1>2 DEF BranchTypes
    <3>2. cut.newest \in Nat /\ cut.newest <= Newest
      BY <1>1, CutIs
    <3>3. Newest' = Newest + 1 /\ Newest \in Nat /\ cut' = cut
      BY <1>2, <1>3
    <3> QED
      BY <3>1, <3>2, <3>3
  <2>2. raced' \subseteq 1 .. (Newest' + 1)
    <3>1. raced' \subseteq 1 .. (Newest + 1)
      BY <1>1, <1>2 DEF BranchTypes
    <3> HIDE DEF tree
    <3>2. \A t \in 1 .. (Newest + 1) : t \in 1 .. (Newest' + 1)
      BY <1>3
    <3> QED
      BY <3>1, <3>2
  <2> QED
    BY <1>1, <1>2, <1>3, <2>1, <2>2 DEF BranchTypes
<1>5. Newest = 0 => Release = {}
  BY <1>1, ReleaseIs DEF BranchTypes
<1>6. KnownBumps'
  <2>1. Bumped(bumps, Release)
    <3>1. Newest > 0 => Newest \in 1 .. Newest /\ Release = trees[Newest]
      BY <1>1, ReleaseIs DEF BranchTypes
    <3>2. Newest > 0 => Bumped(bumps, Release)
      BY <1>1, <3>1 DEF KnownBumps
    <3> QED
      BY <1>3, <1>5, <3>2 DEF Bumped
  <2>2. Bumped(bumps, tree)
    BY <1>1, <2>1 DEF KnownBumps, Bumped
  <2>3. Bumped(bumps, {})
    BY DEF Bumped
  <2> HIDE DEF tree
  <2>4. \A t \in 1 .. Newest' : t \in 1 .. Newest \/ t = Newest + 1
    BY <1>3
  <2>5. \A t \in 1 .. Newest' : Bumped(bumps, trees'[t])
    BY <1>1, <1>3, <2>2, <2>4 DEF KnownBumps
  <2> QED
    BY <1>1, <1>2, <2>3, <2>5 DEF KnownBumps
<1>7. Lineage'
  <2>1. Has(tree, Newest + 1) /\ \A t : Has(tree, t) => t = Newest + 1 \/ Has(Release, t)
    BY <1>1 DEF Lineage, Has
  <2>2. Release \subseteq tree
    OBVIOUS
  <2> HIDE DEF tree
  <2>3. \A t \in 1 .. Newest : t \in 1 .. (Newest + 1) /\ trees'[t] = trees[t]
    <3>1. \A t \in 1 .. Newest : trees'[t] = trees[t]
      BY <1>3
    <3>2. \A t \in 1 .. Newest : t \in 1 .. (Newest + 1)
      BY <1>3
    <3> QED
      BY <3>1, <3>2
  <2>4. \A t : Has(main, t) => t \in 1 .. (Newest + 1) /\ trees'[t] \subseteq main
    BY <1>1, <2>3 DEF Lineage
  <2>5. \A t : Has(tree, t) => t \in 1 .. (Newest + 1) /\ trees'[t] \subseteq tree
    <3> SUFFICES ASSUME NEW t, Has(tree, t) PROVE t \in 1 .. (Newest + 1) /\ trees'[t] \subseteq tree
      OBVIOUS
    <3>1. CASE Has(Release, t)
      BY <1>1, <2>2, <2>3, <3>1 DEF Lineage
    <3>2. CASE t = Newest + 1
      <4>1. Newest + 1 \in 1 .. (Newest + 1) /\ trees'[Newest + 1] = tree
        BY <1>3
      <4> QED
        BY <3>2, <4>1
    <3> QED
      BY <2>1, <3>1, <3>2
  <2>6. /\ \A t : Has(main, t) => Has(tree, t)
        /\ \A n : << "bump", n >> \in main => << "bump", n >> \in tree
    BY <1>1, <2>2 DEF Lineage, Has
  <2>7. mainPr => ~(tree \subseteq main)
    BY <1>1, <2>2 DEF Lineage
  <2>8. cut.newest # Newest + 1
    <3>1. cut.newest \in Nat /\ cut.newest <= Newest
      BY <1>1, CutIs
    <3>2. Newest \in Nat
      BY <1>3
    <3> QED
      BY <3>1, <3>2
  <2>9. \A t : Has(develop, t) \/ Has(cut.head, t) => Has(main, t)
    BY <1>1 DEF Lineage
  <2>10. \A t \in DOMAIN syncs : syncs[t] \subseteq main
    BY <1>1 DEF Lineage
  <2>11. \A t : ~Has({}, t)
    BY DEF Has
  <2> QED
    BY <1>2, <1>3, <2>1, <2>4, <2>5, <2>6, <2>7, <2>8, <2>9, <2>10, <2>11 DEF Lineage, Has
<1> QED
  BY <1>4, <1>6, <1>7 DEF BranchInv

\* What was on release goes to main.
LEMMA MergeMainKeepsBranches ==
  ASSUME BranchInv, MergeMain
  PROVE  BranchInv'
<1>1. BranchTypes /\ KnownBumps /\ Lineage
  BY DEF BranchInv
<1>2. /\ main' = main \cup Release \cup {<< "main", Newest >>} /\ mainPr' = FALSE
      /\ UNCHANGED << bumps, develop, rc, trees, syncs, cut, raced >>
  BY DEF MergeMain, cuts
<1>3. Newest' = Newest /\ Release' = Release
  BY <1>2 DEF Newest, Release, Last
<1>4. /\ Newest \in Nat /\ Release \in SUBSET Commit
      /\ Newest = 0 => Release = {}
      /\ Newest > 0 => Newest \in 1 .. Newest /\ Release = trees[Newest]
  BY <1>1, ReleaseIs DEF BranchTypes
<1>5. BranchTypes'
  <2>1. << "main", Newest >> \in Commit
    BY <1>4 DEF Commit
  <2> QED
    BY <1>1, <1>2, <1>3, <1>4, <2>1 DEF BranchTypes
<1>6. KnownBumps'
  <2>1. Bumped(bumps, Release)
    <3>1. CASE Newest > 0
      BY <1>1, <1>4, <3>1 DEF KnownBumps
    <3>2. CASE Newest = 0
      BY <1>4, <3>2 DEF Bumped
    <3> QED
      BY <1>4, <3>1, <3>2
  <2>2. Bumped(bumps, main')
    BY <1>1, <1>2, <2>1 DEF KnownBumps, Bumped
  <2> QED
    BY <1>1, <1>2, <1>3, <2>2 DEF KnownBumps
<1>7. Lineage'
  <2>1. \A t : Has(main', t) => Has(main, t) \/ Has(Release, t)
    BY <1>2 DEF Has
  <2>2. \A t : Has(main, t) => Has(main', t)
    BY <1>2 DEF Has
  <2>3. \A t : Has(main', t) => t \in 1 .. Newest /\ trees[t] \subseteq main'
    <3> SUFFICES ASSUME NEW t, Has(main', t) PROVE t \in 1 .. Newest /\ trees[t] \subseteq main'
      OBVIOUS
    <3>1. CASE Has(main, t)
      BY <1>1, <1>2, <3>1 DEF Lineage
    <3>2. CASE Has(Release, t)
      BY <1>1, <1>2, <3>2 DEF Lineage
    <3> QED
      BY <2>1, <3>1, <3>2
  <2>4. \A n : << "bump", n >> \in main' => << "bump", n >> \in Release
    BY <1>1, <1>2 DEF Lineage
  <2>5. Release \subseteq main'
    BY <1>2
  <2>6. \A t \in DOMAIN syncs : syncs[t] \subseteq main'
    BY <1>1, <1>2 DEF Lineage
  <2>7. /\ \A t : Has(develop, t) \/ Has(rc, t) \/ Has(cut.head, t) => Has(main', t)
        /\ Newest > 0 => Has(Release, Newest)
        /\ \A t : Has(main', t) => Has(Release, t)
    BY <1>1, <2>1, <2>2 DEF Lineage
  <2>8. /\ \A t : Has(Release, t) => t \in 1 .. Newest /\ trees[t] \subseteq Release
        /\ cut.step = "checked out" /\ cut.newest = Newest => Release \subseteq cut.head
    BY <1>1 DEF Lineage
  <2> QED
    BY <1>2, <1>3, <2>3, <2>4, <2>5, <2>6, <2>7, <2>8 DEF Lineage, Has
<1> QED
  BY <1>5, <1>6, <1>7 DEF BranchInv

LEMMA SyncKeepsBranches ==
  ASSUME BranchInv, OpenSync \/ MergeSync
  PROVE  BranchInv'
<1>1. BranchTypes /\ KnownBumps /\ Lineage
  BY DEF BranchInv
<1>2. CASE OpenSync
  <2>1. UNCHANGED << bumps, develop, rc, trees, main, mainPr, cut, raced >>
    BY <1>2 DEF OpenSync, branches, cuts
  <2>2. Newest' = Newest /\ Release' = Release
    BY <2>1 DEF Newest, Release, Last
  <2>3. BranchTypes' /\ KnownBumps'
    BY <1>1, <2>1, <2>2 DEF BranchTypes, KnownBumps
  <2>4. PICK train : syncs' = [t \in DOMAIN syncs \cup {train} |-> IF t = train THEN main ELSE syncs[t]]
    BY <1>2 DEF OpenSync
  <2>5. \A t \in DOMAIN syncs' : syncs'[t] \subseteq main
    BY <1>1, <2>4 DEF Lineage
  <2>6. Lineage'
    BY <1>1, <2>1, <2>2, <2>5 DEF Lineage, Has
  <2> QED
    BY <2>3, <2>6 DEF BranchInv
<1>3. CASE MergeSync
  <2>1. UNCHANGED << bumps, rc, trees, main, mainPr, syncs, cut, raced >>
    BY <1>3 DEF MergeSync, requests, cuts
  <2>2. Newest' = Newest /\ Release' = Release
    BY <2>1 DEF Newest, Release, Last
  <2>3. PICK k \in DOMAIN syncs : develop' = develop \cup syncs[k]
    BY <1>3 DEF MergeSync
  <2>4. syncs[k] \subseteq main
    BY <1>1, <2>3 DEF Lineage
  <2>5. BranchTypes'
    BY <1>1, <2>1, <2>2, <2>3, <2>4 DEF BranchTypes
  <2>6. Bumped(bumps, develop')
    BY <1>1, <2>3, <2>4 DEF KnownBumps, Bumped
  <2>7. KnownBumps'
    BY <1>1, <2>1, <2>2, <2>6 DEF KnownBumps
  <2>8. \A t : Has(develop', t) => Has(main, t)
    BY <1>1, <2>3, <2>4 DEF Lineage, Has
  <2>9. Lineage'
    BY <1>1, <2>1, <2>2, <2>8 DEF Lineage, Has
  <2> QED
    BY <2>5, <2>7, <2>9 DEF BranchInv
<1> QED
  BY <1>2, <1>3

\* The PR to main is opened only for what main has not.
LEMMA SyncMainKeepsBranches ==
  ASSUME BranchInv, SyncMain
  PROVE  BranchInv'
<1>1. BranchTypes /\ KnownBumps /\ Lineage
  BY DEF BranchInv
<1>2. /\ mainPr' = (mainPr \/ ~(Release \subseteq main))
      /\ UNCHANGED << bumps, develop, rc, trees, main, syncs, cut, raced >>
  BY DEF SyncMain, branches, cuts
<1>3. Newest' = Newest /\ Release' = Release
  BY <1>2 DEF Newest, Release, Last
<1>4. BranchTypes' /\ KnownBumps'
  BY <1>1, <1>2, <1>3 DEF BranchTypes, KnownBumps
<1>5. mainPr' => ~(Release \subseteq main)
  BY <1>1, <1>2 DEF Lineage
<1>6. Lineage'
  BY <1>1, <1>2, <1>3, <1>5 DEF Lineage, Has
<1> QED
  BY <1>4, <1>6 DEF BranchInv

-----------------------------------------------------------------------------
(* What a step changes.                                                    *)

\* The steps that move a branch or open a PR, those of a run and of a reconcile, and those
\* that tag, publish, serve and queue.
BranchMove ==
  \/ \E branch \in {"develop", "rc"} : MergeBump(branch) \/ MergeFix(branch)
  \/ CheckOut \/ Cut \/ StopCut \/ CloseRc \/ MergeRc \/ SyncMain
  \/ MergeMain \/ OpenSync \/ MergeSync

RunMove ==
  \/ StartRun \/ RehearsalPasses \/ RehearsalFails \/ CancelRun
  \/ Finalize \/ FinalizeWhole \/ VerifyFails \/ SyncMain
  \/ \E p \in Packages : SkipJob(p) \/ PublishJob(p) \/ PublishFails(p)

ReconcileMove ==
  \/ ReconcileRun \/ VerifyPasses \/ VerifyFails \/ SyncMain
  \/ \E train \in 1 .. Newest : ReconcileByHand(train)

TagMove == Finalize \/ FinalizeWhole

AcceptMove ==
  \/ \E p \in HandPublished : PublishByHand(p)
  \/ \E p \in Packages : PublishJob(p) \/ PublishFails(p)

ServeMove == \E x \in accepted : Serve(x)

QueueMove == MergeRc \/ Dispatch \/ StartRun

\* And no step moves anything else.
Framed ==
  /\ BranchMove \/ UNCHANGED branchVars
  /\ RunMove \/ UNCHANGED run
  /\ ReconcileMove \/ UNCHANGED reconcile
  /\ TagMove \/ UNCHANGED published
  /\ AcceptMove \/ UNCHANGED accepted
  /\ ServeMove \/ UNCHANGED served
  /\ SyncMain \/ MergeRc \/ UNCHANGED overtaken
  /\ QueueMove \/ UNCHANGED queued

LEMMA StepFrames ==
  ASSUME [TrainNext]_trainVars
  PROVE  Framed
<1>1. ASSUME NEW branch \in {"develop", "rc"}, MergeBump(branch) PROVE Framed
  <2>1. UNCHANGED << run, reconcile, published, accepted, served, overtaken, queued >>
    BY <1>1 DEF MergeBump, branchVars, branches, requests, registry, published, runs, MergedInto
  <2>2. BranchMove
    BY <1>1 DEF BranchMove
  <2> QED
    BY <2>1, <2>2 DEF Framed
<1>2. ASSUME NEW branch \in {"develop", "rc"}, MergeFix(branch) PROVE Framed
  <2>1. UNCHANGED << run, reconcile, published, accepted, served, overtaken, queued >>
    BY <1>2 DEF MergeFix, branchVars, branches, requests, registry, published, runs, MergedInto
  <2>2. BranchMove
    BY <1>2 DEF BranchMove
  <2> QED
    BY <2>1, <2>2 DEF Framed
<1>3. ASSUME Cut PROVE Framed
  <2>1. UNCHANGED << run, reconcile, published, accepted, served, overtaken, queued >>
    BY <1>3 DEF Cut, branchVars, branches, requests, registry, published, runs
  <2>2. BranchMove
    BY <1>3 DEF BranchMove
  <2> QED
    BY <2>1, <2>2 DEF Framed
<1>33. ASSUME CheckOut \/ StopCut PROVE Framed
  <2>1. UNCHANGED << run, reconcile, published, accepted, served, overtaken, queued >>
    BY <1>33 DEF CheckOut, Fetch, StopCut, branchVars, branches, requests, registry, published, runs
  <2>2. BranchMove
    BY <1>33 DEF BranchMove
  <2> QED
    BY <2>1, <2>2 DEF Framed
<1>4. ASSUME Rehearse PROVE Framed
  <2>1. UNCHANGED << branchVars, run, reconcile, published, accepted, served, overtaken, queued >>
    BY <1>4 DEF Rehearse, branchVars, branches, requests, registry, published, runs
  <2> QED
    BY <2>1 DEF Framed
<1>5. ASSUME CloseRc PROVE Framed
  <2>1. UNCHANGED << run, reconcile, published, accepted, served, overtaken, queued >>
    BY <1>5 DEF CloseRc, branchVars, branches, requests, registry, published, runs
  <2>2. BranchMove
    BY <1>5 DEF BranchMove
  <2> QED
    BY <2>1, <2>2 DEF Framed
<1>6. ASSUME MergeRc PROVE Framed
  <2>1. UNCHANGED << run, reconcile, published, accepted, served >>
    BY <1>6 DEF MergeRc, branchVars, branches, requests, registry, published, runs
  <2>2. BranchMove /\ QueueMove
    BY <1>6 DEF BranchMove, QueueMove
  <2> QED
    BY <1>6, <2>1, <2>2 DEF Framed
<1>7. ASSUME NEW p \in HandPublished, PublishByHand(p) PROVE Framed
  <2>1. UNCHANGED << branchVars, run, reconcile, published, served, overtaken, queued >>
    BY <1>7 DEF PublishByHand, branchVars, branches, requests, registry, published, runs, StepIn
  <2>2. AcceptMove
    BY <1>7 DEF AcceptMove
  <2> QED
    BY <2>1, <2>2 DEF Framed
<1>8. ASSUME Dispatch PROVE Framed
  <2>1. UNCHANGED << branchVars, run, reconcile, published, accepted, served, overtaken >>
    BY <1>8 DEF Dispatch, branchVars, branches, requests, registry, published, runs
  <2>2. QueueMove
    BY <1>8 DEF QueueMove
  <2> QED
    BY <2>1, <2>2 DEF Framed
<1>9. ASSUME StartRun PROVE Framed
  <2>1. UNCHANGED << branchVars, reconcile, published, accepted, served, overtaken >>
    BY <1>9 DEF StartRun, branchVars, branches, requests, registry, published, runs
  <2>2. RunMove /\ QueueMove
    BY <1>9 DEF RunMove, QueueMove
  <2> QED
    BY <2>1, <2>2 DEF Framed
<1>10. ASSUME RehearsalPasses PROVE Framed
  <2>1. UNCHANGED << branchVars, reconcile, published, accepted, served, overtaken, queued >>
    BY <1>10 DEF RehearsalPasses, branchVars, branches, requests, registry, published, runs
  <2>2. RunMove
    BY <1>10 DEF RunMove
  <2> QED
    BY <2>1, <2>2 DEF Framed
<1>11. ASSUME RehearsalFails PROVE Framed
  <2>1. UNCHANGED << branchVars, reconcile, published, accepted, served, overtaken, queued >>
    BY <1>11 DEF RehearsalFails, branchVars, branches, requests, registry, published, runs
  <2>2. RunMove
    BY <1>11 DEF RunMove
  <2> QED
    BY <2>1, <2>2 DEF Framed
<1>12. ASSUME CancelRun PROVE Framed
  <2>1. UNCHANGED << branchVars, reconcile, published, accepted, served, overtaken, queued >>
    BY <1>12 DEF CancelRun, branchVars, branches, requests, registry, published, runs, StepIn
  <2>2. RunMove
    BY <1>12 DEF RunMove
  <2> QED
    BY <2>1, <2>2 DEF Framed
<1>13. ASSUME NEW p \in Packages, SkipJob(p) PROVE Framed
  <2>1. UNCHANGED << branchVars, reconcile, published, accepted, served, overtaken, queued >>
    BY <1>13 DEF SkipJob, branchVars, branches, requests, registry, published, runs
  <2>2. RunMove
    BY <1>13 DEF RunMove
  <2> QED
    BY <2>1, <2>2 DEF Framed
<1>14. ASSUME NEW p \in Packages, PublishJob(p) PROVE Framed
  <2>1. UNCHANGED << branchVars, reconcile, published, served, overtaken, queued >>
    BY <1>14 DEF PublishJob, branchVars, branches, requests, registry, published, runs
  <2>2. RunMove /\ AcceptMove
    BY <1>14 DEF RunMove, AcceptMove
  <2> QED
    BY <2>1, <2>2 DEF Framed
<1>15. ASSUME NEW p \in Packages, PublishFails(p) PROVE Framed
  <2>1. UNCHANGED << branchVars, reconcile, published, served, overtaken, queued >>
    BY <1>15 DEF PublishFails, branchVars, branches, requests, registry, published, runs
  <2>2. RunMove /\ AcceptMove
    BY <1>15 DEF RunMove, AcceptMove
  <2> QED
    BY <2>1, <2>2 DEF Framed
<1>16. ASSUME Finalize PROVE Framed
  <2>1. UNCHANGED << branchVars, reconcile, accepted, served, overtaken, queued >>
    BY <1>16 DEF Finalize, branchVars, branches, requests, registry, published, runs
  <2>2. RunMove /\ TagMove
    BY <1>16 DEF RunMove, TagMove
  <2> QED
    BY <2>1, <2>2 DEF Framed
<1>17. ASSUME FinalizeWhole PROVE Framed
  <2>1. UNCHANGED << branchVars, reconcile, accepted, served, overtaken, queued >>
    BY <1>17 DEF FinalizeWhole, branchVars, branches, requests, registry, published, runs
  <2>2. RunMove /\ TagMove
    BY <1>17 DEF RunMove, TagMove
  <2> QED
    BY <2>1, <2>2 DEF Framed
<1>18. ASSUME ReconcileRun PROVE Framed
  <2>1. UNCHANGED << branchVars, run, published, accepted, served, overtaken, queued >>
    BY <1>18 DEF ReconcileRun, branchVars, branches, requests, registry, published, runs, BeginReconcile, StepIn
  <2>2. ReconcileMove
    BY <1>18 DEF ReconcileMove
  <2> QED
    BY <2>1, <2>2 DEF Framed
<1>19. ASSUME NEW train \in 1 .. Newest, ReconcileByHand(train) PROVE Framed
  <2>1. UNCHANGED << branchVars, run, published, accepted, served, overtaken, queued >>
    BY <1>19 DEF ReconcileByHand, branchVars, branches, requests, registry, published, runs, BeginReconcile, StepIn
  <2>2. ReconcileMove
    BY <1>19 DEF ReconcileMove
  <2> QED
    BY <2>1, <2>2 DEF Framed
<1>20. ASSUME VerifyPasses PROVE Framed
  <2>1. UNCHANGED << branchVars, run, published, accepted, served, overtaken, queued >>
    BY <1>20 DEF VerifyPasses, branchVars, branches, requests, registry, published, runs
  <2>2. ReconcileMove
    BY <1>20 DEF ReconcileMove
  <2> QED
    BY <2>1, <2>2 DEF Framed
<1>21. ASSUME VerifyFails PROVE Framed
  <2>1. UNCHANGED << branchVars, published, accepted, served, overtaken, queued >>
    BY <1>21 DEF VerifyFails, branchVars, branches, requests, registry, published, runs, ReconcileOver
  <2>2. RunMove /\ ReconcileMove
    BY <1>21 DEF RunMove, ReconcileMove
  <2> QED
    BY <2>1, <2>2 DEF Framed
<1>22. ASSUME SyncMain PROVE Framed
  <2>1. UNCHANGED << published, accepted, served, queued >>
    BY <1>22 DEF SyncMain, branchVars, branches, requests, registry, published, runs, ReconcileOver
  <2>2. BranchMove /\ RunMove /\ ReconcileMove
    BY <1>22 DEF BranchMove, RunMove, ReconcileMove
  <2> QED
    BY <1>22, <2>1, <2>2 DEF Framed
<1>23. ASSUME NEW x \in accepted, Serve(x) PROVE Framed
  <2>1. UNCHANGED << branchVars, run, reconcile, published, accepted, overtaken, queued >>
    BY <1>23 DEF Serve, branchVars, branches, requests, registry, published, runs
  <2>2. ServeMove
    BY <1>23 DEF ServeMove
  <2> QED
    BY <2>1, <2>2 DEF Framed
<1>24. ASSUME MergeMain PROVE Framed
  <2>1. UNCHANGED << run, reconcile, published, accepted, served, overtaken, queued >>
    BY <1>24 DEF MergeMain, branchVars, branches, requests, registry, published, runs
  <2>2. BranchMove
    BY <1>24 DEF BranchMove
  <2> QED
    BY <2>1, <2>2 DEF Framed
<1>25. ASSUME OpenSync PROVE Framed
  <2>1. UNCHANGED << run, reconcile, published, accepted, served, overtaken, queued >>
    BY <1>25 DEF OpenSync, branchVars, branches, requests, registry, published, runs
  <2>2. BranchMove
    BY <1>25 DEF BranchMove
  <2> QED
    BY <2>1, <2>2 DEF Framed
<1>26. ASSUME MergeSync PROVE Framed
  <2>1. UNCHANGED << run, reconcile, published, accepted, served, overtaken, queued >>
    BY <1>26 DEF MergeSync, branchVars, branches, requests, registry, published, runs
  <2>2. BranchMove
    BY <1>26 DEF BranchMove
  <2> QED
    BY <2>1, <2>2 DEF Framed
<1>27. CASE UNCHANGED trainVars
  <2>1. Framed
    BY <1>27 DEF Framed, trainVars, branchVars, branches, requests, registry, published, runs
  <2> QED
    BY <2>1
<1>28. CASE MergePr
  BY <1>1, <1>2, <1>28 DEF MergePr
<1>29. CASE RunStep
  BY <1>9, <1>10, <1>11, <1>12, <1>13, <1>14, <1>15, <1>16, <1>17, <1>29 DEF RunStep
<1>30. CASE ReconcileStep
  BY <1>18, <1>19, <1>20, <1>21, <1>22, <1>30 DEF ReconcileStep
<1>31. CASE OthersStep
  BY <1>23, <1>24, <1>25, <1>26, <1>31 DEF OthersStep
<1>32. CASE TrainNext
  BY <1>3, <1>33, <1>4, <1>5, <1>6, <1>7, <1>8, <1>28, <1>29, <1>30, <1>31, <1>32 DEF TrainNext
<1> QED
  BY <1>27, <1>32

LEMMA BranchStep ==
  ASSUME BranchInv, [TrainNext]_trainVars
  PROVE  BranchInv'
<1>1. CASE UNCHANGED branchVars
  BY <1>1, BranchStutter
<1>2. CASE BranchMove
  BY <1>2, BumpKeepsBranches, FixKeepsBranches, CheckOutKeepsBranches, CutKeepsBranches, CloseKeepsBranches, MergeRcKeepsBranches,
     SyncMainKeepsBranches, MergeMainKeepsBranches, SyncKeepsBranches DEF BranchMove
<1> QED
  BY <1>1, <1>2, StepFrames DEF Framed

\* No train leaves release, and what a tree declares is declared for good.
LEMMA TreesStay ==
  ASSUME BranchInv, [TrainNext]_trainVars
  PROVE  /\ Newest \in Nat /\ Newest' \in Nat /\ Newest <= Newest'
         /\ \A t \in 1 .. Newest : trees'[t] = trees[t]
         /\ \A tree, p : Bumped(bumps, tree) =>
              /\ VersionOf(bumps', tree, p) = VersionOf(bumps, tree, p)
              /\ \A flaw : FlawOf(bumps', tree, p, flaw) <=> FlawOf(bumps, tree, p, flaw)
<1>1. BranchTypes /\ Newest \in Nat
  BY ReleaseIs DEF BranchInv, BranchTypes
<1>2. ASSUME NEW branch \in {"develop", "rc"}, MergeBump(branch)
      PROVE  trees' = trees /\ \E bump \in Bump : bumps' = Append(bumps, bump)
  <2> DEFINE n == Len(bumps) + 1
  <2>1. PICK change \in Changes[n] : bumps' = Append(bumps, change)
    BY <1>2 DEF MergeBump
  <2>2. trees' = trees /\ Len(bumps) < Len(Changes)
    BY <1>2 DEF MergeBump
  <2>3. Changes \in Seq(SUBSET Bump)
    BY TrainAssumption DEF Bump
  <2>4. n \in 1 .. Len(Changes)
    <3>1. Len(bumps) \in Nat /\ Len(Changes) \in Nat
      BY <1>1, <2>3 DEF BranchTypes
    <3> QED
      BY <2>2, <3>1
  <2>5. Changes[n] \in SUBSET Bump
    BY <2>3, <2>4
  <2> HIDE DEF n
  <2> QED
    BY <2>1, <2>2, <2>5
<1>3. \/ trees' = trees /\ bumps' = bumps
      \/ trees' = trees /\ \E bump \in Bump : bumps' = Append(bumps, bump)
      \/ MergeRc /\ bumps' = bumps
  <2>1. ASSUME NEW branch \in {"develop", "rc"}, MergeFix(branch) PROVE trees' = trees /\ bumps' = bumps
    BY <2>1 DEF MergeFix
  <2>2. CheckOut \/ Cut \/ StopCut \/ CloseRc \/ MergeMain \/ MergeSync => trees' = trees /\ bumps' = bumps
    BY DEF CheckOut, Fetch, Cut, StopCut, CloseRc, MergeMain, MergeSync, branches
  <2>3. SyncMain \/ OpenSync => trees' = trees /\ bumps' = bumps
    BY DEF SyncMain, OpenSync, branches
  <2>4. MergeRc => bumps' = bumps
    BY DEF MergeRc
  <2>5. UNCHANGED branchVars => trees' = trees /\ bumps' = bumps
    BY DEF branchVars, branches
  <2>6. BranchMove \/ UNCHANGED branchVars
    BY StepFrames DEF Framed
  <2> QED
    BY <1>2, <2>1, <2>2, <2>3, <2>4, <2>5, <2>6 DEF BranchMove
<1>4. CASE trees' = trees /\ bumps' = bumps
  BY <1>1, <1>4 DEF Newest
<1>5. ASSUME trees' = trees, NEW bump \in Bump, bumps' = Append(bumps, bump)
      PROVE  /\ Newest' = Newest
             /\ \A tree, p : Bumped(bumps, tree) =>
                  /\ VersionOf(bumps', tree, p) = VersionOf(bumps, tree, p)
                  /\ \A flaw : FlawOf(bumps', tree, p, flaw) <=> FlawOf(bumps, tree, p, flaw)
  <2>1. Newest' = Newest /\ bumps \in Seq(Bump)
    BY <1>1, <1>5 DEF Newest, BranchTypes
  <2>2. ASSUME NEW tree, NEW p, Bumped(bumps, tree)
        PROVE  /\ VersionOf(bumps', tree, p) = VersionOf(bumps, tree, p)
               /\ \A flaw : FlawOf(bumps', tree, p, flaw) <=> FlawOf(bumps, tree, p, flaw)
    BY <1>5, <2>1, <2>2, OlderTrees, OlderFlaws
  <2> QED
    BY <2>1, <2>2
<1>6. CASE MergeRc /\ bumps' = bumps
  <2>1. Newest' = Newest + 1 /\ \A t \in 1 .. Newest : trees'[t] = trees[t]
    BY <1>1, <1>6, ReleaseGrows
  <2> QED
    BY <1>1, <1>6, <2>1
<1>7. CASE trees' = trees /\ \E bump \in Bump : bumps' = Append(bumps, bump)
  <2>1. PICK bump \in Bump : bumps' = Append(bumps, bump)
    BY <1>7
  <2>2. /\ Newest' = Newest
        /\ \A tree, p : Bumped(bumps, tree) =>
             /\ VersionOf(bumps', tree, p) = VersionOf(bumps, tree, p)
             /\ \A flaw : FlawOf(bumps', tree, p, flaw) <=> FlawOf(bumps, tree, p, flaw)
    BY <1>5, <1>7, <2>1
  <2> QED
    BY <1>1, <1>7, <2>2
<1> QED
  BY <1>3, <1>4, <1>6, <1>7

\* Nor is anything unpublished, or a tag taken back.
LEMMA SetsGrow ==
  ASSUME [TrainNext]_trainVars
  PROVE  accepted \subseteq accepted' /\ served \subseteq served' /\ tags \subseteq tags' /\ trainTags \subseteq trainTags'
<1>1. accepted \subseteq accepted'
  <2>1. ASSUME NEW p, PublishByHand(p) \/ PublishJob(p) \/ PublishFails(p) PROVE accepted \subseteq accepted'
    BY <2>1 DEF PublishByHand, PublishJob, PublishFails
  <2> QED
    BY <2>1, StepFrames DEF Framed, AcceptMove
<1>2. served \subseteq served'
  <2>1. ASSUME NEW x, Serve(x) PROVE served \subseteq served'
    BY <2>1 DEF Serve
  <2> QED
    BY <2>1, StepFrames DEF Framed, ServeMove
<1>3. tags \subseteq tags' /\ trainTags \subseteq trainTags'
  <2>1. Finalize => tags \subseteq tags' /\ trainTags \subseteq trainTags'
    BY DEF Finalize
  <2>2. FinalizeWhole => tags \subseteq tags' /\ trainTags \subseteq trainTags'
    BY DEF FinalizeWhole
  <2>3. UNCHANGED published => tags' = tags /\ trainTags' = trainTags
    BY DEF published
  <2> QED
    BY <2>1, <2>2, <2>3, StepFrames DEF Framed, TagMove
<1> QED
  BY <1>1, <1>2, <1>3

-----------------------------------------------------------------------------
(* What holds of a tree for good, once it does.                            *)

HasTag(all, p, n) == \E tag \in all : tag.of = p /\ tag.version = n

\* A set has the versions a tree declares; every one of them has a tag.
Taken(merged, set, tree) == \A p \in Packages : << p, VersionOf(merged, tree, p) >> \in set

Marked(merged, all, tree) == \A p \in Packages : HasTag(all, p, VersionOf(merged, tree, p))

LEMMA StillPublished ==
  ASSUME BranchInv, [TrainNext]_trainVars, NEW tree, Bumped(bumps, tree)
  PROVE  /\ Taken(bumps, accepted, tree) => Taken(bumps', accepted', tree)
         /\ Taken(bumps, served, tree) => Taken(bumps', served', tree)
         /\ Marked(bumps, tags, tree) => Marked(bumps', tags', tree)
<1>1. \A p : VersionOf(bumps', tree, p) = VersionOf(bumps, tree, p)
  BY TreesStay
<1>2. accepted \subseteq accepted' /\ served \subseteq served' /\ tags \subseteq tags'
  BY SetsGrow
<1>3. \A p, n : HasTag(tags, p, n) => HasTag(tags', p, n)
  BY <1>2 DEF HasTag
<1> QED
  BY <1>1, <1>2, <1>3 DEF Taken, Marked

LEMMA TrainsStay ==
  ASSUME BranchInv, [TrainNext]_trainVars, NEW t \in 1 .. Newest
  PROVE  /\ t \in 1 .. Newest' /\ trees'[t] = trees[t] /\ Bumped(bumps, trees[t])
         /\ \A p : VersionOf(bumps', trees[t], p) = VersionOf(bumps, trees[t], p)
         /\ \A p, flaw : FlawOf(bumps', trees[t], p, flaw) <=> FlawOf(bumps, trees[t], p, flaw)
<1>1. Bumped(bumps, trees[t])
  BY DEF BranchInv, KnownBumps
<1>2. Newest \in Nat /\ Newest' \in Nat /\ Newest <= Newest' /\ trees'[t] = trees[t]
  BY TreesStay
<1>3. t \in 1 .. Newest'
  BY <1>2
<1>4. /\ \A p : VersionOf(bumps', trees[t], p) = VersionOf(bumps, trees[t], p)
      /\ \A p, flaw : FlawOf(bumps', trees[t], p, flaw) <=> FlawOf(bumps, trees[t], p, flaw)
  BY <1>1, TreesStay
<1> QED
  BY <1>1, <1>2, <1>3, <1>4

-----------------------------------------------------------------------------
(* The registries, and the tags.                                           *)

\* Registries serve what they took; a tag is of a version one took, and a train that
\* is tagged has a package's tag on it.
TagInv ==
  /\ served \subseteq accepted
  /\ \A tag \in tags : << tag.of, tag.version >> \in accepted
  /\ trainTags \subseteq 0 .. Newest
  /\ \A t \in trainTags : t = 0 \/ \E tag \in tags : tag.at = t
  /\ queued \in 0 .. Newest

Results == {"pending", "success", "failure", "skipped"}

Runs ==
  [step : {"none", "rehearsal", "publishing", "reconciling"}, train : Nat, plan : SUBSET Packages,
   cancelled : BOOLEAN, result : [Packages -> Results]]

\* A run of a train publishes what no registry had when it was planned; a job that
\* succeeded has its version accepted, and one that was skipped was not planned, was
\* cancelled, or one that it needs failed.
Publishing(r, merged, took, serves, tree) ==
  /\ \A p \in Packages : r.result[p] = "success" => << p, VersionOf(merged, tree, p) >> \in took
  /\ \A p \in Packages \ r.plan : << p, VersionOf(merged, tree, p) >> \in serves
  /\ \A p \in Packages : r.result[p] = "skipped" =>
       p \notin r.plan \/ r.cancelled \/ \E q \in Needs(p) : r.result[q] = "failure"
  /\ \A p \in Packages \ {"python"} : ~FlawOf(merged, tree, p, "distTag")
  /\ \A p \in r.plan : ~FlawOf(merged, tree, p, "changelog")

RunInv ==
  /\ run \in Runs
  /\ run.step # "none" => run.train \in 1 .. Newest
  /\ run.step = "rehearsal" => \A p \in Packages : run.result[p] = "pending"
  /\ run.step = "publishing" => Publishing(run, bumps, accepted, served, trees[run.train])
  /\ run.step = "reconciling" /\ run.train \in trainTags => notes[run.train] = TagsAt(run.train, tags)

\* What finalize tags has been accepted.
LEMMA TagsAreAccepted ==
  ASSUME RunInv, served \subseteq accepted, JobsOver, NEW p \in ToTag(run.train)
  PROVE  << p, VersionOf(bumps, trees[run.train], p) >> \in accepted
<1>1. Publishing(run, bumps, accepted, served, trees[run.train])
  BY DEF RunInv, JobsOver
<1>2. p \in Packages /\ (run.result[p] = "success" \/ OnRegistry(trees[run.train], p))
  BY DEF ToTag
<1>3. OnRegistry(trees[run.train], p) => << p, VersionOf(bumps, trees[run.train], p) >> \in served
  BY VersionIs DEF OnRegistry
<1> QED
  BY <1>1, <1>2, <1>3 DEF Publishing

\* The tags of finalize, and when it tags the train.
LEMMA TagsOfFinalize ==
  ASSUME TagMove
  PROVE  /\ JobsOver /\ run.step = "publishing"
         /\ \A tag \in tags' : tag \in tags \/ \E p \in ToTag(run.train) :
              tag.of = p /\ tag.version = VersionOf(bumps, trees[run.train], p)
         /\ \A t \in trainTags' : t \in trainTags \/ (t = run.train /\ \E tag \in tags' : tag.at = t)
<1> DEFINE t == run.train
           new(p) == TagOf(p, Version(trees[t], p), t)
<1>1. JobsOver /\ run.step = "publishing"
  BY DEF TagMove, Finalize, FinalizeWhole, JobsOver
<1>2. \E S \in SUBSET ToTag(t) : tags' = tags \cup {new(p) : p \in S}
  <2>1. CASE Finalize
    <3>1. \/ \E k \in 0 .. Len(PACKAGES) - 1 : tags' = tags \cup {new(p) : p \in ToTag(t) \cap {PACKAGES[i] : i \in 1 .. k}}
          \/ tags' = tags \cup {new(p) : p \in ToTag(t)}
      BY <2>1 DEF Finalize
    <3> QED
      BY <3>1
  <2>2. CASE FinalizeWhole
    BY <2>2 DEF FinalizeWhole
  <2> QED
    BY <2>1, <2>2 DEF TagMove
<1>3. \A p : new(p).of = p /\ new(p).version = VersionOf(bumps, trees[t], p)
  BY VersionIs DEF TagOf
<1>4. \A tag \in tags' : tag \in tags \/ \E p \in ToTag(t) : tag = new(p)
  <2> HIDE DEF new
  <2> QED
    BY <1>2
<1>5. trainTags' = trainTags \/ (trainTags' = trainTags \cup {t} /\ TagsAt(t, tags') # {})
  <2>1. Finalize => trainTags' = trainTags \/ (trainTags' = trainTags \cup {t} /\ TagsAt(t, tags') # {})
    BY DEF Finalize
  <2>2. FinalizeWhole => trainTags' = trainTags \/ (trainTags' = trainTags \cup {t} /\ TagsAt(t, tags') # {})
    BY DEF FinalizeWhole
  <2> QED
    BY <2>1, <2>2 DEF TagMove
<1>6. TagsAt(t, tags') # {} => \E tag \in tags' : tag.at = t
  BY DEF TagsAt
<1> HIDE DEF new, t
<1>7. \A tag \in tags' : tag \in tags \/ \E p \in ToTag(t) : tag.of = p /\ tag.version = VersionOf(bumps, trees[t], p)
  BY <1>3, <1>4
<1>8. \A k \in trainTags' : k \in trainTags \/ (k = t /\ \E tag \in tags' : tag.at = k)
  BY <1>5, <1>6
<1> QED
  BY <1>1, <1>7, <1>8 DEF t

LEMMA TagStep ==
  ASSUME BranchInv, RunInv, TagInv, [TrainNext]_trainVars
  PROVE  TagInv'
<1>1. /\ accepted \subseteq accepted' /\ served \subseteq served' /\ tags \subseteq tags'
      /\ Newest \in Nat /\ Newest' \in Nat /\ Newest <= Newest'
  BY SetsGrow, TreesStay
<1>2. served' \subseteq accepted'
  <2>1. ASSUME NEW x \in accepted, Serve(x) PROVE served' \subseteq accepted
    BY <2>1 DEF TagInv, Serve
  <2> QED
    BY <1>1, <2>1, StepFrames DEF TagInv, Framed, ServeMove
<1>3. \A tag \in tags' : << tag.of, tag.version >> \in accepted'
  <2>1. CASE TagMove
    <3>1. ASSUME NEW p \in ToTag(run.train) PROVE << p, VersionOf(bumps, trees[run.train], p) >> \in accepted
      BY <2>1, <3>1, TagsOfFinalize, TagsAreAccepted DEF TagInv
    <3>2. ASSUME NEW tag \in tags' PROVE << tag.of, tag.version >> \in accepted
      BY <2>1, <3>1, <3>2, TagsOfFinalize DEF TagInv
    <3> QED
      BY <1>1, <3>2
  <2>2. CASE UNCHANGED published
    BY <1>1, <2>2 DEF TagInv, published
  <2> QED
    BY <2>1, <2>2, StepFrames DEF Framed
<1>4. trainTags' \subseteq 0 .. Newest' /\ \A t \in trainTags' : t = 0 \/ \E tag \in tags' : tag.at = t
  <2>1. CASE TagMove
    <3>1. run.train \in 1 .. Newest
      BY <2>1, TagsOfFinalize DEF RunInv
    <3>2. \A t \in trainTags' : t \in trainTags \/ (t = run.train /\ \E tag \in tags' : tag.at = t)
      BY <2>1, TagsOfFinalize
    <3>3. trainTags \subseteq 0 .. Newest' /\ run.train \in 0 .. Newest'
      BY <1>1, <3>1 DEF TagInv
    <3>4. trainTags' \subseteq 0 .. Newest'
      BY <3>2, <3>3
    <3>5. \A t \in trainTags' : t = 0 \/ \E tag \in tags' : tag.at = t
      BY <1>1, <3>2 DEF TagInv
    <3> QED
      BY <3>4, <3>5
  <2>2. CASE UNCHANGED published
    BY <1>1, <2>2 DEF TagInv, published
  <2> QED
    BY <2>1, <2>2, StepFrames DEF Framed
<1>5. queued' \in 0 .. Newest'
  <2>1. MergeRc => queued' = Newest + 1 /\ Newest' = Newest + 1
    BY ReleaseGrows DEF MergeRc, BranchInv
  <2>2. Dispatch => queued' = Newest
    BY DEF Dispatch
  <2>3. StartRun => queued' = 0
    BY DEF StartRun
  <2> QED
    BY <1>1, <2>1, <2>2, <2>3, StepFrames DEF Framed, QueueMove, TagInv
<1> QED
  BY <1>2, <1>3, <1>4, <1>5 DEF TagInv
-----------------------------------------------------------------------------
(* The run.                                                                *)

\* A publishing run stays one while its plan does, and the results it has.
LEMMA PublishingStays ==
  ASSUME BranchInv, RunInv, [TrainNext]_trainVars, run.step = "publishing",
         NEW r, r.plan = run.plan, run.cancelled => r.cancelled,
         \A p \in Packages : run.result[p] = "failure" => r.result[p] = "failure",
         \A p \in Packages : r.result[p] = "success" =>
           \/ run.result[p] = "success"
           \/ << p, VersionOf(bumps, trees[run.train], p) >> \in accepted',
         \A p \in Packages : r.result[p] = "skipped" =>
           \/ run.result[p] = "skipped"
           \/ p \notin run.plan \/ run.cancelled \/ \E q \in Needs(p) : run.result[q] = "failure"
  PROVE  Publishing(r, bumps', accepted', served', trees'[run.train])
<1> DEFINE tree == trees[run.train]
<1>1. run.train \in 1 .. Newest /\ Publishing(run, bumps, accepted, served, tree)
  BY DEF RunInv
<1>2. /\ trees'[run.train] = tree
      /\ \A p : VersionOf(bumps', tree, p) = VersionOf(bumps, tree, p)
      /\ \A p, flaw : FlawOf(bumps', tree, p, flaw) <=> FlawOf(bumps, tree, p, flaw)
  BY <1>1, TrainsStay
<1>3. accepted \subseteq accepted' /\ served \subseteq served'
  BY SetsGrow
<1> HIDE DEF tree
<1>4. \A p \in Packages : r.result[p] = "success" => << p, VersionOf(bumps', tree, p) >> \in accepted'
  BY <1>1, <1>2, <1>3 DEF Publishing, tree
<1>5. \A p \in Packages \ r.plan : << p, VersionOf(bumps', tree, p) >> \in served'
  BY <1>1, <1>2, <1>3 DEF Publishing
<1>6. \A p \in Packages : r.result[p] = "skipped" =>
        p \notin r.plan \/ r.cancelled \/ \E q \in Needs(p) : r.result[q] = "failure"
  <2>1. \A p : Needs(p) \subseteq Packages
    BY DEF Needs
  <2>2. \A p \in Packages : r.result[p] = "skipped" =>
          p \notin run.plan \/ run.cancelled \/ \E q \in Needs(p) : run.result[q] = "failure"
    BY <1>1 DEF Publishing
  <2> QED
    BY <2>1, <2>2
<1>7. /\ \A p \in Packages \ {"python"} : ~FlawOf(bumps', tree, p, "distTag")
      /\ \A p \in r.plan : ~FlawOf(bumps', tree, p, "changelog")
  BY <1>1, <1>2 DEF Publishing
<1> QED
  BY <1>2, <1>4, <1>5, <1>6, <1>7 DEF Publishing

\* What one of its jobs comes to.
LEMMA JobEnds ==
  ASSUME BranchInv, RunInv, [TrainNext]_trainVars, NEW p \in Packages, JobReady(p),
         NEW result \in Results \ {"pending"}, run' = [run EXCEPT !.result[p] = result],
         result = "success" => << p, VersionOf(bumps, trees[run.train], p) >> \in accepted',
         result = "skipped" => ~JobRuns(p)
  PROVE  RunInv'
<1>1. run \in Runs /\ run.step = "publishing" /\ run.result[p] = "pending"
  BY DEF RunInv, JobReady
<1>2. /\ run'.step = "publishing" /\ run'.train = run.train /\ run'.plan = run.plan /\ run'.cancelled = run.cancelled
      /\ run'.result = [run.result EXCEPT ![p] = result]
      /\ run' \in Runs
  BY <1>1 DEF Runs, Results
<1>3. \A q \in Packages : run'.result[q] = IF q = p THEN result ELSE run.result[q]
  BY <1>1, <1>2 DEF Runs
<1>4. run.train \in 1 .. Newest'
  BY <1>1, TrainsStay DEF RunInv
<1>5. ~JobRuns(p) => p \notin run.plan \/ run.cancelled \/ \E q \in Needs(p) : run.result[q] = "failure"
  BY DEF JobRuns
<1>6. /\ run'.plan = run.plan /\ (run.cancelled => run'.cancelled)
      /\ \A q \in Packages : run.result[q] = "failure" => run'.result[q] = "failure"
      /\ \A q \in Packages : run'.result[q] = "success" =>
           \/ run.result[q] = "success"
           \/ << q, VersionOf(bumps, trees[run.train], q) >> \in accepted'
      /\ \A q \in Packages : run'.result[q] = "skipped" =>
           \/ run.result[q] = "skipped"
           \/ q \notin run.plan \/ run.cancelled \/ \E n \in Needs(q) : run.result[n] = "failure"
  BY <1>1, <1>2, <1>3, <1>5
<1>7. Publishing(run', bumps', accepted', served', trees'[run.train])
  BY <1>1, <1>6, PublishingStays
<1> QED
  BY <1>2, <1>4, <1>7 DEF RunInv

LEMMA IdleRuns ==
  ASSUME run' = Idle
  PROVE  RunInv'
<1>1. Idle \in Runs /\ Idle.step = "none"
  BY DEF Idle, Runs, Results
<1> QED
  BY <1>1 DEF RunInv

LEMMA StartKeepsRun ==
  ASSUME BranchInv, RunInv, TagInv, [TrainNext]_trainVars, StartRun
  PROVE  RunInv'
<1>1. run' = [Idle EXCEPT !.step = "rehearsal", !.train = queued] /\ queued # 0 /\ queued \in 0 .. Newest
  BY DEF StartRun, TagInv
<1>2. Newest \in Nat /\ Newest' \in Nat /\ Newest <= Newest'
  BY TreesStay
<1>3. queued \in 1 .. Newest' /\ queued \in Nat
  BY <1>1, <1>2
<1>4. /\ run' \in Runs /\ run'.step = "rehearsal" /\ run'.train = queued
      /\ \A p \in Packages : run'.result[p] = "pending"
  BY <1>1, <1>3 DEF Idle, Runs, Results
<1> QED
  BY <1>3, <1>4 DEF RunInv

LEMMA RehearsalKeepsRun ==
  ASSUME BranchInv, RunInv, [TrainNext]_trainVars, RehearsalPasses
  PROVE  RunInv'
<1> DEFINE tree == trees[run.train]
<1>1. /\ run \in Runs /\ run.step = "rehearsal" /\ run.train \in 1 .. Newest /\ ~PlanFails(tree)
      /\ \A p \in Packages : run.result[p] = "pending"
      /\ run' = [run EXCEPT !.step = "publishing", !.plan = Plan(tree)]
  BY DEF RehearsalPasses, RunInv
<1>2. Plan(tree) \in SUBSET Packages
  BY DEF Plan
<1>3. /\ run' \in Runs /\ run'.step = "publishing" /\ run'.train = run.train /\ run'.plan = Plan(tree)
      /\ run'.result = run.result
  <2> HIDE DEF tree
  <2> QED
    BY <1>1, <1>2 DEF Runs
<1>4. /\ run.train \in 1 .. Newest' /\ trees'[run.train] = tree
      /\ \A p : VersionOf(bumps', tree, p) = VersionOf(bumps, tree, p)
      /\ \A p, flaw : FlawOf(bumps', tree, p, flaw) <=> FlawOf(bumps, tree, p, flaw)
  BY <1>1, TrainsStay
<1>5. served \subseteq served'
  BY SetsGrow
<1> HIDE DEF tree
<1>6. \A p \in Packages \ Plan(tree) : << p, VersionOf(bumps, tree, p) >> \in served
  BY VersionIs DEF Plan, OnRegistry
<1>7. /\ \A p \in Packages \ {"python"} : ~FlawOf(bumps, tree, p, "distTag")
      /\ \A p \in Plan(tree) : ~FlawOf(bumps, tree, p, "changelog")
  BY <1>1, VersionIs DEF PlanFails, NoDistTag, Unshippable
<1>8. Publishing(run', bumps', accepted', served', tree)
  BY <1>1, <1>3, <1>4, <1>5, <1>6, <1>7 DEF Publishing
<1> QED
  BY <1>3, <1>4, <1>8 DEF RunInv

LEMMA CancelKeepsRun ==
  ASSUME BranchInv, RunInv, [TrainNext]_trainVars, CancelRun
  PROVE  RunInv'
<1>1. run \in Runs /\ run.step = "publishing" /\ run' = [run EXCEPT !.cancelled = TRUE] /\ run.train \in 1 .. Newest
  BY DEF CancelRun, RunInv
<1>2. /\ run' \in Runs /\ run'.step = "publishing" /\ run'.train = run.train /\ run'.plan = run.plan
      /\ run'.cancelled /\ run'.result = run.result
  BY <1>1 DEF Runs
<1>3. run.train \in 1 .. Newest'
  BY <1>1, TrainsStay
<1>4. Publishing(run', bumps', accepted', served', trees'[run.train])
  BY <1>1, <1>2, PublishingStays
<1> QED
  BY <1>2, <1>3, <1>4 DEF RunInv

\* Notes are those of every tag on the commit, or the train has no tag.
LEMMA FinalizeKeepsRun ==
  ASSUME BranchInv, RunInv, TagInv, [TrainNext]_trainVars, FinalizeWhole
  PROVE  RunInv'
<1> DEFINE t == run.train
<1>1. run \in Runs /\ t \in 1 .. Newest
  BY DEF FinalizeWhole, JobsOver, RunInv
<1>2. run' = Idle \/ run' = [run EXCEPT !.step = "reconciling"]
  BY DEF FinalizeWhole
<1>3. CASE run' = [run EXCEPT !.step = "reconciling"]
  <2>1. run' \in Runs /\ run'.step = "reconciling" /\ run'.train = t
    BY <1>1, <1>3 DEF Runs
  <2>2. t \in 1 .. Newest'
    BY <1>1, TrainsStay
  <2>3. t \in trainTags' => notes'[t] = TagsAt(t, tags')
    <3>1. CASE TagsAt(t, tags') = {}
      <4>1. trainTags' = trainTags
        BY <3>1 DEF FinalizeWhole
      <4>2. ASSUME t \in trainTags PROVE FALSE
        <5>1. t # 0
          BY <1>1
        <5>2. PICK tag \in tags : tag.at = t
          BY <4>2, <5>1 DEF TagInv
        <5>3. tag \in tags'
          BY <5>2, SetsGrow
        <5> QED
          BY <3>1, <5>2, <5>3 DEF TagsAt
      <4> QED
        BY <4>1, <4>2
    <3>2. CASE TagsAt(t, tags') # {}
      <4>1. notes' = [k \in DOMAIN notes \cup {t} |-> IF k = t THEN Notes(t, tags') ELSE notes[k]]
        BY <3>2 DEF FinalizeWhole
      <4> QED
        BY <4>1 DEF Notes
    <3> QED
      BY <3>1, <3>2
  <2> QED
    BY <2>1, <2>2, <2>3 DEF RunInv
<1> QED
  BY <1>2, <1>3, IdleRuns

\* A run that does not move sees only what it has published stay so.
LEMMA RunRests ==
  ASSUME BranchInv, RunInv, [TrainNext]_trainVars, run' = run
  PROVE  RunInv'
<1>1. run \in Runs /\ (run.step # "none" => run.train \in 1 .. Newest /\ run.train \in 1 .. Newest')
  BY TrainsStay DEF RunInv
<1>2. run.step = "publishing" => Publishing(run, bumps', accepted', served', trees'[run.train])
  BY PublishingStays
<1>3. run.step = "reconciling" => UNCHANGED << tags, trainTags, notes >>
  BY StepFrames, TagsOfFinalize DEF Framed, published
<1>4. run.step = "reconciling" /\ run.train \in trainTags' => notes'[run.train] = TagsAt(run.train, tags')
  BY <1>3 DEF RunInv
<1> QED
  BY <1>1, <1>2, <1>4 DEF RunInv

LEMMA RunMoves ==
  ASSUME BranchInv, RunInv, TagInv, [TrainNext]_trainVars
  PROVE  RunInv'
<1>1. CASE run' = run
  BY <1>1, RunRests
<1>2. CASE StartRun
  BY <1>2, StartKeepsRun
<1>3. CASE RehearsalPasses
  BY <1>3, RehearsalKeepsRun
<1>4. CASE CancelRun
  BY <1>4, CancelKeepsRun
<1>5. CASE FinalizeWhole
  BY <1>5, FinalizeKeepsRun
<1>6. CASE RehearsalFails \/ Finalize \/ VerifyFails \/ SyncMain
  <2>1. RehearsalFails \/ Finalize => run' = Idle
    BY DEF RehearsalFails, Finalize
  <2>2. VerifyFails \/ SyncMain => run' = Idle \/ run' = run
    BY DEF VerifyFails, SyncMain, ReconcileOver
  <2> QED
    BY <1>6, <2>1, <2>2, IdleRuns, RunRests
<1>7. ASSUME NEW p \in Packages, SkipJob(p) PROVE RunInv'
  <2>1. JobReady(p) /\ ~JobRuns(p) /\ run' = [run EXCEPT !.result[p] = "skipped"]
    BY <1>7 DEF SkipJob
  <2>2. "skipped" \in Results \ {"pending"}
    BY DEF Results
  <2> QED
    BY <2>1, <2>2, JobEnds
<1>8. ASSUME NEW p \in Packages, PublishJob(p) PROVE RunInv'
  <2>1. JobReady(p) /\ run' = [run EXCEPT !.result[p] = "success"]
        /\ << p, Version(trees[run.train], p) >> \in accepted'
    BY <1>8 DEF PublishJob
  <2>2. << p, VersionOf(bumps, trees[run.train], p) >> \in accepted'
    BY <2>1, VersionIs
  <2>3. "success" \in Results \ {"pending"}
    BY DEF Results
  <2> QED
    BY <2>1, <2>2, <2>3, JobEnds
<1>9. ASSUME NEW p \in Packages, PublishFails(p) PROVE RunInv'
  <2>1. JobReady(p) /\ run' = [run EXCEPT !.result[p] = "failure"]
    BY <1>9 DEF PublishFails
  <2>2. "failure" \in Results \ {"pending"}
    BY DEF Results
  <2> QED
    BY <2>1, <2>2, JobEnds
<1> QED
  BY <1>1, <1>2, <1>3, <1>4, <1>5, <1>6, <1>7, <1>8, <1>9, StepFrames DEF Framed, RunMove
-----------------------------------------------------------------------------
(* The reconcile, and the PR to main.                                      *)

Reconciles ==
  [step : {"none", "verifying", "verified"}, train : Nat, tree : Nat, tagged : BOOLEAN, ofRun : BOOLEAN]

\* A reconcile looks at a tree of release that held its train; what it has found to be
\* tagged, and served, is.
ReconcileInv ==
  /\ reconcile \in Reconciles
  /\ reconcile.step # "none" => reconcile.tree \in 1 .. Newest /\ reconcile.train <= reconcile.tree
  /\ reconcile.step # "none" /\ reconcile.tagged =>
       reconcile.train \in trainTags /\ Marked(bumps, tags, trees[reconcile.tree])
  /\ reconcile.step = "verified" => reconcile.tagged /\ Taken(bumps, served, trees[reconcile.tree])

\* While the PR is open, all that it brings to main is published, but for an overtaken one.
PrInv ==
  mainPr => overtaken \/ /\ Taken(bumps, served, Release) /\ Marked(bumps, tags, Release)
                         /\ Newest \in trainTags

LEMMA ReconcileRests ==
  ASSUME BranchInv, ReconcileInv, [TrainNext]_trainVars,
         reconcile' = reconcile \/ (VerifyPasses /\ reconcile' = [reconcile EXCEPT !.step = "verified"])
  PROVE  ReconcileInv'
<1> DEFINE tree == trees[reconcile.tree]
<1>1. CASE reconcile.step = "none"
  <2>1. reconcile' = reconcile
    BY <1>1 DEF VerifyPasses
  <2> QED
    BY <1>1, <2>1 DEF ReconcileInv
<1>2. CASE reconcile.step # "none"
  <2>1. /\ reconcile \in Reconciles /\ reconcile.tree \in 1 .. Newest /\ reconcile.train <= reconcile.tree
        /\ reconcile.tagged => reconcile.train \in trainTags /\ Marked(bumps, tags, tree)
        /\ reconcile.step = "verified" => reconcile.tagged /\ Taken(bumps, served, tree)
    BY <1>2 DEF ReconcileInv
  <2>2. reconcile.tree \in 1 .. Newest' /\ trees'[reconcile.tree] = tree /\ Bumped(bumps, tree)
    BY <2>1, TrainsStay
  <2>3. /\ reconcile.tagged => reconcile.train \in trainTags' /\ Marked(bumps', tags', tree)
        /\ Taken(bumps, served, tree) => Taken(bumps', served', tree)
    BY <2>1, <2>2, StillPublished, SetsGrow
  <2>4. /\ reconcile' \in Reconciles /\ reconcile'.step # "none" /\ reconcile'.tree = reconcile.tree
        /\ reconcile'.train = reconcile.train /\ reconcile'.tagged = reconcile.tagged
        /\ reconcile'.step = "verified" => reconcile.step = "verified" \/ VerifyPasses
    BY <1>2, <2>1 DEF Reconciles
  <2>5. VerifyPasses => reconcile.tagged /\ Taken(bumps, served, tree)
    BY VersionIs DEF VerifyPasses, OnRegistry, Taken
  <2>6. reconcile'.step = "verified" => reconcile.tagged /\ Taken(bumps', served', tree)
    BY <2>1, <2>3, <2>4, <2>5
  <2> HIDE DEF tree
  <2> QED
    BY <2>1, <2>2, <2>3, <2>4, <2>6 DEF ReconcileInv
<1> QED
  BY <1>1, <1>2

\* The verify job begins on release as it is.
LEMMA ReconcileBegins ==
  ASSUME BranchInv, [TrainNext]_trainVars, NEW train \in 1 .. Newest, NEW ofRun \in BOOLEAN,
         BeginReconcile(train, ofRun)
  PROVE  ReconcileInv'
<1>1. BranchTypes /\ trees \in Seq(SUBSET Commit)
  BY DEF BranchInv, BranchTypes
<1>2. Newest \in Nat /\ Newest \in 1 .. Newest /\ Release = trees[Newest] /\ train \in Nat /\ train <= Newest
  <2>1. Newest \in Nat
    BY <1>1, ReleaseIs
  <2>2. Newest > 0
    BY <2>1
  <2> QED
    BY <1>1, <2>1, <2>2, ReleaseIs
<1>3. /\ reconcile' \in Reconciles /\ reconcile'.step = "verifying" /\ reconcile'.train = train
      /\ reconcile'.tree = Newest
      /\ reconcile'.tagged <=> (\A p \in Packages : Tagged(p, Version(Release, p))) /\ train \in trainTags
  <2> DEFINE tagged == /\ \A p \in Packages : Tagged(p, Version(Release, p))
                       /\ train \in trainTags
  <2>1. reconcile' = [step |-> "verifying", train |-> train, tree |-> Newest, ofRun |-> ofRun, tagged |-> tagged]
    BY DEF BeginReconcile
  <2>2. tagged \in BOOLEAN
    OBVIOUS
  <2>3. tagged <=> (\A p \in Packages : Tagged(p, Version(Release, p))) /\ train \in trainTags
    OBVIOUS
  <2> HIDE DEF tagged
  <2>4. reconcile' \in Reconciles
    BY <1>2, <2>1, <2>2 DEF Reconciles
  <2> QED
    BY <2>1, <2>3, <2>4
<1>4. (\A p \in Packages : Tagged(p, Version(Release, p))) => Marked(bumps, tags, Release)
  BY VersionIs DEF Tagged, Marked, HasTag
<1>5. /\ Newest \in 1 .. Newest' /\ trees'[Newest] = Release
      /\ Marked(bumps, tags, Release) => Marked(bumps', tags', Release)
      /\ trainTags \subseteq trainTags'
  BY <1>2, TrainsStay, StillPublished, SetsGrow
<1> QED
  BY <1>2, <1>3, <1>4, <1>5 DEF ReconcileInv

LEMMA ReconcileMoves ==
  ASSUME BranchInv, RunInv, ReconcileInv, [TrainNext]_trainVars
  PROVE  ReconcileInv'
<1>1. CASE reconcile' = reconcile
  BY <1>1, ReconcileRests
<1>2. CASE VerifyPasses
  <2>1. reconcile' = [reconcile EXCEPT !.step = "verified"]
    BY <1>2 DEF VerifyPasses
  <2> QED
    BY <1>2, <2>1, ReconcileRests
<1>3. CASE VerifyFails \/ SyncMain
  <2>1. reconcile' = NoReconcile
    BY <1>3 DEF VerifyFails, SyncMain, ReconcileOver
  <2>2. NoReconcile \in Reconciles /\ NoReconcile.step = "none"
    BY DEF NoReconcile, Reconciles
  <2> QED
    BY <2>1, <2>2 DEF ReconcileInv
<1>4. CASE ReconcileRun
  <2>1. run.train \in 1 .. Newest /\ BeginReconcile(run.train, TRUE)
    BY <1>4 DEF ReconcileRun, RunInv
  <2> QED
    BY <2>1, ReconcileBegins
<1>5. ASSUME NEW train \in 1 .. Newest, ReconcileByHand(train) PROVE ReconcileInv'
  <2>1. BeginReconcile(train, FALSE)
    BY <1>5 DEF ReconcileByHand
  <2> QED
    BY <2>1, ReconcileBegins
<1> QED
  BY <1>1, <1>2, <1>3, <1>4, <1>5, StepFrames DEF Framed, ReconcileMove

\* Release does not move under the open PR, no train being open until main has the last
\* one, but by a train that was cut past it.
LEMMA ReleaseRests ==
  ASSUME BranchInv, [TrainNext]_trainVars, mainPr, ~overtaken'
  PROVE  /\ Newest \in 1 .. Newest /\ Newest' = Newest /\ Release' = Release /\ Release = trees[Newest]
         /\ Bumped(bumps, Release)
<1>1. trees \in Seq(SUBSET Commit) /\ Lineage /\ KnownBumps
  BY DEF BranchInv, BranchTypes
<1>2. ~(Release \subseteq main) /\ (rc = {} \/ Newest + 1 \in raced)
  BY <1>1 DEF Lineage
<1>3. ~MergeRc
  BY <1>2 DEF MergeRc
<1>4. trees' = trees
  <2>1. (\E branch \in {"develop", "rc"} : MergeBump(branch) \/ MergeFix(branch)) => trees' = trees
    BY DEF MergeBump, MergeFix
  <2>2. CheckOut \/ Cut \/ StopCut \/ CloseRc \/ MergeMain \/ MergeSync \/ SyncMain \/ OpenSync => trees' = trees
    BY DEF CheckOut, Fetch, Cut, StopCut, CloseRc, MergeMain, MergeSync, SyncMain, OpenSync, branches
  <2>3. UNCHANGED branchVars => trees' = trees
    BY DEF branchVars, branches
  <2> QED
    BY <1>3, <2>1, <2>2, <2>3, StepFrames DEF Framed, BranchMove
<1>5. Newest' = Newest /\ Release' = Release
  BY <1>4 DEF Newest, Release, Last
<1>6. Newest \in Nat /\ Newest # 0
  BY <1>1, <1>2, ReleaseIs
<1>7. Newest \in 1 .. Newest /\ Release = trees[Newest]
  BY <1>1, <1>6, ReleaseIs
<1> QED
  BY <1>1, <1>5, <1>7 DEF KnownBumps

LEMMA OvertakenStays ==
  ASSUME [TrainNext]_trainVars, overtaken
  PROVE  overtaken'
<1>1. SyncMain => overtaken'
  BY DEF SyncMain
<1>2. MergeRc => overtaken'
  BY DEF MergeRc
<1> QED
  BY <1>1, <1>2, StepFrames DEF Framed

LEMMA PrMoves ==
  ASSUME BranchInv, ReconcileInv, PrInv, [TrainNext]_trainVars
  PROVE  PrInv'
<1>1. CASE mainPr
  <2>1. CASE overtaken'
    BY <2>1 DEF PrInv
  <2>2. CASE ~overtaken'
    <3>1. ~overtaken
      BY <2>2, OvertakenStays
    <3>2. Newest' = Newest /\ Release' = Release /\ Bumped(bumps, Release)
      BY <1>1, <2>2, ReleaseRests
    <3>3. Taken(bumps, served, Release) /\ Marked(bumps, tags, Release) /\ Newest \in trainTags
      BY <1>1, <3>1 DEF PrInv
    <3>4. Taken(bumps', served', Release) /\ Marked(bumps', tags', Release) /\ Newest \in trainTags'
      BY <3>2, <3>3, StillPublished, SetsGrow
    <3> QED
      BY <3>2, <3>4 DEF PrInv
  <2> QED
    BY <2>1, <2>2
<1>2. CASE ~mainPr /\ SyncMain
  <2>1. /\ reconcile.step = "verified" /\ UNCHANGED << bumps, trees, tags, trainTags, served >>
        /\ mainPr' /\ ~overtaken' => reconcile.train = Newest
    BY <1>2 DEF SyncMain, branches, registry, published
  <2>2. Newest' = Newest /\ Release' = Release /\ Newest \in Nat
    BY <2>1, TreesStay DEF Newest, Release, Last
  <2>3. /\ reconcile.tree \in 1 .. Newest /\ reconcile.train <= reconcile.tree
        /\ reconcile.train \in trainTags /\ Marked(bumps, tags, trees[reconcile.tree])
        /\ Taken(bumps, served, trees[reconcile.tree])
    BY <2>1 DEF ReconcileInv
  <2>4. CASE reconcile.train = Newest
    <3>1. reconcile.tree = Newest /\ Newest > 0
      BY <2>2, <2>3, <2>4
    <3>2. Release = trees[Newest]
      BY <3>1, ReleaseIs DEF BranchInv, BranchTypes
    <3>3. Taken(bumps, served, Release) /\ Marked(bumps, tags, Release) /\ Newest \in trainTags
      BY <2>3, <2>4, <3>1, <3>2
    <3> QED
      BY <2>1, <2>2, <3>3 DEF PrInv
  <2> QED
    BY <2>1, <2>4 DEF PrInv
<1>3. CASE ~mainPr /\ ~mainPr'
  BY <1>3 DEF PrInv
<1>4. mainPr' = mainPr \/ SyncMain \/ MergeMain
  <2>1. (\E branch \in {"develop", "rc"} : MergeBump(branch) \/ MergeFix(branch)) => mainPr' = mainPr
    BY DEF MergeBump, MergeFix
  <2>2. CheckOut \/ Cut \/ StopCut \/ CloseRc \/ MergeRc \/ MergeSync \/ OpenSync => mainPr' = mainPr
    BY DEF CheckOut, Fetch, Cut, StopCut, CloseRc, MergeRc, MergeSync, OpenSync, requests
  <2>3. UNCHANGED branchVars => mainPr' = mainPr
    BY DEF branchVars
  <2> QED
    BY <2>1, <2>2, <2>3, StepFrames DEF Framed, BranchMove
<1>5. MergeMain => mainPr
  BY DEF MergeMain
<1> QED
  BY <1>1, <1>2, <1>3, <1>4, <1>5
-----------------------------------------------------------------------------
(* main.                                                                   *)

MainInv ==
  overtaken \/ /\ Taken(bumps, accepted, main) /\ Marked(bumps, tags, main)
               /\ \A t : Has(main, t) => \E u \in trainTags : t <= u /\ Has(main, u)

LEMMA MainIs == BranchInv => (MainInv => MainIsPublished)
<1> SUFFICES ASSUME BranchInv, MainInv, ~overtaken PROVE MainIsPublished
  BY DEF MainIsPublished
<1>1. Declared(main) \subseteq accepted
  BY VersionIs DEF MainInv, Declared, Taken
<1>2. \A p \in Packages : Tagged(p, Version(main, p))
  BY VersionIs DEF MainInv, Marked, HasTag, Tagged
<1>3. \A t \in 1 .. Newest : << "train", t >> \in main =>
        \E u \in trainTags : t <= u /\ << "train", u >> \in main
  BY DEF MainInv, Has
<1> QED
  BY <1>1, <1>2, <1>3 DEF MainIsPublished

\* What the PR brings to main is release, whose bumps are then those of main.
LEMMA MainGrows ==
  ASSUME BranchInv, TagInv, PrInv, MainInv, [TrainNext]_trainVars, MergeMain
  PROVE  MainInv'
<1>1. /\ mainPr /\ main' = main \cup Release \cup {<< "main", Newest >>} /\ bumps' = bumps
      /\ UNCHANGED << overtaken, accepted, tags, trainTags >>
  BY DEF MergeMain, registry, published
<1>2. CASE overtaken
  BY <1>1, <1>2 DEF MainInv
<1>3. CASE ~overtaken
  <2>1. Taken(bumps, served, Release) /\ Marked(bumps, tags, Release) /\ Newest \in trainTags
    BY <1>1, <1>3 DEF PrInv
  <2>2. \A n : << "bump", n >> \in main' <=> << "bump", n >> \in Release
    BY <1>1 DEF BranchInv, Lineage
  <2>3. \A p : VersionOf(bumps, main', p) = VersionOf(bumps, Release, p)
    BY <2>2, SameBumps
  <2>4. Taken(bumps', accepted', main') /\ Marked(bumps', tags', main')
    BY <1>1, <2>1, <2>3 DEF Taken, Marked, TagInv
  <2>5. ASSUME NEW t, Has(main', t) PROVE \E u \in trainTags : t <= u /\ Has(main', u)
    <3>1. Has(main, t) \/ Has(Release, t)
      BY <1>1, <2>5 DEF Has
    <3>2. CASE Has(main, t)
      <4>1. PICK u \in trainTags : t <= u /\ Has(main, u)
        BY <1>3, <3>2 DEF MainInv
      <4> QED
        BY <1>1, <4>1 DEF Has
    <3>3. CASE Has(Release, t)
      <4>1. t \in 1 .. Newest /\ Newest \in Nat
        BY <3>3, ReleaseIs DEF BranchInv, BranchTypes, Lineage
      <4>2. Newest > 0 /\ t <= Newest
        BY <4>1
      <4>3. Has(main', Newest)
        BY <1>1, <4>2 DEF BranchInv, Lineage, Has
      <4> QED
        BY <2>1, <4>2, <4>3
    <3> QED
      BY <3>1, <3>2, <3>3
  <2> QED
    BY <1>1, <2>4, <2>5 DEF MainInv
<1> QED
  BY <1>2, <1>3

LEMMA MainMoves ==
  ASSUME BranchInv, TagInv, PrInv, MainInv, [TrainNext]_trainVars
  PROVE  MainInv'
<1>1. CASE MergeMain
  BY <1>1, MainGrows
<1>2. main' = main \/ MergeMain
  <2>1. (\E branch \in {"develop", "rc"} : MergeBump(branch) \/ MergeFix(branch)) => main' = main
    BY DEF MergeBump, MergeFix
  <2>2. CheckOut \/ Cut \/ StopCut \/ CloseRc \/ MergeRc \/ MergeSync \/ OpenSync \/ SyncMain => main' = main
    BY DEF CheckOut, Fetch, Cut, StopCut, CloseRc, MergeRc, MergeSync, OpenSync, SyncMain, branches
  <2>3. UNCHANGED branchVars => main' = main
    BY DEF branchVars, branches
  <2> QED
    BY <2>1, <2>2, <2>3, StepFrames DEF Framed, BranchMove
<1>3. CASE main' = main
  <2>1. overtaken => overtaken'
    BY OvertakenStays
  <2>2. CASE overtaken
    BY <2>1, <2>2 DEF MainInv
  <2>3. CASE ~overtaken
    <3>1. /\ Taken(bumps, accepted, main) /\ Marked(bumps, tags, main)
          /\ \A t : Has(main, t) => \E u \in trainTags : t <= u /\ Has(main, u)
      BY <2>3 DEF MainInv
    <3>2. Bumped(bumps, main)
      BY DEF BranchInv, KnownBumps
    <3>3. Taken(bumps', accepted', main) /\ Marked(bumps', tags', main)
      BY <3>1, <3>2, StillPublished
    <3>4. \A t : Has(main, t) => \E u \in trainTags' : t <= u /\ Has(main, u)
      BY <3>1, SetsGrow
    <3> QED
      BY <1>3, <3>3, <3>4 DEF MainInv
  <2> QED
    BY <2>2, <2>3
<1> QED
  BY <1>1, <1>2, <1>3

-----------------------------------------------------------------------------
(* The theorems.                                                           *)

TrainInv == BranchInv /\ TagInv /\ RunInv /\ ReconcileInv /\ PrInv /\ MainInv

LEMMA TrainStarts == TrainInit => TrainInv
<1> SUFFICES ASSUME TrainInit PROVE TrainInv
  OBVIOUS
<1>1. /\ bumps = <<>> /\ trees = <<>> /\ main = {} /\ mainPr = FALSE
      /\ accepted = Packages \X {0} /\ served = accepted
      /\ tags = {TagOf(p, 0, 0) : p \in Packages} /\ trainTags = {0}
      /\ queued = 0 /\ run = Idle /\ reconcile = NoReconcile
  BY DEF TrainInit
<1>2. Newest = 0
  BY <1>1 DEF Newest
<1>3. TagInv
  <2>1. \A tag \in tags : << tag.of, tag.version >> \in accepted
    BY <1>1 DEF TagOf
  <2> QED
    BY <1>1, <1>2, <2>1 DEF TagInv
<1>4. RunInv
  <2>1. Idle \in Runs /\ Idle.step = "none"
    BY DEF Idle, Runs, Results
  <2> QED
    BY <1>1, <2>1 DEF RunInv
<1>5. ReconcileInv
  <2>1. NoReconcile \in Reconciles /\ NoReconcile.step = "none"
    BY DEF NoReconcile, Reconciles
  <2> QED
    BY <1>1, <2>1 DEF ReconcileInv
<1>6. PrInv
  BY <1>1 DEF PrInv
<1>7. MainInv
  <2>1. \A p : VersionOf(bumps, main, p) = 0
    <3> TAKE p
    <3>1. {0} \cup {n \in DOMAIN bumps : << "bump", n >> \in main /\ p \in bumps[n].of} = {0}
      BY <1>1
    <3>2. VersionOf(bumps, main, p) = Max({0})
      BY <3>1 DEF VersionOf
    <3>3. Max({0}) = 0
      BY DEF Max
    <3> QED
      BY <3>2, <3>3
  <2>2. Taken(bumps, accepted, main)
    BY <1>1, <2>1 DEF Taken
  <2>3. Marked(bumps, tags, main)
    <3> SUFFICES ASSUME NEW p \in Packages PROVE HasTag(tags, p, 0)
      BY <2>1 DEF Marked
    <3>1. TagOf(p, 0, 0) \in tags /\ TagOf(p, 0, 0).of = p /\ TagOf(p, 0, 0).version = 0
      BY <1>1 DEF TagOf
    <3> QED
      BY <3>1 DEF HasTag
  <2>4. \A t : ~Has(main, t)
    BY <1>1 DEF Has
  <2> QED
    BY <2>2, <2>3, <2>4 DEF MainInv
<1> QED
  BY <1>3, <1>4, <1>5, <1>6, <1>7, BranchInit DEF TrainInv

LEMMA TrainMoves ==
  ASSUME TrainInv, [TrainNext]_trainVars
  PROVE  TrainInv'
<1>1. BranchInv /\ TagInv /\ RunInv /\ ReconcileInv /\ PrInv /\ MainInv
  BY DEF TrainInv
<1>2. BranchInv' /\ TagInv' /\ RunInv'
  BY <1>1, BranchStep, TagStep, RunMoves
<1>3. ReconcileInv' /\ PrInv' /\ MainInv'
  BY <1>1, ReconcileMoves, PrMoves, MainMoves
<1> QED
  BY <1>2, <1>3 DEF TrainInv

\* The invariant of a train: its branches, its tags, its run and its reconcile.
THEOREM TrainInvariant == TrainSpec => []TrainInv
<1>1. TrainInit => TrainInv
  BY TrainStarts
<1>2. TrainInv /\ [TrainNext]_trainVars => TrainInv'
  BY TrainMoves
<1> QED
  BY <1>1, <1>2, PTL DEF TrainSpec

\* Whatever fails, is cancelled, published by hand or re-run, main declares what a
\* registry took and a tag marks, unless its PR was opened for a train nobody verified
\* (the sync-main job of release-reconcile.yml), or a train that was cut while the one
\* before it was being merged was merged under it (cut-rc.yml).
THEOREM MainHoldsThePublished == TrainSpec => []MainIsPublished
<1>1. TrainInv => MainIsPublished
  BY MainIs DEF TrainInv
<1> QED
  BY <1>1, TrainInvariant, PTL

\* A train whose run goes on to reconcile has notes of every package tag on its commit,
\* each of a version a registry took (the finalize job of release.yml).
THEOREM NotesListEveryTag == TrainSpec => []NotesAreWhole
<1>1. TrainInv => TrainTypeOK
  <2> SUFFICES ASSUME TrainInv PROVE TrainTypeOK
    OBVIOUS
  <2>1. BranchTypes /\ TagInv /\ run \in Runs /\ reconcile \in Reconciles
    BY DEF TrainInv, BranchInv, RunInv, ReconcileInv
  <2>2. cut.step \in {"none", "checked out"} /\ cut.newest \in 0 .. Newest /\ raced \subseteq 1 .. (Newest + 1)
    <3>1. Newest \in Nat /\ raced \subseteq 1 .. (Newest + 1)
      BY <2>1, ReleaseIs DEF BranchTypes
    <3>2. cut.step \in {"none", "checked out"} /\ cut.newest \in Nat /\ cut.newest <= Newest
      BY <2>1, CutIs
    <3>3. \A k : k \in Nat /\ k <= Newest => k \in 0 .. Newest
      BY <3>1
    <3>4. cut.newest \in 0 .. Newest
      BY <3>2, <3>3
    <3> QED
      BY <3>1, <3>2, <3>4, Zenon
  <2> QED
    BY <2>1, <2>2 DEF TrainTypeOK, BranchTypes, TagInv, Runs, Results, Reconciles
<1>2. TrainInv => NotesAreWhole
  <2> SUFFICES ASSUME TrainInv, run.step = "reconciling", run.train \in trainTags
               PROVE  /\ notes[run.train] = TagsAt(run.train, tags)
                      /\ {<< tag.of, tag.version >> : tag \in notes[run.train]} \subseteq accepted
    BY <1>1 DEF NotesAreWhole
  <2>1. notes[run.train] = TagsAt(run.train, tags)
    BY DEF TrainInv, RunInv
  <2>2. \A tag \in TagsAt(run.train, tags) : << tag.of, tag.version >> \in accepted
    BY DEF TrainInv, TagInv, TagsAt
  <2> QED
    BY <2>1, <2>2
<1> QED
  BY <1>2, TrainInvariant, PTL

\* The publish jobs wait for what their package depends on, and for what that waits for.
LEMMA NeedsFollow ==
  ASSUME NEW p, NEW d \in Depends(p) \cap Packages
  PROVE  d \in Needs(p) /\ Needs(d) \subseteq Needs(p)
<1>1. CASE p = "adapter_mcp"
  BY <1>1 DEF Depends, Needs
<1>2. CASE p = "adapter_otel"
  BY <1>2 DEF Depends, Needs
<1>3. CASE p \in {"adapter", "python"}
  BY <1>3 DEF Depends
<1>4. CASE p \notin {"adapter_mcp", "adapter_otel", "adapter", "python"}
  BY <1>4 DEF Depends, Needs
<1> QED
  BY <1>1, <1>2, <1>3, <1>4

\* What a job depends on has been accepted by the time it runs.
LEMMA DependenciesFirst ==
  ASSUME TrainInv, NEW p \in Packages, JobReady(p), JobRuns(p), NEW d \in Depends(p) \cap Packages
  PROVE  << d, Version(trees[run.train], d) >> \in accepted
<1> DEFINE tree == trees[run.train]
<1>1. /\ Publishing(run, bumps, accepted, served, tree) /\ run \in Runs /\ served \subseteq accepted
      /\ run.step = "publishing"
  BY DEF TrainInv, RunInv, TagInv, JobReady
<1>2. d \in Needs(p) /\ Needs(d) \subseteq Needs(p)
  BY NeedsFollow
<1>3. run.result[d] # "pending" /\ run.result[d] # "failure" /\ run.result[d] \in Results
  BY <1>1, <1>2 DEF JobReady, JobRuns, Runs
<1>4. CASE run.result[d] = "success"
  <2>1. << d, VersionOf(bumps, tree, d) >> \in accepted
    BY <1>1, <1>4 DEF Publishing
  <2> QED
    BY <2>1, VersionIs
<1>5. CASE run.result[d] = "skipped"
  <2>1. d \notin run.plan \/ run.cancelled \/ \E q \in Needs(d) : run.result[q] = "failure"
    BY <1>1, <1>5 DEF Publishing
  <2>2. ~run.cancelled /\ \A q \in Needs(d) : run.result[q] # "failure"
    BY <1>2 DEF JobRuns
  <2>3. << d, VersionOf(bumps, tree, d) >> \in accepted
    BY <1>1, <2>1, <2>2 DEF Publishing
  <2> QED
    BY <2>3, VersionIs
<1> QED
  BY <1>3, <1>4, <1>5 DEF Results

\* Whatever failed, was skipped or was re-run before, a job gets a version accepted only
\* once the registries have what its package depends on, and nothing in the plan was wrong
\* with it (the needs and the conditions of the publish jobs of release.yml).
THEOREM DependenciesArePublishedFirst == TrainSpec => PublishedInOrder
<1>1. ASSUME TrainInv, [TrainNext]_trainVars, NEW p \in Packages,
             run.step = "publishing", run' # run,
             << p, Version(trees[run.train], p) >> \in accepted' \ accepted
      PROVE  /\ \A d \in Depends(p) \cap Packages : << d, Version(trees[run.train], d) >> \in accepted
             /\ ~NoDistTag(trees[run.train]) /\ ~Flawed(trees[run.train], p, "changelog")
  <2>1. \E q \in Packages : PublishJob(q) \/ PublishFails(q)
    <3>1. \A q : PublishByHand(q) => run' = run
      BY DEF PublishByHand
    <3> QED
      BY <1>1, <3>1, StepFrames DEF Framed, AcceptMove
  <2>2. PICK q \in Packages : PublishJob(q) \/ PublishFails(q)
    BY <2>1
  <2>3. JobReady(q) /\ JobRuns(q) /\ accepted' \subseteq accepted \cup {<< q, Version(trees[run.train], q) >>}
    BY <2>2 DEF PublishJob, PublishFails
  <2>4. p = q
    BY <1>1, <2>3
  <2>5. \A d \in Depends(p) \cap Packages : << d, Version(trees[run.train], d) >> \in accepted
    BY <1>1, <2>3, <2>4, DependenciesFirst
  <2>6. Publishing(run, bumps, accepted, served, trees[run.train]) /\ p \in run.plan
    BY <1>1, <2>3, <2>4 DEF TrainInv, RunInv, JobRuns
  <2>7. ~NoDistTag(trees[run.train]) /\ ~Flawed(trees[run.train], p, "changelog")
    BY <2>6, VersionIs DEF NoDistTag, Publishing
  <2> QED
    BY <2>5, <2>7
<1>2. TrainInv /\ [TrainNext]_trainVars =>
        [\A p \in Packages :
           LET tree == trees[run.train]
               x == << p, Version(tree, p) >>
           IN run.step = "publishing" /\ run' # run /\ x \in accepted' \ accepted =>
                /\ \A d \in Depends(p) \cap Packages : << d, Version(tree, d) >> \in accepted
                /\ ~NoDistTag(tree) /\ ~Flawed(tree, p, "changelog")]_trainVars
  BY <1>1
<1> QED
  BY <1>2, TrainInvariant, PTL DEF TrainSpec, PublishedInOrder
=============================================================================
