---------------------------- MODULE ReleaseTrain ----------------------------
(***************************************************************************)
(* A release train, from the pull requests merged into develop to the      *)
(* registries and back: Cut release candidate, Release, Release reconcile   *)
(* and Sync develop (.github/workflows), around the plan of                 *)
(* scripts/release-plan.mjs and the notes of scripts/release-notes.mjs.     *)
(*                                                                         *)
(* A branch is the set of commits it holds: <<"bump", n>> is the n-th       *)
(* version bump merged, <<"fix", n>> repairs what was wrong with it,        *)
(* <<"train", t>> is the merge that put train t on release, <<"main", t>>   *)
(* the merge that put it on main.  trees[t] is release once it held train   *)
(* t, so release is the last of them.  Version n of a package is the one    *)
(* its n-th bump declares; version 0 is what was published before.          *)
(*                                                                         *)
(* A registry accepts a version before it serves it for reading; a publish  *)
(* job, a tag push, a registry lookup and CI may fail at any time, a run    *)
(* may be cancelled, and people re-run, merge and publish by hand.          *)
(***************************************************************************)
EXTENDS Naturals, FiniteSets, Sequences, SequencesExt, FiniteSetsExt, Functions

CONSTANTS
    Packages,       \* the packages of this instance, among PACKAGES
    Changes,        \* bound: the version bumps merged, in order; each among [of, flaw]s
    HandPublished,  \* the packages someone may publish by hand
    MaxTrains,      \* bound: how many trains are merged into release
    MaxByHand       \* bound: how often someone steps in (StepIn)

\* The released packages, in the order the finalize job tags them.
PACKAGES ==
    << "adapter", "adapter_pino", "adapter_otel_trace", "adapter_otel",
       "adapter_otel_logs", "adapter_ai_context", "adapter_mcp", "python" >>

\* What a package's manifest depends on among them.
Depends(p) ==
    CASE p = "adapter_mcp" -> {"adapter_ai_context"}
      [] p = "adapter_otel" -> {"adapter_otel_trace"}
      [] p \in {"adapter", "python"} -> {}
      [] OTHER -> {"adapter"}

\* BUG: publish jobs that wait only for the adapter's.
Needs_adapter(p) == Packages \cap (IF p = "adapter" THEN {} ELSE {"adapter"})

\* The publish jobs whose failure keeps a package's job from running.
Needs(p) ==
    Packages \cap
    CASE p = "adapter" -> {}
      [] p = "adapter_otel" -> {"adapter", "adapter_otel_trace"}
      [] p = "adapter_mcp" -> {"adapter", "adapter_ai_context"}
      [] p = "python" -> Range(PACKAGES) \ {"python"}
      [] OTHER -> {"adapter"}

Flaws == {"none", "changelog", "distTag", "dependency"}

\* The packages, the bumps and the bounds of an instance.
ASSUME TrainAssumption ==
    /\ Packages \subseteq Range(PACKAGES)
    /\ Changes \in Seq(SUBSET [of : SUBSET Packages, flaw : Flaws])
    /\ HandPublished \subseteq Packages
    /\ {MaxTrains, MaxByHand} \subseteq Nat

VARIABLES
    bumps,     \* the version bumps merged so far
    develop,   \* the commits of develop
    rc,        \* the commits of the open rc branch; {} when no train is open
    trees,     \* the commits of release, by train
    main,      \* the commits of main
    mainPr,    \* the release -> main PR is open
    syncs,     \* the sync branches, by the train they are named for
    checked,   \* the rehearsal passed on the head of rc
    accepted,  \* the versions a registry took
    served,    \* the versions a registry answers for
    tags,      \* the package tags: [of, version, at]
    trainTags, \* the trains tagged
    notes,     \* the package tags each train's GitHub Release lists
    queued,    \* the train whose Release run is pending; 0 when none is
    run,       \* the Release run under way
    reconcile, \* the reconcile under way
    byHand,    \* how often someone stepped in so far
    overtaken, \* the PR to main is for a later train than the one verified
    cut,       \* the run of Cut release candidate under way
    raced      \* the trains cut after release had moved past what was tested

branches == << develop, rc, trees, main, bumps >>
requests == << mainPr, syncs, checked, overtaken >>
registry == << accepted, served >>
published == << tags, trainTags, notes >>
runs == << queued, run, reconcile, byHand >>
cuts == << cut, raced >>

trainVars == << branches, requests, registry, published, runs, cuts >>

Release == IF trees = <<>> THEN {} ELSE Last(trees)
Newest == Len(trees)

\* The version the manifest of p declares in a tree: its newest bump there.
Version(tree, p) ==
    Max({0} \cup {n \in DOMAIN bumps : << "bump", n >> \in tree /\ p \in bumps[n].of})

Declared(tree) == {<< p, Version(tree, p) >> : p \in Packages}

\* What is wrong with the declared version of p.
Flawed(tree, p, flaw) ==
    LET n == Version(tree, p) IN
    n # 0 /\ bumps[n].flaw = flaw /\ << "fix", n >> \notin tree

\* A version none of whose prerelease identifiers can be an npm dist-tag: the
\* plan throws, whether the package is to be published or not.
NoDistTag(tree) == \E p \in Packages \ {"python"} : Flawed(tree, p, "distTag")

\* A registry answers for the declared version of p.
OnRegistry(tree, p) == << p, Version(tree, p) >> \in served

\* The plan: exactly the packages whose declared version no registry answers for.
Plan(tree) == {p \in Packages : ~OnRegistry(tree, p)}

\* A planned package depends on one that no train releases, or has no heading.
Unshippable(tree) ==
    \/ \E p \in Plan(tree) \ {"python"} : Flawed(tree, p, "dependency")
    \/ \E p \in Plan(tree) : Flawed(tree, p, "changelog")

PlanFails(tree) == NoDistTag(tree) \/ Unshippable(tree)

TagOf(p, n, t) == [of |-> p, version |-> n, at |-> t]
Tagged(p, n) == \E tag \in tags : tag.of = p /\ tag.version = n
TagsAt(t, all) == {tag \in all : tag.at = t}

Idle == [step |-> "none", train |-> 0, plan |-> {}, cancelled |-> FALSE,
         result |-> [p \in Packages |-> "pending"]]
NoCut == [step |-> "none", head |-> {}, newest |-> 0]
NoReconcile == [step |-> "none", train |-> 0, tree |-> 0, tagged |-> FALSE, ofRun |-> FALSE]

TrainInit ==
    /\ bumps = <<>> /\ develop = {} /\ rc = {} /\ trees = <<>> /\ main = {}
    /\ mainPr = FALSE /\ syncs = [t \in {0} |-> {}] /\ checked = FALSE /\ overtaken = FALSE
    /\ accepted = Packages \X {0} /\ served = accepted
    /\ tags = {TagOf(p, 0, 0) : p \in Packages} /\ trainTags = {0} /\ notes = [t \in {0} |-> tags]
    /\ queued = 0 /\ run = Idle /\ reconcile = NoReconcile /\ byHand = 0
    /\ cut = NoCut /\ raced = {}

-----------------------------------------------------------------------------
\* Pull requests into develop and into the open rc branch.

MergedInto(branch, commits) ==
    \/ branch = "develop" /\ develop' = develop \cup commits /\ UNCHANGED << rc, checked >>
    \/ branch = "rc" /\ rc # {} /\ rc' = rc \cup commits /\ checked' = FALSE
       /\ UNCHANGED develop

MergeBump(branch) ==
    /\ Len(bumps) < Len(Changes)
    /\ \E change \in Changes[Len(bumps) + 1] : bumps' = Append(bumps, change)
    /\ MergedInto(branch, {<< "bump", Len(bumps) + 1 >>})
    /\ UNCHANGED << trees, main, mainPr, syncs, overtaken, registry, published, runs, cuts >>

MergeFix(branch) ==
    /\ \E n \in DOMAIN bumps :
        /\ bumps[n].flaw # "none"
        /\ << "bump", n >> \in (IF branch = "rc" THEN rc ELSE develop)
        /\ << "fix", n >> \notin (IF branch = "rc" THEN rc ELSE develop)
        /\ MergedInto(branch, {<< "fix", n >>})
    /\ UNCHANGED << bumps, trees, main, mainPr, syncs, overtaken, registry, published, runs, cuts >>

\* Someone steps in: a run cancelled, a publish or a reconcile by hand, a cut
\* that is run while a train is open.
StepIn == byHand < MaxByHand /\ byHand' = byHand + 1

\* Cut release candidate checks develop out and fetches release with it.
Fetch ==
    /\ Newest < MaxTrains
    /\ cut.step = "none"
    /\ IF rc = {} THEN UNCHANGED byHand ELSE StepIn
    /\ cut' = [step |-> "checked out", head |-> develop, newest |-> Newest]
    /\ UNCHANGED << branches, requests, registry, published, queued, run, reconcile, raced >>

\* BUG: a cut that does not ask whether develop holds what release has.
CheckOut_unsynced == Fetch

\* It goes on if develop holds all that release has at that moment.
CheckOut ==
    /\ Release \subseteq develop
    /\ Fetch

\* When what was checked out becomes a train: no train is open, and its plan has
\* something to publish and no problem.
Cuttable(head) ==
    /\ rc = {}
    /\ Plan(head) # {}
    /\ ~PlanFails(head)

\* Release is not looked at again, and a train that was open at the checkout may
\* have been merged since.  From here no other train can be opened before this
\* one's PR is, cuts being run one at a time.
Cut ==
    /\ cut.step = "checked out"
    /\ Newest < MaxTrains
    /\ Cuttable(cut.head)
    /\ rc' = cut.head /\ checked' = FALSE
    /\ raced' = IF cut.newest = Newest THEN raced \ {Newest + 1} ELSE raced \cup {Newest + 1}
    /\ cut' = NoCut
    /\ UNCHANGED << bumps, develop, trees, main, mainPr, syncs, overtaken, registry, published, runs >>

\* Refused, or a lookup or a push failed.
StopCut ==
    /\ cut.step = "checked out"
    /\ cut' = NoCut
    /\ UNCHANGED << branches, requests, registry, published, runs, raced >>

\* The required check of the rc PR, on its head.
Rehearse ==
    /\ rc # {} /\ ~checked
    /\ Plan(rc) # {} /\ ~PlanFails(rc)
    /\ checked' = TRUE
    /\ UNCHANGED << branches, mainPr, syncs, overtaken, registry, published, runs, cuts >>

CloseRc ==
    /\ rc # {}
    /\ rc' = {} /\ checked' = FALSE
    /\ UNCHANGED << bumps, develop, trees, main, mainPr, syncs, overtaken, registry, published, runs, cuts >>

\* Merging the rc PR pushes release, which runs Release; the run waits for the
\* one under way, in place of any that waited before.  An open PR to main is for
\* release as it is now, so a train cut past an unmerged one moves under it.
MergeRc ==
    /\ rc # {} /\ checked
    /\ trees' = Append(trees, Release \cup rc \cup {<< "train", Newest + 1 >>})
    /\ queued' = Newest + 1
    /\ rc' = {} /\ checked' = FALSE
    /\ overtaken' = (overtaken \/ (mainPr /\ Newest + 1 \in raced))
    /\ UNCHANGED << bumps, develop, main, mainPr, syncs, registry, published,
                    run, reconcile, byHand, cuts >>

-----------------------------------------------------------------------------
\* The registries, and who publishes outside a train.

Serve(x) ==
    /\ x \in accepted \ served
    /\ served' = served \cup {x}
    /\ UNCHANGED << branches, requests, accepted, published, runs, cuts >>

PublishByHand(p) ==
    /\ StepIn
    /\ \E tree \in {rc, Release} :
        /\ ~Flawed(tree, p, "distTag")
        /\ << p, Version(tree, p) >> \notin accepted
        /\ accepted' = accepted \cup {<< p, Version(tree, p) >>}
    /\ UNCHANGED << branches, requests, served, published, queued, run, reconcile, cuts >>

-----------------------------------------------------------------------------
\* The Release workflow: rehearsal, the publish jobs, finalize.

Dispatch ==
    /\ Newest > 0 /\ queued = 0
    /\ queued' = Newest
    /\ UNCHANGED << branches, requests, registry, published, run, reconcile, byHand, cuts >>

StartRun ==
    /\ queued # 0 /\ run.step = "none"
    /\ run' = [Idle EXCEPT !.step = "rehearsal", !.train = queued]
    /\ queued' = 0
    /\ UNCHANGED << branches, requests, registry, published, reconcile, byHand, cuts >>

RehearsalPasses ==
    /\ run.step = "rehearsal"
    /\ ~PlanFails(trees[run.train])
    /\ run' = [run EXCEPT !.step = "publishing", !.plan = Plan(trees[run.train])]
    /\ UNCHANGED << branches, requests, registry, published, queued, reconcile, byHand, cuts >>

\* CI, the plan, a dry run or a registry lookup fails: no job after it runs.
RehearsalFails ==
    /\ run.step = "rehearsal"
    /\ run' = Idle
    /\ UNCHANGED << branches, requests, registry, published, queued, reconcile, byHand, cuts >>

JobReady(p) ==
    /\ run.step = "publishing" /\ run.result[p] = "pending"
    /\ \A q \in Needs(p) : run.result[q] # "pending"

\* A job runs when its package is planned, the run is not cancelled and no job
\* it needs failed; one that was skipped keeps no other from running.
JobRuns(p) ==
    /\ p \in run.plan
    /\ ~run.cancelled
    /\ \A q \in Needs(p) : run.result[q] # "failure"

SkipJob(p) ==
    /\ JobReady(p) /\ ~JobRuns(p)
    /\ run' = [run EXCEPT !.result[p] = "skipped"]
    /\ UNCHANGED << branches, requests, registry, published, queued, reconcile, byHand, cuts >>

PublishJob(p) ==
    /\ JobReady(p) /\ JobRuns(p)
    /\ << p, Version(trees[run.train], p) >> \notin accepted
    /\ accepted' = accepted \cup {<< p, Version(trees[run.train], p) >>}
    /\ run' = [run EXCEPT !.result[p] = "success"]
    /\ UNCHANGED << branches, requests, served, published, queued, reconcile, byHand, cuts >>

\* The build fails, the registry refuses the upload (always, when it has the
\* version already), or it takes it and the job fails all the same.
PublishFails(p) ==
    /\ JobReady(p) /\ JobRuns(p)
    /\ accepted' \in {accepted, accepted \cup {<< p, Version(trees[run.train], p) >>}}
    /\ run' = [run EXCEPT !.result[p] = "failure"]
    /\ UNCHANGED << branches, requests, served, published, queued, reconcile, byHand, cuts >>

CancelRun ==
    /\ run.step = "publishing" /\ ~run.cancelled
    /\ StepIn
    /\ run' = [run EXCEPT !.cancelled = TRUE]
    /\ UNCHANGED << branches, requests, registry, published, queued, reconcile, cuts >>

JobsOver == run.step = "publishing" /\ \A p \in Packages : run.result[p] # "pending"

\* BUG: tag what this run published, and nothing a run before it did.
ToTag_ofThisRun(t) ==
    {p \in Packages : run.result[p] = "success" /\ ~Tagged(p, Version(trees[t], p))}

\* What the finalize job tags on its commit: every package whose publish job
\* succeeded or whose declared version is served, unless it has its tag.
ToTag(t) ==
    {p \in Packages : /\ \/ run.result[p] = "success"
                         \/ OnRegistry(trees[t], p)
                      /\ ~Tagged(p, Version(trees[t], p))}

\* BUG: notes of what this run published.
Notes_ofThisRun(t, all) == {tag \in TagsAt(t, all) : run.result[tag.of] = "success"}

\* The notes of a train: a section for every package tag on its commit.
Notes(t, all) == TagsAt(t, all)

\* Finalize runs whatever the publish jobs came to, cancelled or not.  It fails
\* at the registry lookup or at a tag push (having tagged the packages before
\* it, in order), at the train's tag, or at its GitHub Release; and after all
\* of that if a job failed.  Only its success lets reconcile run.
Finalize ==
    /\ JobsOver
    /\ LET t == run.train
           NewTag(p) == TagOf(p, Version(trees[t], p), t)
           over == run' = Idle
       IN \/ \E k \in 0 .. Len(PACKAGES) - 1 :
               /\ tags' = tags \cup {NewTag(p) : p \in ToTag(t) \cap {PACKAGES[i] : i \in 1 .. k}}
               /\ over /\ UNCHANGED << trainTags, notes >>
          \/ /\ tags' = tags \cup {NewTag(p) : p \in ToTag(t)}
             /\ \/ over /\ UNCHANGED << trainTags, notes >>
                \/ over /\ TagsAt(t, tags') # {} /\ trainTags' = trainTags \cup {t} /\ UNCHANGED notes
    /\ UNCHANGED << branches, requests, registry, queued, reconcile, byHand, cuts >>

FinalizeWhole ==
    /\ JobsOver
    /\ LET t == run.train IN
        /\ tags' = tags \cup {TagOf(p, Version(trees[t], p), t) : p \in ToTag(t)}
        /\ IF TagsAt(t, tags') = {}
           THEN UNCHANGED << trainTags, notes >>
           ELSE /\ trainTags' = trainTags \cup {t}
                /\ notes' = [k \in DOMAIN notes \cup {t} |-> IF k = t THEN Notes(t, tags') ELSE notes[k]]
        /\ run' = IF run.cancelled \/ \E p \in Packages : run.result[p] = "failure"
                  THEN Idle ELSE [run EXCEPT !.step = "reconciling"]
    /\ UNCHANGED << branches, requests, registry, queued, reconcile, byHand, cuts >>

-----------------------------------------------------------------------------
\* Release reconcile, as the last job of a run or dispatched by hand.

\* The verify job checks out release as it is now, with its tags.
BeginReconcile(train, ofRun) ==
    /\ reconcile.step = "none"
    /\ reconcile' = [step |-> "verifying", train |-> train, tree |-> Newest, ofRun |-> ofRun,
                     tagged |-> /\ \A p \in Packages : Tagged(p, Version(Release, p))
                                /\ train \in trainTags]
    /\ UNCHANGED << branches, requests, registry, published, queued, run, cuts >>

ReconcileRun ==
    /\ run.step = "reconciling"
    /\ BeginReconcile(run.train, TRUE)
    /\ UNCHANGED byHand

ReconcileByHand(train) == StepIn /\ BeginReconcile(train, FALSE)

ReconcileOver ==
    /\ reconcile' = NoReconcile
    /\ run' = IF reconcile.ofRun THEN Idle ELSE run

\* It waits for the registries to serve every declared version of that tree.
VerifyPasses ==
    /\ reconcile.step = "verifying"
    /\ reconcile.tagged
    /\ \A p \in Packages : OnRegistry(trees[reconcile.tree], p)
    /\ reconcile' = [reconcile EXCEPT !.step = "verified"]
    /\ UNCHANGED << branches, requests, registry, published, queued, run, byHand, cuts >>

\* A tag is missing, a version is not served in time, a registry is down.
VerifyFails ==
    /\ reconcile.step = "verifying"
    /\ ReconcileOver
    /\ UNCHANGED << branches, requests, registry, published, queued, byHand, cuts >>

\* The sync-main job opens the PR from release as it is by then.
SyncMain ==
    /\ reconcile.step = "verified"
    /\ mainPr' = (mainPr \/ ~(Release \subseteq main))
    /\ overtaken' = (overtaken \/ (mainPr' /\ reconcile.train # Newest))
    /\ ReconcileOver
    /\ UNCHANGED << branches, syncs, checked, registry, published, queued, byHand, cuts >>

MergeMain ==
    /\ mainPr
    /\ main' = main \cup Release \cup {<< "main", Newest >>}
    /\ mainPr' = FALSE
    /\ UNCHANGED << bumps, develop, rc, trees, syncs, checked, overtaken, registry, published, runs, cuts >>

\* Sync develop names the branch for the newest train tag on main, and pushes
\* main to it unless there is one already.
OpenSync ==
    /\ ~(main \subseteq develop)
    /\ LET train == Max({0} \cup {t \in trainTags : << "train", t >> \in main}) IN
        /\ train \notin DOMAIN syncs
        /\ syncs' = [t \in DOMAIN syncs \cup {train} |-> IF t = train THEN main ELSE syncs[t]]
    /\ UNCHANGED << branches, mainPr, checked, overtaken, registry, published, runs, cuts >>

MergeSync ==
    /\ \E t \in DOMAIN syncs :
        /\ ~(syncs[t] \subseteq develop)
        /\ develop' = develop \cup syncs[t]
    /\ UNCHANGED << bumps, rc, trees, main, requests, registry, published, runs, cuts >>

-----------------------------------------------------------------------------
MergePr ==
    \E branch \in {"develop", "rc"} :
        MergeBump(branch) \/ MergeFix(branch)

RunStep ==
    \/ StartRun \/ RehearsalPasses \/ RehearsalFails \/ CancelRun
    \/ \E p \in Packages : SkipJob(p) \/ PublishJob(p) \/ PublishFails(p)
    \/ Finalize \/ FinalizeWhole

ReconcileStep ==
    \/ ReconcileRun \/ \E train \in 1 .. Newest : ReconcileByHand(train)
    \/ VerifyPasses \/ VerifyFails \/ SyncMain

\* What is left to others: a registry serves what it took, people merge the PRs
\* that are opened.  Each of these steps can only be taken so often.
OthersStep ==
    \/ \E x \in accepted : Serve(x)
    \/ MergeMain \/ OpenSync \/ MergeSync

TrainNext ==
    \/ MergePr \/ CheckOut \/ Cut \/ StopCut \/ Rehearse \/ CloseRc \/ MergeRc
    \/ \E p \in HandPublished : PublishByHand(p)
    \/ Dispatch \/ RunStep \/ ReconcileStep \/ OthersStep

\* Runs and reconciles go on, others do their part, and someone re-runs Release
\* until develop has what release has.  What may fail does not fail for ever.
Fairness ==
    /\ WF_trainVars(RunStep) /\ WF_trainVars(ReconcileStep) /\ WF_trainVars(OthersStep)
    /\ WF_trainVars(Dispatch /\ ~(Release \subseteq develop))
    /\ SF_trainVars(RehearsalPasses)
    /\ SF_trainVars(\E p \in Packages : PublishJob(p))
    /\ SF_trainVars(FinalizeWhole)
    /\ SF_trainVars(VerifyPasses)

TrainSpec == TrainInit /\ [][TrainNext]_trainVars /\ Fairness

-----------------------------------------------------------------------------
\* Every variable holds what its declaration says.
TrainTypeOK ==
    /\ \A n \in DOMAIN bumps : bumps[n] \in Changes[n]
    /\ run.step \in {"none", "rehearsal", "publishing", "reconciling"}
    /\ run.plan \subseteq Packages
    /\ run.result \in [Packages -> {"pending", "success", "failure", "skipped"}]
    /\ reconcile.step \in {"none", "verifying", "verified"}
    /\ cut.step \in {"none", "checked out"} /\ cut.newest \in 0 .. Newest
    /\ raced \subseteq 1 .. (Newest + 1)
    /\ served \subseteq accepted
    /\ trainTags \subseteq 0 .. Newest
    /\ queued \in 0 .. Newest

\* main is what has been published: a registry has, and a tag marks, every
\* version it declares, and of the trains that brought it there the newest is
\* tagged.  The one way past it is a PR to main for a train nobody verified:
\* release moves on between the two jobs of a reconcile, or a train that was
\* cut while the one before it was being merged is merged under the open PR.
MainIsPublished ==
    \/ overtaken
    \/ /\ Declared(main) \subseteq accepted
       /\ \A p \in Packages : Tagged(p, Version(main, p))
       /\ \A t \in 1 .. Newest : << "train", t >> \in main =>
            \E u \in trainTags : t <= u /\ << "train", u >> \in main

\* A version is never published over a dependency that is not: when a publish
\* job gets a version accepted, the registries have what its package depends
\* on, at the versions its own tree declares, and nothing in the plan was
\* wrong with it; whatever failed, was skipped or was re-run before.
PublishedInOrder ==
    [][\A p \in Packages :
        LET tree == trees[run.train]
            x == << p, Version(tree, p) >>
        IN run.step = "publishing" /\ run' # run /\ x \in accepted' \ accepted =>
             /\ \A d \in Depends(p) \cap Packages : << d, Version(tree, d) >> \in accepted
             /\ ~NoDistTag(tree) /\ ~Flawed(tree, p, "changelog")]_trainVars

\* Once its run goes on to reconcile, a train's GitHub Release lists every
\* package tag on its commit, however many runs it took, and each of them is
\* a version a registry took.
NotesAreWhole ==
    /\ TrainTypeOK
    /\ run.step = "reconciling" /\ run.train \in trainTags =>
        /\ notes[run.train] = TagsAt(run.train, tags)
        /\ {<< tag.of, tag.version >> : tag \in notes[run.train]} \subseteq accepted

\* Every train merged into release comes back to develop, through partial
\* failures, cancelled runs and slow registries: the next one can be cut.  Not
\* so past a train that was cut while the one before it was being merged: when
\* the packages were all tagged at the first, whose own tag failed, no run of
\* the second has a tag to give, and no reconcile finds the train tagged.
TrainConverges ==
    \A t \in 1 .. MaxTrains :
        Newest >= t ~> << "train", t >> \in develop \/ \E u \in raced : u <= Newest
=============================================================================
