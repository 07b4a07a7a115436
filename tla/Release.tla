-------------------------------- MODULE Release --------------------------------
(***************************************************************************)
(* Releases (scripts/ci-publish.mjs and what runs around it): the versions *)
(* and dependency ranges on main, the release job that checks out main,    *)
(* publishes the packages one by one and syncs the examples, and the npm   *)
(* registry, whose answers lag behind what was published.                  *)
(*                                                                         *)
(* A range is a version, or 0 for workspace:^.  Jobs run one at a time     *)
(* (the concurrency group of the workflow), each on a fresh checkout.      *)
(***************************************************************************)
EXTENDS Schema, Sequences, SequencesExt

CONSTANTS Libraries,   \* publishablePackages of kind library, in order
          Rest,        \* the starters, then the scaffolder
          Needs,       \* package -> the packages it depends on
          MaxVersion,  \* bound on the versions of a package
          MaxFaults    \* bound on failed publishes and killed jobs

Order == Libraries \o Rest
Packages == ToSet(Order)

\* Every package is published once, after those it needs; libraries need none.
ASSUME ReleaseAssumption ==
  /\ Libraries \in Seq(ToSet(Libraries)) /\ Rest \in Seq(ToSet(Rest))
  /\ Order # <<>> /\ IsInjective(Order)
  /\ \A i \in 1 .. Len(Order) : Needs[Order[i]] \subseteq {Order[j] : j \in 1 .. i - 1}
  /\ \A p \in ToSet(Libraries) : Needs[p] = {}
  /\ MaxVersion \in Nat \ {0}
  /\ MaxFaults \in Nat

VARIABLES version,   \* main: package -> version of its manifest
          range,     \* main: package -> dependency -> range
          pinned,    \* main: release-versions.json, 0 for absent
          pending,   \* main: there are changesets
          npm,       \* records <<package, version, dependency -> version>>
          seen,      \* <<package, version>> that npm view answers
          job,       \* idle, view, publish or confirm
          tree,      \* checkout: <<version, range, pinned, generated files match>>
          next,      \* checkout: index of the package at hand
          recorded,  \* publishedVersions, 0 for absent
          deps,      \* the rewritten dependencies of the package at hand
          faults

mainVars == <<version, range, pinned, pending>>
jobVars == <<job, tree, next, recorded, deps>>
releaseVars == <<schemaVars, mainVars, npm, seen, jobVars, faults>>

Absent == [p \in Packages |-> 0]
Linked == [p \in Packages |-> [d \in Needs[p] |-> 0]]
Published == {<<r[1], r[2]>> : r \in npm}
NothingChecked == <<Absent, Linked, Absent, TRUE>>

\* Before the first release, or after one that was synced.
ReleaseInit ==
  /\ SchemaInit
  /\ version = [p \in Packages |-> 1]
  /\ pending = FALSE
  /\ \/ npm = {} /\ range = Linked /\ pinned = Absent
     \/ /\ npm = {<<p, 1, [d \in Needs[p] |-> 1]>> : p \in Packages}
        /\ range = [p \in Packages |-> [d \in Needs[p] |-> 1]]
        /\ pinned = [p \in Packages |-> 1]
  /\ seen = Published
  /\ job = "idle"
  /\ tree = NothingChecked
  /\ next = 1
  /\ recorded = Absent
  /\ deps = <<>>
  /\ faults = 0

-------------------------------------------------------------------------------
\* A pull request with a changeset is merged.
AddChangeset ==
  /\ ~pending
  /\ \A p \in Packages : version[p] < MaxVersion
  /\ pending' = TRUE
  /\ UNCHANGED <<schemaVars, version, range, pinned, npm, seen, jobVars, faults>>

\* changeset-version.sh: changesets bumps the versions of some packages, and
\* sync-examples --local links every example to the workspace.
Bump ==
  /\ pending
  /\ \E bumped \in SUBSET Packages \ {{}} :
       version' = [p \in Packages |-> version[p] + IF p \in bumped THEN 1 ELSE 0]
  /\ range' = Linked
  /\ pending' = FALSE
  /\ UNCHANGED <<schemaVars, pinned, npm, seen, jobVars, faults>>

\* The registry gets to answer for something that was published.
Replicate ==
  /\ \E pv \in Published \ seen : seen' = seen \cup {pv}
  /\ UNCHANGED <<schemaVars, mainVars, npm, jobVars, faults>>

-------------------------------------------------------------------------------
\* The job checks out main, passes verify:release and the schema gates, and has
\* no changesets to turn into a version pull request.
StartRelease ==
  /\ job = "idle"
  /\ ~pending
  /\ \E online \in BOOLEAN : SchemaGates(online)
  /\ job' = "view"
  /\ tree' = <<version, range, pinned, types = payloads[1] /\ byHand = payloads[2] /\ types = results>>
  /\ next' = 1
  /\ recorded' = Absent
  /\ UNCHANGED <<schemaVars, mainVars, npm, seen, deps, faults>>

At == Order[next]
Target == <<At, tree[1][At]>>

EndJob ==
  /\ job' = "idle"
  /\ tree' = NothingChecked
  /\ next' = 1
  /\ recorded' = Absent
  /\ deps' = <<>>

\* The package at hand counts as published; the next one is looked at.
Record ==
  /\ recorded' = [recorded EXCEPT ![At] = tree[1][At]]
  /\ job' = IF next = Len(Order) THEN "confirm" ELSE "view"
  /\ next' = IF next = Len(Order) THEN next ELSE next + 1
  /\ deps' = <<>>
  /\ UNCHANGED tree

\* Defect: the script exits at the first package it skips.
SkipEndsJob ==
  /\ job = "view"
  /\ Target \in seen
  /\ EndJob
  /\ UNCHANGED <<schemaVars, mainVars, npm, seen, faults>>

\* publishPackage: npm view knows this version already.
Skip ==
  /\ job = "view"
  /\ Target \in seen
  /\ Record
  /\ UNCHANGED <<schemaVars, mainVars, npm, seen, faults>>

\* npm view without a version: the latest one the registry answers, if any.
Known(d) == {v \in 1 .. MaxVersion : <<d, v>> \in seen}
NpmLatest(d) == CHOOSE v \in Known(d) : \A w \in Known(d) : w <= v

\* rewriteWorkspaceDeps for one dependency.
Resolved(d) ==
  IF tree[2][At][d] # 0 THEN tree[2][At][d]
  ELSE IF recorded[d] # 0 THEN recorded[d]
  ELSE IF tree[3][d] # 0 THEN tree[3][d]
  ELSE NpmLatest(d)

\* publishPackage: npm view does not know this version; the manifest is rewritten.
Rewrite ==
  /\ job = "view"
  /\ Target \notin seen
  /\ deps' = [d \in Needs[At] |-> Resolved(d)]
  /\ job' = "publish"
  /\ UNCHANGED <<schemaVars, mainVars, npm, seen, tree, next, recorded, faults>>

\* npm publish succeeds.
Publish ==
  /\ job = "publish"
  /\ Target \notin Published
  /\ npm' = npm \cup {<<At, tree[1][At], deps>>}
  /\ Record
  /\ UNCHANGED <<schemaVars, mainVars, seen, faults>>

\* Defect: whatever npm says, the package counts as published.
FailsCountsAsPublished ==
  /\ job = "publish"
  /\ faults < MaxFaults
  /\ faults' = faults + 1
  /\ Record
  /\ UNCHANGED <<schemaVars, mainVars, npm, seen>>

\* npm publish fails, before or after the registry took the tarball; the
\* manifest is restored and the script ends.
Fails ==
  /\ job = "publish"
  /\ faults < MaxFaults
  /\ faults' = faults + 1
  /\ \/ UNCHANGED npm
     \/ Target \notin Published /\ npm' = npm \cup {<<At, tree[1][At], deps>>}
  /\ EndJob
  /\ UNCHANGED <<schemaVars, mainVars, seen>>

\* npm refuses a version it has, or its transparency log has an equal entry.
\* The script asks the error for its output, which stdio 'inherit' leaves null,
\* so that it never finds TLOG_CREATE_ENTRY_ERROR there, and it ends.
Duplicate ==
  /\ job = "publish"
  /\ Target \in Published
  /\ EndJob
  /\ UNCHANGED <<schemaVars, mainVars, npm, seen, faults>>

\* The job is killed or its runner is lost.
Kill ==
  /\ job # "idle"
  /\ faults < MaxFaults
  /\ faults' = faults + 1
  /\ EndJob
  /\ UNCHANGED <<schemaVars, mainVars, npm, seen>>

\* The loop of the workflow over list-publishable-packages --dirs.
AllOnNpm == \A p \in Packages : <<p, tree[1][p]>> \in seen

\* sync-examples: a range is what release-versions.json has just been synced to.
SyncedRanges == [p \in Packages |-> [d \in Needs[p] |-> NpmLatest(d)]]

\* The workflow looks for every package on npm, a few times, and if they are
\* all there proposes the synced release-versions.json and examples: merged if
\* main is still what was released.
Confirm ==
  /\ job = "confirm"
  /\ \/ /\ AllOnNpm
        /\ version = tree[1]
        /\ pinned' = [p \in Packages |-> NpmLatest(p)]
        /\ range' = SyncedRanges
     \/ UNCHANGED <<pinned, range>>
  /\ EndJob
  /\ UNCHANGED <<schemaVars, version, pending, npm, seen, faults>>

Work == Skip \/ Rewrite \/ Publish \/ Duplicate \/ Confirm

\* A job works on its checkout: what is committed while it runs is as if it were
\* committed after it.
MaintainMain ==
  /\ job = "idle"
  /\ Maintain
  /\ UNCHANGED <<mainVars, npm, seen, jobVars, faults>>

ReleaseNext ==
  \/ MaintainMain
  \/ AddChangeset \/ Bump \/ Replicate
  \/ StartRelease \/ Work \/ Fails \/ Kill

ReleaseSpec == ReleaseInit /\ [][ReleaseNext]_releaseVars

\* The script runs on unless it fails or is killed, the registry replicates,
\* version pull requests are merged, and pushes and reruns start the job.
FairRelease ==
  /\ ReleaseSpec
  /\ WF_releaseVars(Work)
  /\ WF_releaseVars(Replicate)
  /\ WF_releaseVars(Bump)
  /\ WF_releaseVars(StartRelease)

-------------------------------------------------------------------------------
\* Whatever was published depends on versions that were published, too: nobody
\* can install a starter whose libraries never made it to npm.
DependsOnPublished ==
  \A r \in npm : \A d \in Needs[r[1]] : <<d, r[3][d]>> \in Published

\* A package is published with the versions of its commit, also by a rerun that
\* finds a part of them on npm, and with generated types that agree.
ReleasedTogether ==
  [][ \A r \in npm' \ npm :
        /\ r[3] = [d \in Needs[r[1]] |-> tree[1][d]]
        /\ tree[4] ]_releaseVars

\* If main passes the gates for good, every version on it gets to npm, however
\* often the job failed half way or npm view lagged behind.
ReleaseCompletes ==
  <>[](\E online \in BOOLEAN : SchemaGates(online)) =>
    <>[](\A p \in Packages : <<p, version[p]>> \in Published)

\* scripts/ci-publish.mjs:192-196: a version that is on npm already is treated
\* as published, it does not end the job.
DuplicateTolerated ==
  [][ job = "publish" /\ Target \in Published /\ faults' = faults
        => job' # "idle" ]_releaseVars

===============================================================================
