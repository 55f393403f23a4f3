------------------------------ MODULE Releases ------------------------------
(***************************************************************************)
(* What leaves the project: deployments of a reviewed artifact             *)
(* (services/project_release.py, MissionControl.review) and pull requests   *)
(* from a published environment (services/cloud_projects.py). Both write    *)
(* their receipt before the effect, both are held when the outcome is       *)
(* unknown, and a restart repeats neither.                                 *)
(***************************************************************************)
EXTENDS Naturals, FiniteSets

CONSTANTS
  Deploys,         \* prepared release plans of one project
  Pulls,           \* pull request operations, one per task
  Approvals,       \* concurrent decision requests of the owner
  MaxReviews,      \* bound on supervisor assessments
  MaxSourceEdits,  \* bound on changes of the canonical folder
  MaxReleaseDeaths \* bound on process deaths

ASSUME ReleaseAssumption ==
  /\ Deploys \intersect Pulls = {}
  /\ {MaxReviews, MaxSourceEdits, MaxReleaseDeaths} \subseteq Nat

VARIABLES
  review,          \* WorkerReview: version and verdict
  sourceRev,       \* revision of the canonical folder
  release,         \* ProjectOperation of kind deploy, with its plan
  approval,        \* decide() requests in progress
  launched,        \* deployment commands started and not yet effective
  environment,     \* ProjectOperation of kind cloud_environment
  pull,            \* ProjectOperation of kind cloud_pr and its job
  effects,         \* how often each operation took effect outside
  releaseDeaths

releaseVars == <<review, sourceRev, release, approval, launched, environment, pull, effects,
                 releaseDeaths>>

NoPlan == [status |-> "none", version |-> 0, source |-> 0, operator |-> FALSE]
NoPull == [status |-> "none", phase |-> "none", at |-> "none"]
NoApproval == [at |-> "none", of |-> "none"]

ReleaseInit ==
  /\ review = [version |-> 0, verdict |-> "none"]
  /\ sourceRev = 0
  /\ release = [r \in Deploys |-> NoPlan]
  /\ approval = [a \in Approvals |-> NoApproval]
  /\ launched = {}
  /\ environment = "none"
  /\ pull = [p \in Pulls |-> NoPull]
  /\ effects = [x \in Deploys \union Pulls |-> 0]
  /\ releaseDeaths = 0

\* review(): every assessment is a new version.
Review(v) ==
  /\ review.version < MaxReviews
  /\ review' = [version |-> review.version + 1, verdict |-> v]
  /\ UNCHANGED <<sourceRev, release, approval, launched, environment, pull, effects, releaseDeaths>>

EditSource ==
  /\ sourceRev < MaxSourceEdits
  /\ sourceRev' = sourceRev + 1
  /\ UNCHANGED <<review, release, approval, launched, environment, pull, effects, releaseDeaths>>

(***************************************************************************)
(* Deployments                                                             *)
(***************************************************************************)
Prepare(r) ==
  /\ release[r].status = "none" /\ review.verdict = "accepted"
  /\ release' = [release EXCEPT ![r] = [status |-> "awaiting", version |-> review.version,
                                        source |-> sourceRev, operator |-> FALSE]]
  /\ UNCHANGED <<review, sourceRev, approval, launched, environment, pull, effects, releaseDeaths>>

StillCurrent(r) ==
  /\ review.version = release[r].version /\ review.verdict = "accepted"
  /\ sourceRev = release[r].source

\* decide(): the plan is compared with the present before anything is written.
CheckPlan(a, r) ==
  /\ approval[a] = NoApproval /\ release[r].status = "awaiting"
  /\ StillCurrent(r)
  /\ approval' = [approval EXCEPT ![a] = [at |-> "commit", of |-> r]]
  /\ UNCHANGED <<review, sourceRev, release, launched, environment, pull, effects, releaseDeaths>>

Reject(r) ==
  /\ release[r].status = "awaiting"
  /\ release' = [release EXCEPT ![r].status = "rejected"]
  /\ UNCHANGED <<review, sourceRev, approval, launched, environment, pull, effects, releaseDeaths>>

\* A mistake: a held deployment no longer counts.
BusyExecuting == \E r \in Deploys : release[r].status = "executing"

Busy == \E r \in Deploys : release[r].status \in {"executing", "reconciling"}

\* A mistake: the receipt is written without comparing its status.
CommitAnyway(a) ==
  /\ approval[a].at = "commit"
  /\ IF Busy
     THEN approval' = [approval EXCEPT ![a] = NoApproval] /\ UNCHANGED release
     ELSE /\ release' = [release EXCEPT ![approval[a].of].status = "executing"]
          /\ approval' = [approval EXCEPT ![a].at = "deploy"]
  /\ UNCHANGED <<review, sourceRev, launched, environment, pull, effects, releaseDeaths>>

\* The receipt: no other deployment is open and the status was awaiting.
CommitApproval(a) ==
  /\ approval[a].at = "commit"
  /\ IF Busy \/ release[approval[a].of].status # "awaiting"
     THEN approval' = [approval EXCEPT ![a] = NoApproval] /\ UNCHANGED release
     ELSE /\ release' = [release EXCEPT ![approval[a].of].status = "executing"]
          /\ approval' = [approval EXCEPT ![a].at = "deploy"]
  /\ UNCHANGED <<review, sourceRev, launched, environment, pull, effects, releaseDeaths>>

\* command(): the driver is started.
Launch(a) ==
  /\ approval[a].at = "deploy"
  /\ launched' = launched \union {approval[a].of}
  /\ approval' = [approval EXCEPT ![a].at = "verify"]
  /\ UNCHANGED <<review, sourceRev, release, environment, pull, effects, releaseDeaths>>

\* The driver takes effect, or ends without one; it outlives this process.
DriverActs(r) ==
  /\ r \in launched
  /\ launched' = launched \ {r}
  /\ effects' = effects \/ effects' = [effects EXCEPT ![r] = @ + 1]
  /\ UNCHANGED <<review, sourceRev, release, approval, environment, pull, releaseDeaths>>

\* Both commands succeeded, or anything else: settle().
SettleDeploy(a) ==
  /\ approval[a].at \in {"deploy", "verify"}
  /\ LET r == approval[a].of
     IN  \E s \in {"complete", "reconciling"} :
           /\ s = "complete" => approval[a].at = "verify" /\ r \notin launched /\ effects[r] > 0
           /\ release' = [release EXCEPT ![r].status = s]
  /\ approval' = [approval EXCEPT ![a] = NoApproval]
  /\ UNCHANGED <<review, sourceRev, launched, environment, pull, effects, releaseDeaths>>

\* reconcile(): the owner vouches; "published" also runs the verifier.
Reconcile(r) ==
  /\ release[r].status = "reconciling" /\ r \notin launched
  /\ \E s \in {"complete", "failed"} :
       /\ s = "complete" => effects[r] > 0
       /\ release' = [release EXCEPT ![r].status = s, ![r].operator = TRUE]
  /\ UNCHANGED <<review, sourceRev, approval, launched, environment, pull, effects, releaseDeaths>>

(***************************************************************************)
(* Environments and pull requests                                          *)
(***************************************************************************)

\* prepare(): the repository is cloned and checked in a Cell of its own.
PrepareEnvironment ==
  /\ environment = "none" /\ environment' = "preparing"
  /\ UNCHANGED <<review, sourceRev, release, approval, launched, pull, effects, releaseDeaths>>

CheckEnvironment ==
  /\ environment = "preparing"
  /\ environment' \in {"ready", "failed", "reconciling"}
  /\ UNCHANGED <<review, sourceRev, release, approval, launched, pull, effects, releaseDeaths>>

PublishEnvironment ==
  /\ environment = "ready" /\ environment' = "published"
  /\ UNCHANGED <<review, sourceRev, release, approval, launched, pull, effects, releaseDeaths>>

\* A mistake: every request opens a pull request of its own.
OpenPullAgain(p) ==
  /\ environment = "published" /\ pull[p].at = "none"
  /\ pull' = [pull EXCEPT ![p] = [status |-> "executing", phase |-> "none", at |-> "commit"]]
  /\ UNCHANGED <<review, sourceRev, release, approval, launched, environment, effects, releaseDeaths>>

\* pull_request(): the identity of the task finds an earlier operation.
OpenPull(p) ==
  /\ environment = "published" /\ pull[p] = NoPull
  /\ pull' = [pull EXCEPT ![p] = [status |-> "executing", phase |-> "none", at |-> "commit"]]
  /\ UNCHANGED <<review, sourceRev, release, approval, launched, environment, effects, releaseDeaths>>

\* publish_pull_request(): each remote write is preceded by its phase.
CommitPull(p) ==
  /\ pull[p].at = "commit"
  /\ pull' = [pull EXCEPT ![p].at = "push", ![p].phase = "pushing"]
  /\ UNCHANGED <<review, sourceRev, release, approval, launched, environment, effects, releaseDeaths>>

Push(p) ==
  /\ pull[p].at = "push"
  /\ pull' = [pull EXCEPT ![p].at = "post", ![p].phase = "opening"]
  /\ UNCHANGED <<review, sourceRev, release, approval, launched, environment, effects, releaseDeaths>>

\* The request to GitHub, whose answer may be lost.
PostPull(p) ==
  /\ pull[p].at = "post"
  /\ effects' = [effects EXCEPT ![p] = @ + 1]
  /\ pull' = [pull EXCEPT ![p].at = "answer"]
  /\ UNCHANGED <<review, sourceRev, release, approval, launched, environment, releaseDeaths>>

SettlePull(p) ==
  /\ pull[p].at = "answer"
  /\ pull' = [pull EXCEPT ![p].at = "none", ![p].status = "complete"]
  /\ UNCHANGED <<review, sourceRev, release, approval, launched, environment, effects, releaseDeaths>>

\* A mistake: a failure after a remote write counts as one before it.
PullFailsClean(p) ==
  /\ pull[p].at # "none"
  /\ pull' = [pull EXCEPT ![p].at = "none", ![p].status = "failed"]
  /\ UNCHANGED <<review, sourceRev, release, approval, launched, environment, effects, releaseDeaths>>

PullFails(p) ==
  /\ pull[p].at # "none"
  /\ pull' = [pull EXCEPT ![p].at = "none",
                          ![p].status = IF pull[p].phase = "none" THEN "failed" ELSE "reconciling"]
  /\ UNCHANGED <<review, sourceRev, release, approval, launched, environment, effects, releaseDeaths>>

\* reconcile_pull_request(): GitHub knows the recorded commit.
ReconcilePull(p) ==
  /\ pull[p].status = "reconciling" /\ pull[p].phase # "none"
  /\ effects[p] > 0
  /\ pull' = [pull EXCEPT ![p].status = "complete"]
  /\ UNCHANGED <<review, sourceRev, release, approval, launched, environment, effects, releaseDeaths>>

\* The process dies; recover() of both services runs before anything else.
RestartReleases ==
  /\ releaseDeaths < MaxReleaseDeaths
  /\ releaseDeaths' = releaseDeaths + 1
  /\ approval' = [a \in Approvals |-> NoApproval]
  /\ release' = [r \in Deploys |-> IF release[r].status = "executing"
                   THEN [release[r] EXCEPT !.status = "reconciling"] ELSE release[r]]
  /\ pull' = [p \in Pulls |-> IF pull[p].status = "executing"
                THEN [pull[p] EXCEPT !.status = "reconciling", !.at = "none"]
                ELSE [pull[p] EXCEPT !.at = "none"]]
  /\ environment' = IF environment = "preparing" THEN "reconciling" ELSE environment
  /\ UNCHANGED <<review, sourceRev, launched, effects>>

ReleaseNext ==
  \/ EditSource \/ RestartReleases
  \/ PrepareEnvironment \/ CheckEnvironment \/ PublishEnvironment
  \/ \E v \in {"accepted", "changes"} : Review(v)
  \/ \E r \in Deploys : Prepare(r) \/ Reject(r) \/ DriverActs(r) \/ Reconcile(r)
  \/ \E a \in Approvals :
       CommitApproval(a) \/ Launch(a) \/ SettleDeploy(a) \/ \E r \in Deploys : CheckPlan(a, r)
  \/ \E p \in Pulls :
       \/ OpenPull(p) \/ CommitPull(p) \/ Push(p) \/ PostPull(p) \/ SettlePull(p)
       \/ PullFails(p) \/ ReconcilePull(p)

ReleaseSpec == ReleaseInit /\ [][ReleaseNext]_releaseVars

(***************************************************************************)
(* Properties                                                              *)
(***************************************************************************)

\* What the records say of each outside effect.
Recorded(x) ==
  IF x \in Deploys
  THEN IF release[x].operator THEN "unknown"
       ELSE CASE release[x].status \in {"none", "awaiting"} -> "new"
              [] release[x].status = "executing" -> "admitted"
              [] release[x].status = "complete" -> "confirmed"
              [] release[x].status = "rejected" -> "refused"
              [] OTHER -> "unknown"
  ELSE CASE pull[x].status = "none" -> "new"
         [] pull[x].status = "executing" -> "admitted"
         [] pull[x].status = "complete" -> "confirmed"
         [] pull[x].status = "failed" -> "refused"
         [] OTHER -> "unknown"

ReleaseEffect == INSTANCE EffectOnce WITH
  Op <- Deploys \union Pulls, times <- effects,
  state <- [x \in Deploys \union Pulls |-> Recorded(x)]

\* A deployment or a pull request takes effect at most once, only after its
\* receipt, is called complete only if it did, and is called failed only if
\* nothing left, through repeated approvals, lost answers and restarts.
PublishedAtMostOnce == ReleaseEffect!EffectSpec

\* A deployment in flight or held excludes every other one of the project.
OneDeployment ==
  Cardinality({r \in Deploys : release[r].status \in {"executing", "reconciling"}}) <= 1

\* "Changed artifact/source/target/review or expired approval requires a new
\* plan": a plan that is started is still the one that was reviewed.
StartsCurrent ==
  [][\A r \in Deploys :
       release[r].status = "awaiting" /\ release'[r].status = "executing" => StillCurrent(r)]_releaseVars
=============================================================================
