------------------------------- MODULE BatchShip -------------------------------
(***************************************************************************)
(* How approved drafts become one pull request: the shared batch branch of *)
(* one site on one local day (implementers/lib/github-ops.js), the drafts  *)
(* rows behind it (store/drafts.js), the runs that ship onto it            *)
(* (auto-remediation.js, routes/action-center.js) and the sweep that       *)
(* finishes what they left (lib/batch-pr-recovery.js).                     *)
(*                                                                         *)
(* Files are abstracted to the draft that wrote them, and each draft       *)
(* writes files of its own.  A sha is the value of the tip it names.       *)
(* Nobody merges or closes the pull request during the day.                *)
(***************************************************************************)
EXTENDS Naturals, Sequences, FiniteSets

CONSTANTS
  Draft,        \* rows of drafts for this site
  Repair,       \* drafts that a learned-repair queue item re-offers in any state
  Run,          \* batch runs: the autonomous pass, Execute Safe Fixes, bulk approve,
                \* the daily pipeline's ship stage
  Locked,       \* the autonomous ones, which hold the site's ship lock
  Pipeline,     \* the ship stages (lib/daily-pipeline/ship.js)
  Human,        \* one person approving one draft in the dashboard
  Process,      \* Node processes
  Home,         \* the process each run, person and the sweep works in
  Sweep,        \* recoverUnopenedBatchPrs, called by the hourly reconciler
  NoDraft, NoBranch, NoSha,
  Alone,        \* TRUE: the runs, people and sweeps of the site never overlap
  MaxFault,     \* GitHub calls that may fail
  MaxCrash,     \* processes that may be killed
  MaxMain       \* pushes to the default branch during the day

ASSUME BatchAssumption ==
  /\ Repair \subseteq Draft /\ Locked \subseteq Run /\ Pipeline \subseteq Run
  /\ Run \cap Human = {} /\ Sweep \notin Run \cup Human
  /\ Home \in [Run \cup Human \cup {Sweep} -> Process]
  /\ NoDraft \notin Draft
  /\ Alone \in BOOLEAN
  /\ {MaxFault, MaxCrash, MaxMain} \subseteq Nat

Job == Run \cup Human

VARIABLES
  status,       \* drafts.status
  failed,       \* drafts.apply_error is not null
  shipped,      \* drafts a run has counted and recorded as shipped
  main,         \* the default branch's version
  tip,          \* the batch branch on GitHub, or NoBranch
  pr,           \* an open pull request has the branch as its head
  batch,        \* activeBatches: each process's entry for the branch
  job,          \* where each run and each person stands
  sweep,        \* where the sweep stands
  faults, crashes

drafts == <<status, failed, shipped>>
github == <<main, tip, pr>>
bounds == <<faults, crashes>>
vars == <<drafts, github, batch, job, sweep, bounds>>

Status == {"new", "approved", "branch_pushed", "pr_opened", "abandoned"}

\* A commit ahead of the default branch: who wrote it, and the drafts its subject names.
Commit == [by : {"apply", "batch", "sync"}, names : SUBSET Draft]

\* A branch tip: the commits ahead of the default branch, the drafts whose files its
\* tree holds, the version of the default branch it descends from, and whether
\* merging it would undo a change the default branch already has.
Tip == [log : Seq(Commit), tree : SUBSET Draft, fork : 0 .. MaxMain, undoes : BOOLEAN]

\* No branch and no sha are not tips.
ASSUME NullAssumption == NoBranch \notin Tip /\ NoSha \notin Tip

Place == {"idle", "looping", "resolving", "staging", "recording", "moving",
          "opening", "reporting", "failing", "done"}

FreshFromMain == [log |-> <<>>, tree |-> {}, fork |-> main, undoes |-> FALSE]
NotBatching == [active |-> FALSE, base |-> NoSha, entries |-> {}]
AtRest(p) == [pc |-> p, draft |-> NoDraft, existed |-> FALSE, tried |-> {}, pending |-> <<>>,
              commit |-> NoSha, parent |-> NoSha]
Asleep == [pc |-> "idle", seen |-> {}, landed |-> {}]

SeqSet(s) == {s[i] : i \in DOMAIN s}

TypeOK ==
  /\ status \in [Draft -> Status]
  /\ failed \in [Draft -> BOOLEAN]
  /\ shipped \subseteq Draft
  /\ main \in 0 .. MaxMain
  /\ tip = NoBranch \/ tip \in Tip
  /\ pr \in BOOLEAN
  /\ \A p \in Process : /\ batch[p].active \in BOOLEAN
                        /\ batch[p].base = NoSha \/ batch[p].base \in Tip
                        /\ batch[p].entries \subseteq Draft
  /\ \A j \in Job : /\ job[j].pc \in Place
                    /\ job[j].draft \in Draft \cup {NoDraft}
                    /\ job[j].pending \in Seq(Draft)
                    /\ job[j].tried \subseteq Draft
  /\ sweep.pc \in {"idle", "listed", "compared", "rechecked", "opening"}
  /\ sweep.seen \subseteq Draft /\ sweep.landed \subseteq Draft
  /\ faults \in 0 .. MaxFault /\ crashes \in 0 .. MaxCrash

Init ==
  /\ status = [d \in Draft |-> "new"]
  /\ failed = [d \in Draft |-> FALSE]
  /\ shipped = {}
  /\ main = 0 /\ tip = NoBranch /\ pr = FALSE
  /\ batch = [p \in Process |-> NotBatching]
  /\ job = [j \in Job |-> AtRest("idle")]
  /\ sweep = Asleep
  /\ faults = 0 /\ crashes = 0

-----------------------------------------------------------------------------
(* Mutated forms, used only to show that the properties below can fail.    *)

RecordFailureAsStatus(D) ==
  /\ status' = [d \in Draft |-> IF d \in D THEN "failed" ELSE status[d]]
  /\ UNCHANGED failed

RecordNoFailure(D) == UNCHANGED <<status, failed>>

MarkAnyPrOpened(D) ==
  /\ status' = [d \in Draft |-> IF d \in D THEN "pr_opened" ELSE status[d]]
  /\ failed' = [d \in Draft |-> failed[d] /\ d \notin D]

MaySquashReviewed(t) == t.log # <<>> /\ t.log[Len(t.log)].by = "batch"

SquashedOntoMain(t, D) ==
  [log |-> <<[by |-> "batch", names |-> t.log[Len(t.log)].names \cup D]>>,
   tree |-> D, fork |-> main, undoes |-> FALSE]

-----------------------------------------------------------------------------
(* The UPDATEs of store/drafts.js: each is guarded by the status it leaves. *)

MarkBranchPushed(d) ==
  /\ status[d] = "approved"
  /\ status' = [status EXCEPT ![d] = "branch_pushed"]
  /\ failed' = [failed EXCEPT ![d] = FALSE]

\* Also called for rows that have moved on, which it leaves alone.
MarkPrOpened(D) ==
  LET hit == {d \in D : status[d] = "branch_pushed"}
  IN  /\ status' = [d \in Draft |-> IF d \in hit THEN "pr_opened" ELSE status[d]]
      /\ failed' = [d \in Draft |-> failed[d] /\ d \notin hit]

MarkAbandoned(D) ==
  /\ status' = [d \in Draft |-> IF d \in D THEN "abandoned" ELSE status[d]]
  /\ UNCHANGED failed

RecordMergeFailure(D) ==
  /\ failed' = [d \in Draft |-> failed[d] \/ (d \in D /\ status[d] = "branch_pushed")]
  /\ UNCHANGED status

RecordApplyFailure(d) ==
  /\ failed' = [failed EXCEPT ![d] = @ \/ status[d] = "approved"]
  /\ UNCHANGED status

-----------------------------------------------------------------------------
(* GitHub.                                                                 *)

\* A call fails; how often is bounded.
GithubFails == faults < MaxFault /\ faults' = faults + 1 /\ UNCHANGED crashes

\* createBranch from the default branch; "already exists" counts as success.
CreatedBranch == IF tip = NoBranch THEN FreshFromMain ELSE tip

\* mergeBranchFromBase: a merge commit, unless the branch has the latest already.
Synced(t) ==
  IF t.fork = main THEN t
  ELSE [t EXCEPT !.log = Append(@, [by |-> "sync", names |-> {}]), !.fork = main]

\* A commit on top of t.
Appended(t, by, D) ==
  [t EXCEPT !.log = Append(@, [by |-> by, names |-> D]), !.tree = @ \cup D]

\* planBatchCommit's other plan: the tip's own batch commit and the new one become a
\* single commit whose parent is the default branch as it is NOW, and whose tree is
\* still the one of t.
Squashed(t, D) ==
  [log    |-> <<[by |-> "batch", names |-> t.log[Len(t.log)].names \cup D]>>,
   tree   |-> t.tree \cup D,
   fork   |-> main,
   undoes |-> t.undoes \/ t.fork # main]

MaySquash(t) == ~pr /\ t.log # <<>> /\ t.log[Len(t.log)].by = "batch"

\* GitHub opens a pull request only for a branch with commits of its own.
PrCanOpen == pr \/ (tip # NoBranch /\ tip.log # <<>>)

\* listCommitSubjectsAheadOfBase, as commitSubjectMatchesDraft reads it.
Named == UNION {tip.log[i].names : i \in DOMAIN tip.log}

-----------------------------------------------------------------------------
(* Who may do what.                                                        *)

Underway(j) == job[j].pc \notin {"idle", "done"}

\* A locked run finds the site's ship lock free.  The two button runs and a person's
\* approval take no lock, and the sweep takes another one.
MayStart(j) ==
  /\ j \in Locked => \A k \in Locked : ~Underway(k)
  /\ Alone => (\A k \in Job : ~Underway(k)) /\ sweep.pc = "idle"

Go(j, pc) == job' = [job EXCEPT ![j].pc = pc]

Leave(j) == job' = [job EXCEPT ![j] = AtRest("done")]

\* A job's item is over: a run goes to its next one, a person leaves.
NextItem(j) == IF j \in Run THEN job' = [job EXCEPT ![j].pc = "looping", ![j].draft = NoDraft]
                           ELSE Leave(j)

\* The drafts a run may be handed: work never drafted, work whose draft failed
\* (getDraftedFindingIds reopens its finding), and what a repair item points at.
Offered(d) == status[d] = "new" \/ (failed[d] /\ status[d] # "abandoned") \/ d \in Repair

-----------------------------------------------------------------------------
(* A batch run.                                                            *)

\* beginBatchPush: a no-op if this process is already batching for the branch.
Begin(r) ==
  /\ job[r].pc = "idle"
  /\ MayStart(r)
  /\ Go(r, "looping")
  /\ batch' = [batch EXCEPT ![Home[r]] = IF @.active THEN @ ELSE [NotBatching EXCEPT !.active = TRUE]]
  /\ UNCHANGED <<drafts, github, sweep, bounds>>

Take(r, d) ==
  /\ job[r].pc = "looping"
  /\ Offered(d) /\ d \notin job[r].tried
  /\ UNCHANGED <<shipped, github, batch, sweep, bounds>>

\* generateDraft, submitDraftForApproval, approveDraft; or the same draft back at
\* 'approved', whose apply is run again (RESUME_APPLY).
ApproveNext(r, d) ==
  /\ Take(r, d)
  /\ status[d] \in {"new", "approved"}
  /\ status' = [status EXCEPT ![d] = "approved"]
  /\ UNCHANGED failed
  /\ job' = [job EXCEPT ![r].pc = "resolving", ![r].draft = d, ![r].tried = @ \cup {d}]

\* AWAITING_PR: taken for a commit already on the branch, it joins the batch as it is.
JoinAwaitingPr(r, d) ==
  /\ Take(r, d)
  /\ status[d] = "branch_pushed" /\ ~failed[d]
  /\ job' = [job EXCEPT ![r].pending = Append(@, d), ![r].tried = @ \cup {d}]
  /\ UNCHANGED <<status, failed>>

\* Mutated form: a draft that is in a pull request taken for a stranded one.
ResetFinishedToo(r, d) ==
  /\ Take(r, d)
  /\ failed[d] \/ status[d] = "pr_opened"
  /\ MarkAbandoned({d})
  /\ job' = [job EXCEPT ![r].tried = @ \cup {d}]

\* STRANDED: abandoned, so that the next run drafts the finding again.
ResetStranded(r, d) ==
  /\ Take(r, d)
  /\ status[d] = "branch_pushed" /\ failed[d]
  /\ MarkAbandoned({d})
  /\ job' = [job EXCEPT ![r].tried = @ \cup {d}]

\* Already in a pull request: counted at once, and kept out of the batch.
CountFinished(r, d) ==
  /\ job[r].pc = "looping"
  /\ Offered(d) /\ d \notin job[r].tried
  /\ status[d] = "pr_opened"
  /\ shipped' = shipped \cup {d}
  /\ job' = [job EXCEPT ![r].tried = @ \cup {d}]
  /\ UNCHANGED <<status, failed, github, batch, sweep, bounds>>

-----------------------------------------------------------------------------
(* Applying one draft: a run's item, or a person's approval.               *)

\* A person approves one draft: approveAndPublishDraft without deferPr.
PersonApproves(h, d) ==
  /\ job[h].pc = "idle"
  /\ MayStart(h)
  /\ status[d] = "new"
  /\ status' = [status EXCEPT ![d] = "approved"]
  /\ job' = [job EXCEPT ![h].pc = "resolving", ![h].draft = d]
  /\ UNCHANGED <<failed, shipped, github, batch, sweep, bounds>>

\* getOrInitBatchBranch.
Resolve(j) ==
  /\ job[j].pc = "resolving"
  /\ tip' = IF tip = NoBranch THEN tip ELSE Synced(tip)
  /\ job' = [job EXCEPT ![j].pc = "staging", ![j].existed = tip # NoBranch]
  /\ UNCHANGED <<drafts, main, pr, batch, sweep, bounds>>

\* pushDraftBranch.  While its process is batching, the change is only kept in
\* memory, on the sha the first one of the batch found; otherwise it is committed.
Stage(j) ==
  LET d == job[j].draft
      b == batch[Home[j]]
      t == IF job[j].existed THEN tip ELSE CreatedBranch
      sha == IF b.base # NoSha THEN b.base ELSE IF job[j].existed THEN tip ELSE FreshFromMain
  IN  /\ job[j].pc = "staging"
      /\ Go(j, "recording")
      /\ IF b.active
         THEN /\ tip' = t
              /\ batch' = [batch EXCEPT ![Home[j]].base = sha, ![Home[j]].entries = @ \cup {d}]
         ELSE /\ tip' = Appended(t, "apply", {d})
              /\ UNCHANGED batch
      /\ UNCHANGED <<drafts, main, pr, sweep, bounds>>

\* The apply failed: GitHub did, or a gate refused.  Recorded on the draft.
ApplyFails(j) ==
  /\ job[j].pc \in {"resolving", "staging"}
  /\ GithubFails
  /\ RecordApplyFailure(job[j].draft)
  /\ NextItem(j)
  /\ UNCHANGED <<shipped, github, batch, sweep>>

\* markDraftBranchPushed.
Record(j) ==
  /\ job[j].pc = "recording"
  /\ MarkBranchPushed(job[j].draft)
  /\ job' = [job EXCEPT ![j].pc = IF j \in Run THEN "looping" ELSE "opening",
                        ![j].draft = NoDraft, ![j].pending = Append(@, job[j].draft)]
  /\ UNCHANGED <<shipped, github, batch, sweep, bounds>>

\* The row had left 'approved': the caller trips over the null it gets back.
RecordMisses(j) ==
  /\ job[j].pc = "recording"
  /\ status[job[j].draft] # "approved"
  /\ NextItem(j)
  /\ UNCHANGED <<drafts, github, batch, sweep, bounds>>

-----------------------------------------------------------------------------
(* finalizeBatchPr.                                                        *)

\* Mutated form: an early return that leaves the batch in place.
EndBatchKeepsEmpty(r) ==
  LET b == batch[Home[r]]
  IN  /\ job[r].pc = "looping"
      /\ IF b.entries = {}
         THEN Go(r, "reporting") /\ UNCHANGED batch
         ELSE /\ batch' = [batch EXCEPT ![Home[r]] = NotBatching]
              /\ job' = [job EXCEPT ![r].pc = "moving", ![r].parent = b.base,
                                    ![r].commit = Appended(b.base, "batch", b.entries)]
      /\ UNCHANGED <<drafts, github, sweep, bounds>>

\* endBatchPush up to the new commit object: the batch entry is gone either way.
\* A read of planBatchCommit that fails makes it choose the plan that rewrites nothing.
EndBatch(r) ==
  LET b == batch[Home[r]]
      plain == Appended(b.base, "batch", b.entries)
  IN  /\ job[r].pc = "looping"
      /\ r \in Pipeline => job[r].pending # <<>>
      /\ batch' = [batch EXCEPT ![Home[r]] = NotBatching]
      /\ \/ /\ b.entries = {}
            /\ Go(r, "reporting")
            /\ UNCHANGED bounds
         \/ /\ b.entries # {} /\ MaySquash(b.base)
            /\ job' = [job EXCEPT ![r].pc = "moving", ![r].commit = Squashed(b.base, b.entries)]
            /\ UNCHANGED bounds
         \/ /\ b.entries # {}
            /\ IF MaySquash(b.base) THEN GithubFails ELSE UNCHANGED bounds
            /\ job' = [job EXCEPT ![r].pc = "moving", ![r].commit = plain, ![r].parent = b.base]
      /\ UNCHANGED <<drafts, github, sweep>>

\* shipPreparedForSite with nothing pushed returns at once: the batch it began is
\* never ended.
GiveUpEmpty(r) ==
  /\ r \in Pipeline
  /\ job[r].pc = "looping"
  /\ job[r].pending = <<>>
  /\ Leave(r)
  /\ UNCHANGED <<drafts, github, batch, sweep, bounds>>

\* updateRef: forced for a squash, otherwise refused if the branch has moved.
MoveRef(r) ==
  /\ job[r].pc = "moving"
  /\ IF job[r].parent \in {NoSha, tip}
     THEN tip' = job[r].commit /\ Go(r, "opening")
     ELSE UNCHANGED tip /\ Go(r, "failing")
  /\ UNCHANGED <<drafts, main, pr, batch, sweep, bounds>>

MoveRefFails(r) ==
  /\ job[r].pc = "moving"
  /\ GithubFails
  /\ Go(r, "failing")
  /\ UNCHANGED <<drafts, github, batch, sweep>>

\* Mutated forms.
OpenPrFailsUnnoticed(j) ==
  /\ job[j].pc = "opening"
  /\ GithubFails
  /\ IF j \in Run THEN Go(j, "reporting") ELSE Leave(j)
  /\ UNCHANGED <<drafts, github, batch, sweep>>

ReportFailedFirst(r) ==
  /\ job[r].pc = "failing"
  /\ RecordMergeFailure(IF job[r].pending = <<>> THEN {} ELSE {job[r].pending[1]})
  /\ Leave(r)
  /\ UNCHANGED <<shipped, github, batch, sweep, bounds>>

SweepListCleanOnly ==
  /\ sweep.pc = "idle"
  /\ MayStart(Sweep)
  /\ \E d \in Draft : status[d] = "branch_pushed" /\ ~failed[d]
  /\ sweep' = [pc |-> "listed", landed |-> {},
               seen |-> {d \in Draft : status[d] = "branch_pushed" /\ ~failed[d]}]
  /\ UNCHANGED <<drafts, github, batch, job, bounds>>

\* openDraftPr for the first draft, which must still be 'branch_pushed', then
\* markDraftPrOpened for the others, which need not; openPrForBranch if there is none.
\* A person's approval opens the pull request for its own draft.
OpenPr(j) ==
  LET D == SeqSet(job[j].pending)
  IN  /\ job[j].pc = "opening"
      /\ PrCanOpen
      /\ j \in Run /\ D # {} => status[job[j].pending[1]] = "branch_pushed"
      /\ pr' = TRUE
      /\ MarkPrOpened(D)
      /\ IF j \in Run THEN Go(j, "reporting") ELSE Leave(j)
      /\ UNCHANGED <<shipped, main, tip, batch, sweep, bounds>>

OpenPrFails(j) ==
  LET D == IF job[j].pending = <<>> THEN {} ELSE {job[j].pending[1]}
  IN  /\ job[j].pc = "opening"
      /\ IF ~PrCanOpen \/ \E d \in D : status[d] # "branch_pushed"
         THEN UNCHANGED bounds
         ELSE GithubFails
      /\ RecordMergeFailure(D)
      /\ IF j \in Run THEN Go(j, "failing") ELSE Leave(j)
      /\ UNCHANGED <<shipped, github, batch, sweep>>

\* The run counts everything it had pending as shipped, and records it so.
ReportShipped(r) ==
  /\ job[r].pc = "reporting"
  /\ shipped' = shipped \cup SeqSet(job[r].pending)
  /\ Leave(r)
  /\ UNCHANGED <<status, failed, github, batch, sweep, bounds>>

\* The finalization failed: everything pending is left to be retried (a transient
\* cause) or abandoned (a permanent one).
ReportFailed(r) ==
  /\ job[r].pc = "failing"
  /\ \/ RecordMergeFailure(SeqSet(job[r].pending))
     \/ MarkAbandoned(SeqSet(job[r].pending))
  /\ Leave(r)
  /\ UNCHANGED <<shipped, github, batch, sweep, bounds>>

-----------------------------------------------------------------------------
(* recoverUnopenedBatchPrs and recoverBranch.                              *)

SweepStep == UNCHANGED <<shipped, main, tip, batch, job>>

\* The drafts pushed but not in a pull request, as the SELECT finds them.
SweepList ==
  /\ sweep.pc = "idle"
  /\ MayStart(Sweep)
  /\ \E d \in Draft : status[d] = "branch_pushed"
  /\ sweep' = [pc |-> "listed", seen |-> {d \in Draft : status[d] = "branch_pushed"}, landed |-> {}]
  /\ SweepStep /\ UNCHANGED <<status, failed, pr, bounds>>

SweepCompare ==
  /\ sweep.pc = "listed"
  /\ sweep' = IF tip = NoBranch THEN Asleep
              ELSE [sweep EXCEPT !.pc = "compared", !.landed = sweep.seen \cap Named]
  /\ SweepStep /\ UNCHANGED <<status, failed, pr, bounds>>

\* The second look at what the first one missed.
SweepRecheck ==
  /\ sweep.pc = "compared"
  /\ sweep' = [sweep EXCEPT !.pc = "rechecked", !.landed = @ \cup (sweep.seen \cap Named)]
  /\ SweepStep /\ UNCHANGED <<status, failed, pr, bounds>>

\* Either read fails: only what was already found on the branch goes on.
SweepReadFails ==
  /\ sweep.pc \in {"listed", "compared"}
  /\ GithubFails
  /\ sweep' = IF sweep.pc = "listed" THEN Asleep
              ELSE [sweep EXCEPT !.pc = "rechecked", !.seen = sweep.landed]
  /\ SweepStep /\ UNCHANGED <<status, failed, pr>>

\* What two reads missed is abandoned; what landed loses its stale apply_error.
SweepSettle ==
  LET missing == sweep.seen \ sweep.landed
  IN  /\ sweep.pc = "rechecked"
      /\ status' = [d \in Draft |-> IF d \in missing THEN "abandoned" ELSE status[d]]
      /\ failed' = [d \in Draft |-> failed[d] /\ ~(d \in sweep.landed /\ status[d] = "branch_pushed")]
      /\ sweep' = IF sweep.landed = {} THEN Asleep ELSE [sweep EXCEPT !.pc = "opening"]
      /\ SweepStep /\ UNCHANGED <<pr, bounds>>

\* Adopt the open pull request, or open one for a first draft and attach the others.
SweepOpen ==
  /\ sweep.pc = "opening"
  /\ pr \/ \E d \in sweep.landed : status[d] = "branch_pushed"
  /\ pr' = TRUE
  /\ MarkPrOpened(sweep.landed)
  /\ sweep' = Asleep
  /\ SweepStep /\ UNCHANGED bounds

SweepOpenFails ==
  /\ sweep.pc = "opening"
  /\ sweep' = Asleep
  /\ \/ /\ ~pr
        /\ \E d \in sweep.landed : status[d] # "branch_pushed"
        /\ UNCHANGED <<status, failed, bounds>>
     \/ /\ GithubFails
        /\ IF pr THEN UNCHANGED <<status, failed>>
           ELSE \E d \in sweep.landed : RecordMergeFailure({d})
  /\ SweepStep /\ UNCHANGED pr

-----------------------------------------------------------------------------
(* The environment.                                                        *)

\* A process is killed: its batch, never written anywhere, goes with it.
Crash(p) ==
  /\ crashes < MaxCrash
  /\ crashes' = crashes + 1
  /\ batch' = [batch EXCEPT ![p] = NotBatching]
  /\ job' = [j \in Job |-> IF Home[j] = p /\ Underway(j) THEN AtRest("done") ELSE job[j]]
  /\ sweep' = IF Home[Sweep] = p THEN Asleep ELSE sweep
  /\ UNCHANGED <<drafts, github, faults>>

\* Somebody merges something else into the default branch.
MainMoves ==
  /\ main < MaxMain
  /\ main' = main + 1
  /\ UNCHANGED <<drafts, tip, pr, batch, job, sweep, bounds>>

ItemStep(j) == Resolve(j) \/ Stage(j) \/ ApplyFails(j) \/ Record(j) \/ RecordMisses(j)
               \/ OpenPr(j) \/ OpenPrFails(j)

RunStep(r) ==
  \/ Begin(r)
  \/ \E d \in Draft : ApproveNext(r, d) \/ JoinAwaitingPr(r, d) \/ ResetStranded(r, d)
                         \/ CountFinished(r, d)
  \/ EndBatch(r) \/ GiveUpEmpty(r) \/ MoveRef(r) \/ MoveRefFails(r) \/ ReportShipped(r) \/ ReportFailed(r)

Sweeping == SweepList \/ SweepCompare \/ SweepRecheck \/ SweepReadFails
            \/ SweepSettle \/ SweepOpen \/ SweepOpenFails

Next ==
  \/ \E j \in Job : ItemStep(j)
  \/ \E r \in Run : RunStep(r)
  \/ \E h \in Human, d \in Draft : PersonApproves(h, d)
  \/ Sweeping
  \/ \E p \in Process : Crash(p)
  \/ MainMoves

\* A live process goes on with what it started, and the reconciler runs every hour.
Fairness ==
  /\ \A r \in Run : WF_vars(Underway(r) /\ (ItemStep(r) \/ RunStep(r)))
  /\ \A h \in Human : WF_vars(ItemStep(h))
  /\ WF_vars(Sweeping)

Spec == Init /\ [][Next]_vars /\ Fairness

-----------------------------------------------------------------------------
(* Properties.                                                             *)

\* No draft is ever reported against a pull request that does not contain its change
\* ("the precise 'worse than calling it failed' outcome", lib/draft-ship-state.js).
PrContainsItsDrafts ==
  \A d \in Draft : status[d] = "pr_opened" => tip # NoBranch /\ d \in tip.tree

\* What draftShipState takes AWAITING_PR to mean, whenever nobody is in the middle of
\* shipping: 'branch_pushed' without an error is a change that is on the branch.
AwaitingPrIsOnBranch ==
  (\A j \in Job : ~Underway(j)) =>
     \A d \in Draft : status[d] = "branch_pushed" /\ ~failed[d] => d \in tip.tree

\* A process keeps batching only while one of its runs is at work: "so a failed run
\* doesn't leave pushDraftBranch silently deferring forever" (endBatchPush).
BatchIsSomebodys ==
  \A p \in Process : batch[p].active => \E r \in Run : Home[r] = p /\ Underway(r)

\* Once a pull request is open, the commits under review stay as they are
\* (planBatchCommit: "never rewrite").
ReviewedCommitsStay ==
  [][ pr => Len(tip'.log) >= Len(tip.log) /\ SubSeq(tip'.log, 1, Len(tip.log)) = tip.log ]_vars

\* No ship run throws away a change that is already on the branch.
PushedWorkKept == [][ tip # NoBranch => tip.tree \subseteq tip'.tree ]_vars

\* The batch never undoes what the default branch gained in the meantime.
MainIsKept == tip # NoBranch => ~tip.undoes

\* What a run reports shipped has a pull request: "nothing is silently counted as
\* shipped work that never reached GitHub" (auto-remediation.js).
ShippedHasPr == \A d \in shipped : status[d] \in {"pr_opened", "abandoned"}

\* An abandoned draft stays abandoned, and one in a pull request never goes back to
\* an earlier state, whoever is still working on it.
NeverBackwards ==
  [][ \A d \in Draft : /\ status[d] = "abandoned" => status'[d] = "abandoned"
                       /\ status[d] = "pr_opened" => status'[d] \in {"pr_opened", "abandoned"} ]_vars

\* Nothing stays pushed without a pull request: the hourly sweep ends it one way or
\* the other, whatever failed or crashed before.
PushedIsResolved ==
  \A d \in Draft : status[d] = "branch_pushed" ~> status[d] \in {"pr_opened", "abandoned"}

\* The drafts whose files the branch holds.
OnBranch == IF tip = NoBranch THEN {} ELSE tip.tree

Day == INSTANCE DayPullRequest WITH
  work     <- OnBranch,
  commits  <- IF tip = NoBranch THEN <<>> ELSE tip.log,
  open     <- pr,
  reported <- {d \in Draft : status[d] = "pr_opened"}

\* Seen from the pull request, every step of the day adds work, reports drafts whose work
\* is there, or changes nothing: planBatchCommit, endBatchPush, finalizeBatchPr and the
\* sweep together, whatever fails in between.
ImplementsDayPullRequest == Day!Spec
=============================================================================
