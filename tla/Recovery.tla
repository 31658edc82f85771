------------------------------- MODULE Recovery -------------------------------
(***************************************************************************)
(* What becomes of one finding that is hard to fix: the runs that draft    *)
(* and ship it without a person, the caps that hold it back                *)
(* (agents/lib/ship-pacing.js), the hourly reconciler that takes back what *)
(* stalled, records what failed and spends recovery cycles                 *)
(* (lib/action-center-reconciler.js), and the people who use the same      *)
(* drafts.                                                                 *)
(*                                                                         *)
(* The finding has one card.  A unique index leaves it one draft that is   *)
(* not abandoned.  Texts of failures are their retry policies              *)
(* (lib/attempt-classification.js).  Nothing grows older than the 30 days  *)
(* failed attempts are counted for.                                        *)
(***************************************************************************)
EXTENDS Naturals, FiniteSets

CONSTANTS
  Shipper,      \* how many at once: bulk jobs (routes/action-center.js) and daily runs
                \* (agents/lib/auto-remediation.js)
  MaxFailed,    \* MAX_FAILED_ATTEMPTS
  MaxCycles,    \* MAX_RECOVERY_CYCLES
  MaxDraft,     \* drafts the finding gets
  MaxCrash      \* processes killed

ASSUME RecoveryAssumption ==
  /\ MaxFailed \in Nat \ {0} /\ MaxCycles \in Nat /\ MaxDraft \in Nat /\ MaxCrash \in Nat
  /\ IsFiniteSet(Shipper)

Draft == 1 .. MaxDraft
Kind == {"bulk", "daily"}
Policy == {"defect", "human", "resolved", "retry"}

VARIABLES
  draft,      \* drafts: status, apply_error, untouched for 24 hours, abandoned_reason,
              \* and whether an attempt row names it
  card,       \* recommendations: status, and whether blocked_reason is set
  cycles,     \* recommendation_attempts with outcome 'recovered'
  recon,      \* the reconciler: where it is, the draft it read, the drafts left of pass 3
  ship,       \* each shipper: where it is, and its draft
  unattended, \* history: drafts given up as defective without a person
  crashes

vars == <<draft, card, cycles, recon, ship, unattended, crashes>>

TypeOK ==
  /\ draft \in [Draft -> [status : {"none", "draft", "submitted", "approved", "pushed",
                                    "opened", "implemented", "abandoned"},
                          err : Policy \cup {"none"}, stalled : BOOLEAN,
                          why : Policy \cup {"none", "never"}, noted : BOOLEAN]]
  /\ card \in [open : BOOLEAN, blocked : BOOLEAN]
  /\ cycles \in 0 .. MaxCycles
  /\ recon \in [pc : {"idle", "defects", "giving_up", "stalls", "reclaiming", "returning",
                      "reopening", "failures", "noting", "weighing", "escalating",
                      "rechecking", "clearing", "crediting"},
                held : 0 .. MaxDraft, todo : SUBSET Draft]
  /\ ship \in [Shipper -> [pc : {"idle", "generating", "judging", "publishing", "applying",
                                 "resuming", "batching"},
                           held : 0 .. MaxDraft]]
  /\ unattended \in 0 .. MaxDraft
  /\ crashes \in 0 .. MaxCrash

AtRest == [pc |-> "idle", held |-> 0]
Resting == [pc |-> "idle", held |-> 0, todo |-> {}]

Init ==
  /\ draft = [d \in Draft |-> [status |-> "none", err |-> "none", stalled |-> FALSE,
                               why |-> "none", noted |-> FALSE]]
  /\ card = [open |-> TRUE, blocked |-> FALSE]
  /\ cycles = 0
  /\ recon = Resting
  /\ ship = [s \in Shipper |-> AtRest]
  /\ unattended = 0 /\ crashes = 0

-----------------------------------------------------------------------------
(* The stores.                                                             *)

Live == {d \in Draft : draft[d].status \notin {"none", "abandoned"}}

\* getDraftedFindingIds: a draft without an apply_error hides its finding.
Hidden == \E d \in Live : draft[d].err = "none"

\* countFailedAttemptsByFinding, and effectiveConvergenceCap.
Attempts == Cardinality({d \in Draft : draft[d].status = "abandoned" /\ draft[d].why = "defect"})
Cap == MaxFailed * (cycles + 1)

\* Every statement that advances a draft clears its error and its idle time.
Moved(d, status) == [draft EXCEPT ![d].status = status, ![d].err = "none", ![d].stalled = FALSE]
Errs(d, policy) == [draft EXCEPT ![d].err = policy, ![d].stalled = FALSE]

\* recordAttempt.  Of a draft that is recorded only whether it counts is still read.
Note(drafts, d) ==
  IF d = 0 THEN drafts
  ELSE [drafts EXCEPT ![d].noted = TRUE, ![d].why = IF @ \in {"none", "defect"} THEN @ ELSE "never"]

\* markDraftAbandoned touches every draft that is not implemented or abandoned already.
\* Its error is not read again.
Abandonable(d) == draft[d].status \notin {"none", "implemented", "abandoned"}
Abandoned(d, why) ==
  IF Abandonable(d)
  THEN [draft EXCEPT ![d] = [status |-> "abandoned", err |-> "none", stalled |-> FALSE,
                             why |-> IF @.noted /\ why # "defect" THEN "never" ELSE why,
                             noted |-> @.noted]]
  ELSE draft

\* A failure of the item, given up without a person.
Charge(d, why) == unattended' = IF Abandonable(d) /\ why = "defect" THEN unattended + 1 ELSE unattended

\* createDraft.
Create(d) ==
  /\ Live = {} /\ draft[d].status = "none" /\ \A e \in Draft : e < d => draft[e].status # "none"
  /\ draft' = Moved(d, "draft")

Close == card' = [card EXCEPT !.open = FALSE]
Block == card' = [card EXCEPT !.blocked = @ \/ card.open]

-----------------------------------------------------------------------------
(* Mutated forms, used only to show that the properties below can fail.    *)

TakeAnyway(s) ==
  /\ ship[s].pc = "idle" /\ card.open /\ ~card.blocked /\ ~Hidden
  /\ ship' = [ship EXCEPT ![s].pc = "generating"]
  /\ UNCHANGED <<draft, card, cycles, recon, unattended, crashes>>

StrandedButPushed == {"draft", "approved"}

ClassifyOpenOnly ==
  /\ recon.pc = "noting"
  /\ \E d \in recon.todo :
       /\ \A f \in recon.todo : d <= f
       /\ draft' = IF card.open THEN Note(draft, d) ELSE draft
       /\ recon' = [recon EXCEPT !.todo = @ \ {d}]
       /\ \/ card.open /\ draft[d].why = "resolved" /\ Close
          \/ card.open /\ draft[d].why = "human" /\ Block
          \/ (~card.open \/ draft[d].why \notin {"resolved", "human"}) /\ UNCHANGED card
  /\ UNCHANGED <<cycles, ship, unattended, crashes>>

WeighLate ==
  /\ recon.pc = "weighing"
  /\ recon' = IF ~card.open \/ card.blocked \/ Attempts <= Cap THEN Resting
              ELSE [recon EXCEPT !.pc = IF cycles >= MaxCycles THEN "escalating" ELSE "rechecking"]
  /\ UNCHANGED <<draft, card, cycles, ship, unattended, crashes>>

WeighGenerously ==
  /\ recon.pc = "weighing"
  /\ recon' = IF ~card.open \/ card.blocked \/ Attempts < Cap THEN Resting
              ELSE [recon EXCEPT !.pc = IF cycles > MaxCycles THEN "escalating" ELSE "rechecking"]
  /\ UNCHANGED <<draft, card, cycles, ship, unattended, crashes>>

-----------------------------------------------------------------------------
(* A run that ships without a person.                                      *)

At(s, pc) == ship[s].pc = pc
Held(s) == ship[s].held
Step(s, pc) == ship' = [ship EXCEPT ![s].pc = pc]
Gets(s, d) == ship' = [ship EXCEPT ![s] = [pc |-> "judging", held |-> d]]
Leave(s) == ship' = [ship EXCEPT ![s] = AtRest]

\* The catch of a run of either kind: both close a card whose premise is gone, the bulk
\* job also records the attempt and blocks on a cause only a person can remove.
Catch(s, kind, drafts, why, stale) ==
  /\ Leave(s)
  /\ draft' = IF kind = "bulk" THEN Note(drafts, Held(s)) ELSE drafts
  /\ IF stale THEN Close ELSE IF kind = "bulk" /\ why = "human" THEN Block ELSE UNCHANGED card

\* The candidates of a run: open, not blocked, not hidden, under the convergence cap.
Take(s) ==
  /\ At(s, "idle")
  /\ card.open /\ ~card.blocked /\ ~Hidden /\ Attempts < Cap
  /\ Step(s, "generating")
  /\ UNCHANGED <<draft, card, cycles, recon, unattended, crashes>>

\* generateDraft: the draft there is, a new one, or a refusal, which may say that the
\* recommendation's premise is gone.
Generate(s) ==
  /\ At(s, "generating")
  /\ \/ \E d \in Live : Gets(s, d) /\ UNCHANGED <<draft, card>>
     \/ \E d \in Draft : Create(d) /\ Gets(s, d) /\ UNCHANGED card
     \/ Live = {} /\ \E kind \in Kind, why \in Policy, stale \in BOOLEAN : Catch(s, kind, draft, why, stale)
  /\ UNCHANGED <<cycles, recon, unattended, crashes>>

\* submitDraftForApproval, or draftShipState of a draft that is further on: whether a
\* pushed one without an error is on this run's branch is the day's matter (BatchShip).
Judge(s) ==
  LET d == Held(s)
  IN  /\ At(s, "judging")
      /\ \/ /\ draft[d].status = "draft"
            /\ draft' = [draft EXCEPT ![d].status = "submitted", ![d].stalled = FALSE]
            /\ Step(s, "publishing")
         \/ draft[d].status = "approved" /\ Step(s, "resuming") /\ UNCHANGED draft
         \/ /\ draft[d].status = "pushed" /\ draft[d].err = "none"
            /\ Step(s, "batching") /\ UNCHANGED draft
         \/ draft[d].status = "pushed" /\ draft' = Abandoned(d, "retry") /\ Leave(s)
         \/ /\ draft[d].status \in {"submitted", "opened", "implemented", "abandoned"}
            /\ Leave(s) /\ UNCHANGED draft
      /\ UNCHANGED <<card, cycles, recon, unattended, crashes>>

\* approveAndPublishDraftUnattended up to approveDraft; what it throws abandons the draft.
GiveUp(s, why) ==
  /\ \E kind \in Kind : Catch(s, kind, Abandoned(Held(s), why), why, FALSE)
  /\ Charge(Held(s), why)

Publish(s) ==
  LET d == Held(s)
  IN  /\ At(s, "publishing")
      /\ \/ draft[d].status = "submitted" /\ \E why \in Policy : GiveUp(s, why)
         \/ /\ draft[d].status = "submitted"
            /\ draft' = [draft EXCEPT ![d].status = "approved", ![d].stalled = FALSE]
            /\ Step(s, "applying") /\ UNCHANGED <<card, unattended>>
         \/ draft[d].status # "submitted" /\ GiveUp(s, "defect")
      /\ UNCHANGED <<cycles, recon, crashes>>

\* implementer.apply, and markDraftBranchPushed or recordApplyFailure, both of which want
\* an approved draft.  The daily run takes "anchors no longer found", a defect, as stale.
Apply(s) ==
  LET d == Held(s)
      approved == draft[d].status = "approved"
  IN  /\ At(s, "applying") \/ At(s, "resuming")
      /\ \/ /\ approved /\ draft' = Moved(d, "pushed") /\ Step(s, "batching")
            /\ UNCHANGED <<card, unattended>>
         \/ /\ \E kind \in Kind, why \in Policy, stale \in BOOLEAN :
                 /\ stale => IF At(s, "resuming") THEN why = "resolved"
                                                  ELSE kind = "daily" /\ why = "defect"
                 /\ Catch(s, kind, IF approved THEN Errs(d, why) ELSE draft, why, stale)
            /\ UNCHANGED unattended
         \/ At(s, "applying") /\ \E why \in Policy : GiveUp(s, why)
      /\ UNCHANGED <<cycles, recon, crashes>>

\* The end of the batch: its pull request, a passing fault, or one that abandons.
Finalize(s) ==
  LET d == Held(s)
      pushed == draft[d].status = "pushed"
  IN  /\ At(s, "batching") /\ Leave(s)
      /\ \/ draft' = IF pushed THEN Moved(d, "opened") ELSE draft
         \/ draft' = IF pushed THEN Errs(d, "retry") ELSE draft
         \/ draft' = Abandoned(d, "retry")
      /\ UNCHANGED <<card, cycles, recon, unattended, crashes>>

Ship(s) == Generate(s) \/ Judge(s) \/ Publish(s) \/ Apply(s) \/ Finalize(s)

-----------------------------------------------------------------------------
(* The reconciler: its passes in their order, statement by statement.      *)

On(pc) == recon.pc = pc
To(pc) == recon' = [recon EXCEPT !.pc = pc, !.held = 0]
With(pc, d) == recon' = [recon EXCEPT !.pc = pc, !.held = d]

Start ==
  /\ On("idle") /\ To("defects")
  /\ UNCHANGED <<draft, card, cycles, ship, unattended, crashes>>

\* Pass 1 reads the approved draft whose apply failed for a reason of its own ...
Stuck(d) == draft[d].status = "approved" /\ draft[d].err = "defect"

ReadDefects ==
  /\ On("defects")
  /\ \/ \E d \in Draft : Stuck(d) /\ card.open /\ With("giving_up", d) /\ draft' = Note(draft, d)
     \/ (\A d \in Draft : ~Stuck(d) \/ ~card.open) /\ To("stalls") /\ UNCHANGED draft
  /\ UNCHANGED <<card, cycles, ship, unattended, crashes>>

\* ... and, the attempt recorded, abandons it with that reason.
AbandonDefect ==
  /\ On("giving_up") /\ To("stalls")
  /\ draft' = Abandoned(recon.held, "defect") /\ Charge(recon.held, "defect")
  /\ UNCHANGED <<card, cycles, ship, crashes>>

\* Pass 2 reads what nobody moved for a day ...
RECLAIMABLE_STATUSES == {"draft", "approved", "pushed"}

ReadStalled ==
  LET stalled == {d \in Draft : draft[d].status \in RECLAIMABLE_STATUSES /\ draft[d].stalled}
  IN  /\ On("stalls")
      /\ IF stalled = {} THEN To("failures") ELSE \E d \in stalled : With("reclaiming", d)
      /\ UNCHANGED <<draft, card, cycles, ship, unattended, crashes>>

\* ... abandons it without counting it, ...
Reclaim ==
  /\ On("reclaiming")
  /\ draft' = Abandoned(recon.held, "never")
  /\ IF Abandonable(recon.held) THEN With("returning", recon.held) ELSE To("failures")
  /\ UNCHANGED <<card, cycles, ship, unattended, crashes>>

\* ... records that, and puts the card back on the board.
RecordReturn ==
  /\ On("returning") /\ With("reopening", recon.held)
  /\ draft' = Note(draft, recon.held)
  /\ UNCHANGED <<card, cycles, ship, unattended, crashes>>

Reopen ==
  /\ On("reopening") /\ To("failures")
  /\ card' = [card EXCEPT !.open = TRUE]
  /\ UNCHANGED <<draft, cycles, ship, unattended, crashes>>

\* Pass 3 reads the abandoned drafts no attempt row names, oldest first ...
Unnoted == {d \in Draft : draft[d].status = "abandoned" /\ ~draft[d].noted}

ReadUnnoted ==
  /\ On("failures")
  /\ recon' = [recon EXCEPT !.pc = "noting", !.todo = Unnoted]
  /\ UNCHANGED <<draft, card, cycles, ship, unattended, crashes>>

\* ... and records each, closing or blocking an open card where the reason says so.
Classify ==
  /\ On("noting")
  /\ \E d \in recon.todo :
       /\ \A f \in recon.todo : d <= f
       /\ draft' = Note(draft, d)
       /\ recon' = [recon EXCEPT !.todo = @ \ {d}]
       /\ \/ card.open /\ draft[d].why = "resolved" /\ Close
          \/ card.open /\ draft[d].why = "human" /\ Block
          \/ (~card.open \/ draft[d].why \notin {"resolved", "human"}) /\ UNCHANGED card
  /\ UNCHANGED <<cycles, ship, unattended, crashes>>

EndNoting ==
  /\ On("noting") /\ recon.todo = {} /\ To("weighing")
  /\ UNCHANGED <<draft, card, cycles, ship, unattended, crashes>>

\* Pass 4: the same cap as the shippers', and what is left of the recovery cycles.
Weigh ==
  /\ recon.pc = "weighing"
  /\ recon' = IF ~card.open \/ card.blocked \/ Attempts < Cap THEN Resting
              ELSE [recon EXCEPT !.pc = IF cycles >= MaxCycles THEN "escalating" ELSE "rechecking"]
  /\ UNCHANGED <<draft, card, cycles, ship, unattended, crashes>>

Escalate ==
  /\ On("escalating") /\ Block
  /\ recon' = Resting
  /\ UNCHANGED <<draft, cycles, ship, unattended, crashes>>

\* recheckRecommendation has an answer: the issue is gone, or it is there with fresh
\* evidence (or the card was closed meanwhile) ...
Recheck ==
  /\ On("rechecking")
  /\ \/ Close /\ recon' = Resting
     \/ card.open /\ To("clearing") /\ UNCHANGED card
  /\ UNCHANGED <<draft, cycles, ship, unattended, crashes>>

\* ... or none: it failed, or the finding is one that cannot be detected again by itself
\* (no page, no registered agent).
RecheckInVain ==
  /\ On("rechecking") /\ recon' = Resting
  /\ UNCHANGED <<draft, card, cycles, ship, unattended, crashes>>

\* The live draft, whatever its state, makes room for one on fresh evidence.  The reason
\* written is prose the classifier does not know, so it is read as a defect.
ClearDraft ==
  /\ On("clearing")
  /\ \/ \E d \in Live : With("crediting", d) /\ draft' = Abandoned(d, "defect")
     \/ Live = {} /\ To("crediting") /\ UNCHANGED draft
  /\ UNCHANGED <<card, cycles, ship, unattended, crashes>>

Credit ==
  /\ On("crediting") /\ recon' = Resting
  /\ draft' = Note(draft, recon.held)
  /\ cycles' = cycles + 1
  /\ UNCHANGED <<card, ship, unattended, crashes>>

Reconcile ==
  \/ ReadDefects \/ AbandonDefect \/ ReadStalled \/ Reclaim \/ RecordReturn \/ Reopen
  \/ ReadUnnoted \/ Classify \/ EndNoting \/ Weigh \/ Escalate \/ Recheck \/ RecheckInVain
  \/ ClearDraft \/ Credit

-----------------------------------------------------------------------------
(* People, time, and faults.                                               *)

\* A person submits, approves or rejects what a run has drafted.
PersonSubmits(d) ==
  /\ draft[d].status = "draft" /\ draft' = Moved(d, "submitted")
  /\ UNCHANGED <<card, cycles, recon, ship, unattended, crashes>>

PersonApproves(d) ==
  /\ draft[d].status = "submitted"
  /\ \/ draft' = Moved(d, "opened")
     \/ \E why \in Policy :
          draft' = [draft EXCEPT ![d].status = "approved", ![d].err = why, ![d].stalled = FALSE]
  /\ UNCHANGED <<card, cycles, recon, ship, unattended, crashes>>

\* The reason a reject gives by default is no phrase of the classifier either.
PersonRejects(d) ==
  /\ Abandonable(d) /\ draft' = Abandoned(d, "defect")
  /\ UNCHANGED <<card, cycles, recon, ship, unattended, crashes>>

Merge(d) ==
  /\ draft[d].status = "opened" /\ draft' = Moved(d, "implemented")
  /\ UNCHANGED <<card, cycles, recon, ship, unattended, crashes>>

\* checkDraftPrStatus finds the pull request closed: returnFindingToBoard.
ClosePr(d) ==
  /\ draft[d].status = "opened"
  /\ draft' = [draft EXCEPT ![d].status = "abandoned", ![d].why = "never", ![d].noted = TRUE]
  /\ card' = [card EXCEPT !.open = TRUE]
  /\ UNCHANGED <<cycles, recon, ship, unattended, crashes>>

\* A sync computes the block anew from the site's configuration.
Unblock ==
  /\ card.open /\ card.blocked /\ card' = [card EXCEPT !.blocked = FALSE]
  /\ UNCHANGED <<draft, cycles, recon, ship, unattended, crashes>>

\* A day goes by without a change; neither a run nor a pass lasts that long.
Stall(d) ==
  /\ draft[d].status \in {"draft", "approved", "pushed"} /\ ~draft[d].stalled
  /\ On("idle") /\ \A s \in Shipper : At(s, "idle")
  /\ draft' = [draft EXCEPT ![d].stalled = TRUE]
  /\ UNCHANGED <<card, cycles, recon, ship, unattended, crashes>>

CrashShipper(s) ==
  /\ ~At(s, "idle") /\ crashes < MaxCrash /\ crashes' = crashes + 1
  /\ Leave(s)
  /\ UNCHANGED <<draft, card, cycles, recon, unattended>>

CrashReconciler ==
  /\ ~On("idle") /\ crashes < MaxCrash /\ crashes' = crashes + 1
  /\ recon' = Resting
  /\ UNCHANGED <<draft, card, cycles, ship, unattended>>

People(d) ==
  PersonSubmits(d) \/ PersonApproves(d) \/ PersonRejects(d) \/ Merge(d) \/ ClosePr(d)

Next ==
  \/ \E s \in Shipper : Take(s) \/ Ship(s) \/ CrashShipper(s)
  \/ \E d \in Draft : People(d) \/ Stall(d)
  \/ Start \/ Reconcile \/ CrashReconciler
  \/ Unblock

\* The reconciler comes round every hour and every run gets on with its work; days pass.
\* A finding that can be detected again is, in the end, told to be there or not.
Fairness ==
  /\ WF_vars(Start) /\ WF_vars(Reconcile)
  /\ \A s \in Shipper : WF_vars(Ship(s))
  /\ SF_vars(\E d \in Draft : Stall(d))

Spec == Init /\ [][Next]_vars /\ Fairness /\ SF_vars(Recheck)

\* The same for a finding that only a whole-site scan can detect.
SiteLevelSpec == Init /\ [][Next /\ ~Recheck]_vars /\ Fairness

-----------------------------------------------------------------------------
(* Properties.                                                             *)

\* However passes, crashes and runs interleave, a finding is given up as defective at most
\* MAX_FAILED_ATTEMPTS times for each evidence it was drafted on, the first one included,
\* and once more for each other run that had picked it up already (ship-pacing.js:85-92:
\* "the total autonomous budget before NEEDS_HUMAN").
FailuresBounded == unattended <= Cap + Cardinality(Shipper)

\* A finding the cap holds back is not a dead end: it is recovered, closed or handed to a
\* person (ship-pacing.js:276-279: "Never a dead end on its own").
HeldIsHandled == card.open /\ ~card.blocked /\ Attempts >= Cap ~> ~card.open \/ card.blocked \/ Attempts < Cap

\* A draft that hides its finding and that only the system can move does so or is taken
\* back, also when the run that made it was killed (reconciler header: "a permanent
\* disappearance the moment it stops").
SystemHides ==
  \E d \in Draft : draft[d].status \in {"draft", "approved", "pushed"} /\ draft[d].err = "none"

StalledReturns == SystemHides ~> ~SystemHides

\* Every attempt that ended is in the history of its finding, whoever ended it and whatever
\* was killed in between (classifyUnrecordedFailures).
EndIsNoted == Unnoted # {} ~> Unnoted = {}

\* action-center-reconciler.js:202-205 and 240-242: a draft "a concurrent ship moved ...
\* between the SELECT and here" is left alone by passes 1 and 2.
MovedDraftIsSpared ==
  [][\A d \in Draft :
       recon.held = d /\ Abandonable(d) /\ draft'[d].status = "abandoned" /\ recon' # recon
         => \/ On("giving_up") /\ Stuck(d)
            \/ On("reclaiming") /\ draft[d].stalled]_vars

\* action-center-reconciler.js:126-133: no defect is taken back as a mere stall, "erasing
\* the one piece of evidence"; pass 1 comes first for that.
DefectIsCounted ==
  [][\A d \in Draft :
       On("reclaiming") /\ recon' # recon /\ recon.held = d /\ draft'[d].status = "abandoned"
         => ~(Stuck(d) /\ draft[d].stalled)]_vars
=============================================================================
