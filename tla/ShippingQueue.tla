--------------------------- MODULE ShippingQueue ---------------------------
(***************************************************************************)
(* The shared shipping queue (store/shipping-queue.js) and the two lanes   *)
(* that work it: passes of the daily pipeline, which select findings,      *)
(* record them as rows and prepare each row's draft                        *)
(* (lib/daily-pipeline/stages.js, prepare.js), and the 11:00 ship run,     *)
(* which pushes the prepared drafts and opens one pull request (ship.js).  *)
(* Passes may overlap: the orchestrator stops waiting for a stage that is  *)
(* over budget, and a later pass starts while the first still runs. The    *)
(* ship run holds a job lock (see JobLock), so there is one. People work   *)
(* on the same drafts in the Action Center meanwhile.                      *)
(*                                                                         *)
(* One site. A finding's row is its latest: the partial unique index of    *)
(* migration 148 lets at most one be active, and nothing reads the others. *)
(* How a push and its pull request succeed or fail is BatchShip's subject. *)
(***************************************************************************)
EXTENDS Naturals, FiniteSets

CONSTANTS Finding,    \* pieces of work, each the dedupe key of its row
          Pass,       \* pipeline passes that may be running at once
          NoFinding,
          MaxDraft,   \* bound: drafts ever generated
          MaxMishap,  \* bound: crashes, and drafts a lane is done with and leaves alive
          People      \* bound: the findings people work on

ASSUME QueueAssumption ==
  /\ NoFinding \notin Finding
  /\ MaxDraft \in Nat \ {0} /\ MaxMishap \in Nat
  /\ People \subseteq Finding

DraftId == 1..MaxDraft
NoDraft == 0

VARIABLES row,      \* shipping_queue: the latest row of each finding
          draft,    \* the drafts table
          pass,     \* what each pipeline pass holds in memory
          ship,     \* what the ship run holds in memory
          inPr,     \* history: the drafts whose commit went into a pull request
          left,     \* history: the drafts a lane was done with and left alive: the write
                    \* that gives one up failed, or there was no repository to push to
          crashes

vars == <<row, draft, pass, ship, inPr, left, crashes>>

ActiveState == {"queued", "preparing", "prepared", "shipping"}
State == ActiveState \cup {"none", "shipped", "failed"}
Status == {"none", "draft", "submitted", "revision", "approved", "pushed",
           "pr_opened", "abandoned"}

\* A worker's place in the handling of one item.
Phase == {"next", "submit", "validate", "mark", "apply", "abandon", "release"}

Idle == [pc |-> "idle", picks |-> {}, mine |-> {}, pushed |-> {},
         item |-> NoFinding, draft |-> NoDraft, phase |-> "next", retry |-> FALSE]

Worker == [pc : {"idle", "enqueue", "work", "finalize", "undo", "record"},
           picks : SUBSET Finding, mine : SUBSET Finding, pushed : SUBSET Finding,
           item : Finding \cup {NoFinding}, draft : DraftId \cup {NoDraft},
           phase : Phase, retry : BOOLEAN]

\* Every column and every in-memory value keeps its type.
TypeOK ==
  /\ row \in [Finding -> [state : State, draft : DraftId \cup {NoDraft}]]
  /\ draft \in [DraftId -> [finding : Finding \cup {NoFinding}, status : Status,
                            error : BOOLEAN, by : {"pipeline", "person"}]]
  /\ pass \in [Pass -> Worker]
  /\ ship \in Worker
  /\ inPr \subseteq DraftId /\ left \subseteq DraftId
  /\ crashes \in Nat

Init ==
  /\ row = [f \in Finding |-> [state |-> "none", draft |-> NoDraft]]
  /\ draft = [d \in DraftId |-> [finding |-> NoFinding, status |-> "none",
                                 error |-> FALSE, by |-> "pipeline"]]
  /\ pass = [p \in Pass |-> Idle]
  /\ ship = Idle
  /\ inPr = {} /\ left = {}
  /\ crashes = 0

-----------------------------------------------------------------------------
(* The drafts table.                                                       *)

Live(f) == {d \in DraftId : draft[d].finding = f /\ draft[d].status # "abandoned"}

\* getDraftedFindingIds: the finding is spoken for, so no selection offers it.
Hidden(f) == \E d \in Live(f) : ~draft[d].error

\* generateDraft and createDraft: the finding's live draft if it has one, else a
\* new one; migration 121's unique index makes the two agree when callers race.
DraftFor(f, d, by) ==
  \/ /\ d \in Live(f)
     /\ UNCHANGED draft
  \/ /\ Live(f) = {}
     /\ draft[d].status = "none"
     /\ \A e \in DraftId : draft[e].status = "none" => d <= e
     /\ draft' = [draft EXCEPT ![d] = [finding |-> f, status |-> "draft",
                                       error |-> FALSE, by |-> by]]

\* An UPDATE of a draft's status that matches only the statuses in from.
Move(d, from, to) ==
  draft' = IF draft[d].status \in from THEN [draft EXCEPT ![d].status = to] ELSE draft

MarkDraftAbandoned(d) ==
  draft' = [draft EXCEPT ![d].status = "abandoned"]

Leave(d) ==
  /\ left' = left \cup {d}
  /\ crashes + Cardinality(left') <= MaxMishap

\* A lane gives its draft up. Should the write fail the lane goes on as if it had not:
\* both lanes catch the error and drop it.
GiveUp(d) ==
  \/ MarkDraftAbandoned(d) /\ UNCHANGED left
  \/ Leave(d) /\ UNCHANGED draft

-----------------------------------------------------------------------------
(* The queue's own operations, each one UPDATE.                            *)

Enqueue(f) ==
  row' = IF row[f].state \in ActiveState THEN row
         ELSE [row EXCEPT ![f] = [state |-> "queued", draft |-> NoDraft]]

InState(s) == {f \in Finding : row[f].state = s}

SetState(F, s) ==
  row' = [f \in Finding |-> IF f \in F THEN [row[f] EXCEPT !.state = s] ELSE row[f]]

\* Mutant: the UPDATE takes rows already being prepared too.
ClaimAnew == InState("queued") \cup InState("preparing")

Claimable == InState("queued")
Shippable == {f \in InState("prepared") : row[f].draft # NoDraft}

MarkPrepared(f, d) ==
  row' = IF row[f].state = "shipped" THEN row
         ELSE [row EXCEPT ![f] = [state |-> "prepared", draft |-> d]]

MarkShipped(f) == SetState({f}, "shipped")

\* Mutant: a retryable release moves to a state the index does not know.
ReleaseForRetry(f, retryable) ==
  row' = [row EXCEPT ![f].state = IF retryable THEN "retry" ELSE "failed"]

\* A retryable release keeps the work already done; any other one is a failure.
ReleaseItem(f, retryable) ==
  row' = IF row[f].state = "shipped" THEN row
         ELSE [row EXCEPT ![f].state = IF ~retryable THEN "failed"
                                       ELSE IF row[f].draft = NoDraft THEN "queued"
                                       ELSE "prepared"]

-----------------------------------------------------------------------------
(* A pipeline pass: the generate stage, then the prepare stage.            *)

Step(p, w) == pass' = [pass EXCEPT ![p] = w]

\* The generate stage reads which findings are free and holds that answer.
Select(p) ==
  /\ pass[p] = Idle
  /\ Step(p, [Idle EXCEPT !.pc = "enqueue", !.picks = {f \in Finding : ~Hidden(f)}])
  /\ UNCHANGED <<row, draft, ship, inPr, left, crashes>>

EnqueuePick(p) ==
  /\ pass[p].pc = "enqueue"
  /\ \E f \in pass[p].picks :
       /\ Enqueue(f)
       /\ Step(p, [pass[p] EXCEPT !.picks = @ \ {f}])
  /\ UNCHANGED <<draft, ship, inPr, left, crashes>>

ClaimForPreparation(p) ==
  /\ pass[p].pc = "enqueue" /\ pass[p].picks = {}
  /\ SetState(Claimable, "preparing")
  /\ Step(p, IF Claimable = {} THEN Idle ELSE [Idle EXCEPT !.pc = "work", !.mine = Claimable])
  /\ UNCHANGED <<draft, ship, inPr, left, crashes>>

\* The pass is done with item f; the last one ends its work.
Without(w, f) ==
  IF w.mine = {f} THEN Idle
  ELSE [w EXCEPT !.mine = @ \ {f}, !.item = NoFinding, !.draft = NoDraft,
                 !.phase = "next", !.retry = FALSE]

\* Mutant: past the deadline the item is only dropped.
DropItem(p) ==
  /\ pass[p].pc = "work" /\ pass[p].phase = "next"
  /\ \E f \in pass[p].mine : Step(p, Without(pass[p], f))
  /\ UNCHANGED <<row, draft, ship, inPr, left, crashes>>

\* Past the deadline, aborted, or waiting for a design profile: handed straight back.
PutBack(p) ==
  /\ pass[p].pc = "work" /\ pass[p].phase = "next"
  /\ \E f \in pass[p].mine :
       /\ ReleaseItem(f, TRUE)
       /\ Step(p, Without(pass[p], f))
  /\ UNCHANGED <<draft, ship, inPr, left, crashes>>

Generate(p) ==
  /\ pass[p].pc = "work" /\ pass[p].phase = "next"
  /\ \E f \in pass[p].mine, d \in DraftId :
       /\ DraftFor(f, d, "pipeline")
       /\ Step(p, [pass[p] EXCEPT !.item = f, !.draft = d, !.phase = "submit"])
  /\ UNCHANGED <<row, ship, inPr, left, crashes>>

\* The generator refuses, or an outage stops it, before there is a draft.
GenerateFails(p) ==
  /\ pass[p].pc = "work" /\ pass[p].phase = "next"
  /\ \E f \in pass[p].mine, outage \in BOOLEAN :
       /\ Live(f) = {}
       /\ Step(p, [pass[p] EXCEPT !.item = f, !.phase = "release", !.retry = outage])
  /\ UNCHANGED <<row, draft, ship, inPr, left, crashes>>

SubmitDraftForApproval(p) ==
  /\ pass[p].phase = "submit"
  /\ Move(pass[p].draft, {"draft"}, "submitted")
  /\ Step(p, [pass[p] EXCEPT !.phase = "validate"])
  /\ UNCHANGED <<row, ship, inPr, left, crashes>>

ValidateDraft(p) ==
  /\ pass[p].phase = "validate"
  /\ draft[pass[p].draft].status = "submitted"
  /\ Step(p, [pass[p] EXCEPT !.phase = "mark"])
  /\ UNCHANGED <<row, draft, ship, inPr, left, crashes>>

\* Mutant: the item fails with its draft left behind.
ValidateFailsOnly(p) ==
  /\ pass[p].phase = "validate"
  /\ Step(p, [pass[p] EXCEPT !.phase = "release"])
  /\ UNCHANGED <<row, draft, ship, inPr, left, crashes>>

\* A gate refuses it, or it is not awaiting approval: the draft is given up first.
\* An outage leaves the draft alone.
ValidateFails(p) ==
  /\ pass[p].phase = "validate"
  /\ \/ Step(p, [pass[p] EXCEPT !.phase = "abandon"])
     \/ /\ draft[pass[p].draft].status = "submitted"
        /\ Step(p, [pass[p] EXCEPT !.phase = "release", !.retry = TRUE])
  /\ UNCHANGED <<row, draft, ship, inPr, left, crashes>>

PassAbandons(p) ==
  /\ pass[p].phase = "abandon"
  /\ GiveUp(pass[p].draft)
  /\ Step(p, [pass[p] EXCEPT !.phase = "release"])
  /\ UNCHANGED <<row, ship, inPr, crashes>>

PassReleases(p) ==
  /\ pass[p].phase = "release"
  /\ ReleaseItem(pass[p].item, pass[p].retry)
  /\ Step(p, Without(pass[p], pass[p].item))
  /\ UNCHANGED <<draft, ship, inPr, left, crashes>>

PassMarksPrepared(p) ==
  /\ pass[p].phase = "mark"
  /\ MarkPrepared(pass[p].item, pass[p].draft)
  /\ Step(p, Without(pass[p], pass[p].item))
  /\ UNCHANGED <<draft, ship, inPr, left, crashes>>

PassStep(p) ==
  \/ EnqueuePick(p) \/ ClaimForPreparation(p) \/ PutBack(p)
  \/ Generate(p) \/ GenerateFails(p) \/ SubmitDraftForApproval(p)
  \/ ValidateDraft(p) \/ ValidateFails(p)
  \/ PassAbandons(p) \/ PassReleases(p) \/ PassMarksPrepared(p)

-----------------------------------------------------------------------------
(* The ship run. It works item by item, then finalizes what it pushed.     *)

ClaimForShipping ==
  /\ ship = Idle
  /\ Shippable # {}
  /\ SetState(Shippable, "shipping")
  /\ ship' = [Idle EXCEPT !.pc = "work", !.mine = Shippable]
  /\ UNCHANGED <<draft, pass, inPr, left, crashes>>

\* approveAndPublishDraftUnattended, first half: validated again, then approved.
ApproveDraft ==
  /\ ship.pc = "work" /\ ship.phase = "next"
  /\ \E f \in ship.mine :
       /\ draft[row[f].draft].status = "submitted"
       /\ Move(row[f].draft, {"submitted"}, "approved")
       /\ ship' = [ship EXCEPT !.item = f, !.draft = row[f].draft, !.phase = "apply"]
  /\ UNCHANGED <<row, pass, inPr, left, crashes>>

\* Whatever it throws, the draft is given up; an outage is still retryable.
\* A draft that is not awaiting approval is a 404, which is no outage.
PublishThrows ==
  /\ ship.pc = "work"
  /\ \/ /\ ship.phase = "next"
        /\ \E f \in ship.mine, outage \in BOOLEAN :
             /\ outage => draft[row[f].draft].status = "submitted"
             /\ ship' = [ship EXCEPT !.item = f, !.draft = row[f].draft,
                                      !.phase = "abandon", !.retry = outage]
     \/ /\ ship.phase = "apply"
        /\ \E outage \in BOOLEAN : ship' = [ship EXCEPT !.phase = "abandon", !.retry = outage]
  /\ UNCHANGED <<row, draft, pass, inPr, left, crashes>>

\* The project has no repository (any more): the approved draft is returned as it is, and
\* an item whose draft is not 'branch_pushed' fails.
NoRepository ==
  /\ ship.phase = "apply"
  /\ ship' = [ship EXCEPT !.phase = "release"]
  /\ Leave(ship.draft)
  /\ UNCHANGED <<row, draft, pass, inPr, crashes>>

\* apply() committed the change; a draft no longer 'approved' is not recorded as pushed.
Apply ==
  /\ ship.phase = "apply"
  /\ LET f == ship.item  d == ship.draft
     IN  \/ /\ draft[d].status = "approved"
            /\ draft' = [draft EXCEPT ![d].status = "pushed", ![d].error = FALSE]
            /\ ship' = [ship EXCEPT !.mine = @ \ {f}, !.pushed = @ \cup {f},
                                    !.item = NoFinding, !.draft = NoDraft, !.phase = "next"]
         \/ /\ draft[d].status # "approved"
            /\ ship' = [ship EXCEPT !.phase = "release"]
            /\ UNCHANGED draft
  /\ UNCHANGED <<row, pass, inPr, left, crashes>>

\* apply() refused: the error stays on the draft, the item fails.
ApplyFails ==
  /\ ship.phase = "apply"
  /\ draft' = IF draft[ship.draft].status = "approved"
              THEN [draft EXCEPT ![ship.draft].error = TRUE] ELSE draft
  /\ ship' = [ship EXCEPT !.phase = "release"]
  /\ UNCHANGED <<row, pass, inPr, left, crashes>>

ShipAbandons ==
  /\ ship.phase = "abandon"
  /\ GiveUp(ship.draft)
  /\ ship' = [ship EXCEPT !.phase = "release"]
  /\ UNCHANGED <<row, pass, inPr, crashes>>

ShipReleases ==
  /\ ship.phase = "release"
  /\ ReleaseItem(ship.item, ship.retry)
  /\ ship' = [ship EXCEPT !.mine = @ \ {ship.item}, !.pushed = @ \ {ship.item},
                          !.item = NoFinding, !.draft = NoDraft, !.phase = "next",
                          !.retry = FALSE]
  /\ UNCHANGED <<draft, pass, inPr, left, crashes>>

\* The loop is over. openDraftPr insists that the first draft is still 'branch_pushed';
\* the others are updated if they are.
Finalize ==
  /\ ship.pc = "work" /\ ship.phase = "next" /\ ship.mine = {} /\ ship.pushed # {}
  /\ LET D == {row[f].draft : f \in ship.pushed}
     IN  /\ \E first \in D : draft[first].status = "pushed"
         /\ draft' = [d \in DraftId |-> IF d \in D /\ draft[d].status = "pushed"
                                        THEN [draft[d] EXCEPT !.status = "pr_opened"]
                                        ELSE draft[d]]
         /\ inPr' = inPr \cup D
  /\ ship' = [ship EXCEPT !.pc = "record"]
  /\ UNCHANGED <<row, pass, left, crashes>>

\* Mutant: the failed finalization is recorded like a success.
FinalizeFailsUnnoticed ==
  /\ ship.pc = "work" /\ ship.phase = "next" /\ ship.mine = {} /\ ship.pushed # {}
  /\ ship' = [ship EXCEPT !.pc = "record"]
  /\ UNCHANGED <<row, draft, pass, inPr, left, crashes>>

FinalizeFails ==
  /\ ship.pc = "work" /\ ship.phase = "next" /\ ship.mine = {} /\ ship.pushed # {}
  /\ ship' = [ship EXCEPT !.pc = "undo"]
  /\ UNCHANGED <<row, draft, pass, inPr, left, crashes>>

UndoPush ==
  /\ ship.pc = "undo" /\ ship.phase = "next"
  /\ \E f \in ship.pushed :
       ship' = [ship EXCEPT !.item = f, !.draft = row[f].draft, !.phase = "abandon"]
  /\ UNCHANGED <<row, draft, pass, inPr, left, crashes>>

RecordShipped ==
  /\ ship.pc = "record"
  /\ \E f \in ship.pushed :
       /\ MarkShipped(f)
       /\ ship' = [ship EXCEPT !.pushed = @ \ {f}]
  /\ UNCHANGED <<draft, pass, inPr, left, crashes>>

EndShip ==
  /\ ship.pc # "idle" /\ ship.phase = "next" /\ ship.mine = {} /\ ship.pushed = {}
  /\ ship' = Idle
  /\ UNCHANGED <<row, draft, pass, inPr, left, crashes>>

ShipStep ==
  \/ ApproveDraft \/ PublishThrows \/ NoRepository \/ Apply \/ ApplyFails
  \/ ShipAbandons \/ ShipReleases \/ Finalize \/ FinalizeFails
  \/ UndoPush \/ RecordShipped \/ EndShip

-----------------------------------------------------------------------------
(* People in the Action Center, and crashes.                               *)

OfPeople == {d \in DraftId : draft[d].finding \in People}

PersonGenerates ==
  /\ \E f \in People, d \in DraftId : DraftFor(f, d, "person")
  /\ draft' # draft
  /\ UNCHANGED <<row, pass, ship, inPr, left, crashes>>

\* Submit, send back for changes, edit, reject; approve for a project without repository.
PersonMoves ==
  /\ \E d \in OfPeople :
       \/ draft[d].status = "draft" /\ Move(d, {"draft"}, "submitted")
       \/ draft[d].status = "submitted" /\ Move(d, {"submitted"}, "revision")
       \/ draft[d].status = "revision" /\ Move(d, {"revision"}, "draft")
       \/ draft[d].status = "submitted" /\ Move(d, {"submitted"}, "approved")
       \/ draft[d].status \notin {"none", "abandoned"} /\ MarkDraftAbandoned(d)
  /\ UNCHANGED <<row, pass, ship, inPr, left, crashes>>

\* Approve, or retry an approved draft: pushed and its pull request opened, or refused
\* by apply() and left approved with the error.
PersonApproves ==
  /\ \E d \in OfPeople, ok \in BOOLEAN :
       /\ draft[d].status \in {"submitted", "approved"}
       /\ draft' = [draft EXCEPT ![d].status = IF ok THEN "pr_opened" ELSE "approved",
                                 ![d].error = ~ok]
       /\ inPr' = IF ok THEN inPr \cup {d} ELSE inPr
  /\ UNCHANGED <<row, pass, ship, left, crashes>>

CrashPass(p) ==
  /\ crashes + Cardinality(left) < MaxMishap /\ pass[p] # Idle
  /\ crashes' = crashes + 1
  /\ Step(p, Idle)
  /\ UNCHANGED <<row, draft, ship, inPr, left>>

CrashShip ==
  /\ crashes + Cardinality(left) < MaxMishap /\ ship # Idle
  /\ crashes' = crashes + 1
  /\ ship' = Idle
  /\ UNCHANGED <<row, draft, pass, inPr, left>>

Next ==
  \/ \E p \in Pass : Select(p) \/ PassStep(p) \/ CrashPass(p)
  \/ ClaimForShipping \/ ShipStep \/ CrashShip
  \/ PersonGenerates \/ PersonMoves \/ PersonApproves

Spec == Init /\ [][Next]_vars

-----------------------------------------------------------------------------
(* Properties.                                                             *)

\* Two workers never hold the same row, and a held row says so
\* (claimForPreparation's and claimForShipping's single UPDATEs).
OneClaimant ==
  /\ \A p, q \in Pass : p # q => pass[p].mine \cap pass[q].mine = {}
  /\ \A p \in Pass : \A f \in pass[p].mine : row[f].state = "preparing"
  /\ \A f \in ship.mine \cup ship.pushed : row[f].state = "shipping"

\* A row recorded as shipped has its own draft's commit in a pull request
\* (migration 148: "the batch's PR is confirmed open for this item").
ShippedHasPr ==
  \A f \in InState("shipped") : row[f].draft \in inPr

\* Work that failed is visible again, never silently hidden by a draft of the lanes,
\* unless a person shipped that draft. The header of prepare.js (lines 14-15) says so of
\* every refusal; ShippingQueueHidden.cfg shows how it fails.
FailedIsVisible ==
  \A f \in InState("failed") :
    \A d \in Live(f) : draft[d].by = "pipeline" => draft[d].error \/ d \in inPr

\* What the failure paths do keep to: a failed item is hidden only by a draft that a lane
\* left because its giving-up write was lost or the project had no repository. No other
\* way to fail, on either lane, in any order with other passes, people and crashes, leaves
\* a draft that hides its finding.
OnlyLeftDraftsHide ==
  \A f \in InState("failed") :
    \A d \in Live(f) \ left : draft[d].by = "pipeline" => draft[d].error \/ d \in inPr

\* A claimed row is in the hands of a worker that will release it, unless one crashed:
\* no return path of a lane forgets an item it claimed.
ClaimIsHeld ==
  \A f \in InState("preparing") \cup InState("shipping") :
    f \in ship.mine \cup ship.pushed \cup UNION {pass[p].mine : p \in Pass} \/ crashes > 0

\* An item waiting to be shipped has its draft intact, so that it ships with no
\* regeneration (shipping-queue.js, releaseItem).
PreparedIsShippable ==
  \A f \in InState("prepared") : draft[row[f].draft].status = "submitted"

\* A draft whose pull request is open is not given up by a lane: abandoned is for a
\* draft whose fix never shipped (drafts.js, markDraftAbandoned).
OpenPrKeepsDraft ==
  [][\A d \in DraftId :
       draft[d].status = "pr_opened" /\ draft'[d].status = "abandoned"
         => UNCHANGED <<pass, ship>>]_vars
=============================================================================
