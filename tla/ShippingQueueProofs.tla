--------------------------- MODULE ShippingQueueProofs ---------------------------
(***************************************************************************)
(* The shipping queue for every number of findings, passes, drafts and     *)
(* crashes (ShippingQueue).                                                *)
(*                                                                         *)
(* The argument: a claim is one UPDATE that leaves no claimable row        *)
(* behind, and a row leaves the claimed state only through the worker that *)
(* has it in hand.  So nobody else changes the draft_id of a row between   *)
(* the moment the ship run claimed it and the moment it records it.        *)
(*                                                                         *)
(* A failure is hidden by nothing but a draft that was left, because a     *)
(* finding has one live draft at a time: the one the row in hand names, or *)
(* the one just generated for it, and every path to a failure gives that   *)
(* one up, leaves its error on it, or counts among those that leave it.    *)
(*                                                                         *)
(* A lane gives up a draft in an open pull request only after a person     *)
(* opened it, or another pass: a row on its way to the ship run has        *)
(* nothing open, because a finding is enqueued only when all its live      *)
(* drafts have an error, and one that has an error is never opened.        *)
(***************************************************************************)
EXTENDS ShippingQueue, TLAPS

\* The item a worker is in the middle of is one it has claimed, and a pass that is still
\* enqueueing has claimed nothing.
ItemIsMine ==
  /\ \A p \in Pass : /\ pass[p].phase # "next" => pass[p].item \in pass[p].mine
                     /\ pass[p].pc = "enqueue" => pass[p].mine = {}
  /\ ship.phase # "next" => ship.item \in ship.mine \cup ship.pushed

\* What the ship run has in hand has a draft; once the pull request is open, that draft is
\* in it, and the run pushes nothing more.
PushedHasDraft ==
  /\ \A f \in ship.mine \cup ship.pushed : row[f].draft \in DraftId
  /\ ship.pc = "record" => /\ ship.phase = "next" /\ ship.mine = {}
                           /\ \A f \in ship.pushed : row[f].draft \in inPr

InShip == ship.mine \cup ship.pushed

\* Passes never overlap.
OnePass == \A p, q \in Pass : p = q

\* While passes do not overlap, no draft of finding f is in an open pull request, people's
\* findings aside.
Unopened(f) ==
  OnePass /\ f \notin People => \A d \in DraftId : draft[d].finding = f => draft[d].status # "pr_opened"

\* A row names a draft of its finding; one on its way to the ship run has nothing open.
RowOwn(f) ==
  /\ row[f].draft # NoDraft => draft[row[f].draft].finding = f
  /\ row[f].state \in {"queued", "preparing", "prepared"} => Unopened(f)

\* The draft a pass has at hand is of the item at hand, and what the pass is yet to enqueue
\* is still free if no other pass is about.
PassOwn(w) ==
  /\ w.phase \in {"submit", "validate", "mark", "abandon"} =>
       w.draft \in DraftId /\ draft[w.draft].finding = w.item
  /\ w.pc # "enqueue" => w.picks = {}
  /\ OnePass => \A f \in w.picks \ People : ~Hidden(f)

\* The draft the ship run has at hand is its row's, without an error when it is applied, and
\* nothing in hand is open until the run itself has opened it.
ShipOwn ==
  /\ ship.phase \in {"apply", "abandon"} => ship.draft = row[ship.item].draft
  /\ ship.phase = "apply" /\ ship.item \notin People => ~draft[ship.draft].error
  /\ ship.pc # "record" => \A f \in InShip : Unopened(f)

\* A draft with an error never gets further: the lanes give it up.
Unfailed == {"draft", "submitted", "pushed", "pr_opened"}

DraftOwn(d) ==
  /\ draft[d].status = "none" => draft[d].finding = NoFinding
  /\ draft[d].finding \notin People /\ draft[d].status \in Unfailed => ~draft[d].error

OwnInv ==
  /\ \A f \in Finding : RowOwn(f)
  /\ \A p \in Pass : PassOwn(pass[p])
  /\ ShipOwn
  /\ \A d \in DraftId : DraftOwn(d)

QueueInv == /\ TypeOK /\ OneClaimant /\ ClaimIsHeld /\ ShippedHasPr
            /\ ItemIsMine /\ PushedHasDraft /\ OwnInv

-----------------------------------------------------------------------------
(* Type correctness.                                                       *)

RowType == [state : State, draft : DraftId \cup {NoDraft}]
DraftType == [finding : Finding \cup {NoFinding}, status : Status,
              error : BOOLEAN, by : {"pipeline", "person"}]

\* TypeOK in these terms, before and after a step.
LEMMA Typed ==
  /\ TypeOK <=> /\ row \in [Finding -> RowType] /\ draft \in [DraftId -> DraftType]
                /\ pass \in [Pass -> Worker] /\ ship \in Worker
                /\ inPr \subseteq DraftId /\ left \subseteq DraftId /\ crashes \in Nat
  /\ TypeOK' <=> /\ row' \in [Finding -> RowType] /\ draft' \in [DraftId -> DraftType]
                 /\ pass' \in [Pass -> Worker] /\ ship' \in Worker
                 /\ inPr' \subseteq DraftId /\ left' \subseteq DraftId /\ crashes' \in Nat
  BY DEF TypeOK, RowType, DraftType

\* A worker that holds nothing is a worker.
LEMMA IdleTyped == Idle \in Worker
  BY DEF Idle, Worker, Phase

\* Dropping an item leaves a worker.
LEMMA WithoutTyped ==
  ASSUME NEW w \in Worker, NEW f
  PROVE  Without(w, f) \in Worker
<1>1. [w EXCEPT !.mine = w.mine \ {f}, !.item = NoFinding, !.draft = NoDraft,
                !.phase = "next", !.retry = FALSE] \in Worker
  BY DEF Worker, Phase
<1> QED BY <1>1, IdleTyped DEF Without

\* An UPDATE of a status keeps the types of the drafts.
LEMMA DraftsTyped ==
  ASSUME TypeOK, NEW d,
         \/ \E from, to : to \in Status /\ Move(d, from, to)
         \/ MarkDraftAbandoned(d)
  PROVE  draft' \in [DraftId -> DraftType]
<1>1. ASSUME NEW to \in Status, draft' = [draft EXCEPT ![d].status = to]
      PROVE  draft' \in [DraftId -> DraftType]
  BY <1>1, Typed DEF DraftType
<1>2. CASE MarkDraftAbandoned(d)
  BY <1>1, <1>2 DEF MarkDraftAbandoned, Status
<1>3. ASSUME NEW from, NEW to \in Status, Move(d, from, to)
      PROVE  draft' \in [DraftId -> DraftType]
  BY <1>1, <1>3, Typed DEF Move
<1> QED BY <1>2, <1>3

\* A draft that is found or created has the types of one.
LEMMA DraftForTyped ==
  ASSUME TypeOK, NEW f \in Finding, NEW d \in DraftId, NEW by \in {"pipeline", "person"},
         DraftFor(f, d, by)
  PROVE  draft' \in [DraftId -> DraftType]
<1>1. [finding |-> f, status |-> "draft", error |-> FALSE, by |-> by] \in DraftType
  BY DEF DraftType, Status
<1> QED BY <1>1, Typed DEF DraftFor

\* Each of the queue's operations keeps the types of the rows.
LEMMA RowsTyped ==
  ASSUME TypeOK,
         \/ \E f : Enqueue(f)
         \/ \E F, s : s \in State /\ SetState(F, s)
         \/ \E f, d : d \in DraftId \cup {NoDraft} /\ MarkPrepared(f, d)
         \/ \E f, retryable : ReleaseItem(f, retryable)
  PROVE  row' \in [Finding -> RowType]
<1>1. ASSUME NEW f, Enqueue(f) PROVE row' \in [Finding -> RowType]
  <2>1. [state |-> "queued", draft |-> NoDraft] \in RowType
    BY DEF RowType, State, ActiveState
  <2> QED BY <1>1, <2>1, Typed DEF Enqueue
<1>2. ASSUME NEW F, NEW s \in State, SetState(F, s) PROVE row' \in [Finding -> RowType]
  BY <1>2, Typed DEF SetState, RowType
<1>3. ASSUME NEW f, NEW d \in DraftId \cup {NoDraft}, MarkPrepared(f, d)
      PROVE  row' \in [Finding -> RowType]
  <2>1. [state |-> "prepared", draft |-> d] \in RowType
    BY DEF RowType, State, ActiveState
  <2> QED BY <1>3, <2>1, Typed DEF MarkPrepared
<1>4. ASSUME NEW f, NEW retryable, ReleaseItem(f, retryable) PROVE row' \in [Finding -> RowType]
  <2>1. UNCHANGED row \/ \E s \in State : row' = [row EXCEPT ![f].state = s]
    BY <1>4 DEF ReleaseItem, State, ActiveState
  <2> QED BY <2>1, Typed DEF RowType
<1> QED BY <1>1, <1>2, <1>3, <1>4

\* A pass replaces what it holds in memory.
LEMMA PassTyped ==
  ASSUME TypeOK, NEW p \in Pass, NEW w \in Worker, Step(p, w)
  PROVE  pass' \in [Pass -> Worker]
  BY Typed DEF Step

\* No step leaves the types.
LEMMA TypeStep ==
  ASSUME TypeOK, ItemIsMine, PushedHasDraft, OwnInv, [Next]_vars
  PROVE  TypeOK'
<1> USE Typed
<1>1. ASSUME NEW p \in Pass, Select(p) PROVE TypeOK'
  <2>1. [Idle EXCEPT !.pc = "enqueue", !.picks = {f \in Finding : ~Hidden(f)}] \in Worker
    BY IdleTyped DEF Worker
  <2> QED BY <1>1, <2>1, PassTyped DEF Select
<1>2. ASSUME NEW p \in Pass, EnqueuePick(p) PROVE TypeOK'
  <2>1. PICK f \in pass[p].picks : Enqueue(f) /\ Step(p, [pass[p] EXCEPT !.picks = pass[p].picks \ {f}])
    BY <1>2 DEF EnqueuePick
  <2>2. [pass[p] EXCEPT !.picks = pass[p].picks \ {f}] \in Worker
    BY DEF Worker
  <2> QED BY <1>2, <2>1, <2>2, PassTyped, RowsTyped DEF EnqueuePick
<1>3. ASSUME NEW p \in Pass, ClaimForPreparation(p) PROVE TypeOK'
  <2>1. [Idle EXCEPT !.pc = "work", !.mine = Claimable] \in Worker
    BY IdleTyped DEF Worker, Claimable, InState
  <2>2. row' \in [Finding -> RowType]
    BY <1>3, RowsTyped DEF ClaimForPreparation, State, ActiveState
  <2>3. pass' \in [Pass -> Worker]
    BY <1>3, <2>1, PassTyped, IdleTyped DEF ClaimForPreparation
  <2> QED BY <1>3, <2>2, <2>3 DEF ClaimForPreparation
<1>4. ASSUME NEW p \in Pass, PutBack(p) \/ PassReleases(p) PROVE TypeOK'
  <2>1. PICK f : (\E retry : ReleaseItem(f, retry)) /\ Step(p, Without(pass[p], f))
    BY <1>4 DEF PutBack, PassReleases
  <2>2. row' \in [Finding -> RowType] /\ pass' \in [Pass -> Worker]
    BY <2>1, RowsTyped, PassTyped, WithoutTyped
  <2> QED BY <1>4, <2>2 DEF PutBack, PassReleases
<1>5. ASSUME NEW p \in Pass, PassMarksPrepared(p) PROVE TypeOK'
  <2>1. row' \in [Finding -> RowType]
    <3>1. pass[p].draft \in DraftId \cup {NoDraft}
      BY DEF Worker
    <3> QED BY <1>5, <3>1, RowsTyped DEF PassMarksPrepared
  <2>2. pass' \in [Pass -> Worker]
    BY <1>5, PassTyped, WithoutTyped DEF PassMarksPrepared
  <2> QED BY <1>5, <2>1, <2>2 DEF PassMarksPrepared
<1>6. ASSUME NEW p \in Pass, Generate(p) PROVE TypeOK'
  <2>1. PICK f \in pass[p].mine, d \in DraftId :
          /\ DraftFor(f, d, "pipeline")
          /\ Step(p, [pass[p] EXCEPT !.item = f, !.draft = d, !.phase = "submit"])
    BY <1>6 DEF Generate
  <2>2. f \in Finding /\ [pass[p] EXCEPT !.item = f, !.draft = d, !.phase = "submit"] \in Worker
    BY DEF Worker, Phase
  <2> QED BY <1>6, <2>1, <2>2, PassTyped, DraftForTyped DEF Generate
<1>7. ASSUME NEW p \in Pass, GenerateFails(p) PROVE TypeOK'
  <2>1. PICK f \in pass[p].mine, outage \in BOOLEAN :
          Step(p, [pass[p] EXCEPT !.item = f, !.phase = "release", !.retry = outage])
    BY <1>7 DEF GenerateFails
  <2>2. [pass[p] EXCEPT !.item = f, !.phase = "release", !.retry = outage] \in Worker
    BY DEF Worker, Phase
  <2> QED BY <1>7, <2>1, <2>2, PassTyped DEF GenerateFails
<1>g. ASSUME NEW d \in DraftId, GiveUp(d) PROVE draft' \in [DraftId -> DraftType] /\ left' \subseteq DraftId
  BY <1>g, DraftsTyped DEF GiveUp, Leave
<1>8. ASSUME NEW p \in Pass,
             SubmitDraftForApproval(p) \/ ValidateDraft(p) \/ ValidateFails(p) \/ PassAbandons(p)
      PROVE  TypeOK'
  <2>1. PICK phase \in Phase, retry \in BOOLEAN :
          Step(p, [pass[p] EXCEPT !.phase = phase, !.retry = retry])
    <3>1. pass[p].retry \in BOOLEAN
          /\ \A phase : [pass[p] EXCEPT !.phase = phase] = [pass[p] EXCEPT !.phase = phase, !.retry = pass[p].retry]
      BY DEF Worker
    <3> QED BY <1>8, <3>1 DEF SubmitDraftForApproval, ValidateDraft, ValidateFails, PassAbandons, Phase
  <2>2. [pass[p] EXCEPT !.phase = phase, !.retry = retry] \in Worker
    BY DEF Worker
  <2>3. draft' \in [DraftId -> DraftType] /\ left' \subseteq DraftId
    <3>1. CASE PassAbandons(p)
      <4>1. pass[p].draft \in DraftId
        BY <3>1 DEF PassAbandons, OwnInv, PassOwn
      <4> QED BY <1>g, <3>1, <4>1 DEF PassAbandons
    <3>2. CASE ~PassAbandons(p)
      BY <1>8, <3>2, DraftsTyped DEF SubmitDraftForApproval, ValidateDraft, ValidateFails, Status
    <3> QED BY <3>1, <3>2
  <2> QED BY <1>8, <2>1, <2>2, <2>3, PassTyped
          DEF SubmitDraftForApproval, ValidateDraft, ValidateFails, PassAbandons
<1>9. CASE ClaimForShipping
  <2>1. row' \in [Finding -> RowType]
    BY <1>9, RowsTyped DEF ClaimForShipping, State, ActiveState
  <2>2. ship' \in Worker
    BY <1>9, IdleTyped DEF ClaimForShipping, Worker, Shippable, InState
  <2> QED BY <1>9, <2>1, <2>2 DEF ClaimForShipping
<1>10. CASE ApproveDraft
  <2>1. PICK f \in ship.mine :
          /\ Move(row[f].draft, {"submitted"}, "approved")
          /\ ship' = [ship EXCEPT !.item = f, !.draft = row[f].draft, !.phase = "apply"]
    BY <1>10 DEF ApproveDraft
  <2>2. f \in Finding /\ row[f].draft \in DraftId
    BY DEF PushedHasDraft, Worker
  <2> QED BY <1>10, <2>1, <2>2, DraftsTyped DEF ApproveDraft, Worker, Phase, Status
<1>11. CASE PublishThrows
  <2>1. ship' \in Worker
    <3>1. CASE ship.phase = "apply" /\ \E outage \in BOOLEAN : ship' = [ship EXCEPT !.phase = "abandon", !.retry = outage]
      BY <3>1 DEF Worker, Phase
    <3>2. ASSUME NEW f \in ship.mine, NEW outage \in BOOLEAN,
                 ship' = [ship EXCEPT !.item = f, !.draft = row[f].draft, !.phase = "abandon", !.retry = outage]
          PROVE  ship' \in Worker
      <4>1. f \in Finding /\ row[f].draft \in DraftId
        BY DEF PushedHasDraft, Worker
      <4> QED BY <3>2, <4>1 DEF Worker, Phase
    <3> QED BY <1>11, <3>1, <3>2 DEF PublishThrows
  <2> QED BY <1>11, <2>1 DEF PublishThrows
<1>d. ship.phase \in {"apply", "abandon"} => ship.draft \in DraftId
  BY DEF OwnInv, ShipOwn, ItemIsMine, PushedHasDraft
<1>n. CASE NoRepository
  BY <1>n, <1>d DEF NoRepository, Leave, Worker, Phase
<1>12. CASE Apply
  <2>1. ship.item \in Finding /\ ship.draft \in DraftId
    BY <1>12, <1>d DEF Apply, ItemIsMine, Worker
  <2>2. ship' \in Worker
    <3>1. [ship EXCEPT !.mine = ship.mine \ {ship.item}, !.item = NoFinding, !.draft = NoDraft,
                       !.phase = "next", !.pushed = ship.pushed \cup {ship.item}] \in Worker
      BY <2>1 DEF Worker, Phase
    <3>2. [ship EXCEPT !.phase = "release"] \in Worker
      BY DEF Worker, Phase
    <3> QED BY <1>12, <3>1, <3>2 DEF Apply
  <2>3. draft' \in [DraftId -> DraftType]
    <3>1. [draft[ship.draft] EXCEPT !.status = "pushed", !.error = FALSE] \in DraftType
      BY <2>1 DEF DraftType, Status
    <3>2. \/ UNCHANGED draft
          \/ draft' = [draft EXCEPT ![ship.draft] = [draft[ship.draft] EXCEPT !.status = "pushed", !.error = FALSE]]
      BY <1>12, <2>1 DEF Apply, DraftType
    <3> QED BY <2>1, <3>1, <3>2
  <2> QED BY <1>12, <2>2, <2>3 DEF Apply
<1>13. CASE ApplyFails
  <2>1. draft' \in [DraftId -> DraftType]
    BY <1>13 DEF ApplyFails, DraftType
  <2> QED BY <1>13, <2>1 DEF ApplyFails, Worker, Phase
<1>14. CASE ShipAbandons
  <2>1. draft' \in [DraftId -> DraftType] /\ left' \subseteq DraftId
    BY <1>14, <1>d, <1>g DEF ShipAbandons
  <2> QED BY <1>14, <2>1 DEF ShipAbandons, Worker, Phase
<1>15. CASE ShipReleases
  <2>1. row' \in [Finding -> RowType]
    BY <1>15, RowsTyped DEF ShipReleases
  <2> QED BY <1>15, <2>1 DEF ShipReleases, Worker, Phase
<1>16. CASE Finalize
  <2> DEFINE D == {row[f].draft : f \in ship.pushed}
  <2>1. draft' \in [DraftId -> DraftType]
    <3>1. draft' = [d \in DraftId |-> IF d \in D /\ draft[d].status = "pushed"
                                      THEN [draft[d] EXCEPT !.status = "pr_opened"]
                                      ELSE draft[d]]
      BY <1>16 DEF Finalize
    <3> QED BY <3>1 DEF DraftType, Status
  <2>2. inPr' \subseteq DraftId
    <3>1. D \subseteq DraftId
      BY DEF PushedHasDraft
    <3>2. inPr' = inPr \cup D
      BY <1>16 DEF Finalize
    <3> QED BY <3>1, <3>2
  <2>3. ship' \in Worker
    BY <1>16 DEF Finalize, Worker
  <2> QED BY <1>16, <2>1, <2>2, <2>3 DEF Finalize
<1>17. CASE FinalizeFails
  BY <1>17 DEF FinalizeFails, Worker
<1>18. CASE UndoPush
  <2>1. PICK f \in ship.pushed : ship' = [ship EXCEPT !.item = f, !.draft = row[f].draft, !.phase = "abandon"]
    BY <1>18 DEF UndoPush
  <2>2. f \in Finding /\ row[f].draft \in DraftId
    BY DEF PushedHasDraft, Worker
  <2> QED BY <1>18, <2>1, <2>2 DEF UndoPush, Worker, Phase
<1>19. CASE RecordShipped
  <2>1. row' \in [Finding -> RowType]
    BY <1>19, RowsTyped DEF RecordShipped, MarkShipped, State
  <2> QED BY <1>19, <2>1 DEF RecordShipped, Worker
<1>20. CASE EndShip
  BY <1>20, IdleTyped DEF EndShip
<1>21. CASE PersonGenerates
  <2>1. draft' \in [DraftId -> DraftType]
    BY <1>21, DraftForTyped, QueueAssumption DEF PersonGenerates
  <2> QED BY <1>21, <2>1 DEF PersonGenerates
<1>22. CASE PersonMoves
  <2>1. draft' \in [DraftId -> DraftType]
    BY <1>22, DraftsTyped DEF PersonMoves, Status
  <2> QED BY <1>22, <2>1 DEF PersonMoves
<1>23. CASE PersonApproves
  <2>1. PICK d \in OfPeople, ok \in BOOLEAN :
          /\ draft' = [draft EXCEPT ![d].status = IF ok THEN "pr_opened" ELSE "approved", ![d].error = ~ok]
          /\ inPr' = IF ok THEN inPr \cup {d} ELSE inPr
    BY <1>23 DEF PersonApproves
  <2>2. d \in DraftId
    BY DEF OfPeople
  <2>3. draft' \in [DraftId -> DraftType]
    <3>1. [draft[d] EXCEPT !.status = IF ok THEN "pr_opened" ELSE "approved", !.error = ~ok] \in DraftType
      BY <2>2 DEF DraftType, Status
    <3>2. draft' = [draft EXCEPT ![d] = [draft[d] EXCEPT !.status = IF ok THEN "pr_opened" ELSE "approved",
                                                         !.error = ~ok]]
      BY <2>1, <2>2 DEF DraftType
    <3> QED BY <2>2, <3>1, <3>2
  <2> QED BY <1>23, <2>1, <2>2, <2>3 DEF PersonApproves
<1>24. ASSUME NEW p \in Pass, CrashPass(p) PROVE TypeOK'
  <2>1. crashes' \in Nat
    BY <1>24, QueueAssumption DEF CrashPass
  <2> QED BY <1>24, <2>1, PassTyped, IdleTyped DEF CrashPass
<1>25. CASE CrashShip
  <2>1. crashes' \in Nat
    BY <1>25, QueueAssumption DEF CrashShip
  <2> QED BY <1>25, <2>1, IdleTyped DEF CrashShip
<1>26. CASE UNCHANGED vars
  BY <1>26 DEF vars
<1> QED
  BY <1>1, <1>2, <1>3, <1>4, <1>5, <1>6, <1>7, <1>8, <1>9, <1>10, <1>11, <1>n, <1>12, <1>13, <1>14,
     <1>15, <1>16, <1>17, <1>18, <1>19, <1>20, <1>21, <1>22, <1>23, <1>24, <1>25, <1>26
  DEF Next, PassStep, ShipStep

-----------------------------------------------------------------------------
(* Who has which row.                                                      *)

\* What the invariant says besides the types.
Claims == OneClaimant /\ ClaimIsHeld /\ ShippedHasPr
Hands == ItemIsMine /\ PushedHasDraft

\* Dropping an item leaves the others in hand, and no item at work.
LEMMA WithoutDrops ==
  ASSUME NEW w \in Worker, NEW f
  PROVE  /\ Without(w, f).mine = w.mine \ {f} /\ Without(w, f).phase = "next"
         /\ Without(w, f).pc \in {"idle", w.pc}
<1>1. CASE w.mine = {f}
  BY <1>1 DEF Without, Idle
<1>2. CASE w.mine # {f}
  BY <1>2 DEF Without, Worker
<1> QED BY <1>1, <1>2

\* A pass that goes on with what it has in hand changes no claim.
LEMMA PassGoesOn ==
  ASSUME TypeOK, Claims, Hands, NEW p \in Pass, NEW w, Step(p, w),
         UNCHANGED <<row, ship, inPr, crashes>>,
         w.mine = pass[p].mine,
         w.phase # "next" => w.item \in w.mine,
         w.pc = "enqueue" => w.mine = {}
  PROVE  Claims' /\ Hands'
<1>1. pass'[p] = w /\ \A q \in Pass : q # p => pass'[q] = pass[q]
  BY Typed DEF Step
<1>2. \A q \in Pass : pass'[q].mine = pass[q].mine
  BY <1>1
<1>3. Claims'
  <2>1. OneClaimant' /\ ShippedHasPr'
    BY <1>2 DEF Claims, OneClaimant, ShippedHasPr, InState
  <2>2. (UNION {pass[q].mine : q \in Pass})' = UNION {pass[q].mine : q \in Pass}
    BY <1>2
  <2>3. ClaimIsHeld'
    BY <2>2 DEF Claims, ClaimIsHeld, InState
  <2> QED BY <2>1, <2>3 DEF Claims
<1>4. Hands'
  BY <1>1 DEF Hands, ItemIsMine, PushedHasDraft
<1> QED BY <1>3, <1>4

\* A pass that hands back an item it has in hand, in a state nobody has claimed, changes
\* the claim of that item only.
LEMMA PassHandsBack ==
  ASSUME TypeOK, Claims, Hands, NEW p \in Pass, NEW f \in pass[p].mine,
         Step(p, Without(pass[p], f)),
         row'[f].state \in {"queued", "prepared", "failed"},
         \A g \in Finding : g # f => row'[g] = row[g],
         UNCHANGED <<ship, inPr, crashes>>
  PROVE  Claims' /\ Hands'
<1> DEFINE w == Without(pass[p], f)
<1>0. pass[p] \in Worker /\ f \in Finding
  BY Typed DEF Worker
<1>1. /\ pass'[p].mine = pass[p].mine \ {f} /\ pass'[p].phase = "next"
      /\ pass'[p].pc \in {"idle", pass[p].pc}
      /\ \A q \in Pass : q # p => pass'[q] = pass[q]
  BY <1>0, WithoutDrops, Typed DEF Step
<1>2. /\ row[f].state = "preparing" /\ f \notin InShip
      /\ \A q \in Pass : q # p => f \notin pass[q].mine
  BY DEF Claims, OneClaimant, InShip
<1>3. OneClaimant'
  <2>1. \A q \in Pass : pass'[q].mine \subseteq pass[q].mine \ {f}
    BY <1>1, <1>2
  <2>2. \A q \in Pass : pass[q].mine \subseteq Finding
    BY Typed DEF Worker
  <2>3. \A q \in Pass : \A g \in pass'[q].mine : row'[g].state = "preparing"
    BY <2>1, <2>2 DEF Claims, OneClaimant
  <2>4. \A g \in InShip : g \in Finding /\ row'[g].state = "shipping"
    BY <1>2, Typed DEF Claims, OneClaimant, InShip, Worker
  <2> QED BY <2>1, <2>3, <2>4 DEF Claims, OneClaimant, InShip
<1>4. ClaimIsHeld'
  <2> SUFFICES ASSUME NEW g \in Finding, row'[g].state \in {"preparing", "shipping"}, crashes' = 0
               PROVE  g \in InShip' \cup (UNION {pass[q].mine : q \in Pass})'
    BY Typed DEF ClaimIsHeld, InState, InShip
  <2>1. g # f /\ row'[g] = row[g]
    OBVIOUS
  <2>2. g \in InShip \/ \E q \in Pass : g \in pass[q].mine
    BY <2>1 DEF Claims, ClaimIsHeld, InState, InShip
  <2>3. \A q \in Pass : g \in pass[q].mine => g \in pass'[q].mine
    BY <1>1, <2>1
  <2> QED BY <2>2, <2>3 DEF InShip
<1>5. ShippedHasPr'
  BY DEF Claims, ShippedHasPr, InState
<1>6. ItemIsMine'
  BY <1>1 DEF Hands, ItemIsMine
<1>7. PushedHasDraft'
  BY <1>2, Typed DEF Hands, PushedHasDraft, InShip, Worker
<1> QED BY <1>3, <1>4, <1>5, <1>6, <1>7 DEF Claims, Hands

\* A ship run that goes on with what it has in hand changes no claim.
LEMMA ShipGoesOn ==
  ASSUME TypeOK, Claims, Hands, UNCHANGED <<row, pass, crashes>>,
         inPr \subseteq inPr', InShip' = InShip,
         ship'.phase # "next" => ship'.item \in InShip,
         ship'.pc = "record" => /\ ship'.phase = "next" /\ ship'.mine = {}
                                /\ \A f \in ship'.pushed : row[f].draft \in inPr'
  PROVE  Claims' /\ Hands'
<1>1. Claims'
  BY DEF Claims, OneClaimant, ClaimIsHeld, ShippedHasPr, InState, InShip
<1>2. Hands'
  BY DEF Hands, ItemIsMine, PushedHasDraft, InShip
<1> QED BY <1>1, <1>2

\* The ship run lets go of one row, in a state nobody has claimed.
LEMMA ShipHandsBack ==
  ASSUME TypeOK, Claims, Hands, NEW f \in InShip,
         ship'.mine = ship.mine \ {f}, ship'.pushed = ship.pushed \ {f},
         ship'.phase = "next", ship'.pc = ship.pc,
         row'[f].state \notin {"preparing", "shipping"},
         row'[f].state = "shipped" => row'[f].draft \in inPr,
         \A g \in Finding : g # f => row'[g] = row[g],
         UNCHANGED <<pass, inPr, crashes>>
  PROVE  Claims' /\ Hands'
<1>0. InShip \subseteq Finding /\ \A q \in Pass : pass[q].mine \subseteq Finding
  BY Typed DEF InShip, Worker
<1>1. InShip' = InShip \ {f} /\ \A q \in Pass : f \notin pass[q].mine
  BY DEF Claims, OneClaimant, InShip
<1>2. OneClaimant'
  BY <1>0, <1>1 DEF Claims, OneClaimant, InShip
<1>3. ClaimIsHeld'
  BY <1>0, <1>1 DEF Claims, ClaimIsHeld, InState, InShip
<1>4. ShippedHasPr'
  BY DEF Claims, ShippedHasPr, InState
<1>5. Hands'
  BY <1>0 DEF Hands, ItemIsMine, PushedHasDraft, InShip
<1> QED BY <1>2, <1>3, <1>4, <1>5 DEF Claims

\* A worker's death leaves its rows claimed and nobody else's changed.
LEMMA WorkerDies ==
  ASSUME TypeOK, Claims, Hands, UNCHANGED <<row, inPr>>, crashes' > 0,
         \/ UNCHANGED ship /\ \E p \in Pass : Step(p, Idle)
         \/ UNCHANGED pass /\ ship' = Idle
  PROVE  Claims' /\ Hands'
<1>1. \A q \in Pass : pass'[q] = pass[q] \/ pass'[q] = Idle
  BY Typed DEF Step
<1>2. ship' = ship \/ ship' = Idle
  OBVIOUS
<1>3. Idle.mine = {} /\ Idle.pushed = {} /\ Idle.phase = "next" /\ Idle.pc = "idle"
  BY DEF Idle
<1>4. OneClaimant'
  BY <1>1, <1>2, <1>3 DEF Claims, OneClaimant
<1>5. ClaimIsHeld' /\ ShippedHasPr'
  BY DEF Claims, ClaimIsHeld, ShippedHasPr, InState
<1>6. Hands'
  BY <1>1, <1>2, <1>3 DEF Hands, ItemIsMine, PushedHasDraft
<1> QED BY <1>4, <1>5, <1>6 DEF Claims

\* A claim takes every row of a state and leaves the others alone.
LEMMA PassClaims ==
  ASSUME TypeOK, Claims, Hands, NEW p \in Pass, ClaimForPreparation(p)
  PROVE  Claims' /\ Hands'
<1>1. /\ pass[p].mine = {}
      /\ \A q \in Pass : q # p => pass'[q] = pass[q]
      /\ pass'[p].mine = Claimable /\ pass'[p].phase = "next" /\ pass'[p].pc # "enqueue"
  BY Typed DEF ClaimForPreparation, Step, Idle, Hands, ItemIsMine
<1>2. \A g \in Finding : row'[g] = IF g \in Claimable THEN [row[g] EXCEPT !.state = "preparing"] ELSE row[g]
  BY DEF ClaimForPreparation, SetState
<1>3. \A g \in Finding : /\ g \in Claimable => row[g].state = "queued" /\ row'[g].state = "preparing"
                                              /\ row'[g].draft = row[g].draft
                         /\ g \notin Claimable => row'[g] = row[g]
  BY <1>2, Typed DEF Claimable, InState, RowType
<1>4. Claimable \subseteq Finding /\ \A q \in Pass : pass[q].mine \subseteq Finding
  BY Typed DEF Claimable, InState, Worker
<1>5. InShip \subseteq Finding /\ ship' = ship /\ inPr' = inPr /\ crashes' = crashes
  BY Typed DEF InShip, Worker, ClaimForPreparation
<1>6. \A q \in Pass : pass[q].mine \cap Claimable = {}
  BY <1>3, <1>4 DEF Claims, OneClaimant
<1>7. OneClaimant'
  BY <1>1, <1>3, <1>4, <1>5, <1>6 DEF Claims, OneClaimant, InShip
<1>8. ClaimIsHeld'
  <2> SUFFICES ASSUME NEW g \in Finding, row'[g].state \in {"preparing", "shipping"}, crashes' = 0
               PROVE  g \in InShip' \cup (UNION {pass[q].mine : q \in Pass})'
    BY <1>5, Typed DEF ClaimIsHeld, InState, InShip
  <2>1. CASE g \in Claimable
    BY <1>1, <2>1
  <2>2. CASE g \notin Claimable
    <3>1. g \in InShip \/ \E q \in Pass : g \in pass[q].mine
      BY <1>3, <1>5, <2>2 DEF Claims, ClaimIsHeld, InState, InShip
    <3>2. \A q \in Pass : pass[q].mine \subseteq pass'[q].mine
      BY <1>1
    <3> QED BY <1>5, <3>1, <3>2 DEF InShip
  <2> QED BY <2>1, <2>2
<1>9. ShippedHasPr'
  BY <1>3, <1>5 DEF Claims, ShippedHasPr, InState
<1>10. Hands'
  BY <1>1, <1>3, <1>5 DEF Hands, ItemIsMine, PushedHasDraft, InShip
<1> QED BY <1>7, <1>8, <1>9, <1>10 DEF Claims

\* The ship run claims every row that has a draft to ship.
LEMMA ShipClaims ==
  ASSUME TypeOK, Claims, Hands, ClaimForShipping
  PROVE  Claims' /\ Hands'
<1>1. /\ InShip = {} /\ InShip' = Shippable /\ ship'.mine = Shippable /\ ship'.pushed = {}
      /\ ship'.phase = "next" /\ ship'.pc = "work"
      /\ pass' = pass /\ inPr' = inPr /\ crashes' = crashes
  BY DEF ClaimForShipping, InShip, Idle
<1>2. \A g \in Finding : row'[g] = IF g \in Shippable THEN [row[g] EXCEPT !.state = "shipping"] ELSE row[g]
  BY DEF ClaimForShipping, SetState
<1>3. \A g \in Finding : /\ g \in Shippable => row[g].state = "prepared" /\ row'[g].state = "shipping"
                                              /\ row'[g].draft \in DraftId
                         /\ g \notin Shippable => row'[g] = row[g]
  BY <1>2, Typed DEF Shippable, InState, RowType
<1>4. Shippable \subseteq Finding /\ \A q \in Pass : pass[q].mine \subseteq Finding
  BY Typed DEF Shippable, InState, Worker
<1>5. OneClaimant'
  BY <1>1, <1>3, <1>4 DEF Claims, OneClaimant
<1>6. ClaimIsHeld'
  BY <1>1, <1>3, <1>4 DEF Claims, ClaimIsHeld, InState, InShip
<1>7. ShippedHasPr'
  BY <1>1, <1>3 DEF Claims, ShippedHasPr, InState
<1>8. Hands'
  BY <1>1, <1>3, <1>4 DEF Hands, ItemIsMine, PushedHasDraft
<1> QED BY <1>5, <1>6, <1>7, <1>8 DEF Claims

\* Recording a row touches no other, and gives a row that is out of reach nothing.
LEMMA EnqueueKeeps ==
  ASSUME TypeOK, Claims, Hands, NEW p \in Pass, EnqueuePick(p)
  PROVE  Claims' /\ Hands'
<1>1. PICK f \in pass[p].picks : Enqueue(f) /\ Step(p, [pass[p] EXCEPT !.picks = pass[p].picks \ {f}])
  BY DEF EnqueuePick
<1>2. /\ \A q \in Pass : /\ pass'[q].mine = pass[q].mine /\ pass'[q].phase = pass[q].phase
                          /\ pass'[q].item = pass[q].item /\ pass'[q].pc = pass[q].pc
      /\ ship' = ship /\ inPr' = inPr /\ crashes' = crashes
  BY <1>1, Typed DEF Step, Worker, EnqueuePick
<1>3. \A g \in Finding :
        \/ row'[g] = row[g]
        \/ row[g].state \notin ActiveState /\ row'[g].state = "queued"
  <2>1. CASE row[f].state \in ActiveState
    BY <1>1, <2>1 DEF Enqueue
  <2>2. CASE row[f].state \notin ActiveState
    <3>1. row' = [row EXCEPT ![f] = [state |-> "queued", draft |-> NoDraft]]
      BY <1>1, <2>2 DEF Enqueue
    <3> QED BY <2>2, <3>1, Typed
  <2> QED BY <2>1, <2>2
<1>4. InShip \subseteq Finding /\ \A q \in Pass : pass[q].mine \subseteq Finding
  BY Typed DEF InShip, Worker
<1>5. /\ \A q \in Pass : \A g \in pass[q].mine : row'[g] = row[g]
      /\ \A g \in InShip : row'[g] = row[g]
  BY <1>3, <1>4 DEF Claims, OneClaimant, InShip, ActiveState
<1>6. OneClaimant'
  BY <1>2, <1>5 DEF Claims, OneClaimant, InShip
<1>7. ClaimIsHeld'
  <2>1. (UNION {pass[q].mine : q \in Pass})' = UNION {pass[q].mine : q \in Pass}
    BY <1>2
  <2> QED BY <1>2, <1>3, <2>1 DEF Claims, ClaimIsHeld, InState
<1>8. ShippedHasPr'
  BY <1>2, <1>3 DEF Claims, ShippedHasPr, InState
<1>9. Hands'
  BY <1>2, <1>5 DEF Hands, ItemIsMine, PushedHasDraft, InShip
<1> QED BY <1>6, <1>7, <1>8, <1>9 DEF Claims

\* No step gives a row to two workers, loses one, or records one that is in no pull request.
LEMMA ClaimStep ==
  ASSUME TypeOK, Claims, Hands, [Next]_vars
  PROVE  Claims' /\ Hands'
<1>w. \A p \in Pass : pass[p] \in Worker
  BY Typed
<1>h. \A p \in Pass : /\ pass[p].phase # "next" => pass[p].item \in pass[p].mine
                      /\ pass[p].pc = "enqueue" => pass[p].mine = {}
  BY DEF Hands, ItemIsMine
<1>i. \A p \in Pass : \A f \in pass[p].mine : f \in Finding /\ row[f].state = "preparing"
  BY <1>w DEF Claims, OneClaimant, Worker
<1>1. ASSUME NEW p \in Pass, Select(p) PROVE Claims' /\ Hands'
  <2> DEFINE w == [Idle EXCEPT !.pc = "enqueue", !.picks = {f \in Finding : ~Hidden(f)}]
  <2>1. w.mine = {} /\ pass[p].mine = {} /\ w.phase = "next"
    BY <1>1 DEF Select, Idle
  <2>2. Step(p, w) /\ UNCHANGED <<row, ship, inPr, crashes>>
    BY <1>1 DEF Select
  <2> HIDE DEF w
  <2> QED BY <2>1, <2>2, PassGoesOn
<1>2. ASSUME NEW p \in Pass, PutBack(p) \/ PassReleases(p) PROVE Claims' /\ Hands'
  <2>1. PICK f \in pass[p].mine : (\E retry : ReleaseItem(f, retry)) /\ Step(p, Without(pass[p], f))
    BY <1>2, <1>h DEF PutBack, PassReleases
  <2>2. /\ row'[f].state \in {"queued", "prepared", "failed"}
        /\ \A g \in Finding : g # f => row'[g] = row[g]
    BY <2>1, <1>i, Typed DEF ReleaseItem, RowType
  <2> QED BY <1>2, <2>1, <2>2, PassHandsBack DEF PutBack, PassReleases
<1>3. ASSUME NEW p \in Pass, PassMarksPrepared(p) PROVE Claims' /\ Hands'
  <2> DEFINE f == pass[p].item
  <2>1. f \in pass[p].mine /\ Step(p, Without(pass[p], f))
    BY <1>3, <1>h DEF PassMarksPrepared
  <2>2. /\ row'[f].state \in {"queued", "prepared", "failed"}
        /\ \A g \in Finding : g # f => row'[g] = row[g]
    BY <1>3, <2>1, <1>i, Typed DEF PassMarksPrepared, MarkPrepared, RowType
  <2> QED BY <1>3, <2>1, <2>2, PassHandsBack DEF PassMarksPrepared
<1>4. ASSUME NEW p \in Pass, Generate(p) \/ GenerateFails(p) PROVE Claims' /\ Hands'
  <2>1. PICK f \in pass[p].mine, w \in Worker :
          Step(p, w) /\ w.mine = pass[p].mine /\ w.item = f /\ w.pc = pass[p].pc
    <3>1. CASE Generate(p)
      <4>1. PICK f \in pass[p].mine, d \in DraftId :
              Step(p, [pass[p] EXCEPT !.item = f, !.draft = d, !.phase = "submit"])
        BY <3>1 DEF Generate
      <4>2. [pass[p] EXCEPT !.item = f, !.draft = d, !.phase = "submit"] \in Worker
        BY <1>i, <1>w DEF Worker, Phase
      <4> QED BY <4>1, <4>2, <1>w DEF Worker
    <3>2. CASE GenerateFails(p)
      <4>1. PICK f \in pass[p].mine, outage \in BOOLEAN :
              Step(p, [pass[p] EXCEPT !.item = f, !.phase = "release", !.retry = outage])
        BY <3>2 DEF GenerateFails
      <4>2. [pass[p] EXCEPT !.item = f, !.phase = "release", !.retry = outage] \in Worker
        BY <1>i, <1>w DEF Worker, Phase
      <4> QED BY <4>1, <4>2, <1>w DEF Worker
    <3> QED BY <1>4, <3>1, <3>2
  <2>2. UNCHANGED <<row, ship, inPr, crashes>>
    BY <1>4 DEF Generate, GenerateFails
  <2> QED BY <2>1, <2>2, <1>h, PassGoesOn
<1>5. ASSUME NEW p \in Pass,
             SubmitDraftForApproval(p) \/ ValidateDraft(p) \/ ValidateFails(p) \/ PassAbandons(p)
      PROVE  Claims' /\ Hands'
  <2>1. PICK w \in Worker :
          Step(p, w) /\ w.mine = pass[p].mine /\ w.item = pass[p].item /\ w.pc = pass[p].pc
    <3>1. PICK phase \in Phase, retry \in BOOLEAN :
            Step(p, [pass[p] EXCEPT !.phase = phase, !.retry = retry])
      <4>1. /\ pass[p].retry \in BOOLEAN
            /\ \A phase : [pass[p] EXCEPT !.phase = phase]
                            = [pass[p] EXCEPT !.phase = phase, !.retry = pass[p].retry]
        BY <1>w DEF Worker
      <4> QED BY <1>5, <4>1 DEF SubmitDraftForApproval, ValidateDraft, ValidateFails, PassAbandons, Phase
    <3>2. [pass[p] EXCEPT !.phase = phase, !.retry = retry] \in Worker
      BY <1>w DEF Worker
    <3> QED BY <3>1, <3>2, <1>w DEF Worker
  <2>2. pass[p].phase # "next" /\ UNCHANGED <<row, ship, inPr, crashes>>
    BY <1>5 DEF SubmitDraftForApproval, ValidateDraft, ValidateFails, PassAbandons
  <2> QED BY <2>1, <2>2, <1>h, PassGoesOn
<1>6. ASSUME NEW p \in Pass, CrashPass(p) PROVE Claims' /\ Hands'
  <2>1. crashes' > 0
    BY <1>6, Typed DEF CrashPass
  <2> QED BY <1>6, <2>1, WorkerDies DEF CrashPass
<1>7. CASE CrashShip
  <2>1. crashes' > 0
    BY <1>7, Typed DEF CrashShip
  <2> QED BY <1>7, <2>1, WorkerDies DEF CrashShip
<1>8. CASE ApproveDraft \/ PublishThrows \/ NoRepository \/ Apply \/ ApplyFails \/ ShipAbandons
           \/ FinalizeFails \/ UndoPush
  <2> DEFINE Good == InShip' = InShip /\ ship'.pc # "record" /\ (ship'.phase # "next" => ship'.item \in InShip)
  <2>1. ASSUME ApproveDraft PROVE Good
    <3>1. PICK f \in ship.mine : ship' = [ship EXCEPT !.item = f, !.draft = row[f].draft, !.phase = "apply"]
      BY <2>1 DEF ApproveDraft
    <3> QED BY <2>1, <3>1, Typed DEF ApproveDraft, InShip, Worker
  <2>2. ASSUME PublishThrows PROVE Good
    <3>1. ASSUME NEW f \in ship.mine, NEW outage \in BOOLEAN,
                 ship' = [ship EXCEPT !.item = f, !.draft = row[f].draft, !.phase = "abandon", !.retry = outage]
          PROVE  Good
      BY <2>2, <3>1, Typed DEF PublishThrows, InShip, Worker
    <3>2. ASSUME NEW outage \in BOOLEAN, ship.phase = "apply",
                 ship' = [ship EXCEPT !.phase = "abandon", !.retry = outage]
          PROVE  Good
      BY <2>2, <3>2, Typed DEF PublishThrows, Hands, ItemIsMine, InShip, Worker
    <3> QED BY <2>2, <3>1, <3>2 DEF PublishThrows
  <2>3. ASSUME Apply PROVE Good
    <3>1. ship.item \in InShip /\ ship.pc # "record"
      BY <2>3 DEF Apply, Hands, ItemIsMine, PushedHasDraft, InShip
    <3>2. ASSUME ship' = [ship EXCEPT !.phase = "release"] PROVE Good
      BY <3>1, <3>2, Typed DEF InShip, Worker
    <3>3. ASSUME ship' = [ship EXCEPT !.mine = ship.mine \ {ship.item}, !.item = NoFinding,
                                      !.draft = NoDraft, !.phase = "next",
                                      !.pushed = ship.pushed \cup {ship.item}]
          PROVE  Good
      BY <3>1, <3>3, Typed DEF InShip, Worker
    <3> QED BY <2>3, <3>2, <3>3, Typed DEF Apply, Worker
  <2>4. ASSUME NoRepository \/ ApplyFails \/ ShipAbandons PROVE Good
    BY <2>4, Typed DEF NoRepository, ApplyFails, ShipAbandons, Hands, ItemIsMine, PushedHasDraft, InShip, Worker
  <2>5. ASSUME FinalizeFails PROVE Good
    BY <2>5, Typed DEF FinalizeFails, InShip, Worker
  <2>6. ASSUME UndoPush PROVE Good
    <3>1. PICK f \in ship.pushed : ship' = [ship EXCEPT !.item = f, !.draft = row[f].draft, !.phase = "abandon"]
      BY <2>6 DEF UndoPush
    <3> QED BY <2>6, <3>1, Typed DEF UndoPush, InShip, Worker
  <2>7. Good
    BY <1>8, <2>1, <2>2, <2>3, <2>4, <2>5, <2>6
  <2>8. UNCHANGED <<row, pass, inPr, crashes>>
    BY <1>8 DEF ApproveDraft, PublishThrows, NoRepository, Apply, ApplyFails, ShipAbandons, FinalizeFails, UndoPush
  <2> QED BY <2>7, <2>8, ShipGoesOn
<1>9. CASE Finalize
  <2>1. /\ InShip' = InShip /\ ship'.phase = "next" /\ ship'.pushed = ship.pushed
        /\ ship'.mine = {} /\ inPr' = inPr \cup {row[f].draft : f \in ship.pushed}
        /\ UNCHANGED <<row, pass, crashes>>
    BY <1>9, Typed DEF Finalize, InShip, Worker
  <2> QED BY <2>1, ShipGoesOn
<1>10. CASE ShipReleases
  <2> DEFINE f == ship.item
  <2>1. f \in InShip /\ f \in Finding
    BY <1>10, Typed DEF ShipReleases, Hands, ItemIsMine, InShip, Worker
  <2>2. row[f].state = "shipping"
    BY <2>1 DEF Claims, OneClaimant, InShip
  <2>3. /\ row'[f].state \in {"queued", "prepared", "failed"}
        /\ \A g \in Finding : g # f => row'[g] = row[g]
    BY <1>10, <2>1, <2>2, Typed DEF ShipReleases, ReleaseItem, RowType
  <2>4. /\ ship'.mine = ship.mine \ {f} /\ ship'.pushed = ship.pushed \ {f}
        /\ ship'.phase = "next" /\ ship'.pc = ship.pc
    BY <1>10, Typed DEF ShipReleases, Worker
  <2>5. UNCHANGED <<pass, inPr, crashes>>
    BY <1>10 DEF ShipReleases
  <2> HIDE DEF f
  <2> QED BY <2>1, <2>3, <2>4, <2>5, ShipHandsBack
<1>11. CASE RecordShipped
  <2>1. PICK f \in ship.pushed : MarkShipped(f) /\ ship' = [ship EXCEPT !.pushed = ship.pushed \ {f}]
    BY <1>11 DEF RecordShipped
  <2>2. /\ f \in InShip /\ f \in Finding /\ row[f].draft \in inPr
        /\ ship.phase = "next" /\ ship.pc = "record" /\ ship.mine = {}
    BY <1>11, <2>1, Typed DEF RecordShipped, Hands, PushedHasDraft, InShip, Worker
  <2>3. /\ row'[f].state = "shipped" /\ row'[f].draft = row[f].draft
        /\ \A g \in Finding : g # f => row'[g] = row[g]
    BY <2>1, <2>2, Typed DEF MarkShipped, SetState, RowType
  <2>4. /\ ship'.mine = ship.mine \ {f} /\ ship'.pushed = ship.pushed \ {f}
        /\ ship'.phase = "next" /\ ship'.pc = "record"
    BY <2>1, <2>2, Typed DEF Worker
  <2>5. UNCHANGED <<pass, inPr, crashes>>
    BY <1>11 DEF RecordShipped
  <2> QED BY <2>2, <2>3, <2>4, <2>5, ShipHandsBack
<1>12. CASE EndShip
  <2>1. ship' = Idle /\ InShip = {} /\ InShip' = {} /\ UNCHANGED <<row, pass, inPr, crashes>>
    BY <1>12 DEF EndShip, InShip, Idle
  <2> QED BY <2>1, ShipGoesOn DEF Idle
<1>13. CASE PersonGenerates \/ PersonMoves \/ PersonApproves
  <2>1. inPr \subseteq inPr' /\ UNCHANGED <<row, pass, ship, crashes>>
    BY <1>13 DEF PersonGenerates, PersonMoves, PersonApproves
  <2>2. /\ ship.phase # "next" => ship.item \in InShip
        /\ ship.pc = "record" => ship.phase = "next" /\ ship.mine = {} /\ \A f \in ship.pushed : row[f].draft \in inPr
    BY DEF Hands, ItemIsMine, PushedHasDraft, InShip
  <2> QED BY <2>1, <2>2, ShipGoesOn DEF InShip
<1>14. CASE UNCHANGED vars
  <2>1. ship.phase # "next" => ship.item \in InShip
    BY DEF Hands, ItemIsMine, InShip
  <2>2. ship.pc = "record" => ship.phase = "next" /\ ship.mine = {} /\ \A f \in ship.pushed : row[f].draft \in inPr
    BY DEF Hands, PushedHasDraft
  <2> QED BY <1>14, <2>1, <2>2, ShipGoesOn DEF vars, InShip
<1> QED
  BY <1>1, <1>2, <1>3, <1>4, <1>5, <1>6, <1>7, <1>8, <1>9, <1>10, <1>11, <1>12, <1>13, <1>14,
     EnqueueKeeps, PassClaims, ShipClaims
  DEF Next, PassStep, ShipStep

-----------------------------------------------------------------------------
(* Whose open pull request a lane may give up.                             *)

\* What may happen to a draft people do not work on: it is not opened, hides nothing it did
\* not hide, and gets no further with an error ...
Eases(d) ==
  /\ draft'[d].finding = draft[d].finding
  /\ draft'[d].status = "none" => draft[d].status = "none"
  /\ draft[d].finding \notin People =>
       /\ draft'[d].status = "pr_opened" => draft[d].status = "pr_opened"
       /\ draft'[d].status \in Unfailed /\ draft'[d].error =>
            draft[d].status \in Unfailed /\ draft[d].error
       /\ draft'[d].status # "abandoned" /\ ~draft'[d].error =>
            draft[d].status # "abandoned" /\ ~draft[d].error

\* ... or it is made, by a person or while no pass has anything to enqueue.
Begins(d) ==
  /\ draft[d].status = "none" /\ draft'[d].status = "draft" /\ ~draft'[d].error
  /\ draft'[d].finding \in Finding
  /\ OnePass => draft'[d].finding \in People \/ \A p \in Pass : pass'[p].picks = {}

\* The other drafts get no error.
NoNewError ==
  \A d \in DraftId : draft[d].finding \notin People /\ draft'[d].error => draft[d].error

\* An UPDATE of a status eases every draft, unless it opens one or takes up a failed one.
LEMMA MovesEase ==
  ASSUME TypeOK, NEW d,
         \/ UNCHANGED draft
         \/ GiveUp(d)
         \/ Move(d, {"draft"}, "submitted")
         \/ Move(d, {"submitted"}, "approved")
         \/ /\ draft[d].status = "approved" /\ (draft[d].finding \notin People => ~draft[d].error)
            /\ draft' = [draft EXCEPT ![d].status = "pushed", ![d].error = FALSE]
  PROVE  NoNewError /\ \A e \in DraftId : Eases(e)
<1> SUFFICES ASSUME NEW e \in DraftId PROVE (draft'[e].error => draft[e].error) /\ Eases(e)
  BY DEF NoNewError
<1>1. CASE draft'[e] = draft[e]
  BY <1>1 DEF Eases
<1>2. CASE draft'[e] # draft[e]
  <2>1. /\ e = d
        /\ \/ draft' = [draft EXCEPT ![e].status = "abandoned"]
           \/ draft[e].status = "draft" /\ draft' = [draft EXCEPT ![e].status = "submitted"]
           \/ draft[e].status = "submitted" /\ draft' = [draft EXCEPT ![e].status = "approved"]
           \/ /\ draft' = [draft EXCEPT ![e].status = "pushed", ![e].error = FALSE]
              /\ draft[e].status = "approved" /\ (draft[e].finding \notin People => ~draft[e].error)
    BY <1>2, Typed DEF Move, GiveUp, MarkDraftAbandoned
  <2>2. /\ draft'[e].finding = draft[e].finding /\ (draft'[e].error => draft[e].error)
        /\ \/ draft'[e].status = "abandoned"
           \/ draft[e].status = "draft" /\ draft'[e].status = "submitted" /\ draft'[e].error = draft[e].error
           \/ draft[e].status = "submitted" /\ draft'[e].status = "approved" /\ draft'[e].error = draft[e].error
           \/ /\ draft'[e].status = "pushed"
              /\ draft[e].status = "approved" /\ (draft[e].finding \notin People => ~draft[e].error)
    BY <2>1, Typed DEF DraftType
  <2> QED BY <2>2 DEF Eases, Unfailed
<1> QED BY <1>1, <1>2

\* Making a draft begins it and leaves the others alone.
LEMMA BirthBegins ==
  ASSUME TypeOK, NEW f \in Finding, NEW d \in DraftId, NEW by \in {"pipeline", "person"},
         DraftFor(f, d, by),
         OnePass => f \in People \/ \A p \in Pass : pass'[p].picks = {}
  PROVE  NoNewError /\ \A e \in DraftId : Eases(e) \/ Begins(e)
<1>1. CASE UNCHANGED draft
  BY <1>1, MovesEase
<1>2. CASE ~UNCHANGED draft
  <2>1. /\ draft[d].status = "none"
        /\ draft' = [draft EXCEPT ![d] = [finding |-> f, status |-> "draft", error |-> FALSE, by |-> by]]
    BY <1>2 DEF DraftFor
  <2>2. /\ draft'[d].finding = f /\ draft'[d].status = "draft" /\ ~draft'[d].error
        /\ \A e \in DraftId : e # d => draft'[e] = draft[e]
    BY <2>1, Typed
  <2>3. Begins(d)
    BY <2>1, <2>2 DEF Begins
  <2>4. \A e \in DraftId : e # d => Eases(e)
    BY <2>2 DEF Eases
  <2> QED BY <2>2, <2>3, <2>4 DEF NoNewError
<1> QED BY <1>1, <1>2

\* As drafts ease or begin, nothing is opened, a draft keeps its finding, and the drafts stay
\* in order.
LEMMA EaseOpensNothing ==
  ASSUME OwnInv, \A d \in DraftId : Eases(d) \/ Begins(d)
  PROVE  /\ \A f : Unopened(f) => Unopened(f)'
         /\ \A f \in Finding : \A d \in DraftId : draft[d].finding = f => draft'[d].finding = f
         /\ \A d \in DraftId : DraftOwn(d)'
<1>1. ASSUME NEW f, Unopened(f) PROVE Unopened(f)'
  BY <1>1 DEF Unopened, Eases, Begins
<1>2. ASSUME NEW f \in Finding, NEW d \in DraftId, draft[d].finding = f PROVE draft'[d].finding = f
  BY <1>2, QueueAssumption DEF Eases, Begins, OwnInv, DraftOwn
<1>3. ASSUME NEW d \in DraftId PROVE DraftOwn(d)'
  <2>1. CASE Eases(d)
    BY <2>1 DEF Eases, OwnInv, DraftOwn
  <2>2. CASE Begins(d)
    BY <2>2, QueueAssumption DEF Begins, DraftOwn
  <2> QED BY <2>1, <2>2
<1> QED BY <1>1, <1>2, <1>3

\* What a pass is yet to enqueue stays free.
LEMMA PicksStayFree ==
  ASSUME OnePass, TypeOK, \A d \in DraftId : Eases(d) \/ Begins(d),
         NEW p \in Pass, NEW f \in pass'[p].picks \ People, ~Hidden(f)
  PROVE  ~Hidden(f)'
<1> SUFFICES ASSUME NEW d \in DraftId, draft'[d].finding = f, draft'[d].status # "abandoned",
                    ~draft'[d].error
             PROVE  FALSE
  BY DEF Hidden, Live
<1>1. Eases(d)
  BY DEF Begins
<1> QED BY <1>1 DEF Eases, Hidden, Live

\* Then rows, passes and a ship run that stay as they are stay in order.
LEMMA OwnStays ==
  ASSUME TypeOK, Claims, Hands, OwnInv, \A d \in DraftId : Eases(d) \/ Begins(d),
         \A f \in Finding : row'[f] = row[f] \/ RowOwn(f)',
         \A p \in Pass : pass'[p] = pass[p] \/ PassOwn(pass[p])',
         \/ ship' = ship /\ NoNewError /\ \A f \in InShip : row'[f] = row[f]
         \/ ShipOwn'
  PROVE  OwnInv'
<1>1. ASSUME NEW f \in Finding, row'[f] = row[f] PROVE RowOwn(f)'
  <2>1. row[f].draft # NoDraft => row[f].draft \in DraftId
    BY Typed DEF RowType
  <2> QED BY <1>1, <2>1, EaseOpensNothing DEF OwnInv, RowOwn
<1>2. ASSUME NEW p \in Pass, pass'[p] = pass[p] PROVE PassOwn(pass[p])'
  <2>1. PICK w \in Worker : w = pass[p]
    BY Typed
  <2>2. PassOwn(w) /\ (w.phase # "next" => w.item \in Finding)
    BY <2>1, Typed DEF OwnInv, Hands, ItemIsMine, Worker
  <2>3. OnePass => \A f \in w.picks \ People : ~Hidden(f)'
    BY <1>2, <2>1, <2>2, PicksStayFree DEF PassOwn
  <2>4. PassOwn(w)'
    BY <2>2, <2>3, EaseOpensNothing DEF PassOwn
  <2> QED BY <1>2, <2>1, <2>4 DEF PassOwn
<1>3. ASSUME ship' = ship, NoNewError, \A f \in InShip : row'[f] = row[f] PROVE ShipOwn'
  <2>1. ship.phase # "next" => ship.item \in InShip
    BY DEF Hands, ItemIsMine, InShip
  <2>2. \A f \in InShip : row[f].draft \in DraftId
    BY DEF Hands, PushedHasDraft, InShip
  <2>3. InShip' = InShip
    BY <1>3 DEF InShip
  <2>4. ship.phase = "apply" => /\ row'[ship.item] = row[ship.item]
                                /\ ship.draft \in DraftId /\ draft[ship.draft].finding = ship.item
    <3>1. \A f \in InShip : f \in Finding /\ draft[row[f].draft].finding = f
      BY <2>2, Typed DEF OwnInv, RowOwn, DraftId, NoDraft, InShip, Worker
    <3> QED BY <1>3, <2>1, <2>2, <3>1 DEF OwnInv, ShipOwn
  <2> QED BY <1>3, <2>1, <2>3, <2>4, EaseOpensNothing DEF OwnInv, ShipOwn, NoNewError
<1> QED BY <1>1, <1>2, <1>3, EaseOpensNothing DEF OwnInv

\* The same for a step of one pass.
LEMMA PassOwnStays ==
  ASSUME TypeOK, Claims, Hands, OwnInv, NEW p \in Pass, NEW w, Step(p, w), PassOwn(w)',
         NoNewError, \A d \in DraftId : Eases(d) \/ Begins(d), ship' = ship,
         \A f \in Finding : row'[f] = row[f] \/ (row[f].state # "shipping" /\ RowOwn(f)')
  PROVE  OwnInv'
<1>1. pass'[p] = w /\ \A q \in Pass : q # p => pass'[q] = pass[q]
  BY Typed DEF Step
<1>2. PassOwn(pass[p])'
  BY <1>1 DEF PassOwn
<1>3. \A f \in InShip : f \in Finding /\ row[f].state = "shipping"
  BY Typed DEF Claims, OneClaimant, InShip, Worker
<1> QED BY <1>1, <1>2, <1>3, OwnStays

\* A pass that touches no row.
LEMMA PassOwnGoesOn ==
  ASSUME TypeOK, Claims, Hands, OwnInv, NEW p \in Pass, NEW w, Step(p, w), PassOwn(w)',
         NoNewError, \A d \in DraftId : Eases(d), UNCHANGED <<row, ship>>
  PROVE  OwnInv'
<1>1. \A d \in DraftId : Eases(d) \/ Begins(d)
  OBVIOUS
<1>2. \A f \in Finding : row'[f] = row[f] \/ (row[f].state # "shipping" /\ RowOwn(f)')
  OBVIOUS
<1> QED BY <1>1, <1>2, PassOwnStays

\* A pass at work on an item has nothing left to enqueue; when it is done with one, neither.
LEMMA AtWork ==
  ASSUME TypeOK, Hands, OwnInv, NEW p \in Pass, pass[p].pc # "enqueue" \/ pass[p].phase # "next"
  PROVE  /\ pass[p].picks = {} /\ pass[p].pc # "enqueue"
         /\ \A f, w : w = Without(pass[p], f) => PassOwn(w)'
<1>1. pass[p].pc # "enqueue" /\ pass[p].picks = {}
  BY DEF Hands, ItemIsMine, OwnInv, PassOwn
<1>2. ASSUME NEW f, NEW w, w = Without(pass[p], f) PROVE w.picks = {} /\ w.phase = "next"
  BY <1>1, <1>2, Typed DEF Without, Idle, Worker
<1>3. \A w : w.picks = {} /\ w.phase = "next" => PassOwn(w)'
  BY DEF PassOwn
<1> QED BY <1>1, <1>2, <1>3

\* The steps of a pass, its claims and its end.  Only a draft made by another pass could put
\* a stop to a finding it selected.
LEMMA PassesOwn ==
  ASSUME TypeOK, Claims, Hands, OwnInv, NEW p \in Pass,
         Select(p) \/ PassStep(p) \/ CrashPass(p)
  PROVE  OwnInv'
<1>w. pass[p] \in Worker
  BY Typed
<1>u. UNCHANGED draft => NoNewError /\ \A d \in DraftId : Eases(d)
  BY MovesEase
<1>m. ASSUME NEW f \in pass[p].mine
      PROVE  f \in Finding /\ row[f].state = "preparing" /\ Unopened(f)
  BY <1>w DEF Claims, OneClaimant, OwnInv, RowOwn, Worker
<1>1. CASE Select(p)
  <2>1. PICK w : w = [Idle EXCEPT !.pc = "enqueue", !.picks = {f \in Finding : ~Hidden(f)}]
    OBVIOUS
  <2>2. Step(p, w) /\ w.phase = "next" /\ w.pc = "enqueue" /\ \A f \in w.picks : ~Hidden(f)
    BY <1>1, <2>1 DEF Select, Idle
  <2>3. UNCHANGED <<draft, row, ship>>
    BY <1>1 DEF Select
  <2>4. \A f : Hidden(f)' = Hidden(f)
    BY <2>3 DEF Hidden, Live
  <2>5. PassOwn(w)'
    BY <2>2, <2>4 DEF PassOwn
  <2> QED BY <1>u, <2>2, <2>3, <2>5, PassOwnGoesOn
<1>2. CASE CrashPass(p)
  <2>1. PassOwn(Idle)'
    BY DEF PassOwn, Idle
  <2>2. Step(p, Idle) /\ UNCHANGED <<draft, row, ship>>
    BY <1>2 DEF CrashPass
  <2> QED BY <1>u, <2>1, <2>2, PassOwnGoesOn
<1>3. CASE EnqueuePick(p)
  <2>1. PICK f \in pass[p].picks : Enqueue(f) /\ Step(p, [pass[p] EXCEPT !.picks = pass[p].picks \ {f}])
    BY <1>3 DEF EnqueuePick
  <2>2. PICK w : w = [pass[p] EXCEPT !.picks = pass[p].picks \ {f}]
    OBVIOUS
  <2>3. /\ Step(p, w) /\ w.picks \subseteq pass[p].picks
        /\ w.phase = pass[p].phase /\ w.pc = pass[p].pc
    BY <1>w, <2>1, <2>2 DEF Worker
  <2>4. w.phase = "next" /\ w.pc = "enqueue" /\ UNCHANGED <<draft, ship>>
    BY <1>3, <2>3 DEF EnqueuePick, Hands, ItemIsMine
  <2>5. OnePass => \A g \in w.picks \ People : ~Hidden(g)'
    BY <2>3, <2>4 DEF OwnInv, PassOwn, Hidden, Live
  <2>6. PassOwn(w)'
    BY <2>4, <2>5 DEF PassOwn
  <2>7. Unopened(f)
    <3> SUFFICES ASSUME OnePass, f \notin People, NEW d \in DraftId, draft[d].finding = f,
                        draft[d].status = "pr_opened"
                 PROVE  FALSE
      BY DEF Unopened
    <3>1. ~draft[d].error
      BY DEF OwnInv, DraftOwn, Unfailed
    <3> QED BY <3>1 DEF OwnInv, PassOwn, Hidden, Live
  <2>8. ASSUME NEW g \in Finding, row'[g] # row[g] PROVE row[g].state # "shipping" /\ RowOwn(g)'
    <3>1. g = f /\ row[g].state \notin ActiveState /\ row'[g] = [state |-> "queued", draft |-> NoDraft]
      BY <2>1, <2>8, Typed DEF Enqueue
    <3> QED BY <2>4, <2>7, <3>1 DEF RowOwn, Unopened, ActiveState
  <2> QED BY <1>u, <2>3, <2>4, <2>6, <2>8, PassOwnStays
<1>4. CASE ClaimForPreparation(p)
  <2>1. PICK w : /\ Step(p, w) /\ w.phase = "next" /\ w.picks = {}
    <3>1. /\ Idle.phase = "next" /\ Idle.picks = {}
          /\ \A F : [Idle EXCEPT !.pc = "work", !.mine = F].phase = "next"
          /\ \A F : [Idle EXCEPT !.pc = "work", !.mine = F].picks = {}
      BY DEF Idle
    <3>2. CASE Claimable = {}
      BY <1>4, <3>1, <3>2 DEF ClaimForPreparation
    <3>3. CASE Claimable # {}
      BY <1>4, <3>1, <3>3 DEF ClaimForPreparation
    <3> QED BY <3>2, <3>3
  <2>2. PassOwn(w)' /\ UNCHANGED <<draft, ship>>
    BY <1>4, <2>1 DEF PassOwn, ClaimForPreparation
  <2>3. ASSUME NEW g \in Finding, row'[g] # row[g] PROVE row[g].state # "shipping" /\ RowOwn(g)'
    <3>1. row[g].state = "queued" /\ row'[g] = [row[g] EXCEPT !.state = "preparing"]
      BY <1>4, <2>3 DEF ClaimForPreparation, SetState, Claimable, InState
    <3>2. row'[g].draft = row[g].draft
      BY <3>1, Typed DEF RowType
    <3> QED BY <2>2, <3>1, <3>2 DEF RowOwn, OwnInv, Unopened
  <2> QED BY <1>u, <2>1, <2>2, <2>3, PassOwnStays
<1>d. ASSUME NEW f \in pass[p].mine, Step(p, Without(pass[p], f)), UNCHANGED <<draft, ship>>,
             pass[p].pc # "enqueue" \/ pass[p].phase # "next",
             \/ \E retryable : ReleaseItem(f, retryable)
             \/ \E d \in DraftId : MarkPrepared(f, d) /\ draft[d].finding = f
      PROVE  OwnInv'
  <2>0. PICK w : w = Without(pass[p], f)
    OBVIOUS
  <2>1. PassOwn(w)' /\ Step(p, w)
    BY <1>d, <2>0, AtWork
  <2>2. /\ \A g \in Finding : g # f => row'[g] = row[g]
        /\ \/ row'[f].draft = row[f].draft
           \/ draft[row'[f].draft].finding = f
    BY <1>d, <1>m, Typed DEF ReleaseItem, MarkPrepared, RowType
  <2>3. RowOwn(f)'
    BY <1>d, <1>m, <2>2 DEF OwnInv, RowOwn, Unopened
  <2> QED BY <1>d, <1>m, <1>u, <2>1, <2>2, <2>3, PassOwnStays
<1>5. CASE PutBack(p)
  BY <1>5, <1>d DEF PutBack
<1>6. CASE PassReleases(p) \/ PassMarksPrepared(p)
  <2>1. PICK f : f = pass[p].item
    OBVIOUS
  <2>2. f \in pass[p].mine
    BY <1>6, <2>1 DEF PassReleases, PassMarksPrepared, Hands, ItemIsMine
  <2>3. CASE PassReleases(p)
    BY <1>d, <2>1, <2>2, <2>3 DEF PassReleases
  <2>4. CASE PassMarksPrepared(p)
    <3>1. PICK d : d = pass[p].draft
      OBVIOUS
    <3>2. d \in DraftId /\ draft[d].finding = f
      BY <2>1, <2>4, <3>1 DEF PassMarksPrepared, OwnInv, PassOwn
    <3> QED BY <1>d, <2>1, <2>2, <2>4, <3>1, <3>2 DEF PassMarksPrepared
  <2> QED BY <1>6, <2>3, <2>4
<1>7. CASE Generate(p)
  <2>1. PICK f \in pass[p].mine, d \in DraftId :
          /\ DraftFor(f, d, "pipeline")
          /\ Step(p, [pass[p] EXCEPT !.item = f, !.draft = d, !.phase = "submit"])
    BY <1>7 DEF Generate
  <2>2. PICK w : w = [pass[p] EXCEPT !.item = f, !.draft = d, !.phase = "submit"]
    OBVIOUS
  <2>3. pass[p].picks = {} /\ pass[p].pc # "enqueue"
    BY <1>7, AtWork DEF Generate
  <2>4. Step(p, w) /\ w.item = f /\ w.draft = d /\ w.picks = {}
    BY <1>w, <2>1, <2>2, <2>3 DEF Worker
  <2>5. OnePass => \A q \in Pass : pass'[q].picks = {}
    BY <2>4, Typed DEF OnePass, Step
  <2>6. NoNewError /\ \A e \in DraftId : Eases(e) \/ Begins(e)
    BY <1>m, <2>1, <2>5, BirthBegins
  <2>7. draft'[d].finding = f
    BY <1>m, <2>1, Typed DEF DraftFor, Live
  <2>8. PassOwn(w)'
    BY <2>4, <2>7 DEF PassOwn
  <2>9. ship' = ship /\ \A g \in Finding : row'[g] = row[g]
    BY <1>7 DEF Generate
  <2> QED BY <2>4, <2>6, <2>8, <2>9, PassOwnStays
<1>8. CASE GenerateFails(p)
  <2>1. PICK f \in pass[p].mine, outage \in BOOLEAN :
          Step(p, [pass[p] EXCEPT !.item = f, !.phase = "release", !.retry = outage])
    BY <1>8 DEF GenerateFails
  <2>2. PICK w : w = [pass[p] EXCEPT !.item = f, !.phase = "release", !.retry = outage]
    OBVIOUS
  <2>3. pass[p].picks = {}
    BY <1>8, AtWork DEF GenerateFails
  <2>4. Step(p, w) /\ w.phase = "release" /\ w.picks = {}
    BY <1>w, <2>1, <2>2, <2>3 DEF Worker
  <2>5. PassOwn(w)'
    BY <2>4 DEF PassOwn
  <2>6. UNCHANGED <<draft, row, ship>>
    BY <1>8 DEF GenerateFails
  <2> QED BY <1>u, <2>4, <2>5, <2>6, PassOwnGoesOn
<1>9. CASE SubmitDraftForApproval(p) \/ ValidateDraft(p) \/ ValidateFails(p) \/ PassAbandons(p)
  <2>1. pass[p].phase \in {"submit", "validate", "abandon"} /\ UNCHANGED <<row, ship>>
    BY <1>9 DEF SubmitDraftForApproval, ValidateDraft, ValidateFails, PassAbandons
  <2>2. PICK x, d : x = pass[p].item /\ d = pass[p].draft
    OBVIOUS
  <2>3. x \in Finding /\ d \in DraftId /\ draft[d].finding = x /\ pass[p].picks = {}
    BY <1>w, <2>1, <2>2, AtWork DEF OwnInv, PassOwn, Hands, ItemIsMine, Worker
  <2>4. NoNewError /\ \A e \in DraftId : Eases(e)
    BY <1>9, MovesEase DEF SubmitDraftForApproval, ValidateDraft, ValidateFails, PassAbandons
  <2>5. PICK w : Step(p, w) /\ w.item = x /\ w.draft = d /\ w.picks = {}
    <3>1. ASSUME NEW phase, NEW w, w = [pass[p] EXCEPT !.phase = phase]
          PROVE  w.item = x /\ w.draft = d /\ w.picks = {}
      BY <1>w, <2>2, <2>3, <3>1 DEF Worker
    <3>2. ASSUME NEW w, w = [pass[p] EXCEPT !.phase = "release", !.retry = TRUE]
          PROVE  w.item = x /\ w.draft = d /\ w.picks = {}
      BY <1>w, <2>2, <2>3, <3>2 DEF Worker
    <3>3. \/ \E phase : Step(p, [pass[p] EXCEPT !.phase = phase])
          \/ Step(p, [pass[p] EXCEPT !.phase = "release", !.retry = TRUE])
      BY <1>9 DEF SubmitDraftForApproval, ValidateDraft, ValidateFails, PassAbandons
    <3> QED BY <3>1, <3>2, <3>3
  <2>6. draft'[d].finding = x
    BY <2>3, <2>4 DEF Eases
  <2>7. PassOwn(w)'
    BY <2>3, <2>5, <2>6 DEF PassOwn
  <2> QED BY <2>1, <2>4, <2>5, <2>7, PassOwnGoesOn
<1> QED BY <1>1, <1>2, <1>3, <1>4, <1>5, <1>6, <1>7, <1>8, <1>9 DEF PassStep

\* The same for a step of the ship run.
LEMMA ShipOwnStays ==
  ASSUME TypeOK, Claims, Hands, OwnInv, \A d \in DraftId : Eases(d), pass' = pass, ShipOwn',
         \A f \in Finding : row'[f] = row[f] \/ RowOwn(f)'
  PROVE  OwnInv'
<1>1. (\A d \in DraftId : Eases(d) \/ Begins(d)) /\ \A p \in Pass : pass'[p] = pass[p]
  OBVIOUS
<1> QED BY <1>1, OwnStays

\* The steps of the ship run, its claim and its end.  It opens drafts of the rows in hand
\* only, and is done with those from then on.
LEMMA ShipRunOwn ==
  ASSUME TypeOK, Claims, Hands, OwnInv, ClaimForShipping \/ ShipStep \/ CrashShip
  PROVE  OwnInv'
<1>w. ship \in Worker
  BY Typed
<1>u. UNCHANGED draft => \A d \in DraftId : Eases(d)
  BY MovesEase
<1>h. ASSUME NEW f \in InShip
      PROVE  /\ f \in Finding /\ row[f].state = "shipping" /\ row[f].draft \in DraftId
             /\ draft[row[f].draft].finding = f
  <2>1. f \in Finding /\ row[f].state = "shipping" /\ row[f].draft \in DraftId
    BY <1>w DEF Claims, OneClaimant, Hands, PushedHasDraft, InShip, Worker
  <2> QED BY <2>1 DEF OwnInv, RowOwn, DraftId, NoDraft
<1>i. ASSUME ship.phase \in {"apply", "abandon"}
      PROVE  /\ ship.draft \in DraftId /\ draft[ship.draft].finding = ship.item
             /\ ship.item \in InShip /\ ship.pc # "record" /\ ship.draft = row[ship.item].draft
  <2>1. ship.item \in InShip /\ ship.draft = row[ship.item].draft
    BY <1>i DEF Hands, ItemIsMine, OwnInv, ShipOwn, InShip
  <2>2. ship.pc # "record"
    BY <1>i DEF Hands, PushedHasDraft
  <2> QED BY <1>h, <2>1, <2>2
<1>n. ASSUME \A d \in DraftId : Eases(d), pass' = pass, ship'.phase \in {"next", "release"},
             InShip' \subseteq InShip, ship.pc = "record" => ship'.pc = "record" \/ InShip' = {},
             \A f \in Finding : row'[f] = row[f] \/ RowOwn(f)'
      PROVE  OwnInv'
  <2>1. \A f : Unopened(f) => Unopened(f)'
    BY <1>n, EaseOpensNothing
  <2>2. ShipOwn'
    BY <1>n, <2>1 DEF ShipOwn, OwnInv
  <2> QED BY <1>n, <2>2, ShipOwnStays
<1>1. CASE ClaimForShipping
  <2>1. /\ ship'.phase = "next" /\ ship'.pc = "work" /\ InShip' = Shippable
        /\ UNCHANGED <<draft, pass>>
    BY <1>1 DEF ClaimForShipping, Idle, InShip
  <2>2. \A f : Unopened(f) => Unopened(f)'
    BY <1>u, <2>1, EaseOpensNothing
  <2>3. \A f \in Shippable : f \in Finding /\ Unopened(f)
    BY DEF Shippable, InState, OwnInv, RowOwn
  <2>4. ShipOwn'
    BY <2>1, <2>2, <2>3 DEF ShipOwn
  <2>5. ASSUME NEW f \in Finding, row'[f] # row[f] PROVE RowOwn(f)'
    <3>1. row'[f] = [row[f] EXCEPT !.state = "shipping"]
      BY <1>1, <2>5 DEF ClaimForShipping, SetState
    <3>2. row'[f].state = "shipping" /\ row'[f].draft = row[f].draft
      BY <3>1, Typed DEF RowType
    <3> QED BY <2>1, <3>2 DEF RowOwn, OwnInv
  <2> QED BY <1>u, <2>1, <2>4, <2>5, ShipOwnStays
<1>2. CASE ApproveDraft
  <2>1. PICK f \in ship.mine :
          /\ draft[row[f].draft].status = "submitted"
          /\ Move(row[f].draft, {"submitted"}, "approved")
          /\ ship' = [ship EXCEPT !.item = f, !.draft = row[f].draft, !.phase = "apply"]
    BY <1>2 DEF ApproveDraft
  <2>2. /\ ship'.item = f /\ ship'.draft = row[f].draft /\ ship'.pc = ship.pc
        /\ InShip' = InShip /\ f \in InShip /\ UNCHANGED <<row, pass>>
    BY <1>2, <1>w, <2>1 DEF ApproveDraft, InShip, Worker
  <2>3. NoNewError /\ \A d \in DraftId : Eases(d)
    BY <2>1, MovesEase
  <2>4. \A g : Unopened(g) => Unopened(g)'
    BY <2>3, EaseOpensNothing
  <2>5. row[f].draft \in DraftId /\ draft[row[f].draft].finding = f
    BY <1>h, <2>2
  <2>6. f \notin People => ~draft[row[f].draft].error
    BY <2>1, <2>5 DEF OwnInv, DraftOwn, Unfailed
  <2>7. ship.pc # "record"
    BY <1>2 DEF ApproveDraft
  <2>8. ShipOwn'
    BY <2>2, <2>3, <2>4, <2>5, <2>6, <2>7 DEF ShipOwn, OwnInv, NoNewError
  <2> QED BY <2>2, <2>3, <2>8, ShipOwnStays
<1>3. CASE PublishThrows \/ UndoPush
  <2>1. PICK f : /\ ship'.phase = "abandon" /\ ship'.item = f /\ ship'.draft = row[f].draft
                 /\ InShip' = InShip /\ ship'.pc = ship.pc /\ ship.pc # "record"
    <3>1. CASE UndoPush
      <4>1. PICK f \in ship.pushed :
              ship' = [ship EXCEPT !.item = f, !.draft = row[f].draft, !.phase = "abandon"]
        BY <3>1 DEF UndoPush
      <4>2. /\ ship'.phase = "abandon" /\ ship'.item = f /\ ship'.draft = row[f].draft
            /\ InShip' = InShip /\ ship'.pc = ship.pc /\ ship.pc # "record"
        BY <1>w, <3>1, <4>1 DEF UndoPush, InShip, Worker
      <4> QED BY <4>2
    <3>2. ASSUME NEW f \in ship.mine, NEW outage \in BOOLEAN, ship.pc = "work",
                 ship' = [ship EXCEPT !.item = f, !.draft = row[f].draft, !.phase = "abandon", !.retry = outage]
          PROVE  /\ ship'.phase = "abandon" /\ ship'.item = f /\ ship'.draft = row[f].draft
                 /\ InShip' = InShip /\ ship'.pc = ship.pc /\ ship.pc # "record"
      BY <1>w, <3>2 DEF InShip, Worker
    <3>3. ASSUME NEW outage \in BOOLEAN, ship.phase = "apply", ship.pc = "work",
                 ship' = [ship EXCEPT !.phase = "abandon", !.retry = outage]
          PROVE  /\ ship'.phase = "abandon" /\ ship'.item = ship.item
                 /\ ship'.draft = row[ship.item].draft
                 /\ InShip' = InShip /\ ship'.pc = ship.pc /\ ship.pc # "record"
      BY <1>i, <1>w, <3>3 DEF InShip, Worker
    <3> QED BY <1>3, <3>1, <3>2, <3>3 DEF PublishThrows
  <2>2. UNCHANGED <<draft, row, pass>>
    BY <1>3 DEF PublishThrows, UndoPush
  <2>3. \A g : Unopened(g) => Unopened(g)'
    BY <1>u, <2>2, EaseOpensNothing
  <2>4. ShipOwn'
    BY <2>1, <2>2, <2>3 DEF ShipOwn, OwnInv
  <2> QED BY <1>u, <2>2, <2>4, ShipOwnStays
<1>4. CASE NoRepository \/ Apply \/ ShipAbandons
  <2>1. PICK d : d = ship.draft
    OBVIOUS
  <2>2. \A e \in DraftId : Eases(e)
    <3>1. CASE ShipAbandons
      BY <3>1, MovesEase DEF ShipAbandons
    <3>3. CASE NoRepository
      BY <3>3, MovesEase DEF NoRepository
    <3>2. CASE Apply
      <4>1. d \in DraftId /\ (draft[d].finding \notin People => ~draft[d].error)
        BY <1>i, <2>1, <3>2 DEF Apply, OwnInv, ShipOwn
      <4>2. \/ UNCHANGED draft
            \/ /\ draft[d].status = "approved"
               /\ draft' = [draft EXCEPT ![d].status = "pushed", ![d].error = FALSE]
        BY <2>1, <3>2 DEF Apply
      <4> QED BY <4>1, <4>2, MovesEase
    <3> QED BY <1>4, <3>1, <3>2, <3>3
  <2>3. /\ ship'.phase \in {"next", "release"} /\ InShip' \subseteq InShip /\ ship'.pc = ship.pc
        /\ UNCHANGED <<row, pass>>
    <3>1. CASE ship' = [ship EXCEPT !.phase = "release"]
      BY <1>4, <1>w, <3>1 DEF NoRepository, Apply, ShipAbandons, InShip, Worker
    <3>2. CASE ship' # [ship EXCEPT !.phase = "release"]
      <4>1. PICK f : f = ship.item
        OBVIOUS
      <4>2. /\ ship.phase = "apply" /\ UNCHANGED <<row, pass>>
            /\ ship' = [ship EXCEPT !.mine = ship.mine \ {f}, !.pushed = ship.pushed \cup {f},
                                    !.item = NoFinding, !.draft = NoDraft, !.phase = "next"]
        BY <1>4, <3>2, <4>1 DEF NoRepository, Apply, ShipAbandons
      <4>3. ship'.phase = "next" /\ ship'.pc = ship.pc /\ InShip' \subseteq InShip \cup {f}
        BY <1>w, <4>2 DEF InShip, Worker
      <4> QED BY <1>i, <4>1, <4>2, <4>3
    <3> QED BY <3>1, <3>2
  <2> QED BY <1>n, <2>2, <2>3
<1>5. CASE ApplyFails
  <2>1. PICK d : d = ship.draft
    OBVIOUS
  <2>2. ASSUME NEW e \in DraftId PROVE Eases(e)
    <3>1. CASE draft'[e] = draft[e]
      BY <3>1 DEF Eases
    <3>2. CASE draft'[e] # draft[e]
      <4>1. e = d /\ draft[e].status = "approved" /\ draft' = [draft EXCEPT ![e].error = TRUE]
        BY <1>5, <2>1, <3>2, Typed DEF ApplyFails
      <4>2. /\ draft'[e].finding = draft[e].finding /\ draft'[e].status = "approved"
            /\ draft'[e].error
        BY <4>1, Typed DEF DraftType
      <4> QED BY <4>2 DEF Eases, Unfailed
    <3> QED BY <3>1, <3>2
  <2>3. ship'.phase = "release" /\ InShip' = InShip /\ ship'.pc = ship.pc /\ UNCHANGED <<row, pass>>
    BY <1>5, <1>w DEF ApplyFails, InShip, Worker
  <2> QED BY <1>n, <2>2, <2>3
<1>6. CASE ShipReleases
  <2>1. PICK f, retry : f = ship.item /\ retry = ship.retry
    OBVIOUS
  <2>2. f \in InShip /\ ship.pc # "record"
    BY <1>6, <2>1 DEF ShipReleases, Hands, ItemIsMine, PushedHasDraft, InShip
  <2>3. f \in Finding /\ row[f].draft \in DraftId /\ draft[row[f].draft].finding = f /\ Unopened(f)
    BY <1>h, <2>2 DEF OwnInv, ShipOwn
  <2>4. /\ ship'.phase = "next" /\ InShip' \subseteq InShip /\ ship'.pc = ship.pc
        /\ UNCHANGED <<draft, pass>>
    BY <1>6, <1>w DEF ShipReleases, InShip, Worker
  <2>5. row'[f].draft = row[f].draft /\ \A g \in Finding : g # f => row'[g] = row[g]
    BY <1>6, <2>1, <2>3, Typed DEF ShipReleases, ReleaseItem, RowType
  <2>6. RowOwn(f)'
    BY <2>3, <2>4, <2>5 DEF RowOwn, Unopened
  <2> QED BY <1>n, <1>u, <2>2, <2>4, <2>5, <2>6
<1>7. CASE FinalizeFails \/ EndShip \/ CrashShip
  <2>1. /\ ship'.phase = "next" /\ InShip' \subseteq InShip /\ UNCHANGED <<draft, row, pass>>
        /\ ship.pc = "record" => InShip' = {}
    BY <1>7, <1>w DEF FinalizeFails, EndShip, CrashShip, InShip, Idle, Worker
  <2> QED BY <1>n, <1>u, <2>1
<1>8. CASE RecordShipped
  <2>1. PICK f \in ship.pushed : MarkShipped(f) /\ ship' = [ship EXCEPT !.pushed = ship.pushed \ {f}]
    BY <1>8 DEF RecordShipped
  <2>2. /\ ship'.phase = "next" /\ ship'.pc = "record" /\ InShip' \subseteq InShip
        /\ UNCHANGED <<draft, pass>>
    BY <1>8, <1>w, <2>1 DEF RecordShipped, Hands, PushedHasDraft, InShip, Worker
  <2>3. ASSUME NEW g \in Finding, row'[g] # row[g] PROVE RowOwn(g)'
    <3>1. row'[g].state = "shipped" /\ row'[g].draft = row[g].draft
      BY <2>1, <2>3, Typed DEF MarkShipped, SetState, RowType
    <3> QED BY <2>2, <3>1 DEF RowOwn, OwnInv
  <2> QED BY <1>n, <1>u, <2>2, <2>3
<1>9. CASE Finalize
  <2> DEFINE D == {row[f].draft : f \in ship.pushed}
  <2>1. /\ draft' = [d \in DraftId |-> IF d \in D /\ draft[d].status = "pushed"
                                       THEN [draft[d] EXCEPT !.status = "pr_opened"]
                                       ELSE draft[d]]
        /\ ship' = [ship EXCEPT !.pc = "record"] /\ UNCHANGED <<row, pass>> /\ ship.phase = "next"
    BY <1>9 DEF Finalize
  <2>2. \A d \in D : \E f \in InShip : d = row[f].draft
    BY DEF InShip
  <2> HIDE DEF D
  <2>3. \A d \in DraftId :
          \/ draft'[d] = draft[d]
          \/ /\ draft[d].status = "pushed" /\ draft'[d].status = "pr_opened" /\ d \in D
             /\ draft'[d].finding = draft[d].finding /\ draft'[d].error = draft[d].error
    BY <2>1, Typed DEF DraftType
  <2>4. ship'.phase = "next" /\ ship'.pc = "record"
    BY <1>w, <2>1 DEF Worker
  <2>5. ASSUME NEW f \in Finding PROVE RowOwn(f)'
    <3>1. row[f].draft # NoDraft => row[f].draft \in DraftId
      BY Typed DEF RowType
    <3>2. row[f].state \in {"queued", "preparing", "prepared"} => f \notin InShip
      BY <1>h
    <3>3. \A d \in D : draft[d].finding \in InShip
      BY <1>h, <2>2
    <3>4. f \notin InShip /\ Unopened(f) => Unopened(f)'
      BY <2>3, <3>3 DEF Unopened
    <3> QED BY <2>1, <2>3, <3>1, <3>2, <3>4 DEF OwnInv, RowOwn
  <2>6. ASSUME NEW p \in Pass PROVE PassOwn(pass[p])'
    <3>1. PICK w : w = pass[p]
      OBVIOUS
    <3>2. PassOwn(w)
      BY <3>1 DEF OwnInv
    <3>3. \A f : ~Hidden(f) => ~Hidden(f)'
      BY <2>3 DEF Hidden, Live
    <3>4. w.draft \in DraftId => draft'[w.draft].finding = draft[w.draft].finding
      BY <2>3
    <3> QED BY <2>1, <3>1, <3>2, <3>3, <3>4 DEF PassOwn
  <2>7. ASSUME NEW d \in DraftId PROVE DraftOwn(d)'
    BY <2>3 DEF OwnInv, DraftOwn, Unfailed
  <2>8. ShipOwn'
    BY <2>4 DEF ShipOwn
  <2> QED BY <2>5, <2>6, <2>7, <2>8 DEF OwnInv
<1> QED BY <1>1, <1>2, <1>3, <1>4, <1>5, <1>6, <1>7, <1>8, <1>9 DEF ShipStep

\* No step of anybody, people's included.
LEMMA OwnStep ==
  ASSUME TypeOK, Claims, Hands, OwnInv, [Next]_vars
  PROVE  OwnInv'
<1>p. ASSUME NoNewError, \A d \in DraftId : Eases(d) \/ Begins(d), UNCHANGED <<row, pass, ship>>
      PROVE  OwnInv'
  <2>1. /\ \A f \in Finding : row'[f] = row[f]
        /\ \A p \in Pass : pass'[p] = pass[p]
        /\ \A f \in InShip : row'[f] = row[f]
    BY <1>p
  <2> QED BY <1>p, <2>1, OwnStays
<1>1. CASE PersonGenerates
  <2>1. PICK f \in People, d \in DraftId : DraftFor(f, d, "person")
    BY <1>1 DEF PersonGenerates
  <2>2. NoNewError /\ \A e \in DraftId : Eases(e) \/ Begins(e)
    BY <2>1, BirthBegins, QueueAssumption
  <2> QED BY <1>1, <1>p, <2>2 DEF PersonGenerates
<1>2. CASE UNCHANGED vars
  BY <1>2, <1>p, MovesEase DEF vars
<1>3. CASE PersonMoves \/ PersonApproves
  <2>1. PICK d \in DraftId :
          /\ draft[d].finding \in People /\ draft[d].status # "none"
          /\ \/ \E to : to # "none" /\ draft' = [draft EXCEPT ![d].status = to]
             \/ \E to, e : to # "none" /\ draft' = [draft EXCEPT ![d].status = to, ![d].error = e]
    <3>1. CASE PersonMoves
      <4>1. PICK d \in OfPeople : \/ draft[d].status = "draft" /\ Move(d, {"draft"}, "submitted")
                                  \/ draft[d].status = "submitted" /\ Move(d, {"submitted"}, "revision")
                                  \/ draft[d].status = "revision" /\ Move(d, {"revision"}, "draft")
                                  \/ draft[d].status = "submitted" /\ Move(d, {"submitted"}, "approved")
                                  \/ draft[d].status \notin {"none", "abandoned"} /\ MarkDraftAbandoned(d)
        BY <3>1 DEF PersonMoves
      <4>2. /\ draft[d].status # "none"
            /\ \/ draft' = [draft EXCEPT ![d].status = "submitted"]
               \/ draft' = [draft EXCEPT ![d].status = "revision"]
               \/ draft' = [draft EXCEPT ![d].status = "draft"]
               \/ draft' = [draft EXCEPT ![d].status = "approved"]
               \/ draft' = [draft EXCEPT ![d].status = "abandoned"]
        BY <4>1 DEF Move, MarkDraftAbandoned
      <4> QED BY <4>1, <4>2 DEF OfPeople
    <3>2. CASE PersonApproves
      <4>1. PICK d \in OfPeople, ok \in BOOLEAN :
              /\ draft[d].status \in {"submitted", "approved"}
              /\ draft' = [draft EXCEPT ![d].status = IF ok THEN "pr_opened" ELSE "approved", ![d].error = ~ok]
        BY <3>2 DEF PersonApproves
      <4>2. PICK to, e : to = (IF ok THEN "pr_opened" ELSE "approved") /\ e = ~ok
        OBVIOUS
      <4>3. to # "none" /\ draft' = [draft EXCEPT ![d].status = to, ![d].error = e]
        BY <4>1, <4>2
      <4> QED BY <4>1, <4>3 DEF OfPeople
    <3> QED BY <1>3, <3>1, <3>2
  <2>2. /\ draft'[d].finding = draft[d].finding /\ draft'[d].status # "none"
        /\ \A x \in DraftId : x # d => draft'[x] = draft[x]
    <3>1. ASSUME NEW to, to # "none", draft' = [draft EXCEPT ![d].status = to]
          PROVE  /\ draft'[d].finding = draft[d].finding /\ draft'[d].status # "none"
                 /\ \A x \in DraftId : x # d => draft'[x] = draft[x]
      BY <3>1, Typed DEF DraftType
    <3>2. ASSUME NEW to, NEW e, to # "none", draft' = [draft EXCEPT ![d].status = to, ![d].error = e]
          PROVE  /\ draft'[d].finding = draft[d].finding /\ draft'[d].status # "none"
                 /\ \A x \in DraftId : x # d => draft'[x] = draft[x]
      BY <3>2, Typed DEF DraftType
    <3> QED BY <2>1, <3>1, <3>2
  <2>3. \A x \in DraftId : Eases(x)
    BY <2>1, <2>2 DEF Eases
  <2>4. NoNewError
    BY <2>1, <2>2 DEF NoNewError
  <2>5. UNCHANGED <<row, pass, ship>>
    BY <1>3 DEF PersonMoves, PersonApproves
  <2> QED BY <1>p, <2>3, <2>4, <2>5
<1> QED BY <1>1, <1>2, <1>3, PassesOwn, ShipRunOwn DEF Next

\* So what a lane gives up, and no person does, is in no open pull request.
LEMMA LanesKeepOpen ==
  ASSUME OnePass, TypeOK, Claims, Hands, OwnInv, [Next]_vars, NEW d \in DraftId,
         draft[d].status = "pr_opened", draft'[d].status = "abandoned",
         ~UNCHANGED <<pass, ship>>
  PROVE  draft[d].finding \in People
<1>1. ASSUME NEW p \in Pass, PassAbandons(p) PROVE draft[d].finding \in People
  <2>1. d = pass[p].draft
    BY <1>1, Typed DEF PassAbandons, GiveUp, MarkDraftAbandoned
  <2>2. draft[d].finding = pass[p].item /\ pass[p].item \in pass[p].mine
    BY <1>1, <2>1 DEF PassAbandons, OwnInv, PassOwn, Hands, ItemIsMine
  <2>3. row[pass[p].item].state = "preparing" /\ pass[p].item \in Finding
    BY <2>2, Typed DEF Claims, OneClaimant, Worker
  <2> QED BY <2>2, <2>3 DEF OwnInv, RowOwn, Unopened
<1>2. CASE ShipAbandons
  <2>1. d = ship.draft
    BY <1>2, Typed DEF ShipAbandons, GiveUp, MarkDraftAbandoned
  <2>2. ship.item \in InShip /\ ship.draft = row[ship.item].draft /\ ship.pc # "record"
    BY <1>2 DEF ShipAbandons, OwnInv, ShipOwn, Hands, ItemIsMine, PushedHasDraft, InShip
  <2>3. ship.item \in Finding /\ row[ship.item].draft # NoDraft
    BY <2>2, Typed DEF Hands, PushedHasDraft, InShip, Worker, DraftId, NoDraft
  <2> QED BY <2>1, <2>2, <2>3 DEF OwnInv, ShipOwn, RowOwn, Unopened
<1>3. ASSUME UNCHANGED draft PROVE FALSE
  BY <1>3
<1>4. ASSUME NEW e, NEW from, NEW to \in {"submitted", "approved", "pushed"}, Move(e, from, to) PROVE FALSE
  BY <1>4, Typed DEF Move, DraftType
<1>5. ASSUME NEW p \in Pass, Select(p) \/ PassStep(p) \/ CrashPass(p), ~PassAbandons(p) PROVE FALSE
  <2>1. CASE Generate(p)
    <3>1. PICK f \in pass[p].mine, e \in DraftId : DraftFor(f, e, "pipeline")
      BY <2>1 DEF Generate
    <3> QED BY <1>3, <3>1, Typed DEF DraftFor
  <2>2. CASE ~Generate(p)
    BY <1>3, <1>4, <1>5, <2>2 DEF Select, PassStep, CrashPass, EnqueuePick, ClaimForPreparation, PutBack,
       GenerateFails, SubmitDraftForApproval, ValidateDraft, ValidateFails, PassReleases, PassMarksPrepared
  <2> QED BY <2>1, <2>2
<1>6. ASSUME ClaimForShipping \/ ShipStep \/ CrashShip, ~ShipAbandons PROVE FALSE
  <2>1. CASE ApplyFails
    BY <2>1, Typed DEF ApplyFails, DraftType
  <2>2. CASE Finalize
    BY <2>2, Typed DEF Finalize, DraftType
  <2>3. CASE Apply
    BY <2>3, Typed DEF Apply, DraftType
  <2>4. CASE ~ApplyFails /\ ~Finalize /\ ~Apply
    BY <1>3, <1>4, <1>6, <2>4 DEF ClaimForShipping, ShipStep, CrashShip, ApproveDraft, PublishThrows,
       NoRepository, ShipReleases, FinalizeFails, UndoPush, RecordShipped, EndShip
  <2> QED BY <2>1, <2>2, <2>3, <2>4
<1> QED
  BY <1>1, <1>2, <1>5, <1>6 DEF Next, PersonGenerates, PersonMoves, PersonApproves, vars

-----------------------------------------------------------------------------
(* What hides a failure.                                                   *)

\* The drafts by which the lanes hide finding f: alive, without an error, in no pull request,
\* and not left behind.
Hiders(f) ==
  {d \in Live(f) : draft[d].by = "pipeline" /\ ~draft[d].error /\ d \notin inPr /\ d \notin left}

OneLive == \A f \in Finding : \A d, e \in Live(f) : d = e

\* A failed row is hidden by nothing but what was left alive, one that waits for the ship
\* run or is in its hands by its own draft too, and one that waits for a pass has no draft
\* of its own.
RowSeen(f) ==
  /\ row[f].state = "failed" => Hiders(f) = {}
  /\ row[f].state \in {"prepared", "shipping"} => Hiders(f) \subseteq {row[f].draft}
  /\ row[f].state \in {"queued", "preparing"} => row[f].draft = NoDraft

\* The item at hand is hidden at most by the draft at hand, and by none when it is about to fail.
ItemSeen(w) ==
  /\ w.phase \in {"submit", "validate", "mark", "apply", "abandon"} => Hiders(w.item) \subseteq {w.draft}
  /\ w.phase = "release" /\ ~w.retry => Hiders(w.item) = {}

\* The draft the ship run approved is approved, given up, or was shipped by a person.
Settled(d) == d \in DraftId /\ (draft[d].status \in {"approved", "abandoned"} \/ d \in inPr)

SeenInv ==
  /\ OneLive
  /\ \A f \in Finding : RowSeen(f)
  /\ \A p \in Pass : ItemSeen(pass[p])
  /\ ItemSeen(ship)
  /\ ship.phase = "apply" => Settled(ship.draft)

\* What may happen to a draft that is there: it ages ...
Ages(d) ==
  /\ draft'[d].finding = draft[d].finding /\ draft'[d].by = draft[d].by
  /\ draft[d].status = "abandoned" => draft'[d].status = "abandoned"
  /\ draft[d].error => draft'[d].error \/ d \in inPr'

AllAge == inPr \subseteq inPr' /\ left \subseteq left' /\ \A d \in DraftId : Ages(d)

\* ... or a new one is made for a finding that has none alive.
Born(f, d, by) ==
  /\ UNCHANGED <<inPr, left>> /\ Live(f) = {} /\ draft[d].status = "none"
  /\ draft'[d].finding = f /\ draft'[d].by = by
  /\ \A e \in DraftId : e # d => draft'[e] = draft[e]

\* What is settled stays so.
Stays == \A d \in DraftId : Settled(d) => Settled(d)'

\* A draft's status changes by UPDATEs that never take up an abandoned one.
LEMMA MovesAge ==
  ASSUME TypeOK, NEW d, inPr' = inPr, left \subseteq left',
         \/ \E from, to : "abandoned" \notin from /\ Move(d, from, to)
         \/ MarkDraftAbandoned(d)
         \/ UNCHANGED draft
  PROVE  AllAge
<1>1. ASSUME NEW to, draft' = [draft EXCEPT ![d].status = to],
             draft[d].status # "abandoned" \/ to = "abandoned"
      PROVE  AllAge
  BY <1>1, Typed DEF AllAge, Ages, DraftType
<1>2. CASE MarkDraftAbandoned(d)
  BY <1>1, <1>2 DEF MarkDraftAbandoned
<1>3. CASE UNCHANGED draft
  BY <1>3 DEF AllAge, Ages
<1>4. ASSUME NEW from, NEW to, "abandoned" \notin from, Move(d, from, to) PROVE AllAge
  <2>1. CASE draft[d].status \in from
    BY <1>1, <1>4, <2>1 DEF Move
  <2>2. CASE draft[d].status \notin from
    BY <1>3, <1>4, <2>2 DEF Move
  <2> QED BY <2>1, <2>2
<1> QED BY <1>2, <1>3, <1>4

\* generateDraft finds a draft or makes one.
LEMMA FoundOrBorn ==
  ASSUME TypeOK, NEW f \in Finding, NEW d \in DraftId, NEW by \in {"pipeline", "person"},
         DraftFor(f, d, by), UNCHANGED <<inPr, left>>
  PROVE  (d \in Live(f) /\ UNCHANGED draft) \/ Born(f, d, by)
  BY Typed DEF DraftFor, Born

\* As drafts age no finding gets one, and nothing more is hidden.
LEMMA AgeHidesNothing ==
  ASSUME AllAge
  PROVE  \A f : Live(f)' \subseteq Live(f) /\ Hiders(f)' \subseteq Hiders(f)
  BY DEF AllAge, Ages, Live, Hiders

\* A new draft is the only one of its finding, hides it only if a lane made it, and hides no
\* other finding.
LEMMA BirthHidesOne ==
  ASSUME NEW f, NEW d \in DraftId, NEW by, Born(f, d, by)
  PROVE  /\ Live(f)' \subseteq {d} /\ Hiders(f)' \subseteq {d}
         /\ by = "person" => Hiders(f)' = {}
         /\ \A g : g # f => Live(g)' \subseteq Live(g) /\ Hiders(g)' \subseteq Hiders(g)
  BY DEF Born, Live, Hiders

\* Whichever it is, a finding has at most one draft alive.
LEMMA OneLiveStays ==
  ASSUME OneLive, AllAge \/ \E f \in Finding, d \in DraftId : \E by : Born(f, d, by)
  PROVE  OneLive'
<1>1. CASE AllAge
  BY <1>1, AgeHidesNothing DEF OneLive
<1>2. ASSUME NEW f \in Finding, NEW d \in DraftId, NEW by, Born(f, d, by) PROVE OneLive'
  <2>1. ASSUME NEW g \in Finding PROVE \A x, y \in Live(g)' : x = y
    <3>1. CASE g = f
      BY <1>2, <3>1, BirthHidesOne
    <3>2. CASE g # f
      BY <1>2, <3>2, BirthHidesOne DEF OneLive
    <3> QED BY <3>1, <3>2
  <2> QED BY <2>1 DEF OneLive
<1> QED BY <1>1, <1>2

\* A draft that is moved into "approved" or out of a state before it, given up, or born leaves
\* the settled ones settled; so do people.
LEMMA OthersStay ==
  ASSUME TypeOK,
         \/ UNCHANGED <<draft, inPr>>
         \/ inPr' = inPr /\ \E d : Move(d, {"draft"}, "submitted") \/ MarkDraftAbandoned(d)
         \/ \E f, d, by : Born(f, d, by)
         \/ PersonMoves
         \/ PersonApproves
  PROVE  Stays
<1> SUFFICES ASSUME NEW x \in DraftId, draft[x].status \in {"approved", "abandoned"} \/ x \in inPr
             PROVE  draft'[x].status \in {"approved", "abandoned"} \/ x \in inPr'
  BY DEF Stays, Settled
<1>1. CASE UNCHANGED <<draft, inPr>>
  BY <1>1
<1>2. ASSUME inPr' = inPr, NEW d, Move(d, {"draft"}, "submitted") \/ MarkDraftAbandoned(d)
      PROVE  draft'[x].status \in {"approved", "abandoned"} \/ x \in inPr'
  BY <1>2, Typed DEF Move, MarkDraftAbandoned, DraftType
<1>3. ASSUME NEW f, NEW d, NEW by, Born(f, d, by)
      PROVE  draft'[x].status \in {"approved", "abandoned"} \/ x \in inPr'
  <2>1. x = d => x \in inPr
    BY <1>3 DEF Born
  <2> QED BY <1>3, <2>1 DEF Born
<1>4. CASE PersonMoves
  <2>1. inPr' = inPr
    BY <1>4 DEF PersonMoves
  <2>2. PICK d \in OfPeople : \/ draft[d].status = "draft" /\ Move(d, {"draft"}, "submitted")
                              \/ draft[d].status = "submitted" /\ Move(d, {"submitted"}, "revision")
                              \/ draft[d].status = "revision" /\ Move(d, {"revision"}, "draft")
                              \/ draft[d].status = "submitted" /\ Move(d, {"submitted"}, "approved")
                              \/ MarkDraftAbandoned(d)
    BY <1>4 DEF PersonMoves
  <2> QED BY <2>1, <2>2, Typed DEF Move, MarkDraftAbandoned, DraftType
<1>5. CASE PersonApproves
  <2>1. PICK d \in OfPeople, ok \in BOOLEAN :
          /\ draft' = [draft EXCEPT ![d].status = IF ok THEN "pr_opened" ELSE "approved", ![d].error = ~ok]
          /\ inPr' = IF ok THEN inPr \cup {d} ELSE inPr
    BY <1>5 DEF PersonApproves
  <2>2. CASE x = d
    BY <2>1, <2>2, Typed DEF DraftType
  <2>3. CASE x # d
    BY <2>1, <2>3, Typed DEF DraftType
  <2> QED BY <2>2, <2>3
<1> QED BY <1>1, <1>2, <1>3, <1>4, <1>5

\* The items at hand are findings.
LEMMA ItemsAreFindings ==
  ASSUME TypeOK, Hands
  PROVE  /\ \A p \in Pass : pass[p].phase # "next" => pass[p].item \in Finding
         /\ ship.phase # "next" => ship.item \in Finding
  BY Typed DEF Hands, ItemIsMine, Worker

\* As drafts age, rows and items that stay as they are stay seen.
LEMMA SeenStays ==
  ASSUME TypeOK, Hands, SeenInv, AllAge,
         \A f \in Finding : row'[f] = row[f] \/ RowSeen(f)',
         \A p \in Pass : pass'[p] = pass[p] \/ ItemSeen(pass[p])',
         ship' = ship \/ ItemSeen(ship)',
         \/ ship' = ship /\ Stays
         \/ ship'.phase = "apply" => Settled(ship.draft)'
  PROVE  SeenInv'
<1>1. OneLive'
  BY OneLiveStays DEF SeenInv
<1>2. ASSUME NEW f \in Finding PROVE RowSeen(f)'
  <2>1. row'[f] = row[f] => RowSeen(f)'
    BY AgeHidesNothing DEF SeenInv, RowSeen
  <2> QED BY <2>1
<1>3. ASSUME NEW p \in Pass PROVE ItemSeen(pass[p])'
  <2>1. pass'[p] = pass[p] => ItemSeen(pass[p])'
    BY AgeHidesNothing DEF SeenInv, ItemSeen
  <2> QED BY <2>1
<1>4. ItemSeen(ship)'
  <2>1. ship' = ship => ItemSeen(ship)'
    BY AgeHidesNothing DEF SeenInv, ItemSeen
  <2> QED BY <2>1
<1>5. (ship.phase = "apply" => Settled(ship.draft))'
  BY DEF SeenInv, Stays, Settled
<1> QED BY <1>1, <1>2, <1>3, <1>4, <1>5 DEF SeenInv

\* A pass that goes on without touching a row leaves everything seen if its item is.
LEMMA PassSeen ==
  ASSUME TypeOK, Hands, SeenInv, AllAge, Stays, UNCHANGED <<row, ship>>,
         NEW p \in Pass, NEW w, Step(p, w), ItemSeen(w)'
  PROVE  SeenInv'
<1>1. pass'[p] = w /\ \A q \in Pass : q # p => pass'[q] = pass[q]
  BY Typed DEF Step
<1>2. ItemSeen(pass[p])'
  BY <1>1 DEF ItemSeen
<1> QED BY <1>1, <1>2, SeenStays

\* So does one that is done with an item whose row is seen.
LEMMA PassDoneSeen ==
  ASSUME TypeOK, Hands, SeenInv, UNCHANGED <<draft, inPr, left, ship>>,
         NEW p \in Pass, NEW f \in Finding, Step(p, Without(pass[p], f)), RowSeen(f)',
         \A g \in Finding : g # f => row'[g] = row[g]
  PROVE  SeenInv'
<1>1. AllAge /\ Stays
  BY MovesAge, OthersStay
<1>2. pass'[p] = Without(pass[p], f) /\ \A q \in Pass : q # p => pass'[q] = pass[q]
  BY Typed DEF Step
<1>3. pass'[p].phase = "next"
  BY <1>2, WithoutDrops, Typed
<1>4. ItemSeen(pass[p])'
  BY <1>3 DEF ItemSeen
<1> QED BY <1>1, <1>2, <1>4, SeenStays

\* Making a draft hides the finding it is for by that draft only, and by none when a person
\* makes it.
LEMMA BirthSeen ==
  ASSUME TypeOK, Claims, Hands, SeenInv, NEW f \in Finding, NEW d \in DraftId,
         NEW by \in {"pipeline", "person"}, Born(f, d, by), UNCHANGED <<row, ship>>,
         \/ by = "person" /\ UNCHANGED pass
         \/ \E p \in Pass : /\ f \in pass[p].mine
                            /\ Step(p, [pass[p] EXCEPT !.item = f, !.draft = d, !.phase = "submit"])
  PROVE  SeenInv'
<1>1. OneLive' /\ Stays
  BY OneLiveStays, OthersStay DEF SeenInv
<1>2. \A g \in Finding : g # f => Hiders(g)' \subseteq Hiders(g)
  BY BirthHidesOne
<1>3. CASE by = "person" /\ UNCHANGED pass
  <2>1. \A g \in Finding : Hiders(g)' \subseteq Hiders(g)
    BY <1>2, <1>3, BirthHidesOne
  <2>2. \A g \in Finding : RowSeen(g)'
    BY <2>1 DEF SeenInv, RowSeen
  <2>3. \A q \in Pass : ItemSeen(pass[q])'
    BY <1>3, <2>1, ItemsAreFindings DEF SeenInv, ItemSeen
  <2>4. ItemSeen(ship)'
    BY <2>1, ItemsAreFindings DEF SeenInv, ItemSeen
  <2> QED BY <1>1, <2>2, <2>3, <2>4 DEF SeenInv, Stays, Settled
<1>4. ASSUME NEW p \in Pass, f \in pass[p].mine,
             Step(p, [pass[p] EXCEPT !.item = f, !.draft = d, !.phase = "submit"])
      PROVE  SeenInv'
  <2>1. /\ pass'[p].item = f /\ pass'[p].draft = d /\ pass'[p].phase = "submit"
        /\ \A q \in Pass : q # p => pass'[q] = pass[q]
    BY <1>4, Typed DEF Step, Worker
  <2>2. row[f].state = "preparing" /\ f \notin InShip /\ \A q \in Pass : q # p => f \notin pass[q].mine
    BY <1>4 DEF Claims, OneClaimant, InShip
  <2>3. ASSUME NEW g \in Finding PROVE RowSeen(g)'
    BY <1>2, <2>2 DEF SeenInv, RowSeen
  <2>4. ASSUME NEW q \in Pass PROVE ItemSeen(pass[q])'
    <3>1. CASE q = p
      BY <2>1, <3>1, BirthHidesOne DEF ItemSeen
    <3>2. CASE q # p
      <4>1. pass[q].phase # "next" => pass[q].item \in Finding \ {f}
        BY <2>2, <3>2, ItemsAreFindings DEF Hands, ItemIsMine
      <4> QED BY <1>2, <2>1, <3>2, <4>1 DEF SeenInv, ItemSeen
    <3> QED BY <3>1, <3>2
  <2>5. ItemSeen(ship)'
    <3>1. ship.phase # "next" => ship.item \in Finding \ {f}
      BY <2>2, ItemsAreFindings DEF Hands, ItemIsMine, InShip
    <3> QED BY <1>2, <3>1 DEF SeenInv, ItemSeen
  <2> QED BY <1>1, <2>3, <2>4, <2>5 DEF SeenInv, Stays, Settled
<1> QED BY <1>3, <1>4

\* The steps of a pass, its claims and its end.
LEMMA PassesSeen ==
  ASSUME TypeOK, Claims, Hands, SeenInv, NEW p \in Pass, Select(p) \/ PassStep(p) \/ CrashPass(p)
  PROVE  SeenInv'
<1>w. pass[p] \in Worker
  BY Typed
<1>u. UNCHANGED <<draft, inPr, left>> => AllAge /\ Stays
  BY MovesAge, OthersStay
<1>1. CASE Select(p) \/ CrashPass(p)
  <2>1. PICK w : Step(p, w) /\ w.phase = "next"
    <3>1. CASE CrashPass(p)
      <4>1. Step(p, Idle) /\ Idle.phase = "next"
        BY <3>1 DEF CrashPass, Idle
      <4> QED BY <4>1
    <3>2. CASE Select(p)
      <4>1. PICK w : w = [Idle EXCEPT !.pc = "enqueue", !.picks = {f \in Finding : ~Hidden(f)}]
        OBVIOUS
      <4>2. Step(p, w) /\ w.phase = "next"
        BY <3>2, <4>1 DEF Select, Idle
      <4> QED BY <4>2
    <3> QED BY <1>1, <3>1, <3>2
  <2>2. ItemSeen(w)'
    BY <2>1 DEF ItemSeen
  <2>3. UNCHANGED <<draft, inPr, left, row, ship>>
    BY <1>1 DEF Select, CrashPass
  <2> QED BY <1>u, <2>1, <2>2, <2>3, PassSeen
<1>2. CASE EnqueuePick(p) \/ ClaimForPreparation(p)
  <2>1. pass'[p].phase = "next" /\ \A q \in Pass : q # p => pass'[q] = pass[q]
    <3>1. pass[p].phase = "next"
      BY <1>2 DEF EnqueuePick, ClaimForPreparation, Hands, ItemIsMine
    <3>2. PICK w : Step(p, w) /\ w.phase = "next"
      <4>1. CASE EnqueuePick(p)
        <5>1. PICK f \in pass[p].picks : Step(p, [pass[p] EXCEPT !.picks = pass[p].picks \ {f}])
          BY <4>1 DEF EnqueuePick
        <5>2. [pass[p] EXCEPT !.picks = pass[p].picks \ {f}].phase = "next"
          BY <1>w, <3>1 DEF Worker
        <5> QED BY <5>1, <5>2
      <4>2. CASE ClaimForPreparation(p)
        <5>1. Idle.phase = "next" /\ [Idle EXCEPT !.pc = "work", !.mine = Claimable].phase = "next"
          BY DEF Idle
        <5> QED BY <4>2, <5>1 DEF ClaimForPreparation
      <4> QED BY <1>2, <4>1, <4>2
    <3> QED BY <3>2, Typed DEF Step
  <2>2. ItemSeen(pass[p])'
    BY <2>1 DEF ItemSeen
  <2>3. ASSUME NEW g \in Finding, row'[g] # row[g] PROVE RowSeen(g)'
    <3>1. CASE EnqueuePick(p)
      <4>1. row'[g] = [state |-> "queued", draft |-> NoDraft]
        BY <2>3, <3>1, Typed DEF EnqueuePick, Enqueue
      <4> QED BY <4>1 DEF RowSeen
    <3>2. CASE ClaimForPreparation(p)
      <4>1. row[g].state = "queued" /\ row'[g] = [row[g] EXCEPT !.state = "preparing"]
        BY <2>3, <3>2 DEF ClaimForPreparation, SetState, Claimable, InState
      <4>2. row'[g].state = "preparing" /\ row'[g].draft = row[g].draft
        BY <4>1, Typed DEF RowType
      <4> QED BY <4>1, <4>2 DEF RowSeen, SeenInv
    <3> QED BY <1>2, <3>1, <3>2
  <2>4. UNCHANGED <<draft, inPr, left, ship>>
    BY <1>2 DEF EnqueuePick, ClaimForPreparation
  <2> QED BY <1>u, <2>1, <2>2, <2>3, <2>4, SeenStays
<1>3. CASE PutBack(p) \/ PassReleases(p)
  <2>1. PICK f \in pass[p].mine, retry \in BOOLEAN :
          /\ ReleaseItem(f, retry) /\ Step(p, Without(pass[p], f))
          /\ ~retry => Hiders(f) = {}
    <3>1. CASE PutBack(p)
      BY <3>1 DEF PutBack
    <3>2. CASE PassReleases(p)
      BY <1>w, <3>2 DEF PassReleases, Hands, ItemIsMine, SeenInv, ItemSeen, Worker
    <3> QED BY <1>3, <3>1, <3>2
  <2>2. f \in Finding /\ row[f].state = "preparing" /\ row[f].draft = NoDraft
    BY <1>w DEF Worker, Claims, OneClaimant, SeenInv, RowSeen
  <2>3. UNCHANGED <<draft, inPr, left, ship>>
    BY <1>3 DEF PutBack, PassReleases
  <2>4. /\ row'[f].state = (IF retry THEN "queued" ELSE "failed") /\ row'[f].draft = NoDraft
        /\ \A g \in Finding : g # f => row'[g] = row[g]
    BY <2>1, <2>2, Typed DEF ReleaseItem, RowType
  <2>5. RowSeen(f)'
    <3>1. Hiders(f)' = Hiders(f)
      BY <2>3 DEF Hiders, Live
    <3> QED BY <2>1, <2>4, <3>1 DEF RowSeen
  <2> QED BY <2>1, <2>2, <2>3, <2>4, <2>5, PassDoneSeen
<1>4. CASE PassMarksPrepared(p)
  <2>0. PICK f, d : f = pass[p].item /\ d = pass[p].draft
    OBVIOUS
  <2>1. f \in pass[p].mine /\ f \in Finding /\ Step(p, Without(pass[p], f)) /\ Hiders(f) \subseteq {d}
    BY <1>4, <1>w, <2>0 DEF PassMarksPrepared, Hands, ItemIsMine, SeenInv, ItemSeen, Worker
  <2>2. row[f].state = "preparing"
    BY <2>1 DEF Claims, OneClaimant
  <2>3. UNCHANGED <<draft, inPr, left, ship>>
    BY <1>4 DEF PassMarksPrepared
  <2>4. /\ row'[f].state = "prepared" /\ row'[f].draft = d
        /\ \A g \in Finding : g # f => row'[g] = row[g]
    BY <1>4, <2>0, <2>1, <2>2, Typed DEF PassMarksPrepared, MarkPrepared
  <2>5. RowSeen(f)'
    <3>1. Hiders(f)' = Hiders(f)
      BY <2>3 DEF Hiders, Live
    <3> QED BY <2>1, <2>4, <3>1 DEF RowSeen
  <2> QED BY <2>1, <2>3, <2>4, <2>5, PassDoneSeen
<1>5. CASE Generate(p)
  <2>1. PICK f \in pass[p].mine, d \in DraftId :
          /\ DraftFor(f, d, "pipeline")
          /\ Step(p, [pass[p] EXCEPT !.item = f, !.draft = d, !.phase = "submit"])
    BY <1>5 DEF Generate
  <2>2. f \in Finding /\ UNCHANGED <<row, ship, inPr, left>>
    BY <1>5, <1>w DEF Generate, Worker
  <2>3. CASE d \in Live(f) /\ UNCHANGED draft
    <3>0. PICK w : w = [pass[p] EXCEPT !.item = f, !.draft = d, !.phase = "submit"]
      OBVIOUS
    <3>1. w.item = f /\ w.draft = d /\ w.phase = "submit"
      BY <1>w, <3>0 DEF Worker
    <3>2. Live(f) \subseteq {d}
      BY <2>2, <2>3 DEF SeenInv, OneLive
    <3>3. AllAge /\ Stays
      BY <1>u, <2>2, <2>3
    <3>4. Hiders(f)' \subseteq {d}
      BY <3>2, <3>3, AgeHidesNothing DEF Hiders
    <3>5. Step(p, w)
      BY <2>1, <3>0
    <3>6. ItemSeen(w)'
      BY <3>1, <3>4 DEF ItemSeen
    <3> QED BY <2>2, <3>3, <3>5, <3>6, PassSeen
  <2>4. CASE Born(f, d, "pipeline")
    BY <2>1, <2>2, <2>4, BirthSeen
  <2> QED BY <2>1, <2>2, <2>3, <2>4, FoundOrBorn
<1>6. CASE GenerateFails(p)
  <2>1. PICK f \in pass[p].mine, outage \in BOOLEAN :
          Live(f) = {} /\ Step(p, [pass[p] EXCEPT !.item = f, !.phase = "release", !.retry = outage])
    BY <1>6 DEF GenerateFails
  <2>0. PICK w : w = [pass[p] EXCEPT !.item = f, !.phase = "release", !.retry = outage]
    OBVIOUS
  <2>2. w.item = f /\ w.phase = "release" /\ Step(p, w)
    BY <1>w, <2>0, <2>1 DEF Worker
  <2>3. AllAge /\ Stays /\ UNCHANGED <<row, ship>>
    BY <1>6, <1>u DEF GenerateFails
  <2>4. Hiders(f)' = {}
    BY <2>1, <2>3, AgeHidesNothing DEF Hiders
  <2>5. ItemSeen(w)'
    BY <2>2, <2>4 DEF ItemSeen
  <2> QED BY <2>2, <2>3, <2>5, PassSeen
<1>7. CASE SubmitDraftForApproval(p) \/ ValidateDraft(p) \/ ValidateFails(p) \/ PassAbandons(p)
  <2>1. UNCHANGED <<row, ship>>
    BY <1>7 DEF SubmitDraftForApproval, ValidateDraft, ValidateFails, PassAbandons
  <2>2. AllAge /\ Stays
    <3>1. CASE PassAbandons(p)
      BY <3>1, MovesAge, OthersStay DEF PassAbandons, GiveUp, Leave
    <3>2. CASE ~PassAbandons(p)
      BY <1>7, <1>u, <3>2, MovesAge, OthersStay DEF SubmitDraftForApproval, ValidateDraft, ValidateFails
    <3> QED BY <3>1, <3>2
  <2>3. PICK x, d, m : x = pass[p].item /\ d = pass[p].draft /\ m = pass[p].retry
    OBVIOUS
  <2>4. Hiders(x) \subseteq {d} /\ Hiders(x)' \subseteq {d}
    <3>1. pass[p].phase \in {"submit", "validate", "abandon"}
      BY <1>7 DEF SubmitDraftForApproval, ValidateDraft, ValidateFails, PassAbandons
    <3> QED BY <2>2, <2>3, <3>1, AgeHidesNothing DEF SeenInv, ItemSeen
  <2>5. PICK w : /\ Step(p, w) /\ w.item = x /\ w.draft = d
                 /\ \/ w.phase \in {"validate", "mark", "abandon"}
                    \/ w.phase = "release" /\ w.retry
                    \/ w.phase = "release" /\ PassAbandons(p)
    <3>1. ASSUME NEW phase, NEW w, w = [pass[p] EXCEPT !.phase = phase]
          PROVE  w.item = x /\ w.draft = d /\ w.phase = phase
      BY <1>w, <2>3, <3>1 DEF Worker
    <3>2. ASSUME NEW w, w = [pass[p] EXCEPT !.phase = "release", !.retry = TRUE]
          PROVE  w.item = x /\ w.draft = d /\ w.phase = "release" /\ w.retry
      BY <1>w, <2>3, <3>2 DEF Worker
    <3>3. CASE SubmitDraftForApproval(p)
      BY <3>1, <3>3 DEF SubmitDraftForApproval
    <3>4. CASE ValidateDraft(p)
      BY <3>1, <3>4 DEF ValidateDraft
    <3>5. CASE ValidateFails(p)
      BY <3>1, <3>2, <3>5 DEF ValidateFails
    <3>6. CASE PassAbandons(p)
      <4>1. Step(p, [pass[p] EXCEPT !.phase = "release"])
        BY <3>6 DEF PassAbandons
      <4>2. PICK w : w = [pass[p] EXCEPT !.phase = "release"]
        OBVIOUS
      <4> QED BY <3>1, <3>6, <4>1, <4>2
    <3> QED BY <1>7, <3>3, <3>4, <3>5, <3>6
  <2>6. PassAbandons(p) => Hiders(x)' = {}
    <3> SUFFICES ASSUME PassAbandons(p), NEW e \in Hiders(x)' PROVE FALSE
      OBVIOUS
    <3>1. e = d /\ e \in DraftId /\ draft'[e].status # "abandoned" /\ e \notin left'
      BY <2>4 DEF Hiders, Live
    <3>2. draft' = [draft EXCEPT ![d].status = "abandoned"] \/ d \in left'
      BY <2>3 DEF PassAbandons, GiveUp, Leave, MarkDraftAbandoned
    <3> QED BY <3>1, <3>2, Typed DEF DraftType
  <2>7. ItemSeen(w)'
    BY <2>4, <2>5, <2>6 DEF ItemSeen
  <2> QED BY <2>1, <2>2, <2>5, <2>7, PassSeen
<1> QED BY <1>1, <1>2, <1>3, <1>4, <1>5, <1>6, <1>7 DEF PassStep

\* A step of the ship run that touches no row leaves everything seen if its item is.
LEMMA ShipSeen ==
  ASSUME TypeOK, Hands, SeenInv, AllAge, UNCHANGED <<row, pass>>, ItemSeen(ship)',
         (ship.phase = "apply" => Settled(ship.draft))'
  PROVE  SeenInv'
  BY SeenStays

\* The steps of the ship run, its claim and its end.
LEMMA ShipRunSeen ==
  ASSUME TypeOK, Claims, Hands, OwnInv, SeenInv, ClaimForShipping \/ ShipStep \/ CrashShip
  PROVE  SeenInv'
<1>w. ship \in Worker
  BY Typed
<1>u. UNCHANGED <<draft, inPr, left>> => AllAge
  BY MovesAge
<1>h. ASSUME NEW f \in InShip
      PROVE  /\ f \in Finding /\ row[f].state = "shipping"
             /\ row[f].draft \in DraftId /\ Hiders(f) \subseteq {row[f].draft}
  <2>1. f \in Finding /\ row[f].state = "shipping" /\ row[f].draft \in DraftId
    BY <1>w DEF Claims, OneClaimant, Hands, PushedHasDraft, InShip, Worker
  <2> QED BY <2>1 DEF SeenInv, RowSeen
<1>n. ASSUME AllAge, pass' = pass, ship'.phase = "next",
             \A f \in Finding : row'[f] = row[f] \/ RowSeen(f)'
      PROVE  SeenInv'
  <2>1. ItemSeen(ship)'
    BY <1>n DEF ItemSeen
  <2> QED BY <1>n, <2>1, SeenStays
<1>1. CASE ClaimForShipping
  <2>1. ship'.phase = "next" /\ UNCHANGED <<draft, inPr, left, pass>>
    BY <1>1 DEF ClaimForShipping, Idle
  <2>2. ASSUME NEW f \in Finding, row'[f] # row[f] PROVE RowSeen(f)'
    <3>1. row[f].state = "prepared" /\ row'[f] = [row[f] EXCEPT !.state = "shipping"]
      BY <1>1, <2>2 DEF ClaimForShipping, SetState, Shippable, InState
    <3>2. row'[f].state = "shipping" /\ row'[f].draft = row[f].draft
      BY <3>1, Typed DEF RowType
    <3>3. Hiders(f)' = Hiders(f)
      BY <2>1 DEF Hiders, Live
    <3> QED BY <3>1, <3>2, <3>3 DEF RowSeen, SeenInv
  <2> QED BY <1>n, <1>u, <2>1, <2>2
<1>2. CASE ApproveDraft
  <2>0. PICK f \in ship.mine :
          /\ draft[row[f].draft].status = "submitted"
          /\ Move(row[f].draft, {"submitted"}, "approved")
          /\ ship' = [ship EXCEPT !.item = f, !.draft = row[f].draft, !.phase = "apply"]
    BY <1>2 DEF ApproveDraft
  <2>d. PICK d : d = row[f].draft
    OBVIOUS
  <2>1. /\ draft[d].status = "submitted" /\ Move(d, {"submitted"}, "approved")
        /\ ship' = [ship EXCEPT !.item = f, !.draft = d, !.phase = "apply"]
    BY <2>0, <2>d
  <2>2. ship'.item = f /\ ship'.draft = d /\ ship'.phase = "apply"
    BY <1>w, <2>1 DEF Worker
  <2>3. AllAge /\ UNCHANGED <<row, pass>>
    BY <1>2, <2>1, MovesAge DEF ApproveDraft
  <2>4. d \in DraftId /\ Hiders(f)' \subseteq {d}
    BY <1>h, <2>d, <2>3, AgeHidesNothing DEF InShip
  <2>5. ItemSeen(ship)'
    BY <2>2, <2>4 DEF ItemSeen
  <2>6. draft'[d].status = "approved"
    BY <2>1, <2>4, Typed DEF Move, DraftType
  <2>7. (ship.phase = "apply" => Settled(ship.draft))'
    BY <2>2, <2>4, <2>6 DEF Settled
  <2> QED BY <2>3, <2>5, <2>7, ShipSeen
<1>3. CASE PublishThrows \/ UndoPush
  <2>1. PICK f, d : /\ ship'.item = f /\ ship'.draft = d /\ ship'.phase = "abandon"
                    /\ Hiders(f) \subseteq {d}
    <3>1. CASE UndoPush
      <4>1. PICK f \in ship.pushed :
              ship' = [ship EXCEPT !.item = f, !.draft = row[f].draft, !.phase = "abandon"]
        BY <3>1 DEF UndoPush
      <4>2. /\ ship'.item = f /\ ship'.draft = row[f].draft /\ ship'.phase = "abandon"
            /\ Hiders(f) \subseteq {row[f].draft}
        BY <1>h, <1>w, <4>1 DEF InShip, Worker
      <4> QED BY <4>2
    <3>2. ASSUME NEW f \in ship.mine, NEW outage \in BOOLEAN,
                 ship' = [ship EXCEPT !.item = f, !.draft = row[f].draft, !.phase = "abandon", !.retry = outage]
          PROVE  /\ ship'.item = f /\ ship'.draft = row[f].draft /\ ship'.phase = "abandon"
                 /\ Hiders(f) \subseteq {row[f].draft}
      BY <1>h, <1>w, <3>2 DEF InShip, Worker
    <3>3. ASSUME NEW outage \in BOOLEAN, ship.phase = "apply",
                 ship' = [ship EXCEPT !.phase = "abandon", !.retry = outage]
          PROVE  /\ ship'.item = ship.item /\ ship'.draft = ship.draft /\ ship'.phase = "abandon"
                 /\ Hiders(ship.item) \subseteq {ship.draft}
      BY <1>w, <3>3 DEF SeenInv, ItemSeen, Worker
    <3> QED BY <1>3, <3>1, <3>2, <3>3 DEF PublishThrows
  <2>2. AllAge /\ UNCHANGED <<row, pass>>
    BY <1>3, <1>u DEF PublishThrows, UndoPush
  <2>3. Hiders(f)' \subseteq {d}
    BY <2>1, <2>2, AgeHidesNothing
  <2>4. ItemSeen(ship)'
    BY <2>1, <2>3 DEF ItemSeen
  <2> QED BY <2>1, <2>2, <2>4, ShipSeen
<1>p. CASE Apply /\ draft[ship.draft].status = "approved"
  <2>0. PICK f, d : f = ship.item /\ d = ship.draft
    OBVIOUS
  <2>1. /\ f \in InShip /\ d = row[f].draft /\ f \in Finding /\ row[f].state = "shipping"
        /\ d \in DraftId /\ draft[d].finding = f /\ Hiders(f) \subseteq {d}
    <3>1. f \in InShip /\ d = row[f].draft
      BY <1>p, <2>0 DEF Apply, Hands, ItemIsMine, OwnInv, ShipOwn, InShip
    <3> QED BY <1>h, <3>1 DEF OwnInv, RowOwn, DraftId, NoDraft
  <2>2. /\ draft[d].status = "approved" /\ draft'[d].finding = f /\ draft'[d].status = "pushed"
        /\ \A e \in DraftId : e # d => draft'[e] = draft[e]
        /\ UNCHANGED <<row, pass, inPr, left>> /\ ship'.phase = "next"
    <3>1. draft' = [draft EXCEPT ![d].status = "pushed", ![d].error = FALSE]
      BY <1>p, <2>0 DEF Apply
    <3>2. ship'.phase = "next"
      BY <1>p, <1>w DEF Apply, Worker
    <3>3. UNCHANGED <<row, pass, inPr, left>>
      BY <1>p DEF Apply
    <3>4. draft[d].status = "approved"
      BY <1>p, <2>0
    <3>5. /\ draft'[d].finding = f /\ draft'[d].status = "pushed"
          /\ \A e \in DraftId : e # d => draft'[e] = draft[e]
      BY <2>1, <3>1, Typed DEF DraftType
    <3> QED BY <3>2, <3>3, <3>4, <3>5
  <2>3. /\ \A g : Live(g)' \subseteq Live(g)
        /\ \A g : g # f => Hiders(g)' \subseteq Hiders(g)
    BY <2>1, <2>2 DEF Live, Hiders
  <2>4. Hiders(f)' \subseteq {d}
    BY <2>1, <2>2 DEF Live, Hiders
  <2>5. OneLive'
    BY <2>3 DEF SeenInv, OneLive
  <2>6. \A g \in Finding : RowSeen(g)'
    BY <2>1, <2>2, <2>3, <2>4 DEF SeenInv, RowSeen
  <2>7. ASSUME NEW q \in Pass PROVE ItemSeen(pass[q])'
    <3>1. pass[q].phase # "next" => pass[q].item \in Finding \ {f}
      BY <2>1, ItemsAreFindings DEF Claims, OneClaimant, Hands, ItemIsMine
    <3> QED BY <2>2, <2>3, <3>1 DEF SeenInv, ItemSeen
  <2>8. ItemSeen(ship)'
    BY <2>2 DEF ItemSeen
  <2> QED BY <2>2, <2>5, <2>6, <2>7, <2>8 DEF SeenInv
<1>4. CASE \/ Apply /\ draft[ship.draft].status # "approved"
           \/ NoRepository \/ ApplyFails \/ ShipAbandons
  <2>0. PICK f, d : f = ship.item /\ d = ship.draft
    OBVIOUS
  <2>1. Hiders(f) \subseteq {d} /\ (ship.phase = "apply" => Settled(d))
    BY <1>4, <2>0 DEF Apply, NoRepository, ApplyFails, ShipAbandons, SeenInv, ItemSeen
  <2>2. AllAge /\ UNCHANGED <<row, pass>>
    <3>1. ASSUME ShipAbandons PROVE AllAge
      BY <3>1, MovesAge DEF ShipAbandons, GiveUp, Leave
    <3>2. ASSUME ApplyFails PROVE AllAge
      BY <3>2, Typed DEF ApplyFails, AllAge, Ages, DraftType
    <3>3. ASSUME NoRepository \/ (Apply /\ draft[ship.draft].status # "approved") PROVE AllAge
      BY <3>3, MovesAge DEF Apply, NoRepository, Leave
    <3>4. UNCHANGED <<row, pass>>
      BY <1>4 DEF Apply, NoRepository, ApplyFails, ShipAbandons
    <3> QED BY <1>4, <3>1, <3>2, <3>3, <3>4
  <2>3. Hiders(f)' \subseteq Hiders(f)
    BY <2>2, AgeHidesNothing
  <2>4. ship' = [ship EXCEPT !.phase = "release"]
    BY <1>4 DEF Apply, NoRepository, ApplyFails, ShipAbandons
  <2>5. ship'.item = f /\ ship'.phase = "release"
    BY <1>w, <2>0, <2>4 DEF Worker
  <2>6. d \notin Hiders(f)'
    <3> SUFFICES ASSUME d \in Hiders(f)' PROVE FALSE
      OBVIOUS
    <3>1. /\ d \in DraftId /\ draft'[d].status # "abandoned" /\ ~draft'[d].error
          /\ d \notin inPr' /\ d \notin left'
      BY DEF Hiders, Live
    <3>2. CASE ShipAbandons
      BY <2>0, <3>1, <3>2, Typed DEF ShipAbandons, GiveUp, Leave, MarkDraftAbandoned, DraftType
    <3>3. CASE NoRepository
      BY <2>0, <3>1, <3>3 DEF NoRepository, Leave
    <3>4. CASE ~ShipAbandons /\ ~NoRepository
      <4>1. draft[d].status \in {"approved", "abandoned"} \/ d \in inPr
        BY <1>4, <2>1, <3>4 DEF Apply, ApplyFails, Settled
      <4>2. draft[d].status = "approved"
        BY <2>2, <3>1, <4>1 DEF AllAge, Ages
      <4> QED BY <1>4, <2>0, <3>1, <3>4, <4>2, Typed DEF ApplyFails, DraftType
    <3> QED BY <3>2, <3>3, <3>4
  <2>7. Hiders(f)' = {}
    BY <2>1, <2>3, <2>6
  <2>8. ItemSeen(ship)'
    BY <2>5, <2>7 DEF ItemSeen
  <2> QED BY <2>2, <2>5, <2>8, ShipSeen
<1>5. CASE ShipReleases
  <2>0. PICK f, retry : f = ship.item /\ retry = ship.retry
    OBVIOUS
  <2>1. f \in InShip /\ retry \in BOOLEAN /\ (~retry => Hiders(f) = {})
    BY <1>5, <1>w, <2>0 DEF ShipReleases, Hands, ItemIsMine, InShip, SeenInv, ItemSeen, Worker
  <2>2. f \in Finding /\ row[f].state = "shipping" /\ Hiders(f) \subseteq {row[f].draft} /\ row[f].draft \in DraftId
    BY <1>h, <2>1
  <2>3. ship'.phase = "next" /\ UNCHANGED <<draft, pass, inPr, left>>
    BY <1>5, <1>w DEF ShipReleases, Worker
  <2>4. /\ row'[f].state = (IF retry THEN "prepared" ELSE "failed") /\ row'[f].draft = row[f].draft
        /\ \A g \in Finding : g # f => row'[g] = row[g]
    <3>1. row[f].draft # NoDraft
      BY <2>2 DEF DraftId, NoDraft
    <3> QED BY <1>5, <2>0, <2>1, <2>2, <3>1, Typed DEF ShipReleases, ReleaseItem, RowType
  <2>5. Hiders(f)' = Hiders(f)
    BY <2>3 DEF Hiders, Live
  <2>6. RowSeen(f)'
    BY <2>1, <2>2, <2>4, <2>5 DEF RowSeen
  <2> QED BY <1>n, <1>u, <2>3, <2>4, <2>6
<1>6. CASE Finalize
  <2> DEFINE D == {row[f].draft : f \in ship.pushed}
  <2>1. /\ draft' = [d \in DraftId |-> IF d \in D /\ draft[d].status = "pushed"
                                       THEN [draft[d] EXCEPT !.status = "pr_opened"]
                                       ELSE draft[d]]
        /\ inPr' = inPr \cup D
    BY <1>6 DEF Finalize
  <2> HIDE DEF D
  <2>3. ship'.phase = "next" /\ UNCHANGED <<row, pass, left>>
    BY <1>6, <1>w DEF Finalize, Worker
  <2>2. AllAge
    BY <2>1, <2>3, Typed DEF AllAge, Ages, DraftType
  <2> QED BY <1>n, <2>2, <2>3
<1>7. CASE FinalizeFails \/ EndShip \/ CrashShip
  <2>1. ship'.phase = "next" /\ UNCHANGED <<row, draft, inPr, left, pass>>
    BY <1>7, <1>w DEF FinalizeFails, EndShip, CrashShip, Idle, Worker
  <2> QED BY <1>n, <1>u, <2>1
<1>8. CASE RecordShipped
  <2>1. PICK f \in ship.pushed : MarkShipped(f) /\ ship' = [ship EXCEPT !.pushed = ship.pushed \ {f}]
    BY <1>8 DEF RecordShipped
  <2>2. ship'.phase = "next" /\ UNCHANGED <<draft, inPr, left, pass>>
    BY <1>8, <1>w, <2>1 DEF RecordShipped, Hands, PushedHasDraft, Worker
  <2>3. ASSUME NEW g \in Finding, row'[g] # row[g] PROVE RowSeen(g)'
    <3>1. row'[g].state = "shipped"
      BY <2>1, <2>3, Typed DEF MarkShipped, SetState, RowType
    <3> QED BY <3>1 DEF RowSeen
  <2> QED BY <1>n, <1>u, <2>2, <2>3
<1> QED BY <1>1, <1>2, <1>3, <1>4, <1>5, <1>6, <1>7, <1>8, <1>p DEF ShipStep

\* No step hides a failure.
LEMMA SeenStep ==
  ASSUME TypeOK, Claims, Hands, OwnInv, SeenInv, [Next]_vars
  PROVE  SeenInv'
<1>1. CASE PersonGenerates
  <2>1. PICK f \in People, d \in DraftId : DraftFor(f, d, "person")
    BY <1>1 DEF PersonGenerates
  <2>2. f \in Finding /\ UNCHANGED <<row, pass, ship, inPr, left>> /\ draft' # draft
    BY <1>1, QueueAssumption DEF PersonGenerates
  <2> QED BY <2>1, <2>2, FoundOrBorn, BirthSeen
<1>2. CASE PersonMoves \/ PersonApproves \/ UNCHANGED vars
  <2>1. UNCHANGED <<row, pass, ship>>
    BY <1>2 DEF PersonMoves, PersonApproves, vars
  <2>2. Stays
    BY <1>2, OthersStay DEF vars
  <2>3. AllAge
    <3>1. CASE PersonMoves
      BY <3>1, MovesAge DEF PersonMoves
    <3>2. CASE PersonApproves
      <4>1. PICK d \in OfPeople, ok \in BOOLEAN :
              /\ draft[d].status \in {"submitted", "approved"}
              /\ draft' = [draft EXCEPT ![d].status = IF ok THEN "pr_opened" ELSE "approved", ![d].error = ~ok]
              /\ inPr' = IF ok THEN inPr \cup {d} ELSE inPr
        BY <3>2 DEF PersonApproves
      <4>0. left' = left
        BY <3>2 DEF PersonApproves
      <4>2. ASSUME NEW e \in DraftId PROVE Ages(e)
        <5>1. CASE e = d
          BY <4>1, <5>1, Typed DEF Ages, DraftType
        <5>2. CASE e # d
          BY <4>1, <5>2, Typed DEF Ages, DraftType
        <5> QED BY <5>1, <5>2
      <4> QED BY <4>0, <4>1, <4>2 DEF AllAge
    <3>3. CASE UNCHANGED vars
      BY <3>3, MovesAge DEF vars
    <3> QED BY <1>2, <3>1, <3>2, <3>3
  <2> QED BY <2>1, <2>2, <2>3, SeenStays
<1> QED BY <1>1, <1>2, PassesSeen, ShipRunSeen DEF Next

-----------------------------------------------------------------------------
(* The theorems.                                                           *)

\* The invariant of the queue, which is inductive.
THEOREM QueueIsConsistent == Spec => []QueueInv
<1>1. Init => QueueInv
  <2> SUFFICES ASSUME Init PROVE QueueInv
    OBVIOUS
  <2>1. TypeOK
    BY IdleTyped, QueueAssumption DEF Init, TypeOK, State, Status
  <2>2. Claims
    BY DEF Init, Claims, OneClaimant, ClaimIsHeld, ShippedHasPr, InState, Idle
  <2>3. Hands
    BY DEF Init, Hands, ItemIsMine, PushedHasDraft, Idle
  <2>4. OwnInv
    <3>1. \A f \in Finding : row[f].state = "none" /\ row[f].draft = NoDraft
      BY DEF Init
    <3>2. /\ \A p \in Pass : pass[p].phase = "next" /\ pass[p].picks = {}
          /\ ship.phase = "next" /\ InShip = {}
      BY DEF Init, Idle, InShip
    <3>3. \A d \in DraftId : draft[d].finding = NoFinding /\ ~draft[d].error
      BY DEF Init
    <3> QED BY <3>1, <3>2, <3>3 DEF OwnInv, RowOwn, PassOwn, ShipOwn, DraftOwn
  <2> QED BY <2>1, <2>2, <2>3, <2>4 DEF QueueInv, Claims, Hands
<1>2. QueueInv /\ [Next]_vars => QueueInv'
  <2>1. /\ QueueInv <=> TypeOK /\ Claims /\ Hands /\ OwnInv
        /\ QueueInv' <=> TypeOK' /\ Claims' /\ Hands' /\ OwnInv'
    BY DEF QueueInv, Claims, Hands
  <2> QED BY <2>1, TypeStep, ClaimStep, OwnStep DEF Hands
<1> QED
  BY <1>1, <1>2, PTL DEF Spec

\* Rows, drafts and what the lanes hold in memory keep their types.
THEOREM TypeCorrect == Spec => []TypeOK
<1>1. QueueInv => TypeOK
  BY DEF QueueInv
<1> QED BY <1>1, QueueIsConsistent, PTL

\* However many passes overlap, no row is ever in the hands of two workers, and a row in
\* hand is in the state of its claim (claimForPreparation, claimForShipping).
THEOREM ClaimsAreExclusive == Spec => []OneClaimant
<1>1. QueueInv => OneClaimant
  BY DEF QueueInv
<1> QED BY <1>1, QueueIsConsistent, PTL

\* While no process has crashed, every claimed row is in the hands of a worker: no return
\* path of the two lanes forgets an item.
THEOREM ClaimsAreHeld == Spec => []ClaimIsHeld
<1>1. QueueInv => ClaimIsHeld
  BY DEF QueueInv
<1> QED BY <1>1, QueueIsConsistent, PTL

\* A row recorded as shipped names a draft whose commit is in a pull request, whatever
\* people and failing items did while the batch was under way.
THEOREM ShippedIsInPr == Spec => []ShippedHasPr
<1>1. QueueInv => ShippedHasPr
  BY DEF QueueInv
<1> QED BY <1>1, QueueIsConsistent, PTL

\* A row recorded as failed is hidden by no draft of the lanes, but one that a person
\* shipped, or one a lane left because its giving-up write was lost or the project had no
\* repository: no other way to fail leaves such a draft (prepare.js, ship.js).
THEOREM OnlyLeftDraftsHideFailures == Spec => []OnlyLeftDraftsHide
<1>1. Init => SeenInv
  <2> SUFFICES ASSUME Init PROVE SeenInv
    OBVIOUS
  <2>1. \A f \in Finding : Live(f) = {}
    BY QueueAssumption DEF Init, Live
  <2>2. \A f \in Finding : row[f].state = "none"
    BY DEF Init
  <2>3. (\A p \in Pass : pass[p].phase = "next") /\ ship.phase = "next"
    BY DEF Init, Idle
  <2> QED BY <2>1, <2>2, <2>3 DEF SeenInv, OneLive, RowSeen, ItemSeen
<1>2. QueueInv /\ SeenInv /\ [Next]_vars => SeenInv'
  BY SeenStep DEF QueueInv, Claims, Hands
<1>3. SeenInv => OnlyLeftDraftsHide
  BY DEF SeenInv, RowSeen, OnlyLeftDraftsHide, Hiders, InState
<1> QED
  BY <1>1, <1>2, <1>3, QueueIsConsistent, PTL DEF Spec

\* Where passes never overlap, a lane gives up no draft whose pull request is open unless
\* people work on its finding, whatever dies in between (prepare.js, ship.js;
\* drafts.js, markDraftAbandoned).
THEOREM OnlyPeoplesPrIsGivenUp ==
  ASSUME OnePass
  PROVE  Spec => [][\A d \in DraftId :
                      draft[d].status = "pr_opened" /\ draft'[d].status = "abandoned"
                        => UNCHANGED <<pass, ship>> \/ draft[d].finding \in People]_vars
<1>1. QueueInv /\ [Next]_vars =>
        [\A d \in DraftId :
           draft[d].status = "pr_opened" /\ draft'[d].status = "abandoned"
             => UNCHANGED <<pass, ship>> \/ draft[d].finding \in People]_vars
  BY LanesKeepOpen DEF QueueInv, Claims, Hands
<1> QED BY <1>1, QueueIsConsistent, PTL DEF Spec

=============================================================================
