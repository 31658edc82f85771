------------------------------ MODULE RecoveryProofs ------------------------------
(***************************************************************************)
(* One finding, any number of shippers, cycles, drafts and crashes         *)
(* (Recovery): what is given up as defective without a person stays within *)
(* the budget.                                                             *)
(*                                                                         *)
(* The argument: a run starts only while the attempts counted are below    *)
(* the cap, and each of the shippers can be past that check at most once.  *)
(* From there on only a run that is still generating can bring a draft to  *)
(* life, one at a time, and only a live draft can be given up.  So what is *)
(* given up, the live draft and the generating runs together never exceed  *)
(* the cap and the number of shippers.                                     *)
(***************************************************************************)
EXTENDS Recovery, FiniteSetTheorems, TLAPS

DraftType == [status : {"none", "draft", "submitted", "approved", "pushed",
                        "opened", "implemented", "abandoned"},
              err : Policy \cup {"none"}, stalled : BOOLEAN,
              why : Policy \cup {"none", "never"}, noted : BOOLEAN]

ShipType == [pc : {"idle", "generating", "judging", "publishing", "applying", "resuming", "batching"},
             held : 0 .. MaxDraft]

Board ==
  /\ draft \in [Draft -> DraftType]
  /\ card \in [open : BOOLEAN, blocked : BOOLEAN]

Counts == cycles \in 0 .. MaxCycles /\ unattended \in Nat /\ crashes \in 0 .. MaxCrash

\* The reconciler: what it holds is a draft where it writes one, and a cycle is left while
\* it spends one.
ReconShape ==
  /\ recon \in [pc : {"idle", "defects", "giving_up", "stalls", "reclaiming", "returning",
                      "reopening", "failures", "noting", "weighing", "escalating",
                      "rechecking", "clearing", "crediting"},
                held : 0 .. MaxDraft, todo : SUBSET Draft]
  /\ recon.pc \in {"giving_up", "reclaiming", "returning", "reopening"} => recon.held \in Draft
  /\ recon.pc \in {"rechecking", "clearing", "crediting"} => cycles < MaxCycles

ShipShape ==
  /\ ship \in [Shipper -> ShipType]
  /\ \A s \in Shipper : ship[s].pc \notin {"idle", "generating"} => ship[s].held \in Draft

Shape == Board /\ Counts /\ ReconShape /\ ShipShape

\* A draft that can be given up, and one that has been and counts.
Alive(d) == draft[d].status \notin {"none", "abandoned"}
Bad(d) == draft[d].status = "abandoned" /\ draft[d].why = "defect"

Generating == {s \in Shipper : ship[s].pc = "generating"}
Hope == IF Live = {} THEN 0 ELSE 1

OneLive == \A d, e \in Draft : Alive(d) /\ Alive(e) => d = e
EachIsCounted == unattended <= Attempts
Reserve == unattended + Hope + Cardinality(Generating) <= Cap + Cardinality(Shipper)

Budget == OneLive /\ EachIsCounted /\ Reserve
RecoveryInv == Shape /\ Budget

-----------------------------------------------------------------------------
(* The constants, and the counts.                                          *)

\* What the constants are.
LEMMA Parameters ==
  /\ MaxFailed \in Nat \ {0} /\ MaxCycles \in Nat /\ MaxDraft \in Nat /\ MaxCrash \in Nat
  /\ IsFiniteSet(Shipper) /\ Cardinality(Shipper) \in Nat
  /\ 0 \notin Draft /\ Draft \subseteq 0 .. MaxDraft /\ 0 \in 0 .. MaxDraft
  BY RecoveryAssumption, FS_CardinalityType DEF Draft

\* Drafts can be counted.
LEMMA DraftsCount ==
  ASSUME NEW S \in SUBSET Draft
  PROVE  IsFiniteSet(S) /\ Cardinality(S) \in Nat /\ Cardinality(S) <= MaxDraft
<1>1. IsFiniteSet(Draft) /\ Cardinality(Draft) = MaxDraft
  BY FS_Interval, Parameters DEF Draft
<1> QED BY <1>1, FS_Subset, FS_CardinalityType

\* Shippers can be counted.
LEMMA ShippersCount ==
  ASSUME NEW S \in SUBSET Shipper
  PROVE  IsFiniteSet(S) /\ Cardinality(S) \in Nat /\ Cardinality(S) <= Cardinality(Shipper)
  BY Parameters, FS_Subset, FS_CardinalityType

\* The cap is a number, and a recovery cycle raises it.
LEMMA CapGrows ==
  ASSUME NEW n \in Nat
  PROVE  MaxFailed * (n + 1) \in Nat /\ MaxFailed * (n + 1) <= MaxFailed * (n + 1 + 1)
  BY Parameters

-----------------------------------------------------------------------------
(* What a step does to the budget.                                         *)

\* No draft comes to life, and no failure that counts is forgotten.
Calm == /\ \A d \in Draft : Alive(d)' => Alive(d)
        /\ \A d \in Draft : Bad(d) => Bad(d)'

\* Nothing is given up, and no run begins.
Quiet == /\ Calm /\ unattended' = unattended /\ Generating' \subseteq Generating
         /\ cycles' \in {cycles, cycles + 1}

\* A live draft is given up.
Charged == /\ Calm /\ unattended' = unattended + 1 /\ Generating' \subseteq Generating
           /\ cycles' = cycles
           /\ \E d \in Draft : Alive(d) /\ Bad(d)'

\* A run begins, under the cap.
Taken == UNCHANGED <<draft, unattended, cycles>> /\ Attempts < Cap

\* A generating run brings a draft to life where there was none.
Created == /\ unattended' = unattended /\ cycles' = cycles
           /\ \A d \in Draft : ~Alive(d)
           /\ \E d \in Draft : \A e \in Draft : Alive(e)' => e = d
           /\ \A d \in Draft : Bad(d) => Bad(d)'
           /\ \E s \in Generating : Generating' \subseteq Generating \ {s}

\* Every step is of one of four kinds.
BudgetKind == Quiet \/ Charged \/ Taken \/ Created

\* The drafts that count, as a set.
LEMMA AttemptsAreBad == /\ Attempts = Cardinality({d \in Draft : Bad(d)})
                        /\ Attempts' = Cardinality({d \in Draft : Bad(d)'})
                        /\ Attempts \in Nat /\ Attempts' \in Nat /\ Attempts <= MaxDraft
<1>1. Attempts = Cardinality({d \in Draft : Bad(d)})
  BY DEF Attempts, Bad
<1>2. Attempts' = Cardinality({d \in Draft : Bad(d)'})
  BY DEF Attempts, Bad
<1>3. {d \in Draft : Bad(d)} \in SUBSET Draft /\ {d \in Draft : Bad(d)'} \in SUBSET Draft
  OBVIOUS
<1> QED BY <1>1, <1>2, <1>3, DraftsCount

\* Live drafts and Alive say the same.
LEMMA HopeIsAlive ==
  /\ Hope = IF \A d \in Draft : ~Alive(d) THEN 0 ELSE 1
  /\ Hope' = IF \A d \in Draft : ~Alive(d)' THEN 0 ELSE 1
<1>1. Live = {} <=> \A d \in Draft : ~Alive(d)
  BY DEF Live, Alive
<1>2. Live' = {} <=> \A d \in Draft : ~Alive(d)'
  BY DEF Live, Alive
<1> QED BY <1>1, <1>2 DEF Hope

\* Forgetting nothing, the attempts never fall; one that is new is one more.
LEMMA AttemptsGrow ==
  ASSUME \A d \in Draft : Bad(d) => Bad(d)'
  PROVE  /\ Attempts <= Attempts'
         /\ \A d \in Draft : ~Bad(d) /\ Bad(d)' => Attempts + 1 <= Attempts'
<1> DEFINE old == {d \in Draft : Bad(d)}
           new == {d \in Draft : Bad(d)'}
<1>1. old \in SUBSET new /\ IsFiniteSet(new) /\ IsFiniteSet(old)
  BY DraftsCount
<1>2. Cardinality(old) <= Cardinality(new)
  BY <1>1, FS_Subset
<1>3. ASSUME NEW d \in Draft, ~Bad(d), Bad(d)' PROVE Cardinality(old) + 1 <= Cardinality(new)
  <2>1. old \cup {d} \in SUBSET new /\ d \notin old
    BY <1>3
  <2>2. Cardinality(old \cup {d}) = Cardinality(old) + 1
    BY <1>1, <2>1, FS_AddElement
  <2> QED BY <1>1, <2>1, <2>2, FS_Subset
<1> QED BY <1>2, <1>3, AttemptsAreBad

\* The four kinds of step keep the budget.
LEMMA BudgetStep ==
  ASSUME RecoveryInv, Counts', BudgetKind
  PROVE  Budget'
<1> DEFINE g == Cardinality(Generating)
           h == Cardinality(Generating')
           all == Cardinality(Shipper)
<1>1. /\ g \in Nat /\ h \in Nat /\ all \in Nat /\ g <= all /\ h <= all
  BY ShippersCount, Parameters DEF Generating
<1>2. Generating' \subseteq Generating => h <= g
  <2>1. IsFiniteSet(Generating)
    BY ShippersCount DEF Generating
  <2> QED BY <2>1, FS_Subset
<1>3. /\ Cap \in Nat /\ Cap' \in Nat /\ unattended \in Nat /\ unattended' \in Nat
      /\ cycles' = cycles => Cap' = Cap
      /\ cycles' = cycles + 1 => Cap <= Cap'
  BY CapGrows DEF Cap, RecoveryInv, Shape, Counts
<1>4. Hope \in {0, 1} /\ Hope' \in {0, 1}
  BY HopeIsAlive
<1>5. /\ unattended <= Attempts /\ unattended + Hope + g <= Cap + all /\ OneLive
  BY DEF RecoveryInv, Budget, EachIsCounted, Reserve
<1>6. /\ EachIsCounted' <=> unattended' <= Attempts'
      /\ Reserve' <=> unattended' + Hope' + h <= Cap' + all
  BY DEF EachIsCounted, Reserve
<1>7. CASE Quiet
  <2>1. OneLive'
    BY <1>5, <1>7 DEF Quiet, Calm, OneLive
  <2>2. Attempts <= Attempts'
    BY <1>7, AttemptsGrow DEF Quiet, Calm
  <2>3. Hope' <= Hope
    BY <1>7, HopeIsAlive DEF Quiet, Calm
  <2>4. Cap <= Cap' /\ h <= g /\ unattended' = unattended
    BY <1>2, <1>3, <1>7 DEF Quiet
  <2>5. EachIsCounted'
    BY <1>3, <1>5, <1>6, <2>2, <2>4, AttemptsAreBad
  <2>6. Reserve'
    BY <1>1, <1>3, <1>4, <1>5, <1>6, <2>3, <2>4
  <2> QED BY <2>1, <2>5, <2>6 DEF Budget
<1>8. CASE Charged
  <2>1. PICK d \in Draft : Alive(d) /\ Bad(d)'
    BY <1>8 DEF Charged
  <2>2. ~Bad(d) /\ ~Alive(d)'
    BY <2>1 DEF Alive, Bad
  <2>3. \A e \in Draft : ~Alive(e)'
    BY <1>5, <1>8, <2>1, <2>2 DEF Charged, Calm, OneLive
  <2>4. Hope = 1 /\ Hope' = 0
    BY <2>1, <2>3, HopeIsAlive
  <2>5. Attempts + 1 <= Attempts'
    BY <1>8, <2>1, <2>2, AttemptsGrow DEF Charged, Calm
  <2>6. Cap' = Cap /\ h <= g /\ unattended' = unattended + 1
    BY <1>2, <1>3, <1>8 DEF Charged
  <2>7. EachIsCounted'
    BY <1>3, <1>5, <1>6, <2>5, <2>6, AttemptsAreBad
  <2>8. Reserve'
    BY <1>1, <1>3, <1>5, <1>6, <2>4, <2>6
  <2>9. OneLive'
    BY <2>3 DEF OneLive
  <2> QED BY <2>7, <2>8, <2>9 DEF Budget
<1>9. CASE Taken
  <2>1. Attempts' = Attempts /\ Cap' = Cap /\ unattended' = unattended /\ OneLive'
    BY <1>5, <1>9 DEF Taken, Attempts, Cap, OneLive, Alive
  <2>2. Attempts < Cap
    BY <1>9 DEF Taken
  <2>3. EachIsCounted'
    BY <1>5, <1>6, <2>1
  <2>4. Reserve'
    BY <1>1, <1>3, <1>4, <1>5, <1>6, <2>1, <2>2, AttemptsAreBad
  <2> QED BY <2>1, <2>3, <2>4 DEF Budget
<1>10. CASE Created
  <2>1. PICK s \in Generating : Generating' \subseteq Generating \ {s}
    BY <1>10 DEF Created
  <2>2. h <= g - 1
    <3>1. IsFiniteSet(Generating)
      BY ShippersCount DEF Generating
    <3>2. IsFiniteSet(Generating \ {s}) /\ Cardinality(Generating \ {s}) = g - 1
      BY <3>1, <2>1, FS_RemoveElement
    <3> QED BY <2>1, <3>2, FS_Subset
  <2>3. Hope = 0
    BY <1>10, HopeIsAlive DEF Created
  <2>4. Attempts <= Attempts'
    BY <1>10, AttemptsGrow DEF Created
  <2>5. Cap' = Cap /\ unattended' = unattended
    BY <1>3, <1>10 DEF Created
  <2>6. EachIsCounted'
    BY <1>3, <1>5, <1>6, <2>4, <2>5, AttemptsAreBad
  <2>7. Reserve'
    BY <1>1, <1>3, <1>4, <1>5, <1>6, <2>2, <2>3, <2>5
  <2>8. OneLive'
    BY <1>10 DEF Created, OneLive
  <2> QED BY <2>6, <2>7, <2>8 DEF Budget
<1> QED BY <1>7, <1>8, <1>9, <1>10 DEF BudgetKind

-----------------------------------------------------------------------------
(* What the statements of the stores do to the drafts.                     *)

\* Recording an attempt moves no draft and forgets no failure.
LEMMA NoteKeeps ==
  ASSUME NEW drafts \in [Draft -> DraftType], NEW d \in 0 .. MaxDraft
  PROVE  /\ Note(drafts, d) \in [Draft -> DraftType]
         /\ \A e \in Draft : /\ Note(drafts, d)[e].status = drafts[e].status
                             /\ drafts[e].why = "defect" => Note(drafts, d)[e].why = "defect"
<1>1. CASE d = 0
  BY <1>1 DEF Note
<1>2. CASE d # 0
  <2>1. d \in Draft
    BY <1>2, Parameters DEF Draft
  <2> DEFINE old == drafts[d]
             new == [old EXCEPT !.noted = TRUE,
                                !.why = IF old.why \in {"none", "defect"} THEN old.why ELSE "never"]
  <2>2. old \in DraftType
    BY <2>1
  <2>3. new \in DraftType /\ new.status = old.status /\ (old.why = "defect" => new.why = "defect")
    BY <2>2 DEF DraftType
  <2>4. Note(drafts, d) = [drafts EXCEPT ![d] = new]
    BY <1>2, <2>1, <2>2 DEF Note, DraftType
  <2> HIDE DEF new
  <2> QED BY <2>1, <2>3, <2>4
<1> QED BY <1>1, <1>2

\* A draft is moved on, or gets an error.
LEMMA MovedKeeps ==
  ASSUME draft \in [Draft -> DraftType], NEW d \in Draft,
         NEW status \in {"draft", "submitted", "approved", "pushed", "opened", "implemented"},
         NEW policy \in Policy
  PROVE  /\ Moved(d, status) \in [Draft -> DraftType] /\ Moved(d, status)[d].status = status
         /\ \A e \in Draft \ {d} : Moved(d, status)[e] = draft[e]
         /\ Errs(d, policy) \in [Draft -> DraftType]
         /\ \A e \in Draft : /\ Errs(d, policy)[e].status = draft[e].status
                             /\ Errs(d, policy)[e].why = draft[e].why
  BY DEF Moved, Errs, DraftType

\* So is one whose error stays or is given with the move.
LEMMA AdvanceKeeps ==
  ASSUME draft \in [Draft -> DraftType], NEW d \in Draft,
         NEW status \in {"submitted", "approved"}, NEW policy \in Policy
  PROVE  /\ [draft EXCEPT ![d].status = status, ![d].stalled = FALSE] \in [Draft -> DraftType]
         /\ [draft EXCEPT ![d].status = status, ![d].err = policy, ![d].stalled = FALSE]
              \in [Draft -> DraftType]
<1> DEFINE old == draft[d]
           one == [old EXCEPT !.status = status, !.stalled = FALSE]
           two == [old EXCEPT !.status = status, !.err = policy, !.stalled = FALSE]
<1>1. old \in DraftType
  OBVIOUS
<1>2. one \in DraftType /\ two \in DraftType
  BY <1>1 DEF DraftType
<1>3. /\ [draft EXCEPT ![d].status = status, ![d].stalled = FALSE] = [draft EXCEPT ![d] = one]
      /\ [draft EXCEPT ![d].status = status, ![d].err = policy, ![d].stalled = FALSE]
           = [draft EXCEPT ![d] = two]
  BY <1>1 DEF DraftType
<1> HIDE DEF one, two
<1> QED BY <1>2, <1>3

\* Giving a draft up ends it, and counts it if it failed as defective.
LEMMA AbandonedKeeps ==
  ASSUME draft \in [Draft -> DraftType], NEW d \in Draft, NEW why \in Policy \cup {"never"}
  PROVE  /\ Abandoned(d, why) \in [Draft -> DraftType]
         /\ \A e \in Draft \ {d} : Abandoned(d, why)[e] = draft[e]
         /\ Abandonable(d) => /\ Alive(d) /\ Abandoned(d, why)[d].status = "abandoned"
                              /\ why = "defect" => Abandoned(d, why)[d].why = "defect"
         /\ ~Abandonable(d) => Abandoned(d, why) = draft
<1>1. CASE Abandonable(d)
  <2> DEFINE new == [status |-> "abandoned", err |-> "none", stalled |-> FALSE,
                     why |-> IF draft[d].noted /\ why # "defect" THEN "never" ELSE why,
                     noted |-> draft[d].noted]
  <2>1. Abandoned(d, why) = [draft EXCEPT ![d] = new]
    BY <1>1 DEF Abandoned
  <2>2. new \in DraftType
    BY DEF DraftType
  <2>3. Alive(d)
    BY <1>1 DEF Abandonable, Alive
  <2> HIDE DEF new
  <2>4. /\ Abandoned(d, why) \in [Draft -> DraftType] /\ Abandoned(d, why)[d] = new
        /\ \A e \in Draft \ {d} : Abandoned(d, why)[e] = draft[e]
    BY <2>1, <2>2
  <2> QED BY <1>1, <2>3, <2>4 DEF new
<1>2. CASE ~Abandonable(d)
  BY <1>2 DEF Abandoned
<1> QED BY <1>1, <1>2

\* Whether an abandoned draft is live or counts follows.
LEMMA AbandonIsCalm ==
  ASSUME draft \in [Draft -> DraftType], NEW d \in Draft, NEW why \in Policy \cup {"never"},
         \A e \in Draft : /\ draft'[e].status = Abandoned(d, why)[e].status
                          /\ Abandoned(d, why)[e].why = "defect" => draft'[e].why = "defect"
  PROVE  /\ Calm
         /\ Abandonable(d) /\ why = "defect" => Alive(d) /\ Bad(d)'
<1>1. \A e \in Draft : Alive(e)' <=> Abandoned(d, why)[e].status \notin {"none", "abandoned"}
  BY DEF Alive
<1>2. ASSUME NEW e \in Draft, Alive(e)' PROVE Alive(e)
  <2>1. CASE e = d /\ Abandonable(d)
    BY <2>1, AbandonedKeeps DEF Alive
  <2>2. CASE e # d \/ ~Abandonable(d)
    BY <1>1, <1>2, <2>2, AbandonedKeeps DEF Alive
  <2> QED BY <2>1, <2>2
<1>3. ASSUME NEW e \in Draft, Bad(e) PROVE Bad(e)'
  <2>1. Abandoned(d, why)[e] = draft[e]
    BY <1>3, AbandonedKeeps DEF Bad, Alive
  <2> QED BY <1>3, <2>1 DEF Bad
<1>4. ASSUME Abandonable(d), why = "defect" PROVE Alive(d) /\ Bad(d)'
  BY <1>4, AbandonedKeeps DEF Bad
<1> QED BY <1>2, <1>3, <1>4 DEF Calm

\* Statuses stay, and so does what counts.
LEMMA SameStatus ==
  ASSUME \A e \in Draft : /\ draft'[e].status = draft[e].status
                          /\ draft[e].why = "defect" => draft'[e].why = "defect"
  PROVE  Calm
  BY DEF Calm, Alive, Bad

\* A live draft moves on to another state.
LEMMA MoveIsCalm ==
  ASSUME NEW d \in Draft, Alive(d), \A e \in Draft \ {d} : draft'[e] = draft[e]
  PROVE  Calm
  BY DEF Calm, Alive, Bad

\* The card keeps its type.
LEMMA CardTyped ==
  ASSUME card \in [open : BOOLEAN, blocked : BOOLEAN]
  PROVE  Close \/ Block \/ card' = card => card' \in [open : BOOLEAN, blocked : BOOLEAN]
  BY DEF Close, Block

-----------------------------------------------------------------------------
(* Shippers.                                                               *)

\* A shipper that leaves, gets a draft or goes on with the one it holds no longer generates.
LEMMA ShipMoves ==
  ASSUME ShipShape, NEW s \in Shipper
  PROVE  /\ Leave(s) => ShipShape' /\ Generating' \subseteq Generating \ {s}
         /\ \A d \in Draft : Gets(s, d) => ShipShape' /\ Generating' \subseteq Generating \ {s}
         /\ \A pc \in {"publishing", "applying", "resuming", "batching"} :
              Step(s, pc) /\ Held(s) \in Draft
                => ShipShape' /\ Generating' \subseteq Generating \ {s}
         /\ Step(s, "generating") => ShipShape'
<1>1. ASSUME NEW x \in ShipType, ship' = [ship EXCEPT ![s] = x],
             x.pc \notin {"idle", "generating"} => x.held \in Draft
      PROVE  ShipShape' /\ (x.pc # "generating" => Generating' \subseteq Generating \ {s})
  <2>1. ship' \in [Shipper -> ShipType] /\ ship'[s] = x /\ \A t \in Shipper \ {s} : ship'[t] = ship[t]
    BY <1>1 DEF ShipShape
  <2> QED BY <1>1, <2>1 DEF ShipShape, Generating
<1>2. ASSUME Leave(s) PROVE ShipShape' /\ Generating' \subseteq Generating \ {s}
  <2>1. AtRest \in ShipType /\ AtRest.pc = "idle"
    BY Parameters DEF AtRest, ShipType
  <2> QED BY <1>1, <1>2, <2>1 DEF Leave
<1>3. ASSUME NEW d \in Draft, Gets(s, d) PROVE ShipShape' /\ Generating' \subseteq Generating \ {s}
  <2> DEFINE x == [pc |-> "judging", held |-> d]
  <2>1. x \in ShipType /\ x.pc = "judging" /\ x.held \in Draft
    BY Parameters DEF ShipType
  <2>2. ship' = [ship EXCEPT ![s] = x]
    BY <1>3 DEF Gets
  <2> QED BY <1>1, <2>1, <2>2
<1>4. ASSUME NEW pc \in {"publishing", "applying", "resuming", "batching", "generating"}, Step(s, pc),
             pc # "generating" => Held(s) \in Draft
      PROVE  ShipShape' /\ (pc # "generating" => Generating' \subseteq Generating \ {s})
  <2> DEFINE x == [ship[s] EXCEPT !.pc = pc]
  <2>1. ship[s] \in ShipType
    BY DEF ShipShape
  <2>2. x \in ShipType /\ x.pc = pc /\ x.held = Held(s)
    BY <2>1 DEF ShipType, Held
  <2>3. ship' = [ship EXCEPT ![s] = x]
    BY <1>4 DEF Step
  <2> HIDE DEF x
  <2> QED BY <1>1, <1>4, <2>2, <2>3
<1> QED BY <1>2, <1>3, <1>4

\* A run's catch records its attempt at most.
LEMMA CatchKeeps ==
  ASSUME Shape, NEW s \in Shipper, NEW kind, NEW drafts \in [Draft -> DraftType],
         NEW why \in Policy, NEW stale \in BOOLEAN, Catch(s, kind, drafts, why, stale)
  PROVE  /\ Board' /\ ShipShape' /\ Generating' \subseteq Generating
         /\ \A e \in Draft : /\ draft'[e].status = drafts[e].status
                             /\ drafts[e].why = "defect" => draft'[e].why = "defect"
<1>1. Held(s) \in 0 .. MaxDraft
  BY DEF Shape, ShipShape, ShipType, Held
<1>2. draft' = Note(drafts, Held(s)) \/ draft' = drafts
  BY DEF Catch
<1>3. /\ draft' \in [Draft -> DraftType]
      /\ \A e \in Draft : /\ draft'[e].status = drafts[e].status
                          /\ drafts[e].why = "defect" => draft'[e].why = "defect"
  BY <1>1, <1>2, NoteKeeps
<1>4. card' \in [open : BOOLEAN, blocked : BOOLEAN]
  BY CardTyped DEF Catch, Shape, Board
<1>5. ShipShape' /\ Generating' \subseteq Generating
  BY ShipMoves DEF Catch, Shape
<1> QED BY <1>3, <1>4, <1>5 DEF Board

\* A shipper past generating holds a draft.
LEMMA HoldsOne ==
  ASSUME Shape, NEW s \in Shipper, ship[s].pc \notin {"idle", "generating"}
  PROVE  Held(s) \in Draft
  BY DEF Shape, ShipShape, Held

\* Nothing but the drafts, the card, the shippers and what is given up concerns a shipper.
ShipFrame == UNCHANGED <<cycles, recon, crashes>> /\ unattended' \in Nat

\* Around a shipper's step everything keeps its shape.
LEMMA FrameShape ==
  ASSUME Shape, ShipFrame, Board', ShipShape'
  PROVE  Shape'
  BY DEF Shape, ShipFrame, Counts, ReconShape

\* A run picks the finding up, under the cap.
LEMMA TakeStep ==
  ASSUME Shape, NEW s \in Shipper, Take(s)
  PROVE  Shape' /\ BudgetKind
<1>1. Board' /\ ShipFrame
  BY DEF Take, Shape, Board, Counts, ShipFrame
<1>2. ShipShape'
  BY ShipMoves DEF Take, Shape
<1>3. Taken
  BY DEF Take, Taken
<1> QED BY <1>1, <1>2, <1>3, FrameShape DEF BudgetKind

\* A run gets the draft there is, or makes the one there can be.
LEMMA GenerateStep ==
  ASSUME Shape, NEW s \in Shipper, Generate(s)
  PROVE  Shape' /\ BudgetKind
<1>0. draft \in [Draft -> DraftType]
  BY DEF Shape, Board
<1>1. ship[s].pc = "generating" /\ ShipFrame /\ UNCHANGED <<cycles, unattended>>
  BY DEF Generate, At, Shape, Counts, ShipFrame
<1>2. ASSUME NEW d \in Live, Gets(s, d), UNCHANGED <<draft, card>> PROVE Shape' /\ BudgetKind
  <2>1. d \in Draft
    BY DEF Live
  <2>2. ShipShape' /\ Generating' \subseteq Generating
    BY <1>2, <2>1, ShipMoves DEF Shape
  <2>3. Board' /\ Calm
    BY <1>2, SameStatus DEF Shape, Board
  <2> QED BY <1>1, <2>2, <2>3, FrameShape DEF BudgetKind, Quiet
<1>3. ASSUME NEW d \in Draft, Create(d), Gets(s, d), UNCHANGED card PROVE Shape' /\ BudgetKind
  <2>1. ShipShape' /\ Generating' \subseteq Generating \ {s} /\ s \in Generating
    BY <1>1, <1>3, ShipMoves DEF Shape, Generating
  <2>2. draft' = Moved(d, "draft") /\ Live = {} /\ draft[d].status = "none"
    BY <1>3 DEF Create
  <2>3. draft' \in [Draft -> DraftType] /\ \A e \in Draft \ {d} : draft'[e] = draft[e]
    BY <2>2, MovedKeeps DEF Shape, Board, Policy
  <2>4. Board'
    BY <1>3, <2>3 DEF Shape, Board
  <2>5. \A e \in Draft : ~Alive(e)
    BY <2>2 DEF Live, Alive
  <2>6. \A e \in Draft : Alive(e)' => e = d
    BY <2>3, <2>5 DEF Alive
  <2>7. \A e \in Draft : Bad(e) => Bad(e)'
    BY <2>2, <2>3 DEF Bad
  <2>8. Created
    BY <1>1, <2>1, <2>5, <2>6, <2>7 DEF Created
  <2> QED BY <1>1, <2>1, <2>4, <2>8, FrameShape DEF BudgetKind
<1>4. ASSUME NEW kind, NEW why \in Policy, NEW stale \in BOOLEAN, Catch(s, kind, draft, why, stale)
      PROVE  Shape' /\ BudgetKind
  <2>1. /\ Board' /\ ShipShape' /\ Generating' \subseteq Generating
        /\ \A e \in Draft : /\ draft'[e].status = draft[e].status
                            /\ draft[e].why = "defect" => draft'[e].why = "defect"
    BY <1>0, <1>4, CatchKeeps
  <2>2. Calm
    BY <2>1, SameStatus
  <2> QED BY <1>1, <2>1, <2>2, FrameShape DEF BudgetKind, Quiet
<1> QED BY <1>2, <1>3, <1>4 DEF Generate

\* A run decides from the state of its draft.
LEMMA JudgeStep ==
  ASSUME Shape, NEW s \in Shipper, Judge(s)
  PROVE  Shape' /\ BudgetKind
<1> DEFINE d == Held(s)
<1>1. /\ ship[s].pc = "judging" /\ ShipFrame /\ UNCHANGED <<card, cycles, unattended>>
      /\ d \in Draft /\ draft \in [Draft -> DraftType]
  BY HoldsOne DEF Judge, At, Shape, Board, Counts, ShipFrame
<1>2. ShipShape' /\ Generating' \subseteq Generating
  BY <1>1, ShipMoves DEF Judge, Shape
<1>3. ASSUME draft[d].status = "draft",
             draft' = [draft EXCEPT ![d].status = "submitted", ![d].stalled = FALSE]
      PROVE  Board' /\ Calm
  <2>1. draft' \in [Draft -> DraftType]
    BY <1>1, <1>3, AdvanceKeeps DEF Policy
  <2>3. \A e \in Draft \ {d} : draft'[e] = draft[e]
    BY <1>1, <1>3
  <2>2. Calm
    BY <1>1, <1>3, <2>3, MoveIsCalm DEF Alive
  <2> QED BY <2>1, <2>2, <1>1 DEF Board, Shape
<1>4. ASSUME UNCHANGED draft PROVE Board' /\ Calm
  BY <1>1, <1>4, SameStatus DEF Board, Shape
<1>5. ASSUME draft' = Abandoned(d, "retry") PROVE Board' /\ Calm
  <2>1. "retry" \in Policy \cup {"never"}
    BY DEF Policy
  <2>2. draft' \in [Draft -> DraftType]
    BY <1>1, <1>5, <2>1, AbandonedKeeps
  <2>3. Calm
    BY <1>1, <1>5, <2>1, AbandonIsCalm
  <2> QED BY <1>1, <2>2, <2>3 DEF Board, Shape
<1>6. Board' /\ Calm
  BY <1>3, <1>4, <1>5 DEF Judge
<1> QED BY <1>1, <1>2, <1>6, FrameShape DEF BudgetKind, Quiet

\* What abandoning its draft and leaving through the catch does.
LEMMA GiveUpStep ==
  ASSUME Shape, NEW s \in Shipper, NEW why \in Policy, GiveUp(s, why), UNCHANGED <<cycles, recon, crashes>>,
         ship[s].pc \notin {"idle", "generating"}
  PROVE  Shape' /\ BudgetKind
<1>0. PICK d \in Draft : d = Held(s)
  BY HoldsOne
<1>1. d \in Draft /\ draft \in [Draft -> DraftType]
  BY DEF Shape, Board
<1>2. Abandoned(d, why) \in [Draft -> DraftType]
  BY <1>1, AbandonedKeeps
<1>3. PICK kind \in Kind : Catch(s, kind, Abandoned(d, why), why, FALSE)
  BY <1>0 DEF GiveUp
<1>4. /\ Board' /\ ShipShape' /\ Generating' \subseteq Generating
      /\ \A e \in Draft : /\ draft'[e].status = Abandoned(d, why)[e].status
                          /\ Abandoned(d, why)[e].why = "defect" => draft'[e].why = "defect"
  BY <1>2, <1>3, CatchKeeps
<1>5. Calm /\ (Abandonable(d) /\ why = "defect" => Alive(d) /\ Bad(d)')
  <2>1. why \in Policy \cup {"never"}
    OBVIOUS
  <2>2. \A e \in Draft : /\ draft'[e].status = Abandoned(d, why)[e].status
                         /\ Abandoned(d, why)[e].why = "defect" => draft'[e].why = "defect"
    BY <1>4
  <2> QED BY <1>1, <2>1, <2>2, AbandonIsCalm
<1>6. unattended' = IF Abandonable(d) /\ why = "defect" THEN unattended + 1 ELSE unattended
  BY <1>0 DEF GiveUp, Charge
<1>7. ShipFrame
  BY <1>6 DEF ShipFrame, Shape, Counts
<1>8. CASE Abandonable(d) /\ why = "defect"
  <2>1. Alive(d) /\ Bad(d)' /\ unattended' = unattended + 1
    BY <1>5, <1>6, <1>8
  <2>2. Charged
    BY <1>1, <1>4, <1>5, <2>1 DEF Charged
  <2> QED BY <1>4, <1>7, <2>2, FrameShape DEF BudgetKind
<1>9. CASE ~(Abandonable(d) /\ why = "defect")
  <2>1. Quiet
    BY <1>4, <1>5, <1>6, <1>9 DEF Quiet
  <2> QED BY <1>4, <1>7, <2>1, FrameShape DEF BudgetKind
<1> QED BY <1>8, <1>9

\* A run approves its draft or gives it up.
LEMMA PublishStep ==
  ASSUME Shape, NEW s \in Shipper, Publish(s)
  PROVE  Shape' /\ BudgetKind
<1> DEFINE d == Held(s)
<1>1. /\ ship[s].pc = "publishing" /\ UNCHANGED <<cycles, recon, crashes>>
      /\ d \in Draft /\ draft \in [Draft -> DraftType] /\ "defect" \in Policy
  BY HoldsOne DEF Publish, At, Shape, Board, Policy
<1>2. CASE \E why \in Policy : GiveUp(s, why)
  BY <1>1, <1>2, GiveUpStep
<1>3. CASE /\ draft[d].status = "submitted"
           /\ draft' = [draft EXCEPT ![d].status = "approved", ![d].stalled = FALSE]
           /\ Step(s, "applying") /\ UNCHANGED <<card, unattended>>
  <2>1. draft' \in [Draft -> DraftType]
    BY <1>1, <1>3, AdvanceKeeps
  <2>2. Calm
    <3>1. \A e \in Draft \ {d} : draft'[e] = draft[e]
      BY <1>1, <1>3
    <3> QED BY <1>1, <1>3, <3>1, MoveIsCalm DEF Alive
  <2>3. ShipShape' /\ Generating' \subseteq Generating
    BY <1>1, <1>3, ShipMoves DEF Shape
  <2>4. Board' /\ ShipFrame
    BY <1>1, <1>3, <2>1 DEF Board, Shape, Counts, ShipFrame
  <2> QED BY <1>1, <1>3, <2>2, <2>3, <2>4, FrameShape DEF BudgetKind, Quiet
<1> QED BY <1>1, <1>2, <1>3 DEF Publish

\* A run applies its draft, records the failure on it, or gives it up.
LEMMA ApplyStep ==
  ASSUME Shape, NEW s \in Shipper, Apply(s)
  PROVE  Shape' /\ BudgetKind
<1> DEFINE d == Held(s)
<1>1. /\ ship[s].pc \in {"applying", "resuming"} /\ UNCHANGED <<cycles, recon, crashes>>
      /\ d \in Draft /\ draft \in [Draft -> DraftType]
  BY HoldsOne DEF Apply, At, Shape, Board
<1>2. CASE /\ draft[d].status = "approved" /\ draft' = Moved(d, "pushed") /\ Step(s, "batching")
           /\ UNCHANGED <<card, unattended>>
  <2>1. draft' \in [Draft -> DraftType] /\ \A e \in Draft \ {d} : draft'[e] = draft[e]
    BY <1>1, <1>2, MovedKeeps DEF Policy
  <2>2. Calm
    BY <1>1, <1>2, <2>1, MoveIsCalm DEF Alive
  <2>3. ShipShape' /\ Generating' \subseteq Generating
    BY <1>1, <1>2, ShipMoves DEF Shape
  <2>4. Board' /\ ShipFrame
    BY <1>1, <1>2, <2>1 DEF Board, Shape, Counts, ShipFrame
  <2> QED BY <1>1, <1>2, <2>2, <2>3, <2>4, FrameShape DEF BudgetKind, Quiet
<1>3. ASSUME NEW kind \in Kind, NEW why \in Policy, NEW stale \in BOOLEAN, UNCHANGED unattended,
             Catch(s, kind, IF draft[d].status = "approved" THEN Errs(d, why) ELSE draft, why, stale)
      PROVE  Shape' /\ BudgetKind
  <2> DEFINE old == IF draft[d].status = "approved" THEN Errs(d, why) ELSE draft
  <2>1. /\ old \in [Draft -> DraftType]
        /\ \A e \in Draft : old[e].status = draft[e].status /\ old[e].why = draft[e].why
    BY <1>1, MovedKeeps
  <2> HIDE DEF old
  <2>2. /\ Board' /\ ShipShape' /\ Generating' \subseteq Generating
        /\ \A e \in Draft : /\ draft'[e].status = old[e].status
                            /\ old[e].why = "defect" => draft'[e].why = "defect"
    BY <1>3, <2>1, CatchKeeps DEF old
  <2>3. Calm
    BY <2>1, <2>2, SameStatus
  <2>4. ShipFrame
    BY <1>1, <1>3 DEF ShipFrame, Shape, Counts
  <2> QED BY <1>1, <1>3, <2>2, <2>3, <2>4, FrameShape DEF BudgetKind, Quiet
<1>4. CASE \E why \in Policy : GiveUp(s, why)
  BY <1>1, <1>4, GiveUpStep
<1> QED BY <1>1, <1>2, <1>3, <1>4 DEF Apply

\* A run's batch ends.
LEMMA FinalizeStep ==
  ASSUME Shape, NEW s \in Shipper, Finalize(s)
  PROVE  Shape' /\ BudgetKind
<1> DEFINE d == Held(s)
<1>1. /\ ship[s].pc = "batching" /\ ShipFrame /\ UNCHANGED <<card, cycles, unattended>>
      /\ d \in Draft /\ draft \in [Draft -> DraftType] /\ "retry" \in Policy
  BY HoldsOne DEF Finalize, At, Shape, Board, Counts, ShipFrame, Policy
<1>2. ShipShape' /\ Generating' \subseteq Generating
  BY <1>1, ShipMoves DEF Finalize, Shape
<1>3. ASSUME draft[d].status = "pushed", draft' = Moved(d, "opened") PROVE Board' /\ Calm
  <2>1. draft' \in [Draft -> DraftType] /\ \A e \in Draft \ {d} : draft'[e] = draft[e]
    BY <1>1, <1>3, MovedKeeps
  <2>2. Calm
    BY <1>1, <1>3, <2>1, MoveIsCalm DEF Alive
  <2> QED BY <1>1, <2>1, <2>2 DEF Board, Shape
<1>4. ASSUME draft' = draft PROVE Board' /\ Calm
  BY <1>1, <1>4, SameStatus DEF Board, Shape
<1>5. ASSUME draft' = Errs(d, "retry") PROVE Board' /\ Calm
  <2>1. /\ draft' \in [Draft -> DraftType]
        /\ \A e \in Draft : draft'[e].status = draft[e].status /\ draft'[e].why = draft[e].why
    BY <1>1, <1>5, MovedKeeps
  <2>2. Calm
    BY <2>1, SameStatus
  <2> QED BY <1>1, <2>1, <2>2 DEF Board, Shape
<1>6. ASSUME draft' = Abandoned(d, "retry") PROVE Board' /\ Calm
  <2>1. draft' \in [Draft -> DraftType]
    BY <1>1, <1>6, AbandonedKeeps
  <2>2. Calm
    BY <1>1, <1>6, AbandonIsCalm
  <2> QED BY <1>1, <2>1, <2>2 DEF Board, Shape
<1>7. Board' /\ Calm
  BY <1>3, <1>4, <1>5, <1>6 DEF Finalize
<1> QED BY <1>1, <1>2, <1>7, FrameShape DEF BudgetKind, Quiet

-----------------------------------------------------------------------------
(* The reconciler, people, time and crashes.                               *)

\* Where the reconciler may go without holding a draft that it writes, or with one.
LEMMA ReconMoves ==
  ASSUME ReconShape
  PROVE  /\ \A pc \in {"defects", "stalls", "failures", "weighing"} : To(pc) => ReconShape'
         /\ \A pc \in {"giving_up", "reclaiming", "returning", "reopening"}, d \in Draft :
              With(pc, d) => ReconShape'
         /\ recon' = Resting => ReconShape'
         /\ cycles' = cycles /\ recon.pc \in {"rechecking", "clearing"}
              => /\ \A pc \in {"clearing", "crediting"} : To(pc) => ReconShape'
                 /\ \A d \in Draft : With("crediting", d) => ReconShape'
<1> DEFINE Special == {"giving_up", "reclaiming", "returning", "reopening",
                       "rechecking", "clearing", "crediting"}
<1>1. Resting \in [pc : {"idle"}, held : 0 .. MaxDraft, todo : SUBSET Draft]
  BY Parameters DEF Resting
<1>2. recon' = Resting => ReconShape'
  BY <1>1 DEF ReconShape
<1>3. ASSUME NEW pc, NEW d \in 0 .. MaxDraft, With(pc, d)
      PROVE  recon'.pc = pc /\ recon'.held = d /\ recon'.todo = recon.todo
             /\ recon' = [pc |-> pc, held |-> d, todo |-> recon.todo]
  BY <1>3 DEF With, ReconShape
<1>4. ASSUME NEW pc, To(pc)
      PROVE  With(pc, 0)
  BY <1>4 DEF To, With
<1>5. recon.todo \in SUBSET Draft /\ 0 \in 0 .. MaxDraft /\ Draft \subseteq 0 .. MaxDraft
  BY Parameters DEF ReconShape
<1>6. \A pc \in {"defects", "stalls", "failures", "weighing"} : To(pc) => ReconShape'
  BY <1>3, <1>4, <1>5 DEF ReconShape
<1>7. \A pc \in {"giving_up", "reclaiming", "returning", "reopening"}, d \in Draft :
        With(pc, d) => ReconShape'
  BY <1>3, <1>5 DEF ReconShape
<1>8. ASSUME cycles' = cycles, recon.pc \in {"rechecking", "clearing"}
      PROVE  /\ \A pc \in {"clearing", "crediting"} : To(pc) => ReconShape'
             /\ \A d \in Draft : With("crediting", d) => ReconShape'
  <2>1. cycles' < MaxCycles
    BY <1>8 DEF ReconShape
  <2> QED BY <1>3, <1>4, <1>5, <2>1 DEF ReconShape
<1> QED BY <1>2, <1>6, <1>7, <1>8

\* A step that gives nothing up and starts no run.
QuietFrame == /\ UNCHANGED <<unattended, ship>> /\ cycles' \in {cycles, cycles + 1}
              /\ cycles' \in 0 .. MaxCycles /\ crashes' \in 0 .. MaxCrash

\* Such a step keeps the shape of everything.
LEMMA QuietShape ==
  ASSUME Shape, QuietFrame, Board', ReconShape', Calm
  PROVE  Shape' /\ BudgetKind
<1>1. ShipShape' /\ Generating' = Generating
  BY DEF QuietFrame, Shape, ShipShape, Generating
<1>2. Counts'
  BY DEF QuietFrame, Shape, Counts
<1> QED BY <1>1, <1>2 DEF Shape, QuietFrame, BudgetKind, Quiet

\* The passes that write no draft.
LEMMA PlainReconStep ==
  ASSUME Shape, Start \/ ReadStalled \/ Reopen \/ ReadUnnoted \/ EndNoting \/ Weigh \/ Escalate
                \/ Recheck \/ RecheckInVain
  PROVE  Shape' /\ BudgetKind
<1>1. UNCHANGED <<draft, cycles, crashes, unattended, ship>>
  BY DEF Start, ReadStalled, Reopen, ReadUnnoted, EndNoting, Weigh, Escalate, Recheck, RecheckInVain
<1>2. card' \in [open : BOOLEAN, blocked : BOOLEAN]
  BY CardTyped
     DEF Start, ReadStalled, Reopen, ReadUnnoted, EndNoting, Weigh, Escalate, Recheck, RecheckInVain,
         Shape, Board
<1>3. ReconShape
  BY DEF Shape
<1>4. ReconShape'
  <2>1. CASE Start \/ Reopen \/ EndNoting
    BY <2>1, <1>3, ReconMoves DEF Start, Reopen, EndNoting
  <2>2. CASE ReadStalled
    BY <2>2, <1>3, ReconMoves DEF ReadStalled
  <2>3. CASE ReadUnnoted
    BY <2>3, <1>3 DEF ReadUnnoted, ReconShape, Unnoted
  <2>4. CASE Weigh
    <3>1. CASE recon' = Resting
      BY <1>3, <3>1, ReconMoves
    <3>2. CASE recon' # Resting
      <4> DEFINE pc == IF cycles >= MaxCycles THEN "escalating" ELSE "rechecking"
      <4>1. recon' = [recon EXCEPT !.pc = pc]
        BY <2>4, <3>2 DEF Weigh
      <4>2. pc = "escalating" \/ (pc = "rechecking" /\ cycles' < MaxCycles)
        BY <1>1, Parameters DEF Shape, Counts
      <4> HIDE DEF pc
      <4>3. recon'.pc = pc /\ recon'.held = recon.held /\ recon'.todo = recon.todo
            /\ recon' = [pc |-> pc, held |-> recon.held, todo |-> recon.todo]
        BY <1>3, <4>1 DEF ReconShape
      <4> QED BY <1>3, <4>2, <4>3 DEF ReconShape
    <3> QED BY <3>1, <3>2
  <2>5. CASE Escalate \/ RecheckInVain
    BY <2>5, <1>3, ReconMoves DEF Escalate, RecheckInVain
  <2>6. CASE Recheck
    BY <2>6, <1>1, <1>3, ReconMoves DEF Recheck, On
  <2> QED BY <2>1, <2>2, <2>3, <2>4, <2>5, <2>6
<1>5. Board' /\ Calm /\ QuietFrame
  BY <1>1, <1>2, SameStatus DEF Shape, Board, Counts, QuietFrame
<1> QED BY <1>4, <1>5, QuietShape

\* The passes that record an attempt.
LEMMA NotingStep ==
  ASSUME Shape, ReadDefects \/ RecordReturn \/ Classify \/ Credit
  PROVE  Shape' /\ BudgetKind
<1>0. ReconShape /\ draft \in [Draft -> DraftType] /\ card \in [open : BOOLEAN, blocked : BOOLEAN]
  BY DEF Shape, Board
<1>1. \/ draft' = draft
      \/ \E d \in 0 .. MaxDraft : draft' = Note(draft, d)
  <2>1. CASE ReadDefects
    BY <2>1, Parameters DEF ReadDefects
  <2>2. CASE RecordReturn \/ Credit
    BY <2>2, <1>0 DEF RecordReturn, Credit, ReconShape
  <2>3. CASE Classify
    <3>1. PICK d \in recon.todo : draft' = Note(draft, d)
      BY <2>3 DEF Classify
    <3>2. recon.todo \subseteq Draft
      BY <1>0 DEF ReconShape
    <3> QED BY <3>1, <3>2, Parameters
  <2> QED BY <2>1, <2>2, <2>3
<1>2. draft' \in [Draft -> DraftType] /\ Calm
  BY <1>0, <1>1, NoteKeeps, SameStatus
<1>3. card' \in [open : BOOLEAN, blocked : BOOLEAN]
  BY <1>0, CardTyped DEF ReadDefects, RecordReturn, Classify, Credit
<1>4. ReconShape'
  <2>1. CASE ReadDefects
    BY <1>0, <2>1, ReconMoves DEF ReadDefects
  <2>2. CASE RecordReturn
    BY <1>0, <2>2, ReconMoves DEF RecordReturn, On, ReconShape
  <2>3. CASE Classify
    BY <1>0, <2>3 DEF Classify, ReconShape, On
  <2>4. CASE Credit
    BY <1>0, <2>4, ReconMoves DEF Credit
  <2> QED BY <2>1, <2>2, <2>3, <2>4
<1>5. QuietFrame
  <2>1. CASE Credit
    BY <2>1, <1>0, Parameters DEF Credit, On, ReconShape, Shape, Counts, QuietFrame
  <2>2. CASE ReadDefects \/ RecordReturn \/ Classify
    BY <2>2 DEF ReadDefects, RecordReturn, Classify, Shape, Counts, QuietFrame
  <2> QED BY <2>1, <2>2
<1> QED BY <1>2, <1>3, <1>4, <1>5, QuietShape DEF Board

\* Pass 1 gives up a draft whose apply failed for a reason of its own.
LEMMA AbandonDefectStep ==
  ASSUME Shape, AbandonDefect
  PROVE  Shape' /\ BudgetKind
<1>0. PICK d \in Draft : d = recon.held
  BY DEF AbandonDefect, On, Shape, ReconShape
<1>1. /\ draft' = Abandoned(d, "defect") /\ Charge(d, "defect") /\ draft \in [Draft -> DraftType]
      /\ UNCHANGED <<card, cycles, ship, crashes>> /\ "defect" \in Policy \cup {"never"}
  BY <1>0 DEF AbandonDefect, Shape, Board, Policy
<1>2. draft' \in [Draft -> DraftType]
  BY <1>1, AbandonedKeeps
<1>3. Calm /\ (Abandonable(d) => Alive(d) /\ Bad(d)')
  BY <1>1, AbandonIsCalm
<1>4. unattended' = IF Abandonable(d) THEN unattended + 1 ELSE unattended
  BY <1>1 DEF Charge
<1>5. ReconShape'
  BY ReconMoves DEF AbandonDefect, Shape
<1>6. Board' /\ Counts' /\ ShipShape' /\ Generating' = Generating
  BY <1>1, <1>2, <1>4 DEF Shape, Board, Counts, ShipShape, Generating
<1>7. CASE Abandonable(d)
  <2>1. Alive(d) /\ Bad(d)' /\ unattended' = unattended + 1
    BY <1>3, <1>4, <1>7
  <2>2. Charged
    BY <1>1, <1>3, <1>6, <2>1 DEF Charged
  <2> QED BY <1>5, <1>6, <2>2 DEF Shape, BudgetKind
<1>8. CASE ~Abandonable(d)
  <2>1. Quiet
    BY <1>1, <1>3, <1>4, <1>6, <1>8 DEF Quiet
  <2> QED BY <1>5, <1>6, <2>1 DEF Shape, BudgetKind
<1> QED BY <1>7, <1>8

\* Pass 2 takes a stalled draft back without counting it.
LEMMA ReclaimStep ==
  ASSUME Shape, Reclaim
  PROVE  Shape' /\ BudgetKind
<1>0. PICK d \in Draft : d = recon.held
  BY DEF Reclaim, On, Shape, ReconShape
<1>1. /\ draft' = Abandoned(d, "never") /\ draft \in [Draft -> DraftType]
      /\ UNCHANGED <<card, cycles, ship, unattended, crashes>>
  BY <1>0 DEF Reclaim, Shape, Board
<1>2. draft' \in [Draft -> DraftType] /\ Calm
  BY <1>1, AbandonedKeeps, AbandonIsCalm
<1>3. With("returning", d) \/ To("failures")
  BY <1>0 DEF Reclaim
<1>4. ReconShape'
  BY <1>3, ReconMoves DEF Shape
<1>5. Board' /\ QuietFrame
  BY <1>1, <1>2 DEF Shape, Board, Counts, QuietFrame
<1> QED BY <1>2, <1>4, <1>5, QuietShape

\* Pass 4 clears the live draft; its own reason counts, but it is no failure of a run.
LEMMA ClearDraftStep ==
  ASSUME Shape, ClearDraft
  PROVE  Shape' /\ BudgetKind
<1>1. /\ recon.pc = "clearing" /\ draft \in [Draft -> DraftType] /\ ReconShape
      /\ UNCHANGED <<card, cycles, ship, unattended, crashes>>
  BY DEF ClearDraft, On, Shape, Board
<1>2. ASSUME NEW d \in Live, With("crediting", d), draft' = Abandoned(d, "defect")
      PROVE  ReconShape' /\ draft' \in [Draft -> DraftType] /\ Calm
  <2>1. d \in Draft /\ "defect" \in Policy \cup {"never"}
    BY DEF Live, Policy
  <2>2. draft' \in [Draft -> DraftType] /\ Calm
    BY <1>1, <1>2, <2>1, AbandonedKeeps, AbandonIsCalm
  <2> QED BY <1>1, <1>2, <2>1, <2>2, ReconMoves
<1>3. ASSUME To("crediting"), UNCHANGED draft
      PROVE  ReconShape' /\ draft' \in [Draft -> DraftType] /\ Calm
  BY <1>1, <1>3, ReconMoves, SameStatus
<1>4. ReconShape' /\ draft' \in [Draft -> DraftType] /\ Calm
  BY <1>2, <1>3 DEF ClearDraft
<1>5. Board' /\ QuietFrame
  BY <1>1, <1>4 DEF Shape, Board, Counts, QuietFrame
<1> QED BY <1>4, <1>5, QuietShape

\* Every pass of the reconciler.
LEMMA ReconcileStep ==
  ASSUME Shape, Start \/ Reconcile
  PROVE  Shape' /\ BudgetKind
  BY PlainReconStep, NotingStep, AbandonDefectStep, ReclaimStep, ClearDraftStep DEF Reconcile

\* What people do to a draft.
LEMMA PeopleStep ==
  ASSUME Shape, NEW d \in Draft, People(d)
  PROVE  Shape' /\ BudgetKind
<1>0. draft \in [Draft -> DraftType] /\ card \in [open : BOOLEAN, blocked : BOOLEAN] /\ "retry" \in Policy
  BY DEF Shape, Board, Policy
<1>1. UNCHANGED <<cycles, recon, ship, unattended, crashes>>
  BY DEF People, PersonSubmits, PersonApproves, PersonRejects, Merge, ClosePr
<1>2. ASSUME \/ PersonSubmits(d) \/ Merge(d)
             \/ draft[d].status = "submitted" /\ draft' = Moved(d, "opened")
      PROVE  draft' \in [Draft -> DraftType] /\ Calm
  <2>1. /\ Alive(d) /\ draft' \in [Draft -> DraftType]
        /\ \A e \in Draft \ {d} : draft'[e] = draft[e]
    BY <1>0, <1>2, MovedKeeps DEF PersonSubmits, Merge, Alive
  <2> QED BY <2>1, MoveIsCalm
<1>3. ASSUME NEW why \in Policy, draft[d].status = "submitted",
             draft' = [draft EXCEPT ![d].status = "approved", ![d].err = why, ![d].stalled = FALSE]
      PROVE  draft' \in [Draft -> DraftType] /\ Calm
  <2>1. Alive(d) /\ draft' \in [Draft -> DraftType]
    BY <1>0, <1>3, AdvanceKeeps DEF Alive
  <2>2. \A e \in Draft \ {d} : draft'[e] = draft[e]
    BY <1>0, <1>3
  <2> QED BY <2>1, <2>2, MoveIsCalm
<1>4. ASSUME PersonRejects(d)
      PROVE  draft' \in [Draft -> DraftType] /\ Calm
  BY <1>0, <1>4, AbandonedKeeps, AbandonIsCalm DEF PersonRejects, Policy
<1>5. ASSUME ClosePr(d)
      PROVE  draft' \in [Draft -> DraftType] /\ Calm
  <2> DEFINE new == [draft[d] EXCEPT !.status = "abandoned", !.why = "never", !.noted = TRUE]
  <2>1. new \in DraftType /\ Alive(d)
    BY <1>0, <1>5 DEF DraftType, ClosePr, Alive
  <2>2. draft' = [draft EXCEPT ![d] = new]
    BY <1>0, <1>5 DEF ClosePr, DraftType
  <2> HIDE DEF new
  <2>3. draft' \in [Draft -> DraftType] /\ \A e \in Draft \ {d} : draft'[e] = draft[e]
    BY <1>0, <2>1, <2>2
  <2> QED BY <2>1, <2>3, MoveIsCalm
<1>6. draft' \in [Draft -> DraftType] /\ Calm
  BY <1>0, <1>2, <1>3, <1>4, <1>5 DEF People, PersonApproves
<1>7. card' \in [open : BOOLEAN, blocked : BOOLEAN]
  BY <1>0 DEF People, PersonSubmits, PersonApproves, PersonRejects, Merge, ClosePr
<1>8. Board' /\ QuietFrame /\ ReconShape'
  BY <1>1, <1>6, <1>7 DEF Shape, Board, Counts, QuietFrame, ReconShape
<1> QED BY <1>6, <1>8, QuietShape

\* Time passes, a sync clears a block, a process is killed.
LEMMA OutsideStep ==
  ASSUME Shape, Unblock \/ CrashReconciler \/ (\E d \in Draft : Stall(d)) \/ (\E s \in Shipper : CrashShipper(s))
  PROVE  Shape' /\ BudgetKind
<1>0. draft \in [Draft -> DraftType] /\ card \in [open : BOOLEAN, blocked : BOOLEAN] /\ ReconShape
  BY DEF Shape, Board
<1>1. CASE Unblock
  <2>1. Board' /\ QuietFrame /\ ReconShape' /\ Calm
    BY <1>0, <1>1, SameStatus DEF Unblock, Shape, Board, Counts, QuietFrame, ReconShape
  <2> QED BY <2>1, QuietShape
<1>2. CASE CrashReconciler
  <2>1. ReconShape'
    BY <1>0, <1>2, ReconMoves DEF CrashReconciler
  <2>2. Board' /\ Calm
    BY <1>0, <1>2, SameStatus DEF CrashReconciler, Board
  <2>3. QuietFrame
    BY <1>2, Parameters DEF CrashReconciler, Shape, Counts, QuietFrame
  <2> QED BY <2>1, <2>2, <2>3, QuietShape
<1>3. ASSUME NEW d \in Draft, Stall(d) PROVE Shape' /\ BudgetKind
  <2> DEFINE new == [draft[d] EXCEPT !.stalled = TRUE]
  <2>1. new \in DraftType /\ Alive(d)
    BY <1>0, <1>3 DEF DraftType, Stall, Alive
  <2>2. draft' = [draft EXCEPT ![d] = new]
    BY <1>0, <1>3 DEF Stall, DraftType
  <2> HIDE DEF new
  <2>3. draft' \in [Draft -> DraftType] /\ Calm
    BY <1>0, <2>1, <2>2, MoveIsCalm
  <2>4. Board' /\ QuietFrame /\ ReconShape'
    BY <1>0, <1>3, <2>3 DEF Stall, Shape, Board, Counts, QuietFrame, ReconShape
  <2> QED BY <2>3, <2>4, QuietShape
<1>4. ASSUME NEW s \in Shipper, CrashShipper(s) PROVE Shape' /\ BudgetKind
  <2>1. ShipShape' /\ Generating' \subseteq Generating
    BY <1>4, ShipMoves DEF CrashShipper, Shape
  <2>2. Board' /\ Calm
    BY <1>0, <1>4, SameStatus DEF CrashShipper, Board
  <2>3. Counts' /\ ReconShape' /\ UNCHANGED <<cycles, unattended>>
    BY <1>0, <1>4, Parameters DEF CrashShipper, Shape, Counts, ReconShape
  <2> QED BY <2>1, <2>2, <2>3 DEF Shape, BudgetKind, Quiet
<1> QED BY <1>1, <1>2, <1>3, <1>4

-----------------------------------------------------------------------------
(* The theorems.                                                           *)

\* At first there is no draft and no attempt.
LEMMA RecoveryInit == Init => RecoveryInv
<1> SUFFICES ASSUME Init PROVE RecoveryInv
  OBVIOUS
<1>1. Board
  BY DEF Init, Board, DraftType
<1>2. Counts /\ unattended = 0
  BY Parameters DEF Init, Counts
<1>3. ReconShape
  BY Parameters DEF Init, Resting, ReconShape
<1>4. ShipShape /\ Generating = {}
  BY Parameters DEF Init, AtRest, ShipShape, ShipType, Generating
<1>5. \A d \in Draft : ~Alive(d)
  BY DEF Init, Alive
<1>6. OneLive /\ Hope = 0
  BY <1>5, HopeIsAlive DEF OneLive
<1>7. EachIsCounted
  BY <1>2, AttemptsAreBad DEF EachIsCounted
<1>8. Reserve
  <2>1. Cardinality(Generating) = 0
    BY <1>4, FS_EmptySet
  <2>2. Cap \in Nat
    BY <1>2, CapGrows DEF Cap, Counts
  <2> QED BY <1>2, <1>6, <2>1, <2>2, Parameters DEF Reserve
<1> QED BY <1>1, <1>2, <1>3, <1>4, <1>6, <1>7, <1>8 DEF RecoveryInv, Shape, Budget

\* Every step keeps the invariant.
LEMMA RecoveryStep == RecoveryInv /\ [Next]_vars => RecoveryInv'
<1> SUFFICES ASSUME RecoveryInv, [Next]_vars PROVE RecoveryInv'
  OBVIOUS
<1>1. Shape
  BY DEF RecoveryInv
<1>2. CASE Next
  <2>1. Shape' /\ BudgetKind
    BY <1>1, <1>2, TakeStep, GenerateStep, JudgeStep, PublishStep, ApplyStep, FinalizeStep,
       ReconcileStep, PeopleStep, OutsideStep DEF Next, Ship
  <2>2. Budget'
    BY <2>1, BudgetStep DEF Shape
  <2> QED BY <2>1, <2>2 DEF RecoveryInv
<1>3. CASE UNCHANGED vars
  BY <1>3 DEF vars, RecoveryInv, Shape, Board, Counts, ReconShape, ShipShape, Budget, OneLive, Alive,
              EachIsCounted, Attempts, Reserve, Hope, Live, Generating, Cap
<1> QED BY <1>2, <1>3

\* The invariant of a finding's recovery.
THEOREM RecoveryIsConsistent == Spec => []RecoveryInv
<1>1. Init /\ [][Next]_vars => []RecoveryInv
  BY RecoveryInit, RecoveryStep, PTL
<1> QED BY <1>1, PTL DEF Spec, Fairness

\* Drafts, the card, the reconciler and the shippers keep their types.
THEOREM TypeCorrect == Spec => []TypeOK
<1>1. RecoveryInv => TypeOK
  <2> SUFFICES ASSUME RecoveryInv PROVE TypeOK
    OBVIOUS
  <2>1. unattended \in 0 .. MaxDraft
    BY AttemptsAreBad, Parameters DEF RecoveryInv, Budget, EachIsCounted, Shape, Counts
  <2> QED
    BY <2>1 DEF RecoveryInv, Shape, Board, DraftType, Counts, ReconShape, ShipShape, ShipType, TypeOK
<1> QED BY <1>1, RecoveryIsConsistent, PTL

\* However passes, crashes and runs interleave, a finding is given up as defective at most
\* MAX_FAILED_ATTEMPTS times for each evidence it was drafted on, and once more for each
\* run that had picked it up already (ship-pacing.js).
THEOREM FailuresAreBounded == Spec => []FailuresBounded
<1>1. RecoveryInv => FailuresBounded
  <2> SUFFICES ASSUME RecoveryInv PROVE FailuresBounded
    OBVIOUS
  <2>1. Cardinality(Generating) \in Nat /\ Hope \in {0, 1} /\ unattended \in Nat /\ Cap \in Nat
    BY ShippersCount, CapGrows DEF Generating, Hope, RecoveryInv, Shape, Counts, Cap
  <2> QED BY <2>1, Parameters DEF RecoveryInv, Budget, Reserve, FailuresBounded
<1> QED BY <1>1, RecoveryIsConsistent, PTL

=============================================================================
