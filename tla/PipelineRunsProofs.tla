--------------------------- MODULE PipelineRunsProofs ---------------------------
(***************************************************************************)
(* A day's checkpoints for every number of stages, attempts, passes,       *)
(* crashes and failed writes (PipelineRuns).                               *)
(*                                                                         *)
(* The argument: beginStage counts an attempt in the same statement that   *)
(* starts the stage, so the row knows every start.  A row that is not      *)
(* failed when a walk passes a required stage is done, running or          *)
(* deferred: done rows are true, running ones are somebody else's, and     *)
(* rows are deferred only after the deadline, when nothing starts.         *)
(*                                                                         *)
(* Whoever is still waited for holds the lock, so there is one such pass:  *)
(* while it runs a stage, a done that appears in the row is of a run that  *)
(* was given up on, and that is what it may write over.                    *)
(***************************************************************************)
EXTENDS PipelineRuns, TLAPS

AtAStage == Begin \cup {"executing"}

\* A walk that has not begun stands before the first stage; one at a stage is not past
\* the last.
PlaceIsStage ==
  \A p \in Pass : /\ walk[p].pc = "idle" => walk[p].at = 1
                  /\ walk[p].pc \in AtAStage => walk[p].at \in Stage

\* A stage without a row was never attempted, no row says "skipped", and a walk beyond
\* beginStage's INSERT finds a row.
RowIsThere ==
  /\ \A s \in Stage : row[s].status = "none" => row[s].attempts = 0
  /\ \A s \in Stage : row[s].status # "skipped"
  /\ \A p \in Pass : walk[p].pc \in {"retaking", "reading", "executing"} => row[walk[p].at].status # "none"

\* A done row tells the truth, and only the deadline defers.
RowIsTrue ==
  \A s \in Stage : /\ row[s].status = "done" => s \in produced
                   /\ row[s].status = "deferred" => late

Known(p, r) == r \in produced \cup walk[p].trusted

\* What a walk knows of the required stages it has passed.
WalkKnows ==
  \A p \in Pass : \A r \in Required :
    r < walk[p].at =>
      /\ walk[p].pc \in AtAStage => Known(p, r)
      /\ walk[p].pc = "checking" => Known(p, r) \/ late

DayInv == TypeOK /\ StartsWithinBudget /\ PlaceIsStage /\ RowIsThere /\ RowIsTrue /\ WalkKnows

-----------------------------------------------------------------------------
(* Type correctness.                                                       *)

\* What the constants are.
LEMMA Parameters ==
  /\ Stages \in Nat /\ MaxAttempts \in Nat \ {0} /\ Passes \in Nat
  /\ MaxCrash \in Nat /\ MaxFault \in Nat
  /\ Required \subseteq Stage /\ Required \cap Gated = {} /\ Required \cap MaySkip = {}
  /\ \A s \in Stage : s \in Nat /\ s >= 1 /\ s <= Stages /\ s + 1 \in 1 .. Stages + 1
  /\ \A s \in 1 .. Stages + 1 : s <= Stages => s \in Stage
  /\ 0 \in 0 .. Stages
  /\ \A p \in Pass : p # 0 /\ p \in 0 .. Passes
  BY PipelineAssumption DEF Stage, Pass

RowType == [status : Status, attempts : 0 .. MaxAttempts]
WalkType == [pc : Place, at : 1 .. Stages + 1, aborted : BOOLEAN,
             timed : 0 .. Stages, trusted : SUBSET Stage]

\* Each stage's row keeps its type when one of them is relabelled.
LEMMA RecordTyped ==
  ASSUME TypeOK, NEW s \in Stage, NEW status \in Status, Record(s, status)
  PROVE  row' \in [Stage -> RowType]
  BY DEF TypeOK, Record, RowType

\* Each walk keeps its type when one of them changes place.
LEMMA GoTyped ==
  ASSUME TypeOK, NEW p \in Pass, NEW pc \in Place, Go(p, pc)
  PROVE  walk' \in [Pass -> WalkType]
  BY DEF TypeOK, Go, WalkType

\* A walk at a stage has a next place to be at.
LEMMA NextStageTyped ==
  ASSUME TypeOK, NEW p \in Pass, walk[p].at \in Stage, NextStage(p)
  PROVE  walk' \in [Pass -> WalkType]
<1>1. walk[p].at + 1 \in 1 .. Stages + 1
  BY Parameters
<1>2. walk' = [walk EXCEPT ![p] = [walk[p] EXCEPT !.pc = "checking", !.at = walk[p].at + 1]]
  BY DEF NextStage, TypeOK
<1>3. [walk[p] EXCEPT !.pc = "checking", !.at = walk[p].at + 1] \in WalkType
  BY <1>1 DEF TypeOK, WalkType, Place
<1> QED BY <1>2, <1>3 DEF TypeOK, WalkType

\* One attempt more, where one is left, is within the type.
LEMMA StartTyped ==
  ASSUME TypeOK, NEW s \in Stage, NEW n \in 0 .. MaxAttempts,
         row' = [row EXCEPT ![s] = [status |-> "running", attempts |-> n]]
  PROVE  row' \in [Stage -> RowType]
<1>1. [status |-> "running", attempts |-> n] \in RowType
  BY DEF RowType, Status
<1> QED BY <1>1 DEF TypeOK, RowType

\* No step leaves the types or spends more than the attempts of a stage.
LEMMA TypeStep ==
  ASSUME TypeOK, StartsWithinBudget, PlaceIsStage, RowIsThere, [Next]_vars
  PROVE  TypeOK' /\ StartsWithinBudget'
<1> USE DEF rows, history, clock, bounds
<1>0. ASSUME UNCHANGED <<starts, clock, history, bounds>>,
             row' \in [Stage -> RowType], walk' \in [Pass -> WalkType], holder' \in 0 .. Passes,
             \A s \in Stage : row'[s].attempts = row[s].attempts
      PROVE  TypeOK' /\ StartsWithinBudget'
  BY <1>0 DEF TypeOK, RowType, WalkType, StartsWithinBudget
<1>w. row \in [Stage -> RowType] /\ walk \in [Pass -> WalkType]
  BY DEF TypeOK, RowType, WalkType
<1>1. ASSUME NEW p \in Pass, StartPass(p) PROVE TypeOK' /\ StartsWithinBudget'
  <2>1. row' \in [Stage -> RowType] /\ \A s \in Stage : row'[s].attempts = row[s].attempts
    <3>1. PICK old \in SUBSET {s \in Stage : row[s].status = "running"} :
            row' = [s \in Stage |-> IF s \in old THEN [row[s] EXCEPT !.status = "failed"] ELSE row[s]]
      BY <1>1 DEF StartPass
    <3> QED BY <3>1 DEF TypeOK, RowType, Status
  <2>2. walk' \in [Pass -> WalkType]
    BY <1>1, GoTyped DEF StartPass, Place
  <2> QED BY <1>0, <1>1, <2>1, <2>2, Parameters DEF StartPass
<1>2. ASSUME NEW p \in Pass, EndPass(p) PROVE TypeOK' /\ StartsWithinBudget'
  BY <1>0, <1>2, <1>w, Parameters DEF EndPass
<1>3. ASSUME NEW p \in Pass, StopWaiting(p) PROVE TypeOK' /\ StartsWithinBudget'
  <2>1. walk' \in [Pass -> WalkType]
    <3>1. PICK t \in 0 .. Stages :
            walk' = [walk EXCEPT ![p] = [walk[p] EXCEPT !.aborted = TRUE, !.timed = t]]
      <4>1. walk' = [walk EXCEPT ![p] = [walk[p] EXCEPT !.aborted = TRUE,
                       !.timed = IF walk[p].pc = "executing" THEN walk[p].at ELSE 0]]
        BY <1>3, <1>w DEF StopWaiting, WalkType
      <4>2. walk[p].pc = "executing" => walk[p].at \in 0 .. Stages
        BY Parameters DEF PlaceIsStage, AtAStage
      <4>3. 0 \in 0 .. Stages
        BY Parameters
      <4> QED BY <4>1, <4>2, <4>3
    <3> QED BY <3>1, <1>w DEF WalkType
  <2> QED BY <1>0, <1>3, <1>w, <2>1, Parameters DEF StopWaiting
<1>4. ASSUME NEW p \in Pass, RecordTimeout(p) PROVE TypeOK' /\ StartsWithinBudget'
  <2>1. walk[p].timed \in Stage
    BY <1>4, Parameters DEF RecordTimeout, TypeOK, Stage
  <2>2. walk' \in [Pass -> WalkType] /\ holder' \in 0 .. Passes
    BY <1>4, <1>w, Parameters DEF RecordTimeout, WalkType
  <2>3. CASE Record(walk[p].timed, "failed") /\ UNCHANGED faults
    <3>1. row' \in [Stage -> RowType]
      BY <2>1, <2>3, RecordTyped DEF Status
    <3>2. \A s \in Stage : row'[s].attempts = row[s].attempts
      BY <2>1, <2>3, <1>w DEF Record, RowType
    <3> QED BY <1>0, <1>4, <2>2, <2>3, <3>1, <3>2 DEF RecordTimeout
  <2>4. CASE WriteFails /\ UNCHANGED row
    BY <1>4, <2>2, <2>4, Parameters DEF RecordTimeout, WriteFails, TypeOK, WalkType, StartsWithinBudget
  <2> QED BY <1>4, <2>3, <2>4 DEF RecordTimeout
<1>5. ASSUME NEW p \in Pass, Check(p) PROVE TypeOK' /\ StartsWithinBudget'
  <2> DEFINE s == walk[p].at
  <2>1. CASE Return(p) /\ UNCHANGED row
    <3>1. walk' \in [Pass -> WalkType]
      BY <2>1, GoTyped DEF Return, Place
    <3> QED BY <1>0, <1>5, <1>w, <2>1, <3>1 DEF Check, TypeOK
  <2>2. CASE ~(s > Stages) /\ NextStage(p) /\ row' = [row EXCEPT ![s] = Deferred(row[s])]
    <3>1. s \in Stage
      BY <2>2, Parameters DEF TypeOK
    <3>2. Deferred(row[s]) \in RowType /\ Deferred(row[s]).attempts = row[s].attempts
      BY <3>1, <1>w DEF Deferred, RowType, Status
    <3>3. row' \in [Stage -> RowType] /\ \A k \in Stage : row'[k].attempts = row[k].attempts
      BY <2>2, <3>1, <3>2, <1>w
    <3>4. walk' \in [Pass -> WalkType]
      BY <2>2, <3>1, NextStageTyped
    <3> QED BY <1>0, <1>5, <3>3, <3>4 DEF Check, TypeOK
  <2>3. CASE ~(s > Stages) /\ (NextStage(p) \/ Go(p, "inserting")) /\ UNCHANGED row
    <3>1. s \in Stage
      BY <2>3, Parameters DEF TypeOK
    <3>2. walk' \in [Pass -> WalkType]
      BY <2>3, <3>1, NextStageTyped, GoTyped DEF Place, Begin
    <3> QED BY <1>0, <1>5, <1>w, <2>3, <3>2 DEF Check, TypeOK
  <2> QED BY <1>5, <2>1, <2>2, <2>3 DEF Check
<1>6. ASSUME NEW p \in Pass, Insert(p) \/ Retake(p) PROVE TypeOK' /\ StartsWithinBudget'
  <2> DEFINE s == walk[p].at
  <2>1. s \in Stage
    BY <1>6 DEF PlaceIsStage, AtAStage, Begin, Insert, Retake
  <2>2. walk' \in [Pass -> WalkType]
    BY <1>6, GoTyped DEF Insert, Retake, Place, Begin
  <2>3. CASE UNCHANGED rows
    BY <1>6, <1>w, <2>2, <2>3, <1>0 DEF Insert, Retake, TypeOK
  <2>4. ASSUME NEW n \in 0 .. MaxAttempts, n = starts[s] + 1,
               row' = [row EXCEPT ![s] = [status |-> "running", attempts |-> n]],
               starts' = [starts EXCEPT ![s] = starts[s] + 1]
        PROVE  TypeOK' /\ StartsWithinBudget'
    <3>1. row' \in [Stage -> RowType]
      BY <2>1, <2>4, StartTyped
    <3>2. StartsWithinBudget' /\ starts' \in [Stage -> 0 .. MaxAttempts]
      BY <2>1, <2>4, <1>w, Parameters DEF StartsWithinBudget, RowType, TypeOK
    <3> QED BY <1>6, <2>2, <3>1, <3>2 DEF Insert, Retake, TypeOK, RowType, WalkType
  <2>5. CASE Insert(p) /\ row[s].status = "none"
    <3>1. starts[s] = 0 /\ 1 \in 0 .. MaxAttempts
      BY <2>1, <2>5, Parameters DEF RowIsThere, StartsWithinBudget
    <3> QED BY <2>4, <2>5, <3>1 DEF Insert
  <2>6. CASE Retake(p) /\ row[s].attempts < MaxAttempts /\ ~UNCHANGED rows
    <3>1. starts[s] = row[s].attempts /\ row[s].attempts + 1 \in 0 .. MaxAttempts
      BY <2>1, <2>6, <1>w, Parameters DEF StartsWithinBudget, RowType
    <3>2. row' = [row EXCEPT ![s] = [status |-> "running", attempts |-> row[s].attempts + 1]]
          /\ starts' = [starts EXCEPT ![s] = starts[s] + 1]
      BY <2>6 DEF Retake
    <3> QED BY <2>4, <3>1, <3>2
  <2> QED BY <1>6, <2>3, <2>5, <2>6 DEF Insert, Retake
<1>7. ASSUME NEW p \in Pass, Read(p) PROVE TypeOK' /\ StartsWithinBudget'
  <2>1. walk[p].at \in Stage
    BY <1>7 DEF PlaceIsStage, AtAStage, Begin, Read
  <2>2. walk' \in [Pass -> WalkType]
    <3>1. CASE Return(p)
      BY <3>1, GoTyped DEF Return, Place
    <3>2. ASSUME NEW here \in SUBSET Stage,
                 walk' = [walk EXCEPT ![p] = [walk[p] EXCEPT !.pc = "checking", !.at = walk[p].at + 1,
                                                             !.trusted = walk[p].trusted \cup here]]
          PROVE  walk' \in [Pass -> WalkType]
      <4>1. walk[p].at + 1 \in 1 .. Stages + 1
        BY <2>1, Parameters
      <4> QED BY <3>2, <4>1, <1>w DEF WalkType, Place
    <3> DEFINE elsewhere == IF row[walk[p].at].status = "running" THEN {walk[p].at} ELSE {}
    <3>3. elsewhere \in SUBSET Stage
      BY <2>1
    <3>4. CASE row[walk[p].at].status = "failed" /\ walk[p].at \in Required
      BY <1>7, <3>1, <3>4 DEF Read
    <3>5. CASE ~(row[walk[p].at].status = "failed" /\ walk[p].at \in Required)
      <4>1. walk' = [walk EXCEPT ![p] = [walk[p] EXCEPT !.pc = "checking", !.at = walk[p].at + 1,
                                                        !.trusted = walk[p].trusted \cup elsewhere]]
        BY <1>7, <3>5 DEF Read
      <4> QED BY <3>2, <3>3, <4>1
    <3> QED BY <3>4, <3>5
  <2> QED BY <1>0, <1>7, <1>w, <2>2 DEF Read, TypeOK
<1>8. ASSUME NEW p \in Pass, Finish(p) \/ Skip(p) \/ Throw(p) \/ FinishFails(p)
      PROVE  TypeOK' /\ StartsWithinBudget'
  <2>1. walk[p].at \in Stage
    BY <1>8 DEF PlaceIsStage, AtAStage, Finish, Skip, Throw, FinishFails
  <2>2. walk' \in [Pass -> WalkType]
    BY <1>8, <2>1, NextStageTyped, GoTyped
       DEF Finish, Skip, Throw, FinishFails, AfterFailure, Return, Place
  <2>3. row' \in [Stage -> RowType]
    BY <1>8, <2>1, <1>w, RecordTyped DEF Finish, Skip, Throw, FinishFails, Status
  <2>4. \A s \in Stage : row'[s].attempts = row[s].attempts
    BY <1>8, <2>1, <1>w DEF Finish, Skip, Throw, FinishFails, Record, RowType
  <2>5. /\ UNCHANGED <<starts, holder, late, open, crashes>>
        /\ produced' \subseteq Stage /\ skips' \subseteq Stage /\ belated' \subseteq Stage
        /\ faults' \in 0 .. MaxFault
    BY <1>8, <2>1, Parameters DEF Finish, Skip, Throw, FinishFails, WriteFails, TypeOK
  <2> QED BY <2>2, <2>3, <2>4, <2>5 DEF TypeOK, RowType, WalkType, StartsWithinBudget
<1>9. ASSUME NEW s \in Stage, Open(s) PROVE TypeOK' /\ StartsWithinBudget'
  BY <1>9 DEF Open, TypeOK, StartsWithinBudget
<1>10. CASE Deadline
  BY <1>10 DEF Deadline, TypeOK, StartsWithinBudget
<1>11. CASE Crash
  <2>1. walk' \in [Pass -> WalkType]
    <3>1. \A p \in Pass : [walk[p] EXCEPT !.pc = "ended", !.timed = 0] \in WalkType
      BY <1>w, Parameters DEF WalkType, Place
    <3>2. PICK dead : walk' = [p \in Pass |-> IF p \in dead
                                               THEN [walk[p] EXCEPT !.pc = "ended", !.timed = 0]
                                               ELSE walk[p]]
      BY <1>11 DEF Crash
    <3> QED BY <1>w, <3>1, <3>2
  <2>2. holder' = holder \/ holder' = 0
    BY <1>11 DEF Crash
  <2>3. holder' \in 0 .. Passes
    BY <2>2, Parameters DEF TypeOK
  <2>4. crashes' \in 0 .. MaxCrash
    <3>1. crashes < MaxCrash /\ crashes' = crashes + 1
      BY <1>11 DEF Crash
    <3> QED BY <3>1, Parameters DEF TypeOK
  <2> QED BY <1>11, <2>1, <2>3, <2>4 DEF Crash, TypeOK, WalkType, StartsWithinBudget
<1>12. CASE UNCHANGED vars
  BY <1>12 DEF vars, TypeOK, StartsWithinBudget
<1> QED
  BY <1>1, <1>2, <1>3, <1>4, <1>5, <1>6, <1>7, <1>8, <1>9, <1>10, <1>11, <1>12 DEF Next, Run

\* Where a step leaves a walk: as it was but for the flags of its wrapper, at its end,
\* begun, at the next stage, or further inside the same one.
Same(p) == walk'[p].pc = walk[p].pc /\ walk'[p].at = walk[p].at /\ walk'[p].trusted = walk[p].trusted
Ended(p) == walk'[p].pc = "ended"
Begun(p) == walk[p].pc = "idle" /\ walk'[p].pc = "checking" /\ walk'[p].at = walk[p].at
Admitted(p) == /\ walk[p].pc = "checking" /\ ~late
               /\ walk'[p].pc = "inserting" /\ walk'[p].at = walk[p].at /\ walk[p].at \in Stage
               /\ walk'[p].trusted = walk[p].trusted
Inside(p) == /\ walk[p].pc \in AtAStage /\ walk'[p].pc \in AtAStage
             /\ walk'[p].at = walk[p].at /\ walk'[p].trusted = walk[p].trusted
             /\ row'[walk[p].at].status # "none"

\* A walk goes on to the next stage when the day is late, when the stage is not required,
\* or when it finished it, or read its row and did not stop.
Onwards(p) ==
  LET s == walk[p].at
  IN  /\ walk'[p].pc = "checking" /\ walk'[p].at = s + 1
      /\ walk[p].trusted \subseteq walk'[p].trusted
      /\ walk[p].pc \in AtAStage \cup {"checking"}
      /\ \/ walk[p].pc = "checking" /\ (late \/ s \in Gated)
         \/ walk[p].pc = "executing" /\ (s \in produced' \/ s \notin Required)
         \/ /\ walk[p].pc = "reading"
            /\ row[s].status = "running" => s \in walk'[p].trusted
            /\ row[s].status = "failed" => s \notin Required

WalkMoves(p) == Same(p) \/ Ended(p) \/ Begun(p) \/ Admitted(p) \/ Inside(p) \/ Onwards(p)

\* Every step leaves every walk in one of these ways.
LEMMA WalkStep ==
  ASSUME TypeOK, PlaceIsStage, RowIsThere, [Next]_vars, NEW p \in Pass
  PROVE  WalkMoves(p) /\ produced \subseteq produced' /\ (late => late')
<1> USE DEF rows, history, clock, bounds
<1>w. walk \in [Pass -> WalkType]
  BY DEF TypeOK, WalkType
<1>s. ASSUME walk'[p] = walk[p] PROVE WalkMoves(p)
  BY <1>s DEF WalkMoves, Same
<1>1. ASSUME NEW q \in Pass, StartPass(q) \/ EndPass(q) \/ StopWaiting(q) \/ RecordTimeout(q)
      PROVE  WalkMoves(p) /\ produced \subseteq produced' /\ (late => late')
  <2>1. CASE StartPass(q)
    BY <2>1, <1>w, <1>s DEF StartPass, Go, WalkType, WalkMoves, Begun
  <2>2. CASE EndPass(q) \/ StopWaiting(q) \/ RecordTimeout(q)
    BY <2>2, <1>w DEF EndPass, StopWaiting, RecordTimeout, WalkType, WalkMoves, Same
  <2> QED BY <1>1, <2>1, <2>2
<1>2. ASSUME NEW q \in Pass, Check(q) PROVE WalkMoves(p) /\ produced \subseteq produced' /\ (late => late')
  <2>0. CASE p # q
    BY <1>2, <2>0, <1>w, <1>s DEF Check, Go, Return, NextStage
  <2>1. CASE p = q /\ Return(q)
    BY <1>2, <2>1, <1>w DEF Check, Return, Go, WalkType, WalkMoves, Ended
  <2>2. CASE p = q /\ NextStage(q) /\ (late \/ walk[q].at \in Gated)
    BY <1>2, <2>2, <1>w DEF Check, NextStage, WalkType, WalkMoves, Onwards
  <2>3. CASE p = q /\ Go(q, "inserting") /\ ~late /\ ~(walk[q].at > Stages)
    BY <1>2, <2>3, <1>w, Parameters DEF Check, Go, WalkType, WalkMoves, Admitted
  <2> QED BY <1>2, <2>0, <2>1, <2>2, <2>3 DEF Check
<1>3. ASSUME NEW q \in Pass, Insert(q) \/ Retake(q) PROVE WalkMoves(p) /\ produced \subseteq produced' /\ (late => late')
  <2>1. walk[q].pc \in AtAStage
    BY <1>3 DEF Insert, Retake, AtAStage, Begin
  <2>2. PICK there \in AtAStage : Go(q, there)
    BY <1>3 DEF Insert, Retake, AtAStage, Begin
  <2>3. walk[q].at \in Stage /\ row'[walk[q].at].status # "none"
    <3>1. walk[q].at \in Stage
      BY <2>1 DEF PlaceIsStage
    <3> QED BY <1>3, <3>1 DEF Insert, Retake, RowIsThere, TypeOK
  <2> QED BY <1>3, <2>1, <2>2, <2>3, <1>w, <1>s DEF Insert, Retake, Go, WalkType, WalkMoves, Inside
<1>4. ASSUME NEW q \in Pass, Read(q) PROVE WalkMoves(p) /\ produced \subseteq produced' /\ (late => late')
  <2>1. CASE p = q /\ ~Return(q)
    BY <1>4, <2>1, <1>w DEF Read, WalkType, WalkMoves, Onwards, AtAStage, Begin
  <2>2. CASE p = q /\ Return(q)
    BY <1>4, <2>2, <1>w DEF Read, Return, Go, WalkType, WalkMoves, Ended
  <2>3. CASE p # q
    BY <1>4, <2>3, <1>w, <1>s DEF Read, Return, Go
  <2> QED BY <1>4, <2>1, <2>2, <2>3 DEF Read
<1>5. ASSUME NEW q \in Pass, Finish(q) \/ Skip(q) \/ Throw(q) \/ FinishFails(q)
      PROVE  WalkMoves(p) /\ produced \subseteq produced' /\ (late => late')
  <2>1. walk[q].pc = "executing" /\ produced \subseteq produced' /\ late' = late
    BY <1>5 DEF Finish, Skip, Throw, FinishFails
  <2>2. \/ Return(q)
        \/ NextStage(q) /\ (walk[q].at \in produced' \/ walk[q].at \notin Required)
    BY <1>5, Parameters DEF Finish, Skip, Throw, FinishFails, AfterFailure
  <2>3. CASE p # q
    <3>1. walk'[p] = walk[p]
      BY <2>2, <2>3, <1>w DEF Return, Go, NextStage
    <3> QED BY <2>1, <3>1, <1>s
  <2>4. CASE p = q /\ Return(q)
    <3>1. Ended(p)
      BY <2>4, <1>w DEF Return, Go, WalkType, Ended
    <3> QED BY <2>1, <3>1 DEF WalkMoves
  <2>5. CASE p = q /\ NextStage(q) /\ (walk[q].at \in produced' \/ walk[q].at \notin Required)
    <3>1. walk'[p].pc = "checking" /\ walk'[p].at = walk[p].at + 1 /\ walk'[p].trusted = walk[p].trusted
      BY <2>5, <1>w DEF NextStage, WalkType
    <3>2. Onwards(p)
      BY <2>1, <2>5, <3>1 DEF Onwards, AtAStage
    <3> QED BY <2>1, <3>2 DEF WalkMoves
  <2> QED BY <2>2, <2>3, <2>4, <2>5
<1>6. ASSUME NEW s \in Stage, Open(s) PROVE WalkMoves(p) /\ produced \subseteq produced' /\ (late => late')
  BY <1>6, <1>s DEF Open
<1>7. CASE Deadline
  BY <1>7, <1>s DEF Deadline
<1>8. CASE Crash
  <2>1. PICK dead : walk' = [q \in Pass |-> IF q \in dead
                                             THEN [walk[q] EXCEPT !.pc = "ended", !.timed = 0]
                                             ELSE walk[q]]
    BY <1>8 DEF Crash
  <2>2. walk'[p] = walk[p] \/ walk'[p] = [walk[p] EXCEPT !.pc = "ended", !.timed = 0]
    BY <2>1
  <2>3. walk'[p] = walk[p] \/ Ended(p)
    BY <2>2, <1>w DEF WalkType, Ended
  <2>4. UNCHANGED <<produced, late>>
    BY <1>8 DEF Crash
  <2> QED BY <2>3, <2>4, <1>s DEF WalkMoves
<1>9. CASE UNCHANGED vars
  BY <1>9, <1>s DEF vars
<1> QED
  BY <1>1, <1>2, <1>3, <1>4, <1>5, <1>6, <1>7, <1>8, <1>9 DEF Next, Run

\* A walk is at a stage only after the top of the loop admitted it there.
LEMMA PlaceStep ==
  ASSUME TypeOK, PlaceIsStage, RowIsThere, [Next]_vars
  PROVE  PlaceIsStage'
<1> SUFFICES ASSUME NEW p \in Pass
             PROVE  /\ walk'[p].pc = "idle" => walk'[p].at = 1
                    /\ walk'[p].pc \in AtAStage => walk'[p].at \in Stage
  BY DEF PlaceIsStage
<1>1. WalkMoves(p)
  BY WalkStep
<1> QED
  BY <1>1 DEF WalkMoves, Same, Ended, Begun, Admitted, Inside, Onwards, PlaceIsStage, AtAStage, Begin

\* What a step makes of a row it changes.
RowMoves(s) ==
  \/ row'[s] = row[s]
  \/ row'[s].status \in {"running", "failed"}
  \/ row'[s].status = "done" /\ s \in produced'
  \/ row'[s].status = "deferred" /\ late'

\* Relabelling one row leaves the others alone.
LEMMA RecordMoves ==
  ASSUME TypeOK, NEW s \in Stage, NEW k \in Stage, NEW status \in Status, Record(k, status)
  PROVE  row'[s] = row[s] \/ (s = k /\ row'[s].status = status)
  BY DEF TypeOK, Record

\* Every step leaves every row in one of these ways.
LEMMA RowStep ==
  ASSUME TypeOK, PlaceIsStage, RowIsThere, [Next]_vars, NEW s \in Stage
  PROVE  RowMoves(s)
<1> USE DEF rows, history, clock, bounds
<1>1. ASSUME row'[s] = row[s] PROVE RowMoves(s)
  BY <1>1 DEF RowMoves
<1>2. ASSUME NEW p \in Pass, StartPass(p) PROVE RowMoves(s)
  <2>1. PICK old : row' = [k \in Stage |-> IF k \in old THEN [row[k] EXCEPT !.status = "failed"] ELSE row[k]]
    BY <1>2 DEF StartPass
  <2> QED BY <2>1 DEF RowMoves, TypeOK
<1>3. ASSUME NEW p \in Pass, RecordTimeout(p) PROVE RowMoves(s)
  <2>1. walk[p].timed \in Stage
    BY <1>3, Parameters DEF RecordTimeout, TypeOK, Stage
  <2> QED BY <1>3, <2>1, RecordMoves DEF RecordTimeout, RowMoves, Status
<1>4. ASSUME NEW p \in Pass, Check(p) PROVE RowMoves(s)
  <2>1. \/ UNCHANGED row
        \/ late' /\ row' = [row EXCEPT ![walk[p].at] = Deferred(row[walk[p].at])]
    BY <1>4 DEF Check
  <2>2. CASE late' /\ row' = [row EXCEPT ![walk[p].at] = Deferred(row[walk[p].at])]
    <3>1. row'[s] = row[s] \/ row'[s] = Deferred(row[s])
      BY <2>2 DEF TypeOK
    <3>2. Deferred(row[s]) = row[s] \/ Deferred(row[s]).status = "deferred"
      BY DEF Deferred, TypeOK
    <3> QED BY <2>2, <3>1, <3>2 DEF RowMoves
  <2> QED BY <2>1, <2>2, <1>1
<1>5. ASSUME NEW p \in Pass, Insert(p) \/ Retake(p) PROVE RowMoves(s)
  <2>1. \/ UNCHANGED row
        \/ \E n : row' = [row EXCEPT ![walk[p].at] = [status |-> "running", attempts |-> n]]
    BY <1>5 DEF Insert, Retake
  <2>2. ASSUME NEW n, row' = [row EXCEPT ![walk[p].at] = [status |-> "running", attempts |-> n]]
        PROVE  RowMoves(s)
    <3>1. row'[s] = row[s] \/ row'[s] = [status |-> "running", attempts |-> n]
      BY <2>2 DEF TypeOK
    <3> QED BY <3>1 DEF RowMoves
  <2> QED BY <2>1, <2>2, <1>1
<1>6. ASSUME NEW p \in Pass, Finish(p) \/ Skip(p) \/ Throw(p) \/ FinishFails(p) PROVE RowMoves(s)
  <2>1. walk[p].at \in Stage /\ row[walk[p].at].status # "none"
    BY <1>6 DEF PlaceIsStage, AtAStage, RowIsThere, Finish, Skip, Throw, FinishFails
  <2>2. CASE Finish(p)
    <3>1. Record(walk[p].at, "done") /\ walk[p].at \in produced'
      BY <2>2 DEF Finish
    <3> QED BY <2>1, <3>1, RecordMoves DEF RowMoves, Status
  <2>3. CASE Skip(p)
    BY <2>1, <2>3, <1>1 DEF Skip
  <2>4. CASE Throw(p) \/ FinishFails(p)
    BY <2>1, <2>4, <1>1, RecordMoves DEF Throw, FinishFails, RowMoves, Status
  <2> QED BY <1>6, <2>2, <2>3, <2>4
<1>7. ASSUME NEW p \in Pass, EndPass(p) \/ StopWaiting(p) \/ Read(p) PROVE RowMoves(s)
  BY <1>7, <1>1 DEF EndPass, StopWaiting, Read
<1>8. ASSUME NEW k \in Stage, Open(k) PROVE RowMoves(s)
  BY <1>8, <1>1 DEF Open
<1>9. CASE Deadline \/ Crash \/ UNCHANGED vars
  BY <1>9, <1>1 DEF Deadline, Crash, vars
<1> QED
  BY <1>2, <1>3, <1>4, <1>5, <1>6, <1>7, <1>8, <1>9 DEF Next, Run

\* No step takes a row away or brings one that was attempted unseen.
LEMMA RowThereStep ==
  ASSUME TypeOK, PlaceIsStage, RowIsThere, [Next]_vars
  PROVE  RowIsThere'
<1>1. ASSUME NEW s \in Stage
      PROVE  /\ row'[s].status = "none" => row'[s].attempts = 0 /\ row[s].status = "none"
             /\ row'[s].status # "skipped"
  BY RowStep DEF RowMoves, RowIsThere
<1>2. ASSUME NEW p \in Pass, walk'[p].pc \in {"retaking", "reading", "executing"}
      PROVE  row'[walk'[p].at].status # "none"
  <2>1. walk'[p].at \in Stage
    BY <1>2, PlaceStep DEF PlaceIsStage, AtAStage, Begin
  <2>2. Same(p) \/ Inside(p)
    BY <1>2, WalkStep DEF WalkMoves, Ended, Begun, Admitted, Onwards
  <2>3. CASE Same(p)
    BY <1>1, <1>2, <2>1, <2>3 DEF Same, RowIsThere
  <2>4. CASE Inside(p)
    BY <2>4 DEF Inside
  <2> QED BY <2>2, <2>3, <2>4
<1> QED BY <1>1, <1>2 DEF RowIsThere

\* No step marks a stage done that did not run to its end, or deferred before the deadline.
LEMMA RowTrueStep ==
  ASSUME TypeOK, PlaceIsStage, RowIsThere, RowIsTrue, [Next]_vars
  PROVE  RowIsTrue'
<1> SUFFICES ASSUME NEW s \in Stage
             PROVE  /\ row'[s].status = "done" => s \in produced'
                    /\ row'[s].status = "deferred" => late'
  BY DEF RowIsTrue
<1>1. CASE Pass = {}
  BY <1>1 DEF Next, vars, RowIsTrue, Open, Deadline, Crash, rows, history
<1>2. ASSUME NEW p \in Pass PROVE produced \subseteq produced' /\ (late => late')
  BY WalkStep
<1>3. CASE Pass # {}
  BY <1>2, <1>3, RowStep DEF RowMoves, RowIsTrue
<1> QED BY <1>1, <1>3

\* A walk goes on from a required stage only when it finished it, when it read its row as
\* done, which is true, or as running, or as deferred, which is after the deadline.
LEMMA WalkKnowsStep ==
  ASSUME TypeOK, PlaceIsStage, RowIsThere, RowIsTrue, WalkKnows, [Next]_vars
  PROVE  WalkKnows'
<1> SUFFICES ASSUME NEW p \in Pass, NEW r \in Required, r < walk'[p].at
             PROVE  /\ walk'[p].pc \in AtAStage => Known(p, r)'
                    /\ walk'[p].pc = "checking" => Known(p, r)' \/ late'
  BY DEF WalkKnows
<1>1. /\ WalkMoves(p) /\ produced \subseteq produced' /\ (late => late')
      /\ r \in Stage /\ walk[p].at \in 1 .. Stages + 1
  BY WalkStep, Parameters DEF TypeOK
<1>2. CASE Same(p)
  BY <1>1, <1>2 DEF Same, WalkKnows, Known
<1>3. CASE Ended(p)
  BY <1>3 DEF Ended, AtAStage, Begin
<1>4. CASE Begun(p)
  <2>1. walk'[p].at = 1
    BY <1>4 DEF Begun, PlaceIsStage
  <2> QED BY <1>1, <2>1, Parameters
<1>5. CASE Admitted(p)
  BY <1>1, <1>5 DEF Admitted, WalkKnows, Known, AtAStage, Begin
<1>6. CASE Inside(p)
  BY <1>1, <1>6 DEF Inside, WalkKnows, Known, AtAStage, Begin
<1>7. CASE Onwards(p)
  <2>1. CASE r < walk[p].at
    BY <1>1, <1>7, <2>1 DEF Onwards, WalkKnows, Known, AtAStage, Begin
  <2>2. CASE r = walk[p].at
    <3>1. CASE walk[p].pc = "reading"
      <4>1. row[r].status \in {"running", "done", "failed", "deferred"}
        BY <1>1, <2>2, <3>1 DEF RowIsThere, TypeOK, Status
      <4> QED BY <1>1, <1>7, <2>2, <3>1, <4>1 DEF Onwards, RowIsTrue, Known, AtAStage, Begin
    <3>2. CASE walk[p].pc # "reading"
      BY <1>1, <1>7, <2>2, <3>2, Parameters DEF Onwards, Known, AtAStage, Begin
    <3> QED BY <3>1, <3>2
  <2>3. r < walk[p].at \/ r = walk[p].at
    <3>1. r < walk[p].at + 1
      BY <1>7 DEF Onwards
    <3> QED BY <1>1, <3>1, Parameters
  <2> QED BY <2>1, <2>2, <2>3
<1> QED BY <1>1, <1>2, <1>3, <1>4, <1>5, <1>6, <1>7 DEF WalkMoves

-----------------------------------------------------------------------------
(* What a pass leaves behind when it stops waiting.                        *)

\* Who is still waited for holds the lock.
WaitedFor == \A p \in Pass : Underway(p) /\ ~walk[p].aborted => holder = p

\* A timeout is recorded by a pass that gave up.
TimedIsGivenUp == \A p \in Pass : walk[p].timed # 0 => walk[p].aborted

\* While a stage runs and is waited for, only a run that was given up on can have recorded
\* it as done: beginStage set the row to running, and no other pass is waited for.
DoneMeanwhileIsBelated ==
  \A p \in Pass :
    walk[p].pc = "executing" /\ ~walk[p].aborted /\ row[walk[p].at].status = "done"
      => walk[p].at \in belated

AbandonInv == WaitedFor /\ TimedIsGivenUp /\ DoneMeanwhileIsBelated

\* What a step does to the flags of a walk: it never unsets the abort, and a timeout is
\* noted by a pass that stops waiting.
LEMMA FlagStep ==
  ASSUME TypeOK, [Next]_vars, NEW p \in Pass
  PROVE  /\ walk[p].aborted => walk'[p].aborted
         /\ walk'[p].timed \in {walk[p].timed, 0} \/ walk'[p].aborted
<1> DEFINE Keeps == walk'[p].aborted = walk[p].aborted /\ walk'[p].timed \in {walk[p].timed, 0}
<1> USE DEF rows, history, clock, bounds
<1>w. walk \in [Pass -> WalkType]
  BY DEF TypeOK, WalkType
<1>s. ASSUME walk'[p] = walk[p] PROVE Keeps
  BY <1>s
<1>1. ASSUME NEW q \in Pass, StartPass(q) \/ EndPass(q) PROVE Keeps
  BY <1>1, <1>w, <1>s DEF StartPass, EndPass, Go, WalkType
<1>2. ASSUME NEW q \in Pass, StopWaiting(q) PROVE walk'[p].aborted \/ Keeps
  BY <1>2, <1>w, <1>s DEF StopWaiting, WalkType
<1>3. ASSUME NEW q \in Pass, RecordTimeout(q) PROVE Keeps
  BY <1>3, <1>w, <1>s DEF RecordTimeout, WalkType
<1>4. ASSUME NEW q \in Pass, NEW pc, Go(q, pc) PROVE Keeps
  BY <1>4, <1>w, <1>s DEF Go, WalkType
<1>5. ASSUME NEW q \in Pass, NextStage(q) PROVE Keeps
  BY <1>5, <1>w, <1>s DEF NextStage, WalkType
<1>6. ASSUME NEW q \in Pass, Run(q) PROVE Keeps
  <2>1. \/ \E pc : Go(q, pc)
        \/ NextStage(q)
        \/ Read(q) /\ ~Return(q)
    BY <1>6 DEF Run, Check, Insert, Retake, Read, Finish, Skip, Throw, FinishFails, AfterFailure, Return
  <2>2. CASE Read(q) /\ ~Return(q)
    BY <2>2, <1>w, <1>s DEF Read, WalkType
  <2> QED BY <2>1, <2>2, <1>4, <1>5
<1>7. ASSUME NEW s \in Stage, Open(s) PROVE Keeps
  BY <1>7, <1>s DEF Open
<1>8. CASE Crash
  <2>1. PICK dead : walk' = [q \in Pass |-> IF q \in dead
                                             THEN [walk[q] EXCEPT !.pc = "ended", !.timed = 0]
                                             ELSE walk[q]]
    BY <1>8 DEF Crash
  <2>2. walk'[p] = walk[p] \/ walk'[p] = [walk[p] EXCEPT !.pc = "ended", !.timed = 0]
    BY <2>1
  <2> QED BY <2>2, <1>w, <1>s DEF WalkType
<1>9. CASE Deadline \/ UNCHANGED vars
  BY <1>9, <1>s DEF Deadline, vars
<1> QED
  BY <1>1, <1>2, <1>3, <1>6, <1>7, <1>8, <1>9 DEF Next

\* A step of a walk is a step of that walk only, and of one that is under way.
LEMMA RunStep ==
  ASSUME TypeOK, NEW q \in Pass, Run(q)
  PROVE  Underway(q) /\ holder' = holder /\ \A p \in Pass : p # q => walk'[p] = walk[p]
<1>1. Underway(q) /\ holder' = holder
  BY DEF Run, Check, Insert, Retake, Read, Finish, Skip, Throw, FinishFails, Underway
<1>2. \/ \E pc : Go(q, pc)
      \/ NextStage(q)
      \/ Read(q) /\ ~Return(q)
  BY DEF Run, Check, Insert, Retake, Read, Finish, Skip, Throw, FinishFails, AfterFailure, Return
<1>3. CASE \E pc : Go(q, pc)
  BY <1>1, <1>3 DEF Go, TypeOK
<1>4. CASE NextStage(q)
  BY <1>1, <1>4 DEF NextStage, TypeOK
<1>5. CASE Read(q) /\ ~Return(q)
  BY <1>1, <1>5 DEF Read, TypeOK
<1> QED BY <1>2, <1>3, <1>4, <1>5

\* A pass that is waited for loses the lock only by ending or by giving up.
LEMMA WaitedStep ==
  ASSUME TypeOK, WaitedFor, TimedIsGivenUp, [Next]_vars
  PROVE  WaitedFor'
<1> SUFFICES ASSUME NEW p \in Pass, Underway(p)', ~walk'[p].aborted PROVE holder' = p
  BY DEF WaitedFor
<1>0. ASSUME walk'[p] = walk[p] PROVE holder = p /\ p # 0
  BY <1>0, Parameters DEF WaitedFor, Underway
<1>1. ASSUME NEW q \in Pass, StartPass(q) PROVE holder' = p
  <2>1. p = q \/ walk'[p] = walk[p]
    BY <1>1 DEF StartPass, Go, TypeOK
  <2> QED BY <1>0, <1>1, <2>1 DEF StartPass
<1>2. ASSUME NEW q \in Pass, EndPass(q) PROVE holder' = p
  BY <1>0, <1>2 DEF EndPass, Underway
<1>3. ASSUME NEW q \in Pass, StopWaiting(q) PROVE holder' = p
  <2>1. p # q /\ walk'[p] = walk[p]
    BY <1>3 DEF StopWaiting, TypeOK
  <2> QED BY <1>0, <1>3, <2>1 DEF StopWaiting
<1>4. ASSUME NEW q \in Pass, RecordTimeout(q) PROVE holder' = p
  <2>1. walk'[p].pc = walk[p].pc /\ walk'[p].aborted = walk[p].aborted
    BY <1>4 DEF RecordTimeout, TypeOK
  <2>2. p = q
    BY <1>4, <2>1 DEF RecordTimeout, WaitedFor, Underway
  <2> QED BY <1>4, <2>1, <2>2 DEF RecordTimeout, TimedIsGivenUp
<1>5. ASSUME NEW q \in Pass, Run(q) PROVE holder' = p
  <2>1. CASE p # q
    BY <1>0, <1>5, <2>1, RunStep
  <2>2. CASE p = q
    <3>1. ~walk[p].aborted
      BY FlagStep
    <3> QED BY <1>5, <2>2, <3>1, RunStep DEF WaitedFor
  <2> QED BY <2>1, <2>2
<1>6. ASSUME NEW s \in Stage, Open(s) PROVE holder' = p
  BY <1>0, <1>6 DEF Open
<1>7. CASE Deadline \/ UNCHANGED vars
  BY <1>0, <1>7 DEF Deadline, vars
<1>8. CASE Crash
  <2>1. PICK dead : /\ walk' = [q \in Pass |-> IF q \in dead
                                               THEN [walk[q] EXCEPT !.pc = "ended", !.timed = 0]
                                               ELSE walk[q]]
                    /\ holder' = IF holder \in dead THEN 0 ELSE holder
    BY <1>8 DEF Crash
  <2>2. p \notin dead
    <3>1. p \in dead => walk'[p].pc = "ended"
      BY <2>1 DEF TypeOK
    <3> QED BY <3>1 DEF Underway
  <2> QED BY <1>0, <2>1, <2>2
<1> QED
  BY <1>1, <1>2, <1>3, <1>4, <1>5, <1>6, <1>7, <1>8 DEF Next

\* A timeout stays noted only for a pass that gave up.
LEMMA TimedStep ==
  ASSUME TypeOK, TimedIsGivenUp, [Next]_vars
  PROVE  TimedIsGivenUp'
  BY FlagStep DEF TimedIsGivenUp

\* A row that says done says otherwise only after the timeout of a pass, or the end of a run
\* of its stage: the stale release is of running rows, and beginStage retakes no done one.
LEMMA DoneLost ==
  ASSUME TypeOK, PlaceIsStage, [Next]_vars, NEW s \in Stage,
         row[s].status = "done", row'[s].status # "done"
  PROVE  \/ \E q \in Pass : RecordTimeout(q) /\ walk[q].timed = s
         \/ \E q \in Pass : Run(q) /\ walk[q].pc = "executing" /\ walk[q].at = s
<1> USE DEF rows, history, clock, bounds
<1>0. row'[s] # row[s]
  OBVIOUS
<1>1. ASSUME NEW p \in Pass, StartPass(p) PROVE FALSE
  <2>1. PICK old \in SUBSET {k \in Stage : row[k].status = "running"} :
          row' = [k \in Stage |-> IF k \in old THEN [row[k] EXCEPT !.status = "failed"] ELSE row[k]]
    BY <1>1 DEF StartPass
  <2> QED BY <1>0, <2>1
<1>2. ASSUME NEW p \in Pass, RecordTimeout(p) PROVE walk[p].timed = s
  <2>1. walk[p].timed \in Stage
    BY <1>2, Parameters DEF RecordTimeout, TypeOK, Stage
  <2> QED BY <1>0, <1>2, <2>1, RecordMoves DEF RecordTimeout, Status
<1>3. ASSUME NEW p \in Pass, Check(p) PROVE FALSE
  <2>1. UNCHANGED row \/ row' = [row EXCEPT ![walk[p].at] = Deferred(row[walk[p].at])]
    BY <1>3 DEF Check
  <2>2. Deferred(row[s]) = row[s]
    BY DEF Deferred
  <2> QED BY <1>0, <2>1, <2>2 DEF TypeOK
<1>4. ASSUME NEW p \in Pass, Insert(p) \/ Retake(p) PROVE FALSE
  <2>1. \/ UNCHANGED row
        \/ /\ row[walk[p].at].status \in {"none", "failed", "deferred"}
           /\ \E n : row' = [row EXCEPT ![walk[p].at] = n]
    BY <1>4 DEF Insert, Retake
  <2> QED BY <1>0, <2>1 DEF TypeOK
<1>5. ASSUME NEW p \in Pass, Finish(p) \/ Skip(p) \/ Throw(p) \/ FinishFails(p)
      PROVE  Run(p) /\ walk[p].pc = "executing" /\ walk[p].at = s
  <2>1. Run(p) /\ walk[p].pc = "executing"
    BY <1>5 DEF Run, Finish, Skip, Throw, FinishFails
  <2>2. UNCHANGED row \/ \E status \in Status : Record(walk[p].at, status)
    BY <1>5 DEF Finish, Skip, Throw, FinishFails, Status
  <2>3. walk[p].at = s
    BY <1>0, <2>2 DEF Record, TypeOK
  <2> QED BY <2>1, <2>3
<1>6. ASSUME NEW p \in Pass, EndPass(p) \/ StopWaiting(p) \/ Read(p) PROVE FALSE
  BY <1>0, <1>6 DEF EndPass, StopWaiting, Read
<1>7. ASSUME NEW k \in Stage, Open(k) PROVE FALSE
  BY <1>0, <1>7 DEF Open
<1>8. CASE Deadline \/ Crash \/ UNCHANGED vars
  BY <1>0, <1>8 DEF Deadline, Crash, vars
<1> QED
  BY <1>1, <1>2, <1>3, <1>4, <1>5, <1>6, <1>7, <1>8 DEF Next, Run

\* A stage starts with its row set to running.
LEMMA StartedRunning ==
  ASSUME TypeOK, PlaceIsStage, [Next]_vars, NEW p \in Pass,
         walk[p].pc # "executing", walk'[p].pc = "executing"
  PROVE  row'[walk'[p].at].status = "running" /\ walk'[p].at \in Stage
<1> USE DEF rows, history, clock, bounds
<1>0. walk'[p] # walk[p]
  OBVIOUS
<1>1. ASSUME NEW q \in Pass, StartPass(q) \/ EndPass(q) \/ StopWaiting(q) \/ RecordTimeout(q) PROVE FALSE
  BY <1>0, <1>1 DEF StartPass, EndPass, StopWaiting, RecordTimeout, Go, TypeOK
<1>2. ASSUME NEW q \in Pass, Run(q) PROVE row'[walk'[p].at].status = "running" /\ walk'[p].at \in Stage
  <2>1. p = q
    BY <1>0, <1>2, RunStep
  <2>2. CASE Insert(p) \/ Retake(p)
    <3>1. walk[p].at \in Stage
      BY <2>2 DEF PlaceIsStage, Insert, Retake, AtAStage, Begin
    <3>2. Go(p, "executing")
      BY <2>2 DEF Insert, Retake, Go, TypeOK
    <3>3. \E n : row' = [row EXCEPT ![walk[p].at] = [status |-> "running", attempts |-> n]]
      BY <2>2, <3>2 DEF Insert, Retake, Go, TypeOK
    <3>4. row'[walk[p].at].status = "running"
      BY <3>1, <3>3 DEF TypeOK
    <3>5. walk'[p].at = walk[p].at
      BY <3>2 DEF Go, TypeOK
    <3> QED BY <3>1, <3>4, <3>5
  <2>3. CASE Check(p) \/ Read(p)
    BY <2>3 DEF Check, Read, Return, NextStage, Go, TypeOK
  <2>4. CASE Finish(p) \/ Skip(p) \/ Throw(p) \/ FinishFails(p)
    BY <2>4 DEF Finish, Skip, Throw, FinishFails
  <2> QED BY <1>2, <2>1, <2>2, <2>3, <2>4 DEF Run
<1>3. ASSUME NEW s \in Stage, Open(s) PROVE FALSE
  BY <1>0, <1>3 DEF Open
<1>4. CASE Crash
  <2>1. PICK dead : walk' = [q \in Pass |-> IF q \in dead
                                             THEN [walk[q] EXCEPT !.pc = "ended", !.timed = 0]
                                             ELSE walk[q]]
    BY <1>4 DEF Crash
  <2>2. p \in dead => walk'[p].pc = "ended"
    BY <2>1 DEF TypeOK
  <2> QED BY <1>0, <2>1, <2>2
<1>5. CASE Deadline \/ UNCHANGED vars
  BY <1>0, <1>5 DEF Deadline, vars
<1> QED
  BY <1>1, <1>2, <1>3, <1>4, <1>5 DEF Next, Run

\* Only finishStage says done, and only it says again who recorded it.
LEMMA DoneRecorded ==
  ASSUME TypeOK, PlaceIsStage, [Next]_vars, NEW s \in Stage,
         \/ row[s].status # "done" /\ row'[s].status = "done"
         \/ s \in belated /\ s \notin belated'
  PROVE  \E q \in Pass : Finish(q) /\ walk[q].at = s
<1> USE DEF rows, history, clock, bounds
<1>0. row'[s] # row[s] \/ belated' # belated
  OBVIOUS
<1>1. ASSUME NEW p \in Pass, StartPass(p) PROVE FALSE
  <2>1. PICK old : row' = [k \in Stage |-> IF k \in old THEN [row[k] EXCEPT !.status = "failed"] ELSE row[k]]
    BY <1>1 DEF StartPass
  <2>2. row'[s] = row[s] \/ row'[s].status = "failed"
    BY <2>1 DEF TypeOK
  <2> QED BY <1>1, <2>2 DEF StartPass
<1>2. ASSUME NEW p \in Pass, RecordTimeout(p) PROVE FALSE
  <2>1. walk[p].timed \in Stage
    BY <1>2, Parameters DEF RecordTimeout, TypeOK, Stage
  <2> QED BY <1>2, <2>1, RecordMoves DEF RecordTimeout, Status
<1>3. ASSUME NEW p \in Pass, Check(p) PROVE FALSE
  <2>1. UNCHANGED row \/ row' = [row EXCEPT ![walk[p].at] = Deferred(row[walk[p].at])]
    BY <1>3 DEF Check
  <2>2. Deferred(row[s]) = row[s] \/ Deferred(row[s]).status = "deferred"
    BY DEF Deferred, TypeOK
  <2>3. row'[s] = row[s] \/ row'[s].status = "deferred"
    BY <2>1, <2>2 DEF TypeOK
  <2> QED BY <1>3, <2>3 DEF Check
<1>4. ASSUME NEW p \in Pass, Insert(p) \/ Retake(p) PROVE FALSE
  <2>1. \/ UNCHANGED row
        \/ \E n : row' = [row EXCEPT ![walk[p].at] = [status |-> "running", attempts |-> n]]
    BY <1>4 DEF Insert, Retake
  <2>2. row'[s] = row[s] \/ row'[s].status = "running"
    <3>1. ASSUME NEW n, row' = [row EXCEPT ![walk[p].at] = [status |-> "running", attempts |-> n]]
          PROVE  row'[s] = row[s] \/ row'[s].status = "running"
      <4>1. row'[s] = row[s] \/ row'[s] = [status |-> "running", attempts |-> n]
        BY <3>1 DEF TypeOK
      <4> QED BY <4>1
    <3> QED BY <2>1, <3>1
  <2> QED BY <1>4, <2>2 DEF Insert, Retake
<1>5. ASSUME NEW p \in Pass, Finish(p) PROVE walk[p].at = s
  <2>1. walk[p].at \in Stage
    BY <1>5 DEF PlaceIsStage, AtAStage, Finish
  <2>2. walk[p].at # s => row'[s] = row[s]
    BY <1>5, <2>1, RecordMoves DEF Finish, Status
  <2> QED BY <1>5, <2>2 DEF Finish
<1>6. ASSUME NEW p \in Pass, Skip(p) \/ Throw(p) \/ FinishFails(p) PROVE FALSE
  <2>1. walk[p].at \in Stage
    BY <1>6 DEF PlaceIsStage, AtAStage, Skip, Throw, FinishFails
  <2>2. row'[s] = row[s] \/ row'[s].status \in {"skipped", "failed"}
    BY <1>6, <2>1, RecordMoves DEF Skip, Throw, FinishFails, Status
  <2> QED BY <1>6, <2>2 DEF Skip, Throw, FinishFails
<1>7. ASSUME NEW p \in Pass, EndPass(p) \/ StopWaiting(p) \/ Read(p) PROVE FALSE
  BY <1>0, <1>7 DEF EndPass, StopWaiting, Read
<1>8. ASSUME NEW k \in Stage, Open(k) PROVE FALSE
  BY <1>0, <1>8 DEF Open
<1>9. CASE Deadline \/ Crash \/ UNCHANGED vars
  BY <1>0, <1>9 DEF Deadline, Crash, vars
<1> QED
  BY <1>1, <1>2, <1>3, <1>4, <1>5, <1>6, <1>7, <1>8, <1>9 DEF Next, Run

\* The row of a stage that runs and is waited for becomes done under it only by the run of
\* another pass, which cannot be waited for as well.
LEMMA BelatedStep ==
  ASSUME TypeOK, PlaceIsStage, RowIsThere, AbandonInv, [Next]_vars
  PROVE  DoneMeanwhileIsBelated'
<1> SUFFICES ASSUME NEW p \in Pass, walk'[p].pc = "executing", ~walk'[p].aborted,
                    row'[walk'[p].at].status = "done", walk'[p].at \notin belated'
             PROVE  FALSE
  BY DEF DoneMeanwhileIsBelated
<1>1. walk[p].pc = "executing"
  BY StartedRunning
<1>2. walk'[p].at = walk[p].at
  BY <1>1, WalkStep DEF WalkMoves, Same, Ended, Begun, Admitted, Inside, Onwards
<1>3. walk[p].at \in Stage /\ ~walk[p].aborted
  BY <1>1, FlagStep DEF PlaceIsStage, AtAStage
<1>4. holder = p
  BY <1>1, <1>3 DEF AbandonInv, WaitedFor, Underway
<1>5. PICK q \in Pass : Finish(q) /\ walk[q].at = walk[p].at
  <2>1. row[walk[p].at].status = "done" => walk[p].at \in belated
    BY <1>1, <1>3 DEF AbandonInv, DoneMeanwhileIsBelated
  <2> QED BY <1>2, <1>3, <2>1, DoneRecorded
<1>6. p # q
  BY <1>5 DEF Finish, NextStage, TypeOK
<1>7. walk[q].aborted
  BY <1>4, <1>5, <1>6 DEF AbandonInv, WaitedFor, Underway, Finish
<1> QED BY <1>2, <1>5, <1>7 DEF Finish

-----------------------------------------------------------------------------
(* The theorems.                                                           *)

\* The invariant of a day.
THEOREM DayIsConsistent == Spec => []DayInv
<1>1. Init => DayInv
  <2> SUFFICES ASSUME Init PROVE DayInv
    OBVIOUS
  <2>1. TypeOK
    <3>1. row \in [Stage -> [status : Status, attempts : 0 .. MaxAttempts]]
      BY Parameters DEF Init, Status
    <3>2. walk \in [Pass -> [pc : Place, at : 1 .. Stages + 1, aborted : BOOLEAN,
                             timed : 0 .. Stages, trusted : SUBSET Stage]]
      BY Parameters DEF Init, Place
    <3>3. /\ 0 \in 0 .. MaxAttempts /\ 0 \in 0 .. Passes
          /\ 0 \in 0 .. MaxCrash /\ 0 \in 0 .. MaxFault
      BY Parameters
    <3> QED BY <3>1, <3>2, <3>3 DEF Init, TypeOK
  <2>2. StartsWithinBudget /\ RowIsThere /\ RowIsTrue
    BY Parameters DEF Init, StartsWithinBudget, RowIsThere, RowIsTrue
  <2>3. PlaceIsStage /\ WalkKnows
    BY Parameters DEF Init, PlaceIsStage, WalkKnows, AtAStage, Begin
  <2> QED BY <2>1, <2>2, <2>3 DEF DayInv
<1>2. DayInv /\ [Next]_vars => DayInv'
  BY TypeStep, PlaceStep, RowThereStep, RowTrueStep, WalkKnowsStep DEF DayInv
<1> QED
  BY <1>1, <1>2, PTL DEF Spec

\* The rows, the walks and the counters have their types for every number of passes and
\* stages: in particular no row counts more attempts than maxAttempts.
THEOREM TypeCorrect == Spec => []TypeOK
<1>1. DayInv => TypeOK
  BY DEF DayInv
<1> QED BY <1>1, DayIsConsistent, PTL

\* However passes overlap, crash, time out and hand rows back, no stage is started more
\* often in a day than maxAttempts, and its row counts every start (beginStage).
THEOREM BudgetHolds == Spec => []StartsWithinBudget
<1>1. DayInv => StartsWithinBudget
  BY DEF DayInv
<1> QED BY <1>1, DayIsConsistent, PTL

\* No stage after a required one starts in a walk that does not know the required one ran
\* to its end, or saw it running elsewhere (config.js).
THEOREM ResearchComesFirst == Spec => ResearchFirst
<1>1. DayInv => \A p \in Pass : \A r \in Required :
        walk[p].pc \in Begin /\ r < walk[p].at => r \in produced \/ r \in walk[p].trusted
  BY DEF DayInv, WalkKnows, Known, AtAStage
<1>2. DayInv /\ [Next]_vars =>
        [\A p \in Pass : \A r \in Required :
           walk[p].pc \in Begin /\ walk'[p].pc = "executing" /\ r < walk[p].at
             => r \in produced \/ r \in walk[p].trusted]_vars
  BY <1>1
<1> QED BY <1>2, DayIsConsistent, PTL DEF Spec, ResearchFirst

\* Who holds the lock, for whom a timeout is recorded and who recorded a stage that is being
\* run again as done: what TimelyDoneIsKept rests on.
LEMMA AbandonIsKnown == Spec => []AbandonInv
<1>1. Init => AbandonInv
  BY DEF Init, AbandonInv, WaitedFor, TimedIsGivenUp, DoneMeanwhileIsBelated, Underway
<1>2. DayInv /\ AbandonInv /\ [Next]_vars => AbandonInv'
  BY WaitedStep, TimedStep, BelatedStep DEF DayInv, AbandonInv
<1> QED BY <1>1, <1>2, DayIsConsistent, PTL DEF Spec

\* A stage recorded as done by a run its pass still waited for is taken back only by a walk
\* its pass gave up on: no pass that is waited for, no stale release and no crash does
\* (failStage, releaseStaleStages, beginStage).
THEOREM TimelyDoneStays == Spec => TimelyDoneIsKept
<1>1. ASSUME DayInv, AbandonInv, [Next]_vars, NEW s \in Stage, s \notin belated,
             row[s].status = "done", row'[s].status # "done"
      PROVE  \E p \in Pass : walk[p].aborted /\ walk'[p] # walk[p]
  <2>1. ASSUME NEW q \in Pass, RecordTimeout(q) PROVE walk[q].aborted /\ walk'[q] # walk[q]
    <3>1. walk[q].aborted
      BY <1>1, <2>1 DEF AbandonInv, TimedIsGivenUp, RecordTimeout
    <3>2. walk'[q].timed = 0
      BY <1>1, <2>1, Parameters DEF DayInv, TypeOK, RecordTimeout
    <3> QED BY <2>1, <3>1, <3>2 DEF RecordTimeout
  <2>2. ASSUME NEW q \in Pass, Run(q), walk[q].pc = "executing", walk[q].at = s
        PROVE  walk[q].aborted /\ walk'[q] # walk[q]
    <3>1. walk[q].aborted
      BY <1>1, <2>2 DEF AbandonInv, DoneMeanwhileIsBelated
    <3>2. walk'[q].pc # "executing"
      BY <1>1, <2>2 DEF DayInv, TypeOK, Run, Check, Insert, Retake, Read, Finish, Skip, Throw, FinishFails,
         AfterFailure, Return, NextStage, Go
    <3> QED BY <2>2, <3>1, <3>2
  <2> QED BY <1>1, <2>1, <2>2, DoneLost DEF DayInv
<1>2. DayInv /\ AbandonInv /\ [Next]_vars =>
        [\A s \in Stage \ belated :
           row[s].status = "done" /\ row'[s].status # "done"
             => \E p \in Pass : walk[p].aborted /\ walk'[p] # walk[p]]_vars
  BY <1>1
<1> QED BY <1>2, DayIsConsistent, AbandonIsKnown, PTL DEF Spec, TimelyDoneIsKept

=============================================================================
