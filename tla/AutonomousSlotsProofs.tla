-------------------------- MODULE AutonomousSlotsProofs --------------------------
(***************************************************************************)
(* The daily ceiling for every number of workers, days and limits: the     *)
(* work of a day exceeds HARD_CEILING by no more than the slots that were  *)
(* given back to it without belonging to it (AutonomousSlots).             *)
(*                                                                         *)
(* The argument: the row of a day covers all the work of the day, and a    *)
(* slot is taken only while the row is below the ceiling, so work can      *)
(* reach the ceiling but for the covering that stray returns took away.    *)
(***************************************************************************)
EXTENDS AutonomousSlots, FiniteSetTheorems, TLAPS

\* The types that the steps of the ceiling's proof need, and the ceiling itself.
SlotInv == TypeOK /\ SeedCountsBefore /\ RowCoversWork /\ DailyCeiling

-----------------------------------------------------------------------------
(* Type correctness.                                                       *)

\* What the constants are, and how days follow each other.
LEMMA Parameters ==
  /\ Ceiling \in Nat /\ MaxLost \in Nat /\ Limit \subseteq Nat
  /\ 1 \in Day
  /\ \A k \in Day : BeforeOf(k) \in 0 .. Ceiling
  /\ \A k \in Day : k < Days => k + 1 \in Day
  BY SlotAssumption DEF Day, BeforeOf

\* Setting one counter to a number leaves every counter a number or NoRow.
LEMMA CounterStays ==
  ASSUME NEW f \in [Day -> Nat \cup {NoRow}], NEW k \in Day, NEW n \in Nat
  PROVE  [f EXCEPT ![k] = n] \in [Day -> Nat \cup {NoRow}]
  OBVIOUS

\* No counter is ever negative and no worker holds a cap above HARD_CEILING.
THEOREM TypeCorrect == Spec => []TypeOK
<1>1. Init => TypeOK
  BY Parameters DEF Init, TypeOK, Place
<1>2. TypeOK /\ [Next]_vars => TypeOK'
  <2> SUFFICES ASSUME TypeOK, [Next]_vars PROVE TypeOK'
    OBVIOUS
  <2> USE Parameters DEF TypeOK, Place, Goes
  <2>1. ASSUME NEW w \in Worker, LoadCap(w) PROVE TypeOK'
    <3>1. CapNow \in 0 .. Ceiling
      BY DEF CapNow
    <3> QED BY <2>1, <3>1 DEF LoadCap, observers
  <2>2. ASSUME NEW w \in Worker, Seed(w) PROVE TypeOK'
    BY <2>2, CounterStays DEF Seed, Seeded, observers
  <2>3. ASSUME NEW w \in Worker, TakeSlot(w) \/ TakeReplyLost(w) PROVE TypeOK'
    <3>0. SlotLeft(w) /\ used' = [used EXCEPT ![day] = used[day] + 1]
      BY <2>3 DEF TakeSlot, TakeReplyLost
    <3>1. used[day] \in Nat
      BY <3>0 DEF SlotLeft, NoRow
    <3>2. used' \in [Day -> Nat \cup {NoRow}]
      BY <3>0, <3>1, CounterStays
    <3>3. CASE TakeSlot(w)
      BY <3>2, <3>3 DEF TakeSlot, observers
    <3>4. CASE TakeReplyLost(w)
      BY <3>2, <3>4 DEF TakeReplyLost, observers
    <3> QED BY <2>3, <3>3, <3>4
  <2>4. ASSUME NEW w \in Worker,
               Refused(w) \/ InsertFails(w) \/ Stage(w) \/ StageFails(w)
                 \/ BatchFails(w) \/ GiveBackFails(w) \/ Crash(w)
        PROVE TypeOK'
    BY <2>4 DEF Refused, InsertFails, Stage, StageFails, BatchFails, GiveBackFails, Crash, observers
  <2>5. ASSUME NEW w \in Worker, Insert(w) \/ InsertReplyLost(w) \/ ShipEdit(w) PROVE TypeOK'
    BY <2>5 DEF Insert, InsertReplyLost, ShipEdit, Made
  <2>6. ASSUME NEW w \in Worker, GiveBack(w) PROVE TypeOK'
    <3>1. stray' \in [Day -> Nat]
      BY <2>6 DEF GiveBack
    <3>2. used' \in [Day -> Nat \cup {NoRow}]
      <4>1. CASE used[day] > 0
        <5>1. used[day] - 1 \in Nat
          BY <4>1 DEF NoRow
        <5> QED BY <2>6, <4>1, <5>1, CounterStays DEF GiveBack
      <4>2. CASE ~(used[day] > 0)
        <5>1. used' = [used EXCEPT ![day] = used[day]]
          BY <2>6, <4>2 DEF GiveBack
        <5> QED BY <5>1
      <4> QED BY <4>1, <4>2
    <3> QED BY <2>6, <3>1, <3>2 DEF GiveBack
  <2>7. CASE Midnight
    BY <2>7 DEF Midnight, worker, observers
  <2>8. CASE SetLimit
    BY <2>8 DEF SetLimit, worker, observers
  <2>9. CASE UNCHANGED vars
    BY <2>9 DEF vars, worker, observers
  <2> QED
    BY <2>1, <2>2, <2>3, <2>4, <2>5, <2>6, <2>7, <2>8, <2>9 DEF Next, Step
<1> QED
  BY <1>1, <1>2, PTL DEF Spec

-----------------------------------------------------------------------------
(* How a step changes the workers that have a slot.                        *)

Size(k) == Cardinality(Holding(k))

HasSlot == {"held", "staged", "giving"}

\* Every set of workers is finite.
LEMMA WorkersFinite ==
  ASSUME NEW T \in SUBSET Worker
  PROVE  IsFiniteSet(T) /\ Cardinality(T) \in Nat
<1>1. IsFiniteSet(Worker)
  BY SlotAssumption, FS_Union DEF Worker
<1> QED BY <1>1, FS_Subset, FS_CardinalityType

\* The slots that are out on a day can be counted, before and after a step.
LEMMA SizeNat == \A k \in Day : Size(k) \in Nat /\ Size(k)' \in Nat
<1> TAKE k \in Day
<1>1. Holding(k) \in SUBSET Worker /\ Holding(k)' \in SUBSET Worker
  BY DEF Holding
<1> QED BY <1>1, WorkersFinite DEF Size

\* A worker that had a slot still has it, or one that had none still has none.
LEMMA KeepsSlot ==
  ASSUME TypeOK, NEW w \in Worker, NEW place \in Place,
         pc' = [pc EXCEPT ![w] = place], UNCHANGED took,
         pc[w] \in HasSlot <=> place \in HasSlot
  PROVE  \A k \in Day : Size(k)' = Size(k)
<1> TAKE k \in Day
<1>1. Holding(k)' = Holding(k)
  BY DEF Holding, TypeOK, HasSlot
<1> QED BY <1>1 DEF Size

\* A worker without a slot takes one of today's.
LEMMA TakesOne ==
  ASSUME TypeOK, NEW w \in Worker, pc[w] = "seeded",
         pc' = [pc EXCEPT ![w] = "held"], took' = [took EXCEPT ![w] = day]
  PROVE  \A k \in Day : Size(k)' = IF k = day THEN Size(k) + 1 ELSE Size(k)
<1> TAKE k \in Day
<1>1. CASE k = day
  <2>1. Holding(k)' = Holding(k) \cup {w} /\ w \notin Holding(k)
    BY <1>1 DEF Holding, TypeOK
  <2>2. Holding(k) \in SUBSET Worker
    BY DEF Holding
  <2> QED BY <1>1, <2>1, <2>2, WorkersFinite, FS_AddElement DEF Size
<1>2. CASE k # day
  <2>1. Holding(k)' = Holding(k)
    BY <1>2 DEF Holding, TypeOK
  <2> QED BY <1>2, <2>1 DEF Size
<1> QED BY <1>1, <1>2

\* A worker no longer has the slot it had, if it had one.
LEMMA LeavesSlot ==
  ASSUME TypeOK, NEW w \in Worker, NEW place \in Place \ HasSlot,
         pc' = [pc EXCEPT ![w] = place], UNCHANGED took
  PROVE  \A k \in Day : Size(k)' = IF pc[w] \in HasSlot /\ took[w] = k THEN Size(k) - 1 ELSE Size(k)
<1> TAKE k \in Day
<1>1. CASE pc[w] \in HasSlot /\ took[w] = k
  <2>1. Holding(k)' = Holding(k) \ {w} /\ w \in Holding(k)
    BY <1>1 DEF Holding, TypeOK, HasSlot
  <2>2. Holding(k) \in SUBSET Worker
    BY DEF Holding
  <2> QED BY <1>1, <2>1, <2>2, WorkersFinite, FS_RemoveElement DEF Size
<1>2. CASE ~(pc[w] \in HasSlot /\ took[w] = k)
  <2>1. Holding(k)' = Holding(k)
    BY <1>2 DEF Holding, TypeOK, HasSlot
  <2> QED BY <1>2, <2>1 DEF Size
<1> QED BY <1>1, <1>2

\* Nobody holds a slot of a day exactly if the number of them is 0.
LEMMA NobodyHolds ==
  \A k \in Day : (Holding(k) = {} <=> Size(k) = 0) /\ (Holding(k)' = {} <=> Size(k)' = 0)
<1> TAKE k \in Day
<1>1. Holding(k) \in SUBSET Worker /\ Holding(k)' \in SUBSET Worker
  BY DEF Holding
<1> QED BY <1>1, WorkersFinite, FS_EmptySet DEF Size

-----------------------------------------------------------------------------
(* The ceiling.                                                            *)

\* What the invariant says of one day, over the number of slots that are out.
DayIsCovered(k) ==
  /\ BeforeOf(k) <= existing[k]
  /\ used[k] = NoRow => made[k] = 0 /\ Size(k) = 0
  /\ used[k] # NoRow => BeforeOf(k) + made[k] + Size(k) <= used[k] + stray[k]
  /\ BeforeOf(k) + made[k] + Size(k) <= Ceiling + stray[k]

\* The invariant speaks of each day on its own.
LEMMA DayByDay ==
  /\ SlotInv <=> TypeOK /\ \A k \in Day : DayIsCovered(k)
  /\ SlotInv' <=> TypeOK' /\ \A k \in Day : DayIsCovered(k)'
BY NobodyHolds DEF SlotInv, SeedCountsBefore, RowCoversWork, DailyCeiling, Work, DayIsCovered, Size

\* Nothing a worker, an operator or the clock does uncovers the work of a day.
LEMMA StepCovers ==
  ASSUME TypeOK, TypeOK', [Next]_vars, \A k \in Day : DayIsCovered(k)
  PROVE  \A k \in Day : DayIsCovered(k)'
<1> TAKE k \in Day
<1> DEFINE u == used[k]
           m == made[k]
           s == stray[k]
<1>0. /\ Size(k) \in Nat /\ Size(k)' \in Nat /\ m \in Nat /\ s \in Nat
      /\ u \in Nat \cup {NoRow} /\ existing[k] \in Nat
      /\ BeforeOf(k) \in 0 .. Ceiling /\ Ceiling \in Nat
      /\ day \in Day
  BY SizeNat, Parameters DEF TypeOK
<1>a. DayIsCovered(k)
  OBVIOUS
<1>1. ASSUME NEW w \in Worker,
             LoadCap(w) \/ Refused(w) \/ InsertFails(w) \/ Stage(w) \/ StageFails(w)
      PROVE  DayIsCovered(k)'
  <2>1. PICK place \in Place :
          /\ pc' = [pc EXCEPT ![w] = place] /\ UNCHANGED <<took, used, existing, made, stray>>
          /\ pc[w] \in HasSlot <=> place \in HasSlot
    BY <1>1 DEF LoadCap, Refused, InsertFails, Stage, StageFails, Goes, Place, HasSlot, observers
  <2>2. Size(k)' = Size(k)
    BY <2>1, KeepsSlot
  <2> QED BY <1>a, <2>1, <2>2 DEF DayIsCovered, BeforeOf
<1>2. ASSUME NEW w \in Worker, Seed(w) PROVE DayIsCovered(k)'
  <2>1. Size(k)' = Size(k)
    <3>1. "seeded" \in Place /\ (pc[w] \in HasSlot <=> "seeded" \in HasSlot)
      BY <1>2 DEF Seed, Place, HasSlot
    <3> QED BY <1>2, <3>1, KeepsSlot DEF Seed, Goes
  <2>2. used'[k] = IF u = NoRow /\ k = day THEN existing[k] ELSE u
    BY <1>2 DEF Seed, Seeded, TypeOK
  <2> QED BY <1>0, <1>2, <1>a, <2>1, <2>2 DEF Seed, DayIsCovered, NoRow, observers, BeforeOf
<1>3. ASSUME NEW w \in Worker, TakeSlot(w) PROVE DayIsCovered(k)'
  <2>1. Size(k)' = IF k = day THEN Size(k) + 1 ELSE Size(k)
    BY <1>3, TakesOne DEF TakeSlot, Goes
  <2>2. used'[k] = IF k = day THEN u + 1 ELSE u
    BY <1>3 DEF TakeSlot, TypeOK
  <2>3. k = day => u # NoRow /\ u < Ceiling
    <3>1. cap[w] \in 0 .. Ceiling
      BY DEF TypeOK
    <3> QED BY <1>0, <1>3, <3>1 DEF TakeSlot, SlotLeft, NoRow
  <2> QED BY <1>0, <1>3, <1>a, <2>1, <2>2, <2>3 DEF TakeSlot, DayIsCovered, NoRow, observers, BeforeOf
<1>4. ASSUME NEW w \in Worker, TakeReplyLost(w) PROVE DayIsCovered(k)'
  <2>1. Size(k)' = Size(k)
    <3>1. "idle" \in Place /\ (pc[w] \in HasSlot <=> "idle" \in HasSlot)
      BY <1>4 DEF TakeReplyLost, Place, HasSlot
    <3> QED BY <1>4, <3>1, KeepsSlot DEF TakeReplyLost, Goes
  <2>2. used'[k] = u \/ (used'[k] = u + 1 /\ u # NoRow)
    BY <1>4 DEF TakeReplyLost, SlotLeft, TypeOK
  <2> QED BY <1>0, <1>4, <1>a, <2>1, <2>2 DEF TakeReplyLost, DayIsCovered, NoRow, observers, BeforeOf
<1>5. ASSUME NEW w \in Worker, Insert(w) \/ InsertReplyLost(w) \/ ShipEdit(w) PROVE DayIsCovered(k)'
  <2>1. Size(k)' = IF took[w] = k THEN Size(k) - 1 ELSE Size(k)
    <3>1. PICK place \in Place \ HasSlot : pc' = [pc EXCEPT ![w] = place]
      BY <1>5 DEF Insert, InsertReplyLost, ShipEdit, Goes, Place, HasSlot
    <3>2. pc[w] \in HasSlot /\ UNCHANGED took
      BY <1>5 DEF Insert, InsertReplyLost, ShipEdit, HasSlot
    <3> QED BY <3>1, <3>2, LeavesSlot
  <2>2. made'[k] = IF took[w] = k THEN m + 1 ELSE m
    BY <1>5 DEF Insert, InsertReplyLost, ShipEdit, Made, TypeOK
  <2>3. existing'[k] >= existing[k]
    BY <1>0, <1>5 DEF Insert, InsertReplyLost, ShipEdit, Made, TypeOK
  <2>4. UNCHANGED <<used, stray>>
    BY <1>5 DEF Insert, InsertReplyLost, ShipEdit
  <2>5. took[w] = k => Size(k) > 0
    BY <1>0, <2>1
  <2>6. existing'[k] \in Nat
    BY DEF TypeOK
  <2> QED BY <1>0, <1>a, <2>1, <2>2, <2>3, <2>4, <2>5, <2>6 DEF DayIsCovered, NoRow, BeforeOf
<1>6. ASSUME NEW w \in Worker, BatchFails(w) \/ GiveBackFails(w) \/ Crash(w) PROVE DayIsCovered(k)'
  <2>1. Size(k)' <= Size(k)
    <3>1. pc' = [pc EXCEPT ![w] = "idle"] /\ UNCHANGED took /\ "idle" \in Place \ HasSlot
      BY <1>6 DEF BatchFails, GiveBackFails, Crash, Goes, Place, HasSlot
    <3>2. Size(k)' = IF pc[w] \in HasSlot /\ took[w] = k THEN Size(k) - 1 ELSE Size(k)
      BY <3>1, LeavesSlot
    <3> QED BY <1>0, <3>2
  <2>2. UNCHANGED <<used, existing, made, stray>>
    BY <1>6 DEF BatchFails, GiveBackFails, Crash, observers
  <2> QED BY <1>0, <1>a, <2>1, <2>2 DEF DayIsCovered, NoRow, BeforeOf
<1>7. ASSUME NEW w \in Worker, GiveBack(w) PROVE DayIsCovered(k)'
  <2>1. Size(k)' = IF pc[w] = "giving" /\ took[w] = k THEN Size(k) - 1 ELSE Size(k)
    <3>1. pc' = [pc EXCEPT ![w] = "idle"] /\ UNCHANGED took /\ "idle" \in Place \ HasSlot
      BY <1>7 DEF GiveBack, Goes, Place, HasSlot
    <3>2. pc[w] \in HasSlot <=> pc[w] = "giving"
      BY <1>7 DEF GiveBack, HasSlot
    <3> QED BY <3>1, <3>2, LeavesSlot
  <2>2. used'[k] = IF k = day /\ u > 0 THEN u - 1 ELSE u
    BY <1>7 DEF GiveBack, TypeOK
  <2>3. stray'[k] = IF k = day /\ (pc[w] # "giving" \/ took[w] # day) THEN s + 1 ELSE s
    BY <1>7 DEF GiveBack, TypeOK
  <2>4. UNCHANGED <<existing, made>>
    BY <1>7 DEF GiveBack
  <2> QED BY <1>0, <1>a, <2>1, <2>2, <2>3, <2>4 DEF DayIsCovered, NoRow, BeforeOf
<1>8. CASE Midnight \/ SetLimit \/ UNCHANGED vars
  <2>1. UNCHANGED <<pc, took, used, existing, made, stray>>
    BY <1>8 DEF Midnight, SetLimit, vars, worker, observers
  <2>2. Size(k)' = Size(k)
    BY <2>1 DEF Size, Holding
  <2> QED BY <1>a, <2>1, <2>2 DEF DayIsCovered, BeforeOf
<1> QED
  BY <1>1, <1>2, <1>3, <1>4, <1>5, <1>6, <1>7, <1>8 DEF Next, Step

\* The invariant holds in every reachable state.
LEMMA SlotInvariant == Spec => []SlotInv
<1>1. Init => SlotInv
  <2> SUFFICES ASSUME Init PROVE SlotInv
    OBVIOUS
  <2>1. TypeOK
    BY Parameters DEF Init, TypeOK, Place
  <2>2. \A k \in Day : Holding(k) = {}
    BY DEF Init, Holding
  <2>3. \A k \in Day : Size(k) = 0
    BY <2>2, NobodyHolds
  <2>4. \A k \in Day : DayIsCovered(k)
    BY <2>3, Parameters DEF Init, DayIsCovered, NoRow
  <2> QED BY <2>1, <2>4, DayByDay
<1>2. SlotInv /\ TypeOK' /\ [Next]_vars => SlotInv'
  BY DayByDay, StepCovers
<1> QED
  BY <1>1, <1>2, TypeCorrect, PTL DEF Spec

\* The row of a day covers the work of that day, whoever is in the middle of what.
THEOREM RowCovers == Spec => []RowCoversWork
  BY SlotInvariant, PTL DEF SlotInv

\* "100 is absolute" (autonomous-quota.js), for every number of workers and days: only
\* a slot given back to a day it was not taken from, or for work that exists, makes
\* room for one more.
THEOREM CeilingHolds == Spec => []DailyCeiling
  BY SlotInvariant, PTL DEF SlotInv
=============================================================================
