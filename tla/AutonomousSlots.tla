----------------------------- MODULE AutonomousSlots -----------------------------
(***************************************************************************)
(* The daily ceiling on autonomous work of one site: one counter per local *)
(* day (store/autonomous-slots.js, migration 242), taken from before work  *)
(* is started by createDraft (store/drafts.js) and by the file-edits drain *)
(* (agents/lib/auto-remediation.js), in any number of processes.           *)
(*                                                                         *)
(* A worker is one piece of work being started: its slot is taken in three *)
(* statements that other workers, midnight and a changed limit may         *)
(* separate.                                                               *)
(***************************************************************************)
EXTENDS Integers, FiniteSets

CONSTANTS
  Drafter,      \* workers in createDraft, for a source of AUTONOMOUS_DRAFT_SOURCES
  Editor,       \* workers in the file-edits drain
  Ceiling,      \* HARD_CEILING
  Limit,        \* values of the site's effective daily limit
  Days,         \* how many local days are followed
  Before,       \* work of the first day that precedes the counter's row
  MaxLost       \* replies that may be lost after their statement committed

Worker == Drafter \cup Editor
Day == 1 .. Days

ASSUME SlotAssumption ==
  /\ IsFiniteSet(Drafter) /\ IsFiniteSet(Editor)
  /\ Drafter \cap Editor = {}
  /\ Ceiling \in Nat
  /\ Limit \subseteq Nat /\ Limit # {}
  /\ Days \in Nat \ {0}
  /\ Before \in 0 .. Ceiling
  /\ MaxLost \in Nat

NoRow == -1

VARIABLES
  day,          \* the site's local day
  limit,        \* effectiveSiteLimit(sites.auto_remediation_daily_limit, surge)
  used,         \* autonomous_daily_slots.used of each day, or NoRow
  existing,     \* work that SEED counts on each day: drafts created, file edits shipped
  pc, cap, took,\* each worker: where it stands, the cap it read, the day of its slot
  lost,         \* replies lost so far
  made,         \* observer: work that exists on a slot of each day
  stray         \* observer: slots given back to a day they were not taken from, or
                \* for work that does exist

vars == <<day, limit, used, existing, pc, cap, took, lost, made, stray>>
worker == <<pc, cap, took>>
observers == <<made, stray>>

Place == {"idle", "capped", "seeded", "held", "staged", "giving", "undoing"}

\* The workers that have a slot of day k and have not used it up or given it back.
Holding(k) == {w \in Worker : pc[w] \in {"held", "staged", "giving"} /\ took[w] = k}

BeforeOf(k) == IF k = 1 THEN Before ELSE 0

TypeOK ==
  /\ day \in Day
  /\ limit \in Limit
  /\ used \in [Day -> Nat \cup {NoRow}]
  /\ existing \in [Day -> Nat]
  /\ pc \in [Worker -> Place]
  /\ cap \in [Worker -> 0 .. Ceiling]
  /\ took \in [Worker -> Day]
  /\ lost \in 0 .. MaxLost
  /\ made \in [Day -> Nat]
  /\ stray \in [Day -> Nat]

Init ==
  /\ day = 1
  /\ limit \in Limit
  /\ used = [k \in Day |-> NoRow]
  /\ existing = [k \in Day |-> BeforeOf(k)]
  /\ pc = [w \in Worker |-> "idle"]
  /\ cap = [w \in Worker |-> 0]
  /\ took = [w \in Worker |-> 1]
  /\ lost = 0
  /\ made = [k \in Day |-> 0]
  /\ stray = [k \in Day |-> 0]

Goes(w, place) == pc' = [pc EXCEPT ![w] = place]

-----------------------------------------------------------------------------
(* Mutated forms, used only to show that the properties below can fail.    *)

SeededAgain == [used EXCEPT ![day] = existing[day]]
LimitOnly == limit
SlotLeftLate(w) == used[day] # NoRow /\ used[day] <= cap[w]

-----------------------------------------------------------------------------
(* The three statements of takeSlot.                                       *)

\* min(the site's limit, HARD_CEILING), with the limit as it is at this moment.
CapNow == IF limit < Ceiling THEN limit ELSE Ceiling

\* INSERT ... ON CONFLICT DO NOTHING, with what the day has already spent.
Seeded == IF used[day] = NoRow THEN [used EXCEPT ![day] = existing[day]] ELSE used

\* WHERE day = today AND used < cap.
SlotLeft(w) == used[day] # NoRow /\ used[day] < cap[w]

LoadCap(w) ==
  /\ pc[w] = "idle"
  /\ cap' = [cap EXCEPT ![w] = CapNow]
  /\ Goes(w, "capped")
  /\ UNCHANGED <<day, limit, used, existing, took, lost, observers>>

Seed(w) ==
  /\ pc[w] = "capped"
  /\ used' = Seeded
  /\ Goes(w, "seeded")
  /\ UNCHANGED <<day, limit, existing, cap, took, lost, observers>>

TakeSlot(w) ==
  /\ pc[w] = "seeded"
  /\ SlotLeft(w)
  /\ used' = [used EXCEPT ![day] = @ + 1]
  /\ took' = [took EXCEPT ![w] = day]
  /\ Goes(w, "held")
  /\ UNCHANGED <<day, limit, existing, cap, lost, observers>>

\* AutonomousCeilingError: no slot is left, or the day that was seeded is over.
Refused(w) ==
  /\ pc[w] = "seeded"
  /\ ~SlotLeft(w)
  /\ Goes(w, "idle")
  /\ UNCHANGED <<day, limit, used, existing, cap, took, lost, observers>>

\* The slot is taken but the worker never learns it: takeSlot throws, and neither
\* caller gives anything back.
TakeReplyLost(w) ==
  /\ pc[w] = "seeded"
  /\ SlotLeft(w)
  /\ lost < MaxLost
  /\ lost' = lost + 1
  /\ used' = [used EXCEPT ![day] = @ + 1]
  /\ Goes(w, "idle")
  /\ UNCHANGED <<day, limit, existing, cap, took, observers>>

-----------------------------------------------------------------------------
(* createDraft and the file-edits drain, once the slot is taken.           *)

\* The work exists: a row of drafts, or a file edit in a batch that was pushed.
Made(w) ==
  /\ existing' = [existing EXCEPT ![day] = @ + 1]
  /\ made' = [made EXCEPT ![took[w]] = @ + 1]

Insert(w) ==
  /\ w \in Drafter
  /\ pc[w] = "held"
  /\ Made(w)
  /\ Goes(w, "idle")
  /\ UNCHANGED <<day, limit, used, cap, took, lost, stray>>

\* The INSERT is refused (a duplicate finding, a constraint, an outage).
InsertFails(w) ==
  /\ w \in Drafter
  /\ pc[w] = "held"
  /\ Goes(w, "giving")
  /\ UNCHANGED <<day, limit, used, existing, cap, took, lost, observers>>

\* The INSERT commits and its connection breaks: the catch clause takes it for an
\* insert that failed.
InsertReplyLost(w) ==
  /\ w \in Drafter
  /\ pc[w] = "held"
  /\ lost < MaxLost
  /\ lost' = lost + 1
  /\ Made(w)
  /\ Goes(w, "undoing")
  /\ UNCHANGED <<day, limit, used, cap, took, stray>>

\* pushFileEditsOntoBatch: the edit is part of the run's batch.
Stage(w) ==
  /\ w \in Editor
  /\ pc[w] = "held"
  /\ Goes(w, "staged")
  /\ UNCHANGED <<day, limit, used, existing, cap, took, lost, observers>>

StageFails(w) ==
  /\ w \in Editor
  /\ pc[w] = "held"
  /\ Goes(w, "giving")
  /\ UNCHANGED <<day, limit, used, existing, cap, took, lost, observers>>

\* finalizeBatchPr succeeded: markShipped.
ShipEdit(w) ==
  /\ pc[w] = "staged"
  /\ Made(w)
  /\ Goes(w, "idle")
  /\ UNCHANGED <<day, limit, used, cap, took, lost, stray>>

\* finalizeBatchPr failed: the item is released, its slot stays spent.
BatchFails(w) ==
  /\ pc[w] = "staged"
  /\ Goes(w, "idle")
  /\ UNCHANGED <<day, limit, used, existing, cap, took, lost, observers>>

\* giveBackSlot: GREATEST(0, used - 1) on the row of the day it is NOW.
GiveBack(w) ==
  /\ pc[w] \in {"giving", "undoing"}
  /\ used' = [used EXCEPT ![day] = IF @ > 0 THEN @ - 1 ELSE @]
  /\ stray' = IF pc[w] = "undoing" \/ took[w] # day
              THEN [stray EXCEPT ![day] = @ + 1] ELSE stray
  /\ Goes(w, "idle")
  /\ UNCHANGED <<day, limit, existing, cap, took, lost, made>>

\* Its UPDATE fails: swallowed.
GiveBackFails(w) ==
  /\ pc[w] \in {"giving", "undoing"}
  /\ Goes(w, "idle")
  /\ UNCHANGED <<day, limit, used, existing, cap, took, lost, observers>>

-----------------------------------------------------------------------------
(* The environment.                                                        *)

\* The process dies: "a crash between taking and using a slot loses that slot".
Crash(w) ==
  /\ pc[w] # "idle"
  /\ Goes(w, "idle")
  /\ UNCHANGED <<day, limit, used, existing, cap, took, lost, observers>>

Midnight ==
  /\ day < Days
  /\ day' = day + 1
  /\ UNCHANGED <<limit, used, existing, worker, lost, observers>>

\* An operator sets the limit or pauses the site, or Surge Mode ends.
SetLimit ==
  /\ limit' \in Limit
  /\ UNCHANGED <<day, used, existing, worker, lost, observers>>

Step(w) ==
  \/ LoadCap(w) \/ Seed(w) \/ TakeSlot(w) \/ Refused(w) \/ TakeReplyLost(w)
  \/ Insert(w) \/ InsertFails(w) \/ InsertReplyLost(w)
  \/ Stage(w) \/ StageFails(w) \/ ShipEdit(w) \/ BatchFails(w)
  \/ GiveBack(w) \/ GiveBackFails(w) \/ Crash(w)

Next == (\E w \in Worker : Step(w)) \/ Midnight \/ SetLimit

Spec == Init /\ [][Next]_vars

-----------------------------------------------------------------------------
(* Properties.                                                             *)

\* The work of day k: done before the counter had its row, existing on a slot of that
\* day, or under way with one.
Work(k) == BeforeOf(k) + made[k] + Cardinality(Holding(k))

\* "100 is absolute" (autonomous-quota.js), as far as the code makes it true: whatever
\* the interleaving of workers, the crashes and the changes of the limit, the work of
\* a day exceeds HARD_CEILING by no more than the slots that were given back to that
\* day without belonging to it, or for work that does exist after all.
DailyCeiling == \A k \in Day : Work(k) <= Ceiling + stray[k]

\* Why it holds: the row of a day covers all the work of that day.
RowCoversWork ==
  \A k \in Day :
    IF used[k] = NoRow THEN made[k] = 0 /\ Holding(k) = {} ELSE Work(k) <= used[k] + stray[k]

\* SEED never has less to count than what preceded the counter.
SeedCountsBefore == \A k \in Day : BeforeOf(k) <= existing[k]
=============================================================================
