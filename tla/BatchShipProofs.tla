----------------------------- MODULE BatchShipProofs -----------------------------
(***************************************************************************)
(* The day's batch for any drafts, runs, people, processes, faults and     *)
(* crashes (BatchShip).                                                    *)
(*                                                                         *)
(* Every variable keeps its type, and a finished draft never goes back,    *)
(* whoever still works on it.  Each step is shown to keep the types, to    *)
(* take no draft back, and to leave pending only what was pushed (Good).   *)
(*                                                                         *)
(* What each step does is then said field by field, and which steps push   *)
(* or move the branch: BatchTurnsProofs is built on these facts.  The last *)
(* section shows that a commit names only drafts whose files it holds.     *)
(***************************************************************************)
EXTENDS BatchShip, SequenceTheorems, TLAPS

BatchType == [active : BOOLEAN, base : Tip \cup {NoSha}, entries : SUBSET Draft]

JobType == [pc : Place, draft : Draft \cup {NoDraft}, existed : BOOLEAN, tried : SUBSET Draft,
            pending : Seq(Draft), commit : Tip \cup {NoSha}, parent : Tip \cup {NoSha}]

SweepType == [pc : {"idle", "listed", "compared", "rechecked", "opening"},
              seen : SUBSET Draft, landed : SUBSET Draft]

\* The types, with those that TypeOK leaves to the reader.
DraftTypes == status \in [Draft -> Status] /\ failed \in [Draft -> BOOLEAN] /\ shipped \subseteq Draft
GithubTypes == main \in 0 .. MaxMain /\ tip \in Tip \cup {NoBranch} /\ pr \in BOOLEAN
BatchTypes == /\ batch \in [Process -> BatchType]
              /\ \A p \in Process : batch[p].entries # {} => batch[p].base \in Tip
SweepTypes == sweep \in SweepType
BoundTypes == faults \in 0 .. MaxFault /\ crashes \in 0 .. MaxCrash

\* A job has what the place it stands at needs.
Ready(x) ==
  /\ x.pc \in {"resolving", "staging", "recording"} => x.draft \in Draft
  /\ x.pc = "moving" => x.commit \in Tip
  /\ x.pc = "idle" => x.pending = <<>>

JobTypes == /\ job \in [Job -> JobType]
            /\ \A j \in Job : /\ Ready(job[j])
                              /\ job[j].existed => tip \in Tip

Types == DraftTypes /\ GithubTypes /\ BatchTypes /\ JobTypes /\ SweepTypes /\ BoundTypes

-----------------------------------------------------------------------------
(* Tips, batches and jobs.                                                 *)

\* What the constants are.
LEMMA Parameters ==
  /\ Repair \subseteq Draft /\ Run \subseteq Job /\ Human \subseteq Job /\ Run \cap Human = {}
  /\ Sweep \notin Job /\ \A j \in Job : Home[j] \in Process
  /\ MaxFault \in Nat /\ MaxCrash \in Nat /\ MaxMain \in Nat
  BY BatchAssumption DEF Job

\* A tip with another log and tree, or fork, is a tip.
LEMMA TipUpdates ==
  ASSUME NEW t \in Tip, NEW log \in Seq(Commit), NEW tree \in SUBSET Draft, NEW fork \in 0 .. MaxMain
  PROVE  /\ [t EXCEPT !.log = log, !.tree = tree] \in Tip
         /\ [t EXCEPT !.log = log, !.fork = fork] \in Tip
<1> DEFINE Logs == Seq(Commit)
<1>1. t \in [log : Logs, tree : SUBSET Draft, fork : 0 .. MaxMain, undoes : BOOLEAN] /\ log \in Logs
  BY DEF Tip
<1> HIDE DEF Logs
<1>2. /\ [t EXCEPT !.log = log, !.tree = tree]
           \in [log : Logs, tree : SUBSET Draft, fork : 0 .. MaxMain, undoes : BOOLEAN]
      /\ [t EXCEPT !.log = log, !.fork = fork]
           \in [log : Logs, tree : SUBSET Draft, fork : 0 .. MaxMain, undoes : BOOLEAN]
  BY <1>1
<1> QED BY <1>2 DEF Tip, Logs

\* A commit on top of a tip makes a tip.
LEMMA AppendedTyped ==
  ASSUME NEW t \in Tip, NEW by \in {"apply", "batch", "sync"}, NEW D \in SUBSET Draft,
         NEW fork \in 0 .. MaxMain
  PROVE  /\ Appended(t, by, D) \in Tip
         /\ [t EXCEPT !.log = Append(t.log, [by |-> by, names |-> D]), !.fork = fork] \in Tip
<1>1. [by |-> by, names |-> D] \in Commit
  BY DEF Commit
<1>2. t.log \in Seq(Commit)
  BY DEF Tip
<1>3. Append(t.log, [by |-> by, names |-> D]) \in Seq(Commit)
  BY <1>1, <1>2, AppendProperties
<1>4. /\ Appended(t, by, D)
           = [t EXCEPT !.log = Append(t.log, [by |-> by, names |-> D]), !.tree = t.tree \cup D]
      /\ t.tree \cup D \in SUBSET Draft
  BY DEF Appended, Tip
<1> DEFINE log == Append(t.log, [by |-> by, names |-> D])
<1> HIDE DEF log
<1>5. log \in Seq(Commit) /\ t.tree \cup D \in SUBSET Draft /\ t.tree \in SUBSET Draft
  BY <1>3, <1>4 DEF log, Tip
<1>6. [t EXCEPT !.log = log, !.tree = t.tree \cup D] \in Tip /\ [t EXCEPT !.log = log, !.fork = fork] \in Tip
  BY <1>5, TipUpdates
<1> QED BY <1>4, <1>6 DEF log

\* So does a new branch, a sync with the default branch, and a squash.
LEMMA TipsTyped ==
  ASSUME GithubTypes
  PROVE  /\ FreshFromMain \in Tip
         /\ \A t \in Tip : Synced(t) \in Tip
         /\ \A t \in Tip, D \in SUBSET Draft : MaySquash(t) => Squashed(t, D) \in Tip
<1>1. FreshFromMain \in Tip
  <2>1. <<>> \in Seq(Commit)
    BY EmptySeq
  <2> QED BY <2>1 DEF FreshFromMain, Tip, GithubTypes
<1>2. ASSUME NEW t \in Tip PROVE Synced(t) \in Tip
  <2>1. "sync" \in {"apply", "batch", "sync"} /\ {} \in SUBSET Draft /\ main \in 0 .. MaxMain
    BY DEF GithubTypes
  <2>2. [t EXCEPT !.log = Append(t.log, [by |-> "sync", names |-> {}]), !.fork = main] \in Tip
    BY <2>1, AppendedTyped
  <2> QED BY <2>2 DEF Synced
<1>3. ASSUME NEW t \in Tip, NEW D \in SUBSET Draft, MaySquash(t) PROVE Squashed(t, D) \in Tip
  <2>1. t.log \in Seq(Commit) /\ t.log # <<>>
    BY <1>3 DEF MaySquash, Tip
  <2>2. t.log[Len(t.log)] \in Commit
    BY <2>1
  <2> DEFINE c == [by |-> "batch", names |-> t.log[Len(t.log)].names \cup D]
  <2>3. c \in Commit
    BY <2>2 DEF Commit
  <2>4. <<c>> \in Seq(Commit)
    BY <2>3
  <2>5. Squashed(t, D) = [log |-> <<c>>, tree |-> t.tree \cup D, fork |-> main,
                          undoes |-> t.undoes \/ t.fork # main]
    BY DEF Squashed
  <2> HIDE DEF c
  <2> QED BY <2>4, <2>5 DEF Tip, GithubTypes
<1> QED BY <1>1, <1>2, <1>3

\* Nothing staged, nothing in hand, nothing seen.
LEMMA NothingTyped ==
  /\ NotBatching \in BatchType /\ NotBatching.entries = {} /\ NotBatching.active = FALSE
  /\ [NotBatching EXCEPT !.active = TRUE] \in BatchType
  /\ [NotBatching EXCEPT !.active = TRUE].entries = {} /\ [NotBatching EXCEPT !.active = TRUE].active = TRUE
  /\ \A p \in Place : /\ AtRest(p) \in JobType /\ AtRest(p).pc = p
                      /\ AtRest(p).pending = <<>> /\ AtRest(p).existed = FALSE
  /\ Ready(AtRest("done")) /\ Ready(AtRest("idle"))
  /\ Asleep \in SweepType
  BY EmptySeq DEF NotBatching, BatchType, AtRest, JobType, Ready, Asleep, SweepType

\* What is pending, as a set.
LEMMA SeqSetOf ==
  ASSUME NEW s \in Seq(Draft), NEW d \in Draft
  PROVE  /\ SeqSet(s) \subseteq Draft /\ SeqSet(<<>>) = {}
         /\ s # <<>> => s[1] \in SeqSet(s)
         /\ Append(s, d) \in Seq(Draft) /\ Append(s, d) # <<>> /\ SeqSet(Append(s, d)) = SeqSet(s) \cup {d}
<1>1. SeqSet(s) \subseteq Draft /\ SeqSet(<<>>) = {}
  BY DEF SeqSet
<1>2. s # <<>> => s[1] \in SeqSet(s)
  BY DEF SeqSet
<1>3. /\ Append(s, d) \in Seq(Draft) /\ Len(Append(s, d)) = Len(s) + 1
      /\ \A i \in 1 .. Len(s) : Append(s, d)[i] = s[i]
      /\ Append(s, d)[Len(s) + 1] = d
  BY AppendProperties
<1>4. SeqSet(Append(s, d)) = SeqSet(s) \cup {d}
  <2>1. DOMAIN s = 1 .. Len(s) /\ DOMAIN Append(s, d) = 1 .. Len(s) + 1 /\ Len(s) \in Nat
    BY <1>3
  <2>2. 1 .. Len(s) + 1 = (1 .. Len(s)) \cup {Len(s) + 1}
    BY <2>1
  <2> QED BY <1>3, <2>1, <2>2 DEF SeqSet
<1> QED BY <1>1, <1>2, <1>3, <1>4

-----------------------------------------------------------------------------
(* The rows of drafts.                                                     *)

\* A draft is never taken back to what it was before it was pushed.
Later == {"branch_pushed", "pr_opened", "abandoned"}
Ended == {"pr_opened", "abandoned"}

Onward ==
  \A d \in Draft : /\ status[d] = "abandoned" => status'[d] = "abandoned"
                   /\ status[d] = "pr_opened" => status'[d] \in Ended
                   /\ status[d] = "branch_pushed" => status'[d] \in Later

\* Each UPDATE keeps the types, and takes no draft back.
LEMMA UpdatesAreOnward ==
  ASSUME DraftTypes, shipped' \subseteq Draft
  PROVE  /\ UNCHANGED <<status, failed>> => DraftTypes' /\ Onward
         /\ \A d \in Draft : MarkBranchPushed(d) => DraftTypes' /\ Onward /\ status'[d] = "branch_pushed"
         /\ \A D \in SUBSET Draft :
              MarkPrOpened(D) => /\ DraftTypes' /\ Onward
                                 /\ \A d \in D : status[d] \in Later => status'[d] \in Ended
         /\ \A D \in SUBSET Draft : MarkAbandoned(D) \/ RecordMergeFailure(D) => DraftTypes' /\ Onward
         /\ \A d \in Draft : RecordApplyFailure(d) => DraftTypes' /\ Onward
<1>1. UNCHANGED <<status, failed>> => DraftTypes' /\ Onward
  BY DEF DraftTypes, Onward, Later, Ended
<1>2. ASSUME NEW d \in Draft, MarkBranchPushed(d) PROVE DraftTypes' /\ Onward /\ status'[d] = "branch_pushed"
  BY <1>2 DEF DraftTypes, Onward, Later, Ended, MarkBranchPushed, Status
<1>3. ASSUME NEW D \in SUBSET Draft, MarkPrOpened(D)
      PROVE  /\ DraftTypes' /\ Onward
             /\ \A d \in D : status[d] \in Later => status'[d] \in Ended
  BY <1>3 DEF DraftTypes, Onward, Later, Ended, MarkPrOpened, Status
<1>4. ASSUME NEW D \in SUBSET Draft, MarkAbandoned(D) PROVE DraftTypes' /\ Onward
  BY <1>4 DEF DraftTypes, Onward, Later, Ended, MarkAbandoned, Status
<1>5. ASSUME NEW D \in SUBSET Draft, RecordMergeFailure(D) PROVE DraftTypes' /\ Onward
  BY <1>5 DEF DraftTypes, Onward, Later, Ended, RecordMergeFailure
<1>6. ASSUME NEW d \in Draft, RecordApplyFailure(d) PROVE DraftTypes' /\ Onward
  BY <1>6 DEF DraftTypes, Onward, Later, Ended, RecordApplyFailure
<1> QED BY <1>1, <1>2, <1>3, <1>4, <1>5, <1>6

-----------------------------------------------------------------------------
(* What one job's step does to the jobs.                                   *)

\* The job that moves has what it needs; the others keep what they have.
LEMMA JobMoves ==
  ASSUME JobTypes, NEW j \in Job, NEW x \in JobType, Ready(x), job' = [job EXCEPT ![j] = x],
         x.existed => tip' \in Tip, tip \in Tip => tip' \in Tip
  PROVE  JobTypes' /\ job'[j] = x /\ \A k \in Job \ {j} : job'[k] = job[k]
<1>1. job' \in [Job -> JobType] /\ job'[j] = x /\ \A k \in Job \ {j} : job'[k] = job[k]
  BY DEF JobTypes
<1>2. ASSUME NEW k \in Job PROVE Ready(job'[k]) /\ (job'[k].existed => tip' \in Tip)
  BY <1>1 DEF JobTypes
<1> QED BY <1>1, <1>2 DEF JobTypes, Ready

\* A job goes on to another place.
LEMMA GoMoves ==
  ASSUME JobTypes, NEW j \in Job, NEW pc \in Place \ {"idle"}, Go(j, pc),
         pc \in {"resolving", "staging", "recording"} => job[j].draft \in Draft,
         pc = "moving" => job[j].commit \in Tip, tip \in Tip => tip' \in Tip
  PROVE  /\ JobTypes' /\ job'[j].pc = pc /\ job'[j].pending = job[j].pending
         /\ job'[j].draft = job[j].draft
         /\ \A k \in Job \ {j} : job'[k] = job[k]
<1> DEFINE x == [job[j] EXCEPT !.pc = pc]
<1>1. job[j] \in JobType /\ (job[j].existed => tip \in Tip)
  BY DEF JobTypes
<1>2. /\ x \in JobType /\ x.pc = pc /\ x.pending = job[j].pending /\ x.draft = job[j].draft
      /\ x.existed = job[j].existed /\ x.commit = job[j].commit
  BY <1>1 DEF JobType
<1>3. job' = [job EXCEPT ![j] = x]
  BY DEF Go
<1> HIDE DEF x
<1>4. Ready(x)
  BY <1>2 DEF Ready
<1> QED BY <1>1, <1>2, <1>3, <1>4, JobMoves

\* A job's step is over.
LEMMA LeaveMoves ==
  ASSUME JobTypes, NEW j \in Job, Leave(j), tip \in Tip => tip' \in Tip
  PROVE  /\ JobTypes' /\ job'[j] = AtRest("done")
         /\ \A k \in Job \ {j} : job'[k] = job[k]
<1>1. "done" \in Place /\ AtRest("done") \in JobType /\ Ready(AtRest("done")) /\ ~AtRest("done").existed
  BY NothingTyped DEF Place
<1> QED BY <1>1, JobMoves DEF Leave

\* A job's item is over.
LEMMA NextItemMoves ==
  ASSUME JobTypes, NEW j \in Job, NextItem(j), tip \in Tip => tip' \in Tip
  PROVE  /\ JobTypes' /\ \A k \in Job \ {j} : job'[k] = job[k]
         /\ job'[j].pending \in {job[j].pending, <<>>}
         /\ IF j \in Run THEN job'[j].pc = "looping" /\ job'[j].pending = job[j].pending
                         ELSE job'[j].pc = "done"
<1>1. CASE j \notin Run
  BY <1>1, LeaveMoves, NothingTyped DEF NextItem, Place
<1>2. CASE j \in Run
  <2> DEFINE x == [job[j] EXCEPT !.pc = "looping", !.draft = NoDraft]
  <2>1. job[j] \in JobType /\ (job[j].existed => tip \in Tip)
    BY DEF JobTypes
  <2>2. x \in JobType /\ x.pc = "looping" /\ x.pending = job[j].pending /\ x.existed = job[j].existed
    BY <2>1 DEF JobType, Place
  <2>3. job' = [job EXCEPT ![j] = x]
    BY <1>2, <2>1 DEF NextItem, JobType, JobTypes
  <2> HIDE DEF x
  <2>4. Ready(x)
    BY <2>2 DEF Ready
  <2> QED BY <1>2, <2>1, <2>2, <2>3, <2>4, JobMoves
<1> QED BY <1>1, <1>2

-----------------------------------------------------------------------------
(* Types, order, and what is pending: every step.                          *)

\* What a job has pending was pushed.
PendingIsPushed == \A j \in Job : \A d \in SeqSet(job[j].pending) : status[d] \in Later

BatchInv == Types /\ PendingIsPushed

\* What was pushed stays at least that.
LEMMA LaterStays ==
  ASSUME Onward, NEW d \in Draft, status[d] \in Later
  PROVE  status'[d] \in Later /\ (status[d] \in Ended => status'[d] \in Ended)
  BY DEF Onward, Later, Ended

\* What is pending stays pushed when nothing is added to it, or something pushed is.
LEMMA PendingStays ==
  ASSUME BatchInv, Onward,
         \A k \in Job : \/ job'[k].pending \in {job[k].pending, <<>>}
                        \/ \E d \in Draft : /\ job'[k].pending = Append(job[k].pending, d)
                                            /\ status'[d] \in Later
  PROVE  PendingIsPushed'
<1> SUFFICES ASSUME NEW k \in Job, NEW e \in SeqSet(job'[k].pending)
             PROVE  status'[e] \in Later
  BY DEF PendingIsPushed
<1>1. job[k].pending \in Seq(Draft)
  BY DEF BatchInv, Types, JobTypes, JobType
<1>2. \A d \in SeqSet(job[k].pending) : status'[d] \in Later
  BY <1>1, SeqSetOf, LaterStays DEF BatchInv, PendingIsPushed, SeqSet
<1>3. CASE job'[k].pending \in {job[k].pending, <<>>}
  BY <1>2, <1>3 DEF SeqSet
<1>4. CASE \E d \in Draft : job'[k].pending = Append(job[k].pending, d) /\ status'[d] \in Later
  <2>1. PICK d \in Draft : job'[k].pending = Append(job[k].pending, d) /\ status'[d] \in Later
    BY <1>4
  <2>2. SeqSet(job'[k].pending) = SeqSet(job[k].pending) \cup {d}
    BY <1>1, <2>1, SeqSetOf
  <2> QED BY <1>2, <2>1, <2>2
<1> QED BY <1>3, <1>4

Good == Types' /\ Onward /\ PendingIsPushed'

\* A run begins: its process batches from now on.
LEMMA BeginStep ==
  ASSUME BatchInv, NEW r \in Run, Begin(r)
  PROVE  Good
<1>1. /\ UNCHANGED <<status, failed, shipped, main, tip, pr, sweep, faults, crashes>>
      /\ r \in Job /\ Home[r] \in Process /\ Go(r, "looping")
  BY Parameters DEF Begin, drafts, github, bounds
<1>2. JobTypes' /\ job'[r].pending = job[r].pending /\ \A k \in Job \ {r} : job'[k] = job[k]
  BY <1>1, GoMoves DEF BatchInv, Types, Place
<1>3. BatchTypes'
  <2> DEFINE fresh == [NotBatching EXCEPT !.active = TRUE]
  <2>1. fresh \in BatchType /\ fresh.entries = {}
    BY NothingTyped
  <2>2. batch' = [batch EXCEPT ![Home[r]] = IF @.active THEN @ ELSE fresh]
    BY DEF Begin
  <2> HIDE DEF fresh
  <2> QED BY <1>1, <2>1, <2>2 DEF BatchInv, Types, BatchTypes
<1>4. DraftTypes' /\ Onward
  BY <1>1, UpdatesAreOnward DEF BatchInv, Types, DraftTypes
<1>5. PendingIsPushed'
  BY <1>1, <1>2, <1>4, PendingStays
<1> QED BY <1>1, <1>2, <1>3, <1>4, <1>5 DEF BatchInv, Types, GithubTypes, SweepTypes, BoundTypes, Good

\* A run takes the next draft it is offered.
LEMMA TakeStep ==
  ASSUME BatchInv, NEW r \in Run, NEW d \in Draft,
         \/ ApproveNext(r, d) \/ JoinAwaitingPr(r, d) \/ ResetStranded(r, d) \/ CountFinished(r, d)
  PROVE  Good
<1>1. /\ UNCHANGED <<main, tip, pr, batch, sweep, faults, crashes>>
      /\ r \in Job /\ job[r].pc = "looping" /\ shipped' \subseteq Draft
      /\ job[r] \in JobType /\ (job[r].existed => tip \in Tip)
  BY Parameters
     DEF ApproveNext, JoinAwaitingPr, ResetStranded, CountFinished, Take, github, bounds,
         BatchInv, Types, DraftTypes, JobTypes
<1>2. DraftTypes' /\ Onward
  <2>1. CASE ApproveNext(r, d)
    BY <2>1, <1>1 DEF ApproveNext, BatchInv, Types, DraftTypes, Onward, Status, Later, Ended
  <2>2. CASE JoinAwaitingPr(r, d) \/ CountFinished(r, d)
    BY <2>2, <1>1, UpdatesAreOnward DEF JoinAwaitingPr, CountFinished, BatchInv, Types
  <2>3. CASE ResetStranded(r, d)
    BY <2>3, <1>1, UpdatesAreOnward DEF ResetStranded, BatchInv, Types
  <2> QED BY <2>1, <2>2, <2>3
<1>3. PICK x \in JobType :
        /\ job' = [job EXCEPT ![r] = x] /\ Ready(x) /\ (x.existed => tip' \in Tip)
        /\ \/ x.pending = job[r].pending
           \/ x.pending = Append(job[r].pending, d) /\ status'[d] \in Later
  <2> DEFINE tried == job[r].tried \cup {d}
  <2>0. tried \in SUBSET Draft
    BY <1>1 DEF JobType
  <2>1. CASE ApproveNext(r, d)
    <3> DEFINE x == [job[r] EXCEPT !.pc = "resolving", !.draft = d, !.tried = tried]
    <3>1. /\ x \in JobType /\ x.pc = "resolving" /\ x.draft = d
          /\ x.pending = job[r].pending /\ x.existed = job[r].existed
      BY <1>1, <2>0 DEF JobType, Place
    <3>2. job' = [job EXCEPT ![r] = x]
      BY <2>1, <1>1 DEF ApproveNext, BatchInv, Types, JobTypes, JobType
    <3> HIDE DEF x
    <3> QED BY <1>1, <3>1, <3>2 DEF Ready
  <2>2. CASE JoinAwaitingPr(r, d)
    <3> DEFINE pending == Append(job[r].pending, d)
               x == [job[r] EXCEPT !.pending = pending, !.tried = tried]
    <3>1. pending \in Seq(Draft)
      BY <1>1, SeqSetOf DEF JobType
    <3>2. job' = [job EXCEPT ![r] = x]
      BY <2>2, <1>1 DEF JoinAwaitingPr, BatchInv, Types, JobTypes, JobType
    <3>3. status'[d] \in Later
      BY <2>2 DEF JoinAwaitingPr, Later
    <3> HIDE DEF pending
    <3>4. x \in JobType /\ x.pc = job[r].pc /\ x.pending = pending /\ x.existed = job[r].existed
      BY <1>1, <2>0, <3>1 DEF JobType
    <3> HIDE DEF x
    <3>5. Ready(x) /\ x.pending = Append(job[r].pending, d)
      BY <1>1, <3>4 DEF Ready, pending
    <3> QED BY <1>1, <3>2, <3>3, <3>4, <3>5
  <2>3. CASE ResetStranded(r, d) \/ CountFinished(r, d)
    <3> DEFINE x == [job[r] EXCEPT !.tried = tried]
    <3>1. x \in JobType /\ x.pc = job[r].pc /\ x.pending = job[r].pending /\ x.existed = job[r].existed
      BY <1>1, <2>0 DEF JobType
    <3>2. job' = [job EXCEPT ![r] = x]
      BY <2>3, <1>1 DEF ResetStranded, CountFinished, BatchInv, Types, JobTypes, JobType
    <3> HIDE DEF x
    <3> QED BY <1>1, <3>1, <3>2 DEF Ready
  <2> QED BY <2>1, <2>2, <2>3
<1>4. JobTypes' /\ job'[r] = x /\ \A k \in Job \ {r} : job'[k] = job[k]
  BY <1>1, <1>3, JobMoves DEF BatchInv, Types
<1>5. PendingIsPushed'
  BY <1>2, <1>3, <1>4, PendingStays
<1> QED BY <1>1, <1>2, <1>4, <1>5
        DEF BatchInv, Types, GithubTypes, SweepTypes, BoundTypes, BatchTypes, Good

\* A person approves one draft.
LEMMA PersonStep ==
  ASSUME BatchInv, NEW h \in Human, NEW d \in Draft, PersonApproves(h, d)
  PROVE  Good
<1>1. /\ UNCHANGED <<failed, shipped, main, tip, pr, batch, sweep, faults, crashes>>
      /\ h \in Job /\ job[h] \in JobType /\ (job[h].existed => tip \in Tip)
  BY Parameters DEF PersonApproves, github, bounds, BatchInv, Types, JobTypes
<1>2. DraftTypes' /\ Onward
  BY <1>1 DEF PersonApproves, BatchInv, Types, DraftTypes, Onward, Status, Later, Ended
<1> DEFINE x == [job[h] EXCEPT !.pc = "resolving", !.draft = d]
<1>3. /\ x \in JobType /\ x.pc = "resolving" /\ x.draft = d
      /\ x.pending = job[h].pending /\ x.existed = job[h].existed
  BY <1>1 DEF JobType, Place
<1>4. job' = [job EXCEPT ![h] = x]
  BY <1>1 DEF PersonApproves, BatchInv, Types, JobTypes, JobType
<1> HIDE DEF x
<1>5. JobTypes' /\ job'[h] = x /\ \A k \in Job \ {h} : job'[k] = job[k]
  BY <1>1, <1>3, <1>4, JobMoves DEF BatchInv, Types, Ready
<1>6. PendingIsPushed'
  BY <1>2, <1>3, <1>5, PendingStays
<1> QED BY <1>1, <1>2, <1>5, <1>6
        DEF BatchInv, Types, GithubTypes, SweepTypes, BoundTypes, BatchTypes, Good

\* The branch is found, brought up to date, or not there yet.
LEMMA ResolveStep ==
  ASSUME BatchInv, NEW j \in Job, Resolve(j)
  PROVE  Good
<1>1. /\ UNCHANGED <<status, failed, shipped, main, pr, batch, sweep, faults, crashes>>
      /\ job[j] \in JobType /\ job[j].draft \in Draft
  BY DEF Resolve, drafts, bounds, BatchInv, Types, JobTypes, Ready
<1>2. tip' \in Tip \cup {NoBranch} /\ (tip \in Tip \/ tip # NoBranch => tip' \in Tip)
  BY TipsTyped DEF Resolve, BatchInv, Types, GithubTypes
<1> DEFINE x == [job[j] EXCEPT !.pc = "staging", !.existed = tip # NoBranch]
<1>3. /\ x \in JobType /\ x.pc = "staging" /\ x.draft = job[j].draft
      /\ x.pending = job[j].pending /\ x.existed = (tip # NoBranch)
  BY <1>1 DEF JobType, Place
<1>4. job' = [job EXCEPT ![j] = x]
  BY <1>1 DEF Resolve, BatchInv, Types, JobTypes, JobType
<1> HIDE DEF x
<1>5. JobTypes' /\ job'[j] = x /\ \A k \in Job \ {j} : job'[k] = job[k]
  BY <1>1, <1>2, <1>3, <1>4, JobMoves DEF BatchInv, Types, Ready
<1>6. DraftTypes' /\ Onward
  BY <1>1, UpdatesAreOnward DEF BatchInv, Types, DraftTypes
<1>7. PendingIsPushed'
  BY <1>3, <1>5, <1>6, PendingStays
<1> QED BY <1>1, <1>2, <1>5, <1>6, <1>7
        DEF BatchInv, Types, GithubTypes, SweepTypes, BoundTypes, BatchTypes, Good

\* The change is kept in memory, or committed.
LEMMA StageStep ==
  ASSUME BatchInv, NEW j \in Job, Stage(j)
  PROVE  Good
<1> DEFINE d == job[j].draft
           b == batch[Home[j]]
           t == IF job[j].existed THEN tip ELSE CreatedBranch
           sha == IF b.base # NoSha THEN b.base ELSE IF job[j].existed THEN tip ELSE FreshFromMain
<1>1. /\ UNCHANGED <<status, failed, shipped, main, pr, sweep, faults, crashes>>
      /\ d \in Draft /\ Home[j] \in Process /\ b \in BatchType /\ Go(j, "recording")
      /\ job[j].existed => tip \in Tip
  BY Parameters DEF Stage, drafts, bounds, BatchInv, Types, JobTypes, Ready, BatchTypes
<1>2. t \in Tip /\ sha \in Tip
  BY <1>1, TipsTyped DEF CreatedBranch, BatchInv, Types, GithubTypes, BatchType
<1>3. ASSUME b.active PROVE tip' \in Tip /\ BatchTypes'
  <2> DEFINE y == [b EXCEPT !.base = sha, !.entries = b.entries \cup {d}]
  <2>1. tip' = t
    BY <1>3 DEF Stage
  <2>2. batch' = [batch EXCEPT ![Home[j]] = y]
    BY <1>1, <1>3 DEF Stage, BatchInv, Types, BatchTypes, BatchType
  <2>3. y \in BatchType /\ y.base \in Tip
    BY <1>1, <1>2 DEF BatchType
  <2> HIDE DEF y, t, sha, b
  <2>4. BatchTypes'
    BY <1>1, <2>2, <2>3 DEF BatchInv, Types, BatchTypes
  <2> QED BY <1>2, <2>1, <2>4
<1>4. ASSUME ~b.active PROVE tip' \in Tip /\ BatchTypes'
  <2>1. tip' = Appended(t, "apply", {d}) /\ batch' = batch
    BY <1>4 DEF Stage
  <2>2. "apply" \in {"apply", "batch", "sync"} /\ {d} \in SUBSET Draft /\ 0 \in 0 .. MaxMain
    BY <1>1, Parameters
  <2> HIDE DEF t, d
  <2>3. tip' \in Tip
    BY <1>2, <2>1, <2>2, AppendedTyped
  <2> QED BY <2>1, <2>3 DEF BatchInv, Types, BatchTypes
<1>5. tip' \in Tip /\ BatchTypes'
  BY <1>3, <1>4
<1>6. JobTypes' /\ job'[j].pending = job[j].pending /\ \A k \in Job \ {j} : job'[k] = job[k]
  BY <1>1, <1>5, GoMoves DEF BatchInv, Types, Place
<1>7. DraftTypes' /\ Onward
  BY <1>1, UpdatesAreOnward DEF BatchInv, Types, DraftTypes
<1>8. PendingIsPushed'
  BY <1>6, <1>7, PendingStays
<1> QED BY <1>1, <1>5, <1>6, <1>7, <1>8 DEF BatchInv, Types, GithubTypes, SweepTypes, BoundTypes, Good

\* A failed call is counted.
LEMMA FaultTyped ==
  ASSUME BoundTypes, GithubFails \/ UNCHANGED <<faults, crashes>>
  PROVE  BoundTypes'
  BY Parameters DEF BoundTypes, GithubFails

\* The apply fails, or finds that the row has left 'approved'.
LEMMA ItemEndsStep ==
  ASSUME BatchInv, NEW j \in Job, ApplyFails(j) \/ RecordMisses(j)
  PROVE  Good
<1>1. /\ UNCHANGED <<shipped, main, tip, pr, batch, sweep>> /\ NextItem(j)
      /\ GithubFails \/ UNCHANGED <<faults, crashes>>
      /\ job[j].draft \in Draft
  BY DEF ApplyFails, RecordMisses, drafts, github, bounds, BatchInv, Types, JobTypes, Ready
<1>2. DraftTypes' /\ Onward
  BY <1>1, UpdatesAreOnward DEF ApplyFails, RecordMisses, drafts, BatchInv, Types, DraftTypes
<1>3. /\ JobTypes' /\ \A k \in Job \ {j} : job'[k] = job[k]
      /\ job'[j].pending \in {job[j].pending, <<>>}
  BY <1>1, NextItemMoves DEF BatchInv, Types
<1>4. PendingIsPushed'
  BY <1>2, <1>3, PendingStays
<1>5. BoundTypes'
  BY <1>1, FaultTyped DEF BatchInv, Types
<1> QED BY <1>1, <1>2, <1>3, <1>4, <1>5 DEF BatchInv, Types, GithubTypes, SweepTypes, BatchTypes, Good

\* The draft is recorded as pushed, and pending.
LEMMA RecordStep ==
  ASSUME BatchInv, NEW j \in Job, Record(j)
  PROVE  Good
<1> DEFINE d == job[j].draft
           pending == Append(job[j].pending, d)
           pc == IF j \in Run THEN "looping" ELSE "opening"
           x == [job[j] EXCEPT !.pc = pc, !.draft = NoDraft, !.pending = pending]
<1>1. /\ UNCHANGED <<shipped, main, tip, pr, batch, sweep, faults, crashes>>
      /\ job[j] \in JobType /\ d \in Draft /\ MarkBranchPushed(d) /\ (job[j].existed => tip \in Tip)
  BY DEF Record, github, bounds, BatchInv, Types, JobTypes, Ready
<1>2. PICK e \in Draft : e = d
  BY <1>1
<1>3. DraftTypes' /\ Onward /\ status'[e] = "branch_pushed"
  BY <1>1, <1>2, UpdatesAreOnward DEF BatchInv, Types, DraftTypes
<1>4. pending \in Seq(Draft) /\ pending = Append(job[j].pending, e)
  BY <1>1, <1>2, SeqSetOf DEF JobType
<1>5. job' = [job EXCEPT ![j] = x]
  BY <1>1 DEF Record, BatchInv, Types, JobTypes, JobType
<1>6. pc \in {"looping", "opening"}
  OBVIOUS
<1> HIDE DEF pending, pc
<1>7. x \in JobType /\ x.pc = pc /\ x.pending = pending /\ x.existed = job[j].existed
  BY <1>1, <1>4, <1>6 DEF JobType, Place
<1> HIDE DEF x
<1>8. JobTypes' /\ job'[j] = x /\ \A k \in Job \ {j} : job'[k] = job[k]
  BY <1>1, <1>5, <1>6, <1>7, JobMoves DEF BatchInv, Types, Ready
<1>9. PendingIsPushed'
  BY <1>3, <1>4, <1>7, <1>8, PendingStays DEF Later
<1> QED BY <1>1, <1>3, <1>8, <1>9
        DEF BatchInv, Types, GithubTypes, SweepTypes, BoundTypes, BatchTypes, Good

\* The batch entry goes; what it held becomes a commit to be moved to, or there is none.
LEMMA EndBatchStep ==
  ASSUME BatchInv, NEW r \in Run, EndBatch(r)
  PROVE  Good
<1> DEFINE b == batch[Home[r]]
<1>1. /\ UNCHANGED <<status, failed, shipped, main, tip, pr, sweep>> /\ r \in Job
      /\ Home[r] \in Process /\ b \in BatchType /\ (b.entries # {} => b.base \in Tip)
      /\ b.entries \in SUBSET Draft /\ job[r] \in JobType /\ (job[r].existed => tip \in Tip)
      /\ batch' = [batch EXCEPT ![Home[r]] = NotBatching]
  BY Parameters DEF EndBatch, drafts, github, BatchInv, Types, JobTypes, BatchTypes, BatchType
<1>2. BatchTypes'
  BY <1>1, NothingTyped DEF BatchInv, Types, BatchTypes
<1>3. ASSUME NEW commit \in Tip, NEW parent \in Tip \cup {NoSha},
             job' = [job EXCEPT ![r].pc = "moving", ![r].commit = commit, ![r].parent = parent]
      PROVE  JobTypes' /\ job'[r].pending = job[r].pending /\ \A k \in Job \ {r} : job'[k] = job[k]
  <2> DEFINE x == [job[r] EXCEPT !.pc = "moving", !.commit = commit, !.parent = parent]
  <2>1. /\ x \in JobType /\ x.pc = "moving" /\ x.commit = commit
        /\ x.pending = job[r].pending /\ x.existed = job[r].existed
    BY <1>1 DEF JobType, Place
  <2>2. job' = [job EXCEPT ![r] = x]
    BY <1>1, <1>3 DEF BatchInv, Types, JobTypes, JobType
  <2> HIDE DEF x
  <2> QED BY <1>1, <2>1, <2>2, JobMoves DEF BatchInv, Types, Ready
<1>4. ASSUME b.entries = {}, Go(r, "reporting"), UNCHANGED bounds
      PROVE  JobTypes' /\ BoundTypes' /\ job'[r].pending = job[r].pending /\ \A k \in Job \ {r} : job'[k] = job[k]
  <2>1. JobTypes' /\ job'[r].pending = job[r].pending /\ \A k \in Job \ {r} : job'[k] = job[k]
    BY <1>1, <1>4, GoMoves DEF BatchInv, Types, Place
  <2>2. BoundTypes'
    BY <1>4, FaultTyped DEF BatchInv, Types, bounds
  <2> QED BY <2>1, <2>2
<1>5. ASSUME b.entries # {}, MaySquash(b.base), UNCHANGED bounds,
             job' = [job EXCEPT ![r].pc = "moving", ![r].commit = Squashed(b.base, b.entries)]
      PROVE  JobTypes' /\ BoundTypes' /\ job'[r].pending = job[r].pending /\ \A k \in Job \ {r} : job'[k] = job[k]
  <2> DEFINE commit == Squashed(b.base, b.entries)
             x == [job[r] EXCEPT !.pc = "moving", !.commit = commit]
  <2>1. commit \in Tip
    BY <1>1, <1>5, TipsTyped DEF BatchInv, Types
  <2>2. job' = [job EXCEPT ![r] = x]
    BY <1>1, <1>5 DEF BatchInv, Types, JobTypes, JobType
  <2> HIDE DEF commit
  <2>3. /\ x \in JobType /\ x.pc = "moving" /\ x.commit = commit
        /\ x.pending = job[r].pending /\ x.existed = job[r].existed
    BY <1>1, <2>1 DEF JobType, Place
  <2> HIDE DEF x
  <2>4. JobTypes' /\ job'[r] = x /\ \A k \in Job \ {r} : job'[k] = job[k]
    BY <1>1, <2>1, <2>2, <2>3, JobMoves DEF BatchInv, Types, Ready
  <2>5. BoundTypes'
    BY <1>5, FaultTyped DEF BatchInv, Types, bounds
  <2> QED BY <2>3, <2>4, <2>5
<1>6. ASSUME b.entries # {}, IF MaySquash(b.base) THEN GithubFails ELSE UNCHANGED bounds,
             job' = [job EXCEPT ![r].pc = "moving", ![r].commit = Appended(b.base, "batch", b.entries),
                                ![r].parent = b.base]
      PROVE  JobTypes' /\ BoundTypes' /\ job'[r].pending = job[r].pending /\ \A k \in Job \ {r} : job'[k] = job[k]
  <2>1. "batch" \in {"apply", "batch", "sync"} /\ 0 \in 0 .. MaxMain
    BY Parameters
  <2>2. Appended(b.base, "batch", b.entries) \in Tip
    BY <1>1, <1>6, <2>1, AppendedTyped
  <2>3. BoundTypes'
    BY <1>6, FaultTyped DEF BatchInv, Types, bounds
  <2> DEFINE commit == Appended(b.base, "batch", b.entries)
  <2>4. commit \in Tip /\ b.base \in Tip \cup {NoSha}
    BY <1>1, <1>6, <2>2
  <2>5. job' = [job EXCEPT ![r].pc = "moving", ![r].commit = commit, ![r].parent = b.base]
    BY <1>6
  <2> HIDE DEF commit
  <2> QED BY <1>3, <2>3, <2>4, <2>5
<1>7. /\ JobTypes' /\ BoundTypes'
      /\ job'[r].pending = job[r].pending /\ \A k \in Job \ {r} : job'[k] = job[k]
  BY <1>4, <1>5, <1>6 DEF EndBatch
<1>8. DraftTypes' /\ Onward
  BY <1>1, UpdatesAreOnward DEF BatchInv, Types, DraftTypes
<1>9. PendingIsPushed'
  BY <1>7, <1>8, PendingStays
<1> QED BY <1>1, <1>2, <1>7, <1>8, <1>9 DEF BatchInv, Types, GithubTypes, SweepTypes, Good

\* Nothing was pushed: the run leaves.
LEMMA GiveUpStep ==
  ASSUME BatchInv, NEW r \in Run, GiveUpEmpty(r)
  PROVE  Good
<1>1. UNCHANGED <<status, failed, shipped, main, tip, pr, batch, sweep, faults, crashes>> /\ Leave(r) /\ r \in Job
  BY Parameters DEF GiveUpEmpty, drafts, github, bounds
<1>2. JobTypes' /\ job'[r] = AtRest("done") /\ \A k \in Job \ {r} : job'[k] = job[k]
  BY <1>1, LeaveMoves DEF BatchInv, Types
<1>3. DraftTypes' /\ Onward
  BY <1>1, UpdatesAreOnward DEF BatchInv, Types, DraftTypes
<1>4. PendingIsPushed'
  BY <1>2, <1>3, PendingStays, NothingTyped DEF Place
<1> QED BY <1>1, <1>2, <1>3, <1>4
        DEF BatchInv, Types, GithubTypes, SweepTypes, BoundTypes, BatchTypes, Good

\* The branch is moved to the commit, or is not.
LEMMA MoveStep ==
  ASSUME BatchInv, NEW r \in Run, MoveRef(r) \/ MoveRefFails(r)
  PROVE  Good
<1>1. /\ UNCHANGED <<status, failed, shipped, main, pr, batch, sweep>> /\ r \in Job
      /\ GithubFails \/ UNCHANGED <<faults, crashes>>
      /\ \E pc \in {"opening", "failing"} : Go(r, pc)
      /\ tip' = tip \/ tip' \in Tip
  BY Parameters DEF MoveRef, MoveRefFails, drafts, github, bounds, BatchInv, Types, JobTypes, Ready
<1>2. JobTypes' /\ job'[r].pending = job[r].pending /\ \A k \in Job \ {r} : job'[k] = job[k]
  BY <1>1, GoMoves DEF BatchInv, Types, Place
<1>3. DraftTypes' /\ Onward
  BY <1>1, UpdatesAreOnward DEF BatchInv, Types, DraftTypes
<1>4. PendingIsPushed'
  BY <1>2, <1>3, PendingStays
<1>5. BoundTypes'
  BY <1>1, FaultTyped DEF BatchInv, Types
<1> QED BY <1>1, <1>2, <1>3, <1>4, <1>5 DEF BatchInv, Types, GithubTypes, SweepTypes, BatchTypes, Good

\* A job opens the pull request, or fails to.
LEMMA OpenStep ==
  ASSUME BatchInv, NEW j \in Job, OpenPr(j) \/ OpenPrFails(j)
  PROVE  Good
<1>1. /\ UNCHANGED <<shipped, main, tip, batch, sweep>> /\ pr' \in BOOLEAN
      /\ GithubFails \/ UNCHANGED <<faults, crashes>>
      /\ (\E pc \in {"reporting", "failing"} : Go(j, pc)) \/ Leave(j)
  BY DEF OpenPr, OpenPrFails, github, bounds, BatchInv, Types, GithubTypes
<1>2. /\ JobTypes' /\ job'[j].pending \in {job[j].pending, <<>>}
      /\ \A k \in Job \ {j} : job'[k] = job[k]
  <2>1. CASE Leave(j)
    BY <1>1, <2>1, LeaveMoves, NothingTyped DEF BatchInv, Types, Place
  <2>2. CASE \E pc \in {"reporting", "failing"} : Go(j, pc)
    BY <1>1, <2>2, GoMoves DEF BatchInv, Types, Place
  <2> QED BY <1>1, <2>1, <2>2
<1>3. SeqSet(job[j].pending) \subseteq Draft /\ job[j].pending \in Seq(Draft)
  BY SeqSetOf DEF BatchInv, Types, JobTypes, JobType, SeqSet
<1>4. DraftTypes' /\ Onward
  <2>1. CASE OpenPr(j)
    BY <1>1, <1>3, <2>1, UpdatesAreOnward DEF OpenPr, BatchInv, Types, DraftTypes
  <2>2. CASE OpenPrFails(j)
    <3> DEFINE D == IF job[j].pending = <<>> THEN {} ELSE {job[j].pending[1]}
    <3>1. D \in SUBSET Draft
      BY <1>3
    <3>2. RecordMergeFailure(D)
      BY <2>2 DEF OpenPrFails
    <3> HIDE DEF D
    <3> QED BY <1>1, <3>1, <3>2, UpdatesAreOnward DEF BatchInv, Types, DraftTypes
  <2> QED BY <2>1, <2>2
<1>5. PendingIsPushed'
  BY <1>2, <1>4, PendingStays
<1>6. BoundTypes'
  BY <1>1, FaultTyped DEF BatchInv, Types
<1> QED BY <1>1, <1>2, <1>4, <1>5, <1>6 DEF BatchInv, Types, GithubTypes, SweepTypes, BatchTypes, Good

\* A run reports what it had pending, as shipped or as failed.
LEMMA ReportStep ==
  ASSUME BatchInv, NEW r \in Run, ReportShipped(r) \/ ReportFailed(r)
  PROVE  Good
<1>1. /\ UNCHANGED <<main, tip, pr, batch, sweep, faults, crashes>> /\ Leave(r) /\ r \in Job
  BY Parameters DEF ReportShipped, ReportFailed, github, bounds
<1>2. JobTypes' /\ job'[r] = AtRest("done") /\ \A k \in Job \ {r} : job'[k] = job[k]
  BY <1>1, LeaveMoves DEF BatchInv, Types
<1>3. SeqSet(job[r].pending) \in SUBSET Draft
  BY <1>1, SeqSetOf DEF BatchInv, Types, JobTypes, JobType, SeqSet
<1>4. shipped' \subseteq Draft
  BY <1>3 DEF ReportShipped, ReportFailed, BatchInv, Types, DraftTypes
<1>5. DraftTypes' /\ Onward
  BY <1>3, <1>4, UpdatesAreOnward DEF ReportShipped, ReportFailed, BatchInv, Types
<1>6. PendingIsPushed'
  BY <1>2, <1>5, PendingStays, NothingTyped DEF Place
<1> QED BY <1>1, <1>2, <1>5, <1>6
        DEF BatchInv, Types, GithubTypes, SweepTypes, BoundTypes, BatchTypes, Good

-----------------------------------------------------------------------------
(* The sweep, the environment, and the theorems.                           *)

\* What the sweep has in hand is drafts.
LEMMA SweepMoves ==
  ASSUME SweepTypes, NEW pc \in {"idle", "listed", "compared", "rechecked", "opening"},
         NEW seen \in SUBSET Draft, NEW landed \in SUBSET Draft,
         sweep' = [pc |-> pc, seen |-> seen, landed |-> landed]
  PROVE  SweepTypes'
  BY DEF SweepTypes, SweepType

\* A step of the sweep.
LEMMA SweepingStep ==
  ASSUME BatchInv, Sweeping
  PROVE  Good
<1>1. /\ UNCHANGED <<shipped, main, tip, batch, job>> /\ pr' \in BOOLEAN
      /\ GithubFails \/ UNCHANGED <<faults, crashes>>
  BY DEF Sweeping, SweepList, SweepCompare, SweepRecheck, SweepReadFails, SweepSettle, SweepOpen,
         SweepOpenFails, SweepStep, bounds, BatchInv, Types, GithubTypes
<1>2. sweep \in SweepType /\ sweep.seen \in SUBSET Draft /\ sweep.landed \in SUBSET Draft
  BY DEF BatchInv, Types, SweepTypes, SweepType
<1>3. /\ {d \in Draft : status[d] = "branch_pushed"} \in SUBSET Draft /\ {} \in SUBSET Draft
      /\ sweep.seen \cap Named \in SUBSET Draft
      /\ sweep.landed \cup (sweep.seen \cap Named) \in SUBSET Draft
  BY <1>2
<1>4. SweepTypes'
  <2>1. CASE sweep' = Asleep
    BY <2>1, NothingTyped DEF SweepTypes
  <2>2. CASE SweepList
    BY <1>3, <2>2 DEF SweepList, SweepTypes, SweepType
  <2>3. CASE SweepCompare \/ SweepRecheck \/ SweepReadFails \/ SweepSettle
    <3> DEFINE named == sweep.seen \cap Named
               both == sweep.landed \cup named
    <3>1. \/ sweep' = Asleep
          \/ sweep' = [sweep EXCEPT !.pc = "compared", !.landed = named]
          \/ sweep' = [sweep EXCEPT !.pc = "rechecked", !.landed = both]
          \/ sweep' = [sweep EXCEPT !.pc = "rechecked", !.seen = sweep.landed]
          \/ sweep' = [sweep EXCEPT !.pc = "opening"]
      BY <1>2, <2>3 DEF SweepCompare, SweepRecheck, SweepReadFails, SweepSettle, SweepType
    <3>2. named \in SUBSET Draft /\ both \in SUBSET Draft
      BY <1>3
    <3> HIDE DEF named, both
    <3> QED BY <1>2, <2>1, <3>1, <3>2 DEF SweepTypes, SweepType
  <2> QED BY <2>1, <2>2, <2>3 DEF Sweeping, SweepOpen, SweepOpenFails
<1>5. DraftTypes' /\ Onward
  <2>1. CASE UNCHANGED <<status, failed>>
    BY <1>1, <2>1, UpdatesAreOnward DEF BatchInv, Types, DraftTypes
  <2>2. CASE SweepSettle
    BY <1>1, <2>2 DEF SweepSettle, BatchInv, Types, DraftTypes, Onward, Status, Later, Ended
  <2>3. CASE SweepOpen
    BY <1>1, <1>2, <2>3, UpdatesAreOnward DEF SweepOpen, BatchInv, Types, DraftTypes
  <2>4. CASE SweepOpenFails /\ ~UNCHANGED <<status, failed>>
    <3>1. PICK d \in sweep.landed : RecordMergeFailure({d})
      BY <2>4 DEF SweepOpenFails
    <3>2. {d} \in SUBSET Draft
      BY <1>2, <3>1
    <3> QED BY <1>1, <3>1, <3>2, UpdatesAreOnward DEF BatchInv, Types, DraftTypes
  <2> QED BY <2>1, <2>2, <2>3, <2>4 DEF Sweeping, SweepList, SweepCompare, SweepRecheck, SweepReadFails
<1>6. PendingIsPushed'
  BY <1>1, <1>5, PendingStays
<1>7. BoundTypes'
  BY <1>1, FaultTyped DEF BatchInv, Types
<1> QED BY <1>1, <1>4, <1>5, <1>6, <1>7 DEF BatchInv, Types, GithubTypes, BatchTypes, JobTypes, Good

\* A process is killed.
LEMMA CrashStep ==
  ASSUME BatchInv, NEW p \in Process, Crash(p)
  PROVE  Good
<1>1. UNCHANGED <<status, failed, shipped, main, tip, pr, faults>> /\ crashes' \in 0 .. MaxCrash
  BY Parameters DEF Crash, drafts, github, BatchInv, Types, BoundTypes
<1>2. BatchTypes'
  BY NothingTyped DEF Crash, BatchInv, Types, BatchTypes
<1>3. "done" \in Place
  BY DEF Place
<1> DEFINE done == AtRest("done")
<1>4. done \in JobType /\ done.pending = <<>> /\ done.existed = FALSE /\ Ready(done)
  BY <1>3, NothingTyped
<1>5. /\ job' \in [Job -> JobType]
      /\ \A k \in Job : job'[k] = job[k] \/ job'[k] = done
  <2>1. job' = [k \in Job |-> IF Home[k] = p /\ Underway(k) THEN done ELSE job[k]]
    BY DEF Crash
  <2> HIDE DEF done
  <2> QED BY <1>4, <2>1 DEF BatchInv, Types, JobTypes
<1> HIDE DEF done
<1>6. JobTypes'
  <2>1. ASSUME NEW k \in Job PROVE Ready(job'[k]) /\ (job'[k].existed => tip' \in Tip)
    BY <1>1, <1>4, <1>5 DEF BatchInv, Types, JobTypes
  <2> QED BY <1>5, <2>1 DEF JobTypes, Ready
<1>7. SweepTypes'
  BY NothingTyped DEF Crash, BatchInv, Types, SweepTypes
<1>8. DraftTypes' /\ Onward
  BY <1>1, UpdatesAreOnward DEF BatchInv, Types, DraftTypes
<1>9. PendingIsPushed'
  BY <1>4, <1>5, <1>8, PendingStays
<1> QED BY <1>1, <1>2, <1>6, <1>7, <1>8, <1>9 DEF BatchInv, Types, GithubTypes, BoundTypes, Good

\* The default branch gains something else.
LEMMA MainStep ==
  ASSUME BatchInv, MainMoves
  PROVE  Good
<1>1. /\ UNCHANGED <<status, failed, shipped, tip, pr, batch, job, sweep, faults, crashes>>
      /\ main' \in 0 .. MaxMain
  BY Parameters DEF MainMoves, drafts, bounds, BatchInv, Types, GithubTypes
<1>2. DraftTypes' /\ Onward
  BY <1>1, UpdatesAreOnward DEF BatchInv, Types, DraftTypes
<1>3. PendingIsPushed'
  BY <1>1, <1>2, PendingStays
<1> QED BY <1>1, <1>2, <1>3
        DEF BatchInv, Types, GithubTypes, SweepTypes, BoundTypes, BatchTypes, JobTypes, Good

\* Every step keeps the invariant, and takes no draft back.
LEMMA EveryStep ==
  ASSUME BatchInv, [Next]_vars
  PROVE  BatchInv' /\ Onward
<1>1. ASSUME NEW j \in Job, ItemStep(j) PROVE Good
  BY <1>1, ResolveStep, StageStep, ItemEndsStep, RecordStep, OpenStep DEF ItemStep
<1>2. ASSUME NEW r \in Run, RunStep(r) PROVE Good
  BY <1>2, BeginStep, TakeStep, EndBatchStep, GiveUpStep, MoveStep, ReportStep DEF RunStep
<1>3. CASE UNCHANGED vars
  <2>1. DraftTypes' /\ Onward
    BY <1>3, UpdatesAreOnward DEF vars, drafts, BatchInv, Types, DraftTypes
  <2> QED BY <1>3, <2>1 DEF vars, drafts, github, bounds, BatchInv, Types, GithubTypes, BatchTypes,
                            JobTypes, SweepTypes, BoundTypes, PendingIsPushed
<1> QED BY <1>1, <1>2, <1>3, PersonStep, SweepingStep, CrashStep, MainStep DEF Next, Good, BatchInv

\* The day starts with nothing pushed.
LEMMA DayStarts ==
  ASSUME Init
  PROVE  BatchInv
<1>1. "idle" \in Place
  BY DEF Place
<1> DEFINE idle == AtRest("idle")
<1>2. idle \in JobType /\ idle.pending = <<>> /\ idle.existed = FALSE /\ Ready(idle)
  BY <1>1, NothingTyped
<1>3. job = [j \in Job |-> idle]
  BY DEF Init
<1> HIDE DEF idle
<1>4. JobTypes /\ PendingIsPushed
  BY <1>2, <1>3 DEF JobTypes, PendingIsPushed, SeqSet
<1>5. BatchTypes /\ SweepTypes
  BY NothingTyped DEF Init, BatchTypes, SweepTypes
<1>6. GithubTypes /\ BoundTypes
  <2>1. 0 \in 0 .. MaxMain /\ 0 \in 0 .. MaxFault /\ 0 \in 0 .. MaxCrash
    BY Parameters
  <2>2. main = 0 /\ tip = NoBranch /\ pr = FALSE /\ faults = 0 /\ crashes = 0
    BY DEF Init
  <2> QED BY <2>1, <2>2 DEF GithubTypes, BoundTypes
<1>7. DraftTypes
  BY DEF Init, DraftTypes, Status
<1> QED BY <1>4, <1>5, <1>6, <1>7 DEF BatchInv, Types

\* The invariant of the day.
THEOREM BatchIsTyped == Spec => []BatchInv
<1>1. BatchInv /\ [Next]_vars => BatchInv'
  BY EveryStep
<1> QED BY <1>1, DayStarts, PTL DEF Spec, Fairness

\* Every variable has its type, in the day of any drafts, runs, people and processes.
THEOREM TypeCorrect == Spec => []TypeOK
<1>1. BatchInv => TypeOK
  BY DEF BatchInv, Types, DraftTypes, GithubTypes, BatchTypes, JobTypes, SweepTypes, BoundTypes,
         TypeOK, BatchType, JobType, SweepType
<1> QED BY <1>1, BatchIsTyped, PTL

\* An abandoned draft stays abandoned, and one in a pull request never goes back,
\* whatever overlaps, fails or is killed: each UPDATE of store/drafts.js names the
\* status it leaves, and none of them leaves these for an earlier one.
THEOREM NeverGoesBack == Spec => NeverBackwards
<1>1. BatchInv /\ [Next]_vars =>
        [\A d \in Draft : /\ status[d] = "abandoned" => status'[d] = "abandoned"
                          /\ status[d] = "pr_opened" => status'[d] \in {"pr_opened", "abandoned"}]_vars
  BY EveryStep DEF Onward, Ended
<1> QED BY <1>1, BatchIsTyped, PTL DEF Spec, NeverBackwards

-----------------------------------------------------------------------------
(* What each step of a job does, field by field.                           *)

\* Nobody but j moves.
Only(j) == /\ \A k \in Job \ {j} : job'[k] = job[k]
           /\ UNCHANGED <<sweep, crashes>>

\* j keeps what it has in hand.
Carries(j) == /\ job'[j].draft = job[j].draft /\ job'[j].pending = job[j].pending
              /\ job'[j].existed = job[j].existed
              /\ job'[j].commit = job[j].commit /\ job'[j].parent = job[j].parent

\* No GitHub call of the step changed the branch or the pull request.
NoPush == UNCHANGED <<tip, pr>>

\* A job goes on to its next place, and keeps the rest.
LEMMA GoDoes ==
  ASSUME BatchInv, NEW j \in Job, NEW pc \in Place, Go(j, pc)
  PROVE  job'[j].pc = pc /\ Carries(j) /\ \A k \in Job \ {j} : job'[k] = job[k]
<1>1. job \in [Job -> JobType]
  BY DEF BatchInv, Types, JobTypes
<1> QED BY <1>1 DEF Go, JobType, Carries

\* A job leaves, and has nothing pending.
LEMMA LeaveDoes ==
  ASSUME BatchInv, NEW j \in Job, Leave(j)
  PROVE  job'[j].pc = "done" /\ job'[j].pending = <<>> /\ \A k \in Job \ {j} : job'[k] = job[k]
<1> DEFINE done == AtRest("done")
<1>1. done.pc = "done" /\ done.pending = <<>> /\ job' = [job EXCEPT ![j] = done]
  BY NothingTyped DEF Place, Leave
<1> HIDE DEF done
<1> QED BY <1>1 DEF BatchInv, Types, JobTypes

\* A run begins.
LEMMA BeginDoes ==
  ASSUME BatchInv, NEW r \in Run, Begin(r)
  PROVE  /\ r \in Job /\ job[r].pc = "idle" /\ job[r].pending = <<>> /\ MayStart(r) /\ Only(r)
         /\ job'[r].pc = "looping" /\ Carries(r)
         /\ NoPush /\ UNCHANGED <<status, failed>>
         /\ batch'[Home[r]].active
         /\ \A p \in Process : \/ batch'[p] = batch[p]
                               \/ batch'[p].base = NoSha /\ batch'[p].entries = {}
<1>1. r \in Job /\ Home[r] \in Process /\ "looping" \in Place
  BY Parameters DEF Place
<1>2. Go(r, "looping") /\ Ready(job[r])
  BY <1>1 DEF Begin, BatchInv, Types, JobTypes
<1>3. job'[r].pc = "looping" /\ Carries(r) /\ \A k \in Job \ {r} : job'[k] = job[k]
  BY <1>1, <1>2, GoDoes
<1> DEFINE fresh == [NotBatching EXCEPT !.active = TRUE]
<1>4. fresh.active = TRUE /\ fresh.base = NoSha /\ fresh.entries = {}
  BY DEF NotBatching
<1>5. batch' = [batch EXCEPT ![Home[r]] = IF @.active THEN @ ELSE fresh]
  BY DEF Begin
<1> HIDE DEF fresh
<1>6. /\ batch'[Home[r]].active
      /\ \A p \in Process : \/ batch'[p] = batch[p]
                            \/ batch'[p].base = NoSha /\ batch'[p].entries = {}
  BY <1>1, <1>4, <1>5 DEF BatchInv, Types, BatchTypes
<1> QED BY <1>1, <1>2, <1>3, <1>6 DEF Begin, Ready, Only, NoPush, drafts, github, bounds

\* A person approves a draft.
LEMMA PersonDoes ==
  ASSUME BatchInv, NEW h \in Human, NEW d \in Draft, PersonApproves(h, d)
  PROVE  /\ h \in Job /\ h \notin Run /\ job[h].pc = "idle" /\ job[h].pending = <<>> /\ MayStart(h) /\ Only(h)
         /\ job'[h].pc = "resolving" /\ job'[h].draft = d
         /\ job'[h].pending = <<>> /\ job'[h].parent = job[h].parent
         /\ NoPush /\ UNCHANGED <<failed, batch>>
         /\ status' = [status EXCEPT ![d] = "approved"] /\ status[d] = "new"
<1>1. h \in Job /\ h \notin Run /\ job \in [Job -> JobType] /\ Ready(job[h])
  BY Parameters DEF BatchInv, Types, JobTypes
<1> QED BY <1>1 DEF PersonApproves, JobType, Ready, Only, NoPush, github, bounds

\* A run takes a draft.
LEMMA TakeDoes ==
  ASSUME BatchInv, NEW r \in Run, NEW d \in Draft,
         ApproveNext(r, d) \/ JoinAwaitingPr(r, d) \/ ResetStranded(r, d) \/ CountFinished(r, d)
  PROVE  /\ r \in Job /\ job[r].pc = "looping" /\ Only(r) /\ job'[r].parent = job[r].parent
         /\ NoPush /\ UNCHANGED <<failed, batch>>
         /\ ApproveNext(r, d) =>
              /\ job'[r].pc = "resolving" /\ job'[r].draft = d /\ job'[r].pending = job[r].pending
              /\ status' = [status EXCEPT ![d] = "approved"]
         /\ JoinAwaitingPr(r, d) =>
              /\ job'[r].pc = "looping" /\ job'[r].pending = Append(job[r].pending, d)
              /\ status' = status
              /\ status[d] = "branch_pushed" /\ ~failed[d] /\ d \in Repair
         /\ ResetStranded(r, d) \/ CountFinished(r, d) =>
              /\ job'[r].pc = "looping" /\ job'[r].pending = job[r].pending
              /\ \A e \in Draft : status'[e] \in {status[e], "abandoned"}
<1>1. r \in Job /\ job \in [Job -> JobType] /\ status \in [Draft -> Status]
  BY Parameters DEF BatchInv, Types, JobTypes, DraftTypes
<1>2. CASE ApproveNext(r, d)
  <2>1. job' = [job EXCEPT ![r].pc = "resolving", ![r].draft = d, ![r].tried = @ \cup {d}]
    BY <1>2 DEF ApproveNext
  <2>2. /\ job'[r].pc = "resolving" /\ job'[r].draft = d /\ job'[r].pending = job[r].pending
        /\ job'[r].parent = job[r].parent
        /\ \A k \in Job \ {r} : job'[k] = job[k]
    BY <1>1, <2>1 DEF JobType
  <2>3. ~JoinAwaitingPr(r, d) /\ ~ResetStranded(r, d) /\ ~CountFinished(r, d)
    BY <1>2 DEF ApproveNext, JoinAwaitingPr, ResetStranded, CountFinished
  <2> QED BY <1>1, <1>2, <2>2, <2>3 DEF ApproveNext, Take, Only, NoPush, github, bounds
<1>3. CASE JoinAwaitingPr(r, d)
  <2>1. job' = [job EXCEPT ![r].pending = Append(@, d), ![r].tried = @ \cup {d}] /\ job[r].pc = "looping"
    BY <1>3 DEF JoinAwaitingPr, Take
  <2>2. /\ job'[r].pc = "looping" /\ job'[r].pending = Append(job[r].pending, d)
        /\ job'[r].parent = job[r].parent
        /\ \A k \in Job \ {r} : job'[k] = job[k]
    BY <1>1, <2>1 DEF JobType
  <2>3. ~ApproveNext(r, d) /\ ~ResetStranded(r, d) /\ ~CountFinished(r, d)
    BY <1>3 DEF ApproveNext, JoinAwaitingPr, ResetStranded, CountFinished
  <2> QED BY <1>1, <1>3, <2>2, <2>3 DEF JoinAwaitingPr, Take, Offered, Only, NoPush, github, bounds
<1>4. CASE ResetStranded(r, d) \/ CountFinished(r, d)
  <2>1. job' = [job EXCEPT ![r].tried = @ \cup {d}] /\ job[r].pc = "looping"
    BY <1>4 DEF ResetStranded, CountFinished, Take
  <2>2. /\ job'[r].pc = "looping" /\ job'[r].pending = job[r].pending
        /\ job'[r].parent = job[r].parent
        /\ \A k \in Job \ {r} : job'[k] = job[k]
    BY <1>1, <2>1 DEF JobType
  <2>3. ~ApproveNext(r, d) /\ ~JoinAwaitingPr(r, d)
    BY <1>4 DEF ApproveNext, JoinAwaitingPr, ResetStranded, CountFinished
  <2>4. UNCHANGED <<failed, batch, tip, pr, sweep, crashes>> /\ \A e \in Draft : status'[e] \in {status[e], "abandoned"}
    BY <1>4 DEF ResetStranded, CountFinished, Take, MarkAbandoned, github, bounds
  <2> QED BY <1>1, <2>1, <2>2, <2>3, <2>4 DEF Only, NoPush
<1> QED BY <1>2, <1>3, <1>4

\* The branch is looked for.
LEMMA ResolveDoes ==
  ASSUME BatchInv, NEW j \in Job, Resolve(j)
  PROVE  /\ job[j].pc = "resolving" /\ Only(j) /\ job'[j].pc = "staging"
         /\ job'[j].draft = job[j].draft /\ job'[j].pending = job[j].pending
         /\ job'[j].parent = job[j].parent /\ job'[j].existed = (tip # NoBranch)
         /\ tip' = IF tip = NoBranch THEN tip ELSE Synced(tip)
         /\ UNCHANGED <<status, failed, pr, batch>>
<1>1. job \in [Job -> JobType]
  BY DEF BatchInv, Types, JobTypes
<1> QED BY <1>1 DEF Resolve, JobType, Only, drafts, bounds

\* The change is kept in memory or committed.
LEMMA StageDoes ==
  ASSUME BatchInv, NEW j \in Job, Stage(j)
  PROVE  /\ job[j].pc = "staging" /\ Only(j) /\ job'[j].pc = "recording" /\ Carries(j)
         /\ UNCHANGED <<status, failed, pr>>
         /\ batch[Home[j]].active =>
              /\ tip' = IF job[j].existed THEN tip ELSE CreatedBranch
              /\ \A p \in Process \ {Home[j]} : batch'[p] = batch[p]
              /\ batch'[Home[j]].active
              /\ batch'[Home[j]].entries = batch[Home[j]].entries \cup {job[j].draft}
              /\ batch'[Home[j]].base = IF batch[Home[j]].base # NoSha THEN batch[Home[j]].base
                                        ELSE IF job[j].existed THEN tip ELSE FreshFromMain
         /\ ~batch[Home[j]].active =>
              /\ batch' = batch
              /\ tip' = Appended(IF job[j].existed THEN tip ELSE CreatedBranch, "apply", {job[j].draft})
<1>1. Go(j, "recording") /\ "recording" \in Place /\ Home[j] \in Process /\ batch \in [Process -> BatchType]
  BY Parameters DEF Stage, Place, BatchInv, Types, BatchTypes
<1>2. job'[j].pc = "recording" /\ Carries(j) /\ \A k \in Job \ {j} : job'[k] = job[k]
  BY <1>1, GoDoes
<1> DEFINE t == IF job[j].existed THEN tip ELSE CreatedBranch
           sha == IF batch[Home[j]].base # NoSha THEN batch[Home[j]].base
                  ELSE IF job[j].existed THEN tip ELSE FreshFromMain
<1>3. CASE batch[Home[j]].active
  <2>1. tip' = t /\ batch' = [batch EXCEPT ![Home[j]].base = sha, ![Home[j]].entries = @ \cup {job[j].draft}]
    BY <1>3 DEF Stage
  <2> HIDE DEF t, sha
  <2>2. /\ \A p \in Process \ {Home[j]} : batch'[p] = batch[p]
        /\ batch'[Home[j]].active
        /\ batch'[Home[j]].entries = batch[Home[j]].entries \cup {job[j].draft}
        /\ batch'[Home[j]].base = sha
    BY <1>1, <1>3, <2>1 DEF BatchType
  <2> QED BY <1>2, <1>3, <2>1, <2>2 DEF Stage, Only, drafts, bounds, t, sha
<1>4. CASE ~batch[Home[j]].active
  BY <1>2, <1>4 DEF Stage, Only, drafts, bounds
<1> QED BY <1>3, <1>4

\* The item ends without a change.
LEMMA ItemEndsDoes ==
  ASSUME BatchInv, NEW j \in Job, ApplyFails(j) \/ RecordMisses(j)
  PROVE  /\ job[j].pc \in {"resolving", "staging", "recording"} /\ Only(j)
         /\ IF j \in Run
            THEN /\ job'[j].pc = "looping" /\ job'[j].pending = job[j].pending
                 /\ job'[j].parent = job[j].parent
            ELSE job'[j].pc = "done" /\ job'[j].pending = <<>>
         /\ NoPush /\ UNCHANGED <<status, batch>>
         /\ ApplyFails(j) => job[j].pc # "recording"
         /\ RecordMisses(j) => job[j].pc = "recording" /\ status[job[j].draft] # "approved"
         /\ \A d \in Draft : failed[d] => failed'[d]
<1>1. job \in [Job -> JobType] /\ NextItem(j) /\ failed \in [Draft -> BOOLEAN]
  BY DEF BatchInv, Types, DraftTypes, JobTypes, ApplyFails, RecordMisses
<1>2. \A d \in Draft : failed[d] => failed'[d]
  BY <1>1 DEF ApplyFails, RecordMisses, RecordApplyFailure, drafts
<1>3. CASE j \in Run
  <2>1. /\ job'[j].pc = "looping" /\ job'[j].pending = job[j].pending
        /\ job'[j].parent = job[j].parent /\ \A k \in Job \ {j} : job'[k] = job[k]
    BY <1>1, <1>3 DEF NextItem, JobType
  <2> QED BY <1>2, <1>3, <2>1 DEF ApplyFails, RecordMisses, RecordApplyFailure, GithubFails, Only, NoPush,
                               drafts, github, bounds
<1>4. CASE j \notin Run
  <2>1. job'[j].pc = "done" /\ job'[j].pending = <<>> /\ \A k \in Job \ {j} : job'[k] = job[k]
    BY <1>1, <1>4, LeaveDoes DEF NextItem
  <2> QED BY <1>2, <1>4, <2>1 DEF ApplyFails, RecordMisses, RecordApplyFailure, GithubFails, Only, NoPush,
                               drafts, github, bounds
<1> QED BY <1>3, <1>4

\* The draft is recorded as pushed.
LEMMA RecordDoes ==
  ASSUME BatchInv, NEW j \in Job, Record(j)
  PROVE  /\ job[j].pc = "recording" /\ Only(j)
         /\ job'[j].pc = (IF j \in Run THEN "looping" ELSE "opening")
         /\ job[j].draft \in Draft
         /\ job'[j].pending = Append(job[j].pending, job[j].draft)
         /\ job'[j].pending # <<>>
         /\ SeqSet(job'[j].pending) = SeqSet(job[j].pending) \cup {job[j].draft}
         /\ job'[j].parent = job[j].parent
         /\ NoPush /\ batch' = batch
         /\ MarkBranchPushed(job[j].draft)
<1>1. job \in [Job -> JobType] /\ job[j].draft \in Draft /\ job[j].pending \in Seq(Draft)
  BY DEF Record, BatchInv, Types, JobTypes, JobType, Ready
<1>2. PICK d \in Draft : d = job[j].draft
  BY <1>1
<1>3. /\ job'[j].pc = (IF j \in Run THEN "looping" ELSE "opening")
      /\ job'[j].pending = Append(job[j].pending, d)
      /\ job'[j].parent = job[j].parent
      /\ \A k \in Job \ {j} : job'[k] = job[k]
  BY <1>1, <1>2 DEF Record, JobType
<1>4. /\ Append(job[j].pending, d) # <<>>
      /\ SeqSet(Append(job[j].pending, d)) = SeqSet(job[j].pending) \cup {d}
  BY <1>1, SeqSetOf
<1>5. /\ job[j].pc = "recording" /\ NoPush /\ batch' = batch
      /\ MarkBranchPushed(job[j].draft) /\ UNCHANGED <<sweep, crashes>>
  BY DEF Record, github, bounds, NoPush
<1> QED BY <1>1, <1>2, <1>3, <1>4, <1>5 DEF Only

\* The batch is ended: with nothing in it, or as a commit to move the branch to.
LEMMA EndBatchDoes ==
  ASSUME BatchInv, NEW r \in Run, EndBatch(r)
  PROVE  /\ r \in Job /\ Home[r] \in Process /\ job[r].pc = "looping" /\ Only(r)
         /\ job'[r].pending = job[r].pending
         /\ NoPush /\ UNCHANGED <<status, failed>>
         /\ batch'[Home[r]] = NotBatching
         /\ \A p \in Process \ {Home[r]} : batch'[p] = batch[p]
         /\ \/ batch[Home[r]].entries = {} /\ job'[r].pc = "reporting"
            \/ /\ batch[Home[r]].base \in Tip /\ MaySquash(batch[Home[r]].base)
               /\ job'[r].pc = "moving" /\ job'[r].parent = job[r].parent
               /\ job'[r].commit = Squashed(batch[Home[r]].base, batch[Home[r]].entries)
            \/ /\ batch[Home[r]].base \in Tip
               /\ job'[r].pc = "moving" /\ job'[r].parent = batch[Home[r]].base
               /\ job'[r].commit = Appended(batch[Home[r]].base, "batch", batch[Home[r]].entries)
<1>1. /\ r \in Job /\ Home[r] \in Process /\ job \in [Job -> JobType]
      /\ batch \in [Process -> BatchType]
      /\ batch[Home[r]].entries # {} => batch[Home[r]].base \in Tip
  BY Parameters DEF BatchInv, Types, JobTypes, BatchTypes
<1>2. /\ batch'[Home[r]] = NotBatching
      /\ \A p \in Process \ {Home[r]} : batch'[p] = batch[p]
  BY <1>1 DEF EndBatch
<1>3. /\ job[r].pc = "looping" /\ NoPush /\ UNCHANGED <<status, failed, sweep, crashes>>
  BY DEF EndBatch, NoPush, drafts, github, bounds, GithubFails
<1> DEFINE plain == Appended(batch[Home[r]].base, "batch", batch[Home[r]].entries)
           squashed == Squashed(batch[Home[r]].base, batch[Home[r]].entries)
<1>4. \/ batch[Home[r]].entries = {} /\ Go(r, "reporting")
      \/ /\ batch[Home[r]].entries # {} /\ MaySquash(batch[Home[r]].base)
         /\ job' = [job EXCEPT ![r].pc = "moving", ![r].commit = squashed]
      \/ /\ batch[Home[r]].entries # {}
         /\ job' = [job EXCEPT ![r].pc = "moving", ![r].commit = plain, ![r].parent = batch[Home[r]].base]
  BY DEF EndBatch
<1>5. CASE batch[Home[r]].entries = {} /\ Go(r, "reporting")
  <2>1. job'[r].pc = "reporting" /\ Carries(r) /\ \A k \in Job \ {r} : job'[k] = job[k]
    BY <1>1, <1>5, GoDoes DEF Place
  <2> QED BY <1>1, <1>2, <1>3, <1>5, <2>1 DEF Only, Carries
<1>6. CASE /\ batch[Home[r]].entries # {} /\ MaySquash(batch[Home[r]].base)
           /\ job' = [job EXCEPT ![r].pc = "moving", ![r].commit = squashed]
  <2> HIDE DEF squashed
  <2>1. /\ job'[r].pc = "moving" /\ job'[r].commit = squashed /\ job'[r].parent = job[r].parent
        /\ job'[r].pending = job[r].pending /\ \A k \in Job \ {r} : job'[k] = job[k]
    BY <1>1, <1>6 DEF JobType
  <2> QED BY <1>1, <1>2, <1>3, <1>6, <2>1 DEF Only, squashed
<1>7. CASE /\ batch[Home[r]].entries # {}
           /\ job' = [job EXCEPT ![r].pc = "moving", ![r].commit = plain, ![r].parent = batch[Home[r]].base]
  <2> HIDE DEF plain
  <2>1. /\ job'[r].pc = "moving" /\ job'[r].commit = plain /\ job'[r].parent = batch[Home[r]].base
        /\ job'[r].pending = job[r].pending /\ \A k \in Job \ {r} : job'[k] = job[k]
    BY <1>1, <1>7 DEF JobType
  <2> QED BY <1>1, <1>2, <1>3, <1>7, <2>1 DEF Only, plain
<1> QED BY <1>4, <1>5, <1>6, <1>7

\* The branch is moved, or is not.
LEMMA MoveDoes ==
  ASSUME BatchInv, NEW r \in Run, MoveRef(r) \/ MoveRefFails(r)
  PROVE  /\ r \in Job /\ job[r].pc = "moving" /\ Only(r) /\ Carries(r)
         /\ UNCHANGED <<status, failed, pr, batch>>
         /\ \/ /\ job[r].parent \in {NoSha, tip}
               /\ tip' = job[r].commit /\ job'[r].pc = "opening"
            \/ tip' = tip /\ job'[r].pc = "failing"
<1>1. r \in Job /\ "opening" \in Place /\ "failing" \in Place
  BY Parameters DEF Place
<1>2. \A pc \in {"opening", "failing"} : Go(r, pc) => /\ job'[r].pc = pc /\ Carries(r)
                                                      /\ \A k \in Job \ {r} : job'[k] = job[k]
  BY <1>1, GoDoes
<1> QED BY <1>1, <1>2 DEF MoveRef, MoveRefFails, Only, drafts, github, bounds, GithubFails

\* The pull request is opened, or is not.
LEMMA OpenDoes ==
  ASSUME BatchInv, NEW j \in Job, OpenPr(j) \/ OpenPrFails(j)
  PROVE  /\ job[j].pc = "opening" /\ Only(j)
         /\ tip' = tip /\ batch' = batch
         /\ IF j \in Run THEN job'[j].pc \in {"reporting", "failing"} /\ Carries(j)
                         ELSE job'[j].pc = "done" /\ job'[j].pending = <<>>
         /\ OpenPr(j) => PrCanOpen /\ MarkPrOpened(SeqSet(job[j].pending))
         /\ OpenPrFails(j) => /\ pr' = pr /\ status' = status
                              /\ \A d \in Draft : failed[d] => failed'[d]
                              /\ j \in Run => job'[j].pc = "failing"
<1>1. (\E pc \in {"reporting", "failing"} : j \in Run /\ Go(j, pc)) \/ (j \notin Run /\ Leave(j))
  BY DEF OpenPr, OpenPrFails
<1>2. /\ IF j \in Run THEN job'[j].pc \in {"reporting", "failing"} /\ Carries(j)
                      ELSE job'[j].pc = "done" /\ job'[j].pending = <<>>
      /\ \A k \in Job \ {j} : job'[k] = job[k]
  BY <1>1, GoDoes, LeaveDoes DEF Place
<1>3. OpenPrFails(j) => /\ pr' = pr /\ status' = status
                        /\ \A d \in Draft : failed[d] => failed'[d]
  BY DEF OpenPrFails, RecordMergeFailure, github, BatchInv, Types, DraftTypes
<1>4. OpenPrFails(j) /\ j \in Run => job'[j].pc = "failing"
  BY GoDoes DEF OpenPrFails, Place
<1>5. job[j].pc = "opening" /\ UNCHANGED <<tip, batch, sweep, crashes>>
  BY DEF OpenPr, OpenPrFails, github, bounds, GithubFails
<1>6. OpenPr(j) => PrCanOpen /\ MarkPrOpened(SeqSet(job[j].pending))
  BY DEF OpenPr
<1> QED BY <1>2, <1>3, <1>4, <1>5, <1>6 DEF Only

\* A run leaves: it reports, or has nothing to end.
LEMMA RunLeavesDoes ==
  ASSUME BatchInv, NEW r \in Run, ReportShipped(r) \/ ReportFailed(r) \/ GiveUpEmpty(r)
  PROVE  /\ r \in Job /\ Only(r) /\ job'[r].pc = "done" /\ job'[r].pending = <<>>
         /\ NoPush /\ batch' = batch
         /\ ReportShipped(r) => job[r].pc = "reporting" /\ UNCHANGED <<status, failed>>
         /\ GiveUpEmpty(r) => /\ job[r].pc = "looping" /\ job[r].pending = <<>> /\ r \in Pipeline
                              /\ UNCHANGED <<status, failed>>
         /\ ReportFailed(r) => /\ job[r].pc = "failing"
                               /\ \/ RecordMergeFailure(SeqSet(job[r].pending))
                                  \/ MarkAbandoned(SeqSet(job[r].pending))
<1>1. r \in Job /\ Leave(r)
  BY Parameters DEF ReportShipped, ReportFailed, GiveUpEmpty
<1>2. job'[r].pc = "done" /\ job'[r].pending = <<>> /\ \A k \in Job \ {r} : job'[k] = job[k]
  BY <1>1, LeaveDoes
<1> QED BY <1>1, <1>2 DEF ReportShipped, ReportFailed, GiveUpEmpty, Only, NoPush, drafts, github, bounds

\* A process is killed.
LEMMA CrashDoes ==
  ASSUME BatchInv, NEW p \in Process, Crash(p)
  PROVE  /\ NoPush /\ UNCHANGED <<status, failed>> /\ sweep' \in {sweep, Asleep}
         /\ batch'[p] = NotBatching /\ \A q \in Process \ {p} : batch'[q] = batch[q]
         /\ \A k \in Job : \/ job'[k] = job[k] /\ (Underway(k) => Home[k] # p)
                           \/ Underway(k) /\ Home[k] = p /\ job'[k].pc = "done" /\ job'[k].pending = <<>>
         /\ crashes' > 0 /\ MaxCrash # 0
<1> DEFINE done == AtRest("done")
<1>1. done.pc = "done" /\ done.pending = <<>>
  BY NothingTyped DEF Place
<1>2. job' = [k \in Job |-> IF Home[k] = p /\ Underway(k) THEN done ELSE job[k]]
  BY DEF Crash
<1> HIDE DEF done
<1>3. \A k \in Job : \/ job'[k] = job[k] /\ (Underway(k) => Home[k] # p)
                     \/ Underway(k) /\ Home[k] = p /\ job'[k].pc = "done" /\ job'[k].pending = <<>>
  BY <1>1, <1>2
<1>4. batch'[p] = NotBatching /\ \A q \in Process \ {p} : batch'[q] = batch[q]
  BY DEF Crash, BatchInv, Types, BatchTypes
<1>5. crashes' > 0 /\ MaxCrash # 0
  BY Parameters DEF Crash, BatchInv, Types, BoundTypes
<1> QED BY <1>3, <1>4, <1>5 DEF Crash, NoPush, drafts, github

-----------------------------------------------------------------------------
(* Who takes a step, and what it does to the branch.                       *)

\* What a step of a job does not do.
LEMMA JobStepsAlone ==
  ASSUME BatchInv, NEW j \in Job,
         \/ ItemStep(j) \/ (j \in Run /\ RunStep(j))
         \/ j \in Human /\ \E d \in Draft : PersonApproves(j, d)
  PROVE  Only(j) /\ (Underway(j) \/ MayStart(j))
<1>1. CASE Resolve(j) \/ Stage(j) \/ ApplyFails(j) \/ RecordMisses(j) \/ Record(j) \/ OpenPr(j) \/ OpenPrFails(j)
  <2>1. Only(j)
    BY <1>1, ResolveDoes, StageDoes, ItemEndsDoes, RecordDoes, OpenDoes
  <2>2. job[j].pc \notin {"idle", "done"}
    BY <1>1 DEF Resolve, Stage, ApplyFails, RecordMisses, Record, OpenPr, OpenPrFails
  <2> QED BY <2>1, <2>2 DEF Underway
<1>2. CASE j \in Run /\ Begin(j)
  BY <1>2, BeginDoes
<1>3. CASE j \in Run /\ \E d \in Draft : ApproveNext(j, d) \/ JoinAwaitingPr(j, d) \/ ResetStranded(j, d)
                                         \/ CountFinished(j, d)
  <2>1. Only(j) /\ job[j].pc = "looping"
    BY <1>3, TakeDoes
  <2> QED BY <2>1 DEF Underway
<1>4. CASE j \in Run /\ (EndBatch(j) \/ GiveUpEmpty(j) \/ MoveRef(j) \/ MoveRefFails(j) \/ ReportShipped(j)
                         \/ ReportFailed(j))
  <2>1. Only(j)
    BY <1>4, EndBatchDoes, MoveDoes, RunLeavesDoes
  <2>2. job[j].pc \notin {"idle", "done"}
    BY <1>4 DEF EndBatch, GiveUpEmpty, MoveRef, MoveRefFails, ReportShipped, ReportFailed
  <2> QED BY <2>1, <2>2 DEF Underway
<1>5. CASE j \in Human /\ \E d \in Draft : PersonApproves(j, d)
  BY <1>5, PersonDoes
<1> QED BY <1>1, <1>2, <1>3, <1>4, <1>5 DEF ItemStep, RunStep

\* What a step of the sweep, or of anybody else, leaves alone.
LEMMA SweepingAlone ==
  ASSUME Sweeping
  PROVE  /\ UNCHANGED <<tip, batch, job, crashes>>
         /\ sweep.pc # "idle" \/ MayStart(Sweep)
  BY DEF Sweeping, SweepList, SweepCompare, SweepRecheck, SweepReadFails, SweepSettle, SweepOpen,
         SweepOpenFails, SweepStep, bounds, GithubFails

\* The default branch moves without a draft, a job or the sweep.
LEMMA NobodyMoves ==
  ASSUME MainMoves \/ UNCHANGED vars
  PROVE  UNCHANGED <<status, failed, tip, pr, batch, job, sweep, crashes>>
  BY DEF MainMoves, vars, drafts, github, bounds

\* Every step, by who takes it.
LEMMA ByWhom ==
  ASSUME BatchInv, [Next]_vars
  PROVE  \/ \E j \in Job : \/ ItemStep(j) \/ (j \in Run /\ RunStep(j))
                           \/ j \in Human /\ \E d \in Draft : PersonApproves(j, d)
         \/ Sweeping
         \/ \E p \in Process : Crash(p)
         \/ MainMoves \/ UNCHANGED vars
  BY Parameters DEF Next

\* Only these steps change the branch, and only these open a pull request.
LEMMA WhoPushes ==
  ASSUME BatchInv, [Next]_vars
  PROVE  /\ tip' = tip \/ \E j \in Job : Resolve(j) \/ Stage(j) \/ (j \in Run /\ MoveRef(j))
         /\ pr' = pr \/ SweepOpen \/ \E j \in Job : OpenPr(j)
<1>1. ASSUME NEW j \in Job, ItemStep(j), ~Resolve(j), ~Stage(j), ~OpenPr(j) PROVE UNCHANGED <<tip, pr>>
  BY <1>1, ItemEndsDoes, RecordDoes, OpenDoes DEF ItemStep, NoPush
<1>2. ASSUME NEW j \in Job, Resolve(j) \/ Stage(j) PROVE pr' = pr
  BY <1>2, ResolveDoes, StageDoes
<1>3. ASSUME NEW j \in Job, OpenPr(j) PROVE tip' = tip
  BY <1>3, OpenDoes
<1>4. ASSUME NEW j \in Run, RunStep(j) PROVE pr' = pr /\ (tip' = tip \/ MoveRef(j))
  BY <1>4, BeginDoes, TakeDoes, EndBatchDoes, MoveDoes, RunLeavesDoes DEF RunStep, NoPush, MoveRefFails, github
<1>5. ASSUME NEW j \in Human, NEW d \in Draft, PersonApproves(j, d) PROVE UNCHANGED <<tip, pr>>
  BY <1>5, PersonDoes DEF NoPush
<1>6. CASE Sweeping
  BY <1>6 DEF Sweeping, SweepList, SweepCompare, SweepRecheck, SweepReadFails, SweepSettle, SweepOpen,
              SweepOpenFails, SweepStep
<1>7. ASSUME NEW p \in Process, Crash(p) PROVE UNCHANGED <<tip, pr>>
  BY <1>7, CrashDoes DEF NoPush
<1>8. Run \subseteq Job
  BY Parameters
<1> QED BY <1>1, <1>2, <1>3, <1>4, <1>5, <1>6, <1>7, <1>8, ByWhom, NobodyMoves

\* What a step of a job makes of a branch that is there.
LEMMA WhatIsPushed ==
  ASSUME BatchInv, tip # NoBranch, NEW j \in Job
  PROVE  /\ tip \in Tip
         /\ Resolve(j) => tip' = Synced(tip)
         /\ Stage(j) => /\ job[j].draft \in Draft
                        /\ tip' = tip \/ tip' = Appended(tip, "apply", {job[j].draft})
<1>1. tip \in Tip
  BY DEF BatchInv, Types, GithubTypes
<1>2. Stage(j) => job[j].draft \in Draft
  BY DEF Stage, BatchInv, Types, JobTypes, Ready
<1>3. Stage(j) => tip' = tip \/ tip' = Appended(tip, "apply", {job[j].draft})
  BY StageDoes DEF CreatedBranch
<1> QED BY <1>1, <1>2, <1>3, ResolveDoes

\* No step takes the branch away.
LEMMA TipStays ==
  ASSUME BatchInv, tip # NoBranch, [Next]_vars
  PROVE  tip' \in Tip
<1>1. tip \in Tip
  BY DEF BatchInv, Types, GithubTypes
<1>2. ASSUME NEW j \in Job, Resolve(j) PROVE tip' \in Tip
  BY <1>1, <1>2, WhatIsPushed, TipsTyped DEF BatchInv, Types
<1>3. ASSUME NEW j \in Job, Stage(j) PROVE tip' \in Tip
  <2>1. job[j].draft \in Draft
    BY <1>3, WhatIsPushed
  <2>2. "apply" \in {"apply", "batch", "sync"} /\ {job[j].draft} \in SUBSET Draft /\ 0 \in 0 .. MaxMain
    BY <2>1, Parameters
  <2>3. Appended(tip, "apply", {job[j].draft}) \in Tip
    BY <1>1, <2>2, AppendedTyped
  <2> QED BY <1>1, <1>3, <2>3, WhatIsPushed
<1>4. ASSUME NEW r \in Run, MoveRef(r) PROVE tip' \in Tip
  BY <1>1, <1>4, MoveDoes, Parameters DEF BatchInv, Types, JobTypes, Ready
<1> QED BY <1>1, <1>2, <1>3, <1>4, WhoPushes

\* One log continues another.
Continues(s, t) == Len(s) >= Len(t) /\ SubSeq(s, 1, Len(t)) = t

\* A commit on top continues the log, and so does a sync with the default branch.
LEMMA LogContinues ==
  ASSUME NEW t \in Tip, NEW D \in SUBSET Draft, NEW by \in {"apply", "batch", "sync"}
  PROVE  /\ Continues(t.log, t.log) /\ Continues(Appended(t, by, D).log, t.log)
         /\ Continues(Synced(t).log, t.log)
<1>1. t.log \in Seq(Commit)
  BY DEF Tip
<1>2. ASSUME NEW c \in Commit PROVE Continues(Append(t.log, c), t.log)
  <2> DEFINE s == Append(t.log, c)
  <2>1. /\ s \in Seq(Commit) /\ Len(s) = Len(t.log) + 1 /\ Len(t.log) \in Nat
        /\ \A i \in 1 .. Len(t.log) : s[i] = t.log[i]
    BY <1>1, AppendProperties
  <2> HIDE DEF s
  <2>2. /\ SubSeq(s, 1, Len(t.log)) \in Seq(Commit) /\ Len(SubSeq(s, 1, Len(t.log))) = Len(t.log)
        /\ \A i \in 1 .. Len(t.log) : SubSeq(s, 1, Len(t.log))[i] = s[i]
    BY <2>1
  <2>3. SubSeq(s, 1, Len(t.log)) = t.log
    BY <1>1, <2>1, <2>2, SeqEqual
  <2> QED BY <2>1, <2>3 DEF Continues, s
<1>3. Continues(t.log, t.log)
  BY <1>1, SeqEqual DEF Continues
<1>4. Appended(t, by, D).log = Append(t.log, [by |-> by, names |-> D])
  BY DEF Appended, Tip
<1>5. Synced(t).log \in {t.log, Append(t.log, [by |-> "sync", names |-> {}])}
  BY DEF Synced, Tip
<1>6. [by |-> by, names |-> D] \in Commit /\ [by |-> "sync", names |-> {}] \in Commit
  BY DEF Commit
<1> QED BY <1>2, <1>3, <1>4, <1>5, <1>6

\* The trees of the tips that steps make.
LEMMA Trees ==
  ASSUME NEW t \in Tip, NEW D \in SUBSET Draft
  PROVE  /\ \A by \in {"apply", "batch", "sync"} : Appended(t, by, D).tree = t.tree \cup D
         /\ Squashed(t, D).tree = t.tree \cup D /\ Synced(t).tree = t.tree
         /\ FreshFromMain.tree = {}
<1>1. \A by \in {"apply", "batch", "sync"} : Appended(t, by, D).tree = t.tree \cup D
  BY DEF Appended, Tip
<1>2. Squashed(t, D).tree = t.tree \cup D /\ FreshFromMain.tree = {}
  BY DEF Squashed, FreshFromMain
<1>3. Synced(t).tree = t.tree
  BY DEF Synced, Tip
<1> QED BY <1>1, <1>2, <1>3

\* What each step that changes the branch puts on it.
LEMMA WhatIsOnBranch ==
  ASSUME BatchInv
  PROVE  /\ \A j \in Job : Resolve(j) => OnBranch' = OnBranch
         /\ \A j \in Job : Stage(j) =>
              OnBranch' = IF batch[Home[j]].active THEN OnBranch ELSE OnBranch \cup {job[j].draft}
         /\ \A r \in Run : MoveRef(r) =>
              OnBranch' = IF job'[r].pc = "opening" THEN job[r].commit.tree ELSE OnBranch
         /\ tip' = tip => OnBranch' = OnBranch
<1>1. tip # NoBranch => tip \in Tip
  BY DEF BatchInv, Types, GithubTypes
<1>2. ASSUME NEW j \in Job, Resolve(j) PROVE OnBranch' = OnBranch
  <2>1. CASE tip = NoBranch
    BY <1>2, <2>1, ResolveDoes DEF OnBranch
  <2>2. CASE tip # NoBranch
    <3>1. tip' = Synced(tip) /\ Synced(tip) \in Tip /\ Synced(tip).tree = tip.tree
      BY <1>1, <1>2, <2>2, ResolveDoes, TipsTyped, Trees DEF BatchInv, Types
    <3> QED BY <2>2, <3>1, NullAssumption DEF OnBranch
  <2> QED BY <2>1, <2>2
<1>3. ASSUME NEW j \in Job, Stage(j)
      PROVE  OnBranch' = IF batch[Home[j]].active THEN OnBranch ELSE OnBranch \cup {job[j].draft}
  <2>1. PICK t : t = IF job[j].existed THEN tip ELSE CreatedBranch
    OBVIOUS
  <2>2. (job[j].existed => tip \in Tip) /\ job[j].draft \in Draft
    BY <1>3 DEF Stage, BatchInv, Types, JobTypes, Ready
  <2>3. FreshFromMain \in Tip /\ FreshFromMain.tree = {}
    BY TipsTyped DEF BatchInv, Types, FreshFromMain
  <2>4. t \in Tip /\ t.tree = OnBranch
    BY <1>1, <2>1, <2>2, <2>3, NullAssumption DEF CreatedBranch, OnBranch
  <2>5. "apply" \in {"apply", "batch", "sync"} /\ {job[j].draft} \in SUBSET Draft /\ 0 \in 0 .. MaxMain
    BY <2>2, Parameters
  <2>6. /\ Appended(t, "apply", {job[j].draft}) \in Tip
        /\ Appended(t, "apply", {job[j].draft}).tree = t.tree \cup {job[j].draft}
    BY <2>4, <2>5, AppendedTyped, Trees
  <2>7. CASE batch[Home[j]].active
    <3>1. tip' = t
      BY <1>3, <2>1, <2>7, StageDoes
    <3> QED BY <2>4, <2>7, <3>1, NullAssumption DEF OnBranch
  <2>8. CASE ~batch[Home[j]].active
    <3>1. tip' = Appended(t, "apply", {job[j].draft})
      BY <1>3, <2>1, <2>8, StageDoes
    <3>2. tip' \in Tip /\ tip'.tree = OnBranch \cup {job[j].draft}
      BY <2>4, <2>6, <3>1
    <3> QED BY <2>8, <3>2, NullAssumption DEF OnBranch
  <2> QED BY <2>7, <2>8
<1>4. ASSUME NEW r \in Run, MoveRef(r)
      PROVE  OnBranch' = IF job'[r].pc = "opening" THEN job[r].commit.tree ELSE OnBranch
  <2>1. r \in Job /\ job[r].commit \in Tip
    BY <1>4, MoveDoes DEF BatchInv, Types, JobTypes, Ready
  <2> QED BY <1>4, <2>1, MoveDoes, NullAssumption DEF OnBranch
<1> QED BY <1>2, <1>3, <1>4 DEF OnBranch

\* A pull request has a branch, and so has a sweep that found commits on it.
HasTips == /\ pr => tip # NoBranch
           /\ sweep.pc \in {"compared", "rechecked", "opening"} => tip # NoBranch

\* The branch outlives the pull request and the sweep that found commits on it.
LEMMA TipsStep ==
  ASSUME BatchInv, HasTips, [Next]_vars
  PROVE  HasTips'
<1>1. tip # NoBranch => tip' # NoBranch
  BY TipStays, NullAssumption
<1>2. pr' => tip' # NoBranch
  <2>1. ASSUME NEW j \in Job, OpenPr(j) PROVE tip # NoBranch
    BY <2>1, OpenDoes DEF PrCanOpen, HasTips
  <2>2. SweepOpen => tip # NoBranch
    BY DEF SweepOpen, HasTips
  <2> QED BY <1>1, <2>1, <2>2, WhoPushes DEF HasTips
<1>3. sweep'.pc \in {"compared", "rechecked", "opening"} => tip' # NoBranch
  <2>1. Asleep.pc = "idle" /\ sweep \in SweepType
    BY DEF Asleep, BatchInv, Types, SweepTypes
  <2>2. CASE Sweeping
    <3>1. SweepCompare => tip # NoBranch \/ sweep'.pc = "idle"
      BY <2>1 DEF SweepCompare
    <3>2. SweepList => sweep'.pc = "listed"
      BY DEF SweepList
    <3>3. SweepOpen \/ SweepOpenFails => sweep'.pc = "idle"
      BY <2>1 DEF SweepOpen, SweepOpenFails
    <3>4. SweepReadFails => sweep'.pc = "idle" \/ sweep.pc = "compared"
      BY <2>1 DEF SweepReadFails
    <3>5. SweepRecheck \/ SweepSettle => sweep.pc \in {"compared", "rechecked"}
      BY DEF SweepRecheck, SweepSettle
    <3> QED BY <1>1, <2>2, <3>1, <3>2, <3>3, <3>4, <3>5 DEF Sweeping, HasTips
  <2>3. ASSUME NEW p \in Process, Crash(p) PROVE sweep'.pc \in {sweep.pc, "idle"}
    BY <2>1, <2>3, CrashDoes
  <2>4. CASE sweep' = sweep
    BY <1>1, <2>4 DEF HasTips
  <2> QED BY <1>1, <2>2, <2>3, <2>4, ByWhom, JobStepsAlone, NobodyMoves DEF Only, HasTips
<1> QED BY <1>2, <1>3 DEF HasTips

-----------------------------------------------------------------------------
(* What commits name, their trees hold.                                    *)

Honest(t) == \A i \in DOMAIN t.log : t.log[i].names \subseteq t.tree

HonestInv == /\ tip # NoBranch => Honest(tip)
             /\ \A p \in Process : batch[p].base # NoSha => Honest(batch[p].base)
             /\ \A j \in Job : job[j].pc = "moving" => Honest(job[j].commit)

\* The tips that steps make from an honest one.
LEMMA HonestTips ==
  ASSUME NEW t \in Tip, Honest(t), NEW D \in SUBSET Draft
  PROVE  /\ \A by \in {"apply", "batch", "sync"} : Honest(Appended(t, by, D))
         /\ Honest(Synced(t)) /\ (MaySquash(t) => Honest(Squashed(t, D)))
<1>1. t.log \in Seq(Commit)
  BY DEF Tip
<1>2. ASSUME NEW u, NEW c \in Commit, u.log = Append(t.log, c), t.tree \subseteq u.tree, c.names \subseteq u.tree
      PROVE  Honest(u)
  <2>1. /\ DOMAIN u.log = 1 .. Len(t.log) + 1 /\ Len(t.log) \in Nat /\ DOMAIN t.log = 1 .. Len(t.log)
        /\ \A i \in 1 .. Len(t.log) : u.log[i] = t.log[i]
        /\ u.log[Len(t.log) + 1] = c
    BY <1>1, <1>2, AppendProperties
  <2>2. \A i \in DOMAIN u.log : i \in DOMAIN t.log \/ i = Len(t.log) + 1
    BY <2>1
  <2> QED BY <1>2, <2>1, <2>2 DEF Honest
<1>3. ASSUME NEW by \in {"apply", "batch", "sync"} PROVE Honest(Appended(t, by, D))
  <2>1. PICK c : c = [by |-> by, names |-> D]
    OBVIOUS
  <2>2. PICK u : u = Appended(t, by, D)
    OBVIOUS
  <2>3. c \in Commit /\ c.names = D
    BY <2>1 DEF Commit
  <2>4. u.log = Append(t.log, c) /\ u.tree = t.tree \cup D
    BY <2>1, <2>2 DEF Appended, Tip
  <2> QED BY <1>2, <2>2, <2>3, <2>4
<1>4. Honest(Synced(t))
  <2>1. PICK c : c = [by |-> "sync", names |-> {}]
    OBVIOUS
  <2>2. PICK u : u = Synced(t)
    OBVIOUS
  <2>3. c \in Commit /\ c.names = {}
    BY <2>1 DEF Commit
  <2>4. u = t \/ (u.log = Append(t.log, c) /\ u.tree = t.tree)
    BY <2>1, <2>2 DEF Synced, Tip
  <2> QED BY <1>2, <2>2, <2>3, <2>4
<1>5. ASSUME MaySquash(t) PROVE Honest(Squashed(t, D))
  <2>1. t.log # <<>>
    BY <1>5 DEF MaySquash
  <2>2. Len(t.log) \in DOMAIN t.log
    BY <1>1, <2>1
  <2>3. PICK names : names = t.log[Len(t.log)].names
    OBVIOUS
  <2>4. names \subseteq t.tree
    BY <2>2, <2>3 DEF Honest
  <2>5. Squashed(t, D).log = <<[by |-> "batch", names |-> names \cup D]>> /\ Squashed(t, D).tree = t.tree \cup D
    BY <2>3 DEF Squashed
  <2>6. Squashed(t, D).log[1].names = names \cup D /\ DOMAIN Squashed(t, D).log = {1}
    BY <2>5
  <2> QED BY <2>4, <2>5, <2>6 DEF Honest
<1> QED BY <1>3, <1>4, <1>5

\* Every step.
LEMMA HonestStep ==
  ASSUME BatchInv, HonestInv, [Next]_vars
  PROVE  HonestInv'
<1>1. Honest(FreshFromMain) /\ FreshFromMain \in Tip
  BY TipsTyped DEF Honest, FreshFromMain, BatchInv, Types
<1>2. tip # NoBranch => tip \in Tip /\ Honest(tip)
  BY DEF HonestInv, BatchInv, Types, GithubTypes
<1>3. {} \in SUBSET Draft
  OBVIOUS
<1>4. ASSUME NEW j \in Job, Resolve(j) PROVE HonestInv'
  <2>1. batch' = batch /\ job'[j].pc = "staging" /\ \A k \in Job \ {j} : job'[k] = job[k]
    BY <1>4, ResolveDoes DEF Only
  <2>2. tip' # NoBranch => Honest(tip')
    BY <1>2, <1>3, <1>4, ResolveDoes, HonestTips
  <2> QED BY <2>1, <2>2 DEF HonestInv
<1>5. ASSUME NEW j \in Job, Stage(j) PROVE HonestInv'
  <2>1. job'[j].pc = "recording" /\ \A k \in Job \ {j} : job'[k] = job[k]
    BY <1>5, StageDoes DEF Only
  <2>2. PICK t : t = IF job[j].existed THEN tip ELSE CreatedBranch
    OBVIOUS
  <2>3. (job[j].existed => tip \in Tip) /\ job[j].draft \in Draft
    BY <1>5 DEF Stage, BatchInv, Types, JobTypes, Ready
  <2>4. t \in Tip /\ Honest(t)
    BY <1>1, <1>2, <2>2, <2>3, NullAssumption DEF CreatedBranch
  <2>5. CASE batch[Home[j]].active
    <3>1. tip' = t /\ \A p \in Process \ {Home[j]} : batch'[p] = batch[p]
      BY <1>5, <2>2, <2>5, StageDoes
    <3>2. /\ batch[Home[j]].base # NoSha => batch'[Home[j]].base = batch[Home[j]].base
          /\ batch[Home[j]].base = NoSha => batch'[Home[j]].base = IF job[j].existed THEN tip ELSE FreshFromMain
      BY <1>5, <2>5, StageDoes
    <3>3. Home[j] \in Process
      BY Parameters
    <3>4. batch'[Home[j]].base # NoSha => Honest(batch'[Home[j]].base)
      BY <1>1, <1>2, <2>3, <3>2, <3>3, NullAssumption DEF HonestInv
    <3> QED BY <2>1, <2>4, <3>1, <3>4 DEF HonestInv
  <2>6. CASE ~batch[Home[j]].active
    <3>1. tip' = Appended(t, "apply", {job[j].draft}) /\ batch' = batch
      BY <1>5, <2>2, <2>6, StageDoes
    <3>2. {job[j].draft} \in SUBSET Draft /\ "apply" \in {"apply", "batch", "sync"}
      BY <2>3
    <3>3. Honest(tip')
      BY <2>4, <3>1, <3>2, HonestTips
    <3> QED BY <2>1, <3>1, <3>3 DEF HonestInv
  <2> QED BY <2>5, <2>6
<1>6. ASSUME NEW r \in Run, EndBatch(r) PROVE HonestInv'
  <2>1. /\ r \in Job /\ Home[r] \in Process /\ tip' = tip /\ \A k \in Job \ {r} : job'[k] = job[k]
        /\ batch'[Home[r]].base = NoSha /\ \A p \in Process \ {Home[r]} : batch'[p] = batch[p]
    BY <1>6, EndBatchDoes DEF Only, NoPush, NotBatching
  <2>2. batch[Home[r]].entries \in SUBSET Draft
    BY <2>1 DEF BatchInv, Types, BatchTypes, BatchType
  <2>3. batch[Home[r]].base \in Tip => Honest(batch[Home[r]].base)
    BY <2>1, NullAssumption DEF HonestInv
  <2>4. job'[r].pc = "moving" => Honest(job'[r].commit)
    BY <1>6, <2>2, <2>3, EndBatchDoes, HonestTips
  <2> QED BY <2>1, <2>4 DEF HonestInv
<1>7. ASSUME NEW r \in Run, MoveRef(r) PROVE HonestInv'
  <2>1. /\ r \in Job /\ job[r].pc = "moving" /\ job'[r].pc # "moving" /\ tip' \in {job[r].commit, tip}
        /\ batch' = batch /\ \A k \in Job \ {r} : job'[k] = job[k]
    BY <1>7, MoveDoes DEF Only
  <2>2. Honest(job[r].commit)
    BY <2>1 DEF HonestInv
  <2> QED BY <2>1, <2>2 DEF HonestInv
<1>8. ASSUME NEW r \in Run, Begin(r) PROVE HonestInv'
  <2>1. /\ tip' = tip /\ job'[r].pc = "looping" /\ \A k \in Job \ {r} : job'[k] = job[k]
        /\ \A p \in Process : batch'[p] = batch[p] \/ batch'[p].base = NoSha
    BY <1>8, BeginDoes DEF NoPush, Only
  <2> QED BY <2>1 DEF HonestInv
<1>9. ASSUME NEW j \in Job, tip' = tip, batch' = batch, job'[j].pc # "moving", Only(j) PROVE HonestInv'
  BY <1>9 DEF HonestInv, Only
<1>10. ASSUME NEW j \in Job, ApplyFails(j) \/ RecordMisses(j) \/ Record(j) \/ OpenPr(j) \/ OpenPrFails(j)
       PROVE  HonestInv'
  <2>1. tip' = tip /\ batch' = batch /\ job'[j].pc # "moving" /\ Only(j)
    BY <1>10, ItemEndsDoes, RecordDoes, OpenDoes DEF NoPush
  <2> QED BY <1>9, <2>1
<1>11. ASSUME NEW r \in Run, NEW d \in Draft,
              ApproveNext(r, d) \/ JoinAwaitingPr(r, d) \/ ResetStranded(r, d) \/ CountFinished(r, d)
       PROVE  HonestInv'
  <2>1. r \in Job /\ tip' = tip /\ batch' = batch /\ job'[r].pc # "moving" /\ Only(r)
    BY <1>11, TakeDoes DEF NoPush
  <2> QED BY <1>9, <2>1
<1>12. ASSUME NEW r \in Run, GiveUpEmpty(r) \/ MoveRefFails(r) \/ ReportShipped(r) \/ ReportFailed(r)
       PROVE  HonestInv'
  <2>1. tip' = tip
    BY <1>12 DEF GiveUpEmpty, MoveRefFails, ReportShipped, ReportFailed, github
  <2>2. r \in Job /\ batch' = batch /\ job'[r].pc # "moving" /\ Only(r)
    BY <1>12, RunLeavesDoes, MoveDoes
  <2> QED BY <1>9, <2>1, <2>2
<1>13. ASSUME NEW h \in Human, NEW d \in Draft, PersonApproves(h, d) PROVE HonestInv'
  <2>1. h \in Job /\ tip' = tip /\ batch' = batch /\ job'[h].pc # "moving" /\ Only(h)
    BY <1>13, PersonDoes DEF NoPush
  <2> QED BY <1>9, <2>1
<1>14. CASE Sweeping \/ MainMoves \/ UNCHANGED vars
  BY <1>14, SweepingAlone, NobodyMoves DEF HonestInv
<1>15. ASSUME NEW p \in Process, Crash(p) PROVE HonestInv'
  <2>1. /\ tip' = tip /\ \A q \in Process : batch'[q] = batch[q] \/ batch'[q].base = NoSha
        /\ \A k \in Job : job'[k] = job[k] \/ job'[k].pc = "done"
    BY <1>15, CrashDoes DEF NoPush, NotBatching
  <2> QED BY <2>1 DEF HonestInv
<1>16. Run \subseteq Job
  BY Parameters
<1> QED BY <1>4, <1>5, <1>6, <1>7, <1>8, <1>10, <1>11, <1>12, <1>13, <1>14, <1>15, <1>16, ByWhom DEF ItemStep, RunStep

(* A commit's message names no draft whose files the branch lacks, neither *)
(* on the pull request's branch nor on a commit still to be pushed,        *)
(* whoever overlaps or crashes: this is what lets the sweep take a subject *)
(* for a landed change (sweepOrphanedApproved, batch-pr-recovery.js).      *)
THEOREM CommitsNameWhatTheyHold == Spec => []HonestInv
<1>1. Init => HonestInv
  BY NullAssumption DEF Init, HonestInv, NotBatching, AtRest
<1>2. BatchInv /\ HonestInv /\ [Next]_vars => HonestInv'
  BY HonestStep
<1> QED BY <1>1, <1>2, BatchIsTyped, PTL DEF Spec, Fairness

=============================================================================
