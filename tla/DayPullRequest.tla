---------------------------- MODULE DayPullRequest ----------------------------
(***************************************************************************)
(* What the day's batch promises whoever reviews its pull request, and     *)
(* whoever reads in the dashboard what became of a draft: work is added to *)
(* the branch and never taken away, commits under review stay as they are, *)
(* and a draft reported in the pull request is in it, for good.            *)
(*                                                                         *)
(* It says nothing of batches in memory, plans, refused pushes or sweeps.  *)
(***************************************************************************)
EXTENDS Naturals, Sequences

CONSTANT Draft

VARIABLES
  work,      \* the drafts whose changes the branch holds
  commits,   \* the commits of the branch
  open,      \* a pull request is open
  reported   \* the drafts recorded as being in it

Init == work = {} /\ commits = <<>> /\ open = FALSE /\ reported = {}

Continues(new, old) == Len(new) >= Len(old) /\ SubSeq(new, 1, Len(old)) = old

\* The branch moves on.  Before there is a pull request, its commits may be rewritten.
Push ==
  /\ work \subseteq work' /\ work' \subseteq Draft
  /\ open => Continues(commits', commits)
  /\ UNCHANGED <<open, reported>>

\* Drafts are recorded as being in the pull request, which is opened for them if there
\* was none.
Report ==
  /\ reported \subseteq reported' /\ reported' \subseteq work
  /\ open'
  /\ UNCHANGED <<work, commits>>

Next == Push \/ Report

Spec == Init /\ [][Next]_<<work, commits, open, reported>>
===============================================================================
