----------------------------- MODULE ConfigStore -----------------------------
(***************************************************************************)
(* What sites.url_file_map promises its writers (migration 249): "No       *)
(* writer - new code, legacy code or a hand-run script - can silently lose *)
(* an update".  A client reads the whole map, holds what it read for as    *)
(* long as it likes, and writes a map of its own.  That write changes only *)
(* places that still hold what the client read there.                      *)
(***************************************************************************)
CONSTANTS
  Client,
  Key,      \* places of the map
  Locked,   \* those that are written under the row's lock only
  Value

VARIABLES
  data,     \* the stored map
  seen      \* the map each client holds, if any

Init ==
  /\ data \in [Key -> Value]
  /\ seen = [c \in Client |-> {}]

Holds(c, m) == seen' = [seen EXCEPT ![c] = m]

Read(c) == Holds(c, {data}) /\ UNCHANGED data

Forget(c) == Holds(c, {}) /\ UNCHANGED data

\* The client goes on with the map its write left behind, or with nothing.
Commit(c) ==
  /\ \E m \in seen[c] : \A k \in Key : data'[k] # data[k] => data[k] = m[k]
  /\ Holds(c, {data'}) \/ Holds(c, {})

\* A read and a write in one transaction.
Patch ==
  /\ \A k \in Key \ Locked : data'[k] = data[k]
  /\ UNCHANGED seen

Next == Patch \/ \E c \in Client : Read(c) \/ Forget(c) \/ Commit(c)

Spec == Init /\ [][Next]_<<data, seen>>
==============================================================================
