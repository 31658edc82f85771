---------------------------- MODULE MCDesignAgent ----------------------------
EXTENDS DesignAgent

Json == INSTANCE JsonMerge WITH Name <- {"a", "b"}, Scalar <- {1, 2}

\* Small documents: only the first key may hold an object.
Document == {d \in Json!Document : Json!Get(d, "b") \in Json!Leaves \cup {Json!Absent}}

\* The merge behind every recovered write keeps what either side changed, also nested and
\* removed keys (lib/json-merge3.js; its tests merge a handful of documents).  It is a fact
\* about an algorithm, not about the states of a run: TLC evaluates it once, before the run.
ASSUME MergeLosesNothing ==
  \A base, theirs, ours \in Document : Json!MergesLeafwise(base, theirs, ours)
=============================================================================
