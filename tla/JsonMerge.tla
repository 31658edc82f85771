------------------------------ MODULE JsonMerge ------------------------------
(***************************************************************************)
(* The three-way merge of JSON documents that recovers a stale write of    *)
(* url_file_map (lib/json-merge3.js).  Scalars and arrays are leaves,      *)
(* Absent is a key an object does not have.  DesignAgent works with the    *)
(* places of the map that matter to it one by one; MergesLeafwise is what  *)
(* justifies that.                                                         *)
(***************************************************************************)
EXTENDS FiniteSets, Sequences

CONSTANTS Name, Scalar   \* keys of objects, values of leaves

Leaf(v) == [leaf |-> v]
Obj(f) == [obj |-> f]
Absent == [absent |-> TRUE]

IsObj(v) == "obj" \in DOMAIN v
Keys(v) == IF IsObj(v) THEN DOMAIN v.obj ELSE {}
Get(v, k) == IF k \in Keys(v) THEN v.obj[k] ELSE Absent

RECURSIVE MergeObj(_, _, _, _)

\* One value: whoever changed it alone has it; two changed objects are merged key by key.
MergeValue(b, t, o, path) ==
  IF o = b THEN [merged |-> t, conflicts |-> {}]
  ELSE IF t = b \/ o = t THEN [merged |-> o, conflicts |-> {}]
  ELSE IF IsObj(o) /\ IsObj(t) /\ (IsObj(b) \/ b = Absent)
  THEN MergeObj(IF IsObj(b) THEN b ELSE Obj(<<>>), t, o, path)
  ELSE [merged |-> t, conflicts |-> {path}]

MergeObj(base, theirs, ours, path) ==
  LET keys == Keys(base) \cup Keys(theirs) \cup Keys(ours)
      at == [k \in keys |-> MergeValue(Get(base, k), Get(theirs, k), Get(ours, k), Append(path, k))]
      kept == {k \in keys : at[k].merged # Absent}
  IN  [merged |-> Obj([k \in kept |-> at[k].merged]), conflicts |-> UNION {at[k].conflicts : k \in keys}]

Merge3(base, theirs, ours) == MergeObj(base, theirs, ours, <<>>)

-----------------------------------------------------------------------------
(* The reference: documents as their leaves.                                *)

RECURSIVE At(_, _)
At(v, path) == IF path = <<>> THEN IF IsObj(v) THEN Absent ELSE v
               ELSE At(Get(v, Head(path)), Tail(path))

Leaves == {Leaf(s) : s \in Scalar}
Objects(values) == {Obj(f) : f \in UNION {[K -> values] : K \in SUBSET Name}}

\* Objects of leaves and of objects of leaves.
Document == Objects(Leaves \cup Objects(Leaves))
Path == {<<k>> : k \in Name} \cup {<<k, l>> : k \in Name, l \in Name}

\* A merge without a conflict has, at every place, the writer's change if there is one and
\* what the others stored if there is none (json-merge3.js: "Rules, per key, recursively").
MergesLeafwise(base, theirs, ours) ==
  LET m == Merge3(base, theirs, ours)
      changed(v, p) == At(v, p) # At(base, p)
  IN  m.conflicts = {} =>
        \A p \in Path :
          /\ changed(ours, p) => At(m.merged, p) = At(ours, p)
          /\ ~changed(ours, p) => At(m.merged, p) = At(theirs, p)
=============================================================================
