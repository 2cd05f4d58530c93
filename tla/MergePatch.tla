----------------------------- MODULE MergePatch -----------------------------
(***************************************************************************)
(* JSON merge patches (RFC 7396), as the library json_merge_patch (external*)
(* to the repository) applies and creates them.  An object is a function   *)
(* from member names to values.                                            *)
(***************************************************************************)
EXTENDS Naturals, Sequences, Functions

Null == <<"null">>
Scalar(x) == <<"scalar", x>>
Object(members) == <<"object", members>>
IsObject(value) == value[1] = "object"
NoMembers == [k \in {} |-> Null]

RECURSIVE MergePatch(_, _)
MergePatch(target, patch) ==
  LET kept == DOMAIN target \ DOMAIN patch
      set == {k \in DOMAIN patch : patch[k] # Null}
      below(k) == IF k \in DOMAIN target /\ IsObject(target[k]) THEN target[k][2] ELSE NoMembers
  IN  [k \in kept \cup set |->
         IF k \in kept THEN target[k]
         ELSE IF IsObject(patch[k]) THEN Object(MergePatch(below(k), patch[k][2]))
         ELSE patch[k]]

RECURSIVE CreatePatch(_, _)
CreatePatch(source, target) ==
  LET removed == DOMAIN source \ DOMAIN target
      changed == {k \in DOMAIN target : k \in DOMAIN source => source[k] # target[k]}
  IN  [k \in removed \cup changed |->
         IF k \in removed THEN Null
         ELSE IF k \in DOMAIN source /\ IsObject(source[k]) /\ IsObject(target[k])
         THEN Object(CreatePatch(source[k][2], target[k][2]))
         ELSE target[k]]
=============================================================================
