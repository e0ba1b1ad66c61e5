------------------------------ MODULE MCDrain ------------------------------
(* Drain in a namespace with a MultiRunner of the same name, a Runner      *)
(* whose name extends it, and a Job that carries the label.                *)
EXTENDS Drain

Deleted == [kind |-> "runner", name |-> <<"ci">>]
SameName == [kind |-> "mrunner", name |-> <<"ci">>]
LongerName == [kind |-> "runner", name |-> <<"ci", "docs">>]
ThreeObjects == {Deleted, SameName, LongerName}

\* Two pods of the manager, of the ReplicaSets before and after a rollout, and one of
\* each of the others.
FivePods == {"old", "new", "same", "longer", "job"}
Managed ==
  [p \in FivePods |-> CASE p = "same" -> SameName
                        [] p = "longer" -> LongerName
                        [] p = "job" -> None
                        [] OTHER -> Deleted]
Labels == [p \in FivePods |-> IF p = "longer" THEN <<"ci", "docs">> ELSE <<"ci">>]
Owned ==
  [p \in FivePods |->
     {[kind |-> IF p = "job" THEN "Job" ELSE "ReplicaSet",
       name |-> IF p = "job" THEN <<"gitlab", "runner", "ci", "backup">>
                ELSE Append(ChildName(Managed[p]), IF p = "old" THEN "5d8f" ELSE "7c9b")]}]
=============================================================================
