------------------------------- MODULE MCRbac -------------------------------
(* Rbac with one or two objects and two namespaces.                        *)
EXTENDS Rbac, TLC

Ask(targets, pdb) == [targets |-> targets, pdb |-> pdb]

\* One MultiRunner in namespace a; its jobs run in b, or in both.
OneObject == {"m"}
OneKind == [o \in OneObject |-> "MultiRunner"]
OneHome == [o \in OneObject |-> "a"]
OneName == [o \in OneObject |-> "mrunner"]
Elsewhere == {Ask({"b"}, {}), Ask({"a", "b"}, {"b"})}

\* A Runner and a MultiRunner: their controllers run side by side.
TwoObjects == {"r", "m"}
TwoKinds == "r" :> "Runner" @@ "m" :> "MultiRunner"
TwoHomes == [o \in TwoObjects |-> "a"]
TwoNames == "r" :> "runner" @@ "m" :> "mrunner"
AtHome == {Ask({"a"}, {}), Ask({"a"}, {"a"})}

\* The allow-list opens b, or nothing.
OpenLists == {{}, {"b"}}
Closed == {{}}
=============================================================================
