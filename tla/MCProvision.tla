----------------------------- MODULE MCProvision -----------------------------
(* Provision with a few specs; the cluster rewrites one of the shapes.     *)
EXTENDS Provision, TLC

Pod(options, ca, shape) == [options |-> options, ca |-> ca, shape |-> shape]

FewSpecs == {Pod("o1", FALSE, "plain"), Pod("o1", TRUE, "plain"), Pod("o2", FALSE, "rewritten")}
OneSpec == {Pod("o1", FALSE, "plain")}
AsStored == "plain" :> "plain" @@ "rewritten" :> "patched"
=============================================================================
