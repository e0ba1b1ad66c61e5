----------------------------- MODULE MCRefresh -----------------------------
(* Refresh with token lives for TLC; Forever is a model value.             *)
EXTENDS Refresh

SomeExpire == {8, Forever}
ShortLived == {2}
=============================================================================
