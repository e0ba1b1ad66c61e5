--------------------------- MODULE RunnerRegistry ---------------------------
(***************************************************************************)
(* What an object promises about its runners on GitLab.  As long as        *)
(* nothing goes wrong, every unit has at most one, a replacement comes     *)
(* after the removal, a runner is never registered for an object that is   *)
(* gone, and an object does not go before its runners.  Once something     *)
(* went wrong runners may be lost sight of, but history is kept: a runner  *)
(* that was removed does not come back or change its unit, and neither     *)
(* does the object.                                                        *)
(***************************************************************************)
CONSTANTS Entries, Ids

VARIABLES
  live,      \* the runners of each unit: a set of at most one element
  used,      \* the runners GitLab has created so far
  open,      \* the object exists
  disturbed  \* something went wrong

vars == <<live, used, open, disturbed>>

Init ==
  /\ live = [e \in Entries |-> {}]
  /\ used = {}
  /\ open = TRUE
  /\ disturbed = FALSE

Register(e) ==
  /\ open /\ live[e] = {}
  /\ \E i \in Ids \ used :
       /\ live' = [live EXCEPT ![e] = {i}]
       /\ used' = used \cup {i}
  /\ UNCHANGED open

Deregister(e) ==
  /\ live[e] # {}
  /\ live' = [live EXCEPT ![e] = {}]
  /\ UNCHANGED <<used, open>>

Close ==
  /\ open /\ \A e \in Entries : live[e] = {}
  /\ open' = FALSE
  /\ UNCHANGED <<live, used>>

Promised == /\ \/ \E e \in Entries : Register(e) \/ Deregister(e)
               \/ Close
            /\ ~disturbed /\ ~disturbed'

\* A step that goes wrong, and every step after it.
Disturbed ==
  /\ disturbed'
  /\ open' => open
  /\ used \subseteq used'
  /\ \A e \in Entries : live'[e] \subseteq live[e] \cup (used' \ used)

Next == Promised \/ Disturbed

Spec == Init /\ [][Next]_vars
=============================================================================
