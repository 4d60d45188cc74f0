--------------------------- MODULE SubagentLeases ---------------------------
(***************************************************************************)
(* What the admission control of extensions/subagent promises its callers, *)
(* with no queue, no listeners and no retained children: a run asks once   *)
(* for a lease; it is granted one or refused; a lease is held until it is  *)
(* returned.  At most MaxConcurrentRuns leases are out, at most one of     *)
(* them writes to a given workspace, and after the parent session closes   *)
(* nothing is granted any more.                                            *)
(*                                                                         *)
(* SubagentControl implements this specification (its property             *)
(* ImplementsLeases).                                                      *)
(***************************************************************************)
EXTENDS Integers, FiniteSets

CONSTANTS
  Runs,               \* run identifiers
  Workspaces,         \* canonical workspace keys
  ReadOnly,           \* stands for a request that writes nowhere
  MaxConcurrentRuns

VARIABLES
  wants,              \* [Runs -> Workspaces \cup {ReadOnly}], fixed per run
  lease,              \* [Runs -> LeaseStates]
  open                \* the parent session still admits work

leaseVars == <<wants, lease, open>>

LeaseStates == {"unasked", "asked", "held", "returned", "refused"}

(* How one request may move within one step of the owner. *)
Moves == {<<"unasked", "asked">>, <<"unasked", "held">>, <<"unasked", "refused">>,
          <<"asked", "held">>, <<"asked", "refused">>, <<"held", "returned">>}

(* A set of leases may be out together. *)
Compatible(S) ==
  /\ Cardinality(S) <= MaxConcurrentRuns
  /\ \A r, s \in S : (r # s /\ wants[r] = wants[s]) => wants[r] = ReadOnly

Init ==
  /\ wants \in [Runs -> Workspaces \cup {ReadOnly}]
  /\ lease = [r \in Runs |-> "unasked"]
  /\ open = TRUE

(* One step of the owner may settle several requests; what it leaves held   *)
(* is compatible, and it grants nothing once closed.                        *)
Serve ==
  /\ lease' \in [Runs -> LeaseStates]
  /\ \A r \in Runs : lease'[r] # lease[r] => <<lease[r], lease'[r]>> \in Moves
  /\ Compatible({r \in Runs : lease'[r] = "held"})
  /\ \A r \in Runs : lease'[r] = "held" => (open \/ lease[r] = "held")
  /\ UNCHANGED <<wants, open>>

(* Closing refuses everything that still waits. *)
Close ==
  /\ open
  /\ open' = FALSE
  /\ lease' = [r \in Runs |-> IF lease[r] = "asked" THEN "refused" ELSE lease[r]]
  /\ UNCHANGED wants

Next == Serve \/ Close

Spec == Init /\ [][Next]_leaseVars
=============================================================================
