---------------------------- MODULE ReplayedTrace ----------------------------
(***************************************************************************)
(* What replaying a frozen request trace promises: every request is        *)
(* decided once, it counts as served only when the service had answered it *)
(* in full, and the trace becomes evidence only when all of it was served. *)
(***************************************************************************)
CONSTANT Traces    \* the sets of requests a trace may consist of

VARIABLES
  answered,   \* the requests the service has answered in full
  outcome,    \* per request: "pending", "served" or "failed"
  evidence    \* the replay is accepted as evidence

Requests == DOMAIN outcome

Init ==
  /\ \E T \in Traces : outcome = [r \in T |-> "pending"]
  /\ answered = {} /\ evidence = FALSE

Answer(r) ==
  /\ outcome[r] = "pending"
  /\ answered' = answered \cup {r}
  /\ UNCHANGED <<outcome, evidence>>

Serve(r) ==
  /\ outcome[r] = "pending" /\ r \in answered
  /\ outcome' = [outcome EXCEPT ![r] = "served"]
  /\ UNCHANGED <<answered, evidence>>

Fail(r) ==
  /\ outcome[r] = "pending"
  /\ outcome' = [outcome EXCEPT ![r] = "failed"]
  /\ UNCHANGED <<answered, evidence>>

Accept ==
  /\ \A r \in Requests : outcome[r] = "served"
  /\ evidence' = TRUE
  /\ UNCHANGED <<answered, outcome>>

Next == Accept \/ \E r \in Requests : Answer(r) \/ Serve(r) \/ Fail(r)

Spec == Init /\ [][Next]_<<answered, outcome, evidence>>

=============================================================================
