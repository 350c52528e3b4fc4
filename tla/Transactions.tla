---------------------------- MODULE Transactions ----------------------------
(***************************************************************************)
(* What recordings promise about image states: a recording observes some   *)
(* images and plans a state for each.  It commits all of its plans at once *)
(* or none, and only if no other recording committed a plan for an image   *)
(* it observed in between, not even one that left the state as it was.     *)
(* It finishes only while that still holds of its own commit.              *)
(***************************************************************************)
CONSTANTS Image, Recording, State, Fresh

VARIABLES
  value,    \* the state of each image
  seen,     \* the images each recording observed
  current,  \* ... of which no other recording committed a plan since
  plan,     \* the state it plans for each of them
  stage     \* "open", "committed" or "finished"

vars == <<value, seen, current, plan, stage>>

Init ==
  /\ value = [i \in Image |-> Fresh]
  /\ seen = [r \in Recording |-> {}] /\ current = [r \in Recording |-> {}]
  /\ plan = [r \in Recording |-> [i \in Image |-> Fresh]]
  /\ stage = [r \in Recording |-> "open"]

\* Recording r observes image i, if it has not yet, and plans state s for it.
Plan(r, i, s) ==
  /\ stage[r] = "open"
  /\ seen' = [seen EXCEPT ![r] = @ \cup {i}]
  /\ current' = [current EXCEPT ![r] = IF i \in seen[r] THEN @ ELSE @ \cup {i}]
  /\ plan' = [plan EXCEPT ![r][i] = s]
  /\ UNCHANGED <<value, stage>>

Commit(r) ==
  /\ stage[r] = "open" /\ current[r] = seen[r]
  /\ value' = [i \in Image |-> IF i \in seen[r] THEN plan[r][i] ELSE value[i]]
  /\ current' = [q \in Recording |-> IF q = r THEN current[r] ELSE current[q] \ seen[r]]
  /\ stage' = [stage EXCEPT ![r] = "committed"]
  /\ UNCHANGED <<seen, plan>>

Finish(r) ==
  /\ stage[r] = "committed" /\ current[r] = seen[r]
  /\ stage' = [stage EXCEPT ![r] = "finished"]
  /\ UNCHANGED <<value, seen, current, plan>>

Forget(r) ==
  /\ seen' = [seen EXCEPT ![r] = {}]
  /\ current' = [current EXCEPT ![r] = {}]
  /\ plan' = [plan EXCEPT ![r] = [i \in Image |-> Fresh]]
  /\ stage' = [stage EXCEPT ![r] = "open"]
  /\ UNCHANGED value

\* An image that no recording observed is destroyed, to be created again.
Renew(i) ==
  /\ \A r \in Recording : i \notin seen[r]
  /\ value' = [value EXCEPT ![i] = Fresh]
  /\ UNCHANGED <<seen, current, plan, stage>>

Next ==
  \/ \E r \in Recording : Commit(r) \/ Finish(r) \/ Forget(r)
  \/ \E r \in Recording, i \in Image, s \in State : Plan(r, i, s)
  \/ \E i \in Image : Renew(i)

Spec == Init /\ [][Next]_vars
=============================================================================
