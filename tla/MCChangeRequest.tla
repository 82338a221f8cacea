--------------------------- MODULE MCChangeRequest ---------------------------
(* Instances of ChangeRequest for TLC: two requests about one registrant. *)
EXTENDS ChangeRequest, TLC

CONSTANTS a, b

rule(fields, states, action) ==
    [fields |-> fields, types |-> {}, states |-> states, action |-> action]

\* "edit" is routed dynamically, applied on approval and warned of; "record"
\* is static, applied by a manager and blocked by field.
MCType == [t \in Types |->
    IF t = "edit"
    THEN [dynamic |-> TRUE, autoApply |-> TRUE, mapped |-> Fields,
          rules |-> {rule(Fields, {"draft", "pending", "approved"}, "warn")}]
    ELSE [dynamic |-> FALSE, autoApply |-> FALSE, mapped |-> {"name"},
          rules |-> {rule({"name"}, {"pending", "approved"}, "block")}]]

\* Histories nothing reads any more: what was routed, or excused, before the
\* request was last taken back.
Live(r) == state[r] \in {"pending", "approved"}
View == <<rows, snap, dirty, {r \in Requests : Live(r) /\ r \in excused},
          [r \in Requests |-> IF Live(r) \/ routed[r] = Unsubmitted THEN routed[r] ELSE "stale"]>>

Swaps == Permutations(Requests)
=============================================================================
