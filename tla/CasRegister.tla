----------------------------- MODULE CasRegister -----------------------------
(***************************************************************************)
(* What the blackboard promises for one key: an atomic register with an    *)
(* optimistic write that lands if, and only if, nobody moved the value     *)
(* since its writer read it.                                               *)
(***************************************************************************)
CONSTANTS Client, Value, Absent, NoAnswer

VARIABLES
    value,     \* the value, or Absent
    current,   \* clients whose last reading nobody has overwritten
    answer     \* what the last operation answered, if it was conditional

vars == <<value, current, answer>>

Init == value = Absent /\ current = {} /\ answer = NoAnswer

Read(c) ==
    /\ current' = IF value = Absent THEN current \ {c} ELSE current \union {c}
    /\ answer' = NoAnswer /\ UNCHANGED value

Assign(v) == value' = v /\ current' = {}

Write(v) == Assign(v) /\ answer' = NoAnswer

CompareAndSet(c, v) ==
    \/ c \in current /\ Assign(v) /\ answer' = <<c, "landed">>
    \/ c \notin current /\ answer' = <<c, "conflict">> /\ UNCHANGED <<value, current>>

Next ==
    \/ \E c \in Client : Read(c)
    \/ \E v \in Value : Write(v)
    \/ \E c \in Client, v \in Value : CompareAndSet(c, v)

Spec == Init /\ [][Next]_vars
=============================================================================
