--------------------------- MODULE TokenLifecycle ---------------------------
(***************************************************************************)
(* What the metadata pipeline promises of each token, without its queries, *)
(* callers, crashes and delays: a token is queued, its job fails and may   *)
(* die, its metadata is stored, and only then is the job completed.  A job *)
(* never loses an attempt nor comes back from Dead, metadata is never      *)
(* lost, none appears for a token that was never queued, and a failure     *)
(* makes no job.  A token may be queued again once its job is completed.   *)
(***************************************************************************)
EXTENDS Integers

CONSTANTS Tokens, MaxAttempts

VARIABLES
    status,      \* status[t]: of the job of t, "Absent" without one
    attempts,    \* attempts[t]: its failures, 0 without one
    known        \* the tokens whose metadata is stored

vars == <<status, attempts, known>>

Init ==
    /\ status = [t \in Tokens |-> "Absent"]
    /\ attempts = [t \in Tokens |-> 0]
    /\ known = {}

Queue ==
    /\ \E T \in SUBSET {t \in Tokens : status[t] = "Absent"} :
          status' = [t \in Tokens |-> IF t \in T THEN "Pending" ELSE status[t]]
    /\ UNCHANGED <<attempts, known>>

Fail(t) ==
    /\ status[t] # "Absent"
    /\ attempts' = [attempts EXCEPT ![t] = @ + 1]
    /\ status' = [status EXCEPT ![t] = IF attempts[t] + 1 >= MaxAttempts THEN "Dead"
                                       ELSE "Failed"]
    /\ UNCHANGED known

Enrich(t) ==
    /\ status[t] # "Absent"
    /\ known' = known \cup {t}
    /\ UNCHANGED <<status, attempts>>

Complete(t) ==
    /\ t \in known
    /\ status' = [status EXCEPT ![t] = "Absent"]
    /\ attempts' = [attempts EXCEPT ![t] = 0]
    /\ UNCHANGED known

Next == Queue \/ \E t \in Tokens : Fail(t) \/ Enrich(t) \/ Complete(t)

Spec == Init /\ [][Next]_vars
=============================================================================
