---------------------------- MODULE JobLifecycle ----------------------------
(***************************************************************************)
(* What a download job promises its requester, whatever the worker goes    *)
(* through: it is requested once, it comes to an end once, it does not end *)
(* without an outcome, and "delivered" is never its outcome before it was  *)
(* delivered.  DownloadTask implements this.                               *)
(***************************************************************************)
CONSTANT Tasks

VARIABLES
    stage,     \* stage[t]: "new", "open" or "settled"
    notified,  \* jobs of which the requester or the results channel was told
    outcome    \* outcome[t]: what is on record about how it ended

lifeVars == <<stage, notified, outcome>>

\* "unknown": an outcome was due and could not be stored.
Outcomes == {"none", "ok", "error", "unknown"}

Init ==
    /\ stage = [t \in Tasks |-> "new"]
    /\ notified = {}
    /\ outcome = [t \in Tasks |-> "none"]

Request(t) ==
    /\ stage[t] = "new"
    /\ stage' = [stage EXCEPT ![t] = "open"]
    /\ UNCHANGED <<notified, outcome>>

Tell(t) ==
    /\ stage[t] = "open"
    /\ notified' = notified \cup {t}
    /\ UNCHANGED <<stage, outcome>>

\* Two copies of a job may both report; nobody unlearns a known outcome.
Report(t, r) ==
    /\ stage[t] = "open"
    /\ r = "ok" => t \in notified
    /\ r = "unknown" => outcome[t] = "none"
    /\ outcome' = [outcome EXCEPT ![t] = r]
    /\ UNCHANGED <<stage, notified>>

Settle(t) ==
    /\ stage[t] = "open"
    /\ outcome[t] # "none"
    /\ stage' = [stage EXCEPT ![t] = "settled"]
    /\ UNCHANGED <<notified, outcome>>

Next ==
    \E t \in Tasks :
        \/ Request(t)
        \/ Tell(t)
        \/ \E r \in Outcomes \ {"none"} : Report(t, r)
        \/ Settle(t)

Spec == Init /\ [][Next]_lifeVars
=============================================================================
