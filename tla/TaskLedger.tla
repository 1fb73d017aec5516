----------------------------- MODULE TaskLedger -----------------------------
(***************************************************************************)
(* What SyncManager promises about the life of a task, without queues,     *)
(* threads or locks: a task is accepted once, tried a bounded number of    *)
(* times, ends once, and its end is reported at most once and never        *)
(* before it happened.  Waiting tasks may be given up, all of them         *)
(* together.                                                               *)
(***************************************************************************)
EXTENDS Naturals

CONSTANTS Tasks, MaxRetries

VARIABLES
  state,    \* SyncResult::state, or "Absent"
  tries,    \* SyncResult::attempts
  told      \* how often the end of the task was reported

ledger == <<state, tries, told>>

WaitingStates == {"Pending", "Retry"}
EndStates     == {"Completed", "Failed", "Cancelled"}

Submit(t) ==
  /\ state[t] = "Absent"
  /\ state' = [state EXCEPT ![t] = "Pending"]
  /\ UNCHANGED <<tries, told>>

Try(t) ==
  /\ state[t] \in WaitingStates
  /\ tries[t] <= MaxRetries
  /\ state' = [state EXCEPT ![t] = "InProgress"]
  /\ tries' = [tries EXCEPT ![t] = @ + 1]
  /\ UNCHANGED told

PutBack(t) ==
  /\ state[t] = "InProgress"
  /\ tries[t] <= MaxRetries
  /\ state' = [state EXCEPT ![t] = "Retry"]
  /\ UNCHANGED <<tries, told>>

Finish(t, s) ==
  /\ state[t] = "InProgress"
  /\ state' = [state EXCEPT ![t] = s]
  /\ UNCHANGED <<tries, told>>

(* The service is given up (Failed) or the manager is stopped (Cancelled). *)
GiveUpAll(s) ==
  /\ state' = [t \in Tasks |-> IF state[t] \in WaitingStates THEN s ELSE state[t]]
  /\ UNCHANGED <<tries, told>>

Tell(t) ==
  /\ state[t] \in EndStates
  /\ told[t] = 0
  /\ told' = [told EXCEPT ![t] = 1]
  /\ UNCHANGED <<state, tries>>

Init ==
  /\ state = [t \in Tasks |-> "Absent"]
  /\ tries = [t \in Tasks |-> 0]
  /\ told  = [t \in Tasks |-> 0]

Next ==
  \/ \E t \in Tasks : \/ Submit(t) \/ Try(t) \/ PutBack(t) \/ Tell(t)
                      \/ \E s \in EndStates : Finish(t, s)
  \/ \E s \in {"Failed", "Cancelled"} : GiveUpAll(s)

Spec == Init /\ [][Next]_ledger
=============================================================================
