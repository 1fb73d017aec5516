------------------------- MODULE SyncManagerProofs -------------------------
(***************************************************************************)
(* Safety of SyncManager for every set of tasks, every non-empty pair of   *)
(* worker pools and every max_retries: facts about its queues, the         *)
(* inductive invariant and the cases of a step, one part per conjunct of   *)
(* the invariant, and what follows from it.                                *)
(***************************************************************************)
EXTENDS SyncManager, FiniteSetTheorems, TLAPS

-----------------------------------------------------------------------------
(* Sequences: what taking an item out of a queue and appending one do.     *)

(* queue.erase shifts the items behind the erased one to the front.        *)
LEMMA ErasedElements ==
  ASSUME NEW S, NEW q \in Seq(S), NEW i \in 1 .. Len(q)
  PROVE  /\ Erased(q, i) \in Seq(S)
         /\ Len(Erased(q, i)) = Len(q) - 1
         /\ \A k \in 1 .. (Len(q) - 1) :
              Erased(q, i)[k] = IF k < i THEN q[k] ELSE q[k + 1]
<1> DEFINE a == SubSeq(q, 1, i - 1)
           b == SubSeq(q, i + 1, Len(q))
<1>1. a \in Seq(S) /\ Len(a) = i - 1 /\ \A k \in 1 .. (i - 1) : a[k] = q[k]
  OBVIOUS
<1>2. /\ b \in Seq(S) /\ Len(b) = Len(q) - i
      /\ \A k \in 1 .. (Len(q) - i) : b[k] = q[k + i]
  OBVIOUS
<1>3. Erased(q, i) = a \o b
  BY DEF Erased
<1> HIDE DEF a, b
<1>4. /\ a \o b \in Seq(S) /\ Len(a \o b) = Len(a) + Len(b)
      /\ \A k \in 1 .. (Len(a) + Len(b)) :
           (a \o b)[k] = IF k <= Len(a) THEN a[k] ELSE b[k - Len(a)]
  <2>1. a \in Seq(S) /\ b \in Seq(S)
    BY <1>1, <1>2
  <2> QED BY <2>1
<1>5. Len(q) \in Nat /\ Len(a) + Len(b) = Len(q) - 1
  BY <1>1, <1>2
<1>6. ASSUME NEW k \in 1 .. (Len(q) - 1)
      PROVE  (a \o b)[k] = IF k < i THEN q[k] ELSE q[k + 1]
  <2>1. CASE k < i
    BY <2>1, <1>1, <1>4, <1>5
  <2>2. CASE ~(k < i)
    <3>1. k - Len(a) \in 1 .. (Len(q) - i) /\ (a \o b)[k] = b[k - Len(a)]
      BY <2>2, <1>1, <1>4, <1>5
    <3>2. b[k - Len(a)] = q[(k - Len(a)) + i] /\ (k - Len(a)) + i = k + 1
      BY <3>1, <1>1, <1>2
    <3> QED BY <3>1, <3>2, <2>2
  <2> QED BY <2>1, <2>2, ZenonT(30)
<1> QED BY <1>3, <1>4, <1>5, <1>6

(* Erasing an item of a queue without duplicates removes exactly that id.  *)
LEMMA ErasedRange ==
  ASSUME NEW S, NEW q \in Seq(S), NEW i \in 1 .. Len(q), IsInjective(q)
  PROVE  /\ IsInjective(Erased(q, i))
         /\ Range(Erased(q, i)) = Range(q) \ {q[i]}
<1> DEFINE r == Erased(q, i)
<1>1. /\ r \in Seq(S) /\ Len(r) = Len(q) - 1
      /\ \A k \in 1 .. (Len(q) - 1) : r[k] = IF k < i THEN q[k] ELSE q[k + 1]
  BY ErasedElements
<1>2. DOMAIN r = 1 .. (Len(q) - 1) /\ DOMAIN q = 1 .. Len(q)
  BY <1>1
<1> HIDE DEF r
<1>3. IsInjective(r)
  <2> SUFFICES ASSUME NEW k \in 1 .. (Len(q) - 1), NEW l \in 1 .. (Len(q) - 1), r[k] = r[l]
               PROVE  k = l
    BY <1>2 DEF IsInjective
  <2> DEFINE at(n) == IF n < i THEN n ELSE n + 1
  <2>1. at(k) \in 1 .. Len(q) /\ at(l) \in 1 .. Len(q) /\ q[at(k)] = q[at(l)]
    BY <1>1
  <2>2. at(k) = at(l)
    BY <2>1, <1>2 DEF IsInjective
  <2> QED BY <2>2
<1>4. ASSUME NEW x \in Range(r) PROVE x \in Range(q) \ {q[i]}
  BY <1>1, <1>2 DEF IsInjective, Range
<1>5. ASSUME NEW x \in Range(q), x # q[i] PROVE x \in Range(r)
  <2>1. PICK k \in 1 .. Len(q) : x = q[k]
    BY <1>2 DEF Range
  <2>2. CASE k < i
    <3>1. k \in 1 .. (Len(q) - 1) /\ r[k] = q[k]
      BY <2>2, <1>1
    <3> QED BY <3>1, <2>1, <1>2 DEF Range
  <2>3. CASE k > i
    <3>1. k - 1 \in 1 .. (Len(q) - 1) /\ r[k - 1] = q[k]
      BY <2>3, <1>1
    <3> QED BY <3>1, <2>1, <1>2 DEF Range
  <2> QED BY <2>1, <2>2, <2>3, <1>5
<1> QED BY <1>3, <1>4, <1>5 DEF r

(* push_back of a new id keeps a queue free of duplicates.                 *)
LEMMA AppendRange ==
  ASSUME NEW S, NEW q \in Seq(S), NEW x \in S, IsInjective(q), x \notin Range(q)
  PROVE  /\ Append(q, x) \in Seq(S)
         /\ IsInjective(Append(q, x))
         /\ Range(Append(q, x)) = Range(q) \cup {x}
<1> DEFINE r == Append(q, x)
<1>1. /\ r \in Seq(S) /\ Len(r) = Len(q) + 1
      /\ \A k \in 1 .. Len(q) : r[k] = q[k]
      /\ r[Len(q) + 1] = x
  OBVIOUS
<1>2. DOMAIN r = 1 .. (Len(q) + 1) /\ DOMAIN q = 1 .. Len(q)
  BY <1>1
<1> HIDE DEF r
<1>3. IsInjective(r)
  BY <1>1, <1>2 DEF IsInjective, Range
<1>4. Range(r) = Range(q) \cup {x}
  BY <1>1, <1>2 DEF Range
<1> QED BY <1>1, <1>3, <1>4 DEF r

-----------------------------------------------------------------------------
(* The inductive invariant.  TypeOK, TaskInOnePlace and ActiveIsExact are  *)
(* checked by themselves; two more conjuncts make the whole inductive.     *)

(* How far a task has been tried, also while its worker is between         *)
(* set_service_state and requeue_task.                                     *)
Tries ==
  /\ \A t \in Tasks : /\ attempts[t] <= MaxRetries + 1
                      /\ taskState[t] \in Waiting \cup {"Absent"} => attempts[t] <= MaxRetries
  /\ \A w \in Workers : pc[w] = "requeue" => attempts[held[w]] <= MaxRetries

(* What start and the stages of stop guarantee about flags and threads.    *)
Lifecycle ==
  /\ started => ctl = "idle" /\ ~stopping
  /\ ctl # "idle" => stopping
  /\ ~started => queue = EmptyQueues
  /\ ~started /\ ctl = "idle" => monitor = "off" /\ \A w \in Workers : pc[w] = "off"
  /\ ctl = "joinWorkers" => monitor = "off"
  /\ monitorNotes # {} => monitor = "report"

IInv == TypeOK /\ TaskInOnePlace /\ ActiveIsExact /\ Tries /\ Lifecycle

(* The effect of complete_task, whichever transfer outcome leads to it.    *)
Completion(w) == pc[w] = "transfer" /\ \E s \in Final : complete_task(w, s)

(* The actions of Next, one by one.                                        *)
LEMMA StepCases ==
  ASSUME Next
  PROVE  \/ start \/ set_result_callback \/ stop_begin \/ stop_set_state
         \/ stop_join_monitor \/ stop_join_workers
         \/ wait_for_idle \/ wait_evaluate \/ wait_timeout
         \/ \E t \in Tasks : enqueue(t) \/ enqueue_notify(t) \/ monitor_report(t)
         \/ \E w \in Workers :
              \/ take_exit(w) \/ take_wait_service(w) \/ take_item(w)
              \/ take_wait_item(w) \/ take_wait_retry(w) \/ spurious_wakeup(w)
              \/ Completion(w) \/ transfer_retries(w) \/ requeue_task(w)
              \/ report(w) \/ requeue_notify(w)
         \/ \E c \in Classes : retry_delay_elapsed(c)
         \/ monitor_check \/ monitor_wake
         \/ \E ok \in BOOLEAN : health_check(ok)
<1>1. ASSUME NEW w \in Workers, process_task(w)
      PROVE  \/ Completion(w) \/ transfer_retries(w) \/ requeue_task(w)
             \/ report(w) \/ requeue_notify(w)
  BY <1>1, SMTT(30)
     DEF process_task, Completion, transfer_succeeds, path_refused, transfer_fails, Final
<1> QED BY <1>1 DEF Next, Client, stop_rest, worker_loop, take_task, monitor_loop

(* Every step keeps the types; only requeue_task needs to know more, that  *)
(* a worker with a task holds a task.                                      *)
LEMMA TypeStep ==
  ASSUME TypeOK, HeldOnce, [Next]_vars
  PROVE  TypeOK'
<1> USE ConfigAssumption DEF TypeOK
<1>1. CASE UNCHANGED vars
  BY <1>1 DEF vars, taskVars, workerVars, monitorVars
<1>2. CASE start
  <2>1. pc' \in [Workers -> WorkerPC] /\ serviceState' \in ServiceStates
    BY <1>2 DEF start, WorkerPC, ServiceStates
  <2>2. failures' \in 0 .. (MaxRetries + 1)
    BY <1>2 DEF start
  <2> QED BY <1>2, <2>1, <2>2, ZenonT(30) DEF start, taskVars
<1>3. CASE set_result_callback
  BY <1>3 DEF set_result_callback, taskVars, workerVars, monitorVars
<1>4. CASE stop_begin
  <2>1. taskState' \in [Tasks -> TaskStates \cup {"Absent"}]
    BY <1>4 DEF stop_begin, GivenUp, TaskStates, Final
  <2>2. queue' \in [Classes -> Seq(Tasks)]
    BY <1>4 DEF stop_begin, EmptyQueues
  <2> QED BY <1>4, <2>1, <2>2, ZenonT(30) DEF stop_begin, workerVars, monitorVars
<1>5. CASE stop_set_state
  BY <1>5 DEF stop_set_state, set_service_state, Purges, Woken, WokenWaiter,
              monitorVars, WorkerPC, ServiceStates
<1>6. CASE stop_join_monitor
  BY <1>6 DEF stop_join_monitor, taskVars, workerVars
<1>7. CASE stop_join_workers
  BY <1>7 DEF stop_join_workers, taskVars, monitorVars, WorkerPC
<1>8. CASE wait_for_idle \/ wait_evaluate \/ wait_timeout
  BY <1>8 DEF wait_for_idle, wait_evaluate, wait_timeout, Answer, taskVars, workerVars, monitorVars
<1>9. ASSUME NEW t \in Tasks, enqueue(t) PROVE TypeOK'
  <2>1. queue' \in [Classes -> Seq(Tasks)]
    BY <1>9 DEF enqueue, QueueOf, Classes
  <2> QED BY <1>9, <2>1 DEF enqueue, workerVars, monitorVars, TaskStates, Waiting
<1>10. ASSUME NEW t \in Tasks, enqueue_notify(t) PROVE TypeOK'
  BY <1>10 DEF enqueue_notify, Woken, WorkerPC, taskVars, monitorVars
<1>11. ASSUME NEW t \in Tasks, monitor_report(t) PROVE TypeOK'
  BY <1>11 DEF monitor_report, taskVars, workerVars
<1>12. ASSUME NEW w \in Workers,
              \/ take_exit(w) \/ take_wait_service(w) \/ take_wait_item(w)
              \/ take_wait_retry(w) \/ spurious_wakeup(w)
       PROVE  TypeOK'
  <2>1. PICK where \in WorkerPC : MoveTo(w, where)
    BY <1>12 DEF take_exit, take_wait_service, take_wait_item, take_wait_retry,
                 spurious_wakeup, WorkerPC, Asleep
  <2> QED BY <2>1 DEF MoveTo, taskVars, monitorVars
<1>13. ASSUME NEW w \in Workers, take_item(w) PROVE TypeOK'
  <2>1. PICK i \in DOMAIN queue[ClassOf(w)] : take_at(w, i)
    BY <1>13 DEF take_item
  <2>2. queue[ClassOf(w)] \in Seq(Tasks) /\ ClassOf(w) \in Classes
    BY DEF ClassOf, Classes
  <2>3. i \in 1 .. Len(queue[ClassOf(w)]) /\ queue[ClassOf(w)][i] \in Tasks
    BY <2>2
  <2>4. Erased(queue[ClassOf(w)], i) \in Seq(Tasks)
    BY <2>2, <2>3, ErasedElements
  <2>5. queue' \in [Classes -> Seq(Tasks)]
    BY <2>1, <2>2, <2>4 DEF take_at
  <2>6. /\ taskState' \in [Tasks -> TaskStates \cup {"Absent"}]
        /\ attempts' \in [Tasks -> Nat] /\ active' \in Nat
    BY <2>1, <2>3 DEF take_at, TaskStates
  <2>7. pc' \in [Workers -> WorkerPC] /\ held' \in [Workers -> Tasks \cup {NoTask}]
    BY <2>1, <2>3 DEF take_at, WorkerPC, Holding
  <2> QED BY <2>1, <2>5, <2>6, <2>7 DEF take_at, monitorVars
<1>14. ASSUME NEW w \in Workers, Completion(w) PROVE TypeOK'
  <2>1. PICK s \in Final : complete_task(w, s)
    BY <1>14 DEF Completion
  <2>2. taskState' \in [Tasks -> TaskStates \cup {"Absent"}]
    BY <2>1, ZenonT(30) DEF complete_task, TaskStates
  <2>4. active' \in Nat
    BY <2>1 DEF complete_task, Decremented
  <2>3. pc' \in [Workers -> WorkerPC] /\ note' \in [Workers -> TaskStates \cup {"none"}]
    BY <2>1 DEF complete_task, Copied, WorkerPC, Reporting, TaskStates
  <2> QED BY <2>1, <2>2, <2>3, <2>4 DEF complete_task, NotifiedIdle, WokenWaiter, monitorVars
<1>15. ASSUME NEW w \in Workers, transfer_retries(w) PROVE TypeOK'
  <2>1. \/ set_service_state("Disconnected") /\ pc' = [Woken EXCEPT ![w] = "requeue"]
        \/ /\ UNCHANGED <<serviceState, taskState, queue, delayed, waiter>>
           /\ pc' = [pc EXCEPT ![w] = "requeue"]
    BY <1>15 DEF transfer_retries
  <2>2. UNCHANGED <<started, stopping, attempts, active, hasCallback, held, note,
                    monitorVars, ctl, unnotified, finals>>
    BY <1>15 DEF transfer_retries
  <2>3. pc' \in [Workers -> WorkerPC]
    BY <2>1, ZenonT(30) DEF Woken, WorkerPC, Holding
  <2> QED BY <2>1, <2>2, <2>3 DEF set_service_state, Purges, WokenWaiter, monitorVars, ServiceStates
<1>16. ASSUME NEW w \in Workers, requeue_task(w) PROVE TypeOK'
  <2>1. held[w] \in Tasks
    BY <1>16 DEF HeldOnce, Holders, Holding, requeue_task
  <2>2. PushedBack(held[w]) \in [Classes -> Seq(Tasks)]
    BY <2>1 DEF PushedBack, QueueOf, Classes
  <2> QED BY <1>16, <2>1, <2>2 DEF requeue_task, Copied, Decremented, NotifiedIdle,
        WokenWaiter, monitorVars, TaskStates, Waiting, Final, WorkerPC, Reporting
<1>17. ASSUME NEW w \in Workers, report(w) PROVE TypeOK'
  <2>1. finals' \in [Tasks -> Nat]
    <3>1. CASE held[w] \in Tasks
      BY <1>17, <3>1 DEF report
    <3>2. CASE held[w] \notin Tasks
      <4>1. [finals EXCEPT ![held[w]] = finals[held[w]] + 1] = finals
        BY <3>2
      <4> QED BY <4>1, <1>17, ZenonT(30) DEF report
    <3> QED BY <3>1, <3>2
  <2>2. pc' \in [Workers -> WorkerPC] /\ held' \in [Workers -> Tasks \cup {NoTask}]
    BY <1>17 DEF report, WorkerPC
  <2> QED BY <1>17, <2>1, <2>2 DEF report, taskVars, monitorVars
<1>18. ASSUME NEW w \in Workers, requeue_notify(w) PROVE TypeOK'
  BY <1>18 DEF requeue_notify, Woken, taskVars, monitorVars, WorkerPC
<1>19. ASSUME NEW c \in Classes, retry_delay_elapsed(c) PROVE TypeOK'
  BY <1>19, ZenonT(30) DEF retry_delay_elapsed, monitorVars, WorkerPC
<1>20. CASE monitor_check \/ monitor_wake
  BY <1>20 DEF monitor_check, monitor_wake, taskVars, workerVars
<1>21. ASSUME NEW ok \in BOOLEAN, health_check(ok) PROVE TypeOK'
  BY <1>21 DEF health_check, set_service_state, Purges, GivenUp, EmptyQueues, PendingCallbacks,
               Woken, WokenWaiter, TaskStates, Final, ServiceStates, WorkerPC
<1> QED
  BY <1>1, <1>2, <1>3, <1>4, <1>5, <1>6, <1>7, <1>8, <1>9, <1>10, <1>11, <1>12, <1>13, ZenonT(30),
     <1>14, <1>15, <1>16, <1>17, <1>18, <1>19, <1>20, <1>21, StepCases

(* A step that makes no report and promises none.                          *)
Silent ==
  /\ UNCHANGED <<finals, monitorNotes>>
  /\ \A w \in Workers : pc'[w] \in Reporting =>
       pc[w] \in Reporting /\ held'[w] = held[w] /\ note'[w] = note[w]

(* All but the ends, retries and reports of tasks are silent.              *)
LEMMA StepSilent ==
  ASSUME TypeOK, [Next]_vars
  PROVE  \/ Silent
         \/ \E w \in Workers : Completion(w) \/ requeue_task(w) \/ report(w)
         \/ \E t \in Tasks : monitor_report(t)
         \/ \E ok \in BOOLEAN : health_check(ok)
<1>a. \A w \in Workers : Woken[w] \in Reporting => Woken[w] = pc[w]
  BY DEF Woken, Reporting
<1>b. pc \in [Workers -> WorkerPC] /\ held \in [Workers -> Tasks \cup {NoTask}]
  BY DEF TypeOK
<1>c. ASSUME UNCHANGED <<finals, monitorNotes, note>>,
             \A w \in Workers : pc'[w] \in Reporting => pc'[w] = pc[w] /\ held'[w] = held[w]
      PROVE  Silent
  BY <1>c DEF Silent
<1>1. CASE UNCHANGED vars
  BY <1>c, <1>1 DEF vars, workerVars, monitorVars
<1>2. CASE \/ start \/ set_result_callback \/ stop_begin \/ stop_set_state
           \/ stop_join_monitor \/ stop_join_workers
           \/ wait_for_idle \/ wait_evaluate \/ wait_timeout \/ monitor_check \/ monitor_wake
  <2>1. UNCHANGED <<finals, monitorNotes, note, held>>
    BY <1>2 DEF start, set_result_callback, stop_begin, stop_set_state, stop_join_monitor,
         stop_join_workers, wait_for_idle, wait_evaluate, wait_timeout, monitor_check,
         monitor_wake, workerVars, monitorVars
  <2>2. pc' = pc \/ pc' = Woken \/ \A w \in Workers : pc'[w] \notin Reporting
    BY <1>2 DEF start, set_result_callback, stop_begin, stop_set_state, stop_join_monitor,
         stop_join_workers, wait_for_idle, wait_evaluate, wait_timeout, monitor_check,
         monitor_wake, workerVars, Reporting
  <2> QED BY <2>1, <2>2, <1>a, <1>c
<1>3. ASSUME NEW t \in Tasks, enqueue(t) \/ enqueue_notify(t)
      PROVE  Silent
  <2>1. UNCHANGED <<finals, monitorNotes, note, held>> /\ (pc' = pc \/ pc' = Woken)
    BY <1>3 DEF enqueue, enqueue_notify, workerVars, monitorVars
  <2> QED BY <2>1, <1>a, <1>c
<1>4. ASSUME NEW w \in Workers,
             \/ take_exit(w) \/ take_wait_service(w) \/ take_wait_item(w)
             \/ take_wait_retry(w) \/ spurious_wakeup(w)
      PROVE  Silent
  <2>1. PICK where \in WorkerPC \ Reporting : MoveTo(w, where)
    BY <1>4 DEF take_exit, take_wait_service, take_wait_item, take_wait_retry,
                spurious_wakeup, WorkerPC, Asleep, Reporting
  <2> QED BY <2>1, <1>b, <1>c DEF MoveTo, monitorVars
<1>5. ASSUME NEW w \in Workers, take_item(w) PROVE Silent
  <2>1. PICK t : /\ pc' = [pc EXCEPT ![w] = "transfer"] /\ held' = [held EXCEPT ![w] = t]
                 /\ UNCHANGED <<finals, monitorNotes, note>>
    BY <1>5, Zenon DEF take_item, take_at, monitorVars
  <2> QED BY <2>1, <1>b, <1>c DEF Reporting
<1>6. ASSUME NEW w \in Workers, transfer_retries(w) \/ requeue_notify(w) PROVE Silent
  <2>1. PICK where \in WorkerPC \ Reporting : \/ pc' = [Woken EXCEPT ![w] = where]
                                              \/ pc' = [pc EXCEPT ![w] = where]
    BY <1>6 DEF transfer_retries, requeue_notify, WorkerPC, Holding, Reporting
  <2>2. UNCHANGED <<finals, monitorNotes, note, held>>
    BY <1>6 DEF transfer_retries, requeue_notify, monitorVars
  <2>3. DOMAIN Woken = Workers /\ DOMAIN pc = Workers
    BY <1>b DEF Woken
  <2> QED BY <2>1, <2>2, <2>3, <1>a, <1>c
<1>7. ASSUME NEW c \in Classes, retry_delay_elapsed(c) PROVE Silent
  <2>1. UNCHANGED <<finals, monitorNotes, note, held>>
    BY <1>7 DEF retry_delay_elapsed, monitorVars
  <2>2. \A w \in Workers : pc'[w] \in Reporting => pc'[w] = pc[w]
    BY <1>7 DEF retry_delay_elapsed, Reporting
  <2> QED BY <2>1, <2>2, <1>c
<1> QED BY <1>1, <1>2, <1>3, <1>4, <1>5, <1>6, <1>7, StepCases

-----------------------------------------------------------------------------
(* Where the tasks are.                                                    *)

(* Most steps touch neither queues nor states, and leave every worker that *)
(* has a task with that task.                                              *)
TasksUntouched ==
  /\ UNCHANGED <<queue, taskState>>
  /\ \A w \in Workers : pc'[w] \in Holding <=> pc[w] \in Holding
  /\ \A w \in Workers : pc[w] \in Holding => held'[w] = held[w]

(* A step that moves no task keeps every task in its place.                *)
LEMMA UntouchedKeepsPlaces ==
  ASSUME TypeOK, TaskInOnePlace, TasksUntouched
  PROVE  TaskInOnePlace' /\ Holders' = Holders
<1>1. Holders' = Holders
  BY DEF TasksUntouched, Holders
<1>2. QueuedOnce'
  BY DEF TaskInOnePlace, QueuedOnce, TasksUntouched
<1>3. \A w \in Holders : held'[w] = held[w]
  BY DEF TasksUntouched, Holders
<1>4. HeldOnce'
  BY <1>1, <1>3 DEF TaskInOnePlace, HeldOnce, TasksUntouched
<1> QED BY <1>1, <1>2, <1>4 DEF TaskInOnePlace

(* Emptying both queues and giving up every queued task, as stop and the   *)
(* step into Error do.                                                     *)
LEMMA GivingUpKeepsPlaces ==
  ASSUME TypeOK, TaskInOnePlace, NEW s \in Final,
         queue' = EmptyQueues, taskState' = GivenUp(s), held' = held,
         \A w \in Workers : pc'[w] \in Holding <=> pc[w] \in Holding
  PROVE  TaskInOnePlace' /\ Holders' = Holders
<1>1. Holders' = Holders
  BY DEF Holders
<1>2. \A c \in Classes : queue'[c] = <<>> /\ Range(queue'[c]) = {}
  BY DEF EmptyQueues, Range
<1>3. \A t \in Tasks : taskState'[t] = IF taskState[t] \in Waiting THEN s ELSE taskState[t]
  BY DEF GivenUp
<1>4. \A t \in Tasks : taskState'[t] \notin Waiting
  BY <1>3 DEF Final, Waiting
<1>5. QueuedOnce'
  <2>1. \A c \in Classes : IsInjective(queue'[c])
    BY <1>2 DEF IsInjective
  <2>2. \A t \in Tasks : QueueOf(t) \in Classes
    BY DEF QueueOf, Classes
  <2> QED BY <1>2, <1>4, <2>1, <2>2, ZenonT(30) DEF QueuedOnce
<1>6. HeldOnce'
  BY <1>1, <1>3 DEF TaskInOnePlace, HeldOnce, Final, Waiting
<1> QED BY <1>1, <1>5, <1>6 DEF TaskInOnePlace

(* A step that gives up the queued tasks.                                  *)
GivesUp ==
  /\ \E s \in Final \ {"Completed"} : taskState' = GivenUp(s)
  /\ queue' = EmptyQueues /\ held' = held /\ active' = active
  /\ \A w \in Workers : pc'[w] \in Holding <=> pc[w] \in Holding

(* What a step may do to the tasks: nothing, or one of five things.        *)
Effect ==
  \/ TasksUntouched /\ active' = active
  \/ GivesUp
  \/ \E t \in Tasks : enqueue(t)
  \/ \E w \in Workers : take_item(w) \/ Completion(w) \/ requeue_task(w)

(* Every step of the manager has one of the six effects.                   *)
LEMMA StepEffect ==
  ASSUME TypeOK, Lifecycle, [Next]_vars
  PROVE  Effect
<1> USE DEF TypeOK
<1>a. \A w \in Workers : Woken[w] \in Holding <=> pc[w] \in Holding
  BY DEF Woken, Asleep, Holding
<1>1. CASE UNCHANGED vars
  BY <1>1 DEF vars, taskVars, workerVars, Effect, TasksUntouched
<1>2. CASE start
  <2>1. \A w \in Workers : pc[w] \notin Holding /\ pc'[w] \notin Holding
    BY <1>2 DEF start, Lifecycle, Holding
  <2> QED BY <1>2, <2>1 DEF start, taskVars, Effect, TasksUntouched
<1>3. CASE \/ set_result_callback \/ stop_join_monitor
           \/ wait_for_idle \/ wait_evaluate \/ wait_timeout
           \/ monitor_check \/ monitor_wake
  BY <1>3 DEF set_result_callback, stop_join_monitor, wait_for_idle, wait_evaluate,
     wait_timeout, monitor_check, monitor_wake, taskVars, workerVars, Effect, TasksUntouched
<1>4. CASE stop_begin
  <2>1. GivesUp
    BY <1>4 DEF stop_begin, workerVars, GivesUp, Final
  <2> QED BY <2>1 DEF Effect
<1>5. CASE stop_set_state
  BY <1>5, <1>a DEF stop_set_state, set_service_state, Purges, Effect, TasksUntouched
<1>6. CASE stop_join_workers
  <2>1. \A w \in Workers : pc[w] \notin Holding /\ pc'[w] \notin Holding
    BY <1>6 DEF stop_join_workers, Holding
  <2> QED BY <1>6, <2>1 DEF stop_join_workers, taskVars, Effect, TasksUntouched
<1>7. ASSUME NEW t \in Tasks, enqueue(t) \/ enqueue_notify(t) \/ monitor_report(t)
      PROVE  Effect
  <2>1. CASE enqueue(t)
    BY <2>1 DEF Effect
  <2>2. CASE enqueue_notify(t)
    BY <2>2, <1>a DEF enqueue_notify, taskVars, Effect, TasksUntouched
  <2>3. CASE monitor_report(t)
    BY <2>3 DEF monitor_report, taskVars, workerVars, Effect, TasksUntouched
  <2> QED BY <1>7, <2>1, <2>2, <2>3
<1>8. ASSUME NEW w \in Workers,
             \/ take_exit(w) \/ take_wait_service(w) \/ take_wait_item(w)
             \/ take_wait_retry(w) \/ spurious_wakeup(w)
      PROVE  Effect
  <2>1. PICK where \in WorkerPC \ Holding : MoveTo(w, where) /\ pc[w] \notin Holding
    BY <1>8, ZenonT(30) DEF take_exit, take_wait_service, take_wait_item, take_wait_retry,
                spurious_wakeup, CanTake, WorkerPC, Asleep, Holding
  <2> QED BY <2>1 DEF MoveTo, taskVars, Effect, TasksUntouched
<1>9. ASSUME NEW w \in Workers, transfer_retries(w) PROVE Effect
  <2>1. \/ set_service_state("Disconnected") /\ pc' = [Woken EXCEPT ![w] = "requeue"]
        \/ /\ UNCHANGED <<taskState, queue>>
           /\ pc' = [pc EXCEPT ![w] = "requeue"]
    BY <1>9 DEF transfer_retries
  <2>2. pc[w] = "transfer" /\ held' = held /\ active' = active
    BY <1>9 DEF transfer_retries
  <2>3. \A v \in Workers : pc'[v] \in Holding <=> pc[v] \in Holding
    BY <2>1, <2>2, <1>a, ZenonT(30) DEF Holding, Woken
  <2> QED BY <2>1, <2>2, <2>3 DEF set_service_state, Purges, Effect, TasksUntouched
<1>10. ASSUME NEW w \in Workers, report(w) \/ requeue_notify(w) PROVE Effect
  <2>1. CASE report(w)
    BY <2>1 DEF report, Reporting, Holding, taskVars, Effect, TasksUntouched
  <2>2. CASE requeue_notify(w)
    <3>1. \A v \in Workers : pc'[v] \in Holding <=> pc[v] \in Holding
      BY <2>2, <1>a DEF requeue_notify, Holding, Woken
    <3> QED BY <2>2, <3>1 DEF requeue_notify, taskVars, Effect, TasksUntouched
  <2> QED BY <1>10, <2>1, <2>2
<1>11. ASSUME NEW w \in Workers, take_item(w) \/ Completion(w) \/ requeue_task(w)
       PROVE  Effect
  BY <1>11 DEF Effect
<1>12. ASSUME NEW c \in Classes, retry_delay_elapsed(c) PROVE Effect
  <2>1. \A v \in Workers : pc'[v] \in Holding <=> pc[v] \in Holding
    BY <1>12 DEF retry_delay_elapsed, Holding
  <2> QED BY <1>12, <2>1 DEF retry_delay_elapsed, Effect, TasksUntouched
<1>13. ASSUME NEW ok \in BOOLEAN, health_check(ok) PROVE Effect
  <2>1. /\ \E s \in ServiceStates : set_service_state(s)
        /\ pc' = Woken /\ held' = held /\ active' = active
    BY <1>13 DEF health_check, ServiceStates
  <2>2. \/ taskState' = GivenUp("Failed") /\ queue' = EmptyQueues
        \/ UNCHANGED <<queue, taskState>>
    BY <2>1 DEF set_service_state
  <2> QED BY <2>1, <2>2, <1>a DEF Effect, TasksUntouched, GivesUp, Final
<1> QED BY <1>1, <1>2, <1>3, <1>4, <1>5, <1>6, <1>7, <1>8, <1>9, <1>10, <1>11, <1>12,
           <1>13, StepCases, Zenon

(* The pools are finite, and so is every set of workers.                   *)
LEMMA HoldersFinite == IsFiniteSet(Holders)
<1>1. IsFiniteSet(Workers)
  BY ConfigAssumption, FS_Union, ZenonT(30) DEF Workers
<1> QED BY <1>1, FS_Subset DEF Holders

(* enqueue appends an id that was in no queue and in no worker's hands.    *)
LEMMA EnqueueKeepsPlaces ==
  ASSUME TypeOK, TaskInOnePlace, NEW t \in Tasks, enqueue(t)
  PROVE  TaskInOnePlace' /\ Holders' = Holders
<1> DEFINE c == QueueOf(t)
<1>1. c \in Classes /\ queue[c] \in Seq(Tasks) /\ IsInjective(queue[c])
  BY DEF QueueOf, Classes, TaskInOnePlace, QueuedOnce, TypeOK
<1>2. t \notin Range(queue[c])
  BY DEF enqueue, TaskInOnePlace, QueuedOnce, Waiting
<1>3. IsInjective(Append(queue[c], t)) /\ Range(Append(queue[c], t)) = Range(queue[c]) \cup {t}
  BY <1>1, <1>2, AppendRange
<1>4. /\ queue'[c] = Append(queue[c], t)
      /\ \A d \in Classes \ {c} : queue'[d] = queue[d]
      /\ taskState'[t] = "Pending"
      /\ \A u \in Tasks \ {t} : taskState'[u] = taskState[u]
      /\ taskState[t] = "Absent" /\ pc' = pc /\ held' = held
  BY <1>1 DEF enqueue, workerVars, TypeOK
<1> HIDE DEF c
<1>5. Holders' = Holders
  BY <1>4 DEF Holders
<1>6. QueuedOnce'
  <2>1. \A d \in Classes : IsInjective(queue'[d])
    BY <1>3, <1>4, ZenonT(30) DEF TaskInOnePlace, QueuedOnce
  <2>2. \A d \in Classes : \A u \in Range(queue'[d]) : QueueOf(u) = d
    BY <1>3, <1>4, ZenonT(30) DEF TaskInOnePlace, QueuedOnce, c
  <2>3. ASSUME NEW u \in Tasks
        PROVE  taskState'[u] \in Waiting <=> u \in Range(queue'[QueueOf(u)])
    <3>1. CASE u = t
      BY <3>1, <1>3, <1>4 DEF Waiting, c
    <3>2. CASE u # t
      <4>1. QueueOf(u) \in Classes
        BY DEF QueueOf, Classes
      <4>2. u \in Range(queue'[QueueOf(u)]) <=> u \in Range(queue[QueueOf(u)])
        <5>1. CASE QueueOf(u) = c
          BY <5>1, <3>2, <1>3, <1>4
        <5>2. CASE QueueOf(u) # c
          BY <5>2, <4>1, <1>4
        <5> QED BY <5>1, <5>2
      <4>3. taskState'[u] = taskState[u]
        BY <3>2, <1>4
      <4> QED BY <4>2, <4>3 DEF TaskInOnePlace, QueuedOnce
    <3> QED BY <3>1, <3>2
  <2> QED BY <2>1, <2>2, <2>3 DEF QueuedOnce
<1>7. HeldOnce'
  BY <1>4, <1>5 DEF TaskInOnePlace, HeldOnce
<1> QED BY <1>5, <1>6, <1>7 DEF TaskInOnePlace

(* take_task moves an id from the queue of the worker's class into its     *)
(* hands.                                                                  *)
LEMMA TakeKeepsPlaces ==
  ASSUME TypeOK, TaskInOnePlace, NEW w \in Workers, take_item(w)
  PROVE  TaskInOnePlace' /\ w \notin Holders /\ Holders' = Holders \cup {w}
<1> DEFINE c == ClassOf(w)
<1>1. PICK i \in DOMAIN queue[c] : take_at(w, i)
  BY Zenon DEF take_item
<1> DEFINE t == queue[c][i]
<1>2. /\ c \in Classes /\ queue[c] \in Seq(Tasks) /\ IsInjective(queue[c])
      /\ i \in 1 .. Len(queue[c]) /\ t \in Tasks /\ t \in Range(queue[c])
  BY DEF ClassOf, Classes, TaskInOnePlace, QueuedOnce, Range, TypeOK
<1>3. QueueOf(t) = c /\ taskState[t] \in Waiting
  BY <1>2 DEF TaskInOnePlace, QueuedOnce
<1>4. /\ IsInjective(Erased(queue[c], i))
      /\ Range(Erased(queue[c], i)) = Range(queue[c]) \ {t}
  BY <1>2, ErasedRange
<1>5. /\ queue'[c] = Erased(queue[c], i)
      /\ \A d \in Classes \ {c} : queue'[d] = queue[d]
      /\ taskState'[t] = "InProgress"
      /\ \A u \in Tasks \ {t} : taskState'[u] = taskState[u]
  BY <1>1, <1>2 DEF take_at, TypeOK
<1>6. /\ pc[w] = "take" /\ pc'[w] = "transfer" /\ held'[w] = t
      /\ \A v \in Workers \ {w} : pc'[v] = pc[v] /\ held'[v] = held[v]
  BY <1>1, Zenon DEF take_at, CanTake, TypeOK
<1> HIDE DEF c, t
<1>7. w \notin Holders /\ Holders' = Holders \cup {w}
  BY <1>6 DEF Holders, Holding
<1>8. QueuedOnce'
  <2>1. \A d \in Classes : IsInjective(queue'[d])
    BY <1>4, <1>5 DEF TaskInOnePlace, QueuedOnce
  <2>2. \A d \in Classes : \A u \in Range(queue'[d]) : QueueOf(u) = d
    BY <1>4, <1>5 DEF TaskInOnePlace, QueuedOnce
  <2>3. ASSUME NEW u \in Tasks
        PROVE  taskState'[u] \in Waiting <=> u \in Range(queue'[QueueOf(u)])
    <3>1. CASE u = t
      BY <3>1, <1>3, <1>4, <1>5 DEF Waiting
    <3>2. CASE u # t
      <4>1. QueueOf(u) \in Classes
        BY DEF QueueOf, Classes
      <4>2. u \in Range(queue'[QueueOf(u)]) <=> u \in Range(queue[QueueOf(u)])
        <5>1. CASE QueueOf(u) = c
          BY <5>1, <3>2, <1>4, <1>5
        <5>2. CASE QueueOf(u) # c
          BY <5>2, <4>1, <1>5
        <5> QED BY <5>1, <5>2
      <4>3. taskState'[u] = taskState[u]
        BY <3>2, <1>5
      <4> QED BY <4>2, <4>3 DEF TaskInOnePlace, QueuedOnce
    <3> QED BY <3>1, <3>2
  <2> QED BY <2>1, <2>2, <2>3 DEF QueuedOnce
<1>9. HeldOnce'
  <2>1. \A v \in Holders : held'[v] = held[v] /\ held[v] # t
    BY <1>3, <1>6, <1>7, Zenon DEF TaskInOnePlace, HeldOnce, Waiting, Holders
  <2>2. \A v \in Holders' : /\ held'[v] \in Tasks
                            /\ taskState'[held'[v]] = "InProgress"
                            /\ QueueOf(held'[v]) = ClassOf(v)
    BY <1>2, <1>3, <1>5, <1>6, <1>7, <2>1, SMTT(30) DEF TaskInOnePlace, HeldOnce, c
  <2>3. \A u, v \in Holders' : held'[u] = held'[v] => u = v
    BY <1>6, <1>7, <2>1 DEF TaskInOnePlace, HeldOnce
  <2>4. ASSUME NEW u \in Tasks, taskState'[u] = "InProgress"
        PROVE  \E v \in Holders' : held'[v] = u
    BY <2>4, <1>5, <1>6, <1>7, <2>1 DEF TaskInOnePlace, HeldOnce
  <2> QED BY <2>2, <2>3, <2>4 DEF HeldOnce
<1> QED BY <1>7, <1>8, <1>9 DEF TaskInOnePlace

(* A worker that ends its task with a final state, and touches no queue,   *)
(* has it in its hands no longer.                                          *)
LEMMA EndingKeepsPlaces ==
  ASSUME TypeOK, TaskInOnePlace, NEW w \in Workers, NEW s \in Final,
         pc[w] \in Holding, NEW where \in WorkerPC \ Holding,
         pc' = [pc EXCEPT ![w] = where], held' = held, queue' = queue,
         taskState' = [taskState EXCEPT ![held[w]] = s]
  PROVE  TaskInOnePlace' /\ w \in Holders /\ Holders' = Holders \ {w}
<1> DEFINE t == held[w]
<1>1. w \in Holders /\ t \in Tasks /\ taskState[t] = "InProgress"
  BY DEF TaskInOnePlace, HeldOnce, Holders
<1>2. taskState'[t] = s /\ \A u \in Tasks \ {t} : taskState'[u] = taskState[u]
  BY <1>1 DEF TypeOK
<1>3. Holders' = Holders \ {w}
  BY DEF Holders, TypeOK
<1> HIDE DEF t
<1>4. QueuedOnce'
  <2>1. \A u \in Tasks : taskState'[u] \in Waiting <=> taskState[u] \in Waiting
    BY <1>1, <1>2 DEF Final, Waiting
  <2> QED BY <2>1 DEF TaskInOnePlace, QueuedOnce
<1>5. HeldOnce'
  <2>1. \A v \in Holders' : held[v] # t /\ taskState'[held[v]] = taskState[held[v]]
    BY <1>1, <1>2, <1>3 DEF TaskInOnePlace, HeldOnce, t
  <2>2. ASSUME NEW u \in Tasks, taskState'[u] = "InProgress"
        PROVE  \E v \in Holders' : held'[v] = u
    <3>1. u # t /\ taskState[u] = "InProgress"
      BY <2>2, <1>2, Zenon DEF Final
    <3>2. PICK v \in Holders : held[v] = u
      BY <3>1 DEF TaskInOnePlace, HeldOnce
    <3> QED BY <3>1, <3>2, <1>3 DEF t
  <2> QED BY <2>1, <2>2, <1>3 DEF TaskInOnePlace, HeldOnce
<1> QED BY <1>1, <1>3, <1>4, <1>5 DEF TaskInOnePlace

(* complete_task keeps every other task in its place.                      *)
LEMMA CompletionKeepsPlaces ==
  ASSUME TypeOK, TaskInOnePlace, NEW w \in Workers, Completion(w)
  PROVE  TaskInOnePlace' /\ w \in Holders /\ Holders' = Holders \ {w}
<1>1. PICK s \in Final : complete_task(w, s)
  BY DEF Completion
<1>2. pc[w] \in Holding /\ "reportDone" \in WorkerPC \ Holding
  BY DEF Completion, WorkerPC, Reporting, Holding
<1> QED BY <1>1, <1>2, EndingKeepsPlaces, ZenonT(30) DEF complete_task

(* requeue_task either ends the task or puts its id back into the queue it *)
(* came from.                                                              *)
LEMMA RequeueKeepsPlaces ==
  ASSUME TypeOK, TaskInOnePlace, NEW w \in Workers, requeue_task(w)
  PROVE  TaskInOnePlace' /\ w \in Holders /\ Holders' = Holders \ {w}
<1> DEFINE t == held[w]
           c == QueueOf(t)
<1>1. /\ pc[w] \in Holding /\ "reportRetry" \in WorkerPC \ Holding
      /\ pc' = [pc EXCEPT ![w] = "reportRetry"] /\ held' = held
  BY Zenon DEF requeue_task, WorkerPC, Reporting, Holding
<1>2. CASE Dropped
  <2>1. PICK s \in Final : taskState' = [taskState EXCEPT ![held[w]] = s]
    BY <1>2, ZenonT(30) DEF requeue_task, Final
  <2>2. queue' = queue
    BY <1>2 DEF requeue_task
  <2> QED BY <1>1, <2>1, <2>2, EndingKeepsPlaces, ZenonT(30)
<1>3. CASE ~Dropped
  <2>1. w \in Holders /\ t \in Tasks /\ taskState[t] = "InProgress"
    BY <1>1 DEF TaskInOnePlace, HeldOnce, Holders
  <2>2. c \in Classes /\ queue[c] \in Seq(Tasks) /\ IsInjective(queue[c])
    BY Zenon DEF QueueOf, Classes, TaskInOnePlace, QueuedOnce, TypeOK
  <2>3. t \notin Range(queue[c])
    BY <2>1 DEF TaskInOnePlace, QueuedOnce, Waiting
  <2>4. /\ IsInjective(Append(queue[c], t))
        /\ Range(Append(queue[c], t)) = Range(queue[c]) \cup {t}
    BY <2>1, <2>2, <2>3, AppendRange, SMTT(30)
  <2>5. /\ queue'[c] = Append(queue[c], t)
        /\ \A d \in Classes \ {c} : queue'[d] = queue[d]
    BY <1>3, <2>2, Zenon DEF requeue_task, PushedBack, TypeOK
  <2>6. taskState'[t] = "Retry" /\ \A u \in Tasks \ {t} : taskState'[u] = taskState[u]
    BY <1>3, <2>1 DEF requeue_task, TypeOK
  <2>7. Holders' = Holders \ {w}
    BY <1>1 DEF Holders, TypeOK
  <2> HIDE DEF c, t
  <2>8. QueuedOnce'
    <3>1. \A d \in Classes : IsInjective(queue'[d])
      BY <2>4, <2>5, ZenonT(30) DEF TaskInOnePlace, QueuedOnce
    <3>2. \A d \in Classes : \A u \in Range(queue'[d]) : QueueOf(u) = d
      BY <2>4, <2>5, ZenonT(30) DEF TaskInOnePlace, QueuedOnce, c
    <3>3. ASSUME NEW u \in Tasks
          PROVE  taskState'[u] \in Waiting <=> u \in Range(queue'[QueueOf(u)])
      <4>1. CASE u = t
        BY <4>1, <2>4, <2>5, <2>6 DEF Waiting, c
      <4>2. CASE u # t
        <5>1. QueueOf(u) \in Classes
          BY DEF QueueOf, Classes
        <5>2. u \in Range(queue'[QueueOf(u)]) <=> u \in Range(queue[QueueOf(u)])
          <6>1. CASE QueueOf(u) = c
            BY <6>1, <4>2, <2>4, <2>5, Zenon
          <6>2. CASE QueueOf(u) # c
            BY <6>2, <5>1, <2>5
          <6> QED BY <6>1, <6>2, Zenon
        <5>3. taskState'[u] = taskState[u]
          BY <4>2, <2>6, Zenon
        <5> QED BY <5>2, <5>3 DEF TaskInOnePlace, QueuedOnce
      <4> QED BY <4>1, <4>2
    <3> QED BY <3>1, <3>2, <3>3 DEF QueuedOnce
  <2>9. HeldOnce'
    <3>1. \A v \in Holders' : held[v] # t /\ taskState'[held[v]] = taskState[held[v]]
      BY <2>1, <2>6, <2>7 DEF TaskInOnePlace, HeldOnce, t
    <3>2. ASSUME NEW u \in Tasks, taskState'[u] = "InProgress"
          PROVE  \E v \in Holders' : held'[v] = u
      <4>1. u # t /\ taskState[u] = "InProgress"
        BY <3>2, <2>6
      <4>2. PICK v \in Holders : held[v] = u
        BY <4>1 DEF TaskInOnePlace, HeldOnce
      <4> QED BY <4>1, <4>2, <1>1, <2>7 DEF t
    <3> QED BY <3>1, <3>2, <1>1, <2>7, Zenon DEF TaskInOnePlace, HeldOnce
  <2> QED BY <2>1, <2>7, <2>8, <2>9 DEF TaskInOnePlace
<1> QED BY <1>2, <1>3, ZenonT(30)

(* Every step keeps each task in one place, and active_tasks_ in line with *)
(* the workers that have one.                                              *)
LEMMA PlaceStep ==
  ASSUME TypeOK, TaskInOnePlace, ActiveIsExact, Lifecycle, [Next]_vars
  PROVE  TaskInOnePlace' /\ ActiveIsExact'
<1>1. Effect
  BY StepEffect
<1>2. IsFiniteSet(Holders) /\ active = Cardinality(Holders) /\ active \in Nat
  BY HoldersFinite DEF ActiveIsExact, TypeOK
<1>3. CASE TasksUntouched /\ active' = active
  BY <1>2, <1>3, UntouchedKeepsPlaces DEF ActiveIsExact
<1>4. CASE GivesUp
  <2>1. PICK s \in Final : taskState' = GivenUp(s)
    BY <1>4 DEF GivesUp
  <2>2. TaskInOnePlace' /\ Holders' = Holders
    BY <1>4, <2>1, GivingUpKeepsPlaces DEF GivesUp
  <2> QED BY <1>2, <1>4, <2>2 DEF ActiveIsExact, GivesUp
<1>5. ASSUME NEW t \in Tasks, enqueue(t) PROVE TaskInOnePlace' /\ ActiveIsExact'
  <2>1. TaskInOnePlace' /\ Holders' = Holders
    BY <1>5, EnqueueKeepsPlaces
  <2> QED BY <1>2, <1>5, <2>1 DEF ActiveIsExact, enqueue
<1>6. ASSUME NEW w \in Workers, take_item(w) PROVE TaskInOnePlace' /\ ActiveIsExact'
  <2>1. TaskInOnePlace' /\ w \notin Holders /\ Holders' = Holders \cup {w}
    BY <1>6, TakeKeepsPlaces
  <2>2. active' = active + 1
    BY <1>6 DEF take_item, take_at
  <2>3. Cardinality(Holders \cup {w}) = Cardinality(Holders) + 1
    BY <1>2, <2>1, FS_AddElement
  <2> QED BY <1>2, <2>1, <2>2, <2>3 DEF ActiveIsExact
<1>7. ASSUME NEW w \in Workers, Completion(w) \/ requeue_task(w)
      PROVE  TaskInOnePlace' /\ ActiveIsExact'
  <2>1. TaskInOnePlace' /\ w \in Holders /\ Holders' = Holders \ {w}
    BY <1>7, CompletionKeepsPlaces, RequeueKeepsPlaces, Zenon
  <2>2. active' = Decremented
    BY <1>7 DEF Completion, complete_task, requeue_task
  <2>3. Cardinality(Holders \ {w}) = Cardinality(Holders) - 1
    BY <1>2, <2>1, FS_RemoveElement
  <2>4. Cardinality(Holders \ {w}) \in Nat
    <3>1. IsFiniteSet(Holders \ {w})
      BY <1>2, FS_RemoveElement
    <3> QED BY <3>1, FS_CardinalityType
  <2> QED BY <1>2, <2>1, <2>2, <2>3, <2>4, SMTT(30) DEF ActiveIsExact, Decremented
<1> QED BY <1>1, <1>3, <1>4, <1>5, <1>6, <1>7 DEF Effect

-----------------------------------------------------------------------------
(* How often a task is tried.                                              *)

(* Only take_task counts a try, and only process_task's test of attempts   *)
(* leads to requeue_task.                                                  *)
TriesKept ==
  /\ attempts' = attempts
  /\ \A w \in Workers : pc'[w] = "requeue" =>
       held'[w] = held[w] /\ (pc[w] = "requeue" \/ attempts[held[w]] <= MaxRetries)

(* How a step changes the attempts and states of tasks.                    *)
LEMMA StepTries ==
  ASSUME TypeOK, [Next]_vars
  PROVE  TriesKept \/ \E w \in Workers : take_item(w)
<1>a. \A w \in Workers : Woken[w] = "requeue" => pc[w] = "requeue"
  BY DEF Woken
<1>b. pc \in [Workers -> WorkerPC] /\ held \in [Workers -> Tasks \cup {NoTask}]
  BY DEF TypeOK
<1>1. CASE UNCHANGED vars
  BY <1>1 DEF vars, taskVars, workerVars, TriesKept
<1>2. CASE \/ start \/ set_result_callback \/ stop_begin \/ stop_set_state
           \/ stop_join_monitor \/ stop_join_workers
           \/ wait_for_idle \/ wait_evaluate \/ wait_timeout \/ monitor_check \/ monitor_wake
  <2>1. attempts' = attempts /\ held' = held
    BY <1>2, Zenon DEF start, set_result_callback, stop_begin, stop_set_state, stop_join_monitor,
         stop_join_workers, wait_for_idle, wait_evaluate, wait_timeout, monitor_check,
         monitor_wake, taskVars, workerVars
  <2>2. pc' = pc \/ pc' = Woken \/ \A w \in Workers : pc'[w] # "requeue"
    BY <1>2, Zenon DEF start, set_result_callback, stop_begin, stop_set_state, stop_join_monitor,
         stop_join_workers, wait_for_idle, wait_evaluate, wait_timeout, monitor_check,
         monitor_wake, workerVars
  <2> QED BY <2>1, <2>2, <1>a, Zenon DEF TriesKept
<1>3. ASSUME NEW t \in Tasks, enqueue(t) \/ enqueue_notify(t) \/ monitor_report(t)
      PROVE  TriesKept
  <2>1. attempts' = attempts /\ held' = held /\ (pc' = pc \/ pc' = Woken)
    BY <1>3 DEF enqueue, enqueue_notify, monitor_report, taskVars, workerVars
  <2> QED BY <2>1, <1>a DEF TriesKept
<1>4. ASSUME NEW w \in Workers,
             \/ take_exit(w) \/ take_wait_service(w) \/ take_wait_item(w)
             \/ take_wait_retry(w) \/ spurious_wakeup(w)
      PROVE  TriesKept
  <2>1. PICK where \in WorkerPC \ Holding : MoveTo(w, where)
    BY <1>4 DEF take_exit, take_wait_service, take_wait_item, take_wait_retry,
                spurious_wakeup, WorkerPC, Asleep, Holding
  <2> QED BY <2>1, <1>b, Zenon DEF MoveTo, taskVars, TriesKept, Holding
<1>5. ASSUME NEW w \in Workers, Completion(w) PROVE TriesKept
  <2>1. PICK s \in Final : complete_task(w, s)
    BY <1>5 DEF Completion
  <2> QED BY <2>1, <1>b DEF complete_task, TriesKept
<1>6. ASSUME NEW w \in Workers, transfer_retries(w) PROVE TriesKept
  <2>1. PICK r \in FailedTransfers : Retries(w, r)
    BY <1>6 DEF transfer_retries
  <2>2. attempts[held[w]] <= MaxRetries
    BY <2>1 DEF Retries
  <2>3. pc' = [Woken EXCEPT ![w] = "requeue"] \/ pc' = [pc EXCEPT ![w] = "requeue"]
    BY <1>6 DEF transfer_retries
  <2>4. attempts' = attempts /\ held' = held
    BY <1>6 DEF transfer_retries
  <2>5. ASSUME NEW v \in Workers, v # w, pc'[v] = "requeue" PROVE pc[v] = "requeue"
    <3>1. pc'[v] = Woken[v] \/ pc'[v] = pc[v]
      <4>1. DOMAIN Woken = Workers /\ DOMAIN pc = Workers
        BY <1>b DEF Woken
      <4> QED BY <4>1, <2>3, <2>5
    <3> QED BY <3>1, <2>5, <1>a
  <2> QED BY <2>2, <2>4, <2>5 DEF TriesKept
<1>7. ASSUME NEW w \in Workers, requeue_task(w) PROVE TriesKept
  BY <1>7, <1>b DEF requeue_task, TriesKept
<1>8. ASSUME NEW w \in Workers, report(w) PROVE TriesKept
  BY <1>8, <1>b DEF report, taskVars, TriesKept
<1>9. ASSUME NEW w \in Workers, requeue_notify(w) PROVE TriesKept
  BY <1>9, <1>a, <1>b DEF requeue_notify, taskVars, TriesKept, Woken
<1>10. ASSUME NEW c \in Classes, retry_delay_elapsed(c) PROVE TriesKept
  <2>1. attempts' = attempts /\ held' = held
    BY <1>10 DEF retry_delay_elapsed
  <2>2. \A w \in Workers : pc'[w] = "requeue" => pc[w] = "requeue"
    BY <1>10 DEF retry_delay_elapsed
  <2> QED BY <2>1, <2>2, ZenonT(30) DEF TriesKept
<1>11. ASSUME NEW ok \in BOOLEAN, health_check(ok) PROVE TriesKept
  BY <1>11, <1>a DEF health_check, TriesKept
<1> QED BY <1>1, <1>2, <1>3, <1>4, <1>5, <1>6, <1>7, <1>8, <1>9, <1>10, <1>11, StepCases

(* Every step keeps Tries.                                                 *)
LEMMA TriesStep ==
  ASSUME TypeOK, TaskInOnePlace, Lifecycle, Tries, [Next]_vars
  PROVE  Tries'
<1> USE ConfigAssumption
<1>1. /\ attempts \in [Tasks -> Nat] /\ held \in [Workers -> Tasks \cup {NoTask}]
      /\ pc \in [Workers -> WorkerPC] /\ taskState \in [Tasks -> TaskStates \cup {"Absent"}]
  BY DEF TypeOK
<1>2. ASSUME NEW w \in Workers, take_item(w) PROVE Tries'
  <2>1. PICK i \in DOMAIN queue[ClassOf(w)] : take_at(w, i)
    BY <1>2, Zenon DEF take_item
  <2> DEFINE t == queue[ClassOf(w)][i]
  <2>2. t \in Tasks /\ taskState[t] \in Waiting
    <3>1. ClassOf(w) \in Classes /\ queue[ClassOf(w)] \in Seq(Tasks)
      BY DEF ClassOf, Classes, TypeOK
    <3>2. t \in Tasks
      BY <3>1
    <3>3. t \in Range(queue[ClassOf(w)])
      BY Zenon DEF Range
    <3> QED BY <3>1, <3>2, <3>3 DEF TaskInOnePlace, QueuedOnce
  <2>3. /\ attempts'[t] = attempts[t] + 1 /\ taskState'[t] = "InProgress"
        /\ \A u \in Tasks \ {t} : attempts'[u] = attempts[u] /\ taskState'[u] = taskState[u]
    BY <2>1, <2>2, <1>1 DEF take_at
  <2>4. /\ pc'[w] = "transfer"
        /\ \A v \in Workers \ {w} : pc'[v] = pc[v] /\ held'[v] = held[v]
    BY <2>1, <1>1 DEF take_at
  <2> HIDE DEF t
  <2>5. attempts[t] \in Nat /\ attempts[t] <= MaxRetries
    BY <2>2, <1>1 DEF Tries
  <2>6. ASSUME NEW v \in Workers, pc'[v] = "requeue" PROVE attempts'[held'[v]] <= MaxRetries
    <3>1. pc[v] = "requeue" /\ held'[v] = held[v] /\ v \in Holders
      BY <2>4, <2>6, Zenon DEF Holders, Holding
    <3>2. held[v] \in Tasks /\ taskState[held[v]] = "InProgress"
      BY <3>1, Zenon DEF TaskInOnePlace, HeldOnce
    <3>3. held[v] # t
      BY <2>2, <3>2 DEF Waiting
    <3> QED BY <3>1, <3>2, <3>3, <2>3, Zenon DEF Tries
  <2>7. ASSUME NEW u \in Tasks
        PROVE  /\ attempts'[u] <= MaxRetries + 1
               /\ taskState'[u] \in Waiting \cup {"Absent"} => attempts'[u] <= MaxRetries
    <3>1. CASE u = t
      BY <3>1, <2>3, <2>5 DEF Waiting
    <3>2. CASE u # t
      BY <3>2, <2>3, Zenon DEF Tries
    <3> QED BY <3>1, <3>2
  <2> QED BY <2>6, <2>7 DEF Tries
<1>3. CASE TriesKept
  <2>1. \A w \in Workers : pc'[w] = "requeue" => attempts'[held'[w]] <= MaxRetries
    BY <1>3, Zenon DEF TriesKept, Tries
  <2>2. ASSUME NEW u \in Tasks, taskState'[u] \in Waiting \cup {"Absent"}
        PROVE  \/ taskState[u] \in Waiting \cup {"Absent"}
               \/ \E w \in Workers : pc[w] = "requeue" /\ held[w] = u
    <3>1. CASE TasksUntouched
      BY <2>2, <3>1 DEF TasksUntouched
    <3>2. CASE GivesUp
      BY <2>2, <3>2 DEF GivesUp, GivenUp, Final, Waiting
    <3>3. ASSUME NEW t \in Tasks, enqueue(t) PROVE taskState[u] \in Waiting \cup {"Absent"}
      BY <2>2, <3>3, <1>1, Zenon DEF enqueue
    <3>4. ASSUME NEW w \in Workers, take_item(w) PROVE taskState[u] \in Waiting \cup {"Absent"}
      <4>1. PICK i \in DOMAIN queue[ClassOf(w)] : take_at(w, i)
        BY <3>4 DEF take_item
      <4> QED BY <2>2, <4>1, <1>1 DEF take_at, Waiting
    <3>5. ASSUME NEW w \in Workers, Completion(w) PROVE taskState[u] \in Waiting \cup {"Absent"}
      <4>1. PICK s \in Final : complete_task(w, s)
        BY <3>5 DEF Completion
      <4> QED BY <2>2, <4>1, <1>1 DEF complete_task, Waiting, Final
    <3>6. ASSUME NEW w \in Workers, requeue_task(w)
          PROVE  taskState[u] \in Waiting \cup {"Absent"} \/ (held[w] = u /\ pc[w] = "requeue")
      BY <2>2, <3>6, <1>1, Zenon DEF requeue_task
    <3> QED BY <3>1, <3>2, <3>3, <3>4, <3>5, <3>6, StepEffect, Zenon DEF Effect
  <2> QED BY <2>1, <2>2, <1>3 DEF Tries, TriesKept
<1> QED BY <1>2, <1>3, StepTries

-----------------------------------------------------------------------------
(* start and stop.                                                         *)

(* Every step keeps Lifecycle.                                             *)
LEMMA LifecycleStep ==
  ASSUME TypeOK, Lifecycle, [Next]_vars
  PROVE  Lifecycle'
<1>a. \A w \in Workers : pc[w] = "off" => Woken[w] = "off"
  BY DEF Woken, Asleep
<1>b. pc \in [Workers -> WorkerPC]
  BY DEF TypeOK
<1>1. CASE UNCHANGED vars
  BY <1>1 DEF vars, taskVars, workerVars, monitorVars, Lifecycle
<1>2. CASE start
  BY <1>2 DEF start, Lifecycle
<1>3. CASE set_result_callback \/ wait_for_idle \/ wait_evaluate \/ wait_timeout
  BY <1>3 DEF set_result_callback, wait_for_idle, wait_evaluate, wait_timeout,
              taskVars, workerVars, monitorVars, Lifecycle
<1>4. CASE stop_begin
  BY <1>4 DEF stop_begin, workerVars, monitorVars, Lifecycle
<1>5. CASE stop_set_state
  BY <1>5 DEF stop_set_state, set_service_state, Purges, monitorVars, Lifecycle
<1>6. CASE stop_join_monitor
  BY <1>6 DEF stop_join_monitor, taskVars, workerVars, Lifecycle
<1>7. CASE stop_join_workers
  BY <1>7 DEF stop_join_workers, taskVars, monitorVars, Lifecycle
<1>8. ASSUME NEW t \in Tasks, enqueue(t) PROVE Lifecycle'
  BY <1>8 DEF enqueue, workerVars, monitorVars, Lifecycle
<1>9. ASSUME NEW t \in Tasks, enqueue_notify(t) PROVE Lifecycle'
  BY <1>9, <1>a DEF enqueue_notify, taskVars, monitorVars, Lifecycle
<1>10. ASSUME NEW t \in Tasks, monitor_report(t) PROVE Lifecycle'
  BY <1>10 DEF monitor_report, taskVars, workerVars, Lifecycle
<1>11. CASE monitor_check \/ monitor_wake
  BY <1>11 DEF monitor_check, monitor_wake, taskVars, workerVars, Lifecycle
<1>12. ASSUME NEW ok \in BOOLEAN, health_check(ok) PROVE Lifecycle'
  <2>1. /\ monitor = "get" /\ (monitorNotes' # {} => monitor' = "report")
        /\ queue' = EmptyQueues \/ queue' = queue
        /\ UNCHANGED <<started, stopping, ctl>>
    BY <1>12, Zenon DEF health_check, set_service_state
  <2> QED BY <2>1, Zenon DEF Lifecycle
<1>13. ASSUME NEW c \in Classes, retry_delay_elapsed(c) PROVE Lifecycle'
  <2>1. \A w \in Workers : pc[w] = "off" => pc'[w] = "off"
    BY <1>13, Zenon DEF retry_delay_elapsed
  <2> QED BY <1>13, <2>1 DEF retry_delay_elapsed, monitorVars, Lifecycle
<1>14. ASSUME NEW w \in Workers, pc[w] # "off",
              UNCHANGED <<started, stopping, ctl, monitor, monitorNotes>>,
              queue' = queue \/ started \/ ~stopping
       PROVE  Lifecycle'
  BY <1>14 DEF Lifecycle
<1>15. ASSUME NEW w \in Workers,
              \/ take_exit(w) \/ take_wait_service(w) \/ take_wait_item(w)
              \/ take_wait_retry(w) \/ spurious_wakeup(w)
       PROVE  Lifecycle'
  <2>1. PICK where \in WorkerPC : MoveTo(w, where) /\ pc[w] # "off"
    BY <1>15 DEF take_exit, take_wait_service, take_wait_item, take_wait_retry,
                 spurious_wakeup, CanTake, WorkerPC, Asleep
  <2> QED BY <2>1, <1>14, Zenon DEF MoveTo, taskVars, monitorVars
<1>16. ASSUME NEW w \in Workers, take_item(w) PROVE Lifecycle'
  <2>1. PICK i \in DOMAIN queue[ClassOf(w)] : take_at(w, i)
    BY <1>16, ZenonT(30) DEF take_item
  <2> QED BY <2>1, <1>14 DEF take_at, CanTake, monitorVars
<1>17. ASSUME NEW w \in Workers, Completion(w) PROVE Lifecycle'
  <2>1. PICK s \in Final : complete_task(w, s) /\ pc[w] # "off"
    BY <1>17 DEF Completion
  <2> QED BY <2>1, <1>14 DEF complete_task, monitorVars
<1>18. ASSUME NEW w \in Workers, transfer_retries(w) PROVE Lifecycle'
  <2>1. pc[w] # "off" /\ queue' = queue
    BY <1>18 DEF transfer_retries, set_service_state, Purges
  <2>2. UNCHANGED <<started, stopping, ctl, monitor, monitorNotes>>
    BY <1>18, Zenon DEF transfer_retries, monitorVars
  <2> QED BY <2>1, <2>2, <1>14
<1>19. ASSUME NEW w \in Workers, requeue_task(w) PROVE Lifecycle'
  BY <1>19, <1>14, Zenon DEF requeue_task, Dropped, monitorVars
<1>20. ASSUME NEW w \in Workers, report(w) \/ requeue_notify(w) PROVE Lifecycle'
  BY <1>20, <1>14 DEF report, requeue_notify, Reporting, taskVars, monitorVars
<1> QED BY <1>1, <1>2, <1>3, <1>4, <1>5, <1>6, <1>7, <1>8, <1>9, <1>10, <1>11, <1>12,
           <1>13, <1>15, <1>16, <1>17, <1>18, <1>19, <1>20, StepCases, Zenon

-----------------------------------------------------------------------------
(* The theorems.                                                           *)

(* The invariant holds before the first start.                             *)
LEMMA InitInductive == Init => IInv
<1> SUFFICES ASSUME Init PROVE IInv
  OBVIOUS
<1>1. Holders = {}
  BY DEF Init, Holders, Holding
<1>2. TypeOK
  <2>1. queue \in [Classes -> Seq(Tasks)]
    BY DEF Init, EmptyQueues
  <2>2. failures \in 0 .. (MaxRetries + 1)
    BY ConfigAssumption DEF Init
  <2>3. pc \in [Workers -> WorkerPC] /\ serviceState \in ServiceStates
    BY DEF Init, WorkerPC, ServiceStates
  <2>4. /\ taskState \in [Tasks -> TaskStates \cup {"Absent"}]
        /\ attempts \in [Tasks -> Nat] /\ finals \in [Tasks -> Nat]
    BY DEF Init
  <2>5. /\ held \in [Workers -> Tasks \cup {NoTask}]
        /\ note \in [Workers -> TaskStates \cup {"none"}]
    BY DEF Init
  <2>6. /\ started \in BOOLEAN /\ stopping \in BOOLEAN /\ hasCallback \in BOOLEAN
        /\ delayed \in SUBSET Tasks /\ monitorNotes \in SUBSET Tasks
        /\ unnotified \in SUBSET Tasks
    BY Zenon DEF Init
  <2>7. /\ active \in Nat
        /\ monitor \in {"off", "check", "get", "report", "sleep", "exited"}
        /\ ctl \in {"idle", "setState", "joinMonitor", "joinWorkers"}
        /\ waiter \in {"none", "awake", "asleep", "idle"}
    BY DEF Init
  <2> QED BY <2>1, <2>2, <2>3, <2>4, <2>5, <2>6, <2>7 DEF TypeOK
<1>3. TaskInOnePlace
  <2>1. \A c \in Classes : queue[c] = <<>> /\ Range(queue[c]) = {}
    BY DEF Init, EmptyQueues, Range
  <2>2. \A c \in Classes : IsInjective(queue[c])
    BY <2>1 DEF IsInjective
  <2>3. \A t \in Tasks : QueueOf(t) \in Classes
    BY DEF QueueOf, Classes
  <2>4. \A t \in Tasks : taskState[t] = "Absent"
    BY DEF Init
  <2>5. QueuedOnce
    <3>1. \A t \in Tasks : taskState[t] \notin Waiting /\ Range(queue[QueueOf(t)]) = {}
      BY <2>1, <2>3, <2>4 DEF Waiting
    <3>2. \A c \in Classes : \A t \in Range(queue[c]) : QueueOf(t) = c
      BY <2>1
    <3>3. \A t \in Tasks : taskState[t] \in Waiting <=> t \in Range(queue[QueueOf(t)])
      BY <3>1
    <3> QED BY <2>2, <3>2, <3>3, Zenon DEF QueuedOnce
  <2>6. HeldOnce
    BY <1>1, <2>4 DEF HeldOnce
  <2> QED BY <2>5, <2>6 DEF TaskInOnePlace
<1>4. ActiveIsExact
  BY <1>1, FS_EmptySet DEF Init, ActiveIsExact
<1>5. Tries
  BY ConfigAssumption DEF Init, Tries
<1>6. Lifecycle
  BY DEF Init, Lifecycle
<1> QED BY <1>2, <1>3, <1>4, <1>5, <1>6 DEF IInv

(* Every step keeps the invariant.                                         *)
LEMMA StepInductive == IInv /\ [Next]_vars => IInv'
<1> SUFFICES ASSUME IInv, [Next]_vars PROVE IInv'
  OBVIOUS
<1>1. TypeOK /\ TaskInOnePlace /\ HeldOnce /\ ActiveIsExact /\ Tries /\ Lifecycle
  BY DEF IInv, TaskInOnePlace
<1>2. TypeOK'
  BY <1>1, TypeStep
<1>3. TaskInOnePlace' /\ ActiveIsExact'
  BY <1>1, PlaceStep
<1>4. Tries'
  BY <1>1, TriesStep
<1>5. Lifecycle'
  BY <1>1, LifecycleStep
<1> QED BY <1>2, <1>3, <1>4, <1>5 DEF IInv

(* The inductive invariant holds in every state the threads can reach.     *)
THEOREM Inductive == Spec => []IInv
BY InitInductive, StepInductive, PTL DEF Spec

(* Every variable of the manager keeps its type: in particular queues hold *)
(* ids of tasks and active_tasks_ never wraps below zero.                  *)
THEOREM TypeCorrect == Spec => []TypeOK
<1>1. IInv => TypeOK
  BY DEF IInv
<1> QED BY <1>1, Inductive, PTL

(* No task is lost, duplicated or run by two workers: it is queued once in *)
(* the queue of its class, or held by one worker of that class, or         *)
(* neither, as its state in results_ says.                                 *)
THEOREM PlacesCorrect == Spec => []TaskInOnePlace
<1>1. IInv => TaskInOnePlace
  BY DEF IInv
<1> QED BY <1>1, Inductive, PTL

(* active_tasks_ counts exactly the workers that have a task.              *)
THEOREM ActiveCorrect == Spec => []ActiveIsExact
<1>1. IInv => ActiveIsExact
  BY DEF IInv
<1> QED BY <1>1, Inductive, PTL

(* No task is tried more than max_retries + 1 times, although the test in  *)
(* process_task and the increment in take_task are in different critical   *)
(* sections.                                                               *)
THEOREM AttemptsCorrect == Spec => []AttemptsBounded
<1>1. IInv => AttemptsBounded
  BY DEF IInv, Tries, AttemptsBounded, Waiting
<1> QED BY <1>1, Inductive, PTL

(* With no task queued and none in a worker's hands every task is settled. *)
LEMMA QuietSettles ==
  ASSUME IInv, Quiet, NEW t \in Tasks, Known(t)
  PROVE  Settled(t)
<1>1. Holders = {}
  <2>1. Cardinality(Holders) = 0
    BY DEF IInv, ActiveIsExact, Quiet
  <2>2. \A S : IsFiniteSet(S) => (Cardinality(S) = 0 <=> S = {})
    BY FS_EmptySet, Zenon
  <2> QED BY <2>1, <2>2, HoldersFinite, Zenon
<1>2. taskState[t] # "InProgress"
  BY <1>1 DEF IInv, TaskInOnePlace, HeldOnce
<1>3. QueueOf(t) \in Classes /\ Range(queue[QueueOf(t)]) = {}
  BY DEF Quiet, EmptyQueues, Range, QueueOf, Classes
<1>4. taskState[t] \notin Waiting
  BY <1>3, Zenon DEF IInv, TaskInOnePlace, QueuedOnce
<1>5. taskState[t] \in TaskStates \cup {"Absent"}
  BY DEF IInv, TypeOK
<1> QED BY <1>2, <1>4, <1>5 DEF TaskStates, Known, Settled

(* After stop has returned every accepted task is settled, the queues are  *)
(* empty, no thread runs and no report is pending.                         *)
THEOREM StopCorrect == Spec => []StopLeavesNothing
<1>1. IInv => StopLeavesNothing
  <2> SUFFICES ASSUME IInv, ctl = "idle", ~started
               PROVE  /\ \A t \in Tasks : Known(t) => Settled(t)
                      /\ Quiet
                      /\ \A w \in Workers : pc[w] = "off"
                      /\ monitor = "off" /\ monitorNotes = {}
    BY DEF StopLeavesNothing
  <2>1. /\ queue = EmptyQueues /\ \A w \in Workers : pc[w] = "off"
        /\ monitor = "off" /\ monitorNotes = {}
    BY DEF IInv, Lifecycle
  <2>2. Holders = {}
    BY <2>1 DEF Holders, Holding
  <2>3. Quiet
    BY <2>1, <2>2, FS_EmptySet DEF IInv, ActiveIsExact, Quiet
  <2>4. \A t \in Tasks : Known(t) => Settled(t)
    BY <2>3, QuietSettles
  <2> QED BY <2>1, <2>3, <2>4
<1> QED BY <1>1, Inductive, PTL

=============================================================================
