------------------------- MODULE SyncManagerClients -------------------------
(***************************************************************************)
(* What the users of SyncManager may rely on, for every set of tasks, pair *)
(* of pools and max_retries: the answers of wait_for_idle, wakeups, the    *)
(* reports to the callback, and the abstract specification TaskLedger.     *)
(***************************************************************************)
EXTENDS SyncManagerProofs, TLAPS

-----------------------------------------------------------------------------
(* What the clients of wait_for_idle and the health monitor rely on.       *)

(* Only the predicate of wait_for_idle makes it answer true.               *)
LEMMA AnswerStep ==
  ASSUME TypeOK, [Next]_vars, waiter # "idle", waiter' = "idle"
  PROVE  Quiet
<1>1. CASE wait_evaluate \/ wait_timeout
  BY <1>1 DEF wait_evaluate, wait_timeout, Answer, IdleOrOver
<1>2. CASE UNCHANGED waiter
  BY <1>2
<1>3. CASE waiter' = WokenWaiter
  BY <1>3 DEF WokenWaiter
<1>4. CASE \/ start \/ set_result_callback \/ stop_begin \/ stop_set_state
           \/ stop_join_monitor \/ stop_join_workers \/ wait_for_idle
           \/ monitor_check \/ monitor_wake
  BY <1>2, <1>3, <1>4 DEF start, set_result_callback, stop_begin, stop_set_state,
     set_service_state, stop_join_monitor, stop_join_workers, wait_for_idle,
     monitor_check, monitor_wake
<1>5. ASSUME NEW t \in Tasks, enqueue(t) \/ enqueue_notify(t) \/ monitor_report(t)
      PROVE  Quiet
  BY <1>2, <1>5 DEF enqueue, enqueue_notify, monitor_report
<1>6. ASSUME NEW w \in Workers,
             \/ take_exit(w) \/ take_wait_service(w) \/ take_wait_item(w)
             \/ take_wait_retry(w) \/ spurious_wakeup(w) \/ take_item(w)
             \/ report(w) \/ requeue_notify(w)
      PROVE  Quiet
  BY <1>2, <1>6 DEF take_exit, take_wait_service, take_wait_item, take_wait_retry,
     spurious_wakeup, take_item, take_at, report, requeue_notify, MoveTo
<1>7. ASSUME NEW w \in Workers, Completion(w) \/ transfer_retries(w) \/ requeue_task(w)
      PROVE  Quiet
  <2>1. UNCHANGED waiter \/ waiter' = WokenWaiter
    BY <1>7 DEF Completion, complete_task, transfer_retries, requeue_task,
                set_service_state, NotifiedIdle
  <2> QED BY <2>1, <1>2, <1>3
<1>8. ASSUME NEW c \in Classes, retry_delay_elapsed(c) PROVE Quiet
  BY <1>2, <1>8 DEF retry_delay_elapsed
<1>9. ASSUME NEW ok \in BOOLEAN, health_check(ok) PROVE Quiet
  BY <1>3, <1>9 DEF health_check, set_service_state
<1>10. CASE UNCHANGED vars
  BY <1>2, <1>10 DEF vars
<1> QED BY <1>1, <1>4, <1>5, <1>6, <1>7, <1>8, <1>9, <1>10, StepCases

(* wait_for_idle returns true only when every accepted task is settled.    *)
THEOREM AnswerCorrect == Spec => IdleAnswerSound
<1>1. ASSUME IInv, [Next]_vars
      PROVE  [waiter # "idle" /\ waiter' = "idle" =>
                \A t \in Tasks : Known(t) => Settled(t)]_vars
  <2>1. TypeOK
    BY <1>1 DEF IInv
  <2> QED BY <1>1, <2>1, AnswerStep, QuietSettles
<1> QED BY <1>1, Inductive, PTL DEF Spec, IdleAnswerSound

(* A task is made Retry only while the service is not given up, and the    *)
(* step that gives it up leaves none.                                      *)
LEMMA ErrorStep ==
  ASSUME TypeOK, ErrorLeavesNoRetry, [Next]_vars
  PROVE  ErrorLeavesNoRetry'
<1>a. taskState \in [Tasks -> TaskStates \cup {"Absent"}]
  BY DEF TypeOK
<1>1. CASE taskState' = taskState /\ (serviceState' = serviceState \/ serviceState' # "Error")
  BY <1>1 DEF ErrorLeavesNoRetry
<1>2. CASE \/ UNCHANGED vars \/ start \/ set_result_callback
           \/ stop_join_monitor \/ stop_join_workers \/ wait_for_idle
           \/ wait_evaluate \/ wait_timeout \/ monitor_check \/ monitor_wake
  BY <1>1, <1>2 DEF vars, start, set_result_callback, stop_join_monitor, stop_join_workers,
     wait_for_idle, wait_evaluate, wait_timeout, monitor_check, monitor_wake, taskVars
<1>3. CASE stop_begin
  BY <1>3 DEF stop_begin, GivenUp, Waiting, ErrorLeavesNoRetry
<1>4. CASE stop_set_state
  BY <1>4 DEF stop_set_state, set_service_state, Purges, ErrorLeavesNoRetry
<1>5. ASSUME NEW t \in Tasks, enqueue(t) PROVE ErrorLeavesNoRetry'
  BY <1>5, <1>a DEF enqueue, ErrorLeavesNoRetry
<1>6. ASSUME NEW t \in Tasks, enqueue_notify(t) \/ monitor_report(t) PROVE ErrorLeavesNoRetry'
  BY <1>1, <1>6 DEF enqueue_notify, monitor_report, taskVars
<1>7. ASSUME NEW w \in Workers,
             \/ take_exit(w) \/ take_wait_service(w) \/ take_wait_item(w)
             \/ take_wait_retry(w) \/ spurious_wakeup(w) \/ report(w) \/ requeue_notify(w)
      PROVE  ErrorLeavesNoRetry'
  BY <1>1, <1>7 DEF take_exit, take_wait_service, take_wait_item, take_wait_retry,
     spurious_wakeup, report, requeue_notify, MoveTo, taskVars
<1>8. ASSUME NEW w \in Workers, take_item(w) PROVE ErrorLeavesNoRetry'
  <2>1. PICK i \in DOMAIN queue[ClassOf(w)] : take_at(w, i)
    BY <1>8 DEF take_item
  <2> QED BY <2>1, <1>a DEF take_at, ErrorLeavesNoRetry
<1>9. ASSUME NEW w \in Workers, Completion(w) PROVE ErrorLeavesNoRetry'
  <2>1. PICK s \in Final : complete_task(w, s)
    BY <1>9 DEF Completion
  <2> QED BY <2>1, <1>a DEF complete_task, ErrorLeavesNoRetry, Final
<1>10. ASSUME NEW w \in Workers, transfer_retries(w) PROVE ErrorLeavesNoRetry'
  <2>1. taskState' = taskState /\ (serviceState' = serviceState \/ serviceState' # "Error")
    BY <1>10 DEF transfer_retries, set_service_state, Purges
  <2> QED BY <2>1, <1>1
<1>11. ASSUME NEW w \in Workers, requeue_task(w) PROVE ErrorLeavesNoRetry'
  BY <1>11, <1>a DEF requeue_task, Dropped, ErrorLeavesNoRetry
<1>12. ASSUME NEW c \in Classes, retry_delay_elapsed(c) PROVE ErrorLeavesNoRetry'
  BY <1>1, <1>12 DEF retry_delay_elapsed
<1>13. ASSUME NEW ok \in BOOLEAN, health_check(ok) PROVE ErrorLeavesNoRetry'
  <2>1. PICK s \in ServiceStates : set_service_state(s)
    BY <1>13 DEF health_check, ServiceStates
  <2>2. CASE Purges(s)
    BY <2>1, <2>2 DEF set_service_state, GivenUp, Waiting, ErrorLeavesNoRetry
  <2>3. CASE ~Purges(s)
    BY <2>1, <2>3 DEF set_service_state, Purges, ErrorLeavesNoRetry
  <2> QED BY <2>2, <2>3
<1> QED BY <1>2, <1>3, <1>4, <1>5, <1>6, <1>7, <1>8, <1>9, <1>10, <1>11, <1>12, <1>13, StepCases

(* No task waits for a retry once the service is given up, whoever was in  *)
(* the middle of requeue_task when that happened.                          *)
THEOREM ErrorCorrect == Spec => []ErrorLeavesNoRetry
<1>1. Init => ErrorLeavesNoRetry
  BY DEF Init, ErrorLeavesNoRetry
<1>2. TypeOK /\ ErrorLeavesNoRetry /\ [Next]_vars => ErrorLeavesNoRetry'
  BY ErrorStep
<1> QED BY <1>1, <1>2, TypeCorrect, PTL DEF Spec

(* Whatever makes the predicate of wait_for_idle true also notifies        *)
(* idle_cv_, or is stop before its notify_all.                             *)
LEMMA IdleWakeupStep ==
  ASSUME TypeOK, NoLostIdleWakeup, [Next]_vars
  PROVE  NoLostIdleWakeup'
<1> USE DEF NoLostIdleWakeup, IdleOrOver, Quiet
<1>1. CASE waiter' # "asleep"
  BY <1>1
<1>2. CASE waiter' = WokenWaiter
  BY <1>2 DEF WokenWaiter
<1>3. CASE UNCHANGED <<waiter, active, queue, serviceState, stopping, ctl>>
  BY <1>3
<1>4. CASE \/ UNCHANGED vars \/ set_result_callback \/ wait_for_idle
           \/ monitor_check \/ monitor_wake
  BY <1>1, <1>3, <1>4 DEF vars, taskVars, set_result_callback, wait_for_idle,
     monitor_check, monitor_wake
<1>5. CASE start
  BY <1>5 DEF start, taskVars
<1>6. CASE stop_begin
  BY <1>6 DEF stop_begin
<1>7. CASE stop_set_state
  BY <1>2, <1>7 DEF stop_set_state, set_service_state
<1>8. CASE stop_join_monitor \/ stop_join_workers
  BY <1>8 DEF stop_join_monitor, stop_join_workers, taskVars
<1>9. CASE wait_evaluate \/ wait_timeout
  BY <1>9 DEF wait_evaluate, wait_timeout, Answer, taskVars
<1>10. ASSUME NEW t \in Tasks, enqueue(t) PROVE NoLostIdleWakeup'
  <2>1. QueueOf(t) \in Classes /\ queue[QueueOf(t)] \in Seq(Tasks)
    BY DEF QueueOf, Classes, TypeOK
  <2>2. queue'[QueueOf(t)] = Append(queue[QueueOf(t)], t)
    BY <1>10, <2>1 DEF enqueue, TypeOK
  <2>3. Append(queue[QueueOf(t)], t) # <<>>
    BY <2>1
  <2>4. queue' # EmptyQueues
    BY <2>1, <2>2, <2>3 DEF EmptyQueues
  <2> QED BY <1>10, <2>4 DEF enqueue
<1>11. ASSUME NEW t \in Tasks, enqueue_notify(t) \/ monitor_report(t) PROVE NoLostIdleWakeup'
  BY <1>3, <1>11 DEF enqueue_notify, monitor_report, taskVars
<1>12. ASSUME NEW w \in Workers,
              \/ take_exit(w) \/ take_wait_service(w) \/ take_wait_item(w)
              \/ take_wait_retry(w) \/ spurious_wakeup(w) \/ report(w) \/ requeue_notify(w)
       PROVE  NoLostIdleWakeup'
  BY <1>3, <1>12 DEF take_exit, take_wait_service, take_wait_item, take_wait_retry,
     spurious_wakeup, report, requeue_notify, MoveTo, taskVars
<1>13. ASSUME NEW w \in Workers, take_item(w) PROVE NoLostIdleWakeup'
  <2>1. /\ active' = active + 1
        /\ UNCHANGED <<waiter, serviceState, stopping, ctl>>
    BY <1>13 DEF take_item, take_at
  <2>2. active' # 0
    BY <2>1 DEF TypeOK
  <2> QED BY <2>1, <2>2
<1>14. ASSUME NEW w \in Workers, Completion(w) \/ requeue_task(w) PROVE NoLostIdleWakeup'
  <2>1. /\ waiter' = NotifiedIdle(active', queue')
        /\ UNCHANGED <<serviceState, stopping, ctl>>
    BY <1>14 DEF Completion, complete_task, requeue_task
  <2>2. CASE active' = 0 /\ queue' = EmptyQueues
    BY <1>2, <2>1, <2>2 DEF NotifiedIdle
  <2>3. CASE ~(active' = 0 /\ queue' = EmptyQueues)
    BY <2>1, <2>3 DEF NotifiedIdle
  <2> QED BY <2>2, <2>3
<1>15. ASSUME NEW w \in Workers, transfer_retries(w) PROVE NoLostIdleWakeup'
  <2>1. \/ waiter' = WokenWaiter
        \/ UNCHANGED <<waiter, active, queue, serviceState, stopping, ctl>>
    BY <1>15 DEF transfer_retries, set_service_state
  <2> QED BY <1>2, <1>3, <2>1
<1>16. ASSUME NEW c \in Classes, retry_delay_elapsed(c) PROVE NoLostIdleWakeup'
  BY <1>3, <1>16 DEF retry_delay_elapsed
<1>17. ASSUME NEW ok \in BOOLEAN, health_check(ok) PROVE NoLostIdleWakeup'
  BY <1>2, <1>17, SMTT(30) DEF health_check, set_service_state
<1> QED BY <1>4, <1>5, <1>6, <1>7, <1>8, <1>9, <1>10, <1>11, <1>12, <1>13, <1>14, <1>15,
           <1>16, <1>17, StepCases, Zenon

(* wait_for_idle is never left asleep on idle_cv_ although its condition   *)
(* holds, unless stop is about to notify it.                               *)
THEOREM IdleWakeupCorrect == Spec => []NoLostIdleWakeup
<1>1. Init => NoLostIdleWakeup
  BY Zenon DEF Init, NoLostIdleWakeup
<1>2. TypeOK /\ NoLostIdleWakeup /\ [Next]_vars => NoLostIdleWakeup'
  BY IdleWakeupStep
<1> QED BY <1>1, <1>2, TypeCorrect, PTL DEF Spec

(* Whatever a sleeping worker waits for, the thread that brings it about   *)
(* notifies queue_cv_ in the same critical section or still has to.        *)
LEMMA WakeupStep ==
  ASSUME TypeOK, QueuedOnce, NoLostWakeup, [Next]_vars
  PROVE  NoLostWakeup'
<1> USE DEF NoLostWakeup
<1>a. pc \in [Workers -> WorkerPC]
  BY DEF TypeOK
<1>b. \A w \in Workers : ClassOf(w) \in Classes /\ queue[ClassOf(w)] \in Seq(Tasks)
  BY DEF ClassOf, Classes, TypeOK
<1>1. CASE NotifyOwed'
  BY <1>1
<1>2. CASE \A w \in Workers : pc'[w] \notin Asleep
  BY <1>2
<1>c. \A w \in Workers : Woken[w] \notin Asleep
  BY DEF Woken, Asleep
(* Nothing sleepers look at changes, and nobody falls asleep.              *)
<1>3. CASE /\ UNCHANGED <<stopping, serviceState, queue, delayed, pc>>
           /\ NotifyOwed => NotifyOwed'
  BY <1>3 DEF AwaitedBy
<1>4. CASE \/ UNCHANGED vars \/ set_result_callback \/ wait_for_idle \/ wait_evaluate
           \/ wait_timeout \/ stop_join_monitor \/ monitor_check \/ monitor_wake
  BY <1>3, <1>4 DEF vars, taskVars, workerVars, set_result_callback, wait_for_idle,
     wait_evaluate, wait_timeout, stop_join_monitor, monitor_check, monitor_wake, NotifyOwed
<1>5. CASE start \/ stop_set_state \/ stop_join_workers
  BY <1>2, <1>5, <1>c, Zenon DEF start, stop_set_state, stop_join_workers, Asleep
<1>6. CASE stop_begin
  BY <1>1, <1>6 DEF stop_begin, NotifyOwed
<1>7. ASSUME NEW t \in Tasks, enqueue(t) PROVE NoLostWakeup'
  <2>1. NotifyOwed'
    BY <1>7, Zenon DEF enqueue, NotifyOwed
  <2> QED BY <1>1, <2>1, Zenon
<1>8. ASSUME NEW t \in Tasks, enqueue_notify(t) PROVE NoLostWakeup'
  BY <1>2, <1>8, <1>c DEF enqueue_notify
<1>9. ASSUME NEW t \in Tasks, monitor_report(t) PROVE NoLostWakeup'
  BY <1>3, <1>9 DEF monitor_report, taskVars, workerVars, NotifyOwed
(* A worker moves and the rest stays: only its own sleep is new.           *)
<1>10. ASSUME NEW w \in Workers, pc[w] \notin {"reportRetry", "notify"}, NEW where,
              pc' = [pc EXCEPT ![w] = where], where \in Asleep => ~AwaitedBy(w)',
              UNCHANGED <<stopping, serviceState, queue, delayed, ctl, unnotified>>
       PROVE  NoLostWakeup'
  <2>1. \A v \in Workers \ {w} : pc'[v] = pc[v] /\ AwaitedBy(v)' = AwaitedBy(v)
    BY <1>a, <1>10 DEF AwaitedBy
  <2>2. NotifyOwed => NotifyOwed'
    BY <1>a, <1>10 DEF NotifyOwed
  <2>3. pc'[w] = where
    BY <1>a, <1>10
  <2> QED BY <1>10, <2>1, <2>2, <2>3, Zenon
<1>11. ASSUME NEW w \in Workers,
              \/ take_exit(w) \/ take_wait_service(w) \/ take_wait_item(w)
              \/ take_wait_retry(w) \/ spurious_wakeup(w)
       PROVE  NoLostWakeup'
  <2>1. PICK where : MoveTo(w, where) /\ (where \in Asleep => ~AwaitedBy(w)')
    <3>1. CASE take_exit(w) \/ spurious_wakeup(w)
      BY <3>1 DEF take_exit, spurious_wakeup, Asleep
    <3>2. CASE take_wait_service(w)
      <4>1. pc'[w] = "waitService" /\ ~AwaitedBy(w)'
        BY <1>a, <3>2 DEF take_wait_service, MoveTo, AwaitedBy
      <4> QED BY <3>2, <4>1 DEF take_wait_service
    <3>3. CASE take_wait_item(w)
      <4>1. pc'[w] = "waitItem" /\ ~AwaitedBy(w)'
        BY <1>a, <3>3 DEF take_wait_item, CanTake, MoveTo, AwaitedBy, taskVars
      <4> QED BY <3>3, <4>1 DEF take_wait_item
    <3>4. CASE take_wait_retry(w)
      <4>1. pc'[w] = "waitRetry" /\ ~AwaitedBy(w)'
        BY <1>a, <3>4 DEF take_wait_retry, CanTake, MoveTo, AwaitedBy, taskVars
      <4> QED BY <3>4, <4>1 DEF take_wait_retry
    <3> QED BY <1>11, <3>1, <3>2, <3>3, <3>4
  <2>2. pc[w] \notin {"reportRetry", "notify"}
    BY <1>11 DEF take_exit, take_wait_service, take_wait_item, take_wait_retry,
                 spurious_wakeup, CanTake, Asleep
  <2> QED BY <1>10, <2>1, <2>2, Zenon DEF MoveTo, taskVars
<1>12. ASSUME NEW w \in Workers, take_item(w) PROVE NoLostWakeup'
  <2>1. PICK i \in DOMAIN queue[ClassOf(w)] : take_at(w, i)
    BY <1>12 DEF take_item
  <2> DEFINE c == ClassOf(w)
  <2>2. /\ pc' = [pc EXCEPT ![w] = "transfer"] /\ pc[w] = "take"
        /\ queue' = [queue EXCEPT ![c] = Erased(queue[c], i)]
        /\ UNCHANGED <<stopping, serviceState, delayed, ctl, unnotified>>
    BY <2>1 DEF take_at, CanTake
  <2>3. c \in Classes /\ queue[c] \in Seq(Tasks) /\ i \in 1 .. Len(queue[c]) /\ IsInjective(queue[c])
    BY <1>b DEF QueuedOnce
  <2>4. Range(Erased(queue[c], i)) \subseteq Range(queue[c]) /\ queue[c] # <<>>
    BY <2>3, ErasedRange
  <2>5. \A v \in Workers : /\ Range(queue'[ClassOf(v)]) \subseteq Range(queue[ClassOf(v)])
                           /\ queue'[ClassOf(v)] # <<>> => queue[ClassOf(v)] # <<>>
    <3> SUFFICES ASSUME NEW v \in Workers
                 PROVE  /\ Range(queue'[ClassOf(v)]) \subseteq Range(queue[ClassOf(v)])
                        /\ queue'[ClassOf(v)] # <<>> => queue[ClassOf(v)] # <<>>
      OBVIOUS
    <3>1. queue \in [Classes -> Seq(Tasks)] /\ ClassOf(v) \in Classes
      BY <1>b DEF TypeOK
    <3>2. CASE ClassOf(v) = c
      <4>1. queue'[ClassOf(v)] = Erased(queue[c], i)
        BY <2>2, <2>3, <3>1, <3>2
      <4> QED BY <2>4, <3>2, <4>1, Zenon
    <3>3. CASE ClassOf(v) # c
      <4>1. queue'[ClassOf(v)] = queue[ClassOf(v)]
        BY <2>2, <3>1, <3>3
      <4> QED BY <4>1
    <3> QED BY <3>2, <3>3
  <2>6. \A v \in Workers \ {w} : pc'[v] = pc[v] /\ (AwaitedBy(v)' => AwaitedBy(v))
    BY <1>a, <2>2, <2>5 DEF AwaitedBy
  <2>7. pc'[w] \notin Asleep /\ (NotifyOwed => NotifyOwed')
    BY <1>a, <2>2 DEF NotifyOwed, Asleep
  <2> QED BY <2>6, <2>7
<1>13. ASSUME NEW w \in Workers, Completion(w) PROVE NoLostWakeup'
  <2>1. /\ pc' = [pc EXCEPT ![w] = "reportDone"] /\ pc[w] = "transfer"
        /\ UNCHANGED <<stopping, serviceState, queue, delayed, ctl, unnotified>>
    BY <1>13 DEF Completion, complete_task
  <2> QED BY <1>10, <2>1, Zenon DEF Asleep
<1>14. ASSUME NEW w \in Workers, transfer_retries(w) PROVE NoLostWakeup'
  <2>1. CASE pc' = [Woken EXCEPT ![w] = "requeue"]
    BY <1>2, <1>c, <2>1 DEF Woken, Asleep
  <2>2. CASE /\ pc' = [pc EXCEPT ![w] = "requeue"]
             /\ UNCHANGED <<serviceState, taskState, queue, delayed, waiter>>
    <3>1. pc[w] = "transfer" /\ UNCHANGED <<stopping, ctl, unnotified>>
      BY <1>14, Zenon DEF transfer_retries
    <3> QED BY <1>10, <2>2, <3>1, Zenon DEF Asleep
  <2> QED BY <1>14, <2>1, <2>2 DEF transfer_retries
<1>15. ASSUME NEW w \in Workers, requeue_task(w) PROVE NoLostWakeup'
  <2>1. pc'[w] = "reportRetry"
    BY <1>a, <1>15 DEF requeue_task
  <2> QED BY <1>1, <2>1 DEF NotifyOwed
<1>16. ASSUME NEW w \in Workers, report(w) PROVE NoLostWakeup'
  <2>1. UNCHANGED <<stopping, serviceState, queue, delayed, ctl, unnotified>>
    BY <1>16 DEF report, taskVars
  <2>2. CASE pc[w] = "reportRetry"
    <3>1. pc'[w] = "notify"
      BY <1>a, <1>16, <2>2 DEF report
    <3> QED BY <1>1, <3>1 DEF NotifyOwed
  <2>3. CASE pc[w] = "reportDone"
    BY <1>10, <1>16, <2>1, <2>3, Zenon DEF report, Asleep
  <2> QED BY <1>16, <2>2, <2>3 DEF report, Reporting
<1>17. ASSUME NEW w \in Workers, requeue_notify(w) PROVE NoLostWakeup'
  BY <1>2, <1>c, <1>17 DEF requeue_notify, Woken, Asleep
<1>18. ASSUME NEW c \in Classes, retry_delay_elapsed(c) PROVE NoLostWakeup'
  <2>1. PICK i \in DOMAIN queue[c] : delayed' = delayed \ {queue[c][i]}
    BY <1>18 DEF retry_delay_elapsed
  <2>2. /\ UNCHANGED <<stopping, serviceState, queue, ctl, unnotified>>
        /\ pc' = [w \in Workers |-> IF pc[w] = "waitRetry" /\ ClassOf(w) = c
                                    THEN "take" ELSE pc[w]]
    BY <1>18 DEF retry_delay_elapsed
  <2>3. queue[c][i] \in Range(queue[c]) /\ QueueOf(queue[c][i]) = c
    BY Zenon DEF QueuedOnce, Range
  <2>4. \A w \in Workers : ClassOf(w) # c => queue[c][i] \notin Range(queue[ClassOf(w)])
    BY <1>b, <2>3 DEF QueuedOnce
  <2>5. \A w \in Workers : pc'[w] \in Asleep =>
           pc'[w] = pc[w] /\ ~(pc[w] = "waitRetry" /\ ClassOf(w) = c)
    BY <2>2, Zenon DEF Asleep
  <2>6. \A w \in Workers : pc'[w] \in Asleep /\ AwaitedBy(w)' => AwaitedBy(w)
    BY <2>1, <2>2, <2>4, <2>5 DEF AwaitedBy
  <2>7. NotifyOwed => NotifyOwed'
    BY <2>2 DEF NotifyOwed
  <2> QED BY <2>5, <2>6, <2>7, Zenon
<1>19. ASSUME NEW ok \in BOOLEAN, health_check(ok) PROVE NoLostWakeup'
  BY <1>2, <1>c, <1>19 DEF health_check
<1> QED BY <1>4, <1>5, <1>6, <1>7, <1>8, <1>9, <1>11, <1>12, <1>13, <1>14, <1>15, <1>16,
           <1>17, <1>18, <1>19, StepCases, Zenon

(* No worker is left asleep on queue_cv_ although what it waits for has    *)
(* happened, unless a notify_all is still to come.                         *)
THEOREM WakeupCorrect == Spec => []NoLostWakeup
<1>1. Init => NoLostWakeup
  BY DEF Init, NoLostWakeup, Asleep
<1>2. IInv /\ NoLostWakeup /\ [Next]_vars => NoLostWakeup'
  BY WakeupStep DEF IInv, TaskInOnePlace
<1> QED BY <1>1, <1>2, Inductive, PTL DEF Spec

-----------------------------------------------------------------------------
(* What the result callback hears.                                         *)

(* The item take_task erases belongs to a waiting task.                    *)
LEMMA TakenIsWaiting ==
  ASSUME TypeOK, TaskInOnePlace, NEW w \in Workers, NEW i \in DOMAIN queue[ClassOf(w)]
  PROVE  /\ queue[ClassOf(w)][i] \in Tasks
         /\ taskState[queue[ClassOf(w)][i]] \in Waiting
<1> DEFINE c == ClassOf(w)
           t == queue[c][i]
<1>1. c \in Classes /\ queue[c] \in Seq(Tasks)
  BY DEF ClassOf, Classes, TypeOK
<1>2. t \in Tasks /\ t \in Range(queue[c])
  BY <1>1 DEF Range
<1> QED BY <1>1, <1>2 DEF TaskInOnePlace, QueuedOnce

(* A settled task keeps its state: nothing a thread holds or finds in a    *)
(* queue is settled.                                                       *)
LEMMA SettledStays ==
  ASSUME IInv, [Next]_vars, NEW t \in Tasks, Settled(t)
  PROVE  taskState'[t] = taskState[t]
<1>1. /\ Effect /\ TypeOK /\ TaskInOnePlace
      /\ taskState \in [Tasks -> TaskStates \cup {"Absent"}]
  BY StepEffect DEF IInv, TypeOK
<1>2. taskState[t] \notin Waiting \cup {"InProgress", "Absent"}
  BY DEF Settled, Final, Waiting
<1>3. CASE TasksUntouched
  BY <1>3 DEF TasksUntouched
<1>4. CASE GivesUp
  BY <1>2, <1>4 DEF GivesUp, GivenUp
<1>5. ASSUME NEW u \in Tasks, enqueue(u) PROVE taskState'[t] = taskState[t]
  BY <1>1, <1>2, <1>5, Zenon DEF enqueue
<1>6. ASSUME NEW w \in Workers, take_item(w) PROVE taskState'[t] = taskState[t]
  <2>1. PICK i \in DOMAIN queue[ClassOf(w)] : take_at(w, i)
    BY <1>6 DEF take_item
  <2>2. taskState[queue[ClassOf(w)][i]] \in Waiting
    BY <1>1, <2>1, TakenIsWaiting
  <2> QED BY <1>1, <1>2, <2>1, <2>2 DEF take_at
<1>7. ASSUME NEW w \in Workers, Completion(w) \/ requeue_task(w)
      PROVE  taskState'[t] = taskState[t]
  <2>1. taskState[held[w]] = "InProgress"
    BY <1>1, <1>7, Zenon DEF TaskInOnePlace, HeldOnce, Holders, Holding, Completion, requeue_task
  <2>2. \E s : taskState' = [taskState EXCEPT ![held[w]] = s]
    BY <1>7, Zenon DEF Completion, complete_task, requeue_task
  <2> QED BY <1>1, <1>2, <2>1, <2>2, Zenon
<1> QED BY <1>1, <1>3, <1>4, <1>5, <1>6, <1>7, Zenon DEF Effect

(* A worker that is about to report the end of its task.                   *)
Owes(w) == pc[w] \in Reporting /\ note[w] \in Final

(* Who has reported and who is going to: of the callbacks for one task     *)
(* that have run, that a worker will run and that the monitor will run     *)
(* there is at most one, and only for a settled task.                      *)
Reports ==
  /\ \A t \in Tasks : finals[t] = 0 \/ (finals[t] = 1 /\ Settled(t))
  /\ \A w \in Workers : Owes(w) => /\ held[w] \in Tasks /\ Settled(held[w])
                                   /\ finals[held[w]] = 0
                                   /\ held[w] \notin monitorNotes
  /\ \A v, w \in Workers : Owes(v) /\ Owes(w) /\ held[v] = held[w] => v = w
  /\ \A t \in monitorNotes : Settled(t) /\ finals[t] = 0

(* A worker that ends or puts back its task is the only one to know the    *)
(* task, so nobody else has reported it or is going to.                    *)
LEMMA EndingReports ==
  ASSUME IInv, Reports, [Next]_vars,
         NEW w \in Workers, Completion(w) \/ requeue_task(w)
  PROVE  Reports'
<1> DEFINE t == held[w]
<1>1. /\ pc \in [Workers -> WorkerPC] /\ note \in [Workers -> TaskStates \cup {"none"}]
      /\ taskState \in [Tasks -> TaskStates \cup {"Absent"}] /\ monitorNotes \subseteq Tasks
  BY Zenon DEF IInv, TypeOK
<1>2. t \in Tasks /\ ~Settled(t)
  BY DEF IInv, TaskInOnePlace, HeldOnce, Holders, Holding, Completion, requeue_task, Settled, Final
<1>3. finals[t] = 0 /\ t \notin monitorNotes /\ \A v \in Workers : Owes(v) => held[v] # t
  BY <1>2 DEF Reports
<1>4. PICK s \in TaskStates : /\ note' = [note EXCEPT ![w] = Copied(s)]
                              /\ taskState' = [taskState EXCEPT ![t] = s]
  BY ZenonT(30) DEF Completion, complete_task, requeue_task, TaskStates, Waiting, Final
<1>5. /\ UNCHANGED <<finals, monitorNotes, held>>
      /\ \E where \in Reporting : pc' = [pc EXCEPT ![w] = where]
  BY Zenon DEF Completion, complete_task, requeue_task, monitorVars, Reporting
<1>6. \A u \in Tasks : Settled(u) => Settled(u)'
  BY SettledStays DEF Settled
<1>7. \A v \in Workers \ {w} : Owes(v)' <=> Owes(v)
  BY <1>1, <1>4, <1>5, Zenon DEF Owes
<1>8. Owes(w)' => Settled(t)'
  <2>1. Owes(w)' => s \in Final
    BY <1>1, <1>4 DEF Owes, Copied, Final
  <2>2. taskState'[t] = s /\ t' = t
    BY <1>1, <1>2, <1>4, <1>5
  <2> QED BY <2>1, <2>2, Zenon DEF Settled
<1> QED BY <1>1, <1>2, <1>3, <1>5, <1>6, <1>7, <1>8, Zenon DEF Reports

(* A worker's callback pays what the worker owed.                          *)
LEMMA ReportReports ==
  ASSUME IInv, Reports, NEW w \in Workers, report(w)
  PROVE  Reports'
<1>1. /\ pc \in [Workers -> WorkerPC] /\ note \in [Workers -> TaskStates \cup {"none"}]
      /\ held \in [Workers -> Tasks \cup {NoTask}] /\ finals \in [Tasks -> Nat]
      /\ monitorNotes \subseteq Tasks
  BY DEF IInv, TypeOK
<1>2. UNCHANGED <<taskState, monitorNotes>> /\ \A t \in Tasks : Settled(t)' = Settled(t)
  BY DEF report, taskVars, monitorVars, Settled
<1>3. ~Owes(w)' /\ \A v \in Workers \ {w} : Owes(v)' = Owes(v) /\ held'[v] = held[v]
  BY <1>1, Zenon DEF report, Owes, Reporting
<1>4. CASE note[w] \in Final
  <2> DEFINE t == held[w]
  <2>1. Owes(w) /\ t \in Tasks /\ Settled(t) /\ finals[t] = 0 /\ t \notin monitorNotes
    BY <1>4 DEF report, Owes, Reports
  <2>2. finals'[t] = 1 /\ \A u \in Tasks \ {t} : finals'[u] = finals[u]
    BY <1>1, <1>4, <2>1 DEF report
  <2>3. \A v \in Workers \ {w} : Owes(v) => held[v] # t
    BY <2>1 DEF Reports
  <2> HIDE DEF t
  <2> QED BY <1>1, <1>2, <1>3, <2>1, <2>2, <2>3 DEF Reports
<1>5. CASE note[w] \notin Final
  <2>1. finals' = finals
    BY <1>5, Zenon DEF report
  <2> QED BY <1>1, <1>2, <1>3, <2>1 DEF Reports
<1> QED BY <1>4, <1>5

(* So does the monitor's.                                                  *)
LEMMA MonitorReports ==
  ASSUME IInv, Reports, NEW t \in Tasks, monitor_report(t)
  PROVE  Reports'
<1>1. finals \in [Tasks -> Nat] /\ monitorNotes \subseteq Tasks
  BY DEF IInv, TypeOK
<1>2. UNCHANGED <<taskState, pc, held, note>> /\ t \in monitorNotes
      /\ monitorNotes' = monitorNotes \ {t}
  BY DEF monitor_report, taskVars, workerVars
<1>3. /\ \A u \in Tasks : Settled(u)' = Settled(u)
      /\ \A w \in Workers : Owes(w)' = Owes(w)
  BY <1>2 DEF Settled, Owes
<1>4. Settled(t) /\ finals[t] = 0
  BY <1>2 DEF Reports
<1>5. finals'[t] = 1 /\ \A u \in Tasks \ {t} : finals'[u] = finals[u]
  BY <1>1, <1>4 DEF monitor_report
<1>6. \A w \in Workers : Owes(w) => held[w] # t
  BY <1>2 DEF Reports
<1> QED BY <1>1, <1>2, <1>3, <1>4, <1>5, <1>6, Zenon DEF Reports

(* The purge promises reports of waiting tasks only, which no worker has.  *)
LEMMA HealthReports ==
  ASSUME IInv, Reports, [Next]_vars, NEW ok \in BOOLEAN, health_check(ok)
  PROVE  Reports'
<1>1. /\ monitorNotes \subseteq Tasks /\ taskState \in [Tasks -> TaskStates \cup {"Absent"}]
      /\ finals \in [Tasks -> Nat]
  BY DEF IInv, TypeOK
<1>2. UNCHANGED <<finals, held, note>> /\ pc' = Woken
  BY DEF health_check
<1>3. \A w \in Workers : Owes(w)' => Owes(w)
  BY <1>2 DEF Owes, Woken, Reporting
<1>4. \A u \in Tasks : Settled(u) => Settled(u)'
  BY SettledStays DEF Settled
<1>5. PICK s \in ServiceStates : set_service_state(s) /\ monitorNotes' = PendingCallbacks(s)
  BY DEF health_check, ServiceStates
<1>6. \A t \in monitorNotes' : t \in Tasks /\ Purges(s) /\ taskState[t] \in Waiting
  BY <1>5 DEF PendingCallbacks
<1>7. \A t \in monitorNotes' : t \in Tasks /\ ~Settled(t) /\ Settled(t)'
  BY <1>5, <1>6, Zenon DEF set_service_state, GivenUp, Settled, Final, Waiting
<1>8. \A t \in monitorNotes' : finals[t] = 0 /\ \A w \in Workers : Owes(w) => held[w] # t
  BY <1>7 DEF Reports
<1> QED BY <1>1, <1>2, <1>3, <1>4, <1>7, <1>8 DEF Reports

(* Every step keeps the account of reports.                                *)
LEMMA ReportsStep == IInv /\ Reports /\ [Next]_vars => Reports'
<1> SUFFICES ASSUME IInv, Reports, [Next]_vars PROVE Reports'
  OBVIOUS
<1>1. TypeOK /\ monitorNotes \subseteq Tasks
  BY Zenon DEF IInv, TypeOK
<1>2. CASE Silent
  <2>1. \A u \in Tasks : Settled(u) => Settled(u)'
    BY SettledStays DEF Settled
  <2>2. \A w \in Workers : Owes(w)' => Owes(w) /\ held'[w] = held[w]
    BY <1>2 DEF Silent, Owes
  <2> QED BY <1>1, <1>2, <2>1, <2>2 DEF Silent, Reports
<1> QED BY <1>1, <1>2, StepSilent, EndingReports, ReportReports, MonitorReports, HealthReports, Zenon

(* The account of reports is always right.                                 *)
LEMMA ReportsAlways == Spec => []Reports
<1>1. Init => Reports
  BY DEF Init, Reports, Owes, Reporting
<1> QED BY <1>1, ReportsStep, Inductive, PTL DEF Spec

(* The callback hears of the end of a task at most once, and only of one   *)
(* that ended, whichever of workers and monitor report it.                 *)
THEOREM ReportCorrect == Spec => []OneFinalReport
<1>1. ASSUME IInv, Reports PROVE OneFinalReport
  <2> SUFFICES ASSUME NEW t \in Tasks
               PROVE  /\ finals[t] + PendingFinals(t) <= 1
                      /\ finals[t] + PendingFinals(t) = 1 => Settled(t)
    BY DEF OneFinalReport
  <2> DEFINE owing == {w \in Workers : pc[w] \in Reporting /\ held[w] = t /\ note[w] \in Final}
             noted == IF t \in monitorNotes THEN 1 ELSE 0
  <2>1. PendingFinals(t) = Cardinality(owing) + noted
    BY DEF PendingFinals
  <2>2. CASE owing = {}
    <3>1. Cardinality(owing) = 0
      BY <2>2, FS_EmptySet
    <3> HIDE DEF owing
    <3> QED BY <1>1, <2>1, <3>1 DEF Reports
  <2>3. CASE owing # {}
    <3>1. PICK w \in owing : TRUE
      BY <2>3
    <3>2. w \in Workers /\ Owes(w) /\ held[w] = t
      BY <3>1 DEF Owes
    <3>3. Settled(t) /\ finals[t] = 0 /\ noted = 0
      BY <1>1, <3>2 DEF Reports
    <3>4. owing = {w}
      BY <1>1, <3>1, <3>2 DEF Reports, Owes
    <3>5. Cardinality(owing) = 1
      BY <3>4, FS_Singleton
    <3> HIDE DEF owing, noted
    <3> QED BY <2>1, <3>3, <3>5
  <2> QED BY <2>2, <2>3
<1> QED BY <1>1, Inductive, ReportsAlways, PTL

-----------------------------------------------------------------------------
(* The manager implements the ledger.                                      *)

(* A step of the manager is a step of TaskLedger or leaves it alone.       *)
LEMMA LedgerStep ==
  ASSUME IInv, Reports, [Next]_vars
  PROVE  [Ledger!Next]_(Ledger!ledger)
<1>1. /\ TypeOK /\ TaskInOnePlace /\ Tries /\ MaxRetries \in Nat
      /\ finals \in [Tasks -> Nat] /\ taskState \in [Tasks -> TaskStates \cup {"Absent"}]
  BY ConfigAssumption DEF IInv, TypeOK
<1>2. CASE UNCHANGED <<taskState, attempts, finals>>
  BY <1>2 DEF Ledger!ledger
<1>3. ASSUME NEW s \in {"Failed", "Cancelled"}, taskState' = GivenUp(s),
             UNCHANGED <<attempts, finals>>
      PROVE  Ledger!Next
  <2>1. Ledger!GiveUpAll(s)
    BY <1>3 DEF Ledger!GiveUpAll, GivenUp, Waiting, Ledger!WaitingStates
  <2> QED BY <2>1 DEF Ledger!Next
<1>4. ASSUME NEW t \in Tasks, Settled(t), finals[t] = 0,
             finals' = [finals EXCEPT ![t] = finals[t] + 1], UNCHANGED <<taskState, attempts>>
      PROVE  Ledger!Next
  <2>1. finals' = [finals EXCEPT ![t] = 1]
    BY <1>4
  <2>2. Ledger!Tell(t)
    BY <1>4, <2>1, Zenon DEF Ledger!Tell, Ledger!EndStates, Settled, Final
  <2> QED BY <2>2 DEF Ledger!Next
<1>5. CASE \/ UNCHANGED vars \/ start \/ set_result_callback \/ stop_set_state
           \/ stop_join_monitor \/ stop_join_workers \/ wait_for_idle
           \/ wait_evaluate \/ wait_timeout \/ monitor_check \/ monitor_wake
  BY <1>2, <1>5 DEF vars, taskVars, start, set_result_callback, stop_set_state,
     set_service_state, Purges, stop_join_monitor, stop_join_workers, wait_for_idle,
     wait_evaluate, wait_timeout, monitor_check, monitor_wake
<1>6. CASE stop_begin
  BY <1>3, <1>6 DEF stop_begin
<1>7. ASSUME NEW t \in Tasks, enqueue(t) PROVE Ledger!Next
  <2>1. Ledger!Submit(t)
    BY <1>7 DEF enqueue, Ledger!Submit
  <2> QED BY <2>1 DEF Ledger!Next
<1>8. ASSUME NEW t \in Tasks, enqueue_notify(t) PROVE UNCHANGED <<taskState, attempts, finals>>
  BY <1>8 DEF enqueue_notify, taskVars
<1>9. ASSUME NEW t \in Tasks, monitor_report(t) PROVE Ledger!Next
  <2>1. Settled(t) /\ finals[t] = 0
    BY <1>9, Zenon DEF monitor_report, Reports
  <2> QED BY <1>4, <1>9, <2>1, ZenonT(30) DEF monitor_report, taskVars
<1>10. ASSUME NEW w \in Workers,
              \/ take_exit(w) \/ take_wait_service(w) \/ take_wait_item(w)
              \/ take_wait_retry(w) \/ spurious_wakeup(w) \/ requeue_notify(w)
       PROVE  UNCHANGED <<taskState, attempts, finals>>
  BY <1>10, Zenon DEF take_exit, take_wait_service, take_wait_item, take_wait_retry,
     spurious_wakeup, requeue_notify, MoveTo, taskVars
<1>11. ASSUME NEW w \in Workers, take_item(w) PROVE Ledger!Next
  <2>1. PICK i \in DOMAIN queue[ClassOf(w)] : take_at(w, i)
    BY <1>11 DEF take_item
  <2> DEFINE t == queue[ClassOf(w)][i]
  <2>2. t \in Tasks /\ taskState[t] \in Waiting /\ attempts[t] <= MaxRetries
    BY <1>1, TakenIsWaiting, Zenon DEF Tries
  <2>3. Ledger!Try(t)
    BY <2>1, <2>2, Zenon DEF take_at, Ledger!Try, Ledger!WaitingStates, Waiting
  <2> QED BY <2>2, <2>3, Zenon DEF Ledger!Next
<1>12. ASSUME NEW w \in Workers, pc[w] \in Holding, NEW s \in Final,
              taskState' = [taskState EXCEPT ![held[w]] = s], UNCHANGED <<attempts, finals>>
       PROVE  Ledger!Next
  <2>1. held[w] \in Tasks /\ taskState[held[w]] = "InProgress"
    BY <1>1, <1>12 DEF TaskInOnePlace, HeldOnce, Holders
  <2>2. Ledger!Finish(held[w], s)
    BY <1>12, <2>1 DEF Ledger!Finish
  <2>3. s \in Ledger!EndStates
    BY DEF Ledger!EndStates, Final
  <2> QED BY <2>1, <2>2, <2>3, Zenon DEF Ledger!Next
<1>13. ASSUME NEW w \in Workers, Completion(w) PROVE Ledger!Next
  <2>1. PICK s \in Final : complete_task(w, s)
    BY <1>13 DEF Completion
  <2>2. pc[w] \in Holding
    BY <1>13 DEF Completion, Holding
  <2> QED BY <1>12, <2>1, <2>2, Zenon DEF complete_task
<1>14. ASSUME NEW w \in Workers, transfer_retries(w) PROVE UNCHANGED <<taskState, attempts, finals>>
  BY <1>14 DEF transfer_retries, set_service_state, Purges
<1>15. ASSUME NEW w \in Workers, requeue_task(w) PROVE Ledger!Next
  <2>1. pc[w] \in Holding /\ UNCHANGED <<attempts, finals>>
    BY <1>15 DEF requeue_task, Holding
  <2>2. CASE Dropped
    <3>1. PICK s \in Final : taskState' = [taskState EXCEPT ![held[w]] = s]
      BY <1>15, <2>2, ZenonT(30) DEF requeue_task, Final
    <3> QED BY <1>12, <2>1, <3>1, Zenon
  <2>3. CASE ~Dropped
    <3>1. held[w] \in Tasks /\ taskState[held[w]] = "InProgress"
      BY <1>1, <2>1 DEF TaskInOnePlace, HeldOnce, Holders
    <3>2. attempts[held[w]] <= MaxRetries
      BY <1>1, <1>15, ZenonT(30) DEF Tries, requeue_task
    <3>3. Ledger!PutBack(held[w])
      BY <1>15, <2>1, <2>3, <3>1, <3>2, ZenonT(30) DEF requeue_task, Ledger!PutBack
    <3> QED BY <3>1, <3>3, Zenon DEF Ledger!Next
  <2> QED BY <2>2, <2>3, Zenon
<1>16. ASSUME NEW w \in Workers, report(w) PROVE [Ledger!Next]_(Ledger!ledger)
  <2>1. UNCHANGED <<taskState, attempts>>
    BY <1>16 DEF report, taskVars
  <2>2. CASE note[w] \in Final
    <3>1. held[w] \in Tasks /\ Settled(held[w]) /\ finals[held[w]] = 0
      BY <1>16, <2>2 DEF report, Reports, Owes
    <3> QED BY <1>4, <1>16, <2>1, <2>2, <3>1, Zenon DEF report
  <2>3. CASE note[w] \notin Final
    BY <1>2, <1>16, <2>1, <2>3, Zenon DEF report
  <2> QED BY <2>2, <2>3
<1>17. ASSUME NEW c \in Classes, retry_delay_elapsed(c) PROVE UNCHANGED <<taskState, attempts, finals>>
  BY <1>17 DEF retry_delay_elapsed
<1>18. ASSUME NEW ok \in BOOLEAN, health_check(ok) PROVE [Ledger!Next]_(Ledger!ledger)
  <2>1. /\ UNCHANGED <<attempts, finals>>
        /\ taskState' = GivenUp("Failed") \/ UNCHANGED taskState
    BY <1>18 DEF health_check, set_service_state
  <2> QED BY <1>2, <1>3, <2>1
<1> QED BY <1>2, <1>5, <1>6, <1>7, <1>8, <1>9, <1>10, <1>11, <1>13, <1>14, <1>15, <1>16,
           <1>17, <1>18, StepCases, Zenon

(* Seen from results_ and the callback, the manager with all its threads   *)
(* is TaskLedger: accepted once, tried a bounded number of times, ended    *)
(* once, reported at most once.                                            *)
THEOREM LedgerCorrect == Spec => LedgerKept
<1>1. Init => Ledger!Init
  BY DEF Init, Ledger!Init
<1> QED BY <1>1, LedgerStep, Inductive, ReportsAlways, PTL DEF Spec, LedgerKept, Ledger!Spec
=============================================================================
