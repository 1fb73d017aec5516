---------------------------- MODULE SyncManager ----------------------------
(***************************************************************************)
(* clsync::SyncManager (net/sync_manager.cpp): two task queues, a pool of  *)
(* worker threads for each, a monitor thread that polls the health URL,    *)
(* and the threads of the program that call start, enqueue, wait_for_idle  *)
(* and stop.                                                               *)
(*                                                                         *)
(* Everything the code does while it holds mutex_ is one atomic step.      *)
(* Steps are cut wherever the mutex is released: around a transfer, around *)
(* the result callback, between a push and its notify_all, between the     *)
(* parts of stop.  A thread asleep on a condition variable is woken only   *)
(* by a notify_all, by its timer or spuriously; every predicate it then    *)
(* re-evaluates is re-evaluated at the top of take_task's loop.            *)
(*                                                                         *)
(* Definitions with a suffix (GivenUp_running, ...) are deliberately wrong *)
(* variants of the definition that follows them; nothing uses them, and    *)
(* each shows that a property notices the fault.                           *)
(***************************************************************************)
EXTENDS Integers, FiniteSets, Sequences, Functions, Transfer

CONSTANTS
  Tasks,          \* task ids that clients may submit
  LargeTasks,     \* the ones is_large_task sends to the large queue
  SmallWorkers,   \* threads started with worker_loop(false)
  LargeWorkers,   \* threads started with worker_loop(true)
  MaxRetries,     \* SyncConfig::max_retries
  NoTask          \* what a worker without a task holds

(* start refuses a configuration without workers of both kinds.            *)
ASSUME ConfigAssumption ==
  /\ IsFiniteSet(SmallWorkers) /\ SmallWorkers # {}
  /\ IsFiniteSet(LargeWorkers) /\ LargeWorkers # {}
  /\ SmallWorkers \cap LargeWorkers = {}
  /\ LargeTasks \subseteq Tasks
  /\ MaxRetries \in Nat
  /\ NoTask \notin Tasks

VARIABLES
  started,        \* started_
  stopping,       \* stopping_
  serviceState,   \* service_state_
  queue,          \* small_queue_ and large_queue_: sequences of task ids
  delayed,        \* queued tasks whose ready_at is still in the future
  taskState,      \* results_[id].state; "Absent" when id is not in results_
  attempts,       \* results_[id].attempts
  active,         \* active_tasks_
  hasCallback,    \* result_callback_ is set
  pc,             \* where each worker thread is
  held,           \* the task a worker is processing or reporting
  note,           \* the state a worker is about to report; "none" without callback
  monitor,        \* where the monitor thread is
  failures,       \* consecutive_failures, capped at MaxRetries + 1
  monitorNotes,   \* pending_callbacks of the monitor's set_service_state
  ctl,            \* how far the running call of stop has come
  unnotified,     \* tasks whose enqueue has pushed but not yet notified
  waiter,         \* the thread that calls wait_for_idle; "idle": it returned true
  finals          \* history: final reports the callback received, per task

taskVars    == <<queue, delayed, taskState, attempts, active>>
workerVars  == <<pc, held, note>>
monitorVars == <<monitor, failures, monitorNotes>>
vars == <<started, stopping, serviceState, taskVars, hasCallback, workerVars,
          monitorVars, ctl, unnotified, waiter, finals>>

-----------------------------------------------------------------------------
Workers == SmallWorkers \cup LargeWorkers
Classes == {"small", "large"}
ClassOf(w) == IF w \in LargeWorkers THEN "large" ELSE "small"

(* is_large_task, asked once, when the task is accepted: QueueItem::large. *)
QueueOf(t) == IF t \in LargeTasks THEN "large" ELSE "small"

Waiting == {"Pending", "Retry"}                    \* queued
Final   == {"Completed", "Failed", "Cancelled"}    \* never run again
TaskStates    == Waiting \cup Final \cup {"InProgress"}
ServiceStates == {"Connecting", "Connected", "Disconnected", "Error", "Stopping"}

Asleep   == {"waitService", "waitItem", "waitRetry"}  \* in queue_cv_.wait*
Holding  == {"transfer", "requeue"}                   \* counted in active_tasks_
Reporting == {"reportDone", "reportRetry"}           \* about to run the callback
WorkerPC == {"off", "take", "notify", "exited"} \cup Asleep \cup Holding \cup Reporting

EmptyQueues == [c \in Classes |-> <<>>]

(* queue_cv_.notify_all(): every sleeping worker goes back to the loop.    *)
Woken == [w \in Workers |-> IF pc[w] \in Asleep THEN "take" ELSE pc[w]]

(* idle_cv_.notify_all().                                                  *)
WokenWaiter == IF waiter = "asleep" THEN "awake" ELSE waiter

(* Every Pending or Retry task gets the final state s.                     *)
GivenUp_running(s) == [t \in Tasks |-> IF taskState[t] \in Waiting \cup {"InProgress"}
                                       THEN s ELSE taskState[t]]
GivenUp(s) == [t \in Tasks |-> IF taskState[t] \in Waiting THEN s ELSE taskState[t]]

(* set_service_state(s), up to the callbacks it runs after unlocking: the  *)
(* first step into Error fails every queued task and empties the queues.   *)
Purges(s) == s = "Error" /\ serviceState # "Error"
set_service_state(s) ==
  /\ serviceState' = s
  /\ taskState' = IF Purges(s) THEN GivenUp("Failed") ELSE taskState
  /\ queue'   = IF Purges(s) THEN EmptyQueues ELSE queue
  /\ delayed' = IF Purges(s) THEN {} ELSE delayed
  /\ waiter'  = WokenWaiter

-----------------------------------------------------------------------------
(* The calls of the client threads.                                        *)

(* start: only ever called by the thread that also calls stop.             *)
start ==
  /\ ~started /\ ctl = "idle"
  /\ stopping' = FALSE
  /\ started' = TRUE
  /\ serviceState' = "Connecting"
  /\ pc' = [w \in Workers |-> "take"]
  /\ monitor' = "check"
  /\ failures' = 0
  /\ UNCHANGED <<taskVars, hasCallback, held, note, monitorNotes, ctl,
                 unnotified, waiter, finals>>

set_result_callback ==
  /\ hasCallback' = TRUE
  /\ UNCHANGED <<started, stopping, serviceState, taskVars, workerVars,
                 monitorVars, ctl, unnotified, waiter, finals>>

(* enqueue, up to the end of its critical section; a rejected call changes *)
(* nothing.                                                                *)
enqueue(t) ==
  /\ started /\ ~stopping
  /\ taskState[t] = "Absent"
  /\ taskState' = [taskState EXCEPT ![t] = "Pending"]
  /\ queue' = [queue EXCEPT ![QueueOf(t)] = Append(@, t)]
  /\ unnotified' = unnotified \cup {t}
  /\ UNCHANGED <<started, stopping, serviceState, delayed, attempts, active,
                 hasCallback, workerVars, monitorVars, ctl, waiter, finals>>

(* enqueue's notify_all, after the mutex was released.                     *)
enqueue_notify_one(t) ==
  /\ t \in unnotified
  /\ unnotified' = unnotified \ {t}
  /\ \E w \in Workers : pc' = [pc EXCEPT ![w] = Woken[w]]
  /\ UNCHANGED <<started, stopping, serviceState, taskVars, hasCallback, held,
                 note, monitorVars, ctl, waiter, finals>>
enqueue_notify(t) ==
  /\ t \in unnotified
  /\ unnotified' = unnotified \ {t}
  /\ pc' = Woken
  /\ UNCHANGED <<started, stopping, serviceState, taskVars, hasCallback, held,
                 note, monitorVars, ctl, waiter, finals>>

(* stop's critical section: queued tasks are cancelled without a callback. *)
stop_begin ==
  /\ started
  /\ stopping' = TRUE
  /\ started' = FALSE
  /\ taskState' = GivenUp("Cancelled")
  /\ queue' = EmptyQueues
  /\ delayed' = {}
  /\ ctl' = "setState"
  /\ UNCHANGED <<serviceState, attempts, active, hasCallback,
                 workerVars, monitorVars, unnotified, waiter, finals>>

(* stop: set_service_state(Stopping) and the two notify_all after it.      *)
stop_set_state_silently ==
  /\ ctl = "setState"
  /\ set_service_state("Stopping")
  /\ ctl' = "joinMonitor"
  /\ UNCHANGED <<started, stopping, attempts, active, hasCallback, workerVars,
                 monitorVars, unnotified, finals>>
stop_set_state ==
  /\ ctl = "setState"
  /\ set_service_state("Stopping")
  /\ pc' = Woken
  /\ ctl' = "joinMonitor"
  /\ UNCHANGED <<started, stopping, attempts, active, hasCallback,
                 held, note, monitorVars, unnotified, finals>>

stop_join_monitor ==
  /\ ctl = "joinMonitor"
  /\ monitor = "exited"
  /\ monitor' = "off"
  /\ failures' = 0                  \* a local of monitor_loop
  /\ ctl' = "joinWorkers"
  /\ UNCHANGED <<started, stopping, serviceState, taskVars, hasCallback,
                 workerVars, monitorNotes, unnotified, waiter, finals>>

stop_join_workers ==
  /\ ctl = "joinWorkers"
  /\ \A w \in Workers : pc[w] = "exited"
  /\ pc' = [w \in Workers |-> "off"]
  /\ ctl' = "idle"
  /\ UNCHANGED <<started, stopping, serviceState, taskVars, hasCallback, held,
                 note, monitorVars, unnotified, waiter, finals>>

(* wait_for_idle: the predicate of idle_cv_.wait_for, and the answer.      *)
Quiet_queues == queue = EmptyQueues
Quiet      == active = 0 /\ queue = EmptyQueues
IdleOrOver == Quiet \/ serviceState = "Error" \/ stopping
Answer == IF IdleOrOver /\ serviceState # "Error" /\ ~stopping
          THEN "idle" ELSE "none"

wait_for_idle ==
  /\ waiter \in {"none", "idle"}
  /\ waiter' = "awake"
  /\ UNCHANGED <<started, stopping, serviceState, taskVars, hasCallback,
                 workerVars, monitorVars, ctl, unnotified, finals>>

wait_evaluate ==
  /\ waiter = "awake"
  /\ waiter' = IF IdleOrOver THEN Answer ELSE "asleep"
  /\ UNCHANGED <<started, stopping, serviceState, taskVars, hasCallback,
                 workerVars, monitorVars, ctl, unnotified, finals>>

(* The deadline passes; wait_for evaluates the predicate once more.        *)
wait_timeout ==
  /\ waiter \in {"awake", "asleep"}
  /\ waiter' = Answer
  /\ UNCHANGED <<started, stopping, serviceState, taskVars, hasCallback,
                 workerVars, monitorVars, ctl, unnotified, finals>>

-----------------------------------------------------------------------------
(* take_task: one iteration of its loop, under the mutex.                  *)

MoveTo(w, where) ==
  /\ pc' = [pc EXCEPT ![w] = where]
  /\ UNCHANGED <<started, stopping, serviceState, taskVars, hasCallback, held,
                 note, monitorVars, ctl, unnotified, waiter, finals>>

(* return std::nullopt: worker_loop ends and with it the thread.           *)
take_exit_disconnected(w) ==
  /\ pc[w] = "take"
  /\ stopping \/ serviceState \in {"Error", "Disconnected"}
  /\ MoveTo(w, "exited")
take_exit(w) ==
  /\ pc[w] = "take"
  /\ stopping \/ serviceState = "Error"
  /\ MoveTo(w, "exited")

CanTake(w) == pc[w] = "take" /\ ~stopping /\ serviceState = "Connected"

take_wait_service(w) ==
  /\ pc[w] = "take" /\ ~stopping
  /\ serviceState \notin {"Connected", "Error"}
  /\ MoveTo(w, "waitService")

(* std::find_if: the first item of the queue that is ready.                *)
IsFirstReady(q, i) ==
  /\ i \in DOMAIN q
  /\ q[i] \notin delayed
  /\ \A j \in 1 .. (i - 1) : q[j] \in delayed

(* queue.erase(available).                                                 *)
Erased_front(q, i) == Tail(q)
Erased(q, i) == SubSeq(q, 1, i - 1) \o SubSeq(q, i + 1, Len(q))

take_at(w, i) ==
  LET c == ClassOf(w)
      t == queue[c][i]
  IN
  /\ CanTake(w)
  /\ IsFirstReady(queue[c], i)
  /\ queue' = [queue EXCEPT ![c] = Erased(@, i)]
  /\ taskState' = [taskState EXCEPT ![t] = "InProgress"]
  /\ attempts' = [attempts EXCEPT ![t] = @ + 1]
  /\ active' = active + 1
  /\ pc' = [pc EXCEPT ![w] = "transfer"]
  /\ held' = [held EXCEPT ![w] = t]
  /\ UNCHANGED <<started, stopping, serviceState, delayed, hasCallback, note,
                 monitorVars, ctl, unnotified, waiter, finals>>

take_item(w) == \E i \in DOMAIN queue[ClassOf(w)] : take_at(w, i)

take_wait_item(w) ==
  /\ CanTake(w)
  /\ queue[ClassOf(w)] = <<>>
  /\ MoveTo(w, "waitItem")

(* wait_until(next_ready->ready_at): no predicate, only a deadline.        *)
take_wait_retry(w) ==
  /\ CanTake(w)
  /\ queue[ClassOf(w)] # <<>>
  /\ Range(queue[ClassOf(w)]) \subseteq delayed
  /\ MoveTo(w, "waitRetry")

(* A condition variable may wake a thread for no reason.                   *)
spurious_wakeup(w) ==
  /\ pc[w] \in Asleep
  /\ MoveTo(w, "take")

(* The clock passes ready_at of the next delayed item of queue c (ready_at *)
(* grows along them) and the wait_until deadlines that it set.          *)
retry_delay_elapsed(c) ==
  \E i \in DOMAIN queue[c] :
    /\ queue[c][i] \in delayed
    /\ \A j \in 1 .. (i - 1) : queue[c][j] \notin delayed
    /\ delayed' = delayed \ {queue[c][i]}
    /\ pc' = [w \in Workers |-> IF pc[w] = "waitRetry" /\ ClassOf(w) = c
                                THEN "take" ELSE pc[w]]
    /\ UNCHANGED <<started, stopping, serviceState, queue, taskState, attempts,
                   active, hasCallback, held, note, monitorVars, ctl,
                   unnotified, waiter, finals>>

-----------------------------------------------------------------------------
(* process_task: the outcome of the transfer and what follows from it.     *)

(* The result copied under the mutex for the callback, if there is one.    *)
Copied(s) == IF hasCallback THEN s ELSE "none"

(* What complete_task and requeue_task both end with: one task less, and   *)
(* idle_cv_.notify_all() if that was the last one.                         *)
Decremented_not == active
Decremented == IF active > 0 THEN active - 1 ELSE active
NotifiedIdle_early(n, q) == IF active = 0 /\ q = EmptyQueues THEN WokenWaiter ELSE waiter
NotifiedIdle(n, q) == IF n = 0 /\ q = EmptyQueues THEN WokenWaiter ELSE waiter

(* complete_task, up to the callback.                                      *)
complete_task(w, s) ==
  /\ taskState' = [taskState EXCEPT ![held[w]] = s]
  /\ active' = Decremented
  /\ waiter' = NotifiedIdle(Decremented, queue)
  /\ note' = [note EXCEPT ![w] = Copied(s)]
  /\ pc' = [pc EXCEPT ![w] = "reportDone"]
  /\ UNCHANGED <<started, stopping, serviceState, queue, delayed, attempts,
                 hasCallback, held, monitorVars, ctl, unnotified, finals>>

transfer_succeeds(w) ==
  /\ pc[w] = "transfer"
  /\ complete_task(w, "Completed")

(* resolve_local_path refuses the path: nothing is transferred.            *)
path_refused(w) ==
  /\ pc[w] = "transfer"
  /\ complete_task(w, "Failed")

Retries(w, r) == is_retryable(r.status, r.error) /\ attempts[held[w]] <= MaxRetries

transfer_fails(w) ==
  /\ pc[w] = "transfer"
  /\ ~\A r \in FailedTransfers : Retries(w, r)
  /\ complete_task(w, "Failed")

(* A retryable failure; without an answer, or with a server error, the     *)
(* worker also declares the service disconnected.                          *)
transfer_retries(w) ==
  /\ pc[w] = "transfer"
  /\ \E r \in FailedTransfers :
       /\ Retries(w, r)
       /\ IF r.status \in {"0", "5xx"}
          THEN /\ set_service_state("Disconnected")
               /\ pc' = [Woken EXCEPT ![w] = "requeue"]
          ELSE /\ pc' = [pc EXCEPT ![w] = "requeue"]
               /\ UNCHANGED <<serviceState, taskState, queue, delayed, waiter>>
  /\ UNCHANGED <<started, stopping, attempts, active, hasCallback, held,
                 note, monitorVars, ctl, unnotified, finals>>

(* requeue_task, up to the callback: the task is dropped if the manager    *)
(* was stopped or the service given up in the meantime.                    *)
Dropped_on_stop == stopping
Dropped_on_error == serviceState = "Error"
Dropped == stopping \/ serviceState = "Error"

PushedBack(t) == [queue EXCEPT ![QueueOf(t)] = Append(@, t)]

requeue_task(w) ==
  LET t == held[w]
      s == IF ~Dropped THEN "Retry" ELSE IF stopping THEN "Cancelled" ELSE "Failed"
  IN
  /\ pc[w] = "requeue"
  /\ taskState' = [taskState EXCEPT ![t] = s]
  /\ queue' = IF Dropped THEN queue ELSE PushedBack(t)
  /\ delayed' = IF Dropped THEN delayed ELSE delayed \cup {t}
  /\ active' = Decremented
  /\ waiter' = NotifiedIdle(Decremented, queue')
  /\ note' = [note EXCEPT ![w] = Copied(s)]
  /\ pc' = [pc EXCEPT ![w] = "reportRetry"]
  /\ UNCHANGED <<started, stopping, serviceState, attempts, hasCallback,
                 held, monitorVars, ctl, unnotified, finals>>

(* if (callback) callback(result), with no lock held.                      *)
report(w) ==
  /\ pc[w] \in Reporting
  /\ finals' = IF note[w] \in Final THEN [finals EXCEPT ![held[w]] = @ + 1] ELSE finals
  /\ pc' = [pc EXCEPT ![w] = IF pc[w] = "reportRetry" THEN "notify" ELSE "take"]
  /\ held' = [held EXCEPT ![w] = NoTask]
  /\ note' = [note EXCEPT ![w] = "none"]
  /\ UNCHANGED <<started, stopping, serviceState, taskVars, hasCallback,
                 monitorVars, ctl, unnotified, waiter>>

(* The notify_all that ends requeue_task.                                  *)
requeue_notify(w) ==
  /\ pc[w] = "notify"
  /\ pc' = [Woken EXCEPT ![w] = "take"]
  /\ UNCHANGED <<started, stopping, serviceState, taskVars, hasCallback, held,
                 note, monitorVars, ctl, unnotified, waiter, finals>>

-----------------------------------------------------------------------------
(* monitor_loop.                                                           *)

monitor_check ==
  /\ monitor = "check"
  /\ monitor' = IF stopping THEN "exited" ELSE "get"
  /\ UNCHANGED <<started, stopping, serviceState, taskVars, hasCallback,
                 workerVars, failures, monitorNotes, ctl, unnotified, waiter, finals>>

(* The results set_service_state(s) is going to report.                    *)
PendingCallbacks_none(s) == {}
PendingCallbacks(s) ==
  {t \in Tasks : Purges(s) /\ hasCallback /\ taskState[t] \in Waiting}

(* http_get returns and set_service_state follows.                         *)
health_check(ok) ==
  LET n == IF ok THEN 0
           ELSE IF failures > MaxRetries THEN failures ELSE failures + 1
      s == IF ok THEN "Connected"
           ELSE IF n > MaxRetries THEN "Error" ELSE "Disconnected"
  IN
  /\ monitor = "get"
  /\ failures' = n
  /\ set_service_state(s)
  /\ pc' = Woken
  /\ monitorNotes' = PendingCallbacks(s)
  /\ monitor' = IF monitorNotes' = {} THEN "sleep" ELSE "report"
  /\ UNCHANGED <<started, stopping, attempts, active, hasCallback, held,
                 note, ctl, unnotified, finals>>

(* One of the callbacks at the end of set_service_state, in the order of   *)
(* the hash table.                                                         *)
monitor_report(t) ==
  /\ monitor = "report"
  /\ t \in monitorNotes
  /\ finals' = [finals EXCEPT ![t] = @ + 1]
  /\ monitorNotes' = monitorNotes \ {t}
  /\ monitor' = IF monitorNotes' = {} THEN "sleep" ELSE "report"
  /\ UNCHANGED <<started, stopping, serviceState, taskVars, hasCallback,
                 workerVars, failures, ctl, unnotified, waiter>>

(* queue_cv_.wait_for(monitor_interval, stopping_) returns.                *)
monitor_wake ==
  /\ monitor = "sleep"
  /\ monitor' = IF stopping THEN "exited" ELSE "check"
  /\ UNCHANGED <<started, stopping, serviceState, taskVars, hasCallback,
                 workerVars, failures, monitorNotes, ctl, unnotified, waiter, finals>>

-----------------------------------------------------------------------------
Init ==
  /\ started = FALSE
  /\ stopping = FALSE
  /\ serviceState = "Disconnected"
  /\ queue = EmptyQueues
  /\ delayed = {}
  /\ taskState = [t \in Tasks |-> "Absent"]
  /\ attempts = [t \in Tasks |-> 0]
  /\ active = 0
  /\ hasCallback = FALSE
  /\ pc = [w \in Workers |-> "off"]
  /\ held = [w \in Workers |-> NoTask]
  /\ note = [w \in Workers |-> "none"]
  /\ monitor = "off"
  /\ failures = 0
  /\ monitorNotes = {}
  /\ ctl = "idle"
  /\ unnotified = {}
  /\ waiter = "none"
  /\ finals = [t \in Tasks |-> 0]

take_task(w) ==
  \/ take_exit(w)
  \/ take_wait_service(w)
  \/ take_item(w)
  \/ take_wait_item(w)
  \/ take_wait_retry(w)

process_task(w) ==
  \/ transfer_succeeds(w)
  \/ path_refused(w)
  \/ transfer_fails(w)
  \/ transfer_retries(w)
  \/ requeue_task(w)
  \/ report(w)
  \/ requeue_notify(w)

worker_loop(w) == take_task(w) \/ process_task(w)

monitor_loop ==
  \/ monitor_check
  \/ \E ok \in BOOLEAN : health_check(ok)
  \/ \E t \in Tasks : monitor_report(t)
  \/ monitor_wake

stop_rest == stop_set_state \/ stop_join_monitor \/ stop_join_workers

Client ==
  \/ start
  \/ set_result_callback
  \/ \E t \in Tasks : enqueue(t)
  \/ \E t \in Tasks : enqueue_notify(t)
  \/ stop_begin
  \/ stop_rest
  \/ wait_for_idle
  \/ wait_evaluate
  \/ wait_timeout

Next ==
  \/ Client
  \/ \E w \in Workers : worker_loop(w) \/ spurious_wakeup(w)
  \/ \E c \in Classes : retry_delay_elapsed(c)
  \/ monitor_loop

Spec == Init /\ [][Next]_vars

(* A thread that can run is eventually scheduled; a transfer and a health  *)
(* check end because curl is given a timeout; time passes; a callback      *)
(* returns.  No client is obliged to call anything.                        *)
Fairness ==
  /\ \A w \in Workers : WF_vars(worker_loop(w))
  /\ WF_vars(monitor_loop)
  /\ WF_vars(stop_rest)
  /\ \A t \in Tasks : WF_vars(enqueue_notify(t))
  /\ \A c \in Classes : WF_vars(retry_delay_elapsed(c))
  /\ WF_vars(wait_evaluate)

FairSpec == Spec /\ Fairness

-----------------------------------------------------------------------------
(* Properties.                                                             *)

Known(t)   == taskState[t] # "Absent"
Settled(t) == taskState[t] \in Final
Holders    == {w \in Workers : pc[w] \in Holding}

(* Type invariant.                                                         *)
TypeOK ==
  /\ started \in BOOLEAN /\ stopping \in BOOLEAN /\ hasCallback \in BOOLEAN
  /\ serviceState \in ServiceStates
  /\ queue \in [Classes -> Seq(Tasks)]
  /\ delayed \in SUBSET Tasks
  /\ taskState \in [Tasks -> TaskStates \cup {"Absent"}]
  /\ attempts \in [Tasks -> Nat]
  /\ active \in Nat
  /\ pc \in [Workers -> WorkerPC]
  /\ held \in [Workers -> Tasks \cup {NoTask}]
  /\ note \in [Workers -> TaskStates \cup {"none"}]
  /\ monitor \in {"off", "check", "get", "report", "sleep", "exited"}
  /\ failures \in 0 .. (MaxRetries + 1)
  /\ monitorNotes \in SUBSET Tasks
  /\ ctl \in {"idle", "setState", "joinMonitor", "joinWorkers"}
  /\ unnotified \in SUBSET Tasks
  /\ waiter \in {"none", "awake", "asleep", "idle"}
  /\ finals \in [Tasks -> Nat]

(* Every accepted task is in exactly one place: waiting in the queue of    *)
(* its class, once; or in the hands of exactly one worker of its class; or *)
(* settled and in neither.  This is what take_task, requeue_task and the   *)
(* two places that clear the queues must keep between them.                *)
QueuedOnce ==
  /\ \A c \in Classes : IsInjective(queue[c])
  /\ \A c \in Classes : \A t \in Range(queue[c]) : QueueOf(t) = c
  /\ \A t \in Tasks : taskState[t] \in Waiting <=> t \in Range(queue[QueueOf(t)])
HeldOnce ==
  /\ \A w \in Holders : /\ held[w] \in Tasks
                        /\ taskState[held[w]] = "InProgress"
                        /\ QueueOf(held[w]) = ClassOf(w)
  /\ \A v, w \in Holders : held[v] = held[w] => v = w
  /\ \A t \in Tasks : taskState[t] = "InProgress" => \E w \in Holders : held[w] = t
TaskInOnePlace == QueuedOnce /\ HeldOnce

(* active_tasks_, which wait_for_idle trusts, is the number of workers     *)
(* that have a task; the guard "if (active_tasks_ > 0)" never bites.       *)
ActiveIsExact == active = Cardinality(Holders)

(* A task is tried at most max_retries + 1 times over all workers and      *)
(* restarts, and is put back only while another try is allowed.            *)
AttemptsBounded ==
  \A t \in Tasks : /\ attempts[t] <= MaxRetries + 1
                   /\ taskState[t] = "Retry" => attempts[t] <= MaxRetries

(* When stop has returned nothing is left behind: no thread, no queued or  *)
(* running task, no report still to be made.                               *)
StopLeavesNothing ==
  (ctl = "idle" /\ ~started) =>
    /\ \A t \in Tasks : Known(t) => Settled(t)
    /\ Quiet
    /\ \A w \in Workers : pc[w] = "off"
    /\ monitor = "off" /\ monitorNotes = {}

(* No lost wakeup: a worker asleep on queue_cv_ although what it waits for *)
(* has happened is one that some thread is still about to notify.          *)
AwaitedBy(w) ==
  \/ stopping
  \/ pc[w] = "waitService" /\ serviceState \in {"Connected", "Error"}
  \/ pc[w] = "waitItem" /\ (serviceState # "Connected" \/ queue[ClassOf(w)] # <<>>)
  \/ pc[w] = "waitRetry" /\ ~(Range(queue[ClassOf(w)]) \subseteq delayed)
NotifyOwed ==
  \/ unnotified # {}
  \/ \E w \in Workers : pc[w] \in {"reportRetry", "notify"}
  \/ ctl = "setState"
NoLostWakeup ==
  \A w \in Workers : pc[w] \in Asleep /\ AwaitedBy(w) => NotifyOwed

(* The same for idle_cv_: wait_for_idle never sleeps through its condition *)
(* (only stop announces it late, from set_service_state).                  *)
NoLostIdleWakeup == waiter = "asleep" /\ IdleOrOver => ctl = "setState"

(* The purge on entering Error leaves no task waiting for a retry, whoever *)
(* was in the middle of requeue_task.                                      *)
ErrorLeavesNoRetry ==
  serviceState = "Error" => \A t \in Tasks : taskState[t] # "Retry"

(* The result callback hears of the end of a task at most once, although   *)
(* workers and the monitor report without a lock.                          *)
PendingFinals(t) ==
  Cardinality({w \in Workers : pc[w] \in Reporting /\ held[w] = t /\ note[w] \in Final})
    + (IF t \in monitorNotes THEN 1 ELSE 0)
OneFinalReport ==
  \A t \in Tasks : /\ finals[t] + PendingFinals(t) <= 1
                   /\ finals[t] + PendingFinals(t) = 1 => Settled(t)

(* The manager keeps the ledger's promise: seen from results_ and from the *)
(* callback, every behaviour of its threads is a behaviour of TaskLedger.  *)
(* In particular a settled task is never run or relabelled again.          *)
Ledger == INSTANCE TaskLedger WITH state <- taskState, tries <- attempts, told <- finals
LedgerKept == Ledger!Spec

(* wait_for_idle answers true only when every accepted task is settled.    *)
IdleAnswerSound ==
  [][waiter # "idle" /\ waiter' = "idle" =>
       \A t \in Tasks : Known(t) => Settled(t)]_vars

(* stop returns: no interleaving of sleeping workers, transfers, retries   *)
(* and health checks keeps it from joining its threads.                    *)
StopReturns == (ctl # "idle") ~> (ctl = "idle")

(* If health checks succeed from some point on and the service was never   *)
(* given up (Error), every accepted task is eventually settled.            *)
TasksSettle ==
  (<>[](failures = 0) /\ [](serviceState # "Error")) =>
     \A t \in Tasks : Known(t) ~> Settled(t)

(* net/SYNC_PROTOCOL.md:3: when the service is unavailable, tasks stay in  *)
(* the queue until it recovers.  So once health checks succeed for good,   *)
(* every accepted task is settled, whatever happened before.               *)
TasksSurviveOutage ==
  <>[](failures = 0) => \A t \in Tasks : Known(t) ~> Settled(t)

(* If the callback is installed before any task ends, then every task that *)
(* completes or fails is reported, by its worker or by the monitor, even   *)
(* when stop runs at the same time.                                        *)
EndIsReported ==
  [](hasCallback \/ \A t \in Tasks : ~Settled(t)) =>
    \A t \in Tasks : taskState[t] \in {"Completed", "Failed"} ~> finals[t] = 1
=============================================================================
