-------------------------- MODULE ClsyncMainProofs --------------------------
(***************************************************************************)
(* The clsync program uses its SyncManager only as SyncManager allows, so  *)
(* all that is proved of the manager holds inside it; and what is sent     *)
(* through the socket is a proper conversation, for any number of commands,*)
(* tasks and workers.                                                      *)
(***************************************************************************)
EXTENDS ClsyncMain, SyncManagerClients, TLAPS

-----------------------------------------------------------------------------
(* The manager inside the program.                                         *)

(* Every step of the program is a step of the manager or leaves it alone.  *)
LEMMA ManagerStep ==
  ASSUME TypeOK, [MainNext]_allVars
  PROVE  [Next]_vars
<1>1. CASE main_thread
  <2>1. CASE main_callback \/ main_start \/ main_wait \/ main_waiting
    BY <2>1 DEF main_callback, main_start, main_wait, main_waiting, Next, Client
  <2>2. CASE main_enqueue \/ main_notify
    BY <2>2 DEF main_enqueue, main_notify, Next, Client
  <2>3. CASE main_stop_command \/ main_error_stop \/ main_final_stop \/ main_stopping
    BY <2>3 DEF main_stop_command, main_error_stop, main_final_stop, main_stopping,
       managerVars, Next, Client
  <2>4. CASE \/ main_refused \/ main_rejected \/ main_stop_returns \/ main_error
             \/ main_error_return \/ main_results \/ main_verdict \/ main_return
    BY <2>4 DEF main_refused, main_rejected, main_stop_returns, main_error,
       main_error_return, main_results, main_verdict, main_return, managerVars
  <2> QED BY <1>1, <2>1, <2>2, <2>3, <2>4 DEF main_thread
<1>2. ASSUME NEW w \in Workers, worker_thread(w) \/ spurious_wakeup(w) PROVE Next
  BY <1>2 DEF worker_thread, Next
<1>3. CASE monitor_thread
  <2>1. ASSUME NEW t \in monitorNotes, monitor_report(t) PROVE Next
    BY <2>1 DEF Next, monitor_loop, TypeOK
  <2> QED BY <1>3, <2>1 DEF monitor_thread, Next
<1>4. ASSUME NEW c \in Classes, clock(c) PROVE Next
  BY <1>4 DEF clock, Next
<1>5. CASE UNCHANGED allVars
  BY <1>5 DEF allVars
<1> QED BY <1>1, <1>2, <1>3, <1>4, <1>5 DEF MainNext

(* The program is an environment of SyncManager: all its theorems hold.    *)
THEOREM ManagerKept == MainSpec => Spec /\ []IInv
<1>1. MainInit => Init /\ IInv
  BY InitInductive DEF MainInit
<1>2. IInv /\ [MainNext]_allVars => [Next]_vars /\ IInv'
  BY ManagerStep, StepInductive DEF IInv
<1> QED BY <1>1, <1>2, PTL DEF MainSpec, Spec

(* In the program, with main and the callbacks at work: each task is tried,*)
(* ended and reported as TaskLedger promises, wait_for_idle answers true   *)
(* only when all is settled, stop leaves nothing behind, an error leaves no*)
(* retry waiting, and nobody misses a notification.                        *)
THEOREM ProgramCorrect ==
  MainSpec => /\ LedgerKept /\ IdleAnswerSound
              /\ []TaskInOnePlace /\ []ActiveIsExact /\ []StopLeavesNothing
              /\ []ErrorLeavesNoRetry /\ []NoLostWakeup /\ []NoLostIdleWakeup
BY ManagerKept, LedgerCorrect, AnswerCorrect, PlacesCorrect, ActiveCorrect, StopCorrect,
   ErrorCorrect, WakeupCorrect, IdleWakeupCorrect, PTL

-----------------------------------------------------------------------------
(* The conversation on the socket.                                         *)

Sent == forwarded \o buffer
NoVerdict == \A i \in DOMAIN Sent : Sent[i] \notin Verdicts

(* How main's place goes with the manager: no thread runs before start and *)
(* after a return, and whoever reports has a result to report.             *)
Calls ==
  /\ main \in {"setup", "start", "returned"} => ~started /\ ctl = "idle"
  /\ main \in {"errorJoin", "finalJoin"} => ~started
  /\ main \in {"setup", "returned"} \/ hasCallback
  /\ \A w \in Workers : pc[w] \in Reporting => held[w] \in Tasks /\ note[w] \in TaskStates

(* How main's place goes with what was sent.                               *)
Conversation ==
  /\ main \in {"setup", "start"} => buffer = <<>>
  /\ main \in {"errorStop", "errorJoin"} => forwarded[Len(forwarded)] = Sync("ERROR")
  /\ main \in {"finalStop", "finalJoin"} => ipcHeld
  /\ main \notin {"finalStop", "finalJoin", "returned"} => NoVerdict

InOrder == MainTypeOK /\ Conversation /\ VerdictIsLast /\ DeliveredBeforeReturn
MainInv == Calls /\ InOrder

(* A step of the manager's own threads: it may send a result, unless main  *)
(* holds ipc_mutex or no thread runs.                                      *)
ThreadStep ==
  /\ UNCHANGED <<started, ctl, hasCallback, main, argsLeft, ipcHeld, forwarded,
                 succeeded, exitCode>>
  /\ \/ buffer' = buffer
     \/ /\ ~ipcHeld /\ main \notin {"setup", "start", "returned"}
        /\ \E m \in Tasks \X TaskStates : buffer' = Append(buffer, m)

(* Every step is one of main or one of the threads, as described above.    *)
LEMMA ThreadSteps ==
  ASSUME IInv, Calls, [MainNext]_allVars
  PROVE  main_thread \/ ThreadStep
<1>1. CASE UNCHANGED allVars
  BY <1>1 DEF allVars, vars, mainVars, ThreadStep
<1>2. ASSUME main \in {"setup", "start", "returned"}
      PROVE  monitor = "off" /\ \A w \in Workers : pc[w] = "off"
  BY <1>2 DEF Calls, IInv, Lifecycle
<1>3. ASSUME NEW t \in Tasks, NEW s \in TaskStates, callback(t, s),
             main \notin {"setup", "start", "returned"},
             UNCHANGED <<started, ctl, hasCallback>>
      PROVE  ThreadStep
  BY <1>3, Zenon DEF callback, sendRequest, ThreadStep
<1>4. ASSUME UNCHANGED mainVars, UNCHANGED <<started, ctl, hasCallback>>
      PROVE  ThreadStep
  BY <1>4 DEF mainVars, ThreadStep
<1>5. ASSUME NEW w \in Workers, worker_loop(w) \/ spurious_wakeup(w)
      PROVE  UNCHANGED <<started, ctl, hasCallback>>
  BY <1>5 DEF worker_loop, take_task, take_exit, take_wait_service, take_item, take_at,
     take_wait_item, take_wait_retry, spurious_wakeup, MoveTo, process_task,
     transfer_succeeds, path_refused, transfer_fails, complete_task, transfer_retries,
     requeue_task, report, requeue_notify
<1>6. ASSUME NEW w \in Workers, worker_thread(w) PROVE ThreadStep
  <2>1. CASE pc[w] \in Reporting
    <3>1. held[w] \in Tasks /\ note[w] \in TaskStates
      BY <2>1 DEF Calls
    <3>2. main \notin {"setup", "start", "returned"}
      BY <1>2, <2>1 DEF Reporting
    <3> QED BY <1>3, <1>5, <1>6, <2>1, <3>1, <3>2 DEF worker_thread
  <2>2. CASE pc[w] \notin Reporting
    BY <1>4, <1>5, <1>6, <2>2 DEF worker_thread
  <2> QED BY <2>1, <2>2
<1>7. CASE monitor_thread
  <2>1. CASE monitor = "report"
    <3>1. PICK t \in monitorNotes : monitor_report(t) /\ callback(t, "Failed")
      BY <1>7, <2>1 DEF monitor_thread
    <3>2. t \in Tasks /\ "Failed" \in TaskStates
      BY DEF IInv, TypeOK, TaskStates, Final
    <3>3. main \notin {"setup", "start", "returned"}
      BY <1>2, <2>1
    <3> QED BY <1>3, <3>1, <3>2, <3>3 DEF monitor_report
  <2>2. CASE monitor # "report"
    BY <1>4, <1>7, <2>2 DEF monitor_thread, monitor_loop, monitor_check, health_check,
       monitor_report, monitor_wake
  <2> QED BY <2>1, <2>2
<1>8. ASSUME NEW c \in Classes, clock(c) PROVE ThreadStep
  BY <1>4, <1>8 DEF clock, retry_delay_elapsed
<1>9. ASSUME NEW w \in Workers, spurious_wakeup(w), UNCHANGED mainVars PROVE ThreadStep
  BY <1>4, <1>5, <1>9
<1> QED BY <1>1, <1>6, <1>7, <1>8, <1>9 DEF MainNext

(* Whoever is about to report has a task and a state, because the callback *)
(* was installed before the threads were started.                          *)
LEMMA ReportingStep ==
  ASSUME IInv, Calls, [Next]_vars
  PROVE  \A w \in Workers : pc'[w] \in Reporting => held'[w] \in Tasks /\ note'[w] \in TaskStates
<1>1. /\ TypeOK /\ pc \in [Workers -> WorkerPC] /\ held \in [Workers -> Tasks \cup {NoTask}]
      /\ note \in [Workers -> TaskStates \cup {"none"}]
  BY DEF IInv, TypeOK
<1>2. CASE Silent
  BY <1>2 DEF Silent, Calls
<1>3. ASSUME NEW w \in Workers, Completion(w) \/ requeue_task(w), NEW v \in Workers,
             pc'[v] \in Reporting
      PROVE  held'[v] \in Tasks /\ note'[v] \in TaskStates
  <2>1. held[w] \in Tasks /\ pc[w] # "off"
    BY <1>3 DEF IInv, TaskInOnePlace, HeldOnce, Holders, Holding, Completion, requeue_task
  <2>2. hasCallback
    BY <2>1, Zenon DEF Calls, IInv, Lifecycle
  <2>3. PICK s \in TaskStates : note' = [note EXCEPT ![w] = Copied(s)]
    BY <1>3 DEF Completion, complete_task, requeue_task, TaskStates, Waiting, Final
  <2>4. \E where : pc' = [pc EXCEPT ![w] = where] /\ held' = held
    BY <1>3 DEF Completion, complete_task, requeue_task
  <2> QED BY <1>1, <1>3, <2>1, <2>2, <2>3, <2>4, Zenon DEF Copied, Calls
<1>4. ASSUME NEW w \in Workers, report(w), NEW v \in Workers, pc'[v] \in Reporting
      PROVE  held'[v] \in Tasks /\ note'[v] \in TaskStates
  <2>1. v # w
    BY <1>1, <1>4, Zenon DEF report, Reporting
  <2> QED BY <1>1, <1>4, <2>1 DEF report, Calls
<1>5. ASSUME NEW t \in Tasks, monitor_report(t), NEW v \in Workers, pc'[v] \in Reporting
      PROVE  held'[v] \in Tasks /\ note'[v] \in TaskStates
  BY <1>5 DEF monitor_report, workerVars, Calls
<1>6. ASSUME NEW ok \in BOOLEAN, health_check(ok), NEW v \in Workers, pc'[v] \in Reporting
      PROVE  held'[v] \in Tasks /\ note'[v] \in TaskStates
  BY <1>6 DEF health_check, Woken, Reporting, Calls
<1> QED BY <1>1, <1>2, <1>3, <1>4, <1>5, <1>6, StepSilent

(* The flags of the manager follow main's calls.                           *)
LEMMA CallsStep ==
  ASSUME IInv, Calls, [MainNext]_allVars
  PROVE  Calls'
<1>1. \A w \in Workers : pc'[w] \in Reporting => held'[w] \in Tasks /\ note'[w] \in TaskStates
  BY ManagerStep, ReportingStep DEF IInv
<1>2. ASSUME /\ main' \in {"setup", "start", "returned"} => ~started' /\ ctl' = "idle"
             /\ main' \in {"errorJoin", "finalJoin"} => ~started'
             /\ main' \in {"setup", "returned"} \/ hasCallback'
      PROVE  Calls'
  BY <1>1, <1>2 DEF Calls
<1>3. CASE ThreadStep
  BY <1>2, <1>3 DEF ThreadStep, Calls
<1>4. CASE main_callback \/ main_start
  BY <1>2, <1>4 DEF main_callback, set_result_callback, Goto, main_start, start, Calls
<1>5. CASE main_refused \/ main_error_return \/ main_return
  BY <1>2, <1>5, Zenon DEF main_refused, main_error_return, main_return, Return, managerVars, vars, Calls
<1>6. CASE \/ main_rejected \/ main_stop_returns \/ main_error \/ main_results \/ main_verdict
  BY <1>2, <1>6, Zenon DEF main_rejected, NextCommand, main_stop_returns, Goto, main_error,
     main_results, main_verdict, managerVars, vars, Calls
<1>7. CASE main_enqueue \/ main_notify
  BY <1>2, <1>7, Zenon DEF main_enqueue, NextCommand, enqueue, main_notify, enqueue_notify, Goto, Calls
<1>8. CASE main_wait \/ main_waiting
  BY <1>2, <1>8, Zenon DEF main_wait, wait_for_idle, Goto, main_waiting, wait_evaluate, wait_timeout,
     mainVars, Calls
<1>9. CASE main_stop_command \/ main_error_stop \/ main_final_stop
  <2>1. ~started' /\ hasCallback' = hasCallback
    BY <1>9 DEF main_stop_command, main_error_stop, main_final_stop, stop_begin, managerVars, vars
  <2>2. /\ main' \in {"stopCommand", "errorJoin", "finalJoin"}
        /\ main \in {"commands", "errorStop", "finalStop"}
    BY <1>9, Zenon DEF main_stop_command, NextCommand, main_error_stop, main_final_stop, Goto
  <2> QED BY <1>2, <2>1, <2>2, Zenon DEF Calls
<1>10. CASE main_stopping
  <2>1. /\ UNCHANGED <<main, started, hasCallback>> /\ ctl # "idle"
    BY <1>10 DEF main_stopping, mainVars, stop_rest, stop_set_state, stop_join_monitor,
       stop_join_workers
  <2> QED BY <1>2, <2>1 DEF Calls
<1> QED BY <1>3, <1>4, <1>5, <1>6, <1>7, <1>8, <1>9, <1>10, ThreadSteps, Zenon DEF main_thread

(* sendRequest and processRequests, seen on all that was ever sent.        *)
LEMMA Sending ==
  ASSUME MainTypeOK, NEW m \in Messages,
         \/ buffer' = Append(buffer, m) /\ forwarded' = forwarded
         \/ buffer' = <<>> /\ forwarded' = forwarded \o Append(buffer, m)
  PROVE  /\ buffer' \in Seq(Messages) /\ forwarded' \in Seq(Messages)
         /\ Sent \in Seq(Messages) /\ Sent' = Append(Sent, m)
<1>1. buffer \in Seq(Messages) /\ forwarded \in Seq(Messages)
  BY DEF MainTypeOK
<1>2. forwarded \o Append(buffer, m) = Append(forwarded \o buffer, m)
  BY <1>1
<1>3. Append(forwarded \o buffer, m) \in Seq(Messages)
  BY <1>1
<1>4. Append(forwarded \o buffer, m) \o <<>> = Append(forwarded \o buffer, m)
  BY <1>3
<1>5. forwarded \o buffer \in Seq(Messages) /\ Append(buffer, m) \in Seq(Messages)
  BY <1>1
<1>6. forwarded' \o buffer' = Append(forwarded \o buffer, m)
  BY <1>2, <1>4
<1>7. buffer' \in Seq(Messages) /\ forwarded' \in Seq(Messages)
  <2>1. <<>> \in Seq(Messages)
    OBVIOUS
  <2>2. CASE buffer' = Append(buffer, m) /\ forwarded' = forwarded
    BY <1>1, <1>5, <2>2
  <2>3. CASE buffer' = <<>> /\ forwarded' = forwarded \o Append(buffer, m)
    BY <1>2, <1>3, <2>1, <2>3, Zenon
  <2> QED BY <2>2, <2>3
<1> QED BY <1>5, <1>6, <1>7 DEF Sent

(* Draining the socket changes nothing about what was sent.                *)
LEMMA Draining ==
  ASSUME MainTypeOK, buffer' = <<>>, forwarded' = forwarded \o buffer
  PROVE  forwarded' \in Seq(Messages) /\ buffer' \in Seq(Messages) /\ Sent' = Sent
<1>1. buffer \in Seq(Messages) /\ forwarded \in Seq(Messages)
  BY DEF MainTypeOK
<1>2. forwarded \o buffer \in Seq(Messages)
  BY <1>1
<1>3. (forwarded \o buffer) \o <<>> = forwarded \o buffer
  BY <1>2
<1> QED BY <1>2, <1>3 DEF Sent

(* The first verdict is the last message.                                  *)
LEMMA FirstVerdict ==
  ASSUME Sent \in Seq(Messages), NoVerdict, NEW m \in Messages, Sent' = Append(Sent, m)
  PROVE  VerdictIsLast' /\ (m \notin Verdicts => NoVerdict')
<1>1. /\ Len(Sent') = Len(Sent) + 1 /\ DOMAIN Sent' = 1 .. Len(Sent') /\ Len(Sent) \in Nat
      /\ DOMAIN Sent = 1 .. Len(Sent)
      /\ \A i \in 1 .. Len(Sent) : Sent'[i] = Sent[i]
      /\ Sent'[Len(Sent) + 1] = m
  <2> HIDE DEF Sent
  <2> QED OBVIOUS
<1>2. \A i \in DOMAIN Sent' : i # Len(Sent) + 1 => Sent'[i] \notin Verdicts'
  <2>1. \A i \in DOMAIN Sent' : i # Len(Sent) + 1 => i \in 1 .. Len(Sent)
    BY <1>1
  <2> QED BY <1>1, <2>1 DEF NoVerdict, Verdicts, Sync
<1>3. \A i \in DOMAIN Sent' : Sent'[i] \in Verdicts' => i = Len(Sent')
  BY <1>1, <1>2
<1>4. VerdictIsLast'
  BY <1>3 DEF VerdictIsLast, Sent
<1>5. m \notin Verdicts => NoVerdict'
  BY <1>1, <1>2 DEF NoVerdict, Verdicts, Sync
<1> QED BY <1>4, <1>5

(* Main's own words and the results of tasks are different messages.       *)
LEMMA Words ==
  /\ Sync("READY") \in Messages \ Verdicts /\ Sync("ERROR") \in Messages \ Verdicts
  /\ Verdicts \subseteq Messages
  /\ Tasks \X TaskStates \subseteq Messages
  /\ \A m \in Tasks \X TaskStates : m \notin Verdicts
<1>1. \A m \in Tasks \X TaskStates : m[1] # NoTask
  BY ConfigAssumption
<1>2. \A m \in Verdicts : m[1] = NoTask
  BY DEF Verdicts, Sync
<1>3. Sync("READY") \notin Verdicts /\ Sync("ERROR") \notin Verdicts
  BY DEF Verdicts, Sync
<1> QED BY <1>1, <1>2, <1>3 DEF Messages

(* Nothing is sent, and main goes on to where the same is expected.        *)
MoveOn == {<<"setup", "start">>, <<"notify", "commands">>, <<"commands", "notify">>,
           <<"commands", "stopCommand">>, <<"stopCommand", "commands">>,
           <<"commands", "error">>, <<"errorStop", "errorJoin">>, <<"commands", "waiting">>,
           <<"waiting", "verdict">>, <<"finalStop", "finalJoin">>}
QuietStep ==
  /\ UNCHANGED <<forwarded, buffer, ipcHeld, exitCode>>
  /\ argsLeft' \in 0 .. MaxCommands /\ succeeded' \in BOOLEAN
  /\ main' = main \/ <<main, main'>> \in MoveOn

(* Without a word nothing changes about verdicts.                          *)
LEMMA Silence ==
  ASSUME VerdictIsLast, UNCHANGED <<forwarded, buffer>>
  PROVE  NoVerdict' = NoVerdict /\ VerdictIsLast'
BY DEF NoVerdict, VerdictIsLast, Sent, Verdicts, Sync

(* A quiet step keeps the conversation in order.                           *)
LEMMA QuietInOrder ==
  ASSUME InOrder, QuietStep
  PROVE  InOrder'
<1>1. MainTypeOK /\ Conversation /\ VerdictIsLast /\ DeliveredBeforeReturn
  BY DEF InOrder
<1>2. NoVerdict' = NoVerdict /\ VerdictIsLast'
  BY <1>1, Silence DEF QuietStep
<1>3. Messages' = Messages
  BY DEF Messages, Verdicts, Sync
<1>4. MainTypeOK'
  BY <1>1, <1>3 DEF MainTypeOK, QuietStep, MoveOn
<1>5. Conversation'
  BY <1>1, <1>2 DEF Conversation, QuietStep, MoveOn, Sync
<1>6. DeliveredBeforeReturn'
  BY <1>1 DEF DeliveredBeforeReturn, QuietStep, MoveOn, Sync
<1> QED BY <1>2, <1>4, <1>5, <1>6 DEF InOrder

(* One message is added while no verdict has been sent.                    *)
SpeakStep(m) ==
  /\ NoVerdict
  /\ \/ buffer' = Append(buffer, m) /\ forwarded' = forwarded
     \/ buffer' = <<>> /\ forwarded' = forwarded \o Append(buffer, m)
  /\ main' \in {"commands", "notify", "stopCommand", "error", "errorStop", "errorJoin",
                "waiting", "verdict", "finalStop"}
  /\ main' \in {"errorStop", "errorJoin"} => forwarded'[Len(forwarded')] = Sync("ERROR")
  /\ main' = "finalStop" => ipcHeld'
  /\ main' # "finalStop" => m \notin Verdicts
  /\ UNCHANGED <<argsLeft, succeeded, exitCode>> /\ ipcHeld' \in BOOLEAN

(* A message that is sent in its place keeps the conversation in order.    *)
LEMMA SpeakInOrder ==
  ASSUME InOrder, NEW m \in Messages, SpeakStep(m)
  PROVE  InOrder'
<1>1. MainTypeOK /\ Messages' = Messages
  BY DEF InOrder, Messages, Verdicts, Sync
<1>2. /\ buffer' \in Seq(Messages) /\ forwarded' \in Seq(Messages)
      /\ Sent \in Seq(Messages) /\ Sent' = Append(Sent, m)
  BY <1>1, Sending, Zenon DEF SpeakStep
<1>3. VerdictIsLast' /\ (m \notin Verdicts => NoVerdict')
  BY <1>2, FirstVerdict DEF SpeakStep
<1>4. MainTypeOK'
  BY <1>1, <1>2 DEF MainTypeOK, SpeakStep
<1>5. Conversation'
  BY <1>3 DEF Conversation, SpeakStep, Sync
<1>6. DeliveredBeforeReturn'
  BY DEF DeliveredBeforeReturn, SpeakStep
<1> QED BY <1>3, <1>4, <1>5, <1>6 DEF InOrder

(* Every step keeps the conversation in order.                             *)
LEMMA ConversationStep ==
  ASSUME IInv, MainInv, [MainNext]_allVars
  PROVE  InOrder'
<1> USE CommandsAssumption
<1>1. InOrder /\ MainTypeOK /\ Calls /\ Conversation /\ VerdictIsLast /\ DeliveredBeforeReturn
  BY DEF MainInv, InOrder
<1>2. /\ buffer \in Seq(Messages) /\ forwarded \in Seq(Messages) /\ Messages' = Messages
      /\ argsLeft \in 0 .. MaxCommands /\ succeeded \in BOOLEAN /\ ipcHeld \in BOOLEAN
  BY <1>1 DEF MainTypeOK, Messages, Verdicts, Sync
<1>5. CASE \/ main_callback \/ main_enqueue \/ main_notify \/ main_rejected \/ main_stop_command
           \/ main_stop_returns \/ main_error_stop \/ main_wait \/ main_waiting
           \/ main_results \/ main_final_stop \/ main_stopping
  <2> USE DEF main_callback, main_enqueue, main_notify, main_rejected, main_stop_command,
          main_stop_returns, main_error_stop, main_wait, main_waiting, main_results,
          main_final_stop, main_stopping, NextCommand, Goto, mainVars
  <2>1. argsLeft' = argsLeft \/ (argsLeft > 0 /\ argsLeft' = argsLeft - 1)
    BY <1>5
  <2>2. argsLeft' \in 0 .. MaxCommands
    BY <1>2, <2>1
  <2>3. succeeded' = succeeded \/ succeeded' = (waiter = "idle" /\ AllCompleted)
    BY <1>5
  <2>4. succeeded' \in BOOLEAN
    BY <1>2, <2>3, Zenon
  <2>5. UNCHANGED <<forwarded, buffer, ipcHeld, exitCode>>
    BY <1>5
  <2>6. main' = main \/ <<main, main'>> \in MoveOn
    BY <1>5 DEF MoveOn
  <2>7. QuietStep
    BY <2>2, <2>4, <2>5, <2>6 DEF QuietStep
  <2> QED BY <1>1, <2>7, QuietInOrder, Zenon
<1>6. CASE main_refused
  <2>1. /\ UNCHANGED <<forwarded, buffer, ipcHeld, argsLeft, succeeded>>
        /\ main' = "returned" /\ main \in {"setup", "start"} /\ exitCode' \in {1, 2}
    BY <1>6 DEF main_refused, Return
  <2>2. MainTypeOK'
    BY <1>1, <1>2, <2>1 DEF MainTypeOK
  <2>3. Conversation' /\ DeliveredBeforeReturn'
    BY <1>1, <2>1 DEF Conversation, DeliveredBeforeReturn
  <2> QED BY <1>1, <2>1, <2>2, <2>3, Silence, Zenon DEF InOrder
<1>7. CASE main_error_return
  <2>1. /\ UNCHANGED <<forwarded, buffer, ipcHeld, argsLeft, succeeded>>
        /\ main' = "returned" /\ main = "errorJoin" /\ exitCode' = 1
    BY <1>7 DEF main_error_return, Return
  <2>2. MainTypeOK'
    BY <1>1, <1>2, <2>1 DEF MainTypeOK
  <2>3. Conversation' /\ DeliveredBeforeReturn'
    BY <1>1, <2>1 DEF Conversation, DeliveredBeforeReturn, Sync
  <2> QED BY <1>1, <2>1, <2>2, <2>3, Silence DEF InOrder
<1>9. CASE main_start
  <2>1. /\ buffer' = Append(buffer, Sync("READY")) /\ main = "start" /\ main' = "commands"
        /\ UNCHANGED <<argsLeft, ipcHeld, forwarded, succeeded, exitCode>>
    BY <1>9 DEF main_start, sendRequest
  <2>2. SpeakStep(Sync("READY"))
    BY <1>1, <1>2, <2>1, Words DEF Conversation, SpeakStep
  <2> QED BY <1>1, <2>2, SpeakInOrder, Words
<1>10. CASE main_verdict
  <2>1. PICK m \in Verdicts : buffer' = Append(buffer, m)
    BY <1>10 DEF main_verdict, sendRequest, Verdicts
  <2>2. /\ main = "verdict" /\ main' = "finalStop" /\ ipcHeld' = TRUE
        /\ UNCHANGED <<argsLeft, forwarded, succeeded, exitCode>>
    BY <1>10 DEF main_verdict
  <2>3. SpeakStep(m)
    BY <1>1, <2>1, <2>2 DEF Conversation, SpeakStep
  <2> QED BY <1>1, <2>3, SpeakInOrder, Words
<1>11. CASE main_error
  <2>1. /\ buffer' = <<>> /\ forwarded' = forwarded \o Append(buffer, Sync("ERROR"))
        /\ main = "error" /\ main' = "errorStop"
        /\ UNCHANGED <<argsLeft, ipcHeld, succeeded, exitCode>>
    BY <1>11 DEF main_error, processRequests
  <2>2. forwarded'[Len(forwarded')] = Sync("ERROR")
    <3> DEFINE e == Sync("ERROR")
    <3>1. e \in Messages
      BY Words
    <3> HIDE DEF e
    <3>2. forwarded \o Append(buffer, e) = Append(forwarded \o buffer, e)
      BY <1>2, <3>1
    <3>3. forwarded \o buffer \in Seq(Messages)
      BY <1>2
    <3>4. Append(forwarded \o buffer, e)[Len(Append(forwarded \o buffer, e))] = e
      BY <3>1, <3>3
    <3> QED BY <2>1, <3>2, <3>4 DEF e
  <2>3. SpeakStep(Sync("ERROR"))
    BY <1>1, <1>2, <2>1, <2>2, Words, Zenon DEF Conversation, SpeakStep
  <2> QED BY <1>1, <2>3, SpeakInOrder, Words
<1>12. CASE main_return
  <2>1. /\ buffer' = <<>> /\ forwarded' = forwarded \o buffer
        /\ main' = "returned" /\ ipcHeld' = FALSE /\ exitCode' \in {0, 1}
        /\ UNCHANGED <<argsLeft, succeeded>>
    BY <1>12 DEF main_return, processRequests, Return
  <2>2. forwarded' \in Seq(Messages) /\ buffer' \in Seq(Messages) /\ Sent' = Sent
    BY <1>1, <2>1, Draining
  <2>3. MainTypeOK'
    BY <1>1, <1>2, <2>1, <2>2, Zenon DEF MainTypeOK
  <2>4. VerdictIsLast'
    BY <1>1, <2>2 DEF VerdictIsLast, Sent, Verdicts, Sync
  <2>5. Conversation' /\ DeliveredBeforeReturn'
    BY <2>1 DEF Conversation, DeliveredBeforeReturn
  <2> QED BY <2>3, <2>4, <2>5 DEF InOrder
<1>13. CASE ThreadStep
  <2>1. UNCHANGED <<main, argsLeft, ipcHeld, forwarded, succeeded, exitCode>>
    BY <1>13 DEF ThreadStep
  <2>2. CASE buffer' = buffer
    <3>1. QuietStep
      BY <1>2, <2>1, <2>2 DEF QuietStep
    <3> QED BY <1>1, <3>1, QuietInOrder
  <2>3. CASE buffer' # buffer
    <3>1. PICK m \in Tasks \X TaskStates : buffer' = Append(buffer, m)
      BY <1>13, <2>3 DEF ThreadStep
    <3>2. ~ipcHeld /\ main \notin {"setup", "start", "returned"}
      BY <1>13, <2>3 DEF ThreadStep
    <3>3. main \notin {"finalStop", "finalJoin"} /\ NoVerdict
      BY <1>1, <3>2, Zenon DEF Conversation
    <3>4. SpeakStep(m)
      BY <1>1, <1>2, <2>1, <3>1, <3>2, <3>3, Words DEF SpeakStep, Conversation, MainTypeOK
    <3> QED BY <1>1, <3>4, SpeakInOrder, Words
  <2> QED BY <2>2, <2>3
<1> QED BY <1>1, <1>5, <1>6, <1>7, <1>9, <1>10, <1>11, <1>12, <1>13, ThreadSteps, Zenon DEF main_thread

(* The invariant of the program, with that of the manager.                 *)
LEMMA MainInductive == MainSpec => [](IInv /\ MainInv)
<1>1. MainInit => MainInv
  <2> SUFFICES ASSUME MainInit PROVE MainInv
    OBVIOUS
  <2>1. buffer = <<>> /\ forwarded = <<>> /\ <<>> \o <<>> = <<>> /\ <<>> \in Seq(Messages)
    BY DEF MainInit
  <2>2. NoVerdict /\ VerdictIsLast
    BY <2>1 DEF NoVerdict, VerdictIsLast, Sent
  <2>3. MainTypeOK
    <3>1. argsLeft \in 0 .. MaxCommands
      BY CommandsAssumption DEF MainInit
    <3>2. buffer \in Seq(Messages) /\ forwarded \in Seq(Messages)
      BY <2>1
    <3>3. /\ main = "setup" /\ ipcHeld = FALSE /\ succeeded = FALSE /\ exitCode = NoExit
      BY DEF MainInit
    <3> QED BY <3>1, <3>2, <3>3, Zenon DEF MainTypeOK
  <2>4. Calls
    BY DEF MainInit, Init, Calls, Reporting
  <2>5. Conversation /\ DeliveredBeforeReturn
    BY <2>2 DEF MainInit, Conversation, DeliveredBeforeReturn
  <2> QED BY <2>2, <2>3, <2>4, <2>5 DEF MainInv, InOrder
<1>2. IInv /\ MainInv /\ [MainNext]_allVars => MainInv'
  BY CallsStep, ConversationStep DEF MainInv
<1> QED BY <1>1, <1>2, ManagerKept, PTL DEF MainSpec

(* Main's variables and the socket keep their types: every message on it   *)
(* is a word of main or a task with a state.                               *)
THEOREM MainTypeCorrect == MainSpec => []MainTypeOK
<1>1. MainInv => MainTypeOK
  BY DEF MainInv, InOrder
<1> QED BY <1>1, MainInductive, PTL

(* No result follows SYNC COMPLETED or SYNC FAILED, because main keeps     *)
(* ipc_mutex from there until the threads are joined.                      *)
THEOREM VerdictCorrect == MainSpec => []VerdictIsLast
<1>1. MainInv => VerdictIsLast
  BY DEF MainInv, InOrder
<1> QED BY <1>1, MainInductive, PTL

(* When main has returned nothing is left in the socket, except results    *)
(* reported after SYNC ERROR.                                              *)
THEOREM DeliveryCorrect == MainSpec => []DeliveredBeforeReturn
<1>1. MainInv => DeliveredBeforeReturn
  BY DEF MainInv, InOrder
<1> QED BY <1>1, MainInductive, PTL

-----------------------------------------------------------------------------
(* What exit code 0 says.                                                  *)

Never(s, m) == \A j \in DOMAIN s : s[j] # m

(* A worker is about to report that t is completed.                        *)
Completes(w, t) == pc[w] \in Reporting /\ held[w] = t /\ note[w] = "Completed"

(* A completed task is announced once: its worker is still going to do it, *)
(* or has done it.                                                         *)
Told(t) ==
  \/ /\ Never(Sent, <<t, "Completed">>)
     /\ taskState[t] = "Completed" => \E w \in Workers : Completes(w, t)
  \/ Once(Sent, <<t, "Completed">>) /\ finals[t] # 0

(* Main's verdict stays true from results() to the return: no command is   *)
(* left that could add a task, and a completed task stays completed.       *)
VerdictTrue ==
  /\ main \in {"waiting", "verdict", "finalStop", "finalJoin"} => argsLeft = 0
  /\ succeeded => /\ main \in {"verdict", "finalStop", "finalJoin", "returned"}
                  /\ argsLeft = 0 /\ AllCompleted
  /\ exitCode = 0 => main = "returned" /\ succeeded

ExitInv == VerdictTrue /\ \A t \in Tasks : Told(t)

(* Appending a request, as Never and Once see it.                          *)
LEMMA OnceAppend ==
  ASSUME NEW S, NEW s \in Seq(S), NEW x \in S, NEW m
  PROVE  /\ Never(s, m) /\ x # m => Never(Append(s, x), m)
         /\ Never(s, m) /\ x = m => Once(Append(s, x), m)
         /\ Once(s, m) /\ x # m => Once(Append(s, x), m)
<1> DEFINE a == Append(s, x)
           n == Len(s)
<1>1. /\ n \in Nat /\ DOMAIN s = 1 .. n /\ DOMAIN a = 1 .. (n + 1)
      /\ \A i \in 1 .. n : a[i] = s[i]
      /\ a[n + 1] = x
  OBVIOUS
<1>2. \A j \in 1 .. (n + 1) : j \in 1 .. n \/ j = n + 1
  BY <1>1
<1>3. n + 1 \in 1 .. (n + 1) /\ n + 1 \notin 1 .. n /\ 1 .. n \subseteq 1 .. (n + 1)
  BY <1>1
<1> HIDE DEF a, n
<1>4. Never(s, m) /\ x # m => Never(a, m)
  BY <1>1, <1>2 DEF Never
<1>5. Never(s, m) /\ x = m => Once(a, m)
  <2> SUFFICES ASSUME Never(s, m), x = m PROVE Once(a, m)
    BY Zenon
  <2>1. \A j \in DOMAIN a : a[j] = m <=> j = n + 1
    BY <1>1, <1>2, <1>3 DEF Never
  <2>2. n + 1 \in DOMAIN a
    BY <1>1, <1>3
  <2> QED BY <2>1, <2>2, Zenon DEF Once
<1>6. Once(s, m) /\ x # m => Once(a, m)
  <2> SUFFICES ASSUME Once(s, m), x # m PROVE Once(a, m)
    OBVIOUS
  <2>1. PICK i \in DOMAIN s : \A j \in DOMAIN s : s[j] = m <=> j = i
    BY Zenon DEF Once
  <2>2. \A j \in 1 .. (n + 1) : a[j] = m <=> j = i
    BY <1>1, <1>2, <1>3, <2>1, Zenon
  <2>3. i \in DOMAIN a /\ \A j \in DOMAIN a : a[j] = m <=> j = i
    BY <1>1, <1>3, <2>1, <2>2, Zenon
  <2> QED BY <2>3, Zenon DEF Once
<1> QED BY <1>4, <1>5, <1>6 DEF a

(* A task that completes in a step was completed by the worker that had it.*)
LEMMA CompletedByWorker ==
  ASSUME IInv, [Next]_vars, NEW t \in Tasks,
         taskState[t] # "Completed", taskState'[t] = "Completed"
  PROVE  \E w \in Workers : held[w] = t /\ pc[w] = "transfer" /\ complete_task(w, "Completed")
<1>1. /\ Effect /\ TypeOK /\ TaskInOnePlace
      /\ taskState \in [Tasks -> TaskStates \cup {"Absent"}]
  BY StepEffect DEF IInv, TypeOK
<1>2. ASSUME TasksUntouched \/ GivesUp PROVE FALSE
  BY <1>2 DEF TasksUntouched, GivesUp, GivenUp
<1>3. ASSUME NEW u \in Tasks, enqueue(u) PROVE FALSE
  BY <1>1, <1>3 DEF enqueue
<1>4. ASSUME NEW w \in Workers, take_item(w) PROVE FALSE
  BY <1>1, <1>4, Zenon DEF take_item, take_at
<1>5. ASSUME NEW w \in Workers, requeue_task(w) PROVE FALSE
  BY <1>1, <1>5, Zenon DEF requeue_task
<1>6. ASSUME NEW w \in Workers, Completion(w)
      PROVE  held[w] = t /\ pc[w] = "transfer" /\ complete_task(w, "Completed")
  <2>1. pc[w] = "transfer" /\ \E s \in Final : complete_task(w, s)
    BY <1>6 DEF Completion
  <2>2. PICK s \in Final : complete_task(w, s) /\ taskState' = [taskState EXCEPT ![held[w]] = s]
    BY <2>1, Zenon DEF complete_task
  <2>3. held[w] = t /\ s = "Completed"
    BY <1>1, <2>2
  <2> QED BY <2>1, <2>2, <2>3
<1> QED BY <1>1, <1>2, <1>3, <1>4, <1>5, <1>6, Zenon DEF Effect

(* Only enqueue accepts a task.                                            *)
LEMMA AbsentStays ==
  ASSUME IInv, NEW t \in Tasks, taskState[t] = "Absent",
         \/ UNCHANGED vars \/ monitor_loop
         \/ start \/ set_result_callback \/ stop_begin \/ stop_rest
         \/ wait_for_idle \/ wait_evaluate \/ wait_timeout
         \/ \E u \in Tasks : enqueue_notify(u)
         \/ \E w \in Workers : worker_loop(w) \/ spurious_wakeup(w)
         \/ \E c \in Classes : retry_delay_elapsed(c)
  PROVE  taskState'[t] = "Absent"
<1>1. TypeOK /\ TaskInOnePlace /\ taskState \in [Tasks -> TaskStates \cup {"Absent"}]
  BY DEF IInv, TypeOK
<1>2. CASE taskState' = taskState
  BY <1>2
<1>3. ASSUME NEW s, taskState' = GivenUp(s) PROVE taskState'[t] = "Absent"
  BY <1>3 DEF GivenUp, Waiting
<1>4. ASSUME NEW s, set_service_state(s) PROVE taskState'[t] = "Absent"
  BY <1>2, <1>3, <1>4, Zenon DEF set_service_state
<1>5. CASE \/ UNCHANGED vars \/ start \/ set_result_callback \/ stop_begin \/ stop_rest
           \/ wait_for_idle \/ wait_evaluate \/ wait_timeout \/ monitor_loop
  BY <1>2, <1>3, <1>4, <1>5, ZenonT(30) DEF vars, taskVars, start, set_result_callback, stop_begin,
     stop_rest, stop_set_state, stop_join_monitor, stop_join_workers, wait_for_idle,
     wait_evaluate, wait_timeout, monitor_loop, monitor_check, health_check, monitor_report,
     monitor_wake
<1>6. ASSUME NEW u \in Tasks, enqueue_notify(u) PROVE taskState'[t] = "Absent"
  BY <1>2, <1>6, Zenon DEF enqueue_notify, taskVars
<1>7. ASSUME NEW c \in Classes, retry_delay_elapsed(c) PROVE taskState'[t] = "Absent"
  BY <1>2, <1>7, Zenon DEF retry_delay_elapsed
<1>8. ASSUME NEW w \in Workers, worker_loop(w) \/ spurious_wakeup(w)
      PROVE  taskState'[t] = "Absent"
  <2>1. CASE \/ take_exit(w) \/ take_wait_service(w) \/ take_wait_item(w) \/ take_wait_retry(w)
             \/ spurious_wakeup(w) \/ report(w) \/ requeue_notify(w)
    BY <1>2, <2>1, Zenon DEF take_exit, take_wait_service, take_wait_item, take_wait_retry,
       spurious_wakeup, MoveTo, report, requeue_notify, taskVars
  <2>2. CASE transfer_retries(w)
    BY <1>2, <1>4, <2>2, Zenon DEF transfer_retries
  <2>3. CASE take_item(w)
    <3>1. PICK i \in DOMAIN queue[ClassOf(w)] : take_at(w, i)
      BY <2>3 DEF take_item
    <3>2. taskState[queue[ClassOf(w)][i]] # "Absent"
      BY <1>1, TakenIsWaiting, Zenon DEF Waiting
    <3> QED BY <1>1, <3>1, <3>2 DEF take_at
  <2>4. CASE transfer_succeeds(w) \/ path_refused(w) \/ transfer_fails(w) \/ requeue_task(w)
    <3>1. pc[w] \in Holding /\ \E s : taskState' = [taskState EXCEPT ![held[w]] = s]
      BY <2>4, Zenon DEF transfer_succeeds, path_refused, transfer_fails, complete_task,
         requeue_task, Holding
    <3>2. taskState[held[w]] = "InProgress"
      BY <1>1, <3>1, Zenon DEF TaskInOnePlace, HeldOnce, Holders
    <3> QED BY <1>1, <3>1, <3>2, Zenon
  <2> QED BY <1>8, <2>1, <2>2, <2>3, <2>4, Zenon DEF worker_loop, take_task, process_task
<1> QED BY <1>5, <1>6, <1>7, <1>8

(* A worker that is about to report is left alone until it does.           *)
Kept(w) == pc'[w] = pc[w] /\ held'[w] = held[w] /\ note'[w] = note[w]

(* No other thread, and nothing main does, disturbs a reporting worker.    *)
LEMMA StillReporting ==
  ASSUME IInv, NEW w \in Workers, pc[w] \in Reporting,
         \/ UNCHANGED vars \/ Client \/ monitor_loop
         \/ \E v \in Workers : (v # w /\ worker_loop(v)) \/ spurious_wakeup(v)
         \/ \E c \in Classes : retry_delay_elapsed(c)
  PROVE  Kept(w)
<1>1. /\ pc \in [Workers -> WorkerPC] /\ held \in [Workers -> Tasks \cup {NoTask}]
      /\ note \in [Workers -> TaskStates \cup {"none"}]
      /\ Woken \in [Workers -> WorkerPC] /\ Woken[w] = pc[w]
  BY DEF IInv, TypeOK, Woken, Asleep, Reporting, WorkerPC
<1>2. CASE UNCHANGED <<held, note>> /\ (pc' = pc \/ pc' = Woken)
  BY <1>1, <1>2 DEF Kept
<1>3. CASE start \/ stop_join_workers
  BY <1>3, Zenon DEF start, stop_join_workers, IInv, Lifecycle, Reporting
<1>4. CASE \/ UNCHANGED vars \/ set_result_callback \/ stop_begin \/ stop_set_state
           \/ stop_join_monitor \/ wait_for_idle \/ wait_evaluate \/ wait_timeout
  BY <1>2, <1>4 DEF vars, workerVars, set_result_callback, stop_begin, stop_set_state,
     stop_join_monitor, wait_for_idle, wait_evaluate, wait_timeout
<1>5. ASSUME NEW t \in Tasks, enqueue(t) \/ enqueue_notify(t) PROVE Kept(w)
  BY <1>2, <1>5, Zenon DEF enqueue, enqueue_notify, workerVars
<1>6. CASE monitor_loop
  BY <1>2, <1>6 DEF monitor_loop, monitor_check, health_check, monitor_report, monitor_wake,
     workerVars
<1>7. ASSUME NEW v \in Workers, spurious_wakeup(v) PROVE Kept(w)
  <2>1. v # w
    BY <1>7 DEF spurious_wakeup, Asleep, Reporting
  <2> QED BY <1>1, <1>7, <2>1 DEF spurious_wakeup, MoveTo, Kept
<1>8. ASSUME NEW v \in Workers, v # w, worker_loop(v) PROVE Kept(w)
  <2>1. \/ \E p : pc' = [pc EXCEPT ![v] = p]
        \/ \E p : pc' = [Woken EXCEPT ![v] = p]
    BY <1>8, ZenonT(30) DEF worker_loop, take_task, take_exit, take_wait_service, take_item, take_at,
       take_wait_item, take_wait_retry, MoveTo, process_task, transfer_succeeds, path_refused,
       transfer_fails, complete_task, transfer_retries, requeue_task, report, requeue_notify
  <2>2. held' = held \/ \E t : held' = [held EXCEPT ![v] = t]
    BY <1>8, ZenonT(30) DEF worker_loop, take_task, take_exit, take_wait_service, take_item, take_at,
       take_wait_item, take_wait_retry, MoveTo, process_task, transfer_succeeds, path_refused,
       transfer_fails, complete_task, transfer_retries, requeue_task, report, requeue_notify
  <2>3. note' = note \/ \E s : note' = [note EXCEPT ![v] = s]
    BY <1>8, ZenonT(30) DEF worker_loop, take_task, take_exit, take_wait_service, take_item, take_at,
       take_wait_item, take_wait_retry, MoveTo, process_task, transfer_succeeds, path_refused,
       transfer_fails, complete_task, transfer_retries, requeue_task, report, requeue_notify
  <2> QED BY <1>1, <1>8, <2>1, <2>2, <2>3, Zenon DEF Kept
<1>9. ASSUME NEW c \in Classes, retry_delay_elapsed(c) PROVE Kept(w)
  BY <1>9, ZenonT(30) DEF retry_delay_elapsed, Reporting, Kept
<1> QED BY <1>3, <1>4, <1>5, <1>6, <1>7, <1>8, <1>9, Zenon DEF Client, stop_rest

(* All a reporting worker can do is report.                                *)
LEMMA MustReport ==
  ASSUME NEW w \in Workers, pc[w] \in Reporting, worker_loop(w)
  PROVE  report(w)
BY DEF Reporting, worker_loop, take_task, take_exit, take_wait_service, take_item, take_at,
   take_wait_item, take_wait_retry, CanTake, process_task, transfer_succeeds, path_refused,
   transfer_fails, transfer_retries, requeue_task, requeue_notify

(* A step either is the report of a worker, word for word on the socket,   *)
(* or it announces no completion and leaves every reporting worker alone.  *)
Announces(w) ==
  /\ report(w) /\ held[w] \in Tasks /\ <<held[w], note[w]>> \in Messages
  /\ Sent' = Append(Sent, <<held[w], note[w]>>)
  /\ \A v \in Workers : v # w /\ pc[v] \in Reporting => Kept(v)
KeepsQuiet ==
  /\ \A w \in Workers : pc[w] \in Reporting => Kept(w)
  /\ \/ Sent' = Sent
     \/ \E m \in Messages : m[2] # "Completed" /\ Sent' = Append(Sent, m)

(* Main's steps announce nothing.                                          *)
LEMMA MainKeepsQuiet ==
  ASSUME IInv, MainTypeOK, main_thread
  PROVE  KeepsQuiet
<1>1. Client \/ UNCHANGED vars
  BY DEF main_thread, main_callback, main_refused, main_start, main_enqueue, main_notify,
     main_rejected, main_stop_command, main_stop_returns, main_error, main_error_stop,
     main_error_return, main_wait, main_waiting, main_results, main_verdict, main_final_stop,
     main_return, main_stopping, managerVars, Client
<1>2. \A w \in Workers : pc[w] \in Reporting => Kept(w)
  BY <1>1, StillReporting
<1>3. CASE UNCHANGED <<forwarded, buffer>>
  BY <1>2, <1>3 DEF KeepsQuiet, Sent
<1>4. ASSUME NEW m \in Messages, m[2] # "Completed",
             \/ buffer' = Append(buffer, m) /\ forwarded' = forwarded
             \/ buffer' = <<>> /\ forwarded' = forwarded \o Append(buffer, m)
      PROVE  KeepsQuiet
  BY <1>2, <1>4, Sending, Zenon DEF KeepsQuiet
<1>5. CASE buffer' = <<>> /\ forwarded' = forwarded \o buffer
  BY <1>2, <1>5, Draining DEF KeepsQuiet
<1>6. /\ {Sync("READY"), Sync("ERROR"), Sync("COMPLETED"), Sync("FAILED")} \subseteq Messages
      /\ Sync("READY")[2] # "Completed" /\ Sync("ERROR")[2] # "Completed"
      /\ Sync("COMPLETED")[2] # "Completed" /\ Sync("FAILED")[2] # "Completed"
  BY DEF Messages, Verdicts, Sync
<1>7. CASE \/ main_callback \/ main_refused \/ main_enqueue \/ main_notify \/ main_rejected
           \/ main_stop_command \/ main_stop_returns \/ main_error_stop
           \/ main_error_return \/ main_wait \/ main_waiting \/ main_results
           \/ main_final_stop \/ main_stopping
  BY <1>3, <1>7 DEF main_callback, main_refused, main_enqueue, main_notify, main_rejected,
     main_stop_command, main_stop_returns, main_error_stop, main_error_return, main_wait,
     main_waiting, main_results, main_final_stop, main_stopping, NextCommand, Goto, mainVars
<1>8. CASE main_start
  BY <1>4, <1>6, <1>8, Zenon DEF main_start, sendRequest
<1>9. CASE main_verdict
  BY <1>4, <1>6, <1>9 DEF main_verdict, sendRequest
<1>10. CASE main_error
  BY <1>4, <1>6, <1>10, Zenon DEF main_error, processRequests
<1>11. CASE main_return
  BY <1>5, <1>11 DEF main_return, processRequests
<1> QED BY <1>7, <1>8, <1>9, <1>10, <1>11, Zenon DEF main_thread

(* So do those of the threads, except the report of a worker.              *)
LEMMA StepSpeaks ==
  ASSUME IInv, MainInv, [MainNext]_allVars
  PROVE  KeepsQuiet \/ \E w \in Workers : Announces(w)
<1>1. MainTypeOK /\ Calls
  BY DEF MainInv, InOrder
<1>2. ASSUME NEW t \in Tasks, NEW s \in TaskStates, callback(t, s)
      PROVE  <<t, s>> \in Messages /\ Sent' = Append(Sent, <<t, s>>)
  <2>1. <<t, s>> \in Messages
    BY Words
  <2> QED BY <1>1, <1>2, <2>1, Sending DEF callback, sendRequest
<1>3. CASE UNCHANGED allVars
  <2>1. UNCHANGED vars /\ Sent' = Sent
    BY <1>3 DEF allVars, mainVars, Sent
  <2> QED BY <2>1, StillReporting DEF KeepsQuiet
<1>4. CASE main_thread
  BY <1>1, <1>4, MainKeepsQuiet
<1>5. ASSUME NEW w \in Workers, worker_thread(w) PROVE KeepsQuiet \/ Announces(w)
  <2>1. CASE pc[w] \in Reporting
    <3>1. held[w] \in Tasks /\ note[w] \in TaskStates /\ report(w) /\ callback(held[w], note[w])
      BY <1>1, <1>5, <2>1, MustReport, Zenon DEF worker_thread, Calls
    <3>2. \A v \in Workers : v # w /\ pc[v] \in Reporting => Kept(v)
      BY <1>5, StillReporting DEF worker_thread
    <3> QED BY <1>2, <3>1, <3>2, Zenon DEF Announces
  <2>2. CASE pc[w] \notin Reporting
    <3>1. worker_loop(w) /\ Sent' = Sent
      BY <1>5, <2>2 DEF worker_thread, mainVars, Sent
    <3>2. \A v \in Workers : pc[v] \in Reporting => Kept(v)
      BY <2>2, <3>1, StillReporting
    <3> QED BY <3>1, <3>2 DEF KeepsQuiet
  <2> QED BY <2>1, <2>2, Zenon
<1>6. ASSUME NEW w \in Workers, spurious_wakeup(w), UNCHANGED mainVars PROVE KeepsQuiet
  <2>1. Sent' = Sent
    BY <1>6 DEF mainVars, Sent
  <2> QED BY <1>6, <2>1, StillReporting DEF KeepsQuiet
<1>7. CASE monitor_thread
  <2>1. CASE monitor = "report"
    <3>1. PICK t \in monitorNotes : monitor_report(t) /\ callback(t, "Failed")
      BY <1>7, <2>1 DEF monitor_thread
    <3>2. t \in Tasks /\ "Failed" \in TaskStates
      BY DEF IInv, TypeOK, TaskStates, Final
    <3>3. \A v \in Workers : pc[v] \in Reporting => Kept(v)
      BY <3>1, <3>2, StillReporting DEF monitor_loop
    <3>4. <<t, "Failed">> \in Messages /\ Sent' = Append(Sent, <<t, "Failed">>)
      BY <1>2, <3>1, <3>2
    <3> QED BY <3>3, <3>4, Zenon DEF KeepsQuiet
  <2>2. CASE monitor # "report"
    <3>1. monitor_loop /\ Sent' = Sent
      BY <1>7, <2>2 DEF monitor_thread, mainVars, Sent
    <3> QED BY <3>1, StillReporting DEF KeepsQuiet
  <2> QED BY <2>1, <2>2
<1>8. ASSUME NEW c \in Classes, clock(c) PROVE KeepsQuiet
  <2>1. retry_delay_elapsed(c) /\ Sent' = Sent
    BY <1>8 DEF clock, mainVars, Sent
  <2> QED BY <2>1, StillReporting DEF KeepsQuiet
<1> QED BY <1>3, <1>4, <1>5, <1>6, <1>7, <1>8 DEF MainNext

(* What the callback was told is not taken back.                           *)
LEMMA FinalsGrow ==
  ASSUME TypeOK, [Next]_vars, NEW t \in Tasks, finals[t] # 0
  PROVE  finals'[t] # 0
<1>1. finals \in [Tasks -> Nat]
  BY Zenon DEF TypeOK
<1>2. finals' = finals \/ \E u : finals' = [finals EXCEPT ![u] = @ + 1]
  BY StepSilent, Zenon DEF Silent, Completion, complete_task, requeue_task, report, monitor_report,
     health_check
<1> QED BY <1>1, <1>2

(* Every step keeps the account of what was announced.                     *)
LEMMA ToldStep ==
  ASSUME IInv, Reports, MainInv, [MainNext]_allVars, NEW t \in Tasks, Told(t)
  PROVE  Told(t)'
<1> DEFINE m == <<t, "Completed">>
<1>1. [Next]_vars /\ TypeOK
  BY ManagerStep DEF IInv
<1>2. Sent \in Seq(Messages)
  BY DEF MainInv, InOrder, MainTypeOK, Sent
<1>3. ASSUME NEW w \in Workers, Announces(w), <<held[w], note[w]>> = m PROVE Told(t)'
  <2>1. held[w] = t /\ note[w] = "Completed" /\ pc[w] \in Reporting
    BY <1>3, Zenon DEF Announces, report
  <2>2. finals[t] = 0
    BY <2>1 DEF Reports, Owes, Final
  <2>3. Never(Sent, m)
    BY <2>2, Zenon DEF Told
  <2>4. Once(Sent', m)
    BY <1>2, <1>3, <2>3, OnceAppend, Zenon DEF Announces
  <2>5. finals' = [finals EXCEPT ![t] = @ + 1]
    BY <1>3, <2>1 DEF Announces, report, Final
  <2>6. finals'[t] # 0
    <3>1. finals \in [Tasks -> Nat]
      BY <1>1 DEF TypeOK
    <3> QED BY <2>2, <2>5, <3>1
  <2> QED BY <2>4, <2>6, Zenon DEF Told
<1>4. ASSUME \A w \in Workers : Completes(w, t) => Kept(w),
             Sent' = Sent \/ \E x \in Messages : x # m /\ Sent' = Append(Sent, x)
      PROVE  Told(t)'
  <2>a. (Once(Sent, m) => Once(Sent', m)) /\ (Never(Sent, m) => Never(Sent', m))
    <3>1. CASE Sent' = Sent
      BY <3>1
    <3>2. ASSUME NEW x \in Messages, x # m, Sent' = Append(Sent, x)
          PROVE  (Once(Sent, m) => Once(Sent', m)) /\ (Never(Sent, m) => Never(Sent', m))
      BY <1>2, <3>2, OnceAppend, Zenon
    <3> QED BY <1>4, <3>1, <3>2
  <2>1. CASE Once(Sent, m) /\ finals[t] # 0
    <3>1. Once(Sent', m)
      BY <2>a, <2>1, Zenon
    <3>2. finals'[t] # 0
      BY <1>1, <2>1, FinalsGrow, Zenon
    <3> QED BY <3>1, <3>2 DEF Told
  <2>2. CASE /\ Never(Sent, m)
             /\ taskState[t] = "Completed" => \E w \in Workers : Completes(w, t)
    <3>1. Never(Sent', m)
      BY <2>a, <2>2, Zenon
    <3>2. ASSUME taskState'[t] = "Completed", taskState[t] = "Completed"
          PROVE  \E w \in Workers : Completes(w, t)'
      BY <1>4, <2>2, <3>2 DEF Completes, Kept
    <3>3. ASSUME taskState'[t] = "Completed", taskState[t] # "Completed"
          PROVE  \E w \in Workers : Completes(w, t)'
      <4>1. PICK w \in Workers :
              held[w] = t /\ pc[w] = "transfer" /\ complete_task(w, "Completed")
        BY <1>1, <3>3, CompletedByWorker, Zenon
      <4>2. pc'[w] \in Reporting /\ held'[w] = t /\ note'[w] = Copied("Completed")
        BY <1>1, <4>1, Zenon DEF complete_task, TypeOK, Reporting
      <4>3. hasCallback
        BY <4>1, Zenon DEF IInv, Lifecycle, MainInv, Calls
      <4> QED BY <4>2, <4>3, Zenon DEF Completes, Copied
    <3> QED BY <3>1, <3>2, <3>3 DEF Told
  <2> QED BY <2>1, <2>2, Zenon DEF Told
<1>5. CASE KeepsQuiet
  BY <1>4, <1>5 DEF KeepsQuiet, Completes
<1>6. ASSUME NEW w \in Workers, Announces(w), <<held[w], note[w]>> # m PROVE Told(t)'
  BY <1>4, <1>6, Zenon DEF Announces, Completes
<1> QED BY <1>3, <1>5, <1>6, StepSpeaks

(* When nothing is left of argv no task is added.                          *)
LEMMA NoNewTask ==
  ASSUME IInv, [MainNext]_allVars, main # "commands", NEW t \in Tasks, taskState[t] = "Absent"
  PROVE  taskState'[t] = "Absent"
<1>1. CASE UNCHANGED allVars
  BY <1>1, Zenon DEF allVars, vars, taskVars
<1>2. CASE main_thread
  BY <1>2, AbsentStays, ZenonT(30) DEF main_thread, main_callback, main_refused, main_start, main_enqueue,
     main_notify, main_rejected, main_stop_command, main_stop_returns, main_error,
     main_error_stop, main_error_return, main_wait, main_waiting, main_results, main_verdict,
     main_final_stop, main_return, main_stopping, managerVars, NextCommand
<1>3. ASSUME NEW w \in Workers, worker_thread(w) \/ spurious_wakeup(w)
      PROVE  taskState'[t] = "Absent"
  BY <1>3, AbsentStays, Zenon DEF worker_thread
<1>4. CASE monitor_thread
  <2>1. ASSUME NEW u \in monitorNotes, monitor_report(u) PROVE monitor_loop
    BY <2>1, Zenon DEF monitor_loop, IInv, TypeOK
  <2> QED BY <1>4, <2>1, AbsentStays, Zenon DEF monitor_thread
<1>5. ASSUME NEW c \in Classes, clock(c) PROVE taskState'[t] = "Absent"
  BY <1>5, AbsentStays DEF clock
<1> QED BY <1>1, <1>2, <1>3, <1>4, <1>5, Zenon DEF MainNext

(* From results() on the verdict stays true.                               *)
LEMMA VerdictStep ==
  ASSUME IInv, MainInv, VerdictTrue, [MainNext]_allVars
  PROVE  VerdictTrue'
<1>1. [Next]_vars /\ MainTypeOK
  BY ManagerStep DEF IInv, MainInv, InOrder
<1>2. ASSUME succeeded PROVE AllCompleted'
  <2> SUFFICES ASSUME NEW t \in Tasks, taskState'[t] # "Absent"
               PROVE  taskState'[t] = "Completed"
    BY DEF AllCompleted, Known
  <2>1. main # "commands" /\ AllCompleted
    BY <1>2 DEF VerdictTrue
  <2>2. taskState[t] # "Absent"
    BY <2>1, NoNewTask
  <2>3. taskState[t] = "Completed"
    BY <2>1, <2>2 DEF AllCompleted, Known
  <2> QED BY <1>1, <2>3, SettledStays DEF Settled, Final
<1>3. CASE UNCHANGED <<main, argsLeft, succeeded, exitCode>>
  BY <1>2, <1>3 DEF VerdictTrue
<1>4. CASE main_results
  <2>1. /\ main = "waiting" /\ main' = "verdict" /\ argsLeft' = argsLeft /\ exitCode' = exitCode
        /\ succeeded' => AllCompleted
        /\ AllCompleted' = AllCompleted
    BY <1>4, Zenon DEF main_results, AllCompleted, Known, managerVars, vars, taskVars
  <2> QED BY <2>1 DEF VerdictTrue
<1>5. CASE \/ main_callback \/ main_start \/ main_notify \/ main_stop_returns \/ main_error
           \/ main_error_stop \/ main_wait \/ main_verdict \/ main_final_stop
  <2>1. /\ UNCHANGED <<argsLeft, succeeded, exitCode>>
        /\ main' \in {"waiting"} => argsLeft = 0
        /\ main' \in {"verdict", "finalStop", "finalJoin"} => main \in {"verdict", "finalStop"}
        /\ main \in {"verdict", "finalStop"} => main' \in {"finalStop", "finalJoin"}
        /\ main \notin {"finalJoin", "returned"}
    BY <1>5 DEF main_callback, main_start, main_notify, main_stop_returns, main_error,
       main_error_stop, main_wait, main_verdict, main_final_stop, Goto
  <2> QED BY <1>2, <2>1 DEF VerdictTrue
<1>6. CASE main_enqueue \/ main_rejected \/ main_stop_command
  <2>1. /\ UNCHANGED <<succeeded, exitCode>> /\ main = "commands"
        /\ main' \in {"notify", "error", "stopCommand"}
    BY <1>6 DEF main_enqueue, main_rejected, main_stop_command, NextCommand
  <2> QED BY <2>1 DEF VerdictTrue
<1>7. CASE main_refused \/ main_error_return
  <2>1. /\ UNCHANGED <<argsLeft, succeeded>> /\ exitCode' # 0 /\ main' = "returned"
        /\ main \in {"setup", "start", "errorJoin"}
    BY <1>7 DEF main_refused, main_error_return, Return
  <2> QED BY <2>1 DEF VerdictTrue
<1>8. CASE main_return
  <2>1. /\ UNCHANGED <<argsLeft, succeeded>> /\ main' = "returned"
        /\ exitCode' = IF succeeded THEN 0 ELSE 1
    BY <1>8 DEF main_return, Return
  <2> QED BY <1>2, <2>1 DEF VerdictTrue
<1>9. CASE main_waiting \/ main_stopping
  BY <1>3, <1>9 DEF main_waiting, main_stopping, mainVars
<1>10. CASE ThreadStep
  BY <1>3, <1>10 DEF ThreadStep
<1>11. Calls
  BY DEF MainInv
<1> QED BY <1>4, <1>5, <1>6, <1>7, <1>8, <1>9, <1>10, <1>11, ThreadSteps, Zenon DEF main_thread

(* Exit code 0 is the truth: argv was worked off, every task that was ever *)
(* accepted is Completed, and each was announced exactly once.             *)
THEOREM ExitCorrect == MainSpec => []ExitZeroIsTrue
<1>1. MainInit => ExitInv
  <2> SUFFICES ASSUME MainInit PROVE ExitInv
    OBVIOUS
  <2>1. Sent = <<>>
    BY DEF MainInit, Sent
  <2>2. \A t \in Tasks : Told(t)
    BY <2>1 DEF MainInit, Init, Told, Never
  <2>3. VerdictTrue
    BY DEF MainInit, VerdictTrue, NoExit
  <2> QED BY <2>2, <2>3 DEF ExitInv
<1>2. IInv /\ Reports /\ MainInv /\ ExitInv /\ [MainNext]_allVars => ExitInv'
  BY ToldStep, VerdictStep DEF ExitInv
<1>3. ASSUME IInv, MainInv, ExitInv PROVE ExitZeroIsTrue
  <2> SUFFICES ASSUME exitCode = 0 PROVE ExitZeroIsTrue
    BY DEF ExitZeroIsTrue
  <2>1. main = "returned" /\ argsLeft = 0 /\ AllCompleted
    BY <1>3 DEF ExitInv, VerdictTrue
  <2>2. Sent = forwarded
    <3>1. buffer = <<>> /\ forwarded \in Seq(Messages)
      BY <1>3, <2>1 DEF MainInv, InOrder, MainTypeOK, DeliveredBeforeReturn
    <3> QED BY <3>1 DEF Sent
  <2>3. \A w \in Workers : pc[w] \notin Reporting
    BY <1>3, <2>1, Zenon DEF MainInv, Calls, IInv, Lifecycle, Reporting
  <2>4. ASSUME NEW t \in Tasks, Known(t)
        PROVE  taskState[t] = "Completed" /\ Once(forwarded, <<t, "Completed">>)
    <3>1. taskState[t] = "Completed"
      BY <2>1, <2>4 DEF AllCompleted
    <3>2. Told(t)
      BY <1>3 DEF ExitInv
    <3> QED BY <2>2, <2>3, <3>1, <3>2 DEF Told, Completes
  <2> QED BY <2>1, <2>4 DEF ExitZeroIsTrue
<1>4. Spec => []Reports
  BY ReportsAlways
<1> QED BY <1>1, <1>2, <1>3, <1>4, ManagerKept, MainInductive, PTL DEF MainSpec

-----------------------------------------------------------------------------
(* The socket as a mailbox.                                                *)

(* What was sent is a beginning of it with more behind.                    *)
LEMMA PrefixOfConcat ==
  ASSUME NEW S, NEW s \in Seq(S), NEW t \in Seq(S)
  PROVE  Promise!Begins(s, s \o t)
<1>1. s \o t \in Seq(S) /\ Len(s \o t) = Len(s) + Len(t)
  OBVIOUS
<1>2. SubSeq(s \o t, 1, Len(s)) = s
  <2>1. \A i \in 1 .. Len(s) : (s \o t)[i] = s[i]
    OBVIOUS
  <2> QED BY <1>1, <2>1
<1> QED BY <1>1, <1>2 DEF Promise!Begins

(* What a step of the program does to the socket.                          *)
LEMMA SocketStep ==
  ASSUME IInv, MainInv, [MainNext]_allVars
  PROVE  \/ UNCHANGED <<forwarded, buffer>>
         \/ \E m \in Messages : buffer' = Append(buffer, m) /\ forwarded' = forwarded
         \/ \E m \in Messages : buffer' = <<>> /\ forwarded' = forwarded \o Append(buffer, m)
         \/ buffer' = <<>> /\ forwarded' = forwarded \o buffer
<1>1. CASE \/ main_callback \/ main_refused \/ main_enqueue \/ main_notify \/ main_rejected
           \/ main_stop_command \/ main_stop_returns \/ main_error_stop
           \/ main_error_return \/ main_wait \/ main_waiting \/ main_results
           \/ main_final_stop \/ main_stopping
  BY <1>1 DEF main_callback, main_refused, main_enqueue, main_notify, main_rejected,
     main_stop_command, main_stop_returns, main_error_stop, main_error_return, main_wait,
     main_waiting, main_results, main_final_stop, main_stopping, NextCommand, Goto, mainVars
<1>2. CASE main_start
  BY <1>2, Words, Zenon DEF main_start, sendRequest
<1>3. CASE main_verdict
  BY <1>3, Words DEF main_verdict, sendRequest, Verdicts
<1>4. CASE main_error
  BY <1>4, Words, Zenon DEF main_error, processRequests
<1>5. CASE main_return
  BY <1>5 DEF main_return, processRequests
<1>6. CASE ThreadStep
  BY <1>6, Words DEF ThreadStep
<1>7. Calls
  BY DEF MainInv
<1> QED BY <1>1, <1>2, <1>3, <1>4, <1>5, <1>6, <1>7, ThreadSteps, Zenon DEF main_thread

(* The program implements Mailbox: main, workers and monitor send, main    *)
(* forwards, and no request is lost, doubled or overtaken.                 *)
THEOREM IpcCorrect == MainSpec => IpcKept
<1>1. MainInit => Promise!Init
  BY DEF MainInit, Promise!Init
<1>2. IInv /\ MainInv /\ [MainNext]_allVars => [Promise!Next]_<<Sent, forwarded>>
  <2> SUFFICES ASSUME IInv, MainInv, [MainNext]_allVars
               PROVE  UNCHANGED <<Sent, forwarded>> \/ Promise!Next
    OBVIOUS
  <2>1. buffer \in Seq(Messages) /\ forwarded \in Seq(Messages)
    BY DEF MainInv, InOrder, MainTypeOK
  <2>2. ASSUME NEW s \in Seq(Messages), NEW t \in Seq(Messages), NEW u \in Seq(Messages),
               Sent' = Sent \o s, forwarded' = forwarded \o t, Sent' = forwarded' \o u
        PROVE  Promise!Next
    <3>1. Sent \in Seq(Messages) /\ forwarded' \in Seq(Messages)
      BY <2>1, <2>2 DEF Sent
    <3>2. /\ Promise!Begins(Sent, Sent') /\ Promise!Begins(forwarded, forwarded')
          /\ Promise!Begins(forwarded', Sent')
      BY <2>1, <2>2, <3>1, PrefixOfConcat, Zenon
    <3> QED BY <3>2 DEF Promise!Next, Sent
  <2>3. <<>> \in Seq(Messages)
    OBVIOUS
  <2>4. CASE UNCHANGED <<forwarded, buffer>>
    BY <2>4 DEF Sent
  <2>5. ASSUME NEW m \in Messages, buffer' = Append(buffer, m), forwarded' = forwarded
        PROVE  Promise!Next
    <3>1. /\ Sent' = Sent \o <<m>> /\ forwarded' = forwarded \o <<>>
          /\ Sent' = forwarded' \o buffer'
          /\ <<m>> \in Seq(Messages) /\ buffer' \in Seq(Messages)
      BY <2>1, <2>5 DEF Sent
    <3> QED BY <2>2, <2>3, <3>1, Zenon
  <2>6. ASSUME NEW m \in Messages, buffer' = <<>>, forwarded' = forwarded \o Append(buffer, m)
        PROVE  Promise!Next
    <3>1. /\ Sent' = Sent \o <<m>> /\ Sent' = forwarded' \o <<>>
          /\ <<m>> \in Seq(Messages) /\ Append(buffer, m) \in Seq(Messages)
      BY <2>1, <2>6 DEF Sent
    <3> QED BY <2>2, <2>3, <2>6, <3>1, Zenon
  <2>7. ASSUME buffer' = <<>>, forwarded' = forwarded \o buffer
        PROVE  Promise!Next
    <3>1. Sent' = Sent \o <<>> /\ Sent' = forwarded' \o <<>>
      BY <2>1, <2>7 DEF Sent
    <3> QED BY <2>1, <2>2, <2>3, <2>7, <3>1, Zenon
  <2> QED BY <2>4, <2>5, <2>6, <2>7, SocketStep, Zenon
<1> QED BY <1>1, <1>2, MainInductive, PTL DEF MainSpec, IpcKept, Promise!Spec, Sent
=============================================================================
