----------------------------- MODULE ClsyncMain -----------------------------
(***************************************************************************)
(* The clsync program (net/sync.cpp): the main thread drives a SyncManager *)
(* through the commands of argv, and every result is written to a Reborn   *)
(* socket (include/reborn) by a callback that runs in the worker and       *)
(* monitor threads under ipc_mutex.                                        *)
(*                                                                         *)
(* Main owns ipc_mutex across several steps only at the end, around        *)
(* manager.stop(); every other critical section of ipc_mutex is one step.  *)
(* The socket's own buffer_mutex is only ever taken under ipc_mutex.       *)
(* As in SyncManager, a definition with a suffix is a wrong variant of the *)
(* one that follows it.                                                    *)
(***************************************************************************)
EXTENDS SyncManager

CONSTANT MaxCommands   \* how many commands argv holds at most

ASSUME CommandsAssumption == MaxCommands \in Nat \ {0}

VARIABLES
  main,        \* where the main thread is
  argsLeft,    \* commands of argv not yet handled
  ipcHeld,     \* main owns ipc_mutex
  buffer,      \* the socket's deque of requests
  forwarded,   \* history: the requests processRequests has forwarded
  succeeded,   \* main's verdict
  exitCode     \* what main returned; NoExit while it runs

mainVars    == <<main, argsLeft, ipcHeld, buffer, forwarded, succeeded, exitCode>>
managerVars == vars
allVars     == <<vars, mainVars>>

NoExit == 3

-----------------------------------------------------------------------------
(* A request: the task and state it reports, or one of main's own words.   *)
Sync(word) == <<NoTask, word>>

(* sendRequest: what the main thread or a callback writes is appended.     *)
sendRequest_front(m) == buffer' = <<m>> \o buffer
sendRequest(m) == buffer' = Append(buffer, m)

(* processRequests: the buffer is drained; every request is non-empty and  *)
(* therefore forwarded.                                                    *)
processRequests_one(b) == forwarded' = Append(forwarded, Head(b)) /\ buffer' = Tail(b)
processRequests(b) == forwarded' = forwarded \o b /\ buffer' = <<>>

(* The result callback, called for task t in state s: it waits for         *)
(* ipc_mutex, sends and releases.                                          *)
callback(t, s) ==
  /\ ~ipcHeld
  /\ sendRequest(<<t, s>>)
  /\ UNCHANGED <<main, argsLeft, ipcHeld, forwarded, succeeded, exitCode>>

Goto(where) ==
  /\ main' = where
  /\ UNCHANGED <<argsLeft, ipcHeld, buffer, forwarded, succeeded, exitCode>>

Return(code) == main' = "returned" /\ exitCode' = code

-----------------------------------------------------------------------------
(* The main thread.                                                        *)

main_callback ==
  /\ main = "setup"
  /\ set_result_callback
  /\ Goto("start")

(* The usage, the configuration, the socket or start is refused.           *)
main_refused ==
  /\ main \in {"setup", "start"}
  /\ \E code \in {1, 2} : Return(code)
  /\ UNCHANGED <<managerVars, argsLeft, ipcHeld, buffer, forwarded, succeeded>>

main_start ==
  /\ main = "start"
  /\ start
  /\ sendRequest(Sync("READY"))
  /\ main' = "commands"
  /\ UNCHANGED <<argsLeft, ipcHeld, forwarded, succeeded, exitCode>>

NextCommand(where) ==
  /\ main = "commands" /\ argsLeft > 0
  /\ argsLeft' = argsLeft - 1
  /\ main' = where
  /\ UNCHANGED <<ipcHeld, buffer, forwarded, succeeded, exitCode>>

(* DOWNLOAD or UPLOAD, accepted.                                           *)
main_enqueue ==
  /\ NextCommand("notify")
  /\ \E t \in Tasks : enqueue(t)

main_notify ==
  /\ main = "notify"
  /\ \E t \in Tasks : enqueue_notify(t)
  /\ Goto("commands")

(* A command that is malformed, names a used id or comes after STOP.       *)
main_rejected ==
  /\ NextCommand("error")
  /\ UNCHANGED managerVars

(* STOP; stop returns at once when the manager is not started.             *)
main_stop_command ==
  /\ NextCommand("stopCommand")
  /\ IF started THEN stop_begin ELSE UNCHANGED managerVars

main_stop_returns ==
  /\ main = "stopCommand" /\ ctl = "idle"
  /\ Goto("commands")
  /\ UNCHANGED managerVars

(* SYNC ERROR is sent and the socket drained, then the manager stops.      *)
main_error_locked ==
  /\ main = "error"
  /\ processRequests(Append(buffer, Sync("ERROR")))
  /\ ipcHeld' = TRUE
  /\ main' = "errorStop"
  /\ UNCHANGED <<managerVars, argsLeft, succeeded, exitCode>>
main_error ==
  /\ main = "error"
  /\ processRequests(Append(buffer, Sync("ERROR")))
  /\ main' = "errorStop"
  /\ UNCHANGED <<managerVars, argsLeft, ipcHeld, succeeded, exitCode>>

main_error_stop ==
  /\ main = "errorStop"
  /\ IF started THEN stop_begin ELSE UNCHANGED managerVars
  /\ Goto("errorJoin")

main_error_return ==
  /\ main = "errorJoin" /\ ctl = "idle"
  /\ Return(1)
  /\ UNCHANGED <<managerVars, argsLeft, ipcHeld, buffer, forwarded, succeeded>>

(* wait_for_idle with its five minutes.                                    *)
main_wait ==
  /\ main = "commands" /\ argsLeft = 0
  /\ wait_for_idle
  /\ Goto("waiting")

main_waiting ==
  /\ main = "waiting"
  /\ wait_evaluate \/ wait_timeout
  /\ UNCHANGED mainVars

(* results(), read under the manager's mutex after wait_for_idle returned. *)
AllCompleted_some == \E t \in Tasks : Known(t) => taskState[t] = "Completed"
AllCompleted == \A t \in Tasks : Known(t) => taskState[t] = "Completed"
main_results ==
  /\ main = "waiting" /\ waiter \in {"none", "idle"}
  /\ succeeded' = (waiter = "idle" /\ AllCompleted)
  /\ main' = "verdict"
  /\ UNCHANGED <<managerVars, argsLeft, ipcHeld, buffer, forwarded, exitCode>>

(* ipc_mutex is taken and kept.                                            *)
main_verdict_unlocked ==
  /\ main = "verdict"
  /\ sendRequest(IF succeeded THEN Sync("COMPLETED") ELSE Sync("FAILED"))
  /\ main' = "finalStop"
  /\ UNCHANGED <<managerVars, argsLeft, ipcHeld, forwarded, succeeded, exitCode>>
main_verdict ==
  /\ main = "verdict"
  /\ ipcHeld' = TRUE
  /\ sendRequest(IF succeeded THEN Sync("COMPLETED") ELSE Sync("FAILED"))
  /\ main' = "finalStop"
  /\ UNCHANGED <<managerVars, argsLeft, forwarded, succeeded, exitCode>>

main_final_stop ==
  /\ main = "finalStop"
  /\ IF started THEN stop_begin ELSE UNCHANGED managerVars
  /\ Goto("finalJoin")

main_return ==
  /\ main = "finalJoin" /\ ctl = "idle"
  /\ processRequests(buffer)
  /\ ipcHeld' = FALSE
  /\ Return(IF succeeded THEN 0 ELSE 1)
  /\ UNCHANGED <<managerVars, argsLeft, succeeded>>

(* The rest of a running stop.                                             *)
main_stopping == stop_rest /\ UNCHANGED mainVars

main_thread ==
  \/ main_callback \/ main_refused \/ main_start
  \/ main_enqueue \/ main_notify \/ main_rejected
  \/ main_stop_command \/ main_stop_returns
  \/ main_error \/ main_error_stop \/ main_error_return
  \/ main_wait \/ main_waiting \/ main_results
  \/ main_verdict \/ main_final_stop \/ main_return
  \/ main_stopping

-----------------------------------------------------------------------------
(* The manager's threads, whose reports go through the callback.           *)

worker_thread(w) ==
  /\ worker_loop(w)
  /\ IF pc[w] \in Reporting THEN callback(held[w], note[w]) ELSE UNCHANGED mainVars

monitor_thread ==
  IF monitor = "report"
  THEN \E t \in monitorNotes : monitor_report(t) /\ callback(t, "Failed")
  ELSE monitor_loop /\ UNCHANGED mainVars

clock(c) == retry_delay_elapsed(c) /\ UNCHANGED mainVars

MainInit ==
  /\ Init
  /\ main = "setup"
  /\ argsLeft \in 1 .. MaxCommands
  /\ ipcHeld = FALSE
  /\ buffer = <<>>
  /\ forwarded = <<>>
  /\ succeeded = FALSE
  /\ exitCode = NoExit

MainNext ==
  \/ main_thread
  \/ \E w \in Workers : \/ worker_thread(w)
                        \/ spurious_wakeup(w) /\ UNCHANGED mainVars
  \/ monitor_thread
  \/ \E c \in Classes : clock(c)

(* The fairness of SyncManager; main_thread includes the five minutes of   *)
(* wait_for_idle, which pass.                                              *)
MainSpec ==
  /\ MainInit /\ [][MainNext]_allVars
  /\ WF_allVars(main_thread)
  /\ WF_allVars(main_waiting /\ wait_timeout)
  /\ \A w \in Workers : WF_allVars(worker_thread(w))
  /\ WF_allVars(monitor_thread)
  /\ \A c \in Classes : WF_allVars(clock(c))

-----------------------------------------------------------------------------
(* Properties.                                                             *)

Verdicts == {Sync("COMPLETED"), Sync("FAILED")}
Messages == {Sync("READY"), Sync("ERROR")} \cup Verdicts \cup (Tasks \X TaskStates)

(* Type invariant of the main thread and the socket.                       *)
MainTypeOK ==
  /\ main \in {"setup", "start", "commands", "notify", "stopCommand", "error",
               "errorStop", "errorJoin", "waiting", "verdict", "finalStop",
               "finalJoin", "returned"}
  /\ argsLeft \in 0 .. MaxCommands
  /\ ipcHeld \in BOOLEAN /\ succeeded \in BOOLEAN
  /\ buffer \in Seq(Messages) /\ forwarded \in Seq(Messages)
  /\ exitCode \in {0, 1, 2, NoExit}

(* Request m occurs exactly once in s.                                     *)
Once(s, m) == \E i \in DOMAIN s : \A j \in DOMAIN s : s[j] = m <=> j = i

(* Exit code 0 is the truth: every command was accepted and every task of  *)
(* it is Completed, although main reads wait_for_idle, results() and       *)
(* stop() one after the other while the threads run on.                    *)
ExitZeroIsTrue ==
  exitCode = 0 =>
    /\ argsLeft = 0
    /\ \A t \in Tasks : Known(t) =>
         /\ taskState[t] = "Completed"
         /\ Once(forwarded, <<t, "Completed">>)

(* A verdict closes the conversation: after SYNC COMPLETED or SYNC FAILED  *)
(* no result is sent any more.                                             *)
VerdictIsLast ==
  LET sent == forwarded \o buffer IN
  \A i \in DOMAIN sent : sent[i] \in Verdicts => i = Len(sent)

(* Nothing is left unsent in the socket when main returns, except results  *)
(* that were reported after SYNC ERROR had gone out.                       *)
DeliveredBeforeReturn ==
  main = "returned" /\ buffer # <<>> => exitCode = 1 /\ forwarded[Len(forwarded)] = Sync("ERROR")

Promise == INSTANCE Mailbox WITH sent <- forwarded \o buffer

(* Main, workers and monitor together use the socket so that every request *)
(* is forwarded at most once and in the order it was sent: the promise of  *)
(* module Reborn, with ipc_mutex around it.                                *)
IpcKept == Promise!Spec

(* Main is stuck for ever in stop, holding the mutex a callback needs.     *)
StoppingUnderMutex ==
  /\ ipcHeld /\ main = "finalJoin"
  /\ monitor = "report" \/ \E w \in Workers : pc[w] \in Reporting

(* Apart from that one situation the program always ends, whatever the     *)
(* service does.                                                           *)
ReturnsOrBlocked == <>(main = "returned" \/ StoppingUnderMutex)

(* The program ends: every path of main leads to one of its returns        *)
(* (net/sync.cpp:168 "return succeeded ? 0 : 1;").                         *)
MainReturns == <>(main = "returned")
=============================================================================
