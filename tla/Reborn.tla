------------------------------- MODULE Reborn -------------------------------
(***************************************************************************)
(* reborn::Socket<Request> (include/reborn): a buffer of requests that any *)
(* thread may fill and any thread may drain, and the descriptor of a socket*)
(* that is opened by the constructor and closed by close() and again by the*)
(* destructor.  A critical section of buffer_mutex is one action, so a     *)
(* drain is interrupted between two requests.  Descriptors are given out by*)
(* the operating system, lowest first, to the socket and to the rest of the*)
(* process.  client_fd is never assigned and is left out.                  *)
(* A definition with a suffix is a wrong variant of the one after it.      *)
(***************************************************************************)
EXTENDS Naturals, Sequences

CONSTANTS
  Payloads,   \* what requests say, Empty included
  Empty,      \* the empty payload
  Drainers,   \* threads that call processRequests
  MaxSent,    \* bound: requests sent
  Fds,        \* the descriptors of the process, numbers
  Invalid     \* INVALID_SOCKET_VALUE

ASSUME RebornAssumption == MaxSent \in Nat /\ Fds \subseteq Nat /\ Invalid \notin Fds

VARIABLES
  buffer,      \* deque of requests
  last_status,
  forwarded,   \* history: payloads passed to forwardTo
  drain,       \* Drainers -> "idle", or "loop" in processRequests
  status,      \* Drainers -> the local of processRequests, and what it returned
  took,        \* history: requests the latest call of each drainer forwarded
  life,        \* "unborn", "alive", "dead": the object
  server_fd,
  kernel,      \* Fds -> who has it open: "socket", "others" or "free"
  others       \* the descriptors the rest of the process opened and did not close

requestVars == <<buffer, last_status, forwarded, drain, status, took>>
fdVars      == <<life, server_fd, kernel, others>>
vars        == <<requestVars, fdVars>>

-----------------------------------------------------------------------------
Request(p) == [payload |-> p, status |-> "WAITING"]
Sent == Len(forwarded) + Len(buffer)

(* sendRequest and enqueueRequest: an empty one is refused.                *)
sendRequest(p) ==
  /\ life = "alive" /\ Sent < MaxSent
  /\ buffer' = IF p = Empty THEN buffer ELSE Append(buffer, Request(p))
  /\ UNCHANGED <<last_status, forwarded, drain, status, took, fdVars>>

(* What processRequests answers when its loop forwards nothing.            *)
FirstStatus_ok == "OK"
FirstStatus == "ERR"
processRequests(d) ==
  /\ life = "alive" /\ drain[d] = "idle"
  /\ drain' = [drain EXCEPT ![d] = "loop"]
  /\ status' = [status EXCEPT ![d] = FirstStatus]
  /\ took' = [took EXCEPT ![d] = 0]
  /\ UNCHANGED <<buffer, last_status, forwarded, fdVars>>

(* processNextRequest finds nothing: UNDEFINED ends the caller's loop.     *)
loop_ends(d) ==
  /\ drain[d] = "loop" /\ buffer = <<>>
  /\ drain' = [drain EXCEPT ![d] = "idle"]
  /\ UNCHANGED <<buffer, last_status, forwarded, status, took, fdVars>>

(* forwardTo, and what is left of the buffer.                              *)
forwardTo(r) == IF r.payload # Empty THEN "OK" ELSE "ERR"
Rest_kept == [buffer EXCEPT ![1].status = forwardTo(Head(buffer))]
Rest_newest == SubSeq(buffer, 1, Len(buffer) - 1)
Rest == Tail(buffer)

(* A first request that is not WAITING is answered ERR and stays.          *)
processNextRequest(d) ==
  /\ drain[d] = "loop" /\ buffer # <<>>
  /\ IF Head(buffer).status # "WAITING"
     THEN /\ status' = [status EXCEPT ![d] = "ERR"]
          /\ UNCHANGED <<buffer, last_status, forwarded, took>>
     ELSE /\ last_status' = forwardTo(Head(buffer))
          /\ status' = [status EXCEPT ![d] = forwardTo(Head(buffer))]
          /\ forwarded' = Append(forwarded, Head(buffer).payload)
          /\ took' = [took EXCEPT ![d] = @ + 1]
          /\ buffer' = Rest
  /\ UNCHANGED <<drain, fdVars>>

-----------------------------------------------------------------------------
LowestFree == CHOOSE f \in Fds : kernel[f] = "free" /\ \A g \in Fds : kernel[g] = "free" => f <= g
CanOpen == \E f \in Fds : kernel[f] = "free"

(* Socket(path): ::socket gives a descriptor or fails.                     *)
Socket ==
  /\ life = "unborn"
  /\ life' = "alive"
  /\ \/ CanOpen /\ server_fd' = LowestFree /\ kernel' = [kernel EXCEPT ![LowestFree] = "socket"]
     \/ UNCHANGED <<server_fd, kernel>>
  /\ UNCHANGED <<requestVars, others>>

Closed == IF server_fd = Invalid THEN kernel ELSE [kernel EXCEPT ![server_fd] = "free"]

AfterClose_same == server_fd
AfterClose == Invalid
close ==
  /\ life = "alive"
  /\ kernel' = Closed
  /\ server_fd' = AfterClose
  /\ UNCHANGED <<requestVars, life, others>>

(* ~Socket; nobody is in a method of the object then.                      *)
ClosedAtEnd_not == kernel
ClosedAtEnd == Closed
destroy ==
  /\ life = "alive" /\ \A d \in Drainers : drain[d] = "idle"
  /\ life' = "dead"
  /\ kernel' = ClosedAtEnd
  /\ UNCHANGED <<requestVars, server_fd, others>>

(* The rest of the process opens and closes files and connections.         *)
others_open ==
  /\ CanOpen
  /\ kernel' = [kernel EXCEPT ![LowestFree] = "others"]
  /\ others' = others \cup {LowestFree}
  /\ UNCHANGED <<requestVars, life, server_fd>>
others_close(f) ==
  /\ f \in others
  /\ kernel' = [kernel EXCEPT ![f] = "free"]
  /\ others' = others \ {f}
  /\ UNCHANGED <<requestVars, life, server_fd>>

-----------------------------------------------------------------------------
Init ==
  /\ buffer = <<>> /\ last_status = "UNDEFINED" /\ forwarded = <<>>
  /\ drain = [d \in Drainers |-> "idle"]
  /\ status = [d \in Drainers |-> "UNDEFINED"]
  /\ took = [d \in Drainers |-> 0]
  /\ life = "unborn" /\ server_fd = Invalid
  /\ kernel = [f \in Fds |-> "free"] /\ others = {}

drainer(d) == loop_ends(d) \/ processNextRequest(d)

Next ==
  \/ \E p \in Payloads : sendRequest(p)
  \/ \E d \in Drainers : processRequests(d) \/ drainer(d)
  \/ Socket \/ close \/ destroy \/ others_open
  \/ \E f \in Fds : others_close(f)

Fairness == \A d \in Drainers : WF_vars(drainer(d))
Spec == Init /\ [][Next]_vars /\ Fairness

-----------------------------------------------------------------------------
(* Properties.                                                             *)

Buffered == [k \in DOMAIN buffer |-> buffer[k].payload]
Promise  == INSTANCE Mailbox WITH sent <- forwarded \o Buffered

(* With any number of senders and drainers, requests are forwarded once,   *)
(* in the order sent.                                                      *)
MailboxKept == Promise!Spec

(* processRequests returns: its loop has no way out but an empty buffer,   *)
(* so no request may be found that is neither taken nor removed.           *)
DrainReturns == \A d \in Drainers : drain[d] = "loop" ~> drain[d] = "idle"

(* The result of processRequests: OK when this call forwarded something,   *)
(* ERR when it found nothing - also when another thread was faster.        *)
DrainVerdict ==
  \A d \in Drainers : status[d] # "UNDEFINED" => (status[d] = "OK" <=> took[d] > 0)

(* close() and the destructor between them never close a descriptor that   *)
(* the process has opened in the meantime under the same number.           *)
OthersKeepTheirs == \A f \in others : kernel[f] = "others"

(* After the destructor the socket's descriptor is not open any more.      *)
NoFdLeaked == life = "dead" => \A f \in Fds : kernel[f] # "socket"
=============================================================================
