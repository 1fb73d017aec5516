---------------------------- MODULE RebornProofs ----------------------------
(***************************************************************************)
(* Safety of the Reborn socket for any payloads, number of drainers,       *)
(* requests and descriptors: what processRequests answers, that the socket *)
(* implements Mailbox, and whose descriptors it closes.                    *)
(***************************************************************************)
EXTENDS Reborn, WellFoundedInduction, TLAPS

-----------------------------------------------------------------------------
(* The requests.                                                           *)

(* What enqueueRequest lets into the buffer: never an empty request, and   *)
(* one that nobody has taken yet.                                          *)
Waiting == [payload : Payloads \ {Empty}, status : {"WAITING"}]

(* No request in the buffer is taken or empty, so a drain neither turns in *)
(* place nor answers ERR for a request it forwarded.                       *)
RequestInv ==
  /\ buffer \in Seq(Waiting) /\ forwarded \in Seq(Payloads)
  /\ drain \in [Drainers -> {"idle", "loop"}]
  /\ status \in [Drainers -> {"OK", "ERR", "UNDEFINED"}]
  /\ took \in [Drainers -> Nat]
  /\ DrainVerdict

(* A drain takes the first request and says OK.                            *)
LEMMA NextRequest ==
  ASSUME RequestInv, NEW d \in Drainers, processNextRequest(d)
  PROVE  /\ buffer # <<>> /\ Head(buffer) \in Waiting /\ buffer' = Tail(buffer)
         /\ forwarded' = Append(forwarded, Head(buffer).payload)
         /\ status' = [status EXCEPT ![d] = "OK"]
         /\ took' = [took EXCEPT ![d] = @ + 1]
         /\ UNCHANGED drain
<1>1. buffer # <<>> /\ buffer \in Seq(Waiting)
  BY DEF processNextRequest, RequestInv
<1>2. Head(buffer) \in Waiting
  BY <1>1
<1>3. Head(buffer).status = "WAITING" /\ forwardTo(Head(buffer)) = "OK"
  BY <1>2 DEF Waiting, forwardTo
<1> QED BY <1>1, <1>2, <1>3 DEF processNextRequest, Rest

(* Every step keeps the account of the requests.                           *)
LEMMA RequestStep == RequestInv /\ [Next]_vars => RequestInv'
<1> SUFFICES ASSUME RequestInv, [Next]_vars PROVE RequestInv'
  OBVIOUS
<1> USE DEF RequestInv
<1>1. CASE UNCHANGED requestVars
  BY <1>1 DEF requestVars, DrainVerdict
<1>2. ASSUME NEW p \in Payloads, sendRequest(p) PROVE RequestInv'
  <2>1. p # Empty => Request(p) \in Waiting
    BY DEF Request, Waiting
  <2>2. buffer' \in Seq(Waiting)
    BY <1>2, <2>1 DEF sendRequest
  <2>3. UNCHANGED <<forwarded, drain, status, took>>
    BY <1>2 DEF sendRequest
  <2> QED BY <2>2, <2>3 DEF DrainVerdict
<1>3. ASSUME NEW d \in Drainers, processRequests(d) PROVE RequestInv'
  BY <1>3 DEF processRequests, FirstStatus, DrainVerdict
<1>4. ASSUME NEW d \in Drainers, loop_ends(d) PROVE RequestInv'
  BY <1>4 DEF loop_ends, DrainVerdict
<1>5. ASSUME NEW d \in Drainers, processNextRequest(d) PROVE RequestInv'
  <2>1. /\ buffer # <<>> /\ Head(buffer) \in Waiting /\ buffer' = Tail(buffer)
        /\ forwarded' = Append(forwarded, Head(buffer).payload)
        /\ status' = [status EXCEPT ![d] = "OK"]
        /\ took' = [took EXCEPT ![d] = @ + 1]
        /\ UNCHANGED drain
    BY <1>5, NextRequest
  <2>2. buffer' \in Seq(Waiting)
    BY <2>1
  <2>3. forwarded' \in Seq(Payloads)
    BY <2>1 DEF Waiting
  <2>4. DrainVerdict'
    BY <2>1 DEF DrainVerdict
  <2> QED BY <2>1, <2>2, <2>3, <2>4
<1>6. CASE Socket \/ close \/ destroy \/ others_open \/ \E f \in Fds : others_close(f)
  BY <1>1, <1>6 DEF Socket, close, destroy, others_open, others_close
<1> QED BY <1>1, <1>2, <1>3, <1>4, <1>5, <1>6 DEF Next, drainer, vars

(* The account of the requests is always right.                            *)
LEMMA RequestsAlways == Spec => []RequestInv
<1>1. Init => RequestInv
  BY DEF Init, RequestInv, DrainVerdict
<1> QED BY <1>1, RequestStep, PTL DEF Spec

(* processRequests answers OK exactly when this call forwarded something,  *)
(* with any number of threads draining the same buffer.                    *)
THEOREM VerdictCorrect == Spec => []DrainVerdict
<1>1. RequestInv => DrainVerdict
  BY DEF RequestInv
<1> QED BY <1>1, RequestsAlways, PTL

-----------------------------------------------------------------------------
(* The socket as a mailbox.                                                *)

(* All that was ever sent, under the refinement mapping.                   *)
Conveyed == forwarded \o Buffered

(* A sequence begins with any sequence it was made from by adding more.    *)
LEMMA PrefixOfConcat ==
  ASSUME NEW S, NEW s \in Seq(S), NEW t \in Seq(S)
  PROVE  Promise!Begins(s, s \o t)
<1>1. s \o t \in Seq(S) /\ Len(s \o t) = Len(s) + Len(t)
  OBVIOUS
<1>2. SubSeq(s \o t, 1, Len(s)) = s
  <2>1. \A i \in 1 .. Len(s) : (s \o t)[i] = s[i]
    OBVIOUS
  <2> QED BY <1>1, <2>1
<1> QED BY <1>1, <1>2 DEF Promise!Begins

(* Buffered, of any buffer.                                                *)
PayloadsOf(b) == [k \in DOMAIN b |-> b[k].payload]

(* These are the payloads of the requests, in their order.                 *)
LEMMA PayloadsInOrder ==
  ASSUME NEW b \in Seq(Waiting)
  PROVE  /\ PayloadsOf(b) \in Seq(Payloads) /\ Len(PayloadsOf(b)) = Len(b)
         /\ \A k \in 1 .. Len(b) : PayloadsOf(b)[k] = b[k].payload
<1>1. DOMAIN b = 1 .. Len(b) /\ Len(b) \in Nat
  OBVIOUS
<1>2. \A k \in 1 .. Len(b) : b[k].payload \in Payloads
  <2>1. \A k \in 1 .. Len(b) : b[k] \in Waiting
    OBVIOUS
  <2> QED BY <2>1 DEF Waiting
<1>3. PayloadsOf(b) \in [1 .. Len(b) -> Payloads]
  BY <1>1, <1>2 DEF PayloadsOf
<1>4. PayloadsOf(b) \in Seq(Payloads)
  BY <1>1, <1>3
<1>5. Len(PayloadsOf(b)) = Len(b)
  BY <1>1, <1>3, <1>4
<1> QED BY <1>1, <1>4, <1>5 DEF PayloadsOf

(* So before and after a step.                                             *)
LEMMA BufferedPayloads ==
  ASSUME RequestInv, RequestInv'
  PROVE  /\ Buffered \in Seq(Payloads) /\ Len(Buffered) = Len(buffer)
         /\ \A k \in 1 .. Len(buffer) : Buffered[k] = buffer[k].payload
         /\ Buffered' \in Seq(Payloads) /\ Len(Buffered') = Len(buffer')
         /\ \A k \in 1 .. Len(buffer') : Buffered'[k] = buffer'[k].payload
<1>1. Buffered = PayloadsOf(buffer) /\ Buffered' = PayloadsOf(buffer')
  BY DEF Buffered, PayloadsOf
<1>2. buffer \in Seq(Waiting) /\ buffer' \in Seq(Waiting)
  BY DEF RequestInv, Waiting
<1> QED BY <1>1, <1>2, PayloadsInOrder

(* sendRequest adds one payload at the end, or nothing.                    *)
LEMMA SendingAppends ==
  ASSUME RequestInv, RequestInv', NEW p \in Payloads, sendRequest(p)
  PROVE  UNCHANGED Buffered \/ Buffered' = Append(Buffered, p)
<1>1. /\ Buffered \in Seq(Payloads) /\ Len(Buffered) = Len(buffer)
      /\ \A k \in 1 .. Len(buffer) : Buffered[k] = buffer[k].payload
  BY BufferedPayloads
<1>2. /\ Buffered' \in Seq(Payloads) /\ Len(Buffered') = Len(buffer')
      /\ \A k \in 1 .. Len(buffer') : Buffered'[k] = buffer'[k].payload
  BY BufferedPayloads
<1>3. CASE p = Empty
  BY <1>3 DEF sendRequest, Buffered
<1>4. CASE p # Empty
  <2>1. buffer' = Append(buffer, Request(p)) /\ buffer \in Seq(Waiting)
    BY <1>4 DEF sendRequest, RequestInv
  <2>2. /\ Len(buffer') = Len(buffer) + 1 /\ Len(buffer) \in Nat
        /\ \A k \in 1 .. Len(buffer) : buffer'[k] = buffer[k]
        /\ buffer'[Len(buffer) + 1].payload = p
    BY <2>1 DEF Request
  <2> QED BY <1>1, <1>2, <2>2
<1> QED BY <1>3, <1>4

(* processNextRequest moves the first payload from the buffer to the       *)
(* forwarded ones.                                                         *)
LEMMA DrainingMoves ==
  ASSUME RequestInv, RequestInv', NEW d \in Drainers, processNextRequest(d)
  PROVE  Conveyed' = Conveyed /\ \E p \in Payloads : forwarded' = Append(forwarded, p)
<1> DEFINE p == Head(buffer).payload
<1>1. /\ Buffered \in Seq(Payloads) /\ Len(Buffered) = Len(buffer)
      /\ \A k \in 1 .. Len(buffer) : Buffered[k] = buffer[k].payload
  BY BufferedPayloads
<1>2. /\ Buffered' \in Seq(Payloads) /\ Len(Buffered') = Len(buffer')
      /\ \A k \in 1 .. Len(buffer') : Buffered'[k] = buffer'[k].payload
  BY BufferedPayloads
<1>3. /\ buffer # <<>> /\ p \in Payloads /\ buffer' = Tail(buffer)
      /\ forwarded' = Append(forwarded, p) /\ forwarded \in Seq(Payloads)
      /\ buffer \in Seq(Waiting)
  BY NextRequest DEF RequestInv, Waiting
<1>4. /\ Len(buffer') = Len(buffer) - 1 /\ Len(buffer) \in Nat \ {0} /\ p = buffer[1].payload
      /\ \A k \in 1 .. (Len(buffer) - 1) : buffer'[k] = buffer[k + 1]
  BY <1>3
<1> HIDE DEF p
<1>5. Buffered' = Tail(Buffered) /\ Head(Buffered) = p /\ Buffered # <<>>
  BY <1>1, <1>2, <1>4
<1>6. Append(forwarded, p) \o Tail(Buffered) = forwarded \o Buffered
  BY <1>1, <1>3, <1>5
<1> QED BY <1>3, <1>5, <1>6, Zenon DEF Conveyed

(* The socket implements Mailbox: with any number of senders and drainers  *)
(* requests are forwarded once and in the order sent.                      *)
THEOREM MailboxCorrect == Spec => MailboxKept
<1>1. Init => Promise!Init
  BY DEF Init, Promise!Init, Buffered
<1>2. RequestInv /\ RequestInv' /\ [Next]_vars => [Promise!Next]_<<Conveyed, forwarded>>
  <2> SUFFICES ASSUME RequestInv, RequestInv', [Next]_vars
               PROVE  UNCHANGED <<Conveyed, forwarded>> \/ Promise!Next
    OBVIOUS
  <2>1. forwarded \in Seq(Payloads) /\ Buffered \in Seq(Payloads)
    BY BufferedPayloads DEF RequestInv
  <2>2. forwarded' \in Seq(Payloads) /\ Buffered' \in Seq(Payloads)
    BY BufferedPayloads DEF RequestInv
  <2>3. ASSUME NEW s \in Seq(Payloads), NEW t \in Seq(Payloads),
               Conveyed' = Conveyed \o s, forwarded' = forwarded \o t
        PROVE  Promise!Next
    <3>1. Conveyed \in Seq(Payloads) /\ Conveyed' = forwarded' \o Buffered'
      BY <2>1 DEF Conveyed
    <3>2. /\ Promise!Begins(Conveyed, Conveyed') /\ Promise!Begins(forwarded, forwarded')
          /\ Promise!Begins(forwarded', Conveyed')
      BY <2>1, <2>2, <2>3, <3>1, PrefixOfConcat, Zenon
    <3> QED BY <3>2 DEF Promise!Next, Conveyed
  <2>4. <<>> \in Seq(Payloads) /\ Conveyed \in Seq(Payloads)
    BY <2>1 DEF Conveyed
  <2>5. CASE UNCHANGED <<buffer, forwarded>>
    BY <2>5 DEF Conveyed, Buffered
  <2>6. ASSUME NEW p \in Payloads, sendRequest(p), Buffered' = Append(Buffered, p)
        PROVE  Promise!Next
    <3>1. forwarded' = forwarded
      BY <2>6 DEF sendRequest
    <3>2. forwarded \o Append(Buffered, p) = (forwarded \o Buffered) \o <<p>>
      BY <2>1
    <3>3. Conveyed' = Conveyed \o <<p>> /\ forwarded' = forwarded \o <<>> /\ <<p>> \in Seq(Payloads)
      BY <2>1, <2>6, <3>1, <3>2 DEF Conveyed
    <3> QED BY <2>3, <2>4, <3>3, Zenon
  <2>7. ASSUME NEW p \in Payloads, sendRequest(p)
        PROVE  UNCHANGED <<Conveyed, forwarded>> \/ Promise!Next
    BY <2>6, <2>7, SendingAppends DEF sendRequest, Conveyed
  <2>8. ASSUME NEW d \in Drainers, processNextRequest(d) PROVE Promise!Next
    <3>1. PICK p \in Payloads : forwarded' = Append(forwarded, p) /\ Conveyed' = Conveyed
      BY <2>8, DrainingMoves
    <3>2. /\ Conveyed' = Conveyed \o <<>> /\ forwarded' = forwarded \o <<p>>
          /\ <<p>> \in Seq(Payloads)
      BY <2>1, <2>4, <3>1
    <3> QED BY <2>3, <2>4, <3>2, Zenon
  <2>9. CASE \/ \E d \in Drainers : processRequests(d) \/ loop_ends(d)
             \/ Socket \/ close \/ destroy \/ others_open \/ \E f \in Fds : others_close(f)
    BY <2>5, <2>9 DEF processRequests, loop_ends, Socket, close, destroy, others_open,
       others_close, requestVars
  <2> QED BY <2>5, <2>7, <2>8, <2>9 DEF Next, drainer, vars, requestVars
<1> QED BY <1>1, <1>2, RequestsAlways, PTL DEF Spec, MailboxKept, Promise!Spec, Conveyed

-----------------------------------------------------------------------------
(* The descriptor.                                                         *)

(* A set of natural numbers that is not empty has a smallest one.          *)
LEMMA SmallestExists ==
  ASSUME NEW T \in SUBSET Nat, T # {}
  PROVE  \E x \in T : \A y \in T : x <= y
<1> DEFINE R == OpToRel(<, Nat)
<1>1. IsWellFoundedOn(R, Nat)
  BY NatLessThanWellFounded, Zenon
<1>2. R = {ss \in Nat \X Nat : ss[1] < ss[2]}
  BY DEF OpToRel
<1> HIDE DEF R
<1>3. PICK x \in T : \A y \in T : ~ (<<y, x>> \in R)
  BY <1>1, WFMin, Zenon
<1>4. ASSUME NEW y \in T PROVE x <= y
  <2>1. x \in Nat /\ y \in Nat
    OBVIOUS
  <2>2. y < x => <<y, x>> \in R
    BY <2>1, <1>2
  <2> QED BY <2>1, <2>2, <1>3
<1> QED BY <1>4

(* The system gives out a descriptor of the process that nobody has open.  *)
LEMMA LowestIsFree ==
  ASSUME CanOpen
  PROVE  LowestFree \in Fds /\ kernel[LowestFree] = "free"
<1> DEFINE T == {f \in Fds : kernel[f] = "free"}
<1>1. T \in SUBSET Nat /\ T # {}
  BY RebornAssumption, Zenon DEF CanOpen
<1>2. \E x \in T : \A y \in T : x <= y
  BY <1>1, SmallestExists, Zenon
<1>3. \E f \in Fds : kernel[f] = "free" /\ \A g \in Fds : kernel[g] = "free" => f <= g
  BY <1>2
<1> QED BY <1>3 DEF LowestFree

(* The socket's descriptor is the one in server_fd, while the object lives *)
(* and has not been closed; whatever else is open belongs to the others.   *)
FdInv ==
  /\ life \in {"unborn", "alive", "dead"}
  /\ server_fd \in Fds \cup {Invalid}
  /\ kernel \in [Fds -> {"free", "socket", "others"}]
  /\ others \subseteq Fds
  /\ life = "unborn" => server_fd = Invalid
  /\ life = "alive" /\ server_fd # Invalid => kernel[server_fd] = "socket"
  /\ \A f \in Fds : kernel[f] = "socket" => life = "alive" /\ f = server_fd
  /\ OthersKeepTheirs

(* Every step keeps the account of the descriptors.                        *)
LEMMA FdStep == FdInv /\ [Next]_vars => FdInv'
<1> SUFFICES ASSUME FdInv, [Next]_vars PROVE FdInv'
  OBVIOUS
<1> USE RebornAssumption DEF FdInv, OthersKeepTheirs
<1>1. CASE UNCHANGED fdVars
  BY <1>1 DEF fdVars
<1>2. CASE Socket
  BY <1>2, LowestIsFree DEF Socket
<1>3. CASE close
  BY <1>3 DEF close, Closed, AfterClose
<1>4. CASE destroy
  BY <1>4 DEF destroy, Closed, ClosedAtEnd
<1>5. CASE others_open
  BY <1>5, LowestIsFree, Zenon DEF others_open
<1>6. ASSUME NEW f \in Fds, others_close(f) PROVE FdInv'
  BY <1>6 DEF others_close
<1>7. CASE \/ \E p \in Payloads : sendRequest(p)
           \/ \E d \in Drainers : processRequests(d) \/ drainer(d)
  BY <1>1, <1>7 DEF sendRequest, processRequests, drainer, loop_ends, processNextRequest
<1> QED BY <1>1, <1>2, <1>3, <1>4, <1>5, <1>6, <1>7 DEF Next, vars

(* The account of the descriptors is always right.                         *)
LEMMA FdsAlways == Spec => []FdInv
<1>1. Init => FdInv
  BY DEF Init, FdInv, OthersKeepTheirs
<1> QED BY <1>1, FdStep, PTL DEF Spec

(* close() and the destructor close only the socket's own descriptor,      *)
(* whatever the process opened under the same number in between.           *)
THEOREM OthersCorrect == Spec => []OthersKeepTheirs
<1>1. FdInv => OthersKeepTheirs
  BY DEF FdInv
<1> QED BY <1>1, FdsAlways, PTL

(* The destructor leaves no descriptor of the socket open.                 *)
THEOREM FdCorrect == Spec => []NoFdLeaked
<1>1. FdInv => NoFdLeaked
  BY DEF FdInv, NoFdLeaked
<1> QED BY <1>1, FdsAlways, PTL
=============================================================================
