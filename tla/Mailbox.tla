------------------------------ MODULE Mailbox ------------------------------
(***************************************************************************)
(* What the Reborn socket promises its users, without its buffer, lock and *)
(* statuses: requests are forwarded in the order in which they were sent,  *)
(* none is lost and none forwarded twice.                                  *)
(***************************************************************************)
EXTENDS Naturals, Sequences

VARIABLES sent, forwarded

(* Sequence t begins with s.                                               *)
Begins(s, t) == Len(s) <= Len(t) /\ SubSeq(t, 1, Len(s)) = s

Init == sent = <<>> /\ forwarded = <<>>

Next ==
  /\ Begins(sent, sent')
  /\ Begins(forwarded, forwarded')
  /\ Begins(forwarded', sent')

Spec == Init /\ [][Next]_<<sent, forwarded>>
=============================================================================
