------------------------------- MODULE Outbox -------------------------------
(***************************************************************************)
(* What server_session::write promises about the messages it takes over:   *)
(* they go out one by one, in the order in which they were taken over,     *)
(* nothing in between is skipped.  Sending may stop for good at any point. *)
(***************************************************************************)
EXTENDS Naturals, Sequences

CONSTANT Msgs

VARIABLES log,      \* every message taken over, in order
          sent      \* the messages that reached the peer

Init == log = <<>> /\ sent = <<>>

Take(m) ==
    /\ log' = Append(log, m)
    /\ UNCHANGED sent

Deliver ==
    /\ Len(sent) < Len(log)
    /\ sent' = Append(sent, log[Len(sent) + 1])
    /\ UNCHANGED log

Next == Deliver \/ \E m \in Msgs : Take(m)

Spec == Init /\ [][Next]_<<log, sent>>
=============================================================================
