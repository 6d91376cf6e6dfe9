---------------------------- MODULE FifoChannel -----------------------------
(***************************************************************************)
(* What an encrypted chat connection promises the user: what one peer      *)
(* sends, the other receives, once, unchanged and in the order of sending. *)
(***************************************************************************)
EXTENDS Naturals, Sequences

CONSTANT Messages
VARIABLES sent, delivered

fifoVars == <<sent, delivered>>

Init == sent = <<>> /\ delivered = <<>>

Send(m) == sent' = Append(sent, m) /\ UNCHANGED delivered

Deliver ==
  /\ Len(delivered) < Len(sent)
  /\ delivered' = Append(delivered, sent[Len(delivered) + 1])
  /\ UNCHANGED sent

Next == (\E m \in Messages : Send(m)) \/ Deliver

Safety == Init /\ [][Next]_fifoVars
Spec   == Safety /\ WF_fifoVars(Deliver)
=============================================================================
