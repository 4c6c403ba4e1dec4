----------------------------- MODULE LossyLink ------------------------------
(***************************************************************************)
(* What the replication layer may expect of a ClusterTransport: a message  *)
(* a peer receives was sent to it, and is received once.  Messages may be  *)
(* lost and overtake one another.                                          *)
(***************************************************************************)
EXTENDS Naturals, Sequences, SequencesExt

CONSTANTS Peers, Messages

VARIABLES sent, got

LinkInit == sent = [p \in Peers |-> {}] /\ got = [p \in Peers |-> <<>>]

LinkSend(p, m) ==
  /\ m \notin sent[p]
  /\ sent' = [sent EXCEPT ![p] = @ \cup {m}] /\ UNCHANGED got

LinkReceive(p, m) ==
  /\ m \in sent[p] \ ToSet(got[p])
  /\ got' = [got EXCEPT ![p] = Append(@, m)] /\ UNCHANGED sent

LinkNext == \E p \in Peers, m \in Messages : LinkSend(p, m) \/ LinkReceive(p, m)

LinkSpec == LinkInit /\ [][LinkNext]_<<sent, got>>
=============================================================================
