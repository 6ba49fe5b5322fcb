----------------------------- MODULE MCHistory -----------------------------
(***************************************************************************)
(* The inductive invariants of RaftHistory over the small clusters of      *)
(* MCRaft.  They say that some led explains the state; here led is a       *)
(* history variable that is given the value the proofs give it: it starts  *)
(* empty, and a term's entry becomes the log of whoever leads that term.   *)
(***************************************************************************)
EXTENDS MCRaft

VARIABLE led

\* The terms there can be.
Terms == {0} \cup {campaign[2] : campaign \in Campaigns}

Leads(i, t) == i \in live /\ role[i] = Leader /\ term[i] = t

Record ==
  led' = [t \in Terms |->
            IF \E i \in Node : Leads(i, t)'
            THEN log'[CHOOSE i \in Node : Leads(i, t)']
            ELSE led[t]]

HistorySpec ==
  /\ MCInit
  /\ led = [t \in Terms |-> <<>>]
  /\ [][Step /\ Observe /\ Record]_<<vars, checker, led>>

\* Every log is made of pieces of the leaders' logs (on_append_entries), and
\* what is committed, or may still be, is held by a majority's disks and by
\* every later leader (on_request_vote, advance_commit).
SuccessionInv == LogInv(led) /\ CommitInv(led)

\* What the checker collected was decided, and nobody has lost any of it
\* (Cluster::check_invariants and Cluster::restart).
AgreementInv == AgreedInv(led)

=============================================================================
