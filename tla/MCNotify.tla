------------------------------ MODULE MCNotify ------------------------------
(* Notify with two workloads: updates that are polled and followed while
   nobody listens to the progress interface, or subprocesses that report to a
   follower and a listener. *)
EXTENDS Notify

Updates == fresh = Stream /\ submsgs = 0 /\ ppc = [c \in Poller |-> "start"]

Reports ==
  /\ fresh = Stream \cup Listener /\ submsgs = SubMessages
  /\ ppc = [c \in Poller |-> "done"]

MCInit == Init /\ (Updates \/ Reports)

MCSpec == MCInit /\ [][Next]_vars /\ Fairness
=============================================================================
