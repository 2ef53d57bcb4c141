----------------------------- MODULE MCSupervisor -----------------------------
(* Small instances of Supervisor for TLC. *)
EXTENDS Supervisor

\* One service alone, and a service 2 that depends on service 1.
NoDepends == [s \in Service |-> <<>>]
Chain     == [s \in Service |-> IF s = 2 THEN <<1>> ELSE <<>>]

NeverRetry  == [s \in Service |-> 0]
OneRetry    == [s \in Service |-> 1]
AlwaysRetry == [s \in Service |-> Always]

===============================================================================
