---------------------------- MODULE TaskDelivery ----------------------------
(***************************************************************************)
(* What the broker promises of tasks, without connections, channels,       *)
(* consumers or workers: at least once.  A task that has been sent is held *)
(* until its client has been answered; it may be answered again as long as *)
(* it is held, and is done with for good once it is not.                   *)
(***************************************************************************)
EXTENDS Naturals

CONSTANT Tasks

VARIABLES sent, held, results, errors

deliveryVars == <<sent, held, results, errors>>

Init ==
  /\ sent = {} /\ held = {}
  /\ results = [t \in Tasks |-> 0]
  /\ errors = {}

Send(t) ==
  /\ t \notin sent
  /\ sent' = sent \cup {t}
  /\ held' = held \cup {t}
  /\ UNCHANGED <<results, errors>>

Result(t) ==
  /\ t \in held
  /\ results' = [results EXCEPT ![t] = @ + 1]
  /\ UNCHANGED <<sent, held, errors>>

Error(t) ==
  /\ t \in held
  /\ errors' = errors \cup {t}
  /\ UNCHANGED <<sent, held, results>>

Complete(t) ==
  /\ results[t] > 0 \/ t \in errors
  /\ held' = held \ {t}
  /\ UNCHANGED <<sent, results, errors>>

Next == \E t \in Tasks : Send(t) \/ Result(t) \/ Error(t) \/ Complete(t)

Spec == Init /\ [][Next]_deliveryVars

=============================================================================
