--------------------------- MODULE MessageDelivery ---------------------------
(***************************************************************************)
(* What the runtime promises the senders of user messages, without loop,   *)
(* queues or transcript.  A message is accepted as a prompt, a steering    *)
(* message or a follow-up.  It then waits until it is delivered, that is,  *)
(* written to the session, or dropped.                                     *)
(*   - Messages of one kind are delivered in the order of acceptance.      *)
(*   - A message is dropped only by a run that ends badly.                 *)
(*   - A run ends well only when no prompt and no follow-up is waiting.    *)
(* The last point does not cover steering messages: the loop looks for     *)
(* them after a tool only, so a run may end well and leave one waiting.    *)
(***************************************************************************)
EXTENDS Integers, Sequences

VARIABLES
  kind,    \* how message m came in, for each m in acceptance order
  status,  \* what became of message m
  result   \* how the last run ended, "none" during a run

vars == <<kind, status, result>>

Kinds    == {"prompt", "steer", "followUp"}
Statuses == {"waiting", "delivered", "dropped"}
Bad      == {"aborted", "error", "limit"}

Messages   == DOMAIN kind
Waiting(m) == status[m] = "waiting"

Init == kind = <<>> /\ status = <<>> /\ result = "none"

Accept(k) ==
  /\ kind' = Append(kind, k)
  /\ status' = Append(status, "waiting")
  /\ result' = IF k = "prompt" THEN "none" ELSE result

Deliver(m) ==
  /\ UNCHANGED <<kind, result>>
  /\ Waiting(m)
  /\ \A n \in Messages : n < m /\ kind[n] = kind[m] => ~Waiting(n)
  /\ status' = [status EXCEPT ![m] = "delivered"]

Drop(r) ==
  /\ result' = r
  /\ UNCHANGED kind
  /\ \E S \in SUBSET {m \in Messages : Waiting(m)} :
       S # {} /\ status' = [m \in Messages |-> IF m \in S THEN "dropped" ELSE status[m]]

Finish(r) ==
  /\ result' = r
  /\ r = "ok" => \A m \in Messages : Waiting(m) => kind[m] = "steer"
  /\ UNCHANGED <<kind, status>>

Resume == result' = "none" /\ UNCHANGED <<kind, status>>

Next ==
  \/ \E k \in Kinds : Accept(k)
  \/ \E m \in Messages : Deliver(m)
  \/ \E r \in Bad : Drop(r)
  \/ \E r \in Bad \cup {"ok"} : Finish(r)
  \/ Resume

Spec == Init /\ [][Next]_vars
=============================================================================
