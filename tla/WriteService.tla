---------------------------- MODULE WriteService ----------------------------
(***************************************************************************)
(* What the write path of the gateway promises to a protocol endpoint that *)
(* calls WriteBroker::write, without queues, connections or poll tasks.    *)
(* A request is pending until it is answered; the device may execute it    *)
(* once at most.  An "ok" answer is given only after the execution, a      *)
(* "failed" answer excludes it for ever, and only an "unsure" answer (no   *)
(* reply within the timeout, or a broken connection) leaves it open.       *)
(***************************************************************************)
EXTENDS Naturals

CONSTANT Reqs           \* the write requests of a behaviour

VARIABLES status,       \* what the caller knows of each request
          executed      \* how often the device has executed each request

svcVars == <<status, executed>>

Status == {"idle", "pending", "ok", "failed", "unsure"}

Init == /\ status = [r \in Reqs |-> "idle"]
        /\ executed = [r \in Reqs |-> 0]

Submit(r) == /\ status[r] = "idle"
             /\ status' = [status EXCEPT ![r] = "pending"]
             /\ UNCHANGED executed

\* The device executes a request nobody has ruled out, the first time only.
Execute(r) == /\ status[r] \in {"pending", "unsure"}
              /\ executed[r] = 0
              /\ executed' = [executed EXCEPT ![r] = 1]
              /\ UNCHANGED status

Answer(r, a) == /\ status[r] = "pending"
                /\ status' = [status EXCEPT ![r] = a]
                /\ UNCHANGED executed

AnswerOk(r)     == executed[r] = 1 /\ Answer(r, "ok")
AnswerFailed(r) == executed[r] = 0 /\ Answer(r, "failed")
AnswerUnsure(r) == Answer(r, "unsure")

Next == \E r \in Reqs : \/ Submit(r)
                        \/ Execute(r)
                        \/ AnswerOk(r)
                        \/ AnswerFailed(r)
                        \/ AnswerUnsure(r)

Spec == Init /\ [][Next]_svcVars
=============================================================================
