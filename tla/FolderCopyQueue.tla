--------------------------- MODULE FolderCopyQueue ---------------------------
(***************************************************************************)
(* What the message copy service promises its callers, without queues of   *)
(* sources, destination folders or callbacks: every destination is a       *)
(* first-in first-out queue of requests that copies one request at a time. *)
(*                                                                         *)
(* A request waits, is copied and stops with an outcome.  A copy may also  *)
(* hang: then its request blocks its destination until the service goes    *)
(* away.  A request that never started may be dropped only together with a *)
(* failed request of the same source and destination, or when the service  *)
(* goes away.                                                              *)
(***************************************************************************)
EXTENDS Naturals

CONSTANTS
  Request,    \* the requests, numbered in the order they are made
  Source,     \* what is copied: folders and files
  Target      \* where to

VARIABLES
  source,     \* the source of each request
  target,     \* the destination of each request
  status,     \* unmade, waiting, copying, hung, ok or failed
  open        \* FALSE once the service has been destroyed

vars == <<source, target, status, open>>

Twins(i, j) == i # j /\ source[i] = source[j] /\ target[i] = target[j]

(***************************************************************************)
(* Requests ahead of i in the queue of its destination.                    *)
(***************************************************************************)
Ahead(i) ==
  {j \in Request : /\ j < i
                   /\ target[j] = target[i]
                   /\ status[j] \in {"waiting", "copying", "hung"}}

Become(i, s) ==
  /\ status' = [status EXCEPT ![i] = s]
  /\ UNCHANGED <<source, target, open>>

Init ==
  /\ source \in [Request -> Source]
  /\ target \in [Request -> Target]
  /\ status = [i \in Request |-> "unmade"]
  /\ open = TRUE

Make(i) ==
  /\ open
  /\ status[i] = "unmade"
  /\ \A j \in Request : j < i => status[j] # "unmade"
  /\ \E s \in {"waiting", "ok"} : Become(i, s)   \* nothing to copy is done at once

Start(i) ==
  /\ status[i] = "waiting"
  /\ Ahead(i) = {}
  /\ Become(i, "copying")

Stop(i) ==
  /\ status[i] = "copying"
  /\ \E s \in {"ok", "failed"} : Become(i, s)

Hang(i) ==
  /\ status[i] = "copying"
  /\ Become(i, "hung")

GiveUp(i) ==
  /\ ~open
  /\ status[i] = "hung"
  /\ Become(i, "failed")

Drop(i) ==
  /\ status[i] = "waiting"
  /\ open => \E j \in Request : Twins(i, j) /\ status[j] = "failed"
  /\ Become(i, "failed")

Close ==
  /\ open
  /\ open' = FALSE
  /\ UNCHANGED <<source, target, status>>

Next ==
  \/ \E i \in Request : Make(i) \/ Start(i) \/ Stop(i) \/ Drop(i) \/ Hang(i) \/ GiveUp(i)
  \/ Close

Fairness == \A i \in Request : WF_vars(Start(i)) /\ WF_vars(Stop(i))

Spec == Init /\ [][Next]_vars

FairSpec == Spec /\ Fairness
=============================================================================
