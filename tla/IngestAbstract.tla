--------------------------- MODULE IngestAbstract ---------------------------
(***************************************************************************)
(* What the ingest pipeline promises for full adds to one document key,    *)
(* without threads, queues or contexts.                                    *)
(*                                                                         *)
(* Each request carries the document want[r] (a function from field names  *)
(* to texts).  A request is either rejected by the command, or accepted    *)
(* and later decided: it commits, atomically making its document the one   *)
(* the key holds, or it fails and leaves the key alone.  A decided request *)
(* is answered once, either in the same step (the synchronous NOBLOCK      *)
(* path) or later.  Which requests fail, and the order in which accepted   *)
(* requests are decided, are left open.                                    *)
(***************************************************************************)
CONSTANTS
  Reqs,     \* the requests
  None      \* the key holds no document

VARIABLES
  want,     \* Reqs -> the document the request adds (fixed)
  status,   \* Reqs -> "idle" | "queued" | "decided" | "answered"
  result,   \* Reqs -> "none" | "ok" | "err"
  cur       \* the document the key is indexed as, or None

avars == <<want, status, result, cur>>

Decided == {"decided", "answered"}

\* The command accepts the request and hands it to the pipeline.
Accept(r) ==
  /\ status[r] = "idle"
  /\ status' = [status EXCEPT ![r] = "queued"]
  /\ UNCHANGED <<want, result, cur>>

\* The command refuses the request and replies with the error.
Reject(r) ==
  /\ status[r] = "idle"
  /\ status' = [status EXCEPT ![r] = "answered"]
  /\ result' = [result EXCEPT ![r] = "err"]
  /\ UNCHANGED <<want, cur>>

\* The request's document replaces the key's one in a single step.
Commit(r) ==
  /\ status[r] \in {"idle", "queued"}
  /\ status' \in {[status EXCEPT ![r] = s] : s \in Decided}
  /\ result' = [result EXCEPT ![r] = "ok"]
  /\ cur' = want[r]
  /\ UNCHANGED want

\* The request fails; the key keeps its document.
Fail(r) ==
  /\ status[r] \in {"idle", "queued"}
  /\ status' \in {[status EXCEPT ![r] = s] : s \in Decided}
  /\ result' = [result EXCEPT ![r] = "err"]
  /\ UNCHANGED <<want, cur>>

\* The client of a decided request gets its reply.
Answer(r) ==
  /\ status[r] = "decided"
  /\ status' = [status EXCEPT ![r] = "answered"]
  /\ UNCHANGED <<want, result, cur>>

AInit ==
  /\ status = [r \in Reqs |-> "idle"]
  /\ result = [r \in Reqs |-> "none"]

ANext == \E r \in Reqs : Accept(r) \/ Reject(r) \/ Commit(r) \/ Fail(r) \/ Answer(r)

\* Once accepted, a request is decided and then answered; nothing obliges a
\* client to send its command.
AFairness ==
  \A r \in Reqs : /\ WF_avars(status[r] = "queued" /\ (Commit(r) \/ Fail(r)))
                  /\ WF_avars(Answer(r))

ASpec == AInit /\ [][ANext]_avars /\ AFairness

=============================================================================
