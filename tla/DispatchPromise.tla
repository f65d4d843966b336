-------------------------- MODULE DispatchPromise --------------------------
(***************************************************************************)
(* What useDispatch and the "Not synced" screen promise the user of a      *)
(* party on the server, with no word of queues, batches, locks or retries: *)
(* a dispatch settles once; "ok" and "rejected" are the server's own       *)
(* words; a dispatch that settles "sync_paused" is in the outbox, and      *)
(* nothing leaves the outbox unanswered.  The server may apply a dispatch  *)
(* more than once.                                                         *)
(***************************************************************************)
EXTENDS Naturals

CONSTANTS Dispatches, Settled

VARIABLES
  outcome,   \* [Dispatches -> "unissued", "pending" or a settled outcome]
  applied,   \* [Dispatches -> how often the server applied it]
  refused,   \* the dispatches the server refused
  buffered   \* the dispatches in the outbox

vars == <<outcome, applied, refused, buffered>>

Applied == {d \in Dispatches : applied[d] > 0}

Answered == Applied \union refused

Init ==
  /\ outcome = [d \in Dispatches |-> "unissued"]
  /\ applied = [d \in Dispatches |-> 0]
  /\ refused = {}
  /\ buffered = {}

Issue(d) ==
  /\ outcome[d] = "unissued"
  /\ outcome' = [outcome EXCEPT ![d] = "pending"]
  /\ UNCHANGED <<applied, refused, buffered>>

(* The server reads a batch of dispatches, and applies all or none.        *)
Apply(ids) ==
  /\ applied' = [d \in Dispatches |-> IF d \in ids THEN applied[d] + 1
                                                   ELSE applied[d]]
  /\ UNCHANGED refused

Refuse(ids) ==
  /\ refused' = refused \union ids
  /\ UNCHANGED applied

Serve(ids) ==
  /\ \A d \in ids : outcome[d] # "unissued"
  /\ Apply(ids) \/ Refuse(ids)
  /\ UNCHANGED <<outcome, buffered>>

(* Pending dispatches enter the outbox, answered ones leave it.            *)
MovesBuffer(ids) ==
  /\ \A d \in ids : outcome[d] = "pending"
  /\ buffered \ Answered \subseteq buffered'
  /\ buffered' \subseteq buffered \union ids

Buffer(ids) ==
  /\ MovesBuffer(ids)
  /\ UNCHANGED <<outcome, applied, refused>>

Settle(ids, result) ==
  /\ MovesBuffer(ids)
  /\ result = "ok" => ids \subseteq Applied
  /\ result = "rejected" => ids \subseteq refused
  /\ result = "sync_paused" => ids \subseteq Answered \union buffered'
  /\ outcome' = [d \in Dispatches |-> IF d \in ids THEN result ELSE outcome[d]]
  /\ UNCHANGED <<applied, refused>>

Next ==
  \/ \E d \in Dispatches : Issue(d)
  \/ \E ids \in SUBSET Dispatches :
       \/ Serve(ids)
       \/ Buffer(ids)
       \/ \E result \in Settled : Settle(ids, result)

Spec == Init /\ [][Next]_vars
=============================================================================
