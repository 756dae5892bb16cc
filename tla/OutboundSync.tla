---------------------------- MODULE OutboundSync ----------------------------
(***************************************************************************)
(* Assignments on their way to ServiceNow.  The session that assigns sends *)
(* the assignee before it commits and keeps a sync failure when ServiceNow *)
(* does not take it; "sync now" retries the open failures in one batch and *)
(* commits them at its end; an admin may close a failure by hand.  Answers *)
(* get lost, sessions die, batches overlap.  Most assignments send nothing *)
(* at all: the rotation's, the admin's, the group's, an engineer's own,    *)
(* and any that is not made in LIVE mode.                                  *)
(*                                                                         *)
(* The failures of a batch are taken in any order, its limit of fifty is   *)
(* never reached, and an incident has one sender, who holds its row lock.  *)
(***************************************************************************)
EXTENDS Naturals

CONSTANTS
  SyncIncidents,  \* incidents that exist in ServiceNow
  Assignees,      \* who may get them
  Failures,       \* bound: rows of sync_failures
  Batches,        \* concurrent "sync now" requests
  MaxRetries,     \* max_retries of a failure, 5 in the code
  MaxAttempts,    \* attempts of the client, 3 in the code
  MaxSyncs,       \* bound: assignments in a behaviour
  MaxBatches      \* bound: batches in a behaviour

ASSUME SyncAssumption ==
  /\ MaxRetries \in Nat
  /\ MaxAttempts \in Nat \ {0}
  /\ MaxSyncs \in Nat
  /\ MaxBatches \in Nat

VARIABLES
  env_live,   \* the environment says AUTOMATION_MODE=LIVE, no dry run, no shadow
  remote,     \* remote[i]: assigned_to in ServiceNow
  wanted,     \* wanted[i]: assigned_to as committed here
  failure,    \* failure[f]: a row of sync_failures
  sender,     \* sender[i]: the session that assigns i
  batch,      \* batch[w]: a retry_failed_syncs in progress
  clerk,      \* the failure an admin is closing, as it was loaded
  accepted,   \* history: what ServiceNow has taken
  unsent,     \* history: incidents assigned without sending, or sent without assigning
  late,       \* history: incidents where a retry has put another than the newest assignee
  attempted,  \* history: the batches that have tried to send f
  syncs, batches  \* begun so far

senderVars == <<wanted, sender, unsent, syncs>>
batchVars == <<batch, attempted, batches>>
syncVars == <<env_live, remote, failure, clerk, accepted, late, senderVars, batchVars>>

Nobody == "nobody"

Unsettled == {"PENDING", "RETRYING"}

(* by_hand is history: an admin has closed it. *)
Row == [status : Unsettled \cup {"RESOLVED", "DEAD_LETTER"}, inc : SyncIncidents,
        value : Assignees, count : Nat, by_hand : BOOLEAN]

NoRow == [status |-> "NONE"]

IdleSender == [step |-> "idle", value |-> Nobody, tries |-> 0, outcome |-> "skipped"]

IdleBatch == [step |-> "idle", todo |-> {}, loaded |-> [f \in Failures |-> NoRow],
              rows |-> [f \in Failures |-> NoRow]]

-----------------------------------------------------------------------------
(* _execute_with_retry: one attempt to set i to v *)

(* Who has i, or is about to. *)
Newest(i) == IF sender[i].step = "idle" THEN wanted[i] ELSE sender[i].value

Taken(i, v) ==
  /\ remote' = [remote EXCEPT ![i] = v]
  /\ accepted' = accepted \cup {<<i, v>>}
  /\ late' = IF v = Newest(i) THEN late \ {i} ELSE late \cup {i}

NotTaken == UNCHANGED <<remote, accepted, late>>

(* No answer, an answer of ServiceNow that it failed: taken or not. *)
Unanswered(i, v) == Taken(i, v) \/ NotTaken

-----------------------------------------------------------------------------
(* sync_assignment_to_servicenow, within the transaction that assigns *)

(* Who assigns without LIVE mode, or by rotation, by hand or to a group,   *)
(* commits the assignee and sends nothing.                                 *)
WithoutSending(i) ==
  /\ sender[i].step = "idle"
  /\ syncs < MaxSyncs
  /\ syncs' = syncs + 1
  /\ \E v \in Assignees : wanted' = [wanted EXCEPT ![i] = v]
  /\ unsent' = unsent \cup {i}
  /\ UNCHANGED <<env_live, remote, failure, sender, clerk, accepted, late, batchVars>>

(* The mode is read anew, and may have left LIVE. *)
SyncAssignment(i) ==
  /\ sender[i].step = "idle"
  /\ syncs < MaxSyncs
  /\ syncs' = syncs + 1
  /\ \E v \in Assignees, step \in {"sending", "settling"} :
       sender' = [sender EXCEPT ![i] = [IdleSender EXCEPT !.step = step, !.value = v]]
  /\ UNCHANGED <<env_live, remote, wanted, failure, clerk, accepted, unsent, late, batchVars>>

Attempt(i) ==
  LET s == sender[i]
      Over(outcome) ==
        sender' = [sender EXCEPT ![i].step = "settling", ![i].outcome = outcome]
  IN
  /\ s.step = "sending"
  /\ \/ Taken(i, s.value) /\ Over("taken")
     \/ NotTaken /\ Over("failed")
     \/ /\ Unanswered(i, s.value)
        /\ IF s.tries + 1 < MaxAttempts
             THEN sender' = [sender EXCEPT ![i].tries = @ + 1]
             ELSE Over("failed")
  /\ UNCHANGED <<env_live, wanted, failure, clerk, unsent, syncs, batchVars>>

(* Fault: the failure is logged and forgotten. *)
Unrecorded(i) == UNCHANGED failure

(* _create_sync_failure: a row of the same transaction. *)
CreateSyncFailure(i) ==
  \E f \in Failures :
    /\ failure[f] = NoRow
    /\ failure' = [failure EXCEPT ![f] = [status |-> "PENDING", inc |-> i,
                     value |-> sender[i].value, count |-> 0, by_hand |-> FALSE]]

SenderCommits(i) ==
  /\ sender[i].step = "settling"
  /\ wanted' = [wanted EXCEPT ![i] = sender[i].value]
  /\ IF sender[i].outcome = "failed"
     THEN CreateSyncFailure(i) /\ late' = late \ {i}
     ELSE UNCHANGED <<failure, late>>
  /\ unsent' = IF sender[i].outcome = "skipped" THEN unsent \cup {i} ELSE unsent \ {i}
  /\ sender' = [sender EXCEPT ![i] = IdleSender]
  /\ UNCHANGED <<env_live, remote, clerk, accepted, syncs, batchVars>>

(* What ServiceNow has taken stays there. *)
SenderDies(i) ==
  /\ sender[i].step # "idle"
  /\ unsent' = unsent \cup {i}
  /\ sender' = [sender EXCEPT ![i] = IdleSender]
  /\ UNCHANGED <<env_live, remote, wanted, failure, clerk, accepted, late, syncs, batchVars>>

-----------------------------------------------------------------------------
(* retry_failed_syncs; the attempts to send one failure are taken together *)

LoadFailures(w) ==
  /\ batch[w].step = "idle"
  /\ batches < MaxBatches
  /\ batches' = batches + 1
  /\ batch' = [batch EXCEPT ![w] = [step |-> "retrying", loaded |-> failure, rows |-> failure,
       todo |-> {f \in Failures : failure[f].status \in Unsettled}]]
  /\ UNCHANGED <<env_live, remote, failure, clerk, accepted, late, senderVars, attempted>>

Settled(w, f, status) ==
  batch' = [batch EXCEPT ![w].todo = @ \ {f}, ![w].rows[f].status = status,
                         ![w].rows[f].count = @ + 1]

(* Fault: the last retry is not made. *)
GivesUpEarly(row) == row.count + 1 >= MaxRetries

GivesUp(row) == row.count + 1 > MaxRetries

DeadLetter(w, f) ==
  /\ f \in batch[w].todo
  /\ GivesUp(batch[w].rows[f])
  /\ Settled(w, f, "DEAD_LETTER")
  /\ UNCHANGED <<env_live, remote, failure, clerk, accepted, late, senderVars, attempted, batches>>

(* No mode is passed on, so the environment decides: it is not LIVE, nothing *)
(* is sent, and the failure counts as recovered.                            *)
Skipped(w, f) ==
  /\ f \in batch[w].todo
  /\ ~ env_live
  /\ ~ GivesUp(batch[w].rows[f])
  /\ Settled(w, f, "RESOLVED")
  /\ UNCHANGED <<env_live, remote, failure, clerk, accepted, late, senderVars, attempted, batches>>

(* Fault: whatever ServiceNow answers is a success. *)
RetryUnchecked(w, f) ==
  LET row == batch[w].rows[f] IN
  /\ f \in batch[w].todo
  /\ env_live
  /\ ~ GivesUp(row)
  /\ attempted' = [attempted EXCEPT ![f] = @ + 1]
  /\ Unanswered(row.inc, row.value) /\ Settled(w, f, "RESOLVED")
  /\ UNCHANGED <<env_live, failure, clerk, senderVars, batches>>

Retry(w, f) ==
  LET row == batch[w].rows[f] IN
  /\ f \in batch[w].todo
  /\ env_live
  /\ ~ GivesUp(row)
  /\ attempted' = [attempted EXCEPT ![f] = @ + 1]
  /\ \/ Taken(row.inc, row.value) /\ Settled(w, f, "RESOLVED")
     \/ Unanswered(row.inc, row.value) /\ Settled(w, f, "RETRYING")
  /\ UNCHANGED <<env_live, failure, clerk, senderVars, batches>>

(* The flush writes the columns that differ from what was loaded. *)
Flushed(loaded, new, row) ==
  [row EXCEPT !.count = IF new.count = loaded.count THEN @ ELSE new.count,
              !.status = IF new.status = loaded.status THEN @ ELSE new.status]

BatchCommits(w) ==
  LET touched == {f \in Failures : batch[w].rows[f] # batch[w].loaded[f]} IN
  /\ batch[w].step = "retrying" /\ batch[w].todo = {}
  /\ failure' = [f \in Failures |->
       IF f \in touched THEN Flushed(batch[w].loaded[f], batch[w].rows[f], failure[f])
       ELSE failure[f]]
  /\ batch' = [batch EXCEPT ![w] = IdleBatch]
  /\ UNCHANGED <<env_live, remote, clerk, accepted, late, senderVars, attempted, batches>>

(* Nothing of the batch is committed, whatever it has sent. *)
BatchDies(w) ==
  /\ batch[w].step = "retrying"
  /\ batch' = [batch EXCEPT ![w] = IdleBatch]
  /\ UNCHANGED <<env_live, remote, failure, clerk, accepted, late, senderVars, attempted, batches>>

-----------------------------------------------------------------------------
(* Closing a failure by hand: it is counted and resolved, and nothing sent *)

ClerkLoads ==
  /\ clerk = NoRow
  /\ \E f \in Failures :
       failure[f] # NoRow /\ clerk' = [status |-> "LOADED", of |-> f, loaded |-> failure[f]]
  /\ UNCHANGED <<env_live, remote, failure, accepted, late, senderVars, batchVars>>

ClosedByHand(row) ==
  [row EXCEPT !.count = @ + 1,
              !.status = IF row.count + 1 >= MaxRetries THEN "DEAD_LETTER" ELSE "RESOLVED"]

ClerkCommits ==
  /\ clerk # NoRow
  /\ clerk.loaded.count <= MaxRetries  \* bound
  /\ failure' = [failure EXCEPT ![clerk.of] =
       [Flushed(clerk.loaded, ClosedByHand(clerk.loaded), @) EXCEPT !.by_hand = TRUE]]
  /\ clerk' = NoRow
  /\ UNCHANGED <<env_live, remote, accepted, late, senderVars, batchVars>>

-----------------------------------------------------------------------------

SyncInit ==
  /\ env_live \in BOOLEAN
  /\ remote = [i \in SyncIncidents |-> Nobody]
  /\ wanted = [i \in SyncIncidents |-> Nobody]
  /\ failure = [f \in Failures |-> NoRow]
  /\ sender = [i \in SyncIncidents |-> IdleSender]
  /\ batch = [w \in Batches |-> IdleBatch]
  /\ clerk = NoRow
  /\ accepted = {}
  /\ unsent = {}
  /\ late = {}
  /\ attempted = [f \in Failures |-> 0]
  /\ syncs = 0
  /\ batches = 0

Sending(i) == Attempt(i) \/ SenderCommits(i)

Retrying(w) ==
  \/ \E f \in Failures : DeadLetter(w, f) \/ Skipped(w, f) \/ Retry(w, f)
  \/ BatchCommits(w)

SyncNext ==
  \/ \E i \in SyncIncidents :
       WithoutSending(i) \/ SyncAssignment(i) \/ Sending(i) \/ SenderDies(i)
  \/ \E w \in Batches : LoadFailures(w) \/ Retrying(w) \/ BatchDies(w)
  \/ ClerkLoads \/ ClerkCommits

SyncSpec == SyncInit /\ [][SyncNext]_syncVars

-----------------------------------------------------------------------------
(* Properties *)

SyncTypeOK ==
  /\ env_live \in BOOLEAN
  /\ remote \in [SyncIncidents -> Assignees \cup {Nobody}]
  /\ wanted \in [SyncIncidents -> Assignees \cup {Nobody}]
  /\ failure \in [Failures -> Row \cup {NoRow}]
  /\ sender \in [SyncIncidents -> [step : {"idle", "sending", "settling"},
       value : Assignees \cup {Nobody}, tries : 0..MaxAttempts - 1,
       outcome : {"skipped", "taken", "failed"}]]
  /\ \A w \in Batches : batch[w].todo \subseteq Failures
  /\ accepted \subseteq SyncIncidents \X Assignees
  /\ unsent \subseteq SyncIncidents
  /\ late \subseteq SyncIncidents

(* A failure to send the assignee of i that is still open, or was given up *)
(* or closed by hand: not one that a retry has counted as recovered.       *)
Unrecovered(row, i) ==
  /\ row # NoRow
  /\ row.inc = i /\ row.value = wanted[i]
  /\ row.status # "RESOLVED" \/ row.by_hand

(***************************************************************************)
(* ServiceNow and this system disagree on an assignee at rest only if an   *)
(* unrecovered failure to send this very assignee is on record.  The three *)
(* other ways to disagree are named: the assignee was never sent, what was *)
(* sent was rolled back, or a retry of an older failure came late; and an  *)
(* environment that is not LIVE recovers failures without sending.         *)
(***************************************************************************)
DivergenceOnRecord ==
  \A i \in SyncIncidents :
    /\ env_live /\ sender[i].step = "idle"
    /\ i \notin unsent \cup late
    /\ remote[i] # wanted[i]
    => \E f \in Failures : Unrecovered(failure[f], i)

(***************************************************************************)
(* A failure that a retry has resolved was taken by ServiceNow, in an      *)
(* environment that is LIVE; elsewhere the retry sends nothing.            *)
(***************************************************************************)
RecoveredIsTrue ==
  \A f \in Failures :
    env_live /\ failure[f].status = "RESOLVED" /\ ~ failure[f].by_hand =>
      <<failure[f].inc, failure[f].value>> \in accepted

(***************************************************************************)
(* A failure is given up only after max_retries attempts to send it, though *)
(* batches overlap, overwrite each other's counts and die uncommitted.     *)
(***************************************************************************)
DeadLettersWereTried ==
  \A f \in Failures :
    env_live /\ failure[f].status = "DEAD_LETTER" /\ ~ failure[f].by_hand =>
      attempted[f] >= MaxRetries

=============================================================================
