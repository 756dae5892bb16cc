------------------------ MODULE OutboundSyncProofs ------------------------
(***************************************************************************)
(* Proofs about assignments on their way to ServiceNow, for any incidents, *)
(* failures, batches and limits.  A batch works on copies that grow old    *)
(* while other batches and an admin write the same rows; what its flush    *)
(* may still claim of a row is kept in the invariant, relative to the row  *)
(* as it stands now: a row never changes its subject, is never deleted,    *)
(* and once an admin has closed it nothing is claimed of it any more.      *)
(***************************************************************************)
EXTENDS OutboundSync, TLAPS

Sender == [step : {"idle", "sending", "settling"}, value : Assignees \cup {Nobody},
           tries : 0..MaxAttempts - 1, outcome : {"skipped", "taken", "failed"}]

Batch == [step : {"idle", "retrying"}, todo : SUBSET Failures,
          loaded : [Failures -> Row \cup {NoRow}], rows : [Failures -> Row \cup {NoRow}]]

Clerk == [status : {"LOADED"}, of : Failures, loaded : Row]

RecordsOK ==
  /\ batch \in [Batches -> Batch]
  /\ clerk \in Clerk \cup {NoRow}
  /\ attempted \in [Failures -> Nat]

(* A session that sends or commits has an assignee to send. *)
ValuesNamed == \A i \in SyncIncidents : sender[i].step # "idle" => sender[i].value \in Assignees

(* Two rows, or readings of a row, are about the same assignment. *)
SameSubject(x, y) == x.inc = y.inc /\ x.value = y.value

(***************************************************************************)
(* What a batch has loaded is a row that is still there; it is unchanged,  *)
(* or was unsettled and has been counted.                                  *)
(***************************************************************************)
CopyOf(loaded, copy, row) ==
  \/ loaded = NoRow /\ copy = NoRow
  \/ /\ loaded \in Row /\ copy \in Row /\ row \in Row
     /\ SameSubject(loaded, row) /\ SameSubject(copy, row)
     /\ \/ copy = loaded
        \/ loaded.status \in Unsettled /\ copy.count = loaded.count + 1

(* What is still to be retried is as it was loaded, and unsettled. *)
Untried(loaded, copy) == copy = loaded /\ loaded \in Row /\ loaded.status \in Unsettled

BatchesKnow ==
  \A w \in Batches, f \in Failures :
    /\ CopyOf(batch[w].loaded[f], batch[w].rows[f], failure[f])
    /\ f \in batch[w].todo => Untried(batch[w].loaded[f], batch[w].rows[f])

(* The admin's reading is of a row that is still there. *)
ClerkKnows == clerk # NoRow => failure[clerk.of] \in Row

(***************************************************************************)
(* A failure stands if no retry has counted it as recovered, and none that *)
(* is not committed yet will; what an admin has closed stands for good.    *)
(***************************************************************************)
Standing(f) ==
  /\ failure[f] \in Row
  /\ \/ failure[f].by_hand
     \/ /\ failure[f].status # "RESOLVED"
        /\ \A w \in Batches : batch[w].rows[f].status = "RESOLVED" => batch[w].rows[f] = batch[w].loaded[f]

(* The assignee of i is one whom ServiceNow has failed to take. *)
OnRecord(i) == \E f \in Failures : Standing(f) /\ failure[f].inc = i /\ failure[f].value = wanted[i]

(***************************************************************************)
(* What ServiceNow has taken stays there until a retry overwrites it late, *)
(* and a retry that recovers a failure in time has put the assignee there. *)
(***************************************************************************)
Agrees(i) ==
  /\ sender[i].step = "settling" /\ sender[i].outcome = "taken" /\ i \notin late =>
       remote[i] = sender[i].value
  /\ env_live /\ sender[i].step = "idle" /\ i \notin unsent \cup late =>
       remote[i] = wanted[i] \/ OnRecord(i)

TakenOrOnRecord == \A i \in SyncIncidents : Agrees(i)

(***************************************************************************)
(* What a row claims: a resolved one was taken, an unsettled one has not   *)
(* been counted more often than it was attempted, and a dead letter was    *)
(* attempted as often as the limit asks.                                   *)
(***************************************************************************)
Claims(f, x) ==
  /\ x.status = "RESOLVED" => <<x.inc, x.value>> \in accepted
  /\ x.status \in Unsettled => x.count <= attempted[f]
  /\ x.status = "DEAD_LETTER" => attempted[f] >= MaxRetries

(* The claims hold of the rows, and of the copies a batch will flush. *)
ClaimsHold ==
  env_live => \A f \in Failures : failure[f] \in Row /\ ~ failure[f].by_hand =>
    /\ Claims(f, failure[f])
    /\ \A w \in Batches : batch[w].loaded[f] # NoRow => Claims(f, batch[w].rows[f])

SyncInv ==
  /\ SyncTypeOK /\ RecordsOK /\ ValuesNamed
  /\ BatchesKnow /\ ClerkKnows
  /\ TakenOrOnRecord /\ ClaimsHold

-----------------------------------------------------------------------------
(* Facts about rows and copies *)

LEMMA RowsDiffer == NoRow \notin Row /\ \A x \in Row : x.status # "NONE"
  BY DEF NoRow, Row, Unsettled

LEMMA IdleTyped == IdleBatch \in Batch /\ IdleSender \in Sender
<1>1. 0 \in 0..MaxAttempts - 1
  BY SyncAssumption
<1> QED
  BY <1>1 DEF IdleBatch, IdleSender, Batch, Sender

LEMMA InitSyncInv == SyncInit => SyncInv
<1> SUFFICES ASSUME SyncInit PROVE SyncInv
  OBVIOUS
<1>1. SyncTypeOK
  BY IdleTyped DEF SyncInit, SyncTypeOK, Sender, IdleBatch
<1>2. RecordsOK
  BY IdleTyped DEF SyncInit, RecordsOK
<1>3. ValuesNamed /\ TakenOrOnRecord
  BY DEF SyncInit, ValuesNamed, TakenOrOnRecord, Agrees, IdleSender
<1>4. BatchesKnow /\ ClerkKnows
  BY DEF SyncInit, BatchesKnow, CopyOf, ClerkKnows, IdleBatch
<1>5. ClaimsHold
  BY RowsDiffer DEF SyncInit, ClaimsHold
<1> QED
  BY <1>1, <1>2, <1>3, <1>4, <1>5 DEF SyncInv

(* A failure stays on record as long as its row keeps its subject. *)
RowsStay ==
  \A f \in Failures : failure[f] \in Row => failure'[f] \in Row /\ SameSubject(failure'[f], failure[f])

(* Those that stand keep standing. *)
RowsStand ==
  \A f \in Failures : Standing(f) => Standing(f)' /\ SameSubject(failure'[f], failure[f])

LEMMA RecordStays ==
  ASSUME RowsStand, NEW i, wanted'[i] = wanted[i], OnRecord(i)
  PROVE  OnRecord(i)'
  BY DEF RowsStand, OnRecord, SameSubject

LEMMA Untouched == ASSUME UNCHANGED <<failure, batch>> PROVE RowsStand
  BY DEF RowsStand, Standing, SameSubject

(* An incident whose sender, and what ServiceNow has of it, stay as they are. *)
LEMMA AgreesStill ==
  ASSUME NEW i \in SyncIncidents, Agrees(i), UNCHANGED env_live,
         sender'[i] = sender[i], wanted'[i] = wanted[i],
         i \in unsent' <=> i \in unsent, i \in late' <=> i \in late, remote'[i] = remote[i],
         env_live /\ OnRecord(i) => OnRecord(i)'
  PROVE  Agrees(i)'
  BY DEF Agrees

LEMMA CopyStays ==
  ASSUME NEW loaded, NEW copy, NEW row, NEW new \in Row, CopyOf(loaded, copy, row),
         row \in Row => SameSubject(new, row)
  PROVE  CopyOf(loaded, copy, new)
  BY DEF CopyOf, SameSubject

(* Nothing takes a claim back. *)
LEMMA ClaimStays ==
  ASSUME NEW f \in Failures, NEW x \in Row, Claims(f, x), accepted \subseteq accepted',
         attempted[f] \in Nat, attempted'[f] \in Nat, attempted[f] <= attempted'[f]
  PROVE  Claims(f, x)'
<1>1. x.count \in Nat /\ MaxRetries \in Nat
  BY SyncAssumption DEF Row
<1> QED
  BY <1>1 DEF Claims

LEMMA CopyTyped ==
  ASSUME SyncInv, NEW w \in Batches, NEW f \in Failures, batch[w].loaded[f] # NoRow
  PROVE  /\ batch[w].rows[f] \in Row /\ batch[w].loaded[f] \in Row /\ failure[f] \in Row
         /\ SameSubject(batch[w].rows[f], failure[f])
  BY DEF SyncInv, BatchesKnow, CopyOf

(* The steps of a sender that write no failure. *)
LEMMA RecordsUntouched ==
  ASSUME SyncInv, UNCHANGED <<env_live, failure, clerk, batchVars>>, accepted \subseteq accepted'
  PROVE  RecordsOK' /\ BatchesKnow' /\ ClerkKnows' /\ ClaimsHold'
<1>1. RecordsOK' /\ BatchesKnow' /\ ClerkKnows'
  BY DEF SyncInv, RecordsOK, BatchesKnow, ClerkKnows, batchVars
<1>2. ClaimsHold'
  BY DEF SyncInv, ClaimsHold, Claims, batchVars
<1> QED
  BY <1>1, <1>2

-----------------------------------------------------------------------------
(* The session that assigns *)

LEMMA SyncAssignmentStep ==
  ASSUME SyncInv, NEW i \in SyncIncidents, SyncAssignment(i) \/ SenderDies(i)
  PROVE  SyncInv'
<1>1. UNCHANGED <<env_live, remote, wanted, failure, clerk, accepted, late, batchVars>>
  BY DEF SyncAssignment, SenderDies
<1>2. RecordsOK' /\ BatchesKnow' /\ ClerkKnows' /\ ClaimsHold'
  BY <1>1, RecordsUntouched
<1>3. PICK x \in Sender :
        /\ sender' = [sender EXCEPT ![i] = x]
        /\ x.step # "idle" => x.value \in Assignees
        /\ x.outcome = "skipped"
        /\ x.step = "idle" => i \in unsent'
  <2>1. CASE SyncAssignment(i)
    <3>1. PICK v \in Assignees, step \in {"sending", "settling"} :
            sender' = [sender EXCEPT ![i] = [IdleSender EXCEPT !.step = step, !.value = v]]
      BY <2>1 DEF SyncAssignment
    <3> DEFINE x == [IdleSender EXCEPT !.step = step, !.value = v]
    <3>2. x \in Sender /\ x.step = step /\ x.value = v /\ x.outcome = "skipped"
      BY IdleTyped DEF Sender, IdleSender
    <3> QED
      BY <3>1, <3>2
  <2>2. CASE SenderDies(i)
    BY <2>2, IdleTyped DEF SenderDies, IdleSender
  <2> QED
    BY <2>1, <2>2
<1>4. \A j \in SyncIncidents : sender'[j] = IF j = i THEN x ELSE sender[j]
  BY <1>3 DEF SyncInv, SyncTypeOK
<1>5. /\ unsent' \subseteq SyncIncidents
      /\ \A j \in SyncIncidents : j # i => (j \in unsent' <=> j \in unsent)
  BY DEF SyncAssignment, SenderDies, SyncInv, SyncTypeOK
<1>6. SyncTypeOK'
  BY <1>1, <1>3, <1>5 DEF SyncInv, SyncTypeOK, Sender, batchVars
<1>7. ValuesNamed'
  BY <1>3, <1>4 DEF SyncInv, ValuesNamed
<1>8. TakenOrOnRecord'
  <2> SUFFICES ASSUME NEW j \in SyncIncidents PROVE Agrees(j)'
    BY DEF TakenOrOnRecord
  <2>1. Agrees(j)
    BY DEF SyncInv, TakenOrOnRecord
  <2>2. OnRecord(j) => OnRecord(j)'
    BY <1>1, Untouched, RecordStays DEF batchVars
  <2>3. CASE j = i
    BY <1>3, <1>4, <2>3 DEF Agrees
  <2>4. CASE j # i
    BY <1>1, <1>4, <1>5, <2>1, <2>2, <2>4, AgreesStill
  <2> QED
    BY <2>3, <2>4
<1> QED
  BY <1>2, <1>6, <1>7, <1>8 DEF SyncInv

(* An assignment that sends nothing. *)
LEMMA WithoutSendingStep ==
  ASSUME SyncInv, NEW i \in SyncIncidents, WithoutSending(i)
  PROVE  SyncInv'
<1>1. UNCHANGED <<env_live, remote, failure, sender, clerk, accepted, late, batchVars>>
  BY DEF WithoutSending
<1>2. PICK v \in Assignees : wanted' = [wanted EXCEPT ![i] = v]
  BY DEF WithoutSending
<1>3. unsent' = unsent \cup {i} /\ sender[i].step = "idle"
  BY DEF WithoutSending
<1>4. RecordsOK' /\ BatchesKnow' /\ ClerkKnows' /\ ClaimsHold'
  BY <1>1, RecordsUntouched
<1>5. SyncTypeOK' /\ ValuesNamed'
  BY <1>1, <1>2, <1>3 DEF SyncInv, SyncTypeOK, ValuesNamed, batchVars
<1>6. TakenOrOnRecord'
  <2> SUFFICES ASSUME NEW j \in SyncIncidents PROVE Agrees(j)'
    BY DEF TakenOrOnRecord
  <2>1. Agrees(j)
    BY DEF SyncInv, TakenOrOnRecord
  <2>2. CASE j = i
    BY <1>1, <1>3, <2>2 DEF Agrees
  <2>3. CASE j # i
    <3>1. wanted'[j] = wanted[j]
      BY <1>2, <2>3 DEF SyncInv, SyncTypeOK
    <3>2. OnRecord(j) => OnRecord(j)'
      BY <1>1, <3>1, Untouched, RecordStays DEF batchVars
    <3> QED
      BY <1>1, <1>3, <2>1, <2>3, <3>1, <3>2, AgreesStill
  <2> QED
    BY <2>2, <2>3
<1> QED
  BY <1>4, <1>5, <1>6 DEF SyncInv

(* An attempt: what is reported as taken stands in ServiceNow at this moment. *)
LEMMA AttemptStep ==
  ASSUME SyncInv, NEW i \in SyncIncidents, Attempt(i)
  PROVE  SyncInv'
<1>1. UNCHANGED <<env_live, wanted, failure, clerk, unsent, batchVars>>
  BY DEF Attempt
<1>2. sender[i] \in Sender /\ sender[i].step = "sending" /\ sender[i].value \in Assignees
  BY DEF Attempt, SyncInv, SyncTypeOK, Sender, ValuesNamed
<1>3. Taken(i, sender[i].value) \/ NotTaken
  BY DEF Attempt, Unanswered
<1>4. /\ remote' \in [SyncIncidents -> Assignees \cup {Nobody}]
      /\ accepted \subseteq accepted' /\ accepted' \subseteq SyncIncidents \X Assignees
      /\ \A j \in SyncIncidents : j # i => remote'[j] = remote[j] /\ (j \in late' <=> j \in late)
      /\ late' \subseteq SyncIncidents
  BY <1>2, <1>3 DEF Taken, NotTaken, SyncInv, SyncTypeOK
<1>5. PICK x \in Sender :
        /\ sender' = [sender EXCEPT ![i] = x]
        /\ x.value = sender[i].value /\ x.step # "idle"
        /\ x.step = "settling" /\ x.outcome = "taken" => remote'[i] = x.value
  <2>1. ASSUME NEW o \in {"taken", "failed"},
               sender' = [sender EXCEPT ![i].step = "settling", ![i].outcome = o],
               o = "taken" => remote'[i] = sender[i].value
        PROVE  \E x \in Sender :
                 /\ sender' = [sender EXCEPT ![i] = x]
                 /\ x.value = sender[i].value /\ x.step # "idle"
                 /\ x.step = "settling" /\ x.outcome = "taken" => remote'[i] = x.value
    <3> DEFINE x == [sender[i] EXCEPT !.step = "settling", !.outcome = o]
    <3>1. x \in Sender /\ x.value = sender[i].value /\ x.step = "settling" /\ x.outcome = o
      BY <1>2 DEF Sender
    <3>2. sender' = [sender EXCEPT ![i] = x]
      BY <1>2, <2>1 DEF SyncInv, SyncTypeOK
    <3> QED
      BY <2>1, <3>1, <3>2
  <2>2. ASSUME sender[i].tries + 1 < MaxAttempts, sender' = [sender EXCEPT ![i].tries = @ + 1]
        PROVE  \E x \in Sender :
                 /\ sender' = [sender EXCEPT ![i] = x]
                 /\ x.value = sender[i].value /\ x.step # "idle"
                 /\ x.step = "settling" /\ x.outcome = "taken" => remote'[i] = x.value
    <3> DEFINE x == [sender[i] EXCEPT !.tries = @ + 1]
    <3>1. sender[i].tries + 1 \in 0..MaxAttempts - 1
      BY <1>2, <2>2, SyncAssumption DEF Sender
    <3>2. x \in Sender /\ x.value = sender[i].value /\ x.step = "sending"
      BY <1>2, <3>1 DEF Sender
    <3>3. sender' = [sender EXCEPT ![i] = x]
      BY <1>2, <2>2 DEF SyncInv, SyncTypeOK
    <3> QED
      BY <3>2, <3>3
  <2>3. Taken(i, sender[i].value) => remote'[i] = sender[i].value
    BY DEF Taken, SyncInv, SyncTypeOK
  <2>4. \/ /\ Taken(i, sender[i].value)
           /\ sender' = [sender EXCEPT ![i].step = "settling", ![i].outcome = "taken"]
        \/ sender' = [sender EXCEPT ![i].step = "settling", ![i].outcome = "failed"]
        \/ sender[i].tries + 1 < MaxAttempts /\ sender' = [sender EXCEPT ![i].tries = @ + 1]
    BY DEF Attempt
  <2> QED
    BY <2>1, <2>2, <2>3, <2>4
<1>6. \A j \in SyncIncidents : sender'[j] = IF j = i THEN x ELSE sender[j]
  BY <1>5 DEF SyncInv, SyncTypeOK
<1>7. SyncTypeOK'
  BY <1>1, <1>4, <1>5 DEF SyncInv, SyncTypeOK, Sender, batchVars
<1>8. ValuesNamed'
  BY <1>2, <1>5, <1>6 DEF SyncInv, ValuesNamed
<1>9. TakenOrOnRecord'
  <2> SUFFICES ASSUME NEW j \in SyncIncidents PROVE Agrees(j)'
    BY DEF TakenOrOnRecord
  <2>1. Agrees(j)
    BY DEF SyncInv, TakenOrOnRecord
  <2>2. OnRecord(j) => OnRecord(j)'
    BY <1>1, Untouched, RecordStays DEF batchVars
  <2>3. CASE j = i
    BY <1>5, <1>6, <2>3 DEF Agrees
  <2>4. CASE j # i
    BY <1>1, <1>4, <1>6, <2>1, <2>2, <2>4, AgreesStill
  <2> QED
    BY <2>3, <2>4
<1> QED
  BY <1>1, <1>4, <1>7, <1>8, <1>9, RecordsUntouched DEF SyncInv

(* The failure is written with the assignment, in a row that was free. *)
LEMMA CreateStep ==
  ASSUME SyncInv, NEW i \in SyncIncidents, sender[i].step = "settling", CreateSyncFailure(i),
         UNCHANGED <<env_live, clerk, accepted, batchVars>>
  PROVE  /\ failure' \in [Failures -> Row \cup {NoRow}]
         /\ RowsStay /\ RowsStand
         /\ \E f \in Failures : /\ Standing(f)' /\ failure'[f].inc = i
                              /\ failure'[f].value = sender[i].value
         /\ RecordsOK' /\ BatchesKnow' /\ ClerkKnows' /\ ClaimsHold'
<1> DEFINE new == [status |-> "PENDING", inc |-> i, value |-> sender[i].value, count |-> 0,
                   by_hand |-> FALSE]
<1>a. new \in Row
  BY DEF SyncInv, ValuesNamed, Row, Unsettled
<1>b. /\ new.inc = i /\ new.status = "PENDING" /\ new.count = 0
      /\ new.value = sender[i].value
  OBVIOUS
<1>c. PICK x \in Row : x = new
  BY <1>a
<1>1. PICK f \in Failures : failure[f] = NoRow /\ failure' = [failure EXCEPT ![f] = x]
  BY <1>c DEF CreateSyncFailure
<1>2. /\ x \in Row /\ x.inc = i /\ x.status = "PENDING" /\ x.count = 0
      /\ x.value = sender[i].value
  BY <1>a, <1>b, <1>c
<1>3. \A g \in Failures : failure'[g] = IF g = f THEN x ELSE failure[g]
  BY <1>1 DEF SyncInv, SyncTypeOK
<1> HIDE DEF new
<1>4. failure' \in [Failures -> Row \cup {NoRow}]
  BY <1>1, <1>2 DEF SyncInv, SyncTypeOK
<1>5. RowsStay
  BY <1>1, <1>3, RowsDiffer DEF RowsStay, SameSubject
<1>6. \A w \in Batches : batch[w].loaded[f] = NoRow /\ batch[w].rows[f] = NoRow
  BY <1>1, RowsDiffer DEF SyncInv, BatchesKnow, CopyOf
<1>7. Standing(f)' /\ failure'[f].inc = i /\ failure'[f].value = sender[i].value
  <2>1. failure'[f] = x
    BY <1>3
  <2>2. x # NoRow
    BY <1>2, RowsDiffer
  <2> QED
    BY <1>2, <1>6, <2>1, <2>2 DEF Standing, batchVars
<1>8. RowsStand
  BY <1>1, <1>3, RowsDiffer DEF RowsStand, Standing, SameSubject, batchVars
<1>9. BatchesKnow'
  BY <1>2, <1>3, <1>6 DEF SyncInv, BatchesKnow, CopyOf, batchVars
<1>10. ClerkKnows' /\ RecordsOK'
  <2>1. RecordsOK'
    BY DEF SyncInv, RecordsOK, batchVars
  <2>2. clerk # NoRow => clerk.of \in Failures
    BY DEF SyncInv, RecordsOK, Clerk
  <2> QED
    BY <1>5, <2>1, <2>2 DEF SyncInv, ClerkKnows, RowsStay
<1>11. ClaimsHold'
  <2>1. UNCHANGED batch /\ \A g \in Failures : \A y : Claims(g, y)' <=> Claims(g, y)
    BY DEF Claims, batchVars
  <2>2. Claims(f, x)
    BY <1>2 DEF Claims, SyncInv, RecordsOK
  <2>3. \A g \in Failures : g # f => failure'[g] = failure[g]
    BY <1>3
  <2>4. \A w \in Batches, g \in Failures : batch[w].loaded[g] # NoRow => g # f
    BY <1>6
  <2> QED
    BY <1>3, <2>1, <2>2, <2>3, <2>4 DEF SyncInv, ClaimsHold
<1> QED
  BY <1>4, <1>5, <1>7, <1>9, <1>10, <1>11, <1>8

(* The assignment is committed: it was taken, is on record or was not sent. *)
LEMMA SenderCommitsStep ==
  ASSUME SyncInv, NEW i \in SyncIncidents, SenderCommits(i)
  PROVE  SyncInv'
<1>1. /\ sender[i].step = "settling"
      /\ UNCHANGED <<env_live, remote, clerk, accepted, batchVars>>
      /\ wanted' = [wanted EXCEPT ![i] = sender[i].value]
      /\ sender' = [sender EXCEPT ![i] = IdleSender]
  BY DEF SenderCommits
<1>2. \A j \in SyncIncidents :
        /\ sender'[j] = IF j = i THEN IdleSender ELSE sender[j]
        /\ wanted'[j] = IF j = i THEN sender[i].value ELSE wanted[j]
  BY <1>1 DEF SyncInv, SyncTypeOK
<1>3. /\ failure' \in [Failures -> Row \cup {NoRow}] /\ RowsStay /\ RowsStand
      /\ sender[i].outcome = "failed" => OnRecord(i)'
      /\ RecordsOK' /\ BatchesKnow' /\ ClerkKnows' /\ ClaimsHold'
  <2>1. CASE sender[i].outcome = "failed"
    <3>1. CreateSyncFailure(i)
      BY <2>1 DEF SenderCommits
    <3>2. PICK f \in Failures : Standing(f)' /\ failure'[f].inc = i /\ failure'[f].value = sender[i].value
      BY <1>1, <3>1, CreateStep
    <3>3. OnRecord(i)'
      BY <1>2, <3>2 DEF OnRecord
    <3> QED
      BY <1>1, <3>1, <3>3, CreateStep
  <2>2. CASE sender[i].outcome # "failed"
    <3>1. UNCHANGED failure
      BY <2>2 DEF SenderCommits
    <3>2. RowsStay /\ RowsStand /\ failure' \in [Failures -> Row \cup {NoRow}]
      BY <1>1, <3>1, Untouched DEF RowsStay, SameSubject, SyncInv, SyncTypeOK, batchVars
    <3> QED
      BY <1>1, <2>2, <3>1, <3>2, RecordsUntouched
  <2> QED
    BY <2>1, <2>2
<1>4. /\ unsent' = IF sender[i].outcome = "skipped" THEN unsent \cup {i} ELSE unsent \ {i}
      /\ late' = IF sender[i].outcome = "failed" THEN late \ {i} ELSE late
  BY DEF SenderCommits
<1>5. sender[i].value \in Assignees /\ sender[i].outcome \in {"skipped", "taken", "failed"}
  BY <1>1 DEF SyncInv, SyncTypeOK, ValuesNamed
<1>6. SyncTypeOK'
  BY <1>1, <1>3, <1>4, <1>5, IdleTyped DEF SyncInv, SyncTypeOK, Sender, batchVars
<1>7. ValuesNamed'
  BY <1>2 DEF SyncInv, ValuesNamed, IdleSender
<1>8. TakenOrOnRecord'
  <2> SUFFICES ASSUME NEW j \in SyncIncidents PROVE Agrees(j)'
    BY DEF TakenOrOnRecord
  <2>1. Agrees(j)
    BY DEF SyncInv, TakenOrOnRecord
  <2>2. CASE j # i
    <3>1. OnRecord(j) => OnRecord(j)'
      BY <1>2, <1>3, <2>2, RecordStays
    <3> QED
      BY <1>1, <1>2, <1>4, <2>1, <2>2, <3>1, AgreesStill
  <2>3. CASE j = i
    <3>1. CASE sender[i].outcome = "failed"
      BY <1>2, <1>3, <2>3, <3>1 DEF Agrees, IdleSender
    <3>2. CASE sender[i].outcome # "failed"
      BY <1>1, <1>2, <1>4, <1>5, <2>1, <2>3, <3>2 DEF Agrees, IdleSender
    <3> QED
      BY <3>1, <3>2
  <2> QED
    BY <2>2, <2>3
<1> QED
  BY <1>3, <1>6, <1>7, <1>8 DEF SyncInv

-----------------------------------------------------------------------------
(* The batch *)

(* What a batch does to an incident: it comes late, it puts the newest      *)
(* assignee there, or it changes nothing and recovers no failure of his.   *)
BatchMoves(j) ==
  \/ j \in late'
  \/ remote'[j] = Newest(j)
  \/ /\ remote'[j] = remote[j] /\ (j \in late' <=> j \in late)
     /\ env_live /\ OnRecord(j) => OnRecord(j)'

(* What stays when a batch leaves the rows and the senders alone. *)
LEMMA SendersUntouched ==
  ASSUME SyncInv, UNCHANGED <<env_live, failure, clerk, senderVars>>, attempted' \in [Failures -> Nat],
         batch' \in [Batches -> Batch],
         remote' \in [SyncIncidents -> Assignees \cup {Nobody}],
         accepted' \subseteq SyncIncidents \X Assignees,
         late' \subseteq SyncIncidents, \A j \in SyncIncidents : BatchMoves(j)
  PROVE  SyncTypeOK' /\ RecordsOK' /\ ValuesNamed' /\ ClerkKnows' /\ TakenOrOnRecord'
<1>1. SyncTypeOK'
  BY DEF SyncInv, SyncTypeOK, senderVars, Batch
<1>2. RecordsOK' /\ ValuesNamed' /\ ClerkKnows'
  BY DEF SyncInv, RecordsOK, ValuesNamed, ClerkKnows, senderVars
<1>3. ASSUME NEW j \in SyncIncidents PROVE Agrees(j)'
  <2>1. Agrees(j) /\ BatchMoves(j) /\ UNCHANGED <<env_live, senderVars>>
    BY DEF SyncInv, TakenOrOnRecord
  <2>2. CASE j \in late'
    BY <2>2 DEF Agrees
  <2>3. CASE remote'[j] = Newest(j)
    BY <2>1, <2>3 DEF Agrees, Newest, senderVars
  <2>4. CASE /\ remote'[j] = remote[j] /\ (j \in late' <=> j \in late)
             /\ env_live /\ OnRecord(j) => OnRecord(j)'
    BY <2>1, <2>4, AgreesStill DEF senderVars
  <2> QED
    BY <2>1, <2>2, <2>3, <2>4 DEF BatchMoves
<1> QED
  BY <1>1, <1>2, <1>3 DEF TakenOrOnRecord

(* A batch that sends nothing and recovers nothing. *)
LEMMA BatchAlone ==
  ASSUME RowsStand, UNCHANGED <<remote, late, senderVars>>
  PROVE  \A j \in SyncIncidents : BatchMoves(j)
  BY RecordStays DEF BatchMoves, senderVars

LEMMA LoadFailuresStep ==
  ASSUME SyncInv, NEW w \in Batches, LoadFailures(w)
  PROVE  SyncInv'
<1> DEFINE x == [step |-> "retrying", loaded |-> failure, rows |-> failure,
                 todo |-> {f \in Failures : failure[f].status \in Unsettled}]
<1>1. UNCHANGED <<env_live, remote, failure, clerk, accepted, late, senderVars, attempted>>
  BY DEF LoadFailures
<1>2. x \in Batch
  BY DEF Batch, SyncInv, SyncTypeOK
<1>3. batch' = [batch EXCEPT ![w] = x]
  BY DEF LoadFailures
<1>4. /\ x.loaded = failure /\ x.rows = failure
      /\ \A f \in x.todo : failure[f].status \in Unsettled
  OBVIOUS
<1> HIDE DEF x
<1>5. batch' \in [Batches -> Batch] /\ \A v \in Batches : batch'[v] = IF v = w THEN x ELSE batch[v]
  BY <1>2, <1>3 DEF SyncInv, RecordsOK
<1>6. BatchesKnow'
  <2> SUFFICES ASSUME NEW v \in Batches, NEW f \in Failures
      PROVE  /\ CopyOf(batch'[v].loaded[f], batch'[v].rows[f], failure[f])
             /\ f \in batch'[v].todo => Untried(batch'[v].loaded[f], batch'[v].rows[f])
    BY <1>1 DEF BatchesKnow
  <2>1. failure[f] \in Row \cup {NoRow}
    BY DEF SyncInv, SyncTypeOK
  <2>2. CASE v = w
    BY <1>4, <1>5, <2>1, <2>2, RowsDiffer DEF CopyOf, SameSubject, Untried, NoRow, Unsettled
  <2>3. CASE v # w
    BY <1>5, <2>3 DEF SyncInv, BatchesKnow
  <2> QED
    BY <2>2, <2>3
<1>7. ClaimsHold'
  <2>1. \A f \in Failures : \A y : Claims(f, y)' <=> Claims(f, y)
    BY <1>1 DEF Claims
  <2> QED
    BY <1>1, <1>4, <1>5, <2>1 DEF SyncInv, ClaimsHold
<1>8. RowsStand
  <2>1. \A v \in Batches, f \in Failures :
          batch'[v] = batch[v] \/ batch'[v].rows[f] = batch'[v].loaded[f]
    BY <1>4, <1>5
  <2> QED
    BY <1>1, <2>1 DEF RowsStand, Standing, SameSubject
<1>9. SyncTypeOK' /\ RecordsOK' /\ ValuesNamed' /\ ClerkKnows' /\ TakenOrOnRecord'
  BY <1>1, <1>5, <1>8, BatchAlone, SendersUntouched DEF SyncInv, SyncTypeOK, RecordsOK
<1> QED
  BY <1>6, <1>7, <1>9 DEF SyncInv

(* A batch that ends without writing leaves only claims behind that hold. *)
LEMMA BatchDiesStep ==
  ASSUME SyncInv, NEW w \in Batches, BatchDies(w)
  PROVE  SyncInv'
<1>1. UNCHANGED <<env_live, remote, failure, clerk, accepted, late, senderVars, attempted>>
  BY DEF BatchDies
<1>2. /\ batch' \in [Batches -> Batch]
      /\ \A v \in Batches : batch'[v] = IF v = w THEN IdleBatch ELSE batch[v]
  BY IdleTyped DEF BatchDies, SyncInv, RecordsOK
<1>3. \A f \in Failures : IdleBatch.loaded[f] = NoRow /\ IdleBatch.rows[f] = NoRow /\ IdleBatch.todo = {}
  BY DEF IdleBatch
<1>4. BatchesKnow'
  BY <1>1, <1>2, <1>3 DEF SyncInv, BatchesKnow, CopyOf
<1>5. ClaimsHold'
  <2>1. \A f \in Failures : \A y : Claims(f, y)' <=> Claims(f, y)
    BY <1>1 DEF Claims
  <2> QED
    BY <1>1, <1>2, <1>3, <2>1 DEF SyncInv, ClaimsHold
<1>6. RowsStand
  BY <1>1, <1>2, <1>3 DEF RowsStand, Standing, SameSubject
<1>7. SyncTypeOK' /\ RecordsOK' /\ ValuesNamed' /\ ClerkKnows' /\ TakenOrOnRecord'
  BY <1>1, <1>2, <1>6, BatchAlone, SendersUntouched DEF SyncInv, SyncTypeOK, RecordsOK
<1> QED
  BY <1>4, <1>5, <1>7 DEF SyncInv

LEMMA CountedRow ==
  ASSUME NEW x \in Row, NEW status \in {"RETRYING", "RESOLVED", "DEAD_LETTER"}
  PROVE  /\ [x EXCEPT !.status = status, !.count = @ + 1] \in Row
         /\ [x EXCEPT !.status = status, !.count = @ + 1].status = status
         /\ [x EXCEPT !.status = status, !.count = @ + 1].count = x.count + 1
<1> DEFINE y == [x EXCEPT !.status = status, !.count = @ + 1]
<1>1. x.count \in Nat /\ x.count + 1 \in Nat
  BY DEF Row
<1>2. PICK n \in Nat : n = x.count + 1
  BY <1>1
<1>3. status \in Unsettled \cup {"RESOLVED", "DEAD_LETTER"}
  BY DEF Unsettled
<1>4. y = [x EXCEPT !.status = status, !.count = n]
  BY <1>2 DEF Row
<1>5. [x EXCEPT !.status = status, !.count = n] \in Row
  BY <1>3 DEF Row
<1>6. y.status = status /\ y.count = n
  BY <1>4 DEF Row
<1> QED
  BY <1>2, <1>4, <1>5, <1>6

(* A failure is settled: its copy is counted and leaves the list. *)
LEMMA SettledCopy ==
  ASSUME SyncInv, NEW w \in Batches, NEW f \in batch[w].todo,
         NEW status \in {"RETRYING", "RESOLVED", "DEAD_LETTER"}, Settled(w, f, status)
  PROVE  \E y \in Row :
           /\ y.status = status /\ y.count = batch[w].rows[f].count + 1
           /\ SameSubject(y, batch[w].rows[f])
           /\ batch' \in [Batches -> Batch]
           /\ \A v \in Batches, g \in Failures :
                /\ batch'[v].loaded[g] = batch[v].loaded[g]
                /\ batch'[v].rows[g] = IF v = w /\ g = f THEN y ELSE batch[v].rows[g]
                /\ g \in batch'[v].todo => g \in batch[v].todo /\ ~ (v = w /\ g = f)
<1> DEFINE y == [batch[w].rows[f] EXCEPT !.status = status, !.count = @ + 1]
           b == [batch[w] EXCEPT !.todo = @ \ {f}, !.rows = [batch[w].rows EXCEPT ![f] = y]]
<1>1. batch[w] \in Batch /\ batch \in [Batches -> Batch] /\ f \in Failures
  BY DEF SyncInv, RecordsOK, Batch
<1>2. batch[w].rows[f] \in Row
  BY <1>1 DEF SyncInv, BatchesKnow, Untried
<1>3. y \in Row /\ y.status = status /\ y.count = batch[w].rows[f].count + 1
  BY <1>2, CountedRow
<1>4. SameSubject(y, batch[w].rows[f])
  BY <1>2 DEF Row, SameSubject
<1>5. batch' = [batch EXCEPT ![w] = b]
  BY <1>1, <1>2 DEF Settled, Batch, Row
<1> HIDE DEF y
<1>6. b \in Batch /\ b.loaded = batch[w].loaded /\ b.todo = batch[w].todo \ {f}
  BY <1>1, <1>3 DEF Batch
<1>7. b.rows = [batch[w].rows EXCEPT ![f] = y] /\ batch[w].rows \in [Failures -> Row \cup {NoRow}]
  BY <1>1 DEF Batch
<1> HIDE DEF b
<1>8. \A v \in Batches : batch'[v] = IF v = w THEN b ELSE batch[v]
  BY <1>1, <1>5
<1>9. batch' \in [Batches -> Batch]
  BY <1>1, <1>5, <1>6
<1>10. \A g \in Failures : b.rows[g] = IF g = f THEN y ELSE batch[w].rows[g]
  BY <1>7
<1> QED
  BY <1>1, <1>3, <1>4, <1>6, <1>8, <1>9, <1>10

(***************************************************************************)
(* Whatever comes of a failure, the invariant asks only that the new copy  *)
(* does not claim too much; what was claimed before stays true.            *)
(***************************************************************************)
LEMMA SettledStep ==
  ASSUME SyncInv, NEW w \in Batches, NEW f \in batch[w].todo,
         NEW status \in {"RETRYING", "RESOLVED", "DEAD_LETTER"}, Settled(w, f, status),
         UNCHANGED <<env_live, failure, clerk, senderVars>>,
         attempted' \in [Failures -> Nat], \A g \in Failures : attempted[g] <= attempted'[g],
         remote' \in [SyncIncidents -> Assignees \cup {Nobody}],
         late' \subseteq SyncIncidents,
         \A j \in SyncIncidents :
           \/ j \in late'
           \/ remote'[j] = Newest(j)
           \/ /\ remote'[j] = remote[j] /\ (j \in late' <=> j \in late)
              /\ ~ (env_live /\ status = "RESOLVED" /\ j = batch[w].rows[f].inc),
         accepted \subseteq accepted', accepted' \subseteq SyncIncidents \X Assignees,
         env_live /\ Claims(f, batch[w].rows[f]) =>
           /\ status = "RESOLVED" => <<batch[w].rows[f].inc, batch[w].rows[f].value>> \in accepted'
           /\ status = "RETRYING" => batch[w].rows[f].count + 1 <= attempted'[f]
           /\ status = "DEAD_LETTER" => attempted'[f] >= MaxRetries
  PROVE  SyncInv'
<1>1. f \in Failures /\ Untried(batch[w].loaded[f], batch[w].rows[f])
  BY DEF SyncInv, RecordsOK, Batch, BatchesKnow
<1>2. PICK y \in Row :
           /\ y.status = status /\ y.count = batch[w].rows[f].count + 1
           /\ SameSubject(y, batch[w].rows[f])
           /\ batch' \in [Batches -> Batch]
           /\ \A v \in Batches, g \in Failures :
                /\ batch'[v].loaded[g] = batch[v].loaded[g]
                /\ batch'[v].rows[g] = IF v = w /\ g = f THEN y ELSE batch[v].rows[g]
                /\ g \in batch'[v].todo => g \in batch[v].todo /\ ~ (v = w /\ g = f)
  BY SettledCopy
<1>3. ASSUME NEW j \in SyncIncidents, remote'[j] = remote[j], j \in late' <=> j \in late,
             ~ (env_live /\ status = "RESOLVED" /\ j = batch[w].rows[f].inc)
      PROVE  BatchMoves(j)
  <2> SUFFICES ASSUME env_live, OnRecord(j) PROVE OnRecord(j)'
    BY <1>3 DEF BatchMoves
  <2>1. PICK g \in Failures : Standing(g) /\ failure[g].inc = j /\ failure[g].value = wanted[j]
    BY DEF OnRecord
  <2>2. ASSUME g = f PROVE y.status # "RESOLVED"
    <3>1. batch[w].rows[f].inc = failure[f].inc
      BY <1>1, RowsDiffer DEF SyncInv, BatchesKnow, CopyOf, Untried, SameSubject
    <3> QED
      BY <1>2, <1>3, <2>1, <2>2, <3>1
  <2>3. ASSUME NEW v \in Batches, batch'[v].rows[g].status = "RESOLVED"
        PROVE  batch'[v].rows[g] = batch[v].rows[g] /\ batch'[v].loaded[g] = batch[v].loaded[g]
    BY <1>2, <2>2, <2>3
  <2>4. Standing(g)'
    BY <2>1, <2>3 DEF Standing
  <2> QED
    BY <2>1, <2>4 DEF OnRecord, senderVars
<1>4. SyncTypeOK' /\ RecordsOK' /\ ValuesNamed' /\ ClerkKnows' /\ TakenOrOnRecord'
  <2>1. \A j \in SyncIncidents : BatchMoves(j)
    BY <1>3 DEF BatchMoves
  <2> QED
    BY <1>2, <2>1, SendersUntouched
<1>5. BatchesKnow'
  <2> SUFFICES ASSUME NEW v \in Batches, NEW g \in Failures
      PROVE  /\ CopyOf(batch'[v].loaded[g], batch'[v].rows[g], failure[g])
             /\ g \in batch'[v].todo => Untried(batch'[v].loaded[g], batch'[v].rows[g])
    BY DEF BatchesKnow
  <2>1. CASE v = w /\ g = f
    <3>1. CopyOf(batch[w].loaded[f], batch[w].rows[f], failure[f])
      BY <1>1 DEF SyncInv, BatchesKnow
    <3>2. CopyOf(batch[w].loaded[f], y, failure[f])
      BY <1>1, <1>2, <3>1, RowsDiffer DEF CopyOf, Untried, SameSubject
    <3> QED
      BY <1>2, <2>1, <3>2
  <2>2. CASE ~ (v = w /\ g = f)
    BY <1>2, <2>2 DEF SyncInv, BatchesKnow
  <2> QED
    BY <2>1, <2>2
<1>6. \A g \in Failures, x \in Row : Claims(g, x) => Claims(g, x)'
  BY ClaimStays DEF SyncInv, RecordsOK
<1>7. ClaimsHold'
  <2> SUFFICES ASSUME env_live, NEW g \in Failures, failure[g] \in Row, ~ failure[g].by_hand
               PROVE  /\ Claims(g, failure[g])'
                      /\ \A v \in Batches : batch'[v].loaded[g] # NoRow => Claims(g, batch[v].rows[g])'
    BY DEF ClaimsHold
  <2>1. Claims(g, failure[g])'
    BY <1>6 DEF SyncInv, ClaimsHold
  <2>2. ASSUME NEW v \in Batches, batch'[v].loaded[g] # NoRow PROVE Claims(g, batch[v].rows[g])'
    <3>1. batch[v].loaded[g] # NoRow /\ Claims(g, batch[v].rows[g]) /\ batch[v].rows[g] \in Row
      BY <1>2, <2>2, CopyTyped DEF SyncInv, ClaimsHold
    <3>2. CASE v = w /\ g = f
      <4>1. Claims(f, y)'
        BY <1>2, <3>1, <3>2 DEF Claims, SameSubject, Unsettled
      <4> QED
        BY <1>2, <3>2, <4>1
    <3>3. CASE ~ (v = w /\ g = f)
      BY <1>2, <1>6, <3>1, <3>3
    <3> QED
      BY <3>2, <3>3
  <2> QED
    BY <2>1, <2>2
<1> QED
  BY <1>4, <1>5, <1>7 DEF SyncInv

(* A dead letter is one whose count, and so its attempts, reached the limit. *)
LEMMA RetryStep ==
  ASSUME SyncInv, NEW w \in Batches, NEW f \in Failures,
         DeadLetter(w, f) \/ Skipped(w, f) \/ Retry(w, f)
  PROVE  SyncInv'
<1> DEFINE x == batch[w].rows[f]
<1>1. f \in batch[w].todo /\ UNCHANGED <<env_live, failure, clerk, senderVars>>
  BY DEF DeadLetter, Skipped, Retry
<1>2. x \in Row /\ x.status \in Unsettled /\ x.count \in Nat
  BY <1>1 DEF SyncInv, BatchesKnow, Untried, Row
<1>3. attempted \in [Failures -> Nat] /\ MaxRetries \in Nat
  BY SyncAssumption DEF SyncInv, RecordsOK
<1>4. /\ remote \in [SyncIncidents -> Assignees \cup {Nobody}] /\ accepted \subseteq SyncIncidents \X Assignees
      /\ late \subseteq SyncIncidents
  BY DEF SyncInv, SyncTypeOK
<1>5. CASE DeadLetter(w, f)
  <2>1. Settled(w, f, "DEAD_LETTER") /\ UNCHANGED <<remote, accepted, late, attempted>>
    BY <1>5 DEF DeadLetter
  <2>2. Claims(f, x) => attempted[f] >= MaxRetries
    BY <1>2, <1>3, <1>5 DEF DeadLetter, GivesUp, Claims
  <2>3. \A g \in Failures : attempted[g] <= attempted'[g]
    BY <1>3, <2>1
  <2> QED
    BY <1>1, <1>3, <1>4, <2>1, <2>2, <2>3, SettledStep
<1>6. CASE Skipped(w, f)
  <2>1. Settled(w, f, "RESOLVED") /\ UNCHANGED <<remote, accepted, late, attempted>> /\ ~ env_live
    BY <1>6 DEF Skipped
  <2>2. \A g \in Failures : attempted[g] <= attempted'[g]
    BY <1>3, <2>1
  <2> QED
    BY <1>1, <1>3, <1>4, <2>1, <2>2, SettledStep
<1>7. CASE Retry(w, f)
  <2>1. attempted' = [attempted EXCEPT ![f] = @ + 1]
    BY <1>7 DEF Retry
  <2>2. attempted' \in [Failures -> Nat] /\ \A g \in Failures : attempted[g] <= attempted'[g]
    BY <1>3, <2>1
  <2>3. x.inc \in SyncIncidents /\ x.value \in Assignees
    BY <1>2 DEF Row
  <2>5. Taken(x.inc, x.value) \/ NotTaken
    BY <1>7 DEF Retry, Unanswered
  <2>6. remote' \in [SyncIncidents -> Assignees \cup {Nobody}]
    BY <1>4, <2>3, <2>5 DEF Taken, NotTaken
  <2>4. late' \subseteq SyncIncidents
    BY <1>4, <2>3, <2>5 DEF Taken, NotTaken
  <2>7. \A j \in SyncIncidents :
          \/ j \in late'
          \/ remote'[j] = Newest(j)
          \/ /\ remote'[j] = remote[j] /\ (j \in late' <=> j \in late)
             /\ Taken(x.inc, x.value) => j # x.inc
    BY <1>4, <2>3, <2>5 DEF Taken, NotTaken
  <2>8. accepted \subseteq accepted' /\ accepted' \subseteq SyncIncidents \X Assignees
    BY <1>4, <2>3, <2>5 DEF Taken, NotTaken
  <2>9. \/ Taken(x.inc, x.value) /\ Settled(w, f, "RESOLVED")
        \/ Settled(w, f, "RETRYING")
    BY <1>7 DEF Retry
  <2>10. Claims(f, x) => x.count + 1 <= attempted'[f]
    BY <1>2, <1>3, <2>1 DEF Claims
  <2>11. Taken(x.inc, x.value) => <<x.inc, x.value>> \in accepted'
    BY DEF Taken
  <2>12. CASE Taken(x.inc, x.value) /\ Settled(w, f, "RESOLVED")
    BY <1>1, <2>2, <2>4, <2>6, <2>7, <2>8, <2>11, <2>12, SettledStep
  <2>13. CASE Settled(w, f, "RETRYING")
    BY <1>1, <2>2, <2>4, <2>6, <2>7, <2>8, <2>10, <2>13, SettledStep
  <2> QED
    BY <2>9, <2>12, <2>13
<1> QED
  BY <1>5, <1>6, <1>7

(* A flush keeps the subject of the row, and whether an admin closed it. *)
LEMMA FlushedRow ==
  ASSUME NEW loaded \in Row, NEW new \in Row, NEW row \in Row
  PROVE  /\ Flushed(loaded, new, row) \in Row
         /\ SameSubject(Flushed(loaded, new, row), row)
         /\ Flushed(loaded, new, row).by_hand = row.by_hand
         /\ Flushed(loaded, new, row).count = IF new.count = loaded.count THEN row.count ELSE new.count
         /\ Flushed(loaded, new, row).status = IF new.status = loaded.status THEN row.status ELSE new.status
  BY DEF Flushed, SameSubject, Row

(***************************************************************************)
(* A counted copy is flushed over a row that others may have written: the  *)
(* count is always its own, and where the status is the row's, so is the   *)
(* claim, except that an unsettled one now goes with the copy's count.     *)
(***************************************************************************)
LEMMA FlushedClaims ==
  ASSUME NEW f \in Failures, NEW loaded \in Row, NEW new \in Row, NEW row \in Row,
         SameSubject(new, row), loaded.status \in Unsettled, new.count = loaded.count + 1,
         Claims(f, new), Claims(f, row)
  PROVE  Claims(f, Flushed(loaded, new, row))
<1>1. PICK z \in Row : z = Flushed(loaded, new, row)
  BY FlushedRow
<1>2. /\ SameSubject(z, row)
      /\ z.count = IF new.count = loaded.count THEN row.count ELSE new.count
      /\ z.status = IF new.status = loaded.status THEN row.status ELSE new.status
  BY <1>1, FlushedRow
<1>3. z.count = new.count
  BY <1>2 DEF Row
<1>4. ASSUME new.status = loaded.status PROVE Claims(f, z)
  BY <1>2, <1>3, <1>4 DEF Claims, SameSubject
<1>5. ASSUME new.status # loaded.status PROVE Claims(f, z)
  BY <1>2, <1>3, <1>5 DEF Claims, SameSubject
<1> QED
  BY <1>1, <1>4, <1>5

(* Rows are written, with the same subjects, and nothing is sent. *)
LEMMA RowsWritten ==
  ASSUME SyncInv, UNCHANGED <<env_live, remote, accepted, late, senderVars>>, attempted' = attempted,
         RowsStay, RowsStand, failure' \in [Failures -> Row \cup {NoRow}],
         \A f \in Failures : failure[f] = NoRow => failure'[f] = NoRow,
         batch' \in [Batches -> Batch], clerk' \in {clerk, NoRow}
  PROVE  SyncTypeOK' /\ RecordsOK' /\ ValuesNamed' /\ ClerkKnows' /\ TakenOrOnRecord'
<1>1. SyncTypeOK'
  BY DEF SyncInv, SyncTypeOK, senderVars, Batch
<1>2. RecordsOK' /\ ValuesNamed'
  BY DEF SyncInv, RecordsOK, ValuesNamed, senderVars
<1>3. ClerkKnows'
  <2>1. clerk # NoRow => clerk.of \in Failures
    BY DEF SyncInv, RecordsOK, Clerk
  <2> QED
    BY <2>1 DEF SyncInv, ClerkKnows, RowsStay
<1>4. TakenOrOnRecord'
  <2> SUFFICES ASSUME NEW j \in SyncIncidents PROVE Agrees(j)'
    BY DEF TakenOrOnRecord
  <2>1. Agrees(j) /\ UNCHANGED <<env_live, remote, late, senderVars>>
    BY DEF SyncInv, TakenOrOnRecord
  <2>2. OnRecord(j) => OnRecord(j)'
    BY <2>1, RecordStays DEF senderVars
  <2> QED
    BY <2>1, <2>2, AgreesStill DEF senderVars
<1> QED
  BY <1>1, <1>2, <1>3, <1>4

(* The batch ends: what it has counted is flushed over the rows as they are. *)
LEMMA BatchCommitsStep ==
  ASSUME SyncInv, NEW w \in Batches, BatchCommits(w)
  PROVE  SyncInv'
<1>1. UNCHANGED <<env_live, remote, clerk, accepted, late, senderVars, attempted>>
  BY DEF BatchCommits
<1>2. /\ batch' \in [Batches -> Batch]
      /\ \A v \in Batches : batch'[v] = IF v = w THEN IdleBatch ELSE batch[v]
  BY IdleTyped DEF BatchCommits, SyncInv, RecordsOK
<1>3. \A f \in Failures : IdleBatch.loaded[f] = NoRow /\ IdleBatch.rows[f] = NoRow /\ IdleBatch.todo = {}
  BY DEF IdleBatch
<1>4. \A f \in Failures :
        failure'[f] = IF batch[w].rows[f] # batch[w].loaded[f]
                      THEN Flushed(batch[w].loaded[f], batch[w].rows[f], failure[f]) ELSE failure[f]
  BY DEF BatchCommits
<1>5. ASSUME NEW f \in Failures, batch[w].rows[f] # batch[w].loaded[f]
      PROVE  /\ batch[w].loaded[f] \in Row /\ batch[w].rows[f] \in Row /\ failure[f] \in Row
             /\ SameSubject(batch[w].rows[f], failure[f])
             /\ batch[w].loaded[f].status \in Unsettled
             /\ batch[w].rows[f].count = batch[w].loaded[f].count + 1
             /\ batch[w].loaded[f] # NoRow
  BY <1>5, RowsDiffer DEF SyncInv, BatchesKnow, CopyOf
<1>6. \A f \in Failures : failure[f] \in Row \cup {NoRow}
  BY DEF SyncInv, SyncTypeOK
<1>7. ASSUME NEW f \in Failures
      PROVE  /\ failure[f] = NoRow => failure'[f] = NoRow
             /\ failure[f] \in Row =>
                  /\ failure'[f] \in Row /\ SameSubject(failure'[f], failure[f])
                  /\ failure'[f].by_hand = failure[f].by_hand
  <2>1. CASE batch[w].rows[f] # batch[w].loaded[f]
    <3>1. failure'[f] = Flushed(batch[w].loaded[f], batch[w].rows[f], failure[f])
      BY <1>4, <2>1
    <3> QED
      BY <1>5, <2>1, <3>1, FlushedRow, RowsDiffer
  <2>2. CASE batch[w].rows[f] = batch[w].loaded[f]
    BY <1>4, <2>2 DEF SameSubject
  <2> QED
    BY <2>1, <2>2
<1>8. failure' \in [Failures -> Row \cup {NoRow}]
  <2>1. DOMAIN failure' = Failures /\ failure' = [f \in Failures |-> failure'[f]]
    BY DEF BatchCommits
  <2> QED
    BY <1>6, <1>7, <2>1
<1>9. RowsStay
  BY <1>7 DEF RowsStay
<1>10. RowsStand
  <2> SUFFICES ASSUME NEW f \in Failures, Standing(f)
               PROVE  Standing(f)' /\ SameSubject(failure'[f], failure[f])
    BY DEF RowsStand
  <2>1. failure[f] \in Row /\ failure'[f] \in Row /\ SameSubject(failure'[f], failure[f])
        /\ failure'[f].by_hand = failure[f].by_hand
    BY <1>7 DEF Standing
  <2>2. ASSUME ~ failure[f].by_hand PROVE failure'[f].status # "RESOLVED"
    <3>1. failure[f].status # "RESOLVED"
      BY <2>2 DEF Standing
    <3>2. CASE batch[w].rows[f] # batch[w].loaded[f]
      <4>1. batch[w].rows[f].status # "RESOLVED"
        BY <2>2, <3>2 DEF Standing
      <4>2. failure'[f].status \in {failure[f].status, batch[w].rows[f].status}
        BY <1>4, <1>5, <3>2, FlushedRow
      <4> QED
        BY <3>1, <4>1, <4>2
    <3>3. CASE batch[w].rows[f] = batch[w].loaded[f]
      BY <1>4, <3>1, <3>3
    <3> QED
      BY <3>2, <3>3
  <2>3. \A v \in Batches : batch'[v] = batch[v] \/ batch'[v].rows[f] = batch'[v].loaded[f]
    BY <1>2, <1>3
  <2> QED
    BY <2>1, <2>2, <2>3 DEF Standing
<1>11. SyncTypeOK' /\ RecordsOK' /\ ValuesNamed' /\ ClerkKnows' /\ TakenOrOnRecord'
  BY <1>1, <1>2, <1>7, <1>8, <1>9, <1>10, RowsWritten
<1>12. BatchesKnow'
  <2> SUFFICES ASSUME NEW v \in Batches, NEW f \in Failures
      PROVE  /\ CopyOf(batch'[v].loaded[f], batch'[v].rows[f], failure'[f])
             /\ f \in batch'[v].todo => Untried(batch'[v].loaded[f], batch'[v].rows[f])
    BY DEF BatchesKnow
  <2>1. CASE v = w
    BY <1>2, <1>3, <2>1 DEF CopyOf
  <2>2. CASE v # w
    <3>1. /\ CopyOf(batch[v].loaded[f], batch[v].rows[f], failure[f])
          /\ f \in batch[v].todo => Untried(batch[v].loaded[f], batch[v].rows[f])
      BY DEF SyncInv, BatchesKnow
    <3>2. CopyOf(batch[v].loaded[f], batch[v].rows[f], failure'[f])
      BY <1>6, <1>7, <3>1 DEF CopyOf, SameSubject
    <3> QED
      BY <1>2, <2>2, <3>1, <3>2
  <2> QED
    BY <2>1, <2>2
<1>13. ClaimsHold'
  <2>1. \A f \in Failures : \A y : Claims(f, y)' <=> Claims(f, y)
    BY <1>1 DEF Claims
  <2> SUFFICES ASSUME env_live, NEW f \in Failures, failure'[f] \in Row, ~ failure'[f].by_hand
               PROVE  /\ Claims(f, failure[f])'
                      /\ \A v \in Batches : batch'[v].loaded[f] # NoRow => Claims(f, batch[v].rows[f])'
    BY <1>1 DEF ClaimsHold
  <2>2. failure[f] \in Row /\ ~ failure[f].by_hand
    BY <1>6, <1>7, RowsDiffer
  <2>3. /\ Claims(f, failure[f])
        /\ \A v \in Batches : batch[v].loaded[f] # NoRow => Claims(f, batch[v].rows[f])
    BY <1>1, <2>2 DEF SyncInv, ClaimsHold
  <2>4. Claims(f, failure'[f])
    <3>1. CASE batch[w].rows[f] # batch[w].loaded[f]
      BY <1>4, <1>5, <2>3, <3>1, FlushedClaims
    <3>2. CASE batch[w].rows[f] = batch[w].loaded[f]
      BY <1>4, <2>3, <3>2
    <3> QED
      BY <3>1, <3>2
  <2>5. \A v \in Batches : batch'[v].loaded[f] # NoRow => Claims(f, batch'[v].rows[f])
    BY <1>2, <1>3, <2>3
  <2> QED
    BY <2>1, <2>4, <2>5
<1> QED
  BY <1>11, <1>12, <1>13 DEF SyncInv

-----------------------------------------------------------------------------
(* The admin *)

LEMMA ClerkLoadsStep == ASSUME SyncInv, ClerkLoads PROVE SyncInv'
<1>1. UNCHANGED <<env_live, remote, failure, accepted, late, senderVars, batchVars>>
  BY DEF ClerkLoads
<1>2. PICK f \in Failures : failure[f] # NoRow /\ clerk' = [status |-> "LOADED", of |-> f, loaded |-> failure[f]]
  BY DEF ClerkLoads
<1>3. failure[f] \in Row
  BY <1>2 DEF SyncInv, SyncTypeOK
<1>4. RecordsOK' /\ ClerkKnows'
  BY <1>1, <1>2, <1>3 DEF SyncInv, RecordsOK, ClerkKnows, Clerk, batchVars
<1>5. SyncTypeOK' /\ ValuesNamed' /\ BatchesKnow' /\ TakenOrOnRecord'
  BY <1>1 DEF SyncInv, SyncTypeOK, ValuesNamed, BatchesKnow, TakenOrOnRecord, Agrees, OnRecord, Standing,
              batchVars, senderVars
<1>6. ClaimsHold'
  BY <1>1 DEF SyncInv, ClaimsHold, Claims, batchVars
<1> QED
  BY <1>4, <1>5, <1>6 DEF SyncInv

(* The row is closed by hand, and nothing is claimed of it any more. *)
LEMMA ClerkCommitsStep == ASSUME SyncInv, ClerkCommits PROVE SyncInv'
<1>1. UNCHANGED <<env_live, remote, accepted, late, senderVars, batchVars>> /\ clerk' = NoRow
  BY DEF ClerkCommits
<1>2. UNCHANGED <<batch, attempted>>
  BY <1>1 DEF batchVars
<1>3. clerk.of \in Failures /\ clerk.loaded \in Row /\ failure[clerk.of] \in Row
  BY DEF ClerkCommits, SyncInv, RecordsOK, ClerkKnows, Clerk
<1>4. PICK f \in Failures : f = clerk.of
  BY <1>3
<1>5. ClosedByHand(clerk.loaded) \in Row
  <2>1. PICK x \in Row : x = clerk.loaded
    BY <1>3
  <2>2. PICK status \in {"RETRYING", "RESOLVED", "DEAD_LETTER"} :
          status = IF x.count + 1 >= MaxRetries THEN "DEAD_LETTER" ELSE "RESOLVED"
    OBVIOUS
  <2>3. ClosedByHand(x) = [x EXCEPT !.status = status, !.count = @ + 1]
    BY <2>2 DEF ClosedByHand, Row
  <2>4. [x EXCEPT !.status = status, !.count = @ + 1] \in Row
    BY CountedRow
  <2>5. ClosedByHand(x) \in Row
    BY <2>3, <2>4
  <2> QED
    BY <2>1, <2>5
<1>6. PICK y \in Row : y = Flushed(clerk.loaded, ClosedByHand(clerk.loaded), failure[f])
  BY <1>3, <1>4, <1>5, FlushedRow
<1>7. SameSubject(y, failure[f])
  BY <1>3, <1>4, <1>5, <1>6, FlushedRow
<1>8. PICK x \in Row : x = [y EXCEPT !.by_hand = TRUE]
  BY DEF Row
<1>9. x.by_hand = TRUE /\ SameSubject(x, failure[f])
  BY <1>7, <1>8 DEF Row, SameSubject
<1>10. failure' = [failure EXCEPT ![f] = x]
  BY <1>3, <1>4, <1>6, <1>8 DEF ClerkCommits, SyncInv, SyncTypeOK
<1>11. \A g \in Failures : failure'[g] = IF g = f THEN x ELSE failure[g]
  BY <1>10 DEF SyncInv, SyncTypeOK
<1>12. /\ RowsStay /\ failure' \in [Failures -> Row \cup {NoRow}]
       /\ \A g \in Failures : failure[g] = NoRow => failure'[g] = NoRow
  BY <1>3, <1>4, <1>9, <1>10, <1>11, RowsDiffer DEF RowsStay, SameSubject, SyncInv, SyncTypeOK
<1>13. RowsStand
  BY <1>2, <1>9, <1>11 DEF RowsStand, Standing, SameSubject
<1>14. SyncTypeOK' /\ RecordsOK' /\ ValuesNamed' /\ ClerkKnows' /\ TakenOrOnRecord'
  <2>1. batch' \in [Batches -> Batch]
    BY <1>2 DEF SyncInv, RecordsOK
  <2> QED
    BY <1>1, <1>2, <1>12, <1>13, <2>1, RowsWritten
<1>15. BatchesKnow'
  <2> SUFFICES ASSUME NEW v \in Batches, NEW g \in Failures
      PROVE  CopyOf(batch[v].loaded[g], batch[v].rows[g], failure'[g])
    BY <1>2 DEF SyncInv, BatchesKnow
  <2>1. CopyOf(batch[v].loaded[g], batch[v].rows[g], failure[g])
    BY DEF SyncInv, BatchesKnow
  <2>2. CASE g = f
    BY <1>9, <1>11, <2>1, <2>2, CopyStays
  <2>3. CASE g # f
    BY <1>11, <2>1, <2>3
  <2> QED
    BY <2>2, <2>3
<1>16. ClaimsHold'
  <2>1. \A g \in Failures : \A z : Claims(g, z)' <=> Claims(g, z)
    BY <1>1, <1>2 DEF Claims
  <2> QED
    BY <1>1, <1>2, <1>9, <1>11, <2>1 DEF SyncInv, ClaimsHold
<1> QED
  BY <1>14, <1>15, <1>16 DEF SyncInv

-----------------------------------------------------------------------------

LEMMA SyncStep == SyncInv /\ [SyncNext]_syncVars => SyncInv'
<1> SUFFICES ASSUME SyncInv, [SyncNext]_syncVars PROVE SyncInv'
  OBVIOUS
<1>1. ASSUME NEW i \in SyncIncidents, WithoutSending(i) \/ SyncAssignment(i) \/ SenderDies(i)
      PROVE  SyncInv'
  BY <1>1, WithoutSendingStep, SyncAssignmentStep
<1>2. ASSUME NEW i \in SyncIncidents, Sending(i) PROVE SyncInv'
  BY <1>2, AttemptStep, SenderCommitsStep DEF Sending
<1>3. ASSUME NEW w \in Batches, LoadFailures(w) PROVE SyncInv'
  BY <1>3, LoadFailuresStep
<1>4. ASSUME NEW w \in Batches, BatchDies(w) PROVE SyncInv'
  BY <1>4, BatchDiesStep
<1>5. ASSUME NEW w \in Batches, Retrying(w) PROVE SyncInv'
  BY <1>5, RetryStep, BatchCommitsStep DEF Retrying
<1>6. CASE ClerkLoads \/ ClerkCommits
  BY <1>6, ClerkLoadsStep, ClerkCommitsStep
<1>7. CASE UNCHANGED syncVars
  <2>1. UNCHANGED <<env_live, remote, failure, clerk, accepted, late, senderVars, batchVars>>
    BY <1>7 DEF syncVars
  <2>2. SyncTypeOK' /\ ValuesNamed' /\ TakenOrOnRecord'
    BY <2>1 DEF SyncInv, SyncTypeOK, ValuesNamed, TakenOrOnRecord, Agrees, OnRecord, Standing,
                senderVars, batchVars
  <2> QED
    BY <2>1, <2>2, RecordsUntouched DEF SyncInv
<1> QED
  BY <1>1, <1>2, <1>3, <1>4, <1>5, <1>6, <1>7 DEF SyncNext

(* SyncInv holds in every reachable state. *)
THEOREM SyncInvariant == SyncSpec => []SyncInv
  BY InitSyncInv, SyncStep, PTL DEF SyncSpec

(***************************************************************************)
(* An assignee on whom ServiceNow and this system disagree at rest has a   *)
(* sync failure of his own that no retry has recovered, unless he was not  *)
(* sent, his sending was rolled back, or an older failure's retry came     *)
(* late: no other order of senders, batches and admins loses a failure.    *)
(***************************************************************************)
THEOREM DivergenceRecorded == SyncSpec => []DivergenceOnRecord
<1>1. SyncInv => DivergenceOnRecord
  <2> SUFFICES ASSUME SyncInv, NEW i \in SyncIncidents, env_live, sender[i].step = "idle",
                      i \notin unsent \cup late, remote[i] # wanted[i]
               PROVE  \E f \in Failures : Unrecovered(failure[f], i)
    BY DEF DivergenceOnRecord
  <2>1. OnRecord(i)
    BY DEF SyncInv, TakenOrOnRecord, Agrees
  <2> QED
    BY <2>1, RowsDiffer DEF OnRecord, Standing, Unrecovered
<1> QED
  BY <1>1, SyncInvariant, PTL

(* What a retry has resolved in a LIVE environment, ServiceNow has taken. *)
THEOREM RecoveredTrue == SyncSpec => []RecoveredIsTrue
<1>1. SyncInv => RecoveredIsTrue
  <2> SUFFICES ASSUME SyncInv, NEW f \in Failures, env_live, failure[f].status = "RESOLVED",
                      ~ failure[f].by_hand
               PROVE  <<failure[f].inc, failure[f].value>> \in accepted
    BY DEF RecoveredIsTrue
  <2>1. failure[f] \in Row
    BY DEF SyncInv, SyncTypeOK, NoRow
  <2> QED
    BY <2>1 DEF SyncInv, ClaimsHold, Claims
<1> QED
  BY <1>1, SyncInvariant, PTL

(***************************************************************************)
(* A dead letter of a LIVE environment was sent max_retries times at the   *)
(* least, however the batches overlapped, overwrote each other and died.   *)
(***************************************************************************)
THEOREM DeadLettersTried == SyncSpec => []DeadLettersWereTried
<1>1. SyncInv => DeadLettersWereTried
  <2> SUFFICES ASSUME SyncInv, NEW f \in Failures, env_live, failure[f].status = "DEAD_LETTER",
                      ~ failure[f].by_hand
               PROVE  attempted[f] >= MaxRetries
    BY DEF DeadLettersWereTried
  <2>1. failure[f] \in Row
    BY DEF SyncInv, SyncTypeOK, NoRow
  <2> QED
    BY <2>1 DEF SyncInv, ClaimsHold, Claims
<1> QED
  BY <1>1, SyncInvariant, PTL

=============================================================================
