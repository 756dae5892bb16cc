------------------------------ MODULE Notices ------------------------------
(***************************************************************************)
(* Notifications about one assignment: a session creates one for each of   *)
(* its recipients, tells the recipient's tab and sends the e-mail before   *)
(* it commits; the tab fetches its list anew on every such event; users    *)
(* mark their notifications as read.  Sessions die, the SMTP server takes  *)
(* mails without answering, and a fetch may be served before the commit.   *)
(*                                                                         *)
(* Two sessions may notify of the same assignment, as a repeated group     *)
(* send does.  A tab is connected; its socket is the subject of Realtime.  *)
(***************************************************************************)
EXTENDS Naturals, FiniteSets

CONSTANTS
  Recipients,   \* users with a tab
  Notifiers,    \* concurrent sessions that notify
  MaxMails,     \* MAX_RETRIES of the e-mail service, 3 in the code
  MaxNotifies,  \* bound: sessions in a behaviour
  MaxReadings   \* bound: requests to mark as read

ASSUME NoticesAssumption ==
  MaxMails \in Nat \ {0} /\ MaxNotifies \in Nat /\ MaxReadings \in Nat

VARIABLES
  smtp,      \* EMAIL_PROVIDER is SMTP and has its credentials, else nothing is sent
  notice,    \* notice[u]: the notification as committed
  session,   \* session[c]: the transaction of a notifier
  mails,     \* the recipients who have got the e-mail
  undelivered, \* those with a committed EMAIL_DELIVERY failure
  fetch,     \* fetch[u]: the tab's request for its list
  shown,     \* shown[u]: the notification as the tab shows it
  early,     \* history: u's last fetch was served before a commit
  lost,      \* history: recipients whose e-mail's transaction was lost
  notifies, readings

noticesVars == <<smtp, notice, session, mails, undelivered, fetch, shown, early, lost,
                 notifies, readings>>

Notice == {"none", "unread", "read"}

IdleSession == [step |-> "idle", todo |-> {}, user |-> "none", own |-> {}, tries |-> 0,
                failures |-> {}]

NoFetch == [step |-> "none", found |-> "none"]

-----------------------------------------------------------------------------
(* The tab *)

(* invalidateQueries: whatever is on its way is dropped and asked anew. *)
Invalidated(u) == [fetch EXCEPT ![u] = [NoFetch EXCEPT !.step = "asked"]]

(* get_user_notifications *)
Serve(u) ==
  /\ fetch[u].step = "asked"
  /\ fetch' = [fetch EXCEPT ![u] = [step |-> "served", found |-> notice[u]]]
  /\ early' = IF \E c \in Notifiers : u \in session[c].own THEN early \cup {u} ELSE early \ {u}
  /\ UNCHANGED <<smtp, notice, session, mails, undelivered, shown, lost, notifies, readings>>

Show(u) ==
  /\ fetch[u].step = "served"
  /\ shown' = [shown EXCEPT ![u] = fetch[u].found]
  /\ fetch' = [fetch EXCEPT ![u] = NoFetch]
  /\ UNCHANGED <<smtp, notice, session, mails, undelivered, early, lost, notifies, readings>>

(* Fault: the list is kept as it is. *)
KeepList(u) == UNCHANGED fetch

AfterReading(u) == fetch' = Invalidated(u)

(* mark_read and mark_all_read, from this tab, which then fetches its list. *)
MarkRead(u) ==
  /\ readings < MaxReadings
  /\ readings' = readings + 1
  /\ notice[u] # "none"
  /\ notice' = [notice EXCEPT ![u] = "read"]
  /\ AfterReading(u)
  /\ UNCHANGED <<smtp, session, mails, undelivered, shown, early, lost, notifies>>

-----------------------------------------------------------------------------
(* create_notification *)

Notify(c) ==
  /\ session[c].step = "idle"
  /\ notifies < MaxNotifies
  /\ notifies' = notifies + 1
  /\ \E us \in SUBSET Recipients \ {{}} :
       session' = [session EXCEPT ![c] = [IdleSession EXCEPT !.step = "looking", !.todo = us]]
  /\ UNCHANGED <<smtp, notice, mails, undelivered, fetch, shown, early, lost, readings>>

(* The next recipient, who may have been notified already. *)
Look(c) ==
  /\ session[c].step = "looking"
  /\ \E u \in session[c].todo :
       session' = [session EXCEPT ![c].todo = @ \ {u},
                                  ![c].user = u,
                                  ![c].step = IF notice[u] = "none" THEN "inserting" ELSE @]
  /\ UNCHANGED <<smtp, notice, mails, undelivered, fetch, shown, early, lost, notifies, readings>>

(* uq_notif_assignment_user_type keeps c waiting for who has inserted u's.  *)
Waits(c) == \E o \in Notifiers \ {c} : session[c].user \in session[o].own

(* Flushed; the event is sent, and the tab asks before anything is committed. *)
Insert(c) ==
  /\ session[c].step = "inserting"
  /\ ~ Waits(c)
  /\ notice[session[c].user] = "none"
  /\ session' = [session EXCEPT ![c].own = @ \cup {session[c].user}, ![c].tries = 0,
                                ![c].step = IF smtp THEN "mailing" ELSE "looking"]
  /\ fetch' = Invalidated(session[c].user)
  /\ UNCHANGED <<smtp, notice, mails, undelivered, shown, early, lost, notifies, readings>>

Rollback(c) ==
  /\ session' = [session EXCEPT ![c] = IdleSession]
  /\ lost' = lost \cup (session[c].own \cap mails)

(* Fault: only the insertion is undone, the next recipient's turn comes; but *)
(* with it goes what the transaction had inserted for the others.           *)
GoesOn(c) ==
  /\ session[c].step = "inserting"
  /\ ~ Waits(c)
  /\ notice[session[c].user] # "none"
  /\ session' = [session EXCEPT ![c].own = {}, ![c].step = "looking"]
  /\ UNCHANGED <<smtp, notice, mails, undelivered, fetch, shown, early, lost, notifies, readings>>

(***************************************************************************)
(* The index refuses it.  The look-up that should return the other one     *)
(* runs in a transaction that has failed, so that raises, and all is lost. *)
(***************************************************************************)
Conflict(c) ==
  /\ session[c].step = "inserting"
  /\ ~ Waits(c)
  /\ notice[session[c].user] # "none"
  /\ Rollback(c)
  /\ UNCHANGED <<smtp, notice, mails, undelivered, fetch, shown, early, notifies, readings>>

(* Fault: the failure is only logged. *)
NotRecorded(c) == session[c].failures

(* _record_dlq, a row of the same transaction. *)
_record_dlq(c) == session[c].failures \cup {session[c].user}

(* _smtp_send_with_retry, one attempt; without an answer it may be taken.   *)
Mail(c) ==
  LET u == session[c].user IN
  /\ session[c].step = "mailing"
  /\ \/ /\ mails' = mails \cup {u}
        /\ session' = [session EXCEPT ![c].step = "looking"]
     \/ /\ mails' \in {mails, mails \cup {u}}
        /\ session' = IF session[c].tries + 1 < MaxMails
             THEN [session EXCEPT ![c].tries = @ + 1]
             ELSE [session EXCEPT ![c].step = "looking", ![c].failures = _record_dlq(c)]
  /\ UNCHANGED <<smtp, notice, undelivered, fetch, shown, early, lost, notifies, readings>>

Commit(c) ==
  /\ session[c].step = "looking" /\ session[c].todo = {}
  /\ notice' = [u \in Recipients |-> IF u \in session[c].own THEN "unread" ELSE notice[u]]
  /\ undelivered' = undelivered \cup session[c].failures
  /\ session' = [session EXCEPT ![c] = IdleSession]
  /\ UNCHANGED <<smtp, mails, fetch, shown, early, lost, notifies, readings>>

(* The request dies, or whatever else it does fails. *)
NotifierDies(c) ==
  /\ session[c].step # "idle"
  /\ Rollback(c)
  /\ UNCHANGED <<smtp, notice, mails, undelivered, fetch, shown, early, notifies, readings>>

-----------------------------------------------------------------------------

NoticesInit ==
  /\ smtp \in BOOLEAN
  /\ notice = [u \in Recipients |-> "none"]
  /\ session = [c \in Notifiers |-> IdleSession]
  /\ mails = {}
  /\ undelivered = {}
  /\ fetch = [u \in Recipients |-> NoFetch]
  /\ shown = [u \in Recipients |-> "none"]
  /\ early = {}
  /\ lost = {}
  /\ notifies = 0
  /\ readings = 0

NoticesNext ==
  \/ \E u \in Recipients : Serve(u) \/ Show(u) \/ MarkRead(u)
  \/ \E c \in Notifiers : \/ Notify(c) \/ Look(c) \/ Insert(c) \/ Conflict(c) \/ Mail(c)
                          \/ Commit(c) \/ NotifierDies(c)

NoticesSpec == NoticesInit /\ [][NoticesNext]_noticesVars

-----------------------------------------------------------------------------
(* Properties *)

NoticesTypeOK ==
  /\ notice \in [Recipients -> Notice]
  /\ shown \in [Recipients -> Notice]
  /\ mails \subseteq Recipients /\ undelivered \subseteq Recipients
  /\ \A c \in Notifiers : session[c].own \subseteq Recipients /\ session[c].tries < MaxMails

(***************************************************************************)
(* Whoever has a notification has got its e-mail, or the failure to        *)
(* deliver it is on record: both stand in the transaction that notifies.   *)
(***************************************************************************)
MailedOrOnRecord ==
  smtp => \A u \in Recipients : notice[u] # "none" => u \in mails \cup undelivered

(***************************************************************************)
(* Whoever has got an e-mail has the notification it speaks of, or is      *)
(* about to have it, unless the transaction was lost after the sending.    *)
(***************************************************************************)
MailHasNotice ==
  \A u \in mails \ lost : notice[u] # "none" \/ \E c \in Notifiers : u \in session[c].own

(***************************************************************************)
(* When nothing is under way, a tab shows the notification as it stands,   *)
(* unless its last fetch, which the event had asked for, came before the   *)
(* commit; only the next event or reconnect asks again then.               *)
(***************************************************************************)
BellIsTrue ==
  \A u \in Recipients :
    /\ fetch[u].step = "none" /\ u \notin early
    /\ \A c \in Notifiers : u \notin session[c].own
    => shown[u] = notice[u]

=============================================================================
