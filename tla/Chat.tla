-------------------------------- MODULE Chat --------------------------------
(***************************************************************************)
(* Chat: the conversation of a team, a pair, an incident or a team's       *)
(* leader with the admins is found or created; messages are posted with a  *)
(* client's id against repetition, notified in a second transaction,       *)
(* edited and removed.  Requests interleave between their queries.         *)
(*                                                                         *)
(* One conversation of one kind is modelled, created by no more than one   *)
(* request at a time if an index is unique.  What a broadcast shows is     *)
(* left out.  Whoever may post joins the members; the leader's removal     *)
(* from the admins' conversation is in TeamAdmin.                          *)
(***************************************************************************)
EXTENDS Naturals, FiniteSets, FiniteSetsExt

CONSTANTS
  Users,         \* who talks
  ChatRequests,  \* concurrent requests
  ClientIds,     \* ids that clients give their messages
  MaxOpens,      \* bound: times the conversation is asked for
  MaxPosts,      \* bound: posts in a behaviour
  MaxEdits       \* bound: editions and removals in a behaviour

ASSUME ChatAssumption ==
  /\ MaxOpens \in Nat /\ MaxPosts \in Nat /\ MaxEdits \in Nat
  /\ "none" \notin ClientIds

VARIABLES
  kind,        \* the type of the conversation
  conversations, \* its rows, each named by the start of its transaction
  handed,      \* history: the conversations that requests were given
  joined,      \* the members
  message,     \* message[n]: what the post number n has stored
  notified,    \* notified[n]: the users with a notification of it
  request,     \* request[r]: a request in progress
  opens, posts, edits,  \* begun so far
  raced,       \* history: two requests created the conversation at a time
  repeated,    \* history: the ids posted while a post of the same id ran
  unfinished   \* history: posts that failed after their commit

chatVars == <<kind, conversations, handed, joined, message, notified, request, opens, posts,
              edits, raced, repeated, unfinished>>

Kinds == {"TEAM", "DIRECT", "INCIDENT", "ADMIN_TEAM"}

(* uq_team_conversation and direct_pair_key; the others have no such index. *)
Keyed == {"TEAM", "DIRECT"}

(* audience is history: the other members when the message was committed.   *)
Silence == [cid |-> "none", conv |-> 0, text |-> "none", deleted |-> FALSE, audience |-> {}]

IdleRequest == [op |-> "idle", n |-> 0, conv |-> 0, user |-> "none", cid |-> "none"]

Idle(r) == request[r].op = "idle"

Take(r, new) == Idle(r) /\ request' = [request EXCEPT ![r] = new]

End(r) == request' = [request EXCEPT ![r] = IdleRequest]

Running(r, op) == {q \in ChatRequests \ {r} : request[q].op = op}

-----------------------------------------------------------------------------
(* get_or_create_*_conversation *)

(* order_by(created_at).first(), and created_at is the transaction's start. *)
Canonical(rows) == Min(rows)

(* The look-up: the conversation is there, or r goes on to create it. *)
FindConversation(r) ==
  /\ opens < MaxOpens
  /\ opens' = opens + 1
  /\ IF conversations # {}
       THEN /\ Idle(r)
            /\ handed' = handed \cup {Canonical(conversations)}
            /\ UNCHANGED <<request, raced>>
       ELSE /\ Take(r, [IdleRequest EXCEPT !.op = "creating", !.n = opens + 1])
            /\ raced' = (raced \/ Running(r, "creating") # {})
            /\ UNCHANGED handed
  /\ UNCHANGED <<kind, conversations, joined, message, notified, posts, edits, repeated, unfinished>>

(* Fault: the index does not cover team conversations. *)
NoTeamIndex == kind = "DIRECT" /\ conversations # {}

Refuses == kind \in Keyed /\ conversations # {}

(* Flush, members, commit, and the look-up again. *)
CreateConversation(r) ==
  /\ request[r].op = "creating"
  /\ ~ Refuses
  /\ conversations' = conversations \cup {request[r].n}
  /\ handed' = handed \cup {Canonical(conversations')}
  /\ End(r)
  /\ UNCHANGED <<kind, joined, message, notified, opens, posts, edits, raced, repeated, unfinished>>

(* The request fails: nobody looks again for the row it has lost to. *)
CreationRefused(r) ==
  /\ request[r].op = "creating"
  /\ Refuses
  /\ End(r)
  /\ UNCHANGED <<kind, conversations, handed, joined, message, notified, opens, posts, edits,
                 raced, repeated, unfinished>>

(* Access to the conversation enrols whoever has it. *)
_authorize_conversation_access(u) ==
  /\ handed # {}
  /\ joined' = joined \cup {u}
  /\ UNCHANGED <<kind, conversations, handed, message, notified, request, opens, posts, edits,
                 raced, repeated, unfinished>>

-----------------------------------------------------------------------------
(* post_message *)

Copies(conv, cid) ==
  {n \in 1..MaxPosts : message[n].cid = cid /\ message[n].conv = conv}

(* Fault: the client's id is not looked up. *)
NotLookedUp(conv, cid) == TRUE

(* One copy is the answer; of two, the query raises, now and ever after. *)
Fresh(conv, cid) == Copies(conv, cid) = {}

FindCopy(r) ==
  /\ Idle(r)
  /\ posts < MaxPosts
  /\ posts' = posts + 1
  /\ \E conv \in handed, cid \in ClientIds, u \in Users :
       IF Fresh(conv, cid)
         THEN /\ Take(r, [op |-> "posting", n |-> posts + 1, conv |-> conv, user |-> u,
                           cid |-> cid])
              /\ repeated' = IF \E o \in Running(r, "posting") : request[o].cid = cid
                              THEN repeated \cup {cid} ELSE repeated
         ELSE UNCHANGED <<request, repeated>>
  /\ UNCHANGED <<kind, conversations, handed, joined, message, notified, opens, edits, raced,
                 unfinished>>

(* The message, its sender's membership and reading are one transaction. *)
PostMessage(r) ==
  LET q == request[r] IN
  /\ q.op = "posting"
  /\ message' = [message EXCEPT ![q.n] =
       [cid |-> q.cid, conv |-> q.conv, text |-> "said", deleted |-> FALSE,
        audience |-> joined \ {q.user}]]
  /\ joined' = joined \cup {q.user}
  /\ request' = [request EXCEPT ![r].op = "notifying"]
  /\ UNCHANGED <<kind, conversations, handed, notified, opens, posts, edits, raced, repeated,
                 unfinished>>

(* Fault: the one who was there first is left out. *)
AllButOne(r) == joined \ {request[r].user, CHOOSE u \in joined : TRUE}

ToNotify(r) == joined \ {request[r].user}

(* All recipients, in a transaction of its own. *)
NotifyMembers(r) ==
  /\ request[r].op = "notifying"
  /\ notified' = [notified EXCEPT ![request[r].n] = ToNotify(r)]
  /\ End(r)
  /\ UNCHANGED <<kind, conversations, handed, joined, message, opens, posts, edits, raced,
                 repeated, unfinished>>

(* An error with one recipient is caught, and loses the others' as well;    *)
(* before the commit, any error or crash loses the message.                *)
PostFails(r) ==
  /\ request[r].op \in {"posting", "notifying"}
  /\ unfinished' = IF request[r].op = "notifying" THEN unfinished \cup {request[r].n}
                   ELSE unfinished
  /\ End(r)
  /\ UNCHANGED <<kind, conversations, handed, joined, message, notified, opens, posts, edits,
                 raced, repeated>>

-----------------------------------------------------------------------------
(* edit_message and delete_message *)

LoadMessage(r) ==
  /\ edits < MaxEdits
  /\ edits' = edits + 1
  /\ \E n \in 1..MaxPosts, op \in {"editing", "deleting"} :
       /\ message[n] # Silence
       /\ Take(r, [IdleRequest EXCEPT !.op = op, !.n = n])
  /\ UNCHANGED <<kind, conversations, handed, joined, message, notified, opens, posts, raced,
                 repeated, unfinished>>

(* Fault: the whole row is written back. *)
EditAll(row) == [row EXCEPT !.text = "edited", !.deleted = FALSE]

(* What differs from what was loaded is written, removed or not. *)
edit_message(row) == [row EXCEPT !.text = "edited"]

delete_message(row) == [row EXCEPT !.text = "removed", !.deleted = TRUE]

CommitMessage(r) ==
  LET n == request[r].n IN
  /\ request[r].op \in {"editing", "deleting"}
  /\ message' = [message EXCEPT ![n] =
       IF request[r].op = "editing" THEN edit_message(@) ELSE delete_message(@)]
  /\ End(r)
  /\ UNCHANGED <<kind, conversations, handed, joined, notified, opens, posts, edits, raced,
                 repeated, unfinished>>

-----------------------------------------------------------------------------

ChatInit ==
  /\ kind \in Kinds
  /\ conversations \in {{}, {0}}  \* a conversation may have been there before
  /\ handed = {}
  /\ joined = {}
  /\ message = [n \in 1..MaxPosts |-> Silence]
  /\ notified = [n \in 1..MaxPosts |-> {}]
  /\ request = [r \in ChatRequests |-> IdleRequest]
  /\ opens = 0
  /\ posts = 0
  /\ edits = 0
  /\ raced = FALSE
  /\ repeated = {}
  /\ unfinished = {}

ChatNext ==
  \/ \E u \in Users : _authorize_conversation_access(u)
  \/ \E r \in ChatRequests :
       \/ FindConversation(r) \/ CreateConversation(r) \/ CreationRefused(r)
       \/ FindCopy(r) \/ PostMessage(r) \/ NotifyMembers(r) \/ PostFails(r)
       \/ LoadMessage(r) \/ CommitMessage(r)

ChatSpec == ChatInit /\ [][ChatNext]_chatVars

-----------------------------------------------------------------------------
(* Properties *)

ChatTypeOK ==
  /\ kind \in Kinds
  /\ conversations \subseteq 0..MaxOpens
  /\ handed \subseteq conversations
  /\ joined \subseteq Users
  /\ message \in [1..MaxPosts -> [cid : ClientIds \cup {"none"}, conv : 0..MaxOpens,
       text : {"none", "said", "edited", "removed"}, deleted : BOOLEAN,
       audience : SUBSET Users]]
  /\ notified \in [1..MaxPosts -> SUBSET Users]
  /\ \A r \in ChatRequests : request[r].op \in
       {"idle", "creating", "posting", "notifying", "editing", "deleting"}

(***************************************************************************)
(* Whoever asks for the conversation is given the same one, now and later: *)
(* for teams and pairs always, for incidents and for the admins unless two *)
(* requests create it at a time; the one whose transaction began earlier   *)
(* and ended later then takes the place of the one already in use.         *)
(***************************************************************************)
OneConversation == kind \in Keyed \/ ~ raced => Cardinality(handed) <= 1

(***************************************************************************)
(* A message that is posted again under its client's id is stored once,    *)
(* unless a post of the same id was still running.                         *)
(***************************************************************************)
PostedOnce ==
  \A cid \in ClientIds, conv \in handed :
    cid \notin repeated => Cardinality(Copies(conv, cid)) <= 1

(***************************************************************************)
(* When a post is over, everybody who was a member at its commit has a     *)
(* notification, the sender aside, unless an error lost all of them; a     *)
(* repeated post does not make up for that.                                *)
(***************************************************************************)
AudienceNotified ==
  \A n \in 1..MaxPosts :
    n \notin unfinished /\ (\A r \in ChatRequests : request[r].n # n) =>
      message[n].audience \subseteq notified[n]

(* A message that was removed stays so, whatever was loaded before and is   *)
(* written after.                                                          *)
DeletedForever ==
  [][\A n \in 1..MaxPosts : message[n].deleted => message'[n].deleted]_chatVars

=============================================================================
