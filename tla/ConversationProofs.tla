------------------------- MODULE ConversationProofs -------------------------
(***************************************************************************)
(* Proofs about what a user is told, for any users, requests and numbers   *)
(* of messages: the conversation and its messages (Chat), their            *)
(* attachments (Media), the socket they arrive by (Realtime), and his      *)
(* notifications with their e-mails (Notices).  The four share no          *)
(* variable, and each has an invariant of its own.                         *)
(***************************************************************************)
EXTENDS Chat, Media, Realtime, Notices, FiniteSetTheorems, TLAPS

(* Chat: a post has a number of its own, and nothing is stored under it     *)
(* before it is committed.                                                 *)
Message == [cid : ClientIds \cup {"none"}, conv : Nat,
            text : {"none", "said", "edited", "removed"}, deleted : BOOLEAN,
            audience : SUBSET Users]

Request == [op : {"idle", "creating", "posting", "notifying", "editing", "deleting"},
            n : Nat, conv : Nat, user : Users \cup {"none"}, cid : ClientIds \cup {"none"}]

ChatTyped ==
  /\ kind \in Kinds
  /\ conversations \subseteq Nat /\ handed \subseteq conversations /\ joined \subseteq Users
  /\ message \in [1..MaxPosts -> Message]
  /\ notified \in [1..MaxPosts -> SUBSET Users]
  /\ request \in [ChatRequests -> Request]
  /\ opens \in Nat /\ posts \in Nat /\ posts <= MaxPosts
  /\ raced \in BOOLEAN

(* Nobody made a second conversation where none can be or none was raced.   *)
NoSecond == \A c, d \in conversations : c = d

(* Without a race, one request creates at a time, and only the first one.   *)
CreatesAlone ==
  ~ raced =>
    /\ \A r, q \in ChatRequests :
         request[r].op = "creating" /\ request[q].op = "creating" => r = q
    /\ \A r \in ChatRequests : request[r].op = "creating" => conversations = {}

(* What is stored under a number is a message, or nothing yet.              *)
Stored == \A n \in 1..MaxPosts : message[n] = Silence \/ message[n].cid \in ClientIds

OwnNumbers ==
  /\ \A r \in ChatRequests : request[r].op \in {"posting", "notifying"} =>
       request[r].n \in 1..posts
  /\ \A r, q \in ChatRequests :
       /\ request[r].op \in {"posting", "notifying"}
       /\ request[q].op \in {"posting", "notifying"}
       /\ request[r].n = request[q].n
       => r = q

Unsaid ==
  /\ \A n \in 1..MaxPosts : n > posts => message[n] = Silence
  /\ \A r \in ChatRequests : request[r].op = "posting" =>
       /\ message[request[r].n] = Silence
       /\ request[r].cid \in ClientIds /\ request[r].user \in Users

(* Who edits or removes has a message that was committed.                   *)
EditsStored ==
  \A r \in ChatRequests : request[r].op \in {"editing", "deleting"} =>
    request[r].n \in 1..MaxPosts /\ message[request[r].n] # Silence

(* A post in progress that nothing was marked for is the only one.          *)
PostsAlone ==
  /\ \A r, q \in ChatRequests :
       /\ request[r].op = "posting" /\ request[q].op = "posting"
       /\ request[r].cid = request[q].cid /\ request[r].cid \notin repeated
       => r = q
  /\ \A r \in ChatRequests : \A n \in 1..MaxPosts :
       /\ request[r].op = "posting" /\ request[r].cid \notin repeated
       /\ message[n].cid = request[r].cid
       => message[n].conv # request[r].conv

OneCopy ==
  \A m, n \in 1..MaxPosts :
    /\ message[m].cid \in ClientIds \ repeated
    /\ message[m].cid = message[n].cid /\ message[m].conv = message[n].conv
    => m = n

(* The audience of a message still is among the members, and is served by   *)
(* the request that posted it, or was.                                     *)
AudienceServed ==
  /\ \A r \in ChatRequests : request[r].op = "notifying" =>
       message[request[r].n].audience \subseteq joined \ {request[r].user}
  /\ \A n \in 1..MaxPosts :
       \/ message[n].audience \subseteq notified[n]
       \/ n \in unfinished
       \/ \E r \in ChatRequests : request[r].op = "notifying" /\ request[r].n = n

RowsInv == (kind \in Keyed \/ ~ raced => NoSecond) /\ CreatesAlone

MessagesInv ==
  /\ Stored /\ OwnNumbers /\ Unsaid /\ EditsStored
  /\ PostsAlone /\ OneCopy /\ AudienceServed

ChatInv == ChatTyped /\ RowsInv /\ MessagesInv

-----------------------------------------------------------------------------
(* Media *)

Attachment == [by : Uploaders \cup {"none"}, of : {0} \cup Messages]

Carried == [thread : Threads, attachment : Attachments] \cup {Nothing}

MediaTyped ==
  /\ files \subseteq Attachments
  /\ upload \in [Attachments -> Uploaders \cup {"none", "over"}]
  /\ owned \in [Attachments -> Attachment]
  /\ admitted \in [Threads -> SUBSET Uploaders]
  /\ carried \in [Messages -> Carried]
  /\ attaching \in [Messages -> Carried]
  /\ attached \in 0..MaxAttached

(* A row is committed once, by a user, after its file was written.          *)
RowsHaveFiles ==
  \A a \in Attachments :
    /\ upload[a] # "none" => a \in files
    /\ owned[a] # NoRowYet => upload[a] = "over" /\ owned[a].by \in Uploaders

Involved(n, a) == a \in {carried[n].attachment, attaching[n].attachment}

(* What one message has, or is about to have, no other has or will have,    *)
(* unless it is posted again; and what it has is linked to it.              *)
AttachedOnce ==
  /\ \A n \in Messages : n > attached => carried[n] = Nothing /\ attaching[n] = Nothing
  /\ \A n \in Messages : carried[n] = Nothing \/ attaching[n] = Nothing
  /\ \A m, n \in Messages : \A a \in Attachments \ retaken :
       Involved(m, a) /\ Involved(n, a) => m = n

LinkedBack ==
  \A n \in Messages : \A a \in Attachments :
    /\ Involved(n, a) => owned[a] # NoRowYet
    /\ carried[n].attachment = a /\ a \notin retaken => owned[a].of = n

MediaInv == MediaTyped /\ RowsHaveFiles /\ AttachedOnce /\ LinkedBack

-----------------------------------------------------------------------------
(* Realtime: until one is given up too early, every socket the browser      *)
(* still has is the client's current one.                                  *)
RealtimeInv ==
  /\ ws \in Sockets \cup {NoSocket}
  /\ socket \in [Sockets -> {"NONE", "CONNECTING", "OPEN", "CLOSING"}]
  /\ crossed \in BOOLEAN
  /\ ~ crossed => \A s \in Sockets : socket[s] # "NONE" => s = ws

-----------------------------------------------------------------------------
(* The conversation *)

LEMMA InitChatInv == ChatInit => ChatInv
<1> SUFFICES ASSUME ChatInit PROVE ChatInv
  OBVIOUS
<1>1. \A r \in ChatRequests : request[r] = IdleRequest
  BY DEF ChatInit
<1>2. Silence \in Message /\ Silence.audience = {} /\ Silence.cid \notin ClientIds
  BY ChatAssumption DEF Silence, Message
<1>3. IdleRequest \in Request /\ IdleRequest.op = "idle"
  BY DEF IdleRequest, Request
<1>4. \A n \in 1..MaxPosts : message[n] = Silence
  BY DEF ChatInit
<1>5. ChatTyped
  <2>1. message \in [1..MaxPosts -> Message] /\ notified \in [1..MaxPosts -> SUBSET Users]
    BY <1>2 DEF ChatInit
  <2>2. request \in [ChatRequests -> Request]
    BY <1>3 DEF ChatInit
  <2>3. conversations \subseteq Nat /\ opens \in Nat /\ posts \in Nat /\ posts <= MaxPosts
    BY ChatAssumption DEF ChatInit
  <2>4. kind \in Kinds /\ handed = {} /\ joined = {} /\ raced \in BOOLEAN
    BY DEF ChatInit
  <2> QED
    BY <2>1, <2>2, <2>3, <2>4 DEF ChatTyped
<1>6. RowsInv
  BY <1>1, <1>3 DEF ChatInit, RowsInv, NoSecond, CreatesAlone
<1>7. Stored /\ OwnNumbers /\ Unsaid /\ EditsStored /\ PostsAlone
  BY <1>1, <1>3, <1>4 DEF Stored, OwnNumbers, Unsaid, EditsStored, PostsAlone
<1>8. OneCopy /\ AudienceServed
  BY <1>1, <1>2, <1>3, <1>4 DEF OneCopy, AudienceServed
<1> QED
  BY <1>5, <1>6, <1>7, <1>8 DEF ChatInv, MessagesInv

(* The numbers are ordered as their intervals are by inclusion, which is    *)
(* well-founded: some number of a set is its least.                        *)
LEMMA CanonicalOf == ASSUME NEW T \in SUBSET Nat, T # {} PROVE Canonical(T) \in T
<1> DEFINE Below(x) == 0..x
           Family == {Below(x) : x \in T}
<1>1. Family \subseteq FiniteSubsetsOf(Nat)
  <2> SUFFICES ASSUME NEW x \in T PROVE Below(x) \in FiniteSubsetsOf(Nat)
    OBVIOUS
  <2>1. IsFiniteSet(0..x)
    BY FS_Interval
  <2>2. 0..x \in SUBSET Nat
    OBVIOUS
  <2> QED
    BY <2>1, <2>2 DEF FiniteSubsetsOf
<1>2. PICK D \in Family : \A E \in Family : <<E, D>> \notin StrictSubsetOrdering(Nat)
  <2>1. Family # {}
    OBVIOUS
  <2> HIDE DEF Family
  <2> QED
    BY <1>1, <2>1, FS_StrictSubsetOrderingWellFounded, WFMin
<1>3. PICK x \in T : D = 0..x
  OBVIOUS
<1>4. \A y \in T : x <= y
  <2> SUFFICES ASSUME NEW y \in T, y < x PROVE FALSE
    OBVIOUS
  <2>1. 0..y \in Family /\ 0..y \in SUBSET Nat /\ 0..x \in SUBSET Nat
    OBVIOUS
  <2>2. 0..y \subseteq 0..x
    OBVIOUS
  <2>3. x \in 0..x /\ x \notin 0..y
    OBVIOUS
  <2> HIDE DEF Family
  <2> QED
    BY <1>2, <1>3, <2>1, <2>2, <2>3 DEF StrictSubsetOrdering
<1> QED
  BY <1>4 DEF Canonical, Min

(***************************************************************************)
(* A request that is not about messages, before or after a step, disturbs  *)
(* none of what is known of them.                                          *)
(***************************************************************************)
LEMMA AwayFromMessages ==
  ASSUME ChatInv, NEW r \in ChatRequests, NEW new \in Request,
         request[r].op \in {"idle", "creating"}, new.op \in {"idle", "creating"},
         request' = [request EXCEPT ![r] = new],
         UNCHANGED <<message, notified, joined, posts, repeated, unfinished>>
  PROVE  MessagesInv'
<1>1. \A q \in ChatRequests : request'[q] = IF q = r THEN new ELSE request[q]
  BY DEF ChatInv, ChatTyped
<1>2. Stored' /\ OwnNumbers' /\ Unsaid'
  BY <1>1 DEF ChatInv, MessagesInv, Stored, OwnNumbers, Unsaid
<1>3. EditsStored' /\ PostsAlone' /\ OneCopy'
  BY <1>1 DEF ChatInv, MessagesInv, EditsStored, PostsAlone, OneCopy
<1>4. AudienceServed'
  <2>1. \A n \in 1..MaxPosts :
          (\E q \in ChatRequests : request[q].op = "notifying" /\ request[q].n = n)
          => \E q \in ChatRequests : request'[q].op = "notifying" /\ request'[q].n = n
    BY <1>1
  <2> QED
    BY <1>1, <2>1 DEF ChatInv, MessagesInv, AudienceServed
<1> QED
  BY <1>2, <1>3, <1>4 DEF MessagesInv

LEMMA FindConversationStep ==
  ASSUME ChatInv, NEW r \in ChatRequests, FindConversation(r) PROVE ChatInv'
<1>1. opens \in Nat /\ opens + 1 \in Nat /\ opens' = opens + 1
  BY DEF FindConversation, ChatInv, ChatTyped
<1>2. CASE conversations # {}
  <2>1. /\ UNCHANGED <<kind, conversations, joined, message, notified, request, posts, repeated,
                       unfinished, raced>>
        /\ handed' = handed \cup {Canonical(conversations)}
    BY <1>2 DEF FindConversation
  <2>2. MessagesInv'
    BY <2>1 DEF ChatInv, MessagesInv, Stored, OwnNumbers, Unsaid, EditsStored, PostsAlone, OneCopy, AudienceServed
  <2>3. Canonical(conversations) \in conversations
    BY <1>2, CanonicalOf DEF ChatInv, ChatTyped
  <2>4. ChatTyped'
    BY <1>1, <2>1, <2>3 DEF ChatInv, ChatTyped
  <2>5. RowsInv'
    BY <2>1 DEF ChatInv, RowsInv, NoSecond, CreatesAlone
  <2> QED
    BY <2>2, <2>4, <2>5 DEF ChatInv
<1>3. CASE conversations = {}
  <2> DEFINE new == [IdleRequest EXCEPT !.op = "creating", !.n = opens + 1]
  <2>1. /\ request[r].op = "idle"
        /\ request' = [request EXCEPT ![r] = new]
        /\ raced' = (raced \/ Running(r, "creating") # {})
        /\ UNCHANGED <<kind, conversations, handed, joined, message, notified, posts, repeated,
                       unfinished>>
    BY <1>3 DEF FindConversation, Take, Idle
  <2>2. new \in Request /\ new.op = "creating"
    BY <1>1 DEF IdleRequest, Request
  <2> HIDE DEF new
  <2>3. MessagesInv'
    BY <2>1, <2>2, AwayFromMessages
  <2>4. ChatTyped'
    BY <1>1, <2>1, <2>2 DEF ChatInv, ChatTyped
  <2>5. RowsInv'
    BY <1>3, <2>1, <2>2 DEF ChatInv, ChatTyped, RowsInv, NoSecond, CreatesAlone, Running
  <2> QED
    BY <2>3, <2>4, <2>5 DEF ChatInv
<1> QED
  BY <1>2, <1>3

LEMMA CreateConversationStep ==
  ASSUME ChatInv, NEW r \in ChatRequests, CreateConversation(r) PROVE ChatInv'
<1>1. /\ request[r].op = "creating"
      /\ ~ Refuses
      /\ conversations' = conversations \cup {request[r].n}
      /\ handed' = handed \cup {Canonical(conversations')}
      /\ request' = [request EXCEPT ![r] = IdleRequest]
      /\ UNCHANGED <<kind, joined, message, notified, opens, posts, raced, repeated, unfinished>>
  BY DEF CreateConversation, End
<1>2. IdleRequest \in Request /\ IdleRequest.op = "idle"
  BY DEF IdleRequest, Request
<1>3. request[r].n \in Nat
  BY DEF ChatInv, ChatTyped, Request
<1>4. conversations' \in SUBSET Nat /\ conversations' # {}
  BY <1>1, <1>3 DEF ChatInv, ChatTyped
<1>5. Canonical(conversations') \in conversations'
  BY <1>4, CanonicalOf
<1>6. ChatTyped'
  BY <1>1, <1>2, <1>4, <1>5 DEF ChatInv, ChatTyped
<1>7. MessagesInv'
  BY <1>1, <1>2, AwayFromMessages
<1>8. RowsInv'
  <2>1. NoSecond' \/ ~ (kind \in Keyed \/ ~ raced)
    BY <1>1 DEF ChatInv, RowsInv, NoSecond, CreatesAlone, Refuses
  <2>2. \A q \in ChatRequests : q # r => request'[q] = request[q]
    BY <1>1
  <2>3. CreatesAlone'
    BY <1>1, <1>2, <2>2 DEF ChatInv, ChatTyped, RowsInv, CreatesAlone
  <2> QED
    BY <1>1, <2>1, <2>3 DEF RowsInv
<1> QED
  BY <1>6, <1>7, <1>8 DEF ChatInv

LEMMA CreationRefusedStep ==
  ASSUME ChatInv, NEW r \in ChatRequests, CreationRefused(r) PROVE ChatInv'
<1>1. /\ request[r].op = "creating"
      /\ request' = [request EXCEPT ![r] = IdleRequest]
      /\ UNCHANGED <<kind, conversations, handed, joined, message, notified, opens, posts, raced,
                     repeated, unfinished>>
  BY DEF CreationRefused, End
<1>2. IdleRequest \in Request /\ IdleRequest.op = "idle"
  BY DEF IdleRequest, Request
<1>3. ChatTyped'
  BY <1>1, <1>2 DEF ChatInv, ChatTyped
<1>4. MessagesInv'
  BY <1>1, <1>2, AwayFromMessages
<1>5. RowsInv'
  BY <1>1, <1>2 DEF ChatInv, ChatTyped, RowsInv, NoSecond, CreatesAlone
<1> QED
  BY <1>3, <1>4, <1>5 DEF ChatInv

-----------------------------------------------------------------------------
(* Messages *)

LEMMA AwayFromRows ==
  ASSUME ChatInv, NEW r \in ChatRequests, NEW new \in Request,
         request[r].op # "creating", new.op # "creating",
         request' = [request EXCEPT ![r] = new],
         UNCHANGED <<kind, conversations, raced>>
  PROVE  RowsInv'
BY DEF ChatInv, ChatTyped, RowsInv, NoSecond, CreatesAlone

LEMMA AccessStep ==
  ASSUME ChatInv, NEW u \in Users, _authorize_conversation_access(u) PROVE ChatInv'
<1>1. joined \subseteq joined' /\ joined' \subseteq Users
  BY DEF _authorize_conversation_access, ChatInv, ChatTyped
<1>2. UNCHANGED <<kind, conversations, handed, message, notified, request, opens, posts, raced,
                  repeated, unfinished>>
  BY DEF _authorize_conversation_access
<1>3. ChatTyped' /\ RowsInv'
  BY <1>1, <1>2 DEF ChatInv, ChatTyped, RowsInv, NoSecond, CreatesAlone
<1>4. Stored' /\ OwnNumbers' /\ Unsaid' /\ EditsStored' /\ PostsAlone' /\ OneCopy'
  BY <1>2 DEF ChatInv, MessagesInv, Stored, OwnNumbers, Unsaid, EditsStored, PostsAlone, OneCopy
<1>5. AudienceServed'
  BY <1>1, <1>2 DEF ChatInv, MessagesInv, AudienceServed
<1> QED
  BY <1>3, <1>4, <1>5 DEF ChatInv, MessagesInv

LEMMA FindCopyStep ==
  ASSUME ChatInv, NEW r \in ChatRequests, FindCopy(r) PROVE ChatInv'
<1>1. PICK conv \in handed, cid \in ClientIds, u \in Users :
        IF Fresh(conv, cid)
          THEN /\ Take(r, [op |-> "posting", n |-> posts + 1, conv |-> conv, user |-> u,
                            cid |-> cid])
               /\ repeated' = IF \E o \in Running(r, "posting") : request[o].cid = cid
                               THEN repeated \cup {cid} ELSE repeated
          ELSE UNCHANGED <<request, repeated>>
  BY DEF FindCopy
<1>2. /\ request[r].op = "idle"
      /\ posts < MaxPosts /\ posts' = posts + 1
      /\ posts \in Nat /\ MaxPosts \in Nat
      /\ UNCHANGED <<kind, conversations, handed, joined, message, notified, opens, raced,
                     unfinished>>
  BY ChatAssumption DEF FindCopy, Idle, ChatInv, ChatTyped
<1>3. CASE ~ Fresh(conv, cid)
  <2>1. UNCHANGED <<request, repeated>>
    BY <1>1, <1>3
  <2>2. ChatTyped' /\ RowsInv'
    BY <1>2, <2>1 DEF ChatInv, ChatTyped, RowsInv, NoSecond, CreatesAlone
  <2>3. Stored' /\ EditsStored' /\ PostsAlone' /\ OneCopy' /\ AudienceServed'
    BY <1>2, <2>1 DEF ChatInv, MessagesInv, Stored, EditsStored, PostsAlone, OneCopy, AudienceServed
  <2>4. OwnNumbers' /\ Unsaid'
    BY <1>2, <2>1 DEF ChatInv, MessagesInv, OwnNumbers, Unsaid
  <2> QED
    BY <2>2, <2>3, <2>4 DEF ChatInv, MessagesInv
<1>4. CASE Fresh(conv, cid)
  <2> DEFINE new == [op |-> "posting", n |-> posts + 1, conv |-> conv, user |-> u, cid |-> cid]
  <2>1. /\ new \in Request
        /\ new.op = "posting" /\ new.n = posts + 1 /\ new.conv = conv /\ new.cid = cid
        /\ new.user = u
    BY <1>2 DEF Request, ChatInv, ChatTyped
  <2>2. /\ request' = [request EXCEPT ![r] = new]
        /\ repeated' = IF \E o \in Running(r, "posting") : request[o].cid = cid
                        THEN repeated \cup {cid} ELSE repeated
    BY <1>1, <1>4 DEF Take
  <2> HIDE DEF new
  <2>3. \A q \in ChatRequests : request'[q] = IF q = r THEN new ELSE request[q]
    BY <2>2 DEF ChatInv, ChatTyped
  <2>4. ChatTyped'
    BY <1>2, <2>1, <2>2 DEF ChatInv, ChatTyped
  <2>5. RowsInv'
    BY <1>2, <2>1, <2>2, AwayFromRows
  <2>6. message[posts + 1] = Silence
    BY <1>2 DEF ChatInv, MessagesInv, Unsaid
  <2>7. \A n \in 1..MaxPosts : message[n].cid = cid => message[n].conv # conv
    BY <1>4 DEF Fresh, Copies
  <2>8. repeated \subseteq repeated'
    BY <2>2
  <2>9. Stored' /\ EditsStored' /\ OneCopy'
    BY <1>2, <2>1, <2>3, <2>8 DEF ChatInv, MessagesInv, Stored, EditsStored, OneCopy
  <2>10. OwnNumbers'
    BY <1>2, <2>1, <2>3 DEF ChatInv, MessagesInv, OwnNumbers
  <2>11. Unsaid'
    BY <1>2, <2>1, <2>3, <2>6 DEF ChatInv, MessagesInv, Unsaid
  <2>12. PostsAlone'
    <3>1. \A q \in ChatRequests : q # r /\ request[q].op = "posting" /\ request[q].cid = cid
            => cid \in repeated'
      BY <2>2 DEF Running
    <3> QED
      BY <1>2, <2>1, <2>3, <2>7, <2>8, <3>1 DEF ChatInv, MessagesInv, PostsAlone
  <2>13. AudienceServed'
    BY <1>2, <2>1, <2>3 DEF ChatInv, MessagesInv, AudienceServed
  <2> QED
    BY <2>4, <2>5, <2>9, <2>10, <2>11, <2>12, <2>13 DEF ChatInv, MessagesInv
<1> QED
  BY <1>3, <1>4

LEMMA PostMessageStep ==
  ASSUME ChatInv, NEW r \in ChatRequests, PostMessage(r) PROVE ChatInv'
<1>1. PICK q \in Request : q = request[r]
  BY DEF ChatInv, ChatTyped
<1> DEFINE said == [cid |-> q.cid, conv |-> q.conv, text |-> "said", deleted |-> FALSE,
                    audience |-> joined \ {q.user}]
           over == [q EXCEPT !.op = "notifying"]
<1>2. /\ q.op = "posting"
      /\ message' = [message EXCEPT ![q.n] = said]
      /\ joined' = joined \cup {q.user}
      /\ request' = [request EXCEPT ![r] = over]
      /\ UNCHANGED <<kind, conversations, handed, notified, opens, posts, raced, repeated,
                     unfinished>>
  BY <1>1 DEF PostMessage, ChatInv, ChatTyped
<1>3. q.n \in 1..posts /\ q.n \in 1..MaxPosts /\ message[q.n] = Silence /\ q.cid \in ClientIds
  BY <1>1, <1>2, ChatAssumption DEF ChatInv, ChatTyped, MessagesInv, OwnNumbers, Unsaid
<1>4. /\ said \in Message /\ said # Silence
      /\ said.cid = q.cid /\ said.conv = q.conv /\ said.audience = joined \ {q.user}
  BY <1>3, ChatAssumption DEF Message, Silence, Request, ChatInv, ChatTyped
<1>5. /\ over \in Request /\ over.op = "notifying" /\ over.n = q.n /\ over.user = q.user
  BY DEF Request
<1> HIDE DEF said, over
<1>6. \A n \in 1..MaxPosts : message'[n] = IF n = q.n THEN said ELSE message[n]
  BY <1>2 DEF ChatInv, ChatTyped
<1>7. \A p \in ChatRequests : request'[p] = IF p = r THEN over ELSE request[p]
  BY <1>2 DEF ChatInv, ChatTyped
<1>8. ChatTyped'
  <2>1. message' \in [1..MaxPosts -> Message] /\ request' \in [ChatRequests -> Request]
    BY <1>2, <1>4, <1>5 DEF ChatInv, ChatTyped
  <2>2. q.user \in Users
    BY <1>1, <1>2 DEF ChatInv, MessagesInv, Unsaid
  <2> QED
    BY <1>2, <2>1, <2>2 DEF ChatInv, ChatTyped
<1>9. RowsInv'
  BY <1>1, <1>2, <1>5, AwayFromRows
<1>10. Stored' /\ EditsStored'
  BY <1>2, <1>3, <1>4, <1>5, <1>6, <1>7 DEF ChatInv, MessagesInv, Stored, EditsStored
<1>11. OwnNumbers'
  BY <1>1, <1>2, <1>5, <1>7 DEF ChatInv, MessagesInv, OwnNumbers
<1>12. Unsaid'
  BY <1>1, <1>2, <1>3, <1>5, <1>6, <1>7 DEF ChatInv, ChatTyped, MessagesInv, OwnNumbers, Unsaid
<1>13. PostsAlone'
  BY <1>1, <1>2, <1>3, <1>4, <1>5, <1>6, <1>7 DEF ChatInv, MessagesInv, PostsAlone
<1>14. OneCopy'
  BY <1>1, <1>2, <1>3, <1>4, <1>6 DEF ChatInv, MessagesInv, PostsAlone, OneCopy
<1>15. AudienceServed'
  <2>1. \A p \in ChatRequests : p # r /\ request[p].op = "notifying" =>
          request[p].n \in 1..MaxPosts /\ request[p].n # q.n
    BY <1>1, <1>2, ChatAssumption DEF ChatInv, ChatTyped, MessagesInv, OwnNumbers
  <2>2. ASSUME NEW p \in ChatRequests, request'[p].op = "notifying"
        PROVE  message'[request'[p].n].audience \subseteq joined' \ {request'[p].user}
    <3>1. CASE p = r
      BY <1>2, <1>3, <1>4, <1>5, <1>6, <1>7, <3>1
    <3>2. CASE p # r
      BY <1>2, <1>6, <1>7, <2>1, <2>2, <3>2 DEF ChatInv, MessagesInv, AudienceServed
    <3> QED
      BY <3>1, <3>2
  <2>3. ASSUME NEW n \in 1..MaxPosts
        PROVE  \/ message'[n].audience \subseteq notified'[n]
               \/ n \in unfinished'
               \/ \E p \in ChatRequests : request'[p].op = "notifying" /\ request'[p].n = n
    <3>1. CASE n = q.n
      BY <1>5, <1>7, <3>1
    <3>2. CASE n # q.n
      <4>1. ASSUME NEW p \in ChatRequests, request[p].op = "notifying" /\ request[p].n = n
            PROVE  request'[p].op = "notifying" /\ request'[p].n = n
        BY <1>1, <1>2, <1>7, <4>1
      <4> QED
        BY <1>2, <1>6, <3>2, <4>1 DEF ChatInv, MessagesInv, AudienceServed
    <3> QED
      BY <3>1, <3>2
  <2> QED
    BY <2>2, <2>3 DEF AudienceServed
<1> QED
  BY <1>8, <1>9, <1>10, <1>11, <1>12, <1>13, <1>14, <1>15 DEF ChatInv, MessagesInv

LEMMA OverStep ==
  ASSUME ChatInv, NEW r \in ChatRequests, NotifyMembers(r) \/ PostFails(r) PROVE ChatInv'
<1>1. PICK q \in Request : q = request[r] /\ q.op \in {"posting", "notifying"}
  BY DEF NotifyMembers, PostFails, ChatInv, ChatTyped
<1>2. IdleRequest \in Request /\ IdleRequest.op = "idle"
  BY DEF IdleRequest, Request
<1>3. /\ request' = [request EXCEPT ![r] = IdleRequest]
      /\ UNCHANGED <<kind, conversations, handed, joined, message, opens, posts, raced, repeated>>
      /\ unfinished \subseteq unfinished'
  BY DEF NotifyMembers, PostFails, End
<1>4. q.op = "notifying" => q.n \in unfinished' \/ notified' = [notified EXCEPT ![q.n] = joined \ {q.user}]
  BY <1>1 DEF NotifyMembers, PostFails, ToNotify
<1>5. notified' = notified \/ (q.op = "notifying" /\ notified' = [notified EXCEPT ![q.n] = joined \ {q.user}])
  BY <1>1 DEF NotifyMembers, PostFails, ToNotify
<1>6. \A p \in ChatRequests : request'[p] = IF p = r THEN IdleRequest ELSE request[p]
  BY <1>3 DEF ChatInv, ChatTyped
<1>7. ChatTyped'
  <2>2. notified' \in [1..MaxPosts -> SUBSET Users]
    BY <1>5 DEF ChatInv, ChatTyped
  <2>3. request' \in [ChatRequests -> Request]
    BY <1>2, <1>3 DEF ChatInv, ChatTyped
  <2>4. message' \in [1..MaxPosts -> Message]
    BY <1>3 DEF ChatInv, ChatTyped
  <2>5. /\ kind' \in Kinds /\ conversations' \subseteq Nat /\ handed' \subseteq conversations'
        /\ joined' \subseteq Users /\ opens' \in Nat /\ posts' \in Nat /\ posts' <= MaxPosts
        /\ raced' \in BOOLEAN
    BY <1>3 DEF ChatInv, ChatTyped
  <2> QED
    BY <2>2, <2>3, <2>4, <2>5 DEF ChatTyped
<1>8. RowsInv'
  BY <1>1, <1>2, <1>3, AwayFromRows
<1>9. Stored' /\ EditsStored' /\ OneCopy'
  BY <1>2, <1>3, <1>6 DEF ChatInv, MessagesInv, Stored, EditsStored, OneCopy
<1>10. OwnNumbers' /\ Unsaid' /\ PostsAlone'
  BY <1>2, <1>3, <1>6 DEF ChatInv, MessagesInv, OwnNumbers, Unsaid, PostsAlone
<1>11. AudienceServed'
  <2>1. \A p \in ChatRequests : request'[p].op = "notifying" =>
          message'[request'[p].n].audience \subseteq joined' \ {request'[p].user}
    BY <1>2, <1>3, <1>6 DEF ChatInv, MessagesInv, AudienceServed
  <2>2. ASSUME NEW n \in 1..MaxPosts
        PROVE  \/ message'[n].audience \subseteq notified'[n]
               \/ n \in unfinished'
               \/ \E p \in ChatRequests : request'[p].op = "notifying" /\ request'[p].n = n
    <3>1. CASE q.op = "notifying" /\ q.n = n
      <4>1. message[n].audience \subseteq joined \ {q.user}
        BY <1>1, <3>1 DEF ChatInv, MessagesInv, AudienceServed
      <4> QED
        BY <1>3, <1>4, <3>1, <4>1 DEF ChatInv, ChatTyped
    <3>2. CASE ~ (q.op = "notifying" /\ q.n = n)
      <4>1. notified'[n] = notified[n]
        BY <1>5, <3>2 DEF ChatInv, ChatTyped
      <4>2. ASSUME NEW p \in ChatRequests, request[p].op = "notifying" /\ request[p].n = n
            PROVE  request'[p].op = "notifying" /\ request'[p].n = n
        BY <1>1, <1>6, <3>2, <4>2
      <4> QED
        BY <1>3, <4>1, <4>2 DEF ChatInv, MessagesInv, AudienceServed
    <3> QED
      BY <3>1, <3>2
  <2> QED
    BY <2>1, <2>2 DEF AudienceServed
<1> QED
  BY <1>7, <1>8, <1>9, <1>10, <1>11 DEF ChatInv, MessagesInv

(* Loading a message, and committing what was made of it.                   *)
LEMMA LoadMessageStep ==
  ASSUME ChatInv, NEW r \in ChatRequests, LoadMessage(r) PROVE ChatInv'
<1>1. PICK n \in 1..MaxPosts, op \in {"editing", "deleting"} :
        /\ message[n] # Silence
        /\ request[r].op = "idle"
        /\ request' = [request EXCEPT ![r] = [IdleRequest EXCEPT !.op = op, !.n = n]]
  BY DEF LoadMessage, Take, Idle
<1>2. UNCHANGED <<kind, conversations, handed, joined, message, notified, opens, posts, raced,
                  repeated, unfinished>>
  BY DEF LoadMessage
<1> DEFINE new == [IdleRequest EXCEPT !.op = op, !.n = n]
<1>3. new \in Request /\ new.op = op /\ new.n = n
  <2>1. PICK none \in Request : none = IdleRequest
    BY DEF IdleRequest, Request
  <2>2. new = [none EXCEPT !.op = op, !.n = n]
    BY <2>1
  <2>3. n \in Nat
    BY ChatAssumption
  <2> HIDE DEF new
  <2> QED
    BY <2>1, <2>2, <2>3 DEF Request
<1>4. request' = [request EXCEPT ![r] = new]
  BY <1>1
<1> HIDE DEF new
<1>5. \A p \in ChatRequests : request'[p] = IF p = r THEN new ELSE request[p]
  BY <1>4 DEF ChatInv, ChatTyped
<1>6. ChatTyped'
  BY <1>2, <1>3, <1>4 DEF ChatInv, ChatTyped
<1>7. RowsInv'
  BY <1>1, <1>2, <1>3, <1>4, AwayFromRows
<1>8. Stored' /\ EditsStored' /\ OneCopy'
  BY <1>1, <1>2, <1>3, <1>5 DEF ChatInv, MessagesInv, Stored, EditsStored, OneCopy
<1>9. OwnNumbers' /\ Unsaid' /\ PostsAlone'
  BY <1>2, <1>3, <1>5 DEF ChatInv, MessagesInv, OwnNumbers, Unsaid, PostsAlone
<1>10. AudienceServed'
  <2>1. ASSUME NEW m \in 1..MaxPosts, NEW p \in ChatRequests, request[p].op = "notifying" /\ request[p].n = m
        PROVE  request'[p].op = "notifying" /\ request'[p].n = m
    BY <1>1, <1>5, <2>1
  <2> QED
    BY <1>2, <1>3, <1>5, <2>1 DEF ChatInv, MessagesInv, AudienceServed
<1> QED
  BY <1>6, <1>7, <1>8, <1>9, <1>10 DEF ChatInv, MessagesInv

LEMMA CommitMessageStep ==
  ASSUME ChatInv, NEW r \in ChatRequests, CommitMessage(r) PROVE ChatInv' /\ request[r].n \in 1..MaxPosts
<1>1. PICK q \in Request : q = request[r] /\ q.op \in {"editing", "deleting"}
  BY DEF CommitMessage, ChatInv, ChatTyped
<1>2. q.n \in 1..MaxPosts /\ message[q.n] # Silence
  BY <1>1 DEF ChatInv, MessagesInv, EditsStored
<1>3. PICK old \in Message : old = message[q.n]
  BY <1>2 DEF ChatInv, ChatTyped
<1> DEFINE new == IF q.op = "editing" THEN edit_message(old) ELSE delete_message(old)
<1>4. message' = [message EXCEPT ![q.n] = new]
  BY <1>1, <1>2, <1>3 DEF CommitMessage, ChatInv, ChatTyped
<1>5. new \in Message /\ new.cid = old.cid /\ new.conv = old.conv /\ new.audience = old.audience
  BY DEF Message, edit_message, delete_message
<1> HIDE DEF new
<1>6. old.cid \in ClientIds /\ new # Silence
  BY <1>2, <1>3, <1>5, ChatAssumption DEF ChatInv, MessagesInv, Stored, Silence
<1>7. /\ request' = [request EXCEPT ![r] = IdleRequest]
      /\ UNCHANGED <<kind, conversations, handed, joined, notified, opens, posts, raced, repeated,
                     unfinished>>
  BY DEF CommitMessage, End
<1>8. IdleRequest \in Request /\ IdleRequest.op = "idle"
  BY DEF IdleRequest, Request
<1>9. \A n \in 1..MaxPosts : message'[n] = IF n = q.n THEN new ELSE message[n]
  BY <1>4 DEF ChatInv, ChatTyped
<1>10. \A p \in ChatRequests : request'[p] = IF p = r THEN IdleRequest ELSE request[p]
  BY <1>7 DEF ChatInv, ChatTyped
<1>11. \A n \in 1..MaxPosts :
         /\ message'[n].cid = message[n].cid /\ message'[n].conv = message[n].conv
         /\ message'[n].audience = message[n].audience
         /\ message'[n] = Silence <=> message[n] = Silence
  BY <1>2, <1>3, <1>5, <1>6, <1>9
<1>12. ChatTyped'
  BY <1>4, <1>5, <1>7, <1>8 DEF ChatInv, ChatTyped
<1>13. RowsInv'
  BY <1>1, <1>7, <1>8, AwayFromRows
<1>14. Stored' /\ EditsStored' /\ OneCopy'
  BY <1>7, <1>8, <1>10, <1>11 DEF ChatInv, MessagesInv, Stored, EditsStored, OneCopy
<1>15. OwnNumbers' /\ PostsAlone'
  BY <1>7, <1>8, <1>10, <1>11 DEF ChatInv, MessagesInv, OwnNumbers, PostsAlone
<1>16. Unsaid'
  <2>1. \A p \in ChatRequests : request[p].op = "posting" => request[p].n \in 1..MaxPosts
    BY ChatAssumption DEF ChatInv, ChatTyped, MessagesInv, OwnNumbers
  <2> QED
    BY <1>7, <1>8, <1>10, <1>11, <2>1 DEF ChatInv, MessagesInv, Unsaid
<1>17. AudienceServed'
  <2>1. ASSUME NEW m \in 1..MaxPosts, NEW p \in ChatRequests, request[p].op = "notifying" /\ request[p].n = m
        PROVE  request'[p].op = "notifying" /\ request'[p].n = m
    BY <1>1, <1>10, <2>1
  <2>2. \A p \in ChatRequests : request[p].op = "notifying" => request[p].n \in 1..MaxPosts
    BY ChatAssumption DEF ChatInv, ChatTyped, MessagesInv, OwnNumbers
  <2>3. \A p \in ChatRequests : request'[p].op = "notifying" =>
          message'[request'[p].n].audience \subseteq joined' \ {request'[p].user}
    BY <1>7, <1>8, <1>10, <1>11, <2>2 DEF ChatInv, MessagesInv, AudienceServed
  <2>4. \A m \in 1..MaxPosts :
          \/ message'[m].audience \subseteq notified'[m]
          \/ m \in unfinished'
          \/ \E p \in ChatRequests : request'[p].op = "notifying" /\ request'[p].n = m
    BY <1>7, <1>11, <2>1 DEF ChatInv, MessagesInv, AudienceServed
  <2> QED
    BY <2>3, <2>4 DEF AudienceServed
<1> QED
  BY <1>1, <1>2, <1>12, <1>13, <1>14, <1>15, <1>16, <1>17 DEF ChatInv, MessagesInv

LEMMA ChatStep == ChatInv /\ [ChatNext]_chatVars => ChatInv'
<1> SUFFICES ASSUME ChatInv, [ChatNext]_chatVars PROVE ChatInv'
  OBVIOUS
<1>1. ASSUME NEW r \in ChatRequests,
             \/ FindConversation(r) \/ CreateConversation(r) \/ CreationRefused(r)
             \/ FindCopy(r) \/ PostMessage(r) \/ NotifyMembers(r) \/ PostFails(r)
             \/ LoadMessage(r) \/ CommitMessage(r)
      PROVE  ChatInv'
  BY <1>1, FindConversationStep, CreateConversationStep, CreationRefusedStep, FindCopyStep,
     PostMessageStep, OverStep, LoadMessageStep, CommitMessageStep
<1>2. CASE UNCHANGED chatVars
  <2> USE <1>2 DEF chatVars
  <2>1. ChatTyped' /\ RowsInv'
    BY DEF ChatInv, ChatTyped, RowsInv, NoSecond, CreatesAlone
  <2>2. Stored' /\ OwnNumbers' /\ Unsaid' /\ EditsStored' /\ PostsAlone' /\ OneCopy' /\ AudienceServed'
    BY DEF ChatInv, MessagesInv, Stored, OwnNumbers, Unsaid, EditsStored, PostsAlone, OneCopy, AudienceServed
  <2> QED
    BY <2>1, <2>2 DEF ChatInv, MessagesInv
<1> QED
  BY <1>1, <1>2, AccessStep DEF ChatNext

(***************************************************************************)
(* ChatInv holds of every state of the conversation: what was handed out,  *)
(* what is stored under each number, and whom the audience waits for.      *)
(***************************************************************************)
THEOREM ChatInvariant == ChatSpec => []ChatInv
BY InitChatInv, ChatStep, PTL DEF ChatSpec

LEMMA AtMostOne == ASSUME NEW S, \A x, y \in S : x = y PROVE Cardinality(S) <= 1
<1>1. CASE S = {}
  <2>1. Cardinality({}) = 0
    BY FS_EmptySet
  <2> QED
    BY <1>1, <2>1
<1>2. CASE S # {}
  <2>1. PICK x \in S : S = {x}
    BY <1>2
  <2>2. Cardinality({x}) = 1
    BY FS_Singleton
  <2> QED
    BY <2>1, <2>2
<1> QED
  BY <1>1, <1>2

(***************************************************************************)
(* Whoever asks for the conversation is given the same one: an index, or   *)
(* that nobody else was creating it at a time, makes it the only one.      *)
(***************************************************************************)
THEOREM SameConversation == ChatSpec => []OneConversation
<1>1. ChatInv => OneConversation
  <2> SUFFICES ASSUME ChatInv, kind \in Keyed \/ ~ raced PROVE Cardinality(handed) <= 1
    BY DEF OneConversation
  <2>1. \A c, d \in handed : c = d
    BY DEF ChatInv, ChatTyped, RowsInv, NoSecond
  <2> QED
    BY <2>1, AtMostOne
<1> QED
  BY <1>1, ChatInvariant, PTL

(***************************************************************************)
(* A message posted again under its client's id is stored once, whatever   *)
(* is edited, removed or lost meanwhile, unless the posts overlapped.      *)
(***************************************************************************)
THEOREM StoredOnce == ChatSpec => []PostedOnce
<1>1. ChatInv => PostedOnce
  <2> SUFFICES ASSUME ChatInv, NEW cid \in ClientIds, NEW conv \in handed, cid \notin repeated
               PROVE  Cardinality(Copies(conv, cid)) <= 1
    BY DEF PostedOnce
  <2>1. \A m, n \in Copies(conv, cid) : m = n
    BY DEF Copies, ChatInv, MessagesInv, OneCopy
  <2> QED
    BY <2>1, AtMostOne
<1> QED
  BY <1>1, ChatInvariant, PTL

(***************************************************************************)
(* Whoever was a member when a message was committed has a notification of *)
(* it once the post is over, unless an error lost them all.                *)
(***************************************************************************)
THEOREM EverybodyTold == ChatSpec => []AudienceNotified
<1>1. ChatInv => AudienceNotified
  BY DEF ChatInv, MessagesInv, AudienceServed, AudienceNotified
<1> QED
  BY <1>1, ChatInvariant, PTL

(***************************************************************************)
(* A removed message stays removed: no post has its number any more, and   *)
(* an edition leaves alone what it has not changed.                        *)
(***************************************************************************)
THEOREM RemovedForever == ChatSpec => DeletedForever
<1>1. ASSUME ChatInv, [ChatNext]_chatVars
      PROVE  [\A n \in 1..MaxPosts : message[n].deleted => message'[n].deleted]_chatVars
  <2> USE <1>1
  <2>1. CASE UNCHANGED message
    BY <2>1
  <2>2. ASSUME NEW r \in ChatRequests, PostMessage(r)
        PROVE  \A n \in 1..MaxPosts : message[n].deleted => message'[n].deleted
    <3>1. request[r].n \in 1..MaxPosts /\ ~ message[request[r].n].deleted
      BY <2>2, ChatAssumption DEF PostMessage, ChatInv, ChatTyped, MessagesInv, OwnNumbers, Unsaid, Silence
    <3> QED
      BY <2>2, <3>1 DEF PostMessage, ChatInv, ChatTyped
  <2>3. ASSUME NEW r \in ChatRequests, CommitMessage(r)
        PROVE  \A n \in 1..MaxPosts : message[n].deleted => message'[n].deleted
    <3>1. request[r].n \in 1..MaxPosts
      BY <2>3, CommitMessageStep
    <3>2. PICK old \in Message : old = message[request[r].n]
      BY <3>1 DEF ChatInv, ChatTyped
    <3>3. message' = [message EXCEPT ![request[r].n] =
            IF request[r].op = "editing" THEN edit_message(old) ELSE delete_message(old)]
      BY <2>3, <3>1, <3>2 DEF CommitMessage, ChatInv, ChatTyped
    <3>4. edit_message(old).deleted = old.deleted /\ delete_message(old).deleted
      BY DEF edit_message, delete_message, Message
    <3> QED
      BY <3>1, <3>2, <3>3, <3>4 DEF ChatInv, ChatTyped
  <2> QED
    BY <2>1, <2>2, <2>3 DEF ChatNext, chatVars, _authorize_conversation_access, FindConversation,
       CreateConversation, CreationRefused, FindCopy, NotifyMembers, PostFails, LoadMessage
<1> QED
  BY <1>1, ChatInvariant, PTL DEF ChatSpec, DeletedForever

(***************************************************************************)
(* Requests that come one after another are all given the same             *)
(* conversation, of whatever kind, and store a client's message once, also *)
(* when they fail half way and are repeated.                               *)
(***************************************************************************)
THEOREM OneAfterAnother ==
  ASSUME \A r, q \in ChatRequests : r = q
  PROVE  ChatSpec => [](/\ Cardinality(handed) <= 1
                        /\ \A cid \in ClientIds, conv \in handed : Cardinality(Copies(conv, cid)) <= 1)
<1> DEFINE Orderly == ~ raced /\ repeated = {}
<1>1. ChatInit => Orderly
  BY DEF ChatInit
<1>2. Orderly /\ [ChatNext]_chatVars => Orderly'
  <2> SUFFICES ASSUME Orderly, [ChatNext]_chatVars PROVE Orderly'
    OBVIOUS
  <2>1. \A r \in ChatRequests : Running(r, "creating") = {} /\ Running(r, "posting") = {}
    BY DEF Running
  <2>2. ASSUME NEW r \in ChatRequests, FindConversation(r) PROVE Orderly'
    <3>1. raced' => raced \/ Running(r, "creating") # {}
      BY <2>2 DEF FindConversation
    <3>2. UNCHANGED repeated
      BY <2>2 DEF FindConversation
    <3> QED
      BY <2>1, <3>1, <3>2
  <2>3. ASSUME NEW r \in ChatRequests, FindCopy(r) PROVE Orderly'
    <3>1. UNCHANGED raced /\ (repeated' = repeated \/ Running(r, "posting") # {})
      BY <2>3 DEF FindCopy
    <3> QED
      BY <2>1, <3>1
  <2>4. ASSUME NEW r \in ChatRequests,
               \/ CreateConversation(r) \/ CreationRefused(r) \/ PostMessage(r)
               \/ NotifyMembers(r) \/ PostFails(r) \/ LoadMessage(r) \/ CommitMessage(r)
        PROVE  UNCHANGED <<raced, repeated>>
    BY <2>4 DEF CreateConversation, CreationRefused, PostMessage, NotifyMembers, PostFails,
                LoadMessage, CommitMessage
  <2>5. ASSUME NEW u \in Users, _authorize_conversation_access(u) PROVE UNCHANGED <<raced, repeated>>
    BY <2>5 DEF _authorize_conversation_access
  <2>6. CASE UNCHANGED chatVars
    BY <2>6 DEF chatVars
  <2>7. UNCHANGED <<raced, repeated>> => Orderly'
    OBVIOUS
  <2> HIDE DEF Orderly
  <2> QED
    BY <2>2, <2>3, <2>4, <2>5, <2>6, <2>7 DEF ChatNext
<1>3. Orderly /\ OneConversation /\ PostedOnce =>
        /\ Cardinality(handed) <= 1
        /\ \A cid \in ClientIds, conv \in handed : Cardinality(Copies(conv, cid)) <= 1
  BY DEF OneConversation, PostedOnce
<1> HIDE DEF Orderly
<1> QED
  BY <1>1, <1>2, <1>3, SameConversation, StoredOnce, PTL DEF ChatSpec

(* No conversation is named that no request has asked for.                  *)
ConversationsNamed ==
  /\ opens \in 0..MaxOpens
  /\ conversations \subseteq 0..MaxOpens
  /\ \A r \in ChatRequests :
       /\ request[r].op = "creating" => request[r].n \in 0..MaxOpens
       /\ request[r].conv \in 0..MaxOpens
  /\ \A n \in 1..MaxPosts : message[n].conv \in 0..MaxOpens

LEMMA NamesStep == ChatInv /\ ConversationsNamed /\ [ChatNext]_chatVars => ConversationsNamed'
<1> SUFFICES ASSUME ChatInv, ConversationsNamed, [ChatNext]_chatVars PROVE ConversationsNamed'
  OBVIOUS
<1>1. request \in [ChatRequests -> Request] /\ message \in [1..MaxPosts -> Message]
  BY DEF ChatInv, ChatTyped
<1>2. ASSUME NEW r \in ChatRequests, NEW q \in Request, q.conv \in 0..MaxOpens,
             q.op = "creating" => q.n \in 0..MaxOpens,
             request' = [request EXCEPT ![r] = q]
      PROVE  \A z \in ChatRequests :
               /\ request'[z].op = "creating" => request'[z].n \in 0..MaxOpens
               /\ request'[z].conv \in 0..MaxOpens
  BY <1>1, <1>2 DEF ConversationsNamed
<1>3. /\ IdleRequest \in Request /\ IdleRequest.conv \in 0..MaxOpens
      /\ IdleRequest.op # "creating"
  BY ChatAssumption DEF IdleRequest, Request
<1>4. ASSUME NEW r \in ChatRequests, FindConversation(r) PROVE ConversationsNamed'
  <2> DEFINE new == [IdleRequest EXCEPT !.op = "creating", !.n = opens + 1]
  <2>1. /\ opens' \in 0..MaxOpens /\ opens' = opens + 1
        /\ UNCHANGED <<conversations, message>>
        /\ UNCHANGED request \/ request' = [request EXCEPT ![r] = new]
    BY <1>4, ChatAssumption DEF FindConversation, Take, ConversationsNamed
  <2>2. new \in Request /\ new.n \in 0..MaxOpens /\ new.conv \in 0..MaxOpens
    <3>1. PICK none \in Request : none = IdleRequest /\ none.conv \in 0..MaxOpens
      BY <1>3
    <3>2. new = [none EXCEPT !.op = "creating", !.n = opens + 1]
      BY <3>1
    <3>3. opens + 1 \in 0..MaxOpens /\ opens + 1 \in Nat
      BY <2>1, ChatAssumption
    <3> HIDE DEF new
    <3> QED
      BY <3>1, <3>2, <3>3 DEF Request
  <2> HIDE DEF new
  <2> QED
    BY <1>2, <2>1, <2>2 DEF ConversationsNamed
<1>5. ASSUME NEW r \in ChatRequests, CreateConversation(r) PROVE ConversationsNamed'
  <2>1. /\ request[r].n \in 0..MaxOpens /\ conversations' = conversations \cup {request[r].n}
        /\ request' = [request EXCEPT ![r] = IdleRequest] /\ UNCHANGED <<opens, message>>
    BY <1>5 DEF CreateConversation, End, ConversationsNamed
  <2> QED
    BY <1>2, <1>3, <2>1 DEF ConversationsNamed
<1>6. ASSUME NEW r \in ChatRequests, CreationRefused(r) \/ NotifyMembers(r) \/ PostFails(r)
      PROVE  ConversationsNamed'
  <2>1. request' = [request EXCEPT ![r] = IdleRequest] /\ UNCHANGED <<opens, conversations, message>>
    BY <1>6 DEF CreationRefused, NotifyMembers, PostFails, End
  <2> QED
    BY <1>2, <1>3, <2>1 DEF ConversationsNamed
<1>7. ASSUME NEW r \in ChatRequests, FindCopy(r) PROVE ConversationsNamed'
  <2>1. UNCHANGED <<opens, conversations, message>>
    BY <1>7 DEF FindCopy
  <2>2. PICK conv \in handed, cid \in ClientIds, u \in Users :
          \/ UNCHANGED request
          \/ request' = [request EXCEPT ![r] = [op |-> "posting", n |-> posts + 1, conv |-> conv,
                                                user |-> u, cid |-> cid]]
    BY <1>7 DEF FindCopy, Take
  <2> DEFINE q == [op |-> "posting", n |-> posts + 1, conv |-> conv, user |-> u, cid |-> cid]
  <2>3. q \in Request /\ q.conv \in 0..MaxOpens /\ q.op # "creating"
    BY DEF Request, ChatInv, ChatTyped, ConversationsNamed
  <2> HIDE DEF q
  <2>4. UNCHANGED request \/ request' = [request EXCEPT ![r] = q]
    BY <2>2 DEF q
  <2> QED
    BY <1>2, <2>1, <2>3, <2>4 DEF ConversationsNamed
<1>8. ASSUME NEW r \in ChatRequests, PostMessage(r) PROVE ConversationsNamed'
  <2>1. PICK q \in Request : q = request[r] /\ q.conv \in 0..MaxOpens
    BY <1>1 DEF ConversationsNamed
  <2> DEFINE row == [cid |-> q.cid, conv |-> q.conv, text |-> "said", deleted |-> FALSE,
                     audience |-> joined \ {q.user}]
             new == [q EXCEPT !.op = "notifying"]
  <2>2. /\ UNCHANGED <<opens, conversations>>
        /\ message' = [message EXCEPT ![q.n] = row]
        /\ request' = [request EXCEPT ![r] = new]
    BY <1>1, <1>8, <2>1 DEF PostMessage
  <2>3. row.conv \in 0..MaxOpens /\ new \in Request /\ new.op # "creating" /\ new.conv = q.conv
    BY <2>1 DEF Request
  <2> HIDE DEF row, new
  <2>4. \A n \in 1..MaxPosts : message'[n] = row \/ message'[n] = message[n]
    BY <1>1, <2>2
  <2>5. \A n \in 1..MaxPosts : message'[n].conv \in 0..MaxOpens
    BY <2>3, <2>4 DEF ConversationsNamed
  <2> QED
    BY <1>2, <2>1, <2>2, <2>3, <2>5 DEF ConversationsNamed
<1>9. ASSUME NEW r \in ChatRequests, LoadMessage(r) PROVE ConversationsNamed'
  <2>1. UNCHANGED <<opens, conversations, message>>
    BY <1>9 DEF LoadMessage
  <2>2. PICK n \in 1..MaxPosts, op \in {"editing", "deleting"} :
          request' = [request EXCEPT ![r] = [IdleRequest EXCEPT !.op = op, !.n = n]]
    BY <1>9 DEF LoadMessage, Take
  <2> DEFINE q == [IdleRequest EXCEPT !.op = op, !.n = n]
  <2>3. q \in Request /\ q.conv \in 0..MaxOpens /\ q.op # "creating"
    <3>1. PICK none \in Request : none = IdleRequest /\ none.conv \in 0..MaxOpens
      BY <1>3
    <3>2. q = [none EXCEPT !.op = op, !.n = n]
      BY <3>1
    <3>3. n \in Nat
      BY ChatAssumption
    <3> HIDE DEF q
    <3> QED
      BY <3>1, <3>2, <3>3 DEF Request
  <2>4. request' = [request EXCEPT ![r] = q]
    BY <2>2
  <2> HIDE DEF q
  <2> QED
    BY <1>2, <2>1, <2>3, <2>4 DEF ConversationsNamed
<1>10. ASSUME NEW r \in ChatRequests, CommitMessage(r) PROVE ConversationsNamed'
  <2>1. /\ UNCHANGED <<opens, conversations>>
        /\ request' = [request EXCEPT ![r] = IdleRequest]
        /\ message' = [message EXCEPT ![request[r].n] =
             IF request[r].op = "editing" THEN edit_message(@) ELSE delete_message(@)]
    BY <1>10 DEF CommitMessage, End
  <2>2. \A n \in 1..MaxPosts : message'[n].conv = message[n].conv
    BY <1>1, <2>1 DEF edit_message, delete_message, Message
  <2> QED
    BY <1>2, <1>3, <2>1, <2>2 DEF ConversationsNamed
<1>11. ASSUME NEW u \in Users, _authorize_conversation_access(u) PROVE ConversationsNamed'
  BY <1>11 DEF _authorize_conversation_access, ConversationsNamed
<1>12. CASE UNCHANGED chatVars
  BY <1>12 DEF chatVars, ConversationsNamed
<1> QED
  BY <1>4, <1>5, <1>6, <1>7, <1>8, <1>9, <1>10, <1>11, <1>12 DEF ChatNext

(* Every conversation that is handed out or written to is one of those that *)
(* were asked for, and a message, edited or not, stays in its own.          *)
THEOREM ChatTypeCorrect == ChatSpec => []ChatTypeOK
<1>1. ChatInit => ConversationsNamed
  BY ChatAssumption DEF ChatInit, ConversationsNamed, IdleRequest, Silence
<1>2. ChatInv /\ ConversationsNamed => ChatTypeOK
  <2> SUFFICES ASSUME ChatInv, ConversationsNamed PROVE ChatTypeOK
    OBVIOUS
  <2>1. message \in [1..MaxPosts -> [cid : ClientIds \cup {"none"}, conv : 0..MaxOpens,
          text : {"none", "said", "edited", "removed"}, deleted : BOOLEAN,
          audience : SUBSET Users]]
    BY DEF ChatInv, ChatTyped, Message, ConversationsNamed
  <2> QED
    BY <2>1 DEF ChatInv, ChatTyped, Request, ConversationsNamed, ChatTypeOK
<1>3. ChatSpec => []ConversationsNamed
  BY <1>1, NamesStep, ChatInvariant, PTL DEF ChatSpec
<1> QED
  BY <1>2, <1>3, ChatInvariant, PTL

-----------------------------------------------------------------------------
(* Attachments *)

LEMMA InitMediaInv == MediaInit => MediaInv
<1> SUFFICES ASSUME MediaInit PROVE MediaInv
  OBVIOUS
<1>1. NoRowYet \in Attachment /\ Nothing.attachment \notin Attachments
  BY MediaAssumption DEF NoRowYet, Attachment, Nothing
<1>2. /\ \A a \in Attachments : upload[a] = "none" /\ owned[a] = NoRowYet
      /\ \A n \in Messages : carried[n] = Nothing /\ attaching[n] = Nothing
  BY DEF MediaInit
<1>3. MediaTyped
  BY <1>1, MediaAssumption DEF MediaInit, MediaTyped, Carried
<1>4. RowsHaveFiles /\ AttachedOnce /\ LinkedBack
  BY <1>1, <1>2 DEF RowsHaveFiles, AttachedOnce, LinkedBack, Involved
<1> QED
  BY <1>3, <1>4 DEF MediaInv

(* What the posts have is not touched by uploads, and what is uploaded is   *)
(* not taken by them yet.                                                  *)
LEMMA UploadStep ==
  ASSUME MediaInv, NEW u \in Uploaders, NEW a \in Attachments, Upload(u, a) PROVE MediaInv'
<1>1. /\ upload[a] = "none"
      /\ files' = files \cup {a}
      /\ upload' = [upload EXCEPT ![a] = u]
      /\ UNCHANGED <<owned, admitted, carried, attaching, attached, retaken>>
  BY DEF Upload
<1>2. MediaTyped'
  BY <1>1 DEF MediaInv, MediaTyped
<1>3. RowsHaveFiles'
  BY <1>1 DEF MediaInv, MediaTyped, RowsHaveFiles
<1>4. AttachedOnce' /\ LinkedBack'
  BY <1>1 DEF MediaInv, AttachedOnce, LinkedBack, Involved
<1> QED
  BY <1>2, <1>3, <1>4 DEF MediaInv

LEMMA CommitUploadStep ==
  ASSUME MediaInv, NEW a \in Attachments, CommitUpload(a) PROVE MediaInv'
<1> DEFINE row == [by |-> upload[a], of |-> 0]
<1>1. /\ upload[a] \notin {"none", "over"}
      /\ owned' = [owned EXCEPT ![a] = row]
      /\ upload' = [upload EXCEPT ![a] = "over"]
      /\ UNCHANGED <<files, admitted, carried, attaching, attached, retaken>>
  BY DEF CommitUpload
<1>2. row \in Attachment /\ row.by \in Uploaders /\ row # NoRowYet
  BY <1>1 DEF MediaInv, MediaTyped, Attachment, NoRowYet
<1>3. owned[a] = NoRowYet
  BY <1>1 DEF MediaInv, RowsHaveFiles
<1> HIDE DEF row
<1>4. MediaTyped'
  BY <1>1, <1>2 DEF MediaInv, MediaTyped
<1>5. RowsHaveFiles'
  BY <1>1, <1>2 DEF MediaInv, MediaTyped, RowsHaveFiles
<1>6. AttachedOnce'
  BY <1>1 DEF MediaInv, AttachedOnce, Involved
<1>7. LinkedBack'
  BY <1>1, <1>2, <1>3 DEF MediaInv, MediaTyped, LinkedBack, Involved
<1> QED
  BY <1>4, <1>5, <1>6, <1>7 DEF MediaInv

LEMMA UploadDiesStep ==
  ASSUME MediaInv, NEW a \in Attachments, UploadDies(a) PROVE MediaInv'
<1>1. /\ upload[a] \notin {"none", "over"}
      /\ upload' = [upload EXCEPT ![a] = "over"]
      /\ UNCHANGED <<files, owned, admitted, carried, attaching, attached, retaken>>
  BY DEF UploadDies
<1>2. MediaTyped' /\ RowsHaveFiles'
  BY <1>1 DEF MediaInv, MediaTyped, RowsHaveFiles
<1>3. AttachedOnce' /\ LinkedBack'
  BY <1>1 DEF MediaInv, AttachedOnce, LinkedBack, Involved
<1> QED
  BY <1>2, <1>3 DEF MediaInv

LEMMA EnterStep ==
  ASSUME MediaInv, NEW u \in Uploaders, NEW t \in Threads, Enter(u, t) PROVE MediaInv'
<1>1. /\ admitted' = [admitted EXCEPT ![t] = @ \cup {u}]
      /\ UNCHANGED <<files, upload, owned, carried, attaching, attached, retaken>>
  BY DEF Enter
<1>2. MediaTyped' /\ RowsHaveFiles'
  BY <1>1 DEF MediaInv, MediaTyped, RowsHaveFiles
<1>3. AttachedOnce' /\ LinkedBack'
  BY <1>1 DEF MediaInv, AttachedOnce, LinkedBack, Involved
<1> QED
  BY <1>2, <1>3 DEF MediaInv

(* A new message begins with nothing, and takes what another has only as a  *)
(* retaken attachment.                                                     *)
LEMMA AttachStep ==
  ASSUME MediaInv, NEW t \in Threads, NEW a \in Attachments, Attach(t, a) PROVE MediaInv'
<1> DEFINE k == attached + 1
           new == [thread |-> t, attachment |-> a]
<1>1. /\ attached < MaxAttached
      /\ owned[a] # NoRowYet
      /\ attached' = k
      /\ attaching' = [attaching EXCEPT ![k] = new]
      /\ retaken' = IF \E n \in 1..attached : a \in {carried[n].attachment, attaching[n].attachment}
                      THEN retaken \cup {a} ELSE retaken
      /\ UNCHANGED <<files, upload, owned, admitted, carried>>
  BY DEF Attach
<1>2. /\ k \in Messages /\ attached' \in 0..MaxAttached /\ attached \in Nat
      /\ carried[k] = Nothing /\ attaching[k] = Nothing
  BY <1>1, MediaAssumption DEF MediaInv, MediaTyped, AttachedOnce, Messages
<1>3. new \in Carried /\ new.attachment = a
  BY DEF Carried
<1>4. Nothing.attachment \notin Attachments
  BY MediaAssumption DEF Nothing
<1> HIDE DEF new
<1>5. \A n \in Messages : attaching'[n] = IF n = k THEN new ELSE attaching[n]
  BY <1>1 DEF MediaInv, MediaTyped
<1>6. MediaTyped'
  BY <1>1, <1>2, <1>3 DEF MediaInv, MediaTyped
<1>7. RowsHaveFiles'
  BY <1>1 DEF MediaInv, RowsHaveFiles
<1>8. retaken \subseteq retaken'
  BY <1>1
<1>9. \A n \in Messages : n # k /\ Involved(n, a) => a \in retaken'
  <2> SUFFICES ASSUME NEW n \in Messages, n # k, Involved(n, a) PROVE a \in retaken'
    OBVIOUS
  <2>1. n <= attached
    BY <1>2, <1>4 DEF Involved, MediaInv, AttachedOnce, Messages
  <2>2. n \in 1..attached
    BY <1>2, <2>1, MediaAssumption DEF Messages
  <2> QED
    BY <1>1, <2>2 DEF Involved
<1>10. \A n \in Messages : \A b \in Attachments :
         Involved(n, b)' => Involved(n, b) \/ (n = k /\ b = a)
  BY <1>1, <1>3, <1>5 DEF Involved
<1>11. AttachedOnce'
  <2>1. \A n \in Messages : n > k => n > attached /\ n # k
    BY <1>2, MediaAssumption DEF Messages
  <2>2. /\ \A n \in Messages : n > attached' => carried'[n] = Nothing /\ attaching'[n] = Nothing
        /\ \A n \in Messages : carried'[n] = Nothing \/ attaching'[n] = Nothing
    BY <1>1, <1>2, <1>5, <2>1 DEF MediaInv, AttachedOnce
  <2>3. ASSUME NEW m \in Messages, NEW n \in Messages, NEW b \in Attachments \ retaken',
               Involved(m, b)', Involved(n, b)'
        PROVE  m = n
    <3>1. \A p \in Messages : Involved(p, b)' => (Involved(p, b) /\ (p = k \/ b # a)) \/ (p = k /\ b = a)
      BY <1>9, <1>10
    <3>2. ~ Involved(k, b)
      BY <1>2, <1>4 DEF Involved
    <3> QED
      BY <1>8, <2>3, <3>1, <3>2 DEF MediaInv, AttachedOnce
  <2> QED
    BY <2>2, <2>3 DEF AttachedOnce
<1>12. LinkedBack'
  BY <1>1, <1>8, <1>10 DEF MediaInv, LinkedBack
<1> QED
  BY <1>6, <1>7, <1>11, <1>12 DEF MediaInv

LEMMA CommitPostStep ==
  ASSUME MediaInv, NEW n \in Messages, CommitPost(n) PROVE MediaInv'
<1>1. PICK q \in Carried : q = attaching[n] /\ q # Nothing
  BY DEF CommitPost, MediaInv, MediaTyped
<1>2. PICK a \in Attachments : a = q.attachment
  BY <1>1 DEF Carried
<1>3. /\ carried' = [carried EXCEPT ![n] = q]
      /\ attaching' = [attaching EXCEPT ![n] = Nothing]
      /\ UNCHANGED <<files, upload, admitted, attached, retaken>>
  BY <1>1 DEF CommitPost
<1>4. PICK old \in Attachment : old = owned[a]
  BY DEF MediaInv, MediaTyped
<1> DEFINE new == [old EXCEPT !.of = n]
<1>5. owned' = [owned EXCEPT ![a] = new]
  BY <1>1, <1>2, <1>4 DEF CommitPost, Linked, MediaInv, MediaTyped
<1>6. new \in Attachment /\ new.by = old.by /\ new.of = n
  BY DEF Attachment
<1>7. Nothing.attachment \notin Attachments /\ Nothing \in Carried
  BY MediaAssumption DEF Nothing, Carried
<1>8. Involved(n, a) /\ owned[a] # NoRowYet /\ carried[n] = Nothing
  BY <1>1, <1>2 DEF Involved, MediaInv, AttachedOnce, LinkedBack
<1>9. old.by \in Uploaders /\ upload[a] = "over"
  BY <1>4, <1>8 DEF MediaInv, RowsHaveFiles
<1>10. new # NoRowYet
  BY <1>6, <1>9, MediaAssumption DEF NoRowYet
<1> HIDE DEF new
<1>11. \A b \in Attachments : owned'[b] = IF b = a THEN new ELSE owned[b]
  BY <1>5 DEF MediaInv, MediaTyped
<1>12. \A m \in Messages : /\ carried'[m] = IF m = n THEN q ELSE carried[m]
                           /\ attaching'[m] = IF m = n THEN Nothing ELSE attaching[m]
  BY <1>3 DEF MediaInv, MediaTyped
<1>13. \A m \in Messages, b \in Attachments : Involved(m, b)' <=> Involved(m, b)
  BY <1>1, <1>7, <1>8, <1>12 DEF Involved
<1>14. MediaTyped'
  BY <1>3, <1>5, <1>6, <1>7 DEF MediaInv, MediaTyped
<1>15. RowsHaveFiles'
  BY <1>3, <1>6, <1>9, <1>11 DEF MediaInv, RowsHaveFiles
<1>16. AttachedOnce'
  <2>1. ~ n > attached
    BY <1>1 DEF MediaInv, AttachedOnce
  <2>2. /\ \A m \in Messages : m > attached' => carried'[m] = Nothing /\ attaching'[m] = Nothing
        /\ \A m \in Messages : carried'[m] = Nothing \/ attaching'[m] = Nothing
    BY <1>3, <1>12, <2>1 DEF MediaInv, AttachedOnce
  <2> QED
    BY <1>3, <1>13, <2>2 DEF MediaInv, AttachedOnce
<1>17. LinkedBack'
  <2> SUFFICES ASSUME NEW m \in Messages, NEW b \in Attachments
               PROVE  /\ Involved(m, b)' => owned'[b] # NoRowYet
                      /\ carried'[m].attachment = b /\ b \notin retaken' => owned'[b].of = m
    BY DEF LinkedBack
  <2>1. Involved(m, b)' => owned'[b] # NoRowYet
    BY <1>10, <1>11, <1>13 DEF MediaInv, LinkedBack
  <2>2. ASSUME carried'[m].attachment = b, b \notin retaken
        PROVE  owned'[b].of = m
    <3>1. CASE m = n
      BY <1>2, <1>6, <1>11, <1>12, <2>2, <3>1
    <3>2. CASE m # n
      <4>1. carried[m].attachment = b
        BY <1>12, <2>2, <3>2
      <4>2. Involved(m, b)
        BY <4>1 DEF Involved
      <4>3. b # a
        BY <1>8, <2>2, <3>2, <4>2 DEF MediaInv, AttachedOnce
      <4> QED
        BY <1>11, <2>2, <4>1, <4>3 DEF MediaInv, LinkedBack
    <3> QED
      BY <3>1, <3>2
  <2> QED
    BY <1>3, <2>1, <2>2
<1> QED
  BY <1>14, <1>15, <1>16, <1>17 DEF MediaInv

LEMMA MediaStep == MediaInv /\ [MediaNext]_mediaVars => MediaInv'
<1> SUFFICES ASSUME MediaInv, [MediaNext]_mediaVars PROVE MediaInv'
  OBVIOUS
<1>1. CASE UNCHANGED mediaVars
  BY <1>1 DEF mediaVars, MediaInv, MediaTyped, RowsHaveFiles, AttachedOnce, LinkedBack, Involved
<1>2. CASE MediaNext
  BY <1>2, EnterStep, CommitUploadStep, UploadDiesStep, UploadStep, AttachStep, CommitPostStep DEF MediaNext
<1> QED
  BY <1>1, <1>2

(***************************************************************************)
(* Whoever is in a conversation, also who joins it later, can open what    *)
(* its messages carry, unless it was taken by another message: its row is  *)
(* there, its file was written before the row, and it is linked back.      *)
(***************************************************************************)
THEOREM AttachmentsOpen == MediaSpec => []MediaReachable
<1>1. MediaInv => MediaReachable
  <2> SUFFICES ASSUME MediaInv, NEW n \in Messages, carried[n] # Nothing,
                      carried[n].attachment \notin retaken, NEW u \in admitted[carried[n].thread]
               PROVE  Opens(u, carried[n].attachment)
    BY DEF MediaReachable
  <2>1. PICK a \in Attachments : a = carried[n].attachment
    BY DEF MediaInv, MediaTyped, Carried
  <2>2. owned[a] # NoRowYet /\ owned[a].of = n
    BY <2>1 DEF MediaInv, LinkedBack, Involved
  <2>3. a \in files
    BY <2>2 DEF MediaInv, RowsHaveFiles
  <2>4. n # 0
    BY MediaAssumption DEF Messages
  <2> QED
    BY <2>1, <2>2, <2>3, <2>4 DEF Opens, Readers
<1> QED
  BY <1>1, InitMediaInv, MediaStep, PTL DEF MediaSpec

(* The tables hold what their columns may, and what is marked as posted     *)
(* again is an attachment.                                                 *)
THEOREM MediaTypeCorrect == MediaSpec => []MediaTypeOK
<1> DEFINE Marked == retaken \subseteq Attachments
<1>1. MediaInit => Marked
  BY DEF MediaInit
<1>2. Marked /\ [MediaNext]_mediaVars => Marked'
  BY DEF MediaNext, mediaVars, Enter, CommitUpload, UploadDies, Upload, Attach, CommitPost
<1>3. MediaInv /\ Marked => MediaTypeOK
  BY DEF MediaInv, MediaTyped, Attachment, MediaTypeOK
<1> HIDE DEF Marked
<1> QED
  BY <1>1, <1>2, <1>3, InitMediaInv, MediaStep, PTL DEF MediaSpec

-----------------------------------------------------------------------------
(* The socket *)

LEMMA ConnectKeeps ==
  ASSUME RealtimeInv, connect
  PROVE  RealtimeInv'
<1>1. CASE Connected
  BY <1>1 DEF connect, RealtimeInv
<1>2. ASSUME ~ Connected, NEW s \in Sockets,
             /\ socket' = [socket EXCEPT ![s] = "CONNECTING"]
             /\ ws' = s
             /\ crossed' = (crossed \/ (ws # NoSocket /\ ~ Alive(ws)))
      PROVE  RealtimeInv'
  <2>1. ~ crossed' => ws = NoSocket
    BY <1>2 DEF Connected
  <2>2. ~ crossed' => \A z \in Sockets : socket[z] = "NONE"
    BY <1>2, <2>1, RealtimeAssumption DEF RealtimeInv, NoSocket
  <2> QED
    BY <1>2, <2>2 DEF RealtimeInv, Alive, NoSocket
<1> QED
  BY <1>1, <1>2 DEF connect

LEMMA RealtimeStep == RealtimeInv /\ [RealtimeNext]_realtimeVars => RealtimeInv'
<1> SUFFICES ASSUME RealtimeInv, [RealtimeNext]_realtimeVars PROVE RealtimeInv'
  OBVIOUS
<1>1. CASE Mount \/ TimerFires
  BY <1>1, ConnectKeeps DEF Mount, TimerFires
<1>2. CASE Disconnect
  BY <1>2 DEF Disconnect, Closes, RealtimeInv, NoSocket
<1>3. CASE Restart \/ UNCHANGED realtimeVars
  BY <1>3 DEF Restart, realtimeVars, RealtimeInv
<1>4. ASSUME NEW s \in Sockets, OnOpen(s) \/ Refuse(s) \/ Break(s) \/ OnClose(s)
      PROVE  RealtimeInv'
  <2>1. CASE OnOpen(s)
    BY <2>1 DEF OnOpen, RealtimeInv
  <2>2. CASE Refuse(s) \/ Break(s)
    BY <2>2 DEF Refuse, Break, Closes, Alive, RealtimeInv
  <2>3. CASE OnClose(s)
    BY <2>3 DEF OnClose, RealtimeInv, NoSocket
  <2> QED
    BY <1>4, <2>1, <2>2, <2>3
<1>5. ASSUME NEW s \in Sockets, Register(s) \/ Unregister(s)
      PROVE  RealtimeInv'
  BY <1>5 DEF Register, Unregister, RealtimeInv
<1> QED
  BY <1>1, <1>2, <1>3, <1>4, <1>5 DEF RealtimeNext, Transport

(***************************************************************************)
(* A tab has one living socket, whatever timers, mounts and the network    *)
(* do, as long as no socket is given up before its onclose has run.        *)
(***************************************************************************)
THEOREM SingleSocket == RealtimeSpec => []OneSocket
<1>1. RealtimeInit => RealtimeInv
  BY DEF RealtimeInit, RealtimeInv
<1>2. RealtimeInv => OneSocket
  <2> SUFFICES ASSUME RealtimeInv, ~ crossed PROVE Cardinality({s \in Sockets : Alive(s)}) <= 1
    BY DEF OneSocket
  <2>1. \A s, z \in {x \in Sockets : Alive(x)} : s = z
    BY DEF RealtimeInv, Alive
  <2> QED
    BY <2>1, AtMostOne
<1> QED
  BY <1>1, <1>2, RealtimeStep, PTL DEF RealtimeSpec

(* Timers are set for attempts that are counted, up to the last one: the    *)
(* channel is in one of its four states, and the table names sockets.       *)
THEOREM RealtimeTypeCorrect == RealtimeSpec => []RealtimeTypeOK
<1>1. RealtimeInit => RealtimeTypeOK
  BY RealtimeAssumption DEF RealtimeInit, RealtimeTypeOK
<1>2. RealtimeTypeOK /\ [RealtimeNext]_realtimeVars => RealtimeTypeOK'
  <2> SUFFICES ASSUME RealtimeTypeOK, [RealtimeNext]_realtimeVars PROVE RealtimeTypeOK'
    OBVIOUS
  <2>1. CASE Mount \/ TimerFires
    <3>1. /\ ws' \in Sockets \cup {NoSocket}
          /\ socket' \in [Sockets -> {"NONE", "CONNECTING", "OPEN", "CLOSING"}]
          /\ state' \in {"CONNECTED", "CONNECTING", "RECONNECTING", "DISCONNECTED"}
      BY <2>1 DEF Mount, TimerFires, connect, RealtimeTypeOK
    <3>2. UNCHANGED <<reconnects, table>> /\ timers' \in Nat
      BY <2>1 DEF Mount, TimerFires, RealtimeTypeOK
    <3> QED
      BY <3>1, <3>2 DEF RealtimeTypeOK
  <2>2. CASE Disconnect \/ Restart \/ UNCHANGED realtimeVars
    BY <2>2 DEF Disconnect, Closes, Restart, realtimeVars, RealtimeTypeOK
  <2>3. ASSUME NEW s \in Sockets, OnOpen(s) \/ Refuse(s) \/ Break(s) PROVE RealtimeTypeOK'
    BY <2>3, RealtimeAssumption DEF OnOpen, Refuse, Break, Closes, RealtimeTypeOK
  <2>4. ASSUME NEW s \in Sockets, OnClose(s) PROVE RealtimeTypeOK'
    BY <2>4, RealtimeAssumption DEF OnClose, ScheduleReconnect, RealtimeTypeOK
  <2>5. ASSUME NEW s \in Sockets, Register(s) \/ Unregister(s) PROVE RealtimeTypeOK'
    BY <2>5 DEF Register, Unregister, RealtimeTypeOK
  <2> QED
    BY <2>1, <2>2, <2>3, <2>4, <2>5 DEF RealtimeNext, Transport
<1> QED
  BY <1>1, <1>2, PTL DEF RealtimeSpec

-----------------------------------------------------------------------------
(* Notices: what a session has inserted, it has mailed, noted as a failure, *)
(* or is mailing at this moment; this is what its commit hands over.        *)

Session == [step : {"idle", "looking", "inserting", "mailing"}, todo : SUBSET Recipients,
            user : Recipients \cup {"none"}, own : SUBSET Recipients, tries : Nat,
            failures : SUBSET Recipients]

TablesOK ==
  /\ notice \in [Recipients -> Notice]
  /\ session \in [Notifiers -> Session]
  /\ mails \subseteq Recipients
  /\ undelivered \subseteq Recipients

(* A session that is busy with a recipient knows him, and mails its own. *)
UserKnown ==
  \A c \in Notifiers :
    /\ session[c].step \in {"inserting", "mailing"} => session[c].user \in Recipients
    /\ session[c].step = "mailing" => session[c].user \in session[c].own

(* What a session inserts is gone from it with its transaction. *)
IdleOwnsNothing == \A c \in Notifiers : session[c].step = "idle" => session[c].own = {}

(* What a session has inserted is mailed, noted as a failure, or its turn. *)
OwnMailed ==
  \A c \in Notifiers, u \in Recipients :
    u \in session[c].own =>
      \/ u \in mails \cup session[c].failures
      \/ session[c].step = "mailing" /\ session[c].user = u

NoticesInv ==
  /\ TablesOK /\ UserKnown /\ IdleOwnsNothing
  /\ smtp => OwnMailed
  /\ MailedOrOnRecord /\ MailHasNotice

-----------------------------------------------------------------------------

LEMMA InitNoticesInv == NoticesInit => NoticesInv
<1> SUFFICES ASSUME NoticesInit PROVE NoticesInv
  OBVIOUS
<1>1. IdleSession \in Session
  BY DEF IdleSession, Session
<1>2. TablesOK
  BY <1>1 DEF NoticesInit, TablesOK, Notice
<1>3. \A c \in Notifiers : session[c].step = "idle" /\ session[c].own = {}
  BY DEF NoticesInit, IdleSession
<1>4. mails = {} /\ \A u \in Recipients : notice[u] = "none"
  BY DEF NoticesInit
<1> QED
  BY <1>2, <1>3, <1>4 DEF NoticesInv, UserKnown, IdleOwnsNothing, OwnMailed, MailedOrOnRecord, MailHasNotice

(***************************************************************************)
(* A rollback forgets what the session had inserted: the recipients who    *)
(* had its e-mail are remembered as lost, and nobody else's e-mail needs   *)
(* this session's rows.                                                    *)
(***************************************************************************)
LEMMA RollbackStep ==
  ASSUME NoticesInv, NEW c \in Notifiers, Rollback(c),
         UNCHANGED <<smtp, notice, mails, undelivered>>
  PROVE  NoticesInv'
<1>1. IdleSession \in Session
  BY DEF IdleSession, Session
<1>2. \A d \in Notifiers : session'[d] = IF d = c THEN IdleSession ELSE session[d]
  BY DEF Rollback, NoticesInv, TablesOK
<1>3. TablesOK'
  BY <1>1 DEF Rollback, NoticesInv, TablesOK
<1>4. UserKnown' /\ IdleOwnsNothing'
  BY <1>2 DEF NoticesInv, UserKnown, IdleOwnsNothing, IdleSession
<1>5. smtp' => OwnMailed'
  BY <1>2 DEF NoticesInv, OwnMailed, IdleSession
<1>6. MailedOrOnRecord'
  BY DEF NoticesInv, MailedOrOnRecord
<1>7. MailHasNotice'
  <2> SUFFICES ASSUME NEW u \in mails, u \notin lost', notice[u] = "none"
               PROVE  \E d \in Notifiers : u \in session'[d].own
    BY DEF MailHasNotice
  <2>1. u \notin lost /\ u \notin session[c].own
    BY DEF Rollback
  <2>2. PICK d \in Notifiers : u \in session[d].own
    BY <2>1 DEF NoticesInv, MailHasNotice
  <2> QED
    BY <1>2, <2>1, <2>2
<1> QED
  BY <1>3, <1>4, <1>5, <1>6, <1>7 DEF NoticesInv

(* A notification begins, or goes on to its next recipient. *)
LEMMA LookStep ==
  ASSUME NoticesInv, NEW c \in Notifiers, Notify(c) \/ Look(c)
  PROVE  NoticesInv'
<1>1. UNCHANGED <<smtp, notice, mails, undelivered, lost>>
  BY DEF Notify, Look
<1>2. PICK x \in Session :
        /\ session' = [session EXCEPT ![c] = x]
        /\ x.step = "inserting" => x.user \in Recipients
        /\ x.step # "mailing" /\ session[c].step # "mailing"
        /\ x.step # "idle"
        /\ \/ x.own = session[c].own /\ x.failures = session[c].failures
           \/ x.own = {} /\ session[c].own = {}
  <2>1. CASE Look(c)
    <3>1. PICK u \in session[c].todo :
            session' = [session EXCEPT ![c].todo = @ \ {u}, ![c].user = u,
                          ![c].step = IF notice[u] = "none" THEN "inserting" ELSE @]
      BY <2>1 DEF Look
    <3> DEFINE x == [session[c] EXCEPT !.todo = @ \ {u}, !.user = u,
                                       !.step = IF notice[u] = "none" THEN "inserting" ELSE @]
    <3>2. session[c] \in Session /\ u \in Recipients
      BY DEF NoticesInv, TablesOK, Session
    <3>3. x \in Session /\ session' = [session EXCEPT ![c] = x]
      BY <3>1, <3>2 DEF NoticesInv, TablesOK, Session
    <3>4. session[c].step = "looking"
      BY <2>1 DEF Look
    <3>5. /\ x.user = u /\ x.own = session[c].own /\ x.failures = session[c].failures
          /\ x.step \notin {"mailing", "idle"}
      BY <3>2, <3>4 DEF Session
    <3> QED
      BY <3>2, <3>3, <3>4, <3>5
  <2>2. CASE Notify(c)
    <3>1. PICK us \in SUBSET Recipients :
            session' = [session EXCEPT ![c] = [IdleSession EXCEPT !.step = "looking", !.todo = us]]
      BY <2>2 DEF Notify
    <3> DEFINE x == [IdleSession EXCEPT !.step = "looking", !.todo = us]
    <3>2. x \in Session /\ x.own = {} /\ x.step = "looking"
      BY DEF IdleSession, Session
    <3>3. session[c].step = "idle"
      BY <2>2 DEF Notify
    <3>4. session[c].own = {}
      BY <3>3 DEF NoticesInv, IdleOwnsNothing
    <3> QED
      BY <3>1, <3>2, <3>3, <3>4
  <2> QED
    BY <2>1, <2>2
<1>3. \A d \in Notifiers : session'[d] = IF d = c THEN x ELSE session[d]
  BY <1>2 DEF NoticesInv, TablesOK
<1>4. TablesOK' /\ UserKnown'
  BY <1>1, <1>2, <1>3 DEF NoticesInv, TablesOK, UserKnown
<1>5. smtp' => OwnMailed'
  BY <1>1, <1>2, <1>3 DEF NoticesInv, OwnMailed
<1>6. MailedOrOnRecord' /\ MailHasNotice'
  BY <1>1, <1>2, <1>3 DEF NoticesInv, MailedOrOnRecord, MailHasNotice
<1>7. IdleOwnsNothing'
  BY <1>2, <1>3 DEF NoticesInv, IdleOwnsNothing
<1> QED
  BY <1>4, <1>5, <1>6, <1>7 DEF NoticesInv

(* An insertion makes the recipient the session's own, and his mail's turn. *)
LEMMA InsertStep ==
  ASSUME NoticesInv, NEW c \in Notifiers, Insert(c)
  PROVE  NoticesInv'
<1> DEFINE x == [session[c] EXCEPT !.own = @ \cup {session[c].user}, !.tries = 0,
                                   !.step = IF smtp THEN "mailing" ELSE "looking"]
<1>1. session[c] \in Session /\ session[c].user \in Recipients /\ session[c].step = "inserting"
  BY DEF NoticesInv, TablesOK, UserKnown, Insert
<1>2. /\ x \in Session /\ x.user = session[c].user /\ x.failures = session[c].failures
      /\ x.own = session[c].own \cup {x.user}
      /\ x.step = IF smtp THEN "mailing" ELSE "looking"
  BY <1>1 DEF Session
<1>3. \A d \in Notifiers : session'[d] = IF d = c THEN x ELSE session[d]
  BY DEF NoticesInv, TablesOK, Insert
<1>4. session' = [session EXCEPT ![c] = x]
  BY DEF NoticesInv, TablesOK, Insert
<1>5. UNCHANGED <<smtp, notice, mails, undelivered, lost>>
  BY DEF Insert
<1> HIDE DEF x
<1>6. TablesOK'
  BY <1>2, <1>4, <1>5 DEF NoticesInv, TablesOK
<1>7. UserKnown' /\ IdleOwnsNothing'
  BY <1>1, <1>2, <1>3 DEF NoticesInv, UserKnown, IdleOwnsNothing
<1>8. smtp' => OwnMailed'
  BY <1>1, <1>2, <1>3, <1>5 DEF NoticesInv, OwnMailed
<1>9. MailedOrOnRecord' /\ MailHasNotice'
  BY <1>2, <1>3, <1>5 DEF NoticesInv, MailedOrOnRecord, MailHasNotice
<1> QED
  BY <1>6, <1>7, <1>8, <1>9 DEF NoticesInv

(***************************************************************************)
(* An attempt to send: the recipient's turn ends only when he has got the  *)
(* e-mail or stands among the failures; he is the session's own.           *)
(***************************************************************************)
LEMMA MailStep ==
  ASSUME NoticesInv, NEW c \in Notifiers, Mail(c)
  PROVE  NoticesInv'
<1> DEFINE u == session[c].user
<1>1. /\ session[c] \in Session /\ u \in session[c].own /\ u \in Recipients
      /\ session[c].step = "mailing"
  BY DEF NoticesInv, TablesOK, UserKnown, Mail
<1>2. UNCHANGED <<smtp, notice, undelivered, lost>> /\ mails' \in {mails, mails \cup {u}}
  BY DEF Mail
<1>3. PICK x \in Session :
        /\ session' = [session EXCEPT ![c] = x]
        /\ x.own = session[c].own /\ x.user = u /\ x.step \in {"mailing", "looking"}
        /\ session[c].failures \subseteq x.failures
        /\ x.step = "looking" => u \in mails' \cup x.failures
  <2>1. CASE mails' = mails \cup {u} /\ session' = [session EXCEPT ![c].step = "looking"]
    <3> DEFINE x == [session[c] EXCEPT !.step = "looking"]
    <3>1. x \in Session /\ session' = [session EXCEPT ![c] = x]
      BY <1>1, <2>1 DEF Session, NoticesInv, TablesOK
    <3>2. x.own = session[c].own /\ x.user = u /\ x.step = "looking" /\ x.failures = session[c].failures
      BY <1>1 DEF Session
    <3> QED
      BY <2>1, <3>1, <3>2
  <2>2. CASE session[c].tries + 1 < MaxMails /\ session' = [session EXCEPT ![c].tries = @ + 1]
    <3> DEFINE x == [session[c] EXCEPT !.tries = @ + 1]
    <3>1. x \in Session /\ session' = [session EXCEPT ![c] = x]
      BY <1>1, <2>2 DEF Session, NoticesInv, TablesOK
    <3>2. x.own = session[c].own /\ x.user = u /\ x.step = "mailing" /\ x.failures = session[c].failures
      BY <1>1 DEF Session
    <3> QED
      BY <3>1, <3>2
  <2>3. CASE session' = [session EXCEPT ![c].step = "looking", ![c].failures = _record_dlq(c)]
    <3> DEFINE x == [session[c] EXCEPT !.step = "looking", !.failures = _record_dlq(c)]
    <3>1. x \in Session /\ session' = [session EXCEPT ![c] = x]
      BY <1>1, <2>3 DEF Session, NoticesInv, TablesOK, _record_dlq
    <3>2. /\ x.own = session[c].own /\ x.user = u /\ x.step = "looking"
          /\ x.failures = session[c].failures \cup {u}
      BY <1>1 DEF Session, _record_dlq
    <3> QED
      BY <3>1, <3>2
  <2> QED
    BY <2>1, <2>2, <2>3 DEF Mail
<1>4. \A d \in Notifiers : session'[d] = IF d = c THEN x ELSE session[d]
  BY <1>3 DEF NoticesInv, TablesOK
<1>5. TablesOK'
  BY <1>1, <1>2, <1>3 DEF NoticesInv, TablesOK
<1>6. UserKnown' /\ IdleOwnsNothing'
  BY <1>1, <1>3, <1>4 DEF NoticesInv, UserKnown, IdleOwnsNothing
<1>7. smtp' => OwnMailed'
  BY <1>1, <1>2, <1>3, <1>4 DEF NoticesInv, OwnMailed
<1>8. MailedOrOnRecord'
  BY <1>2 DEF NoticesInv, MailedOrOnRecord
<1>9. MailHasNotice'
  BY <1>1, <1>2, <1>3, <1>4 DEF NoticesInv, MailHasNotice
<1> QED
  BY <1>5, <1>6, <1>7, <1>8, <1>9 DEF NoticesInv

(* The commit hands over what was inserted together with the failures. *)
LEMMA CommitStep ==
  ASSUME NoticesInv, NEW c \in Notifiers, Commit(c)
  PROVE  NoticesInv'
<1>1. IdleSession \in Session
  BY DEF IdleSession, Session
<1>2. \A d \in Notifiers : session'[d] = IF d = c THEN IdleSession ELSE session[d]
  BY DEF Commit, NoticesInv, TablesOK
<1>3. /\ UNCHANGED <<smtp, mails, lost>> /\ undelivered' = undelivered \cup session[c].failures
      /\ \A u \in Recipients : notice'[u] = IF u \in session[c].own THEN "unread" ELSE notice[u]
  BY DEF Commit
<1>4. session[c] \in Session /\ session[c].step = "looking"
  BY DEF Commit, NoticesInv, TablesOK
<1>5. TablesOK'
  BY <1>1, <1>3, <1>4 DEF Commit, NoticesInv, TablesOK, Notice, Session
<1>6. UserKnown' /\ IdleOwnsNothing'
  BY <1>2 DEF NoticesInv, UserKnown, IdleOwnsNothing, IdleSession
<1>7. smtp' => OwnMailed'
  BY <1>2, <1>3 DEF NoticesInv, OwnMailed, IdleSession
<1>8. MailedOrOnRecord'
  BY <1>3, <1>4 DEF NoticesInv, OwnMailed, MailedOrOnRecord
<1>9. MailHasNotice'
  <2> SUFFICES ASSUME NEW u \in mails \ lost, notice'[u] = "none"
               PROVE  \E d \in Notifiers : u \in session'[d].own
    BY <1>3 DEF MailHasNotice
  <2>1. u \in Recipients
    BY DEF NoticesInv, TablesOK
  <2>2. u \notin session[c].own /\ notice[u] = "none"
    BY <1>3, <2>1
  <2>3. PICK d \in Notifiers : u \in session[d].own
    BY <2>2 DEF NoticesInv, MailHasNotice
  <2> QED
    BY <1>2, <2>2, <2>3
<1> QED
  BY <1>5, <1>6, <1>7, <1>8, <1>9 DEF NoticesInv

(* The tabs read the tables; marking as read keeps a notification there. *)
LEMMA TabStep ==
  ASSUME NoticesInv, NEW v \in Recipients, Serve(v) \/ Show(v) \/ MarkRead(v)
  PROVE  NoticesInv'
<1>1. UNCHANGED <<smtp, session, mails, undelivered, lost>>
  BY DEF Serve, Show, MarkRead
<1>2. /\ notice' \in [Recipients -> Notice]
      /\ \A u \in Recipients : notice'[u] = "none" <=> notice[u] = "none"
  <2>1. CASE MarkRead(v)
    BY <2>1 DEF MarkRead, NoticesInv, TablesOK, Notice
  <2>2. CASE Serve(v) \/ Show(v)
    BY <2>2 DEF Serve, Show, NoticesInv, TablesOK
  <2> QED
    BY <2>1, <2>2
<1>3. TablesOK' /\ UserKnown' /\ IdleOwnsNothing'
  BY <1>1, <1>2 DEF NoticesInv, TablesOK, UserKnown, IdleOwnsNothing
<1>4. (smtp' => OwnMailed') /\ MailedOrOnRecord'
  BY <1>1, <1>2 DEF NoticesInv, OwnMailed, MailedOrOnRecord
<1>5. MailHasNotice'
  BY <1>1, <1>2 DEF NoticesInv, TablesOK, MailHasNotice
<1> QED
  BY <1>3, <1>4, <1>5 DEF NoticesInv

-----------------------------------------------------------------------------

LEMMA NoticesStep == NoticesInv /\ [NoticesNext]_noticesVars => NoticesInv'
<1> SUFFICES ASSUME NoticesInv, [NoticesNext]_noticesVars PROVE NoticesInv'
  OBVIOUS
<1>1. ASSUME NEW u \in Recipients, Serve(u) \/ Show(u) \/ MarkRead(u) PROVE NoticesInv'
  BY <1>1, TabStep
<1>2. ASSUME NEW c \in Notifiers, Notify(c) \/ Look(c) PROVE NoticesInv'
  BY <1>2, LookStep
<1>3. ASSUME NEW c \in Notifiers, Insert(c) PROVE NoticesInv'
  BY <1>3, InsertStep
<1>4. ASSUME NEW c \in Notifiers, Mail(c) PROVE NoticesInv'
  BY <1>4, MailStep
<1>5. ASSUME NEW c \in Notifiers, Commit(c) PROVE NoticesInv'
  BY <1>5, CommitStep
<1>6. ASSUME NEW c \in Notifiers, Conflict(c) \/ NotifierDies(c) PROVE NoticesInv'
  BY <1>6, RollbackStep DEF Conflict, NotifierDies
<1>7. CASE UNCHANGED noticesVars
  BY <1>7 DEF noticesVars, NoticesInv, TablesOK, UserKnown, IdleOwnsNothing, OwnMailed,
              MailedOrOnRecord, MailHasNotice
<1> QED
  BY <1>1, <1>2, <1>3, <1>4, <1>5, <1>6, <1>7 DEF NoticesNext

(* NoticesInv holds in every reachable state. *)
THEOREM NoticesInvariant == NoticesSpec => []NoticesInv
  BY InitNoticesInv, NoticesStep, PTL DEF NoticesSpec

(***************************************************************************)
(* No notification is on record without its e-mail or the failure to       *)
(* deliver it, whatever answers of the server were lost.                   *)
(***************************************************************************)
THEOREM NoticeDelivered == NoticesSpec => []MailedOrOnRecord
<1>1. NoticesInv => MailedOrOnRecord
  BY DEF NoticesInv
<1> QED
  BY <1>1, NoticesInvariant, PTL

(* An e-mail without a notification comes from a lost transaction only. *)
THEOREM MailAnnounced == NoticesSpec => []MailHasNotice
<1>1. NoticesInv => MailHasNotice
  BY DEF NoticesInv
<1> QED
  BY <1>1, NoticesInvariant, PTL

-----------------------------------------------------------------------------
(* What the tabs show *)

Fetch == [step : {"none", "asked", "served"}, found : Notice]

TabsOK ==
  /\ fetch \in [Recipients -> Fetch]
  /\ shown \in [Recipients -> Notice]

Owned(u) == \E c \in Notifiers : u \in session[c].own

(* An event asks before its commit: what is served until then is early. *)
OwnedAsks == \A u \in Recipients : Owned(u) => fetch[u].step = "asked" \/ u \in early

(* What was served in time is the notification as it stands. *)
ServedInTime ==
  \A u \in Recipients : u \notin early /\ ~ Owned(u) =>
    /\ fetch[u].step = "served" => fetch[u].found = notice[u]
    /\ fetch[u].step = "none" => shown[u] = notice[u]

BellInv == NoticesInv /\ TabsOK /\ OwnedAsks /\ ServedInTime

LEMMA InitBell == NoticesInit => TabsOK /\ OwnedAsks /\ ServedInTime
<1> SUFFICES ASSUME NoticesInit PROVE TabsOK /\ OwnedAsks /\ ServedInTime
  OBVIOUS
<1>1. TabsOK
  BY DEF NoticesInit, TabsOK, Fetch, NoFetch, Notice
<1>2. \A u \in Recipients : ~ Owned(u)
  BY DEF NoticesInit, Owned, IdleSession
<1>3. \A u \in Recipients : fetch[u].step = "none" /\ shown[u] = notice[u]
  BY DEF NoticesInit, NoFetch
<1> QED
  BY <1>1, <1>2, <1>3 DEF OwnedAsks, ServedInTime

(***************************************************************************)
(* A step of the tab of v: what it is served is the table's, and it is     *)
(* early when a session still owns v.                                      *)
(***************************************************************************)
LEMMA BellTabStep ==
  ASSUME BellInv, NEW v \in Recipients, Serve(v) \/ Show(v) \/ MarkRead(v)
  PROVE  (TabsOK /\ OwnedAsks /\ ServedInTime)'
<1>1. UNCHANGED session
  BY DEF Serve, Show, MarkRead
<1>2. \A u \in Recipients : Owned(u)' <=> Owned(u)
  BY <1>1 DEF Owned
<1>3. CASE Serve(v)
  <2>1. UNCHANGED <<notice, shown>> /\ fetch[v].step = "asked"
    BY <1>3 DEF Serve
  <2>2. \A u \in Recipients :
          fetch'[u] = IF u = v THEN [step |-> "served", found |-> notice[v]] ELSE fetch[u]
    BY <1>3 DEF Serve, BellInv, TabsOK
  <2>3. early' = IF Owned(v) THEN early \cup {v} ELSE early \ {v}
    BY <1>3 DEF Serve, Owned
  <2>4. TabsOK'
    BY <1>3, <2>1 DEF Serve, BellInv, NoticesInv, TablesOK, TabsOK, Fetch
  <2>5. OwnedAsks'
    BY <1>2, <2>2, <2>3 DEF BellInv, OwnedAsks
  <2>6. ServedInTime'
    BY <1>2, <2>1, <2>2, <2>3 DEF BellInv, ServedInTime
  <2> QED
    BY <2>4, <2>5, <2>6
<1>4. CASE Show(v)
  <2>1. UNCHANGED <<notice, early>> /\ fetch[v].step = "served"
    BY <1>4 DEF Show
  <2>2. \A u \in Recipients :
          /\ fetch'[u] = IF u = v THEN NoFetch ELSE fetch[u]
          /\ shown'[u] = IF u = v THEN fetch[v].found ELSE shown[u]
    BY <1>4 DEF Show, BellInv, TabsOK
  <2>3. TabsOK'
    BY <1>4 DEF Show, BellInv, TabsOK, Fetch, NoFetch, Notice
  <2>4. OwnedAsks'
    BY <1>2, <2>1, <2>2 DEF BellInv, OwnedAsks
  <2>5. ServedInTime'
    BY <1>2, <2>1, <2>2 DEF BellInv, ServedInTime, NoFetch
  <2> QED
    BY <2>3, <2>4, <2>5
<1>5. CASE MarkRead(v)
  <2>1. UNCHANGED <<shown, early>>
    BY <1>5 DEF MarkRead
  <2>2. \A u \in Recipients :
          /\ fetch'[u] = IF u = v THEN [NoFetch EXCEPT !.step = "asked"] ELSE fetch[u]
          /\ u # v => notice'[u] = notice[u]
    BY <1>5 DEF MarkRead, AfterReading, Invalidated, BellInv, NoticesInv, TablesOK, TabsOK
  <2>3. [NoFetch EXCEPT !.step = "asked"].step = "asked"
    BY DEF NoFetch
  <2>4. TabsOK'
    BY <1>5 DEF MarkRead, AfterReading, Invalidated, BellInv, TabsOK, Fetch, NoFetch, Notice
  <2>5. OwnedAsks'
    BY <1>2, <2>1, <2>2, <2>3 DEF BellInv, OwnedAsks
  <2>6. ServedInTime'
    BY <1>2, <2>1, <2>2, <2>3 DEF BellInv, ServedInTime
  <2> QED
    BY <2>4, <2>5, <2>6
<1> QED
  BY <1>3, <1>4, <1>5

(* A session goes on without inserting: nobody's recipient changes hands. *)
LEMMA BellIdleStep ==
  ASSUME BellInv, NEW c \in Notifiers, Notify(c) \/ Look(c) \/ Mail(c)
  PROVE  (TabsOK /\ OwnedAsks /\ ServedInTime)'
<1>1. UNCHANGED <<notice, fetch, shown, early>>
  BY DEF Notify, Look, Mail
<1>2. session \in [Notifiers -> Session]
  BY DEF BellInv, NoticesInv, TablesOK
<1>3. \A d \in Notifiers : session'[d].own = session[d].own
  <2>1. CASE Notify(c)
    <3>1. session[c].own = {}
      BY <2>1 DEF Notify, BellInv, NoticesInv, IdleOwnsNothing
    <3>2. PICK us \in SUBSET Recipients :
            session' = [session EXCEPT ![c] = [IdleSession EXCEPT !.step = "looking", !.todo = us]]
      BY <2>1 DEF Notify
    <3> QED
      BY <1>2, <3>1, <3>2 DEF IdleSession
  <2>2. CASE Look(c)
    <3>1. PICK u \in session[c].todo :
            session' = [session EXCEPT ![c].todo = @ \ {u}, ![c].user = u,
                          ![c].step = IF notice[u] = "none" THEN "inserting" ELSE @]
      BY <2>2 DEF Look
    <3>2. \A d \in Notifiers : d # c => session'[d] = session[d]
      BY <1>2, <3>1
    <3>3. session'[c] = [session[c] EXCEPT !.todo = @ \ {u}, !.user = u,
                           !.step = IF notice[u] = "none" THEN "inserting" ELSE @]
      BY <1>2, <3>1
    <3>4. session[c] \in Session
      BY <1>2
    <3>5. session'[c].own = session[c].own
      BY <3>3, <3>4 DEF Session
    <3> QED
      BY <3>2, <3>5
  <2>3. CASE Mail(c)
    <3>1. \/ session' = [session EXCEPT ![c].step = "looking"]
          \/ session' = [session EXCEPT ![c].tries = @ + 1]
          \/ session' = [session EXCEPT ![c].step = "looking", ![c].failures = _record_dlq(c)]
      BY <2>3 DEF Mail
    <3> QED
      BY <1>2, <3>1 DEF Session
  <2> QED
    BY <2>1, <2>2, <2>3
<1>4. \A u \in Recipients : Owned(u)' <=> Owned(u)
  BY <1>3 DEF Owned
<1> QED
  BY <1>1, <1>4 DEF BellInv, TabsOK, OwnedAsks, ServedInTime

(* An insertion makes the recipient's tab ask at once. *)
LEMMA BellInsertStep ==
  ASSUME BellInv, NEW c \in Notifiers, Insert(c)
  PROVE  (TabsOK /\ OwnedAsks /\ ServedInTime)'
<1> DEFINE v == session[c].user
<1>1. UNCHANGED <<notice, shown, early>>
  BY DEF Insert
<1>2. v \in Recipients /\ session[c] \in Session
  BY DEF Insert, BellInv, NoticesInv, UserKnown, TablesOK
<1>3. \A d \in Notifiers :
        session'[d].own = IF d = c THEN session[c].own \cup {v} ELSE session[d].own
  BY <1>2 DEF Insert, BellInv, NoticesInv, TablesOK, Session
<1>4. [NoFetch EXCEPT !.step = "asked"] \in Fetch /\ [NoFetch EXCEPT !.step = "asked"].step = "asked"
  BY DEF NoFetch, Fetch, Notice
<1>5. \A u \in Recipients : fetch'[u] = IF u = v THEN [NoFetch EXCEPT !.step = "asked"] ELSE fetch[u]
  BY DEF Insert, Invalidated, BellInv, TabsOK
<1>6. TabsOK'
  BY <1>1, <1>4 DEF Insert, Invalidated, BellInv, TabsOK
<1>7. \A u \in Recipients : u # v => (Owned(u)' <=> Owned(u))
  BY <1>3 DEF Owned
<1>8. OwnedAsks' /\ ServedInTime'
  BY <1>1, <1>4, <1>5, <1>7 DEF BellInv, OwnedAsks, ServedInTime
<1> QED
  BY <1>6, <1>8

(***************************************************************************)
(* The end of a transaction: whoever it owned is asking at this moment, or *)
(* was served early, so nothing is claimed of him; a commit changes the    *)
(* notifications of no one else.                                           *)
(***************************************************************************)
LEMMA BellEndStep ==
  ASSUME BellInv, NEW c \in Notifiers, session' = [session EXCEPT ![c] = IdleSession],
         UNCHANGED <<fetch, shown, early>>,
         \A u \in Recipients : u \notin session[c].own => notice'[u] = notice[u]
  PROVE  (TabsOK /\ OwnedAsks /\ ServedInTime)'
<1>1. \A d \in Notifiers : session'[d].own = IF d = c THEN {} ELSE session[d].own
  BY DEF BellInv, NoticesInv, TablesOK, IdleSession
<1>2. \A u \in Recipients : Owned(u)' => Owned(u)
  BY <1>1 DEF Owned
<1>3. \A u \in Recipients : u \notin session[c].own => (Owned(u)' <=> Owned(u))
  BY <1>1 DEF Owned
<1>4. \A u \in Recipients : u \in session[c].own => fetch[u].step = "asked" \/ u \in early
  BY DEF BellInv, OwnedAsks, Owned
<1>5. ServedInTime'
  <2> SUFFICES ASSUME NEW u \in Recipients, u \notin early, ~ Owned(u)'
               PROVE  /\ fetch[u].step = "served" => fetch[u].found = notice'[u]
                      /\ fetch[u].step = "none" => shown[u] = notice'[u]
    BY DEF ServedInTime
  <2>1. CASE u \in session[c].own
    BY <1>4, <2>1
  <2>2. CASE u \notin session[c].own
    BY <1>3, <2>2 DEF BellInv, ServedInTime
  <2> QED
    BY <2>1, <2>2
<1> QED
  BY <1>2, <1>5 DEF BellInv, TabsOK, OwnedAsks

LEMMA BellStep == BellInv /\ [NoticesNext]_noticesVars => BellInv'
<1> SUFFICES ASSUME BellInv, [NoticesNext]_noticesVars
             PROVE  (TabsOK /\ OwnedAsks /\ ServedInTime)'
  BY NoticesStep DEF BellInv
<1>1. ASSUME NEW u \in Recipients, Serve(u) \/ Show(u) \/ MarkRead(u)
      PROVE  (TabsOK /\ OwnedAsks /\ ServedInTime)'
  BY <1>1, BellTabStep
<1>2. ASSUME NEW c \in Notifiers, Notify(c) \/ Look(c) \/ Mail(c)
      PROVE  (TabsOK /\ OwnedAsks /\ ServedInTime)'
  BY <1>2, BellIdleStep
<1>3. ASSUME NEW c \in Notifiers, Insert(c) PROVE (TabsOK /\ OwnedAsks /\ ServedInTime)'
  BY <1>3, BellInsertStep
<1>4. ASSUME NEW c \in Notifiers, Commit(c) PROVE (TabsOK /\ OwnedAsks /\ ServedInTime)'
  BY <1>4, BellEndStep DEF Commit
<1>5. ASSUME NEW c \in Notifiers, Conflict(c) \/ NotifierDies(c)
      PROVE  (TabsOK /\ OwnedAsks /\ ServedInTime)'
  BY <1>5, BellEndStep DEF Conflict, NotifierDies, Rollback
<1>6. CASE UNCHANGED noticesVars
  BY <1>6 DEF noticesVars, BellInv, TabsOK, OwnedAsks, ServedInTime, Owned
<1> QED
  BY <1>1, <1>2, <1>3, <1>4, <1>5, <1>6 DEF NoticesNext

(***************************************************************************)
(* A tab at rest shows the notification as it stands, unless its last list *)
(* was fetched between the event and the commit it announced.              *)
(***************************************************************************)
THEOREM BellTrue == NoticesSpec => []BellIsTrue
<1>1. NoticesInit => BellInv
  BY InitNoticesInv, InitBell DEF BellInv
<1>2. BellInv => BellIsTrue
  BY DEF BellInv, ServedInTime, BellIsTrue, Owned
<1> QED
  BY <1>1, <1>2, BellStep, PTL DEF NoticesSpec

(* The attempts at one e-mail end below their maximum: after the last one   *)
(* the failure is recorded and the next recipient's turn comes.            *)
THEOREM NoticesTypeCorrect == NoticesSpec => []NoticesTypeOK
<1> DEFINE Tries == \A c \in Notifiers : session[c].tries < MaxMails
<1>1. NoticesInit => Tries
  BY NoticesAssumption DEF NoticesInit, IdleSession
<1>2. NoticesInv /\ Tries /\ [NoticesNext]_noticesVars => Tries'
  <2> SUFFICES ASSUME NoticesInv, Tries, [NoticesNext]_noticesVars, NEW c \in Notifiers
               PROVE  session'[c].tries < MaxMails
    OBVIOUS
  <2>1. session \in [Notifiers -> Session] /\ session[c].tries < MaxMails
    BY DEF NoticesInv, TablesOK
  <2>2. 0 < MaxMails
    BY NoticesAssumption
  <2>3. ASSUME NEW d \in Notifiers, Notify(d) PROVE session'[c].tries < MaxMails
    <3>1. PICK us : session' = [session EXCEPT ![d] =
                      [IdleSession EXCEPT !.step = "looking", !.todo = us]]
      BY <2>3 DEF Notify
    <3>2. [IdleSession EXCEPT !.step = "looking", !.todo = us].tries = 0
      BY DEF IdleSession
    <3> QED
      BY <2>1, <2>2, <3>1, <3>2
  <2>4. ASSUME NEW d \in Notifiers, Look(d) PROVE session'[c].tries < MaxMails
    BY <2>1, <2>4 DEF Look, Session
  <2>5. ASSUME NEW d \in Notifiers, Insert(d) PROVE session'[c].tries < MaxMails
    BY <2>1, <2>2, <2>5 DEF Insert, Session
  <2>6. ASSUME NEW d \in Notifiers, Mail(d) PROVE session'[c].tries < MaxMails
    BY <2>1, <2>6 DEF Mail, Session
  <2>7. ASSUME NEW d \in Notifiers, Conflict(d) \/ Commit(d) \/ NotifierDies(d)
        PROVE  session'[c].tries < MaxMails
    <3>1. session' = [session EXCEPT ![d] = IdleSession] /\ IdleSession.tries = 0
      BY <2>7 DEF Conflict, Commit, NotifierDies, Rollback, IdleSession
    <3> QED
      BY <2>1, <2>2, <3>1
  <2>8. CASE UNCHANGED session
    BY <2>1, <2>8
  <2> QED
    BY <2>3, <2>4, <2>5, <2>6, <2>7, <2>8 DEF NoticesNext, noticesVars, Serve, Show, MarkRead
<1>3. BellInv /\ Tries => NoticesTypeOK
  BY DEF BellInv, TabsOK, NoticesInv, TablesOK, Session, NoticesTypeOK
<1>4. NoticesInit => BellInv
  BY InitNoticesInv, InitBell DEF BellInv
<1>5. BellInv => NoticesInv
  BY DEF BellInv
<1> HIDE DEF Tries
<1> QED
  BY <1>1, <1>2, <1>3, <1>4, <1>5, BellStep, PTL DEF NoticesSpec

=============================================================================
