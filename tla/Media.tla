------------------------------- MODULE Media -------------------------------
(***************************************************************************)
(* Attachments of chat messages: an upload writes a file and then commits  *)
(* its row; a post names an attachment and takes it for its message, from  *)
(* whatever message had it; a reader is let in by that message's           *)
(* conversation.                                                           *)
(*                                                                         *)
(* The four upload endpoints differ in the types and sizes they take.  A   *)
(* message keeps the attachment that it was posted with, removed or not.   *)
(***************************************************************************)
EXTENDS Naturals

CONSTANTS
  Uploaders,      \* users
  Attachments,    \* bound: uploads in a behaviour
  Threads,        \* conversations
  MaxAttached     \* bound: posts with an attachment

ASSUME MediaAssumption ==
  /\ MaxAttached \in Nat
  /\ "none" \notin Attachments
  /\ {"none", "over"} \cap Uploaders = {}

VARIABLES
  files,       \* storage keys on disk
  upload,      \* upload[a]: the request that uploads a
  owned,       \* owned[a]: the committed row of the attachment
  admitted,    \* admitted[t]: the members of a conversation
  carried,     \* carried[n]: the conversation and attachment of the message n
  attaching,   \* attaching[n]: a post in progress
  attached,    \* posts begun so far
  retaken      \* history: attachments posted more than once

mediaVars == <<files, upload, owned, admitted, carried, attaching, attached, retaken>>

Messages == 1..MaxAttached

NoRowYet == [by |-> "none", of |-> 0]

Nothing == [thread |-> "none", attachment |-> "none"]

-----------------------------------------------------------------------------
(* Uploads *)

Upload(u, a) ==
  /\ upload[a] = "none"
  /\ files' = files \cup {a}
  /\ upload' = [upload EXCEPT ![a] = u]
  /\ UNCHANGED <<owned, admitted, carried, attaching, attached, retaken>>

CommitUpload(a) ==
  /\ upload[a] \notin {"none", "over"}
  /\ owned' = [owned EXCEPT ![a] = [by |-> upload[a], of |-> 0]]
  /\ upload' = [upload EXCEPT ![a] = "over"]
  /\ UNCHANGED <<files, admitted, carried, attaching, attached, retaken>>

(* The file stays, and nothing will ever refer to it. *)
UploadDies(a) ==
  /\ upload[a] \notin {"none", "over"}
  /\ upload' = [upload EXCEPT ![a] = "over"]
  /\ UNCHANGED <<files, owned, admitted, carried, attaching, attached, retaken>>

-----------------------------------------------------------------------------
(* post_message with an attachment_id, by a member of the conversation *)

Enter(u, t) ==
  /\ admitted' = [admitted EXCEPT ![t] = @ \cup {u}]
  /\ UNCHANGED <<files, upload, owned, carried, attaching, attached, retaken>>

(* Whose attachment it is, and whether another message has it, is not asked. *)
Attach(t, a) ==
  /\ attached < MaxAttached
  /\ admitted[t] # {} /\ owned[a] # NoRowYet
  /\ attached' = attached + 1
  /\ attaching' = [attaching EXCEPT ![attached + 1] = [thread |-> t, attachment |-> a]]
  /\ retaken' = IF \E n \in 1..attached : a \in {carried[n].attachment, attaching[n].attachment}
                  THEN retaken \cup {a} ELSE retaken
  /\ UNCHANGED <<files, upload, owned, admitted, carried>>

(* Fault: the attachment is not told whose it is. *)
Unlinked(n) == owned

Linked(n) == [owned EXCEPT ![attaching[n].attachment].of = n]

CommitPost(n) ==
  /\ attaching[n] # Nothing
  /\ carried' = [carried EXCEPT ![n] = attaching[n]]
  /\ owned' = Linked(n)
  /\ attaching' = [attaching EXCEPT ![n] = Nothing]
  /\ UNCHANGED <<files, upload, admitted, attached, retaken>>

-----------------------------------------------------------------------------
(* get_attachment_file *)

Readers(a) ==
  {owned[a].by} \cup (IF owned[a].of = 0 THEN {} ELSE admitted[carried[owned[a].of].thread])

Opens(u, a) == a \in files /\ owned[a] # NoRowYet /\ u \in Readers(a)

-----------------------------------------------------------------------------

MediaInit ==
  /\ files = {}
  /\ upload = [a \in Attachments |-> "none"]
  /\ owned = [a \in Attachments |-> NoRowYet]
  /\ admitted = [t \in Threads |-> {}]
  /\ carried = [n \in Messages |-> Nothing]
  /\ attaching = [n \in Messages |-> Nothing]
  /\ attached = 0
  /\ retaken = {}

MediaNext ==
  \/ \E u \in Uploaders, t \in Threads : Enter(u, t)
  \/ \E a \in Attachments :
       \/ CommitUpload(a) \/ UploadDies(a)
       \/ \E u \in Uploaders : Upload(u, a)
       \/ \E t \in Threads : Attach(t, a)
  \/ \E n \in Messages : CommitPost(n)

MediaSpec == MediaInit /\ [][MediaNext]_mediaVars

-----------------------------------------------------------------------------
(* Properties *)

MediaTypeOK ==
  /\ files \subseteq Attachments
  /\ upload \in [Attachments -> Uploaders \cup {"none", "over"}]
  /\ owned \in [Attachments -> [by : Uploaders \cup {"none"}, of : {0} \cup Messages]]
  /\ admitted \in [Threads -> SUBSET Uploaders]
  /\ retaken \subseteq Attachments

(***************************************************************************)
(* Whoever is in a conversation, also who joins it later, can open the     *)
(* attachments of its messages, although files and rows are written apart; *)
(* an attachment posted again is taken from its first message.             *)
(***************************************************************************)
MediaReachable ==
  \A n \in Messages :
    carried[n] # Nothing /\ carried[n].attachment \notin retaken =>
      \A u \in admitted[carried[n].thread] : Opens(u, carried[n].attachment)

=============================================================================
