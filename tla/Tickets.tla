------------------------------- MODULE Tickets -------------------------------
(***************************************************************************)
(* A support ticket between its customer and the staff (src/support): the  *)
(* replies of both and the changes of its status.  A request looks the     *)
(* ticket up and writes in later statements; subjects, texts, priority and *)
(* notifications are left out.                                             *)
(***************************************************************************)
EXTENDS Naturals, FiniteSets

CONSTANTS
  Agents,           \* requests served at once
  Staff,            \* accounts of the staff
  MaxReplies,       \* bound: replies
  NoOne             \* assigned to no one

ASSUME TicketsAssumption == MaxReplies \in Nat /\ NoOne \notin Staff

VARIABLES
  ticket,           \* its row
  desk,             \* the staff accounts that are active
  replies,          \* how many replies are stored
  waiting,          \* history: the customer's last reply is after whatever the staff did
  acts              \* what is being done about each request

ticketsVars == <<ticket, desk, replies, waiting, acts>>

TicketStatuses == {"OPEN", "IN_PROGRESS", "RESOLVED", "CLOSED"}
Still == [op |-> "still"]

TicketsInit ==
  /\ ticket = [status |-> "OPEN", resolvedAt |-> FALSE, closedAt |-> FALSE, assignedTo |-> NoOne]
  /\ desk \in SUBSET Staff /\ replies = 0 /\ waiting = TRUE
  /\ acts = [w \in Agents |-> Still]

Acting(w, r) == acts' = [acts EXCEPT ![w] = r]

\* getTicketOrThrow, and what the request found.
LooksUp(w, r) ==
  /\ acts[w] = Still /\ Acting(w, [saw |-> ticket.status, request |-> r, op |-> "looked"])
  /\ UNCHANGED <<ticket, desk, replies, waiting>>

\* Fault variant: the time of the resolution is kept.
Reopened_Half(t) == [t EXCEPT !.status = "IN_PROGRESS"]

\* What a reply of the customer does to a ticket that was seen resolved.
Reopened(t) == [t EXCEPT !.status = "IN_PROGRESS", !.resolvedAt = FALSE]

\* addCustomerReply: refused on a closed ticket; a resolved one is reopened in
\* the transaction that stores the message.
AddCustomerReply(w) ==
  /\ acts[w].op = "looked" /\ acts[w].request = "customer"
  /\ IF acts[w].saw = "CLOSED" THEN UNCHANGED <<ticket, replies, waiting>>
     ELSE /\ replies < MaxReplies /\ replies' = replies + 1 /\ waiting' = TRUE
          /\ ticket' = IF acts[w].saw = "RESOLVED" THEN Reopened(ticket) ELSE ticket
  /\ Acting(w, Still) /\ UNCHANGED desk

\* replyToTicket: the message, then an open ticket is in progress; internal
\* notes answer nobody.
ReplyToTicket(w) ==
  /\ acts[w].op = "looked" /\ acts[w].request \in {"staff", "note"}
  /\ replies < MaxReplies /\ replies' = replies + 1
  /\ waiting' = (waiting /\ acts[w].request = "note")
  /\ Acting(w, IF acts[w].request = "staff" /\ acts[w].saw = "OPEN" THEN [op |-> "progress"] ELSE Still)
  /\ UNCHANGED <<ticket, desk>>

ReplyProgress(w) ==
  /\ acts[w].op = "progress" /\ Acting(w, Still)
  /\ ticket' = [ticket EXCEPT !.status = "IN_PROGRESS"]
  /\ UNCHANGED <<desk, replies, waiting>>

\* updateStatus: any status from any, with its time.
UpdateStatus(w) ==
  LET status == acts[w].request IN
  /\ acts[w].op = "looked" /\ status \in TicketStatuses
  /\ ticket' = CASE status = "RESOLVED" -> [ticket EXCEPT !.status = status, !.resolvedAt = TRUE]
                 [] status = "CLOSED" -> [ticket EXCEPT !.status = status, !.closedAt = TRUE]
                 [] OTHER -> [ticket EXCEPT !.status = status, !.resolvedAt = FALSE, !.closedAt = FALSE]
  /\ waiting' = FALSE /\ Acting(w, Still) /\ UNCHANGED <<desk, replies>>

\* assignTicket: to support or the super admin, whether they are active or not.
Assign(w) ==
  /\ acts[w].op = "looked" /\ acts[w].request \in Staff
  /\ ticket' = [ticket EXCEPT !.assignedTo = acts[w].request]
  /\ Acting(w, Still) /\ UNCHANGED <<desk, replies, waiting>>

Joins(s) == desk' = (IF s \in desk THEN desk \ {s} ELSE desk \cup {s}) /\ UNCHANGED <<ticket, replies, waiting, acts>>

TicketsNext ==
  \/ \E w \in Agents :
       \/ \E r \in {"customer", "staff", "note"} \cup TicketStatuses \cup Staff : LooksUp(w, r)
       \/ AddCustomerReply(w) \/ ReplyToTicket(w) \/ ReplyProgress(w) \/ UpdateStatus(w) \/ Assign(w)
  \/ \E s \in Staff : Joins(s)

-----------------------------------------------------------------------------
(* Properties.                                                              *)

TicketsTypeOK ==
  /\ ticket.status \in TicketStatuses /\ ticket.assignedTo \in Staff \cup {NoOne}
  /\ replies \in 0 .. MaxReplies /\ desk \subseteq Staff

\* A reply of the customer is never left in a ticket that counts as done: it
\* is reopened or the reply refused; and a ticket has the time of a resolution
\* only once it was resolved and not taken up again.
RepliesReopen ==
  /\ waiting => ticket.status \notin {"RESOLVED", "CLOSED"}
  /\ ticket.resolvedAt => ticket.status \in {"RESOLVED", "CLOSED"}

\* Statements that TLC refutes: the one above when requests overlap; and, one
\* at a time, the same of the time of closing, which stays when a closed ticket
\* is resolved and then answered, and that tickets are given to active accounts
\* (admin-ticket.service.ts: "Assignee must be an active SUPPORT ... user").
ClosingTimeFits == ticket.closedAt => ticket.status \in {"RESOLVED", "CLOSED"}
AssignedToActive ==
  \A s \in Staff : ticket'.assignedTo = s /\ ticket.assignedTo # s => s \in desk
=============================================================================
