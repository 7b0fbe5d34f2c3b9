--------------------------- MODULE SupportTickets ---------------------------
(***************************************************************************)
(* The support desk: support/service.py, support/router.py and the support *)
(* part of notifications/service.py.                                       *)
(*                                                                         *)
(* A request starts its transaction when it is authenticated (Begin), then *)
(* reads the ticket, decides and announces (Handle), and commits (Commit); *)
(* nothing is locked, so others may commit in between.  A message is       *)
(* stamped with the START of its transaction (created_at DEFAULT now()), a *)
(* ticket with the clock read by Handle, and a commit comes later than     *)
(* both.  A request whose answer is 400 or 404 changes nothing: the guard  *)
(* of Handle fails and Abort ends it.                                      *)
(*                                                                         *)
(* SQLAlchemy writes the columns a request changed and no other, so a      *)
(* reply that overlaps a closure leaves the status alone.                  *)
(***************************************************************************)
EXTENDS Integers, FiniteSets

CONSTANTS
  Tickets,    \* the ids the table can hand out
  Companies,  \* companies, each with one account
  Admins,     \* administrators
  Requests,   \* slots for requests in flight
  PageSize,   \* SUPPORT_PAGE_SIZE
  None,       \* no row, no request, no status filter
  MaxOps      \* bound on the number of requests

ASSUME PageAssumption == PageSize \in Nat \ {0}
ASSUME OpsAssumption == MaxOps \in Nat
ASSUME PeopleAssumption == Companies \intersect Admins = {}

\* The rows of the two tables, and a request in flight.
Statuses == {"open", "closed"}
Row == [company : Companies, status : Statuses, updated : Nat]
Message == [ticket : Tickets, by : Companies \union Admins, at : Nat, done : Nat,
            told : SUBSET (Companies \union Admins), present : SUBSET Admins]
Request == [op : {"create", "reply", "close"}, by : Companies \union Admins,
            ticket : Tickets, at : Nat, now : Nat \union {None},
            told : SUBSET (Companies \union Admins), present : SUBSET Admins]

ASSUME NullAssumption ==
  None \notin Companies \union Admins \union Tickets \union Statuses \union Nat
             \union Row \union Request

VARIABLES
  tickets,    \* the support_tickets table
  messages,   \* the support_messages table
  active,     \* admin_users.is_active
  work,       \* the request in each slot
  clock,      \* one tick for each step of a request
  ops,        \* requests so far
  closedAt    \* history variable: when a ticket was closed

supportVars == <<tickets, messages, active, work, clock, ops, closedAt>>

-----------------------------------------------------------------------------
(* What the pages show.                                                    *)

Has(status) == {t \in Tickets : tickets[t] # None /\ tickets[t].status = status}
Open == Has("open")

MessagesOf(t) == {m \in messages : m.ticket = t}

\* The SELECT ... GROUP BY ticket_id of count_company_support_alerts.
LatestAt(t) ==
  CHOOSE at \in {m.at : m \in MessagesOf(t)} : \A m \in MessagesOf(t) : m.at <= at

ByAdmin(m) == m.by \in Admins

\* Faulty variant of Alerts: the last message of all tickets instead of one per ticket.
AlertsOfLast(c) ==
  Cardinality({m \in messages : /\ \A n \in messages : n.at <= m.at
                                /\ tickets[m.ticket].company = c
                                /\ m.ticket \in Open
                                /\ ByAdmin(m)})

\* count_company_support_alerts: the rows of the join.
Alerts(c) ==
  Cardinality({m \in messages : /\ m.at = LatestAt(m.ticket)
                                /\ tickets[m.ticket].company = c
                                /\ m.ticket \in Open
                                /\ ByAdmin(m)})

\* count_open_tickets
OpenTickets == Cardinality(Open)

\* _support_list_status: a page opens on the open tickets, "all" lifts the filter.
ListStatus(param) ==
  IF param = "" THEN "open" ELSE IF param = "all" THEN None ELSE param

\* The WHERE of list_company_tickets and, with scope None, of list_all_tickets.
Listed(scope, status) ==
  {t \in Tickets : /\ tickets[t] # None
                   /\ scope # None => tickets[t].company = scope
                   /\ status # None => tickets[t].status = status}

\* ORDER BY updated_at DESC, OFFSET and LIMIT.
Page(scope, status, page) ==
  LET rows == Listed(scope, status)
      Rank(t) == Cardinality({u \in rows : tickets[u].updated > tickets[t].updated})
  IN {t \in rows : (page - 1) * PageSize <= Rank(t) /\ Rank(t) < page * PageSize}

\* _support_total_pages
TotalPages(total) ==
  IF total = 0 THEN 1 ELSE (total + PageSize - 1) \div PageSize

\* support_list and admin_support_list: a page past the end is the last page.
ShownPage(scope, param, page) ==
  LET status == ListStatus(param)
      pages == TotalPages(Cardinality(Listed(scope, status)))
  IN Page(scope, status, IF page > pages THEN pages ELSE page)

-----------------------------------------------------------------------------
(* Notifications: whom a message is announced to, and when.                *)

\* Faulty variant of Announced: a message is announced to the company, whoever wrote it.
AnnouncedToCompany(author, company) == {company}

\* emit_support_new_ticket and emit_support_client_message write to every active
\* administrator (to nobody, with a warning, if there is none); emit_support_reply
\* writes to the company.
Announced(author, company) == IF author \in Companies THEN active ELSE {company}

-----------------------------------------------------------------------------
(* Requests.                                                               *)

Busy(r) == work[r] # None

\* The ticket an author may reach: the company filter of get_company_ticket,
\* add_message and close_ticket_by_customer, or db.get for an administrator.
Reaches(who, t) ==
  /\ tickets[t] # None
  /\ who \in Companies => tickets[t].company = who

\* A request is authenticated: its transaction starts. A new ticket gets its id.
Begin(r, op, who, t) ==
  /\ ops < MaxOps
  /\ ~Busy(r)
  /\ IF op = "create"
     THEN /\ who \in Companies
          /\ tickets[t] = None
          /\ \A q \in Requests : Busy(q) => ~(work[q].op = "create" /\ work[q].ticket = t)
     ELSE tickets[t] # None
  /\ work' = [work EXCEPT ![r] = [op |-> op, by |-> who, ticket |-> t, at |-> clock,
                                  now |-> None, told |-> {}, present |-> active]]
  /\ clock' = clock + 1
  /\ ops' = ops + 1
  /\ UNCHANGED <<tickets, messages, active, closedAt>>

\* What add_message asks of the ticket it read.
Accepts(req) == Reaches(req.by, req.ticket) /\ tickets[req.ticket].status = "open"

\* create_ticket, add_message, close_ticket and close_ticket_by_customer up to the
\* commit. The announcement is already out. Closing a closed ticket changes nothing.
Handle(r) ==
  LET req == work[r]
      said == req.op \in {"create", "reply"}
      company == IF req.op = "create" THEN req.by ELSE tickets[req.ticket].company
  IN /\ Busy(r) /\ req.now = None
     /\ req.op = "reply" => Accepts(req)
     /\ req.op = "close" =>
          Reaches(req.by, req.ticket) /\ tickets[req.ticket].status = "open"
     /\ work' = [work EXCEPT ![r].now = clock,
                             ![r].told = IF said THEN Announced(req.by, company) ELSE {}]
     /\ clock' = clock + 1
     /\ UNCHANGED <<tickets, messages, active, ops, closedAt>>

\* Faulty variant of Saved: a reply writes the whole row as it read it, open.
SavedWhole(req) ==
  CASE req.op = "create" -> [company |-> req.by, status |-> "open", updated |-> req.at]
    [] req.op = "reply"  -> [tickets[req.ticket] EXCEPT !.status = "open",
                                                        !.updated = req.now]
    [] req.op = "close"  -> [tickets[req.ticket] EXCEPT !.status = "closed",
                                                        !.updated = req.now]

\* Faulty variant of Saved: updated_at of a new ticket has no default.
SavedWithoutDefault(req) ==
  IF req.op = "create" THEN [company |-> req.by, status |-> "open", updated |-> None]
  ELSE [tickets[req.ticket] EXCEPT !.status = IF req.op = "close" THEN "closed" ELSE @,
                                   !.updated = req.now]

\* The row of the ticket after the commit.
Saved(req) ==
  CASE req.op = "create" -> [company |-> req.by, status |-> "open", updated |-> req.at]
    [] req.op = "reply"  -> [tickets[req.ticket] EXCEPT !.updated = req.now]
    [] req.op = "close"  -> [tickets[req.ticket] EXCEPT !.status = "closed",
                                                        !.updated = req.now]

\* The commit: ticket and message in one transaction.
Commit(r) ==
  LET req == work[r]
      t == req.ticket
  IN /\ Busy(r) /\ req.now # None
     /\ tickets' = [tickets EXCEPT ![t] = Saved(req)]
     /\ messages' = messages \union
          (IF req.op = "close" THEN {}
           ELSE {[ticket |-> t, by |-> req.by, at |-> req.at, done |-> clock,
                  told |-> req.told, present |-> req.present]})
     /\ closedAt' = IF req.op = "close" /\ closedAt[t] = None
                    THEN [closedAt EXCEPT ![t] = clock] ELSE closedAt
     /\ work' = [work EXCEPT ![r] = None]
     /\ clock' = clock + 1
     /\ UNCHANGED <<active, ops>>

\* A refused, cancelled or crashed request: nothing is written.
Abort(r) ==
  /\ Busy(r)
  /\ work' = [work EXCEPT ![r] = None]
  /\ UNCHANGED <<tickets, messages, active, clock, ops, closedAt>>

\* set_admin_active, asked for by another administrator; current_auth does not look
\* whether an administrator is active. A request that is under way remembers who was
\* active all along.
SwitchAdmin(a) ==
  /\ ops < MaxOps
  /\ \E by \in Admins : by # a
  /\ active' = IF a \in active THEN active \ {a} ELSE active \union {a}
  /\ work' = [r \in Requests |-> IF Busy(r) THEN [work[r] EXCEPT !.present = @ \ {a}]
                                 ELSE None]
  /\ ops' = ops + 1
  /\ UNCHANGED <<tickets, messages, clock, closedAt>>

SupportInit ==
  /\ tickets = [t \in Tickets |-> None]
  /\ messages = {}
  /\ active \in SUBSET Admins
  /\ work = [r \in Requests |-> None]
  /\ clock = 0
  /\ ops = 0
  /\ closedAt = [t \in Tickets |-> None]

SupportNext ==
  \/ \E r \in Requests, op \in {"create", "reply", "close"},
        who \in Companies \union Admins, t \in Tickets : Begin(r, op, who, t)
  \/ \E r \in Requests : Handle(r)
  \/ \E r \in Requests : Commit(r)
  \/ \E r \in Requests : Abort(r)
  \/ \E a \in Admins : SwitchAdmin(a)

SupportSpec == SupportInit /\ [][SupportNext]_supportVars

-----------------------------------------------------------------------------
(* Properties.                                                             *)

\* The types of the tables and of the requests in flight.
SupportTypeOK ==
  /\ tickets \in [Tickets -> Row \union {None}]
  /\ messages \in SUBSET Message
  /\ active \in SUBSET Admins
  /\ work \in [Requests -> Request \union {None}]
  /\ clock \in Nat
  /\ ops \in 0..MaxOps
  /\ closedAt \in [Tickets -> Nat \union {None}]

\* A company writes in its own tickets only, and a closed ticket stays closed: it
\* gets no message of a request that began after its closure was committed, however
\* replies and closures overlap (add_message, close_ticket).
ConversationSound ==
  /\ \A m \in messages : tickets[m.ticket] # None /\ Reaches(m.by, m.ticket)
  /\ \A t \in Tickets : closedAt[t] # None =>
       /\ tickets[t].status = "closed"
       /\ \A m \in MessagesOf(t) : m.at < closedAt[t]

\* The badges agree with the pages. The administrators' badge is the length of their
\* default list; a company's badge counts the tickets of its default list whose page
\* ends with an administrator's message; between requests that do not overlap, an
\* answer sets it and a company's message clears it. The pages up to the last show
\* every ticket once, and a page past the end is never empty while there are tickets.
BadgesMatchLists ==
  LET Pages(scope) == 1..TotalPages(Cardinality(Listed(scope, "open")))
      Shown(scope) == UNION {ShownPage(scope, "", n) : n \in Pages(scope)}
      Ends(t) == CHOOSE m \in MessagesOf(t) : \A n \in MessagesOf(t) : n.at <= m.at
      After(t, some, others) ==
        \E m \in MessagesOf(t) \intersect some :
          \A n \in MessagesOf(t) \intersect others : m.at > n.done
      admins == {m \in messages : ByAdmin(m)}
  IN /\ OpenTickets = Cardinality(Shown(None))
     /\ \A c \in Companies :
          LET unread == {t \in Shown(c) : ByAdmin(Ends(t))}
          IN /\ Alerts(c) = Cardinality(unread)
             /\ \A t \in Shown(c) :
                  /\ After(t, admins, messages \ admins) => t \in unread
                  /\ After(t, messages \ admins, admins) => t \notin unread
     /\ \A scope \in Companies \union {None}, param \in {"", "all", "open", "closed"} :
          LET rows == Listed(scope, ListStatus(param))
              pages == TotalPages(Cardinality(rows))
          IN /\ UNION {ShownPage(scope, param, n) : n \in 1..pages} = rows
             /\ \A n \in 1..pages : \A k \in 1..pages :
                  n # k => ShownPage(scope, param, n) \intersect ShownPage(scope, param, k) = {}
             /\ rows # {} => ShownPage(scope, param, pages + 1) # {}

\* No message is lost on its readers: one that a company committed was announced to
\* every administrator active from the start of its request to its end, and one that
\* an administrator committed to the company (emit_support_* before the commit).
EveryMessageAnnounced ==
  \A m \in messages :
    IF m.by \in Companies THEN m.present \subseteq m.told
    ELSE tickets[m.ticket].company \in m.told

=============================================================================
