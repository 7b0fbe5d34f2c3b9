------------------------ MODULE SupportTickets_proofs ------------------------
(***************************************************************************)
(* Proofs about SupportTickets, for any sets of tickets, companies,        *)
(* administrators and requests. A message is committed long after the      *)
(* status of its ticket was looked at; what keeps the conversation sound   *)
(* is that its stamp is older than that look (RequestSound).               *)
(***************************************************************************)
EXTENDS SupportTickets, Ranks

\* What a request in flight has in its hands.
RequestSound(r) ==
  LET req == work[r]
  IN /\ req.at < clock
     /\ req.present \subseteq active
     /\ IF req.op = "create"
        THEN /\ req.by \in Companies
             /\ tickets[req.ticket] = None
             /\ \A q \in Requests \ {r} :
                  Busy(q) => ~(work[q].op = "create" /\ work[q].ticket = req.ticket)
        ELSE tickets[req.ticket] # None
     /\ req.now # None =>
          /\ req.op # "create" => Reaches(req.by, req.ticket)
          /\ req.op = "reply" /\ closedAt[req.ticket] # None =>
               req.at < closedAt[req.ticket]
          /\ req.op # "close" =>
               IF req.by \in Companies THEN req.present \subseteq req.told
               ELSE tickets[req.ticket].company \in req.told

\* What the tables hold of a ticket and of a message.
TicketSound(t) ==
  closedAt[t] # None => tickets[t] # None /\ tickets[t].status = "closed"

MessageSound(m) ==
  /\ tickets[m.ticket] # None /\ Reaches(m.by, m.ticket)
  /\ m.at < clock
  /\ closedAt[m.ticket] # None => m.at < closedAt[m.ticket]
  /\ IF m.by \in Companies THEN m.present \subseteq m.told
     ELSE tickets[m.ticket].company \in m.told

SupportInv ==
  /\ SupportTypeOK
  /\ \A r \in Requests : Busy(r) => RequestSound(r)
  /\ \A t \in Tickets : TicketSound(t)
  /\ \A m \in messages : MessageSound(m)

-----------------------------------------------------------------------------

\* What is stored or in flight is not None.
LEMMA NotNull ==
  /\ None \notin Companies /\ None \notin Tickets /\ None \notin Nat
  /\ None \notin Row /\ None \notin Request
BY NullAssumption

LEMMA InitSound == SupportInit => SupportInv
BY OpsAssumption DEF SupportInit, SupportInv, SupportTypeOK, Busy, TicketSound

-----------------------------------------------------------------------------
(* One lemma for each action.                                              *)

LEMMA BeginSound ==
  ASSUME SupportInv, NEW r \in Requests, NEW op \in {"create", "reply", "close"},
         NEW who \in Companies \union Admins, NEW t \in Tickets, Begin(r, op, who, t)
  PROVE  SupportInv'
<1> DEFINE req == [op |-> op, by |-> who, ticket |-> t, at |-> clock, now |-> None,
                   told |-> {}, present |-> active]
<1>1. req \in Request
  BY DEF SupportInv, SupportTypeOK, Request
<1>2. work' = [work EXCEPT ![r] = req] /\ ~Busy(r)
  BY DEF Begin
<1>3. SupportTypeOK'
  BY <1>1, <1>2, OpsAssumption DEF SupportInv, SupportTypeOK, Begin
<1>4. clock' = clock + 1 /\ clock \in Nat
  BY DEF Begin, SupportInv, SupportTypeOK
<1>5. UNCHANGED <<tickets, messages, active, closedAt>>
  BY DEF Begin
<1>6. ASSUME NEW q \in Requests, Busy(q)' PROVE RequestSound(q)'
  <2>1. CASE q = r
    <3>1. work'[q] = req
      BY <2>1, <1>2 DEF SupportInv, SupportTypeOK
    <3>2. IF op = "create"
          THEN /\ who \in Companies /\ tickets[t] = None
               /\ \A p \in Requests : Busy(p) => ~(work[p].op = "create" /\ work[p].ticket = t)
          ELSE tickets[t] # None
      BY DEF Begin
    <3>3. \A p \in Requests \ {r} : work'[p] = work[p]
      BY <1>2 DEF SupportInv, SupportTypeOK
    <3> QED
      BY <2>1, <3>1, <3>2, <3>3, <1>4, <1>5 DEF RequestSound, Busy
  <2>2. CASE q # r
    <3>1. work'[q] = work[q] /\ Busy(q) /\ RequestSound(q) /\ work[q] \in Request
      BY <2>2, <1>2, <1>6 DEF SupportInv, SupportTypeOK, Busy
    <3>2. ASSUME NEW p \in Requests \ {q}, Busy(p)'
          PROVE  work[q].op = "create" =>
                   ~(work'[p].op = "create" /\ work'[p].ticket = work[q].ticket)
      <4>1. CASE p = r
        <5>1. work'[p] = req
          BY <4>1, <1>2 DEF SupportInv, SupportTypeOK
        <5>2. op = "create" =>
                \A o \in Requests : Busy(o) => ~(work[o].op = "create" /\ work[o].ticket = t)
          BY DEF Begin
        <5> QED
          BY <5>1, <5>2, <3>1
      <4>2. CASE p # r
        <5>1. work'[p] = work[p] /\ Busy(p)
          BY <4>2, <1>2, <3>2 DEF SupportInv, SupportTypeOK, Busy
        <5> QED
          BY <5>1, <3>1 DEF RequestSound
      <4> QED
        BY <4>1, <4>2
    <3>3. work[q].at < clock'
      BY <3>1, <1>4 DEF RequestSound, Request
    <3> QED
      BY <3>1, <3>2, <3>3, <1>5 DEF RequestSound, Reaches
  <2> QED
    BY <2>1, <2>2
<1>7. \A x \in Tickets : TicketSound(x)'
  BY <1>5 DEF SupportInv, TicketSound
<1>8. ASSUME NEW m \in messages PROVE MessageSound(m)'
  <2>1. MessageSound(m) /\ m \in Message
    BY DEF SupportInv, SupportTypeOK
  <2>2. m.at < clock'
    BY <2>1, <1>4 DEF MessageSound, Message
  <2> QED
    BY <2>1, <2>2, <1>5 DEF MessageSound, Reaches
<1> QED
  BY <1>3, <1>5, <1>6, <1>7, <1>8 DEF SupportInv

\* A request that goes on unchanged while others leave the tickets and the set of
\* administrators alone, and begin nothing, stays sound.
LEMMA Undisturbed ==
  ASSUME SupportInv, NEW q \in Requests, Busy(q), work'[q] = work[q],
         UNCHANGED <<tickets, active, closedAt>>, clock' \in {clock, clock + 1},
         \A p \in Requests \ {q} : Busy(p)' =>
           Busy(p) /\ work'[p].op = work[p].op /\ work'[p].ticket = work[p].ticket
  PROVE  RequestSound(q)'
<1>1. RequestSound(q) /\ work[q] \in Request /\ clock \in Nat
  BY DEF SupportInv, SupportTypeOK, Busy
<1>2. work[q].at < clock'
  BY <1>1 DEF RequestSound, Request
<1> QED
  BY <1>1, <1>2 DEF RequestSound, Reaches, Busy

\* So do the tickets and messages.
LEMMA TablesStay ==
  ASSUME SupportInv, UNCHANGED <<tickets, messages, closedAt>>,
         clock' \in {clock, clock + 1}
  PROVE  /\ \A t \in Tickets : TicketSound(t)'
         /\ \A m \in messages' : MessageSound(m)'
<1>1. \A t \in Tickets : TicketSound(t)'
  BY DEF SupportInv, TicketSound
<1>2. ASSUME NEW m \in messages PROVE MessageSound(m)'
  <2>1. MessageSound(m) /\ m \in Message /\ clock \in Nat
    BY DEF SupportInv, SupportTypeOK
  <2>2. m.at < clock'
    BY <2>1 DEF MessageSound, Message
  <2> QED
    BY <2>1, <2>2 DEF MessageSound, Reaches
<1> QED
  BY <1>1, <1>2

LEMMA AnnouncedType ==
  ASSUME SupportInv, NEW who \in Companies \union Admins, NEW c \in Companies
  PROVE  Announced(who, c) \in SUBSET (Companies \union Admins)
BY DEF Announced, SupportInv, SupportTypeOK

\* The request goes on with a stamp and a list of readers.
LEMMA HandleWrites ==
  ASSUME SupportInv, NEW r \in Requests, Handle(r)
  PROVE  LET req == work[r]
             said == req.op \in {"create", "reply"}
             company == IF req.op = "create" THEN req.by ELSE tickets[req.ticket].company
             told == IF said THEN Announced(req.by, company) ELSE {}
         IN /\ work' = [work EXCEPT ![r] = [req EXCEPT !.now = clock, !.told = told]]
            /\ [req EXCEPT !.now = clock, !.told = told] \in Request
<1> DEFINE req == work[r]
           said == req.op \in {"create", "reply"}
           company == IF req.op = "create" THEN req.by ELSE tickets[req.ticket].company
           told == IF said THEN Announced(req.by, company) ELSE {}
<1>1. Busy(r) /\ req \in Request /\ RequestSound(r) /\ clock \in Nat
  BY DEF Handle, SupportInv, SupportTypeOK, Busy
<1>2. work' = [work EXCEPT ![r] = [req EXCEPT !.now = clock, !.told = told]]
  BY <1>1 DEF Handle, SupportInv, SupportTypeOK
<1>3. company \in Companies
  BY <1>1 DEF RequestSound, SupportInv, SupportTypeOK, Row, Request
<1>4. told \in SUBSET (Companies \union Admins)
  BY <1>1, <1>3, AnnouncedType DEF Request
<1>5. [req EXCEPT !.now = clock, !.told = told] \in Request
  BY <1>1, <1>4 DEF Request
<1> QED
  BY <1>2, <1>5

\* Handle: a ticket that is open has not been closed, so the message is older than
\* any closure to come.
LEMMA HandleSound ==
  ASSUME SupportInv, NEW r \in Requests, Handle(r)
  PROVE  SupportInv'
<1> DEFINE req == work[r]
           said == req.op \in {"create", "reply"}
           company == IF req.op = "create" THEN req.by ELSE tickets[req.ticket].company
           told == IF said THEN Announced(req.by, company) ELSE {}
<1>1. /\ Busy(r) /\ req \in Request /\ RequestSound(r)
      /\ clock \in Nat /\ clock' = clock + 1
      /\ UNCHANGED <<tickets, messages, active, closedAt, ops>>
  BY DEF Handle, SupportInv, SupportTypeOK, Busy
<1>2. work' = [work EXCEPT ![r] = [req EXCEPT !.now = clock, !.told = told]]
  BY HandleWrites
<1>3. [req EXCEPT !.now = clock, !.told = told] \in Request
  BY HandleWrites
<1>4. SupportTypeOK'
  BY <1>1, <1>2, <1>3 DEF SupportInv, SupportTypeOK
<1>5. RequestSound(r)'
  <2>1. work'[r] = [req EXCEPT !.now = clock, !.told = told]
    BY <1>2 DEF SupportInv, SupportTypeOK
  <2>2. /\ work'[r].at = req.at /\ work'[r].op = req.op /\ work'[r].by = req.by
        /\ work'[r].ticket = req.ticket /\ work'[r].present = req.present
        /\ work'[r].told = told
    BY <2>1, <1>1 DEF Request
  <2>3. /\ req.op = "reply" => Reaches(req.by, req.ticket) /\ tickets[req.ticket].status = "open"
        /\ req.op = "close" => Reaches(req.by, req.ticket)
    BY DEF Handle, Accepts
  <2>4. req.op = "reply" => closedAt[req.ticket] = None
    BY <2>3, <1>1 DEF SupportInv, TicketSound, Request
  <2>5. req.op # "close" =>
          IF req.by \in Companies THEN req.present \subseteq told
          ELSE tickets[req.ticket].company \in told
    BY <1>1 DEF RequestSound, Announced, Request
  <2>6. req.op \in {"create", "reply", "close"}
    BY <1>1 DEF Request
  <2>7. req.at < clock'
    BY <1>1 DEF RequestSound, Request
  <2>8. \A q \in Requests \ {r} : work'[q] = work[q]
    BY <1>2 DEF SupportInv, SupportTypeOK
  <2>9. Reaches(req.by, req.ticket)' <=> Reaches(req.by, req.ticket)
    BY <1>1, <1>2 DEF Reaches
  <2> QED
    BY <1>1, <2>2, <2>3, <2>4, <2>5, <2>6, <2>7, <2>8 DEF RequestSound, Reaches, Busy
<1>6. ASSUME NEW q \in Requests \ {r}, Busy(q)' PROVE RequestSound(q)'
  <2>1. work'[q] = work[q] /\ \A p \in Requests \ {r} : work'[p] = work[p]
    BY <1>2 DEF SupportInv, SupportTypeOK
  <2>2. work'[r].op = req.op /\ work'[r].ticket = req.ticket
    BY <1>2, <1>1 DEF SupportInv, SupportTypeOK, Request
  <2> QED
    BY <1>1, <1>6, <2>1, <2>2, Undisturbed DEF Busy
<1> QED
  BY <1>1, <1>4, <1>5, <1>6, TablesStay DEF SupportInv

LEMMA AbortSound ==
  ASSUME SupportInv, NEW r \in Requests, Abort(r)
  PROVE  SupportInv'
<1>1. /\ work' = [work EXCEPT ![r] = None]
      /\ UNCHANGED <<tickets, messages, active, clock, ops, closedAt>>
  BY DEF Abort
<1>2. SupportTypeOK'
  BY <1>1 DEF SupportInv, SupportTypeOK
<1>3. \A p \in Requests : work'[p] = IF p = r THEN None ELSE work[p]
  BY <1>1 DEF SupportInv, SupportTypeOK
<1>4. ASSUME NEW q \in Requests, Busy(q)' PROVE RequestSound(q)'
  <2>1. q # r /\ Busy(q) /\ work'[q] = work[q]
    BY <1>3, <1>4 DEF Busy
  <2> QED
    BY <2>1, <1>1, <1>3, Undisturbed DEF Busy
<1> QED
  BY <1>1, <1>2, <1>4, TablesStay DEF SupportInv

LEMMA SwitchSound ==
  ASSUME SupportInv, NEW a \in Admins, SwitchAdmin(a)
  PROVE  SupportInv'
<1>1. /\ active' = IF a \in active THEN active \ {a} ELSE active \union {a}
      /\ work' = [q \in Requests |-> IF Busy(q) THEN [work[q] EXCEPT !.present = @ \ {a}]
                                     ELSE None]
      /\ UNCHANGED <<tickets, messages, clock, closedAt>>
  BY DEF SwitchAdmin
<1>2. ASSUME NEW q \in Requests, Busy(q)
      PROVE  [work[q] EXCEPT !.present = @ \ {a}] \in Request
  BY <1>2 DEF SupportInv, SupportTypeOK, Busy, Request
<1>3. SupportTypeOK'
  BY <1>1, <1>2, OpsAssumption DEF SupportInv, SupportTypeOK, SwitchAdmin
<1>4. ASSUME NEW q \in Requests
      PROVE  /\ Busy(q)' => Busy(q)
             /\ Busy(q) =>
                  /\ work'[q].op = work[q].op /\ work'[q].by = work[q].by
                  /\ work'[q].ticket = work[q].ticket /\ work'[q].at = work[q].at
                  /\ work'[q].now = work[q].now /\ work'[q].told = work[q].told
                  /\ work'[q].present = work[q].present \ {a}
  BY <1>1 DEF SupportInv, SupportTypeOK, Busy, Request
<1>5. ASSUME NEW q \in Requests, Busy(q)' PROVE RequestSound(q)'
  <2>1. Busy(q) /\ RequestSound(q)
    BY <1>4, <1>5 DEF SupportInv
  <2>2. work'[q].present \subseteq active'
    BY <2>1, <1>1, <1>4 DEF RequestSound
  <2>3. /\ work'[q].op = work[q].op /\ work'[q].by = work[q].by
        /\ work'[q].ticket = work[q].ticket /\ work'[q].at = work[q].at
        /\ work'[q].now = work[q].now /\ work'[q].told = work[q].told
        /\ work'[q].present \subseteq work[q].present
    BY <1>4, <2>1
  <2>4. ASSUME work[q].op = "create", NEW r \in Requests \ {q}, Busy(r)'
        PROVE  ~(work'[r].op = "create" /\ work'[r].ticket = work[q].ticket)
    <3>1. Busy(r) /\ work'[r].op = work[r].op /\ work'[r].ticket = work[r].ticket
      BY <1>4, <2>4
    <3> QED
      BY <2>1, <2>4, <3>1 DEF RequestSound
  <2>5. ASSUME work[q].now # None
        PROVE  /\ work[q].op # "create" => Reaches(work[q].by, work[q].ticket)
               /\ work[q].op = "reply" /\ closedAt[work[q].ticket] # None =>
                    work[q].at < closedAt[work[q].ticket]
               /\ work[q].op # "close" =>
                    IF work[q].by \in Companies
                    THEN work'[q].present \subseteq work[q].told
                    ELSE tickets[work[q].ticket].company \in work[q].told
    BY <2>1, <2>3, <2>5 DEF RequestSound
  <2>6. Reaches(work[q].by, work[q].ticket) => Reaches(work[q].by, work[q].ticket)'
    BY <1>1, <2>3 DEF Reaches
  <2>7. /\ work'[q].at < clock'
        /\ IF work[q].op = "create"
           THEN work[q].by \in Companies /\ tickets'[work[q].ticket] = None
           ELSE tickets'[work[q].ticket] # None
    BY <1>1, <2>1, <2>3 DEF RequestSound
  <2> QED
    BY <1>1, <2>2, <2>3, <2>4, <2>5, <2>6, <2>7 DEF RequestSound
<1> QED
  BY <1>1, <1>3, <1>5, TablesStay DEF SupportInv

\* Commit: the row it writes belongs to the company it belonged to, and nobody else
\* creates the ticket.
LEMMA CommitRow ==
  ASSUME SupportInv, NEW r \in Requests, Commit(r)
  PROVE  /\ work[r] \in Request /\ RequestSound(r) /\ Busy(r) /\ work[r].now \in Nat
         /\ Saved(work[r]) \in Row
         /\ work[r].op # "create" => /\ tickets[work[r].ticket] \in Row
                                     /\ Saved(work[r]).company = tickets[work[r].ticket].company
         /\ work[r].op = "create" => Saved(work[r]).company = work[r].by
         /\ work[r].op = "close" => Saved(work[r]).status = "closed"
         /\ work[r].op = "reply" => Saved(work[r]).status = tickets[work[r].ticket].status
<1> DEFINE req == work[r]
<1>1. Busy(r) /\ req \in Request /\ RequestSound(r) /\ req.now # None
  BY DEF Commit, SupportInv, SupportTypeOK, Busy
<1>2. req.now \in Nat /\ req.at \in Nat /\ req.ticket \in Tickets
      /\ req.op \in {"create", "reply", "close"}
  BY <1>1 DEF Request
<1>3. req.op # "create" => tickets[req.ticket] \in Row
  BY <1>1, <1>2 DEF RequestSound, SupportInv, SupportTypeOK
<1>4. CASE req.op = "create"
  <2>1. Saved(req) = [company |-> req.by, status |-> "open", updated |-> req.at]
    BY <1>4 DEF Saved
  <2> QED
    BY <1>1, <1>2, <1>4, <2>1 DEF RequestSound, Row, Statuses
<1>5. CASE req.op = "reply"
  <2>1. Saved(req) = [tickets[req.ticket] EXCEPT !.updated = req.now]
    BY <1>5 DEF Saved
  <2> QED
    BY <1>1, <1>2, <1>3, <1>5, <2>1 DEF Row
<1>6. CASE req.op = "close"
  <2>1. Saved(req) = [tickets[req.ticket] EXCEPT !.status = "closed", !.updated = req.now]
    BY <1>6 DEF Saved
  <2> QED
    BY <1>1, <1>2, <1>3, <1>6, <2>1 DEF Row, Statuses
<1> QED
  BY <1>2, <1>4, <1>5, <1>6

LEMMA CommitSound ==
  ASSUME SupportInv, NEW r \in Requests, Commit(r)
  PROVE  SupportInv'
<1> DEFINE req == work[r]
           t == req.ticket
           new == [ticket |-> t, by |-> req.by, at |-> req.at, done |-> clock,
                   told |-> req.told, present |-> req.present]
           said == IF req.op = "close" THEN {} ELSE {new}
<1>1. /\ req \in Request /\ RequestSound(r) /\ Busy(r) /\ req.now # None
      /\ t \in Tickets /\ clock \in Nat /\ req.at \in Nat /\ req.at < clock
      /\ req.op \in {"create", "reply", "close"}
  BY CommitRow DEF Commit, RequestSound, Request, SupportInv, SupportTypeOK
<1>2. /\ tickets' = [tickets EXCEPT ![t] = Saved(req)]
      /\ messages' = messages \union said
      /\ closedAt' = IF req.op = "close" /\ closedAt[t] = None
                     THEN [closedAt EXCEPT ![t] = clock] ELSE closedAt
      /\ work' = [work EXCEPT ![r] = None]
      /\ clock' = clock + 1
      /\ UNCHANGED <<active, ops>>
  BY DEF Commit
<1>3. new \in Message
  BY <1>1 DEF Request, Message
<1>4. SupportTypeOK'
  BY <1>1, <1>2, <1>3, CommitRow DEF SupportInv, SupportTypeOK
\* What becomes of the tickets.
<1>5. ASSUME NEW x \in Tickets
      PROVE  /\ tickets'[x] # None <=> tickets[x] # None \/ x = t
             /\ tickets[x] # None => tickets'[x].company = tickets[x].company
             /\ closedAt'[x] = closedAt[x]
                \/ (x = t /\ req.op = "close" /\ closedAt[x] = None /\ closedAt'[x] = clock)
  <2>1. tickets'[x] = IF x = t THEN Saved(req) ELSE tickets[x]
    BY <1>2 DEF SupportInv, SupportTypeOK
  <2>2. Saved(req) # None
    BY CommitRow, NotNull
  <2>3. x = t /\ tickets[x] # None => req.op # "create"
    BY <1>1 DEF RequestSound
  <2>4. tickets[x] # None => tickets'[x].company = tickets[x].company
    BY <2>1, <2>3, CommitRow
  <2>5. closedAt'[x] = closedAt[x]
        \/ (x = t /\ req.op = "close" /\ closedAt[x] = None /\ closedAt'[x] = clock)
    <3>1. closedAt \in [Tickets -> Nat \union {None}]
      BY DEF SupportInv, SupportTypeOK
    <3>2. CASE req.op = "close" /\ closedAt[t] = None
      <4>1. closedAt' = [closedAt EXCEPT ![t] = clock]
        BY <1>2, <3>2
      <4> QED
        BY <3>1, <3>2, <4>1
    <3>3. CASE ~(req.op = "close" /\ closedAt[t] = None)
      <4>1. closedAt' = closedAt
        BY <1>2, <3>3
      <4> QED
        BY <4>1
    <3> QED
      BY <3>2, <3>3
  <2> QED
    BY <2>1, <2>2, <2>4, <2>5
<1>6. ASSUME NEW x \in Tickets, NEW who, Reaches(who, x) PROVE Reaches(who, x)'
  BY <1>5, <1>6 DEF Reaches
<1>7. ASSUME NEW x \in Tickets PROVE TicketSound(x)'
  <2>1. TicketSound(x) /\ (x # t => tickets'[x] = tickets[x])
    BY <1>2 DEF SupportInv, SupportTypeOK
  <2>2. tickets'[t] = Saved(req)
    BY <1>1, <1>2 DEF SupportInv, SupportTypeOK
  <2>3. CASE x = t /\ closedAt[x] # None
    <3>1. tickets[x] # None /\ tickets[x].status = "closed"
      BY <2>1, <2>3 DEF TicketSound
    <3>2. req.op \in {"reply", "close"}
      BY <3>1, <2>3, <1>1 DEF RequestSound
    <3> QED
      BY <2>2, <2>3, <3>1, <3>2, <1>5, CommitRow DEF TicketSound
  <2>4. CASE x = t /\ closedAt[x] = None
    BY <2>2, <2>4, <1>5, CommitRow DEF TicketSound
  <2>5. CASE x # t
    BY <2>1, <2>5, <1>5 DEF TicketSound
  <2> QED
    BY <2>3, <2>4, <2>5
<1>8. ASSUME NEW m \in messages PROVE MessageSound(m)'
  <2>1. MessageSound(m) /\ m \in Message
    BY DEF SupportInv, SupportTypeOK
  <2>2. m.ticket \in Tickets /\ m.at \in Nat
    BY <2>1 DEF Message
  <2>3. m.at < clock' /\ (closedAt'[m.ticket] # None => m.at < closedAt'[m.ticket])
    BY <2>1, <2>2, <1>1, <1>2, <1>5 DEF MessageSound
  <2>4. tickets'[m.ticket] # None /\ tickets'[m.ticket].company = tickets[m.ticket].company
    BY <2>1, <2>2, <1>5 DEF MessageSound
  <2> QED
    BY <2>1, <2>2, <2>3, <2>4, <1>6 DEF MessageSound
<1>9. ASSUME req.op # "close", NEW m, m = new PROVE MessageSound(m)'
  <2>m. /\ m.ticket = t /\ m.by = req.by /\ m.at = req.at
        /\ m.present = req.present /\ m.told = req.told
    BY <1>9
  <2>c. m.at < clock'
    BY <2>m, <1>1, <1>2
  <2>1. closedAt'[t] = closedAt[t] /\ tickets'[t] # None
    BY <1>1, <1>5, <1>9
  <2>2. closedAt[t] # None => req.at < closedAt[t]
    BY <1>1, <1>9 DEF RequestSound, SupportInv, TicketSound
  <2>3. CASE req.op = "create"
    <3>1. req.by \in Companies /\ tickets'[t].company = req.by
      BY <2>3, <1>1, <1>2, CommitRow DEF RequestSound, SupportInv, SupportTypeOK
    <3>2. req.present \subseteq req.told
      BY <3>1, <1>1, <1>9 DEF RequestSound
    <3> QED
      BY <3>1, <3>2, <2>1, <2>2, <2>m, <2>c DEF MessageSound, Reaches
  <2>4. CASE req.op = "reply"
    <3>1. Reaches(req.by, t) /\ tickets'[t].company = tickets[t].company
      BY <2>4, <1>1, <1>5 DEF RequestSound
    <3>2. IF req.by \in Companies THEN req.present \subseteq req.told
          ELSE tickets[t].company \in req.told
      BY <1>1, <1>9 DEF RequestSound
    <3>3. Reaches(m.by, m.ticket)'
      BY <3>1, <2>m, <1>1, <1>6
    <3> QED
      BY <3>1, <3>2, <3>3, <2>1, <2>2, <2>m, <2>c DEF MessageSound
  <2> QED
    BY <2>3, <2>4, <1>1, <1>9
<1>10. ASSUME NEW q \in Requests, Busy(q)' PROVE RequestSound(q)'
  <2>1. q # r /\ Busy(q) /\ work'[q] = work[q] /\ RequestSound(q) /\ work[q] \in Request
    BY <1>2, <1>10 DEF SupportInv, SupportTypeOK, Busy
  <2> DEFINE other == work[q]
  <2>2. /\ other.at \in Nat /\ other.at < clock /\ other.ticket \in Tickets
        /\ other.op \in {"create", "reply", "close"} /\ other.present \subseteq active'
    BY <2>1, <1>2 DEF Request, RequestSound
  <2>3. IF other.op = "create"
        THEN /\ other.by \in Companies
             /\ tickets'[other.ticket] = None
             /\ \A p \in Requests \ {q} :
                  Busy(p)' => ~(work'[p].op = "create" /\ work'[p].ticket = other.ticket)
        ELSE tickets'[other.ticket] # None
    <3>1. CASE other.op = "create"
      <4>1. other.by \in Companies /\ tickets[other.ticket] = None
        BY <2>1, <3>1 DEF RequestSound
      <4>2. t # other.ticket
        BY <2>1, <3>1, <1>1, <4>1 DEF RequestSound
      <4>3. \A p \in Requests \ {q} :
              Busy(p)' => ~(work'[p].op = "create" /\ work'[p].ticket = other.ticket)
        BY <1>2, <2>1, <3>1 DEF RequestSound, Busy, SupportInv, SupportTypeOK
      <4> QED
        BY <4>1, <4>2, <4>3, <1>5, <2>2, <3>1
    <3>2. CASE other.op # "create"
      BY <2>1, <2>2, <3>2, <1>5 DEF RequestSound
    <3> QED
      BY <3>1, <3>2
  <2>4. ASSUME other.now # None
        PROVE  /\ other.op # "create" => Reaches(other.by, other.ticket)'
               /\ other.op = "reply" /\ closedAt'[other.ticket] # None =>
                    other.at < closedAt'[other.ticket]
               /\ other.op # "close" =>
                    IF other.by \in Companies THEN other.present \subseteq other.told
                    ELSE tickets'[other.ticket].company \in other.told
    <3>1. other.op # "create" => Reaches(other.by, other.ticket)'
      BY <2>1, <2>2, <2>4, <1>6 DEF RequestSound
    <3>2. other.op = "reply" /\ closedAt'[other.ticket] # None =>
            other.at < closedAt'[other.ticket]
      BY <2>1, <2>2, <2>4, <1>1, <1>5 DEF RequestSound
    <3>3. other.op # "close" =>
            IF other.by \in Companies THEN other.present \subseteq other.told
            ELSE tickets'[other.ticket].company \in other.told
      BY <2>1, <2>2, <2>4, <1>5 DEF RequestSound
    <3> QED
      BY <3>1, <3>2, <3>3
  <2> QED
    BY <2>1, <2>2, <2>3, <2>4, <1>1, <1>2 DEF RequestSound
<1>11. ASSUME NEW m \in messages' PROVE MessageSound(m)'
  BY <1>2, <1>8, <1>9
<1> QED
  BY <1>4, <1>7, <1>10, <1>11 DEF SupportInv

-----------------------------------------------------------------------------

LEMMA StutterSound == ASSUME SupportInv, UNCHANGED supportVars PROVE SupportInv'
<1>1. SupportTypeOK'
  BY DEF SupportInv, SupportTypeOK, supportVars
<1>2. ASSUME NEW q \in Requests, Busy(q)' PROVE RequestSound(q)'
  BY <1>2, Undisturbed DEF supportVars, Busy
<1> QED
  BY <1>1, <1>2, TablesStay DEF SupportInv, supportVars

\* The tables, and what each request in flight has read of its ticket, stay sound
\* at every step, for any number of requests that overlap (add_message, close_ticket).
THEOREM SupportInvariant == SupportSpec => []SupportInv
<1>1. ASSUME SupportInv, [SupportNext]_supportVars PROVE SupportInv'
  <2>1. CASE SupportNext
    BY <1>1, <2>1, BeginSound, HandleSound, CommitSound, AbortSound, SwitchSound DEF SupportNext
  <2> QED
    BY <1>1, <2>1, StutterSound
<1> QED
  BY InitSound, <1>1, PTL DEF SupportSpec

\* Tickets, messages and requests in flight are well typed, for any number of
\* tickets, companies, administrators and requests.
THEOREM SupportTypes == SupportSpec => []SupportTypeOK
<1>1. SupportInv => SupportTypeOK
  BY DEF SupportInv
<1> QED
  BY SupportInvariant, <1>1, PTL

\* However replies and closures overlap, nobody writes in another company's ticket,
\* a closed ticket stays closed and gets no message of a request that began after the
\* closure (add_message, close_ticket).
THEOREM ConversationsAreSound == SupportSpec => []ConversationSound
<1>1. ASSUME SupportInv PROVE ConversationSound
  <2>1. \A m \in messages : tickets[m.ticket] # None /\ Reaches(m.by, m.ticket)
    BY <1>1 DEF SupportInv, MessageSound
  <2>2. ASSUME NEW t \in Tickets, closedAt[t] # None
        PROVE  tickets[t].status = "closed" /\ \A m \in MessagesOf(t) : m.at < closedAt[t]
    BY <1>1, <2>2 DEF SupportInv, MessageSound, TicketSound, MessagesOf
  <2> QED
    BY <2>1, <2>2 DEF ConversationSound
<1> QED
  BY SupportInvariant, <1>1, PTL

\* Whoever is switched on or off meanwhile, a committed message was announced to
\* those it is for (emit_support_*).
THEOREM MessagesAreAnnounced == SupportSpec => []EveryMessageAnnounced
<1>1. SupportInv => EveryMessageAnnounced
  BY DEF SupportInv, MessageSound, EveryMessageAnnounced
<1> QED
  BY SupportInvariant, <1>1, PTL

-----------------------------------------------------------------------------
(* The badges. Lists are ordered by a ticket's stamp and conversations by  *)
(* a message's, so the proofs need that no two stamps are the same.        *)

Stored == {t \in Tickets : tickets[t] # None}

\* The stamps that a request holds and may still write.
StampsOf(r) == {work[r].at} \union ({work[r].now} \ {None})

StampsApart ==
  /\ \A r \in Requests : Busy(r) =>
       /\ \A s \in StampsOf(r) : s < clock
       /\ \A q \in Requests \ {r} : Busy(q) => StampsOf(q) \intersect StampsOf(r) = {}
       /\ \A t \in Stored : tickets[t].updated \notin StampsOf(r)
       /\ \A m \in messages : m.at \notin StampsOf(r)
  /\ \A t \in Stored : tickets[t].updated < clock
  /\ \A t, u \in Stored : tickets[t].updated = tickets[u].updated => t = u
  /\ \A m \in messages : m.at < m.done /\ m.done < clock
  /\ \A m, n \in messages : m.at = n.at => m = n

\* The lists are finite, and every ticket has the message it was opened with.
ListsFinite ==
  /\ IsFiniteSet(Stored) /\ IsFiniteSet(messages)
  /\ \A t \in Stored : \E m \in messages : m.ticket = t

StampInv == StampsApart /\ ListsFinite

LEMMA StampInit == SupportInit => StampInv
BY FS_EmptySet DEF SupportInit, StampInv, StampsApart, ListsFinite, Stored, Busy

\* What the types say of stamps.
LEMMA StampTypes ==
  ASSUME SupportTypeOK
  PROVE  /\ clock \in Nat
         /\ \A r \in Requests : Busy(r) =>
              work[r] \in Request /\ work[r].at \in Nat /\ StampsOf(r) \subseteq Nat
         /\ \A t \in Stored : tickets[t] \in Row /\ tickets[t].updated \in Nat
         /\ \A m \in messages : m \in Message /\ m.at \in Nat /\ m.done \in Nat /\ m.ticket \in Tickets
BY DEF SupportTypeOK, Busy, Request, Row, Message, StampsOf, Stored

\* A request takes the clock's stamp at Begin or Handle, which nobody else has.
LEMMA NewStamp ==
  ASSUME SupportTypeOK, StampInv, NEW r \in Requests,
         UNCHANGED <<tickets, messages>>, clock' = clock + 1, Busy(r)',
         StampsOf(r)' \subseteq {clock} \union (IF Busy(r) THEN StampsOf(r) ELSE {}),
         \A q \in Requests \ {r} : work'[q] = work[q]
  PROVE  StampInv'
<1>1. /\ clock \in Nat
      /\ \A q \in Requests : Busy(q) => \A s \in StampsOf(q) : s \in Nat /\ s < clock /\ s # clock
      /\ \A t \in Stored : tickets[t].updated # clock /\ tickets[t].updated \in Nat
      /\ \A m \in messages : m.at # clock
  <2>1. \A m \in messages : m.at \in Nat /\ m.done \in Nat
    BY StampTypes
  <2> QED
    BY <2>1, StampTypes DEF StampInv, StampsApart
<1>2. ASSUME NEW q \in Requests \ {r} PROVE (Busy(q)' <=> Busy(q)) /\ StampsOf(q)' = StampsOf(q)
  BY DEF Busy, StampsOf
<1>3. Stored' = Stored
  BY DEF Stored
<1>4. ListsFinite'
  BY <1>3 DEF StampInv, ListsFinite
<1>5. ASSUME NEW q \in Requests, Busy(q)'
      PROVE  /\ \A s \in StampsOf(q)' : s < clock'
             /\ \A p \in Requests \ {q} : Busy(p)' => StampsOf(p)' \intersect StampsOf(q)' = {}
             /\ \A t \in Stored : tickets[t].updated \notin StampsOf(q)'
             /\ \A m \in messages : m.at \notin StampsOf(q)'
  <2> QED
    BY <1>1, <1>2, <1>5 DEF StampInv, StampsApart
<1>6. \A t \in Stored : tickets[t].updated < clock'
  BY <1>1 DEF StampInv, StampsApart
<1>7. \A m \in messages : m.done < clock'
  BY <1>1, StampTypes DEF StampInv, StampsApart
<1>8. StampsApart'
  BY <1>3, <1>5, <1>6, <1>7 DEF StampInv, StampsApart
<1> QED
  BY <1>4, <1>8 DEF StampInv

\* A request ends without a word, or the set of administrators changes.
LEMMA StampsDropped ==
  ASSUME SupportTypeOK, StampInv, UNCHANGED <<tickets, messages, clock>>,
         \A q \in Requests : Busy(q)' => Busy(q) /\ StampsOf(q)' = StampsOf(q)
  PROVE  StampInv'
<1>1. Stored' = Stored
  BY DEF Stored
<1>2. ListsFinite'
  BY <1>1 DEF StampInv, ListsFinite
<1>3. StampsApart'
  BY <1>1 DEF StampInv, StampsApart
<1> QED
  BY <1>2, <1>3 DEF StampInv

\* A commit hands the stamps of its request over to the tables.
LEMMA StampsCommitted ==
  ASSUME SupportInv, StampInv, NEW r \in Requests, Commit(r)
  PROVE  StampInv'
<1> DEFINE req == work[r]
           t == req.ticket
           new == [ticket |-> t, by |-> req.by, at |-> req.at, done |-> clock,
                   told |-> req.told, present |-> req.present]
           said == IF req.op = "close" THEN {} ELSE {new}
<1>1. /\ req \in Request /\ RequestSound(r) /\ Busy(r) /\ req.now \in Nat
      /\ t \in Tickets /\ clock \in Nat /\ req.at \in Nat /\ req.at < clock
      /\ req.op \in {"create", "reply", "close"} /\ SupportTypeOK
      /\ Saved(req) \in Row
  BY CommitRow DEF Commit, RequestSound, Request, SupportInv, SupportTypeOK
<1>2. /\ tickets' = [tickets EXCEPT ![t] = Saved(req)]
      /\ messages' = messages \union said
      /\ work' = [work EXCEPT ![r] = None]
      /\ clock' = clock + 1
  BY DEF Commit
<1>3. StampsOf(r) = {req.at, req.now}
  BY <1>1, NotNull DEF StampsOf
<1>4. Saved(req).updated \in StampsOf(r)
  <2>1. CASE req.op = "create"
    <3>1. Saved(req) = [company |-> req.by, status |-> "open", updated |-> req.at]
      BY <2>1 DEF Saved
    <3> QED
      BY <1>3, <3>1
  <2>2. CASE req.op # "create"
    <3>1. tickets[t] \in Row
      BY <2>2, CommitRow
    <3>2. Saved(req).updated = req.now
      <4>1. CASE req.op = "reply"
        <5>1. Saved(req) = [tickets[t] EXCEPT !.updated = req.now]
          BY <4>1 DEF Saved
        <5> QED
          BY <3>1, <5>1 DEF Row
      <4>2. CASE req.op = "close"
        <5>1. Saved(req) = [tickets[t] EXCEPT !.status = "closed", !.updated = req.now]
          BY <4>2 DEF Saved
        <5> QED
          BY <3>1, <5>1 DEF Row
      <4> QED
        BY <1>1, <2>2, <4>1, <4>2
    <3> QED
      BY <1>3, <3>2
  <2> QED
    BY <2>1, <2>2
<1>5. /\ Stored' = Stored \union {t}
      /\ \A u \in Stored' : tickets'[u].updated = IF u = t THEN Saved(req).updated
                                                  ELSE tickets[u].updated
  <2>1. Saved(req) # None
    BY <1>1, NotNull
  <2>2. \A u \in Tickets : tickets'[u] = IF u = t THEN Saved(req) ELSE tickets[u]
    BY <1>1, <1>2 DEF SupportTypeOK
  <2> QED
    BY <1>1, <2>1, <2>2 DEF Stored
<1>6. ASSUME NEW q \in Requests, Busy(q)'
      PROVE  /\ q # r /\ Busy(q) /\ StampsOf(q)' = StampsOf(q)
             /\ StampsOf(q) \intersect StampsOf(r) = {}
  <2>1. q # r /\ Busy(q) /\ work'[q] = work[q]
    BY <1>1, <1>2, <1>6 DEF SupportTypeOK, Busy
  <2> QED
    BY <1>1, <2>1 DEF StampsOf, StampInv, StampsApart
<1>7. ListsFinite'
  <2>1. IsFiniteSet(Stored') /\ IsFiniteSet(messages')
    BY <1>2, <1>5, FS_AddElement DEF StampInv, ListsFinite
  <2>2. ASSUME NEW u \in Stored' PROVE \E m \in messages' : m.ticket = u
    <3>1. CASE u \in Stored
      BY <1>2, <3>1 DEF StampInv, ListsFinite
    <3>2. CASE u \notin Stored
      <4>1. u = t /\ tickets[t] = None
        BY <1>1, <1>5, <3>2 DEF Stored
      <4>2. req.op = "create"
        BY <1>1, <4>1 DEF RequestSound
      <4>3. new \in messages' /\ new.ticket = u
        BY <1>2, <4>1, <4>2
      <4> QED
        BY <4>3
    <3> QED
      BY <3>1, <3>2
  <2> QED
    BY <2>1, <2>2 DEF ListsFinite
<1>8. /\ \A u \in Stored : tickets[u].updated \notin StampsOf(r) /\ tickets[u].updated < clock
      /\ \A m \in messages : m.at \notin StampsOf(r) /\ m.done < clock /\ m.done \in Nat
      /\ \A s \in StampsOf(r) : s < clock /\ s \in Nat
      /\ \A u \in Stored : tickets[u].updated \in Nat
  BY <1>1, StampTypes DEF StampInv, StampsApart
<1>9. \A m \in messages' : m \in messages \/ (m.at = req.at /\ m.done = clock /\ m = new)
  BY <1>2
<1>10. StampsApart'
  <2>1. ASSUME NEW q \in Requests, Busy(q)'
        PROVE  /\ \A s \in StampsOf(q)' : s < clock'
               /\ \A p \in Requests \ {q} : Busy(p)' => StampsOf(p)' \intersect StampsOf(q)' = {}
    <3>1. \A s \in StampsOf(q) : s < clock /\ s \in Nat
      BY <1>1, <1>6, <2>1, StampTypes DEF StampInv, StampsApart
    <3> QED
      BY <1>1, <1>2, <1>6, <2>1, <3>1 DEF StampInv, StampsApart
  <2>2. ASSUME NEW q \in Requests, Busy(q)', NEW u \in Stored'
        PROVE  tickets'[u].updated \notin StampsOf(q)'
    BY <1>4, <1>5, <1>6, <2>2 DEF StampInv, StampsApart
  <2>3. ASSUME NEW q \in Requests, Busy(q)', NEW m \in messages'
        PROVE  m.at \notin StampsOf(q)'
    BY <1>3, <1>6, <1>9, <2>3 DEF StampInv, StampsApart
  <2>4. ASSUME NEW u \in Stored' PROVE tickets'[u].updated < clock'
    BY <1>1, <1>2, <1>4, <1>5, <1>8
  <2>5. ASSUME NEW u \in Stored', NEW v \in Stored', tickets'[u].updated = tickets'[v].updated
        PROVE  u = v
    BY <1>4, <1>5, <1>8, <2>5 DEF StampInv, StampsApart
  <2>6. ASSUME NEW m \in messages' PROVE m.at < m.done /\ m.done < clock'
    BY <1>1, <1>2, <1>8, <1>9 DEF StampInv, StampsApart
  <2>7. ASSUME NEW m \in messages', NEW n \in messages', m.at = n.at PROVE m = n
    BY <1>3, <1>8, <1>9, <2>7 DEF StampInv, StampsApart
  <2> QED
    BY <2>1, <2>2, <2>3, <2>4, <2>5, <2>6, <2>7 DEF StampsApart
<1> QED
  BY <1>7, <1>10 DEF StampInv

\* No two tickets, messages or requests in flight share a stamp, at any time.
THEOREM StampInvariant == SupportSpec => []StampInv
<1>1. ASSUME SupportInv, StampInv, [SupportNext]_supportVars PROVE StampInv'
  <2>0. SupportTypeOK
    BY <1>1 DEF SupportInv
  <2>1. ASSUME NEW r \in Requests, NEW op \in {"create", "reply", "close"},
               NEW who \in Companies \union Admins, NEW t \in Tickets, Begin(r, op, who, t)
        PROVE  StampInv'
    <3>1. /\ work' = [work EXCEPT ![r] = [op |-> op, by |-> who, ticket |-> t, at |-> clock,
                                          now |-> None, told |-> {}, present |-> active]]
          /\ clock' = clock + 1 /\ UNCHANGED <<tickets, messages>>
      BY <2>1 DEF Begin
    <3>2. work'[r].at = clock /\ work'[r].now = None
      BY <2>0, <3>1 DEF SupportTypeOK
    <3>3. work'[r] # None
      <4>1. work'[r] = [op |-> op, by |-> who, ticket |-> t, at |-> clock,
                        now |-> None, told |-> {}, present |-> active]
        BY <2>0, <3>1 DEF SupportTypeOK
      <4>2. work'[r] \in Request
        BY <2>0, <4>1 DEF SupportTypeOK, Request
      <4> QED
        BY <4>2, NotNull
    <3> QED
      BY <1>1, <2>0, <3>1, <3>2, <3>3, NewStamp DEF StampsOf, Busy, SupportTypeOK
  <2>2. ASSUME NEW r \in Requests, Handle(r) PROVE StampInv'
    <3>1. Busy(r) /\ work[r] \in Request /\ clock' = clock + 1 /\ UNCHANGED <<tickets, messages>>
      BY <2>0, <2>2, StampTypes DEF Handle
    <3>2. /\ work'[r].at = work[r].at /\ work'[r].now = clock
          /\ \A q \in Requests \ {r} : work'[q] = work[q]
      BY <2>0, <2>2, <3>1 DEF Handle, SupportTypeOK, Request
    <3>3. Busy(r)'
      <4>1. \E x \in Request : work' = [work EXCEPT ![r] = x]
        BY <1>1, <2>2, HandleWrites
      <4> QED
        BY <2>0, <4>1, NotNull DEF Busy, SupportTypeOK
    <3>4. StampsOf(r)' \subseteq {clock} \union StampsOf(r)
      BY <3>2 DEF StampsOf
    <3> QED
      BY <1>1, <2>0, <3>1, <3>2, <3>3, <3>4, NewStamp
  <2>3. ASSUME NEW r \in Requests, Commit(r) PROVE StampInv'
    BY <1>1, <2>3, StampsCommitted
  <2>4. ASSUME NEW r \in Requests, Abort(r) PROVE StampInv'
    <3>1. work' = [work EXCEPT ![r] = None] /\ UNCHANGED <<tickets, messages, clock>>
      BY <2>4 DEF Abort
    <3>2. \A q \in Requests : Busy(q)' => Busy(q) /\ work'[q] = work[q]
      BY <2>0, <3>1 DEF Busy, SupportTypeOK
    <3> QED
      BY <1>1, <2>0, <3>1, <3>2, StampsDropped DEF StampsOf
  <2>5. ASSUME NEW a \in Admins, SwitchAdmin(a) PROVE StampInv'
    <3>1. UNCHANGED <<tickets, messages, clock>>
      BY <2>5 DEF SwitchAdmin
    <3>2. ASSUME NEW q \in Requests, Busy(q)' PROVE Busy(q) /\ StampsOf(q)' = StampsOf(q)
      <4>1. work'[q] = IF Busy(q) THEN [work[q] EXCEPT !.present = @ \ {a}] ELSE None
        BY <2>5 DEF SwitchAdmin
      <4>2. Busy(q)
        BY <3>2, <4>1 DEF Busy
      <4>3. work[q] \in Request
        BY <2>0, <4>2, StampTypes
      <4> QED
        BY <4>1, <4>2, <4>3 DEF StampsOf, Request
    <3> QED
      BY <1>1, <2>0, <3>1, <3>2, StampsDropped
  <2>6. CASE UNCHANGED supportVars
    BY <1>1, <2>0, <2>6, StampsDropped DEF supportVars, Busy, StampsOf
  <2> QED
    BY <1>1, <2>1, <2>2, <2>3, <2>4, <2>5, <2>6 DEF SupportNext
<1> QED
  BY StampInit, SupportInvariant, <1>1, PTL DEF SupportSpec

-----------------------------------------------------------------------------
(* The lists.                                                              *)

\* ORDER BY updated_at DESC: the later stamp comes first.
NewerTickets == {tu \in Stored \X Stored : tickets[tu[1]].updated > tickets[tu[2]].updated}

\* The same for messages.
NewerMessages == {mn \in messages \X messages : mn[1].at > mn[2].at}

LEMMA TicketsOrdered ==
  ASSUME SupportTypeOK, StampInv, NEW scope \in Companies \union {None},
         NEW status \in Statuses \union {None}
  PROVE  LET rows == Listed(scope, status)
         IN /\ rows \subseteq Stored /\ IsFiniteSet(rows) /\ IsLinear(NewerTickets, rows)
            /\ \A n : Page(scope, status, n) = PageOf(rows, NewerTickets, PageSize, n)
<1> DEFINE rows == Listed(scope, status)
<1>1. rows \subseteq Stored
  BY DEF Listed, Stored
<1>2. \A t \in Stored : tickets[t].updated \in Nat
  BY StampTypes
<1>3. \A t, u \in Stored : <<t, u>> \in NewerTickets <=> tickets[t].updated > tickets[u].updated
  BY DEF NewerTickets
<1>4. IsOrder(NewerTickets, Stored)
  BY <1>2, <1>3 DEF IsOrder
<1>5. ASSUME NEW t \in Stored, NEW u \in Stored
      PROVE  t = u \/ <<t, u>> \in NewerTickets \/ <<u, t>> \in NewerTickets
  <2>1. tickets[t].updated = tickets[u].updated => t = u
    BY DEF StampInv, StampsApart
  <2>2. tickets[t].updated \in Nat /\ tickets[u].updated \in Nat
    BY <1>2
  <2> QED
    BY <1>3, <2>1, <2>2
<1> HIDE DEF rows
<1>6. IsLinear(NewerTickets, rows)
  BY <1>1, <1>4, <1>5 DEF IsLinear, IsOrder
<1>7. IsFiniteSet(rows)
  BY <1>1, FS_Subset DEF StampInv, ListsFinite
<1>8. ASSUME NEW n PROVE Page(scope, status, n) = PageOf(rows, NewerTickets, PageSize, n)
  <2>1. \A t \in rows :
          Predecessors(rows, NewerTickets, t) = {u \in rows : tickets[u].updated > tickets[t].updated}
    BY <1>1, <1>3 DEF Predecessors
  <2> QED
    BY <2>1 DEF Page, PageOf, RankIn, rows
<1> QED
  BY <1>1, <1>6, <1>7, <1>8 DEF rows

\* The pages that support_list and admin_support_list show partition their list, and
\* a page past the end is the last one.
LEMMA ListsAreShown ==
  ASSUME SupportTypeOK, StampInv, NEW scope \in Companies \union {None},
         NEW param, ListStatus(param) \in Statuses \union {None}
  PROVE  LET rows == Listed(scope, ListStatus(param))
             pages == TotalPages(Cardinality(rows))
         IN /\ UNION {ShownPage(scope, param, n) : n \in 1..pages} = rows
            /\ \A n \in 1..pages : \A k \in 1..pages :
                 n # k => ShownPage(scope, param, n) \intersect ShownPage(scope, param, k) = {}
            /\ rows # {} => ShownPage(scope, param, pages + 1) # {}
<1> SUFFICES ASSUME NEW status \in Statuses \union {None}, status = ListStatus(param),
                    NEW rows, rows = Listed(scope, status),
                    NEW pages, pages = TotalPages(Cardinality(rows))
             PROVE  /\ UNION {ShownPage(scope, param, n) : n \in 1..pages} = rows
                    /\ \A n \in 1..pages : \A k \in 1..pages :
                         n # k => ShownPage(scope, param, n) \intersect ShownPage(scope, param, k) = {}
                    /\ rows # {} => ShownPage(scope, param, pages + 1) # {}
  OBVIOUS
<1>1. /\ IsFiniteSet(rows) /\ IsLinear(NewerTickets, rows)
      /\ \A n : Page(scope, status, n) = PageOf(rows, NewerTickets, PageSize, n)
  BY TicketsOrdered
<1>2. pages = PagesFor(Cardinality(rows), PageSize)
  BY DEF TotalPages, PagesFor
<1>3. /\ pages \in Nat \ {0}
      /\ \A t \in rows : \E n \in 1..pages : t \in PageOf(rows, NewerTickets, PageSize, n)
      /\ \A m, n \in 1..pages : m # n =>
           PageOf(rows, NewerTickets, PageSize, m) \intersect PageOf(rows, NewerTickets, PageSize, n) = {}
      /\ rows # {} => PageOf(rows, NewerTickets, PageSize, pages) # {}
  BY <1>1, <1>2, PagesPartition, PageAssumption
<1>4. ASSUME NEW n \in Nat
      PROVE  ShownPage(scope, param, n) =
               PageOf(rows, NewerTickets, PageSize, IF n > pages THEN pages ELSE n)
  BY <1>1 DEF ShownPage
<1>5. \A n \in 1..pages : ShownPage(scope, param, n) = PageOf(rows, NewerTickets, PageSize, n)
  <2>1. \A n \in 1..pages : n \in Nat /\ ~(n > pages)
    BY <1>3
  <2> QED
    BY <1>4, <2>1
<1>6. ShownPage(scope, param, pages + 1) = PageOf(rows, NewerTickets, PageSize, pages)
  <2>1. pages + 1 \in Nat /\ pages + 1 > pages
    BY <1>3
  <2> QED
    BY <1>4, <2>1
<1>7. UNION {ShownPage(scope, param, n) : n \in 1..pages} = rows
  <2>1. \A n : PageOf(rows, NewerTickets, PageSize, n) \subseteq rows
    BY DEF PageOf
  <2> QED
    BY <1>3, <1>5, <2>1
<1> QED
  BY <1>3, <1>5, <1>6, <1>7

\* The message that the page of a ticket ends with.
EndOf(t) == CHOOSE m \in MessagesOf(t) : \A n \in MessagesOf(t) : n.at <= m.at

\* Every ticket ends with one message, the one that the badge's SELECT finds.
LEMMA ConversationEnds ==
  ASSUME SupportTypeOK, StampInv, NEW t \in Stored
  PROVE  /\ EndOf(t) \in MessagesOf(t) /\ \A n \in MessagesOf(t) : n.at <= EndOf(t).at
         /\ \A m \in MessagesOf(t) : m.at = LatestAt(t) <=> m = EndOf(t)
<1> DEFINE own == MessagesOf(t)
           last == EndOf(t)
<1>1. own \subseteq messages /\ own # {} /\ IsFiniteSet(own)
  <2>1. own \subseteq messages /\ own # {}
    BY DEF StampInv, ListsFinite, MessagesOf
  <2> HIDE DEF own
  <2> QED
    BY <2>1, FS_Subset DEF StampInv, ListsFinite
<1>2. \A m \in messages : m.at \in Nat
  BY StampTypes
<1>3. \A m, n \in messages : <<m, n>> \in NewerMessages <=> m.at > n.at
  BY DEF NewerMessages
<1> HIDE DEF own
<1>4. IsOrder(NewerMessages, own)
  BY <1>1, <1>2, <1>3 DEF IsOrder
<1>5. PICK m \in own : \A n \in own : <<n, m>> \notin NewerMessages
  BY <1>1, <1>4, FirstExists
<1>6. \A n \in own : n.at <= m.at
  <2>1. \A n \in own : ~(n.at > m.at) /\ n.at \in Nat /\ m.at \in Nat
    BY <1>1, <1>2, <1>3, <1>5
  <2> QED
    BY <2>1
<1>7. last \in own /\ \A n \in own : n.at <= last.at
  <2>1. last = CHOOSE x \in own : \A n \in own : n.at <= x.at
    BY DEF EndOf, own
  <2> QED
    BY <1>6, <2>1
<1> HIDE DEF last
<1>8. LatestAt(t) = last.at
  <2> DEFINE stamps == {n.at : n \in own}
  <2>1. last.at \in stamps /\ \A n \in own : n.at <= last.at
    BY <1>7
  <2>2. \A at \in stamps : (\A n \in own : n.at <= at) => at = last.at
    <3>1. ASSUME NEW at \in stamps, \A n \in own : n.at <= at PROVE at = last.at
      <4>1. PICK n \in own : at = n.at
        OBVIOUS
      <4>2. n.at \in Nat /\ last.at \in Nat /\ last.at <= at /\ n.at <= last.at
        BY <1>1, <1>2, <1>7, <3>1
      <4> QED
        BY <4>1, <4>2
    <3> QED
      BY <3>1
  <2>3. LatestAt(t) = CHOOSE at \in stamps : \A n \in own : n.at <= at
    BY DEF LatestAt, own
  <2> HIDE DEF stamps
  <2> QED
    BY <2>1, <2>2, <2>3
<1>9. \A n \in own : n.at = last.at => n = last
  BY <1>1, <1>7 DEF StampInv, StampsApart
<1> QED
  BY <1>7, <1>8, <1>9 DEF own, last

\* So the badge's SELECT finds as many messages as there are tickets of the list that
\* end with an administrator's.
LEMMA BadgeCounts ==
  ASSUME SupportTypeOK, StampInv, NEW c \in Companies
  PROVE  Alerts(c) = Cardinality({t \in Listed(c, "open") : ByAdmin(EndOf(t))})
<1> DEFINE unread == {t \in Listed(c, "open") : ByAdmin(EndOf(t))}
           found == {m \in messages : /\ m.at = LatestAt(m.ticket)
                                      /\ tickets[m.ticket].company = c
                                      /\ m.ticket \in Open
                                      /\ ByAdmin(m)}
           f == [t \in unread |-> EndOf(t)]
<1>1. c # None /\ "open" # None /\ "open" \in Statuses
  BY NullAssumption DEF Statuses
<1>2. \A t : t \in Listed(c, "open") <=> t \in Open /\ tickets[t].company = c
  BY <1>1 DEF Listed, Open, Has
<1>3. unread \subseteq Stored /\ Open \subseteq Stored
  BY <1>2 DEF Open, Has, Stored
<1>4. IsFiniteSet(unread)
  <2> HIDE DEF unread
  <2> QED
    BY <1>3, FS_Subset DEF StampInv, ListsFinite
<1>5. \A t \in Stored : /\ EndOf(t) \in messages /\ EndOf(t).ticket = t
                        /\ EndOf(t).at = LatestAt(t)
                        /\ \A m \in MessagesOf(t) : m.at = LatestAt(t) => m = EndOf(t)
  <2>1. \A t \in Stored : EndOf(t) \in MessagesOf(t)
    BY ConversationEnds
  <2> QED
    BY <2>1, ConversationEnds DEF MessagesOf
<1>6. ASSUME NEW t \in unread PROVE f[t] \in found
  <2>1. f[t] = EndOf(t) /\ t \in Stored /\ t \in Open /\ tickets[t].company = c /\ ByAdmin(EndOf(t))
    BY <1>2, <1>3
  <2> QED
    BY <1>5, <2>1
<1>7. \A t, u \in unread : f[t] = f[u] => t = u
  BY <1>3, <1>5
<1>8. ASSUME NEW m \in found PROVE \E t \in unread : f[t] = m
  <2>1. m.ticket \in Listed(c, "open") /\ m.ticket \in Stored
    BY <1>2, <1>3
  <2>2. m = EndOf(m.ticket)
    BY <1>5, <2>1 DEF MessagesOf
  <2> QED
    BY <2>1, <2>2
<1>9. f \in [unread -> found]
  BY <1>6
<1> HIDE DEF f, unread, found
<1>10. f \in Bijection(unread, found)
  BY <1>7, <1>8, <1>9, Fun_IsBij
<1>11. Cardinality(unread) = Cardinality(found)
  <2>1. ExistsBijection(unread, found)
    BY <1>10 DEF ExistsBijection
  <2> QED
    BY <1>4, <2>1, FS_Bijection
<1> QED
  BY <1>11 DEF Alerts, found, unread

\* An answer after everything the company wrote sets the badge of a ticket, and a
\* message of the company after every answer clears it.
LEMMA LastWordCounts ==
  ASSUME SupportTypeOK, StampInv, NEW t \in Stored, NEW some, NEW others,
         some \union others = messages, some \intersect others = {},
         \E m \in MessagesOf(t) \intersect some :
           \A n \in MessagesOf(t) \intersect others : m.at > n.done
  PROVE  EndOf(t) \in some
<1>1. PICK m \in MessagesOf(t) \intersect some :
        \A n \in MessagesOf(t) \intersect others : m.at > n.done
  OBVIOUS
<1>2. EndOf(t) \in MessagesOf(t) /\ m.at <= EndOf(t).at
  BY ConversationEnds
<1>3. EndOf(t) \in messages /\ m \in messages
  BY <1>2 DEF MessagesOf
<1>4. /\ EndOf(t).at < EndOf(t).done /\ EndOf(t).at \in Nat /\ EndOf(t).done \in Nat
      /\ m.at \in Nat
  BY <1>3, StampTypes DEF StampInv, StampsApart
<1> SUFFICES ASSUME EndOf(t) \in others PROVE FALSE
  BY <1>3
<1>5. m.at > EndOf(t).done
  BY <1>1, <1>2
<1> QED
  BY <1>2, <1>4, <1>5

\* However requests overlap, the badges agree with the lists and the lists show every
\* ticket once, for any page size (support/router.py, support/service.py).
THEOREM BadgesAreRight == SupportSpec => []BadgesMatchLists
<1>1. ASSUME SupportInv, StampInv PROVE BadgesMatchLists
  <2>0. SupportTypeOK
    BY <1>1 DEF SupportInv
  <2>1. \A param \in {"", "all", "open", "closed"} : ListStatus(param) \in Statuses \union {None}
    BY Zenon DEF ListStatus, Statuses
  <2>2. ListStatus("") = "open"
    BY Zenon DEF ListStatus
  <2> DEFINE default == ""
             Pages(scope) == 1..TotalPages(Cardinality(Listed(scope, "open")))
             Shown(scope) == UNION {ShownPage(scope, default, n) : n \in Pages(scope)}
             admins == {m \in messages : ByAdmin(m)}
  <2>3. ListStatus(default) = "open" /\ ListStatus(default) \in Statuses \union {None}
    BY <2>2, Zenon DEF Statuses
  <2> HIDE DEF default
  <2>4. ASSUME NEW scope \in Companies \union {None} PROVE Shown(scope) = Listed(scope, "open")
    BY <1>1, <2>0, <2>3, ListsAreShown
  <2>5. OpenTickets = Cardinality(Shown(None))
    <3>1. Listed(None, "open") = Open
      <4>1. "open" # None
        BY NullAssumption DEF Statuses
      <4> QED
        BY <4>1 DEF Listed, Open, Has
    <3> QED
      BY <2>4, <3>1 DEF OpenTickets
  <2>6. ASSUME NEW c \in Companies
        PROVE  LET unread == {t \in Shown(c) : ByAdmin(EndOf(t))}
               IN /\ Alerts(c) = Cardinality(unread)
                  /\ \A t \in Shown(c) :
                       /\ (\E m \in MessagesOf(t) \intersect admins :
                             \A n \in MessagesOf(t) \intersect (messages \ admins) : m.at > n.done)
                          => t \in unread
                       /\ (\E m \in MessagesOf(t) \intersect (messages \ admins) :
                             \A n \in MessagesOf(t) \intersect admins : m.at > n.done)
                          => t \notin unread
    <3> HIDE DEF Shown
    <3>1. Shown(c) = Listed(c, "open")
      BY <2>4
    <3>2. Shown(c) \subseteq Stored
      BY <3>1 DEF Listed, Stored
    <3>3. Alerts(c) = Cardinality({t \in Shown(c) : ByAdmin(EndOf(t))})
      BY <1>1, <2>0, <3>1, BadgeCounts
    <3>4. ASSUME NEW t \in Shown(c),
                 \E m \in MessagesOf(t) \intersect admins :
                   \A n \in MessagesOf(t) \intersect (messages \ admins) : m.at > n.done
          PROVE  ByAdmin(EndOf(t))
      <4>1. EndOf(t) \in admins
        <5> DEFINE others == messages \ admins
        <5>1. admins \union others = messages /\ admins \intersect others = {} /\ t \in Stored
          BY <3>2
        <5> HIDE DEF admins, others
        <5> QED
          BY <1>1, <2>0, <3>4, <5>1, LastWordCounts DEF others
      <4> QED
        BY <4>1
    <3>5. ASSUME NEW t \in Shown(c),
                 \E m \in MessagesOf(t) \intersect (messages \ admins) :
                   \A n \in MessagesOf(t) \intersect admins : m.at > n.done
          PROVE  ~ByAdmin(EndOf(t))
      <4>1. EndOf(t) \in messages \ admins
        <5> DEFINE others == messages \ admins
        <5>1. others \union admins = messages /\ others \intersect admins = {} /\ t \in Stored
          BY <3>2
        <5> HIDE DEF admins, others
        <5> QED
          BY <1>1, <2>0, <3>5, <5>1, LastWordCounts DEF others
      <4> QED
        BY <4>1
    <3> QED
      BY <3>3, <3>4, <3>5
  <2>7. ASSUME NEW scope \in Companies \union {None}, NEW param \in {"", "all", "open", "closed"}
        PROVE  LET rows == Listed(scope, ListStatus(param))
                   pages == TotalPages(Cardinality(rows))
               IN /\ UNION {ShownPage(scope, param, n) : n \in 1..pages} = rows
                  /\ \A n \in 1..pages : \A k \in 1..pages :
                       n # k => ShownPage(scope, param, n) \intersect ShownPage(scope, param, k) = {}
                  /\ rows # {} => ShownPage(scope, param, pages + 1) # {}
    <3>1. ListStatus(param) \in Statuses \union {None}
      BY <2>1, Zenon
    <3> QED
      BY <1>1, <2>0, <3>1, ListsAreShown, Zenon
  <2> QED
    BY <2>5, <2>6, <2>7, Zenon DEF BadgesMatchLists, EndOf, default
<1> QED
  BY SupportInvariant, StampInvariant, <1>1, PTL
=============================================================================
