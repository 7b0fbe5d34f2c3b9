------------------------- MODULE CompanyAccess_proofs -------------------------
(***************************************************************************)
(* Proofs about CompanyAccess, for any number of companies, sessions and   *)
(* requests.  Base says what a request in flight has loaded, that what it  *)
(* wants to insert is not there and what it wants to update is, and that   *)
(* operations that are kept apart are.  It is inductive by itself, and the *)
(* properties of the second half are proved from it; together they give    *)
(* the refinement of AccessPromise.                                        *)
(***************************************************************************)
EXTENDS CompanyAccess, TLAPS

\* What request q has loaded by the stage it is at.
Shape(q) ==
  /\ q \in RequestRow
  /\ q.at = "insert" =>
       /\ q.op \in {"register", "create"}
       /\ q.newCompany \in CompanyRow /\ q.account \in AccountRow
       /\ q.newCompany.status = IF q.account.password.temporary THEN "active" ELSE "pending"
       /\ q.account.is_active
       /\ q.account.must_change = q.account.password.temporary
  /\ q.op \in Decisions =>
       /\ q.company \in CompanyRow /\ q.newCompany \in CompanyRow
       /\ q.company.status = From[q.op] /\ q.newCompany.status = To[q.op]
       /\ q.newCompany.inn = q.company.inn
  /\ q.op \in Edits /\ q.at = "write" =>
       /\ q.company \in CompanyRow /\ q.newCompany \in CompanyRow
       /\ q.newCompany.status = q.company.status
  /\ q.op \in {"deactivate", "activate"} \union PasswordWrites
       /\ q.at \in {"write", "flushed"} => q.account \in AccountRow
  /\ q.op \in Entries => q.account \in AccountRow
  /\ IF q.op \in {"change", "profile"} THEN q.token \in Tokens ELSE q.token = NoToken
  /\ q.token \notin q.revokes

\* An id that is being inserted is used by that request alone.
Target(r) ==
  IF req[r].at = "insert"
  THEN /\ ~Exists(req[r].of)
       /\ \A o \in Requests \ {r} : ~On(o, req[r].of)
  ELSE Exists(req[r].of)

Distinct ==
  \A r, o \in Requests :
    r # o /\ InFlight(r) /\ InFlight(o) /\ req[r].of = req[o].of
      => ~Disturb(req[r].op, req[o].op)

Base ==
  /\ TypeOK
  /\ \A r \in Requests : InFlight(r) => Shape(req[r]) /\ Target(r)
  /\ \A s \in sessions : Exists(s.of)
  /\ Distinct

-----------------------------------------------------------------------------

\* A company exists when its row is a CompanyRow.
LEMMA Rows ==
  ASSUME TypeOK, NEW c \in Companies
  PROVE  /\ Exists(c) => company[c] \in CompanyRow /\ account[c] \in AccountRow
         /\ ~Exists(c) => company[c] = NoCompany /\ account[c] = NoAccount
BY DEF TypeOK, Exists, NoCompany, CompanyRow, CompanyStatus

\* The statuses of the four decisions.
LEMMA Transitions ==
  /\ From["approve"] = "pending" /\ To["approve"] = "active"
  /\ From["reject"] = "pending" /\ To["reject"] = "rejected"
  /\ From["deactivate"] = "active" /\ To["deactivate"] = "suspended"
  /\ From["activate"] = "suspended" /\ To["activate"] = "active"
BY DEF From, To, Decisions

\* Two operations that are kept apart are so in either order.
LEMMA DisturbSymmetric ==
  ASSUME NEW a, NEW b, Disturb(a, b) PROVE Disturb(b, a)
BY DEF Disturb

\* A step that changes no row keeps Base when the request it leaves in slot r has
\* loaded what its stage requires and disturbs none of the others.
LEMMA QuietStep ==
  ASSUME Base, UNCHANGED rows, NEW r \in Requests, NEW q,
         req' = [req EXCEPT ![r] = q],
         \/ q = Idle
         \/ /\ Shape(q)
            /\ IF q.at = "insert"
               THEN ~Exists(q.of) /\ \A o \in Requests \ {r} : ~On(o, q.of)
               ELSE Exists(q.of)
            /\ \A o \in Requests \ {r} : On(o, q.of) => ~Disturb(q.op, req[o].op)
  PROVE  Base'
<1> USE DEF rows
<1>1. req \in [Requests -> RequestRow \union {Idle}]
  BY DEF Base, TypeOK
<1>2. q \in RequestRow \union {Idle}
  BY DEF Shape
<1>3. TypeOK'
  BY <1>1, <1>2 DEF Base, TypeOK, Exists
<1>4. /\ req'[r] = q
      /\ \A o \in Requests \ {r} : req'[o] = req[o]
  BY <1>1
<1>5. \A c \in Companies : Exists(c)' <=> Exists(c)
  BY DEF Exists
<1>6. Idle.at = "idle"
  BY DEF Idle
<1>7. \A o \in Requests : InFlight(o)' => req'[o].of \in Companies
  BY <1>1, <1>2, <1>3, <1>4, <1>6 DEF InFlight, TypeOK, RequestRow
<1>8. ASSUME NEW o \in Requests, InFlight(o)' PROVE Shape(req'[o]) /\ Target(o)'
  <2>1. CASE o = r
    <3>1. q # Idle
      BY <1>4, <1>6, <1>8, <2>1 DEF InFlight
    <3> QED BY <1>4, <1>5, <1>7, <1>8, <2>1, <3>1 DEF Target, On, InFlight, Exists
  <2>2. CASE o # r
    <3>1. InFlight(o) /\ Shape(req[o]) /\ Target(o)
      BY <1>4, <1>8, <2>2 DEF Base, InFlight
    <3>2. InFlight(r)' => ~(req[o].at = "insert" /\ q.of = req[o].of)
      BY <1>4, <1>6, <3>1, <2>2 DEF Target, InFlight, On
    <3> QED BY <1>4, <1>5, <2>2, <3>1, <3>2 DEF Target, On, InFlight, Exists
  <2> QED BY <2>1, <2>2
<1>9. \A s \in sessions' : Exists(s.of)'
  BY DEF Base, Exists
<1>10. Distinct'
  BY <1>4, <1>6, DisturbSymmetric DEF Base, Distinct, InFlight, On
<1> QED BY <1>3, <1>8, <1>9, <1>10 DEF Base

\* The first step of a handler.
LEMMA StartStep ==
  ASSUME Base, UNCHANGED rows, NEW r \in Requests, NEW q, Starts(r, q), Shape(q),
         IF q.at = "insert" THEN FreshId(q.of) ELSE Exists(q.of)
  PROVE  Base'
BY QuietStep DEF Starts, Apart, FreshId

\* A step that goes on with a handler.
LEMMA BecomeStep ==
  ASSUME Base, UNCHANGED rows, NEW r \in Requests, InFlight(r), NEW q, Becomes(r, q),
         Shape(q), q.of = req[r].of, q.op = req[r].op,
         q.at # "insert", req[r].at # "insert"
  PROVE  Base'
<1>1. Exists(q.of)
  BY DEF Base, Target
<1>2. \A o \in Requests \ {r} : On(o, q.of) => ~Disturb(q.op, req[o].op)
  BY DEF Base, Distinct, On
<1> QED BY <1>1, <1>2, QuietStep DEF Becomes

\* A handler that ends without a trace.
LEMMA EndStep ==
  ASSUME Base, UNCHANGED rows, NEW r \in Requests, Ends(r)
  PROVE  Base'
BY QuietStep DEF Ends

\* A commit that leaves well-typed rows of the request's company.
LEMMA CommitStep ==
  ASSUME Base, NEW r \in Requests, InFlight(r), req[r].at # "insert",
         NEW row \in CompanyRow, NEW acc \in AccountRow,
         company' = [company EXCEPT ![req[r].of] = row],
         account' = [account EXCEPT ![req[r].of] = acc],
         sessions' \subseteq SessionRow,
         \A s, t \in sessions' : s.token = t.token => s = t,
         \A s \in sessions' : Exists(s.of),
         Ends(r)
  PROVE  Base'
<1> DEFINE c == req[r].of
<1>1. /\ req \in [Requests -> RequestRow \union {Idle}]
      /\ company \in [Companies -> CompanyRow \union {NoCompany}]
      /\ account \in [Companies -> AccountRow \union {NoAccount}]
  BY DEF Base, TypeOK
<1>2. Idle.at = "idle"
  BY DEF Idle
<1>3. c \in Companies /\ Exists(c)
  BY <1>1, <1>2 DEF Base, Target, InFlight, RequestRow
<1>4. row.status # "absent"
  BY DEF CompanyRow, CompanyStatus
<1>5. \A d \in Companies : Exists(d)' <=> Exists(d)
  BY <1>1, <1>3, <1>4 DEF Exists
<1>6. /\ req'[r] = Idle
      /\ \A o \in Requests \ {r} : req'[o] = req[o]
      /\ req' \in [Requests -> RequestRow \union {Idle}]
  BY <1>1 DEF Ends
<1>7. /\ company' \in [Companies -> CompanyRow \union {NoCompany}]
      /\ account' \in [Companies -> AccountRow \union {NoAccount}]
  BY <1>1, <1>3
<1>8. ASSUME NEW d \in Companies
      PROVE  IF Exists(d)' THEN account'[d] \in AccountRow ELSE account'[d] = NoAccount
  BY <1>1, <1>3, <1>5 DEF Base, TypeOK
<1>9. TypeOK'
  BY <1>6, <1>7, <1>8 DEF TypeOK
<1>10. ASSUME NEW o \in Requests, InFlight(o)' PROVE Shape(req'[o]) /\ Target(o)'
  <2>1. o # r /\ InFlight(o) /\ req'[o] = req[o] /\ Shape(req[o]) /\ Target(o)
    BY <1>2, <1>6, <1>10 DEF InFlight, Base
  <2>2. req[o].of \in Companies
    BY <2>1 DEF Shape, RequestRow
  <2>3. \A p \in Requests : On(p, req[o].of)' => On(p, req[o].of)
    BY <1>2, <1>6, <2>1 DEF On, InFlight
  <2> QED BY <1>5, <2>1, <2>2, <2>3 DEF Target
<1>11. \A s \in sessions' : Exists(s.of)'
  BY <1>5 DEF SessionRow
<1>12. Distinct'
  BY <1>2, <1>6 DEF Base, Distinct, InFlight
<1> QED BY <1>9, <1>10, <1>11, <1>12 DEF Base

\* An UPDATE of some columns of a company row leaves a company row.
LEMMA WrittenRow ==
  ASSUME NEW q, q.company \in CompanyRow, q.newCompany \in CompanyRow,
         company[q.of] \in CompanyRow
  PROVE  WrittenCompany(q) \in CompanyRow
BY DEF WrittenCompany, Written, CompanyRow

\* The requests that write are about a company that exists.
LEMMA InFlightRows ==
  ASSUME Base, NEW r \in Requests, InFlight(r), req[r].at # "insert"
  PROVE  /\ Shape(req[r]) /\ req[r] \in RequestRow /\ req[r].of \in Companies
         /\ Exists(req[r].of)
         /\ company[req[r].of] \in CompanyRow /\ account[req[r].of] \in AccountRow
<1>1. Shape(req[r]) /\ req[r] \in RequestRow /\ req[r].of \in Companies
  BY DEF Base, Shape, RequestRow
<1>2. Exists(req[r].of) /\ TypeOK
  BY DEF Base, Target
<1> QED BY <1>1, <1>2, Rows

\* The initial state satisfies Base.
LEMMA BaseInit == Init => Base
<1> SUFFICES ASSUME Init PROVE Base
  OBVIOUS
<1>1. \A c \in Companies : ~Exists(c)
  BY DEF Init, Exists, NoCompany
<1>2. \A r \in Requests : ~InFlight(r)
  BY DEF Init, InFlight, Idle
<1>3. TypeOK
  BY <1>1 DEF Init, TypeOK
<1> QED BY <1>2, <1>3 DEF Init, Base, Distinct

-----------------------------------------------------------------------------
(* Base is kept by every action.                                           *)

\* Registration and creation.
LEMMA InsertSteps ==
  ASSUME Base, NEW r \in Requests, NEW c \in Companies, NEW login \in Logins, NEW h \in Hashes
  PROVE  /\ \A inn \in Inns : Register(r, c, login, inn, h) => Base'
         /\ \A inn \in Inns \union {NoInn}, billing \in BOOLEAN :
              CreateCompany(r, c, login, inn, billing, h) => Base'
<1>1. ASSUME NEW inn \in Inns, Register(r, c, login, inn, h) PROVE Base'
  <2> DEFINE q == [Request("register", c, "insert") EXCEPT
        !.newCompany = [status |-> "pending", inn |-> inn, billing |-> FALSE],
        !.account = [login |-> login, must_change |-> FALSE, is_active |-> TRUE,
                     password |-> [hash |-> h, temporary |-> FALSE]]]
  <2>1. Shape(q)
    BY DEF Shape, Request, RequestRow, Stage, Operation, Decisions, Edits, PasswordWrites,
           Entries, CompanyRow, CompanyStatus, AccountRow, Passwords
  <2>2. q.at = "insert" /\ q.of = c
    BY DEF Request
  <2> QED BY <1>1, <2>1, <2>2, StartStep DEF Register
<1>2. ASSUME NEW inn \in Inns \union {NoInn}, NEW billing \in BOOLEAN,
             CreateCompany(r, c, login, inn, billing, h)
      PROVE  Base'
  <2> DEFINE q == [Request("create", c, "insert") EXCEPT
        !.newCompany = [status |-> "active", inn |-> inn, billing |-> billing],
        !.account = [login |-> login, must_change |-> TRUE, is_active |-> TRUE,
                     password |-> [hash |-> h, temporary |-> TRUE]]]
  <2>1. Shape(q)
    BY DEF Shape, Request, RequestRow, Stage, Operation, Decisions, Edits, PasswordWrites,
           Entries, CompanyRow, CompanyStatus, AccountRow, Passwords
  <2>2. q.at = "insert" /\ q.of = c
    BY DEF Request
  <2> QED BY <1>2, <2>1, <2>2, StartStep DEF CreateCompany
<1> QED BY <1>1, <1>2

\* The INSERT makes a company and its account together.
LEMMA InsertCompanyStep ==
  ASSUME Base, NEW r \in Requests, InsertCompany(r)
  PROVE  Base'
<1> DEFINE q == req[r]
<1>1. /\ InFlight(r) /\ q.at = "insert" /\ Shape(q) /\ Target(r) /\ q \in RequestRow
      /\ q.of \in Companies /\ q.op \in {"register", "create"}
      /\ q.newCompany \in CompanyRow /\ q.account \in AccountRow
      /\ q.newCompany.status \in {"pending", "active"}
  BY DEF InsertCompany, Base, Shape, RequestRow
<1> PICK c \in Companies : c = q.of
  BY <1>1
<1>2. CASE Ends(r) /\ UNCHANGED rows
  BY <1>2, EndStep
<1>3. CASE ~(Ends(r) /\ UNCHANGED rows)
  <2>1. /\ company' = [company EXCEPT ![c] = q.newCompany]
        /\ account' = [account EXCEPT ![c] = q.account]
        /\ sessions' = sessions
        /\ IF q.op = "create" THEN Ends(r)
           ELSE Becomes(r, [q EXCEPT !.at = "write", !.newCompany = NoCompany])
    BY <1>3 DEF InsertCompany
  <2> DEFINE n == req'[r]
  <2>2. /\ req \in [Requests -> RequestRow \union {Idle}]
        /\ company \in [Companies -> CompanyRow \union {NoCompany}]
        /\ account \in [Companies -> AccountRow \union {NoAccount}]
        /\ sessions \subseteq SessionRow
    BY DEF Base, TypeOK
  <2>3. /\ Idle.at = "idle"
        /\ \A o \in Requests \ {r} : req'[o] = req[o]
    BY <2>1, <2>2 DEF Idle, Ends, Becomes
  <2>4. n = Idle \/ (Shape(n) /\ n.at = "write" /\ n.of = c /\ n.op = q.op)
    <3>1. CASE q.op = "create"
      BY <2>1, <2>2, <3>1 DEF Ends
    <3>2. CASE q.op # "create"
      <4>1. q.op = "register" /\ n = [q EXCEPT !.at = "write", !.newCompany = NoCompany]
        BY <1>1, <2>1, <2>2, <3>2 DEF Becomes
      <4> QED BY <1>1, <4>1 DEF Shape, RequestRow, Stage, Operation, Decisions, Edits,
                                PasswordWrites, Entries
    <3> QED BY <3>1, <3>2
  <2>5. req' \in [Requests -> RequestRow \union {Idle}]
    <3>1. n \in RequestRow \union {Idle}
      BY <2>4 DEF Shape
    <3> QED BY <2>1, <2>2, <3>1 DEF Ends, Becomes
  <2>6. /\ Exists(c)' /\ ~Exists(c)
        /\ \A d \in Companies \ {c} : Exists(d)' <=> Exists(d)
        /\ \A o \in Requests \ {r} : ~On(o, c)
    BY <1>1, <2>1, <2>2 DEF Exists, Target
  <2>7. TypeOK'
    BY <1>1, <2>1, <2>2, <2>5, <2>6 DEF Base, TypeOK
  <2>8. ASSUME NEW o \in Requests, InFlight(o)' PROVE Shape(req'[o]) /\ Target(o)'
    <3>1. CASE o = r
      BY <2>3, <2>4, <2>6, <2>8, <3>1 DEF InFlight, Target
    <3>2. CASE o # r
      <4>1. InFlight(o) /\ req'[o] = req[o] /\ Shape(req[o]) /\ Target(o)
        BY <2>3, <2>8, <3>2 DEF InFlight, Base
      <4>2. req[o].of \in Companies \ {c}
        BY <2>6, <3>2, <4>1 DEF Shape, RequestRow, On
      <4>3. \A p \in Requests : On(p, req[o].of)' => On(p, req[o].of)
        BY <1>1, <2>3, <2>4, <4>1, <4>2 DEF On, InFlight
      <4> QED BY <2>6, <4>1, <4>2, <4>3 DEF Target
    <3> QED BY <3>1, <3>2
  <2>9. \A s \in sessions' : Exists(s.of)'
    BY <2>1, <2>2, <2>6 DEF Base, SessionRow
  <2>10. Distinct'
    <3> SUFFICES ASSUME NEW o \in Requests, NEW p \in Requests, o # p,
                        InFlight(o)', InFlight(p)', req'[o].of = req'[p].of
                 PROVE  ~Disturb(req'[o].op, req'[p].op)
      BY DEF Distinct
    <3> QED BY <1>1, <2>3, <2>4, <2>6 DEF Base, Distinct, InFlight, On
  <2> QED BY <2>7, <2>8, <2>9, <2>10 DEF Base
<1> QED BY <1>2, <1>3

\* The first steps that load something.
LEMMA StartSteps ==
  ASSUME Base, NEW r \in Requests
  PROVE  /\ \A c \in Companies, op \in Decisions : Decide(r, c, op) => Base'
         /\ \A c \in Companies : Reset(r, c) \/ FindLogin(r, c) => Base'
         /\ \A s \in sessions, op \in {"change", "profile"} : Enter(r, s, op) => Base'
         /\ \A c \in Companies, inn \in Inns \union {NoInn}, billing \in BOOLEAN :
              EditCompany(r, c, inn, billing) => Base'
<1> TypeOK
  BY DEF Base
<1> USE DEF Request, RequestRow, Stage, Operation, Decisions, Edits, PasswordWrites, Entries
<1>1. ASSUME NEW c \in Companies, NEW op \in Decisions, Decide(r, c, op) PROVE Base'
  <2> DEFINE at == IF op \in {"approve", "reject"} THEN "write" ELSE "account"
             q == [Request(op, c, at) EXCEPT !.company = company[c],
                     !.newCompany = [company[c] EXCEPT !.status = To[op]]]
  <2>1. From[op] # "absent" /\ To[op] \in CompanyStatus
    BY Transitions DEF CompanyStatus
  <2>2. Exists(c) /\ company[c] \in CompanyRow /\ company[c].status = From[op]
    BY <1>1, <2>1, Rows DEF Decide, Exists
  <2>3. Shape(q)
    BY <2>1, <2>2 DEF Shape, CompanyRow
  <2>4. q.of = c /\ q.at # "insert"
    OBVIOUS
  <2> QED BY <1>1, <2>2, <2>3, <2>4, StartStep DEF Decide
<1>2. ASSUME NEW c \in Companies, Reset(r, c) PROVE Base'
  <2> DEFINE q == [Request("reset", c, "write") EXCEPT !.account = account[c]]
  <2>1. Exists(c) /\ account[c] \in AccountRow
    BY <1>2, Rows DEF Reset
  <2>2. Shape(q) /\ q.of = c /\ q.at # "insert"
    BY <2>1 DEF Shape
  <2> QED BY <1>2, <2>1, <2>2, StartStep DEF Reset
<1>3. ASSUME NEW c \in Companies, FindLogin(r, c) PROVE Base'
  <2> DEFINE q == [Request("login", c, "company") EXCEPT !.account = account[c]]
  <2>1. Exists(c) /\ account[c] \in AccountRow
    BY <1>3, Rows DEF FindLogin, NoAccount
  <2>2. Shape(q) /\ q.of = c /\ q.at # "insert"
    BY <2>1 DEF Shape
  <2> QED BY <1>3, <2>1, <2>2, StartStep DEF FindLogin
<1>4. ASSUME NEW s \in sessions, NEW op \in {"change", "profile"}, Enter(r, s, op) PROVE Base'
  <2> DEFINE q == [Request(op, s.of, "session") EXCEPT !.token = s.token]
  <2>1. Exists(s.of) /\ s.of \in Companies /\ s.token \in Tokens
    BY DEF Base, TypeOK, SessionRow
  <2>2. Shape(q) /\ q.of = s.of /\ q.at # "insert"
    BY <2>1 DEF Shape
  <2> QED BY <1>4, <2>1, <2>2, StartStep DEF Enter
<1>5. ASSUME NEW c \in Companies, NEW inn \in Inns \union {NoInn}, NEW billing \in BOOLEAN,
             EditCompany(r, c, inn, billing)
      PROVE  Base'
  <2> DEFINE q == [Request("edit", c, "write") EXCEPT !.company = company[c],
        !.newCompany = [company[c] EXCEPT !.inn = inn, !.billing = billing]]
  <2>1. Exists(c) /\ company[c] \in CompanyRow
    BY <1>5, Rows DEF EditCompany
  <2>2. Shape(q) /\ q.of = c /\ q.at # "insert"
    BY <2>1 DEF Shape, CompanyRow
  <2> QED BY <1>5, <2>1, <2>2, StartStep DEF EditCompany
<1> QED BY <1>1, <1>2, <1>3, <1>4, <1>5

\* The steps between the first and the commit.
LEMMA MiddleSteps ==
  ASSUME Base, NEW r \in Requests
  PROVE  /\ DecideAccount(r) \/ Flush(r) \/ AuthAccount(r) \/ AuthCompany(r) => Base'
         /\ LoadAccount(r) \/ FindLoginCompany(r) \/ FlushSession(r) => Base'
         /\ \A inn \in Inns \union {NoInn} : LoadProfile(r, inn) => Base'
<1> DEFINE q == req[r]
<1> TypeOK
  BY DEF Base
<1>0. Idle.at = "idle"
  BY DEF Idle
<1> USE DEF At, Stage, Operation, Decisions, Edits, PasswordWrites, Entries
<1>1. ASSUME DecideAccount(r) PROVE Base'
  <2>1. InFlight(r) /\ q.at = "account" /\ q.op \in {"deactivate", "activate"}
    BY <1>1 DEF DecideAccount
  <2>2. Shape(q) /\ q \in RequestRow /\ account[q.of] \in AccountRow
    BY <2>1, InFlightRows
  <2>3. Shape([q EXCEPT !.account = account[q.of], !.at = "write"])
    BY <2>1, <2>2 DEF Shape, RequestRow
  <2> QED BY <1>1, <2>1, <2>2, <2>3, BecomeStep DEF DecideAccount, RequestRow
<1>2. ASSUME Flush(r) PROVE Base'
  <2>1. InFlight(r) /\ q.at = "write" /\ q.op \in PasswordWrites \union {"deactivate"}
    BY <1>2 DEF Flush
  <2>2. Shape(q) /\ q \in RequestRow
    BY <2>1, InFlightRows
  <2>3. Revoked(q) \subseteq Tokens /\ q.token \notin Revoked(q)
    BY DEF Revoked, TypeOK, SessionRow
  <2>4. Shape([q EXCEPT !.at = "flushed", !.revokes = Revoked(q)])
    BY <2>1, <2>2, <2>3 DEF Shape, RequestRow
  <2> QED BY <1>2, <2>1, <2>2, <2>4, BecomeStep DEF Flush, RequestRow
<1>3. ASSUME AuthAccount(r) PROVE Base'
  <2>1. InFlight(r) /\ q.at = "session" /\ q.op \in {"change", "profile"}
    BY <1>3 DEF AuthAccount
  <2>2. Shape(q) /\ q \in RequestRow
    BY <2>1, InFlightRows
  <2>3. Shape([q EXCEPT !.at = "status"])
    BY <2>1, <2>2 DEF Shape, RequestRow
  <2> QED BY <1>3, <2>1, <2>2, <2>3, BecomeStep, EndStep DEF AuthAccount, RequestRow
<1>4. ASSUME AuthCompany(r) PROVE Base'
  <2>1. InFlight(r) /\ q.at = "status" /\ q.op \in {"change", "profile"}
    BY <1>4 DEF AuthCompany
  <2>2. Shape(q) /\ q \in RequestRow
    BY <2>1, InFlightRows
  <2>3. Shape([q EXCEPT !.at = "load"])
    BY <2>1, <2>2 DEF Shape, RequestRow
  <2> QED BY <1>4, <2>1, <2>2, <2>3, BecomeStep, EndStep DEF AuthCompany, RequestRow
<1>5. ASSUME LoadAccount(r) PROVE Base'
  <2>1. InFlight(r) /\ q.at = "load" /\ q.op = "change"
    BY <1>5 DEF LoadAccount
  <2>2. Shape(q) /\ q \in RequestRow /\ account[q.of] \in AccountRow
    BY <2>1, InFlightRows
  <2>3. Shape([q EXCEPT !.account = account[q.of], !.at = "write"])
    BY <2>1, <2>2 DEF Shape, RequestRow
  <2> QED BY <1>5, <2>1, <2>2, <2>3, BecomeStep DEF LoadAccount, RequestRow
<1>6. ASSUME FindLoginCompany(r) PROVE Base'
  <2>1. InFlight(r) /\ q.at = "company" /\ q.op = "login"
    BY <1>6 DEF FindLoginCompany
  <2>2. Shape(q) /\ q \in RequestRow
    BY <2>1, InFlightRows
  <2>3. Shape([q EXCEPT !.at = "write"])
    BY <2>1, <2>2 DEF Shape, RequestRow
  <2> QED BY <1>6, <2>1, <2>2, <2>3, BecomeStep, EndStep DEF FindLoginCompany, RequestRow
<1>7. ASSUME FlushSession(r) PROVE Base'
  <2>1. InFlight(r) /\ q.at = "write" /\ q.op \in Entries
    BY <1>7 DEF FlushSession, InFlight
  <2>2. Shape(q) /\ q \in RequestRow
    BY <2>1, InFlightRows
  <2>3. Shape([q EXCEPT !.at = "flushed"])
    BY <2>1, <2>2 DEF Shape, RequestRow
  <2> QED BY <1>7, <2>1, <2>2, <2>3, BecomeStep DEF FlushSession, RequestRow
<1>8. ASSUME NEW inn \in Inns \union {NoInn}, LoadProfile(r, inn) PROVE Base'
  <2> DEFINE row == company[q.of]
  <2>1. InFlight(r) /\ q.at = "load" /\ q.op = "profile"
    BY <1>8 DEF LoadProfile
  <2>2. Shape(q) /\ q \in RequestRow /\ row \in CompanyRow
    BY <2>1, InFlightRows
  <2>3. Shape([q EXCEPT !.at = "write", !.company = row, !.newCompany = [row EXCEPT !.inn = inn]])
    BY <2>1, <2>2 DEF Shape, RequestRow, CompanyRow
  <2> QED BY <1>8, <2>1, <2>2, <2>3, BecomeStep, EndStep DEF LoadProfile, RequestRow
<1> QED BY <1>1, <1>2, <1>3, <1>4, <1>5, <1>6, <1>7, <1>8

\* What CommitSteps has to know of the sessions that are left.
LEMMA FewerSessions ==
  ASSUME Base, sessions' \subseteq sessions
  PROVE  /\ sessions' \subseteq SessionRow
         /\ \A s, t \in sessions' : s.token = t.token => s = t
         /\ \A s \in sessions' : Exists(s.of)
BY DEF Base, TypeOK

\* The sessions a change of password leaves.
LEMMA ChangedSessions ==
  ASSUME Base, NEW r \in Requests, NEW h \in Hashes, CommitChange(r, h)
  PROVE  /\ sessions' \subseteq SessionRow
         /\ \A s, t \in sessions' : s.token = t.token => s = t
         /\ \A s \in sessions' : Exists(s.of)
         /\ \A s \in sessions' : \E t \in sessions :
              /\ t.token = s.token /\ t.of = s.of /\ t.token \notin req[r].revokes
              /\ s.password = IF t.token = req[r].token
                               THEN [hash |-> h, temporary |-> FALSE] ELSE t.password
<1> DEFINE p == [hash |-> h, temporary |-> FALSE]
           new(t) == IF t.token = req[r].token THEN p ELSE t.password
<1>1. /\ sessions \subseteq SessionRow
      /\ \A s, t \in sessions : s.token = t.token => s = t
      /\ \A s \in sessions : Exists(s.of)
  BY DEF Base, TypeOK
<1>2. \A t \in SessionRow : /\ new(t) \in Passwords
                            /\ [t EXCEPT !.password = new(t)] \in SessionRow
                            /\ [t EXCEPT !.password = new(t)].token = t.token
                            /\ [t EXCEPT !.password = new(t)].of = t.of
                            /\ [t EXCEPT !.password = new(t)].password = new(t)
  BY DEF SessionRow, Passwords
<1>3. sessions' = {[t EXCEPT !.password = new(t)] : t \in Kept(req[r])}
  BY DEF CommitChange
<1>4. ASSUME NEW s \in sessions'
      PROVE  \E t \in sessions :
               /\ s = [t EXCEPT !.password = new(t)]
               /\ s \in SessionRow /\ t.token = s.token /\ t.of = s.of
               /\ t.token \notin req[r].revokes /\ s.password = new(t)
  <2>1. PICK t \in Kept(req[r]) : s = [t EXCEPT !.password = new(t)]
    BY <1>3
  <2>2. t \in sessions /\ t.token \notin req[r].revokes
    BY <2>1 DEF Kept
  <2> HIDE DEF new
  <2> QED BY <1>1, <1>2, <2>1, <2>2
<1> QED
  <2> HIDE DEF new
  <2>1. /\ sessions' \subseteq SessionRow
        /\ \A s, t \in sessions' : s.token = t.token => s = t
        /\ \A s \in sessions' : Exists(s.of)
    BY <1>1, <1>4
  <2>2. \A s \in sessions' : \E t \in sessions :
          /\ t.token = s.token /\ t.of = s.of /\ t.token \notin req[r].revokes
          /\ s.password = new(t)
    BY <1>4
  <2> QED BY <2>1, <2>2 DEF new

\* The commits that write rows.
LEMMA CommitSteps ==
  ASSUME Base, NEW r \in Requests
  PROVE  /\ CommitDecision(r) \/ CommitActivate(r) \/ CommitDeactivate(r) \/ CommitEdit(r) => Base'
         /\ \A h \in Hashes : CommitReset(r, h) \/ CommitChange(r, h) => Base'
<1> DEFINE q == req[r]
<1>1. /\ company \in [Companies -> CompanyRow \union {NoCompany}]
      /\ account \in [Companies -> AccountRow \union {NoAccount}]
  BY DEF Base, TypeOK
<1>2. ASSUME NEW c \in Companies PROVE /\ company = [company EXCEPT ![c] = company[c]]
                                      /\ account = [account EXCEPT ![c] = account[c]]
  BY <1>1
<1>3. q.op \in {"reset", "change"} => \A p \in Passwords, must \in BOOLEAN :
        InFlight(r) /\ q.at = "flushed" => WithPassword(q, p, must) \in AccountRow
  <2> SUFFICES ASSUME NEW p \in Passwords, NEW must \in BOOLEAN, InFlight(r), q.at = "flushed"
               PROVE  WithPassword(q, p, must) \in AccountRow
    OBVIOUS
  <2>1. account[q.of] \in AccountRow
    BY InFlightRows
  <2> QED BY <2>1 DEF WithPassword, Written, AccountRow
<1>4. ASSUME InFlight(r), q.at # "insert", NEW on \in BOOLEAN PROVE SetActive(q, on) \in AccountRow
  <2>1. account[q.of] \in AccountRow
    BY <1>4, InFlightRows
  <2> QED BY <2>1 DEF SetActive, Written, AccountRow
<1>5. ASSUME CommitDecision(r) PROVE Base'
  <2>1. InFlight(r) /\ q.at = "write" /\ q.op \in Decisions
    BY <1>5 DEF CommitDecision, At, Decisions
  <2>2. /\ Shape(q) /\ q.of \in Companies
        /\ company[q.of] \in CompanyRow /\ account[q.of] \in AccountRow
    BY <2>1, InFlightRows
  <2>3. WrittenCompany(q) \in CompanyRow
    BY <2>1, <2>2, WrittenRow DEF Shape
  <2> QED BY <1>2, <1>5, <2>1, <2>2, <2>3, FewerSessions, CommitStep DEF CommitDecision
<1>6. ASSUME CommitActivate(r) PROVE Base'
  <2>1. InFlight(r) /\ q.at = "write" /\ q.op \in Decisions
    BY <1>6 DEF CommitActivate, At, Decisions
  <2>2. Shape(q) /\ q.of \in Companies /\ company[q.of] \in CompanyRow
    BY <2>1, InFlightRows
  <2>3. WrittenCompany(q) \in CompanyRow
    BY <2>1, <2>2, WrittenRow DEF Shape
  <2>4. SetActive(q, TRUE) \in AccountRow
    BY <1>4, <2>1
  <2> QED BY <1>6, <2>1, <2>3, <2>4, FewerSessions, CommitStep DEF CommitActivate
<1>7. ASSUME CommitDeactivate(r) PROVE Base'
  <2>1. InFlight(r) /\ q.at = "flushed" /\ q.op \in Decisions
    BY <1>7 DEF CommitDeactivate, At, Decisions
  <2>2. Shape(q) /\ q.of \in Companies /\ company[q.of] \in CompanyRow
    BY <2>1, InFlightRows
  <2>3. WrittenCompany(q) \in CompanyRow
    BY <2>1, <2>2, WrittenRow DEF Shape
  <2>4. SetActive(q, FALSE) \in AccountRow
    BY <1>4, <2>1
  <2>5. sessions' \subseteq sessions
    BY <1>7 DEF CommitDeactivate, Kept
  <2> QED BY <1>7, <2>1, <2>3, <2>4, <2>5, FewerSessions, CommitStep DEF CommitDeactivate
<1>8. ASSUME CommitEdit(r) PROVE Base'
  <2>1. InFlight(r) /\ q.at = "write" /\ q.op \in Edits
    BY <1>8 DEF CommitEdit, At, Edits
  <2>2. /\ Shape(q) /\ q.of \in Companies
        /\ company[q.of] \in CompanyRow /\ account[q.of] \in AccountRow
    BY <2>1, InFlightRows
  <2>3. WrittenCompany(q) \in CompanyRow
    BY <2>1, <2>2, WrittenRow DEF Shape
  <2>4. CASE company' = company
    BY <1>2, <1>8, <2>1, <2>2, <2>4, FewerSessions, CommitStep DEF CommitEdit
  <2>5. CASE company' = [company EXCEPT ![q.of] = WrittenCompany(q)]
    BY <1>2, <1>8, <2>1, <2>2, <2>3, <2>5, FewerSessions, CommitStep DEF CommitEdit
  <2> QED BY <1>8, <2>4, <2>5 DEF CommitEdit
<1>9. ASSUME NEW h \in Hashes, CommitReset(r, h) PROVE Base'
  <2> DEFINE p == [hash |-> h, temporary |-> TRUE]
  <2>1. InFlight(r) /\ q.at = "flushed" /\ q.op = "reset"
    BY <1>9 DEF CommitReset, At
  <2>2. q.of \in Companies /\ company[q.of] \in CompanyRow
    BY <2>1, InFlightRows
  <2>3. WithPassword(q, p, TRUE) \in AccountRow
    BY <1>3, <2>1 DEF Passwords
  <2>4. sessions' \subseteq sessions
    BY <1>9 DEF CommitReset, Kept
  <2> QED BY <1>2, <1>9, <2>1, <2>2, <2>3, <2>4, FewerSessions, CommitStep DEF CommitReset
<1>10. ASSUME NEW h \in Hashes, CommitChange(r, h) PROVE Base'
  <2> DEFINE p == [hash |-> h, temporary |-> FALSE]
  <2>1. InFlight(r) /\ q.at = "flushed" /\ q.op = "change"
    BY <1>10 DEF CommitChange, At
  <2>2. q.of \in Companies /\ company[q.of] \in CompanyRow
    BY <2>1, InFlightRows
  <2>3. p \in Passwords /\ WithPassword(q, p, FALSE) \in AccountRow
    BY <1>3, <2>1 DEF Passwords
  <2>4. /\ sessions' \subseteq SessionRow
        /\ \A s, t \in sessions' : s.token = t.token => s = t
        /\ \A s \in sessions' : Exists(s.of)
    BY <1>10, ChangedSessions
  <2> QED BY <1>2, <1>10, <2>1, <2>2, <2>3, <2>4, CommitStep DEF CommitChange
<1> QED BY <1>5, <1>6, <1>7, <1>8, <1>9, <1>10

\* A new session, and the end of one.
LEMMA SessionSteps ==
  ASSUME Base
  PROVE  /\ \A r \in Requests, t \in Tokens : CommitSession(r, t) => Base'
         /\ \A s \in sessions : EndSession(s) => Base'
<1>1. ASSUME NEW r \in Requests, NEW t \in Tokens, CommitSession(r, t) PROVE Base'
  <2> DEFINE q == req[r]
             n == [token |-> t, of |-> q.of, password |-> q.account.password]
  <2>1. InFlight(r) /\ q.at = "flushed" /\ q.op \in Entries /\ FreshToken(t)
    BY <1>1 DEF CommitSession
  <2>2. /\ Shape(q) /\ q.of \in Companies /\ Exists(q.of)
        /\ company[q.of] \in CompanyRow /\ account[q.of] \in AccountRow
    BY <2>1, InFlightRows
  <2>3. n \in SessionRow /\ sessions' = sessions \union {n}
    BY <1>1, <2>1, <2>2 DEF Shape, SessionRow, AccountRow, CommitSession
  <2>4. /\ sessions' \subseteq SessionRow
        /\ \A s, u \in sessions' : s.token = u.token => s = u
        /\ \A s \in sessions' : Exists(s.of)
    BY <2>1, <2>2, <2>3 DEF Base, TypeOK, FreshToken
  <2>5. /\ company' = [company EXCEPT ![q.of] = company[q.of]]
        /\ account' = [account EXCEPT ![q.of] = account[q.of]]
    BY <1>1, <2>2 DEF CommitSession, Base, TypeOK
  <2> QED BY <1>1, <2>1, <2>2, <2>4, <2>5, CommitStep DEF CommitSession
<1>2. ASSUME NEW s \in sessions, EndSession(s) PROVE Base'
  <2>1. sessions' \subseteq sessions /\ UNCHANGED <<company, account, req>>
    BY <1>2 DEF EndSession
  <2>2. /\ sessions' \subseteq SessionRow
        /\ \A t, u \in sessions' : t.token = u.token => t = u
        /\ \A t \in sessions' : Exists(t.of)
    BY <2>1, FewerSessions
  <2>3. TypeOK' /\ Distinct' /\ \A t \in sessions' : Exists(t.of)'
    BY <2>1, <2>2 DEF Base, TypeOK, Exists, Distinct, InFlight
  <2>4. \A r \in Requests : InFlight(r)' => Shape(req'[r]) /\ Target(r)'
    BY <2>1 DEF Base, InFlight, Target, On, Exists
  <2> QED BY <2>3, <2>4 DEF Base
<1> QED BY <1>1, <1>2

\* Every step of the specification keeps Base.
LEMMA BaseStep == Base /\ [Next]_vars => Base'
<1> SUFFICES ASSUME Base, [Next]_vars PROVE Base'
  OBVIOUS
<1>1. ASSUME NEW r \in Requests, Public(r) PROVE Base'
  BY <1>1, InsertSteps, InsertCompanyStep, StartSteps, MiddleSteps, SessionSteps DEF Public
<1>2. ASSUME NEW r \in Requests, Client(r) PROVE Base'
  BY <1>2, StartSteps, MiddleSteps, CommitSteps DEF Client
<1>3. ASSUME NEW r \in Requests, Admin(r) PROVE Base'
  <2>1. ASSUME NEW c \in Companies, NEW login \in Logins, NEW inn \in Inns \union {NoInn},
               NEW billing \in BOOLEAN, NEW h \in Hashes, CreateCompany(r, c, login, inn, billing, h)
        PROVE  Base'
    BY <2>1, InsertSteps
  <2> QED BY <1>3, <2>1, StartSteps, MiddleSteps, CommitSteps DEF Admin
<1>4. ASSUME NEW r \in Requests, Flush(r) \/ CommitEdit(r) \/ Fail(r) PROVE Base'
  BY <1>4, MiddleSteps, CommitSteps, EndStep DEF Fail
<1>5. ASSUME NEW s \in sessions, EndSession(s) PROVE Base'
  BY <1>5, SessionSteps
<1>6. CASE UNCHANGED vars
  BY <1>6 DEF vars, Base, TypeOK, Target, Distinct, Exists, InFlight, On
<1> QED BY <1>1, <1>2, <1>3, <1>4, <1>5, <1>6 DEF Next

\* Base, and with it that every row, session and request is well typed, is an
\* invariant of the specification, whatever may overlap.
THEOREM AccessTypes == Spec => []TypeOK
<1>1. Spec => []Base
  BY BaseInit, BaseStep, PTL DEF Spec
<1>2. Base => TypeOK
  BY DEF Base
<1> QED BY <1>1, <1>2, PTL

-----------------------------------------------------------------------------
(* The properties about rows.  RowSteps sorts the steps by the rows they   *)
(* write, LoadSteps by what they load; every invariant below is then kept  *)
(* for each kind of step.                                                  *)

\* A new company and its account, neither tax number nor login of another one.
Inserts(r) ==
  /\ InFlight(r) /\ req[r].at = "insert"
  /\ company' = [company EXCEPT ![req[r].of] = req[r].newCompany]
  /\ account' = [account EXCEPT ![req[r].of] = req[r].account]
  /\ ~InnTaken(req[r].newCompany.inn, req[r].of) /\ ~LoginTaken(req[r].account.login)

\* A decision: the status, and whether the account can be used.
Decides(r) ==
  /\ InFlight(r) /\ req[r].op \in Decisions /\ req[r].at \in {"write", "flushed"} /\ Ends(r)
  /\ \E row \in CompanyRow, acc \in AccountRow :
       /\ company' = [company EXCEPT ![req[r].of] = row]
       /\ account' = [account EXCEPT ![req[r].of] = acc]
       /\ row.status = To[req[r].op] /\ row.inn = company[req[r].of].inn
       /\ acc.login = account[req[r].of].login
       /\ acc.password = account[req[r].of].password
       /\ acc.must_change = account[req[r].of].must_change
       /\ acc.is_active =
            IF req[r].op \in {"activate", "deactivate"}
            THEN Written(req[r].account.is_active, req[r].op = "activate",
                         account[req[r].of].is_active)
            ELSE account[req[r].of].is_active

\* An edit: any column but the status.
EditsRow(r) ==
  /\ InFlight(r) /\ req[r].op \in Edits /\ req[r].at = "write"
  /\ \E row \in CompanyRow :
       /\ company' = [company EXCEPT ![req[r].of] = row] /\ account' = account
       /\ row.status = company[req[r].of].status
       /\ ~InnTaken(row.inn, req[r].of)

\* A reset or a change of the password.
SetsPassword(r) ==
  /\ InFlight(r) /\ req[r].op \in PasswordWrites /\ req[r].at = "flushed" /\ Ends(r)
  /\ \E h \in Hashes :
       /\ FreshHash(h) /\ company' = company
       /\ account' = [account EXCEPT ![req[r].of] =
            WithPassword(req[r], [hash |-> h, temporary |-> req[r].op = "reset"],
                         req[r].op = "reset")]

-----------------------------------------------------------------------------

\* The decisions that commit write the status they stand for.
LEMMA DecidesSteps ==
  ASSUME Base, NEW r \in Requests,
         CommitDecision(r) \/ CommitActivate(r) \/ CommitDeactivate(r)
  PROVE  Decides(r)
<1> DEFINE q == req[r]
<1>1. /\ InFlight(r) /\ q.op \in Decisions /\ q.at \in {"write", "flushed"}
      /\ Ends(r)
      /\ CommitDecision(r) => q.op \in {"approve", "reject"}
      /\ CommitActivate(r) => q.op = "activate"
      /\ CommitDeactivate(r) => q.op = "deactivate"
  BY DEF CommitDecision, CommitActivate, CommitDeactivate, At, Decisions
<1>2. /\ Shape(q) /\ q.of \in Companies
      /\ company[q.of] \in CompanyRow /\ account[q.of] \in AccountRow
  BY <1>1, InFlightRows
<1>3. /\ q.company \in CompanyRow /\ q.newCompany \in CompanyRow
      /\ q.company.status = From[q.op] /\ q.newCompany.status = To[q.op]
      /\ q.newCompany.inn = q.company.inn
  BY <1>1, <1>2 DEF Shape
<1>4. From[q.op] # To[q.op]
  BY <1>1, Transitions DEF Decisions
<1>5. /\ WrittenCompany(q) \in CompanyRow
      /\ WrittenCompany(q).status = To[q.op]
      /\ WrittenCompany(q).inn = company[q.of].inn
  BY <1>2, <1>3, <1>4, WrittenRow DEF WrittenCompany, Written
<1>6. company' = [company EXCEPT ![q.of] = WrittenCompany(q)]
  BY DEF CommitDecision, CommitActivate, CommitDeactivate
<1>7. CASE CommitDecision(r)
  <2>1. account' = [account EXCEPT ![q.of] = account[q.of]]
    BY <1>7, <1>2 DEF CommitDecision, Base, TypeOK
  <2>2. q.op \notin {"activate", "deactivate"}
    BY <1>1, <1>7
  <2> QED BY <1>1, <1>2, <1>5, <1>6, <2>1, <2>2 DEF Decides
<1>8. ASSUME NEW on \in BOOLEAN, q.op = IF on THEN "activate" ELSE "deactivate",
             account' = [account EXCEPT ![q.of] = SetActive(q, on)]
      PROVE  Decides(r)
  <2>1. q.account \in AccountRow
    BY <1>1, <1>2, <1>8 DEF Shape
  <2>2. /\ SetActive(q, on) \in AccountRow
        /\ SetActive(q, on).login = account[q.of].login
        /\ SetActive(q, on).password = account[q.of].password
        /\ SetActive(q, on).must_change = account[q.of].must_change
        /\ SetActive(q, on).is_active = Written(q.account.is_active, on, account[q.of].is_active)
    BY <1>2, <2>1 DEF SetActive, Written, AccountRow
  <2>3. q.op \in {"activate", "deactivate"} /\ on = (q.op = "activate")
    BY <1>8
  <2> QED BY <1>1, <1>5, <1>6, <1>8, <2>2, <2>3 DEF Decides
<1>9. CASE CommitActivate(r)
  BY <1>1, <1>8, <1>9 DEF CommitActivate
<1>10. CASE CommitDeactivate(r)
  BY <1>1, <1>8, <1>10 DEF CommitDeactivate
<1> QED BY <1>7, <1>9, <1>10

\* An edit keeps the status another request has given the company in between.
LEMMA EditsSteps ==
  ASSUME Base, NEW r \in Requests, CommitEdit(r)
  PROVE  UNCHANGED <<company, account>> \/ EditsRow(r)
<1> DEFINE q == req[r]
<1>1. InFlight(r) /\ q.op \in Edits /\ q.at = "write"
  BY DEF CommitEdit, At, Edits
<1>2. Shape(q) /\ company[q.of] \in CompanyRow
  BY <1>1, InFlightRows
<1>3. /\ WrittenCompany(q) \in CompanyRow
      /\ WrittenCompany(q).status = company[q.of].status
  BY <1>1, <1>2, WrittenRow DEF Shape, WrittenCompany, Written
<1> QED BY <1>1, <1>3 DEF CommitEdit, EditsRow

\* Every step that writes a company or an account is one of the four.
LEMMA RowSteps ==
  ASSUME Base, [Next]_vars
  PROVE  \/ UNCHANGED <<company, account>>
         \/ \E r \in Requests : Inserts(r) \/ Decides(r) \/ EditsRow(r) \/ SetsPassword(r)
<1> USE DEF rows
<1>1. ASSUME NEW r \in Requests, Public(r)
      PROVE  UNCHANGED <<company, account>> \/ Inserts(r)
  BY <1>1 DEF Public, Register, InsertCompany, FindLogin, FindLoginCompany, FlushSession,
              CommitSession, Inserts
<1>2. ASSUME NEW r \in Requests, Client(r)
      PROVE  UNCHANGED <<company, account>> \/ SetsPassword(r)
  <2>1. ASSUME NEW h \in Hashes, CommitChange(r, h) PROVE SetsPassword(r)
    <3>1. InFlight(r) /\ req[r].op = "change" /\ req[r].at = "flushed"
      BY <2>1 DEF CommitChange, At
    <3> QED BY <2>1, <3>1 DEF CommitChange, SetsPassword, PasswordWrites
  <2> QED BY <1>2, <2>1 DEF Client, Enter, AuthAccount, AuthCompany, LoadAccount, LoadProfile
<1>3. ASSUME NEW r \in Requests, Admin(r)
      PROVE  UNCHANGED <<company, account>> \/ Decides(r) \/ SetsPassword(r)
  <2>1. ASSUME NEW h \in Hashes, CommitReset(r, h) PROVE SetsPassword(r)
    <3>1. InFlight(r) /\ req[r].op = "reset" /\ req[r].at = "flushed"
      BY <2>1 DEF CommitReset, At
    <3> QED BY <2>1, <3>1 DEF CommitReset, SetsPassword, PasswordWrites
  <2> QED BY <1>3, <2>1, DecidesSteps
          DEF Admin, CreateCompany, Decide, DecideAccount, Reset, EditCompany
<1>4. ASSUME NEW r \in Requests, Flush(r) \/ CommitEdit(r) \/ Fail(r)
      PROVE  UNCHANGED <<company, account>> \/ EditsRow(r)
  BY <1>4, EditsSteps DEF Flush, Fail
<1>5. ASSUME NEW s \in sessions, EndSession(s) PROVE UNCHANGED <<company, account>>
  BY <1>5 DEF EndSession
<1>6. CASE UNCHANGED vars
  BY <1>6 DEF vars
<1> QED BY <1>1, <1>2, <1>3, <1>4, <1>5, <1>6 DEF Next

\* A write of the password assigns the password and the flag.
LEMMA SetsPasswordRow ==
  ASSUME Base, NEW r \in Requests, SetsPassword(r)
  PROVE  \E h \in Hashes :
           /\ FreshHash(h)
           /\ account'[req[r].of].login = account[req[r].of].login
           /\ account'[req[r].of].is_active = account[req[r].of].is_active
           /\ account'[req[r].of].password =
                Written(req[r].account.password, [hash |-> h, temporary |-> req[r].op = "reset"],
                        account[req[r].of].password)
           /\ account'[req[r].of].must_change =
                Written(req[r].account.must_change, req[r].op = "reset",
                        account[req[r].of].must_change)
<1> DEFINE q == req[r]
<1>1. PICK h \in Hashes :
        /\ FreshHash(h)
        /\ account' = [account EXCEPT ![q.of] =
             WithPassword(q, [hash |-> h, temporary |-> q.op = "reset"], q.op = "reset")]
  BY DEF SetsPassword
<1>2. account[q.of] \in AccountRow /\ q.of \in Companies
  BY InFlightRows DEF SetsPassword
<1>3. \A p, must : LET row == WithPassword(q, p, must) IN
        /\ row.login = account[q.of].login /\ row.is_active = account[q.of].is_active
        /\ row.password = Written(q.account.password, p, account[q.of].password)
        /\ row.must_change = Written(q.account.must_change, must, account[q.of].must_change)
  BY <1>2 DEF WithPassword, AccountRow
<1>4. account'[q.of] =
        WithPassword(q, [hash |-> h, temporary |-> q.op = "reset"], q.op = "reset")
  BY <1>1, <1>2 DEF Base, TypeOK
<1> QED BY <1>1, <1>3, <1>4

-----------------------------------------------------------------------------
(* Unique fields.                                                          *)

\* A row written with a tax number and a login no other company has keeps the
\* fields unique; so do the writes that leave both alone.
LEMMA UniqueStep ==
  ASSUME Base, FieldsAreUnique, [Next]_vars
  PROVE  FieldsAreUnique'
<1>1. /\ company \in [Companies -> CompanyRow \union {NoCompany}]
      /\ account \in [Companies -> AccountRow \union {NoAccount}]
  BY DEF Base, TypeOK
<1>2. CASE UNCHANGED <<company, account>>
  BY <1>2 DEF FieldsAreUnique, Exists
<1>3. ASSUME NEW r \in Requests, Inserts(r) PROVE FieldsAreUnique'
  <2>1. req[r].of \in Companies
    BY <1>3 DEF Inserts, Base, Shape, RequestRow
  <2>2. /\ \A d \in Companies \ {req[r].of} : Exists(d) =>
             /\ account[d].login # req[r].account.login
             /\ req[r].newCompany.inn # NoInn => company[d].inn # req[r].newCompany.inn
        /\ \A d \in Companies \ {req[r].of} :
             company'[d] = company[d] /\ account'[d] = account[d]
        /\ company'[req[r].of] = req[r].newCompany /\ account'[req[r].of] = req[r].account
    BY <1>1, <1>3, <2>1 DEF Inserts, InnTaken, LoginTaken
  <2> QED BY <2>1, <2>2 DEF FieldsAreUnique, Exists
<1>4. ASSUME NEW r \in Requests, Decides(r) \/ EditsRow(r) \/ SetsPassword(r)
      PROVE  FieldsAreUnique'
  <2>1. /\ req[r].of \in Companies /\ Exists(req[r].of)
        /\ company[req[r].of] \in CompanyRow /\ account[req[r].of] \in AccountRow
    BY <1>4, InFlightRows DEF Decides, EditsRow, SetsPassword
  <2>2. /\ account'[req[r].of].login = account[req[r].of].login
        /\ \/ company'[req[r].of].inn = company[req[r].of].inn
           \/ ~InnTaken(company'[req[r].of].inn, req[r].of)
    <3>1. CASE Decides(r)
      BY <1>1, <2>1, <3>1 DEF Decides
    <3>2. CASE EditsRow(r)
      BY <1>1, <2>1, <3>2 DEF EditsRow
    <3>3. CASE SetsPassword(r)
      BY <1>1, <2>1, <3>3, SetsPasswordRow DEF SetsPassword
    <3> QED BY <1>4, <3>1, <3>2, <3>3
  <2>3. \A d \in Companies \ {req[r].of} :
          company'[d] = company[d] /\ account'[d] = account[d]
    BY <1>1, <1>4 DEF Decides, EditsRow, SetsPassword
  <2>4. \A d \in Companies \ {req[r].of} : Exists(d)' => Exists(d)
    BY <2>3 DEF Exists
  <2> QED BY <2>1, <2>2, <2>3, <2>4 DEF FieldsAreUnique, InnTaken
<1> QED BY <1>2, <1>3, <1>4, RowSteps

\* Whatever overlaps, two companies share neither login nor tax number: the check
\* before the write may be late, the write is not.
THEOREM UniqueFields == Spec => []FieldsAreUnique
<1>1. Spec => []Base
  BY BaseInit, BaseStep, PTL DEF Spec
<1>2. Init => FieldsAreUnique
  BY DEF Init, FieldsAreUnique, Exists, NoCompany
<1>3. Base /\ FieldsAreUnique /\ [Next]_vars => FieldsAreUnique'
  BY UniqueStep
<1> QED BY <1>1, <1>2, <1>3, PTL DEF Spec

-----------------------------------------------------------------------------
(* What a request in flight has loaded.                                    *)

\* A decision has loaded the company at the status it is made on.
LoadsDecision(o) ==
  /\ req'[o].op \in Decisions /\ company[req'[o].of].status = From[req'[o].op]
  /\ req'[o].at \in IF req'[o].op \in {"approve", "reject"} THEN {"write"} ELSE {"account"}

\* A request has loaded the account it is about to write.
LoadsAccount(o) ==
  /\ req'[o].account = account[req'[o].of]
  /\ \/ req'[o].op = "reset"
     \/ InFlight(o) /\ req'[o].op = req[o].op /\ req'[o].of = req[o].of

\* A request has sent its UPDATE.
Flushes(o) ==
  /\ InFlight(o) /\ req[o].at = "write" /\ req'[o].at = "flushed"
  /\ req'[o].op = req[o].op /\ req'[o].of = req[o].of /\ req'[o].account = req[o].account

\* A request has started or gone on with nothing loaded for a decision or a password.
LoadsElse(o) ==
  /\ req'[o].op \notin Decisions
  /\ req'[o].op \in PasswordWrites => req'[o].at \notin {"write", "flushed"}

\* A step of a request touches its own slot.
LEMMA OneSlot ==
  ASSUME NEW r \in Requests,
         Public(r) \/ Client(r) \/ Admin(r) \/ Flush(r) \/ CommitEdit(r) \/ Fail(r)
  PROVE  \E q : req' = [req EXCEPT ![r] = q]
<1> USE DEF Starts, Becomes, Ends
<1>1. CASE Public(r)
  <2>1. ASSUME \/ \E c \in Companies, login \in Logins, inn \in Inns, h \in Hashes :
                    Register(r, c, login, inn, h)
               \/ InsertCompany(r)
        PROVE  \E q : req' = [req EXCEPT ![r] = q]
    BY <2>1 DEF Register, InsertCompany
  <2>2. ASSUME (\E c \in Companies : FindLogin(r, c)) \/ FindLoginCompany(r)
        PROVE  \E q : req' = [req EXCEPT ![r] = q]
    BY <2>2 DEF FindLogin, FindLoginCompany
  <2>3. ASSUME FlushSession(r) \/ \E t \in Tokens : CommitSession(r, t)
        PROVE  \E q : req' = [req EXCEPT ![r] = q]
    BY <2>3 DEF FlushSession, CommitSession
  <2> QED BY <1>1, <2>1, <2>2, <2>3 DEF Public
<1>2. CASE Client(r)
  <2>1. ASSUME \/ \E s \in sessions, op \in {"change", "profile"} : Enter(r, s, op)
               \/ AuthAccount(r) \/ AuthCompany(r)
        PROVE  \E q : req' = [req EXCEPT ![r] = q]
    BY <2>1 DEF Enter, AuthAccount, AuthCompany
  <2>2. ASSUME \/ LoadAccount(r)
               \/ \E inn \in Inns \union {NoInn} : LoadProfile(r, inn)
               \/ \E h \in Hashes : CommitChange(r, h)
        PROVE  \E q : req' = [req EXCEPT ![r] = q]
    BY <2>2 DEF LoadAccount, LoadProfile, CommitChange
  <2> QED BY <1>2, <2>1, <2>2 DEF Client
<1>3. CASE Admin(r)
  <2>1. ASSUME NEW c \in Companies, NEW login \in Logins, NEW inn \in Inns \union {NoInn},
               NEW billing \in BOOLEAN, NEW h \in Hashes,
               CreateCompany(r, c, login, inn, billing, h)
        PROVE  \E q : req' = [req EXCEPT ![r] = q]
    BY <2>1 DEF CreateCompany
  <2>5. ASSUME NEW c \in Companies, NEW op \in Decisions, Decide(r, c, op)
        PROVE  \E q : req' = [req EXCEPT ![r] = q]
    BY <2>5 DEF Decide
  <2>6. ASSUME DecideAccount(r) PROVE \E q : req' = [req EXCEPT ![r] = q]
    BY <2>6 DEF DecideAccount
  <2>2. ASSUME CommitDecision(r) \/ CommitActivate(r) \/ CommitDeactivate(r)
        PROVE  \E q : req' = [req EXCEPT ![r] = q]
    BY <2>2 DEF CommitDecision, CommitActivate, CommitDeactivate
  <2>3. ASSUME (\E c \in Companies : Reset(r, c)) \/ \E h \in Hashes : CommitReset(r, h)
        PROVE  \E q : req' = [req EXCEPT ![r] = q]
    BY <2>3 DEF Reset, CommitReset
  <2>4. ASSUME \E c \in Companies, inn \in Inns \union {NoInn}, billing \in BOOLEAN :
                 EditCompany(r, c, inn, billing)
        PROVE  \E q : req' = [req EXCEPT ![r] = q]
    BY <2>4 DEF EditCompany
  <2> QED BY <1>3, <2>1, <2>2, <2>3, <2>4, <2>5, <2>6 DEF Admin
<1>4. CASE Flush(r) \/ CommitEdit(r) \/ Fail(r)
  BY <1>4 DEF Flush, CommitEdit, Fail
<1> QED BY <1>1, <1>2, <1>3, <1>4

\* A slot in use after a step is as it was, has loaded something in a step that
\* writes no row, or belongs to no decision and no write of a password.
LEMMA LoadSteps ==
  ASSUME Base, [Next]_vars, NEW o \in Requests, InFlight(o)'
  PROVE  \/ req'[o] = req[o]
         \/ /\ UNCHANGED <<company, account>>
            /\ LoadsDecision(o) \/ LoadsAccount(o) \/ Flushes(o) \/ LoadsElse(o)
         \/ LoadsElse(o)
<1> DEFINE Kind == \/ req'[o] = req[o]
                   \/ /\ UNCHANGED <<company, account>>
                      /\ LoadsDecision(o) \/ LoadsAccount(o) \/ Flushes(o) \/ LoadsElse(o)
                   \/ LoadsElse(o)
<1>0. /\ req \in [Requests -> RequestRow \union {Idle}] /\ Idle.at = "idle"
      /\ req'[o] # Idle
      /\ InFlight(o) => req[o] \in RequestRow
  BY DEF Base, TypeOK, Idle, InFlight
<1> USE DEF rows
<1>1. ASSUME NEW r \in Requests, r # o,
             Public(r) \/ Client(r) \/ Admin(r) \/ Flush(r) \/ CommitEdit(r) \/ Fail(r)
      PROVE  Kind
  <2>1. \E q : req' = [req EXCEPT ![r] = q]
    BY <1>1, OneSlot
  <2> QED BY <1>0, <1>1, <2>1
<1>2. CASE Public(o)
  <2>1. ASSUME NEW c \in Companies, NEW login \in Logins, NEW inn \in Inns, NEW h \in Hashes,
               Register(o, c, login, inn, h)
        PROVE  req'[o].op = "register"
    BY <1>0, <2>1 DEF Register, Starts, Request
  <2>2. ASSUME InsertCompany(o) PROVE req'[o].op = "register"
    <3>1. Shape(req[o]) /\ req[o].op \in {"register", "create"} /\ req[o] \in RequestRow
      BY <2>2 DEF InsertCompany, Base, Shape
    <3>2. req'[o] = [req[o] EXCEPT !.at = "write", !.newCompany = NoCompany]
          /\ req[o].op # "create"
      BY <1>0, <2>2 DEF InsertCompany, Ends, Becomes
    <3> QED BY <3>1, <3>2 DEF RequestRow
  <2>3. ASSUME NEW c \in Companies, FindLogin(o, c) PROVE req'[o].op = "login"
    BY <1>0, <2>3 DEF FindLogin, Starts, Request
  <2>4. ASSUME FindLoginCompany(o) PROVE req'[o].op = "login"
    BY <1>0, <2>4 DEF FindLoginCompany, At, Becomes, Ends, RequestRow
  <2>5. ASSUME FlushSession(o) PROVE req'[o].op \in Entries
    <3>1. InFlight(o) /\ req[o].op \in Entries
      BY <2>5 DEF FlushSession, InFlight
    <3> QED BY <1>0, <2>5, <3>1 DEF FlushSession, Becomes, RequestRow
  <2>6. ASSUME NEW t \in Tokens, CommitSession(o, t) PROVE FALSE
    BY <1>0, <2>6 DEF CommitSession, Ends
  <2> QED BY <1>2, <2>1, <2>2, <2>3, <2>4, <2>5, <2>6
          DEF Public, LoadsElse, Decisions, PasswordWrites, Entries
<1>3. CASE Client(o)
  <2>1. ASSUME NEW s \in sessions, NEW op \in {"change", "profile"}, Enter(o, s, op)
        PROVE  req'[o].op = op /\ req'[o].at = "session"
    BY <1>0, <2>1 DEF Enter, Starts, Request
  <2>2. ASSUME AuthAccount(o) \/ AuthCompany(o)
        PROVE  req'[o].op \in {"change", "profile"} /\ req'[o].at \in {"status", "load"}
    BY <1>0, <2>2 DEF AuthAccount, AuthCompany, At, Becomes, Ends, RequestRow
  <2>3. ASSUME LoadAccount(o) PROVE UNCHANGED <<company, account>> /\ LoadsAccount(o)
    BY <1>0, <2>3 DEF LoadAccount, LoadsAccount, At, Becomes, RequestRow
  <2>4. ASSUME NEW inn \in Inns \union {NoInn}, LoadProfile(o, inn)
        PROVE  req'[o].op = "profile"
    BY <1>0, <2>4 DEF LoadProfile, At, Becomes, Ends, RequestRow
  <2>5. ASSUME NEW h \in Hashes, CommitChange(o, h) PROVE FALSE
    BY <1>0, <2>5 DEF CommitChange, Ends
  <2> QED BY <1>3, <2>1, <2>2, <2>3, <2>4, <2>5
          DEF Client, LoadsElse, Decisions, PasswordWrites
<1>4. CASE Admin(o)
  <2>1. ASSUME NEW c \in Companies, NEW login \in Logins, NEW inn \in Inns \union {NoInn},
               NEW billing \in BOOLEAN, NEW h \in Hashes,
               CreateCompany(o, c, login, inn, billing, h)
        PROVE  req'[o].op = "create"
    BY <1>0, <2>1 DEF CreateCompany, Starts, Request
  <2>2. ASSUME NEW c \in Companies, NEW op \in Decisions, Decide(o, c, op)
        PROVE  UNCHANGED <<company, account>> /\ LoadsDecision(o)
    BY <1>0, <2>2 DEF Decide, LoadsDecision, Starts, Request
  <2>3. ASSUME DecideAccount(o) PROVE UNCHANGED <<company, account>> /\ LoadsAccount(o)
    BY <1>0, <2>3 DEF DecideAccount, LoadsAccount, At, Becomes, RequestRow
  <2>4. ASSUME NEW c \in Companies, Reset(o, c)
        PROVE  UNCHANGED <<company, account>> /\ LoadsAccount(o)
    BY <1>0, <2>4 DEF Reset, LoadsAccount, Starts, Request
  <2>5. ASSUME NEW c \in Companies, NEW inn \in Inns \union {NoInn}, NEW billing \in BOOLEAN,
               EditCompany(o, c, inn, billing)
        PROVE  req'[o].op = "edit"
    BY <1>0, <2>5 DEF EditCompany, Starts, Request
  <2>6. ASSUME \/ CommitDecision(o) \/ CommitActivate(o) \/ CommitDeactivate(o)
               \/ \E h \in Hashes : CommitReset(o, h)
        PROVE  FALSE
    BY <1>0, <2>6 DEF CommitDecision, CommitActivate, CommitDeactivate, CommitReset, Ends
  <2> QED BY <1>4, <2>1, <2>2, <2>3, <2>4, <2>5, <2>6
          DEF Admin, LoadsElse, Decisions, PasswordWrites
<1>5. CASE Flush(o) \/ CommitEdit(o) \/ Fail(o)
  <2>1. ~CommitEdit(o) /\ ~Fail(o)
    BY <1>0 DEF CommitEdit, Fail, Ends
  <2>2. Flushes(o)
    BY <1>0, <1>5, <2>1 DEF Flush, Flushes, At, Becomes, RequestRow
  <2>3. UNCHANGED <<company, account>>
    BY <1>5, <2>1 DEF Flush
  <2> QED BY <2>2, <2>3
<1>6. CASE UNCHANGED req
  BY <1>6
<1> QED BY <1>1, <1>2, <1>3, <1>4, <1>5, <1>6 DEF Next, EndSession, vars

-----------------------------------------------------------------------------
(* Decisions.                                                              *)

\* A decision in flight still sees the status it was made on, and has loaded the
\* flag the account has.
Undecided(o) ==
  InFlight(o) /\ req[o].op \in Decisions =>
    /\ company[req[o].of].status = From[req[o].op]
    /\ req[o].op \in {"activate", "deactivate"} /\ req[o].at \in {"write", "flushed"} =>
         req[o].account.is_active = account[req[o].of].is_active

Decided == AccountFollowsStatus /\ \A o \in Requests : Undecided(o)

\* The rows a committing decision leaves.
LEMMA DecidedRows ==
  ASSUME Base, Decided, NEW r \in Requests, Decides(r)
  PROVE  LET c == req[r].of IN
         /\ <<company[c].status, company'[c].status>> \in
              {<<"pending", "active">>, <<"pending", "rejected">>,
               <<"active", "suspended">>, <<"suspended", "active">>}
         /\ account'[c].is_active <=> company'[c].status # "suspended"
<1> DEFINE q == req[r]
           c == q.of
<1>1. /\ InFlight(r) /\ q.op \in Decisions /\ c \in Companies /\ Exists(c)
      /\ account[c] \in AccountRow /\ Undecided(r)
  BY InFlightRows DEF Decides, Decided
<1>2. /\ company[c].status = From[q.op] /\ company'[c].status = To[q.op]
      /\ account'[c].is_active =
           IF q.op \in {"activate", "deactivate"}
           THEN Written(q.account.is_active, q.op = "activate", account[c].is_active)
           ELSE account[c].is_active
      /\ q.op \in {"activate", "deactivate"} => q.account.is_active = account[c].is_active
  BY <1>1 DEF Decides, Undecided, Base, TypeOK
<1>3. account[c].is_active \in BOOLEAN /\ (account[c].is_active <=> From[q.op] # "suspended")
  BY <1>1, <1>2 DEF Decided, AccountFollowsStatus, AccountRow
<1>4. q.op \in {"approve", "reject", "activate", "deactivate"}
  BY <1>1 DEF Decisions
<1>5. CASE q.op \in {"approve", "reject"}
  BY <1>2, <1>3, <1>5, Transitions
<1>6. CASE q.op = "activate"
  BY <1>2, <1>3, <1>6, Transitions DEF Written
<1>7. CASE q.op = "deactivate"
  BY <1>2, <1>3, <1>7, Transitions DEF Written
<1> QED BY <1>4, <1>5, <1>6, <1>7

\* The rows of the other companies stay as they are.
LEMMA OtherRows ==
  ASSUME Base, NEW r \in Requests,
         Inserts(r) \/ Decides(r) \/ EditsRow(r) \/ SetsPassword(r)
  PROVE  /\ req[r].of \in Companies
         /\ \A d \in Companies \ {req[r].of} :
              company'[d] = company[d] /\ account'[d] = account[d]
<1>1. req[r].of \in Companies
  BY DEF Inserts, Decides, EditsRow, SetsPassword, Base, Shape, RequestRow
<1> QED BY <1>1 DEF Inserts, Decides, EditsRow, SetsPassword, Base, TypeOK

\* An edit and a write of the password leave alone what a decision decides.
LEMMA UndecidedRows ==
  ASSUME Base, NEW r \in Requests, EditsRow(r) \/ SetsPassword(r)
  PROVE  \A d \in Companies : /\ company'[d].status = company[d].status
                              /\ account'[d].is_active = account[d].is_active
<1>1. company'[req[r].of].status = company[req[r].of].status
  BY OtherRows DEF EditsRow, SetsPassword, Base, TypeOK
<1>2. account'[req[r].of].is_active = account[req[r].of].is_active
  BY SetsPasswordRow DEF EditsRow
<1> QED BY <1>1, <1>2, OtherRows

\* While decisions on one company do not overlap, Decided is kept.
LEMMA DecidedStep ==
  ASSUME "decisions" \notin Overlaps, Base, Decided, [Next]_vars
  PROVE  Decided'
<1>1. AccountFollowsStatus'
  <2>1. CASE UNCHANGED <<company, account>>
    BY <2>1 DEF Decided, AccountFollowsStatus, Exists
  <2>2. ASSUME NEW r \in Requests, Inserts(r) PROVE AccountFollowsStatus'
    <3>1. /\ company'[req[r].of].status \in {"pending", "active"}
          /\ account'[req[r].of].is_active
      BY <2>2, OtherRows DEF Inserts, Base, TypeOK, Shape
    <3> QED BY <2>2, <3>1, OtherRows DEF Decided, AccountFollowsStatus, Exists
  <2>3. ASSUME NEW r \in Requests, Decides(r) PROVE AccountFollowsStatus'
    BY <2>3, OtherRows, DecidedRows DEF Decided, AccountFollowsStatus, Exists
  <2>4. ASSUME NEW r \in Requests, EditsRow(r) \/ SetsPassword(r) PROVE AccountFollowsStatus'
    BY <2>4, UndecidedRows DEF Decided, AccountFollowsStatus, Exists
  <2> QED BY <2>1, <2>2, <2>3, <2>4, RowSteps
<1>2. ASSUME NEW o \in Requests, InFlight(o)', req'[o].op \in Decisions
      PROVE  Undecided(o)'
  <2>1. CASE UNCHANGED <<company, account>>
    <3>1. CASE req'[o] = req[o]
      BY <1>2, <2>1, <3>1 DEF Decided, Undecided, InFlight
    <3>2. CASE LoadsDecision(o)
      BY <1>2, <2>1, <3>2 DEF LoadsDecision, Undecided
    <3>3. CASE LoadsAccount(o)
      BY <1>2, <2>1, <3>3 DEF LoadsAccount, Decided, Undecided, Decisions
    <3>4. CASE Flushes(o)
      BY <1>2, <2>1, <3>4 DEF Flushes, Decided, Undecided
    <3> QED BY <1>2, <3>1, <3>2, <3>3, <3>4, LoadSteps DEF LoadsElse
  <2>2. ASSUME NEW r \in Requests, Inserts(r) \/ Decides(r) \/ EditsRow(r) \/ SetsPassword(r),
               ~UNCHANGED <<company, account>>
        PROVE  Undecided(o)'
    <3>1. req'[o] = req[o] /\ InFlight(o) /\ Undecided(o)
      BY <1>2, <2>2, LoadSteps DEF LoadsElse, InFlight, Decided
    <3>2. req[o].of \in Companies /\ req[o].op \in Decisions
      BY <1>2, <3>1 DEF Base, Shape, RequestRow
    <3>3. /\ company'[req[o].of].status = company[req[o].of].status
          /\ account'[req[o].of].is_active = account[req[o].of].is_active
      <4>1. CASE EditsRow(r) \/ SetsPassword(r)
        BY <3>2, <4>1, UndecidedRows
      <4>2. CASE Inserts(r) \/ Decides(r)
        <5>1. r # o
          <6>1. CASE Inserts(r)
            <7>1. req[r].op \in {"register", "create"}
              BY <6>1 DEF Inserts, Base, Shape
            <7> QED BY <3>2, <7>1 DEF Decisions
          <6>2. CASE Decides(r)
            <7>1. req'[r].at = "idle"
              BY <6>2 DEF Decides, Ends, Base, TypeOK, Idle
            <7> QED BY <1>2, <7>1 DEF InFlight
          <6> QED BY <4>2, <6>1, <6>2
        <5>2. req[r].of # req[o].of
          BY <3>1, <3>2, <4>2, <5>1
             DEF Inserts, Decides, Base, Target, On, Distinct, Disturb
        <5> QED BY <3>2, <4>2, <5>2, OtherRows
      <4> QED BY <2>2, <4>1, <4>2
    <3> QED BY <3>1, <3>3 DEF Undecided
  <2> QED BY <2>1, <2>2, RowSteps
<1> QED BY <1>1, <1>2 DEF Decided, Undecided

\* The initial state satisfies Decided.
LEMMA DecidedInit == Init => Decided
BY DEF Init, Decided, Undecided, AccountFollowsStatus, Exists, NoCompany, InFlight, Idle

\* While decisions on one company do not overlap, an account can be used exactly
\* when its company is not suspended.
THEOREM AccountsFollow ==
  ASSUME "decisions" \notin Overlaps
  PROVE  Spec => []AccountFollowsStatus
<1>1. Spec => []Base
  BY BaseInit, BaseStep, PTL DEF Spec
<1>2. Base /\ Decided /\ [Next]_vars => Decided'
  BY DecidedStep
<1>3. Decided => AccountFollowsStatus
  BY DEF Decided
<1> QED BY <1>1, <1>2, <1>3, DecidedInit, PTL DEF Spec

\* On the same condition the status takes only the transitions of the decisions.
THEOREM StatusTransitions ==
  ASSUME "decisions" \notin Overlaps
  PROVE  Spec => DecisionsFollowStatus
<1>1. Spec => []Base
  BY BaseInit, BaseStep, PTL DEF Spec
<1>2. Base /\ Decided /\ [Next]_vars => Decided'
  BY DecidedStep
<1>3. Base /\ Decided /\ [Next]_vars => [\A c \in Companies : StatusStep(c)]_vars
  <2> SUFFICES ASSUME Base, Decided, [Next]_vars, NEW c \in Companies
               PROVE  StatusStep(c)
    OBVIOUS
  <2>1. CASE UNCHANGED <<company, account>>
    BY <2>1 DEF StatusStep
  <2>2. ASSUME NEW r \in Requests, Inserts(r) PROVE StatusStep(c)
    <3>1. company'[req[r].of].status \in {"pending", "active"} /\ ~Exists(req[r].of)
      BY <2>2, OtherRows DEF Inserts, Base, TypeOK, Shape, Target
    <3>2. company[req[r].of].status = "absent"
      BY <3>1 DEF Exists
    <3> QED BY <2>2, <3>1, <3>2, OtherRows DEF StatusStep
  <2>3. ASSUME NEW r \in Requests, Decides(r) PROVE StatusStep(c)
    BY <2>3, OtherRows, DecidedRows DEF StatusStep
  <2>4. ASSUME NEW r \in Requests, EditsRow(r) \/ SetsPassword(r) PROVE StatusStep(c)
    BY <2>4, UndecidedRows DEF StatusStep
  <2> QED BY <2>1, <2>2, <2>3, <2>4, RowSteps
<1> QED BY <1>1, <1>2, <1>3, DecidedInit, PTL DEF Spec, DecisionsFollowStatus

-----------------------------------------------------------------------------
(* Temporary passwords.                                                    *)

\* A write of the password in flight has loaded the flag the account has.
KnowsFlag(o) ==
  InFlight(o) /\ req[o].op \in PasswordWrites /\ req[o].at \in {"write", "flushed"} =>
    req[o].account.must_change = account[req[o].of].must_change

Flagged == TemporaryPasswordMustChange /\ \A o \in Requests : KnowsFlag(o)

\* A decision and an edit leave alone what a write of the password writes.
LEMMA FlagRows ==
  ASSUME Base, NEW r \in Requests, Decides(r) \/ EditsRow(r)
  PROVE  \A d \in Companies : /\ account'[d].password = account[d].password
                              /\ account'[d].must_change = account[d].must_change
                              /\ Exists(d)' => Exists(d)
<1>1. /\ account'[req[r].of].password = account[req[r].of].password
      /\ account'[req[r].of].must_change = account[req[r].of].must_change
  BY OtherRows DEF Decides, EditsRow, Base, TypeOK
<1>2. Exists(req[r].of)
  BY InFlightRows DEF Decides, EditsRow
<1> QED BY <1>1, <1>2, OtherRows DEF Exists

\* While writes of one account's password do not overlap, Flagged is kept.
LEMMA FlaggedStep ==
  ASSUME "passwords" \notin Overlaps, Base, Flagged, [Next]_vars
  PROVE  Flagged'
<1>1. TemporaryPasswordMustChange'
  <2>1. CASE UNCHANGED <<company, account>>
    BY <2>1 DEF Flagged, TemporaryPasswordMustChange, Exists
  <2>2. ASSUME NEW r \in Requests, Inserts(r) PROVE TemporaryPasswordMustChange'
    <3>1. account'[req[r].of].password.temporary => account'[req[r].of].must_change
      BY <2>2, OtherRows DEF Inserts, Base, TypeOK, Shape
    <3> QED BY <2>2, <3>1, OtherRows DEF Flagged, TemporaryPasswordMustChange, Exists
  <2>3. ASSUME NEW r \in Requests, Decides(r) \/ EditsRow(r) PROVE TemporaryPasswordMustChange'
    BY <2>3, FlagRows DEF Flagged, TemporaryPasswordMustChange
  <2>4. ASSUME NEW r \in Requests, SetsPassword(r) PROVE TemporaryPasswordMustChange'
    <3> DEFINE q == req[r]
    <3>1. /\ InFlight(r) /\ q.op \in PasswordWrites /\ q.at = "flushed"
          /\ Shape(q) /\ q.of \in Companies /\ Exists(q.of) /\ account[q.of] \in AccountRow
      BY <2>4, InFlightRows DEF SetsPassword
    <3>2. /\ q.account \in AccountRow /\ account[q.of].must_change \in BOOLEAN
          /\ q.account.must_change = account[q.of].must_change
      BY <3>1 DEF Shape, AccountRow, Flagged, KnowsFlag
    <3>3. account'[q.of].password.temporary => account'[q.of].must_change
      <4>1. CASE q.op = "reset"
        BY <2>4, <3>2, <4>1, SetsPasswordRow DEF Written
      <4>2. CASE q.op = "change"
        <5>1. PICK h \in Hashes :
                /\ FreshHash(h)
                /\ account'[q.of].password =
                     Written(q.account.password, [hash |-> h, temporary |-> FALSE],
                             account[q.of].password)
          BY <2>4, <4>2, SetsPasswordRow
        <5>2. q.account.password # [hash |-> h, temporary |-> FALSE]
          BY <3>1, <5>1 DEF FreshHash
        <5> QED BY <5>1, <5>2 DEF Written
      <4> QED BY <3>1, <4>1, <4>2 DEF PasswordWrites
    <3>4. \A d \in Companies \ {q.of} : account'[d] = account[d] /\ company'[d] = company[d]
      BY <2>4, OtherRows
    <3> QED BY <3>3, <3>4 DEF Flagged, TemporaryPasswordMustChange, Exists
  <2> QED BY <2>1, <2>2, <2>3, <2>4, RowSteps
<1>2. ASSUME NEW o \in Requests, InFlight(o)', req'[o].op \in PasswordWrites,
             req'[o].at \in {"write", "flushed"}
      PROVE  KnowsFlag(o)'
  <2>1. CASE UNCHANGED <<company, account>>
    <3>1. CASE req'[o] = req[o]
      BY <1>2, <2>1, <3>1 DEF Flagged, KnowsFlag, InFlight
    <3>2. CASE LoadsAccount(o)
      BY <1>2, <2>1, <3>2 DEF LoadsAccount, KnowsFlag
    <3>3. CASE Flushes(o)
      BY <1>2, <2>1, <3>3 DEF Flushes, Flagged, KnowsFlag
    <3> QED BY <1>2, <3>1, <3>2, <3>3, LoadSteps
            DEF LoadsElse, LoadsDecision, Decisions, PasswordWrites
  <2>2. ASSUME NEW r \in Requests, Inserts(r) \/ Decides(r) \/ EditsRow(r) \/ SetsPassword(r),
               ~UNCHANGED <<company, account>>
        PROVE  KnowsFlag(o)'
    <3>1. req'[o] = req[o] /\ InFlight(o) /\ KnowsFlag(o)
      BY <1>2, <2>2, LoadSteps DEF LoadsElse, InFlight, Flagged
    <3>2. req[o].of \in Companies /\ req[o].op \in PasswordWrites
      BY <1>2, <3>1 DEF Base, Shape, RequestRow
    <3>3. account'[req[o].of].must_change = account[req[o].of].must_change
      <4>1. CASE Decides(r) \/ EditsRow(r)
        BY <3>2, <4>1, FlagRows
      <4>2. CASE Inserts(r) \/ SetsPassword(r)
        <5>1. r # o
          BY <1>2, <3>1, <3>2, <4>2
             DEF Inserts, SetsPassword, Ends, Base, TypeOK, Shape, Idle, InFlight, PasswordWrites
        <5>2. req[r].of # req[o].of
          BY <3>1, <3>2, <4>2, <5>1
             DEF Inserts, SetsPassword, Base, Target, On, Distinct, Disturb
        <5> QED BY <3>2, <4>2, <5>2, OtherRows
      <4> QED BY <2>2, <4>1, <4>2
    <3> QED BY <1>2, <3>1, <3>3 DEF KnowsFlag
  <2> QED BY <2>1, <2>2, RowSteps
<1> QED BY <1>1, <1>2 DEF Flagged, KnowsFlag

\* The initial state satisfies Flagged.
LEMMA FlaggedInit == Init => Flagged
BY DEF Init, Flagged, KnowsFlag, TemporaryPasswordMustChange, Exists, NoCompany, InFlight, Idle

\* While writes of one account's password do not overlap, a password that was made
\* for the account has to be changed.
THEOREM TemporaryPasswords ==
  ASSUME "passwords" \notin Overlaps
  PROVE  Spec => []TemporaryPasswordMustChange
<1>1. Spec => []Base
  BY BaseInit, BaseStep, PTL DEF Spec
<1>2. Base /\ Flagged /\ [Next]_vars => Flagged'
  BY FlaggedStep
<1>3. Flagged => TemporaryPasswordMustChange
  BY DEF Flagged
<1> QED BY <1>1, <1>2, <1>3, FlaggedInit, PTL DEF Spec

-----------------------------------------------------------------------------
(* Sessions.                                                               *)

Revokers == PasswordWrites \union {"deactivate"}

\* A login or a registration has read the password, or has found its company usable.
EntersOn(o) ==
  \/ req'[o].at = "insert"
  \/ UNCHANGED rows /\ req'[o].at = "company" /\ req'[o].account = account[req'[o].of]
  \/ /\ UNCHANGED rows /\ InFlight(o) /\ req[o].op \in Entries
     /\ req'[o].of = req[o].of /\ req'[o].account = req[o].account
     /\ \/ req[o].at = "company" /\ company[req[o].of].status # "suspended"
        \/ req[o].at = "write"
  \/ /\ Inserts(o) /\ sessions' = sessions
     /\ req'[o].of = req[o].of /\ req'[o].account = req[o].account

\* A request that will revoke sessions has come with one, or has revoked them.
RevokesOn(o) ==
  /\ UNCHANGED rows
  /\ \/ /\ req'[o].at # "flushed" /\ req'[o].op = "change"
        /\ \E s \in sessions : req'[o].token = s.token /\ req'[o].of = s.of
     \/ req'[o].at # "flushed" /\ req'[o].op # "change"
     \/ /\ InFlight(o) /\ req'[o].op = req[o].op
        /\ req'[o].of = req[o].of /\ req'[o].token = req[o].token
        /\ req'[o].at = "flushed" => req'[o].revokes = Revoked(req[o])

\* What LoadSteps leaves out: the logins, and what the requests revoke.
LEMMA SessionLoads ==
  ASSUME Base, [Next]_vars, NEW o \in Requests, InFlight(o)'
  PROVE  \/ req'[o] = req[o]
         \/ req'[o].op \in Entries /\ EntersOn(o)
         \/ req'[o].op \in Revokers /\ RevokesOn(o)
         \/ req'[o].op \notin Entries \union Revokers
<1> DEFINE Kind == \/ req'[o] = req[o]
                   \/ req'[o].op \in Entries /\ EntersOn(o)
                   \/ req'[o].op \in Revokers /\ RevokesOn(o)
                   \/ req'[o].op \notin Entries \union Revokers
<1>0. /\ req \in [Requests -> RequestRow \union {Idle}] /\ Idle.at = "idle"
      /\ req'[o] # Idle
      /\ InFlight(o) => req[o] \in RequestRow
  BY DEF Base, TypeOK, Idle, InFlight
<1> USE DEF rows
<1>1. ASSUME NEW r \in Requests, r # o,
             Public(r) \/ Client(r) \/ Admin(r) \/ Flush(r) \/ CommitEdit(r) \/ Fail(r)
      PROVE  Kind
  <2>1. \E q : req' = [req EXCEPT ![r] = q]
    BY <1>1, OneSlot
  <2> QED BY <1>0, <1>1, <2>1
<1>2. CASE Public(o)
  <2>1. ASSUME NEW c \in Companies, NEW login \in Logins, NEW inn \in Inns, NEW h \in Hashes,
               Register(o, c, login, inn, h)
        PROVE  req'[o].op = "register" /\ EntersOn(o)
    BY <1>0, <2>1 DEF Register, Starts, Request, EntersOn
  <2>2. ASSUME InsertCompany(o) PROVE req'[o].op = "register" /\ EntersOn(o)
    <3>1. Shape(req[o]) /\ req[o].op \in {"register", "create"} /\ req[o] \in RequestRow
      BY <2>2 DEF InsertCompany, Base, Shape
    <3>2. /\ req'[o] = [req[o] EXCEPT !.at = "write", !.newCompany = NoCompany]
          /\ req[o].op # "create" /\ Inserts(o) /\ sessions' = sessions
      BY <1>0, <2>2 DEF InsertCompany, Ends, Becomes, Inserts
    <3> QED BY <3>1, <3>2 DEF RequestRow, EntersOn
  <2>3. ASSUME NEW c \in Companies, FindLogin(o, c) PROVE req'[o].op = "login" /\ EntersOn(o)
    BY <1>0, <2>3 DEF FindLogin, Starts, Request, EntersOn
  <2>4. ASSUME FindLoginCompany(o) PROVE req'[o].op = "login" /\ EntersOn(o)
    BY <1>0, <2>4 DEF FindLoginCompany, At, Becomes, Ends, RequestRow, EntersOn, Entries
  <2>5. ASSUME FlushSession(o) PROVE req'[o].op \in Entries /\ EntersOn(o)
    <3>1. InFlight(o) /\ req[o].op \in Entries /\ req[o].at = "write"
      BY <2>5 DEF FlushSession, InFlight
    <3> QED BY <1>0, <2>5, <3>1 DEF FlushSession, Becomes, RequestRow, EntersOn
  <2>6. ASSUME NEW t \in Tokens, CommitSession(o, t) PROVE FALSE
    BY <1>0, <2>6 DEF CommitSession, Ends
  <2> QED BY <1>2, <2>1, <2>2, <2>3, <2>4, <2>5, <2>6 DEF Public, Entries
<1>3. CASE Client(o)
  <2>1. ASSUME NEW s \in sessions, NEW op \in {"change", "profile"}, Enter(o, s, op)
        PROVE  req'[o].op = op /\ (op = "change" => RevokesOn(o))
    BY <1>0, <2>1 DEF Enter, Starts, Request, RevokesOn
  <2>2. ASSUME AuthAccount(o) \/ AuthCompany(o)
        PROVE  req'[o].op \in {"change", "profile"} /\ RevokesOn(o)
    BY <1>0, <2>2 DEF AuthAccount, AuthCompany, At, Becomes, Ends, RequestRow, RevokesOn
  <2>3. ASSUME LoadAccount(o) PROVE req'[o].op = "change" /\ RevokesOn(o)
    BY <1>0, <2>3 DEF LoadAccount, At, Becomes, RequestRow, RevokesOn
  <2>4. ASSUME NEW inn \in Inns \union {NoInn}, LoadProfile(o, inn)
        PROVE  req'[o].op = "profile"
    BY <1>0, <2>4 DEF LoadProfile, At, Becomes, Ends, RequestRow
  <2>5. ASSUME NEW h \in Hashes, CommitChange(o, h) PROVE FALSE
    BY <1>0, <2>5 DEF CommitChange, Ends
  <2> QED BY <1>3, <2>1, <2>2, <2>3, <2>4, <2>5
          DEF Client, Entries, Revokers, PasswordWrites
<1>4. CASE Admin(o)
  <2>1. ASSUME NEW c \in Companies, NEW login \in Logins, NEW inn \in Inns \union {NoInn},
               NEW billing \in BOOLEAN, NEW h \in Hashes,
               CreateCompany(o, c, login, inn, billing, h)
        PROVE  req'[o].op = "create"
    BY <1>0, <2>1 DEF CreateCompany, Starts, Request
  <2>2. ASSUME NEW c \in Companies, NEW op \in Decisions, Decide(o, c, op)
        PROVE  req'[o].op \in Decisions /\ RevokesOn(o)
    BY <1>0, <2>2 DEF Decide, Starts, Request, RevokesOn, Decisions
  <2>3. ASSUME DecideAccount(o) PROVE req'[o].op \in Decisions /\ RevokesOn(o)
    BY <1>0, <2>3 DEF DecideAccount, At, Becomes, RequestRow, RevokesOn, Decisions
  <2>4. ASSUME NEW c \in Companies, Reset(o, c) PROVE req'[o].op = "reset" /\ RevokesOn(o)
    BY <1>0, <2>4 DEF Reset, Starts, Request, RevokesOn
  <2>5. ASSUME NEW c \in Companies, NEW inn \in Inns \union {NoInn}, NEW billing \in BOOLEAN,
               EditCompany(o, c, inn, billing)
        PROVE  req'[o].op = "edit"
    BY <1>0, <2>5 DEF EditCompany, Starts, Request
  <2>6. ASSUME \/ CommitDecision(o) \/ CommitActivate(o) \/ CommitDeactivate(o)
               \/ \E h \in Hashes : CommitReset(o, h)
        PROVE  FALSE
    BY <1>0, <2>6 DEF CommitDecision, CommitActivate, CommitDeactivate, CommitReset, Ends
  <2> QED BY <1>4, <2>1, <2>2, <2>3, <2>4, <2>5, <2>6
          DEF Admin, Entries, Revokers, PasswordWrites, Decisions
<1>5. CASE Flush(o)
  <2>1. InFlight(o) /\ req[o].op \in Revokers
    BY <1>5 DEF Flush, At, Revokers
  <2> QED BY <1>0, <1>5, <2>1 DEF Flush, Becomes, RequestRow, RevokesOn
<1>6. CASE CommitEdit(o) \/ Fail(o)
  BY <1>0, <1>6 DEF CommitEdit, Fail, Ends
<1>7. CASE UNCHANGED req
  BY <1>7
<1> QED BY <1>1, <1>2, <1>3, <1>4, <1>5, <1>6, <1>7 DEF Next, EndSession, vars

\* A step that opens a session, ends sessions or writes rows.
LEMMA SessionWrites ==
  ASSUME Base, [Next]_vars
  PROVE  \/ UNCHANGED rows
         \/ \E s \in sessions : UNCHANGED <<company, account>> /\ sessions' = sessions \ {s}
         \/ \E r \in Requests, t \in Tokens : CommitSession(r, t)
         \/ \E r \in Requests : /\ sessions' = sessions
                                /\ \/ Inserts(r) \/ EditsRow(r)
                                   \/ Decides(r) /\ req[r].op # "deactivate"
         \/ \E r \in Requests : /\ req[r].op \in {"deactivate", "reset"}
                                /\ req[r].at = "flushed" /\ sessions' = Kept(req[r])
                                /\ Decides(r) \/ SetsPassword(r)
         \/ \E r \in Requests, h \in Hashes : CommitChange(r, h)
<1> USE DEF rows
<1>1. ASSUME NEW r \in Requests, Public(r)
      PROVE  \/ UNCHANGED rows \/ \E t \in Tokens : CommitSession(r, t)
             \/ Inserts(r) /\ sessions' = sessions
  BY <1>1 DEF Public, Register, InsertCompany, FindLogin, FindLoginCompany, FlushSession, Inserts
<1>2. ASSUME NEW r \in Requests, Client(r)
      PROVE  UNCHANGED rows \/ \E h \in Hashes : CommitChange(r, h)
  BY <1>2 DEF Client, Enter, AuthAccount, AuthCompany, LoadAccount, LoadProfile
<1>3. ASSUME NEW r \in Requests, Admin(r)
      PROVE  \/ UNCHANGED rows
             \/ Decides(r) /\ req[r].op # "deactivate" /\ sessions' = sessions
             \/ /\ req[r].op \in {"deactivate", "reset"} /\ req[r].at = "flushed"
                /\ sessions' = Kept(req[r])
                /\ Decides(r) \/ SetsPassword(r)
  <2>1. ASSUME NEW h \in Hashes, CommitReset(r, h)
        PROVE  /\ SetsPassword(r) /\ sessions' = Kept(req[r])
               /\ req[r].op = "reset" /\ req[r].at = "flushed"
    <3>1. InFlight(r) /\ req[r].op = "reset" /\ req[r].at = "flushed"
      BY <2>1 DEF CommitReset, At
    <3> QED BY <2>1, <3>1 DEF CommitReset, SetsPassword, PasswordWrites
  <2>2. ASSUME CommitDecision(r) \/ CommitActivate(r)
        PROVE  Decides(r) /\ req[r].op # "deactivate" /\ sessions' = sessions
    BY <2>2, DecidesSteps DEF CommitDecision, CommitActivate, At
  <2>3. ASSUME CommitDeactivate(r)
        PROVE  /\ Decides(r) /\ sessions' = Kept(req[r])
               /\ req[r].op = "deactivate" /\ req[r].at = "flushed"
    BY <2>3, DecidesSteps DEF CommitDeactivate, At
  <2> QED BY <1>3, <2>1, <2>2, <2>3
          DEF Admin, CreateCompany, Decide, DecideAccount, Reset, EditCompany
<1>4. ASSUME NEW r \in Requests, Flush(r) \/ CommitEdit(r) \/ Fail(r)
      PROVE  UNCHANGED rows \/ (EditsRow(r) /\ sessions' = sessions)
  BY <1>4, EditsSteps DEF Flush, Fail, CommitEdit
<1>5. ASSUME NEW s \in sessions, EndSession(s)
      PROVE  UNCHANGED <<company, account>> /\ sessions' = sessions \ {s}
  BY <1>5 DEF EndSession
<1>6. CASE UNCHANGED vars
  BY <1>6 DEF vars
<1> QED BY <1>1, <1>2, <1>3, <1>4, <1>5, <1>6 DEF Next

\* A login or registration in flight has read the account's present password, and
\* its company can be used.
EntersCurrent(o) ==
  InFlight(o) /\ req[o].op \in Entries /\ req[o].at # "insert" =>
    /\ req[o].account.password = account[req[o].of].password
    /\ req[o].at # "company" => company[req[o].of].status # "suspended"

\* A request in flight that revokes has revoked every session of its company but
\* the one it came with, that one is of its company, and none of another company.
RevokesCurrent(o) ==
  InFlight(o) /\ req[o].op \in Revokers =>
    \A s \in sessions :
      /\ req[o].op = "change" /\ s.token = req[o].token => s.of = req[o].of
      /\ req[o].at = "flushed" /\ s.of = req[o].of =>
           s.token \in req[o].revokes \union {req[o].token}
      /\ req[o].at = "flushed" /\ s.token \in req[o].revokes => s.of = req[o].of

Current ==
  /\ SessionsAreCurrent
  /\ \A o \in Requests : EntersCurrent(o) /\ RevokesCurrent(o)

\* The initial state satisfies Current.
LEMMA CurrentInit == Init => Current
BY DEF Init, Current, SessionsAreCurrent, EntersCurrent, RevokesCurrent, InFlight, Idle

\* The sessions are current after each kind of step.
LEMMA CurrentSessions ==
  ASSUME "logins" \notin Overlaps, Base, Current, [Next]_vars
  PROVE  SessionsAreCurrent'
<1>0. sessions \subseteq SessionRow
  BY DEF Base, TypeOK
<1>1. CASE UNCHANGED <<company, account>> /\ sessions' \subseteq sessions
  BY <1>1 DEF Current, SessionsAreCurrent
<1>2. ASSUME NEW r \in Requests, NEW t \in Tokens, CommitSession(r, t)
      PROVE  SessionsAreCurrent'
  <2>1. EntersCurrent(r) /\ req[r].at = "flushed" /\ InFlight(r) /\ req[r].op \in Entries
    BY <1>2 DEF CommitSession, Current
  <2> QED BY <1>2, <2>1 DEF CommitSession, Current, SessionsAreCurrent, EntersCurrent
<1>3. ASSUME NEW r \in Requests, sessions' = sessions,
             Inserts(r) \/ EditsRow(r) \/ (Decides(r) /\ req[r].op # "deactivate")
      PROVE  SessionsAreCurrent'
  <2> SUFFICES ASSUME NEW s \in sessions
               PROVE  /\ s.password = account'[s.of].password
                      /\ company'[s.of].status # "suspended"
    BY <1>3 DEF SessionsAreCurrent
  <2>1. s.of \in Companies /\ Exists(s.of)
    BY <1>0 DEF Base, SessionRow
  <2>2. CASE s.of # req[r].of
    BY <1>3, <2>1, <2>2, OtherRows DEF Current, SessionsAreCurrent
  <2>3. CASE s.of = req[r].of
    <3>1. EditsRow(r) \/ Decides(r)
      BY <1>3, <2>1, <2>3 DEF Inserts, Base, Target
    <3>2. account'[s.of].password = account[s.of].password
      BY <2>1, <3>1, FlagRows
    <3>3. CASE EditsRow(r)
      BY <2>1, <3>2, <3>3, UndecidedRows DEF Current, SessionsAreCurrent
    <3>4. CASE Decides(r)
      <4>1. company'[s.of].status = To[req[r].op] /\ req[r].op \in Decisions
        BY <2>1, <2>3, <3>4 DEF Decides, Base, TypeOK
      <4>2. req[r].op \in {"approve", "reject", "activate"}
        BY <1>3, <3>4, <4>1 DEF Decisions, EditsRow, Edits, Inserts, Base, Shape
      <4>3. To[req[r].op] # "suspended"
        BY <4>2, Transitions
      <4> QED BY <3>2, <4>1, <4>3 DEF Current, SessionsAreCurrent
    <3> QED BY <3>1, <3>3, <3>4
  <2> QED BY <2>2, <2>3
<1>4. ASSUME NEW r \in Requests, req[r].op \in {"deactivate", "reset"},
             req[r].at = "flushed", sessions' = Kept(req[r]), Decides(r) \/ SetsPassword(r)
      PROVE  SessionsAreCurrent'
  <2>1. InFlight(r) /\ Shape(req[r]) /\ RevokesCurrent(r) /\ req[r].op \in Revokers
    BY <1>4, InFlightRows DEF Decides, SetsPassword, Current, Revokers, PasswordWrites
  <2>2. req[r].token = NoToken
    BY <1>4, <2>1 DEF Shape
  <2>3. \A s \in sessions' : s \in sessions /\ s.of \in Companies \ {req[r].of}
    BY <1>0, <1>4, <2>1, <2>2, NullAssumption DEF Kept, RevokesCurrent, SessionRow
  <2> QED BY <1>4, <2>3, OtherRows DEF Current, SessionsAreCurrent
<1>5. ASSUME NEW r \in Requests, NEW h \in Hashes, CommitChange(r, h)
      PROVE  SessionsAreCurrent'
  <2> DEFINE q == req[r]
             p == [hash |-> h, temporary |-> FALSE]
  <2>1. InFlight(r) /\ q.op = "change" /\ q.at = "flushed" /\ FreshHash(h) /\ company' = company
    BY <1>5 DEF CommitChange, At
  <2>2. Shape(q) /\ RevokesCurrent(r) /\ q.of \in Companies /\ account[q.of] \in AccountRow
    BY <2>1, InFlightRows DEF Current
  <2>3. q.account.password # p
    BY <2>1 DEF FreshHash
  <2>4. account'[q.of] = WithPassword(q, p, FALSE)
    BY <1>5, <2>2 DEF CommitChange, Base, TypeOK
  <2>5. account'[q.of].password = p
    BY <2>2, <2>3, <2>4 DEF WithPassword, Written, AccountRow
  <2>6. \A d \in Companies \ {q.of} : account'[d] = account[d]
    BY <1>5 DEF CommitChange, Base, TypeOK
  <2> SUFFICES ASSUME NEW s \in sessions'
               PROVE  /\ s.password = account'[s.of].password
                      /\ company'[s.of].status # "suspended"
    BY DEF SessionsAreCurrent
  <2>7. PICK t \in sessions :
          /\ t.token = s.token /\ t.of = s.of /\ t.token \notin q.revokes
          /\ s.password = IF t.token = q.token THEN p ELSE t.password
    BY <1>5, ChangedSessions
  <2>8. t.of \in Companies
    BY <1>0 DEF SessionRow
  <2>9. t.of = q.of <=> t.token = q.token
    BY <2>1, <2>2, <2>7 DEF RevokesCurrent, Revokers, PasswordWrites
  <2> HIDE DEF p
  <2> QED BY <2>1, <2>5, <2>6, <2>7, <2>8, <2>9 DEF Current, SessionsAreCurrent
<1>6. CASE \E r \in Requests, t \in Tokens : CommitSession(r, t)
  BY <1>2, <1>6
<1>7. CASE \E r \in Requests, h \in Hashes : CommitChange(r, h)
  BY <1>5, <1>7
<1>8. CASE \E r \in Requests : /\ sessions' = sessions
                               /\ \/ Inserts(r) \/ EditsRow(r)
                                  \/ Decides(r) /\ req[r].op # "deactivate"
  BY <1>3, <1>8
<1>9. CASE \E r \in Requests : /\ req[r].op \in {"deactivate", "reset"}
                               /\ req[r].at = "flushed" /\ sessions' = Kept(req[r])
                               /\ Decides(r) \/ SetsPassword(r)
  BY <1>4, <1>9
<1>10. CASE \/ UNCHANGED rows
             \/ \E s \in sessions : UNCHANGED <<company, account>> /\ sessions' = sessions \ {s}
  BY <1>1, <1>10 DEF rows
<1> QED BY <1>6, <1>7, <1>8, <1>9, <1>10, SessionWrites

\* A login or registration in flight keeps what it has read: what would change it
\* is kept apart from it.
LEMMA EntersStep ==
  ASSUME "logins" \notin Overlaps, Base, Current, [Next]_vars,
         NEW o \in Requests, InFlight(o)', req'[o].op \in Entries, req'[o].at # "insert"
  PROVE  EntersCurrent(o)'
<1>1. req'[o] = req[o] \/ EntersOn(o)
  BY SessionLoads DEF Entries, Revokers, PasswordWrites
<1>2. CASE EntersOn(o) /\ ~Inserts(o)
  <2>1. UNCHANGED rows
    BY <1>2 DEF EntersOn
  <2>2. CASE req'[o].at = "company" /\ req'[o].account = account[req'[o].of]
    BY <2>1, <2>2 DEF EntersCurrent, rows
  <2>3. CASE /\ InFlight(o) /\ req[o].op \in Entries
             /\ req'[o].of = req[o].of /\ req'[o].account = req[o].account
             /\ \/ req[o].at = "company" /\ company[req[o].of].status # "suspended"
                \/ req[o].at = "write"
    <3>1. EntersCurrent(o)
      BY DEF Current
    <3> QED BY <2>1, <2>3, <3>1 DEF EntersCurrent, rows
  <2> QED BY <1>2, <2>2, <2>3 DEF EntersOn
<1>3. CASE EntersOn(o) /\ Inserts(o)
  <2>1. Inserts(o) /\ req'[o].of = req[o].of /\ req'[o].account = req[o].account
    <3>1. company' # company
      BY <1>3, OtherRows DEF Inserts, Base, Shape, Target, Exists, TypeOK
    <3> QED BY <1>3, <3>1 DEF EntersOn, rows
  <2>2. /\ company'[req[o].of] = req[o].newCompany /\ account'[req[o].of] = req[o].account
        /\ req[o].newCompany.status \in {"pending", "active"}
    BY <2>1, OtherRows DEF Inserts, Base, TypeOK, Shape
  <2> QED BY <2>1, <2>2 DEF EntersCurrent
<1>4. CASE req'[o] = req[o]
  <2>1. InFlight(o) /\ EntersCurrent(o)
    BY <1>4 DEF InFlight, Current
  <2>2. CASE UNCHANGED <<company, account>>
    BY <1>4, <2>1, <2>2 DEF EntersCurrent
  <2>3. ASSUME NEW r \in Requests, Inserts(r) \/ Decides(r) \/ EditsRow(r) \/ SetsPassword(r)
        PROVE  EntersCurrent(o)'
    <3>1. req[o].of \in Companies /\ req[o].op \in Entries
      BY <1>4, <2>1 DEF Base, Shape, RequestRow
    <3>2. CASE req[r].of # req[o].of
      BY <1>4, <2>1, <2>3, <3>1, <3>2, OtherRows DEF EntersCurrent
    <3>3. CASE req[r].of = req[o].of
      <4>1. r # o
        <5>1. ~Inserts(o)
          BY <1>4 DEF Inserts
        <5>2. ~(Decides(o) \/ EditsRow(o) \/ SetsPassword(o))
          BY <3>1 DEF Decides, EditsRow, SetsPassword, Decisions, Edits, PasswordWrites, Entries
        <5> QED BY <2>3, <5>1, <5>2
      <4>2. ~Inserts(r) /\ InFlight(r)
        BY <2>1, <2>3, <3>3, <4>1
           DEF Inserts, Decides, EditsRow, SetsPassword, Base, Target, On
      <4>3. req[r].op \notin Revokers
        BY <2>1, <3>1, <3>3, <4>1, <4>2 DEF Base, Distinct, Disturb, Revokers
      <4>4. CASE EditsRow(r)
        BY <1>4, <2>1, <3>1, <4>4, FlagRows, UndecidedRows DEF EntersCurrent
      <4>5. CASE Decides(r)
        <5>1. /\ company'[req[r].of].status = To[req[r].op]
              /\ req[r].op \in {"approve", "reject", "activate"}
          BY <3>1, <3>3, <4>3, <4>5 DEF Decides, Base, TypeOK, Revokers, Decisions
        <5>2. company'[req[r].of].status # "suspended"
          BY <5>1, Transitions
        <5> QED BY <1>4, <2>1, <3>1, <3>3, <4>5, <5>2, FlagRows DEF EntersCurrent
      <4> QED BY <2>3, <4>2, <4>3, <4>4, <4>5 DEF SetsPassword, Revokers
    <3> QED BY <3>2, <3>3
  <2> QED BY <2>2, <2>3, RowSteps
<1> QED BY <1>1, <1>2, <1>3, <1>4

\* A session after a step was there before, with the same token and company, or it
\* is new, and then no request in flight knows its token.
LEMMA SessionOrigin ==
  ASSUME Base, [Next]_vars, NEW s \in sessions'
  PROVE  \/ \E t \in sessions : t.token = s.token /\ t.of = s.of
         \/ \E r \in Requests : /\ InFlight(r) /\ req[r].op \in Entries /\ s.of = req[r].of
                                /\ Ends(r) /\ FreshToken(s.token)
<1>1. CASE sessions' \subseteq sessions
  BY <1>1
<1>2. ASSUME NEW r \in Requests, NEW t \in Tokens, CommitSession(r, t)
      PROVE  \/ s \in sessions
             \/ /\ InFlight(r) /\ req[r].op \in Entries /\ s.of = req[r].of
                /\ Ends(r) /\ FreshToken(s.token)
  BY <1>2 DEF CommitSession
<1>3. ASSUME NEW r \in Requests, NEW h \in Hashes, CommitChange(r, h)
      PROVE  \E t \in sessions : t.token = s.token /\ t.of = s.of
  <2>1. \A u \in sessions' : \E t \in sessions :
          /\ t.token = u.token /\ t.of = u.of /\ t.token \notin req[r].revokes
          /\ u.password = IF t.token = req[r].token
                          THEN [hash |-> h, temporary |-> FALSE] ELSE t.password
    BY <1>3, ChangedSessions
  <2> QED BY <2>1
<1>4. \/ sessions' \subseteq sessions
      \/ \E r \in Requests, t \in Tokens : CommitSession(r, t)
      \/ \E r \in Requests, h \in Hashes : CommitChange(r, h)
  BY SessionWrites DEF Kept, rows
<1> QED BY <1>1, <1>2, <1>3, <1>4

\* What a request in flight has revoked stays all there is to revoke.
LEMMA RevokesStep ==
  ASSUME "logins" \notin Overlaps, Base, Current, [Next]_vars,
         NEW o \in Requests, InFlight(o)', req'[o].op \in Revokers
  PROVE  RevokesCurrent(o)'
<1>0. /\ sessions \subseteq SessionRow /\ \A s, t \in sessions : s.token = t.token => s = t
  BY DEF Base, TypeOK
<1>1. req'[o] = req[o] \/ RevokesOn(o)
  BY SessionLoads DEF Entries, Revokers, PasswordWrites
<1>2. CASE RevokesOn(o)
  <2>1. sessions' = sessions
    BY <1>2 DEF RevokesOn, rows
  <2>2. CASE req'[o].at # "flushed" /\ req'[o].op # "change"
    BY <2>1, <2>2 DEF RevokesCurrent
  <2>3. CASE /\ req'[o].at # "flushed" /\ req'[o].op = "change"
             /\ \E s \in sessions : req'[o].token = s.token /\ req'[o].of = s.of
    BY <1>0, <2>1, <2>3 DEF RevokesCurrent
  <2>4. CASE /\ InFlight(o) /\ req'[o].op = req[o].op
             /\ req'[o].of = req[o].of /\ req'[o].token = req[o].token
             /\ req'[o].at = "flushed" => req'[o].revokes = Revoked(req[o])
    BY <1>0, <2>1, <2>4 DEF RevokesCurrent, Revoked, Current
  <2> QED BY <1>2, <2>2, <2>3, <2>4 DEF RevokesOn
<1>3. CASE req'[o] = req[o]
  <2>1. InFlight(o) /\ RevokesCurrent(o) /\ req[o].op \in Revokers
    BY <1>3 DEF InFlight, Current
  <2> SUFFICES ASSUME NEW s \in sessions'
               PROVE  /\ req[o].op = "change" /\ s.token = req[o].token => s.of = req[o].of
                      /\ req[o].at = "flushed" /\ s.of = req[o].of =>
                           s.token \in req[o].revokes \union {req[o].token}
                      /\ req[o].at = "flushed" /\ s.token \in req[o].revokes =>
                           s.of = req[o].of
    BY <1>3 DEF RevokesCurrent
  <2>2. CASE \E t \in sessions : t.token = s.token /\ t.of = s.of
    BY <2>1, <2>2 DEF RevokesCurrent
  <2>3. ASSUME NEW r \in Requests, InFlight(r), req[r].op \in Entries, s.of = req[r].of,
               FreshToken(s.token)
        PROVE  /\ s.token # req[o].token /\ s.token \notin req[o].revokes
               /\ s.of # req[o].of
    <3>1. r # o
      BY <2>1, <2>3 DEF Revokers, PasswordWrites, Entries
    <3> QED BY <2>1, <2>3, <3>1 DEF FreshToken, Base, Distinct, Disturb, Revokers
  <2> QED BY <2>2, <2>3, SessionOrigin
<1> QED BY <1>1, <1>2, <1>3

\* While no login overlaps what revokes the sessions of its account, Current is kept.
LEMMA CurrentStep ==
  ASSUME "logins" \notin Overlaps, Base, Current, [Next]_vars
  PROVE  Current'
<1>1. \A o \in Requests : EntersCurrent(o)'
  BY EntersStep DEF EntersCurrent
<1>2. \A o \in Requests : RevokesCurrent(o)'
  BY RevokesStep DEF RevokesCurrent
<1> QED BY <1>1, <1>2, CurrentSessions DEF Current

\* On the same condition every session knows the account's present password and
\* none is of a suspended company.
THEOREM CurrentAccess ==
  ASSUME "logins" \notin Overlaps
  PROVE  Spec => []SessionsAreCurrent
<1>1. Spec => []Base
  BY BaseInit, BaseStep, PTL DEF Spec
<1>2. Base /\ Current /\ [Next]_vars => Current'
  BY CurrentStep
<1>3. Current => SessionsAreCurrent
  BY DEF Current
<1> QED BY <1>1, <1>2, <1>3, CurrentInit, PTL DEF Spec

-----------------------------------------------------------------------------
(* The refinement of AccessPromise.  What the invariants above say of the  *)
(* rows and sessions at a commit is what the abstract action requires.     *)

AccessInv == Base /\ Decided /\ Flagged /\ Current

\* What AccessPromise sees of the rows.
standings == [c \in Companies |-> company[c].status]
passwords == [c \in Companies |-> account[c].password]
flags == [c \in Companies |-> Exists(c) /\ account[c].must_change]

\* A step that writes the rows of company c changes what AccessPromise sees of c.
LEMMA SeenRows ==
  ASSUME NEW c \in Companies,
         \A d \in Companies \ {c} : company'[d] = company[d] /\ account'[d] = account[d]
  PROVE  /\ standings' = [standings EXCEPT ![c] = company'[c].status]
         /\ passwords' = [passwords EXCEPT ![c] = account'[c].password]
         /\ flags' = [flags EXCEPT ![c] = Exists(c)' /\ account'[c].must_change]
         /\ standings[c] = company[c].status /\ passwords[c] = account[c].password
<1>1. standings' = [standings EXCEPT ![c] = company'[c].status]
  BY DEF standings
<1>2. passwords' = [passwords EXCEPT ![c] = account'[c].password]
  BY DEF passwords
<1>3. flags' = [flags EXCEPT ![c] = Exists(c)' /\ account'[c].must_change]
  BY DEF flags, Exists
<1> QED BY <1>1, <1>2, <1>3 DEF standings, passwords

\* A step that gives no row another status, password or flag changes nothing of it.
LEMMA SeenSame ==
  ASSUME \A c \in Companies : /\ company'[c].status = company[c].status
                              /\ account'[c].password = account[c].password
                              /\ account'[c].must_change = account[c].must_change
  PROVE  UNCHANGED <<standings, passwords, flags>>
BY DEF standings, passwords, flags, Exists

\* A company that is registered or created.
LEMMA InsertOpens ==
  ASSUME Base, NEW r \in Requests, Inserts(r), sessions' = sessions
  PROVE  Promise!AccessNext
<1>0. PICK c \in Companies, p \in Passwords : c = req[r].of /\ p = req[r].account.password
  BY DEF Inserts, Base, Shape, RequestRow, AccountRow
<1>1. /\ ~Exists(c) /\ req[r].account \in AccountRow /\ TypeOK
      /\ req[r].newCompany.status = IF p.temporary THEN "active" ELSE "pending"
      /\ req[r].account.must_change = p.temporary
  BY <1>0 DEF Inserts, Base, Shape, Target
<1>2. company[c].status = "absent" /\ account[c].password = NoAccount.password
  BY <1>1, Rows DEF Exists
<1>3. p \in Passwords /\ p.temporary \in BOOLEAN /\ p # NoAccount.password
  BY NullAssumption DEF Passwords, NoAccount
<1>4. company'[c] = req[r].newCompany /\ account'[c] = req[r].account
  BY <1>0, <1>1 DEF Inserts, TypeOK
<1>5. Exists(c)'
  BY <1>1, <1>4 DEF Exists
<1>6. \A d \in Companies \ {c} : company'[d] = company[d] /\ account'[d] = account[d]
  BY <1>0, OtherRows
<1>7. /\ company'[c].status = IF p.temporary THEN "active" ELSE "pending"
      /\ account'[c].password = p
      /\ (Exists(c)' /\ account'[c].must_change) = p.temporary
  BY <1>0, <1>1, <1>3, <1>4, <1>5
<1>8. /\ standings' = [standings EXCEPT ![c] = IF p.temporary THEN "active" ELSE "pending"]
      /\ passwords' = [passwords EXCEPT ![c] = p]
      /\ flags' = [flags EXCEPT ![c] = p.temporary]
      /\ standings[c] = "absent" /\ passwords[c] = NoAccount.password
  BY <1>2, <1>6, <1>7, SeenRows
<1>9. (p \in {x \in Passwords : x.temporary}) = p.temporary
  BY <1>3
<1>10. Promise!Open(c, p)
  BY <1>3, <1>8, <1>9 DEF Promise!Open, Promise!SetPassword, standings, passwords, flags
<1> QED BY <1>10 DEF Promise!AccessNext

\* A decision other than a deactivation.
LEMMA DecisionJudges ==
  ASSUME AccessInv, NEW r \in Requests, Decides(r), req[r].op # "deactivate",
         sessions' = sessions
  PROVE  Promise!AccessNext
<1>0. PICK c \in Companies, verdict \in CompanyStatus :
        c = req[r].of /\ verdict = company'[c].status
  BY OtherRows, DecidedRows DEF AccessInv, CompanyStatus
<1>1. verdict = To[req[r].op] /\ req[r].op \in {"approve", "reject", "activate"}
  BY <1>0 DEF Decides, AccessInv, Base, TypeOK, Decisions
<1>2. <<company[c].status, verdict>> \in
        {<<"pending", "active">>, <<"pending", "rejected">>, <<"suspended", "active">>}
  <2>1. verdict # "suspended"
    BY <1>1, Transitions
  <2> QED BY <1>0, <2>1, DecidedRows DEF AccessInv
<1>3. UNCHANGED <<passwords, flags>>
  <2>1. \A d \in Companies \ {c} : Exists(d)' <=> Exists(d)
    BY <1>0, OtherRows DEF AccessInv, Exists
  <2>2. Exists(c)' /\ Exists(c)
    BY <1>0, <1>2 DEF Exists
  <2>3. \A d \in Companies : /\ account'[d].password = account[d].password
                             /\ account'[d].must_change = account[d].must_change
    BY FlagRows DEF AccessInv
  <2> QED BY <2>1, <2>2, <2>3 DEF passwords, flags
<1>4. /\ standings' = [standings EXCEPT ![c] = verdict]
      /\ standings[c] = company[c].status
  BY <1>0, OtherRows, SeenRows DEF AccessInv
<1>5. Promise!Judge(c, verdict)
  BY <1>2, <1>3, <1>4 DEF Promise!Judge, standings, passwords, flags
<1>6. verdict \in {"active", "rejected"}
  BY <1>2
<1> QED BY <1>5, <1>6 DEF Promise!AccessNext

\* A deactivation and a reset leave the sessions of the other companies.
LEMMA OthersKept ==
  ASSUME Base, Current, NEW r \in Requests, InFlight(r), req[r].at = "flushed",
         req[r].op \in {"deactivate", "reset"}
  PROVE  Kept(req[r]) = sessions \ Promise!SessionsOf(req[r].of)
<1>1. Shape(req[r]) /\ RevokesCurrent(r) /\ req[r].op \in Revokers
  BY InFlightRows DEF Current, Revokers, PasswordWrites
<1>2. req[r].token = NoToken
  BY <1>1 DEF Shape
<1>3. \A s \in sessions : s.token # NoToken
  BY NullAssumption DEF Base, TypeOK, SessionRow
<1>4. \A s \in sessions : s.token \in req[r].revokes <=> s.of = req[r].of
  BY <1>1, <1>2, <1>3 DEF RevokesCurrent
<1> QED BY <1>4 DEF Kept, Promise!SessionsOf

\* A deactivation.
LEMMA DeactivationSuspends ==
  ASSUME AccessInv, NEW r \in Requests, req[r].op = "deactivate", req[r].at = "flushed",
         sessions' = Kept(req[r]), Decides(r)
  PROVE  Promise!AccessNext
<1>0. PICK c \in Companies : c = req[r].of
  BY OtherRows DEF AccessInv
<1>1. company[c].status = "active" /\ company'[c].status = "suspended"
  <2>1. company'[c].status = "suspended"
    BY <1>0, Transitions DEF Decides, AccessInv, Base, TypeOK
  <2> QED BY <1>0, <2>1, DecidedRows DEF AccessInv
<1>2. UNCHANGED <<passwords, flags>>
  <2>1. \A d \in Companies \ {c} : Exists(d)' <=> Exists(d)
    BY <1>0, OtherRows DEF AccessInv, Exists
  <2>2. Exists(c)' /\ Exists(c)
    BY <1>1 DEF Exists
  <2>3. \A d \in Companies : /\ account'[d].password = account[d].password
                             /\ account'[d].must_change = account[d].must_change
    BY FlagRows DEF AccessInv
  <2> QED BY <2>1, <2>2, <2>3 DEF passwords, flags
<1>3. /\ standings' = [standings EXCEPT ![c] = "suspended"]
      /\ standings[c] = "active"
  BY <1>0, <1>1, OtherRows, SeenRows DEF AccessInv
<1>4. sessions' = sessions \ Promise!SessionsOf(c)
  BY <1>0, OthersKept DEF AccessInv, Decides
<1>5. Promise!Suspend(c)
  BY <1>2, <1>3, <1>4 DEF Promise!Suspend, standings, passwords, flags
<1> QED BY <1>5 DEF Promise!AccessNext

\* What AccessPromise sees of a write of the password.
LEMMA PasswordSeen ==
  ASSUME AccessInv, NEW r \in Requests, SetsPassword(r)
  PROVE  \E c \in Companies, p \in Passwords :
           /\ c = req[r].of /\ p.temporary = (req[r].op = "reset")
           /\ account'[c].password = p /\ p.hash \in Hashes
           /\ Promise!SetPassword(c, p)
           /\ standings' = standings /\ standings[c] # "absent"
<1>1. /\ InFlight(r) /\ Shape(req[r]) /\ req[r].of \in Companies /\ Exists(req[r].of)
      /\ account[req[r].of] \in AccountRow /\ company' = company
      /\ req[r].op \in PasswordWrites /\ req[r].at = "flushed"
  BY InFlightRows DEF SetsPassword, AccessInv
<1>2. PICK c \in Companies : c = req[r].of
  BY <1>1
<1>3. PICK h \in Hashes :
        /\ FreshHash(h)
        /\ account'[c].password =
             Written(req[r].account.password, [hash |-> h, temporary |-> req[r].op = "reset"],
                     account[c].password)
        /\ account'[c].must_change =
             Written(req[r].account.must_change, req[r].op = "reset", account[c].must_change)
  BY <1>2, SetsPasswordRow DEF AccessInv
<1>4. PICK p \in Passwords : p = [hash |-> h, temporary |-> req[r].op = "reset"]
  <2>1. (req[r].op = "reset") \in BOOLEAN
    OBVIOUS
  <2> QED BY <2>1 DEF Passwords
<1>5. p \in Passwords /\ p.hash = h /\ p.temporary = (req[r].op = "reset") /\ p.temporary \in BOOLEAN
  BY <1>4
<1>6. p # req[r].account.password /\ p # account[c].password
  BY <1>1, <1>3, <1>5 DEF FreshHash
<1>7. account'[c].password = p
  BY <1>3, <1>4, <1>6 DEF Written
<1>8. account'[c].must_change = p.temporary
  <2>1. req[r].account.must_change = account[c].must_change
    BY <1>1, <1>2 DEF AccessInv, Flagged, KnowsFlag
  <2> QED BY <1>3, <1>5, <2>1 DEF Written
<1>9. Exists(c)'
  BY <1>1, <1>2 DEF Exists
<1>10. (Exists(c)' /\ account'[c].must_change) = p.temporary
  BY <1>5, <1>8, <1>9
<1>11. /\ passwords' = [passwords EXCEPT ![c] = p]
       /\ flags' = [flags EXCEPT ![c] = p.temporary]
       /\ standings[c] = company[c].status /\ passwords[c] = account[c].password
  BY <1>2, <1>7, <1>10, OtherRows, SeenRows DEF AccessInv
<1>12. standings' = standings /\ standings[c] # "absent"
  BY <1>1, <1>2, <1>11 DEF standings, Exists
<1>13. (p \in {x \in Passwords : x.temporary}) = p.temporary
  <2>1. p.temporary \in BOOLEAN
    BY <1>5
  <2> QED BY <2>1
<1>14. Promise!SetPassword(c, p)
  BY <1>6, <1>11, <1>13 DEF Promise!SetPassword, standings, passwords, flags
<1> QED BY <1>2, <1>5, <1>7, <1>12, <1>14

\* A reset.
LEMMA ResetResets ==
  ASSUME AccessInv, NEW r \in Requests, req[r].op = "reset", req[r].at = "flushed",
         sessions' = Kept(req[r]), SetsPassword(r)
  PROVE  Promise!AccessNext
<1>1. PICK c \in Companies, p \in Passwords :
        /\ c = req[r].of /\ p.temporary = (req[r].op = "reset")
        /\ Promise!SetPassword(c, p)
        /\ standings' = standings /\ standings[c] # "absent"
  BY PasswordSeen
<1>2. sessions' = sessions \ Promise!SessionsOf(c)
  BY <1>1, OthersKept DEF AccessInv, SetsPassword
<1>3. p \in {x \in Passwords : x.temporary}
  BY <1>1
<1>4. Promise!Reset(c, p)
  BY <1>1, <1>2, <1>3 DEF Promise!Reset, standings
<1> QED BY <1>4 DEF Promise!AccessNext

\* The sessions a change leaves, as AccessPromise has them.
LEMMA ChangedAsPromised ==
  ASSUME Base, Current, NEW r \in Requests, InFlight(r), req[r].op = "change",
         req[r].at = "flushed", NEW p \in Passwords
  PROVE  LET c == req[r].of
             t == req[r].token
         IN  {[s EXCEPT !.password = IF s.token = t THEN p ELSE @] : s \in Kept(req[r])}
               = (sessions \ Promise!SessionsOf(c))
                   \union {[s EXCEPT !.password = p] :
                             s \in {o \in Promise!SessionsOf(c) : o.token = t}}
<1> DEFINE c == req[r].of
           t == req[r].token
           new(s) == [s EXCEPT !.password = IF s.token = t THEN p ELSE @]
           own == {o \in Promise!SessionsOf(c) : o.token = t}
<1>1. RevokesCurrent(r) /\ req[r].op \in Revokers
  BY DEF Current, Revokers, PasswordWrites
<1>2. \A s \in sessions : /\ s.token = t => s.of = c
                          /\ s.of = c => s.token \in req[r].revokes \union {t}
                          /\ s.token \in req[r].revokes => s.of = c
  BY <1>1 DEF RevokesCurrent
<1>3. t \notin req[r].revokes
  BY InFlightRows DEF Shape
<1>4. \A s \in sessions : s \in Kept(req[r]) <=> s.of # c \/ s.token = t
  BY <1>2, <1>3 DEF Kept
<1>5. \A s \in sessions : /\ s.token = t => new(s) = [s EXCEPT !.password = p]
                          /\ s.token # t => new(s) = s
  BY DEF Base, TypeOK, SessionRow
<1>6. own = {s \in sessions : s.token = t}
  BY <1>2 DEF Promise!SessionsOf
<1>7. {s \in Kept(req[r]) : s.token # t} = sessions \ Promise!SessionsOf(c)
  BY <1>2, <1>4 DEF Promise!SessionsOf, Kept
<1>8. {s \in Kept(req[r]) : s.token = t} = own
  BY <1>4, <1>6 DEF Kept
<1>9. Kept(req[r]) \subseteq sessions
  BY DEF Kept
<1> DEFINE left == sessions \ Promise!SessionsOf(c)
           after == {new(s) : s \in Kept(req[r])}
           changed == {[s EXCEPT !.password = p] : s \in own}
<1>10. ASSUME NEW s \in Kept(req[r]) PROVE new(s) \in left \union changed
  <2>1. CASE s.token = t
    <3>1. s \in own /\ new(s) = [s EXCEPT !.password = p]
      BY <1>5, <1>8, <1>9, <2>1
    <3> QED BY <3>1
  <2>2. CASE s.token # t
    <3>1. s \in left /\ new(s) = s
      BY <1>5, <1>7, <1>9, <2>2
    <3> QED BY <3>1
  <2> QED BY <2>1, <2>2
<1>11. left \subseteq after
  <2> SUFFICES ASSUME NEW s \in left PROVE s \in after
    OBVIOUS
  <2>1. s \in Kept(req[r]) /\ new(s) = s
    BY <1>5, <1>7
  <2> QED BY <2>1
<1>12. changed \subseteq after
  <2> SUFFICES ASSUME NEW s \in own PROVE [s EXCEPT !.password = p] \in after
    OBVIOUS
  <2>1. s \in Kept(req[r]) /\ new(s) = [s EXCEPT !.password = p]
    BY <1>5, <1>6, <1>8
  <2> QED BY <2>1
<1>13. after \subseteq left \union changed
  <2> SUFFICES ASSUME NEW s \in Kept(req[r]) PROVE new(s) \in left \union changed
    OBVIOUS
  <2> QED BY <1>10
<1>14. after = left \union changed
  <2> HIDE DEF after, left, changed
  <2> QED BY <1>11, <1>12, <1>13
<1> QED BY <1>14

\* A change by the client.
LEMMA ChangeChanges ==
  ASSUME AccessInv, NEW r \in Requests, NEW h \in Hashes, CommitChange(r, h)
  PROVE  Promise!AccessNext
<1> DEFINE p0 == [hash |-> h, temporary |-> FALSE]
<1>1. InFlight(r) /\ req[r].op = "change" /\ req[r].at = "flushed" /\ FreshHash(h)
  BY DEF CommitChange, At
<1>2. SetsPassword(r)
  BY <1>1 DEF CommitChange, SetsPassword, PasswordWrites
<1>3. PICK c \in Companies, p \in Passwords :
        /\ c = req[r].of /\ p.temporary = (req[r].op = "reset")
        /\ account'[c].password = p /\ Promise!SetPassword(c, p)
        /\ standings' = standings /\ standings[c] # "absent"
  BY <1>2, PasswordSeen
<1>4. Shape(req[r]) /\ account[c] \in AccountRow
  BY <1>1, <1>3, InFlightRows DEF AccessInv
<1>5. PICK t \in Tokens : t = req[r].token
  BY <1>1, <1>4 DEF Shape
<1>6. p = p0
  <2>1. account'[c] = WithPassword(req[r], p0, FALSE)
    BY <1>3 DEF CommitChange, AccessInv, Base, TypeOK
  <2>2. req[r].account.password # p0
    BY <1>1 DEF FreshHash
  <2>3. account'[c].password = p0
    BY <1>4, <2>1, <2>2 DEF WithPassword, Written, AccountRow
  <2> QED BY <1>3, <2>3
<1>7. sessions' = {[s EXCEPT !.password = IF s.token = t THEN p ELSE @] : s \in Kept(req[r])}
  BY <1>5, <1>6 DEF CommitChange
<1>8. sessions' = (sessions \ Promise!SessionsOf(c))
        \union {[s EXCEPT !.password = p] : s \in {o \in Promise!SessionsOf(c) : o.token = t}}
  BY <1>1, <1>3, <1>5, <1>7, ChangedAsPromised DEF AccessInv
<1>9. p \notin {x \in Passwords : x.temporary}
  BY <1>1, <1>3
<1>10. Promise!Change(c, t, p)
  BY <1>3, <1>8, <1>9 DEF Promise!Change, standings
<1> QED BY <1>10 DEF Promise!AccessNext

\* The session of a login or of a registration.
LEMMA SessionEnters ==
  ASSUME AccessInv, NEW r \in Requests, NEW t \in Tokens, CommitSession(r, t)
  PROVE  Promise!AccessNext
<1>1. /\ InFlight(r) /\ req[r].op \in Entries /\ req[r].at = "flushed" /\ FreshToken(t)
      /\ UNCHANGED <<company, account>>
  BY DEF CommitSession
<1>2. PICK c \in Companies : c = req[r].of
  BY <1>1, InFlightRows DEF AccessInv
<1>3. /\ company[c].status \notin {"absent", "suspended"}
      /\ req[r].account.password = account[c].password
  BY <1>1, <1>2, InFlightRows DEF AccessInv, Current, EntersCurrent, Exists
<1>4. /\ standings[c] = company[c].status /\ passwords[c] = account[c].password
      /\ UNCHANGED <<standings, passwords, flags>>
  BY <1>1 DEF standings, passwords, flags, Exists
<1>5. \A s \in sessions : s.token # t
  BY <1>1 DEF FreshToken
<1>6. sessions' = sessions \union {[token |-> t, of |-> c, password |-> passwords[c]]}
  BY <1>2, <1>3, <1>4 DEF CommitSession
<1>7. Promise!Enter(c, t)
  BY <1>3, <1>4, <1>5, <1>6 DEF Promise!Enter, standings, passwords, flags
<1> QED BY <1>7 DEF Promise!AccessNext

\* A logout or an expiry.
LEMMA SessionLeaves ==
  ASSUME NEW s \in sessions, UNCHANGED <<company, account>>, sessions' = sessions \ {s}
  PROVE  Promise!AccessNext
<1>1. UNCHANGED <<standings, passwords, flags>>
  BY SeenSame
<1>2. Promise!Leave(s)
  BY <1>1 DEF Promise!Leave, standings, passwords, flags
<1> QED BY <1>2 DEF Promise!AccessNext

\* An edit, and a step that writes neither rows nor sessions.
LEMMA AccessStutters ==
  ASSUME Base, sessions' = sessions,
         UNCHANGED rows \/ \E r \in Requests : EditsRow(r)
  PROVE  UNCHANGED Promise!avars
<1>1. CASE UNCHANGED rows
  BY <1>1, SeenSame DEF rows, Promise!avars, standings, passwords, flags
<1>2. ASSUME NEW r \in Requests, EditsRow(r) PROVE UNCHANGED Promise!avars
  <2>1. \A c \in Companies : /\ company'[c].status = company[c].status
                             /\ account'[c].password = account[c].password
                             /\ account'[c].must_change = account[c].must_change
    BY <1>2, UndecidedRows, FlagRows
  <2> QED BY <2>1, SeenSame DEF Promise!avars, standings, passwords, flags
<1> QED BY <1>1, <1>2

\* Every step is one of AccessPromise or leaves what it sees alone.
LEMMA StepAccess ==
  ASSUME AccessInv, [Next]_vars
  PROVE  [Promise!AccessNext]_(Promise!avars)
<1>0. Base
  BY DEF AccessInv
<1>1. CASE UNCHANGED rows
  BY <1>0, <1>1, AccessStutters DEF rows
<1>2. CASE \E s \in sessions : UNCHANGED <<company, account>> /\ sessions' = sessions \ {s}
  BY <1>2, SessionLeaves
<1>3. CASE \E r \in Requests, t \in Tokens : CommitSession(r, t)
  BY <1>3, SessionEnters
<1>4. CASE \E r \in Requests : /\ sessions' = sessions
                               /\ \/ Inserts(r) \/ EditsRow(r)
                                  \/ Decides(r) /\ req[r].op # "deactivate"
  BY <1>0, <1>4, InsertOpens, AccessStutters, DecisionJudges
<1>5. CASE \E r \in Requests : /\ req[r].op \in {"deactivate", "reset"}
                               /\ req[r].at = "flushed" /\ sessions' = Kept(req[r])
                               /\ Decides(r) \/ SetsPassword(r)
  <2>1. PICK r \in Requests : /\ req[r].op \in {"deactivate", "reset"}
                              /\ req[r].at = "flushed" /\ sessions' = Kept(req[r])
                              /\ Decides(r) \/ SetsPassword(r)
    BY <1>5
  <2>2. CASE Decides(r)
    <3>1. req[r].op = "deactivate"
      BY <2>1, <2>2 DEF Decides, Decisions
    <3> QED BY <2>1, <2>2, <3>1, DeactivationSuspends
  <2>3. CASE SetsPassword(r)
    <3>1. req[r].op = "reset"
      BY <2>1, <2>3 DEF SetsPassword, PasswordWrites
    <3> QED BY <2>1, <2>3, <3>1, ResetResets
  <2> QED BY <2>1, <2>2, <2>3
<1>6. CASE \E r \in Requests, h \in Hashes : CommitChange(r, h)
  BY <1>6, ChangeChanges
<1> QED BY <1>0, <1>1, <1>2, <1>3, <1>4, <1>5, <1>6, SessionWrites

\* The initial state is one of AccessPromise.
LEMMA InitAccess == Init => Promise!AccessInit
<1> SUFFICES ASSUME Init PROVE Promise!AccessInit
  OBVIOUS
<1>1. \A c \in Companies : company[c].status = "absent" /\ account[c] = NoAccount
  BY DEF Init, NoCompany
<1>2. \A c \in Companies : (Exists(c) /\ account[c].must_change) = FALSE
  BY <1>1 DEF Exists
<1>3. sessions = {}
  BY DEF Init
<1> QED BY <1>1, <1>2, <1>3 DEF Promise!AccessInit

\* While decisions, password writes and logins of one company are kept apart,
\* CompanyAccess implements AccessPromise.
THEOREM ImplementsAccess ==
  ASSUME Overlaps = {}
  PROVE  Spec => KeepsAccess
<1>1. Base /\ [Next]_vars => Base'
  BY BaseStep
<1>2. Base /\ Decided /\ [Next]_vars => Decided'
  BY DecidedStep
<1>3. Base /\ Flagged /\ [Next]_vars => Flagged'
  BY FlaggedStep
<1>4. Base /\ Current /\ [Next]_vars => Current'
  BY CurrentStep
<1>5. AccessInv <=> Base /\ Decided /\ Flagged /\ Current
  BY DEF AccessInv
<1>6. AccessInv /\ [Next]_vars => [Promise!AccessNext]_(Promise!avars)
  BY StepAccess
<1> QED BY <1>1, <1>2, <1>3, <1>4, <1>5, <1>6, BaseInit, DecidedInit, FlaggedInit,
           CurrentInit, InitAccess, PTL DEF Spec, KeepsAccess, Promise!AccessSpec

=============================================================================
