---------------------------- MODULE CompanyAccess ----------------------------
(***************************************************************************)
(* Client companies, their single account and its sessions: registration,  *)
(* the administrators' decisions, edits of the company, password resets    *)
(* and changes, login and logout, of companies/service.py, auth/service.py *)
(* and auth/deps.py, under concurrent requests.                            *)
(*                                                                         *)
(* Nothing here is locked for reading. A handler loads a row with db.get   *)
(* or a SELECT, decides, assigns to attributes, and the ORM writes with    *)
(* UPDATE the columns whose value differs from the one it loaded; at READ  *)
(* COMMITTED the other columns are those of the row then (Written).        *)
(* The row is locked from the UPDATE to the commit. A handler that flushes *)
(* before its last statement has a step of its own for that ("flushed");   *)
(* for the others the UPDATE and the commit are one step.                  *)
(***************************************************************************)
EXTENDS FiniteSets

CONSTANTS
  Companies,  \* ids the companies table can hand out; the account has the same
  Inns,       \* tax numbers; the e-mail is unique and checked in the same way
  Logins,     \* logins as they are typed
  Lower,      \* func.lower, as a function on Logins
  Hashes,     \* what hash_password returns: a new salt, so a new value, each time
  Tokens,     \* session tokens
  Requests,   \* slots for HTTP requests in flight
  NoInn, NoToken, NoHash,
  Overlaps    \* the pairs of operations on one company that may overlap

ASSUME LowerAssumption == Lower \in [Logins -> Logins]
ASSUME NullAssumption == NoInn \notin Inns /\ NoToken \notin Tokens /\ NoHash \notin Hashes
ASSUME OverlapsAssumption == Overlaps \subseteq {"decisions", "passwords", "logins"}

VARIABLES
  company,   \* the companies row of each id
  account,   \* the company_accounts row of each company
  sessions,  \* the sessions that are neither revoked nor expired
  req        \* what each request in flight has loaded and is about to do

vars == <<company, account, sessions, req>>

-----------------------------------------------------------------------------
(* Rows and requests.                                                      *)

CompanyStatus == {"pending", "active", "rejected", "suspended"}
CompanyRow == [status : CompanyStatus, inn : Inns \union {NoInn}, billing : BOOLEAN]
NoCompany == [status |-> "absent"]

\* A hash, and whether _generate_temporary_password made the password.
Passwords == [hash : Hashes, temporary : BOOLEAN]
AccountRow == [login : Logins, password : Passwords,
               must_change : BOOLEAN, is_active : BOOLEAN]
NoAccount == [is_active |-> FALSE, password |-> [hash |-> NoHash, temporary |-> FALSE]]

\* password: history, the account's password when its holder last proved or set it.
SessionRow == [token : Tokens, of : Companies, password : Passwords]

Decisions == {"approve", "reject", "deactivate", "activate"}
Edits == {"edit", "profile"}
PasswordWrites == {"reset", "change"}
Entries == {"login", "register"}
Operation == Decisions \union Edits \union PasswordWrites \union Entries \union {"create"}

\* "insert": register and create have checked the unique fields; "session" and
\* "status": current_auth; "account", "company", "load": before the next read;
\* "write": before the UPDATE; "flushed": before the commit.
Stage == {"insert", "session", "status", "account", "company", "load", "write", "flushed"}

Idle == [at |-> "idle"]
RequestRow ==
  [at : Stage, op : Operation, of : Companies, token : Tokens \union {NoToken},
   company : CompanyRow \union {NoCompany}, newCompany : CompanyRow \union {NoCompany},
   account : AccountRow \union {NoAccount}, revokes : SUBSET Tokens]

InFlight(r) == req[r].at # "idle"
On(r, c) == InFlight(r) /\ req[r].of = c
Exists(c) == company[c].status # "absent"

TypeOK ==
  /\ company \in [Companies -> CompanyRow \union {NoCompany}]
  /\ account \in [Companies -> AccountRow \union {NoAccount}]
  /\ \A c \in Companies : IF Exists(c) THEN account[c] \in AccountRow ELSE account[c] = NoAccount
  /\ sessions \subseteq SessionRow
  /\ \A s, t \in sessions : s.token = t.token => s = t
  /\ req \in [Requests -> RequestRow \union {Idle}]

-----------------------------------------------------------------------------
(* What the ORM and the database do.                                       *)

\* Faulty variant of Written: the UPDATE writes every column.
WrittenAlways(loaded, new, now) == new

\* A column after the UPDATE of a row loaded with `loaded` and assigned `new`.
Written(loaded, new, now) == IF new # loaded THEN new ELSE now

\* deactivate_company leaves an account alone that it loaded inactive.
WritesAccount(q) == q.op = "deactivate" => q.account.is_active

\* The rows of company c another request has written and not committed.
CompanyLocked(c) ==
  \E r \in Requests : On(r, c) /\ req[r].at = "flushed" /\ req[r].op = "deactivate"
AccountLocked(c) ==
  \E r \in Requests : On(r, c) /\ req[r].at = "flushed" /\ WritesAccount(req[r])

\* uq_companies_inn, and the SELECT of _assert_unique_company_fields.
InnTaken(inn, c) ==
  inn # NoInn /\ \E d \in Companies \ {c} : Exists(d) /\ company[d].inn = inn

\* company_accounts.login is unique as it is typed, the SELECT ignores case.
LoginTaken(login) == \E d \in Companies : Exists(d) /\ account[d].login = login
LoginTakenAnyCase(login) ==
  \E d \in Companies : Exists(d) /\ Lower[account[d].login] = Lower[login]

FreshHash(h) ==
  /\ \A c \in Companies : account[c].password.hash # h
  /\ \A s \in sessions : s.password.hash # h
  /\ \A r \in Requests :
       InFlight(r) => req[r].account.password.hash # h

FreshToken(t) ==
  /\ \A s \in sessions : s.token # t
  /\ \A r \in Requests : InFlight(r) => req[r].token # t /\ t \notin req[r].revokes

FreshId(c) == ~Exists(c) /\ \A r \in Requests : ~On(r, c)

\* Pairs that are kept apart unless Overlaps names them: two decisions, two
\* writes of the password, an entry and what revokes the sessions.
Disturb(op, other) ==
  \/ "decisions" \notin Overlaps /\ {op, other} \subseteq Decisions
  \/ "passwords" \notin Overlaps /\ {op, other} \subseteq PasswordWrites
  \/ /\ "logins" \notin Overlaps
     /\ {op, other} \intersect Entries # {}
     /\ {op, other} \intersect (PasswordWrites \union {"deactivate"}) # {}

Apart(op, c) == \A r \in Requests : On(r, c) => ~Disturb(op, req[r].op)

Request(op, c, at) ==
  [at |-> at, op |-> op, of |-> c, token |-> NoToken, company |-> NoCompany,
   newCompany |-> NoCompany, account |-> NoAccount, revokes |-> {}]

Starts(r, q) == ~InFlight(r) /\ Apart(q.op, q.of) /\ req' = [req EXCEPT ![r] = q]
Becomes(r, q) == req' = [req EXCEPT ![r] = q]
Ends(r) == req' = [req EXCEPT ![r] = Idle]
At(r, op, at) == InFlight(r) /\ req[r].op = op /\ req[r].at = at

rows == <<company, account, sessions>>

Init ==
  /\ company = [c \in Companies |-> NoCompany]
  /\ account = [c \in Companies |-> NoAccount]
  /\ sessions = {}
  /\ req = [r \in Requests |-> Idle]

-----------------------------------------------------------------------------
(* register_company and the login that follows it; create_company.         *)

\* _assert_unique_company_fields before the INSERT; the row to insert is made up.
Register(r, c, login, inn, h) ==
  /\ FreshId(c) /\ FreshHash(h)
  /\ ~LoginTakenAnyCase(login) /\ ~InnTaken(inn, c)
  /\ Starts(r, [Request("register", c, "insert") EXCEPT
       !.newCompany = [status |-> "pending", inn |-> inn, billing |-> FALSE],
       !.account = [login |-> login, must_change |-> FALSE, is_active |-> TRUE,
                    password |-> [hash |-> h, temporary |-> FALSE]]])
  /\ UNCHANGED rows

\* The administrator gives a login or one is generated (compared as typed).
CreateCompany(r, c, login, inn, billing, h) ==
  /\ FreshId(c) /\ FreshHash(h)
  /\ ~LoginTaken(login) /\ ~InnTaken(inn, c)
  /\ Starts(r, [Request("create", c, "insert") EXCEPT
       !.newCompany = [status |-> "active", inn |-> inn, billing |-> billing],
       !.account = [login |-> login, must_change |-> TRUE, is_active |-> TRUE,
                    password |-> [hash |-> h, temporary |-> TRUE]]])
  /\ UNCHANGED rows

\* Faulty variant of InsertCompany: nothing is unique in the database.
InsertCompanyUnconstrained(r) ==
  LET q == req[r] IN
  /\ InFlight(r) /\ q.at = "insert"
  /\ company' = [company EXCEPT ![q.of] = q.newCompany]
  /\ account' = [account EXCEPT ![q.of] = q.account]
  /\ UNCHANGED sessions
  /\ IF q.op = "create" THEN Ends(r)
     ELSE Becomes(r, [q EXCEPT !.at = "write", !.newCompany = NoCompany])

\* Faulty variant of InsertCompany: the account is not in the same transaction.
InsertCompanyAlone(r) ==
  LET q == req[r] IN
  /\ InFlight(r) /\ q.at = "insert"
  /\ company' = [company EXCEPT ![q.of] = q.newCompany]
  /\ Ends(r) /\ UNCHANGED <<account, sessions>>

\* Company, account and cart in one transaction: all of them, or on a unique
\* violation none. The registered client is logged in by a second transaction.
InsertCompany(r) ==
  LET q == req[r] IN
  /\ InFlight(r) /\ q.at = "insert"
  /\ IF InnTaken(q.newCompany.inn, q.of) \/ LoginTaken(q.account.login)
     THEN Ends(r) /\ UNCHANGED rows
     ELSE /\ company' = [company EXCEPT ![q.of] = q.newCompany]
          /\ account' = [account EXCEPT ![q.of] = q.account]
          /\ UNCHANGED sessions
          /\ IF q.op = "create" THEN Ends(r)
             ELSE Becomes(r, [q EXCEPT !.at = "write", !.newCompany = NoCompany])

-----------------------------------------------------------------------------
(* approve_company, reject_company, deactivate_company, activate_company.  *)

\* The status a decision is made on, and the one it leads to.
From == [op \in Decisions |-> CASE op = "activate" -> "suspended"
                                [] op = "deactivate" -> "active"
                                [] OTHER -> "pending"]
To == [op \in Decisions |-> CASE op = "reject" -> "rejected"
                              [] op = "deactivate" -> "suspended"
                              [] OTHER -> "active"]

\* The company is loaded and its status and supplier entity are looked at.
Decide(r, c, op) ==
  /\ company[c].status = From[op]
  /\ op = "approve" => company[c].billing
  /\ Starts(r, [Request(op, c, IF op \in {"approve", "reject"} THEN "write" ELSE "account")
       EXCEPT !.company = company[c],
              !.newCompany = [company[c] EXCEPT !.status = To[op]]])
  /\ UNCHANGED rows

\* deactivate_company and activate_company load the account next.
DecideAccount(r) ==
  /\ At(r, "deactivate", "account") \/ At(r, "activate", "account")
  /\ Becomes(r, [req[r] EXCEPT !.account = account[req[r].of], !.at = "write"])
  /\ UNCHANGED rows

\* The company row after the decision or edit of request q.
WrittenCompany(q) ==
  LET now == company[q.of] IN
  [status  |-> Written(q.company.status, q.newCompany.status, now.status),
   inn     |-> Written(q.company.inn, q.newCompany.inn, now.inn),
   billing |-> Written(q.company.billing, q.newCompany.billing, now.billing)]

\* Faulty variant of SetActive: the account keeps its flag.
SetActiveNever(q, on) == account[q.of]

SetActive(q, on) ==
  [account[q.of] EXCEPT !.is_active = Written(q.account.is_active, on, @)]

CommitDecision(r) ==
  /\ At(r, "approve", "write") \/ At(r, "reject", "write")
  /\ ~CompanyLocked(req[r].of)
  /\ company' = [company EXCEPT ![req[r].of] = WrittenCompany(req[r])]
  /\ Ends(r) /\ UNCHANGED <<account, sessions>>

CommitActivate(r) ==
  LET q == req[r] IN
  /\ At(r, "activate", "write")
  /\ ~CompanyLocked(q.of) /\ (~q.account.is_active => ~AccountLocked(q.of))
  /\ company' = [company EXCEPT ![q.of] = WrittenCompany(q)]
  /\ account' = [account EXCEPT ![q.of] = SetActive(q, TRUE)]
  /\ Ends(r) /\ UNCHANGED sessions

-----------------------------------------------------------------------------
(* revoke_company_sessions and the UPDATE of change_company_password.      *)

\* The sessions a statement of request q sees and revokes.
Revoked(q) == {s.token : s \in {t \in sessions : t.of = q.of /\ t.token # q.token}}

\* Faulty variant of Flush: a reset does not revoke the sessions.
FlushResetKeepsSessions(r) ==
  LET q == req[r] IN
  /\ \E op \in PasswordWrites \union {"deactivate"} : At(r, op, "write")
  /\ q.op = "deactivate" => ~CompanyLocked(q.of)
  /\ WritesAccount(q) => ~AccountLocked(q.of)
  /\ Becomes(r, [q EXCEPT !.at = "flushed",
                          !.revokes = IF q.op = "reset" THEN {} ELSE Revoked(q)])
  /\ UNCHANGED rows

\* The statement flushes what was assigned (and waits for the rows) and then
\* revokes the sessions that are committed by now.
Flush(r) ==
  LET q == req[r] IN
  /\ \E op \in PasswordWrites \union {"deactivate"} : At(r, op, "write")
  /\ q.op = "deactivate" => ~CompanyLocked(q.of)
  /\ WritesAccount(q) => ~AccountLocked(q.of)
  /\ Becomes(r, [q EXCEPT !.at = "flushed", !.revokes = Revoked(q)])
  /\ UNCHANGED rows

Kept(q) == {s \in sessions : s.token \notin q.revokes}

CommitDeactivate(r) ==
  LET q == req[r] IN
  /\ At(r, "deactivate", "flushed")
  /\ company' = [company EXCEPT ![q.of] = WrittenCompany(q)]
  /\ account' = [account EXCEPT ![q.of] = SetActive(q, FALSE)]
  /\ sessions' = Kept(q)
  /\ Ends(r)

-----------------------------------------------------------------------------
(* reset_company_password and change_company_password.                     *)

Reset(r, c) ==
  /\ Exists(c)
  /\ Starts(r, [Request("reset", c, "write") EXCEPT !.account = account[c]])
  /\ UNCHANGED rows

\* The account with password p, where the flag must_change was assigned.
WithPassword(q, p, must) ==
  [account[q.of] EXCEPT !.password = Written(q.account.password, p, @),
                        !.must_change = Written(q.account.must_change, must, @)]

\* Faulty variant of CommitReset: the flag is left as it is.
CommitResetKeepsFlag(r, h) ==
  LET q == req[r] IN
  /\ At(r, "reset", "flushed") /\ FreshHash(h)
  /\ account' = [account EXCEPT ![q.of] =
       WithPassword(q, [hash |-> h, temporary |-> TRUE], q.account.must_change)]
  /\ sessions' = Kept(q)
  /\ Ends(r) /\ UNCHANGED company

CommitReset(r, h) ==
  LET q == req[r] IN
  /\ At(r, "reset", "flushed") /\ FreshHash(h)
  /\ account' = [account EXCEPT ![q.of] =
       WithPassword(q, [hash |-> h, temporary |-> TRUE], TRUE)]
  /\ sessions' = Kept(q)
  /\ Ends(r) /\ UNCHANGED company

\* Faulty variant of CommitChange: the flag is left as it is.
CommitChangeKeepsFlag(r, h) ==
  LET q == req[r]
      p == [hash |-> h, temporary |-> FALSE] IN
  /\ At(r, "change", "flushed") /\ FreshHash(h)
  /\ account' = [account EXCEPT ![q.of] = WithPassword(q, p, q.account.must_change)]
  /\ sessions' = {[s EXCEPT !.password = IF s.token = q.token THEN p ELSE @] : s \in Kept(q)}
  /\ Ends(r) /\ UNCHANGED company

\* The client's own session survives, and its holder has set the new password.
CommitChange(r, h) ==
  LET q == req[r]
      p == [hash |-> h, temporary |-> FALSE] IN
  /\ At(r, "change", "flushed") /\ FreshHash(h)
  /\ account' = [account EXCEPT ![q.of] = WithPassword(q, p, FALSE)]
  /\ sessions' = {[s EXCEPT !.password = IF s.token = q.token THEN p ELSE @] : s \in Kept(q)}
  /\ Ends(r) /\ UNCHANGED company

-----------------------------------------------------------------------------
(* current_auth and what a client does in a session.                       *)

\* A request with the cookie of session s: change_company_password (the path is
\* allowed to a client that must change its password) or update_company_profile.
Enter(r, s, op) ==
  /\ op \in {"change", "profile"}
  /\ Starts(r, [Request(op, s.of, "session") EXCEPT !.token = s.token])
  /\ UNCHANGED rows

AuthAccount(r) ==
  LET q == req[r] IN
  /\ At(r, "change", "session") \/ At(r, "profile", "session")
  /\ IF account[q.of].is_active THEN Becomes(r, [q EXCEPT !.at = "status"]) ELSE Ends(r)
  /\ UNCHANGED rows

\* The status goes into the AuthContext; assert_can_change_credentials reads it there.
AuthCompany(r) ==
  LET q == req[r]
      status == company[q.of].status IN
  /\ At(r, "change", "status") \/ At(r, "profile", "status")
  /\ IF status = "suspended" \/ (q.op = "change" /\ status = "rejected")
     THEN Ends(r)
     ELSE Becomes(r, [q EXCEPT !.at = "load"])
  /\ UNCHANGED rows

LoadAccount(r) ==
  /\ At(r, "change", "load")
  /\ Becomes(r, [req[r] EXCEPT !.account = account[req[r].of], !.at = "write"])
  /\ UNCHANGED rows

\* update_company_profile loads the company again and checks the unique fields.
LoadProfile(r, inn) ==
  LET q == req[r]
      row == company[q.of] IN
  /\ At(r, "profile", "load")
  /\ IF row.status = "rejected" \/ InnTaken(inn, q.of)
     THEN Ends(r)
     ELSE Becomes(r, [q EXCEPT !.at = "write", !.company = row,
                               !.newCompany = [row EXCEPT !.inn = inn]])
  /\ UNCHANGED rows

\* update_company_admin: the same fields and the supplier entity.
EditCompany(r, c, inn, billing) ==
  /\ Exists(c) /\ ~InnTaken(inn, c)
  /\ Starts(r, [Request("edit", c, "write") EXCEPT
       !.company = company[c],
       !.newCompany = [company[c] EXCEPT !.inn = inn, !.billing = billing]])
  /\ UNCHANGED rows

\* A unique violation at the UPDATE rolls the edit back.
CommitEdit(r) ==
  LET q == req[r] IN
  /\ At(r, "edit", "write") \/ At(r, "profile", "write")
  /\ ~CompanyLocked(q.of)
  /\ company' = IF InnTaken(WrittenCompany(q).inn, q.of)
                THEN company
                ELSE [company EXCEPT ![q.of] = WrittenCompany(q)]
  /\ Ends(r) /\ UNCHANGED <<account, sessions>>

\* revoke_token, or the session expires.
EndSession(s) ==
  /\ sessions' = sessions \ {s}
  /\ UNCHANGED <<company, account, req>>

-----------------------------------------------------------------------------
(* authenticate.                                                           *)

\* find_login reads the account and, in FindLoginCompany, its company; the
\* password given is verified against the hash that was read.
FindLogin(r, c) ==
  /\ account[c].is_active
  /\ Starts(r, [Request("login", c, "company") EXCEPT !.account = account[c]])
  /\ UNCHANGED rows

FindLoginCompany(r) ==
  LET q == req[r] IN
  /\ At(r, "login", "company")
  /\ IF company[q.of].status = "suspended"
     THEN Ends(r)
     ELSE Becomes(r, [q EXCEPT !.at = "write"])
  /\ UNCHANGED rows

\* create_session, and touch_last_login updates the account row.
FlushSession(r) ==
  LET q == req[r] IN
  /\ q.at = "write" /\ q.op \in Entries
  /\ ~AccountLocked(q.of)
  /\ Becomes(r, [q EXCEPT !.at = "flushed"])
  /\ UNCHANGED rows

CommitSession(r, t) ==
  LET q == req[r] IN
  /\ InFlight(r) /\ q.at = "flushed" /\ q.op \in Entries /\ FreshToken(t)
  /\ sessions' = sessions \union {[token |-> t, of |-> q.of, password |-> q.account.password]}
  /\ Ends(r) /\ UNCHANGED <<company, account>>

-----------------------------------------------------------------------------
\* An error, a lost connection or a crash: get_session rolls back.
Fail(r) == InFlight(r) /\ Ends(r) /\ UNCHANGED rows

Public(r) ==
  \/ \E c \in Companies, login \in Logins, inn \in Inns, h \in Hashes :
       Register(r, c, login, inn, h)
  \/ InsertCompany(r)
  \/ \E c \in Companies : FindLogin(r, c)
  \/ FindLoginCompany(r)
  \/ FlushSession(r)
  \/ \E t \in Tokens : CommitSession(r, t)

Client(r) ==
  \/ \E s \in sessions, op \in {"change", "profile"} : Enter(r, s, op)
  \/ AuthAccount(r) \/ AuthCompany(r) \/ LoadAccount(r)
  \/ \E inn \in Inns \union {NoInn} : LoadProfile(r, inn)
  \/ \E h \in Hashes : CommitChange(r, h)

Admin(r) ==
  \/ \E c \in Companies, login \in Logins, inn \in Inns \union {NoInn},
        billing \in BOOLEAN, h \in Hashes : CreateCompany(r, c, login, inn, billing, h)
  \/ \E c \in Companies, op \in Decisions : Decide(r, c, op)
  \/ DecideAccount(r) \/ CommitDecision(r) \/ CommitActivate(r) \/ CommitDeactivate(r)
  \/ \E c \in Companies : Reset(r, c)
  \/ \E h \in Hashes : CommitReset(r, h)
  \/ \E c \in Companies, inn \in Inns \union {NoInn}, billing \in BOOLEAN :
       EditCompany(r, c, inn, billing)

Next ==
  \/ \E r \in Requests : Public(r) \/ Client(r) \/ Admin(r) \/ Flush(r) \/ CommitEdit(r) \/ Fail(r)
  \/ \E s \in sessions : EndSession(s)

Spec == Init /\ [][Next]_vars

-----------------------------------------------------------------------------
(* Properties.                                                             *)

\* While two decisions on one company do not overlap, its status takes only the
\* transitions the four decisions stand for, whatever edits, resets and logins
\* of the same company commit in between (companies/service.py 683-829).
StatusStep(c) ==
  company'[c].status # company[c].status =>
    <<company[c].status, company'[c].status>> \in
      {<<"absent", "pending">>, <<"absent", "active">>, <<"pending", "active">>,
       <<"pending", "rejected">>, <<"active", "suspended">>, <<"suspended", "active">>}

DecisionsFollowStatus == [][\A c \in Companies : StatusStep(c)]_vars

\* On the same condition an account can be used exactly when its company is not
\* suspended: the pair of rows that deactivate_company and activate_company write
\* is never left half way by the writes of other requests to either of them.
AccountFollowsStatus ==
  \A c \in Companies :
    Exists(c) => (account[c].is_active <=> company[c].status # "suspended")

\* "при временном пароле гонит на смену" (auth/deps.py:102): while password writes
\* of one account do not overlap, an account whose password was generated for it
\* has must_change_password set, also when decisions rewrite the row.
TemporaryPasswordMustChange ==
  \A c \in Companies :
    Exists(c) /\ account[c].password.temporary => account[c].must_change

\* While no login is under way during a reset, a change or a deactivation of its
\* account, every session was opened with the account's present password or is
\* the one that set it, and a suspended company has none: what revoke_company_sessions
\* and change_company_password revoke is all there is to revoke.
SessionsAreCurrent ==
  \A s \in sessions :
    /\ s.password = account[s.of].password
    /\ company[s.of].status # "suspended"

\* Two companies share neither tax number nor login, although each is looked for
\* before, and not at the time of, the INSERT or UPDATE (companies/service.py:586).
FieldsAreUnique ==
  \A c, d \in Companies :
    c # d /\ Exists(c) /\ Exists(d) =>
      /\ account[c].login # account[d].login
      /\ company[c].inn = company[d].inn => company[c].inn = NoInn

\* The abstract promise that the decisions, the password writes and the logins
\* implement; a company that does not exist has no flag.
Promise == INSTANCE AccessPromise WITH
  Generated <- {p \in Passwords : p.temporary},
  NoPassword <- NoAccount.password,
  standing <- [c \in Companies |-> company[c].status],
  password <- [c \in Companies |-> account[c].password],
  mustChange <- [c \in Companies |-> Exists(c) /\ account[c].must_change]

\* While decisions, password writes and logins of one company are kept apart,
\* who may enter changes as if every request were a single step: a commit that
\* takes access away takes all the sessions of the company, and only those, and
\* one that gives access is based on what is committed then.
KeepsAccess == Promise!AccessSpec
=============================================================================
