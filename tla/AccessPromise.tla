----------------------------- MODULE AccessPromise -----------------------------
(***************************************************************************)
(* What the accounts of client companies promise, with no requests, rows   *)
(* or flushes: who may enter is decided on the company's standing and its  *)
(* present password at one instant, and what takes access away takes the   *)
(* sessions with it at that instant.  CompanyAccess implements it while    *)
(* the operations of its Overlaps are kept apart.                          *)
(***************************************************************************)
CONSTANTS
  Companies, Tokens, Passwords,
  Generated,  \* the passwords that are generated for an account
  NoPassword  \* what a company that does not exist yet has

VARIABLES
  standing,    \* what has been decided about each company
  password,    \* the password of its account
  mustChange,  \* whether its holder is made to change it
  sessions     \* the sessions open: token, company and password

avars == <<standing, password, mustChange, sessions>>

SessionsOf(c) == {s \in sessions : s.of = c}

-----------------------------------------------------------------------------

AccessInit ==
  /\ standing = [c \in Companies |-> "absent"]
  /\ password = [c \in Companies |-> NoPassword]
  /\ mustChange = [c \in Companies |-> FALSE]
  /\ sessions = {}

\* The account of c gets a password it did not have.
SetPassword(c, p) ==
  /\ p # password[c]
  /\ password' = [password EXCEPT ![c] = p]
  /\ mustChange' = [mustChange EXCEPT ![c] = (p \in Generated)]

\* A client registers with its own password and waits for the decision; an
\* administrator opens the company with a generated one.
Open(c, p) ==
  /\ standing[c] = "absent"
  /\ standing' = [standing EXCEPT ![c] = IF p \in Generated THEN "active" ELSE "pending"]
  /\ SetPassword(c, p)
  /\ UNCHANGED sessions

Judge(c, verdict) ==
  /\ <<standing[c], verdict>> \in
       {<<"pending", "active">>, <<"pending", "rejected">>, <<"suspended", "active">>}
  /\ standing' = [standing EXCEPT ![c] = verdict]
  /\ UNCHANGED <<password, mustChange, sessions>>

\* Access ends for everyone who is in, and for nobody of another company.
Suspend(c) ==
  /\ standing[c] = "active"
  /\ standing' = [standing EXCEPT ![c] = "suspended"]
  /\ sessions' = sessions \ SessionsOf(c)
  /\ UNCHANGED <<password, mustChange>>

Reset(c, p) ==
  /\ standing[c] # "absent" /\ p \in Generated
  /\ SetPassword(c, p)
  /\ sessions' = sessions \ SessionsOf(c)
  /\ UNCHANGED standing

\* The session with token t, if it is still open, goes on with the new password;
\* no other session of c does.
Change(c, t, p) ==
  /\ standing[c] # "absent" /\ p \notin Generated
  /\ SetPassword(c, p)
  /\ sessions' = (sessions \ SessionsOf(c))
       \union {[s EXCEPT !.password = p] : s \in {o \in SessionsOf(c) : o.token = t}}
  /\ UNCHANGED standing

Enter(c, t) ==
  /\ standing[c] \notin {"absent", "suspended"}
  /\ \A s \in sessions : s.token # t
  /\ sessions' = sessions \union {[token |-> t, of |-> c, password |-> password[c]]}
  /\ UNCHANGED <<standing, password, mustChange>>

Leave(s) ==
  /\ sessions' = sessions \ {s}
  /\ UNCHANGED <<standing, password, mustChange>>

AccessNext ==
  \/ \E c \in Companies, p \in Passwords : Open(c, p) \/ Reset(c, p)
  \/ \E c \in Companies, verdict \in {"active", "rejected"} : Judge(c, verdict)
  \/ \E c \in Companies : Suspend(c)
  \/ \E c \in Companies, t \in Tokens, p \in Passwords : Change(c, t, p)
  \/ \E c \in Companies, t \in Tokens : Enter(c, t)
  \/ \E s \in sessions : Leave(s)

AccessSpec == AccessInit /\ [][AccessNext]_avars
=============================================================================
