---------------------------- MODULE AccountsProps ----------------------------
(* What accounts and sessions promise, stated over the module Accounts. *)
EXTENDS Accounts

\* An account is locked only after a full number of wrong passwords since its last
\* lock was over: a lock that ends restores the whole budget, whatever requests
\* overlap.  (auth_service.py:97-103; without it a lock of fifteen minutes
\* became a permanent one.)
FullBudget ==
  [][\A u \in Rows(user) :
       user'[u].until > now /\ user'[u].until # user[u].until =>
         wrong'[u] >= MAX_FAILED_ATTEMPTS]_vars

\* A session has one live token at most, and none when it was ended: by a logout
\* with its live token, or by a new password.  The exception are requests that
\* overlap in the session, since a refresh does not lock the token it replaces.
SessionsStayEnded ==
  \A s \in Tokens \ doubled :
    LET live == {t \in Rows(token) : token[t].session = s /\ token[t].live} IN
    Cardinality(live) <= IF s \in ended THEN 0 ELSE 1

(***************************************************************************)
(* What the two promises rest on.                                          *)
(***************************************************************************)
Request == [op : {"none", "login", "refresh", "change_password"},
            key : Users \cup Tokens \cup {Nothing}, row : Account \cup {Nothing},
            password : Passwords \cup {Nothing}]

\* The tables and the requests, in their shapes; rows are never deleted, so what
\* a request has read is there when it commits.
TypeOK ==
  /\ user \in [Users -> Account \cup {Absent}] /\ token \in [Tokens -> Token \cup {Absent}]
  /\ now \in Nat \ {0} /\ wrong \in [Users -> Nat]
  /\ ended \subseteq Rows(token) /\ doubled \subseteq Tokens
  /\ req \in [Workers -> Request]
  /\ \A w \in Workers :
       /\ Serves(w, "login") => req[w].key \in Rows(user) /\ req[w].row \in Account
       /\ Serves(w, "refresh") => req[w].key \in Rows(token)
       /\ Serves(w, "change_password") => req[w].key \in Rows(user) /\ req[w].password \in Passwords

\* A session has a token from its start on.  Unless requests overlapped in it,
\* one token of it is live or being replaced, and none once it was ended.
InSession(t, s) == t \in Rows(token) /\ token[t].session = s
Good(t, s)      == InSession(t, s) /\ token[t].live
Replacing(w, s) == Serves(w, "refresh") /\ InSession(req[w].key, s)
SessionsInv ==
  /\ \A t \in Rows(token) : token[t].session \in Rows(token)
  /\ \A s \in Tokens \ doubled :
       /\ \A t1, t2 \in Tokens : Good(t1, s) /\ Good(t2, s) => t1 = t2
       /\ s \in ended => \A t \in Tokens : ~Good(t, s)
       /\ \A w \in Workers : Replacing(w, s) =>
            /\ s \notin ended
            /\ \A t \in Tokens : Good(t, s) => t = req[w].key
            /\ \A v \in Workers : Replacing(v, s) => v = w

\* The counter of an account never runs ahead of the wrong passwords given since
\* its last lock was over, in the row and in what a login under way has read of
\* it; all logins that meet a lock that is over have read the same row.
Over(until) == until # 0 /\ until <= now
Attempts(w, u) == Serves(w, "login") /\ req[w].key = u
BudgetInv ==
  \A u \in Rows(user) :
    /\ ~Over(user[u].until) => user[u].attempts <= wrong[u]
    /\ \A w \in Workers : Attempts(w, u) =>
         /\ Over(user[u].until) => /\ req[w].row.until = user[u].until
                                  /\ req[w].row.attempts = user[u].attempts
         /\ req[w].row.until = 0 => req[w].row.attempts <= wrong[u]

AccountsInv == TypeOK /\ SessionsInv /\ BudgetInv
=============================================================================
