------------------------------- MODULE Accounts -------------------------------
(***************************************************************************)
(* The accounts of the server and the sessions opened with them.           *)
(*                                                                         *)
(* A row of users counts the wrong passwords and holds the end of a lock;  *)
(* a row of refresh_tokens is one right to go on with a session.  A        *)
(* refresh replaces the token by a new one of the same session.  Nothing   *)
(* is locked when it is read: a request reads in one step and commits in a *)
(* later one, writing the columns it changed with the values it computed   *)
(* from what it read, and other requests commit in between.                *)
(*                                                                         *)
(* Names and roles are left out, and so are access tokens: they are valid  *)
(* for fifteen minutes whatever happens here.                              *)
(***************************************************************************)
EXTENDS Integers, FiniteSets

CONSTANTS
  Users, Tokens, Passwords, Workers,
  FirstPassword,         \* of an account that was just created
  MAX_FAILED_ATTEMPTS,
  LOCKOUT_DURATION,
  LastTime,              \* bound on the clock
  MaxRequests,           \* bound on requests
  Absent, Nothing

ASSUME NumbersOfAccounts ==
  /\ MAX_FAILED_ATTEMPTS \in Nat \ {0} /\ LOCKOUT_DURATION \in Nat \ {0}
  /\ LastTime \in Nat /\ MaxRequests \in Nat
ASSUME FirstPasswordIsOne == FirstPassword \in Passwords

Account == [password : Passwords, attempts : Nat, until : Nat, active : BOOLEAN]
Token   == [user : Users, session : Tokens, live : BOOLEAN]
ASSUME AbsentIsNoRow == Absent \notin Account \cup Token

VARIABLES
  user,      \* password, wrong attempts, end of the lock, activity of an account
  token,     \* account, session, validity of a token
  now,
  requests,  \* how many there were
  req,       \* the request of each worker and what it has read
  wrong,     \* wrong passwords of an account since its last lock was over   (not in the program)
  ended,     \* sessions that were ended on purpose                          (not in the program)
  doubled    \* sessions in which requests overlapped                        (not in the program)

vars == <<user, token, now, requests, req, wrong, ended, doubled>>

Rows(t)    == {k \in DOMAIN t : t[k] # Absent}
NoRequest  == [op |-> "none", key |-> Nothing, row |-> Nothing, password |-> Nothing]
Serves(w, op) == req[w].op = op
Takes(w, op, key, row, password) ==
  /\ Serves(w, "none") /\ requests < MaxRequests /\ requests' = requests + 1
  /\ req' = [req EXCEPT ![w] = [op |-> op, key |-> key, row |-> row, password |-> password]]
Ends(w) == req' = [req EXCEPT ![w] = NoRequest]

\* The columns that a request changed are written, the others are left.
Written(u, old, new) ==
  user' = [user EXCEPT ![u] =
             [c \in DOMAIN old |-> IF new[c] # old[c] THEN new[c] ELSE user[u][c]]]

Init ==
  /\ user = [u \in Users |-> Absent] /\ token = [t \in Tokens |-> Absent]
  /\ now = 1 /\ requests = 0
  /\ req = [w \in Workers |-> NoRequest]
  /\ wrong = [u \in Users |-> 0] /\ ended = {} /\ doubled = {}

\* No request lasts as long as a lock.
Tick ==
  /\ now < LastTime /\ now' = now + 1
  /\ \A w \in Workers : Serves(w, "none")
  /\ UNCHANGED <<user, token, requests, req, wrong, ended, doubled>>

\* A request is cut, or its transaction rolled back.
Fails(w) ==
  /\ ~Serves(w, "none") /\ Ends(w)
  /\ UNCHANGED <<user, token, now, requests, wrong, ended, doubled>>

(***************************************************************************)
(* Accounts                                                                *)
(***************************************************************************)
create_user ==
  /\ \E u \in Users :
       /\ user[u] = Absent
       /\ user' = [user EXCEPT ![u] = [password |-> FirstPassword, attempts |-> 0,
                                        until |-> 0, active |-> TRUE]]
  /\ UNCHANGED <<token, now, requests, req, wrong, ended, doubled>>

\* An administrator disables an account, or enables it again.
update_user ==
  /\ requests < MaxRequests /\ requests' = requests + 1
  /\ \E u \in Rows(user) : user' = [user EXCEPT ![u].active = ~@]
  /\ UNCHANGED <<token, now, req, wrong, ended, doubled>>

(***************************************************************************)
(* Login.  until = 0 stands for no lock.                                   *)
(***************************************************************************)
login(w) ==
  /\ \E u \in Rows(user), p \in Passwords : Takes(w, "login", u, user[u], p)
  /\ UNCHANGED <<user, token, now, wrong, ended, doubled>>

\* Mutant: the counter that armed the lock outlives it.
KeepsCounter(r) == IF r.until # 0 THEN [r EXCEPT !.until = 0] ELSE r
\* A lock that is over is cleared together with the counter that armed it.
ClearedIfExpired(r) == IF r.until # 0 THEN [r EXCEPT !.until = 0, !.attempts = 0] ELSE r

Locked(r) == r.until > now
OneMore(r) ==
  LET n == r.attempts + 1 IN
  [r EXCEPT !.attempts = n,
            !.until = IF n >= MAX_FAILED_ATTEMPTS THEN now + LOCKOUT_DURATION ELSE @]

RefuseLocked(w) ==
  /\ Serves(w, "login") /\ Locked(req[w].row) /\ Ends(w)
  /\ UNCHANGED <<user, token, now, requests, wrong, ended, doubled>>

RefuseWrong(w) ==
  LET u == req[w].key  r == req[w].row  cleared == ClearedIfExpired(r) IN
  /\ Serves(w, "login") /\ ~Locked(r) /\ req[w].password # r.password /\ Ends(w)
  /\ Written(u, r, OneMore(cleared))
  /\ wrong' = [wrong EXCEPT ![u] = IF r.until # 0 /\ user[u].until = r.until THEN 1 ELSE @ + 1]
  /\ UNCHANGED <<token, now, requests, ended, doubled>>

RefuseDisabled(w) ==
  LET u == req[w].key  r == req[w].row  IN
  /\ Serves(w, "login") /\ ~Locked(r) /\ req[w].password = r.password /\ ~r.active /\ Ends(w)
  /\ Written(u, r, ClearedIfExpired(r))
  /\ wrong' = IF r.until # 0 /\ user[u].until = r.until THEN [wrong EXCEPT ![u] = 0] ELSE wrong
  /\ UNCHANGED <<token, now, requests, ended, doubled>>

\* A session is named by its first token.
LogIn(w) ==
  LET u == req[w].key  r == req[w].row  IN
  /\ Serves(w, "login") /\ ~Locked(r) /\ req[w].password = r.password /\ r.active /\ Ends(w)
  /\ Written(u, r, [r EXCEPT !.attempts = 0, !.until = 0])
  /\ \E t \in Tokens : token[t] = Absent /\ token' = [token EXCEPT ![t] = [user |-> u, session |-> t, live |-> TRUE]]
  /\ wrong' = IF r.until # 0 /\ user[u].until = r.until THEN [wrong EXCEPT ![u] = 0] ELSE wrong
  /\ UNCHANGED <<now, requests, ended, doubled>>

(***************************************************************************)
(* Sessions                                                                *)
(***************************************************************************)
Live(u)    == {t \in Rows(token) : token[t].user = u /\ token[t].live}
Revoked(ts) == [t \in Tokens |-> IF t \in ts THEN [token[t] EXCEPT !.live = FALSE] ELSE token[t]]

\* What is under way in the session of a token.
Refreshing(s) == \E w \in Workers : Serves(w, "refresh") /\ token[req[w].key].session = s

\* Mutant: a token that was revoked is good for another session.
AnyToken(t) == t \in Rows(token)
Usable(t)   == t \in Rows(token) /\ token[t].live

refresh_tokens(w) ==
  /\ \E t \in Rows(token) :
       /\ Usable(t) /\ user[token[t].user].active
       /\ Takes(w, "refresh", t, Nothing, Nothing)
       /\ doubled' = IF Refreshing(token[t].session) THEN doubled \cup {token[t].session} ELSE doubled
  /\ UNCHANGED <<user, token, now, wrong, ended>>

\* The old token is revoked whatever it is by now.
CommitRefresh(w) ==
  LET t == req[w].key IN
  /\ Serves(w, "refresh") /\ Ends(w)
  /\ \E n \in Tokens : token[n] = Absent
                       /\ token' = [Revoked({t}) EXCEPT ![n] = [token[t] EXCEPT !.live = TRUE]]
  /\ UNCHANGED <<user, now, requests, wrong, ended, doubled>>

Overlapped(ss) == doubled' = doubled \cup {s \in ss : Refreshing(s)}
Sessions(ts)   == {token[t].session : t \in ts}

\* The token a client presents is revoked; the session is over if it was the live one.
logout ==
  /\ requests < MaxRequests /\ requests' = requests + 1
  /\ \E t \in Rows(token) :
       /\ token' = Revoked({t})
       /\ ended' = ended \cup Sessions({t} \cap Live(token[t].user))
       /\ Overlapped(Sessions({t}))
  /\ UNCHANGED <<user, now, req, wrong>>

change_password(w) ==
  /\ \E u \in Rows(user), p \in Passwords :
       user[u].password # p /\ Takes(w, "change_password", u, user[u], p)
  /\ UNCHANGED <<user, token, now, wrong, ended, doubled>>

\* Every token of the account that is live by now is revoked.
CommitPassword(w) ==
  LET u == req[w].key IN
  /\ Serves(w, "change_password") /\ Ends(w)
  /\ user' = [user EXCEPT ![u].password = req[w].password]
  /\ token' = Revoked(Live(u))
  /\ ended' = ended \cup Sessions(Live(u)) /\ Overlapped(Sessions(Live(u)))
  /\ UNCHANGED <<now, requests, wrong>>

Next ==
  \/ Tick \/ create_user \/ update_user \/ logout
  \/ \E w \in Workers :
       \/ Fails(w)
       \/ login(w) \/ RefuseLocked(w) \/ RefuseWrong(w) \/ RefuseDisabled(w) \/ LogIn(w)
       \/ refresh_tokens(w) \/ CommitRefresh(w)
       \/ change_password(w) \/ CommitPassword(w)

Spec == Init /\ [][Next]_vars
=============================================================================
