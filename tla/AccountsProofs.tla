---------------------------- MODULE AccountsProofs ----------------------------
(***************************************************************************)
(* Proofs about Accounts.  AccountsInv says what a request may rely on     *)
(* that has read a row without locking it: a counter it has read is not    *)
(* ahead of the wrong passwords given, every login that meets a lock that  *)
(* is over has read the row as it still is, and a token that is being      *)
(* replaced is the only live one of its session, unless other requests of  *)
(* the session overlapped with the refresh.                                *)
(***************************************************************************)
EXTENDS AccountsProps, FiniteSetTheorems, TLAPS

LEMMA AccountFacts ==
  ASSUME NEW r \in Account
  PROVE  /\ DOMAIN r = {"password", "attempts", "until", "active"}
         /\ r.attempts \in Nat /\ r.until \in Nat /\ r.password \in Passwords /\ r.active \in BOOLEAN
         /\ r # Absent
BY AbsentIsNoRow DEF Account

\* A commit writes the columns the request changed over the row as it is by now.
LEMMA WrittenFacts ==
  ASSUME user \in [Users -> Account \cup {Absent}], NEW u \in Users, user[u] \in Account,
         NEW old \in Account, NEW new \in Account, Written(u, old, new)
  PROVE  /\ user'[u] \in Account /\ \A x \in Users \ {u} : user'[x] = user[x]
         /\ user'[u].until = IF new.until # old.until THEN new.until ELSE user[u].until
         /\ user'[u].attempts = IF new.attempts # old.attempts THEN new.attempts ELSE user[u].attempts
<1> DEFINE f == [c \in DOMAIN old |-> IF new[c] # old[c] THEN new[c] ELSE user[u][c]]
<1>1. DOMAIN old = {"password", "attempts", "until", "active"} BY AccountFacts
<1>2. user' = [user EXCEPT ![u] = f] BY DEF Written
<1>3. /\ f.password = IF new.password # old.password THEN new.password ELSE user[u].password
      /\ f.attempts = IF new.attempts # old.attempts THEN new.attempts ELSE user[u].attempts
      /\ f.until = IF new.until # old.until THEN new.until ELSE user[u].until
      /\ f.active = IF new.active # old.active THEN new.active ELSE user[u].active
  BY <1>1
<1>4. f = [password |-> f.password, attempts |-> f.attempts, until |-> f.until, active |-> f.active]
  BY <1>1
<1>5. f \in Account
  <2>1. /\ f.password \in Passwords /\ f.attempts \in Nat /\ f.until \in Nat /\ f.active \in BOOLEAN
    BY <1>3, AccountFacts
  <2> QED BY <1>4, <2>1 DEF Account
<1> HIDE DEF f
<1> QED BY <1>2, <1>3, <1>5

(***************************************************************************)
(* Requests and tables keep their shapes.                                  *)
(***************************************************************************)
LEMMA TakesFacts ==
  ASSUME req \in [Workers -> Request], NEW w \in Workers,
         NEW op \in {"login", "refresh", "change_password"}, NEW key \in Users \cup Tokens,
         NEW row \in Account \cup {Nothing}, NEW password \in Passwords \cup {Nothing},
         Takes(w, op, key, row, password)
  PROVE  /\ req[w].op = "none" /\ req' \in [Workers -> Request]
         /\ req'[w].op = op /\ req'[w].key = key /\ req'[w].row = row /\ req'[w].password = password
         /\ \A v \in Workers \ {w} : req'[v] = req[v]
<1> DEFINE r == [op |-> op, key |-> key, row |-> row, password |-> password]
<1>1. r \in Request BY DEF Request
<1>2. r.op = op /\ r.key = key /\ r.row = row /\ r.password = password OBVIOUS
<1>3. req' = [req EXCEPT ![w] = r] /\ req[w].op = "none" BY DEF Takes, Serves
<1> HIDE DEF r
<1> QED BY <1>1, <1>2, <1>3

LEMMA EndsFacts ==
  ASSUME req \in [Workers -> Request], NEW w \in Workers, Ends(w)
  PROVE  /\ req' \in [Workers -> Request] /\ req'[w].op = "none"
         /\ \A v \in Workers \ {w} : req'[v] = req[v]
<1>1. NoRequest \in Request /\ NoRequest.op = "none" BY DEF NoRequest, Request
<1> QED BY <1>1 DEF Ends

\* A login that goes through, or is refused, leaves the row of an account.
LEMMA LoginRows ==
  ASSUME TypeOK, NEW w \in Workers, Serves(w, "login")
  PROVE  /\ req[w].key \in Users /\ user[req[w].key] \in Account /\ req[w].row \in Account
         /\ ClearedIfExpired(req[w].row) \in Account
         /\ OneMore(ClearedIfExpired(req[w].row)) \in Account
         /\ [req[w].row EXCEPT !.attempts = 0, !.until = 0] \in Account
<1> DEFINE r == req[w].row  c == ClearedIfExpired(r)
<1>1. req[w].key \in Users /\ user[req[w].key] \in Account /\ r \in Account
  BY DEF TypeOK, Rows
<1> HIDE DEF r
<1>2. [r EXCEPT !.until = 0, !.attempts = 0] \in Account /\ [r EXCEPT !.attempts = 0, !.until = 0] \in Account
  BY <1>1 DEF Account
<1>3. c \in Account BY <1>1, <1>2 DEF ClearedIfExpired
<1> HIDE DEF c
<1>4. OneMore(c) \in Account
  <2>1. /\ c.attempts \in Nat /\ c.attempts + 1 \in Nat /\ c.until \in Nat
        /\ now + LOCKOUT_DURATION \in Nat
    BY <1>3, AccountFacts, NumbersOfAccounts DEF TypeOK
  <2> DEFINE n == c.attempts + 1
             until == IF n >= MAX_FAILED_ATTEMPTS THEN now + LOCKOUT_DURATION ELSE c.until
  <2>2. n \in Nat /\ until \in Nat BY <2>1
  <2>3. OneMore(c) = [c EXCEPT !.attempts = n, !.until = until] BY DEF OneMore
  <2> HIDE DEF n, until
  <2> QED BY <1>3, <2>2, <2>3 DEF Account
<1> QED BY <1>1, <1>2, <1>3, <1>4 DEF r, c

\* A wrong password counts one more, from nought when a lock is over.
LEMMA OneMoreFacts ==
  ASSUME TypeOK, NEW r \in Account
  PROVE  LET n == (IF r.until # 0 THEN 0 ELSE r.attempts) + 1  new == OneMore(ClearedIfExpired(r)) IN
         /\ new.attempts = n
         /\ new.until = IF n >= MAX_FAILED_ATTEMPTS THEN now + LOCKOUT_DURATION ELSE 0
<1> DEFINE c == ClearedIfExpired(r)
<1>1. /\ c \in Account /\ c.until = 0 /\ c.attempts = IF r.until # 0 THEN 0 ELSE r.attempts
  BY DEF ClearedIfExpired, Account
<1> HIDE DEF c
<1>2. OneMore(c).attempts = c.attempts + 1
  BY <1>1 DEF OneMore, Account
<1>3. OneMore(c).until = IF c.attempts + 1 >= MAX_FAILED_ATTEMPTS THEN now + LOCKOUT_DURATION ELSE c.until
  BY <1>1 DEF OneMore, Account
<1> QED BY <1>1, <1>2, <1>3 DEF c

LEMMA InitInv == Init => AccountsInv
<1> SUFFICES ASSUME Init PROVE AccountsInv OBVIOUS
<1>1. /\ NoRequest \in Request /\ NoRequest.op = "none" /\ Rows(user) = {} /\ Rows(token) = {}
  BY DEF NoRequest, Request, Rows, Init
<1>2. TypeOK BY <1>1 DEF Init, TypeOK, Serves
<1>3. SessionsInv BY <1>1 DEF Init, SessionsInv, Good, InSession, Replacing, Serves
<1>4. BudgetInv BY <1>1 DEF BudgetInv
<1> QED BY <1>2, <1>3, <1>4 DEF AccountsInv

LEMMA TokenFacts ==
  ASSUME TypeOK, NEW t \in Rows(token)
  PROVE  /\ t \in Tokens /\ token[t] \in Token /\ token[t].user \in Users /\ token[t].session \in Tokens
         /\ [token[t] EXCEPT !.live = TRUE] \in Token /\ [token[t] EXCEPT !.live = FALSE] \in Token
         /\ [token[t] EXCEPT !.live = TRUE].session = token[t].session
         /\ [token[t] EXCEPT !.live = FALSE].session = token[t].session
         /\ ~[token[t] EXCEPT !.live = FALSE].live
<1>1. t \in Tokens /\ token[t] \in Token BY DEF TypeOK, Rows
<1> QED BY <1>1 DEF Token

\* Revoking tokens keeps them, in their sessions.
LEMMA RevokedFacts ==
  ASSUME TypeOK, NEW ts \in SUBSET Rows(token)
  PROVE  /\ Revoked(ts) \in [Tokens -> Token \cup {Absent}]
         /\ \A t \in Tokens : (Revoked(ts)[t] # Absent) <=> t \in Rows(token)
         /\ \A t \in Rows(token) : Revoked(ts)[t].session = token[t].session
         /\ \A t \in ts : ~Revoked(ts)[t].live
         /\ \A t \in Tokens \ ts : Revoked(ts)[t] = token[t]
<1>1. \A t \in Tokens : Revoked(ts)[t] = IF t \in ts THEN [token[t] EXCEPT !.live = FALSE] ELSE token[t]
  BY DEF Revoked
<1>2. \A t \in Tokens : t \in Rows(token) <=> token[t] # Absent BY DEF Rows, TypeOK
<1>3. \A t \in Tokens : Revoked(ts)[t] \in Token \cup {Absent}
  BY <1>1, TokenFacts DEF TypeOK
<1>4. Revoked(ts) \in [Tokens -> Token \cup {Absent}] BY <1>3 DEF Revoked
<1>5. \A t \in ts : [token[t] EXCEPT !.live = FALSE] # Absent BY TokenFacts, AbsentIsNoRow
<1> QED BY <1>1, <1>2, <1>4, <1>5, TokenFacts

(***************************************************************************)
(* The step lemmas.                                                        *)
(***************************************************************************)
\* A step that starts no refresh leaves the sessions as they are.
LEMMA SessionsFrame ==
  ASSUME SessionsInv, UNCHANGED <<token, ended, doubled>>,
         \A w \in Workers : req'[w] = req[w] \/ req'[w].op # "refresh"
  PROVE  SessionsInv'
<1>1. \A t, s \in Tokens : Good(t, s)' <=> Good(t, s) BY DEF Good, InSession, Rows
<1>2. \A w \in Workers, s \in Tokens : Replacing(w, s)' => Replacing(w, s) /\ req'[w] = req[w]
  BY DEF Replacing, InSession, Rows, Serves
<1> QED BY <1>1, <1>2 DEF SessionsInv, Rows

\* A step that leaves the counters and starts no login leaves the budgets.
LEMMA BudgetFrame ==
  ASSUME BudgetInv, UNCHANGED <<wrong, now>>, Rows(user)' = Rows(user),
         \A u \in Rows(user) : user'[u].until = user[u].until /\ user'[u].attempts = user[u].attempts,
         \A w \in Workers : req'[w] = req[w] \/ req'[w].op # "login"
  PROVE  BudgetInv'
<1>1. \A w \in Workers : \A u \in Rows(user) : Attempts(w, u)' => Attempts(w, u) /\ req'[w] = req[w]
  BY DEF Attempts, Serves
<1>2. \A u \in Rows(user) : Over(user[u].until)' <=> Over(user[u].until) BY DEF Over
<1> QED BY <1>1, <1>2 DEF BudgetInv

\* A request ends without a commit.
LEMMA EndKeepsInv ==
  ASSUME AccountsInv, NEW w \in Workers, Ends(w), UNCHANGED <<user, token, now, wrong, ended, doubled>>
  PROVE  AccountsInv'
<1>1. /\ req' \in [Workers -> Request] /\ req'[w].op = "none"
      /\ \A v \in Workers \ {w} : req'[v] = req[v]
  BY EndsFacts DEF AccountsInv, TypeOK
<1>2. TypeOK' BY <1>1 DEF AccountsInv, TypeOK, Serves, Rows
<1>3. SessionsInv' BY <1>1, SessionsFrame DEF AccountsInv
<1>4. Rows(user)' = Rows(user) BY DEF Rows
<1>5. BudgetInv' BY <1>1, <1>4, BudgetFrame DEF AccountsInv
<1> QED BY <1>2, <1>3, <1>5 DEF AccountsInv

LEMMA TickKeepsInv == ASSUME AccountsInv, Tick PROVE AccountsInv'
<1>1. /\ now \in Nat \ {0} /\ now' = now + 1 /\ UNCHANGED <<user, token, req, wrong, ended, doubled>>
      /\ \A w \in Workers : ~Serves(w, "login")
  BY DEF Tick, Serves, AccountsInv, TypeOK
<1>2. TypeOK' BY <1>1 DEF AccountsInv, TypeOK, Serves, Rows
<1>3. SessionsInv' BY <1>1, SessionsFrame DEF AccountsInv
<1>4. BudgetInv'
  <2> SUFFICES ASSUME NEW u \in Rows(user) PROVE ~Over(user[u].until)' => user[u].attempts <= wrong[u]
    BY <1>1 DEF BudgetInv, Rows, Attempts, Serves
  <2>1. user[u] \in Account BY DEF AccountsInv, TypeOK, Rows
  <2>2. user[u].until \in Nat BY <2>1, AccountFacts
  <2>3. Over(user[u].until) => Over(user[u].until)' BY <1>1, <2>2 DEF Over
  <2> QED BY <2>3 DEF AccountsInv, BudgetInv
<1> QED BY <1>2, <1>3, <1>4 DEF AccountsInv

LEMMA CreateKeepsInv == ASSUME AccountsInv, create_user PROVE AccountsInv'
<1> DEFINE r == [password |-> FirstPassword, attempts |-> 0, until |-> 0, active |-> TRUE]
<1>1. PICK u \in Users : user[u] = Absent /\ user' = [user EXCEPT ![u] = r] BY DEF create_user
<1>2. UNCHANGED <<token, now, req, wrong, ended, doubled>> BY DEF create_user
<1>3. r \in Account /\ r.attempts = 0 /\ r.until = 0 /\ r # Absent
  <2>1. r \in Account BY FirstPasswordIsOne DEF Account
  <2> QED BY <2>1, AbsentIsNoRow
<1> HIDE DEF r
<1>4. user \in [Users -> Account \cup {Absent}] BY DEF AccountsInv, TypeOK
<1>5. /\ user' \in [Users -> Account \cup {Absent}] /\ user'[u] = r
      /\ \A x \in Users \ {u} : user'[x] = user[x]
  BY <1>1, <1>3, <1>4
<1>6. Rows(user)' = Rows(user) \cup {u} /\ u \notin Rows(user) BY <1>1, <1>3, <1>4, <1>5 DEF Rows
<1>7. TypeOK' BY <1>2, <1>5, <1>6 DEF AccountsInv, TypeOK, Serves, Rows
<1>8. SessionsInv' BY <1>2, SessionsFrame DEF AccountsInv
<1>9. BudgetInv'
  <2>1. \A w \in Workers : ~Attempts(w, u) BY <1>6 DEF Attempts, AccountsInv, TypeOK
  <2>2. wrong[u] \in Nat BY DEF AccountsInv, TypeOK
  <2>3. \A x \in Rows(user) : x # u /\ user'[x] = user[x] BY <1>4, <1>5, <1>6 DEF Rows
  <2> QED BY <1>2, <1>3, <1>5, <1>6, <2>1, <2>2, <2>3 DEF AccountsInv, BudgetInv, Attempts, Serves, Over
<1> QED BY <1>7, <1>8, <1>9 DEF AccountsInv

LEMMA UpdateKeepsInv == ASSUME AccountsInv, update_user PROVE AccountsInv'
<1>1. PICK u \in Rows(user) : user' = [user EXCEPT ![u].active = ~@] BY DEF update_user
<1>2. UNCHANGED <<token, now, req, wrong, ended, doubled>> BY DEF update_user
<1> DEFINE r == [user[u] EXCEPT !.active = ~@]
<1>3. user \in [Users -> Account \cup {Absent}] /\ u \in Users /\ user[u] \in Account
  BY DEF AccountsInv, TypeOK, Rows
<1>4. (~user[u].active) \in BOOLEAN OBVIOUS
<1>5. r \in Account /\ r.until = user[u].until /\ r.attempts = user[u].attempts BY <1>3, <1>4 DEF Account
<1>6. user' = [user EXCEPT ![u] = r] /\ r # Absent BY <1>1, <1>5, AbsentIsNoRow
<1> HIDE DEF r
<1>7. user' \in [Users -> Account \cup {Absent}] /\ Rows(user)' = Rows(user)
  BY <1>3, <1>5, <1>6, AbsentIsNoRow DEF Rows
<1>8. TypeOK' BY <1>2, <1>7 DEF AccountsInv, TypeOK, Serves, Rows
<1>9. SessionsInv' BY <1>2, SessionsFrame DEF AccountsInv
<1>10. \A x \in Rows(user) : user'[x].until = user[x].until /\ user'[x].attempts = user[x].attempts
  BY <1>3, <1>5, <1>6 DEF Rows
<1>11. BudgetInv' BY <1>2, <1>7, <1>10, BudgetFrame DEF AccountsInv
<1> QED BY <1>8, <1>9, <1>11 DEF AccountsInv

LEMMA LoginKeepsInv == ASSUME AccountsInv, NEW w \in Workers, login(w) PROVE AccountsInv'
<1>1. PICK u \in Rows(user), p \in Passwords : Takes(w, "login", u, user[u], p) BY DEF login
<1>2. UNCHANGED <<user, token, now, wrong, ended, doubled>> BY DEF login
<1>3. u \in Users /\ user[u] \in Account BY DEF AccountsInv, TypeOK, Rows
<1>4. /\ req' \in [Workers -> Request] /\ req'[w].op = "login" /\ req'[w].key = u /\ req'[w].row = user[u]
      /\ \A v \in Workers \ {w} : req'[v] = req[v]
  BY <1>1, <1>3, TakesFacts DEF AccountsInv, TypeOK
<1>5. TypeOK' BY <1>2, <1>3, <1>4 DEF AccountsInv, TypeOK, Serves, Rows
<1>6. SessionsInv' BY <1>2, <1>4, SessionsFrame DEF AccountsInv
<1>7. BudgetInv'
  <2> SUFFICES ASSUME NEW x \in Rows(user), NEW v \in Workers, Attempts(v, x)'
               PROVE  /\ Over(user[x].until) => /\ req'[v].row.until = user[x].until
                                               /\ req'[v].row.attempts = user[x].attempts
                      /\ req'[v].row.until = 0 => req'[v].row.attempts <= wrong[x]
    BY <1>2 DEF AccountsInv, BudgetInv, Over, Rows
  <2>1. CASE v = w
    <3>1. x = u /\ req'[v].row = user[x] BY <1>4, <2>1 DEF Attempts
    <3>2. user[x].until = 0 => user[x].attempts <= wrong[x] BY DEF AccountsInv, BudgetInv, Over
    <3> QED BY <3>1, <3>2
  <2>2. CASE v # w
    <3>1. Attempts(v, x) /\ req'[v] = req[v] BY <1>4, <2>2 DEF Attempts, Serves
    <3> QED BY <3>1 DEF AccountsInv, BudgetInv
  <2> QED BY <2>1, <2>2
<1> QED BY <1>5, <1>6, <1>7 DEF AccountsInv

\* A login that is answered counts d wrong passwords on what it has read, d = 0
\* or 1, and the budget of the account stays right whatever was committed since.
LEMMA AnswerKeepsBudget ==
  ASSUME AccountsInv, NEW w \in Workers, Serves(w, "login"), ~Locked(req[w].row), Ends(w), UNCHANGED now,
         NEW d \in {0, 1}, NEW new \in Account, Written(req[w].key, req[w].row, new),
         \/ new.attempts = (IF req[w].row.until # 0 THEN 0 ELSE req[w].row.attempts) + d
         \/ d = 0 /\ new.attempts = 0,
         new.until = 0 \/ (d = 1 /\ new.until > now),
         wrong' \in [Users -> Nat], \A x \in Users \ {req[w].key} : wrong'[x] = wrong[x],
         wrong'[req[w].key] =
           IF req[w].row.until # 0 /\ user[req[w].key].until = req[w].row.until
             THEN d ELSE wrong[req[w].key] + d
  PROVE  /\ BudgetInv'
         /\ user' \in [Users -> Account \cup {Absent}] /\ Rows(user)' = Rows(user)
         /\ user'[req[w].key].attempts <= wrong'[req[w].key]
<1> DEFINE u == req[w].key  r == req[w].row
<1>1. /\ u \in Users /\ u \in Rows(user) /\ user[u] \in Account /\ r \in Account
      /\ wrong \in [Users -> Nat] /\ user \in [Users -> Account \cup {Absent}] /\ now \in Nat
  BY LoginRows DEF AccountsInv, TypeOK
<1>2. /\ user'[u] \in Account /\ \A x \in Users \ {u} : user'[x] = user[x]
      /\ user'[u].until = IF new.until # r.until THEN new.until ELSE user[u].until
      /\ user'[u].attempts = IF new.attempts # r.attempts THEN new.attempts ELSE user[u].attempts
  BY <1>1, WrittenFacts
<1>3. /\ req'[w].op = "none" /\ \A v \in Workers \ {w} : req'[v] = req[v]
  BY EndsFacts DEF AccountsInv, TypeOK
<1>4. /\ user' \in [Users -> Account \cup {Absent}] /\ Rows(user)' = Rows(user)
  <2>1. user' = [user EXCEPT ![u] = user'[u]] BY <1>1 DEF Written
  <2>2. user' \in [Users -> Account \cup {Absent}] BY <1>1, <1>2, <2>1
  <2> QED BY <1>1, <1>2, <2>2, AbsentIsNoRow DEF Rows
<1> DEFINE reset == r.until # 0 /\ user[u].until = r.until
<1>5. wrong'[u] = (IF reset THEN d ELSE wrong[u] + d) /\ \A x \in Users \ {u} : wrong'[x] = wrong[x]
  OBVIOUS
<1>6. /\ r.until \in Nat /\ r.attempts \in Nat /\ user[u].until \in Nat /\ user[u].attempts \in Nat
      /\ new.until \in Nat /\ new.attempts \in Nat /\ wrong[u] \in Nat
  BY <1>1, AccountFacts
<1>7. r.until <= now BY <1>1, <1>6 DEF Locked
<1>8. /\ ~Over(user[u].until) => user[u].attempts <= wrong[u]
      /\ Over(user[u].until) => r.until = user[u].until /\ r.attempts = user[u].attempts
      /\ r.until = 0 => r.attempts <= wrong[u]
  BY <1>1 DEF AccountsInv, BudgetInv, Attempts
<1>9. \/ new.attempts = (IF r.until # 0 THEN 0 ELSE r.attempts) + d
      \/ d = 0 /\ new.attempts = 0
  OBVIOUS
<1>10. \A v \in Workers : Attempts(v, u) =>
        /\ Over(user[u].until) => req[v].row.until = user[u].until
        /\ req[v].row.until = 0 => req[v].row.attempts <= wrong[u]
  BY <1>1 DEF AccountsInv, BudgetInv
<1>11. \A v \in Workers : Attempts(v, u) => req[v].row \in Account
  BY DEF AccountsInv, TypeOK, Attempts
<1> HIDE DEF u, r
<1>12. ~Over(user'[u].until) BY <1>2, <1>6, <1>7, <1>8, <1>1 DEF Over
<1>13. user'[u].attempts <= wrong'[u]
  <2>1. CASE reset BY <1>2, <1>5, <1>6, <1>7, <1>8, <1>9, <2>1 DEF Over
  <2>2. CASE ~reset BY <1>2, <1>5, <1>6, <1>7, <1>8, <1>9, <2>2 DEF Over
  <2> QED BY <2>1, <2>2
<1>14. ASSUME NEW v \in Workers, Attempts(v, u), req[v].row.until = 0
       PROVE  req[v].row.attempts <= wrong'[u]
  <2>1. ~reset BY <1>6, <1>7, <1>10, <1>14 DEF Over
  <2>2. req[v].row.attempts \in Nat BY <1>11, <1>14, AccountFacts
  <2> QED BY <1>5, <1>6, <1>10, <1>14, <2>1, <2>2
<1>15. BudgetInv'
  <2> SUFFICES ASSUME NEW x \in Rows(user)
               PROVE  /\ ~Over(user[x].until)' => user'[x].attempts <= wrong'[x]
                      /\ \A v \in Workers : Attempts(v, x)' =>
                           /\ Over(user[x].until)' => /\ req'[v].row.until = user'[x].until
                                                     /\ req'[v].row.attempts = user'[x].attempts
                           /\ req'[v].row.until = 0 => req'[v].row.attempts <= wrong'[x]
    BY <1>4 DEF BudgetInv
  <2>1. \A v \in Workers : Attempts(v, x)' => Attempts(v, x) /\ req'[v] = req[v]
    BY <1>3 DEF Attempts, Serves
  <2>2. CASE x = u BY <1>12, <1>13, <1>14, <2>1, <2>2 DEF Over
  <2>3. CASE x # u
    <3>1. user'[x] = user[x] /\ wrong'[x] = wrong[x] BY <1>1, <1>2, <1>5, <2>3 DEF Rows
    <3> QED BY <2>1, <3>1 DEF AccountsInv, BudgetInv, Over
  <2> QED BY <2>2, <2>3
<1>16. user'[req[w].key].attempts <= wrong'[req[w].key] BY <1>13 DEF u
<1> QED BY <1>4, <1>15, <1>16

\* A wrong password counts, and the counter stays behind the passwords given.
LEMMA WrongKeepsInv ==
  ASSUME AccountsInv, NEW w \in Workers, RefuseWrong(w)
  PROVE  /\ AccountsInv' /\ user'[req[w].key].attempts <= wrong'[req[w].key]
<1> DEFINE u == req[w].key  r == req[w].row  new == OneMore(ClearedIfExpired(r))
<1>1. /\ Serves(w, "login") /\ ~Locked(r) /\ Ends(w) /\ Written(u, r, new)
      /\ wrong' = [wrong EXCEPT ![u] = IF r.until # 0 /\ user[u].until = r.until THEN 1 ELSE @ + 1]
      /\ UNCHANGED <<token, now, ended, doubled>>
  BY DEF RefuseWrong
<1>2. new \in Account /\ r \in Account /\ u \in Users /\ wrong \in [Users -> Nat]
  BY <1>1, LoginRows DEF AccountsInv, TypeOK
<1>3. /\ new.attempts = (IF r.until # 0 THEN 0 ELSE r.attempts) + 1
      /\ new.until = 0 \/ new.until > now
  <2>1. now + LOCKOUT_DURATION > now BY NumbersOfAccounts DEF AccountsInv, TypeOK
  <2> QED BY <1>2, <2>1, OneMoreFacts DEF AccountsInv
<1> HIDE DEF new
<1>4. /\ wrong' \in [Users -> Nat] /\ \A x \in Users \ {u} : wrong'[x] = wrong[x]
      /\ wrong'[u] = IF r.until # 0 /\ user[u].until = r.until THEN 1 ELSE wrong[u] + 1
  BY <1>1, <1>2
<1>5. /\ BudgetInv'
      /\ user' \in [Users -> Account \cup {Absent}] /\ Rows(user)' = Rows(user)
      /\ user'[u].attempts <= wrong'[u]
  BY <1>1, <1>2, <1>3, <1>4, AnswerKeepsBudget
<1>6. /\ req' \in [Workers -> Request] /\ req'[w].op = "none"
      /\ \A v \in Workers \ {w} : req'[v] = req[v]
  BY <1>1, EndsFacts DEF AccountsInv, TypeOK
<1>7. TypeOK'
  <2>1. Rows(token)' = Rows(token) BY <1>1 DEF Rows
  <2> QED BY <1>1, <1>5, <1>6, <1>4, <2>1 DEF AccountsInv, TypeOK, Serves
<1>8. SessionsInv' BY <1>1, <1>6, SessionsFrame DEF AccountsInv
<1> QED BY <1>5, <1>7, <1>8 DEF AccountsInv

LEMMA DisabledKeepsInv == ASSUME AccountsInv, NEW w \in Workers, RefuseDisabled(w) PROVE AccountsInv'
<1> DEFINE u == req[w].key  r == req[w].row  new == ClearedIfExpired(r)
<1>1. /\ Serves(w, "login") /\ ~Locked(r) /\ Ends(w) /\ Written(u, r, new)
      /\ wrong' = IF r.until # 0 /\ user[u].until = r.until THEN [wrong EXCEPT ![u] = 0] ELSE wrong
      /\ UNCHANGED <<token, now, ended, doubled>>
  BY DEF RefuseDisabled
<1>2. new \in Account /\ r \in Account /\ u \in Users /\ wrong \in [Users -> Nat]
  BY <1>1, LoginRows DEF AccountsInv, TypeOK
<1>3. new.attempts = (IF r.until # 0 THEN 0 ELSE r.attempts) + 0 /\ new.until = 0
  BY <1>2, AccountFacts DEF ClearedIfExpired, Account
<1>4. /\ wrong' \in [Users -> Nat] /\ \A x \in Users \ {u} : wrong'[x] = wrong[x]
      /\ wrong'[u] = IF r.until # 0 /\ user[u].until = r.until THEN 0 ELSE wrong[u] + 0
  BY <1>1, <1>2
<1> HIDE DEF new
<1>5. BudgetInv' /\ user' \in [Users -> Account \cup {Absent}] /\ Rows(user)' = Rows(user)
  BY <1>1, <1>2, <1>3, <1>4, AnswerKeepsBudget
<1>6. /\ req' \in [Workers -> Request] /\ req'[w].op = "none"
      /\ \A v \in Workers \ {w} : req'[v] = req[v]
  BY <1>1, EndsFacts DEF AccountsInv, TypeOK
<1>7. TypeOK'
  <2>1. Rows(token)' = Rows(token) BY <1>1 DEF Rows
  <2> QED BY <1>1, <1>4, <1>5, <1>6, <2>1 DEF AccountsInv, TypeOK, Serves
<1>8. SessionsInv' BY <1>1, <1>6, SessionsFrame DEF AccountsInv
<1> QED BY <1>5, <1>7, <1>8 DEF AccountsInv

\* A login starts a session of its own.
LEMMA LogInKeepsInv == ASSUME AccountsInv, NEW w \in Workers, LogIn(w) PROVE AccountsInv'
<1> DEFINE u == req[w].key  r == req[w].row  new == [r EXCEPT !.attempts = 0, !.until = 0]
<1>1. /\ Serves(w, "login") /\ ~Locked(r) /\ Ends(w) /\ Written(u, r, new)
      /\ wrong' = IF r.until # 0 /\ user[u].until = r.until THEN [wrong EXCEPT ![u] = 0] ELSE wrong
      /\ UNCHANGED <<now, ended, doubled>>
  BY DEF LogIn
<1>2. new \in Account /\ r \in Account /\ u \in Users /\ wrong \in [Users -> Nat]
  BY <1>1, LoginRows DEF AccountsInv, TypeOK
<1>3. new.attempts = 0 /\ new.until = 0 BY <1>2 DEF Account
<1>4. /\ wrong' \in [Users -> Nat] /\ \A x \in Users \ {u} : wrong'[x] = wrong[x]
      /\ wrong'[u] = IF r.until # 0 /\ user[u].until = r.until THEN 0 ELSE wrong[u] + 0
  BY <1>1, <1>2
<1> HIDE DEF new
<1>5. BudgetInv' /\ user' \in [Users -> Account \cup {Absent}] /\ Rows(user)' = Rows(user)
  BY <1>1, <1>2, <1>3, <1>4, AnswerKeepsBudget
<1>6. /\ req' \in [Workers -> Request] /\ req'[w].op = "none"
      /\ \A v \in Workers \ {w} : req'[v] = req[v]
  BY <1>1, EndsFacts DEF AccountsInv, TypeOK
<1>7. PICK t \in Tokens :
        token[t] = Absent /\ token' = [token EXCEPT ![t] = [user |-> u, session |-> t, live |-> TRUE]]
  BY DEF LogIn
<1> DEFINE first == [user |-> u, session |-> t, live |-> TRUE]
<1>8. first \in Token /\ first.session = t BY <1>2 DEF Token
<1>9. first # Absent BY <1>8, AbsentIsNoRow
<1>10. token' = [token EXCEPT ![t] = first] /\ token \in [Tokens -> Token \cup {Absent}]
  BY <1>7 DEF AccountsInv, TypeOK
<1> HIDE DEF first
<1>11. /\ token' \in [Tokens -> Token \cup {Absent}] /\ token'[t] = first
       /\ \A x \in Tokens \ {t} : token'[x] = token[x]
       /\ Rows(token)' = Rows(token) \cup {t} /\ t \notin Rows(token)
  <2>1. /\ token' \in [Tokens -> Token \cup {Absent}] /\ token'[t] = first
        /\ \A x \in Tokens \ {t} : token'[x] = token[x]
    BY <1>8, <1>10
  <2>2. /\ Rows(token) = {x \in Tokens : token[x] # Absent}
        /\ Rows(token)' = {x \in Tokens : token'[x] # Absent}
    BY <1>10, <2>1 DEF Rows
  <2>3. \A x \in Tokens : token'[x] # Absent <=> token[x] # Absent \/ x = t BY <1>9, <2>1
  <2> QED BY <1>7, <2>1, <2>2, <2>3
<1>12. TypeOK' BY <1>1, <1>4, <1>5, <1>6, <1>11 DEF AccountsInv, TypeOK, Serves
<1>13. SessionsInv'
  <2>1. \A x, y \in Tokens : InSession(x, y)' <=> InSession(x, y) \/ (x = t /\ y = t)
    BY <1>8, <1>11 DEF InSession, Rows
  <2>2. \A x \in Tokens : ~InSession(x, t) BY <1>11 DEF AccountsInv, SessionsInv, InSession
  <2>3. \A x, y \in Tokens : Good(x, y)' => Good(x, y) \/ (x = t /\ y = t)
    BY <1>11, <2>1 DEF Good, InSession
  <2>4. \A v \in Workers, y \in Tokens : Replacing(v, y)' => Replacing(v, y) /\ req'[v] = req[v] /\ y # t
    <3> SUFFICES ASSUME NEW v \in Workers, NEW y \in Tokens, Replacing(v, y)'
                 PROVE  Replacing(v, y) /\ req'[v] = req[v] /\ y # t
      OBVIOUS
    <3>1. v # w BY <1>6 DEF Replacing, Serves
    <3>2. req'[v] = req[v] BY <1>6, <3>1
    <3>3. Serves(v, "refresh") /\ req[v].key \in Rows(token) /\ req[v].key \in Tokens
      BY <3>2 DEF Replacing, Serves, AccountsInv, TypeOK, Rows
    <3>4. InSession(req[v].key, y) BY <1>11, <2>1, <3>2, <3>3 DEF Replacing
    <3> QED BY <2>2, <3>2, <3>3, <3>4 DEF Replacing
  <2>5. t \notin ended BY <1>11 DEF AccountsInv, TypeOK
  <2>6. \A x \in Rows(token)' : token'[x].session \in Rows(token)'
    <3> SUFFICES ASSUME NEW x \in Rows(token)' PROVE token'[x].session \in Rows(token)' OBVIOUS
    <3>1. CASE x = t BY <1>8, <1>11, <3>1
    <3>2. CASE x # t
      <4>1. x \in Rows(token) /\ token'[x] = token[x] BY <1>11, <3>2 DEF Rows
      <4> QED BY <1>11, <4>1 DEF AccountsInv, SessionsInv
    <3> QED BY <3>1, <3>2
  <2>7. ASSUME NEW y \in Tokens \ doubled
        PROVE  /\ \A t1, t2 \in Tokens : Good(t1, y)' /\ Good(t2, y)' => t1 = t2
               /\ y \in ended => \A x \in Tokens : ~Good(x, y)'
               /\ \A v \in Workers : Replacing(v, y)' =>
                    /\ y \notin ended
                    /\ \A x \in Tokens : Good(x, y)' => x = req'[v].key
                    /\ \A z \in Workers : Replacing(z, y)' => z = v
    <3>1. CASE y = t
      <4>1. \A x \in Tokens : Good(x, y)' => x = t BY <2>2, <2>3, <3>1 DEF Good
      <4> QED BY <2>4, <2>5, <3>1, <4>1
    <3>2. CASE y # t
      <4>1. \A x \in Tokens : Good(x, y)' => Good(x, y) BY <2>3, <3>2
      <4> QED BY <2>4, <4>1 DEF AccountsInv, SessionsInv
    <3> QED BY <3>1, <3>2
  <2> QED BY <1>1, <2>6, <2>7 DEF SessionsInv
<1> QED BY <1>5, <1>12, <1>13 DEF AccountsInv

LEMMA ReplacingFacts ==
  ASSUME TypeOK, NEW s
  PROVE  Refreshing(s) <=> \E w \in Workers : Replacing(w, s)
BY DEF TypeOK, Refreshing, Replacing, InSession, Serves

LEMMA RefreshKeepsInv == ASSUME AccountsInv, NEW w \in Workers, refresh_tokens(w) PROVE AccountsInv'
<1>1. PICK t \in Rows(token) :
        /\ Usable(t) /\ Takes(w, "refresh", t, Nothing, Nothing)
        /\ doubled' = IF Refreshing(token[t].session) THEN doubled \cup {token[t].session} ELSE doubled
  BY DEF refresh_tokens
<1>2. UNCHANGED <<user, token, now, wrong, ended>> BY DEF refresh_tokens
<1>3. t \in Tokens /\ token[t].session \in Tokens /\ token[t].live
  BY <1>1, TokenFacts DEF AccountsInv, Usable
<1>4. /\ req[w].op = "none" /\ req' \in [Workers -> Request] /\ req'[w].op = "refresh" /\ req'[w].key = t
      /\ \A v \in Workers \ {w} : req'[v] = req[v]
  BY <1>1, <1>3, TakesFacts DEF AccountsInv, TypeOK
<1>5. TypeOK' BY <1>1, <1>2, <1>3, <1>4 DEF AccountsInv, TypeOK, Serves, Rows
<1>6. Rows(user)' = Rows(user) /\ Rows(token)' = Rows(token) BY <1>2 DEF Rows
<1>7. BudgetInv' BY <1>2, <1>4, <1>6, BudgetFrame DEF AccountsInv
<1>8. SessionsInv'
  <2>1. \A x, s \in Tokens : (InSession(x, s)' <=> InSession(x, s)) /\ (Good(x, s)' <=> Good(x, s))
    BY <1>2 DEF Good, InSession, Rows
  <2>2. \A s \in Tokens, v \in Workers \ {w} : Replacing(v, s)' <=> Replacing(v, s)
    BY <1>2, <1>4 DEF Replacing, InSession, Rows, Serves
  <2>3. \A s \in Tokens : ~Replacing(w, s) /\ (Replacing(w, s)' => s = token[t].session)
    BY <1>2, <1>4 DEF Replacing, InSession, Serves
  <2>4. Good(t, token[t].session) BY <1>1, <1>3 DEF Good, InSession
  <2>5. ASSUME NEW s \in Tokens \ doubled'
        PROVE  /\ \A t1, t2 \in Tokens : Good(t1, s)' /\ Good(t2, s)' => t1 = t2
               /\ s \in ended => \A x \in Tokens : ~Good(x, s)'
               /\ \A v \in Workers : Replacing(v, s)' =>
                    /\ s \notin ended
                    /\ \A x \in Tokens : Good(x, s)' => x = req'[v].key
                    /\ \A z \in Workers : Replacing(z, s)' => z = v
    <3>1. s \in Tokens \ doubled BY <1>1
    <3>2. s = token[t].session => \A v \in Workers : ~Replacing(v, s)
      BY <1>1, ReplacingFacts DEF AccountsInv
    <3>3. CASE s = token[t].session
      <4>1. \A x \in Tokens : Good(x, s)' => x = t
        BY <1>3, <2>1, <2>4, <3>1, <3>3 DEF AccountsInv, SessionsInv
      <4>2. s \notin ended BY <1>3, <2>4, <3>1, <3>3 DEF AccountsInv, SessionsInv
      <4>3. \A v \in Workers : Replacing(v, s)' => v = w BY <2>2, <3>2, <3>3
      <4> QED BY <1>4, <4>1, <4>2, <4>3
    <3>4. CASE s # token[t].session
      <4>1. \A v \in Workers : Replacing(v, s)' => v # w /\ Replacing(v, s) /\ req'[v] = req[v]
        BY <1>4, <2>2, <2>3, <3>4
      <4> QED BY <2>1, <3>1, <4>1 DEF AccountsInv, SessionsInv
    <3> QED BY <3>3, <3>4
  <2>6. \A x \in Rows(token)' : token'[x].session \in Rows(token)'
    BY <1>2, <1>6 DEF AccountsInv, SessionsInv
  <2> QED BY <1>2, <2>5, <2>6 DEF SessionsInv
<1> QED BY <1>5, <1>7, <1>8 DEF AccountsInv

\* Tokens are revoked on purpose: their sessions are over, unless a refresh of
\* one of them is under way.
LEMMA RevokeKeepsSessions ==
  ASSUME AccountsInv, NEW ts \in SUBSET Rows(token), NEW over, over = {t \in ts : token[t].live},
         token' = Revoked(ts),
         ended' = ended \cup Sessions(over), doubled \subseteq doubled',
         \A s \in Sessions(over) : Refreshing(s) => s \in doubled',
         \A w \in Workers : req'[w] = req[w] \/ req'[w].op = "none"
  PROVE  /\ SessionsInv' /\ token' \in [Tokens -> Token \cup {Absent}]
         /\ Rows(token)' = Rows(token) /\ ended' \subseteq Rows(token)
<1>1. /\ token' \in [Tokens -> Token \cup {Absent}]
      /\ \A t \in Tokens : token'[t] # Absent <=> t \in Rows(token)
      /\ \A t \in Rows(token) : token'[t].session = token[t].session
      /\ \A t \in ts : ~token'[t].live
      /\ \A t \in Tokens \ ts : token'[t] = token[t]
  BY RevokedFacts DEF AccountsInv
<1>2. Rows(token) \subseteq Tokens BY DEF AccountsInv, TypeOK, Rows
<1>3. Rows(token)' = Rows(token) BY <1>1, <1>2 DEF Rows
<1>4. ended' \subseteq Rows(token) BY DEF Sessions, AccountsInv, SessionsInv, TypeOK
<1>5. \A t, s \in Tokens : InSession(t, s)' <=> InSession(t, s) BY <1>1, <1>3 DEF InSession
<1>6. \A t, s \in Tokens : Good(t, s)' => Good(t, s) /\ t \notin ts
  BY <1>1, <1>3, <1>5 DEF Good
<1>7. \A w \in Workers, s \in Tokens : Replacing(w, s)' => Replacing(w, s) /\ req'[w] = req[w]
  BY <1>2, <1>5 DEF Replacing, Serves, AccountsInv, TypeOK
<1>8. \A s \in Sessions(over) : \E t \in ts : Good(t, s) BY DEF Sessions, InSession, Good
<1>9. ASSUME NEW s \in Tokens \ doubled'
      PROVE  /\ \A t1, t2 \in Tokens : Good(t1, s)' /\ Good(t2, s)' => t1 = t2
             /\ s \in ended' => \A x \in Tokens : ~Good(x, s)'
             /\ \A v \in Workers : Replacing(v, s)' =>
                  /\ s \notin ended'
                  /\ \A x \in Tokens : Good(x, s)' => x = req'[v].key
                  /\ \A z \in Workers : Replacing(z, s)' => z = v
  <2>1. s \in Tokens \ doubled OBVIOUS
  <2>2. s \in Sessions(over) => \A v \in Workers : ~Replacing(v, s)
    BY ReplacingFacts DEF AccountsInv
  <2>3. s \in Sessions(over) => \A x \in Tokens : ~Good(x, s)'
    BY <1>2, <1>6, <1>8, <2>1 DEF AccountsInv, SessionsInv
  <2>4. \A t1, t2 \in Tokens : Good(t1, s) /\ Good(t2, s) => t1 = t2
    BY <2>1 DEF AccountsInv, SessionsInv
  <2>5. s \in ended => \A x \in Tokens : ~Good(x, s)
    BY <2>1 DEF AccountsInv, SessionsInv
  <2>6. \A v \in Workers : Replacing(v, s) =>
          /\ s \notin ended /\ \A x \in Tokens : Good(x, s) => x = req[v].key
          /\ \A z \in Workers : Replacing(z, s) => z = v
    BY <2>1 DEF AccountsInv, SessionsInv
  <2> QED BY <1>6, <1>7, <2>2, <2>3, <2>4, <2>5, <2>6
<1>10. \A x \in Rows(token)' : token'[x].session \in Rows(token)'
  BY <1>1, <1>3 DEF AccountsInv, SessionsInv
<1>11. SessionsInv' BY <1>9, <1>10 DEF SessionsInv
<1> QED BY <1>1, <1>3, <1>4, <1>11

LEMMA LogoutKeepsInv == ASSUME AccountsInv, logout PROVE AccountsInv'
<1>1. PICK t \in Rows(token) :
        /\ token' = Revoked({t}) /\ ended' = ended \cup Sessions({t} \cap Live(token[t].user))
        /\ Overlapped(Sessions({t}))
  BY DEF logout
<1>2. UNCHANGED <<user, now, req, wrong>> BY DEF logout
<1> DEFINE over == {t} \cap Live(token[t].user)
<1>3. over = {x \in {t} : token[x].live} BY DEF Live
<1>4. /\ doubled \subseteq doubled' /\ doubled' \subseteq Tokens
      /\ \A s \in Sessions(over) : Refreshing(s) => s \in doubled'
  <2>1. doubled' = doubled \cup {s \in {token[t].session} : Refreshing(s)}
    BY <1>1 DEF Overlapped, Sessions
  <2>2. Sessions(over) \subseteq {token[t].session} BY DEF Sessions
  <2>3. token[t].session \in Tokens /\ doubled \subseteq Tokens BY TokenFacts DEF AccountsInv, TypeOK
  <2> QED BY <2>1, <2>2, <2>3
<1> HIDE DEF over
<1>5. ended' = ended \cup Sessions(over) BY <1>1 DEF over
<1>6. {t} \in SUBSET Rows(token) OBVIOUS
<1>7. /\ SessionsInv' /\ token' \in [Tokens -> Token \cup {Absent}]
      /\ Rows(token)' = Rows(token) /\ ended' \subseteq Rows(token)
  BY <1>1, <1>2, <1>3, <1>4, <1>5, <1>6, RevokeKeepsSessions
<1>8. Rows(user)' = Rows(user) BY <1>2 DEF Rows
<1>9. TypeOK' BY <1>2, <1>4, <1>7, <1>8 DEF AccountsInv, TypeOK, Serves
<1>10. BudgetInv' BY <1>2, <1>8, BudgetFrame DEF AccountsInv
<1> QED BY <1>7, <1>9, <1>10 DEF AccountsInv

LEMMA ChangeKeepsInv == ASSUME AccountsInv, NEW w \in Workers, change_password(w) PROVE AccountsInv'
<1>1. PICK u \in Rows(user), p \in Passwords : Takes(w, "change_password", u, user[u], p)
  BY DEF change_password
<1>2. UNCHANGED <<user, token, now, wrong, ended, doubled>> BY DEF change_password
<1>3. u \in Users /\ user[u] \in Account BY DEF AccountsInv, TypeOK, Rows
<1>4. /\ req' \in [Workers -> Request] /\ req'[w].op = "change_password" /\ req'[w].key = u
      /\ req'[w].password = p /\ \A v \in Workers \ {w} : req'[v] = req[v]
  BY <1>1, <1>3, TakesFacts DEF AccountsInv, TypeOK
<1>5. TypeOK' BY <1>2, <1>3, <1>4 DEF AccountsInv, TypeOK, Serves, Rows
<1>6. SessionsInv' BY <1>2, <1>4, SessionsFrame DEF AccountsInv
<1>7. Rows(user)' = Rows(user) BY <1>2 DEF Rows
<1>8. BudgetInv' BY <1>2, <1>4, <1>7, BudgetFrame DEF AccountsInv
<1> QED BY <1>5, <1>6, <1>8 DEF AccountsInv

LEMMA PasswordKeepsInv == ASSUME AccountsInv, NEW w \in Workers, CommitPassword(w) PROVE AccountsInv'
<1> DEFINE u == req[w].key  r == [user[u] EXCEPT !.password = req[w].password]
<1>1. /\ Serves(w, "change_password") /\ Ends(w)
      /\ user' = [user EXCEPT ![u] = r]
      /\ token' = Revoked(Live(u)) /\ ended' = ended \cup Sessions(Live(u))
      /\ doubled' = doubled \cup {s \in Sessions(Live(u)) : Refreshing(s)}
      /\ UNCHANGED <<now, wrong>>
  BY DEF CommitPassword, Overlapped
<1>2. /\ u \in Users /\ u \in Rows(user) /\ user[u] \in Account /\ req[w].password \in Passwords
      /\ user \in [Users -> Account \cup {Absent}]
  BY <1>1 DEF AccountsInv, TypeOK, Rows
<1>3. r \in Account /\ r.until = user[u].until /\ r.attempts = user[u].attempts BY <1>2 DEF Account
<1>4. r # Absent BY <1>3, AbsentIsNoRow
<1>5. /\ req' \in [Workers -> Request] /\ req'[w].op = "none"
      /\ \A v \in Workers \ {w} : req'[v] = req[v]
  BY <1>1, EndsFacts DEF AccountsInv, TypeOK
<1> HIDE DEF r
<1>6. user' \in [Users -> Account \cup {Absent}] /\ Rows(user)' = Rows(user)
  BY <1>1, <1>2, <1>3, <1>4, AbsentIsNoRow DEF Rows
<1>7. \A x \in Rows(user) : user'[x].until = user[x].until /\ user'[x].attempts = user[x].attempts
  BY <1>1, <1>2, <1>3 DEF Rows
<1>8. BudgetInv' BY <1>1, <1>5, <1>6, <1>7, BudgetFrame DEF AccountsInv
<1>9. Live(u) \in SUBSET Rows(token) /\ Live(u) = {x \in Live(u) : token[x].live} BY DEF Live
<1>10. /\ SessionsInv' /\ token' \in [Tokens -> Token \cup {Absent}]
       /\ Rows(token)' = Rows(token) /\ ended' \subseteq Rows(token)
  BY <1>1, <1>5, <1>9, RevokeKeepsSessions
<1>11. doubled' \subseteq Tokens
  <2>1. Sessions(Live(u)) \subseteq Tokens BY <1>9, TokenFacts DEF Sessions, AccountsInv
  <2> QED BY <1>1, <2>1 DEF AccountsInv, TypeOK
<1>12. TypeOK' BY <1>1, <1>5, <1>6, <1>10, <1>11 DEF AccountsInv, TypeOK, Serves
<1> QED BY <1>8, <1>10, <1>12 DEF AccountsInv

\* A refresh puts one new token in the place of the one it replaces.
LEMMA ReplaceKeepsInv == ASSUME AccountsInv, NEW w \in Workers, CommitRefresh(w) PROVE AccountsInv'
<1> DEFINE t == req[w].key  r == [token[t] EXCEPT !.live = TRUE]  here == token[t].session
<1>1. PICK n \in Tokens : token[n] = Absent /\ token' = [Revoked({t}) EXCEPT ![n] = r]
  BY DEF CommitRefresh
<1>2. Serves(w, "refresh") /\ Ends(w) /\ UNCHANGED <<user, now, wrong, ended, doubled>>
  BY DEF CommitRefresh
<1>3. t \in Rows(token) BY <1>2 DEF AccountsInv, TypeOK
<1>4. /\ t \in Tokens /\ here \in Tokens /\ r \in Token /\ r.session = here
  BY <1>3, TokenFacts DEF AccountsInv
<1>5. /\ req' \in [Workers -> Request] /\ req'[w].op = "none"
      /\ \A v \in Workers \ {w} : req'[v] = req[v]
  BY <1>2, EndsFacts DEF AccountsInv, TypeOK
<1>6. r # Absent BY <1>4, AbsentIsNoRow
<1>7. Rows(token) = {x \in Tokens : token[x] # Absent} BY DEF AccountsInv, TypeOK, Rows
<1> HIDE DEF r, t
<1>8. /\ Revoked({t}) \in [Tokens -> Token \cup {Absent}]
      /\ \A x \in Tokens : (Revoked({t})[x] # Absent) <=> x \in Rows(token)
      /\ \A x \in Rows(token) : Revoked({t})[x].session = token[x].session
      /\ ~Revoked({t})[t].live
      /\ \A x \in Tokens \ {t} : Revoked({t})[x] = token[x]
  BY <1>3, RevokedFacts DEF AccountsInv
<1>9. /\ token' \in [Tokens -> Token \cup {Absent}] /\ token'[n] = r
      /\ \A x \in Tokens \ {n} : token'[x] = Revoked({t})[x]
  BY <1>1, <1>4, <1>8
<1>10. Rows(token)' = Rows(token) \cup {n} /\ n \notin Rows(token) /\ n # t
  <2>1. Rows(token)' = {x \in Tokens : token'[x] # Absent} BY <1>9 DEF Rows
  <2>2. \A x \in Tokens : token'[x] # Absent <=> x \in Rows(token) \/ x = n
    BY <1>6, <1>8, <1>9
  <2> QED BY <1>1, <1>3, <1>7, <2>1, <2>2
<1>11. Rows(user)' = Rows(user) BY <1>2 DEF Rows
<1>12. TypeOK' BY <1>2, <1>5, <1>9, <1>10, <1>11 DEF AccountsInv, TypeOK, Serves
<1>13. BudgetInv' BY <1>2, <1>5, <1>11, BudgetFrame DEF AccountsInv
<1>14. SessionsInv'
  <2>1. \A x, s \in Tokens : Good(x, s)' => (Good(x, s) /\ x # t) \/ (x = n /\ s = here)
    BY <1>4, <1>8, <1>9, <1>10 DEF Good, InSession
  <2>2. \A v \in Workers, s \in Tokens : Replacing(v, s)' => Replacing(v, s) /\ req'[v] = req[v] /\ v # w
    <3> SUFFICES ASSUME NEW v \in Workers, NEW s \in Tokens, Replacing(v, s)'
                 PROVE  Replacing(v, s) /\ req'[v] = req[v] /\ v # w
      OBVIOUS
    <3>1. v # w BY <1>5 DEF Replacing, Serves
    <3>2. req'[v] = req[v] BY <1>5, <3>1
    <3>3. Serves(v, "refresh") /\ req[v].key \in Rows(token) /\ req[v].key \in Tokens
      BY <1>7, <3>2 DEF Replacing, Serves, AccountsInv, TypeOK
    <3>4. token'[req[v].key].session = token[req[v].key].session BY <1>8, <1>9, <1>10, <3>3
    <3> QED BY <3>1, <3>2, <3>3, <3>4 DEF Replacing, InSession
  <2>3. Replacing(w, here) BY <1>2, <1>3 DEF Replacing, InSession, t
  <2>4. ASSUME NEW s \in Tokens \ doubled
        PROVE  /\ \A t1, t2 \in Tokens : Good(t1, s)' /\ Good(t2, s)' => t1 = t2
               /\ s \in ended => \A x \in Tokens : ~Good(x, s)'
               /\ \A v \in Workers : Replacing(v, s)' =>
                    /\ s \notin ended
                    /\ \A x \in Tokens : Good(x, s)' => x = req'[v].key
                    /\ \A z \in Workers : Replacing(z, s)' => z = v
    <3>1. CASE s = here
      <4>1. /\ s \notin ended /\ \A x \in Tokens : Good(x, s) => x = t
            /\ \A v \in Workers : Replacing(v, s) => v = w
        BY <2>3, <2>4, <3>1 DEF AccountsInv, SessionsInv, t
      <4> QED BY <2>1, <2>2, <4>1
    <3>2. CASE s # here
      <4>1. \A x \in Tokens : Good(x, s)' => Good(x, s) BY <2>1, <3>2
      <4> QED BY <2>2, <4>1 DEF AccountsInv, SessionsInv
    <3> QED BY <3>1, <3>2
  <2>5. \A x \in Rows(token)' : token'[x].session \in Rows(token)'
    <3> SUFFICES ASSUME NEW x \in Rows(token)' PROVE token'[x].session \in Rows(token)' OBVIOUS
    <3>1. here \in Rows(token) BY <1>3 DEF AccountsInv, SessionsInv
    <3>2. CASE x = n BY <1>4, <1>9, <1>10, <3>1, <3>2
    <3>3. CASE x # n
      <4>1. x \in Rows(token) /\ x \in Tokens BY <1>7, <1>10, <3>3
      <4>2. token'[x].session = token[x].session BY <1>8, <1>9, <3>3, <4>1
      <4> QED BY <1>10, <4>1, <4>2 DEF AccountsInv, SessionsInv
    <3> QED BY <3>2, <3>3
  <2> QED BY <1>2, <2>4, <2>5 DEF SessionsInv
<1> QED BY <1>12, <1>13, <1>14 DEF AccountsInv

LEMMA NextKeepsInv == AccountsInv /\ [Next]_vars => AccountsInv'
<1> SUFFICES ASSUME AccountsInv, [Next]_vars PROVE AccountsInv' OBVIOUS
<1>1. CASE Tick BY <1>1, TickKeepsInv
<1>2. CASE create_user BY <1>2, CreateKeepsInv
<1>3. CASE update_user BY <1>3, UpdateKeepsInv
<1>4. CASE logout BY <1>4, LogoutKeepsInv
<1>5. ASSUME NEW w \in Workers,
             \/ Fails(w) \/ login(w) \/ RefuseLocked(w) \/ RefuseWrong(w) \/ RefuseDisabled(w)
             \/ LogIn(w) \/ refresh_tokens(w) \/ CommitRefresh(w) \/ change_password(w) \/ CommitPassword(w)
      PROVE  AccountsInv'
  <2>1. CASE Fails(w) BY <2>1, EndKeepsInv DEF Fails
  <2>2. CASE login(w) BY <2>2, LoginKeepsInv
  <2>3. CASE RefuseLocked(w) BY <2>3, EndKeepsInv DEF RefuseLocked
  <2>4. CASE RefuseWrong(w) BY <2>4, WrongKeepsInv
  <2>5. CASE RefuseDisabled(w) BY <2>5, DisabledKeepsInv
  <2>6. CASE LogIn(w) BY <2>6, LogInKeepsInv
  <2>7. CASE refresh_tokens(w) BY <2>7, RefreshKeepsInv
  <2>8. CASE CommitRefresh(w) BY <2>8, ReplaceKeepsInv
  <2>9. CASE change_password(w) BY <2>9, ChangeKeepsInv
  <2>10. CASE CommitPassword(w) BY <2>10, PasswordKeepsInv
  <2> QED BY <1>5, <2>1, <2>2, <2>3, <2>4, <2>5, <2>6, <2>7, <2>8, <2>9, <2>10
<1>6. CASE UNCHANGED vars
  <2>1. UNCHANGED <<user, token, now, req, wrong, ended, doubled>> BY <1>6 DEF vars
  <2> QED BY <2>1 DEF AccountsInv, TypeOK, SessionsInv, BudgetInv, Rows, Serves, Good, InSession,
                      Replacing, Attempts, Over
<1> QED BY <1>1, <1>2, <1>3, <1>4, <1>5, <1>6 DEF Next

\* What AuthService leaves in users and refresh_tokens fits what every request
\* under way has read of them, for any number of accounts, tokens and requests.
THEOREM AccountsInvHolds == Spec => []AccountsInv
BY InitInv, NextKeepsInv, PTL DEF Spec

\* logout and change_password end a session for good, and refresh_tokens keeps one
\* live token of it, where no other request of the session overlaps a refresh.
THEOREM SessionsStayEndedHolds == Spec => []SessionsStayEnded
<1>1. AccountsInv => SessionsStayEnded
  <2> SUFFICES ASSUME AccountsInv, NEW s \in Tokens \ doubled
               PROVE  LET live == {t \in Rows(token) : token[t].session = s /\ token[t].live} IN
                      Cardinality(live) <= IF s \in ended THEN 0 ELSE 1
    BY DEF SessionsStayEnded
  <2> DEFINE live == {t \in Rows(token) : token[t].session = s /\ token[t].live}
  <2>1. \A t \in live : t \in Tokens /\ Good(t, s)
    BY DEF Good, InSession, AccountsInv, TypeOK, Rows
  <2>2. \A t1, t2 \in live : t1 = t2 BY <2>1 DEF AccountsInv, SessionsInv
  <2>3. s \in ended => live = {} BY <2>1 DEF AccountsInv, SessionsInv
  <2> HIDE DEF live
  <2>4. CASE live = {}
    <3>1. Cardinality(live) = 0 BY <2>4, FS_EmptySet
    <3> QED BY <3>1 DEF live
  <2>5. CASE live # {}
    <3>1. PICK t : t \in live BY <2>5
    <3>2. live = {t} BY <2>2, <3>1
    <3>3. Cardinality(live) = 1 BY <3>2, FS_Singleton
    <3> QED BY <2>3, <2>5, <3>3 DEF live
  <2> QED BY <2>4, <2>5
<1> QED BY <1>1, AccountsInvHolds, PTL

\* A lock starts with a wrong password whose count is full.
LEMMA LockIsEarned ==
  ASSUME AccountsInv, [Next]_vars, NEW u \in Rows(user), user'[u].until > now, user'[u].until # user[u].until
  PROVE  wrong'[u] >= MAX_FAILED_ATTEMPTS
<1>1. /\ u \in Users /\ user[u] \in Account /\ now \in Nat \ {0} /\ wrong[u] \in Nat
      /\ user \in [Users -> Account \cup {Absent}]
  BY DEF AccountsInv, TypeOK, Rows
<1>2. ~ UNCHANGED user OBVIOUS
<1>3. ~ create_user /\ ~ update_user /\ \A w \in Workers : ~ CommitPassword(w)
  <2>1. ~ create_user BY <1>1, AbsentIsNoRow DEF create_user, Rows, AccountsInv, TypeOK
  <2>2. ~ update_user BY <1>1 DEF update_user, AccountsInv, TypeOK, Account
  <2>3. \A w \in Workers : ~ CommitPassword(w)
    BY <1>1 DEF CommitPassword, AccountsInv, TypeOK, Account
  <2> QED BY <2>1, <2>2, <2>3
<1>4. PICK w \in Workers : RefuseWrong(w) \/ RefuseDisabled(w) \/ LogIn(w)
  BY <1>2, <1>3 DEF Next, vars, Tick, logout, Fails, login, RefuseLocked, refresh_tokens, CommitRefresh,
       change_password
<1> DEFINE r == req[w].row  k == req[w].key
<1>5. /\ Serves(w, "login") /\ ~Locked(r) BY <1>4 DEF RefuseWrong, RefuseDisabled, LogIn
<1>6. r \in Account /\ k \in Users /\ user[k] \in Account BY <1>5, LoginRows DEF AccountsInv
<1>7. ASSUME NEW new \in Account, Written(k, r, new)
      PROVE  /\ u = k /\ new.until = user'[u].until
             /\ user'[u].attempts = IF new.attempts # r.attempts THEN new.attempts ELSE user[u].attempts
  <2>1. /\ \A x \in Users \ {k} : user'[x] = user[x]
        /\ user'[k].until = IF new.until # r.until THEN new.until ELSE user[k].until
        /\ user'[k].attempts = IF new.attempts # r.attempts THEN new.attempts ELSE user[k].attempts
    BY <1>1, <1>6, <1>7, WrittenFacts
  <2> QED BY <1>1, <2>1
<1>8. CASE RefuseDisabled(w)
  <2>1. ClearedIfExpired(r) \in Account /\ ClearedIfExpired(r).until = 0
    BY <1>5, <1>6, LoginRows DEF ClearedIfExpired, Account, AccountsInv
  <2>2. Written(k, r, ClearedIfExpired(r)) BY <1>8 DEF RefuseDisabled
  <2> QED BY <1>1, <1>7, <2>1, <2>2
<1>9. CASE LogIn(w)
  <2> DEFINE new == [r EXCEPT !.attempts = 0, !.until = 0]
  <2>1. new \in Account /\ new.until = 0 BY <1>6 DEF Account
  <2>2. Written(k, r, new) BY <1>9 DEF LogIn
  <2> HIDE DEF new
  <2> QED BY <1>1, <1>7, <2>1, <2>2
<1>10. CASE RefuseWrong(w)
  <2> DEFINE new == OneMore(ClearedIfExpired(r))  n == (IF r.until # 0 THEN 0 ELSE r.attempts) + 1
  <2>1. new \in Account BY <1>5, LoginRows DEF AccountsInv
  <2>2. Written(k, r, new) BY <1>10 DEF RefuseWrong
  <2>3. /\ new.attempts = n
        /\ new.until = IF n >= MAX_FAILED_ATTEMPTS THEN now + LOCKOUT_DURATION ELSE 0
    BY <1>6, OneMoreFacts DEF AccountsInv
  <2>4. /\ u = k /\ new.until = user'[u].until
        /\ user'[u].attempts = IF new.attempts # r.attempts THEN new.attempts ELSE user[u].attempts
    BY <1>7, <2>1, <2>2
  <2>5. user'[k].attempts <= wrong'[k] BY <1>10, WrongKeepsInv
  <2>6. n >= MAX_FAILED_ATTEMPTS
    <3>1. new.until > now BY <2>4
    <3> QED BY <1>1, <2>3, <3>1
  <2>7. r.attempts \in Nat BY <1>6, AccountFacts
  <2>8. CASE r.until = 0
    <3>1. new.attempts = r.attempts + 1 /\ n = r.attempts + 1 BY <2>3, <2>8
    <3> HIDE DEF new, n
    <3>2. user'[u].attempts = n BY <2>4, <2>7, <3>1
    <3>3. wrong'[u] \in Nat BY <1>1, <1>10, <2>4 DEF RefuseWrong, AccountsInv, TypeOK
    <3> QED BY <2>4, <2>5, <2>6, <2>7, <3>1, <3>2, <3>3, NumbersOfAccounts
  <2>9. CASE r.until # 0
    <3>1. n = 1 BY <2>9
    <3>2. wrong'[u] = 1 \/ wrong'[u] = wrong[u] + 1
      BY <1>1, <1>10, <2>4 DEF RefuseWrong, AccountsInv, TypeOK
    <3> HIDE DEF new, n
    <3> QED BY <1>1, <2>6, <3>1, <3>2, NumbersOfAccounts
  <2> QED BY <2>8, <2>9
<1> QED BY <1>4, <1>8, <1>9, <1>10

\* The lock of AuthService.login is armed only by a full number of wrong passwords
\* since the last lock was over, whatever logins read and commit at the same time.
THEOREM FullBudgetHolds == Spec => FullBudget
<1> DEFINE A == \A u \in Rows(user) :
                 user'[u].until > now /\ user'[u].until # user[u].until => wrong'[u] >= MAX_FAILED_ATTEMPTS
<1>1. AccountsInv /\ [Next]_vars => [A]_vars BY LockIsEarned
<1> QED BY <1>1, AccountsInvHolds, PTL DEF Spec, FullBudget
===============================================================================
