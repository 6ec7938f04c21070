----------------------- MODULE StudentSessionsProofs -----------------------
(***************************************************************************)
(* StudentSessions for any number of hosts, rows and requests in flight:   *)
(* a token is traded once, one desktop is signed in, logins are bounded    *)
(* and the cached session is the newest row's or has an excuse.            *)
(***************************************************************************)
EXTENDS StudentSessions, FiniteSetTheorems, WellFoundedInduction, TLAPS

-----------------------------------------------------------------------------
\* A token is in one row or with one login that has yet to write it, and in
\* neither once it was traded.
ApartInv ==
  /\ \A i, j \in Rows : rows[i].token = rows[j].token /\ rows[i].token # 0 => i = j
  /\ \A r \in Reqs, i \in Rows : req[r].pc = "w_write" => rows[i].token # req[r].token
  /\ \A r, o \in Reqs :
       req[r].pc = "w_write" /\ req[o].pc = "w_write" /\ req[r].token = req[o].token => r = o

TokenInv ==
  /\ \A h \in Hosts : 0 \notin given[h] /\ rotated[h][0] = 0
  /\ \A r \in Reqs : req[r].pc = "f_rotate" =>
       req[r].token # 0 /\ req[r].host \in Hosts /\ req[r].row \in Rows
  /\ \A i \in Rows : rows[i].token <= signed
  /\ \A r \in Reqs : req[r].pc = "w_write" => req[r].token \in 1..signed

TradedInv ==
  \A h \in Hosts, k \in Tokens :
    rotated[h][k] # 0 =>
      /\ k <= signed
      /\ \A i \in Rows : rows[i].token # k
      /\ \A r \in Reqs : req[r].pc = "w_write" => req[r].token # k

\* From the clearing of the other desktops to the write there is no session but
\* at the host of the request, unless sign-ins crossed.
Session(i) == rows[i].host # None /\ rows[i].token # 0

ClearedInv ==
  /\ \A h \in Hosts : 0 \notin given[h]
  /\ \A r \in Reqs : req[r].pc = "f_rotate" => req[r].token # 0
  /\ \A r \in Reqs : req[r].pc \in {"i_guard", "i_clear", "i_write"} =>
       req[r].host \in Hosts
  /\ \A i \in Rows : rows[i].host = None => rows[i].token = 0
  /\ ~crossed => \A r \in Reqs, i \in Rows :
       req[r].pc = "i_write" /\ Session(i) => rows[i].host = req[r].host

\* Requests between the reading of a row and its write.
Writing == {"i_guard", "i_clear", "i_write", "f_rotate", "w_write"}

RowInv ==
  \A r \in Reqs :
    /\ req[r].pc # "idle" => req[r].host \in Hosts
    /\ req[r].pc \in Writing /\ req[r].row # None => rows[req[r].row].host = req[r].host

\* Requests that will create a row of a host.
Creating(q, h) == /\ q.host = h /\ q.row = None
                  /\ q.pc \in {"i_guard", "i_clear", "i_write", "w_write"}

Creators(h) == {r \in Reqs : Creating(req[r], h)}

\* Logins that passed the limit and have not been counted in row i.
Passed(q, i) == q.pc = "w_write" /\ q.row = i /\ q.hopp <= HopLimit

Uncounted(i) == {r \in Reqs : Passed(req[r], i)}

LoginInv ==
  /\ \A h \in Hosts : /\ IsFiniteSet(RowsOf(h))
                      /\ Cardinality(RowsOf(h)) + Cardinality(Creators(h)) <= Cardinality(Reqs)
  /\ \A i \in Rows : rows[i].hopp + Cardinality(Uncounted(i)) <= HopLimit + Cardinality(Reqs)

\* The token is the one of the host's newest row.
Fresh(h, token) ==
  \/ token = 0 /\ RowsOf(h) = {}
  \/ \E i \in Newest(h) : rows[i].token = token

Invalidating(h) == \E r \in Reqs : req[r].pc = "w_invalidate" /\ req[r].host = h

\* What a fill has read is fresh as long as it is not late.
FillInv ==
  \A r \in Reqs : req[r].pc = "v_fill" =>
    /\ filler[req[r].host] = r
    /\ late[req[r].host] \/ Fresh(req[r].host, req[r].token)

CacheInv ==
  \A h \in Hosts : cache[h] = Miss \/ stale[h] \/ Invalidating(h) \/ Fresh(h, cache[h])

-----------------------------------------------------------------------------
(* Types *)

\* A row keeps its type with its token revoked.
LEMMA RowRevoked ==
  ASSUME NEW x \in Row
  PROVE  [x EXCEPT !.token = 0] \in Row
BY StudentSessionsAssumption DEF Row, Tokens

\* Tokens and times of the clock.
LEMMA TimesAreTokens ==
  ASSUME TypeOK
  PROVE  now \in Tokens /\ signed \in Tokens /\ 0 \in Tokens /\ now \in Nat /\ now # 0
BY StudentSessionsAssumption DEF TypeOK, Tokens

\* What a login leaves in the row is a row.
LEMMA RegisteredIsRow ==
  ASSUME TypeOK, NEW q \in Request, NEW x \in Row, q.token <= now
  PROVE  Registered(q, x) \in Row
<1>1. CASE Hopping(q)
  BY <1>1, RowRevoked DEF Registered
<1>2. CASE ~Hopping(q)
  <2>1. x.hopp + 1 \in Nat
    BY DEF Row
  <2> QED
    BY <1>2, <2>1, TimesAreTokens DEF Registered, Row, Request
<1> QED
  BY <1>1, <1>2

\* What a change of rows leaves in the history has its type.
LEMMA TouchTypes ==
  ASSUME TypeOK, NEW hs, NEW quietly \in BOOLEAN, Touch(hs, quietly)
  PROVE  late' \in [Hosts -> BOOLEAN] /\ stale' \in [Hosts -> BOOLEAN]
BY DEF TypeOK, Touch

LEMMA GiveTypes ==
  ASSUME TypeOK, NEW h, NEW token \in Tokens, Give(h, token)
  PROVE  given' \in [Hosts -> SUBSET Tokens]
BY DEF TypeOK, Give

LEMMA SignTypes ==
  ASSUME TypeOK, Sign
  PROVE  signed' = now /\ signed' \in 0..now
BY TimesAreTokens DEF Sign, TypeOK

\* The token of a login was signed before.
SignedInv == \A r \in Reqs : req[r].pc = "w_write" => req[r].token <= now

\* Every variable keeps its type.
LEMMA TypeStep ==
  ASSUME TypeOK, SignedInv, [Next]_vars
  PROVE  TypeOK' /\ SignedInv'
<1> USE StudentSessionsAssumption, TimesAreTokens
<1>0. ASSUME NEW r \in Reqs, NEW q \in Request, Go(r, q)
      PROVE  req' \in [Reqs -> Request]
  BY <1>0 DEF TypeOK, Go
<1>00. ASSUME NEW r \in Reqs, NEW q, Go(r, q), now' >= now, now' \in Nat,
              q.pc = "w_write" => q.token <= now'
       PROVE  SignedInv'
  BY <1>00 DEF TypeOK, Go, SignedInv, Request, Tokens
<1>000. /\ Idle \in Request /\ Idle.pc # "w_write"
        /\ \A r \in Reqs : req[r] \in Request
  BY DEF Idle, Request, Steps, TypeOK
<1>1. ASSUME NEW r \in Reqs, NEW h \in Hosts, IssueFind(r, h)
      PROVE  TypeOK' /\ SignedInv'
  <2>1. PICK i \in First(Newest(h)) :
               Go(r, [Idle EXCEPT !.pc = "i_guard", !.host = h, !.row = i])
    BY <1>1 DEF IssueFind
  <2>2. i \in Rows \cup {None}
    BY DEF First, Newest, RowsOf
  <2> DEFINE q == [Idle EXCEPT !.pc = "i_guard", !.host = h, !.row = i]
  <2>3. q \in Request /\ q.pc # "w_write"
    BY <2>2 DEF Idle, Request, Steps
  <2>4. req' \in [Reqs -> Request] /\ SignedInv'
    <3>1. Go(r, q) /\ now' = now
      BY <2>1, <1>1 DEF IssueFind, db
    <3> HIDE DEF q
    <3> QED
      BY <1>0, <1>00, <2>3, <3>1
  <2> QED
    BY <1>1, <2>4 DEF IssueFind, TypeOK, db, history
<1>2. ASSUME NEW r \in Reqs, IssueGuard(r)
      PROVE  TypeOK' /\ SignedInv'
  <2>1. [req[r] EXCEPT !.pc = "i_clear"] \in Request
    BY <1>000 DEF Request, Steps
  <2>2. req' \in [Reqs -> Request] /\ SignedInv'
    BY <1>0, <1>00, <1>000, <2>1, <1>2 DEF IssueGuard, db, Request
  <2> QED
    BY <1>2, <2>2 DEF IssueGuard, TypeOK, db, history
<1>3. ASSUME NEW r \in Reqs, IssueClear(r)
      PROVE  TypeOK' /\ SignedInv'
  <2> DEFINE q == [req[r] EXCEPT !.pc = "i_write"]
  <2>1. q \in Request /\ q.pc # "w_write"
    BY <1>000 DEF Request, Steps
  <2>2. req' \in [Reqs -> Request] /\ SignedInv'
    <3>1. Go(r, q) /\ now' = now
      BY <1>3 DEF IssueClear
    <3> HIDE DEF q
    <3> QED
      BY <1>0, <1>00, <2>1, <3>1
  <2>3. rows' \in [Rows -> Row]
    BY <1>3, RowRevoked DEF IssueClear, TypeOK
  <2> QED
    BY <1>3, <2>2, <2>3 DEF IssueClear, TypeOK, Touch
<1>4. ASSUME NEW r \in Reqs, IssueWrite(r)
      PROVE  TypeOK' /\ SignedInv'
  <2>1. req' \in [Reqs -> Request] /\ SignedInv'
    BY <1>0, <1>00, <1>000, <1>4 DEF IssueWrite
  <2>2. [host |-> req[r].host, token |-> now, last |-> now, hopp |-> 1] \in Row
    BY <1>000 DEF Request, Row
  <2>3. rows' \in [Rows -> Row]
    BY <1>4, <2>2 DEF IssueWrite, TypeOK
  <2>4. crossed' \in BOOLEAN
    BY <1>4 DEF IssueWrite, TypeOK
  <2> QED
    BY <1>4, <2>1, <2>3, <2>4, TouchTypes, GiveTypes, SignTypes DEF IssueWrite, TypeOK
<1>5. ASSUME NEW r \in Reqs, NEW h \in Hosts, NEW token \in Tokens, RefreshFind(r, h, token)
      PROVE  TypeOK' /\ SignedInv'
  <2>1. PICK i \in RowsOf(h) : Go(r, [Idle EXCEPT !.pc = "f_rotate", !.host = h, !.row = i,
                                                   !.token = token])
    BY <1>5 DEF RefreshFind
  <2> DEFINE q == [Idle EXCEPT !.pc = "f_rotate", !.host = h, !.row = i, !.token = token]
  <2>2. q \in Request /\ q.pc # "w_write"
    BY DEF RowsOf, Idle, Request, Steps
  <2>3. req' \in [Reqs -> Request] /\ SignedInv'
    <3>1. Go(r, q) /\ now' = now
      BY <2>1, <1>5 DEF RefreshFind, db
    <3> HIDE DEF q
    <3> QED
      BY <1>0, <1>00, <2>2, <3>1
  <2> QED
    BY <1>5, <2>3 DEF RefreshFind, TypeOK, db, history
<1>6. ASSUME NEW r \in Reqs, RefreshRotate(r)
      PROVE  TypeOK' /\ SignedInv'
  <2>1. req' \in [Reqs -> Request] /\ SignedInv'
    BY <1>0, <1>00, <1>000, <1>6 DEF RefreshRotate
  <2>2. rows' \in [Rows -> Row]
    <3>1. ASSUME NEW x \in Row PROVE [x EXCEPT !.token = now, !.last = now] \in Row
      <4> DEFINE y == [x EXCEPT !.token = now, !.last = now]
      <4>1. y \in [host: Hosts \cup {None}, token: Tokens, last: Tokens, hopp: Nat]
        BY DEF Row
      <4>2. y.token = now /\ y.last = now
        BY DEF Row
      <4> HIDE DEF y
      <4>3. y \in Row
        BY <4>1, <4>2 DEF Row
      <4> QED
        BY <4>3 DEF y
    <3>2. CASE RefreshMatches(req[r])
      <4>1. rows' = [rows EXCEPT ![req[r].row].token = now, ![req[r].row].last = now]
        BY <1>6, <3>2 DEF RefreshRotate
      <4>2. rows' = [rows EXCEPT ![req[r].row] =
                       [rows[req[r].row] EXCEPT !.token = now, !.last = now]]
        BY <4>1
      <4> QED
        BY <3>1, <4>2 DEF TypeOK
    <3>3. CASE ~RefreshMatches(req[r])
      BY <1>6, <3>3 DEF RefreshRotate, TypeOK
    <3> QED
      BY <3>2, <3>3
  <2>3. rotated' \in [Hosts -> [Tokens -> 0..2]]
    <3> DEFINE h == req[r].host
               k == req[r].token
               n == IF rotated[h][k] = 0 THEN 1 ELSE 2
    <3>1. rotated' = [rotated EXCEPT ![h] = [rotated[h] EXCEPT ![k] = n]] \/ rotated' = rotated
      BY <1>6 DEF RefreshRotate
    <3>2. n \in 0..2
      OBVIOUS
    <3> HIDE DEF h, k, n
    <3>3. \A f \in [Tokens -> 0..2] : [f EXCEPT ![k] = n] \in [Tokens -> 0..2]
      BY <3>2
    <3>4. rotated \in [Hosts -> [Tokens -> 0..2]]
      BY DEF TypeOK
    <3>5. h \in Hosts => [rotated[h] EXCEPT ![k] = n] \in [Tokens -> 0..2]
      BY <3>3, <3>4
    <3> DEFINE f == [rotated[h] EXCEPT ![k] = n]
    <3> HIDE DEF f
    <3> QED
      BY <3>1, <3>4, <3>5 DEF f
  <2>4. given' \in [Hosts -> SUBSET Tokens] /\ late' \in [Hosts -> BOOLEAN]
        /\ stale' \in [Hosts -> BOOLEAN]
    <3>1. CASE RefreshMatches(req[r])
      BY <1>6, <3>1, TouchTypes, GiveTypes DEF RefreshRotate
    <3>2. CASE ~RefreshMatches(req[r])
      BY <1>6, <3>2 DEF RefreshRotate, TypeOK
    <3> QED
      BY <3>1, <3>2
  <2> QED
    BY <1>6, <2>1, <2>2, <2>3, <2>4, SignTypes DEF RefreshRotate, TypeOK
<1>7. ASSUME NEW h, NEW token, Revoke(h, token)
      PROVE  rows' \in [Rows -> Row]
  BY <1>7, RowRevoked DEF Revoke, TypeOK
<1>8. ASSUME NEW h \in Hosts, NEW token \in Tokens, LogoutDesktop(h, token)
      PROVE  TypeOK' /\ SignedInv'
  BY <1>7, <1>8 DEF LogoutDesktop, TypeOK, SignedInv, Touch
<1>9. ASSUME NEW r \in Reqs, NEW h \in Hosts, NEW quiet \in BOOLEAN, RegisterFind(r, h, quiet)
      PROVE  TypeOK' /\ SignedInv'
  <2>1. PICK i \in First(IF quiet THEN RowsOf(h) ELSE Newest(h)) :
               LET read == IF i = None THEN [last |-> 0, hopp |-> 0] ELSE rows[i] IN
               Go(r, [pc |-> "w_write", host |-> h, row |-> i, token |-> now,
                      hopp |-> read.hopp, last |-> read.last, quiet |-> quiet])
    BY <1>9 DEF RegisterFind
  <2>2. i \in Rows \cup {None}
    BY DEF First, Newest, RowsOf
  <2> DEFINE read == IF i = None THEN [last |-> 0, hopp |-> 0] ELSE rows[i]
             q == [pc |-> "w_write", host |-> h, row |-> i, token |-> now,
                   hopp |-> read.hopp, last |-> read.last, quiet |-> quiet]
  <2>3. read.hopp \in Nat /\ read.last \in Tokens
    BY <2>2 DEF TypeOK, Row
  <2>4. q \in Request
    BY <2>2, <2>3 DEF Request, Steps
  <2>5. req' \in [Reqs -> Request] /\ SignedInv'
    BY <1>0, <1>00, <2>1, <2>4, <1>9 DEF RegisterFind, db
  <2> HIDE DEF read, q
  <2> QED
    BY <1>9, <2>5 DEF RegisterFind, TypeOK, db, history, Sign
<1>10. ASSUME NEW r \in Reqs, RegisterWrite(r)
       PROVE  TypeOK' /\ SignedInv'
  <2> DEFINE q == req[r]
             done == [q EXCEPT !.pc = "w_invalidate",
                               !.token = IF Hopping(q) THEN 0 ELSE q.token]
  <2>1. done \in Request /\ done.pc # "w_write"
    BY <1>000 DEF Request, Steps
  <2>2. Go(r, done) \/ Go(r, Idle)
    BY <1>10 DEF RegisterWrite
  <2>3. req' \in [Reqs -> Request] /\ SignedInv'
    <3> HIDE DEF done
    <3> QED
      BY <1>0, <1>00, <1>000, <2>1, <2>2, <1>10 DEF RegisterWrite
  <2>4. \A i \in Rows : Registered(q, rows[i]) \in Row
    BY <1>10, <1>000, RegisteredIsRow DEF RegisterWrite, SignedInv, TypeOK
  <2>5. rows' \in [Rows -> Row]
    <3>1. PICK i : rows' = [rows EXCEPT ![i] = Registered(q, rows[i])]
      BY <1>10 DEF RegisterWrite
    <3> DEFINE x == Registered(q, rows[i])
    <3>2. rows' = [rows EXCEPT ![i] = x] /\ (i \in Rows => x \in Row)
      BY <3>1, <2>4
    <3> HIDE DEF x
    <3> QED
      BY <3>2 DEF TypeOK
  <2>6. given' \in [Hosts -> SUBSET Tokens]
    <3>1. given' = given \/ Give(q.host, q.token)
      <4>1. IF q.quiet THEN IF Hopping(q) THEN UNCHANGED given ELSE Give(q.host, q.token)
            ELSE UNCHANGED given
        BY <1>10 DEF RegisterWrite
      <4> QED
        BY <4>1
    <3>2. q.token \in Tokens
      BY <1>000 DEF Request
    <3> QED
      BY <3>1, <3>2, GiveTypes DEF TypeOK
  <2>7. Touch({q.host}, q.quiet) /\ q.quiet \in BOOLEAN
    BY <1>10, <1>000 DEF RegisterWrite, Request
  <2> QED
    BY <1>10, <2>3, <2>5, <2>6, <2>7, TouchTypes DEF RegisterWrite, TypeOK
<1>11. ASSUME NEW r \in Reqs, Invalidate(r)
       PROVE  TypeOK' /\ SignedInv'
  <2>1. req' \in [Reqs -> Request] /\ SignedInv'
    BY <1>0, <1>00, <1>000, <1>11 DEF Invalidate, db
  <2>2. given' \in [Hosts -> SUBSET Tokens]
    <3>1. given' = given \/ Give(req[r].host, req[r].token)
      BY <1>11 DEF Invalidate
    <3>2. req[r].token \in Tokens
      BY <1>000 DEF Request
    <3> QED
      BY <3>1, <3>2, GiveTypes DEF TypeOK
  <2>3. cache' \in [Hosts -> Tokens \cup {Miss}] /\ stale' \in [Hosts -> BOOLEAN]
    BY <1>11 DEF Invalidate, TypeOK
  <2> QED
    BY <1>11, <2>1, <2>2, <2>3 DEF Invalidate, TypeOK, db
<1>12. ASSUME NEW r \in Reqs, NEW h \in Hosts, NEW token \in Tokens, RevokeSession(r, h, token)
       PROVE  TypeOK' /\ SignedInv'
  <2> DEFINE q == [Idle EXCEPT !.pc = "w_invalidate", !.host = h]
  <2>1. q \in Request /\ q.pc # "w_write"
    BY DEF Idle, Request, Steps
  <2>2. req' \in [Reqs -> Request] /\ SignedInv'
    <3>1. Go(r, q) /\ now' = now
      BY <1>12 DEF RevokeSession
    <3> HIDE DEF q
    <3> QED
      BY <1>0, <1>00, <2>1, <3>1
  <2>3. rows' \in [Rows -> Row]
    BY <1>7, <1>12 DEF RevokeSession
  <2> QED
    BY <1>12, <2>2, <2>3 DEF RevokeSession, TypeOK, Touch
<1>13. ASSUME RemoveAuthBan
       PROVE  TypeOK' /\ SignedInv'
  <2>1. \A x \in Row : [x EXCEPT !.hopp = 0] \in Row
    BY DEF Row
  <2> QED
    BY <1>13, <2>1 DEF RemoveAuthBan, TypeOK, SignedInv, history
<1>14. ASSUME NEW r \in Reqs, NEW h \in Hosts, Load(r, h)
       PROVE  TypeOK' /\ SignedInv'
  <2>1. PICK i \in First(Newest(h)) :
               Go(r, [Idle EXCEPT !.pc = "v_fill", !.host = h,
                                  !.token = IF i = None THEN 0 ELSE rows[i].token])
    BY <1>14 DEF Load
  <2>2. i \in Rows \cup {None}
    BY DEF First, Newest, RowsOf
  <2> DEFINE k == IF i = None THEN 0 ELSE rows[i].token
             q == [Idle EXCEPT !.pc = "v_fill", !.host = h, !.token = k]
  <2>3. k \in Tokens
    BY <2>2 DEF TypeOK, Row
  <2>4. q \in Request /\ q.pc # "w_write"
    BY <2>3 DEF Idle, Request, Steps
  <2>5. req' \in [Reqs -> Request] /\ SignedInv'
    <3>1. Go(r, q) /\ now' = now
      BY <2>1, <1>14 DEF Load, db
    <3> HIDE DEF q
    <3> QED
      BY <1>0, <1>00, <2>4, <3>1
  <2>6. filler' \in [Hosts -> Reqs \cup {None}] /\ late' \in [Hosts -> BOOLEAN]
    BY <1>14 DEF Load, TypeOK
  <2> HIDE DEF k, q
  <2> QED
    BY <1>14, <2>5, <2>6 DEF Load, TypeOK, db
<1>15. ASSUME NEW r \in Reqs, Fill(r)
       PROVE  TypeOK' /\ SignedInv'
  <2>1. req' \in [Reqs -> Request] /\ SignedInv'
    BY <1>0, <1>00, <1>000, <1>15 DEF Fill, db
  <2>2. /\ cache' \in [Hosts -> Tokens \cup {Miss}]
        /\ filler' \in [Hosts -> Reqs \cup {None}]
        /\ stale' \in [Hosts -> BOOLEAN]
    BY <1>15, <1>000 DEF Fill, TypeOK, Request
  <2> QED
    BY <1>15, <2>1, <2>2 DEF Fill, TypeOK, db
<1>16. ASSUME NEW h \in Hosts, CacheExpires(h)
       PROVE  TypeOK' /\ SignedInv'
  BY <1>16 DEF CacheExpires, TypeOK, SignedInv, db
<1>17. CASE Tick
  BY <1>17 DEF Tick, TypeOK, SignedInv, history, Request, Tokens
<1>18. ASSUME NEW r \in Reqs, Abort(r)
       PROVE  TypeOK' /\ SignedInv'
  <2>1. req' \in [Reqs -> Request] /\ SignedInv'
    BY <1>0, <1>00, <1>000, <1>18 DEF Abort, db
  <2>2. filler' \in [Hosts -> Reqs \cup {None}] /\ stale' \in [Hosts -> BOOLEAN]
    BY <1>18 DEF Abort, TypeOK
  <2> QED
    BY <1>18, <2>1, <2>2 DEF Abort, TypeOK, db
<1>19. CASE UNCHANGED vars
  BY <1>19 DEF vars, history, TypeOK, SignedInv
<1> QED
  BY <1>1, <1>2, <1>3, <1>4, <1>5, <1>6, <1>8, <1>9, <1>10, <1>11, <1>12, <1>13, <1>14,
     <1>15, <1>16, <1>17, <1>18, <1>19
     DEF Next, Desktop, Web, Passing, VerifiedLogin

\* So has the first state.
LEMMA InitTypes ==
  ASSUME Init
  PROVE  TypeOK /\ SignedInv
<1> USE StudentSessionsAssumption
<1>1. rows \in [Rows -> Row] /\ cache \in [Hosts -> Tokens \cup {Miss}]
  BY DEF Init, Row, Tokens
<1>2. req \in [Reqs -> Request] /\ SignedInv
  BY DEF Init, SignedInv, Idle, Request, Steps, Tokens
<1>3. now \in 1..MaxClock /\ signed \in 0..now
  BY DEF Init
<1>4. given \in [Hosts -> SUBSET Tokens] /\ rotated \in [Hosts -> [Tokens -> 0..2]]
  BY DEF Init
<1>5. /\ filler \in [Hosts -> Reqs \cup {None}] /\ crossed \in BOOLEAN
      /\ late \in [Hosts -> BOOLEAN] /\ stale \in [Hosts -> BOOLEAN]
  BY DEF Init
<1> QED
  BY <1>1, <1>2, <1>3, <1>4, <1>5 DEF TypeOK

\* Every variable has its type, whichever students' and browsers' calls come.
THEOREM TypeCorrect == Spec => [](TypeOK /\ SignedInv)
<1>1. Init => TypeOK /\ SignedInv
  BY InitTypes
<1>2. TypeOK /\ SignedInv /\ [Next]_vars => TypeOK' /\ SignedInv'
  BY TypeStep
<1> QED
  BY <1>1, <1>2, PTL DEF Spec

-----------------------------------------------------------------------------
(* A token is traded once *)

OnceInv == TokenInv /\ ApartInv /\ TradedInv /\ RefreshedOnce

\* Steps that put no token in a row and sign none for a login keep the invariant.
LEMMA NoNewToken ==
  ASSUME TypeOK, TypeOK', OnceInv,
         signed <= signed', rotated' = rotated,
         \A h \in Hosts : 0 \notin given'[h],
         \A i \in Rows : rows'[i].token \in {rows[i].token, 0},
         \A r \in Reqs : req'[r].pc = "w_write" =>
           req[r].pc = "w_write" /\ req'[r].token = req[r].token,
         \A r \in Reqs : req'[r].pc = "f_rotate" =>
           req'[r].token # 0 /\ req'[r].host \in Hosts /\ req'[r].row \in Rows
  PROVE  OnceInv'
<1>1. signed \in Nat /\ signed' \in Nat
  BY DEF TypeOK
<1>2. /\ \A i \in Rows : rows[i].token \in Nat /\ rows'[i].token \in Nat
      /\ \A r \in Reqs : req[r].token \in Nat
  BY DEF TypeOK, Row, Request, Tokens
<1>3. TokenInv' /\ ApartInv'
  BY <1>1, <1>2 DEF OnceInv, TokenInv, ApartInv
<1>4. TradedInv'
  <2> SUFFICES ASSUME NEW h \in Hosts, NEW k \in Tokens, rotated[h][k] # 0
               PROVE  /\ k <= signed'
                      /\ \A i \in Rows : rows'[i].token # k
                      /\ \A r \in Reqs : req'[r].pc = "w_write" => req'[r].token # k
    BY DEF TradedInv
  <2>1. /\ k <= signed /\ k # 0
        /\ \A i \in Rows : rows[i].token # k
        /\ \A r \in Reqs : req[r].pc = "w_write" => req[r].token # k
    BY DEF OnceInv, TradedInv, TokenInv
  <2> QED
    BY <1>1, <2>1 DEF Tokens
<1>5. RefreshedOnce'
  BY DEF OnceInv, RefreshedOnce
<1> QED
  BY <1>3, <1>4, <1>5 DEF OnceInv

\* A token signed now is in no row, with no login, and was not traded, when no two
\* tokens are signed in one second.
LEMMA NewToken ==
  ASSUME TypeOK, OnceInv, Sign, ~Subsecond
  PROVE  /\ signed' = now /\ signed < now /\ now # 0 /\ now \in Tokens
         /\ \A i \in Rows : rows[i].token # now
         /\ \A r \in Reqs : req[r].pc = "w_write" => req[r].token # now
         /\ \A h \in Hosts : rotated[h][now] = 0
<1>1. signed' = now /\ signed < now /\ signed \in Nat /\ now \in Nat /\ now # 0 /\ now \in Tokens
  BY TimesAreTokens DEF Sign, TypeOK
<1>2. \A i \in Rows : rows[i].token # now
  BY <1>1 DEF OnceInv, TokenInv
<1>3. \A r \in Reqs : req[r].pc = "w_write" => req[r].token # now
  BY <1>1 DEF OnceInv, TokenInv
<1>4. \A h \in Hosts : rotated[h][now] = 0
  BY <1>1 DEF OnceInv, TradedInv
<1> QED
  BY <1>1, <1>2, <1>3, <1>4

\* Every step of the server keeps tokens apart.
LEMMA OnceStep ==
  ASSUME TypeOK, TypeOK', SignedInv, ~Subsecond, OnceInv, [Next]_vars
  PROVE  OnceInv'
<1> USE StudentSessionsAssumption
<1>0. /\ now \in Nat /\ now # 0 /\ signed \in Nat /\ signed <= now /\ signed' \in Nat
      /\ \A r \in Reqs : req[r].token \in Nat
      /\ \A i \in Rows : rows[i].token \in Nat
      /\ Idle.pc = "idle"
  BY TimesAreTokens DEF TypeOK, Idle, Request, Tokens, Row
<1>a. ASSUME NEW r \in Reqs, NEW q, Go(r, q), q.pc \notin {"w_write", "f_rotate"},
             signed <= signed', rotated' = rotated,
             \A h \in Hosts : 0 \notin given'[h],
             \A i \in Rows : rows'[i].token \in {rows[i].token, 0}
      PROVE  OnceInv'
  <2>1. \A o \in Reqs : req'[o] = IF o = r THEN q ELSE req[o]
    BY <1>a DEF Go, TypeOK
  <2>2. \A o \in Reqs : req'[o].pc = "w_write" =>
          req[o].pc = "w_write" /\ req'[o].token = req[o].token
    BY <1>a, <2>1
  <2>3. \A o \in Reqs : req'[o].pc = "f_rotate" =>
          req'[o].token # 0 /\ req'[o].host \in Hosts /\ req'[o].row \in Rows
    BY <1>a, <2>1 DEF OnceInv, TokenInv
  <2> QED
    BY <1>a, <2>2, <2>3, NoNewToken
<1>b. \A h \in Hosts : 0 \notin given[h]
  BY DEF OnceInv, TokenInv
<1>c. ASSUME NEW h, NEW token, Revoke(h, token)
      PROVE  \A i \in Rows : rows'[i].token \in {rows[i].token, 0}
  BY <1>c DEF Revoke, TypeOK, Row
<1>d. ASSUME UNCHANGED <<req, rotated, given>>, signed' = signed,
             \A i \in Rows : rows'[i].token \in {rows[i].token, 0}
      PROVE  OnceInv'
  <2>1. \A r \in Reqs : req[r].pc = "f_rotate" =>
          req[r].token # 0 /\ req[r].host \in Hosts /\ req[r].row \in Rows
    BY DEF OnceInv, TokenInv
  <2> QED
    BY <1>0, <1>b, <1>d, <2>1, NoNewToken
<1>1. ASSUME NEW r \in Reqs, NEW h \in Hosts, IssueFind(r, h)
      PROVE  OnceInv'
  <2>1. PICK i \in First(Newest(h)) :
               Go(r, [Idle EXCEPT !.pc = "i_guard", !.host = h, !.row = i])
    BY <1>1 DEF IssueFind
  <2> DEFINE q == [Idle EXCEPT !.pc = "i_guard", !.host = h, !.row = i]
  <2>2. Go(r, q) /\ q.pc = "i_guard"
    BY <2>1 DEF Idle
  <2> HIDE DEF q
  <2>3. UNCHANGED <<rows, given, rotated, signed>>
    BY <1>1 DEF IssueFind, db, history
  <2> QED
    BY <1>0, <1>a, <1>b, <2>2, <2>3
<1>2. ASSUME NEW r \in Reqs, IssueGuard(r)
      PROVE  OnceInv'
  <2>1. PICK q : Go(r, q) /\ q.pc \in {"idle", "i_clear"}
    BY <1>0, <1>2 DEF IssueGuard, TypeOK, Request
  <2> QED
    BY <1>0, <1>2, <1>a, <1>b, <2>1 DEF IssueGuard, db, history
<1>3. ASSUME NEW r \in Reqs, IssueClear(r)
      PROVE  OnceInv'
  <2>1. PICK q : Go(r, q) /\ q.pc = "i_write"
    BY <1>3 DEF IssueClear, TypeOK, Request
  <2>2. \A i \in Rows : rows'[i].token \in {rows[i].token, 0}
    BY <1>3 DEF IssueClear, TypeOK, Row
  <2> QED
    BY <1>0, <1>3, <1>a, <1>b, <2>1, <2>2 DEF IssueClear
<1>4. ASSUME NEW r \in Reqs, IssueWrite(r)
      PROVE  OnceInv'
  <2>1. PICK i : rows' = [rows EXCEPT ![i] = [host |-> req[r].host, token |-> now,
                                               last |-> now, hopp |-> 1]]
    BY <1>4 DEF IssueWrite
  <2>2. \A j \in Rows : rows'[j].token = IF j = i THEN now ELSE rows[j].token
    BY <2>1 DEF TypeOK
  <2>3. \A o \in Reqs : req'[o] = IF o = r THEN Idle ELSE req[o]
    BY <1>4 DEF IssueWrite, Go, TypeOK
  <2>4. /\ signed' = now /\ signed < now /\ rotated' = rotated
        /\ \A j \in Rows : rows[j].token # now
        /\ \A o \in Reqs : req[o].pc = "w_write" => req[o].token # now
        /\ \A h \in Hosts : rotated[h][now] = 0
    BY <1>4, NewToken DEF IssueWrite
  <2>5. \A h \in Hosts : 0 \notin given'[h]
    BY <1>0, <1>4, <1>b DEF IssueWrite, Give, TypeOK
  <2>6. TokenInv'
    BY <1>0, <2>2, <2>3, <2>4, <2>5 DEF OnceInv, TokenInv
  <2>8. ApartInv'
    BY <1>0, <2>2, <2>3, <2>4 DEF OnceInv, ApartInv
  <2>7. TradedInv'
    BY <1>0, <2>2, <2>3, <2>4 DEF OnceInv, TradedInv, Tokens
  <2> QED
    BY <2>4, <2>6, <2>7, <2>8 DEF OnceInv, RefreshedOnce
<1>5. ASSUME NEW r \in Reqs, NEW h \in Hosts, NEW token \in Tokens, RefreshFind(r, h, token)
      PROVE  OnceInv'
  <2>1. PICK i \in RowsOf(h) : Go(r, [Idle EXCEPT !.pc = "f_rotate", !.host = h, !.row = i,
                                                   !.token = token])
    BY <1>5 DEF RefreshFind
  <2> DEFINE q == [Idle EXCEPT !.pc = "f_rotate", !.host = h, !.row = i, !.token = token]
  <2>2. q.pc = "f_rotate" /\ q.host \in Hosts /\ q.token = token /\ q.row \in Rows
    BY DEF Idle, RowsOf
  <2>3. token # 0
    BY <1>5, <1>b DEF RefreshFind
  <2>4. \A o \in Reqs : req'[o] = IF o = r THEN q ELSE req[o]
    BY <2>1 DEF Go, TypeOK
  <2> HIDE DEF q
  <2>5. \A o \in Reqs : req'[o].pc = "w_write" =>
          req[o].pc = "w_write" /\ req'[o].token = req[o].token
    BY <2>2, <2>4
  <2>6. \A o \in Reqs : req'[o].pc = "f_rotate" =>
          req'[o].token # 0 /\ req'[o].host \in Hosts /\ req'[o].row \in Rows
    BY <2>2, <2>3, <2>4 DEF OnceInv, TokenInv
  <2> QED
    BY <1>0, <1>5, <1>b, <2>5, <2>6, NoNewToken DEF RefreshFind, db, history
<1>6. ASSUME NEW r \in Reqs, RefreshRotate(r)
      PROVE  OnceInv'
  <2>1. CASE ~RefreshMatches(req[r])
    <3>1. Go(r, Idle) /\ signed' = now /\ UNCHANGED <<rows, given, rotated>>
      BY <1>6, <2>1 DEF RefreshRotate, Sign
    <3> QED
      BY <1>0, <1>a, <1>b, <3>1
  <2>2. CASE RefreshMatches(req[r])
    <3> DEFINE i == req[r].row
               h == req[r].host
               k == req[r].token
    <3>1. /\ rows' = [rows EXCEPT ![i].token = now, ![i].last = now]
          /\ rotated' = [rotated EXCEPT ![h][k] = IF @ = 0 THEN 1 ELSE 2]
          /\ Give(h, now) /\ Go(r, Idle) /\ Sign
      BY <1>6, <2>2 DEF RefreshRotate
    <3>2. h \in Hosts /\ k # 0 /\ k \in Tokens /\ rows[i].token = k /\ i \in Rows
      BY <1>6, <2>2 DEF RefreshRotate, RefreshMatches, OnceInv, TokenInv, TypeOK, Request
    <3>3. /\ signed' = now /\ signed < now /\ now \in Tokens
          /\ \A j \in Rows : rows[j].token # now
          /\ \A o \in Reqs : req[o].pc = "w_write" => req[o].token # now
          /\ \A g \in Hosts : rotated[g][now] = 0
      BY <3>1, NewToken
    <3>4. \A j \in Rows : rows'[j].token = IF j = i THEN now ELSE rows[j].token
      BY <3>1 DEF TypeOK, Row
    <3>5. \A o \in Reqs : req'[o] = IF o = r THEN Idle ELSE req[o]
      BY <3>1 DEF Go, TypeOK
    <3>6. \A g \in Hosts : 0 \notin given'[g]
      BY <1>0, <1>b, <3>1 DEF Give, TypeOK
    <3>7. rotated[h][k] = 0
      BY <3>2 DEF OnceInv, TradedInv
    <3>8. \A g \in Hosts, l \in Tokens :
            rotated'[g][l] = IF g = h /\ l = k THEN 1 ELSE rotated[g][l]
      BY <3>1, <3>2, <3>7 DEF TypeOK
    <3>9. k <= signed
      BY <3>2 DEF OnceInv, TokenInv
    <3> HIDE DEF i, h, k
    <3>10. TokenInv'
      <4>1. \A g \in Hosts : rotated'[g][0] = 0
        BY <3>2, <3>8, TimesAreTokens DEF OnceInv, TokenInv
      <4> QED
        BY <1>0, <3>3, <3>4, <3>5, <3>6, <4>1 DEF OnceInv, TokenInv
    <3>13. ApartInv'
      BY <1>0, <3>3, <3>4, <3>5 DEF OnceInv, ApartInv
    <3>11. TradedInv'
      <4> SUFFICES ASSUME NEW g \in Hosts, NEW l \in Tokens, rotated'[g][l] # 0
                   PROVE  /\ l <= signed'
                          /\ \A j \in Rows : rows'[j].token # l
                          /\ \A o \in Reqs : req'[o].pc = "w_write" => req'[o].token # l
        BY DEF TradedInv
      <4>1. CASE g = h /\ l = k
        <5>1. \A j \in Rows : rows'[j].token # k
          BY <3>2, <3>3, <3>4 DEF OnceInv, ApartInv
        <5>2. \A o \in Reqs : req'[o].pc = "w_write" => req'[o].token # k
          BY <1>0, <3>2, <3>5 DEF OnceInv, ApartInv
        <5> QED
          BY <1>0, <3>3, <3>9, <4>1, <5>1, <5>2 DEF Tokens
      <4>2. CASE ~(g = h /\ l = k)
        <5>1. rotated[g][l] # 0
          BY <3>8, <4>2
        <5>2. /\ l <= signed /\ l # now
              /\ \A j \in Rows : rows[j].token # l
              /\ \A o \in Reqs : req[o].pc = "w_write" => req[o].token # l
          BY <3>3, <5>1 DEF OnceInv, TradedInv
        <5> QED
          BY <1>0, <3>3, <3>4, <3>5, <5>2 DEF Tokens
      <4> QED
        BY <4>1, <4>2
    <3>12. RefreshedOnce'
      BY <3>8 DEF OnceInv, RefreshedOnce
    <3> QED
      BY <3>10, <3>11, <3>12, <3>13 DEF OnceInv
  <2> QED
    BY <2>1, <2>2
<1>8. ASSUME NEW h \in Hosts, NEW token \in Tokens, LogoutDesktop(h, token)
      PROVE  OnceInv'
  BY <1>8, <1>c, <1>d DEF LogoutDesktop
<1>9. ASSUME NEW r \in Reqs, NEW h \in Hosts, NEW quiet \in BOOLEAN, RegisterFind(r, h, quiet)
      PROVE  OnceInv'
  <2>1. PICK q : Go(r, q) /\ q.pc = "w_write" /\ q.token = now
    BY <1>9 DEF RegisterFind
  <2>2. \A o \in Reqs : req'[o] = IF o = r THEN q ELSE req[o]
    BY <2>1 DEF Go, TypeOK
  <2>3. /\ UNCHANGED <<rows, given, rotated>> /\ signed' = now /\ signed < now
        /\ \A i \in Rows : rows[i].token # now
        /\ \A o \in Reqs : req[o].pc = "w_write" => req[o].token # now
        /\ \A g \in Hosts : rotated[g][now] = 0
    BY <1>9, NewToken DEF RegisterFind, db, history
  <2>4. TokenInv'
    BY <1>0, <2>1, <2>2, <2>3 DEF OnceInv, TokenInv
  <2>6. ApartInv'
    BY <1>0, <2>1, <2>2, <2>3 DEF OnceInv, ApartInv
  <2>5. TradedInv'
    BY <1>0, <2>1, <2>2, <2>3 DEF OnceInv, TradedInv, Tokens
  <2> QED
    BY <2>3, <2>4, <2>5, <2>6 DEF OnceInv, RefreshedOnce
<1>10. ASSUME NEW r \in Reqs, RegisterWrite(r)
       PROVE  OnceInv'
  <2> DEFINE q == req[r]
  <2>1. PICK i : rows' = [rows EXCEPT ![i] = Registered(q, rows[i])]
    BY <1>10 DEF RegisterWrite
  <2>2. PICK p : Go(r, p) /\ p.pc \in {"idle", "w_invalidate"}
    <3> DEFINE done == [q EXCEPT !.pc = "w_invalidate",
                                 !.token = IF Hopping(q) THEN 0 ELSE q.token]
    <3>1. Go(r, done) \/ Go(r, Idle)
      BY <1>10 DEF RegisterWrite
    <3>2. done.pc = "w_invalidate"
      BY DEF TypeOK, Request
    <3> HIDE DEF done
    <3> QED
      BY <1>0, <3>1, <3>2
  <2>3. \A h \in Hosts : 0 \notin given'[h]
    <3>1. given' = given \/ Give(q.host, q.token)
      <4>1. IF q.quiet THEN IF Hopping(q) THEN UNCHANGED given ELSE Give(q.host, q.token)
            ELSE UNCHANGED given
        BY <1>10 DEF RegisterWrite
      <4> QED
        BY <4>1
    <3>2. q.token # 0
      BY <1>10 DEF RegisterWrite, OnceInv, TokenInv
    <3> QED
      <4>1. given' = given \/ given' = [given EXCEPT ![q.host] = @ \cup {q.token}]
        BY <3>1 DEF Give
      <4>2. given \in [Hosts -> SUBSET Tokens]
        BY DEF TypeOK
      <4>3. \A h \in Hosts : given'[h] \subseteq given[h] \cup {q.token}
        BY <4>1, <4>2
      <4> HIDE DEF q
      <4> QED
        BY <1>b, <3>2, <4>3
  <2>4. UNCHANGED <<signed, rotated>> /\ q.pc = "w_write"
    BY <1>10 DEF RegisterWrite
  <2>5. CASE Hopping(q)
    <3>1. \A j \in Rows : rows'[j].token \in {rows[j].token, 0}
      BY <2>1, <2>5 DEF Registered, TypeOK, Row
    <3> QED
      BY <1>0, <1>a, <2>2, <2>3, <2>4, <3>1
  <2>6. CASE ~Hopping(q)
    <3>1. \A j \in Rows : rows'[j].token = IF j = i THEN q.token ELSE rows[j].token
      BY <2>1, <2>6 DEF Registered, TypeOK
    <3>2. \A o \in Reqs : req'[o] = IF o = r THEN p ELSE req[o]
      BY <2>2 DEF Go, TypeOK
    <3>3. /\ q.token \in 1..signed
          /\ \A j \in Rows : rows[j].token # q.token
          /\ \A o \in Reqs \ {r} : req[o].pc = "w_write" => req[o].token # q.token
      BY <2>4 DEF OnceInv, TokenInv, ApartInv
    <3> HIDE DEF q
    <3>6. ApartInv'
      BY <1>0, <2>2, <2>3, <2>4, <3>1, <3>2, <3>3 DEF OnceInv, ApartInv
    <3>4. TokenInv'
      BY <1>0, <2>2, <2>3, <2>4, <3>1, <3>2, <3>3 DEF OnceInv, TokenInv
    <3>5. TradedInv'
      <4> SUFFICES ASSUME NEW h \in Hosts, NEW k \in Tokens, rotated[h][k] # 0
                   PROVE  /\ k <= signed
                          /\ \A j \in Rows : rows'[j].token # k
                          /\ \A o \in Reqs : req'[o].pc = "w_write" => req'[o].token # k
        BY <2>4 DEF TradedInv
      <4>1. k # q.token
        BY <2>4 DEF OnceInv, TradedInv, q
      <4> QED
        BY <2>2, <3>1, <3>2, <4>1 DEF OnceInv, TradedInv
    <3> QED
      BY <2>4, <3>4, <3>5, <3>6 DEF OnceInv, RefreshedOnce
  <2> QED
    BY <2>5, <2>6
<1>11. ASSUME NEW r \in Reqs, Invalidate(r)
       PROVE  OnceInv'
  <2>1. \A h \in Hosts : 0 \notin given'[h]
    <3>1. CASE req[r].token = 0
      BY <1>11, <1>b, <3>1 DEF Invalidate
    <3>2. CASE req[r].token # 0
      <4>1. given' = [given EXCEPT ![req[r].host] = @ \cup {req[r].token}]
        BY <1>11, <3>2 DEF Invalidate, Give
      <4>2. given \in [Hosts -> SUBSET Tokens]
        BY DEF TypeOK
      <4>3. \A h \in Hosts : given'[h] \subseteq given[h] \cup {req[r].token}
        BY <4>1, <4>2
      <4> QED
        BY <1>b, <3>2, <4>3
    <3> QED
      BY <3>1, <3>2
  <2> QED
    BY <1>0, <1>11, <1>a, <2>1 DEF Invalidate, db
<1>12. ASSUME NEW r \in Reqs, NEW h \in Hosts, NEW token \in Tokens, RevokeSession(r, h, token)
       PROVE  OnceInv'
  <2> DEFINE q == [Idle EXCEPT !.pc = "w_invalidate", !.host = h]
  <2>1. Go(r, q) /\ q.pc = "w_invalidate"
    BY <1>12 DEF RevokeSession, Idle
  <2> HIDE DEF q
  <2> QED
    <3>1. signed' = signed /\ UNCHANGED <<given, rotated>> /\ Revoke(h, token)
      BY <1>12 DEF RevokeSession
    <3>2. \A i \in Rows : rows'[i].token \in {rows[i].token, 0}
      BY <3>1, <1>c
    <3> QED
      BY <1>0, <1>a, <1>b, <2>1, <3>1, <3>2
<1>13. ASSUME RemoveAuthBan
       PROVE  OnceInv'
  <2>1. \A i \in Rows : rows'[i].token = rows[i].token
    BY <1>13 DEF RemoveAuthBan, TypeOK, Row
  <2> QED
    BY <1>13, <1>d, <2>1 DEF RemoveAuthBan, history
<1>14. ASSUME NEW r \in Reqs, NEW h \in Hosts, Load(r, h)
       PROVE  OnceInv'
  <2>0. PICK i \in First(Newest(h)) :
               Go(r, [Idle EXCEPT !.pc = "v_fill", !.host = h,
                                  !.token = IF i = None THEN 0 ELSE rows[i].token])
    BY <1>14 DEF Load
  <2> DEFINE q == [Idle EXCEPT !.pc = "v_fill", !.host = h,
                               !.token = IF i = None THEN 0 ELSE rows[i].token]
  <2>1. Go(r, q) /\ q.pc = "v_fill"
    BY <2>0 DEF Idle
  <2> HIDE DEF q
  <2>2. UNCHANGED <<rows, given, rotated, signed>>
    BY <1>14 DEF Load, db
  <2> QED
    BY <1>0, <1>a, <1>b, <2>1, <2>2
<1>15. ASSUME NEW r \in Reqs, Fill(r)
       PROVE  OnceInv'
  BY <1>0, <1>15, <1>a, <1>b DEF Fill, db
<1>16. ASSUME NEW h \in Hosts, CacheExpires(h)
       PROVE  OnceInv'
  BY <1>16, <1>d DEF CacheExpires, db
<1>17. CASE Tick
  BY <1>17, <1>d DEF Tick, history
<1>18. ASSUME NEW r \in Reqs, Abort(r)
       PROVE  OnceInv'
  BY <1>0, <1>18, <1>a, <1>b DEF Abort, db
<1>19. CASE UNCHANGED vars
  BY <1>19, <1>d DEF vars, history
<1> QED
  BY <1>1, <1>2, <1>3, <1>4, <1>5, <1>6, <1>8, <1>9, <1>10, <1>11, <1>12, <1>13, <1>14,
     <1>15, <1>16, <1>17, <1>18, <1>19
     DEF Next, Desktop, Web, Passing, VerifiedLogin

\* Where no two tokens are signed in one second, a refresh token is traded for
\* another once, whatever refreshes, logins and logouts interleave.
THEOREM TradedOnce ==
  ASSUME ~Subsecond
  PROVE  Spec => []RefreshedOnce
<1>1. Init => OnceInv
  <2>1. 0 \in Tokens /\ \A k \in Tokens : k \in Nat
    BY StudentSessionsAssumption DEF Tokens
  <2> QED
    BY <2>1 DEF Init, OnceInv, TokenInv, ApartInv, TradedInv, RefreshedOnce, Idle
<1>2. TypeOK /\ TypeOK' /\ SignedInv /\ OnceInv /\ [Next]_vars => OnceInv'
  BY OnceStep
<1>3. OnceInv => RefreshedOnce
  BY DEF OnceInv
<1> QED
  BY <1>1, <1>2, <1>3, TypeCorrect, PTL DEF Spec

-----------------------------------------------------------------------------
(* One desktop at a time *)

DeviceInv == ClearedInv /\ SingleDevice

\* Steps that open no session and end no clearing keep the invariant.
LEMMA NoNewSession ==
  ASSUME TypeOK, DeviceInv, crossed' = crossed,
         \A h \in Hosts : 0 \notin given'[h],
         \A i \in Rows : /\ rows'[i].host = rows[i].host
                         /\ rows'[i].token # 0 => rows[i].token # 0,
         \A r \in Reqs :
           \/ req'[r] = req[r]
           \/ /\ req'[r].pc \in {"i_guard", "i_clear"} => req'[r].host \in Hosts
              /\ req'[r].pc # "i_write"
              /\ req'[r].pc = "f_rotate" => req'[r].token # 0
  PROVE  DeviceInv'
<1> USE StudentSessionsAssumption
<1>1. ClearedInv'
  BY DEF DeviceInv, ClearedInv, Session
<1>2. SingleDevice'
  BY DEF DeviceInv, SingleDevice
<1> QED
  BY <1>1, <1>2 DEF DeviceInv

\* The desktops' calls keep it.
LEMMA DeviceStep ==
  ASSUME TypeOK, DeviceInv, [Desktop \/ Passing]_vars
  PROVE  DeviceInv'
<1> USE StudentSessionsAssumption
<1>0. /\ now # 0 /\ Idle.pc = "idle"
      /\ \A h \in Hosts : 0 \notin given[h]
      /\ rows \in [Rows -> Row] /\ req \in [Reqs -> Request]
  BY TimesAreTokens DEF TypeOK, Idle, DeviceInv, ClearedInv
<1>a. ASSUME NEW r \in Reqs, NEW q, Go(r, q), crossed' = crossed,
             q.pc \in {"i_guard", "i_clear"} => q.host \in Hosts,
             q.pc # "i_write", q.pc = "f_rotate" => q.token # 0,
             \A h \in Hosts : 0 \notin given'[h],
             \A i \in Rows : /\ rows'[i].host = rows[i].host
                             /\ rows'[i].token # 0 => rows[i].token # 0
      PROVE  DeviceInv'
  <2>1. \A o \in Reqs : req'[o] = IF o = r THEN q ELSE req[o]
    BY <1>a DEF Go, TypeOK
  <2> QED
    BY <1>a, <2>1, NoNewSession
<1>1. ASSUME NEW r \in Reqs, NEW h \in Hosts, IssueFind(r, h)
      PROVE  DeviceInv'
  <2>0. PICK i \in First(Newest(h)) :
               Go(r, [Idle EXCEPT !.pc = "i_guard", !.host = h, !.row = i])
    BY <1>1 DEF IssueFind
  <2> DEFINE q == [Idle EXCEPT !.pc = "i_guard", !.host = h, !.row = i]
  <2>1. Go(r, q) /\ q.pc = "i_guard" /\ q.host = h
    BY <2>0 DEF Idle
  <2>2. UNCHANGED <<rows, given, crossed>>
    BY <1>1 DEF IssueFind, db, history
  <2> HIDE DEF q
  <2> QED
    BY <1>0, <1>a, <2>1, <2>2
<1>2. ASSUME NEW r \in Reqs, IssueGuard(r)
      PROVE  DeviceInv'
  <2> DEFINE q == [req[r] EXCEPT !.pc = "i_clear"]
  <2>1. q.pc = "i_clear" /\ q.host \in Hosts
    BY <1>2, <1>0 DEF IssueGuard, Request, DeviceInv, ClearedInv
  <2>2. Go(r, q) \/ Go(r, Idle)
    BY <1>2 DEF IssueGuard
  <2>3. UNCHANGED <<rows, given, crossed>>
    BY <1>2 DEF IssueGuard, db, history
  <2> HIDE DEF q
  <2> QED
    BY <1>0, <1>a, <2>1, <2>2, <2>3
<1>3. ASSUME NEW r \in Reqs, IssueClear(r)
      PROVE  DeviceInv'
  <2>1. \A o \in Reqs : req'[o] = IF o = r THEN [req[r] EXCEPT !.pc = "i_write"] ELSE req[o]
    BY <1>0, <1>3 DEF IssueClear, Go
  <2>2. req'[r].pc = "i_write" /\ req'[r].host = req[r].host /\ req[r].host \in Hosts
    BY <1>0, <1>3, <2>1 DEF IssueClear, Request, DeviceInv, ClearedInv
  <2>3. \A i \in Rows : /\ rows'[i].host = rows[i].host
                        /\ rows'[i].token # 0 => rows[i].token # 0
                        /\ rows[i].host \notin {None, req[r].host} => rows'[i].token = 0
    BY <1>0, <1>3 DEF IssueClear, Others, Row
  <2>4. UNCHANGED <<given, crossed>>
    BY <1>3 DEF IssueClear
  <2>5. ClearedInv'
    <3>1. ~crossed' => \A o \in Reqs, i \in Rows :
            req'[o].pc = "i_write" /\ Session(i)' => rows'[i].host = req'[o].host
      BY <2>1, <2>2, <2>3, <2>4 DEF DeviceInv, ClearedInv, Session
    <3> QED
      BY <1>0, <2>1, <2>2, <2>3, <2>4, <3>1 DEF DeviceInv, ClearedInv
  <2>6. SingleDevice'
    BY <2>3, <2>4 DEF DeviceInv, SingleDevice
  <2> QED
    BY <2>5, <2>6 DEF DeviceInv
<1>4. ASSUME NEW r \in Reqs, IssueWrite(r)
      PROVE  DeviceInv'
  <2> DEFINE h == req[r].host
  <2>1. PICK i : rows' = [rows EXCEPT ![i] = [host |-> h, token |-> now,
                                               last |-> now, hopp |-> 1]]
    BY <1>4 DEF IssueWrite
  <2>2. \A j \in Rows : /\ rows'[j].token = IF j = i THEN now ELSE rows[j].token
                        /\ rows'[j].host = IF j = i THEN h ELSE rows[j].host
    BY <1>0, <2>1
  <2>3. \A o \in Reqs : req'[o] = IF o = r THEN Idle ELSE req[o]
    BY <1>0, <1>4 DEF IssueWrite, Go
  <2>4. req[r].pc = "i_write" /\ h \in Hosts
    BY <1>4 DEF IssueWrite, DeviceInv, ClearedInv
  <2>5. ~crossed' => ~crossed /\ \A o \in Reqs : req[o].pc = "i_write" => req[o].host = h
    BY <1>4 DEF IssueWrite
  <2>6. \A g \in Hosts : 0 \notin given'[g]
    BY <1>0, <1>4 DEF IssueWrite, Give, TypeOK
  <2> HIDE DEF h
  <2>7. ~crossed' => \A j \in Rows : Session(j)' => rows'[j].host = h
    BY <2>2, <2>4, <2>5 DEF DeviceInv, ClearedInv, Session, h
  <2>8. ClearedInv'
    <3>1. ~crossed' => \A o \in Reqs, j \in Rows :
            req'[o].pc = "i_write" /\ Session(j)' => rows'[j].host = req'[o].host
      BY <1>0, <2>3, <2>5, <2>7
    <3>2. \A j \in Rows : rows'[j].host = None => rows'[j].token = 0
      BY <2>2, <2>4 DEF DeviceInv, ClearedInv
    <3> QED
      BY <1>0, <2>3, <2>6, <3>1, <3>2 DEF DeviceInv, ClearedInv
  <2>9. SingleDevice'
    BY <2>7 DEF SingleDevice, Session
  <2> QED
    BY <2>8, <2>9 DEF DeviceInv
<1>5. ASSUME NEW r \in Reqs, NEW h \in Hosts, NEW token \in Tokens, RefreshFind(r, h, token)
      PROVE  DeviceInv'
  <2>0. PICK i \in RowsOf(h) : Go(r, [Idle EXCEPT !.pc = "f_rotate", !.host = h, !.row = i,
                                                   !.token = token])
    BY <1>5 DEF RefreshFind
  <2> DEFINE q == [Idle EXCEPT !.pc = "f_rotate", !.host = h, !.row = i, !.token = token]
  <2>1. Go(r, q) /\ q.pc = "f_rotate" /\ q.token # 0
    BY <1>0, <1>5, <2>0 DEF Idle, RefreshFind
  <2>2. UNCHANGED <<rows, given, crossed>>
    BY <1>5 DEF RefreshFind, db, history
  <2> HIDE DEF q
  <2> QED
    BY <1>0, <1>a, <2>1, <2>2
<1>6. ASSUME NEW r \in Reqs, RefreshRotate(r)
      PROVE  DeviceInv'
  <2>1. Go(r, Idle) /\ crossed' = crossed
    BY <1>6 DEF RefreshRotate
  <2>2. CASE ~RefreshMatches(req[r])
    BY <1>0, <1>6, <1>a, <2>1, <2>2 DEF RefreshRotate
  <2>3. CASE RefreshMatches(req[r])
    <3>1. /\ rows' = [rows EXCEPT ![req[r].row].token = now, ![req[r].row].last = now]
          /\ Give(req[r].host, now)
      BY <1>6, <2>3 DEF RefreshRotate
    <3>2. rows[req[r].row].token # 0
      BY <1>6, <2>3 DEF RefreshRotate, RefreshMatches, DeviceInv, ClearedInv
    <3>3. \A i \in Rows : /\ rows'[i].host = rows[i].host
                          /\ rows'[i].token # 0 => rows[i].token # 0
      BY <1>0, <3>1, <3>2 DEF Row
    <3>4. \A g \in Hosts : 0 \notin given'[g]
      BY <1>0, <3>1 DEF Give, TypeOK
    <3> QED
      BY <1>0, <1>a, <2>1, <3>3, <3>4
  <2> QED
    BY <2>2, <2>3
<1>7. ASSUME NEW h \in Hosts, NEW token \in Tokens, LogoutDesktop(h, token)
      PROVE  DeviceInv'
  <2>1. \A i \in Rows : /\ rows'[i].host = rows[i].host
                        /\ rows'[i].token # 0 => rows[i].token # 0
    BY <1>0, <1>7 DEF LogoutDesktop, Revoke, Row
  <2>2. UNCHANGED <<req, given, crossed>>
    BY <1>7 DEF LogoutDesktop
  <2> QED
    BY <1>0, <2>1, <2>2, NoNewSession
<1>8. CASE Tick
  BY <1>0, <1>8, NoNewSession DEF Tick, history
<1>9. ASSUME NEW r \in Reqs, Abort(r)
      PROVE  DeviceInv'
  BY <1>0, <1>9, <1>a DEF Abort, db
<1>10. CASE UNCHANGED vars
  BY <1>0, <1>10, NoNewSession DEF vars, history
<1> QED
  BY <1>1, <1>2, <1>3, <1>4, <1>5, <1>6, <1>7, <1>8, <1>9, <1>10 DEF Desktop, Passing

\* A student is signed in on one desktop at a time, however many installations
\* ask at once, unless two sign-ins overlap between the clearing and the write.
THEOREM OneDesktop == DesktopSpec => []SingleDevice
<1>1. Init => TypeOK /\ SignedInv /\ DeviceInv
  <2>1. Init => DeviceInv
    BY DEF Init, DeviceInv, ClearedInv, SingleDevice, Session, Idle
  <2> QED
    BY <2>1, InitTypes
<1>2. TypeOK /\ SignedInv /\ DeviceInv /\ [Desktop \/ Passing]_vars
        => TypeOK' /\ SignedInv' /\ DeviceInv'
  BY TypeStep, DeviceStep DEF Next
<1>3. DeviceInv => SingleDevice
  BY DEF DeviceInv
<1> QED
  BY <1>1, <1>2, <1>3, PTL DEF DesktopSpec

-----------------------------------------------------------------------------
(* Rows and logins are bounded *)

\* A request that writes a row writes one of its host.
LEMMA RowStep ==
  ASSUME TypeOK, TypeOK', RowInv, [Next]_vars
  PROVE  RowInv'
<1> USE StudentSessionsAssumption
<1>0. /\ rows \in [Rows -> Row] /\ req \in [Reqs -> Request]
      /\ Idle.pc = "idle" /\ Idle.row = None
  BY DEF TypeOK, Idle
<1>a. ASSUME NEW r \in Reqs, NEW q, Go(r, q),
             q.pc # "idle" => q.host \in Hosts,
             q.pc \in Writing /\ q.row # None => rows'[q.row].host = q.host,
             \A i \in Rows : rows[i].host # None => rows'[i].host = rows[i].host
      PROVE  RowInv'
  <2>1. \A o \in Reqs : req'[o] = IF o = r THEN q ELSE req[o]
    BY <1>a, <1>0 DEF Go
  <2>2. \A o \in Reqs : /\ req[o].row # None => req[o].row \in Rows
                        /\ req[o].pc \in Writing => req[o].host # None
    BY <1>0 DEF Request, RowInv, Writing
  <2> SUFFICES ASSUME NEW o \in Reqs
               PROVE  /\ req'[o].pc # "idle" => req'[o].host \in Hosts
                      /\ req'[o].pc \in Writing /\ req'[o].row # None =>
                           rows'[req'[o].row].host = req'[o].host
    BY DEF RowInv
  <2>3. CASE o = r
    BY <1>a, <2>1, <2>3
  <2>4. CASE o # r
    BY <1>a, <2>1, <2>2, <2>4 DEF RowInv
  <2> QED
    BY <2>3, <2>4
<1>b. ASSUME UNCHANGED req, \A i \in Rows : rows[i].host # None => rows'[i].host = rows[i].host
      PROVE  RowInv'
  <2>1. \A o \in Reqs : req[o].row # None => req[o].row \in Rows
    BY <1>0 DEF Request
  <2> QED
    BY <1>b, <2>1 DEF RowInv, Writing
<1>c. ASSUME NEW h, NEW token, Revoke(h, token)
      PROVE  \A i \in Rows : rows'[i].host = rows[i].host
  BY <1>c, <1>0 DEF Revoke, Row
<1>1. ASSUME NEW r \in Reqs, NEW h \in Hosts, IssueFind(r, h)
      PROVE  RowInv'
  <2>0. PICK i \in First(Newest(h)) :
               Go(r, [Idle EXCEPT !.pc = "i_guard", !.host = h, !.row = i])
    BY <1>1 DEF IssueFind
  <2> DEFINE q == [Idle EXCEPT !.pc = "i_guard", !.host = h, !.row = i]
  <2>1. Go(r, q) /\ q.host = h /\ q.row = i
    BY <2>0 DEF Idle
  <2>2. UNCHANGED rows /\ (i # None => rows[i].host = h)
    BY <1>1 DEF IssueFind, db, First, Newest, RowsOf
  <2> HIDE DEF q
  <2> QED
    BY <1>a, <2>1, <2>2
<1>2. ASSUME NEW r \in Reqs, IssueGuard(r)
      PROVE  RowInv'
  <2> DEFINE q == [req[r] EXCEPT !.pc = "i_clear"]
  <2>1. q.host = req[r].host /\ q.row = req[r].row
    BY <1>0 DEF Request
  <2>2. Go(r, q) \/ Go(r, Idle)
    BY <1>2 DEF IssueGuard
  <2>3. UNCHANGED rows /\ req[r].pc = "i_guard"
    BY <1>2 DEF IssueGuard, db
  <2> HIDE DEF q
  <2> QED
    BY <1>0, <1>a, <2>1, <2>2, <2>3 DEF RowInv, Writing
<1>3. ASSUME NEW r \in Reqs, IssueClear(r)
      PROVE  RowInv'
  <2> DEFINE q == [req[r] EXCEPT !.pc = "i_write"]
  <2>1. q.host = req[r].host /\ q.row = req[r].row
    BY <1>0 DEF Request
  <2>2. Go(r, q) /\ req[r].pc = "i_clear"
    BY <1>3 DEF IssueClear
  <2>3. \A i \in Rows : rows'[i].host = rows[i].host
    BY <1>0, <1>3 DEF IssueClear, Row
  <2>4. req[r].row # None => req[r].row \in Rows
    BY <1>0 DEF Request
  <2> HIDE DEF q
  <2> QED
    BY <1>0, <1>a, <2>1, <2>2, <2>3, <2>4 DEF RowInv, Writing
<1>4. ASSUME NEW r \in Reqs, IssueWrite(r)
      PROVE  RowInv'
  <2>1. PICK i \in IF req[r].row # None THEN {req[r].row} ELSE Free :
               rows' = [rows EXCEPT ![i] = [host |-> req[r].host, token |-> now,
                                            last |-> now, hopp |-> 1]]
    BY <1>4 DEF IssueWrite
  <2>2. Go(r, Idle) /\ req[r].pc = "i_write"
    BY <1>4 DEF IssueWrite
  <2>3. i \in Rows /\ rows[i].host \in {None, req[r].host}
    BY <1>0, <2>1, <2>2 DEF Free, RowInv, Writing, Request
  <2>4. \A j \in Rows : rows[j].host # None => rows'[j].host = rows[j].host
    BY <1>0, <2>1, <2>3
  <2> QED
    BY <1>0, <1>a, <2>2, <2>4
<1>5. ASSUME NEW r \in Reqs, NEW h \in Hosts, NEW token \in Tokens, RefreshFind(r, h, token)
      PROVE  RowInv'
  <2>0. PICK i \in RowsOf(h) : Go(r, [Idle EXCEPT !.pc = "f_rotate", !.host = h, !.row = i,
                                                   !.token = token])
    BY <1>5 DEF RefreshFind
  <2> DEFINE q == [Idle EXCEPT !.pc = "f_rotate", !.host = h, !.row = i, !.token = token]
  <2>1. Go(r, q) /\ q.host = h /\ q.row = i /\ rows[i].host = h
    BY <2>0 DEF Idle, RowsOf
  <2>2. UNCHANGED rows
    BY <1>5 DEF RefreshFind, db
  <2> HIDE DEF q
  <2> QED
    BY <1>a, <2>1, <2>2
<1>6. ASSUME NEW r \in Reqs, RefreshRotate(r)
      PROVE  RowInv'
  <2>1. Go(r, Idle)
    BY <1>6 DEF RefreshRotate
  <2>2. \A i \in Rows : rows'[i].host = rows[i].host
    <3>1. CASE RefreshMatches(req[r])
      <4>1. rows' = [rows EXCEPT ![req[r].row].token = now, ![req[r].row].last = now]
        BY <1>6, <3>1 DEF RefreshRotate
      <4>2. rows' = [rows EXCEPT ![req[r].row] =
                       [rows[req[r].row] EXCEPT !.token = now, !.last = now]]
        BY <4>1
      <4>3. \A x \in Row : [x EXCEPT !.token = now, !.last = now].host = x.host
        BY DEF Row
      <4> QED
        BY <1>0, <4>2, <4>3
    <3>2. CASE ~RefreshMatches(req[r])
      BY <1>6, <3>2 DEF RefreshRotate
    <3> QED
      BY <3>1, <3>2
  <2> QED
    BY <1>0, <1>a, <2>1, <2>2
<1>7. ASSUME NEW h \in Hosts, NEW token \in Tokens, LogoutDesktop(h, token)
      PROVE  RowInv'
  BY <1>7, <1>b, <1>c DEF LogoutDesktop
<1>8. ASSUME NEW r \in Reqs, NEW h \in Hosts, NEW quiet \in BOOLEAN, RegisterFind(r, h, quiet)
      PROVE  RowInv'
  <2>1. PICK i \in First(IF quiet THEN RowsOf(h) ELSE Newest(h)) :
               LET read == IF i = None THEN [last |-> 0, hopp |-> 0] ELSE rows[i] IN
               Go(r, [pc |-> "w_write", host |-> h, row |-> i, token |-> now,
                      hopp |-> read.hopp, last |-> read.last, quiet |-> quiet])
    BY <1>8 DEF RegisterFind
  <2>2. PICK q : Go(r, q) /\ q.pc = "w_write" /\ q.host = h /\ q.row = i
    BY <2>1
  <2>3. UNCHANGED rows /\ (i # None => rows[i].host = h)
    BY <1>8 DEF RegisterFind, db, First, Newest, RowsOf
  <2> QED
    BY <1>a, <2>2, <2>3
<1>9. ASSUME NEW r \in Reqs, RegisterWrite(r)
      PROVE  RowInv'
  <2> DEFINE q == req[r]
             done == [q EXCEPT !.pc = "w_invalidate",
                               !.token = IF Hopping(q) THEN 0 ELSE q.token]
  <2>1. PICK i \in IF q.row # None THEN {q.row} ELSE Free :
               rows' = [rows EXCEPT ![i] = Registered(q, rows[i])]
    BY <1>9 DEF RegisterWrite
  <2>2. Go(r, done) \/ Go(r, Idle)
    BY <1>9 DEF RegisterWrite
  <2>3. done.pc = "w_invalidate" /\ done.host = q.host /\ q.pc = "w_write"
    BY <1>0, <1>9 DEF Request, RegisterWrite
  <2>4. i \in Rows /\ rows[i].host \in {None, q.host} /\ q.host \in Hosts
    BY <1>0, <2>1, <2>3 DEF Free, RowInv, Writing, Request
  <2>5. \A j \in Rows : rows[j].host # None => rows'[j].host = rows[j].host
    BY <1>0, <2>1, <2>4 DEF Registered, Row
  <2> HIDE DEF q, done
  <2> QED
    BY <1>0, <1>a, <2>2, <2>3, <2>4, <2>5 DEF Writing
<1>10. ASSUME NEW r \in Reqs, Invalidate(r)
       PROVE  RowInv'
  BY <1>0, <1>10, <1>a DEF Invalidate, db
<1>11. ASSUME NEW r \in Reqs, NEW h \in Hosts, NEW token \in Tokens, RevokeSession(r, h, token)
       PROVE  RowInv'
  <2> DEFINE q == [Idle EXCEPT !.pc = "w_invalidate", !.host = h]
  <2>1. Go(r, q) /\ q.pc = "w_invalidate" /\ q.host = h
    BY <1>11 DEF RevokeSession, Idle
  <2>2. \A i \in Rows : rows'[i].host = rows[i].host
    BY <1>11, <1>c DEF RevokeSession
  <2> HIDE DEF q
  <2> QED
    BY <1>a, <2>1, <2>2 DEF Writing
<1>12. ASSUME RemoveAuthBan
       PROVE  RowInv'
  <2>1. \A i \in Rows : rows'[i].host = rows[i].host
    BY <1>0, <1>12 DEF RemoveAuthBan, Row
  <2> QED
    BY <1>12, <1>b, <2>1 DEF RemoveAuthBan
<1>13. ASSUME NEW r \in Reqs, NEW h \in Hosts, Load(r, h)
       PROVE  RowInv'
  <2>0. PICK i \in First(Newest(h)) :
               Go(r, [Idle EXCEPT !.pc = "v_fill", !.host = h,
                                  !.token = IF i = None THEN 0 ELSE rows[i].token])
    BY <1>13 DEF Load
  <2> DEFINE q == [Idle EXCEPT !.pc = "v_fill", !.host = h,
                               !.token = IF i = None THEN 0 ELSE rows[i].token]
  <2>1. Go(r, q) /\ q.pc = "v_fill" /\ q.host = h
    BY <2>0 DEF Idle
  <2>2. UNCHANGED rows
    BY <1>13 DEF Load, db
  <2> HIDE DEF q
  <2> QED
    BY <1>a, <2>1, <2>2 DEF Writing
<1>14. ASSUME NEW r \in Reqs, Fill(r)
       PROVE  RowInv'
  BY <1>0, <1>14, <1>a DEF Fill, db
<1>15. ASSUME NEW h \in Hosts, CacheExpires(h)
       PROVE  RowInv'
  BY <1>15, <1>b DEF CacheExpires, db
<1>16. CASE Tick
  BY <1>16, <1>b DEF Tick
<1>17. ASSUME NEW r \in Reqs, Abort(r)
       PROVE  RowInv'
  BY <1>0, <1>17, <1>a DEF Abort, db
<1>18. CASE UNCHANGED vars
  BY <1>18, <1>b DEF vars
<1> QED
  BY <1>1, <1>2, <1>3, <1>4, <1>5, <1>6, <1>7, <1>8, <1>9, <1>10, <1>11, <1>12, <1>13,
     <1>14, <1>15, <1>16, <1>17, <1>18
     DEF Next, Desktop, Web, Passing, VerifiedLogin

-----------------------------------------------------------------------------
(* Logins *)

\* Sets of requests: a part has no more, and fewer without one of them.
LEMMA FewerRequests ==
  ASSUME NEW T \in SUBSET Reqs, NEW S \in SUBSET T
  PROVE  /\ IsFiniteSet(S) /\ Cardinality(S) \in Nat /\ Cardinality(T) \in Nat
         /\ Cardinality(S) <= Cardinality(T)
         /\ \A r \in T : r \notin S => Cardinality(S) + 1 <= Cardinality(T)
<1>1. IsFiniteSet(T) /\ IsFiniteSet(S)
  BY StudentSessionsAssumption, FS_Subset
<1>2. Cardinality(S) \in Nat /\ Cardinality(T) \in Nat
  BY <1>1, FS_CardinalityType
<1>3. Cardinality(S) <= Cardinality(T) /\ (Cardinality(S) = Cardinality(T) => T = S)
  BY <1>1, FS_Subset
<1> QED
  BY <1>1, <1>2, <1>3

\* A host with a row has a newest one.
LEMMA NewestExists ==
  ASSUME TypeOK, NEW h, RowsOf(h) # {}
  PROVE  Newest(h) # {}
<1> DEFINE Age(i) == MaxClock - rows[i].last
           T == {Age(i) : i \in RowsOf(h)}
<1>1. \A i \in RowsOf(h) : Age(i) \in Nat /\ rows[i].last \in Nat
  BY StudentSessionsAssumption DEF TypeOK, Row, Tokens, RowsOf
<1>2. PICK m \in T : \A n \in T : ~(<<n, m>> \in OpToRel(<, Nat))
  <2>1. T \subseteq Nat /\ T # {}
    BY <1>1
  <2> HIDE DEF T
  <2> QED
    BY <2>1, WFMin, NatLessThanWellFounded
<1>3. \A n \in T : n \in Nat /\ m \in Nat /\ ~(n < m)
  BY <1>1, <1>2 DEF OpToRel
<1>4. PICK i \in RowsOf(h) : m = Age(i)
  OBVIOUS
<1>5. \A j \in RowsOf(h) : rows[j].last <= rows[i].last
  BY <1>1, <1>3, <1>4, StudentSessionsAssumption
<1> QED
  BY <1>5 DEF Newest

\* What a step of request r does to the creators and to the uncounted logins.
LEMMA RequestSets ==
  ASSUME TypeOK, NEW r \in Reqs, NEW q, Go(r, q), NEW h, NEW i
  PROVE  /\ Creators(h)' \subseteq Creators(h) \cup {r}
         /\ Creating(q, h) => Creators(h)' = Creators(h) \cup {r}
         /\ ~Creating(q, h) => Creators(h)' = Creators(h) \ {r}
         /\ Creating(req[r], h) => r \in Creators(h)
         /\ Uncounted(i)' \subseteq Uncounted(i) \cup {r}
         /\ ~Passed(q, i) => Uncounted(i)' = Uncounted(i) \ {r}
         /\ Passed(req[r], i) => r \in Uncounted(i)
<1>1. \A o \in Reqs : req'[o] = IF o = r THEN q ELSE req[o]
  BY DEF Go, TypeOK
<1>2. Creators(h)' = {o \in Reqs : Creating(req'[o], h)}
  BY DEF Creators, Creating
<1>3. Uncounted(i)' = {o \in Reqs : Passed(req'[o], i)}
  BY DEF Uncounted, Passed
<1>4. \A o \in Reqs : /\ Creating(req'[o], h) <=> IF o = r THEN Creating(q, h) ELSE Creating(req[o], h)
                      /\ Passed(req'[o], i) <=> IF o = r THEN Passed(q, i) ELSE Passed(req[o], i)
  BY <1>1
<1> QED
  BY <1>2, <1>3, <1>4 DEF Creators, Uncounted

\* A host's rows and creators stay as few: no row more, one for a creator less,
\* or none at all.
RowsFew(h) ==
  \/ RowsOf(h)' \subseteq RowsOf(h) /\ Creators(h)' \subseteq Creators(h)
  \/ \E i, r : /\ RowsOf(h)' \subseteq RowsOf(h) \cup {i}
               /\ r \in Creators(h) /\ Creators(h)' \subseteq Creators(h) \ {r}
  \/ RowsOf(h)' = {}

\* A row's logins stay as few: not counted again, counted for a login less, or
\* counted anew.
LoginsFew(i) ==
  \/ rows'[i].hopp <= rows[i].hopp /\ Uncounted(i)' \subseteq Uncounted(i)
  \/ \E r : /\ rows'[i].hopp <= rows[i].hopp + 1
            /\ r \in Uncounted(i) /\ Uncounted(i)' \subseteq Uncounted(i) \ {r}
  \/ \E r \in Reqs : rows'[i].hopp <= 1 /\ r \notin Uncounted(i)'
  \/ rows'[i].hopp <= HopLimit

LEMMA StaysFew ==
  ASSUME TypeOK, TypeOK', LoginInv,
         \A h \in Hosts : RowsFew(h), \A i \in Rows : LoginsFew(i)
  PROVE  LoginInv'
<1>1. ASSUME NEW h \in Hosts
      PROVE  /\ IsFiniteSet(RowsOf(h)')
             /\ Cardinality(RowsOf(h)') + Cardinality(Creators(h)') <= Cardinality(Reqs)
  <2> DEFINE R == RowsOf(h)  S == RowsOf(h)'  C == Creators(h)  D == Creators(h)'
  <2>0. C \in SUBSET Reqs /\ D \in SUBSET Reqs
    BY DEF Creators
  <2>1. IsFiniteSet(R) /\ Cardinality(R) + Cardinality(C) <= Cardinality(Reqs)
    BY DEF LoginInv
  <2>2. /\ Cardinality(R) \in Nat /\ Cardinality(C) \in Nat /\ Cardinality(D) \in Nat
        /\ Cardinality(Reqs) \in Nat /\ Cardinality(D) <= Cardinality(Reqs)
    BY <2>0, <2>1, FewerRequests, FS_CardinalityType
  <2>3. \/ S \subseteq R /\ D \subseteq C
        \/ \E i, r : S \subseteq R \cup {i} /\ r \in C /\ D \subseteq C \ {r}
        \/ S = {}
    BY DEF RowsFew
  <2> HIDE DEF R, S, C, D
  <2>4. CASE S \subseteq R /\ D \subseteq C
    <3>1. IsFiniteSet(S) /\ Cardinality(S) <= Cardinality(R)
      BY <2>1, <2>4, FS_Subset
    <3>2. Cardinality(S) \in Nat /\ Cardinality(D) <= Cardinality(C)
      BY <2>0, <2>4, <3>1, FewerRequests, FS_CardinalityType
    <3> QED
      BY <2>1, <2>2, <3>1, <3>2 DEF S, D
  <2>5. ASSUME NEW i, NEW r, S \subseteq R \cup {i}, r \in C, D \subseteq C \ {r}
        PROVE  IsFiniteSet(S) /\ Cardinality(S) + Cardinality(D) <= Cardinality(Reqs)
    <3>1. IsFiniteSet(R \cup {i}) /\ Cardinality(R \cup {i}) <= Cardinality(R) + 1
          /\ Cardinality(R \cup {i}) \in Nat
      <4>1. IsFiniteSet(R \cup {i})
            /\ Cardinality(R \cup {i}) = IF i \in R THEN Cardinality(R) ELSE Cardinality(R) + 1
        BY <2>1, FS_AddElement
      <4> QED
        BY <2>2, <4>1
    <3>2. IsFiniteSet(S) /\ Cardinality(S) <= Cardinality(R \cup {i})
      BY <2>5, <3>1, FS_Subset
    <3>3. Cardinality(D) + 1 <= Cardinality(C)
      BY <2>0, <2>5, FewerRequests
    <3>4. Cardinality(S) \in Nat
      BY <3>2, FS_CardinalityType
    <3> QED
      BY <2>1, <2>2, <3>1, <3>2, <3>3, <3>4
  <2>6. CASE S = {}
    BY <2>2, <2>6, FS_EmptySet DEF S, D
  <2> QED
    BY <2>3, <2>4, <2>5, <2>6 DEF S, D
<1>2. ASSUME NEW i \in Rows
      PROVE  rows'[i].hopp + Cardinality(Uncounted(i)') <= HopLimit + Cardinality(Reqs)
  <2> DEFINE U == Uncounted(i)  V == Uncounted(i)'  m == rows[i].hopp  n == rows'[i].hopp
  <2>0. U \in SUBSET Reqs /\ V \in SUBSET Reqs /\ m \in Nat /\ n \in Nat
    BY DEF Uncounted, TypeOK, Row
  <2>1. m + Cardinality(U) <= HopLimit + Cardinality(Reqs)
    BY DEF LoginInv
  <2>2. /\ Cardinality(U) \in Nat /\ Cardinality(V) \in Nat
        /\ Cardinality(Reqs) \in Nat /\ Cardinality(V) <= Cardinality(Reqs)
        /\ HopLimit \in Nat
    BY <2>0, FewerRequests, StudentSessionsAssumption
  <2>3. \/ n <= m /\ V \subseteq U
        \/ \E r : n <= m + 1 /\ r \in U /\ V \subseteq U \ {r}
        \/ \E r \in Reqs : n <= 1 /\ r \notin V
        \/ n <= HopLimit
    BY DEF LoginsFew
  <2> HIDE DEF U, V, m, n
  <2>4. CASE n <= m /\ V \subseteq U
    <3>1. Cardinality(V) <= Cardinality(U)
      BY <2>0, <2>4, FewerRequests
    <3> QED
      BY <2>0, <2>1, <2>2, <2>4, <3>1 DEF V, n
  <2>5. ASSUME NEW r, n <= m + 1, r \in U, V \subseteq U \ {r}
        PROVE  n + Cardinality(V) <= HopLimit + Cardinality(Reqs)
    <3>1. Cardinality(V) + 1 <= Cardinality(U)
      BY <2>0, <2>5, FewerRequests
    <3> QED
      BY <2>0, <2>1, <2>2, <2>5, <3>1
  <2>6. ASSUME NEW r \in Reqs, n <= 1, r \notin V
        PROVE  n + Cardinality(V) <= HopLimit + Cardinality(Reqs)
    <3>1. Cardinality(V) + 1 <= Cardinality(Reqs)
      BY <2>0, <2>6, FewerRequests
    <3> QED
      BY <2>0, <2>2, <2>6, <3>1
  <2>7. CASE n <= HopLimit
    BY <2>0, <2>2, <2>7 DEF V, n
  <2> QED
    BY <2>3, <2>4, <2>5, <2>6, <2>7 DEF V, n
<1> QED
  BY <1>1, <1>2 DEF LoginInv

\* Steps that leave the rows' hosts and counts alone, and whose request creates
\* no row and counts no login that it did not before.
LEMMA StaysFewWith ==
  ASSUME TypeOK, TypeOK', LoginInv,
         \A i \in Rows : rows'[i].host = rows[i].host /\ rows'[i].hopp <= rows[i].hopp,
         \/ UNCHANGED req
         \/ \E r \in Reqs : \E q :
              /\ Go(r, q)
              /\ \A h \in Hosts : Creating(q, h) => Creating(req[r], h)
              /\ \A i \in Rows : Passed(q, i) => Passed(req[r], i)
  PROVE  LoginInv'
<1>1. \A h : RowsOf(h)' \subseteq RowsOf(h)
  BY DEF RowsOf
<1>2. ASSUME NEW r \in Reqs, NEW q, Go(r, q),
             \A h \in Hosts : Creating(q, h) => Creating(req[r], h),
             \A i \in Rows : Passed(q, i) => Passed(req[r], i)
      PROVE  /\ \A h \in Hosts : Creators(h)' \subseteq Creators(h)
             /\ \A i \in Rows : Uncounted(i)' \subseteq Uncounted(i)
  <2>1. ASSUME NEW h \in Hosts PROVE Creators(h)' \subseteq Creators(h)
    <3>1. CASE Creating(q, h)
      BY <1>2, <3>1, RequestSets
    <3>2. CASE ~Creating(q, h)
      BY <1>2, <3>2, RequestSets
    <3> QED
      BY <3>1, <3>2
  <2>2. ASSUME NEW i \in Rows PROVE Uncounted(i)' \subseteq Uncounted(i)
    <3>1. CASE Passed(q, i)
      BY <1>2, <3>1, RequestSets
    <3>2. CASE ~Passed(q, i)
      BY <1>2, <3>2, RequestSets
    <3> QED
      BY <3>1, <3>2
  <2> QED
    BY <2>1, <2>2
<1>3. ASSUME UNCHANGED req
      PROVE  /\ \A h \in Hosts : Creators(h)' \subseteq Creators(h)
             /\ \A i \in Rows : Uncounted(i)' \subseteq Uncounted(i)
  BY <1>3 DEF Creators, Uncounted, Creating, Passed
<1> QED
  BY <1>1, <1>2, <1>3, StaysFew DEF RowsFew, LoginsFew

\* No step makes too many rows of a host or counts too many logins.
LEMMA LoginStep ==
  ASSUME TypeOK, TypeOK', RowInv, LoginInv, [Next]_vars
  PROVE  LoginInv'
<1>0. /\ rows \in [Rows -> Row] /\ req \in [Reqs -> Request]
      /\ rows' \in [Rows -> Row]
      /\ None \notin Hosts /\ None \notin Rows
      /\ \A i \in Rows : rows[i].hopp \in Nat
  BY StudentSessionsAssumption DEF TypeOK, Row
<1>i. \A h, i : ~Creating(Idle, h) /\ ~Passed(Idle, i)
  BY DEF Idle, Creating, Passed
<1>a. ASSUME NEW r \in Reqs, NEW q, Go(r, q), UNCHANGED rows,
             \A h \in Hosts : Creating(q, h) => Creating(req[r], h),
             \A i \in Rows : Passed(q, i) => Passed(req[r], i)
      PROVE  LoginInv'
  BY <1>0, <1>a, StaysFewWith
<1>b. ASSUME UNCHANGED req, UNCHANGED rows
      PROVE  LoginInv'
  BY <1>0, <1>b, StaysFewWith
<1>c. ASSUME NEW h, NEW token, Revoke(h, token)
      PROVE  \A i \in Rows : rows'[i].host = rows[i].host /\ rows'[i].hopp <= rows[i].hopp
  <2>1. \A x \in Row : [x EXCEPT !.token = 0].host = x.host /\ [x EXCEPT !.token = 0].hopp = x.hopp
    BY DEF Row
  <2> QED
    BY <1>c, <1>0, <2>1 DEF Revoke
\* A request that may create a row has found none.
<1>d. ASSUME NEW r \in Reqs, NEW q, Go(r, q), UNCHANGED rows,
             \A h \in Hosts : Creating(q, h) => RowsOf(h) = {},
             \A i \in Rows : Passed(q, i) => rows[i].hopp <= HopLimit
      PROVE  LoginInv'
  <2>1. ASSUME NEW h \in Hosts PROVE RowsFew(h)
    <3>1. RowsOf(h)' = RowsOf(h)
      BY <1>d DEF RowsOf
    <3>2. CASE Creating(q, h)
      BY <1>d, <3>1, <3>2 DEF RowsFew
    <3>3. CASE ~Creating(q, h)
      BY <1>d, <3>1, <3>3, RequestSets DEF RowsFew
    <3> QED
      BY <3>2, <3>3
  <2>2. ASSUME NEW i \in Rows PROVE LoginsFew(i)
    <3>1. CASE Passed(q, i)
      BY <1>d, <3>1 DEF LoginsFew
    <3>2. CASE ~Passed(q, i)
      <4>1. Uncounted(i)' = Uncounted(i) \ {r}
        BY <1>d, <3>2, RequestSets
      <4> QED
        BY <1>0, <1>d, <4>1 DEF LoginsFew
    <3> QED
      BY <3>1, <3>2
  <2> QED
    BY <2>1, <2>2, StaysFew
<1>e. ASSUME NEW h \in Hosts, NEW i \in First(Newest(h)), i = None
      PROVE  RowsOf(h) = {}
  BY <1>e, <1>0, NewestExists DEF First, Newest, RowsOf
\* Row i becomes the request's: its own row, or a free one for a creator less.
<1>f. ASSUME NEW r \in Reqs, NEW q, Go(r, q), \A h : ~Creating(q, h),
             req[r].pc \in {"i_write", "w_write"},
             NEW i \in IF req[r].row # None THEN {req[r].row} ELSE Free,
             \A j \in Rows : j # i => rows'[j] = rows[j],
             rows'[i].host \in {rows[i].host, req[r].host}
      PROVE  i \in Rows /\ \A h \in Hosts : RowsFew(h)
  <2>1. i \in Rows /\ (req[r].row = None => rows[i].host = None)
    BY <1>0, <1>f DEF Free, Request
  <2>2. req[r].host \in Hosts /\ (req[r].row # None => rows[i].host = req[r].host)
    BY <1>f DEF RowInv, Writing
  <2>3. ASSUME NEW h \in Hosts PROVE RowsFew(h)
    <3>1. Creators(h)' = Creators(h) \ {r}
      BY <1>f, RequestSets
    <3>2. CASE req[r].row = None /\ h = req[r].host
      <4>1. r \in Creators(h)
        BY <1>f, <3>2, RequestSets DEF Creating
      <4>2. RowsOf(h)' \subseteq RowsOf(h) \cup {i}
        BY <1>f DEF RowsOf
      <4> QED
        BY <3>1, <4>1, <4>2 DEF RowsFew
    <3>3. CASE ~(req[r].row = None /\ h = req[r].host)
      <4>1. RowsOf(h)' \subseteq RowsOf(h)
        BY <1>0, <1>f, <2>1, <2>2, <3>3 DEF RowsOf
      <4> QED
        BY <3>1, <4>1 DEF RowsFew
    <3> QED
      BY <3>2, <3>3
  <2> QED
    BY <2>1, <2>3
<1>1. ASSUME NEW r \in Reqs, NEW h \in Hosts, IssueFind(r, h)
      PROVE  LoginInv'
  <2>0. PICK i \in First(Newest(h)) :
               Go(r, [Idle EXCEPT !.pc = "i_guard", !.host = h, !.row = i])
    BY <1>1 DEF IssueFind
  <2> DEFINE q == [Idle EXCEPT !.pc = "i_guard", !.host = h, !.row = i]
  <2>1. Go(r, q) /\ q.host = h /\ q.row = i /\ q.pc = "i_guard"
    BY <2>0 DEF Idle
  <2>2. UNCHANGED rows
    BY <1>1 DEF IssueFind, db
  <2> HIDE DEF q
  <2> QED
    BY <1>d, <1>e, <2>1, <2>2 DEF Creating, Passed
<1>2. ASSUME NEW r \in Reqs, IssueGuard(r)
      PROVE  LoginInv'
  <2> DEFINE q == [req[r] EXCEPT !.pc = "i_clear"]
  <2>1. q.host = req[r].host /\ q.row = req[r].row /\ q.pc = "i_clear"
    BY <1>0 DEF Request
  <2>2. Go(r, q) \/ Go(r, Idle)
    BY <1>2 DEF IssueGuard
  <2>3. UNCHANGED rows /\ req[r].pc = "i_guard"
    BY <1>2 DEF IssueGuard, db
  <2> HIDE DEF q
  <2> QED
    BY <1>a, <1>i, <2>1, <2>2, <2>3 DEF Creating, Passed
<1>3. ASSUME NEW r \in Reqs, IssueClear(r)
      PROVE  LoginInv'
  <2> DEFINE q == [req[r] EXCEPT !.pc = "i_write"]
  <2>1. q.host = req[r].host /\ q.row = req[r].row /\ q.pc = "i_write"
    BY <1>0 DEF Request
  <2>2. Go(r, q) /\ req[r].pc = "i_clear"
    BY <1>3 DEF IssueClear
  <2>3. \A i \in Rows : rows'[i].host = rows[i].host /\ rows'[i].hopp <= rows[i].hopp
    <3>1. \A x \in Row : [x EXCEPT !.token = 0].host = x.host /\ [x EXCEPT !.token = 0].hopp = x.hopp
      BY DEF Row
    <3> QED
      BY <1>0, <1>3, <3>1 DEF IssueClear
  <2> HIDE DEF q
  <2> QED
    BY <2>1, <2>2, <2>3, StaysFewWith DEF Creating, Passed
<1>4. ASSUME NEW r \in Reqs, IssueWrite(r)
      PROVE  LoginInv'
  <2>1. PICK i \in IF req[r].row # None THEN {req[r].row} ELSE Free :
               rows' = [rows EXCEPT ![i] = [host |-> req[r].host, token |-> now,
                                            last |-> now, hopp |-> 1]]
    BY <1>4 DEF IssueWrite
  <2>2. Go(r, Idle) /\ req[r].pc = "i_write"
    BY <1>4 DEF IssueWrite
  <2>3. i \in Rows
    BY <1>0, <2>1 DEF Free, Request
  <2>4. /\ rows'[i].host = req[r].host /\ rows'[i].hopp = 1
        /\ \A j \in Rows : j # i => rows'[j] = rows[j]
    BY <1>0, <2>1, <2>3
  <2>5. \A h \in Hosts : RowsFew(h)
    BY <1>f, <1>i, <2>1, <2>2, <2>4
  <2>6. ASSUME NEW j \in Rows PROVE LoginsFew(j)
    <3>1. Uncounted(j)' = Uncounted(j) \ {r}
      BY <1>i, <2>2, RequestSets
    <3> QED
      BY <1>0, <2>4, <3>1 DEF LoginsFew
  <2> QED
    BY <2>5, <2>6, StaysFew
<1>5. ASSUME NEW r \in Reqs, NEW h \in Hosts, NEW token \in Tokens, RefreshFind(r, h, token)
      PROVE  LoginInv'
  <2>0. PICK i \in RowsOf(h) : Go(r, [Idle EXCEPT !.pc = "f_rotate", !.host = h, !.row = i,
                                                   !.token = token])
    BY <1>5 DEF RefreshFind
  <2> DEFINE q == [Idle EXCEPT !.pc = "f_rotate", !.host = h, !.row = i, !.token = token]
  <2>1. Go(r, q) /\ q.pc = "f_rotate"
    BY <2>0 DEF Idle
  <2>2. UNCHANGED rows
    BY <1>5 DEF RefreshFind, db
  <2> HIDE DEF q
  <2> QED
    BY <1>a, <2>1, <2>2 DEF Creating, Passed
<1>6. ASSUME NEW r \in Reqs, RefreshRotate(r)
      PROVE  LoginInv'
  <2>1. Go(r, Idle)
    BY <1>6 DEF RefreshRotate
  <2>2. \A i \in Rows : rows'[i].host = rows[i].host /\ rows'[i].hopp <= rows[i].hopp
    <3>1. CASE RefreshMatches(req[r])
      <4>1. rows' = [rows EXCEPT ![req[r].row].token = now, ![req[r].row].last = now]
        BY <1>6, <3>1 DEF RefreshRotate
      <4>2. rows' = [rows EXCEPT ![req[r].row] =
                       [rows[req[r].row] EXCEPT !.token = now, !.last = now]]
        BY <4>1
      <4>3. \A x \in Row : /\ [x EXCEPT !.token = now, !.last = now].host = x.host
                           /\ [x EXCEPT !.token = now, !.last = now].hopp = x.hopp
        BY DEF Row
      <4> QED
        BY <1>0, <4>2, <4>3
    <3>2. CASE ~RefreshMatches(req[r])
      BY <1>0, <1>6, <3>2 DEF RefreshRotate
    <3> QED
      BY <3>1, <3>2
  <2> QED
    BY <1>i, <2>1, <2>2, StaysFewWith
<1>7. ASSUME NEW h \in Hosts, NEW token \in Tokens, LogoutDesktop(h, token)
      PROVE  LoginInv'
  <2>1. Revoke(h, token) /\ UNCHANGED req
    BY <1>7 DEF LogoutDesktop
  <2> QED
    BY <1>c, <2>1, StaysFewWith
<1>8. ASSUME NEW r \in Reqs, NEW h \in Hosts, NEW quiet \in BOOLEAN, RegisterFind(r, h, quiet)
      PROVE  LoginInv'
  <2>1. PICK i \in First(IF quiet THEN RowsOf(h) ELSE Newest(h)) :
               LET read == IF i = None THEN [last |-> 0, hopp |-> 0] ELSE rows[i] IN
               Go(r, [pc |-> "w_write", host |-> h, row |-> i, token |-> now,
                      hopp |-> read.hopp, last |-> read.last, quiet |-> quiet])
    BY <1>8 DEF RegisterFind
  <2>2. PICK q : /\ Go(r, q) /\ q.host = h /\ q.row = i
                 /\ i # None => q.hopp = rows[i].hopp
    BY <2>1
  <2>3. UNCHANGED rows
    BY <1>8 DEF RegisterFind, db
  <2>4. i = None => RowsOf(h) = {}
    BY <1>0, NewestExists DEF First, Newest, RowsOf
  <2> QED
    BY <1>0, <1>d, <2>2, <2>3, <2>4 DEF Creating, Passed
<1>9. ASSUME NEW r \in Reqs, RegisterWrite(r)
      PROVE  LoginInv'
  <2> DEFINE q == req[r]
             done == [q EXCEPT !.pc = "w_invalidate",
                               !.token = IF Hopping(q) THEN 0 ELSE q.token]
  <2>1. PICK i \in IF q.row # None THEN {q.row} ELSE Free :
               rows' = [rows EXCEPT ![i] = Registered(q, rows[i])]
    BY <1>9 DEF RegisterWrite
  <2>2. q.pc = "w_write" /\ done.pc = "w_invalidate"
    BY <1>0, <1>9 DEF Request, RegisterWrite
  <2>3. PICK p : Go(r, p) /\ \A h, j : ~Creating(p, h) /\ ~Passed(p, j)
    <3>1. Go(r, done) \/ Go(r, Idle)
      BY <1>9 DEF RegisterWrite
    <3> HIDE DEF done
    <3> QED
      BY <1>i, <2>2, <3>1 DEF Creating, Passed
  <2>4. i \in Rows
    BY <1>0, <2>1 DEF Free, Request
  <2>5. \A j \in Rows : rows'[j] = IF j = i THEN Registered(q, rows[i]) ELSE rows[j]
    BY <1>0, <2>1, <2>4
  <2>6. Registered(q, rows[i]).host \in {rows[i].host, q.host}
    BY <1>0, <2>4 DEF Registered, Row
  <2>7. \A h \in Hosts : RowsFew(h)
    <3> HIDE DEF q, done
    <3>1. \/ i \in {q.row} /\ q.row # None
          \/ i \in Free /\ q.row = None
      BY <2>1
    <3> QED
      BY <1>f, <2>1, <2>2, <2>3, <2>4, <2>5, <2>6 DEF q
  <2>8. ASSUME NEW j \in Rows PROVE LoginsFew(j)
    <3>1. Uncounted(j)' = Uncounted(j) \ {r}
      BY <2>3, RequestSets
    <3>2. CASE j # i
      BY <1>0, <2>5, <3>1, <3>2 DEF LoginsFew
    <3>3. CASE j = i /\ Hopping(q)
      <4>1. rows'[j].hopp = rows[j].hopp
        BY <1>0, <2>5, <3>3 DEF Registered, Row
      <4> QED
        BY <1>0, <3>1, <4>1 DEF LoginsFew
    <3>4. CASE j = i /\ ~Hopping(q) /\ (q.row = None \/ ~Within(q))
      <4>1. rows'[j].hopp <= 1
        BY <1>0, <2>5, <3>4 DEF Registered
      <4> QED
        BY <3>1, <4>1 DEF LoginsFew
    <3>5. CASE j = i /\ ~Hopping(q) /\ q.row # None /\ Within(q)
      <4>1. rows'[j].hopp = rows[j].hopp + 1
        BY <1>0, <2>5, <3>5 DEF Registered
      <4>2. q.hopp \in Nat /\ HopLimit \in Nat
        BY <1>0, StudentSessionsAssumption DEF Request
      <4>3. Passed(q, j)
        BY <2>1, <2>2, <3>5, <4>2 DEF Hopping, Passed
      <4>4. r \in Uncounted(j)
        BY <2>3, <4>3, RequestSets
      <4> QED
        BY <1>0, <3>1, <4>1, <4>4 DEF LoginsFew
    <3> QED
      BY <3>2, <3>3, <3>4, <3>5
  <2> QED
    BY <2>7, <2>8, StaysFew
<1>10. ASSUME NEW r \in Reqs, Invalidate(r)
       PROVE  LoginInv'
  BY <1>10, <1>a, <1>i DEF Invalidate, db
<1>11. ASSUME NEW r \in Reqs, NEW h \in Hosts, NEW token \in Tokens, RevokeSession(r, h, token)
       PROVE  LoginInv'
  <2> DEFINE q == [Idle EXCEPT !.pc = "w_invalidate", !.host = h]
  <2>1. Go(r, q) /\ q.pc = "w_invalidate" /\ Revoke(h, token)
    BY <1>11 DEF RevokeSession, Idle
  <2> HIDE DEF q
  <2> QED
    BY <1>c, <2>1, StaysFewWith DEF Creating, Passed
<1>12. ASSUME RemoveAuthBan
       PROVE  LoginInv'
  <2>1. \A x \in Row : [x EXCEPT !.hopp = 0].host = x.host /\ [x EXCEPT !.hopp = 0].hopp = 0
    BY DEF Row
  <2>2. \A i \in Rows : rows'[i].host = rows[i].host /\ rows'[i].hopp <= rows[i].hopp
    <3>1. \A i \in Rows : rows'[i] = [rows[i] EXCEPT !.hopp = 0]
      BY <1>12 DEF RemoveAuthBan
    <3>2. \A i \in Rows : rows'[i].host = rows[i].host /\ rows'[i].hopp = 0
      <4> TAKE i \in Rows
      <4> DEFINE x == rows[i]
      <4>1. x \in Row /\ rows'[i] = [x EXCEPT !.hopp = 0]
        BY <1>0, <3>1
      <4> HIDE DEF x
      <4>2. [x EXCEPT !.hopp = 0].host = x.host /\ [x EXCEPT !.hopp = 0].hopp = 0
        BY <2>1, <4>1
      <4> QED
        BY <4>1, <4>2 DEF x
    <3> QED
      BY <1>0, <3>2
  <2> QED
    BY <1>12, <2>2, StaysFewWith DEF RemoveAuthBan
<1>13. ASSUME NEW r \in Reqs, NEW h \in Hosts, Load(r, h)
       PROVE  LoginInv'
  <2>0. PICK i \in First(Newest(h)) :
               Go(r, [Idle EXCEPT !.pc = "v_fill", !.host = h,
                                  !.token = IF i = None THEN 0 ELSE rows[i].token])
    BY <1>13 DEF Load
  <2> DEFINE q == [Idle EXCEPT !.pc = "v_fill", !.host = h,
                               !.token = IF i = None THEN 0 ELSE rows[i].token]
  <2>1. Go(r, q) /\ q.pc = "v_fill"
    BY <2>0 DEF Idle
  <2>2. UNCHANGED rows
    BY <1>13 DEF Load, db
  <2> HIDE DEF q
  <2> QED
    BY <1>a, <2>1, <2>2 DEF Creating, Passed
<1>14. ASSUME NEW r \in Reqs, Fill(r)
       PROVE  LoginInv'
  BY <1>14, <1>a, <1>i DEF Fill, db
<1>15. ASSUME NEW h \in Hosts, CacheExpires(h)
       PROVE  LoginInv'
  BY <1>15, <1>b DEF CacheExpires, db
<1>16. CASE Tick
  BY <1>16, <1>b DEF Tick
<1>17. ASSUME NEW r \in Reqs, Abort(r)
       PROVE  LoginInv'
  BY <1>17, <1>a, <1>i DEF Abort, db
<1>18. CASE UNCHANGED vars
  BY <1>18, <1>b DEF vars
<1> QED
  BY <1>1, <1>2, <1>3, <1>4, <1>5, <1>6, <1>7, <1>8, <1>9, <1>10, <1>11, <1>12, <1>13,
     <1>14, <1>15, <1>16, <1>17, <1>18
     DEF Next, Desktop, Web, Passing, VerifiedLogin

\* A host has no more rows, and a row passes the login limit by no more, than
\* there are requests in flight: registerStudentSession reads both before it
\* writes either.
THEOREM LoginsCounted == Spec => []LoginsBounded
<1>1. Init => RowInv /\ LoginInv
  <2> SUFFICES ASSUME Init PROVE RowInv /\ LoginInv
    OBVIOUS
  <2>1. \A r \in Reqs : req[r] = Idle
    BY DEF Init
  <2>2. \A h \in Hosts : RowsOf(h) = {}
    BY StudentSessionsAssumption DEF Init, RowsOf
  <2>3. \A h \in Hosts : Creators(h) \in SUBSET Reqs
    BY DEF Creators
  <2>4. \A i \in Rows : rows[i].hopp = 0 /\ Uncounted(i) = {}
    BY <2>1 DEF Init, Uncounted, Passed, Idle
  <2> QED
    BY <2>1, <2>2, <2>3, <2>4, FS_EmptySet, FewerRequests, StudentSessionsAssumption
       DEF RowInv, LoginInv, Idle, Writing
<1>2. TypeOK /\ TypeOK' /\ RowInv /\ LoginInv /\ [Next]_vars => RowInv' /\ LoginInv'
  BY RowStep, LoginStep
<1>3. TypeOK /\ LoginInv => LoginsBounded
  <2> SUFFICES ASSUME TypeOK, LoginInv PROVE LoginsBounded
    OBVIOUS
  <2>1. ASSUME NEW h \in Hosts PROVE Cardinality(RowsOf(h)) <= Cardinality(Reqs)
    <3>1. Creators(h) \in SUBSET Reqs
      BY DEF Creators
    <3>2. /\ Cardinality(RowsOf(h)) \in Nat /\ Cardinality(Creators(h)) \in Nat
          /\ Cardinality(Reqs) \in Nat
      BY <3>1, FewerRequests, FS_CardinalityType DEF LoginInv
    <3> QED
      BY <3>2 DEF LoginInv
  <2>2. ASSUME NEW i \in Rows PROVE rows[i].hopp <= HopLimit + Cardinality(Reqs)
    <3>1. Uncounted(i) \in SUBSET Reqs
      BY DEF Uncounted
    <3>2. /\ Cardinality(Uncounted(i)) \in Nat /\ Cardinality(Reqs) \in Nat
          /\ rows[i].hopp \in Nat /\ HopLimit \in Nat
      BY <3>1, FewerRequests, StudentSessionsAssumption DEF TypeOK, Row
    <3> QED
      BY <3>2 DEF LoginInv
  <2> QED
    BY <2>1, <2>2 DEF LoginsBounded
<1> QED
  BY <1>1, <1>2, <1>3, TypeCorrect, PTL DEF Spec

-----------------------------------------------------------------------------
(* The cached session *)

\* A step leaves the rows of a host with their tokens and times.
KeepsRows(h) ==
  \A i \in Rows : rows[i].host = h \/ rows'[i].host = h =>
    /\ rows'[i].host = rows[i].host
    /\ rows'[i].token = rows[i].token /\ rows'[i].last = rows[i].last

\* Then its newest rows are the same, and so are their tokens.
LEMMA NewestKept ==
  ASSUME NEW h, KeepsRows(h)
  PROVE  /\ RowsOf(h)' = RowsOf(h) /\ Newest(h)' = Newest(h)
         /\ \A i \in Newest(h) : rows'[i].token = rows[i].token
<1>1. RowsOf(h)' = RowsOf(h)
  BY DEF RowsOf, KeepsRows
<1>2. \A i \in RowsOf(h) : rows'[i].token = rows[i].token /\ rows'[i].last = rows[i].last
  BY DEF RowsOf, KeepsRows
<1>3. Newest(h)' = Newest(h)
  BY <1>1, <1>2 DEF Newest
<1> QED
  BY <1>1, <1>2, <1>3 DEF Newest

\* The cached session has an excuse not to be the newest row's.
Excused(h) == stale[h] \/ Invalidating(h)

\* Steps that cache nothing: a host's rows stay, or a running fill is marked
\* late and the cached session excused; and an excuse lasts as long as what is
\* cached.
LEMMA StaysCached ==
  ASSUME TypeOK, RowInv, FillInv, CacheInv,
         \A h \in Hosts : cache'[h] \in {cache[h], Miss},
         \A o \in Reqs : req'[o].pc = "v_fill" =>
           req'[o] = req[o] /\ filler'[req[o].host] = o,
         \A h \in Hosts : \/ KeepsRows(h) /\ (late[h] => late'[h])
                          \/ (filler[h] # None => late'[h]) /\ Excused(h)',
         \A h \in Hosts : Excused(h) => Excused(h)' \/ cache'[h] = Miss
  PROVE  FillInv' /\ CacheInv'
<1>1. ASSUME NEW h \in Hosts
      PROVE  cache'[h] = Miss \/ Excused(h)' \/ Fresh(h, cache[h])'
  <2>1. CASE Excused(h)' \/ cache'[h] = Miss
    BY <2>1
  <2>2. CASE ~Excused(h)' /\ cache'[h] # Miss
    <3>1. KeepsRows(h) /\ cache'[h] = cache[h] /\ ~Excused(h)
      BY <2>2
    <3>2. Fresh(h, cache[h])
      BY <2>2, <3>1 DEF CacheInv, Excused
    <3> QED
      BY <3>1, <3>2, NewestKept DEF Fresh
  <2> QED
    BY <2>1, <2>2
<1>2. ASSUME NEW o \in Reqs, req'[o].pc = "v_fill"
      PROVE  /\ filler'[req'[o].host] = o
             /\ late'[req'[o].host] \/ Fresh(req[o].host, req[o].token)'
  <2>1. req'[o] = req[o] /\ filler'[req[o].host] = o
    BY <1>2
  <2>2. /\ req[o].host \in Hosts /\ filler[req[o].host] = o /\ o # None
        /\ late[req[o].host] \/ Fresh(req[o].host, req[o].token)
    BY <1>2, <2>1, StudentSessionsAssumption DEF RowInv, FillInv
  <2>3. CASE late'[req[o].host]
    BY <2>1, <2>3
  <2>4. CASE ~late'[req[o].host]
    <3>1. KeepsRows(req[o].host) /\ ~late[req[o].host]
      BY <2>2, <2>4
    <3> DEFINE h == req[o].host
    <3>2. /\ RowsOf(h)' = RowsOf(h) /\ Newest(h)' = Newest(h)
          /\ \A i \in Newest(h) : rows'[i].token = rows[i].token
      BY <2>1, <3>1, NewestKept
    <3> QED
      BY <2>1, <2>2, <3>1, <3>2 DEF Fresh
  <2> QED
    BY <2>3, <2>4
<1> QED
  BY <1>1, <1>2 DEF FillInv, CacheInv, Excused, Invalidating

\* What a step of request r does to the invalidations and the fills.
LEMMA RequestFills ==
  ASSUME TypeOK, NEW r \in Reqs, NEW q, Go(r, q)
  PROVE  /\ \A o \in Reqs : req'[o] = IF o = r THEN q ELSE req[o]
         /\ \A h : Invalidating(h) /\ (req[r].pc # "w_invalidate" \/ req[r].host # h)
                     => Invalidating(h)'
         /\ \A h : q.pc = "w_invalidate" /\ q.host = h => Invalidating(h)'
<1>1. \A o \in Reqs : req'[o] = IF o = r THEN q ELSE req[o]
  BY DEF Go, TypeOK
<1> QED
  BY <1>1 DEF Invalidating

\* A request that neither writes nor caches.
LEMMA ReadsOnly ==
  ASSUME TypeOK, RowInv, FillInv, CacheInv, NEW r \in Reqs, NEW q, Go(r, q),
         q.pc # "v_fill", req[r].pc # "w_invalidate",
         UNCHANGED <<rows, cache, filler, late, stale>>
  PROVE  FillInv' /\ CacheInv'
<1>1. \A h : KeepsRows(h)
  BY DEF KeepsRows
<1>2. \A h : Excused(h) => Excused(h)'
  BY RequestFills DEF Excused
<1>3. \A o \in Reqs : req'[o].pc = "v_fill" => req'[o] = req[o] /\ filler'[req[o].host] = o
  BY RequestFills DEF FillInv
<1> QED
  BY <1>1, <1>2, <1>3, StaysCached

\* A request that writes rows of the hosts hs, and invalidates them next or
\* never.
LEMMA Writes ==
  ASSUME TypeOK, RowInv, FillInv, CacheInv, NEW r \in Reqs, NEW q, Go(r, q),
         q.pc # "v_fill", req[r].pc # "w_invalidate", UNCHANGED <<cache, filler>>,
         NEW hs, NEW quietly \in BOOLEAN, Touch(hs, quietly),
         \A h \in Hosts : h \notin hs => KeepsRows(h),
         quietly \/ (q.pc = "w_invalidate" /\ hs = {q.host})
  PROVE  FillInv' /\ CacheInv'
<1>1. \A h \in Hosts : /\ late'[h] <=> late[h] \/ (h \in hs /\ filler[h] # None)
                       /\ stale'[h] <=> stale[h] \/ (h \in hs /\ quietly)
  BY DEF Touch
<1>2. \A h \in Hosts : Excused(h) => Excused(h)'
  BY <1>1, RequestFills DEF Excused
<1>3. \A o \in Reqs : req'[o].pc = "v_fill" => req'[o] = req[o] /\ filler'[req[o].host] = o
  BY RequestFills DEF FillInv
<1>4. \A h \in Hosts : h \in hs => (filler[h] # None => late'[h]) /\ Excused(h)'
  BY <1>1, RequestFills DEF Excused
<1>5. \A h \in Hosts : h \notin hs => KeepsRows(h) /\ (late[h] => late'[h])
  BY <1>1
<1> QED
  BY <1>2, <1>3, <1>4, <1>5, StaysCached

\* No step leaves a cached session wrong without an excuse.
LEMMA CacheStep ==
  ASSUME TypeOK, TypeOK', RowInv, FillInv, CacheInv, [Next]_vars
  PROVE  FillInv' /\ CacheInv'
<1>0. /\ rows \in [Rows -> Row] /\ req \in [Reqs -> Request]
      /\ cache \in [Hosts -> Tokens \cup {Miss}] /\ filler \in [Hosts -> Reqs \cup {None}]
      /\ stale \in [Hosts -> BOOLEAN] /\ late \in [Hosts -> BOOLEAN]
      /\ None \notin Hosts /\ None \notin Rows /\ None \notin Reqs
      /\ None \notin DesktopHosts /\ DesktopHosts \subseteq Hosts
  BY StudentSessionsAssumption DEF TypeOK
<1>i. Idle.pc = "idle"
  BY DEF Idle
<1>a. ASSUME UNCHANGED req, UNCHANGED rows, UNCHANGED <<cache, filler, late, stale>>
      PROVE  FillInv' /\ CacheInv'
  <2>1. \A h : KeepsRows(h) /\ (Excused(h) => Excused(h)')
    BY <1>a DEF KeepsRows, Excused, Invalidating
  <2> QED
    BY <1>a, <2>1, StaysCached DEF FillInv
<1>b. ASSUME NEW h, NEW token, Revoke(h, token)
      PROVE  \A k \in Hosts : k \notin {h} => KeepsRows(k)
  <2>1. \A x \in Row : [x EXCEPT !.token = 0].host = x.host
    BY DEF Row
  <2>2. \A i \in Rows : rows'[i].host = rows[i].host /\ (rows[i].host # h => rows'[i] = rows[i])
    BY <1>b, <1>0, <2>1 DEF Revoke
  <2> QED
    BY <2>2 DEF KeepsRows
\* A write to the request's row, or to a free one.
<1>c. ASSUME NEW r \in Reqs, req[r].pc \in {"i_write", "f_rotate", "w_write"},
             NEW i \in IF req[r].row # None THEN {req[r].row} ELSE Free,
             \A j \in Rows : j # i => rows'[j] = rows[j],
             rows'[i].host \in {rows[i].host, req[r].host}
      PROVE  \A h \in Hosts : h \notin {req[r].host} => KeepsRows(h)
  <2>1. i \in Rows /\ rows[i].host \in {None, req[r].host}
    BY <1>0, <1>c DEF Free, Request, RowInv, Writing
  <2> QED
    BY <1>0, <1>c, <2>1 DEF KeepsRows
<1>1. ASSUME NEW r \in Reqs, NEW h \in Hosts, IssueFind(r, h)
      PROVE  FillInv' /\ CacheInv'
  <2>0. PICK i \in First(Newest(h)) :
               Go(r, [Idle EXCEPT !.pc = "i_guard", !.host = h, !.row = i])
    BY <1>1 DEF IssueFind
  <2> DEFINE q == [Idle EXCEPT !.pc = "i_guard", !.host = h, !.row = i]
  <2>1. Go(r, q) /\ q.pc = "i_guard" /\ req[r].pc = "idle"
    BY <1>1, <1>i, <2>0 DEF IssueFind, Idle
  <2>2. UNCHANGED <<rows, cache, filler, late, stale>>
    BY <1>1 DEF IssueFind, db, history
  <2> HIDE DEF q
  <2> QED
    BY <2>1, <2>2, ReadsOnly
<1>2. ASSUME NEW r \in Reqs, IssueGuard(r)
      PROVE  FillInv' /\ CacheInv'
  <2> DEFINE q == [req[r] EXCEPT !.pc = "i_clear"]
  <2>1. (Go(r, q) \/ Go(r, Idle)) /\ q.pc = "i_clear" /\ req[r].pc = "i_guard"
    BY <1>0, <1>2 DEF IssueGuard, Request
  <2>2. UNCHANGED <<rows, cache, filler, late, stale>>
    BY <1>2 DEF IssueGuard, db, history
  <2> HIDE DEF q
  <2> QED
    BY <1>i, <2>1, <2>2, ReadsOnly
<1>3. ASSUME NEW r \in Reqs, IssueClear(r)
      PROVE  FillInv' /\ CacheInv'
  <2> DEFINE q == [req[r] EXCEPT !.pc = "i_write"]
             others == Others(req[r].host)
             hs == {rows[i].host : i \in others}
  <2>1. Go(r, q) /\ q.pc = "i_write" /\ req[r].pc = "i_clear"
    BY <1>0, <1>3 DEF IssueClear, Request
  <2>2. Touch(hs, TRUE) /\ UNCHANGED <<cache, filler>>
    BY <1>3 DEF IssueClear
  <2>3. ASSUME NEW h \in Hosts, h \notin hs PROVE KeepsRows(h)
    <3>1. \A x \in Row : [x EXCEPT !.token = 0].host = x.host
      BY DEF Row
    <3>2. \A i \in Rows : rows'[i] = IF i \in others THEN [rows[i] EXCEPT !.token = 0] ELSE rows[i]
      BY <1>3 DEF IssueClear
    <3>3. \A i \in others : rows[i].host # h
      BY <2>3
    <3> HIDE DEF others, hs
    <3>4. \A i \in Rows : rows'[i].host = rows[i].host /\ (i \notin others => rows'[i] = rows[i])
      BY <1>0, <3>1, <3>2
    <3> QED
      BY <3>3, <3>4 DEF KeepsRows
  <2> HIDE DEF q, hs
  <2> QED
    BY <2>1, <2>2, <2>3, Writes
<1>4. ASSUME NEW r \in Reqs, IssueWrite(r)
      PROVE  FillInv' /\ CacheInv'
  <2>1. PICK i \in IF req[r].row # None THEN {req[r].row} ELSE Free :
               rows' = [rows EXCEPT ![i] = [host |-> req[r].host, token |-> now,
                                            last |-> now, hopp |-> 1]]
    BY <1>4 DEF IssueWrite
  <2>2. /\ Go(r, Idle) /\ req[r].pc = "i_write"
        /\ Touch({req[r].host}, TRUE) /\ UNCHANGED <<cache, filler>>
    BY <1>4 DEF IssueWrite
  <2>3. i \in Rows
    BY <1>0, <2>1 DEF Free, Request
  <2>4. rows'[i].host = req[r].host /\ \A j \in Rows : j # i => rows'[j] = rows[j]
    BY <1>0, <2>1, <2>3
  <2>5. \A h \in Hosts : h \notin {req[r].host} => KeepsRows(h)
    BY <1>c, <2>1, <2>2, <2>4
  <2> QED
    BY <1>i, <2>2, <2>5, Writes
<1>5. ASSUME NEW r \in Reqs, NEW h \in Hosts, NEW token \in Tokens, RefreshFind(r, h, token)
      PROVE  FillInv' /\ CacheInv'
  <2>0. PICK i \in RowsOf(h) : Go(r, [Idle EXCEPT !.pc = "f_rotate", !.host = h, !.row = i,
                                                   !.token = token])
    BY <1>5 DEF RefreshFind
  <2> DEFINE q == [Idle EXCEPT !.pc = "f_rotate", !.host = h, !.row = i, !.token = token]
  <2>1. Go(r, q) /\ q.pc = "f_rotate" /\ req[r].pc = "idle"
    BY <1>5, <1>i, <2>0 DEF RefreshFind, Idle
  <2>2. UNCHANGED <<rows, cache, filler, late, stale>>
    BY <1>5 DEF RefreshFind, db, history
  <2> HIDE DEF q
  <2> QED
    BY <2>1, <2>2, ReadsOnly
<1>6. ASSUME NEW r \in Reqs, RefreshRotate(r)
      PROVE  FillInv' /\ CacheInv'
  <2>1. Go(r, Idle) /\ req[r].pc = "f_rotate" /\ UNCHANGED <<cache, filler>>
    BY <1>6 DEF RefreshRotate
  <2>2. CASE RefreshMatches(req[r])
    <3>1. /\ rows' = [rows EXCEPT ![req[r].row].token = now, ![req[r].row].last = now]
          /\ Touch({req[r].host}, TRUE)
      BY <1>6, <2>2 DEF RefreshRotate
    <3>2. rows' = [rows EXCEPT ![req[r].row] =
                     [rows[req[r].row] EXCEPT !.token = now, !.last = now]]
      BY <3>1
    <3>3. \A x \in Row : [x EXCEPT !.token = now, !.last = now].host = x.host
      BY DEF Row
    <3>4. ASSUME NEW h \in Hosts, h \notin {req[r].host} PROVE KeepsRows(h)
      <4>1. /\ \A j \in Rows : j # req[r].row => rows'[j] = rows[j]
            /\ req[r].row \in Rows => rows'[req[r].row].host = rows[req[r].row].host
        BY <1>0, <3>2, <3>3
      <4>2. req[r].row \in Rows => rows[req[r].row].host = req[r].host
        BY <1>0, <2>1 DEF RowInv, Writing
      <4> QED
        BY <3>4, <4>1, <4>2 DEF KeepsRows
    <3> QED
      BY <1>i, <2>1, <3>1, <3>4, Writes
  <2>3. CASE ~RefreshMatches(req[r])
    <3>1. UNCHANGED <<rows, late, stale>>
      BY <1>6, <2>3 DEF RefreshRotate
    <3> QED
      BY <1>i, <2>1, <3>1, ReadsOnly
  <2> QED
    BY <2>2, <2>3
<1>7. ASSUME NEW h \in Hosts, NEW token \in Tokens, LogoutDesktop(h, token)
      PROVE  FillInv' /\ CacheInv'
  <2>1. Revoke(h, token) /\ Touch({h}, TRUE) /\ UNCHANGED <<cache, filler, req>>
    BY <1>7 DEF LogoutDesktop
  <2>2. \A k \in Hosts : /\ late'[k] <=> late[k] \/ (k \in {h} /\ filler[k] # None)
                         /\ stale'[k] <=> stale[k] \/ k \in {h}
    BY <2>1 DEF Touch
  <2>3. \A k \in Hosts : Excused(k) => Excused(k)'
    BY <2>1, <2>2 DEF Excused, Invalidating
  <2>4. \A k \in Hosts : \/ KeepsRows(k) /\ (late[k] => late'[k])
                         \/ (filler[k] # None => late'[k]) /\ Excused(k)'
    BY <1>b, <2>1, <2>2 DEF Excused
  <2>5. \A o \in Reqs : req'[o].pc = "v_fill" => req'[o] = req[o] /\ filler'[req[o].host] = o
    BY <2>1 DEF FillInv
  <2> QED
    BY <2>1, <2>3, <2>4, <2>5, StaysCached
<1>8. ASSUME NEW r \in Reqs, NEW h \in Hosts, NEW quiet \in BOOLEAN, RegisterFind(r, h, quiet)
      PROVE  FillInv' /\ CacheInv'
  <2>1. PICK i \in First(IF quiet THEN RowsOf(h) ELSE Newest(h)) :
               LET read == IF i = None THEN [last |-> 0, hopp |-> 0] ELSE rows[i] IN
               Go(r, [pc |-> "w_write", host |-> h, row |-> i, token |-> now,
                      hopp |-> read.hopp, last |-> read.last, quiet |-> quiet])
    BY <1>8 DEF RegisterFind
  <2>2. PICK q : Go(r, q) /\ q.pc = "w_write"
    BY <2>1
  <2>3. req[r].pc = "idle" /\ UNCHANGED <<rows, cache, filler, late, stale>>
    BY <1>8, <1>i DEF RegisterFind, db, history
  <2> QED
    BY <2>2, <2>3, ReadsOnly
<1>9. ASSUME NEW r \in Reqs, RegisterWrite(r)
      PROVE  FillInv' /\ CacheInv'
  <2> DEFINE q == req[r]
             done == [q EXCEPT !.pc = "w_invalidate",
                               !.token = IF Hopping(q) THEN 0 ELSE q.token]
  <2>1. PICK i \in IF q.row # None THEN {q.row} ELSE Free :
               rows' = [rows EXCEPT ![i] = Registered(q, rows[i])]
    BY <1>9 DEF RegisterWrite
  <2>2. /\ q.pc = "w_write" /\ q.quiet \in BOOLEAN
        /\ done.pc = "w_invalidate" /\ done.host = q.host
    BY <1>0, <1>9 DEF Request, RegisterWrite
  <2>3. /\ Touch({q.host}, q.quiet) /\ UNCHANGED <<cache, filler>>
        /\ q.quiet => Go(r, Idle)
        /\ ~q.quiet => Go(r, done)
    BY <1>9 DEF RegisterWrite
  <2>4. i \in Rows
    BY <1>0, <2>1 DEF Free, Request
  <2>5. \A j \in Rows : rows'[j] = IF j = i THEN Registered(q, rows[i]) ELSE rows[j]
    BY <1>0, <2>1, <2>4
  <2>6. Registered(q, rows[i]).host \in {rows[i].host, q.host}
    BY <1>0, <2>4 DEF Registered, Row
  <2>7. \A h \in Hosts : h \notin {q.host} => KeepsRows(h)
    BY <1>c, <2>1, <2>2, <2>4, <2>5, <2>6
  <2> HIDE DEF q, done
  <2>8. CASE q.quiet
    BY <1>i, <2>2, <2>3, <2>7, <2>8, Writes DEF q
  <2>9. CASE ~q.quiet
    BY <2>2, <2>3, <2>7, <2>9, Writes DEF q
  <2> QED
    BY <2>8, <2>9
<1>10. ASSUME NEW r \in Reqs, Invalidate(r)
       PROVE  FillInv' /\ CacheInv'
  <2> DEFINE h == req[r].host
  <2>1. /\ Go(r, Idle) /\ req[r].pc = "w_invalidate" /\ UNCHANGED <<rows, filler, late>>
        /\ cache' = [cache EXCEPT ![h] = Miss] /\ stale' = [stale EXCEPT ![h] = FALSE]
    BY <1>10 DEF Invalidate, db
  <2>2. h \in Hosts
    BY <2>1 DEF RowInv
  <2>3. \A k \in Hosts : /\ cache'[k] = IF k = h THEN Miss ELSE cache[k]
                         /\ k # h => stale'[k] = stale[k]
    BY <1>0, <2>1
  <2>4. \A k \in Hosts : Excused(k) => Excused(k)' \/ cache'[k] = Miss
    BY <2>1, <2>3, RequestFills DEF Excused
  <2>5. \A k : KeepsRows(k)
    BY <2>1 DEF KeepsRows
  <2>6. \A o \in Reqs : req'[o].pc = "v_fill" => req'[o] = req[o] /\ filler'[req[o].host] = o
    BY <1>i, <2>1, RequestFills DEF FillInv
  <2> HIDE DEF h
  <2> QED
    BY <2>1, <2>3, <2>4, <2>5, <2>6, StaysCached
<1>11. ASSUME NEW r \in Reqs, NEW h \in Hosts, NEW token \in Tokens, RevokeSession(r, h, token)
       PROVE  FillInv' /\ CacheInv'
  <2> DEFINE q == [Idle EXCEPT !.pc = "w_invalidate", !.host = h]
  <2>1. Go(r, q) /\ q.pc = "w_invalidate" /\ q.host = h /\ Revoke(h, token)
    BY <1>11 DEF RevokeSession, Idle
  <2>2. Touch({h}, FALSE) /\ UNCHANGED <<cache, filler>> /\ req[r].pc = "idle"
    BY <1>11, <1>i DEF RevokeSession
  <2> HIDE DEF q
  <2> QED
    BY <1>b, <2>1, <2>2, Writes
<1>12. ASSUME RemoveAuthBan
       PROVE  FillInv' /\ CacheInv'
  <2>1. \A x \in Row : /\ [x EXCEPT !.hopp = 0].host = x.host
                       /\ [x EXCEPT !.hopp = 0].token = x.token
                       /\ [x EXCEPT !.hopp = 0].last = x.last
    BY DEF Row
  <2>2. \A h : KeepsRows(h)
    <3>1. \A i \in Rows : rows'[i] = [rows[i] EXCEPT !.hopp = 0] /\ rows[i] \in Row
      BY <1>0, <1>12 DEF RemoveAuthBan
    <3> QED
      BY <2>1, <3>1 DEF KeepsRows
  <2>3. UNCHANGED <<cache, filler, req, late, stale>>
    BY <1>12 DEF RemoveAuthBan, history
  <2>4. \A h : Excused(h) => Excused(h)'
    BY <2>3 DEF Excused, Invalidating
  <2> QED
    BY <2>2, <2>3, <2>4, StaysCached DEF FillInv
<1>13. ASSUME NEW r \in Reqs, NEW h \in Hosts, Load(r, h)
       PROVE  FillInv' /\ CacheInv'
  <2>0. PICK i \in First(Newest(h)) :
               Go(r, [Idle EXCEPT !.pc = "v_fill", !.host = h,
                                  !.token = IF i = None THEN 0 ELSE rows[i].token])
    BY <1>13 DEF Load
  <2> DEFINE token == IF i = None THEN 0 ELSE rows[i].token
             q == [Idle EXCEPT !.pc = "v_fill", !.host = h, !.token = token]
  <2>1. Go(r, q) /\ q.pc = "v_fill" /\ q.host = h /\ q.token = token
    BY <2>0 DEF Idle
  <2>2. /\ UNCHANGED <<rows, cache, stale>> /\ req[r].pc = "idle" /\ filler[h] = None
        /\ filler' = [filler EXCEPT ![h] = r] /\ late' = [late EXCEPT ![h] = FALSE]
    BY <1>13, <1>i DEF Load, db
  <2>3. Fresh(h, token)
    BY <1>0, NewestExists DEF Fresh, First, Newest, RowsOf
  <2> HIDE DEF q, token
  <2>4. \A o \in Reqs : req'[o] = IF o = r THEN q ELSE req[o]
    BY <2>1, RequestFills
  <2>5. ASSUME NEW o \in Reqs, req'[o].pc = "v_fill"
        PROVE  /\ filler'[req'[o].host] = o
               /\ late'[req'[o].host] \/ Fresh(req'[o].host, req'[o].token)
    <3>1. CASE o = r
      BY <1>0, <2>1, <2>2, <2>3, <2>4, <3>1
    <3>2. CASE o # r
      <4>1. /\ req'[o] = req[o] /\ filler[req[o].host] = o /\ req[o].host \in Hosts
            /\ late[req[o].host] \/ Fresh(req[o].host, req[o].token)
        BY <2>4, <2>5, <3>2 DEF FillInv, RowInv
      <4>2. req[o].host # h
        BY <1>0, <2>2, <4>1
      <4> QED
        BY <1>0, <2>2, <4>1, <4>2
    <3> QED
      BY <3>1, <3>2
  <2>6. \A k \in Hosts : Invalidating(k) => Invalidating(k)'
    BY <2>1, <2>2, RequestFills
  <2> QED
    BY <2>2, <2>5, <2>6 DEF FillInv, CacheInv, Fresh, Newest, RowsOf
<1>14. ASSUME NEW r \in Reqs, Fill(r)
       PROVE  FillInv' /\ CacheInv'
  <2> DEFINE h == req[r].host
  <2>1. /\ Go(r, Idle) /\ req[r].pc = "v_fill" /\ UNCHANGED <<rows, late>>
        /\ cache' = [cache EXCEPT ![h] = req[r].token]
        /\ stale' = [stale EXCEPT ![h] = late[h]]
        /\ filler' = [filler EXCEPT ![h] = None]
    BY <1>14 DEF Fill, db
  <2>2. /\ h \in Hosts /\ filler[h] = r
        /\ late[h] \/ Fresh(h, req[r].token)
    BY <2>1 DEF FillInv, RowInv
  <2> HIDE DEF h
  <2>3. \A o \in Reqs : req'[o] = IF o = r THEN Idle ELSE req[o]
    BY <2>1, RequestFills
  <2>4. ASSUME NEW o \in Reqs, req'[o].pc = "v_fill"
        PROVE  /\ filler'[req'[o].host] = o
               /\ late'[req'[o].host] \/ Fresh(req'[o].host, req'[o].token)
    <3>1. /\ o # r /\ req'[o] = req[o] /\ filler[req[o].host] = o /\ req[o].host \in Hosts
          /\ late[req[o].host] \/ Fresh(req[o].host, req[o].token)
      BY <1>i, <2>3, <2>4 DEF FillInv, RowInv
    <3> QED
      BY <1>0, <2>1, <2>2, <3>1
  <2>5. \A k \in Hosts : Invalidating(k) => Invalidating(k)'
    BY <2>1, RequestFills
  <2>6. ASSUME NEW k \in Hosts
        PROVE  cache'[k] = Miss \/ stale'[k] \/ Invalidating(k)' \/ Fresh(k, cache'[k])
    <3>1. CASE k = h
      BY <1>0, <2>1, <2>2, <3>1
    <3>2. CASE k # h
      BY <1>0, <2>1, <2>2, <2>5, <3>2 DEF CacheInv
    <3> QED
      BY <3>1, <3>2
  <2> QED
    BY <2>1, <2>4, <2>6 DEF FillInv, CacheInv, Fresh, Newest, RowsOf
<1>15. ASSUME NEW h \in Hosts, CacheExpires(h)
       PROVE  FillInv' /\ CacheInv'
  <2>1. /\ UNCHANGED <<rows, filler, late, req>>
        /\ cache' = [cache EXCEPT ![h] = Miss] /\ stale' = [stale EXCEPT ![h] = FALSE]
    BY <1>15 DEF CacheExpires, db
  <2>2. \A k \in Hosts : /\ cache'[k] = IF k = h THEN Miss ELSE cache[k]
                         /\ k # h => stale'[k] = stale[k]
    BY <1>0, <2>1
  <2>3. \A k \in Hosts : KeepsRows(k) /\ (Excused(k) => Excused(k)' \/ cache'[k] = Miss)
    BY <2>1, <2>2 DEF KeepsRows, Excused, Invalidating
  <2> QED
    BY <2>1, <2>2, <2>3, StaysCached DEF FillInv
<1>16. CASE Tick
  BY <1>16, <1>a DEF Tick, history
<1>17. ASSUME NEW r \in Reqs, Abort(r)
       PROVE  FillInv' /\ CacheInv'
  <2>1. /\ Go(r, Idle) /\ req[r].pc # "idle" /\ UNCHANGED <<rows, cache, late>>
        /\ filler' = [h \in Hosts |-> IF filler[h] = r THEN None ELSE filler[h]]
        /\ stale' = IF req[r].pc = "w_invalidate" THEN [stale EXCEPT ![req[r].host] = TRUE]
                    ELSE stale
    BY <1>17 DEF Abort, db
  <2>2. \A o \in Reqs : req'[o] = IF o = r THEN Idle ELSE req[o]
    BY <2>1, RequestFills
  <2>3. \A o \in Reqs : req'[o].pc = "v_fill" => req'[o] = req[o] /\ filler'[req[o].host] = o
    BY <1>i, <2>1, <2>2 DEF FillInv, RowInv
  <2>4. \A h \in Hosts : /\ stale[h] => stale'[h]
                         /\ req[r].pc = "w_invalidate" /\ req[r].host = h => stale'[h]
    BY <1>0, <2>1
  <2>5. \A h \in Hosts : KeepsRows(h) /\ (Excused(h) => Excused(h)')
    BY <2>1, <2>4, RequestFills DEF KeepsRows, Excused
  <2> QED
    BY <2>1, <2>3, <2>5, StaysCached
<1>18. CASE UNCHANGED vars
  BY <1>18, <1>a DEF vars, history
<1> QED
  BY <1>1, <1>2, <1>3, <1>4, <1>5, <1>6, <1>7, <1>8, <1>9, <1>10, <1>11, <1>12, <1>13,
     <1>14, <1>15, <1>16, <1>17, <1>18
     DEF Next, Desktop, Web, Passing, VerifiedLogin

\* The session that requests are checked against is the newest row's, or a
\* write is about to invalidate it, or it is stale for a known reason.
THEOREM CachedSessionCurrent == Spec => []CacheCurrent
<1>1. Init => RowInv /\ FillInv /\ CacheInv
  BY DEF Init, Idle, RowInv, FillInv, CacheInv, Writing
<1>2. TypeOK /\ TypeOK' /\ RowInv /\ FillInv /\ CacheInv /\ [Next]_vars
        => RowInv' /\ FillInv' /\ CacheInv'
  BY RowStep, CacheStep
<1>3. CacheInv => CacheCurrent
  BY DEF CacheInv, CacheCurrent, Invalidating, Fresh
<1> QED
  BY <1>1, <1>2, <1>3, TypeCorrect, PTL DEF Spec
=============================================================================
