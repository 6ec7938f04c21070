-------------------------- MODULE StudentSessions --------------------------
(***************************************************************************)
(* The sessions of one student: the studentAuthLog rows, one per host at   *)
(* least in intent, which the web logins (authentication/session) and the  *)
(* desktop logins (desktopAuth.session.js) write with several queries      *)
(* each, and the Redis copy of a host's newest row that every request of a *)
(* student is checked against.                                             *)
(***************************************************************************)
EXTENDS Integers, FiniteSets

CONSTANTS
  Reqs,          \* request slots: how many requests are in flight at once
  Hosts,         \* host names a session is opened for
  DesktopHosts,  \* those of desktop installations, "acs-desktop:..."
  Rows,          \* studentAuthLog row ids
  None,
  DesktopWindow, \* DESKTOP_SESSION_CONFLICT_WINDOW_MS, in ticks
  HopWindow,     \* SIX_HOURS_MS, in ticks
  HopLimit,      \* config.acceptHopCount
  MaxClock,      \* bound: ticks of the clock
  Subsecond      \* two tokens may be signed in one second

ASSUME StudentSessionsAssumption ==
  /\ None \notin Reqs \cup Hosts \cup Rows /\ IsFiniteSet(Reqs)
  /\ DesktopHosts \subseteq Hosts
  /\ DesktopWindow \in Nat /\ HopWindow \in Nat /\ HopLimit \in Nat
  /\ MaxClock \in Nat \ {0} /\ Subsecond \in BOOLEAN

\* A signed token is its student, its kind, which the host tells, and `iat`,
\* the second of the signature.  0 is a null refreshToken.
Tokens == 0..MaxClock
Miss == -1

\* A row's token is not signed after its last login.
Row == {x \in [host: Hosts \cup {None}, token: Tokens, last: Tokens, hopp: Nat] :
          x.token <= x.last}

Steps == {"idle", "i_guard", "i_clear", "i_write", "f_rotate", "w_write",
          "w_invalidate", "v_fill"}

\* What a request carries: the row and the count it read, its token.
Request == [pc: Steps, host: Hosts \cup {None}, row: Rows \cup {None},
            token: Tokens, hopp: Nat, last: Tokens, quiet: BOOLEAN]

Idle == [pc |-> "idle", host |-> None, row |-> None, token |-> 0, hopp |-> 0,
         last |-> 0, quiet |-> FALSE]

VARIABLES
  rows,     \* studentAuthLog; a row with host None is not there
  cache,    \* Redis: refreshToken of a host's newest row, Miss when absent
  filler,   \* the request that holds the cache key's fill lock
  req,      \* requests in flight
  now,      \* the clock
  signed,   \* when a token was last signed
  \* history, read by no guard but the bounds
  given,    \* tokens returned to the host's client
  rotated,  \* how often a host's token was traded for a new one: 0, 1 or more
  crossed,  \* a desktop session was written when another was about to be
  late,     \* the host's rows changed since the running fill read them
  stale     \* the cached session was written late or not invalidated

db == <<rows, now>>
history == <<given, rotated, crossed, late, stale>>
vars == <<rows, cache, filler, req, now, signed, history>>

Init ==
  /\ rows = [i \in Rows |-> [host |-> None, token |-> 0, last |-> 0, hopp |-> 0]]
  /\ cache = [h \in Hosts |-> Miss]
  /\ filler = [h \in Hosts |-> None]
  /\ req = [r \in Reqs |-> Idle]
  /\ now = 1 /\ signed = 0
  /\ given = [h \in Hosts |-> {}]
  /\ rotated = [h \in Hosts |-> [k \in Tokens |-> 0]]
  /\ crossed = FALSE
  /\ late = [h \in Hosts |-> FALSE]
  /\ stale = [h \in Hosts |-> FALSE]

-----------------------------------------------------------------------------
(* Queries and tokens *)

RowsOf(h) == {i \in Rows : rows[i].host = h}

\* findFirst ... orderBy lastLogedIn desc
Newest(h) == {i \in RowsOf(h) : \A j \in RowsOf(h) : rows[j].last <= rows[i].last}

\* Mutant: the query looks for another spelling of the host.
First_Never(set) == {None}

\* The row a findFirst returns, None without one.
First(set) == IF set = {} THEN {None} ELSE set

Free == {i \in Rows : rows[i].host = None}

\* jwt.sign: the same payload in the same second is the same token.
Sign == /\ Subsecond \/ signed < now
        /\ signed' = now

Go(r, q) == req' = [req EXCEPT ![r] = q]

\* Rows of the hosts hs change; `quietly` without deleting the cached session.
Touch(hs, quietly) ==
  /\ late' = [h \in Hosts |-> late[h] \/ (h \in hs /\ filler[h] # None)]
  /\ stale' = [h \in Hosts |-> stale[h] \/ (h \in hs /\ quietly)]

Give(h, token) == given' = [given EXCEPT ![h] = @ \cup {token}]

-----------------------------------------------------------------------------
(* Desktop sessions: issue, refresh, logout *)

IssueFind(r, h) ==
  /\ req[r] = Idle /\ h \in DesktopHosts
  /\ \E i \in First(Newest(h)) :
       Go(r, [Idle EXCEPT !.pc = "i_guard", !.host = h, !.row = i])
  /\ UNCHANGED <<db, cache, filler, signed, history>>

\* Rows of other hosts that hold a session.
Others(h) == {i \in Rows : /\ rows[i].host \notin {None, h}
                           /\ rows[i].token # 0}

RecentElsewhere(h) == \E i \in Others(h) : now - rows[i].last <= DesktopWindow

IssueGuard(r) ==
  LET q == req[r] IN
  /\ q.pc = "i_guard"
  /\ Go(r, IF RecentElsewhere(q.host) THEN Idle
           ELSE [q EXCEPT !.pc = "i_clear"])
  /\ UNCHANGED <<db, cache, filler, signed, history>>

\* Mutant: the other desktops' sessions are left alone.
IssueClear_Kept(r) ==
  /\ req[r].pc = "i_clear"
  /\ Go(r, [req[r] EXCEPT !.pc = "i_write"])
  /\ UNCHANGED <<db, cache, filler, signed, history>>

IssueClear(r) ==
  LET q == req[r]
      others == Others(q.host)
  IN /\ q.pc = "i_clear"
     /\ rows' = [i \in Rows |-> IF i \in others
                                THEN [rows[i] EXCEPT !.token = 0] ELSE rows[i]]
     /\ Go(r, [q EXCEPT !.pc = "i_write"])
     /\ Touch({rows[i].host : i \in others}, TRUE)
     /\ UNCHANGED <<cache, filler, now, signed, given, rotated, crossed>>

IssueWrite(r) ==
  LET q == req[r] IN
  /\ q.pc = "i_write"
  /\ Sign
  /\ \E i \in IF q.row # None THEN {q.row} ELSE Free :
       rows' = [rows EXCEPT ![i] = [host |-> q.host, token |-> now,
                                    last |-> now, hopp |-> 1]]
  /\ Go(r, Idle)
  /\ Touch({q.host}, TRUE) /\ Give(q.host, now)
  /\ crossed' = (crossed \/ \E o \in Reqs : /\ req[o].pc = "i_write"
                                        /\ req[o].host # q.host)
  /\ UNCHANGED <<cache, filler, now, rotated>>

RefreshFind(r, h, token) ==
  /\ req[r] = Idle /\ h \in DesktopHosts /\ token \in given[h]
  /\ \E i \in RowsOf(h) :
       /\ rows[i].token = token
       /\ Go(r, [Idle EXCEPT !.pc = "f_rotate", !.host = h, !.row = i,
                             !.token = token])
  /\ UNCHANGED <<db, cache, filler, signed, history>>

\* Mutant: the update names the row only.
RefreshMatches_ById(q) == TRUE

\* updateMany where the row still holds the token that was read.
RefreshMatches(q) == rows[q.row].token = q.token

RefreshRotate(r) ==
  LET q == req[r] IN
  /\ q.pc = "f_rotate"
  /\ Sign
  /\ Go(r, Idle)
  /\ IF RefreshMatches(q)
     THEN /\ rows' = [rows EXCEPT ![q.row].token = now, ![q.row].last = now]
          /\ rotated' = [rotated EXCEPT ![q.host][q.token] = IF @ = 0 THEN 1 ELSE 2]
          /\ Touch({q.host}, TRUE) /\ Give(q.host, now)
     ELSE UNCHANGED <<rows, given, rotated, late, stale>>
  /\ UNCHANGED <<cache, filler, now, crossed>>

\* One updateMany ends the session of the rows that hold the token.
Revoke(h, token) ==
  rows' = [i \in Rows |-> IF rows[i].host = h /\ rows[i].token = token
                          THEN [rows[i] EXCEPT !.token = 0] ELSE rows[i]]

LogoutDesktop(h, token) ==
  /\ h \in DesktopHosts /\ token \in given[h]
  /\ Revoke(h, token)
  /\ Touch({h}, TRUE)
  /\ UNCHANGED <<cache, filler, req, now, signed, given, rotated, crossed>>

-----------------------------------------------------------------------------
(* Web sessions: login, logout *)

\* The caller signs the token, then registerStudentSession reads the row, for
\* whatever host the headers name, desktop hosts included.
\* `quiet` is verifyLoginV2, which writes the row by itself.
RegisterFind(r, h, quiet) ==
  /\ req[r] = Idle
  /\ Sign
  /\ \E i \in First(IF quiet THEN RowsOf(h) ELSE Newest(h)) :
       LET read == IF i = None THEN [last |-> 0, hopp |-> 0] ELSE rows[i] IN
       Go(r, [pc |-> "w_write", host |-> h, row |-> i, token |-> now,
              hopp |-> read.hopp, last |-> read.last, quiet |-> quiet])
  /\ UNCHANGED <<db, cache, filler, history>>

VerifiedLogin(r, h) == RegisterFind(r, h, TRUE)

Within(q) == now - q.last < HopWindow

\* Mutant: one login more.
Hopping_Late(q) == q.row # None /\ Within(q) /\ q.hopp > HopLimit + 1

\* Too many logins within six hours of the last one.
Hopping(q) == q.row # None /\ Within(q) /\ q.hopp > HopLimit

\* Mutant: the time of the login is stored for new rows only.
Registered_OldTime(q, row) ==
  IF Hopping(q) THEN [row EXCEPT !.token = 0]
  ELSE [host |-> q.host, token |-> q.token,
        last |-> IF q.row = None THEN now ELSE row.last, hopp |-> 0]

\* What the update leaves in the row: hoppCount is incremented in the database.
Registered(q, row) ==
  IF Hopping(q) THEN [row EXCEPT !.token = 0]
  ELSE [host |-> q.host, token |-> q.token, last |-> now,
        hopp |-> IF q.row = None THEN 0 ELSE IF Within(q) THEN row.hopp + 1 ELSE 1]

RegisterWrite(r) ==
  LET q == req[r]
      done == [q EXCEPT !.pc = "w_invalidate",
                        !.token = IF Hopping(q) THEN 0 ELSE q.token]
  IN /\ q.pc = "w_write"
     /\ \E i \in IF q.row # None THEN {q.row} ELSE Free :
          rows' = [rows EXCEPT ![i] = Registered(q, rows[i])]
     /\ Touch({q.host}, q.quiet)
     /\ IF q.quiet
        THEN /\ Go(r, Idle)
             /\ IF Hopping(q) THEN UNCHANGED given ELSE Give(q.host, q.token)
        ELSE Go(r, done) /\ UNCHANGED given
     /\ UNCHANGED <<cache, filler, now, signed, rotated, crossed>>

\* Mutant: the cached session is not deleted.
Invalidate_Skipped(r) ==
  LET q == req[r] IN
  /\ q.pc = "w_invalidate"
  /\ IF q.token = 0 THEN UNCHANGED given ELSE Give(q.host, q.token)
  /\ Go(r, Idle)
  /\ UNCHANGED <<db, cache, filler, signed, rotated, crossed, late, stale>>

\* deleteCache, then the answer: the token, or none when refused or logged out.
Invalidate(r) ==
  LET q == req[r] IN
  /\ q.pc = "w_invalidate"
  /\ cache' = [cache EXCEPT ![q.host] = Miss]
  /\ stale' = [stale EXCEPT ![q.host] = FALSE]
  /\ IF q.token = 0 THEN UNCHANGED given ELSE Give(q.host, q.token)
  /\ Go(r, Idle)
  /\ UNCHANGED <<db, filler, signed, rotated, crossed, late>>

RevokeSession(r, h, token) ==
  /\ req[r] = Idle /\ token \in given[h]
  /\ Revoke(h, token)
  /\ Touch({h}, FALSE)
  /\ Go(r, [Idle EXCEPT !.pc = "w_invalidate", !.host = h])
  /\ UNCHANGED <<cache, filler, now, signed, given, rotated, crossed>>

RemoveAuthBan ==
  /\ rows' = [i \in Rows |-> [rows[i] EXCEPT !.hopp = 0]]
  /\ UNCHANGED <<cache, filler, req, now, signed, history>>

-----------------------------------------------------------------------------
(* The session check of every request: module CacheAside in two steps *)

\* A miss: the request that gets the fill lock reads the newest row.
Load(r, h) ==
  /\ req[r] = Idle /\ cache[h] = Miss /\ filler[h] = None
  /\ filler' = [filler EXCEPT ![h] = r]
  /\ late' = [late EXCEPT ![h] = FALSE]
  /\ \E i \in First(Newest(h)) :
       Go(r, [Idle EXCEPT !.pc = "v_fill", !.host = h,
                          !.token = IF i = None THEN 0 ELSE rows[i].token])
  /\ UNCHANGED <<db, cache, signed, given, rotated, crossed, stale>>

Fill(r) ==
  LET q == req[r] IN
  /\ q.pc = "v_fill"
  /\ cache' = [cache EXCEPT ![q.host] = q.token]
  /\ stale' = [stale EXCEPT ![q.host] = late[q.host]]
  /\ filler' = [filler EXCEPT ![q.host] = None]
  /\ Go(r, Idle)
  /\ UNCHANGED <<db, signed, given, rotated, crossed, late>>

CacheExpires(h) ==
  /\ cache[h] # Miss
  /\ cache' = [cache EXCEPT ![h] = Miss]
  /\ stale' = [stale EXCEPT ![h] = FALSE]
  /\ UNCHANGED <<db, filler, req, signed, given, rotated, crossed, late>>

-----------------------------------------------------------------------------
(* Environment *)

Tick ==
  /\ now < MaxClock
  /\ now' = now + 1
  /\ UNCHANGED <<rows, cache, filler, req, signed, history>>

\* A query fails or the process dies: what was written stays, the answer and
\* the invalidation are lost, the fill lock goes with its TTL.
Abort(r) ==
  LET q == req[r] IN
  /\ q.pc # "idle"
  /\ filler' = [h \in Hosts |-> IF filler[h] = r THEN None ELSE filler[h]]
  /\ stale' = IF q.pc = "w_invalidate" THEN [stale EXCEPT ![q.host] = TRUE]
              ELSE stale
  /\ Go(r, Idle)
  /\ UNCHANGED <<db, cache, signed, given, rotated, crossed, late>>

\* The desktop clients' calls.
Desktop ==
  \/ \E r \in Reqs, h \in Hosts : IssueFind(r, h)
  \/ \E r \in Reqs, h \in Hosts, token \in Tokens : RefreshFind(r, h, token)
  \/ \E h \in Hosts, token \in Tokens : LogoutDesktop(h, token)
  \/ \E r \in Reqs : IssueGuard(r) \/ IssueClear(r) \/ IssueWrite(r) \/ RefreshRotate(r)

\* The browsers' calls and the check of every request.
Web ==
  \/ \E r \in Reqs, h \in Hosts :
       \/ RegisterFind(r, h, FALSE) \/ VerifiedLogin(r, h) \/ Load(r, h)
       \/ \E token \in Tokens : RevokeSession(r, h, token)
  \/ \E r \in Reqs : RegisterWrite(r) \/ Invalidate(r) \/ Fill(r)
  \/ \E h \in Hosts : CacheExpires(h)
  \/ RemoveAuthBan

Passing == Tick \/ \E r \in Reqs : Abort(r)

Next == Desktop \/ Web \/ Passing

Spec == Init /\ [][Next]_vars

\* The two halves alone: desktops sign in at hosts of their own.
DesktopSpec == Init /\ [][Desktop \/ Passing]_vars
WebSpec == Init /\ [][Web \/ Passing]_vars

-----------------------------------------------------------------------------
(* Properties *)

TypeOK ==
  /\ rows \in [Rows -> Row]
  /\ cache \in [Hosts -> Tokens \cup {Miss}]
  /\ filler \in [Hosts -> Reqs \cup {None}]
  /\ req \in [Reqs -> Request]
  /\ now \in 1..MaxClock /\ signed \in 0..now
  /\ given \in [Hosts -> SUBSET Tokens]
  /\ rotated \in [Hosts -> [Tokens -> 0..2]] /\ crossed \in BOOLEAN
  /\ late \in [Hosts -> BOOLEAN] /\ stale \in [Hosts -> BOOLEAN]

\* README.md:180 of desktopAuthentication: a rotated refresh token "cannot be
\* used again": no interleaving of refreshes trades one token twice.
RefreshedOnce == \A h \in Hosts, k \in Tokens : rotated[h][k] <= 1

\* desktopAuth.session.js:72: one account is signed in on one desktop at a time,
\* unless two sign-ins overlap between the clearing of the others and the write.
SingleDevice ==
  \A i, j \in Rows :
    /\ ~crossed
    /\ rows[i].host \in DesktopHosts /\ rows[i].token # 0
    /\ rows[j].host \in DesktopHosts /\ rows[j].token # 0
    => rows[i].host = rows[j].host

\* Nothing in the schema makes (studentId, hostName) unique: a host has as many
\* rows as logins that found none before one of them wrote, no more.  And the
\* login limit is read before it is counted: every login in flight may pass it
\* once, none may pass it later.
LoginsBounded ==
  /\ \A h \in Hosts : Cardinality(RowsOf(h)) <= Cardinality(Reqs)
  /\ \A i \in Rows : rows[i].hopp <= HopLimit + Cardinality(Reqs)

\* The session a request is checked against is the newest row's, except between
\* a write and its invalidation, after a fill that a write overtook, after a
\* write that invalidates nothing, and after an invalidation that failed.
CacheCurrent ==
  \A h \in Hosts :
    \/ cache[h] = Miss \/ stale[h]
    \/ \E r \in Reqs : req[r].pc = "w_invalidate" /\ req[r].host = h
    \/ cache[h] = 0 /\ RowsOf(h) = {}
    \/ \E i \in Newest(h) : rows[i].token = cache[h]
=============================================================================
