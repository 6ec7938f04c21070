---------------------------- MODULE DesktopAuth ----------------------------
(***************************************************************************)
(* Desktop sign-in (src/app/modules/desktopAuthentication): a transaction  *)
(* kept in Redis is driven from PENDING to CONSUMED by HTTP requests that  *)
(* interleave at every await.  A request is a slot of `req` whose pc names *)
(* the next await; one action is the code between two awaits.  Redis       *)
(* expiry, process crashes, failing calls and the web account flows are    *)
(* actions of the environment.                                             *)
(***************************************************************************)
EXTENDS Integers, Sequences, FiniteSets

CONSTANTS
  Reqs,          \* request slots: how many requests are in flight at once
  Txns,          \* transaction ids
  Students,      \* student row ids
  Identities,    \* verified (provider, providerUid) pairs
  Emails, Phones,
  Attempts,      \* otpAttempts row ids
  EmailOf,       \* verified email of an identity, None when unverified
  Privileged,    \* emails and phones held by admin and superAdmin rows
  None,
  Endpoints,     \* the endpoints clients call, of AllEndpoints
  MaxCodes,      \* bound: OTP codes sent in a behaviour
  MaxSessions,   \* bound: sessions delivered for one transaction
  MaxCrashes,    \* bound: requests lost with their process
  Churn,         \* the web flows change accounts and provider links
  LockOutlivesHolder \* FALSE: the lock's TTL may end while its holder runs

AllEndpoints == {"complete", "cancel", "link", "otp", "register", "exchange"}

ASSUME DesktopAuthAssumption ==
  /\ None \notin Reqs \cup Txns \cup Students \cup Identities
                  \cup Emails \cup Phones \cup Attempts
  /\ EmailOf \in [Identities -> Emails \cup {None}]
  /\ Endpoints \subseteq AllEndpoints
  /\ MaxCodes \in Nat /\ MaxSessions \in Nat /\ MaxCrashes \in Nat
  /\ Churn \in BOOLEAN /\ LockOutlivesHolder \in BOOLEAN

Link == "ACCOUNT_LINK_REQUIRED"
Register == "REGISTRATION_REQUIRED"

\* "ABSENT": never started; "GONE": the Redis key has expired.
Statuses == {"ABSENT", "GONE", "PENDING", "READY", Link, Register,
             "FAILED", "CANCELLED", "CONSUMED"}

\* A completed transaction has its identity, a READY one its account.
Doc == {d \in [status: Statuses, identity: Identities \cup {None},
               student: Students \cup {None}, attempt: Attempts \cup {None}] :
         /\ d.status \in {Link, Register, "FAILED", "READY"} => d.identity # None
         /\ d.status = "READY" => d.student # None}

Bare(s) == [status |-> s, identity |-> None, student |-> None, attempt |-> None]

Steps == {"idle", "c_provider", "c_account", "l_account", "l_provider",
          "l_commit", "o_conflict", "o_attempt", "o_send", "g_lock",
          "g_reread", "g_provider", "g_account", "g_conflict", "g_attempt",
          "g_guess", "g_commit", "x_lock", "x_reread", "x_issue", "x_save",
          "cas", "release", "deliver"}

Codes == 0..MaxCodes   \* 0 is no code: a null otp, or a guess never sent

Request == [pc: Steps, txn: Txns \cup {None}, doc: Doc, from: Statuses,
            acct: Students \cup {None}, phone: Phones \cup {None},
            attempt: Attempts \cup {None}, code: Codes, seen: Int,
            held: BOOLEAN]

Idle == [pc |-> "idle", txn |-> None, doc |-> Bare("ABSENT"),
         from |-> "ABSENT", acct |-> None, phone |-> None, attempt |-> None,
         code |-> 0, seen |-> 0, held |-> FALSE]

Account == [status: {"NONE", "ACTIVE", "DISABLED"},
            email: Emails \cup {None}, phone: Phones \cup {None}]

Row == [phone: Phones \cup {None}, code: Codes, expired: BOOLEAN,
        cooling: BOOLEAN, count: Int]

VARIABLES
  txn,       \* Redis: transaction documents
  lock,      \* Redis: exchange lock, the slot whose token it holds
  provider,  \* studentOAuthProvider, unique on (provider, providerUid)
  account,   \* student, unique on email and on phone
  otp,       \* otpAttempts
  req,       \* requests in flight
  \* history, read by no guard but the bounds
  bound,     \* the student a transaction first became READY for
  sessions,  \* students whose session was returned for the transaction
  askedBy,   \* for each code sent, the transaction that asked for it
  uses,      \* accounts created: [txn, code, student]
  guesses,   \* refused guesses while a code was the stored one
  unlinked,  \* identities a student has unlinked
  crashes

redis == <<txn, lock>>
history == <<bound, sessions, askedBy, uses, guesses, unlinked, crashes>>
vars == <<txn, lock, provider, account, otp, req, history>>

Init ==
  /\ txn = [t \in Txns |-> Bare("ABSENT")]
  /\ lock = [t \in Txns |-> None]
  /\ provider = [i \in Identities |-> None]
  /\ \E s \in SUBSET Students : \E e \in [s -> Emails], p \in [s -> Phones] :
       /\ \A a, b \in s : a # b => e[a] # e[b] /\ p[a] # p[b]
       /\ account = [a \in Students |-> IF a \in s
            THEN [status |-> "ACTIVE", email |-> e[a], phone |-> p[a]]
            ELSE [status |-> "NONE", email |-> None, phone |-> None]]
  /\ otp = [a \in Attempts |-> [phone |-> None, code |-> 0, expired |-> FALSE,
                                cooling |-> FALSE, count |-> 0]]
  /\ req = [r \in Reqs |-> Idle]
  /\ bound = [t \in Txns |-> None]
  /\ sessions = [t \in Txns |-> <<>>]
  /\ askedBy = <<>>
  /\ uses = {}
  /\ guesses = [c \in Codes |-> 0]
  /\ unlinked = {}
  /\ crashes = 0

-----------------------------------------------------------------------------
(* Requests and the Redis store *)

Go(r, q) == req' = [req EXCEPT ![r] = q]

\* An await that changes only what the request knows.
Step(r, q) == Go(r, q) /\ UNCHANGED <<redis, provider, account, otp, history>>

\* Mutant: the release is not in a finally block.
Leave_NoFinally(q) == Idle

\* A return or a throw: inside the locked region the finally block is next.
Leave(q) == IF q.held THEN [q EXCEPT !.pc = "release"] ELSE Idle

ToCas(q, doc) == [q EXCEPT !.pc = "cas", !.from = q.doc.status, !.doc = doc]

Start(t) ==
  /\ txn[t].status = "ABSENT"
  /\ txn' = [txn EXCEPT ![t] = Bare("PENDING")]
  /\ UNCHANGED <<lock, provider, account, otp, req, history>>

\* Mutant: the script checks only that the key exists.
StatusMatches_KeyExists(q) == txn[q.txn].status # "GONE"

StatusMatches(q) == txn[q.txn].status = q.from

\* Mutant: the compare-and-set is tried until it applies.
SetTransactionIfStatus_Retries(r) ==
  LET q == req[r] IN
  /\ q.pc = "cas" /\ StatusMatches(q)
  /\ txn' = [txn EXCEPT ![q.txn] = q.doc]
  /\ bound' = IF q.doc.status = "READY" THEN [bound EXCEPT ![q.txn] = q.doc.student]
              ELSE bound
  /\ Go(r, Leave(q))
  /\ UNCHANGED <<lock, provider, account, otp, sessions, askedBy, uses, guesses,
                 unlinked, crashes>>

\* The Lua compare-and-set: only the status is compared.
SetTransactionIfStatus(r) ==
  LET q == req[r]
      applies == StatusMatches(q)
  IN /\ q.pc = "cas"
     /\ txn' = IF applies THEN [txn EXCEPT ![q.txn] = q.doc] ELSE txn
     /\ bound' = IF applies /\ q.doc.status = "READY"
                 THEN [bound EXCEPT ![q.txn] = q.doc.student] ELSE bound
     /\ Go(r, Leave(q))
     /\ UNCHANGED <<lock, provider, account, otp, sessions, askedBy, uses,
                    guesses, unlinked, crashes>>

AcquireExchangeLock(r) ==
  LET q == req[r] IN
  /\ q.pc \in {"g_lock", "x_lock"}
  /\ IF lock[q.txn] = None
     THEN /\ lock' = [lock EXCEPT ![q.txn] = r]
          /\ Go(r, [q EXCEPT !.held = TRUE,
                     !.pc = IF q.pc = "g_lock" THEN "g_reread" ELSE "x_reread"])
     ELSE /\ UNCHANGED lock
          /\ Go(r, Idle)
  /\ UNCHANGED <<txn, provider, account, otp, history>>

\* finally: delete the lock when it still holds our token, then answer.
ReleaseExchangeLock(r) ==
  LET q == req[r] IN
  /\ q.pc \in {"release", "deliver"}
  /\ q.pc = "deliver" => Len(sessions[q.txn]) < MaxSessions
  /\ lock' = IF lock[q.txn] = r THEN [lock EXCEPT ![q.txn] = None] ELSE lock
  /\ sessions' = IF q.pc = "deliver"
       THEN [sessions EXCEPT ![q.txn] = Append(@, q.doc.student)] ELSE sessions
  /\ Go(r, Idle)
  /\ UNCHANGED <<txn, provider, account, otp, bound, askedBy, uses, guesses,
                 unlinked, crashes>>

-----------------------------------------------------------------------------
(* complete: the browser proves an identity *)

Complete(r, t, i) ==
  /\ req[r] = Idle
  /\ txn[t].status = "PENDING"
  /\ Step(r, [Idle EXCEPT !.pc = "c_provider", !.txn = t,
                          !.doc = [txn[t] EXCEPT !.identity = i]])

CompleteProvider(r) ==
  LET q == req[r] IN
  /\ q.pc = "c_provider"
  /\ Step(r, [q EXCEPT !.pc = "c_account", !.acct = provider[q.doc.identity]])

\* Students findFirst may return for this email or this phone.
Holders(e, p) ==
  {s \in Students : /\ account[s].status # "NONE"
                    /\ \/ e # None /\ account[s].email = e
                       \/ p # None /\ account[s].phone = p}

\* The linked student is read by id, an unlinked one by verified email.
Verdict(q) ==
  LET linked == q.acct # None
      found == IF linked THEN {q.acct}
               ELSE Holders(EmailOf[q.doc.identity], None)
  IN IF \E s \in found : account[s].status # "ACTIVE" THEN "FAILED"
     ELSE IF linked THEN "READY"
     ELSE IF found # {} THEN Link ELSE Register

CompleteAccount(r) ==
  LET q == req[r]
      s == IF Verdict(q) = "READY" THEN q.acct ELSE None
  IN /\ q.pc = "c_account"
     /\ Step(r, ToCas(q, [q.doc EXCEPT !.status = Verdict(q), !.student = s]))

\* Mutant: a transaction that became READY can still be cancelled.
Cancellable_Ready == {"PENDING", Link, Register, "READY"}

Cancellable == {"PENDING", Link, Register}

Cancel(r, t) ==
  /\ req[r] = Idle
  /\ txn[t].status \in Cancellable
  /\ Step(r, ToCas([Idle EXCEPT !.txn = t, !.doc = txn[t]],
                   [txn[t] EXCEPT !.status = "CANCELLED"]))

-----------------------------------------------------------------------------
(* linkAccount: the holder of a student access token adopts the identity *)

Ready(doc, s) == [doc EXCEPT !.status = "READY", !.student = s, !.attempt = None]

LinkAccount(r, t, s) ==
  /\ req[r] = Idle
  /\ txn[t].status \in {Link, Register}
  /\ Step(r, [Idle EXCEPT !.pc = "l_account", !.txn = t, !.doc = txn[t],
                          !.acct = s])

LinkStudent(r) ==
  LET q == req[r] IN
  /\ q.pc = "l_account"
  /\ Step(r, IF account[q.acct].status = "ACTIVE"
             THEN [q EXCEPT !.pc = "l_provider"] ELSE Idle)

\* seen = 1: the identity is already linked to this student.
LinkProvider(r) ==
  LET q == req[r]
      owner == provider[q.doc.identity]
  IN /\ q.pc = "l_provider"
     /\ Step(r, IF owner \in {None, q.acct}
                THEN [q EXCEPT !.pc = "l_commit",
                               !.seen = IF owner = None THEN 0 ELSE 1]
                ELSE Idle)

\* The insert fails when the identity got linked since the read.
Rejected(q) == q.seen = 0 /\ provider[q.doc.identity] # None

\* $transaction: insert the provider row unless it was there, update the student.
LinkCommit(r) ==
  LET q == req[r]
      i == q.doc.identity
  IN /\ q.pc = "l_commit"
     /\ provider' = IF q.seen = 0 /\ provider[i] = None
                    THEN [provider EXCEPT ![i] = q.acct] ELSE provider
     /\ Go(r, IF Rejected(q) THEN Idle ELSE ToCas(q, Ready(q.doc, q.acct)))
     /\ UNCHANGED <<redis, account, otp, history>>

-----------------------------------------------------------------------------
(* requestRegistrationOtp *)

RequestRegistrationOtp(r, t, p) ==
  /\ req[r] = Idle
  /\ txn[t].status = Register
  /\ EmailOf[txn[t].identity] # None
  /\ Step(r, [Idle EXCEPT !.pc = "o_conflict", !.txn = t, !.doc = txn[t],
                          !.phone = p])

\* findConflictingAccount; `next` is where a request without conflict goes.
Conflict(q, doc, next) ==
  LET email == EmailOf[q.doc.identity] IN
  CASE Holders(email, q.phone) # {} -> ToCas(q, doc)
    [] Holders(email, q.phone) = {} /\ {email, q.phone} \cap Privileged # {}
         -> Leave(q)
    [] OTHER -> [q EXCEPT !.pc = next]

OtpConflict(r) ==
  LET q == req[r] IN
  /\ q.pc = "o_conflict"
  /\ Step(r, Conflict(q, [q.doc EXCEPT !.status = Link], "o_attempt"))

LiveAttempts(p) == {a \in Attempts : /\ otp[a].phone = p
                                     /\ otp[a].code # 0
                                     /\ ~otp[a].expired}

\* Any live row stands for the latest one.
OtpAttempt(r) ==
  LET q == req[r] IN
  /\ q.pc = "o_attempt"
  /\ \/ /\ LiveAttempts(q.phone) = {}
        /\ Step(r, [q EXCEPT !.pc = "o_send"])
     \/ \E a \in LiveAttempts(q.phone) :
          Step(r, IF otp[a].count >= 4 \/ otp[a].cooling
                  THEN Idle ELSE [q EXCEPT !.pc = "o_send", !.attempt = a])

\* The SMS is sent and its code stored, in the row read or in a new one.
\* Out of codes or rows (the bounds), the gateway refuses.
OtpSend(r) ==
  LET q == req[r]
      new == Len(askedBy) + 1
      rows == IF q.attempt # None THEN {q.attempt}
              ELSE {a \in Attempts : otp[a].phone = None}
  IN \/ /\ q.pc = "o_send"
        /\ new \notin Codes \/ rows = {}
        /\ Step(r, Idle)
     \/ /\ q.pc = "o_send"
        /\ new \in Codes
        /\ \E a \in rows :
             /\ otp' = [otp EXCEPT ![a] =
                  [phone |-> q.phone, code |-> new, expired |-> FALSE,
                   cooling |-> TRUE,
                   count |-> IF q.attempt = None THEN 0 ELSE @.count + 1]]
             /\ Go(r, ToCas(q, [q.doc EXCEPT !.attempt = a]))
        /\ askedBy' = Append(askedBy, q.txn)
        /\ UNCHANGED <<redis, provider, account, bound, sessions, uses,
                       guesses, unlinked, crashes>>

-----------------------------------------------------------------------------
(* completeRegistration: prove the code, create the account *)

CompleteRegistration(r, t, c) ==
  /\ req[r] = Idle
  /\ txn[t].status = Register
  /\ txn[t].attempt # None
  /\ Step(r, [Idle EXCEPT !.pc = "g_lock", !.txn = t, !.code = c,
                          !.phone = otp[txn[t].attempt].phone])

RegistrationReread(r) ==
  LET q == req[r] IN
  /\ q.pc = "g_reread"
  /\ Step(r, IF txn[q.txn].status = Register
             THEN [q EXCEPT !.pc = "g_provider", !.doc = txn[q.txn]]
             ELSE Leave(q))

RegistrationProvider(r) ==
  LET q == req[r]
      owner == provider[q.doc.identity]
  IN /\ q.pc = "g_provider"
     /\ Step(r, IF owner # None
                THEN [q EXCEPT !.pc = "g_account", !.acct = owner]
                ELSE [q EXCEPT !.pc = "g_conflict"])

\* Already registered: the identity's account signs in.
RegistrationAccount(r) ==
  LET q == req[r] IN
  /\ q.pc = "g_account"
  /\ Step(r, IF account[q.acct].status = "ACTIVE"
             THEN ToCas(q, Ready(q.doc, q.acct)) ELSE Leave(q))

RegistrationConflict(r) ==
  LET q == req[r] IN
  /\ q.pc = "g_conflict"
  /\ Step(r, Conflict(q, [q.doc EXCEPT !.status = Link, !.attempt = None],
                      "g_attempt"))

RowMatches(q) == LET row == otp[q.doc.attempt] IN
  row.phone = q.phone /\ row.code # 0 /\ row.code = q.code /\ ~row.expired

RegistrationAttempt(r) ==
  LET q == req[r]
      row == otp[q.doc.attempt]
      exists == row.phone = q.phone /\ row.code # 0
  IN /\ q.pc = "g_attempt"
     /\ Step(r, CASE ~exists -> Leave(q)
                  [] RowMatches(q) -> [q EXCEPT !.pc = "g_commit"]
                  [] OTHER -> [q EXCEPT !.pc = "g_guess", !.seen = row.count])

\* Mutant: the limit is compared before the guess is added.
LastGuess_Late(seen) == seen >= 5

LastGuess(seen) == seen + 1 >= 5

Miss(row, seen) == [row EXCEPT !.count = row.count + 1, !.cooling = TRUE,
                               !.code = IF LastGuess(seen) THEN 0 ELSE row.code]

\* A refused guess counts; the fifth, by the count read before, kills the code.
RegistrationGuess(r) ==
  LET q == req[r]
      a == q.doc.attempt
  IN /\ q.pc = "g_guess"
     /\ otp' = [otp EXCEPT ![a] = Miss(otp[a], q.seen)]
     /\ guesses' = [guesses EXCEPT ![otp[a].code] = @ + 1]
     /\ Go(r, Leave(q))
     /\ UNCHANGED <<redis, provider, account, bound, sessions, askedBy, uses,
                    unlinked, crashes>>

\* Mutant: the code is checked but not cleared.
Spend_Kept(row) == [row EXCEPT !.cooling = TRUE]

Spend(row) == [row EXCEPT !.code = 0, !.cooling = TRUE]

\* Mutant: the student is created, the provider row is left for later.
Adopt_Later(i, s) == provider

Adopt(i, s) == [provider EXCEPT ![i] = s]

\* $transaction: consume the code, create student and provider row, or nothing.
RegistrationCommit(r) ==
  LET q == req[r]
      i == q.doc.identity
      a == q.doc.attempt
      free == IF RowMatches(q) /\ Holders(EmailOf[i], q.phone) = {}
                 /\ provider[i] = None
              THEN {s \in Students : account[s].status = "NONE"} ELSE {}
  IN /\ q.pc = "g_commit"
     /\ \/ /\ free = {}
           /\ Go(r, Leave(q))
           /\ UNCHANGED <<otp, account, provider, uses>>
        \/ \E s \in free :
             /\ otp' = [otp EXCEPT ![a] = Spend(otp[a])]
             /\ account' = [account EXCEPT ![s] =
                  [status |-> "ACTIVE", email |-> EmailOf[i], phone |-> q.phone]]
             /\ provider' = Adopt(i, s)
             /\ uses' = uses \cup {[txn |-> q.txn, code |-> q.code, student |-> s]}
             /\ Go(r, ToCas(q, Ready(q.doc, s)))
     /\ UNCHANGED <<redis, bound, sessions, askedBy, guesses, unlinked, crashes>>

-----------------------------------------------------------------------------
(* exchange: the desktop app trades its PKCE verifier for a session *)

Exchange(r, t) ==
  /\ req[r] = Idle
  /\ txn[t].status = "READY"
  /\ Step(r, [Idle EXCEPT !.pc = "x_lock", !.txn = t, !.doc = txn[t]])

\* Mutant: the exchange trusts what it read before taking the lock.
ExchangeReread_Skipped(r) ==
  req[r].pc = "x_reread" /\ Step(r, [req[r] EXCEPT !.pc = "x_issue"])

ExchangeReread(r) ==
  LET q == req[r] IN
  /\ q.pc = "x_reread"
  /\ Step(r, IF txn[q.txn].status = "READY"
             THEN [q EXCEPT !.pc = "x_issue", !.doc = txn[q.txn]]
             ELSE Leave(q))

\* issueDesktopSession, whose device bookkeeping is module StudentSessions.
ExchangeIssue(r) ==
  LET q == req[r] IN
  /\ q.pc = "x_issue"
  /\ Step(r, IF account[q.doc.student].status = "ACTIVE"
             THEN [q EXCEPT !.pc = "x_save"] ELSE Leave(q))

\* An unconditional SET: it recreates a key that expired meanwhile.
ExchangeSave(r) ==
  LET q == req[r] IN
  /\ q.pc = "x_save"
  /\ txn' = [txn EXCEPT ![q.txn] = Bare("CONSUMED")]
  /\ Go(r, [q EXCEPT !.pc = "deliver"])
  /\ UNCHANGED <<lock, provider, account, otp, history>>

-----------------------------------------------------------------------------
(* Environment *)

\* Any awaited call may throw; a reply lost after its effect is the effect
\* followed by this.
Fail(r) ==
  /\ req[r].pc \notin {"idle", "release"}
  /\ Step(r, Leave(req[r]))

\* The process dies, or Redis is unreachable in the finally block.
Crash(r) ==
  /\ req[r].pc # "idle"
  /\ crashes < MaxCrashes
  /\ crashes' = crashes + 1
  /\ Go(r, Idle)
  /\ UNCHANGED <<redis, provider, account, otp, bound, sessions, askedBy, uses,
                 guesses, unlinked>>

TransactionExpires(t) ==
  /\ txn[t].status \notin {"ABSENT", "GONE"}
  /\ txn' = [txn EXCEPT ![t] = Bare("GONE")]
  /\ UNCHANGED <<lock, provider, account, otp, req, history>>

Holding(r, t) == req[r].held /\ req[r].txn = t

\* Mutant: the lock is set without EX.
LockExpires_Never(t) == FALSE /\ UNCHANGED vars

LockExpires(t) ==
  /\ lock[t] # None
  /\ LockOutlivesHolder => ~Holding(lock[t], t)
  /\ lock' = [lock EXCEPT ![t] = None]
  /\ UNCHANGED <<txn, provider, account, otp, req, history>>

CodeCools(a) ==
  /\ otp[a].cooling
  /\ otp' = [otp EXCEPT ![a].cooling = FALSE]
  /\ UNCHANGED <<redis, provider, account, req, history>>

CodeExpires(a) ==
  /\ otp[a].code # 0 /\ ~otp[a].expired
  /\ otp' = [otp EXCEPT ![a].expired = TRUE, ![a].cooling = FALSE]
  /\ UNCHANGED <<redis, provider, account, req, history>>

ToggleAccount(s) ==
  /\ Churn /\ account[s].status # "NONE"
  /\ account' = [account EXCEPT ![s].status =
                   IF @ = "ACTIVE" THEN "DISABLED" ELSE "ACTIVE"]
  /\ UNCHANGED <<redis, provider, otp, req, history>>

WebSignUp(s, e, p) ==
  /\ Churn /\ account[s].status = "NONE"
  /\ Holders(e, p) = {}
  /\ account' = [account EXCEPT ![s] =
                   [status |-> "ACTIVE", email |-> e, phone |-> p]]
  /\ UNCHANGED <<redis, provider, otp, req, history>>

WebLink(s, i) ==
  /\ Churn /\ account[s].status # "NONE" /\ provider[i] = None
  /\ provider' = [provider EXCEPT ![i] = s]
  /\ UNCHANGED <<redis, account, otp, req, history>>

WebUnlink(i) ==
  /\ Churn /\ provider[i] # None
  /\ provider' = [provider EXCEPT ![i] = None]
  /\ unlinked' = unlinked \cup {i}
  /\ UNCHANGED <<redis, account, otp, req, bound, sessions, askedBy, uses,
                 guesses, crashes>>

-----------------------------------------------------------------------------
Arrive(r) ==
  \E t \in Txns :
    \/ "complete" \in Endpoints /\ \E i \in Identities : Complete(r, t, i)
    \/ "cancel" \in Endpoints /\ Cancel(r, t)
    \/ "link" \in Endpoints /\ \E s \in Students : LinkAccount(r, t, s)
    \/ "otp" \in Endpoints /\ \E p \in Phones : RequestRegistrationOtp(r, t, p)
    \/ /\ "register" \in Endpoints
       /\ \E c \in 0..Len(askedBy) : CompleteRegistration(r, t, c)
    \/ "exchange" \in Endpoints /\ Exchange(r, t)

Continue(r) ==
  \/ CompleteProvider(r) \/ CompleteAccount(r)
  \/ LinkStudent(r) \/ LinkProvider(r) \/ LinkCommit(r)
  \/ OtpConflict(r) \/ OtpAttempt(r) \/ OtpSend(r)
  \/ RegistrationReread(r) \/ RegistrationProvider(r) \/ RegistrationAccount(r)
  \/ RegistrationConflict(r) \/ RegistrationAttempt(r) \/ RegistrationGuess(r)
  \/ RegistrationCommit(r)
  \/ ExchangeReread(r) \/ ExchangeIssue(r) \/ ExchangeSave(r)
  \/ SetTransactionIfStatus(r) \/ AcquireExchangeLock(r)
  \/ ReleaseExchangeLock(r)

Environment ==
  \/ \E r \in Reqs : Fail(r) \/ Crash(r)
  \/ \E t \in Txns : TransactionExpires(t) \/ LockExpires(t)
  \/ \E a \in Attempts : CodeCools(a) \/ CodeExpires(a)
  \/ \E s \in Students :
       \/ ToggleAccount(s)
       \/ \E e \in Emails, p \in Phones : WebSignUp(s, e, p)
       \/ \E i \in Identities : WebLink(s, i)
  \/ \E i \in Identities : WebUnlink(i)

Next ==
  \/ \E t \in Txns : Start(t)
  \/ \E r \in Reqs : Arrive(r) \/ Continue(r)
  \/ Environment

Spec == Init /\ [][Next]_vars

\* Node keeps running a request it has accepted; Redis ends a lock's TTL.
Fairness == /\ \A r \in Reqs : WF_vars(Continue(r))
            /\ \A t \in Txns : WF_vars(LockExpires(t))

FairSpec == Spec /\ Fairness

-----------------------------------------------------------------------------
(* Properties *)

TypeOK ==
  /\ txn \in [Txns -> Doc]
  /\ lock \in [Txns -> Reqs \cup {None}]
  /\ provider \in [Identities -> Students \cup {None}]
  /\ account \in [Students -> Account]
  /\ otp \in [Attempts -> Row]
  /\ req \in [Reqs -> Request]
  /\ bound \in [Txns -> Students \cup {None}]
  /\ sessions \in [Txns -> Seq(Students)]
  /\ askedBy \in Seq(Txns) /\ Len(askedBy) <= MaxCodes
  /\ uses \subseteq [txn: Txns, code: Codes, student: Students]
  /\ guesses \in [Codes -> Int]
  /\ unlinked \in SUBSET Identities
  /\ crashes \in Nat

\* README.md:91 "The exchange is single-use": whatever the crashes, retries
\* and expiries, a transaction yields one session at most, for its account.
ExchangeSingleUse ==
  \A t \in Txns : /\ Len(sessions[t]) <= 1
                  /\ \A k \in DOMAIN sessions[t] : sessions[t][k] = bound[t]

\* A transaction is READY only for the account its verified identity is linked
\* to, unless a student has unlinked that identity.
ReadyMeansLinked ==
  \A t \in Txns : txn[t].status = "READY" =>
    /\ txn[t].student # None
    /\ \/ provider[txn[t].identity] = txn[t].student
       \/ txn[t].identity \in unlinked

\* A registration that committed is not lost with its request: until the
\* student unlinks it, a retry on the transaction finds the account.  And its
\* code, by README.md:215 "consumed atomically", is stored nowhere any more,
\* even when the lock fails to serialise.
RegistrationKept ==
  \A u \in uses : LET i == txn[u.txn].identity IN
    /\ txn[u.txn].status \in {Link, Register} /\ i \notin unlinked
         => provider[i] = u.student
    /\ \A a \in Attempts : otp[a].code # u.code

\* README.md:214 "Registration OTPs are bound to the transaction": the account
\* was opened by the transaction its code was sent for.
OtpBoundToTransaction ==
  \A u \in uses : askedBy[u.code] = u.txn

\* With one transaction per phone, five wrong guesses end a code: guesses are
\* serialised by the lock although the count is read before it is written.
GuessesBounded == \A c \in Codes \ {0} : guesses[c] <= 5

\* Without crashes no finished request leaves the lock behind: every path out
\* of the locked region passes the finally block.
NoAbandonedLock == crashes = 0 =>
  \A t \in Txns : lock[t] # None => Holding(lock[t], t)

\* Once READY, a transaction is never rebound, cancelled, failed or sent back:
\* requests that read it earlier lose the compare-and-set.
ReadyIsFinal ==
  [][\A t \in Txns : txn[t].status = "READY" =>
       txn'[t] = txn[t] \/ txn'[t].status \in {"CONSUMED", "GONE"}]_vars

\* Every accepted request answers, and a lock is given back or expires, even when
\* its holder died.
RequestsEnd ==
  \A r \in Reqs : /\ req[r].pc # "idle" ~> req[r].pc = "idle"
                  /\ \A t \in Txns : lock[t] = r ~> lock[t] # r

\* The transaction implements LoginOnce.
Login == INSTANCE LoginOnce WITH phase <- [t \in Txns |-> txn[t].status],
                                 account <- bound

LoginSpec == Login!Spec
=============================================================================
