------------------------- MODULE DesktopAuthProofs -------------------------
(***************************************************************************)
(* For every number of requests, transactions and accounts: the desktop    *)
(* sign-in is well typed, a READY transaction is final and only for the    *)
(* account its identity is linked to, a registration is kept, and without  *)
(* crashes locks are given back.  As long as the exchange lock outlives    *)
(* its holder, a transaction yields one session and a code takes five      *)
(* guesses.                                                                *)
(***************************************************************************)
EXTENDS DesktopAuth, TLAPS

\* The inductive invariant.  Each conjunct of ReqOK says what a request knows
\* at a step, whatever the others did since.

LinkSteps == {"l_account", "l_provider", "l_commit"}
OtpSteps == {"o_conflict", "o_attempt", "o_send"}
RegSteps == {"g_provider", "g_account", "g_conflict", "g_attempt", "g_guess",
             "g_commit"}
FreeSteps == LinkSteps \cup OtpSteps
               \cup {"idle", "c_provider", "c_account", "g_lock", "x_lock"}
HeldSteps == RegSteps \cup {"g_reread", "x_reread", "x_issue", "x_save",
                            "release", "deliver"}

\* The status changes a request may write.
Edges == ({"PENDING"} \X {"FAILED", "READY", Link, Register, "CANCELLED"})
           \cup ({Link} \X {"READY", "CANCELLED"})
           \cup ({Register} \X {"READY", Link, Register, "CANCELLED"})

\* What the request has read.
Knows(q) ==
  /\ q.pc = "idle" <=> q.txn = None
  /\ q.pc \in {"c_provider", "c_account"} =>
       q.doc.identity # None /\ q.doc.status = "PENDING"
  /\ q.pc \in LinkSteps => q.doc.status \in {Link, Register} /\ q.acct # None
  /\ q.pc \in OtpSteps => q.doc.status = Register
  /\ q.pc \in RegSteps => q.doc.status = Register /\ q.doc.attempt # None
  /\ q.pc = "g_account" => q.acct # None
  /\ q.pc \in {"x_issue", "x_save", "deliver"} => q.doc.status = "READY"
  /\ q.pc = "cas" => /\ <<q.from, q.doc.status>> \in Edges
                     /\ q.from # "PENDING" /\ q.doc.status = Register
                          => q.doc.attempt # None

\* The locked region is where `held` is set, but for the shared cas step.
HeldOK(q) == /\ q.pc \in FreeSteps => ~q.held
             /\ q.pc \in HeldSteps => q.held

ReqOK(q) == q \in Request /\ Knows(q) /\ HeldOK(q)

\* A transaction that recorded an attempt keeps one while it asks to register.
KeepsAttempt(q) ==
  q.pc \in {"g_lock", "g_reread"} =>
    /\ txn[q.txn].status \notin {"ABSENT", "PENDING"}
    /\ txn[q.txn].status = Register => txn[q.txn].attempt # None

TypeInv == /\ TypeOK
           /\ \A r \in Reqs : ReqOK(req[r]) /\ KeepsAttempt(req[r])

LockInv == \A r \in Reqs : req[r].held => lock[req[r].txn] = r

Unbound == {"ABSENT", "PENDING", Link, Register, "FAILED", "CANCELLED"}

BoundInv ==
  \A t \in Txns :
    /\ txn[t].status \in Unbound => bound[t] = None
    /\ txn[t].status = "READY" => bound[t] = txn[t].student
    /\ \/ sessions[t] = <<>>
       \/ sessions[t] = <<bound[t]>> /\ txn[t].status \in {"CONSUMED", "GONE"}

ExchangeInv ==
  \A r \in Reqs : LET q == req[r] IN
    /\ q.pc \in {"x_issue", "x_save", "deliver"} =>
         q.doc.student = bound[q.txn] /\ sessions[q.txn] = <<>>
    /\ q.pc \in {"x_issue", "x_save"} => txn[q.txn].status \in {"READY", "GONE"}
    /\ q.pc = "deliver" => txn[q.txn].status \in {"CONSUMED", "GONE"}

IInv == TypeInv /\ LockInv /\ BoundInv /\ ExchangeInv

-----------------------------------------------------------------------------
(* The records the actions build *)

LEMMA BareIsDoc ==
  ASSUME NEW s \in {"ABSENT", "GONE", "PENDING", "CANCELLED", "CONSUMED"}
  PROVE  Bare(s) \in Doc
BY DEF Bare, Doc, Statuses, Link, Register

LEMMA IdleOK == ReqOK(Idle) /\ Idle.pc = "idle"
<1>1. Idle.doc \in Doc
  BY BareIsDoc DEF Idle
<1>2. Idle \in Request
  BY <1>1, DesktopAuthAssumption DEF Idle, Request, Steps, Statuses, Codes
<1> QED
  BY <1>2 DEF ReqOK, Knows, HeldOK, Idle, FreeSteps, HeldSteps, LinkSteps,
              OtpSteps, RegSteps

LEMMA LeaveOK ==
  ASSUME NEW q, ReqOK(q)
  PROVE  ReqOK(Leave(q)) /\ Leave(q).pc \in {"idle", "release"}
<1>1. CASE q.held
  <2>1. q.pc # "idle" /\ q.txn # None
    BY <1>1 DEF ReqOK, Knows, HeldOK, FreeSteps
  <2>2. Leave(q) = [q EXCEPT !.pc = "release"]
    BY <1>1 DEF Leave
  <2>3. Leave(q) \in Request
    BY <2>2 DEF ReqOK, Request, Steps
  <2> QED
    BY <1>1, <2>1, <2>2, <2>3
    DEF ReqOK, Request, Knows, HeldOK, FreeSteps, HeldSteps, LinkSteps,
        OtpSteps, RegSteps
<1>2. CASE ~q.held
  BY <1>2, IdleOK DEF Leave
<1> QED
  BY <1>1, <1>2

LEMMA ToCasOK ==
  ASSUME NEW q, NEW doc \in Doc, q \in Request, q.txn # None,
         <<q.doc.status, doc.status>> \in Edges,
         q.doc.status # "PENDING" /\ doc.status = Register
           => doc.attempt # None
  PROVE  ReqOK(ToCas(q, doc)) /\ ToCas(q, doc).pc = "cas"
<1>1. q.doc.status \in Statuses
  BY DEF Request, Doc
<1>2. ToCas(q, doc) \in Request
  BY <1>1 DEF ToCas, Request, Steps
<1> QED
  BY <1>2 DEF ToCas, ReqOK, Request, Knows, HeldOK, FreeSteps, HeldSteps,
              LinkSteps, OtpSteps, RegSteps

-----------------------------------------------------------------------------
(* Actions that change one request only *)

\* What such an action makes of request r.
StepOK(r, q) ==
  /\ ReqOK(q) /\ KeepsAttempt(q)
  /\ q.held => req[r].held /\ q.txn = req[r].txn
  /\ q.pc # "deliver"
  /\ q.pc \in {"x_issue", "x_save"} =>
       \/ req[r].pc = "x_issue" /\ q.doc = req[r].doc /\ q.txn = req[r].txn
       \/ txn[q.txn].status = "READY" /\ q.doc = txn[q.txn]

LEMMA TypeFacts ==
  ASSUME TypeInv, NEW r \in Reqs
  PROVE  /\ req[r] \in Request /\ ReqOK(req[r]) /\ KeepsAttempt(req[r])
         /\ \A t \in Txns : txn[t] \in Doc
         /\ \A i \in Identities : provider[i] \in Students \cup {None}
         /\ \A a \in Attempts : otp[a] \in Row
         /\ req[r].pc # "idle" => req[r].txn \in Txns
BY DEF TypeInv, TypeOK, ReqOK, Knows, Request

LEMMA LeaveStepOK ==
  ASSUME TypeInv, NEW r \in Reqs
  PROVE  StepOK(r, Leave(req[r])) /\ StepOK(r, Idle)
<1>1. ReqOK(Leave(req[r])) /\ Leave(req[r]).pc \in {"idle", "release"}
  BY TypeFacts, LeaveOK
<1>2. Leave(req[r]).held =>
        req[r].held /\ Leave(req[r]).txn = req[r].txn
  BY TypeFacts DEF Leave, Idle, Request
<1> QED
  BY <1>1, <1>2, IdleOK DEF StepOK, KeepsAttempt, Idle

\* Requests that go on without leaving: they keep their transaction and lock.
LEMMA GoOnStepOK ==
  ASSUME TypeInv, NEW r \in Reqs, NEW q, ReqOK(q),
         q.held = req[r].held, q.txn = req[r].txn,
         q.pc \notin {"deliver", "x_issue", "x_save", "g_lock", "g_reread"}
  PROVE  StepOK(r, q)
BY DEF StepOK, KeepsAttempt

LEMMA ToCasStepOK ==
  ASSUME TypeInv, NEW r \in Reqs, NEW doc \in Doc, req[r].pc # "idle",
         <<req[r].doc.status, doc.status>> \in Edges,
         req[r].doc.status # "PENDING" /\ doc.status = Register
           => doc.attempt # None
  PROVE  StepOK(r, ToCas(req[r], doc))
<1>1. req[r] \in Request /\ req[r].txn # None
  BY TypeFacts DEF ReqOK, Knows
<1>2. ReqOK(ToCas(req[r], doc)) /\ ToCas(req[r], doc).pc = "cas"
  BY <1>1, ToCasOK
<1>3. /\ ToCas(req[r], doc).held = req[r].held
      /\ ToCas(req[r], doc).txn = req[r].txn
  BY <1>1 DEF ToCas, Request
<1> QED
  BY <1>2, <1>3, GoOnStepOK

LEMMA CompleteStep ==
  ASSUME TypeInv, NEW r \in Reqs, NEW t \in Txns, NEW i \in Identities,
         Complete(r, t, i)
  PROVE  \E q : StepOK(r, q) /\ Step(r, q)
<1> DEFINE doc == [txn[t] EXCEPT !.identity = i]
           q == [Idle EXCEPT !.pc = "c_provider", !.txn = t, !.doc = doc]
<1>1. doc \in Doc /\ doc.identity # None /\ doc.status = "PENDING"
  BY TypeFacts, DesktopAuthAssumption DEF Complete, Doc, Link, Register
<1>2. q \in Request /\ q.pc = "c_provider" /\ q.txn # None /\ ~q.held
      /\ q.doc = doc
  BY <1>1, IdleOK, DesktopAuthAssumption DEF ReqOK, Request, Idle, Steps
<1>3. ReqOK(q)
  BY <1>1, <1>2 DEF ReqOK, Knows, HeldOK, FreeSteps, HeldSteps, LinkSteps,
                    OtpSteps, RegSteps
<1>4. StepOK(r, q)
  BY <1>2, <1>3 DEF StepOK, KeepsAttempt
<1> QED
  BY <1>4 DEF Complete

LEMMA CompleteProviderStep ==
  ASSUME TypeInv, NEW r \in Reqs, CompleteProvider(r)
  PROVE  \E q : StepOK(r, q) /\ Step(r, q)
<1> DEFINE q == [req[r] EXCEPT !.pc = "c_account",
                               !.acct = provider[req[r].doc.identity]]
<1>1. req[r].doc.identity \in Identities
  BY TypeFacts DEF CompleteProvider, ReqOK, Knows, Request, Doc
<1>2. q \in Request
  <2>1. /\ provider[req[r].doc.identity] \in Students \cup {None}
        /\ req[r] \in Request
    BY <1>1, TypeFacts
  <2> QED
    BY <2>1 DEF Request, Steps
<1>3. ReqOK(q) /\ q.held = req[r].held /\ q.txn = req[r].txn
      /\ q.pc = "c_account"
  BY <1>2, TypeFacts
  DEF CompleteProvider, ReqOK, Request, Knows, HeldOK, FreeSteps, HeldSteps,
      LinkSteps, OtpSteps, RegSteps
<1> QED
  BY <1>3, GoOnStepOK DEF CompleteProvider

LEMMA CompleteAccountStep ==
  ASSUME TypeInv, NEW r \in Reqs, CompleteAccount(r)
  PROVE  \E q : StepOK(r, q) /\ Step(r, q)
<1> DEFINE status == Verdict(req[r])
           s == IF status = "READY" THEN req[r].acct ELSE None
           doc == [req[r].doc EXCEPT !.status = status, !.student = s]
<1>1. /\ status \in {"FAILED", "READY", Link, Register}
      /\ status = "READY" => req[r].acct # None
  BY DEF Verdict, Link, Register
<1>2. /\ req[r].doc \in Doc /\ req[r].doc.identity # None
      /\ req[r].doc.status = "PENDING"
      /\ req[r].acct \in Students \cup {None}
  BY TypeFacts DEF CompleteAccount, ReqOK, Knows, Request
<1> HIDE DEF status
<1>3. doc \in Doc /\ doc.status = status
  BY <1>1, <1>2 DEF Doc, Statuses, Link, Register
<1>4. <<req[r].doc.status, doc.status>> \in Edges
  BY <1>1, <1>2, <1>3 DEF Edges
<1> HIDE DEF doc
<1>5. StepOK(r, ToCas(req[r], doc))
  BY <1>2, <1>3, <1>4, ToCasStepOK DEF CompleteAccount
<1> QED
  BY <1>5 DEF CompleteAccount, status, doc

LEMMA CancelStep ==
  ASSUME TypeInv, NEW r \in Reqs, NEW t \in Txns, Cancel(r, t)
  PROVE  \E q : StepOK(r, q) /\ Step(r, q)
<1> DEFINE p == [Idle EXCEPT !.txn = t, !.doc = txn[t]]
           doc == [txn[t] EXCEPT !.status = "CANCELLED"]
<1>1. doc \in Doc /\ doc.status = "CANCELLED" /\ txn[t] \in Doc
  BY TypeFacts DEF Doc, Statuses, Link, Register
<1>2. p \in Request /\ p.txn # None /\ p.doc = txn[t] /\ ~p.held
  BY <1>1, IdleOK, DesktopAuthAssumption DEF ReqOK, Request, Idle
<1>3. <<p.doc.status, doc.status>> \in Edges /\ doc.status # Register
  BY <1>1, <1>2 DEF Cancel, Cancellable, Edges, Register
<1>4. ReqOK(ToCas(p, doc)) /\ ToCas(p, doc).pc = "cas"
  BY <1>1, <1>2, <1>3, ToCasOK
<1>5. ~ToCas(p, doc).held
  BY <1>2 DEF ToCas, Request
<1>6. StepOK(r, ToCas(p, doc))
  BY <1>4, <1>5 DEF StepOK, KeepsAttempt
<1> QED
  BY <1>6 DEF Cancel

\* Requests that begin by reading the transaction and know nothing else.
LEMMA ArrivalOK ==
  ASSUME TypeInv, NEW r \in Reqs, NEW q \in Request,
         q.pc \in {"l_account", "o_conflict", "g_lock", "x_lock"},
         q.txn \in Txns, ~q.held,
         q.pc = "l_account" => q.doc.status \in {Link, Register} /\ q.acct # None,
         q.pc = "o_conflict" => q.doc.status = Register,
         q.pc = "g_lock" => txn[q.txn].status = Register
                              /\ txn[q.txn].attempt # None
  PROVE  StepOK(r, q)
<1>1. q.txn # None
  BY DesktopAuthAssumption
<1>2. ReqOK(q)
  BY <1>1 DEF ReqOK, Knows, HeldOK, FreeSteps, HeldSteps, LinkSteps, OtpSteps,
              RegSteps
<1> QED
  BY <1>2 DEF StepOK, KeepsAttempt, Register

LEMMA LinkAccountStep ==
  ASSUME TypeInv, NEW r \in Reqs, NEW t \in Txns, NEW s \in Students,
         LinkAccount(r, t, s)
  PROVE  \E q : StepOK(r, q) /\ Step(r, q)
<1> DEFINE q == [Idle EXCEPT !.pc = "l_account", !.txn = t, !.doc = txn[t],
                             !.acct = s]
<1>1. /\ q \in Request /\ q.pc = "l_account" /\ q.txn = t /\ ~q.held
      /\ q.doc = txn[t] /\ q.acct # None
  BY TypeFacts, IdleOK, DesktopAuthAssumption
  DEF ReqOK, Request, Idle, Steps
<1>2. StepOK(r, q)
  BY <1>1, ArrivalOK DEF LinkAccount
<1> QED
  BY <1>2 DEF LinkAccount

LEMMA LinkStudentStep ==
  ASSUME TypeInv, NEW r \in Reqs, LinkStudent(r)
  PROVE  \E q : StepOK(r, q) /\ Step(r, q)
<1> DEFINE q == [req[r] EXCEPT !.pc = "l_provider"]
<1>1. q \in Request
  BY TypeFacts DEF Request, Steps
<1>2. ReqOK(q) /\ q.held = req[r].held /\ q.txn = req[r].txn
      /\ q.pc = "l_provider"
  BY <1>1, TypeFacts
  DEF LinkStudent, ReqOK, Request, Knows, HeldOK, FreeSteps, HeldSteps,
      LinkSteps, OtpSteps, RegSteps
<1> QED
  BY <1>2, GoOnStepOK, LeaveStepOK DEF LinkStudent

LEMMA LinkProviderStep ==
  ASSUME TypeInv, NEW r \in Reqs, LinkProvider(r)
  PROVE  \E q : StepOK(r, q) /\ Step(r, q)
<1>1. SUFFICES ASSUME NEW n \in {0, 1}
               PROVE  StepOK(r, [req[r] EXCEPT !.pc = "l_commit", !.seen = n])
  BY LeaveStepOK DEF LinkProvider
<1> DEFINE q == [req[r] EXCEPT !.pc = "l_commit", !.seen = n]
<1>2. q \in Request
  <2>1. n \in Int /\ req[r] \in Request
    BY TypeFacts
  <2> QED
    BY <2>1 DEF Request, Steps
<1>3. ReqOK(q) /\ q.held = req[r].held /\ q.txn = req[r].txn
      /\ q.pc = "l_commit"
  BY <1>2, TypeFacts
  DEF LinkProvider, ReqOK, Request, Knows, HeldOK, FreeSteps, HeldSteps,
      LinkSteps, OtpSteps, RegSteps
<1> QED
  BY <1>3, GoOnStepOK

LEMMA RequestOtpStep ==
  ASSUME TypeInv, NEW r \in Reqs, NEW t \in Txns, NEW p \in Phones,
         RequestRegistrationOtp(r, t, p)
  PROVE  \E q : StepOK(r, q) /\ Step(r, q)
<1> DEFINE q == [Idle EXCEPT !.pc = "o_conflict", !.txn = t, !.doc = txn[t],
                             !.phone = p]
<1>1. /\ q \in Request /\ q.pc = "o_conflict" /\ q.txn = t /\ ~q.held
      /\ q.doc = txn[t]
  BY TypeFacts, IdleOK, DesktopAuthAssumption
  DEF ReqOK, Request, Idle, Steps
<1>2. StepOK(r, q)
  BY <1>1, ArrivalOK DEF RequestRegistrationOtp
<1> QED
  BY <1>2 DEF RequestRegistrationOtp

\* Both handlers that call findConflictingAccount.
LEMMA ConflictOK ==
  ASSUME TypeInv, NEW r \in Reqs, NEW doc \in Doc, NEW next,
         req[r].doc.status = Register, doc.status = Link,
         \/ req[r].pc = "o_conflict" /\ next = "o_attempt"
         \/ req[r].pc = "g_conflict" /\ next = "g_attempt"
  PROVE  StepOK(r, Conflict(req[r], doc, next))
<1>1. StepOK(r, ToCas(req[r], doc))
  <2>1. <<req[r].doc.status, doc.status>> \in Edges /\ doc.status # Register
    BY DEF Edges, Link, Register
  <2> QED
    BY <2>1, ToCasStepOK
<1>2. StepOK(r, Leave(req[r]))
  BY LeaveStepOK
<1>3. StepOK(r, [req[r] EXCEPT !.pc = next])
  <2> DEFINE q == [req[r] EXCEPT !.pc = next]
  <2>1. q \in Request
    BY TypeFacts DEF Request, Steps
  <2>2. ReqOK(q) /\ q.held = req[r].held /\ q.txn = req[r].txn /\ q.pc = next
    BY <2>1, TypeFacts
    DEF ReqOK, Request, Knows, HeldOK, FreeSteps, HeldSteps, LinkSteps,
        OtpSteps, RegSteps
  <2> QED
    BY <2>2, GoOnStepOK
<1> QED
  BY <1>1, <1>2, <1>3 DEF Conflict

LEMMA ConflictStep ==
  ASSUME TypeInv, NEW r \in Reqs, OtpConflict(r) \/ RegistrationConflict(r)
  PROVE  \E q : StepOK(r, q) /\ Step(r, q)
<1>1. req[r].doc \in Doc /\ req[r].doc.status = Register
  BY TypeFacts DEF OtpConflict, RegistrationConflict, ReqOK, Request, Knows,
                   OtpSteps, RegSteps
<1>2. CASE OtpConflict(r)
  <2> DEFINE doc == [req[r].doc EXCEPT !.status = Link]
  <2>1. doc \in Doc /\ doc.status = Link
    BY <1>1 DEF Doc, Statuses, Link, Register
  <2> QED
    BY <1>1, <1>2, <2>1, ConflictOK DEF OtpConflict
<1>3. CASE RegistrationConflict(r)
  <2> DEFINE doc == [req[r].doc EXCEPT !.status = Link, !.attempt = None]
  <2>1. doc \in Doc /\ doc.status = Link
    BY <1>1 DEF Doc, Statuses, Link, Register
  <2> QED
    BY <1>1, <1>3, <2>1, ConflictOK DEF RegistrationConflict
<1> QED
  BY <1>2, <1>3

LEMMA OtpAttemptStep ==
  ASSUME TypeInv, NEW r \in Reqs, OtpAttempt(r)
  PROVE  \E q : StepOK(r, q) /\ Step(r, q)
<1>1. SUFFICES ASSUME NEW a \in Attempts \cup {req[r].attempt}
               PROVE  StepOK(r, [req[r] EXCEPT !.pc = "o_send", !.attempt = a])
  <2>1. [req[r] EXCEPT !.pc = "o_send"]
          = [req[r] EXCEPT !.pc = "o_send", !.attempt = req[r].attempt]
    BY TypeFacts DEF Request
  <2> QED
    BY <1>1, <2>1, LeaveStepOK DEF OtpAttempt, LiveAttempts
<1> DEFINE q == [req[r] EXCEPT !.pc = "o_send", !.attempt = a]
<1>2. q \in Request
  <2>1. a \in Attempts \cup {None} /\ req[r] \in Request
    BY TypeFacts DEF Request
  <2> QED
    BY <2>1 DEF Request, Steps
<1>3. ReqOK(q) /\ q.held = req[r].held /\ q.txn = req[r].txn
      /\ q.pc = "o_send"
  BY <1>2, TypeFacts
  DEF OtpAttempt, ReqOK, Request, Knows, HeldOK, FreeSteps, HeldSteps,
      LinkSteps, OtpSteps, RegSteps
<1> QED
  BY <1>3, GoOnStepOK

LEMMA CompleteRegistrationStep ==
  ASSUME TypeInv, NEW r \in Reqs, NEW t \in Txns, NEW c \in Codes,
         CompleteRegistration(r, t, c)
  PROVE  \E q : StepOK(r, q) /\ Step(r, q)
<1> DEFINE q == [Idle EXCEPT !.pc = "g_lock", !.txn = t, !.code = c,
                             !.phone = otp[txn[t].attempt].phone]
<1>1. otp[txn[t].attempt].phone \in Phones \cup {None}
  BY TypeFacts DEF CompleteRegistration, Doc, Row
<1>2. q \in Request /\ q.pc = "g_lock" /\ q.txn = t /\ ~q.held
  BY <1>1, IdleOK DEF ReqOK, Request, Idle, Steps
<1>3. StepOK(r, q)
  BY <1>2, ArrivalOK DEF CompleteRegistration
<1> QED
  BY <1>3 DEF CompleteRegistration

\* A held request that read the transaction again under the lock.
LEMMA RereadOK ==
  ASSUME TypeInv, NEW r \in Reqs, NEW next,
         \/ req[r].pc = "g_reread" /\ next = "g_provider"
              /\ txn[req[r].txn].status = Register
         \/ req[r].pc = "x_reread" /\ next = "x_issue"
              /\ txn[req[r].txn].status = "READY"
  PROVE  StepOK(r, [req[r] EXCEPT !.pc = next, !.doc = txn[req[r].txn]])
<1> DEFINE q == [req[r] EXCEPT !.pc = next, !.doc = txn[req[r].txn]]
<1>1. req[r] \in Request /\ req[r].held /\ req[r].txn \in Txns
  BY TypeFacts DEF ReqOK, HeldOK, HeldSteps
<1>2. txn[req[r].txn] \in Doc
  BY <1>1, TypeFacts
<1>3. q \in Request /\ q.pc = next /\ q.held /\ q.txn = req[r].txn
      /\ q.doc = txn[req[r].txn]
  BY <1>1, <1>2 DEF Request, Steps
<1>4. next = "g_provider" => q.doc.status = Register /\ q.doc.attempt # None
  BY <1>3, TypeFacts DEF KeepsAttempt
<1>5. ReqOK(q)
  BY <1>1, <1>3, <1>4, DesktopAuthAssumption
  DEF ReqOK, Knows, HeldOK, FreeSteps, HeldSteps, LinkSteps, OtpSteps, RegSteps
<1> QED
  BY <1>1, <1>3, <1>5 DEF StepOK, KeepsAttempt

LEMMA RereadStep ==
  ASSUME TypeInv, NEW r \in Reqs, RegistrationReread(r) \/ ExchangeReread(r)
  PROVE  \E q : StepOK(r, q) /\ Step(r, q)
BY RereadOK, LeaveStepOK DEF RegistrationReread, ExchangeReread

LEMMA RegistrationProviderStep ==
  ASSUME TypeInv, NEW r \in Reqs, RegistrationProvider(r)
  PROVE  \E q : StepOK(r, q) /\ Step(r, q)
<1> DEFINE owner == provider[req[r].doc.identity]
           p == [req[r] EXCEPT !.pc = "g_account", !.acct = owner]
           q == [req[r] EXCEPT !.pc = "g_conflict"]
<1>1. req[r] \in Request /\ req[r].doc.identity \in Identities
  BY TypeFacts DEF RegistrationProvider, ReqOK, Knows, Request, Doc, RegSteps,
                   Register, Link
<1>2. owner \in Students \cup {None}
  BY <1>1, TypeFacts
<1>3. p \in Request /\ q \in Request
  BY <1>1, <1>2 DEF Request, Steps
<1>4. ReqOK(q) /\ q.held = req[r].held /\ q.txn = req[r].txn
      /\ q.pc = "g_conflict"
  BY <1>1, <1>3, TypeFacts
  DEF RegistrationProvider, ReqOK, Request, Knows, HeldOK, FreeSteps, HeldSteps,
      LinkSteps, OtpSteps, RegSteps
<1>5. ASSUME owner # None
      PROVE  ReqOK(p) /\ p.held = req[r].held /\ p.txn = req[r].txn
               /\ p.pc = "g_account"
  BY <1>1, <1>3, <1>5, TypeFacts
  DEF RegistrationProvider, ReqOK, Request, Knows, HeldOK, FreeSteps, HeldSteps,
      LinkSteps, OtpSteps, RegSteps
<1> QED
  BY <1>4, <1>5, GoOnStepOK DEF RegistrationProvider

LEMMA ReadyOK ==
  ASSUME NEW doc \in Doc, NEW s \in Students, doc.status \in {Link, Register}
  PROVE  /\ Ready(doc, s) \in Doc /\ Ready(doc, s).status = "READY"
         /\ <<doc.status, Ready(doc, s).status>> \in Edges
<1>1. Ready(doc, s) \in Doc /\ Ready(doc, s).status = "READY"
  BY DesktopAuthAssumption DEF Ready, Doc, Statuses, Link, Register
<1> QED
  BY <1>1 DEF Edges

LEMMA RegistrationAccountStep ==
  ASSUME TypeInv, NEW r \in Reqs, RegistrationAccount(r)
  PROVE  \E q : StepOK(r, q) /\ Step(r, q)
<1>1. /\ req[r].doc \in Doc /\ req[r].doc.status = Register
      /\ req[r].acct \in Students
  BY TypeFacts DEF RegistrationAccount, ReqOK, Request, Knows, RegSteps
<1>2. StepOK(r, ToCas(req[r], Ready(req[r].doc, req[r].acct)))
  BY <1>1, ReadyOK, ToCasStepOK DEF RegistrationAccount, Register
<1> QED
  BY <1>2, LeaveStepOK DEF RegistrationAccount

LEMMA RegistrationAttemptStep ==
  ASSUME TypeInv, NEW r \in Reqs, RegistrationAttempt(r)
  PROVE  \E q : StepOK(r, q) /\ Step(r, q)
<1> DEFINE row == otp[req[r].doc.attempt]
           p == [req[r] EXCEPT !.pc = "g_commit"]
           q == [req[r] EXCEPT !.pc = "g_guess", !.seen = row.count]
<1>1. req[r] \in Request /\ req[r].doc.attempt \in Attempts
  BY TypeFacts DEF RegistrationAttempt, ReqOK, Knows, Request, Doc, RegSteps
<1>2. row.count \in Int
  BY <1>1, TypeFacts DEF Row
<1>3. p \in Request /\ q \in Request
  BY <1>1, <1>2 DEF Request, Steps
<1>4. ReqOK(p) /\ p.held = req[r].held /\ p.txn = req[r].txn
      /\ p.pc = "g_commit"
  BY <1>1, <1>3, TypeFacts
  DEF RegistrationAttempt, ReqOK, Request, Knows, HeldOK, FreeSteps, HeldSteps,
      LinkSteps, OtpSteps, RegSteps
<1>5. ReqOK(q) /\ q.held = req[r].held /\ q.txn = req[r].txn
      /\ q.pc = "g_guess"
  BY <1>1, <1>3, TypeFacts
  DEF RegistrationAttempt, ReqOK, Request, Knows, HeldOK, FreeSteps, HeldSteps,
      LinkSteps, OtpSteps, RegSteps
<1>6. StepOK(r, p) /\ StepOK(r, q)
  BY <1>4, <1>5, GoOnStepOK
<1> HIDE DEF p, q
<1> QED
  BY <1>6, LeaveStepOK DEF RegistrationAttempt, p, q

LEMMA ExchangeStep ==
  ASSUME TypeInv, NEW r \in Reqs, NEW t \in Txns, Exchange(r, t)
  PROVE  \E q : StepOK(r, q) /\ Step(r, q)
<1> DEFINE q == [Idle EXCEPT !.pc = "x_lock", !.txn = t, !.doc = txn[t]]
<1>1. q \in Request /\ q.pc = "x_lock" /\ q.txn = t /\ ~q.held
  BY TypeFacts, IdleOK DEF ReqOK, Request, Idle, Steps
<1>2. StepOK(r, q)
  BY <1>1, ArrivalOK
<1> QED
  BY <1>2 DEF Exchange

LEMMA ExchangeIssueStep ==
  ASSUME TypeInv, NEW r \in Reqs, ExchangeIssue(r)
  PROVE  \E q : StepOK(r, q) /\ Step(r, q)
<1> DEFINE q == [req[r] EXCEPT !.pc = "x_save"]
<1>1. q \in Request
  BY TypeFacts DEF Request, Steps
<1>2. ReqOK(q) /\ q.held = req[r].held /\ q.txn = req[r].txn
      /\ q.pc = "x_save" /\ q.doc = req[r].doc
  BY <1>1, TypeFacts
  DEF ExchangeIssue, ReqOK, Request, Knows, HeldOK, FreeSteps, HeldSteps,
      LinkSteps, OtpSteps, RegSteps
<1>3. StepOK(r, q)
  BY <1>2 DEF ExchangeIssue, StepOK, KeepsAttempt
<1> QED
  BY <1>3, LeaveStepOK DEF ExchangeIssue

\* Every action that only moves a request makes of it what StepOK says.
Moves(r) ==
  \/ Arrive(r) \/ Fail(r)
  \/ CompleteProvider(r) \/ CompleteAccount(r) \/ LinkStudent(r)
  \/ LinkProvider(r) \/ OtpConflict(r) \/ OtpAttempt(r)
  \/ RegistrationReread(r) \/ RegistrationProvider(r) \/ RegistrationAccount(r)
  \/ RegistrationConflict(r) \/ RegistrationAttempt(r)
  \/ ExchangeReread(r) \/ ExchangeIssue(r)

LEMMA MovesOK ==
  ASSUME TypeInv, NEW r \in Reqs, Moves(r)
  PROVE  \E q : StepOK(r, q) /\ Step(r, q)
<1>1. CASE Arrive(r)
  <2>1. \A c \in 0..Len(askedBy) : c \in Codes
    BY DesktopAuthAssumption DEF TypeInv, TypeOK, Codes
  <2> QED
    BY <1>1, <2>1, CompleteStep, CancelStep, LinkAccountStep, RequestOtpStep,
       CompleteRegistrationStep, ExchangeStep DEF Arrive
<1>2. CASE Fail(r)
  BY <1>2, LeaveStepOK DEF Fail
<1>3. CASE ~(Arrive(r) \/ Fail(r))
  BY <1>3, CompleteProviderStep, CompleteAccountStep, LinkStudentStep,
     LinkProviderStep, ConflictStep, OtpAttemptStep, RereadStep,
     RegistrationProviderStep, RegistrationAccountStep,
     RegistrationAttemptStep, ExchangeIssueStep DEF Moves
<1> QED
  BY <1>1, <1>2, <1>3

LEMMA MoveType ==
  ASSUME TypeInv, NEW r \in Reqs, NEW q, StepOK(r, q), Step(r, q)
  PROVE  TypeInv'
<1>1. TypeOK'
  BY DEF TypeInv, TypeOK, StepOK, ReqOK, Step, Go, redis, history
<1>2. \A p \in Reqs : ReqOK(req'[p]) /\ KeepsAttempt(req[p])'
  BY DEF TypeInv, TypeOK, StepOK, KeepsAttempt, Step, Go, redis
<1> QED
  BY <1>1, <1>2 DEF TypeInv

-----------------------------------------------------------------------------
(* The other actions: typing *)

\* Actions that leave the transactions alone and change one request.
LEMMA OneRequestType ==
  ASSUME TypeInv, NEW r \in Reqs, NEW q, ReqOK(q), Go(r, q), txn' = txn,
         q.pc \in {"g_lock", "g_reread"} =>
           req[r].pc = "g_lock" /\ q.txn = req[r].txn
  PROVE  /\ req' \in [Reqs -> Request]
         /\ \A p \in Reqs : ReqOK(req'[p]) /\ KeepsAttempt(req[p])'
BY DEF TypeInv, TypeOK, ReqOK, KeepsAttempt, Go

LEMMA StartType ==
  ASSUME TypeInv, NEW t \in Txns, Start(t)
  PROVE  TypeInv'
<1>1. Bare("PENDING") \in Doc
  BY BareIsDoc
<1>2. TypeOK'
  BY <1>1 DEF TypeInv, TypeOK, Start, history
<1>3. \A p \in Reqs : KeepsAttempt(req[p])'
  <2> SUFFICES ASSUME NEW p \in Reqs, req[p].pc \in {"g_lock", "g_reread"}
               PROVE  txn'[req[p].txn] = txn[req[p].txn]
    BY DEF TypeInv, KeepsAttempt, Start
  <2>1. txn[req[p].txn].status # "ABSENT"
    BY DEF TypeInv, KeepsAttempt
  <2> QED
    BY <2>1 DEF Start, TypeInv, TypeOK
<1> QED
  BY <1>2, <1>3 DEF TypeInv, Start

LEMMA CasType ==
  ASSUME TypeInv, NEW r \in Reqs, SetTransactionIfStatus(r)
  PROVE  TypeInv'
<1> DEFINE q == req[r]
<1>1. q \in Request /\ q.doc \in Doc /\ q.txn \in Txns
      /\ <<q.from, q.doc.status>> \in Edges
      /\ (q.from # "PENDING" /\ q.doc.status = Register => q.doc.attempt # None)
  BY TypeFacts DEF SetTransactionIfStatus, ReqOK, Knows, Request
<1>2. ReqOK(Leave(q)) /\ Leave(q).pc \in {"idle", "release"}
  BY TypeFacts, LeaveOK
<1>3. TypeOK'
  <2>1. txn' \in [Txns -> Doc] /\ bound' \in [Txns -> Students \cup {None}]
    BY <1>1 DEF SetTransactionIfStatus, TypeInv, TypeOK, Doc
  <2>2. req' \in [Reqs -> Request]
    BY <1>2 DEF SetTransactionIfStatus, Go, TypeInv, TypeOK, ReqOK
  <2> QED
    BY <2>1, <2>2 DEF SetTransactionIfStatus, TypeInv, TypeOK
<1>4. \A p \in Reqs : ReqOK(req'[p])
  BY <1>2 DEF SetTransactionIfStatus, Go, TypeInv, TypeOK
<1>5. \A p \in Reqs : KeepsAttempt(req[p])'
  <2> SUFFICES ASSUME NEW p \in Reqs, req'[p].pc \in {"g_lock", "g_reread"}
               PROVE  /\ txn'[req'[p].txn].status \notin {"ABSENT", "PENDING"}
                      /\ txn'[req'[p].txn].status = Register =>
                           txn'[req'[p].txn].attempt # None
    BY DEF KeepsAttempt
  <2>1. req'[p] = req[p] /\ KeepsAttempt(req[p]) /\ req[p].txn \in Txns
    BY <1>2, TypeFacts DEF SetTransactionIfStatus, Go, TypeInv, TypeOK
  <2>2. CASE txn'[req[p].txn] = txn[req[p].txn]
    BY <2>1, <2>2 DEF KeepsAttempt
  <2>3. CASE txn'[req[p].txn] # txn[req[p].txn]
    <3>1. /\ txn'[req[p].txn] = q.doc
          /\ txn[req[p].txn].status = q.from
      BY <1>1, <2>1, <2>3
      DEF SetTransactionIfStatus, StatusMatches, TypeInv, TypeOK
    <3>2. q.from # "PENDING"
      BY <2>1, <3>1 DEF KeepsAttempt
    <3> QED
      BY <1>1, <2>1, <3>1, <3>2 DEF Edges, Link, Register
  <2> QED
    BY <2>2, <2>3
<1> QED
  BY <1>3, <1>4, <1>5 DEF TypeInv

LEMMA AcquireType ==
  ASSUME TypeInv, NEW r \in Reqs, AcquireExchangeLock(r)
  PROVE  TypeInv'
<1> DEFINE q == [req[r] EXCEPT !.held = TRUE,
                   !.pc = IF req[r].pc = "g_lock" THEN "g_reread" ELSE "x_reread"]
<1>1. req[r] \in Request /\ req[r].txn # None
  BY TypeFacts DEF AcquireExchangeLock, ReqOK, Knows
<1>2. q \in Request /\ q.txn = req[r].txn /\ q.held
      /\ q.pc = IF req[r].pc = "g_lock" THEN "g_reread" ELSE "x_reread"
  BY <1>1 DEF Request, Steps
<1>3. ReqOK(q)
  BY <1>1, <1>2 DEF ReqOK, Knows, HeldOK, FreeSteps, HeldSteps, LinkSteps,
                    OtpSteps, RegSteps
<1>4. q.pc \in {"g_lock", "g_reread"} => req[r].pc = "g_lock"
  BY <1>2
<1> HIDE DEF q
<1>5. /\ req' \in [Reqs -> Request]
      /\ \A p \in Reqs : ReqOK(req'[p]) /\ KeepsAttempt(req[p])'
  <2>0. txn' = txn /\ (Go(r, q) \/ Go(r, Idle))
    BY DEF AcquireExchangeLock, q
  <2>1. CASE Go(r, q)
    BY <1>2, <1>3, <1>4, <2>0, <2>1, OneRequestType
  <2>2. CASE Go(r, Idle)
    BY <2>0, <2>2, IdleOK, OneRequestType
  <2> QED
    BY <2>0, <2>1, <2>2
<1>6. lock' \in [Txns -> Reqs \cup {None}]
  BY DEF AcquireExchangeLock, TypeInv, TypeOK
<1> QED
  BY <1>5, <1>6 DEF AcquireExchangeLock, TypeInv, TypeOK, history

LEMMA ReleaseType ==
  ASSUME TypeInv, NEW r \in Reqs, ReleaseExchangeLock(r)
  PROVE  TypeInv'
<1>1. /\ req' \in [Reqs -> Request]
      /\ \A p \in Reqs : ReqOK(req'[p]) /\ KeepsAttempt(req[p])'
  BY IdleOK, OneRequestType DEF ReleaseExchangeLock
<1>2. req[r].pc = "deliver" => req[r].doc.student \in Students
  BY TypeFacts DEF ReqOK, Knows, Request, Doc
<1>3. sessions' \in [Txns -> Seq(Students)]
  <2>1. sessions \in [Txns -> Seq(Students)] /\ req[r].txn \in Txns
    BY TypeFacts DEF ReleaseExchangeLock, TypeInv, TypeOK
  <2>2. req[r].pc = "deliver" =>
          Append(sessions[req[r].txn], req[r].doc.student) \in Seq(Students)
    BY <1>2, <2>1
  <2> QED
    BY <2>1, <2>2 DEF ReleaseExchangeLock
<1>4. lock' \in [Txns -> Reqs \cup {None}]
  BY DEF ReleaseExchangeLock, TypeInv, TypeOK
<1> QED
  BY <1>1, <1>3, <1>4 DEF ReleaseExchangeLock, TypeInv, TypeOK

LEMMA LinkCommitType ==
  ASSUME TypeInv, NEW r \in Reqs, LinkCommit(r)
  PROVE  TypeInv' /\ \E q : StepOK(r, q) /\ Go(r, q)
<1>1. /\ req[r].doc \in Doc /\ req[r].doc.status \in {Link, Register}
      /\ req[r].acct \in Students
  BY TypeFacts DEF LinkCommit, ReqOK, Request, Knows, LinkSteps
<1>2. StepOK(r, ToCas(req[r], Ready(req[r].doc, req[r].acct)))
  BY <1>1, ReadyOK, ToCasStepOK DEF LinkCommit, Register, Link
<1>3. PICK q : StepOK(r, q) /\ Go(r, q)
  BY <1>2, LeaveStepOK DEF LinkCommit
<1>4. /\ req' \in [Reqs -> Request]
      /\ \A p \in Reqs : ReqOK(req'[p]) /\ KeepsAttempt(req[p])'
  BY <1>3 DEF LinkCommit, redis, TypeInv, TypeOK, StepOK, ReqOK, KeepsAttempt, Go
<1>5. provider' \in [Identities -> Students \cup {None}]
  BY <1>1 DEF LinkCommit, TypeInv, TypeOK
<1> QED
  BY <1>3, <1>4, <1>5 DEF LinkCommit, TypeInv, TypeOK, redis, history

\* Actions of the locked or OTP handlers that write one table and move on.
LEMMA MoveOnType ==
  ASSUME TypeInv, NEW r \in Reqs, NEW q, StepOK(r, q), Go(r, q), txn' = txn
  PROVE  /\ req' \in [Reqs -> Request]
         /\ \A p \in Reqs : ReqOK(req'[p]) /\ KeepsAttempt(req[p])'
BY DEF TypeInv, TypeOK, StepOK, ReqOK, KeepsAttempt, Go

LEMMA RowOK ==
  ASSUME NEW row \in Row, NEW seen \in Int
  PROVE  Miss(row, seen) \in Row /\ Spend(row) \in Row
<1>1. 0 \in Codes /\ row.count + 1 \in Int
  BY DesktopAuthAssumption DEF Codes, Row
<1>2. Spend(row) \in Row
  BY <1>1 DEF Spend, Row
<1>3. PICK c \in Codes :
        Miss(row, seen) = [row EXCEPT !.count = row.count + 1, !.cooling = TRUE,
                                      !.code = c]
  BY <1>1 DEF Miss, Row
<1>4. Miss(row, seen) \in Row
  BY <1>1, <1>3 DEF Row
<1> QED
  BY <1>2, <1>4

LEMMA OtpSendType ==
  ASSUME TypeInv, NEW r \in Reqs, OtpSend(r)
  PROVE  TypeInv' /\ \E q : StepOK(r, q) /\ Go(r, q)
<1>1. CASE Step(r, Idle)
  BY <1>1, LeaveStepOK, MoveType DEF Step
<1>2. CASE ~Step(r, Idle)
  <2> DEFINE new == Len(askedBy) + 1
             row(a) == [phone |-> req[r].phone, code |-> new, expired |-> FALSE,
                        cooling |-> TRUE,
                        count |-> IF req[r].attempt = None THEN 0
                                  ELSE otp[a].count + 1]
  <2>1. /\ req[r].pc = "o_send" /\ new \in Codes
        /\ askedBy' = Append(askedBy, req[r].txn)
        /\ UNCHANGED <<redis, provider, account, bound, sessions, uses,
                       guesses, unlinked, crashes>>
    BY <1>2 DEF OtpSend
  <2>2. PICK a \in Attempts \cup {req[r].attempt} :
          /\ req[r].attempt # None => a = req[r].attempt
          /\ req[r].attempt = None => a \in Attempts
          /\ otp' = [otp EXCEPT ![a] =
               [phone |-> req[r].phone, code |-> new, expired |-> FALSE,
                cooling |-> TRUE,
                count |-> IF req[r].attempt = None THEN 0 ELSE @.count + 1]]
          /\ Go(r, ToCas(req[r], [req[r].doc EXCEPT !.attempt = a]))
    BY <1>2 DEF OtpSend
  <2> DEFINE doc == [req[r].doc EXCEPT !.attempt = a]
  <2>3. /\ req[r] \in Request /\ req[r].doc \in Doc /\ req[r].txn \in Txns
        /\ req[r].doc.status = Register
    BY <2>1, TypeFacts DEF ReqOK, Request, Knows, OtpSteps
  <2>4. a \in Attempts /\ a # None
    BY <2>2, <2>3, DesktopAuthAssumption DEF Request
  <2>5. doc \in Doc /\ doc.status = Register /\ doc.attempt # None
    BY <2>3, <2>4 DEF Doc, Register, Link
  <2>6. <<req[r].doc.status, doc.status>> \in Edges
    BY <2>3, <2>5 DEF Edges
  <2>7. StepOK(r, ToCas(req[r], doc))
    BY <2>1, <2>5, <2>6, ToCasStepOK
  <2>8. otp' \in [Attempts -> Row]
    <3>1. otp \in [Attempts -> Row] /\ otp[a].count \in Int
      BY <2>4, TypeFacts DEF TypeInv, TypeOK, Row
    <3>2. row(a) \in Row
      BY <2>1, <2>3, <3>1 DEF Row, Request
    <3> QED
      BY <2>2, <2>4, <3>1, <3>2
  <2>9. askedBy' \in Seq(Txns) /\ Len(askedBy') <= MaxCodes
    BY <2>1, <2>3, DesktopAuthAssumption DEF TypeInv, TypeOK, Codes
  <2>10. txn' = txn /\ Go(r, ToCas(req[r], doc))
    BY <2>1, <2>2 DEF redis
  <2> HIDE DEF doc
  <2>11. /\ req' \in [Reqs -> Request]
         /\ \A p \in Reqs : ReqOK(req'[p]) /\ KeepsAttempt(req[p])'
    BY <2>7, <2>10, MoveOnType
  <2> QED
    BY <2>1, <2>7, <2>8, <2>9, <2>10, <2>11 DEF TypeInv, TypeOK, redis
<1> QED
  BY <1>1, <1>2

LEMMA GuessType ==
  ASSUME TypeInv, NEW r \in Reqs, RegistrationGuess(r)
  PROVE  TypeInv' /\ \E q : StepOK(r, q) /\ Go(r, q)
<1> DEFINE a == req[r].doc.attempt
<1>1. StepOK(r, Leave(req[r])) /\ Go(r, Leave(req[r])) /\ txn' = txn
  BY LeaveStepOK DEF RegistrationGuess, redis
<1>2. a \in Attempts
  BY TypeFacts DEF RegistrationGuess, ReqOK, Request, Knows, Doc, RegSteps
<1>3. otp' \in [Attempts -> Row]
  <2>1. otp \in [Attempts -> Row] /\ otp[a] \in Row
    BY <1>2, TypeFacts DEF TypeInv, TypeOK
  <2>2. Miss(otp[a], req[r].seen) \in Row
    BY <2>1, RowOK, TypeFacts DEF Request
  <2> QED
    BY <2>1, <2>2 DEF RegistrationGuess
<1>4. guesses' \in [Codes -> Int]
  BY <1>2 DEF Row, RegistrationGuess, TypeInv, TypeOK
<1>5. /\ req' \in [Reqs -> Request]
      /\ \A p \in Reqs : ReqOK(req'[p]) /\ KeepsAttempt(req[p])'
  BY <1>1, MoveOnType
<1> QED
  BY <1>1, <1>3, <1>4, <1>5 DEF RegistrationGuess, TypeInv, TypeOK, redis

LEMMA RegistrationCommitType ==
  ASSUME TypeInv, NEW r \in Reqs, RegistrationCommit(r)
  PROVE  TypeInv' /\ \E q : StepOK(r, q) /\ Go(r, q)
<1> DEFINE i == req[r].doc.identity
           a == req[r].doc.attempt
<1>1. /\ req[r] \in Request /\ req[r].doc \in Doc
      /\ req[r].doc.status = Register /\ req[r].txn \in Txns
      /\ a \in Attempts /\ i \in Identities
  BY TypeFacts
  DEF RegistrationCommit, ReqOK, Request, Knows, RegSteps, Doc, Register, Link
<1>2. /\ req[r].pc = "g_commit"
      /\ UNCHANGED <<redis, bound, sessions, askedBy, guesses, unlinked, crashes>>
  BY DEF RegistrationCommit
<1>3. CASE Go(r, Leave(req[r])) /\ UNCHANGED <<otp, account, provider, uses>>
  <2>1. StepOK(r, Leave(req[r])) /\ txn' = txn
    BY <1>2, LeaveStepOK DEF redis
  <2>2. /\ req' \in [Reqs -> Request]
        /\ \A p \in Reqs : ReqOK(req'[p]) /\ KeepsAttempt(req[p])'
    BY <1>3, <2>1, MoveOnType
  <2> QED
    BY <1>2, <1>3, <2>1, <2>2 DEF TypeInv, TypeOK, redis
<1>4. ASSUME NEW s \in Students,
             otp' = [otp EXCEPT ![a] = Spend(otp[a])],
             account' = [account EXCEPT ![s] =
               [status |-> "ACTIVE", email |-> EmailOf[i], phone |-> req[r].phone]],
             provider' = Adopt(i, s),
             uses' = uses \cup {[txn |-> req[r].txn, code |-> req[r].code,
                                 student |-> s]},
             Go(r, ToCas(req[r], Ready(req[r].doc, s)))
      PROVE  TypeInv' /\ \E q : StepOK(r, q) /\ Go(r, q)
  <2>1. StepOK(r, ToCas(req[r], Ready(req[r].doc, s))) /\ txn' = txn
    BY <1>1, <1>2, ReadyOK, ToCasStepOK DEF redis, Register
  <2>2. /\ req' \in [Reqs -> Request]
        /\ \A p \in Reqs : ReqOK(req'[p]) /\ KeepsAttempt(req[p])'
    BY <1>4, <2>1, MoveOnType
  <2>3. otp' \in [Attempts -> Row]
    <3>1. otp \in [Attempts -> Row] /\ otp[a] \in Row
      BY <1>1, TypeFacts DEF TypeInv, TypeOK
    <3>2. Spend(otp[a]) \in Row
      BY <3>1, RowOK, 0 \in Int
    <3> QED
      BY <1>4, <3>1, <3>2
  <2>4. account' \in [Students -> Account]
    BY <1>1, <1>4, DesktopAuthAssumption DEF TypeInv, TypeOK, Account, Request
  <2>5. provider' \in [Identities -> Students \cup {None}]
    BY <1>1, <1>4 DEF TypeInv, TypeOK, Adopt
  <2>6. uses' \subseteq [txn: Txns, code: Codes, student: Students]
    BY <1>1, <1>4 DEF TypeInv, TypeOK, Request
  <2> QED
    BY <1>2, <1>4, <2>1, <2>2, <2>3, <2>4, <2>5, <2>6
    DEF TypeInv, TypeOK, redis
<1> QED
  BY <1>3, <1>4 DEF RegistrationCommit

LEMMA ExchangeSaveType ==
  ASSUME TypeInv, NEW r \in Reqs, ExchangeSave(r)
  PROVE  TypeInv'
<1> DEFINE q == [req[r] EXCEPT !.pc = "deliver"]
<1>1. req[r] \in Request /\ req[r].txn \in Txns /\ Bare("CONSUMED") \in Doc
  BY TypeFacts, BareIsDoc DEF ExchangeSave
<1>2. q \in Request
  BY <1>1 DEF Request, Steps
<1>3. ReqOK(q) /\ q.pc = "deliver"
  BY <1>1, <1>2, TypeFacts
  DEF ExchangeSave, ReqOK, Request, Knows, HeldOK, FreeSteps, HeldSteps,
      LinkSteps, OtpSteps, RegSteps
<1>4. \A p \in Reqs : KeepsAttempt(req[p])'
  BY <1>1, <1>3
  DEF ExchangeSave, Go, TypeInv, TypeOK, KeepsAttempt, Bare, Register
<1> QED
  BY <1>1, <1>3, <1>4
  DEF ExchangeSave, Go, TypeInv, TypeOK, ReqOK, history

LEMMA ExpiryType ==
  ASSUME TypeInv, NEW t \in Txns, TransactionExpires(t)
  PROVE  TypeInv'
<1>1. Bare("GONE") \in Doc
  BY BareIsDoc
<1>2. \A p \in Reqs : KeepsAttempt(req[p])'
  BY <1>1 DEF TransactionExpires, TypeInv, TypeOK, KeepsAttempt, Bare, Register
<1> QED
  BY <1>1, <1>2 DEF TransactionExpires, TypeInv, TypeOK, history

\* Environment steps that touch neither transactions nor requests.
Tables ==
  \/ \E t \in Txns : LockExpires(t)
  \/ \E a \in Attempts : CodeCools(a) \/ CodeExpires(a)
  \/ \E s \in Students :
       \/ ToggleAccount(s)
       \/ \E e \in Emails, p \in Phones : WebSignUp(s, e, p)
       \/ \E i \in Identities : WebLink(s, i)
  \/ \E i \in Identities : WebUnlink(i)

LEMMA TablesType ==
  ASSUME TypeInv, Tables
  PROVE  TypeInv' /\ UNCHANGED <<txn, req, bound, sessions>>
<1>1. UNCHANGED <<txn, req, bound, sessions, askedBy, uses, guesses, crashes>>
  BY DEF Tables, LockExpires, CodeCools, CodeExpires, ToggleAccount, WebSignUp,
         WebLink, WebUnlink, redis, history
<1>2. /\ lock' \in [Txns -> Reqs \cup {None}]
      /\ provider' \in [Identities -> Students \cup {None}]
      /\ unlinked' \in SUBSET Identities
  BY DEF Tables, LockExpires, CodeCools, CodeExpires, ToggleAccount, WebSignUp,
         WebLink, WebUnlink, redis, history, TypeInv, TypeOK
<1>3. otp' \in [Attempts -> Row]
  <2>1. otp \in [Attempts -> Row] /\ \A a \in Attempts : otp[a] \in Row
    BY DEF TypeInv, TypeOK
  <2>2. ASSUME NEW a \in Attempts, CodeCools(a) \/ CodeExpires(a)
        PROVE  otp' \in [Attempts -> Row]
    <3>1. \/ otp' = [otp EXCEPT ![a] = [otp[a] EXCEPT !.cooling = FALSE]]
          \/ otp' = [otp EXCEPT ![a] = [otp[a] EXCEPT !.expired = TRUE,
                                                     !.cooling = FALSE]]
      BY <2>1, <2>2 DEF CodeCools, CodeExpires
    <3>2. /\ [otp[a] EXCEPT !.cooling = FALSE] \in Row
          /\ [otp[a] EXCEPT !.expired = TRUE, !.cooling = FALSE] \in Row
      BY <2>1 DEF Row
    <3> QED
      BY <2>1, <3>1, <3>2
  <2>3. CASE otp' = otp
    BY <2>1, <2>3
  <2> QED
    BY <2>2, <2>3 DEF Tables, LockExpires, ToggleAccount, WebSignUp, WebLink,
                      WebUnlink
<1>4. account' \in [Students -> Account]
  <2>1. account \in [Students -> Account]
        /\ \A s \in Students : account[s] \in Account
    BY DEF TypeInv, TypeOK
  <2>2. ASSUME NEW s \in Students, ToggleAccount(s)
        PROVE  account' \in [Students -> Account]
    <3>1. PICK v \in {"ACTIVE", "DISABLED"} :
            account' = [account EXCEPT ![s] = [account[s] EXCEPT !.status = v]]
      BY <2>1, <2>2 DEF ToggleAccount
    <3>2. [account[s] EXCEPT !.status = v] \in Account
      BY <2>1 DEF Account
    <3> QED
      BY <2>1, <3>1, <3>2
  <2>3. ASSUME NEW s \in Students, NEW e \in Emails, NEW p \in Phones,
               WebSignUp(s, e, p)
        PROVE  account' \in [Students -> Account]
    BY <2>1, <2>3 DEF WebSignUp, Account
  <2>4. CASE account' = account
    BY <2>1, <2>4
  <2> QED
    BY <2>2, <2>3, <2>4 DEF Tables, LockExpires, CodeCools, CodeExpires,
                            WebLink, WebUnlink
<1> QED
  BY <1>1, <1>2, <1>3, <1>4 DEF TypeInv, TypeOK, KeepsAttempt

LEMMA CrashType ==
  ASSUME TypeInv, NEW r \in Reqs, Crash(r)
  PROVE  TypeInv'
<1>1. /\ req' \in [Reqs -> Request]
      /\ \A p \in Reqs : ReqOK(req'[p]) /\ KeepsAttempt(req[p])'
  BY IdleOK, OneRequestType DEF Crash, redis
<1> QED
  BY <1>1 DEF Crash, TypeInv, TypeOK, redis

-----------------------------------------------------------------------------
(* Type correctness *)

LEMMA TypeInit == Init => TypeInv
<1> SUFFICES ASSUME Init PROVE TypeInv
  OBVIOUS
<1>1. account \in [Students -> Account]
  BY DEF Init, Account
<1>2. txn \in [Txns -> Doc] /\ otp \in [Attempts -> Row]
  BY BareIsDoc, DesktopAuthAssumption DEF Init, Row, Codes
<1>3. req \in [Reqs -> Request] /\ \A r \in Reqs : ReqOK(req[r])
  BY IdleOK DEF Init, ReqOK
<1>4. \A r \in Reqs : KeepsAttempt(req[r])
  BY IdleOK DEF Init, KeepsAttempt
<1>5. askedBy \in Seq(Txns) /\ Len(askedBy) <= MaxCodes
  BY DesktopAuthAssumption DEF Init
<1>6. sessions \in [Txns -> Seq(Students)] /\ guesses \in [Codes -> Int]
  BY DEF Init
<1>7. /\ lock \in [Txns -> Reqs \cup {None}]
      /\ provider \in [Identities -> Students \cup {None}]
      /\ bound \in [Txns -> Students \cup {None}]
      /\ uses \subseteq [txn: Txns, code: Codes, student: Students]
      /\ unlinked \in SUBSET Identities /\ crashes \in Nat
  BY DEF Init
<1>8. TypeOK
  BY <1>1, <1>2, <1>3, <1>5, <1>6, <1>7 DEF TypeOK
<1> QED
  BY <1>3, <1>4, <1>8 DEF TypeInv

\* Next, sorted by what the actions change.
LEMMA NextCases ==
  ASSUME Next
  PROVE  \/ \E t \in Txns : Start(t) \/ TransactionExpires(t)
         \/ Tables
         \/ \E r \in Reqs :
              \/ Moves(r) \/ Crash(r) \/ SetTransactionIfStatus(r)
              \/ AcquireExchangeLock(r) \/ ReleaseExchangeLock(r)
              \/ LinkCommit(r) \/ OtpSend(r) \/ RegistrationGuess(r)
              \/ RegistrationCommit(r) \/ ExchangeSave(r)
BY DEF Next, Environment, Continue, Moves, Tables

LEMMA TypeStep == TypeInv /\ [Next]_vars => TypeInv'
<1> SUFFICES ASSUME TypeInv, [Next]_vars PROVE TypeInv'
  OBVIOUS
<1>1. CASE UNCHANGED vars
  BY <1>1 DEF vars, history, TypeInv, TypeOK, KeepsAttempt
<1>2. CASE Next
  <2>1. ASSUME NEW r \in Reqs, Moves(r) PROVE TypeInv'
    BY <2>1, MovesOK, MoveType
  <2> QED
    BY <1>2, <2>1, NextCases, StartType, ExpiryType, TablesType, CrashType,
       CasType, AcquireType, ReleaseType, LinkCommitType, OtpSendType,
       GuessType, RegistrationCommitType, ExchangeSaveType
<1> QED
  BY <1>1, <1>2

\* The typing invariant holds, with no assumption on the lock.
THEOREM TypeCorrect == Spec => []TypeOK
<1>1. TypeInv => TypeOK
  BY DEF TypeInv
<1> QED
  BY <1>1, TypeInit, TypeStep, PTL DEF Spec

-----------------------------------------------------------------------------
(* READY is final *)

\* Only the exchange and the expiry of the key move a READY transaction,
\* whatever requests read before it became READY.
THEOREM ReadyFinal == Spec => ReadyIsFinal
<1> DEFINE Final == \A t \in Txns : txn[t].status = "READY" =>
                      txn'[t] = txn[t] \/ txn'[t].status \in {"CONSUMED", "GONE"}
<1>1. TypeInv /\ [Next]_vars => [Final]_vars
  <2> SUFFICES ASSUME TypeInv, Next PROVE Final
    OBVIOUS
  <2>0. txn \in [Txns -> Doc]
    BY DEF TypeInv, TypeOK
  <2>1. ASSUME NEW t \in Txns, Start(t) \/ TransactionExpires(t) PROVE Final
    BY <2>0, <2>1 DEF Start, TransactionExpires, Bare
  <2>2. ASSUME NEW r \in Reqs, SetTransactionIfStatus(r) PROVE Final
    <3>1. req[r].from # "READY" /\ req[r].txn \in Txns
      BY <2>2, TypeFacts
      DEF SetTransactionIfStatus, ReqOK, Knows, Edges, Link, Register
    <3> QED
      BY <2>0, <2>2, <3>1 DEF SetTransactionIfStatus, StatusMatches
  <2>3. ASSUME NEW r \in Reqs, ExchangeSave(r) PROVE Final
    BY <2>0, <2>3 DEF ExchangeSave, Bare
  <2>4. ASSUME NEW r \in Reqs, Moves(r) PROVE Final
    BY <2>4, MovesOK DEF Step, redis
  <2>5. ASSUME NEW r \in Reqs,
               \/ Crash(r) \/ AcquireExchangeLock(r) \/ ReleaseExchangeLock(r)
               \/ LinkCommit(r) \/ OtpSend(r) \/ RegistrationGuess(r)
               \/ RegistrationCommit(r)
        PROVE  Final
    BY <2>5 DEF Crash, AcquireExchangeLock, ReleaseExchangeLock, LinkCommit,
                OtpSend, Step, RegistrationGuess, RegistrationCommit, redis
  <2>6. CASE Tables
    BY <2>6, TablesType
  <2> HIDE DEF Final
  <2> QED
    BY <2>1, <2>2, <2>3, <2>4, <2>5, <2>6, NextCases
<1> QED
  BY <1>1, TypeInit, TypeStep, PTL DEF Spec, ReadyIsFinal

-----------------------------------------------------------------------------
(* One session per transaction, when the lock outlives its holder *)

\* A request that takes the lock stays on its transaction, one that does not ends.
LEMMA AcquireEffect ==
  ASSUME TypeInv, NEW r \in Reqs, AcquireExchangeLock(r)
  PROVE  \/ /\ lock[req[r].txn] = None
            /\ req'[r].txn = req[r].txn
            /\ req'[r].pc \in {"g_reread", "x_reread"}
         \/ /\ lock[req[r].txn] # None
            /\ req'[r] = Idle
<1> DEFINE q == [req[r] EXCEPT !.held = TRUE,
                   !.pc = IF req[r].pc = "g_lock" THEN "g_reread" ELSE "x_reread"]
<1>1. req[r] \in Request
  BY TypeFacts
<1>2. q.txn = req[r].txn /\ q.pc \in {"g_reread", "x_reread"}
  BY <1>1 DEF Request
<1>3. IF lock[req[r].txn] = None THEN Go(r, q) ELSE Go(r, Idle)
  BY DEF AcquireExchangeLock
<1> HIDE DEF q
<1> QED
  BY <1>2, <1>3 DEF Go, TypeInv, TypeOK

\* A request that keeps `held` keeps its lock while nobody else's token moves.
LEMMA LockStep ==
  ASSUME LockOutlivesHolder, TypeInv, LockInv, [Next]_vars
  PROVE  LockInv'
<1>1. CASE UNCHANGED vars
  BY <1>1 DEF vars, LockInv
<1>2. ASSUME NEW r \in Reqs, NEW q, StepOK(r, q), Go(r, q), lock' = lock
      PROVE  LockInv'
  BY <1>2 DEF LockInv, StepOK, Go, TypeInv, TypeOK
<1>3. ASSUME NEW r \in Reqs,
             Moves(r) \/ LinkCommit(r) \/ OtpSend(r) \/ RegistrationGuess(r)
               \/ RegistrationCommit(r)
      PROVE  LockInv'
  <2>1. (\E q : StepOK(r, q) /\ Go(r, q)) /\ lock' = lock
    BY <1>3, MovesOK, LinkCommitType, OtpSendType, GuessType,
       RegistrationCommitType
    DEF Step, LinkCommit, OtpSend, RegistrationGuess, RegistrationCommit, redis
  <2> QED
    BY <2>1, <1>2
<1>4. ASSUME NEW r \in Reqs, SetTransactionIfStatus(r) PROVE LockInv'
  BY <1>4, LeaveStepOK, <1>2 DEF SetTransactionIfStatus
<1>5. ASSUME NEW r \in Reqs, ExchangeSave(r) PROVE LockInv'
  BY <1>5, TypeFacts DEF ExchangeSave, LockInv, Go, TypeInv, TypeOK, Request
<1>6. ASSUME NEW r \in Reqs, Crash(r) PROVE LockInv'
  BY <1>6, LeaveStepOK, <1>2 DEF Crash, redis
<1>7. ASSUME NEW r \in Reqs, AcquireExchangeLock(r) PROVE LockInv'
  <2>1. CASE lock[req[r].txn] = None
    <3>1. \A p \in Reqs : req[p].held => req[p].txn # req[r].txn
      BY <2>1, DesktopAuthAssumption DEF LockInv
    <3>2. req[r] \in Request /\ req[r].txn \in Txns
      BY <1>7, TypeFacts DEF AcquireExchangeLock
    <3>3. lock' = [lock EXCEPT ![req[r].txn] = r]
      BY <1>7, <2>1 DEF AcquireExchangeLock
    <3>4. \A p \in Reqs \ {r} : req'[p] = req[p]
      BY <1>7, <2>1 DEF AcquireExchangeLock, Go, TypeInv, TypeOK
    <3>5. req'[r].txn = req[r].txn
      BY <1>7, <2>1, AcquireEffect
    <3>6. \A p \in Reqs \ {r} : req[p].held => req[p].txn \in Txns
      BY TypeFacts DEF ReqOK, HeldOK, FreeSteps
    <3>7. lock \in [Txns -> Reqs \cup {None}]
      BY DEF TypeInv, TypeOK
    <3>8. lock'[req'[r].txn] = r
      BY <3>2, <3>3, <3>5, <3>7
    <3>9. ASSUME NEW p \in Reqs \ {r}, req'[p].held
          PROVE  lock'[req'[p].txn] = p
      BY <3>1, <3>3, <3>4, <3>6, <3>7, <3>9 DEF LockInv
    <3> QED
      BY <3>8, <3>9 DEF LockInv
  <2>2. CASE lock[req[r].txn] # None
    BY <1>7, <2>2, LeaveStepOK, <1>2 DEF AcquireExchangeLock
  <2> QED
    BY <2>1, <2>2
<1>8. ASSUME NEW r \in Reqs, ReleaseExchangeLock(r) PROVE LockInv'
  <2>1. \A p \in Reqs \ {r} : req'[p] = req[p]
    BY <1>8 DEF ReleaseExchangeLock, Go, TypeInv, TypeOK
  <2>2. ~req'[r].held
    BY <1>8 DEF ReleaseExchangeLock, Go, TypeInv, TypeOK, Idle
  <2>3. \A p \in Reqs \ {r} : req[p].held => lock'[req[p].txn] = p
    BY <1>8, TypeFacts DEF ReleaseExchangeLock, LockInv, TypeInv, TypeOK, Request
  <2> QED
    BY <2>1, <2>2, <2>3 DEF LockInv
<1>9. ASSUME NEW t \in Txns, Start(t) \/ TransactionExpires(t) PROVE LockInv'
  BY <1>9 DEF Start, TransactionExpires, LockInv
<1>10. CASE Tables
  <2>1. ASSUME NEW t \in Txns, LockExpires(t) PROVE LockInv'
    BY <2>1 DEF LockExpires, Holding, LockInv, TypeInv, TypeOK
  <2>2. CASE lock' = lock
    BY <1>10, <2>2, TablesType DEF LockInv
  <2> QED
    BY <1>10, <2>1, <2>2 DEF Tables, CodeCools, CodeExpires, ToggleAccount,
                             WebSignUp, WebLink, WebUnlink, redis
<1> QED
  BY <1>1, <1>3, <1>4, <1>5, <1>6, <1>7, <1>8, <1>9, <1>10, NextCases

\* Two requests are never inside the locked region of one transaction.
LEMMA Exclusion ==
  ASSUME TypeInv, LockInv, NEW p \in Reqs, NEW r \in Reqs,
         req[p].held, req[r].held, req[p].txn = req[r].txn
  PROVE  p = r
BY DEF LockInv

BoundAndExchange == BoundInv /\ ExchangeInv

\* A request that moves without touching transactions or sessions.
LEMMA MoveUse ==
  ASSUME TypeInv, BoundAndExchange, NEW r \in Reqs, NEW q, StepOK(r, q),
         Go(r, q), UNCHANGED <<txn, bound, sessions>>
  PROVE  BoundAndExchange'
<1>1. BoundInv'
  BY DEF BoundAndExchange, BoundInv
<1>2. ASSUME NEW p \in Reqs, p # r
      PROVE  req'[p] = req[p]
  BY <1>2 DEF Go, TypeInv, TypeOK
<1>3. req'[r] = q /\ q.pc # "deliver"
  BY DEF Go, TypeInv, TypeOK, StepOK
<1>4. ASSUME q.pc \in {"x_issue", "x_save"}
      PROVE  /\ q.doc.student = bound[q.txn] /\ sessions[q.txn] = <<>>
             /\ txn[q.txn].status \in {"READY", "GONE"}
  <2>1. CASE req[r].pc = "x_issue" /\ q.doc = req[r].doc /\ q.txn = req[r].txn
    BY <2>1 DEF BoundAndExchange, ExchangeInv
  <2>2. CASE txn[q.txn].status = "READY" /\ q.doc = txn[q.txn]
    <3>1. q.txn \in Txns
      BY <1>4 DEF StepOK, ReqOK, Request, Knows
    <3> QED
      BY <2>2, <3>1 DEF BoundAndExchange, BoundInv
  <2> QED
    BY <1>4, <2>1, <2>2 DEF StepOK
<1>5. ExchangeInv'
  BY <1>2, <1>3, <1>4 DEF BoundAndExchange, ExchangeInv
<1> QED
  BY <1>1, <1>5 DEF BoundAndExchange

\* Writes to a transaction that is not READY disturb no exchange.
LEMMA CasUse ==
  ASSUME TypeInv, BoundAndExchange, NEW r \in Reqs, SetTransactionIfStatus(r)
  PROVE  BoundAndExchange'
<1> DEFINE q == req[r]
           t == req[r].txn
<1>1. /\ q.doc \in Doc /\ t \in Txns
      /\ <<q.from, q.doc.status>> \in Edges
  BY TypeFacts DEF SetTransactionIfStatus, ReqOK, Knows, Request
<1>2. q.from \in Unbound \ {"ABSENT"}
      /\ q.doc.status \in Unbound \cup {"READY"}
  BY <1>1 DEF Edges, Unbound, Link, Register
<1>3. \A u \in Txns : u # t => txn'[u] = txn[u] /\ bound'[u] = bound[u]
  BY DEF SetTransactionIfStatus, TypeInv, TypeOK
<1>4. CASE StatusMatches(q)
  <2>1. txn[t].status \in Unbound /\ bound[t] = None /\ sessions[t] = <<>>
    BY <1>1, <1>2, <1>4
    DEF StatusMatches, BoundAndExchange, BoundInv, Unbound, Link, Register
  <2>2. /\ txn'[t] = q.doc
        /\ bound'[t] = IF q.doc.status = "READY" THEN q.doc.student ELSE None
    BY <1>1, <1>4, <2>1 DEF SetTransactionIfStatus, TypeInv, TypeOK
  <2>3. BoundInv'
    BY <1>1, <1>2, <1>3, <2>1, <2>2
    DEF SetTransactionIfStatus, BoundAndExchange, BoundInv, Unbound, Link, Register
  <2>4. ASSUME NEW p \in Reqs, req'[p].pc \in {"x_issue", "x_save", "deliver"}
        PROVE  req'[p] = req[p] /\ req[p].txn \in Txns \ {t}
    <3>1. req'[p] = req[p]
      BY <2>4, LeaveStepOK
      DEF SetTransactionIfStatus, Go, TypeInv, TypeOK, Leave, Idle, Request
    <3>2. req[p].txn \in Txns
      BY <2>4, <3>1, TypeFacts
    <3>3. req[p].txn # t
      BY <2>1, <2>4, <3>1
      DEF BoundAndExchange, ExchangeInv, Unbound, Link, Register
    <3> QED
      BY <3>1, <3>2, <3>3
  <2>5. ExchangeInv'
    BY <1>3, <2>4
    DEF SetTransactionIfStatus, BoundAndExchange, ExchangeInv
  <2> QED
    BY <2>3, <2>5 DEF BoundAndExchange
<1>5. CASE ~StatusMatches(q)
  BY <1>5, MoveUse, LeaveStepOK DEF SetTransactionIfStatus
<1> QED
  BY <1>4, <1>5

LEMMA ExchangeSaveUse ==
  ASSUME TypeInv, LockInv, BoundAndExchange, NEW r \in Reqs, ExchangeSave(r)
  PROVE  BoundAndExchange'
<1> DEFINE t == req[r].txn
<1>1. /\ t \in Txns /\ req[r].held /\ req[r] \in Request
      /\ req[r].doc.student = bound[t] /\ sessions[t] = <<>>
  BY TypeFacts
  DEF ExchangeSave, ReqOK, HeldOK, HeldSteps, BoundAndExchange, ExchangeInv
<1>2. txn' = [txn EXCEPT ![t] = Bare("CONSUMED")]
      /\ UNCHANGED <<bound, sessions>>
  BY DEF ExchangeSave, history
<1>3. BoundInv'
  BY <1>1, <1>2
  DEF BoundAndExchange, BoundInv, TypeInv, TypeOK, Bare, Unbound, Link, Register
<1>4. ASSUME NEW p \in Reqs, p # r,
             req[p].pc \in {"x_issue", "x_save", "deliver"}
      PROVE  req'[p] = req[p] /\ req[p].txn \in Txns \ {t}
  <2>1. req[p].held /\ req[p].txn \in Txns
    BY <1>4, TypeFacts DEF ReqOK, HeldOK, HeldSteps
  <2> QED
    BY <1>1, <1>4, <2>1, Exclusion DEF ExchangeSave, Go, TypeInv, TypeOK
<1>5. ASSUME NEW p \in Reqs, p # r
      PROVE  req'[p] = req[p]
  BY <1>5 DEF ExchangeSave, Go, TypeInv, TypeOK
<1>6. /\ req'[r].pc = "deliver" /\ req'[r].txn = t
      /\ req'[r].doc.student = bound[t]
  BY <1>1 DEF ExchangeSave, Go, TypeInv, TypeOK, Request
<1>7. ExchangeInv'
  <2>1. txn'[t].status = "CONSUMED"
    BY <1>1, <1>2 DEF TypeInv, TypeOK, Bare
  <2>2. \A u \in Txns \ {t} : txn'[u] = txn[u]
    BY <1>2 DEF TypeInv, TypeOK
  <2>3. ASSUME NEW p \in Reqs, p # r,
               req'[p].pc \in {"x_issue", "x_save", "deliver"}
        PROVE  req'[p] = req[p] /\ req[p].txn \in Txns \ {t}
    BY <1>4, <1>5, <2>3
  <2> QED
    BY <1>1, <1>2, <1>6, <2>1, <2>2, <2>3 DEF BoundAndExchange, ExchangeInv
<1> QED
  BY <1>3, <1>7 DEF BoundAndExchange

LEMMA ReleaseUse ==
  ASSUME TypeInv, LockInv, BoundAndExchange, NEW r \in Reqs,
         ReleaseExchangeLock(r)
  PROVE  BoundAndExchange'
<1>1. CASE req[r].pc = "release"
  BY <1>1, MoveUse, LeaveStepOK DEF ReleaseExchangeLock
<1>2. CASE req[r].pc = "deliver"
  <2> DEFINE t == req[r].txn
  <2>1. /\ t \in Txns /\ req[r].held
        /\ req[r].doc.student = bound[t] /\ sessions[t] = <<>>
        /\ txn[t].status \in {"CONSUMED", "GONE"}
    BY <1>2, TypeFacts
    DEF ReqOK, HeldOK, HeldSteps, BoundAndExchange, ExchangeInv
  <2>2. /\ UNCHANGED <<txn, bound>>
        /\ sessions' = [sessions EXCEPT ![t] = <<bound[t]>>]
    BY <1>2, <2>1 DEF ReleaseExchangeLock, TypeInv, TypeOK
  <2>3. BoundInv'
    BY <2>1, <2>2 DEF BoundAndExchange, BoundInv, TypeInv, TypeOK
  <2>4. ASSUME NEW p \in Reqs, req'[p].pc \in {"x_issue", "x_save", "deliver"}
        PROVE  req'[p] = req[p] /\ req[p].txn \in Txns \ {t}
    <3>1. p # r /\ req'[p] = req[p]
      BY <2>4 DEF ReleaseExchangeLock, Go, TypeInv, TypeOK, Idle
    <3>2. req[p].held /\ req[p].txn \in Txns
      BY <2>4, <3>1, TypeFacts DEF ReqOK, HeldOK, HeldSteps
    <3> QED
      BY <2>1, <3>1, <3>2, Exclusion
  <2>5. ExchangeInv'
    BY <2>2, <2>4 DEF BoundAndExchange, ExchangeInv, TypeInv, TypeOK
  <2> QED
    BY <2>3, <2>5 DEF BoundAndExchange
<1> QED
  BY <1>1, <1>2 DEF ReleaseExchangeLock

LEMMA UseStep ==
  ASSUME TypeInv, LockInv, BoundAndExchange, [Next]_vars
  PROVE  BoundAndExchange'
<1>1. CASE UNCHANGED vars
  BY <1>1 DEF vars, history, BoundAndExchange, BoundInv, ExchangeInv
<1>2. ASSUME NEW r \in Reqs,
             Moves(r) \/ LinkCommit(r) \/ OtpSend(r) \/ RegistrationGuess(r)
               \/ RegistrationCommit(r)
      PROVE  BoundAndExchange'
  <2>1. /\ \E q : StepOK(r, q) /\ Go(r, q)
        /\ UNCHANGED <<txn, bound, sessions>>
    BY <1>2, MovesOK, LinkCommitType, OtpSendType, GuessType,
       RegistrationCommitType
    DEF Step, LinkCommit, OtpSend, RegistrationGuess, RegistrationCommit, redis,
        history
  <2> QED
    BY <2>1, MoveUse
<1>3. ASSUME NEW r \in Reqs, Crash(r) PROVE BoundAndExchange'
  BY <1>3, LeaveStepOK, MoveUse DEF Crash, redis
<1>4. ASSUME NEW r \in Reqs, AcquireExchangeLock(r) PROVE BoundAndExchange'
  <2>1. UNCHANGED <<txn, bound, sessions>>
    BY <1>4 DEF AcquireExchangeLock, history
  <2>2. \A p \in Reqs \ {r} : req'[p] = req[p]
    BY <1>4 DEF AcquireExchangeLock, Go, TypeInv, TypeOK
  <2>3. req'[r].pc \in {"idle", "g_reread", "x_reread"}
    BY <1>4, AcquireEffect DEF Idle
  <2>4. BoundInv'
    BY <2>1 DEF BoundAndExchange, BoundInv
  <2>5. ExchangeInv'
    BY <2>1, <2>2, <2>3 DEF BoundAndExchange, ExchangeInv
  <2> QED
    BY <2>4, <2>5 DEF BoundAndExchange
<1>5. ASSUME NEW t \in Txns, Start(t) \/ TransactionExpires(t)
      PROVE  BoundAndExchange'
  <2>1. /\ UNCHANGED <<bound, sessions, req>>
        /\ \A u \in Txns \ {t} : txn'[u] = txn[u]
    BY <1>5 DEF Start, TransactionExpires, history, TypeInv, TypeOK
  <2>2. CASE Start(t)
    <3>1. txn[t].status = "ABSENT" /\ txn'[t].status = "PENDING"
      BY <2>2 DEF Start, TypeInv, TypeOK, Bare
    <3>2. bound[t] = None /\ sessions[t] = <<>>
      BY <3>1 DEF BoundAndExchange, BoundInv, Unbound
    <3>3. BoundInv'
      BY <2>1, <3>1, <3>2 DEF BoundAndExchange, BoundInv
    <3>4. ASSUME NEW p \in Reqs, req[p].pc \in {"x_issue", "x_save", "deliver"}
          PROVE  req[p].txn \in Txns \ {t}
      BY <3>1, <3>4, TypeFacts DEF BoundAndExchange, ExchangeInv
    <3>5. ExchangeInv'
      BY <2>1, <3>4 DEF BoundAndExchange, ExchangeInv
    <3> QED
      BY <3>3, <3>5 DEF BoundAndExchange
  <2>3. CASE TransactionExpires(t)
    <3>1. txn'[t].status = "GONE"
      BY <2>3 DEF TransactionExpires, TypeInv, TypeOK, Bare
    <3>2. BoundInv'
      BY <2>1, <3>1 DEF BoundAndExchange, BoundInv, Unbound, Link, Register
    <3>3. ExchangeInv'
      BY <2>1, <3>1, TypeFacts DEF BoundAndExchange, ExchangeInv
    <3> QED
      BY <3>2, <3>3 DEF BoundAndExchange
  <2> QED
    BY <1>5, <2>2, <2>3
<1>6. CASE Tables
  BY <1>6, TablesType DEF BoundAndExchange, BoundInv, ExchangeInv
<1> QED
  BY <1>1, <1>2, <1>3, <1>4, <1>5, <1>6, CasUse, ExchangeSaveUse, ReleaseUse,
     NextCases

LEMMA IInvInit == Init => IInv
<1> SUFFICES ASSUME Init PROVE IInv
  OBVIOUS
<1>1. LockInv /\ ExchangeInv
  BY IdleOK DEF Init, LockInv, ExchangeInv, Idle
<1>2. BoundInv
  BY DEF Init, BoundInv, Bare, Unbound
<1> QED
  BY <1>1, <1>2, TypeInit DEF IInv

LEMMA IInvStep == LockOutlivesHolder /\ IInv /\ [Next]_vars => IInv'
BY TypeStep, LockStep, UseStep DEF IInv, BoundAndExchange

\* Whatever crashes, retries and interleavings: as long as the lock's TTL is
\* longer than its holder runs, a transaction hands out at most one session,
\* and hands it to the account it was bound to.
THEOREM SingleUse == LockOutlivesHolder /\ Spec => []ExchangeSingleUse
<1> DEFINE Inv == LockOutlivesHolder /\ IInv
<1>1. LockOutlivesHolder /\ Init => Inv
  BY IInvInit
<1>2. Inv /\ [Next]_vars => Inv'
  BY IInvStep
<1>3. Inv => ExchangeSingleUse
  <2> SUFFICES ASSUME IInv, NEW t \in Txns
               PROVE  /\ Len(sessions[t]) <= 1
                      /\ \A k \in DOMAIN sessions[t] : sessions[t][k] = bound[t]
    BY DEF ExchangeSingleUse
  <2>1. sessions[t] = <<>> \/ sessions[t] = <<bound[t]>>
    BY DEF IInv, BoundInv
  <2>2. CASE sessions[t] = <<>>
    BY <2>2
  <2>3. CASE sessions[t] = <<bound[t]>>
    <3>1. /\ Len(<<bound[t]>>) = 1 /\ <<bound[t]>>[1] = bound[t]
          /\ DOMAIN <<bound[t]>> = {1}
      OBVIOUS
    <3> QED
      BY <2>3, <3>1
  <2> QED
    BY <2>1, <2>2, <2>3
<1> HIDE DEF Inv
<1> QED
  BY <1>1, <1>2, <1>3, PTL DEF Spec

-----------------------------------------------------------------------------
(* The transaction implements LoginOnce *)

\* Every conditional write is a step of the abstract transaction, or repeats
\* the status it found.
LEMMA CasImplements ==
  ASSUME TypeInv, BoundInv, NEW r \in Reqs, SetTransactionIfStatus(r)
  PROVE  [Login!Next]_Login!vars
<1> DEFINE q == req[r]
           phase == [u \in Txns |-> txn[u].status]
<1>0. PICK t \in Txns : t = q.txn
  BY TypeFacts DEF SetTransactionIfStatus
<1>1. q.doc \in Doc /\ <<q.from, q.doc.status>> \in Edges
  BY TypeFacts DEF SetTransactionIfStatus, ReqOK, Knows, Request
<1>2. sessions' = sessions
  BY DEF SetTransactionIfStatus
<1>3. CASE StatusMatches(q)
  <2>1. txn' = [txn EXCEPT ![t] = q.doc] /\ txn \in [Txns -> Doc]
    BY <1>0, <1>3 DEF SetTransactionIfStatus, TypeInv, TypeOK
  <2>2. phase[t] = q.from /\ phase' = [phase EXCEPT ![t] = q.doc.status]
    BY <1>0, <1>1, <1>3, <2>1 DEF StatusMatches
  <2>3. CASE q.doc.status = "READY"
    <3>1. PICK s \in Students : s = q.doc.student
      BY <1>1, <2>3 DEF Doc
    <3>2. bound' = [bound EXCEPT ![t] = s]
      BY <1>0, <1>3, <2>3, <3>1 DEF SetTransactionIfStatus
    <3>3. phase[t] \in Login!Waiting /\ bound[t] = None
      BY <1>1, <2>2, <2>3
      DEF Edges, BoundInv, Unbound, Login!Waiting, Link, Register
    <3>4. Login!Bind(t, s)
      BY <1>2, <2>2, <2>3, <3>2, <3>3 DEF Login!Bind
    <3> QED
      BY <3>4 DEF Login!Next
  <2>4. CASE q.doc.status # "READY"
    <3>1. bound' = bound
      BY <2>4 DEF SetTransactionIfStatus
    <3>2. CASE q.from = q.doc.status
      <4>1. phase' = phase
        BY <1>1, <2>2, <3>2
      <4> QED
        BY <1>2, <3>1, <4>1 DEF Login!vars
    <3>3. CASE q.from # q.doc.status
      <4>1. Login!Advance(t)
        BY <1>1, <1>2, <2>2, <2>4, <3>1, <3>3
        DEF Edges, Login!Advance, Login!Waiting, Link, Register
      <4> QED
        BY <4>1 DEF Login!Next
    <3> QED
      BY <3>2, <3>3
  <2> QED
    BY <2>3, <2>4
<1>4. CASE ~StatusMatches(q)
  BY <1>2, <1>4 DEF SetTransactionIfStatus, Login!vars
<1> QED
  BY <1>3, <1>4

LEMMA NextImplements ==
  ASSUME IInv, [Next]_vars
  PROVE  [Login!Next]_Login!vars
<1> DEFINE phase == [u \in Txns |-> txn[u].status]
<1>0. TypeInv /\ LockInv /\ BoundInv /\ ExchangeInv /\ txn \in [Txns -> Doc]
  BY DEF IInv, TypeInv, TypeOK
<1>1. ASSUME UNCHANGED <<txn, bound, sessions>>
      PROVE  [Login!Next]_Login!vars
  BY <1>1 DEF Login!vars
<1>2. ASSUME NEW t \in Txns, Start(t) PROVE [Login!Next]_Login!vars
  <2>1. Login!Open(t)
    BY <1>0, <1>2 DEF Start, Bare, history, Login!Open
  <2> QED
    BY <2>1 DEF Login!Next
<1>3. ASSUME NEW t \in Txns, TransactionExpires(t)
      PROVE  [Login!Next]_Login!vars
  <2>1. Login!Forget(t)
    BY <1>0, <1>3 DEF TransactionExpires, Bare, history, Login!Forget
  <2> QED
    BY <2>1 DEF Login!Next
<1>4. ASSUME NEW r \in Reqs, ExchangeSave(r) PROVE [Login!Next]_Login!vars
  <2>0. PICK t \in Txns : t = req[r].txn
    BY <1>0, <1>4, TypeFacts DEF ExchangeSave
  <2>1. /\ req[r].doc \in Doc /\ req[r].doc.status = "READY"
        /\ req[r].doc.student = bound[t] /\ sessions[t] = <<>>
        /\ txn[t].status \in {"READY", "GONE"}
    BY <1>0, <1>4, <2>0, TypeFacts
    DEF ExchangeSave, ReqOK, Knows, Request, ExchangeInv
  <2>2. bound[t] # None
    BY <2>1 DEF Doc
  <2>3. txn' = [txn EXCEPT ![t] = Bare("CONSUMED")]
        /\ UNCHANGED <<bound, sessions>>
    BY <1>4, <2>0 DEF ExchangeSave, history
  <2>4. phase' = [phase EXCEPT ![t] = "CONSUMED"]
    BY <1>0, <2>1, <2>3 DEF Bare
  <2>5. Login!Use(t)
    BY <2>1, <2>2, <2>3, <2>4 DEF Login!Use
  <2> QED
    BY <2>5 DEF Login!Next
<1>5. ASSUME NEW r \in Reqs, ReleaseExchangeLock(r)
      PROVE  [Login!Next]_Login!vars
  <2>1. CASE req[r].pc = "release"
    BY <1>5, <2>1, <1>1 DEF ReleaseExchangeLock
  <2>2. CASE req[r].pc = "deliver"
    <3>0. PICK t \in Txns : t = req[r].txn
      BY <1>0, <2>2, TypeFacts
    <3>1. /\ req[r].doc \in Doc /\ req[r].doc.status = "READY"
          /\ req[r].doc.student = bound[t] /\ sessions[t] = <<>>
          /\ txn[t].status \in {"CONSUMED", "GONE"}
      BY <1>0, <2>2, <3>0, TypeFacts DEF ReqOK, Knows, Request, ExchangeInv
    <3>2. bound[t] # None
      BY <3>1 DEF Doc
    <3>3. /\ UNCHANGED <<txn, bound>>
          /\ sessions' = [sessions EXCEPT ![t] = <<bound[t]>>]
      BY <1>0, <1>5, <2>2, <3>0, <3>1 DEF ReleaseExchangeLock, TypeInv, TypeOK
    <3>4. phase' = phase
      BY <3>3
    <3>5. Login!HandOver(t)
      BY <3>1, <3>2, <3>3, <3>4 DEF Login!HandOver
    <3> QED
      BY <3>5 DEF Login!Next
  <2> QED
    BY <1>5, <2>1, <2>2 DEF ReleaseExchangeLock
<1>6. ASSUME NEW r \in Reqs,
             \/ Moves(r) \/ Crash(r) \/ AcquireExchangeLock(r) \/ LinkCommit(r)
             \/ OtpSend(r) \/ RegistrationGuess(r) \/ RegistrationCommit(r)
      PROVE  [Login!Next]_Login!vars
  <2>1. UNCHANGED <<txn, bound, sessions>>
    BY <1>0, <1>6, MovesOK
    DEF Step, Crash, AcquireExchangeLock, LinkCommit, OtpSend,
        RegistrationGuess, RegistrationCommit, redis, history
  <2> QED
    BY <2>1, <1>1
<1>7. CASE Tables
  BY <1>0, <1>7, <1>1, TablesType
<1>8. CASE UNCHANGED vars
  BY <1>8, <1>1 DEF vars, history
<1> QED
  BY <1>0, <1>2, <1>3, <1>4, <1>5, <1>6, <1>7, <1>8, CasImplements, NextCases

\* The whole service, with all its requests in flight, does to a transaction
\* only what LoginOnce allows, as long as the lock outlives its holder.
THEOREM Implements == LockOutlivesHolder /\ Spec => LoginSpec
<1> DEFINE Inv == LockOutlivesHolder /\ IInv
<1>1. LockOutlivesHolder /\ Init => Inv
  BY IInvInit
<1>2. Inv /\ [Next]_vars => Inv'
  BY IInvStep
<1>3. Init => Login!Init
  BY DEF Init, Bare, Login!Init
<1>4. Inv /\ [Next]_vars => [Login!Next]_Login!vars
  BY NextImplements
<1> HIDE DEF Inv
<1> QED
  BY <1>1, <1>2, <1>3, <1>4, PTL DEF Spec, LoginSpec, Login!Spec

-----------------------------------------------------------------------------
(* READY means linked *)

\* The identity is linked to the student, or has been unlinked since it was.
Owns(i, s) == /\ s \in Students
              /\ provider[i] = s \/ i \in unlinked

\* What a request believes about the account of its identity is true.
Owned(q) ==
  /\ q.pc = "cas" /\ q.doc.status = "READY" => Owns(q.doc.identity, q.doc.student)
  /\ q.pc = "c_account" /\ q.acct # None => Owns(q.doc.identity, q.acct)
  /\ q.pc = "g_account" => Owns(q.doc.identity, q.acct)
  /\ q.pc = "l_commit" /\ q.seen # 0 => Owns(q.doc.identity, q.acct)

OwnInv == /\ \A t \in Txns : txn[t].status = "READY" =>
               Owns(txn[t].identity, txn[t].student)
          /\ \A r \in Reqs : Owned(req[r])

\* A link ends only by the student's own unlinking.
LEMMA OwnsStays ==
  ASSUME TypeInv, [Next]_vars, NEW i \in Identities, NEW s, Owns(i, s)
  PROVE  Owns(i, s)'
<1>1. s # None /\ provider \in [Identities -> Students \cup {None}]
  BY DesktopAuthAssumption DEF Owns, TypeInv, TypeOK
<1>2. CASE UNCHANGED <<provider, unlinked>>
  BY <1>2 DEF Owns
<1>3. ASSUME NEW j \in Identities, NEW x, provider[j] = None,
             provider' = [provider EXCEPT ![j] = x], unlinked' = unlinked
      PROVE  Owns(i, s)'
  BY <1>1, <1>3 DEF Owns
<1>4. ASSUME NEW r \in Reqs, LinkCommit(r) PROVE Owns(i, s)'
  <2>1. req[r].doc.identity \in Identities
    BY <1>4, TypeFacts DEF LinkCommit, ReqOK, Knows, Request, LinkSteps, Doc
  <2> QED
    BY <1>2, <1>3, <1>4, <2>1 DEF LinkCommit, history
<1>5. ASSUME NEW r \in Reqs, RegistrationCommit(r) PROVE Owns(i, s)'
  <2>1. req[r].doc.identity \in Identities
    BY <1>5, TypeFacts
    DEF RegistrationCommit, ReqOK, Knows, Request, RegSteps, Doc, Register
  <2> QED
    BY <1>2, <1>3, <1>5, <2>1 DEF RegistrationCommit, Adopt
<1>6. CASE Tables
  <2>1. ASSUME NEW x \in Students, NEW j \in Identities, WebLink(x, j)
        PROVE  Owns(i, s)'
    BY <1>3, <2>1 DEF WebLink, history
  <2>2. ASSUME NEW j \in Identities, WebUnlink(j) PROVE Owns(i, s)'
    BY <1>1, <2>2 DEF WebUnlink, Owns
  <2>3. ASSUME ~\E x \in Students, j \in Identities : WebLink(x, j),
               ~\E j \in Identities : WebUnlink(j)
        PROVE  UNCHANGED <<provider, unlinked>>
    BY <1>6, <2>3 DEF Tables, LockExpires, CodeCools, CodeExpires, ToggleAccount,
                      WebSignUp, history
  <2> QED
    BY <1>2, <2>1, <2>2, <2>3
<1>7. ASSUME NEW r \in Reqs, Moves(r) PROVE UNCHANGED <<provider, unlinked>>
  BY <1>7, MovesOK DEF Step, history
<1>8. ASSUME NEW t \in Txns, Start(t) \/ TransactionExpires(t)
      PROVE  UNCHANGED <<provider, unlinked>>
  BY <1>8 DEF Start, TransactionExpires, history
<1>9. ASSUME NEW r \in Reqs,
             \/ Crash(r) \/ SetTransactionIfStatus(r) \/ AcquireExchangeLock(r)
             \/ ReleaseExchangeLock(r) \/ OtpSend(r) \/ RegistrationGuess(r)
             \/ ExchangeSave(r)
      PROVE  UNCHANGED <<provider, unlinked>>
  BY <1>9 DEF Crash, SetTransactionIfStatus, AcquireExchangeLock,
              ReleaseExchangeLock, OtpSend, Step, RegistrationGuess,
              ExchangeSave, history
<1>10. CASE UNCHANGED vars
  BY <1>2, <1>10 DEF vars, history
<1> QED
  BY <1>2, <1>4, <1>5, <1>6, <1>7, <1>8, <1>9, <1>10, NextCases

LEMMA OwnedStays ==
  ASSUME TypeInv, [Next]_vars, NEW p \in Reqs, req'[p] = req[p], Owned(req[p])
  PROVE  Owned(req[p])'
<1> DEFINE q == req[p]
<1>1. /\ q.doc \in Doc
      /\ q.pc \in {"c_account", "g_account", "l_commit"} \/ q.doc.status = "READY"
           => q.doc.identity \in Identities
  BY TypeFacts
  DEF ReqOK, Request, Knows, RegSteps, LinkSteps, Doc, Register, Link
<1>2. ASSUME NEW s, q.doc.identity \in Identities, Owns(q.doc.identity, s)
      PROVE  /\ s \in Students
             /\ provider'[q.doc.identity] = s \/ q.doc.identity \in unlinked'
  BY <1>2, OwnsStays DEF Owns
<1> QED
  BY <1>1, <1>2 DEF Owned, Owns

\* A step that leaves the transactions alone and moves one request.
LEMMA OneOwned ==
  ASSUME TypeInv, OwnInv, [Next]_vars, txn' = txn, NEW r \in Reqs,
         \A p \in Reqs \ {r} : req'[p] = req[p], Owned(req[r])'
  PROVE  OwnInv'
<1>1. ASSUME NEW t \in Txns, txn[t].status = "READY"
      PROVE  Owns(txn[t].identity, txn[t].student)'
  <2>1. txn[t].identity \in Identities
    BY <1>1, TypeFacts DEF Doc
  <2>2. Owns(txn[t].identity, txn[t].student)
    BY <1>1 DEF OwnInv
  <2> QED
    BY <2>1, <2>2, OwnsStays DEF Owns
<1>2. ASSUME NEW p \in Reqs \ {r} PROVE Owned(req[p])'
  BY OwnedStays DEF OwnInv
<1> QED
  BY <1>1, <1>2 DEF OwnInv

\* Steps after which a request believes nothing of the kind.
LEMMA Unowned ==
  ASSUME NEW q, q.pc \notin {"cas", "c_account", "g_account", "l_commit"}
  PROVE  Owned(q)
BY DEF Owned

LEMMA LeaveOwned ==
  ASSUME TypeInv, NEW r \in Reqs
  PROVE  Owned(Leave(req[r])) /\ Owned(Idle)
BY TypeFacts, LeaveOK, IdleOK DEF Owned

LEMMA StepOwned ==
  ASSUME TypeInv, NEW r \in Reqs, NEW q, Step(r, q), Owned(q)
  PROVE  Owned(req[r])'
<1>1. req'[r] = q /\ provider' = provider /\ unlinked' = unlinked
  BY DEF Step, Go, history, TypeInv, TypeOK
<1> QED
  BY <1>1 DEF Owned, Owns

LEMMA ArriveOwned ==
  ASSUME TypeInv, NEW r \in Reqs, Arrive(r)
  PROVE  Owned(req[r])'
<1>1. ASSUME NEW t \in Txns, Cancel(r, t) PROVE Owned(req[r])'
  <2> DEFINE p == [Idle EXCEPT !.txn = t, !.doc = txn[t]]
             doc == [txn[t] EXCEPT !.status = "CANCELLED"]
  <2>1. doc.status = "CANCELLED"
    BY TypeFacts DEF Doc
  <2> HIDE DEF doc
  <2>2. ToCas(p, doc).doc = doc /\ ToCas(p, doc).pc = "cas"
    BY DEF ToCas, Idle
  <2>3. Owned(ToCas(p, doc))
    BY <2>1, <2>2 DEF Owned
  <2> QED
    BY <1>1, <2>3, StepOwned DEF Cancel, doc
<1>2. ASSUME NEW q, Step(r, q),
             q.pc \in {"c_provider", "l_account", "o_conflict", "g_lock", "x_lock"}
      PROVE  Owned(req[r])'
  BY <1>2, StepOwned, Unowned
<1>3. ASSUME NEW t \in Txns, NEW i, Complete(r, t, i) PROVE Owned(req[r])'
  BY <1>2, <1>3 DEF Complete, Idle
<1>4. ASSUME NEW t \in Txns, NEW s, LinkAccount(r, t, s) PROVE Owned(req[r])'
  BY <1>2, <1>4 DEF LinkAccount, Idle
<1>5. ASSUME NEW t \in Txns, NEW p, RequestRegistrationOtp(r, t, p)
      PROVE  Owned(req[r])'
  BY <1>2, <1>5 DEF RequestRegistrationOtp, Idle
<1>6. ASSUME NEW t \in Txns, NEW c, CompleteRegistration(r, t, c)
      PROVE  Owned(req[r])'
  BY <1>2, <1>6 DEF CompleteRegistration, Idle
<1>7. ASSUME NEW t \in Txns, Exchange(r, t) PROVE Owned(req[r])'
  BY <1>2, <1>7 DEF Exchange, Idle
<1> QED
  BY <1>1, <1>3, <1>4, <1>5, <1>6, <1>7 DEF Arrive

LEMMA CompleteOwned ==
  ASSUME TypeInv, OwnInv, NEW r \in Reqs,
         CompleteProvider(r) \/ CompleteAccount(r)
  PROVE  Owned(req[r])'
<1> DEFINE q == req[r]
<1>1. q \in Request /\ q.doc \in Doc /\ Owned(q)
  BY TypeFacts DEF Request, OwnInv
<1>2. CASE CompleteProvider(r)
  <2> DEFINE p == [q EXCEPT !.pc = "c_account",
                            !.acct = provider[q.doc.identity]]
  <2>1. provider[q.doc.identity] \in Students \cup {None}
    BY <1>2, TypeFacts DEF CompleteProvider, ReqOK, Knows, Request, Doc
  <2>2. /\ p.pc = "c_account" /\ p.doc = q.doc
        /\ p.acct = provider[q.doc.identity]
    BY <1>1 DEF Request
  <2>3. Owned(p)
    BY <2>1, <2>2 DEF Owned, Owns
  <2> QED
    BY <1>2, <2>3, StepOwned DEF CompleteProvider
<1>3. CASE CompleteAccount(r)
  <2> DEFINE s == IF Verdict(q) = "READY" THEN q.acct ELSE None
             doc == [q.doc EXCEPT !.status = Verdict(q), !.student = s]
  <2>1. Verdict(q) = "READY" => q.acct # None
    BY DEF Verdict, Link, Register
  <2>2. doc.status = Verdict(q) /\ doc.identity = q.doc.identity
        /\ doc.student = s
    BY <1>1 DEF Doc
  <2> HIDE DEF doc
  <2>3. ToCas(q, doc).doc = doc /\ ToCas(q, doc).pc = "cas"
    BY <1>1 DEF ToCas, Request
  <2>4. doc.status = "READY" => Owns(doc.identity, doc.student)
    BY <1>1, <1>3, <2>1, <2>2 DEF CompleteAccount, Owned
  <2>5. Owned(ToCas(q, doc))
    BY <2>3, <2>4 DEF Owned
  <2> QED
    BY <1>3, <2>5, StepOwned DEF CompleteAccount, doc
<1> QED
  BY <1>2, <1>3

LEMMA LinkProviderOwned ==
  ASSUME TypeInv, NEW r \in Reqs, LinkProvider(r)
  PROVE  Owned(req[r])'
<1> DEFINE q == req[r]
           owner == provider[q.doc.identity]
           p(n) == [q EXCEPT !.pc = "l_commit", !.seen = n]
<1>1. q \in Request /\ q.acct \in Students
  BY TypeFacts DEF LinkProvider, ReqOK, Knows, LinkSteps, Request
<1>2. ASSUME NEW n, n # 0 => owner = q.acct
      PROVE  Owned(p(n))
  BY <1>1, <1>2 DEF Request, Owned, Owns
<1>3. Step(r, Idle) \/ \E n : Step(r, p(n)) /\ (n # 0 => owner = q.acct)
  <2>1. CASE owner = None
    BY <2>1 DEF LinkProvider
  <2>2. CASE owner # None /\ owner = q.acct
    BY <2>2 DEF LinkProvider
  <2>3. CASE owner \notin {None, q.acct}
    BY <2>3 DEF LinkProvider
  <2> QED
    BY <2>1, <2>2, <2>3
<1> HIDE DEF p
<1> QED
  BY <1>2, <1>3, LeaveOwned, StepOwned

LEMMA ConflictOwned ==
  ASSUME TypeInv, NEW r \in Reqs, NEW doc, NEW next, doc.status = Link,
         next \in {"o_attempt", "g_attempt"}
  PROVE  Owned(Conflict(req[r], doc, next))
<1>1. req[r] \in Request
  BY TypeFacts
<1>2. Owned(ToCas(req[r], doc))
  BY <1>1 DEF ToCas, Request, Owned, Link
<1>3. [req[r] EXCEPT !.pc = next].pc = next
  BY <1>1 DEF Request
<1>4. Owned([req[r] EXCEPT !.pc = next])
  BY <1>3, Unowned
<1> QED
  BY <1>2, <1>4, LeaveOwned DEF Conflict

LEMMA RegistrationProviderOwned ==
  ASSUME TypeInv, NEW r \in Reqs, RegistrationProvider(r)
  PROVE  Owned(req[r])'
<1> DEFINE q == req[r]
           owner == provider[q.doc.identity]
           g == [q EXCEPT !.pc = "g_account", !.acct = owner]
           c == [q EXCEPT !.pc = "g_conflict"]
<1>1. q \in Request /\ q.doc.identity \in Identities
  BY TypeFacts DEF RegistrationProvider, ReqOK, Knows, Request, Doc, RegSteps,
                   Register, Link
<1>2. owner \in Students \cup {None}
  BY <1>1, TypeFacts
<1>3. g.pc = "g_account" /\ g.doc = q.doc /\ g.acct = owner
      /\ c.pc = "g_conflict"
  BY <1>1 DEF Request
<1>4. Owned(c) /\ (owner # None => Owned(g))
  BY <1>2, <1>3 DEF Owned, Owns
<1> QED
  BY <1>4, StepOwned DEF RegistrationProvider

LEMMA ReadyOwned ==
  ASSUME TypeInv, NEW r \in Reqs, NEW s
  PROVE  LET q == req[r] IN
         /\ ToCas(q, Ready(q.doc, s)).pc = "cas"
         /\ ToCas(q, Ready(q.doc, s)).doc.identity = q.doc.identity
         /\ ToCas(q, Ready(q.doc, s)).doc.student = s
<1>1. req[r] \in Request /\ req[r].doc \in Doc
  BY TypeFacts DEF Request
<1> QED
  BY <1>1 DEF ToCas, Ready, Request, Doc

LEMMA RegistrationAccountOwned ==
  ASSUME TypeInv, OwnInv, NEW r \in Reqs, RegistrationAccount(r)
  PROVE  Owned(req[r])'
<1> DEFINE q == req[r]
<1>1. Owns(q.doc.identity, q.acct)
  BY DEF RegistrationAccount, OwnInv, Owned
<1>2. Owned(ToCas(q, Ready(q.doc, q.acct)))
  BY <1>1, ReadyOwned DEF Owned
<1> QED
  BY <1>2, LeaveOwned, StepOwned DEF RegistrationAccount

LEMMA MovesOwned ==
  ASSUME TypeInv, OwnInv, NEW r \in Reqs, Moves(r)
  PROVE  Owned(req[r])'
<1> DEFINE q == req[r]
<1>1. q \in Request /\ q.doc \in Doc
  BY TypeFacts DEF Request
<1>2. CASE LinkStudent(r) \/ OtpAttempt(r) \/ RegistrationReread(r)
             \/ RegistrationAttempt(r) \/ ExchangeReread(r) \/ ExchangeIssue(r)
             \/ Fail(r)
  <2>1. ASSUME NEW p, Step(r, p),
               \/ p \in {Leave(q), Idle}
               \/ p.pc \in {"l_provider", "o_send", "g_provider", "g_guess",
                            "g_commit", "x_issue", "x_save"}
        PROVE  Owned(req[r])'
    BY <2>1, LeaveOwned, Unowned, StepOwned
  <2>2. CASE LinkStudent(r)
    BY <1>1, <2>1, <2>2 DEF LinkStudent, Request
  <2>3. CASE OtpAttempt(r)
    BY <1>1, <2>1, <2>3 DEF OtpAttempt, Request
  <2>4. CASE RegistrationReread(r)
    BY <1>1, <2>1, <2>4 DEF RegistrationReread, Request
  <2>5. CASE RegistrationAttempt(r)
    BY <1>1, <2>1, <2>5 DEF RegistrationAttempt, Request
  <2>6. CASE ExchangeReread(r)
    BY <1>1, <2>1, <2>6 DEF ExchangeReread, Request
  <2>7. CASE ExchangeIssue(r)
    BY <1>1, <2>1, <2>7 DEF ExchangeIssue, Request
  <2>8. CASE Fail(r)
    BY <2>1, <2>8 DEF Fail
  <2> QED
    BY <1>2, <2>2, <2>3, <2>4, <2>5, <2>6, <2>7, <2>8
<1>3. CASE OtpConflict(r)
  <2>1. [q.doc EXCEPT !.status = Link].status = Link
    BY <1>1 DEF Doc
  <2> QED
    BY <1>3, <2>1, ConflictOwned, StepOwned DEF OtpConflict
<1>4. CASE RegistrationConflict(r)
  <2>1. [q.doc EXCEPT !.status = Link, !.attempt = None].status = Link
    BY <1>1 DEF Doc
  <2> QED
    BY <1>4, <2>1, ConflictOwned, StepOwned DEF RegistrationConflict
<1> QED
  BY <1>2, <1>3, <1>4, ArriveOwned, CompleteOwned, LinkProviderOwned,
     RegistrationProviderOwned, RegistrationAccountOwned DEF Moves

LEMMA LinkCommitOwned ==
  ASSUME TypeInv, OwnInv, [Next]_vars, NEW r \in Reqs, LinkCommit(r)
  PROVE  Owned(req[r])'
<1> DEFINE q == req[r]
           i == q.doc.identity
           c == ToCas(q, Ready(q.doc, q.acct))
<1>1. /\ q.acct \in Students /\ i \in Identities
      /\ provider \in [Identities -> Students \cup {None}]
  BY TypeFacts DEF LinkCommit, ReqOK, Knows, LinkSteps, Request, Doc, TypeInv,
                   TypeOK
<1>2. unlinked' = unlinked
  BY DEF LinkCommit, history
<1>3. CASE Rejected(q)
  <2>1. req'[r] = Idle
    BY <1>3 DEF LinkCommit, Go, TypeInv, TypeOK
  <2> QED
    BY <2>1 DEF Idle, Owned
<1>4. CASE ~Rejected(q)
  <2>1. req'[r] = c
    BY <1>4 DEF LinkCommit, Go, TypeInv, TypeOK
  <2>2. c.pc = "cas" /\ c.doc.identity = i /\ c.doc.student = q.acct
    BY ReadyOwned
  <2>3. provider'[i] = q.acct \/ i \in unlinked'
    <3>1. CASE q.seen = 0
      BY <1>1, <1>4, <3>1 DEF LinkCommit, Rejected
    <3>2. CASE q.seen # 0
      <4>1. Owns(i, q.acct)
        BY <3>2 DEF LinkCommit, OwnInv, Owned
      <4> QED
        BY <1>1, <4>1, OwnsStays DEF Owns
    <3> QED
      BY <3>1, <3>2
  <2> HIDE DEF c
  <2> QED
    BY <1>1, <2>1, <2>2, <2>3 DEF Owned, Owns
<1> QED
  BY <1>3, <1>4

LEMMA RegistrationCommitOwned ==
  ASSUME TypeInv, NEW r \in Reqs, RegistrationCommit(r)
  PROVE  Owned(req[r])'
<1> DEFINE q == req[r]
           i == q.doc.identity
<1>1. i \in Identities /\ provider \in [Identities -> Students \cup {None}]
  BY TypeFacts
  DEF RegistrationCommit, ReqOK, Request, Knows, RegSteps, Doc, Register, Link,
      TypeInv, TypeOK
<1>2. CASE Go(r, Leave(q))
  <2>1. req'[r] = Leave(q)
    BY <1>2 DEF Go, TypeInv, TypeOK
  <2> QED
    BY <2>1, TypeFacts, LeaveOK DEF Owned
<1>3. ASSUME NEW s \in Students, provider' = Adopt(i, s),
             Go(r, ToCas(q, Ready(q.doc, s)))
      PROVE  Owned(req[r])'
  <2> DEFINE c == ToCas(q, Ready(q.doc, s))
  <2>1. req'[r] = c
    BY <1>3 DEF Go, TypeInv, TypeOK
  <2>2. c.pc = "cas" /\ c.doc.identity = i /\ c.doc.student = s
    BY ReadyOwned
  <2>3. provider'[i] = s
    BY <1>1, <1>3 DEF Adopt
  <2> HIDE DEF c
  <2> QED
    BY <2>1, <2>2, <2>3 DEF Owned, Owns
<1> QED
  BY <1>2, <1>3 DEF RegistrationCommit

LEMMA CasOwned ==
  ASSUME TypeInv, OwnInv, [Next]_vars, NEW r \in Reqs, SetTransactionIfStatus(r)
  PROVE  OwnInv'
<1> DEFINE q == req[r]
<1>1. /\ q.txn \in Txns /\ txn \in [Txns -> Doc] /\ req'[r] = Leave(q)
      /\ \A p \in Reqs \ {r} : req'[p] = req[p]
      /\ provider' = provider /\ unlinked' = unlinked
  BY TypeFacts DEF SetTransactionIfStatus, Go, TypeInv, TypeOK
<1>2. Owned(req[r])'
  BY <1>1, TypeFacts, LeaveOK DEF Owned
<1>3. ASSUME NEW p \in Reqs \ {r} PROVE Owned(req[p])'
  BY <1>1, OwnedStays DEF OwnInv
<1>4. q.doc.status = "READY" => Owns(q.doc.identity, q.doc.student)
  BY DEF SetTransactionIfStatus, OwnInv, Owned
<1>5. ASSUME NEW t \in Txns, txn'[t].status = "READY"
      PROVE  Owns(txn'[t].identity, txn'[t].student)
  BY <1>1, <1>4, <1>5 DEF SetTransactionIfStatus, OwnInv
<1>6. ASSUME NEW t \in Txns, txn'[t].status = "READY"
      PROVE  Owns(txn[t].identity, txn[t].student)'
  BY <1>1, <1>5, <1>6 DEF Owns
<1> QED
  BY <1>2, <1>3, <1>6 DEF OwnInv

\* Steps that write a bare document, or none, and move at most one request.
LEMMA BareOwned ==
  ASSUME TypeInv, OwnInv, [Next]_vars,
         \A t \in Txns : txn'[t] = txn[t] \/ txn'[t].status # "READY",
         \A p \in Reqs : req'[p] = req[p] \/ req'[p].pc \in {"idle", "deliver"}
  PROVE  OwnInv'
<1>1. ASSUME NEW t \in Txns, txn'[t].status = "READY"
      PROVE  Owns(txn[t].identity, txn[t].student)'
  <2>1. txn'[t] = txn[t]
    BY <1>1
  <2>2. txn[t].identity \in Identities
    BY <1>1, <2>1, TypeFacts DEF Doc, TypeInv, TypeOK
  <2>3. Owns(txn[t].identity, txn[t].student)
    BY <1>1, <2>1 DEF OwnInv
  <2> QED
    BY <2>1, <2>2, <2>3, OwnsStays DEF Owns
<1>2. ASSUME NEW p \in Reqs PROVE Owned(req[p])'
  <2>1. CASE req'[p] = req[p]
    BY <2>1, OwnedStays DEF OwnInv
  <2>2. CASE req'[p].pc \in {"idle", "deliver"}
    BY <2>2 DEF Owned
  <2> QED
    BY <2>1, <2>2
<1> QED
  BY <1>1, <1>2 DEF OwnInv

LEMMA OwnStep ==
  ASSUME TypeInv, OwnInv, [Next]_vars
  PROVE  OwnInv'
<1>0. txn \in [Txns -> Doc] /\ req \in [Reqs -> Request]
  BY DEF TypeInv, TypeOK
<1>1. ASSUME NEW r \in Reqs, Moves(r) PROVE OwnInv'
  <2>1. txn' = txn /\ \A p \in Reqs \ {r} : req'[p] = req[p]
    BY <1>0, <1>1, MovesOK DEF Step, Go, redis
  <2> QED
    BY <1>1, <2>1, MovesOwned, OneOwned
<1>2. ASSUME NEW r \in Reqs, LinkCommit(r) \/ RegistrationCommit(r)
      PROVE  OwnInv'
  <2>1. txn' = txn /\ \A p \in Reqs \ {r} : req'[p] = req[p]
    BY <1>0, <1>2, LinkCommitType, RegistrationCommitType
    DEF LinkCommit, RegistrationCommit, Go, redis
  <2> QED
    BY <1>2, <2>1, LinkCommitOwned, RegistrationCommitOwned, OneOwned
<1>3. ASSUME NEW r \in Reqs, OtpSend(r) \/ RegistrationGuess(r)
      PROVE  OwnInv'
  <2>1. txn' = txn /\ \A p \in Reqs \ {r} : req'[p] = req[p]
    BY <1>0, <1>3, OtpSendType, GuessType
    DEF OtpSend, RegistrationGuess, Step, Go, redis
  <2>2. CASE req'[r].pc \in {"idle", "release"}
    BY <2>1, <2>2, OneOwned DEF Owned
  <2>3. CASE req'[r].pc = "cas" /\ req'[r].doc.status = Register
    BY <2>1, <2>3, OneOwned DEF Owned, Register
  <2>4. CASE RegistrationGuess(r)
    <3>1. req'[r] = Leave(req[r])
      BY <1>0, <2>4 DEF RegistrationGuess, Go
    <3> QED
      BY <2>2, <3>1, TypeFacts, LeaveOK
  <2>5. CASE OtpSend(r)
    <3>1. /\ req[r] \in Request /\ req[r].doc \in Doc
          /\ req[r].doc.status = Register
      BY <2>5, TypeFacts DEF OtpSend, ReqOK, Request, Knows, OtpSteps
    <3>2. \/ req'[r] = Idle
          \/ \E a : req'[r] = ToCas(req[r], [req[r].doc EXCEPT !.attempt = a])
      BY <1>0, <2>5 DEF OtpSend, Step, Go
    <3>3. CASE req'[r] = Idle
      BY <2>2, <3>3 DEF Idle
    <3>4. ASSUME NEW a,
                 req'[r] = ToCas(req[r], [req[r].doc EXCEPT !.attempt = a])
          PROVE  OwnInv'
      <4>1. [req[r].doc EXCEPT !.attempt = a].status = Register
        BY <3>1 DEF Doc
      <4>2. req'[r].pc = "cas" /\ req'[r].doc.status = Register
        BY <3>1, <3>4, <4>1 DEF ToCas, Request
      <4> QED
        BY <2>3, <4>2
    <3> QED
      BY <3>2, <3>3, <3>4
  <2> QED
    BY <1>3, <2>4, <2>5
<1>4. ASSUME NEW r \in Reqs, AcquireExchangeLock(r) PROVE OwnInv'
  <2>1. txn' = txn /\ \A p \in Reqs \ {r} : req'[p] = req[p]
    BY <1>0, <1>4 DEF AcquireExchangeLock, Go
  <2>2. Owned(req[r])'
    BY <1>4, AcquireEffect DEF Idle, Owned
  <2> QED
    BY <2>1, <2>2, OneOwned
<1>5. ASSUME NEW r \in Reqs,
             Crash(r) \/ ReleaseExchangeLock(r) \/ ExchangeSave(r)
      PROVE  OwnInv'
  <2>0. PICK q : Go(r, q) /\ q.pc \in {"idle", "deliver"}
    BY <1>0, <1>5 DEF Crash, ReleaseExchangeLock, ExchangeSave, Idle, Request
  <2>1. \A p \in Reqs : req'[p] = req[p] \/ req'[p].pc \in {"idle", "deliver"}
    BY <1>0, <2>0 DEF Go
  <2>2. \A t \in Txns : txn'[t] = txn[t] \/ txn'[t].status # "READY"
    BY <1>0, <1>5 DEF Crash, ReleaseExchangeLock, ExchangeSave, redis, Bare
  <2> QED
    BY <2>1, <2>2, BareOwned
<1>6. ASSUME NEW t \in Txns, Start(t) \/ TransactionExpires(t) PROVE OwnInv'
  <2>1. req' = req /\ \A u \in Txns : txn'[u] = txn[u] \/ txn'[u].status # "READY"
    BY <1>0, <1>6 DEF Start, TransactionExpires, Bare
  <2> QED
    BY <2>1, BareOwned
<1>7. CASE Tables
  BY <1>7, TablesType, BareOwned
<1>8. CASE UNCHANGED vars
  BY <1>8, BareOwned DEF vars, redis
<1> QED
  BY <1>1, <1>2, <1>3, <1>4, <1>5, <1>6, <1>7, <1>8, NextCases, CasOwned

\* Whatever interleaves and crashes, with no assumption on the lock: a
\* transaction is READY only for the account its verified identity is linked
\* to, unless that account's owner has unlinked it.
THEOREM ReadyLinked == Spec => []ReadyMeansLinked
<1> DEFINE Inv == TypeInv /\ OwnInv
<1>1. Init => Inv
  <2> SUFFICES ASSUME Init PROVE OwnInv
    BY TypeInit
  <2>1. \A t \in Txns : txn[t].status = "ABSENT"
    BY DEF Init, Bare
  <2>2. \A r \in Reqs : req[r].pc = "idle"
    BY DEF Init, Idle
  <2> QED
    BY <2>1, <2>2 DEF OwnInv, Owned
<1>2. Inv /\ [Next]_vars => Inv'
  BY TypeStep, OwnStep
<1>3. Inv => ReadyMeansLinked
  BY DesktopAuthAssumption DEF OwnInv, Owns, ReadyMeansLinked
<1> HIDE DEF Inv
<1> QED
  BY <1>1, <1>2, <1>3, PTL DEF Spec

-----------------------------------------------------------------------------
(* Without crashes no lock outlives the request that took it *)

HolderInv == crashes = 0 => \A t \in Txns : lock[t] # None => Holding(lock[t], t)

\* A request in the locked region leaves it by the finally block only.
LEMMA HeldStays ==
  ASSUME TypeInv, NEW r \in Reqs, req[r].held,
         Moves(r) \/ LinkCommit(r) \/ OtpSend(r) \/ RegistrationGuess(r)
           \/ RegistrationCommit(r) \/ SetTransactionIfStatus(r)
           \/ ExchangeSave(r)
  PROVE  req'[r].held /\ req'[r].txn = req[r].txn
<1> DEFINE q == req[r]
           Stays(p) == p.held /\ p.txn = q.txn
<1>1. /\ q \in Request /\ q.pc \notin FreeSteps /\ q # Idle
      /\ req \in [Reqs -> Request]
  BY TypeFacts DEF ReqOK, HeldOK, Idle, TypeInv, TypeOK
<1>2. Stays(Leave(q))
  BY <1>1 DEF Leave, Request
<1>3. \A doc : Stays(ToCas(q, doc))
  BY <1>1 DEF ToCas, Request
<1>4. ASSUME NEW p, Go(r, p), Stays(p)
      PROVE  req'[r].held /\ req'[r].txn = q.txn
  BY <1>1, <1>4 DEF Go
<1> HIDE DEF Stays
<1>5. CASE RegistrationReread(r) \/ ExchangeReread(r) \/ ExchangeIssue(r)
             \/ RegistrationAttempt(r) \/ ExchangeSave(r)
  <2>1. \A pc, doc : Stays([q EXCEPT !.pc = pc]) /\ Stays([q EXCEPT !.pc = pc, !.doc = doc])
                       /\ Stays([q EXCEPT !.pc = pc, !.seen = doc])
    BY <1>1 DEF Stays, Request
  <2>2. \E p : Go(r, p) /\ Stays(p)
    <3>1. CASE RegistrationReread(r)
      BY <1>2, <2>1, <3>1 DEF RegistrationReread, Step
    <3>2. CASE ExchangeReread(r)
      BY <1>2, <2>1, <3>2 DEF ExchangeReread, Step
    <3>3. CASE ExchangeIssue(r)
      BY <1>2, <2>1, <3>3 DEF ExchangeIssue, Step
    <3>4. CASE RegistrationAttempt(r)
      BY <1>2, <2>1, <3>4 DEF RegistrationAttempt, Step
    <3>5. CASE ExchangeSave(r)
      BY <2>1, <3>5 DEF ExchangeSave
    <3> QED
      BY <1>5, <3>1, <3>2, <3>3, <3>4, <3>5
  <2> QED
    BY <1>4, <2>2
<1>6. CASE RegistrationProvider(r)
  <2>1. \A pc, s : Stays([q EXCEPT !.pc = pc]) /\ Stays([q EXCEPT !.pc = pc, !.acct = s])
    BY <1>1 DEF Stays, Request
  <2> QED
    BY <1>4, <1>6, <2>1 DEF RegistrationProvider, Step
<1>7. CASE RegistrationAccount(r) \/ RegistrationGuess(r)
             \/ RegistrationCommit(r) \/ SetTransactionIfStatus(r) \/ Fail(r)
  BY <1>2, <1>3, <1>4, <1>7 DEF RegistrationAccount, RegistrationGuess,
     RegistrationCommit, SetTransactionIfStatus, Fail, Step
<1>8. CASE RegistrationConflict(r)
  <2>1. Stays([q EXCEPT !.pc = "g_attempt"])
    BY <1>1 DEF Stays, Request
  <2> QED
    BY <1>2, <1>3, <1>4, <1>8, <2>1 DEF RegistrationConflict, Conflict, Step
<1>9. /\ ~Arrive(r) /\ ~CompleteProvider(r) /\ ~CompleteAccount(r)
      /\ ~LinkStudent(r) /\ ~LinkProvider(r) /\ ~LinkCommit(r)
      /\ ~OtpConflict(r) /\ ~OtpAttempt(r) /\ ~OtpSend(r)
  BY <1>1 DEF Arrive, Complete, Cancel, LinkAccount, RequestRegistrationOtp,
     CompleteRegistration, Exchange, CompleteProvider, CompleteAccount,
     LinkStudent, LinkProvider, LinkCommit, OtpConflict, OtpAttempt, OtpSend,
     FreeSteps, LinkSteps, OtpSteps
<1> QED
  BY <1>5, <1>6, <1>7, <1>8, <1>9 DEF Moves

LEMMA HolderStep ==
  ASSUME TypeInv, HolderInv, [Next]_vars
  PROVE  HolderInv'
<1>0. /\ req \in [Reqs -> Request] /\ lock \in [Txns -> Reqs \cup {None}]
      /\ crashes \in Nat
  BY DEF TypeInv, TypeOK
<1>1. ASSUME NEW r \in Reqs,
             Moves(r) \/ LinkCommit(r) \/ OtpSend(r) \/ RegistrationGuess(r)
               \/ RegistrationCommit(r) \/ SetTransactionIfStatus(r)
               \/ ExchangeSave(r)
      PROVE  HolderInv'
  <2>1. /\ lock' = lock /\ crashes' = crashes
        /\ \A p \in Reqs \ {r} : req'[p] = req[p]
    BY <1>0, <1>1, MovesOK
    DEF Step, Go, LinkCommit, OtpSend, RegistrationGuess, RegistrationCommit,
        SetTransactionIfStatus, ExchangeSave, redis, history
  <2>2. req[r].held => req'[r].held /\ req'[r].txn = req[r].txn
    BY <1>1, HeldStays
  <2> QED
    BY <1>0, <2>1, <2>2 DEF HolderInv, Holding
<1>2. ASSUME NEW r \in Reqs, AcquireExchangeLock(r) PROVE HolderInv'
  <2> DEFINE t == req[r].txn
  <2>1. /\ t \in Txns /\ req[r] \in Request /\ ~req[r].held
        /\ crashes' = crashes /\ \A p \in Reqs \ {r} : req'[p] = req[p]
    BY <1>0, <1>2, TypeFacts
    DEF AcquireExchangeLock, ReqOK, HeldOK, FreeSteps, Go, history
  <2>2. CASE lock[t] = None
    <3> DEFINE pc == IF req[r].pc = "g_lock" THEN "g_reread" ELSE "x_reread"
    <3>1. lock' = [lock EXCEPT ![t] = r]
          /\ req'[r] = [req[r] EXCEPT !.held = TRUE, !.pc = pc]
      BY <1>0, <1>2, <2>2 DEF AcquireExchangeLock, Go
    <3>2. req'[r].held /\ req'[r].txn = t
      BY <2>1, <3>1 DEF Request
    <3>3. ASSUME NEW u \in Txns, u # t, lock'[u] # None, crashes' = 0
          PROVE  Holding(lock[u], u)'
      <4>1. lock'[u] = lock[u] /\ Holding(lock[u], u)
        BY <1>0, <2>1, <3>1, <3>3 DEF HolderInv
      <4>2. lock[u] \in Reqs \ {r}
        BY <1>0, <2>1, <3>3, <4>1 DEF Holding
      <4> QED
        BY <2>1, <4>1, <4>2 DEF Holding
    <3>4. lock'[t] = r
      BY <1>0, <2>1, <3>1
    <3> QED
      BY <3>2, <3>3, <3>4 DEF HolderInv, Holding
  <2>3. CASE lock[t] # None
    <3>1. lock' = lock
      BY <1>2, <2>3 DEF AcquireExchangeLock
    <3> QED
      BY <1>0, <2>1, <3>1 DEF HolderInv, Holding
  <2> QED
    BY <2>2, <2>3
<1>3. ASSUME NEW r \in Reqs, ReleaseExchangeLock(r) PROVE HolderInv'
  <2> DEFINE t == req[r].txn
  <2>1. /\ t \in Txns /\ crashes' = crashes
        /\ \A p \in Reqs \ {r} : req'[p] = req[p]
        /\ lock' = IF lock[t] = r THEN [lock EXCEPT ![t] = None] ELSE lock
    BY <1>0, <1>3, TypeFacts DEF ReleaseExchangeLock, Go
  <2> QED
    BY <1>0, <2>1 DEF HolderInv, Holding
<1>4. ASSUME NEW r \in Reqs, Crash(r) PROVE HolderInv'
  BY <1>0, <1>4 DEF Crash, HolderInv
<1>5. ASSUME NEW t \in Txns, Start(t) \/ TransactionExpires(t)
      PROVE  HolderInv'
  BY <1>5 DEF Start, TransactionExpires, history, HolderInv, Holding
<1>6. CASE Tables
  <2>1. req' = req /\ crashes' = crashes
    BY <1>6, TablesType
    DEF Tables, LockExpires, CodeCools, CodeExpires, ToggleAccount, WebSignUp,
        WebLink, WebUnlink, history
  <2>2. \A t \in Txns : lock'[t] \in {lock[t], None}
    BY <1>0, <1>6
    DEF Tables, LockExpires, CodeCools, CodeExpires, ToggleAccount, WebSignUp,
        WebLink, WebUnlink, redis
  <2> QED
    BY <2>1, <2>2 DEF HolderInv, Holding
<1>7. CASE UNCHANGED vars
  BY <1>7 DEF vars, redis, history, HolderInv, Holding
<1> QED
  BY <1>1, <1>2, <1>3, <1>4, <1>5, <1>6, <1>7, NextCases

\* With no crash, every path of a request out of the locked region gives the
\* lock back: a lock that is taken has its holder inside.
THEOREM LocksReturned == Spec => []NoAbandonedLock
<1> DEFINE Inv == TypeInv /\ HolderInv
<1>1. Init => Inv
  <2> SUFFICES ASSUME Init PROVE HolderInv
    BY TypeInit
  <2>1. \A t \in Txns : lock[t] = None
    BY DEF Init
  <2> QED
    BY <2>1 DEF HolderInv
<1>2. Inv /\ [Next]_vars => Inv'
  BY TypeStep, HolderStep
<1>3. Inv => NoAbandonedLock
  BY DEF HolderInv, NoAbandonedLock
<1> HIDE DEF Inv
<1> QED
  BY <1>1, <1>2, <1>3, PTL DEF Spec

-----------------------------------------------------------------------------
(* A registration is kept *)

Undecided == {"ABSENT", "PENDING"}
Open == {Link, Register}

\* The transaction was completed, and has identity i while it is open.
Past(t, i) == /\ txn[t].status \notin Undecided
              /\ txn[t].status \in Open => txn[t].identity = i

\* Requests that work on what they read in an open transaction.
ReadOpen(q) == \/ q.pc \in LinkSteps \cup OtpSteps \cup RegSteps
               \/ q.pc = "cas" /\ q.from \in Open

KeptUse(u) == /\ txn[u.txn].status \notin Undecided
              /\ txn[u.txn].status \in Open =>
                   Owns(txn[u.txn].identity, u.student)

PastInv == \A r \in Reqs : ReadOpen(req[r]) =>
             Past(req[r].txn, req[r].doc.identity)

UseInv == \A u \in uses : KeptUse(u)

\* How the steps move a transaction: once it is open it keeps its identity for
\* as long as it stays open.
Onward(t) ==
  \/ txn'[t] = txn[t]
  \/ txn[t].status \in Undecided
  \/ txn'[t].status \notin Undecided \cup Open
  \/ /\ txn[t].status \in Open /\ txn'[t].status \in Open
     /\ txn'[t].identity = txn[t].identity

LEMMA OnwardCas ==
  ASSUME TypeInv, PastInv, NEW r \in Reqs, SetTransactionIfStatus(r), NEW t \in Txns
  PROVE  Onward(t)
<1> DEFINE q == req[r]
<1>1. /\ q.txn \in Txns /\ <<q.from, q.doc.status>> \in Edges
      /\ txn \in [Txns -> Doc] /\ q.pc = "cas"
  BY TypeFacts DEF SetTransactionIfStatus, ReqOK, Knows, TypeInv, TypeOK
<1>2. CASE StatusMatches(q) /\ t = q.txn
  <2>1. txn'[t] = q.doc /\ txn[t].status = q.from
    BY <1>1, <1>2 DEF SetTransactionIfStatus, StatusMatches
  <2>2. q.from \in Open => q.doc.identity = txn[t].identity
    BY <1>1, <1>2, <2>1 DEF PastInv, ReadOpen, Past
  <2>3. q.from \in Open \cup Undecided
    BY <1>1 DEF Edges, Open, Undecided
  <2>4. q.doc.status \notin Undecided
    BY <1>1 DEF Edges, Open, Undecided, Link, Register
  <2> QED
    BY <2>1, <2>2, <2>3, <2>4 DEF Onward
<1>3. CASE ~StatusMatches(q) \/ t # q.txn
  BY <1>1, <1>3 DEF SetTransactionIfStatus, Onward
<1> QED
  BY <1>2, <1>3

LEMMA OnwardStep ==
  ASSUME TypeInv, PastInv, [Next]_vars, NEW t \in Txns
  PROVE  Onward(t)
<1>0. txn \in [Txns -> Doc]
  BY DEF TypeInv, TypeOK
<1>1. CASE txn' = txn
  BY <1>1 DEF Onward
<1>2. ASSUME NEW u \in Txns, Start(u) PROVE Onward(t)
  BY <1>0, <1>2 DEF Start, Onward, Undecided
<1>3. ASSUME NEW u \in Txns, TransactionExpires(u) PROVE Onward(t)
  BY <1>0, <1>3
  DEF TransactionExpires, Onward, Undecided, Open, Bare, Link, Register
<1>4. ASSUME NEW r \in Reqs, ExchangeSave(r) PROVE Onward(t)
  BY <1>0, <1>4 DEF ExchangeSave, Onward, Undecided, Open, Bare, Link, Register
<1>5. ASSUME NEW r \in Reqs,
             \/ Moves(r) \/ Crash(r) \/ AcquireExchangeLock(r)
             \/ ReleaseExchangeLock(r) \/ LinkCommit(r) \/ OtpSend(r)
             \/ RegistrationGuess(r) \/ RegistrationCommit(r)
      PROVE  txn' = txn
  BY <1>5, MovesOK
  DEF Step, Crash, AcquireExchangeLock, ReleaseExchangeLock, LinkCommit, OtpSend,
      RegistrationGuess, RegistrationCommit, redis
<1>6. CASE Tables
  BY <1>6, <1>1, TablesType
<1>7. CASE UNCHANGED vars
  BY <1>7, <1>1 DEF vars, redis
<1> QED
  BY <1>1, <1>2, <1>3, <1>4, <1>5, <1>6, <1>7, NextCases, OnwardCas

LEMMA OpenDecided == Open \cap Undecided = {}
BY DEF Open, Undecided, Link, Register

LEMMA PastStays ==
  ASSUME TypeInv, PastInv, [Next]_vars, NEW t \in Txns, NEW i, Past(t, i)
  PROVE  Past(t, i)'
BY OnwardStep, OpenDecided DEF Onward, Past

LEMMA UseStays ==
  ASSUME TypeInv, PastInv, [Next]_vars, NEW u, u.txn \in Txns, KeptUse(u)
  PROVE  KeptUse(u)'
<1> DEFINE t == u.txn
           i == txn[t].identity
<1>1. Onward(t)
  BY OnwardStep
<1>2. txn[t].status \in Open => i \in Identities
  <2>1. txn[t] \in Doc
    BY DEF TypeInv, TypeOK
  <2> QED
    BY <2>1 DEF Doc, Open
<1>3. txn[t].status \in Open =>
        u.student \in Students /\ (provider'[i] = u.student \/ i \in unlinked')
  BY <1>2, OwnsStays DEF Owns, KeptUse
<1>4. txn'[t].status \notin Undecided
  BY <1>1, OpenDecided DEF KeptUse, Onward
<1>5. txn'[t].status \in Open => txn[t].status \in Open /\ txn'[t].identity = i
  BY <1>1 DEF KeptUse, Onward
<1> QED
  BY <1>3, <1>4, <1>5 DEF KeptUse, Owns

-----------------------------------------------------------------------------
(* What a request carries along *)

\* A request that moves carries what it read along, or has just read it.
Carries(r, p) ==
  \/ ~ReadOpen(p)
  \/ ReadOpen(req[r]) /\ p.txn = req[r].txn /\ p.doc.identity = req[r].doc.identity
  \/ /\ p.txn \in Txns /\ txn[p.txn].status \in Open
     /\ p.doc.identity = txn[p.txn].identity

LEMMA Unread ==
  ASSUME NEW q, q.pc \notin {"cas"} \cup LinkSteps \cup OtpSteps \cup RegSteps
  PROVE  ~ReadOpen(q)
BY DEF ReadOpen

LEMMA LeaveCarries ==
  ASSUME TypeInv, NEW r \in Reqs
  PROVE  Carries(r, Leave(req[r])) /\ Carries(r, Idle)
<1>1. /\ Leave(req[r]).pc \in {"idle", "release"}
      /\ Idle.pc = "idle"
  BY TypeFacts, LeaveOK, IdleOK
<1> QED
  BY <1>1 DEF Carries, ReadOpen, LinkSteps, OtpSteps, RegSteps

LEMMA ArriveCarries ==
  ASSUME TypeInv, NEW r \in Reqs, Arrive(r)
  PROVE  Carries(r, req'[r])
<1>0. req \in [Reqs -> Request]
  BY DEF TypeInv, TypeOK
<1>1. ASSUME NEW q, Step(r, q), q.pc \in {"c_provider", "g_lock", "x_lock"}
      PROVE  Carries(r, req'[r])
  BY <1>0, <1>1 DEF Step, Go, Carries, ReadOpen, LinkSteps, OtpSteps, RegSteps
<1>2. ASSUME NEW t \in Txns, NEW i, Complete(r, t, i)
      PROVE  Carries(r, req'[r])
  BY <1>1, <1>2 DEF Complete, Idle
<1>3. ASSUME NEW t \in Txns, NEW c, CompleteRegistration(r, t, c)
      PROVE  Carries(r, req'[r])
  BY <1>1, <1>3 DEF CompleteRegistration, Idle
<1>4. ASSUME NEW t \in Txns, Exchange(r, t) PROVE Carries(r, req'[r])
  BY <1>1, <1>4 DEF Exchange, Idle
<1>5. ASSUME NEW t \in Txns, NEW s, LinkAccount(r, t, s)
      PROVE  Carries(r, req'[r])
  <2>1. req'[r].txn = t /\ req'[r].doc = txn[t]
    BY <1>0, <1>5 DEF LinkAccount, Step, Go, Idle
  <2> QED
    BY <1>5, <2>1 DEF LinkAccount, Carries, Open
<1>6. ASSUME NEW t \in Txns, NEW p, RequestRegistrationOtp(r, t, p)
      PROVE  Carries(r, req'[r])
  <2>1. req'[r].txn = t /\ req'[r].doc = txn[t]
    BY <1>0, <1>6 DEF RequestRegistrationOtp, Step, Go, Idle
  <2> QED
    BY <1>6, <2>1 DEF RequestRegistrationOtp, Carries, Open
<1>7. ASSUME NEW t \in Txns, Cancel(r, t) PROVE Carries(r, req'[r])
  <2> DEFINE p == [Idle EXCEPT !.txn = t, !.doc = txn[t]]
             doc == [txn[t] EXCEPT !.status = "CANCELLED"]
  <2>1. p.txn = t /\ p.doc = txn[t]
    BY DEF Idle
  <2>2. doc.identity = txn[t].identity
    BY TypeFacts DEF Doc
  <2>3. /\ ToCas(p, doc).pc = "cas" /\ ToCas(p, doc).from = txn[t].status
        /\ ToCas(p, doc).txn = t /\ ToCas(p, doc).doc = doc
    BY <2>1 DEF ToCas, Idle
  <2>4. req'[r] = ToCas(p, doc)
    BY <1>0, <1>7 DEF Cancel, Step, Go
  <2> HIDE DEF p, doc
  <2>5. CASE txn[t].status \in Open
    BY <2>2, <2>3, <2>4, <2>5 DEF Carries
  <2>6. CASE txn[t].status \notin Open
    BY <2>3, <2>4, <2>6 DEF Carries, ReadOpen, LinkSteps, OtpSteps, RegSteps
  <2> QED
    BY <2>5, <2>6
<1> QED
  BY <1>2, <1>3, <1>4, <1>5, <1>6, <1>7 DEF Arrive

\* The ways a request that read an open transaction goes on.
LEMMA OnCarries ==
  ASSUME TypeInv, NEW r \in Reqs, ReadOpen(req[r]), NEW pc, NEW x
  PROVE  LET q == req[r] IN
         /\ Carries(r, [q EXCEPT !.pc = pc])
         /\ Carries(r, [q EXCEPT !.pc = pc, !.seen = x])
         /\ Carries(r, [q EXCEPT !.pc = pc, !.acct = x])
         /\ Carries(r, [q EXCEPT !.pc = pc, !.attempt = x])
BY TypeFacts DEF Carries, Request

LEMMA CasCarries ==
  ASSUME TypeInv, NEW r \in Reqs, ReadOpen(req[r]), NEW doc,
         doc.identity = req[r].doc.identity
  PROVE  Carries(r, ToCas(req[r], doc))
BY TypeFacts DEF Carries, Request, ToCas

LEMMA DocIdentity ==
  ASSUME TypeInv, NEW r \in Reqs, NEW x, NEW y
  PROVE  LET doc == req[r].doc IN
         /\ [doc EXCEPT !.status = x].identity = doc.identity
         /\ [doc EXCEPT !.attempt = x].identity = doc.identity
         /\ [doc EXCEPT !.status = x, !.attempt = y].identity = doc.identity
         /\ Ready(doc, x).identity = doc.identity
<1>1. req[r].doc \in Doc
  BY TypeFacts DEF Request
<1> QED
  BY <1>1 DEF Doc, Ready

\* What goes on is what OnCarries and CasCarries say, or leaves.
LEMMA MovesCarry ==
  ASSUME TypeInv, NEW r \in Reqs,
         Moves(r) \/ LinkCommit(r) \/ OtpSend(r) \/ RegistrationGuess(r)
           \/ RegistrationCommit(r)
  PROVE  Carries(r, req'[r])
<1> DEFINE q == req[r]
<1>0. /\ req \in [Reqs -> Request] /\ q \in Request /\ q.doc \in Doc
  BY TypeFacts DEF TypeInv, TypeOK, Request
<1>1. ASSUME NEW p, Go(r, p), Carries(r, p) PROVE Carries(r, req'[r])
  BY <1>0, <1>1 DEF Go
<1>2. CASE q.pc \in LinkSteps \cup OtpSteps \cup RegSteps
  <2>0. ReadOpen(q)
    BY <1>2 DEF ReadOpen
  <2>1. \A n, next : n.identity = q.doc.identity => Carries(r, Conflict(q, n, next))
    BY <2>0, CasCarries, OnCarries, LeaveCarries DEF Conflict
  <2>2. CASE LinkStudent(r)
    BY <1>1, <2>0, <2>2, OnCarries, LeaveCarries DEF LinkStudent, Step
  <2>3. CASE LinkProvider(r)
    BY <1>1, <2>0, <2>3, OnCarries, LeaveCarries DEF LinkProvider, Step
  <2>4. CASE LinkCommit(r)
    BY <1>1, <2>0, <2>4, CasCarries, DocIdentity, LeaveCarries DEF LinkCommit
  <2>5. CASE OtpConflict(r)
    BY <1>1, <2>1, <2>5, DocIdentity DEF OtpConflict, Step
  <2>6. CASE OtpAttempt(r)
    BY <1>1, <2>0, <2>6, OnCarries, LeaveCarries DEF OtpAttempt, Step
  <2>7. CASE OtpSend(r)
    BY <1>1, <2>0, <2>7, CasCarries, DocIdentity, LeaveCarries DEF OtpSend, Step
  <2>8. CASE RegistrationProvider(r)
    BY <1>1, <2>0, <2>8, OnCarries DEF RegistrationProvider, Step
  <2>9. CASE RegistrationAccount(r)
    BY <1>1, <2>0, <2>9, CasCarries, DocIdentity, LeaveCarries
    DEF RegistrationAccount, Step
  <2>10. CASE RegistrationConflict(r)
    <3>1. [q.doc EXCEPT !.status = Link, !.attempt = None].identity
            = q.doc.identity
      BY DocIdentity
    <3> QED
      BY <1>1, <2>1, <2>10, <3>1 DEF RegistrationConflict, Step
  <2>11. CASE RegistrationAttempt(r)
    <3>1. \A pc, x : /\ Carries(r, [q EXCEPT !.pc = pc])
                     /\ Carries(r, [q EXCEPT !.pc = pc, !.seen = x])
      <4> TAKE pc, x
      <4> QED
        BY <2>0, OnCarries
    <3>2. \E p : Go(r, p) /\ Carries(r, p)
      BY <2>11, <3>1, LeaveCarries DEF RegistrationAttempt, Step
    <3> QED
      BY <1>1, <3>2
  <2>12. CASE RegistrationGuess(r) \/ Fail(r)
    BY <1>1, <2>12, LeaveCarries DEF RegistrationGuess, Fail, Step
  <2>13. CASE RegistrationCommit(r)
    BY <1>1, <2>0, <2>13, CasCarries, DocIdentity, LeaveCarries
    DEF RegistrationCommit
  <2>14. CASE Arrive(r)
    BY <2>14, ArriveCarries
  <2>15. /\ ~CompleteProvider(r) /\ ~CompleteAccount(r) /\ ~RegistrationReread(r)
         /\ ~ExchangeReread(r) /\ ~ExchangeIssue(r)
    BY <1>2 DEF CompleteProvider, CompleteAccount, RegistrationReread,
                ExchangeReread, ExchangeIssue, LinkSteps, OtpSteps, RegSteps
  <2> QED
    BY <2>2, <2>3, <2>4, <2>5, <2>6, <2>7, <2>8, <2>9, <2>10, <2>11, <2>12,
       <2>13, <2>14, <2>15 DEF Moves
<1>3. CASE q.pc \notin LinkSteps \cup OtpSteps \cup RegSteps
  <2>1. ASSUME NEW p, Go(r, p),
               p.pc \notin {"cas"} \cup LinkSteps \cup OtpSteps \cup RegSteps
        PROVE  Carries(r, req'[r])
    BY <1>1, <2>1, Unread DEF Carries
  <2>2. CASE CompleteProvider(r)
    BY <1>0, <2>1, <2>2
    DEF CompleteProvider, Step, Request, LinkSteps, OtpSteps, RegSteps
  <2>3. CASE CompleteAccount(r)
    <3>1. q.doc.status = "PENDING"
      BY <2>3, TypeFacts DEF CompleteAccount, ReqOK, Knows
    <3>2. \A doc : /\ ToCas(q, doc).pc = "cas"
                   /\ ToCas(q, doc).from = "PENDING"
      BY <1>0, <3>1 DEF ToCas, Request
    <3>3. \A doc : ~ReadOpen(ToCas(q, doc))
      BY <3>2
      DEF ReadOpen, Open, Link, Register, LinkSteps, OtpSteps, RegSteps
    <3> QED
      BY <1>1, <2>3, <3>3 DEF CompleteAccount, Step, Carries
  <2>4. CASE RegistrationReread(r)
    <3> DEFINE p == [q EXCEPT !.pc = "g_provider", !.doc = txn[q.txn]]
    <3>1. q.txn \in Txns /\ p.txn = q.txn /\ p.doc = txn[q.txn]
      BY <1>0, <2>4, TypeFacts DEF RegistrationReread, Request
    <3>2. txn[q.txn].status = Register => Carries(r, p)
      BY <3>1 DEF Carries, Open
    <3> QED
      BY <1>1, <2>4, <3>2, LeaveCarries DEF RegistrationReread, Step
  <2>5. CASE ExchangeReread(r) \/ ExchangeIssue(r)
    <3>1. \A pc, doc : /\ [q EXCEPT !.pc = pc].pc = pc
                       /\ [q EXCEPT !.pc = pc, !.doc = doc].pc = pc
      BY <1>0 DEF Request
    <3>2. CASE Go(r, Leave(q))
      BY <1>1, <3>2, LeaveCarries
    <3>3. CASE ~Go(r, Leave(q))
      <4>1. \E p : Go(r, p) /\ p.pc \in {"x_issue", "x_save"}
        <5>1. CASE ExchangeReread(r)
          <6>1. [q EXCEPT !.pc = "x_issue", !.doc = txn[q.txn]].pc = "x_issue"
            BY <1>0 DEF Request
          <6> QED
            BY <3>3, <5>1, <6>1 DEF ExchangeReread, Step
        <5>2. CASE ExchangeIssue(r)
          BY <3>1, <3>3, <5>2 DEF ExchangeIssue, Step
        <5> QED
          BY <2>5, <5>1, <5>2
      <4> QED
        BY <2>1, <4>1 DEF LinkSteps, OtpSteps, RegSteps
    <3> QED
      BY <3>2, <3>3
  <2>6. CASE Arrive(r)
    BY <2>6, ArriveCarries
  <2>7. CASE Fail(r)
    BY <1>1, <2>7, LeaveCarries DEF Fail, Step
  <2>8. /\ ~LinkStudent(r) /\ ~LinkProvider(r) /\ ~LinkCommit(r)
        /\ ~OtpConflict(r) /\ ~OtpAttempt(r) /\ ~OtpSend(r)
        /\ ~RegistrationProvider(r) /\ ~RegistrationAccount(r)
        /\ ~RegistrationConflict(r) /\ ~RegistrationAttempt(r)
        /\ ~RegistrationGuess(r) /\ ~RegistrationCommit(r)
    BY <1>3 DEF LinkStudent, LinkProvider, LinkCommit, OtpConflict, OtpAttempt,
       OtpSend, RegistrationProvider, RegistrationAccount, RegistrationConflict,
       RegistrationAttempt, RegistrationGuess, RegistrationCommit, LinkSteps,
       OtpSteps, RegSteps
  <2> QED
    BY <2>2, <2>3, <2>4, <2>5, <2>6, <2>7, <2>8 DEF Moves
<1> QED
  BY <1>2, <1>3

LEMMA PastStep ==
  ASSUME TypeInv, PastInv, [Next]_vars
  PROVE  PastInv'
<1>0. req \in [Reqs -> Request]
  BY DEF TypeInv, TypeOK
<1>1. ASSUME NEW p \in Reqs, req'[p] = req[p]
      PROVE  ReadOpen(req'[p]) => Past(req[p].txn, req[p].doc.identity)'
  <2> SUFFICES ASSUME ReadOpen(req[p])
               PROVE  /\ txn'[req[p].txn].status \notin Undecided
                      /\ txn'[req[p].txn].status \in Open =>
                           txn'[req[p].txn].identity = req[p].doc.identity
    BY <1>1 DEF Past
  <2>1. req[p].txn \in Txns
    BY TypeFacts DEF ReadOpen, LinkSteps, OtpSteps, RegSteps
  <2>2. Past(req[p].txn, req[p].doc.identity)
    BY DEF PastInv
  <2> QED
    BY <2>1, <2>2, PastStays DEF Past
<1>2. ASSUME NEW r \in Reqs, ~ReadOpen(req'[r]),
             \A p \in Reqs \ {r} : req'[p] = req[p]
      PROVE  PastInv'
  BY <1>1, <1>2 DEF PastInv
<1>3. ASSUME NEW r \in Reqs,
             Moves(r) \/ LinkCommit(r) \/ OtpSend(r) \/ RegistrationGuess(r)
               \/ RegistrationCommit(r)
      PROVE  PastInv'
  <2>1. txn' = txn /\ \A p \in Reqs \ {r} : req'[p] = req[p]
    BY <1>0, <1>3, MovesOK
    DEF Step, Go, LinkCommit, OtpSend, RegistrationGuess, RegistrationCommit,
        redis
  <2>2. Carries(r, req'[r])
    BY <1>3, MovesCarry
  <2>3. ReadOpen(req'[r]) =>
          /\ txn[req'[r].txn].status \notin Undecided
          /\ txn[req'[r].txn].status \in Open =>
               txn[req'[r].txn].identity = req'[r].doc.identity
    BY <2>2, OpenDecided DEF Carries, PastInv, Past
  <2> QED
    BY <1>1, <2>1, <2>3 DEF PastInv, Past
<1>4. ASSUME NEW r \in Reqs,
             \/ SetTransactionIfStatus(r) \/ AcquireExchangeLock(r)
             \/ ReleaseExchangeLock(r) \/ Crash(r) \/ ExchangeSave(r)
      PROVE  PastInv'
  <2>1. PICK p : Go(r, p)
    BY <1>4 DEF SetTransactionIfStatus, AcquireExchangeLock, ReleaseExchangeLock,
                Crash, ExchangeSave
  <2>2. req'[r].pc \in {"idle", "release", "deliver", "g_reread", "x_reread"}
    <3>1. CASE SetTransactionIfStatus(r)
      <4>1. req'[r] = Leave(req[r])
        BY <1>0, <3>1 DEF SetTransactionIfStatus, Go
      <4> QED
        BY <4>1, TypeFacts, LeaveOK
    <3>2. CASE AcquireExchangeLock(r)
      BY <3>2, AcquireEffect DEF Idle
    <3>3. CASE ReleaseExchangeLock(r) \/ Crash(r)
      BY <1>0, <3>3 DEF ReleaseExchangeLock, Crash, Go, Idle
    <3>4. CASE ExchangeSave(r)
      BY <1>0, <3>4 DEF ExchangeSave, Go, Request
    <3> QED
      BY <1>4, <3>1, <3>2, <3>3, <3>4
  <2>3. ~ReadOpen(req'[r])
    BY <2>2, Unread DEF LinkSteps, OtpSteps, RegSteps
  <2> QED
    BY <1>0, <1>2, <2>1, <2>3 DEF Go
<1>5. CASE req' = req
  BY <1>1, <1>5 DEF PastInv
<1>6. ASSUME NEW t \in Txns, Start(t) \/ TransactionExpires(t) PROVE req' = req
  BY <1>6 DEF Start, TransactionExpires
<1>7. CASE Tables
  BY <1>5, <1>7, TablesType
<1>8. CASE UNCHANGED vars
  BY <1>5, <1>8 DEF vars
<1> QED
  BY <1>3, <1>4, <1>5, <1>6, <1>7, <1>8, NextCases

\* Only the committing registration adds a use, of a transaction it has read.
LEMMA NewUses ==
  ASSUME TypeInv, [Next]_vars
  PROVE  \/ uses' = uses
         \/ \E r \in Reqs : RegistrationCommit(r)
<1>1. ASSUME NEW r \in Reqs, Moves(r) PROVE uses' = uses
  BY <1>1, MovesOK DEF Step, history
<1>2. ASSUME NEW r \in Reqs,
             \/ Crash(r) \/ SetTransactionIfStatus(r) \/ AcquireExchangeLock(r)
             \/ ReleaseExchangeLock(r) \/ LinkCommit(r) \/ OtpSend(r)
             \/ RegistrationGuess(r) \/ ExchangeSave(r)
      PROVE  uses' = uses
  BY <1>2 DEF Crash, SetTransactionIfStatus, AcquireExchangeLock,
     ReleaseExchangeLock, LinkCommit, OtpSend, Step, RegistrationGuess,
     ExchangeSave, history
<1>3. ASSUME NEW t \in Txns, Start(t) \/ TransactionExpires(t)
      PROVE  uses' = uses
  BY <1>3 DEF Start, TransactionExpires, history
<1>4. CASE Tables
  BY <1>4 DEF Tables, LockExpires, CodeCools, CodeExpires, ToggleAccount,
              WebSignUp, WebLink, WebUnlink, history
<1>5. CASE UNCHANGED vars
  BY <1>5 DEF vars, history
<1> QED
  BY <1>1, <1>2, <1>3, <1>4, <1>5, NextCases

LEMMA UseKeptStep ==
  ASSUME TypeInv, PastInv, UseInv, [Next]_vars
  PROVE  UseInv'
<1>0. \A u \in uses : u.txn \in Txns
  BY DEF TypeInv, TypeOK
<1>1. \A u \in uses : KeptUse(u)'
  BY <1>0, UseStays DEF UseInv
<1>2. CASE uses' = uses
  BY <1>1, <1>2 DEF UseInv
<1>3. ASSUME NEW r \in Reqs, RegistrationCommit(r) PROVE UseInv'
  <2> DEFINE q == req[r]
             i == q.doc.identity
  <2>1. /\ txn' = txn /\ q.txn \in Txns /\ i \in Identities
        /\ provider \in [Identities -> Students \cup {None}]
        /\ Past(q.txn, i)
    BY <1>3, TypeFacts
    DEF RegistrationCommit, ReqOK, Request, Knows, RegSteps, Doc, Register, Link,
        TypeInv, TypeOK, redis, PastInv, ReadOpen
  <2>2. ASSUME NEW s \in Students, provider' = Adopt(i, s),
               uses' = uses \cup {[txn |-> q.txn, code |-> q.code, student |-> s]}
        PROVE  UseInv'
    <3>1. provider'[i] = s
      BY <2>1, <2>2 DEF Adopt
    <3>2. ASSUME NEW v, v.txn = q.txn, v.student = s
          PROVE  KeptUse(v)'
      BY <2>1, <3>1, <3>2 DEF KeptUse, Past, Owns
    <3>3. ASSUME NEW v \in uses' PROVE KeptUse(v)'
      <4>1. CASE v \in uses
        BY <1>1, <4>1
      <4>2. CASE v = [txn |-> q.txn, code |-> q.code, student |-> s]
        BY <3>2, <4>2
      <4> QED
        BY <2>2, <3>3, <4>1, <4>2
    <3> QED
      BY <3>3 DEF UseInv
  <2> QED
    BY <1>2, <1>3, <2>2 DEF RegistrationCommit
<1> QED
  BY <1>2, <1>3, NewUses

-----------------------------------------------------------------------------
(* Codes *)

\* Codes are numbered as they are sent; one that opened an account is stored
\* nowhere.
CodeInv ==
  /\ \A a \in Attempts : otp[a].code <= Len(askedBy)
  /\ \A a, b \in Attempts : otp[a].code = otp[b].code /\ a # b => otp[a].code = 0
  /\ \A u \in uses : u.code \in 1..Len(askedBy)
                       /\ \A a \in Attempts : otp[a].code # u.code

LEMMA CodesCleared ==
  ASSUME CodeInv, askedBy' = askedBy, uses' = uses,
         \A a \in Attempts : otp'[a].code \in {otp[a].code, 0},
         Len(askedBy) \in Nat
  PROVE  CodeInv'
<1>1. \A a \in Attempts : otp'[a].code <= Len(askedBy')
  BY DEF CodeInv
<1>2. \A a, b \in Attempts : otp'[a].code = otp'[b].code /\ a # b =>
                               otp'[a].code = 0
  BY DEF CodeInv
<1>3. \A u \in uses' : u.code \in 1..Len(askedBy')
                         /\ \A a \in Attempts : otp'[a].code # u.code
  BY DEF CodeInv
<1> QED
  BY <1>1, <1>2, <1>3 DEF CodeInv

LEMMA OtpSendCodes ==
  ASSUME TypeInv, CodeInv, NEW r \in Reqs, OtpSend(r), ~Step(r, Idle)
  PROVE  CodeInv'
<1> DEFINE n == Len(askedBy) + 1
<1>1. PICK a \in Attempts \cup {req[r].attempt} :
        /\ req[r].attempt # None => a = req[r].attempt
        /\ req[r].attempt = None => a \in Attempts
        /\ otp' = [otp EXCEPT ![a] =
             [phone |-> req[r].phone, code |-> n, expired |-> FALSE,
              cooling |-> TRUE,
              count |-> IF req[r].attempt = None THEN 0 ELSE @.count + 1]]
  BY DEF OtpSend
<1>2. /\ uses' = uses /\ askedBy' = Append(askedBy, req[r].txn)
      /\ req[r].pc = "o_send"
  BY DEF OtpSend
<1>3. /\ a \in Attempts /\ req[r].txn \in Txns /\ askedBy \in Seq(Txns)
      /\ otp \in [Attempts -> Row]
  BY <1>1, <1>2, TypeFacts DEF Request, TypeInv, TypeOK
<1>4. Len(askedBy') = n /\ Len(askedBy) \in Nat
  BY <1>2, <1>3
<1>5. otp'[a].code = n /\ \A b \in Attempts \ {a} : otp'[b] = otp[b]
  BY <1>1, <1>3
<1>6. \A b \in Attempts : otp[b].code \in Nat /\ otp[b].code <= Len(askedBy)
  BY <1>3, DesktopAuthAssumption DEF CodeInv, Row, Codes
<1>7. \A b \in Attempts : otp'[b].code <= Len(askedBy')
  BY <1>4, <1>5, <1>6
<1>8. \A b, c \in Attempts : otp'[b].code = otp'[c].code /\ b # c =>
                               otp'[b].code = 0
  BY <1>4, <1>5, <1>6 DEF CodeInv
<1>9. \A u \in uses' : u.code \in 1..Len(askedBy')
                         /\ \A b \in Attempts : otp'[b].code # u.code
  BY <1>2, <1>4, <1>5 DEF CodeInv
<1> QED
  BY <1>7, <1>8, <1>9 DEF CodeInv

LEMMA CommitCodes ==
  ASSUME TypeInv, CodeInv, NEW r \in Reqs, RegistrationCommit(r)
  PROVE  CodeInv'
<1> DEFINE q == req[r]
           a == q.doc.attempt
<1>1. /\ askedBy' = askedBy /\ askedBy \in Seq(Txns) /\ a \in Attempts
      /\ otp \in [Attempts -> Row]
  BY TypeFacts
  DEF RegistrationCommit, ReqOK, Request, Knows, RegSteps, Doc, TypeInv, TypeOK
<1>2. Len(askedBy) \in Nat
  BY <1>1
<1>3. CASE UNCHANGED <<otp, uses>>
  BY <1>1, <1>2, <1>3, CodesCleared
<1>4. ASSUME NEW s \in Students, RowMatches(q),
             otp' = [otp EXCEPT ![a] = Spend(otp[a])],
             uses' = uses \cup {[txn |-> q.txn, code |-> q.code, student |-> s]}
      PROVE  CodeInv'
  <2> DEFINE u == [txn |-> q.txn, code |-> q.code, student |-> s]
  <2>1. q.code = otp[a].code /\ otp[a].code # 0
    BY <1>4 DEF RowMatches
  <2>2. Spend(otp[a]).code = 0
    BY <1>1 DEF Spend, Row
  <2>3. otp'[a].code = 0 /\ \A b \in Attempts \ {a} : otp'[b] = otp[b]
    BY <1>1, <1>4, <2>2
  <2>4. q.code \in Nat /\ q.code <= Len(askedBy)
    BY <1>1, <2>1, DesktopAuthAssumption DEF CodeInv, Row, Codes
  <2>5. q.code \in 1..Len(askedBy)
    BY <1>2, <2>1, <2>4
  <2>6. ASSUME NEW b \in Attempts PROVE otp'[b].code # q.code
    <3>1. CASE b = a
      BY <2>1, <2>3, <3>1
    <3>2. CASE b # a
      <4>1. otp[b].code # otp[a].code
        BY <1>1, <2>1, <3>2 DEF CodeInv
      <4> QED
        BY <2>1, <2>3, <3>2, <4>1
    <3> QED
      BY <3>1, <3>2
  <2>7. \A b \in Attempts : otp'[b].code <= Len(askedBy')
    BY <1>1, <1>2, <2>3 DEF CodeInv
  <2>8. \A b, c \in Attempts : otp'[b].code = otp'[c].code /\ b # c =>
                                 otp'[b].code = 0
    BY <2>3 DEF CodeInv
  <2>9. ASSUME NEW v \in uses'
        PROVE  v.code \in 1..Len(askedBy')
                 /\ \A b \in Attempts : otp'[b].code # v.code
    <3>1. CASE v = u
      BY <1>1, <2>5, <2>6, <3>1
    <3>2. CASE v \in uses
      BY <1>1, <1>2, <2>3, <3>2 DEF CodeInv
    <3> QED
      BY <1>4, <2>9, <3>1, <3>2
  <2> QED
    BY <2>7, <2>8, <2>9 DEF CodeInv
<1> QED
  BY <1>3, <1>4 DEF RegistrationCommit

\* A step that sends no code and commits no registration clears codes at most.
LEMMA CodeStep ==
  ASSUME TypeInv, CodeInv, [Next]_vars
  PROVE  CodeInv'
<1>0. otp \in [Attempts -> Row] /\ Len(askedBy) \in Nat
  BY DEF TypeInv, TypeOK
<1>1. CASE UNCHANGED <<otp, askedBy, uses>>
  BY <1>0, <1>1, CodesCleared
<1>2. ASSUME NEW r \in Reqs, RegistrationGuess(r) PROVE CodeInv'
  <2> DEFINE a == req[r].doc.attempt
  <2>1. /\ otp' = [otp EXCEPT ![a] = Miss(otp[a], req[r].seen)]
        /\ askedBy' = askedBy /\ uses' = uses
    BY <1>2 DEF RegistrationGuess
  <2>2. \A row \in Row : \A n : Miss(row, n).code \in {row.code, 0}
    BY DEF Miss, Row
  <2>3. \A b \in Attempts : otp'[b].code \in {otp[b].code, 0}
    BY <1>0, <2>1, <2>2
  <2> QED
    BY <1>0, <2>1, <2>3, CodesCleared
<1>3. ASSUME NEW a \in Attempts, CodeCools(a) \/ CodeExpires(a) PROVE CodeInv'
  <2>1. askedBy' = askedBy /\ uses' = uses
    BY <1>3 DEF CodeCools, CodeExpires, history
  <2>2. \A b \in Attempts : otp'[b].code = otp[b].code
    <3>1. otp[a] \in Row
      BY <1>0
    <3>2. /\ [otp[a] EXCEPT !.cooling = FALSE].code = otp[a].code
          /\ [otp[a] EXCEPT !.expired = TRUE, !.cooling = FALSE].code = otp[a].code
      BY <3>1 DEF Row
    <3>3. \/ otp' = [otp EXCEPT ![a] = [otp[a] EXCEPT !.cooling = FALSE]]
          \/ otp' = [otp EXCEPT ![a] = [otp[a] EXCEPT !.expired = TRUE,
                                                     !.cooling = FALSE]]
      BY <1>0, <1>3 DEF CodeCools, CodeExpires
    <3> QED
      BY <1>0, <3>2, <3>3
  <2> QED
    BY <1>0, <2>1, <2>2, CodesCleared
<1>4. CASE Tables
  <2>1. CASE \A a \in Attempts : ~CodeCools(a) /\ ~CodeExpires(a)
    BY <1>1, <1>4, <2>1
    DEF Tables, LockExpires, ToggleAccount, WebSignUp, WebLink, WebUnlink, history
  <2> QED
    BY <1>3, <2>1
<1>5. ASSUME NEW r \in Reqs, Moves(r) \/ Step(r, Idle) PROVE CodeInv'
  BY <1>1, <1>5, MovesOK DEF Step, history
<1>6. ASSUME NEW r \in Reqs,
             \/ Crash(r) \/ SetTransactionIfStatus(r) \/ AcquireExchangeLock(r)
             \/ ReleaseExchangeLock(r) \/ LinkCommit(r) \/ ExchangeSave(r)
      PROVE  CodeInv'
  BY <1>1, <1>6 DEF Crash, SetTransactionIfStatus, AcquireExchangeLock,
     ReleaseExchangeLock, LinkCommit, ExchangeSave, history
<1>7. ASSUME NEW t \in Txns, Start(t) \/ TransactionExpires(t) PROVE CodeInv'
  BY <1>1, <1>7 DEF Start, TransactionExpires, history
<1>8. CASE UNCHANGED vars
  BY <1>1, <1>8 DEF vars, history
<1> QED
  BY <1>2, <1>4, <1>5, <1>6, <1>7, <1>8, NextCases, OtpSendCodes, CommitCodes

\* A committed registration survives whatever became of its request: until the
\* student unlinks the identity, the transaction that asked for it leads to the
\* account.  Its code is stored nowhere, even when the lock fails to serialise.
THEOREM RegistrationsKept == Spec => []RegistrationKept
<1> DEFINE Inv == TypeInv /\ PastInv /\ UseInv /\ CodeInv
<1>1. Init => Inv
  <2> SUFFICES ASSUME Init PROVE PastInv /\ UseInv /\ CodeInv
    BY TypeInit
  <2>1. \A r \in Reqs : req[r].pc = "idle"
    BY DEF Init, Idle
  <2>2. uses = {} /\ askedBy = <<>> /\ \A a \in Attempts : otp[a].code = 0
    BY DEF Init
  <2>3. PastInv
    BY <2>1, Unread DEF PastInv, LinkSteps, OtpSteps, RegSteps
  <2>4. UseInv /\ CodeInv
    BY <2>2 DEF UseInv, CodeInv
  <2> QED
    BY <2>3, <2>4
<1>2. Inv /\ [Next]_vars => Inv'
  BY TypeStep, PastStep, UseKeptStep, CodeStep
<1>3. Inv => RegistrationKept
  BY DEF UseInv, KeptUse, CodeInv, RegistrationKept, Owns, Open
<1> HIDE DEF Inv
<1> QED
  BY <1>1, <1>2, <1>3, PTL DEF Spec

-----------------------------------------------------------------------------
(* Five guesses end a code *)

OneTransaction == \A t, u \in Txns : t = u

\* The wrong guesses of the code a row stores.
GuessesOf(a) == guesses[otp[a].code]

\* Codes not sent yet have no guesses.
GuessCount ==
  \A c \in Codes : /\ guesses[c] >= 0
                   /\ c # 0 => guesses[c] <= 5
                   /\ c > Len(askedBy) => guesses[c] = 0

\* A stored code has guesses left, and its row counts them, with the resends.
RowCount ==
  \A a \in Attempts : /\ otp[a].count >= 0
                      /\ otp[a].code # 0 => GuessesOf(a) <= otp[a].count
                                              /\ GuessesOf(a) <= 4

\* The count read before it is written is no less than the guesses so far.
SeenCount ==
  \A r \in Reqs : req[r].pc = "g_guess" =>
    LET a == req[r].doc.attempt IN
    /\ req[r].seen >= 0
    /\ otp[a].code # 0 => GuessesOf(a) <= req[r].seen

GuessInv == GuessCount /\ RowCount /\ SeenCount

LEMMA GuessTypes ==
  ASSUME TypeInv
  PROVE  /\ guesses \in [Codes -> Int] /\ otp \in [Attempts -> Row]
         /\ req \in [Reqs -> Request] /\ Len(askedBy) \in Nat
         /\ \A a \in Attempts : otp[a].code \in Codes /\ otp[a].count \in Int
         /\ \A r \in Reqs : /\ req[r].seen \in Int
                            /\ req[r].pc = "g_guess" => req[r].doc.attempt \in Attempts
<1>1. otp \in [Attempts -> Row] /\ req \in [Reqs -> Request]
  BY DEF TypeInv, TypeOK
<1>2. \A r \in Reqs : req[r].pc = "g_guess" => req[r].doc.attempt \in Attempts
  BY TypeFacts DEF ReqOK, Knows, RegSteps, Request, Doc
<1> QED
  BY <1>1, <1>2 DEF TypeInv, TypeOK, Row, Request

\* Steps that guess and send nothing.
LEMMA GuessesStay ==
  ASSUME TypeInv, GuessInv, guesses' = guesses, askedBy' = askedBy,
         \A a \in Attempts : otp'[a].count = otp[a].count
                               /\ otp'[a].code \in {otp[a].code, 0},
         \A r \in Reqs : req'[r].pc = "g_guess" =>
           \/ req'[r] = req[r]
           \/ req'[r].doc.attempt \in Attempts
                /\ req'[r].seen = otp[req'[r].doc.attempt].count
  PROVE  GuessInv'
<1>1. GuessCount'
  BY DEF GuessInv, GuessCount
<1>2. RowCount'
  BY DEF GuessInv, RowCount, GuessesOf
<1>3. ASSUME NEW r \in Reqs, req'[r].pc = "g_guess"
      PROVE  /\ req'[r].seen >= 0
             /\ otp'[req'[r].doc.attempt].code # 0 =>
                  guesses'[otp'[req'[r].doc.attempt].code] <= req'[r].seen
  <2>1. CASE req'[r] = req[r]
    <3>1. req[r].doc.attempt \in Attempts
      BY <1>3, <2>1, GuessTypes
    <3> QED
      BY <1>3, <2>1, <3>1 DEF GuessInv, SeenCount, GuessesOf
  <2>2. CASE /\ req'[r].doc.attempt \in Attempts
             /\ req'[r].seen = otp[req'[r].doc.attempt].count
    BY <2>2 DEF GuessInv, RowCount, GuessesOf
  <2> QED
    BY <1>3, <2>1, <2>2
<1>4. SeenCount'
  BY <1>3 DEF SeenCount, GuessesOf
<1> QED
  BY <1>1, <1>2, <1>4 DEF GuessInv

\* The row read by a request that is about to guess.
LEMMA AttemptSeen ==
  ASSUME TypeInv, NEW r \in Reqs, Moves(r), req'[r].pc = "g_guess"
  PROVE  /\ req'[r].doc.attempt \in Attempts
         /\ req'[r].seen = otp[req'[r].doc.attempt].count
<1> DEFINE q == req[r]
<1>0. req \in [Reqs -> Request] /\ q \in Request
  BY TypeFacts DEF TypeInv, TypeOK
<1>1. PICK p : StepOK(r, p) /\ Step(r, p)
  BY MovesOK
<1>2. req'[r] = p
  BY <1>0, <1>1 DEF Step, Go
<1>3. CASE RegistrationAttempt(r)
  <2>1. req'[r] # Leave(q)
    BY TypeFacts, LeaveOK
  <2>2. [q EXCEPT !.pc = "g_commit"].pc = "g_commit"
    BY <1>0 DEF Request
  <2>3. req'[r] = [q EXCEPT !.pc = "g_guess", !.seen = otp[q.doc.attempt].count]
    BY <1>0, <1>3, <2>1, <2>2 DEF RegistrationAttempt, Step, Go
  <2>4. req'[r].doc = q.doc /\ req'[r].seen = otp[q.doc.attempt].count
    BY <1>0, <2>3 DEF Request
  <2>5. q.doc.attempt \in Attempts
    BY <1>3, TypeFacts DEF RegistrationAttempt, ReqOK, Knows, RegSteps, Request, Doc
  <2> QED
    BY <2>4, <2>5
<1>4. CASE ~RegistrationAttempt(r)
  <2>1. ASSUME NEW x, Step(r, x), x.pc # "g_guess" PROVE FALSE
    BY <1>0, <2>1 DEF Step, Go
  <2>2. \A doc : ToCas(q, doc).pc = "cas"
    BY <1>0 DEF ToCas, Request
  <2>3. Leave(q).pc # "g_guess" /\ Idle.pc # "g_guess"
    BY TypeFacts, LeaveOK, IdleOK
  <2>4. \A pc : [q EXCEPT !.pc = pc].pc = pc
    BY <1>0 DEF Request
  <2>5. ~Arrive(r)
    <3>1. SUFFICES ASSUME Arrive(r) PROVE FALSE
      OBVIOUS
    <3>2. \A t \in Txns : \A doc :
            ToCas([Idle EXCEPT !.txn = t, !.doc = txn[t]], doc).pc = "cas"
      BY DEF ToCas, Idle
    <3> QED
      BY <2>1, <3>1, <3>2 DEF Arrive, Complete, Cancel, LinkAccount,
         RequestRegistrationOtp, CompleteRegistration, Exchange, Idle
  <2>6. ~CompleteProvider(r) /\ ~CompleteAccount(r) /\ ~RegistrationProvider(r)
    <3> DEFINE owner == provider[q.doc.identity]
    <3>1. /\ [q EXCEPT !.pc = "c_account", !.acct = owner].pc = "c_account"
          /\ [q EXCEPT !.pc = "g_account", !.acct = owner].pc = "g_account"
          /\ [q EXCEPT !.pc = "g_conflict"].pc = "g_conflict"
      BY <1>0 DEF Request
    <3>2. ~CompleteProvider(r)
      BY <2>1, <3>1 DEF CompleteProvider
    <3>3. ~CompleteAccount(r)
      BY <2>1, <2>2 DEF CompleteAccount
    <3>4. ~RegistrationProvider(r)
      BY <2>1, <3>1 DEF RegistrationProvider
    <3> QED
      BY <3>2, <3>3, <3>4
  <2>7. ~LinkStudent(r) /\ ~RegistrationAccount(r) /\ ~ExchangeIssue(r) /\ ~Fail(r)
    BY <2>1, <2>2, <2>3, <2>4
    DEF LinkStudent, RegistrationAccount, ExchangeIssue, Fail
  <2>8. ~LinkProvider(r) /\ ~OtpAttempt(r)
    <3>1. ASSUME NEW x
          PROVE  /\ [q EXCEPT !.pc = "l_commit", !.seen = x].pc = "l_commit"
                 /\ [q EXCEPT !.pc = "o_send", !.attempt = x].pc = "o_send"
                 /\ [q EXCEPT !.pc = "o_send"].pc = "o_send"
      BY <1>0 DEF Request
    <3>2. ~LinkProvider(r)
      BY <2>1, <2>3, <3>1 DEF LinkProvider
    <3>3. ~OtpAttempt(r)
      BY <2>1, <2>3, <3>1 DEF OtpAttempt
    <3> QED
      BY <3>2, <3>3
  <2>9. ~OtpConflict(r) /\ ~RegistrationConflict(r)
    <3>1. \A doc, next : next # "g_guess" =>
            Conflict(q, doc, next).pc # "g_guess"
      BY <2>2, <2>3, <2>4 DEF Conflict
    <3> QED
      BY <2>1, <3>1 DEF OtpConflict, RegistrationConflict
  <2>10. ~RegistrationReread(r) /\ ~ExchangeReread(r)
    <3>1. \A doc : /\ [q EXCEPT !.pc = "g_provider", !.doc = doc].pc = "g_provider"
                   /\ [q EXCEPT !.pc = "x_issue", !.doc = doc].pc = "x_issue"
      BY <1>0 DEF Request
    <3> QED
      BY <2>1, <2>3, <3>1 DEF RegistrationReread, ExchangeReread
  <2> QED
    BY <1>4, <2>5, <2>6, <2>7, <2>8, <2>9, <2>10 DEF Moves
<1> QED
  BY <1>3, <1>4

\* Nobody else is about to guess: a guess is made under the transaction's lock.
LEMMA WrongGuess ==
  ASSUME TypeInv, LockInv, CodeInv, GuessInv, OneTransaction, NEW r \in Reqs,
         RegistrationGuess(r)
  PROVE  GuessInv'
<1> DEFINE q == req[r]
           a == q.doc.attempt
           c == otp[a].code
<1>0. /\ q.pc = "g_guess" /\ a \in Attempts /\ c \in Codes /\ q.seen \in Int
      /\ otp[a] \in Row
      /\ otp' = [otp EXCEPT ![a] = Miss(otp[a], q.seen)]
      /\ guesses' = [guesses EXCEPT ![c] = @ + 1]
      /\ askedBy' = askedBy /\ Go(r, Leave(q))
  BY GuessTypes DEF RegistrationGuess
<1>1. /\ guesses \in [Codes -> Int] /\ otp \in [Attempts -> Row]
      /\ Codes \subseteq Nat /\ Len(askedBy) \in Nat
      /\ \A b \in Attempts : otp[b].code \in Codes /\ otp[b].count \in Int
  BY GuessTypes, DesktopAuthAssumption DEF Codes
<1>2. guesses'[c] = guesses[c] + 1 /\ \A d \in Codes \ {c} : guesses'[d] = guesses[d]
  BY <1>0, <1>1
<1>3. /\ otp'[a].count = otp[a].count + 1
      /\ otp'[a].code = IF q.seen + 1 >= 5 THEN 0 ELSE c
      /\ \A b \in Attempts \ {a} : otp'[b] = otp[b]
  <2>1. otp'[a] = Miss(otp[a], q.seen) /\ \A b \in Attempts \ {a} : otp'[b] = otp[b]
    BY <1>0, <1>1
  <2>2. /\ Miss(otp[a], q.seen).count = otp[a].count + 1
        /\ Miss(otp[a], q.seen).code = IF q.seen + 1 >= 5 THEN 0 ELSE c
    BY <1>0 DEF Miss, LastGuess, Row
  <2> QED
    BY <2>1, <2>2
<1>4. c # 0 => /\ guesses[c] <= q.seen /\ guesses[c] <= 4
               /\ guesses[c] <= otp[a].count
  BY <1>0 DEF GuessInv, SeenCount, RowCount, GuessesOf
<1>5. GuessCount'
  <2>1. c <= Len(askedBy)
    BY <1>0 DEF CodeInv
  <2>2. ASSUME NEW d \in Codes
        PROVE  /\ guesses'[d] >= 0 /\ (d # 0 => guesses'[d] <= 5)
               /\ (d > Len(askedBy) => guesses'[d] = 0)
    <3>1. CASE d = c
      <4>1. guesses[c] \in Int /\ c \in Nat /\ guesses[c] >= 0
        BY <1>0, <1>1 DEF GuessInv, GuessCount
      <4>2. guesses'[c] >= 0 /\ (c # 0 => guesses'[c] <= 5)
        BY <1>2, <1>4, <4>1
      <4>3. ~(c > Len(askedBy))
        BY <1>1, <2>1, <4>1
      <4> QED
        BY <3>1, <4>2, <4>3
    <3>2. CASE d # c
      BY <1>2, <3>2 DEF GuessInv, GuessCount
    <3> QED
      BY <3>1, <3>2
  <2> QED
    BY <1>0, <2>2 DEF GuessCount
<1>6. RowCount'
  <2>1. ASSUME NEW b \in Attempts
        PROVE  /\ otp'[b].count >= 0
               /\ otp'[b].code # 0 => /\ guesses'[otp'[b].code] <= otp'[b].count
                                      /\ guesses'[otp'[b].code] <= 4
    <3>1. CASE b = a
      <4>1. otp[a].count >= 0 /\ otp[a].count \in Int /\ guesses[c] \in Int
        BY <1>0, <1>1 DEF GuessInv, RowCount
      <4>2. otp'[a].code # 0 => c # 0 /\ otp'[a].code = c /\ q.seen + 1 < 5
        BY <1>0, <1>3
      <4>3. otp'[a].count >= 0
        BY <1>3, <4>1
      <4>4. ASSUME otp'[a].code # 0
            PROVE  guesses'[c] <= otp'[a].count /\ guesses'[c] <= 4
        <5>1. guesses[c] <= q.seen /\ guesses[c] <= otp[a].count /\ q.seen < 4
          BY <1>0, <1>4, <4>2, <4>4
        <5>2. guesses'[c] = guesses[c] + 1 /\ otp'[a].count = otp[a].count + 1
          BY <1>2, <1>3
        <5> QED
          <6>1. guesses[c] \in Int /\ q.seen \in Int /\ otp[a].count \in Int
            BY <1>0, <4>1
          <6> QED
            BY ONLY <5>1, <5>2, <6>1
      <4> QED
        BY <3>1, <4>2, <4>3, <4>4
    <3>2. CASE b # a
      <4>1. otp[b].code # 0 => otp[b].code \in Codes \ {c}
        BY <1>0, <1>1, <3>2 DEF CodeInv
      <4>2. otp'[b] = otp[b]
        BY <1>3, <3>2
      <4>3. /\ otp[b].count >= 0
            /\ otp[b].code # 0 => /\ guesses[otp[b].code] <= otp[b].count
                                  /\ guesses[otp[b].code] <= 4
        BY DEF GuessInv, RowCount, GuessesOf
      <4> QED
        BY <1>2, <4>1, <4>2, <4>3
    <3> QED
      BY <3>1, <3>2
  <2> QED
    BY <2>1 DEF RowCount, GuessesOf
<1>7. ASSUME NEW p \in Reqs PROVE req'[p].pc # "g_guess"
  <2>1. CASE p = r
    <3>1. req'[p] = Leave(q)
      BY <1>0, <2>1, GuessTypes DEF Go
    <3> QED
      BY <3>1, TypeFacts, LeaveOK
  <2>2. CASE p # r
    <3>1. req'[p] = req[p]
      BY <1>0, <2>2, GuessTypes DEF Go
    <3>2. ASSUME req[p].pc = "g_guess" PROVE FALSE
      <4>1. /\ req[p].held /\ req[r].held
            /\ req[p].txn \in Txns /\ req[r].txn \in Txns
        BY <1>0, <3>2, TypeFacts DEF ReqOK, HeldOK, HeldSteps, RegSteps
      <4>2. req[p].txn = req[r].txn
        BY <4>1 DEF OneTransaction
      <4> QED
        BY <2>2, <4>1, <4>2, Exclusion
    <3> QED
      BY <3>1, <3>2
  <2> QED
    BY <2>1, <2>2
<1>8. SeenCount'
  BY <1>7 DEF SeenCount
<1> QED
  BY <1>5, <1>6, <1>8 DEF GuessInv

LEMMA FreshCode ==
  ASSUME TypeInv, CodeInv, GuessInv, NEW r \in Reqs, OtpSend(r), ~Step(r, Idle)
  PROVE  GuessInv'
<1> DEFINE n == Len(askedBy) + 1
<1>1. PICK a \in Attempts \cup {req[r].attempt} :
        /\ req[r].attempt # None => a = req[r].attempt
        /\ req[r].attempt = None => a \in Attempts
        /\ otp' = [otp EXCEPT ![a] =
             [phone |-> req[r].phone, code |-> n, expired |-> FALSE,
              cooling |-> TRUE,
              count |-> IF req[r].attempt = None THEN 0 ELSE @.count + 1]]
        /\ Go(r, ToCas(req[r], [req[r].doc EXCEPT !.attempt = a]))
  BY DEF OtpSend
<1>2. /\ guesses' = guesses /\ askedBy' = Append(askedBy, req[r].txn)
      /\ req[r].pc = "o_send" /\ n \in Codes
  BY DEF OtpSend
<1>3. /\ a \in Attempts /\ req[r].txn \in Txns /\ askedBy \in Seq(Txns)
      /\ otp \in [Attempts -> Row] /\ req \in [Reqs -> Request]
      /\ req[r] \in Request
  BY <1>1, <1>2, TypeFacts DEF Request, TypeInv, TypeOK
<1>4. Len(askedBy') = n /\ Len(askedBy) \in Nat /\ Codes \subseteq Nat
      /\ guesses \in [Codes -> Int]
  BY <1>2, <1>3, GuessTypes, DesktopAuthAssumption DEF Codes
<1>5. /\ otp'[a].code = n
      /\ otp'[a].count = IF req[r].attempt = None THEN 0 ELSE otp[a].count + 1
      /\ \A b \in Attempts \ {a} : otp'[b] = otp[b]
  BY <1>1, <1>3
<1>6. guesses[n] = 0
  BY <1>2, <1>4 DEF GuessInv, GuessCount
<1>7. GuessCount'
  <2>1. \A c \in Codes : c > Len(askedBy') => c > Len(askedBy)
    BY <1>4
  <2> QED
    BY <1>2, <2>1 DEF GuessInv, GuessCount
<1>8. RowCount'
  <2>1. otp[a].count >= 0 /\ otp[a].count \in Int
    BY <1>3, GuessTypes DEF GuessInv, RowCount
  <2>2. otp'[a].count >= 0
    BY <1>5, <2>1
  <2>3. ASSUME NEW b \in Attempts
        PROVE  /\ otp'[b].count >= 0
               /\ otp'[b].code # 0 => /\ guesses'[otp'[b].code] <= otp'[b].count
                                      /\ guesses'[otp'[b].code] <= 4
    BY <1>2, <1>5, <1>6, <2>2 DEF GuessInv, RowCount, GuessesOf
  <2> QED
    BY <2>3 DEF RowCount, GuessesOf
<1>9. ASSUME NEW p \in Reqs, req'[p].pc = "g_guess"
      PROVE  /\ req'[p].seen >= 0
             /\ otp'[req'[p].doc.attempt].code # 0 =>
                  guesses'[otp'[req'[p].doc.attempt].code] <= req'[p].seen
  <2>1. req'[p] = req[p]
    <3>1. req'[r].pc = "cas"
      BY <1>1, <1>3 DEF Go, ToCas, Request
    <3> QED
      BY <1>1, <1>3, <1>9, <3>1 DEF Go
  <2>2. req[p].doc.attempt \in Attempts
    BY <1>9, <2>1, GuessTypes
  <2>3. /\ req[p].seen >= 0
        /\ otp[req[p].doc.attempt].code # 0 =>
             guesses[otp[req[p].doc.attempt].code] <= req[p].seen
    BY <1>9, <2>1 DEF GuessInv, SeenCount, GuessesOf
  <2> QED
    BY <1>2, <1>5, <1>6, <2>1, <2>2, <2>3
<1>10. SeenCount'
  BY <1>9 DEF SeenCount, GuessesOf
<1> QED
  BY <1>7, <1>8, <1>10 DEF GuessInv

LEMMA GuessStep ==
  ASSUME TypeInv, LockInv, CodeInv, GuessInv, OneTransaction, [Next]_vars
  PROVE  GuessInv'
<1>0. req \in [Reqs -> Request] /\ otp \in [Attempts -> Row]
  BY GuessTypes
<1>1. ASSUME UNCHANGED <<otp, guesses, askedBy>>,
             \A p \in Reqs : req'[p] = req[p] \/ req'[p].pc # "g_guess"
      PROVE  GuessInv'
  BY <1>1, GuessesStay
<1>2. ASSUME NEW r \in Reqs, Moves(r) PROVE GuessInv'
  <2>1. UNCHANGED <<otp, guesses, askedBy>>
    BY <1>2, MovesOK DEF Step, history
  <2>2. \A p \in Reqs \ {r} : req'[p] = req[p]
    BY <1>0, <1>2, MovesOK DEF Step, Go
  <2>3. req'[r].pc = "g_guess" => /\ req'[r].doc.attempt \in Attempts
                                  /\ req'[r].seen = otp[req'[r].doc.attempt].count
    BY <1>2, AttemptSeen
  <2> QED
    BY <2>1, <2>2, <2>3, GuessesStay
<1>3. ASSUME NEW r \in Reqs, NEW p, Go(r, p), p.pc # "g_guess",
             UNCHANGED <<otp, guesses, askedBy>>
      PROVE  GuessInv'
  BY <1>0, <1>1, <1>3 DEF Go
<1>4. ASSUME NEW r \in Reqs,
             \/ Crash(r) \/ SetTransactionIfStatus(r) \/ AcquireExchangeLock(r)
             \/ ReleaseExchangeLock(r) \/ LinkCommit(r) \/ ExchangeSave(r)
      PROVE  GuessInv'
  <2>1. UNCHANGED <<otp, guesses, askedBy>>
    BY <1>4 DEF Crash, SetTransactionIfStatus, AcquireExchangeLock,
       ReleaseExchangeLock, LinkCommit, ExchangeSave, history
  <2>2. \E p : Go(r, p)
    BY <1>4 DEF Crash, SetTransactionIfStatus, AcquireExchangeLock,
       ReleaseExchangeLock, LinkCommit, ExchangeSave
  <2>3. req'[r].pc # "g_guess"
    <3>1. req[r] \in Request
      BY TypeFacts
    <3>2. Idle.pc # "g_guess" /\ Leave(req[r]).pc # "g_guess"
      BY TypeFacts, LeaveOK, IdleOK
    <3>3. CASE AcquireExchangeLock(r)
      BY <3>2, <3>3, AcquireEffect
    <3>4. CASE LinkCommit(r)
      <4>1. \A doc : ToCas(req[r], doc).pc = "cas"
        BY <3>1 DEF ToCas, Request
      <4> QED
        BY <1>0, <3>2, <3>4, <4>1 DEF LinkCommit, Go
    <3>5. CASE ExchangeSave(r)
      BY <1>0, <3>1, <3>5 DEF ExchangeSave, Go, Request
    <3>6. CASE Crash(r) \/ ReleaseExchangeLock(r) \/ SetTransactionIfStatus(r)
      BY <1>0, <3>2, <3>6 DEF Crash, ReleaseExchangeLock, SetTransactionIfStatus, Go
    <3> QED
      BY <1>4, <3>3, <3>4, <3>5, <3>6
  <2> QED
    BY <1>0, <1>1, <2>1, <2>2, <2>3 DEF Go
<1>5. ASSUME NEW r \in Reqs, RegistrationCommit(r) PROVE GuessInv'
  <2> DEFINE q == req[r]
             a == q.doc.attempt
  <2>1. guesses' = guesses /\ askedBy' = askedBy
    BY <1>5 DEF RegistrationCommit
  <2>2. q \in Request /\ a \in Attempts /\ otp[a] \in Row
    BY <1>0, <1>5, TypeFacts
    DEF RegistrationCommit, ReqOK, Request, Knows, RegSteps, Doc
  <2>3. Spend(otp[a]).code = 0 /\ Spend(otp[a]).count = otp[a].count
    BY <2>2 DEF Spend, Row
  <2>4. otp' = otp \/ otp' = [otp EXCEPT ![a] = Spend(otp[a])]
    BY <1>5 DEF RegistrationCommit
  <2>5. \A b \in Attempts : /\ otp'[b].count = otp[b].count
                            /\ otp'[b].code \in {otp[b].code, 0}
    BY <1>0, <2>3, <2>4
  <2>6. \E p : Go(r, p) /\ p.pc # "g_guess"
    <3>1. \A doc : ToCas(q, doc).pc = "cas"
      BY <2>2 DEF ToCas, Request
    <3>2. Leave(q).pc # "g_guess"
      BY TypeFacts, LeaveOK
    <3> QED
      BY <1>5, <3>1, <3>2 DEF RegistrationCommit
  <2>7. \A p \in Reqs : req'[p] = req[p] \/ req'[p].pc # "g_guess"
    BY <1>0, <2>6 DEF Go
  <2> QED
    BY <2>1, <2>5, <2>7, GuessesStay
<1>6. ASSUME NEW r \in Reqs, OtpSend(r) PROVE GuessInv'
  <2>1. CASE Step(r, Idle)
    BY <1>3, <2>1, IdleOK DEF Step, history
  <2> QED
    BY <1>6, <2>1, FreshCode
<1>7. ASSUME NEW t \in Txns, Start(t) \/ TransactionExpires(t) PROVE GuessInv'
  BY <1>1, <1>7 DEF Start, TransactionExpires, history
<1>8. CASE Tables
  <2>1. /\ req' = req /\ guesses' = guesses /\ askedBy' = askedBy
    BY <1>8, TablesType
    DEF Tables, LockExpires, CodeCools, CodeExpires, ToggleAccount, WebSignUp,
        WebLink, WebUnlink, history
  <2>2. \A b \in Attempts : /\ otp'[b].count = otp[b].count
                            /\ otp'[b].code = otp[b].code
    <3>1. ASSUME NEW a \in Attempts, CodeCools(a) \/ CodeExpires(a),
                 NEW b \in Attempts
          PROVE  otp'[b].count = otp[b].count /\ otp'[b].code = otp[b].code
      <4> DEFINE x == [otp[a] EXCEPT !.cooling = FALSE]
                 y == [otp[a] EXCEPT !.expired = TRUE, !.cooling = FALSE]
      <4>1. otp[a] \in Row
        BY <1>0
      <4>2. /\ x.code = otp[a].code /\ x.count = otp[a].count
            /\ y.code = otp[a].code /\ y.count = otp[a].count
        BY <4>1 DEF Row
      <4>3. otp' = [otp EXCEPT ![a] = x] \/ otp' = [otp EXCEPT ![a] = y]
        BY <1>0, <3>1 DEF CodeCools, CodeExpires
      <4> QED
        BY <1>0, <4>2, <4>3
    <3>2. CASE \A a \in Attempts : ~CodeCools(a) /\ ~CodeExpires(a)
      BY <1>8, <3>2
      DEF Tables, LockExpires, ToggleAccount, WebSignUp, WebLink, WebUnlink
    <3> QED
      BY <3>1, <3>2
  <2> QED
    BY <2>1, <2>2, GuessesStay
<1>9. CASE UNCHANGED vars
  BY <1>1, <1>9 DEF vars, history
<1> QED
  BY <1>2, <1>4, <1>5, <1>6, <1>7, <1>8, <1>9, NextCases, WrongGuess

\* With one transaction, any number of requests and resent codes, and a lock
\* that outlives its holder: a code takes five wrong guesses and no more.
THEOREM GuessesEnd ==
  LockOutlivesHolder /\ OneTransaction /\ Spec => []GuessesBounded
<1> DEFINE Inv == /\ LockOutlivesHolder /\ OneTransaction
                  /\ TypeInv /\ LockInv /\ CodeInv /\ GuessInv
<1>1. LockOutlivesHolder /\ OneTransaction /\ Init => Inv
  <2> SUFFICES ASSUME Init PROVE LockInv /\ CodeInv /\ GuessInv
    BY TypeInit
  <2>1. \A r \in Reqs : req[r].pc = "idle"
    BY DEF Init, Idle
  <2>2. /\ uses = {} /\ askedBy = <<>> /\ \A c \in Codes : guesses[c] = 0
        /\ \A a \in Attempts : otp[a].code = 0 /\ otp[a].count = 0
    BY DEF Init
  <2>3. LockInv
    BY IInvInit DEF IInv
  <2>4. CodeInv
    BY <2>2 DEF CodeInv
  <2>5. GuessInv
    BY <2>1, <2>2 DEF GuessInv, GuessCount, RowCount, SeenCount
  <2> QED
    BY <2>3, <2>4, <2>5
<1>2. Inv /\ [Next]_vars => Inv'
  <2>1. OneTransaction' = OneTransaction
    BY DEF OneTransaction
  <2> QED
    BY <2>1, TypeStep, LockStep, CodeStep, GuessStep
<1>3. Inv => GuessesBounded
  BY DEF GuessInv, GuessCount, GuessesBounded
<1> HIDE DEF Inv
<1> QED
  BY <1>1, <1>2, <1>3, PTL DEF Spec
=============================================================================
