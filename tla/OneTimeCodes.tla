---------------------------- MODULE OneTimeCodes ----------------------------
(***************************************************************************)
(* The codes sent to a phone: a student's, kept in otpAttempts rows        *)
(* (authentication/auth.services.js), and a celebration guest's, kept in   *)
(* the guest's one record (grandCelebration/auth/auth.services.js).  A     *)
(* request for a code reads, sends the message and then stores; one that   *)
(* shows a code reads and then spends it: neither compares what it         *)
(* overwrites with what it read.                                           *)
(***************************************************************************)
EXTENDS Integers, FiniteSets

CONSTANTS
  Callers,   \* requests in flight
  Limit,     \* MAX_OTP_ATTEMPTS, of a row and of a guest's record
  Lifetime,  \* of a code, in ticks; the wait between two codes is one tick
  MaxSends   \* bound on codes

ASSUME OneTimeCodesAssumption ==
  /\ IsFiniteSet(Callers)
  /\ Limit \in Nat \ {0} /\ Lifetime \in Nat \ {0, 1} /\ MaxSends \in Nat

Texts == 1..MaxSends  \* in the order they are sent; random in the code
NoCode == 0
Guest == 0            \* stands for the guest's record among the rows
Records == {Guest} \cup Texts
Unmade == MaxSends + 1    \* rows a request will create
Unsigned == MaxSends + 2

VARIABLES
  attempt,   \* the phone's otpAttempts rows, numbered as created, and the record
  made,      \* rows created
  guest,     \* the guest's record: "none", "new" or "verified"
  caller,    \* requests
  sends,     \* codes sent so far
  due,       \* ticks until a code that was sent expires
  \* history, read by no guard
  used,      \* sign-ins a code gave: 0, 1 or more
  doubled,   \* codes two requests had read before one spent them
  rushed,    \* rows written by requests for a code that overlapped another
  replaced,  \* codes that a later one took the place of
  spoilt     \* codes lost to a failure, to a request that read before they were
             \* stored, or to a second sign-up

codeVars == <<attempt, made, guest, caller, sends, due, used, doubled, rushed, replaced,
              spoilt>>

Attempt == [code: {NoCode} \cup Texts, count: Nat, recent: BOOLEAN]
Absent == [code |-> NoCode, count |-> 0, recent |-> FALSE]

\* `row`: the row or record it read.
Caller == [pc: {"idle", "send", "store", "spend"}, row: Records \cup {Unmade, Unsigned},
           code: {NoCode} \cup Texts, crowded: BOOLEAN]
Gone == [pc |-> "idle", row |-> Unmade, code |-> NoCode, crowded |-> FALSE]

CodesInit ==
  /\ attempt = [i \in Records |-> Absent]
  /\ made = 0 /\ guest = "none"
  /\ caller = [c \in Callers |-> Gone]
  /\ sends = 0 /\ due = [k \in Texts |-> 0]
  /\ used = [k \in Texts |-> 0]
  /\ doubled = {} /\ rushed = {} /\ replaced = {} /\ spoilt = {}

-----------------------------------------------------------------------------
At(c, pc) == caller[c].pc = pc
Ends(c) == caller' = [caller EXCEPT ![c] = Gone]

Works(i) == attempt[i].code # NoCode /\ due[attempt[i].code] > 0

\* assertOtpRateLimit, and the checks like it.
Allowed(i) == attempt[i].count < Limit /\ ~attempt[i].recent

InAsk(c) == At(c, "send") \/ At(c, "store")

\* A request for a code that read `row`; those it overlaps are marked with it.
Asks(c, row) ==
  /\ At(c, "idle")
  /\ LET others == {d \in Callers : InAsk(d)} IN
     caller' = [d \in Callers |->
                  IF d = c THEN [Gone EXCEPT !.pc = "send", !.row = row,
                                             !.crowded = others # {}]
                  ELSE [caller[d] EXCEPT !.crowded = @ \/ d \in others]]
  /\ UNCHANGED <<attempt, made, guest, sends, due, used, doubled, rushed, replaced, spoilt>>

\* sendOtpToPhone: the message leaves before the code is stored.
SendOtpToPhone(c) ==
  /\ At(c, "send") /\ sends < MaxSends
  /\ sends' = sends + 1
  /\ due' = [due EXCEPT ![sends + 1] = Lifetime]
  /\ caller' = [caller EXCEPT ![c].pc = "store", ![c].code = sends + 1]
  /\ UNCHANGED <<attempt, made, guest, used, doubled, rushed, replaced, spoilt>>

-----------------------------------------------------------------------------
(* A student's codes                                                         *)

Live == {i \in 1..made : Works(i)}
LatestRow == CHOOSE i \in Live : \A j \in Live : j <= i

\* logInV2 and sendSignUpOtp: the phone's newest row with a code that has not
\* expired is used again.
SendSignUpOtp(c) ==
  /\ Live # {} => Allowed(LatestRow)
  /\ Asks(c, IF Live = {} THEN Unmade ELSE LatestRow)

\* Mutant: the row keeps its old code, as in the unreachable end of
\* verifyCredential.
Stored_OldCode(row, k) == [row EXCEPT !.count = @ + 1, !.recent = TRUE]

\* The update of a row or record.
Stored(row, k) == [row EXCEPT !.code = k, !.count = @ + 1, !.recent = TRUE]

UpdateOtp(c) ==
  LET q == caller[c] i == q.row old == attempt[i].code IN
  /\ At(c, "store") /\ i \in Records
  /\ attempt' = [attempt EXCEPT ![i] = Stored(@, q.code)]
  /\ rushed' = IF q.crowded THEN rushed \cup {i} ELSE rushed
  /\ IF old > q.code THEN spoilt' = spoilt \cup {old} /\ UNCHANGED replaced
     ELSE replaced' = replaced \cup ({old} \ {NoCode}) /\ UNCHANGED spoilt
  /\ Ends(c)
  /\ UNCHANGED <<made, guest, sends, due, used, doubled>>

CreateOtp(c) ==
  LET i == made + 1 IN
  /\ At(c, "store") /\ caller[c].row = Unmade
  /\ made' = i
  /\ attempt' = [attempt EXCEPT ![i] = [code |-> caller[c].code, count |-> 0, recent |-> TRUE]]
  /\ rushed' = IF caller[c].crowded THEN rushed \cup {i} ELSE rushed
  /\ Ends(c)
  /\ UNCHANGED <<guest, sends, due, used, doubled, replaced, spoilt>>

\* A code is shown and found.
Shows(c, k, i) ==
  /\ At(c, "idle") /\ attempt[i].code = k /\ due[k] > 0
  /\ caller' = [caller EXCEPT ![c] = [Gone EXCEPT !.pc = "spend", !.row = i, !.code = k]]
  /\ doubled' = IF \E d \in Callers : At(d, "spend") /\ caller[d].code = k
                THEN doubled \cup {k} ELSE doubled
  /\ UNCHANGED <<attempt, made, guest, sends, due, used, rushed, replaced, spoilt>>

\* The query that spends a code, whatever the row holds by now.
Spends(c) ==
  LET q == caller[c] now == attempt[q.row].code IN
  /\ At(c, "spend")
  /\ used' = [used EXCEPT ![q.code] = IF @ = 0 THEN 1 ELSE 2]
  /\ spoilt' = IF now \in {NoCode, q.code} THEN spoilt ELSE spoilt \cup {now}
  /\ Ends(c)
  /\ UNCHANGED <<made, sends, due, doubled, rushed, replaced>>

\* verifyLoginV2 and verifyOtpAndSignup.
VerifyLoginV2(c, k) == \E i \in 1..made : Shows(c, k, i)

SpendOtp(c) ==
  /\ caller[c].row # Guest /\ Spends(c)
  /\ attempt' = [attempt EXCEPT ![caller[c].row].code = NoCode,
                                ![caller[c].row].recent = TRUE]
  /\ UNCHANGED guest
-----------------------------------------------------------------------------
(* A guest's codes                                                           *)

\* granCelebrationSignUp of a phone without a record.
GranCelebrationSignUp(c) == guest = "none" /\ Asks(c, Unsigned)

\* granCelebrationSignUp again, grandCelebrationLoginRequestOtp and
\* grandCelebrationResendOtp.
GrandCelebrationResendOtp(c) == guest # "none" /\ Allowed(Guest) /\ Asks(c, Guest)

\* The phone is unique: a second sign-up goes on as a log-in, which a guest who is
\* not verified is refused.
CreateGuest(c) ==
  /\ At(c, "store") /\ caller[c].row = Unsigned
  /\ IF guest = "none"
     THEN /\ guest' = "new"
          /\ attempt' = [attempt EXCEPT ![Guest] = Stored(Absent, caller[c].code)]
          /\ rushed' = IF caller[c].crowded THEN rushed \cup {Guest} ELSE rushed
          /\ Ends(c) /\ UNCHANGED spoilt
     ELSE /\ spoilt' = spoilt \cup {caller[c].code}
          /\ IF guest = "verified" /\ Allowed(Guest)
             THEN caller' = [caller EXCEPT ![c].pc = "send", ![c].row = Guest,
                                           ![c].code = NoCode]
             ELSE Ends(c)
          /\ UNCHANGED <<attempt, guest, rushed>>
  /\ UNCHANGED <<made, sends, due, used, doubled, replaced>>

\* grandCelebrationVerifySignUp and grandCelebrationLogin.
GrandCelebrationLogin(c, k) == Shows(c, k, Guest)

LoggedInRecord(c) ==
  /\ caller[c].row = Guest /\ Spends(c)
  /\ guest' = "verified"
  /\ attempt' = [attempt EXCEPT ![Guest] = [Absent EXCEPT !.recent = TRUE]]

-----------------------------------------------------------------------------
\* Half the life of a code passes, and with it the wait for the next one.
TimePasses ==
  /\ due' = [k \in Texts |-> IF due[k] = 0 THEN 0 ELSE due[k] - 1]
  /\ attempt' = [i \in Records |-> [attempt[i] EXCEPT !.recent = FALSE]]
  /\ UNCHANGED <<made, guest, caller, sends, used, doubled, rushed, replaced, spoilt>>

\* The process dies, or the message or a query fails.
CallFails(c) ==
  /\ ~At(c, "idle") /\ Ends(c)
  /\ spoilt' = IF At(c, "store") THEN spoilt \cup {caller[c].code} ELSE spoilt
  /\ UNCHANGED <<attempt, made, guest, sends, due, used, doubled, rushed, replaced>>

StudentCodes ==
  \E c \in Callers :
    \/ SendSignUpOtp(c) \/ CreateOtp(c) \/ SpendOtp(c)
    \/ \E k \in Texts : VerifyLoginV2(c, k)

GuestCodes ==
  \E c \in Callers :
    \/ GranCelebrationSignUp(c) \/ GrandCelebrationResendOtp(c) \/ CreateGuest(c)
    \/ LoggedInRecord(c)
    \/ \E k \in Texts : GrandCelebrationLogin(c, k)

Sending == \E c \in Callers : SendOtpToPhone(c) \/ UpdateOtp(c) \/ CallFails(c)

CodesNext == StudentCodes \/ GuestCodes \/ Sending \/ TimePasses

CodesSpec == CodesInit /\ [][CodesNext]_codeVars

-----------------------------------------------------------------------------
\* Every variable has its type.
CodesTypeOK ==
  /\ attempt \in [Records -> Attempt]
  /\ made \in 0..sends /\ guest \in {"none", "new", "verified"}
  /\ caller \in [Callers -> Caller]
  /\ sends \in 0..MaxSends /\ due \in [Texts -> 0..Lifetime]
  /\ used \in [Texts -> 0..2]
  /\ doubled \subseteq Texts /\ rushed \subseteq Records
  /\ replaced \subseteq Texts /\ spoilt \subseteq Texts

\* A code signs in once, unless two requests had read it before one spent it; a
\* phone is sent no more codes than the limit and has one code that works, but for
\* requests for a code that overlap; and a code that was sent works until it
\* expires, is used or replaced, unless a failure or a request that read before it
\* was stored took it away.
CodesHold ==
  /\ \A k \in Texts : used[k] > 1 => k \in doubled
  /\ \A i \in Records \ rushed : attempt[i].count <= Limit
  /\ \A i, j \in Texts \ rushed : Works(i) /\ Works(j) => i = j
  /\ \A k \in 1..sends \ (replaced \cup spoilt) :
       used[k] = 0 /\ due[k] > 0 =>
         \/ \E c \in Callers : At(c, "store") /\ caller[c].code = k
         \/ \E i \in Records : attempt[i].code = k
=============================================================================
