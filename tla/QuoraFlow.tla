----------------------------- MODULE QuoraFlow -----------------------------
(***************************************************************************)
(* Questions of students (modules/qna): asking against the daily limit of  *)
(* the course, the queue jobs that read and classify a question, answers,  *)
(* and the mark that solves it and pays the solver.  Requests run together *)
(* at READ COMMITTED; a job is tried again when it fails.                  *)
(***************************************************************************)
EXTENDS Integers, FiniteSets

CONSTANTS
  Calls,        \* requests in flight
  Quoras,       \* question ids
  Students, Solvers,
  Answerers,    \* solvers and students who answer
  NoOne,
  Machine,      \* author of the answers jobs write
  Attempts,     \* attempts of a queue job
  AnswerLimit,  \* answers of one solver to one question
  SageAt,       \* rankCredit.SAGE
  Allowances,   \* daily limits an administrator sets
  MaxDay,       \* bound on days
  MaxSlips      \* bound on failing jobs and transactions

ASSUME QuoraAssumption ==
  /\ NoOne \notin Calls \cup Quoras \cup Students \cup Solvers \cup {Machine}
  /\ Machine \notin Students \cup Solvers
  /\ Answerers \subseteq Students \cup Solvers /\ Students \cap Solvers = {}
  /\ Attempts \in Nat \ {0} /\ AnswerLimit \in Nat /\ SageAt \in Nat
  /\ Allowances \subseteq Nat /\ MaxDay \in Nat /\ MaxSlips \in Nat

VARIABLES
  quora,    \* rows: the asking student and the status, "none" without a row
  limit,    \* the courseQuoraDailyLimit row: dailyLimit, lastLimit, day of updatedAt
  today,
  job,      \* the queue job of a question: its stage and the attempts made
  answers,  \* answers of an author to a question
  solvedBy, \* totalSolved of a solver, and with it his credit
  call,     \* requests
  slips,    \* failing jobs and transactions so far
  \* history, read by no guard
  asked,    \* questions asked
  granted,  \* what limits allowed so far
  opened,   \* the last day whose allowance was granted
  together, \* questions in flight while another write changed the limit
  early,    \* questions that opened a day with nothing left
  overruled,\* an administrator's limit was overwritten by a question in flight
  forced,   \* questions posted by force
  twin,     \* questions in flight together with one of the same student
  paid,     \* payments for a question
  contested,\* questions that two calls were marking at once
  reopened, \* questions a job wrote over after they were solved
  dead      \* questions whose job ran out of attempts

Authors == Answerers \cup {Machine}

asking == <<limit, today, asked, granted, opened, together, early, overruled, twin>>
solving == <<answers, solvedBy, paid, contested>>
quoraVars == <<quora, job, call, slips, asking, solving, forced, reopened, dead>>

\* What a call carries: the question, who asks or answers, the limit it read.
Call == [pc: {"idle", "limit", "write", "answer", "mark"}, quora: Quoras \cup {NoOne},
         who: Students \cup Authors \cup {NoOne}, daily: Int, last: Nat, sameDay: BOOLEAN]

Unused == [pc |-> "idle", quora |-> NoOne, who |-> NoOne, daily |-> 0, last |-> 0,
           sameDay |-> FALSE]
NoJob == [stage |-> "none", tries |-> 0]

QuoraInit ==
  /\ quora = [q \in Quoras |-> [student |-> NoOne, status |-> "none"]]
  /\ \E n \in Allowances : limit = [daily |-> n, last |-> n, day |-> 0] /\ granted = n
  /\ today = 0
  /\ job = [q \in Quoras |-> NoJob]
  /\ answers = [q \in Quoras |-> [a \in Authors |-> 0]]
  /\ solvedBy = [s \in Solvers |-> 0]
  /\ call = [c \in Calls |-> Unused]
  /\ slips = 0
  /\ asked = 0 /\ opened = 0 /\ together = {} /\ early = {} /\ overruled = FALSE
  /\ forced = {} /\ twin = {}
  /\ paid = [q \in Quoras |-> 0]
  /\ contested = {} /\ reopened = {} /\ dead = {}

-----------------------------------------------------------------------------
Status(q) == quora[q].status
Open(s) == {q \in Quoras : quora[q].student = s /\ Status(q) \in {"pending", "unsolved"}}

Become(q, status) == quora' = [quora EXCEPT ![q].status = status]
Turn(c, pc) == call' = [call EXCEPT ![c].pc = pc]
Return(c) == call' = [call EXCEPT ![c] = Unused]
Slip == slips < MaxSlips /\ slips' = slips + 1

\* The questions of the calls at a step, but for call c's.
Besides(c, pc) == {call[d].quora : d \in {d \in Calls \ {c} : call[d].pc = pc}}

-----------------------------------------------------------------------------
(* postNewQuora.                                                             *)

\* The student has no question that is pending or unsolved.
MayAsk(s) == Open(s) = {}

PostNewQuora(c, q, s) ==
  /\ call[c] = Unused /\ Status(q) = "none" /\ \A d \in Calls : call[d].quora # q
  /\ MayAsk(s)
  /\ call' = [call EXCEPT ![c] = [Unused EXCEPT !.pc = "limit", !.quora = q, !.who = s]]
  /\ twin' = twin \cup (LET same == {call[d].quora : d \in {d \in Calls :
                              call[d].pc \in {"limit", "write"} /\ call[d].who = s}}
                        IN  IF same = {} THEN {} ELSE same \cup {q})
  /\ UNCHANGED <<quora, job, slips, limit, today, asked, granted, opened, together, early,
                 overruled, solving, forced, reopened, dead>>

\* Mutant: the last question is asked twice.
Refused_Below(sameDay) == sameDay /\ limit.daily < 0

\* On the day of its last write the limit has to be positive.
Refused(sameDay) == sameDay /\ limit.daily <= 0

ReadLimit(c) ==
  LET sameDay == limit.day = today IN
  /\ call[c].pc = "limit"
  /\ IF Refused(sameDay) THEN Return(c)
     ELSE call' = [call EXCEPT ![c] = [@ EXCEPT !.pc = "write", !.daily = limit.daily,
                                         !.last = limit.last, !.sameDay = sameDay]]
  /\ UNCHANGED <<quora, job, slips, asking, solving, forced, reopened, dead>>

\* The first question of a day adds the allowance to what it read, then each takes one.
Lowered(c) ==
  (IF call[c].sameDay THEN limit.daily ELSE call[c].last + call[c].daily) - 1

\* The writes of the transaction lock the row until the commit; the job is queued.
CreateQuora(c) ==
  LET q == call[c].quora
      rest == Besides(c, "write")
      resets == ~call[c].sameDay
  IN
  /\ call[c].pc = "write"
  /\ limit' = [limit EXCEPT !.daily = Lowered(c), !.day = today]
  /\ quora' = [quora EXCEPT ![q] = [student |-> call[c].who, status |-> "pending"]]
  /\ job' = [job EXCEPT ![q].stage = "ocr"]
  /\ asked' = asked + 1
  /\ granted' = IF resets /\ opened < today THEN granted + limit.last ELSE granted
  /\ opened' = IF resets THEN today ELSE opened
  /\ together' = together \cup (IF rest = {} THEN {} ELSE rest \cup {q})
  /\ early' = early \cup (IF resets /\ call[c].last + call[c].daily <= 0 THEN {q} ELSE {})
  /\ Return(c)
  /\ UNCHANGED <<slips, today, overruled, twin, solving, forced, reopened, dead>>

\* Rolled back.  The queued job finds no row, fails three times and is dropped.
CreateFails(c) ==
  /\ call[c].pc \in {"limit", "write"} /\ Slip
  /\ Return(c)
  /\ UNCHANGED <<quora, job, asking, solving, forced, reopened, dead>>

\* updateDailyLimitModel.
UpdateDailyLimit(n) ==
  /\ limit' = [daily |-> n, last |-> n, day |-> today]
  /\ granted' = asked + n /\ opened' = today
  /\ together' = together \cup Besides(NoOne, "write")
  /\ overruled' = (overruled \/ \E c \in Calls : call[c].pc = "write" /\ ~call[c].sameDay)
  /\ UNCHANGED <<quora, job, call, slips, today, asked, early, twin, solving, forced,
                 reopened, dead>>

NextDay ==
  /\ today < MaxDay /\ today' = today + 1
  /\ UNCHANGED <<quora, job, call, slips, limit, asked, granted, opened, together, early,
                 overruled, twin, solving, forced, reopened, dead>>

\* forcePostQuora.
ForcePostQuora(q) ==
  /\ Status(q) = "duplicate" /\ Become(q, "unsolved")
  /\ forced' = forced \cup {q}
  /\ UNCHANGED <<job, call, slips, asking, solving, reopened, dead>>

-----------------------------------------------------------------------------
(* Jobs: ocrWorker, embeddingWorker, generateAnswerWorker.                   *)

Queue(q, stage) == job' = [job EXCEPT ![q] = [stage |-> stage, tries |-> 0]]

OcrProcessing(q) ==
  /\ job[q].stage = "ocr" /\ Queue(q, "embed")
  /\ UNCHANGED <<quora, call, slips, asking, solving, forced, reopened, dead>>

\* A similar question that is solved, with an accepted answer.
Similar(q) == \E p \in Quoras \ {q} : Status(p) = "solved"

\* The status is written whatever it became since the question was asked.
Written(q, status) ==
  /\ Become(q, status)
  /\ answers' = [answers EXCEPT ![q][Machine] = 1]
  /\ reopened' = IF Status(q) \in {"pending", "unsolved"} THEN reopened
                 ELSE reopened \cup {q}

EmbedProcessing(q) ==
  /\ job[q].stage = "embed"
  /\ \/ Similar(q) /\ Written(q, "duplicate") /\ Queue(q, "none")
     \/ Written(q, "unsolved") /\ job' = [job EXCEPT ![q].stage = "written"]
  /\ UNCHANGED <<call, slips, asking, solvedBy, paid, contested, forced, dead>>

AddGenerateAnswerJob(q) ==
  /\ job[q].stage = "written" /\ Queue(q, "answer")
  /\ UNCHANGED <<quora, call, slips, asking, solving, forced, reopened, dead>>

\* An answer of the model, or none: its errors are swallowed.
GenerateAnswer(q) ==
  /\ job[q].stage = "answer" /\ Queue(q, "none")
  /\ UNCHANGED <<quora, call, slips, asking, solving, forced, reopened, dead>>

\* Tried again from its start, or kept among the failed ones.
JobFails(q) ==
  LET j == job[q]
      again == j.tries + 1 < Attempts
  IN
  /\ j.stage \in {"ocr", "embed", "written"} /\ Slip
  /\ job' = [job EXCEPT ![q] =
       IF again THEN [stage |-> IF j.stage = "ocr" THEN "ocr" ELSE "embed",
                      tries |-> j.tries + 1]
       ELSE NoJob]
  /\ dead' = IF again THEN dead ELSE dead \cup {q}
  /\ UNCHANGED <<quora, call, asking, solving, forced, reopened>>

-----------------------------------------------------------------------------
(* postAnswer and markAsSolved.                                              *)

MayAnswer(q, a) == answers[q][a] < AnswerLimit

PostAnswer(c, q, a) ==
  /\ call[c] = Unused /\ a # Machine
  /\ Status(q) = "unsolved" /\ MayAnswer(q, a)
  /\ call' = [call EXCEPT ![c] = [Unused EXCEPT !.pc = "answer", !.quora = q, !.who = a]]
  /\ UNCHANGED <<quora, job, slips, asking, solving, forced, reopened, dead>>

CreateAnswer(c) ==
  /\ call[c].pc = "answer"
  /\ answers' = [answers EXCEPT ![call[c].quora][call[c].who] = @ + 1]
  /\ Return(c)
  /\ UNCHANGED <<quora, job, slips, asking, solvedBy, paid, contested, forced, reopened,
                 dead>>

\* The answer of a is to be marked: the question is looked at before the transaction.
MarkAsSolved(c, q, a) ==
  LET same == {d \in Calls : call[d].pc = "mark" /\ call[d].quora = q} IN
  /\ call[c] = Unused /\ answers[q][a] > 0 /\ Status(q) = "unsolved"
  /\ call' = [call EXCEPT ![c] = [Unused EXCEPT !.pc = "mark", !.quora = q, !.who = a]]
  /\ contested' = IF same = {} THEN contested ELSE contested \cup {q}
  /\ UNCHANGED <<quora, job, slips, asking, answers, solvedBy, paid, forced, reopened,
                 dead>>

\* The rank at SAGE is assigned as a number, which the column rejects.
Payable(s) == solvedBy[s] + 1 < SageAt

Pay(q, a) ==
  /\ solvedBy' = [solvedBy EXCEPT ![a] = @ + 1]
  /\ paid' = [paid EXCEPT ![q] = @ + 1]

\* Mutant: the solver is paid before and apart from the update of the question.
DistributeCredits_Apart(c) ==
  LET q == call[c].quora
      a == call[c].who
  IN
  /\ call[c].pc = "mark" /\ a \in Solvers /\ Payable(a)
  /\ Pay(q, a) /\ Return(c)
  /\ UNCHANGED <<quora, job, slips, asking, answers, contested, forced, reopened, dead>>

DistributeCredits(c) ==
  LET q == call[c].quora
      a == call[c].who
  IN
  /\ call[c].pc = "mark"
  /\ Become(q, "solved")
  /\ \/ a \in Solvers /\ Payable(a) /\ Pay(q, a)
     \/ a \notin Solvers /\ UNCHANGED <<solvedBy, paid>>
  /\ Return(c)
  /\ UNCHANGED <<job, slips, asking, answers, contested, forced, reopened, dead>>

\* Rolled back: the question stays unsolved and the solver unpaid.
MarkFails(c) ==
  /\ call[c].pc = "mark"
  /\ \/ call[c].who \in Solvers /\ ~Payable(call[c].who) /\ UNCHANGED slips
     \/ Slip
  /\ Return(c)
  /\ UNCHANGED <<quora, job, asking, solving, forced, reopened, dead>>

-----------------------------------------------------------------------------
Asking ==
  \/ \E c \in Calls, q \in Quoras, s \in Students : PostNewQuora(c, q, s)
  \/ \E c \in Calls : ReadLimit(c) \/ CreateQuora(c) \/ CreateFails(c)

Limiting == NextDay \/ \E n \in Allowances : UpdateDailyLimit(n)

Classifying ==
  \E q \in Quoras :
    \/ ForcePostQuora(q)
    \/ OcrProcessing(q) \/ EmbedProcessing(q) \/ AddGenerateAnswerJob(q)
    \/ GenerateAnswer(q) \/ JobFails(q)

Answering ==
  \/ \E c \in Calls, q \in Quoras, a \in Authors : PostAnswer(c, q, a) \/ MarkAsSolved(c, q, a)
  \/ \E c \in Calls : CreateAnswer(c) \/ DistributeCredits(c) \/ MarkFails(c)

QuoraNext == Asking \/ Limiting \/ Classifying \/ Answering

QuoraSpec == QuoraInit /\ [][QuoraNext]_quoraVars

-----------------------------------------------------------------------------
(* Properties.                                                               *)

QuoraTypeOK ==
  /\ quora \in [Quoras -> [student: Students \cup {NoOne},
       status: {"none", "pending", "duplicate", "unsolved", "solved"}]]
  /\ limit \in [daily: Int, last: Nat, day: 0..MaxDay] /\ today \in 0..MaxDay
  /\ opened \in 0..MaxDay
  /\ job \in [Quoras -> [stage: {"none", "ocr", "embed", "written", "answer"},
                         tries: 0..Attempts - 1]]
  /\ answers \in [Quoras -> [Authors -> Nat]]
  /\ solvedBy \in [Solvers -> Nat] /\ paid \in [Quoras -> Nat]
  /\ call \in [Calls -> Call]
  /\ slips \in 0..MaxSlips
  /\ asked \in Nat /\ granted \in Nat /\ overruled \in BOOLEAN
  /\ UNION {together, early, forced, twin, contested, reopened, dead} \subseteq Quoras

\* The questions of a course never outrun its limit but by those that were on
\* their way together or opened a day with nothing left: the check and the
\* decrement are two queries.  A solver answers a question as often as he may,
\* give or take the calls in flight, and a student waits for one solution at a
\* time unless he forced a question, sent two at once, or a job wrote over a
\* solved question.
QuestionsLimited ==
  /\ ~overruled => asked <= granted + Cardinality(together \cup early)
  /\ \A s \in Students : Cardinality(Open(s) \ (forced \cup twin \cup reopened)) <= 1
  /\ \A q \in Quoras, a \in Answerers :
       answers[q][a] < AnswerLimit + Cardinality(Calls)

\* A question pays one solver once, unless two calls marked it together or a job
\* wrote over its solution; and one that is pending has a job that will classify
\* it or one that ran out of attempts: no question is forgotten.
SolversPaidOnce ==
  \A q \in Quoras :
    /\ q \notin contested \cup reopened => paid[q] <= 1
    /\ Status(q) = "pending" => job[q].stage \in {"ocr", "embed"} \/ q \in dead
=============================================================================
