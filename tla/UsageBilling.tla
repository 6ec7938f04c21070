---------------------------- MODULE UsageBilling ----------------------------
(***************************************************************************)
(* What a course admin is billed for one month (usageTracking.helpers.js): *)
(* usage is logged per service, summed into a row per service, the rows    *)
(* make a bill, the bill is paid in parts.  Each await is a step; only the *)
(* bill and the marks on its summaries are written in one transaction.     *)
(* Each log is worth one unit.                                             *)
(***************************************************************************)
EXTENDS Integers, FiniteSets, FiniteSetsExt

CONSTANTS
  Tasks,     \* requests in flight
  Services,
  Once,      \* services charged once: one-time, fixed, monthly, yearly
  NoService,
  MaxLogs,   \* bound on the logs of a service
  MaxLosses  \* bound on failing requests

ASSUME BillingAssumption ==
  /\ Once \subseteq Services /\ NoService \notin Services /\ IsFiniteSet(Services)
  /\ MaxLogs \in Nat /\ MaxLosses \in Nat

VARIABLES
  logs,     \* serviceUsageLogs of a service
  summary,  \* courseServiceUsageSummary: the amount and the status, "none" without a row
  bill,     \* adminMonthlyBill
  task,     \* requests
  losses,   \* failing requests so far
  \* history, read by no guard
  behind,   \* services with an aggregate overtaken by a log, or never stored
  doubled,  \* services charged once that two requests checked together
  after,    \* services whose summary changed since a bill read it
  crossing, \* two payments were computed from the same bill
  received  \* sum of the payments accepted

billing == <<logs, summary, bill>>
billVars == <<billing, task, losses, behind, doubled, after, crossing, received>>

Bill == [status: {"none", "PENDING", "PAID"}, total: Nat, paid: Nat]

\* What a request carries: the service, the sum or amount it computed and the
\* summaries it read.
Task == [pc: {"idle", "log", "sum", "upsert", "bill", "pay"},
         service: Services \cup {NoService}, amount: Nat, summaries: SUBSET Services,
         paying: Nat]

NoTask == [pc |-> "idle", service |-> NoService, amount |-> 0, summaries |-> {},
           paying |-> 0]

BillInit ==
  /\ logs = [s \in Services |-> 0]
  /\ summary = [s \in Services |-> [amount |-> 0, status |-> "none"]]
  /\ bill = [status |-> "none", total |-> 0, paid |-> 0]
  /\ task = [t \in Tasks |-> NoTask]
  /\ losses = 0
  /\ behind = {} /\ doubled = {} /\ after = {}
  /\ crossing = FALSE /\ received = 0

-----------------------------------------------------------------------------
Become(t, q) == task' = [task EXCEPT ![t] = q]
Finish(t) == Become(t, NoTask)
Await(t, pc) == task' = [task EXCEPT ![t].pc = pc]

Rest(t, pc) == {u \in Tasks \ {t} : task[u].pc = pc}
Busy(t, pc, s) == \E u \in Rest(t, pc) : task[u].service = s

Amounts(set) == MapThenSumSet(LAMBDA s : summary[s].amount, set)

-----------------------------------------------------------------------------
(* track...Usage and updateCourseSummary                                     *)

\* Mutant: a charge is taken once per request, not once per service.
Charged_Never(s) == FALSE

\* _checkDuplicate.
Charged(s) == s \in Once /\ logs[s] > 0

TrackUsage(t, s) ==
  /\ task[t] = NoTask /\ ~Charged(s)
  /\ Become(t, [NoTask EXCEPT !.pc = "log", !.service = s])
  /\ doubled' = IF Busy(t, "log", s) THEN doubled \cup {s} ELSE doubled
  /\ UNCHANGED <<billing, losses, behind, after, crossing, received>>

CreateLog(t) ==
  LET s == task[t].service IN
  /\ task[t].pc = "log" /\ logs[s] < MaxLogs
  /\ logs' = [logs EXCEPT ![s] = @ + 1]
  /\ Await(t, "sum")
  /\ behind' = IF Busy(t, "upsert", s) THEN behind \cup {s} ELSE behind
  /\ UNCHANGED <<summary, bill, losses, doubled, after, crossing, received>>

\* The aggregate is of every log, so it makes up for what was not stored before.
Aggregate(t) ==
  LET s == task[t].service IN
  /\ task[t].pc = "sum"
  /\ Become(t, [task[t] EXCEPT !.pc = "upsert", !.amount = logs[s]])
  /\ behind' = IF Busy(t, "upsert", s) THEN behind ELSE behind \ {s}
  /\ UNCHANGED <<billing, losses, doubled, after, crossing, received>>

\* Mutant: the sum is added to what the row holds.
Upserted_Added(s, n) ==
  [amount |-> summary[s].amount + n,
   status |-> IF summary[s].status = "none" THEN "DRAFT" ELSE summary[s].status]

\* The status stays: a summary that was invoiced grows past its bill.
Upserted(s, n) ==
  [amount |-> n,
   status |-> IF summary[s].status = "none" THEN "DRAFT" ELSE summary[s].status]

UpsertSummary(t) ==
  LET s == task[t].service IN
  /\ task[t].pc = "upsert"
  /\ summary' = [summary EXCEPT ![s] = Upserted(s, task[t].amount)]
  /\ after' = IF bill.status # "none" \/ Rest(t, "bill") # {} THEN after \cup {s} ELSE after
  /\ Finish(t)
  /\ UNCHANGED <<logs, bill, losses, behind, doubled, crossing, received>>

-----------------------------------------------------------------------------
(* generateMonthlyBill                                                       *)

Drafts == {s \in Services : summary[s].status = "DRAFT"}

GenerateMonthlyBill(t) ==
  /\ task[t] = NoTask /\ bill.status = "none" /\ Drafts # {}
  /\ Become(t, [NoTask EXCEPT !.pc = "bill", !.summaries = Drafts,
                               !.amount = Amounts(Drafts)])
  /\ UNCHANGED <<billing, losses, behind, doubled, after, crossing, received>>

\* Mutant: a bill is created and the summaries stay drafts.
Invoiced_Drafts(summaries) == summary

Invoiced(summaries) ==
  [s \in Services |-> IF s \in summaries THEN [summary[s] EXCEPT !.status = "INVOICED"]
                      ELSE summary[s]]

\* One bill per admin and month, by a unique key: a second one is rolled back.
CreateBill(t) ==
  /\ task[t].pc = "bill"
  /\ IF bill.status = "none"
     THEN /\ bill' = [status |-> "PENDING", total |-> task[t].amount, paid |-> 0]
          /\ summary' = Invoiced(task[t].summaries)
     ELSE UNCHANGED <<bill, summary>>
  /\ Finish(t)
  /\ UNCHANGED <<logs, losses, behind, doubled, after, crossing, received>>

-----------------------------------------------------------------------------
(* updateBillPayment                                                         *)

\* Mutant: a payment is refused when it exceeds the total, not what is due.
Payable_Alone(n) == n <= bill.total

Payable(n) == bill.paid + n <= bill.total

PayBill(t, n) ==
  /\ task[t] = NoTask /\ bill.status = "PENDING" /\ n > 0 /\ Payable(n)
  /\ Become(t, [NoTask EXCEPT !.pc = "pay", !.amount = bill.paid + n, !.paying = n])
  /\ crossing' = (crossing \/ Rest(t, "pay") # {})
  /\ UNCHANGED <<billing, losses, behind, doubled, after, received>>

\* Paid and status are written as computed from the bill that was read.
UpdateBill(t) ==
  LET paid == task[t].amount IN
  /\ task[t].pc = "pay"
  /\ bill' = [bill EXCEPT !.paid = paid,
                          !.status = IF paid = bill.total THEN "PAID" ELSE "PENDING"]
  /\ received' = received + task[t].paying
  /\ Finish(t)
  /\ UNCHANGED <<logs, summary, losses, behind, doubled, after, crossing>>

\* A query fails or the process dies: a log stays without its summary.
RequestFails(t) ==
  LET q == task[t] IN
  /\ q # NoTask /\ losses < MaxLosses
  /\ losses' = losses + 1
  /\ behind' = IF q.pc \in {"sum", "upsert"} THEN behind \cup {q.service} ELSE behind
  /\ Finish(t)
  /\ UNCHANGED <<billing, doubled, after, crossing, received>>

-----------------------------------------------------------------------------
BillNext ==
  \E t \in Tasks :
    \/ \E s \in Services : TrackUsage(t, s)
    \/ CreateLog(t) \/ Aggregate(t) \/ UpsertSummary(t)
    \/ GenerateMonthlyBill(t) \/ CreateBill(t)
    \/ \E n \in 1..bill.total : PayBill(t, n)
    \/ UpdateBill(t) \/ RequestFails(t)

BillSpec == BillInit /\ [][BillNext]_billVars

-----------------------------------------------------------------------------
(* Properties                                                                *)

BillTypeOK ==
  /\ logs \in [Services -> 0..MaxLogs]
  /\ summary \in [Services -> [amount: Nat, status: {"none", "DRAFT", "INVOICED"}]]
  /\ bill \in Bill
  /\ task \in [Tasks -> Task]
  /\ losses \in 0..MaxLosses
  /\ behind \subseteq Services /\ doubled \subseteq Services /\ after \subseteq Services
  /\ crossing \in BOOLEAN /\ received \in Nat

\* A service charged once has one log, unless two requests checked together.
OneCharge == \A s \in Once \ doubled : logs[s] + Cardinality({t \in Tasks :
                            task[t].pc = "log" /\ task[t].service = s}) <= 1

\* Every log is in its summary, but for requests on their way, requests that
\* failed on the way, and sums another log overtook before they were stored.
SummedUp ==
  \A s \in Services \ behind :
    \/ summary[s].amount = logs[s]
    \/ \E t \in Tasks : task[t].service = s /\ task[t].pc \in {"sum", "upsert"}

\* The bill is the sum of all summaries of the month, each marked, but for what
\* was used since the summaries were read: that is never billed.
AllBilled ==
  bill.status # "none" =>
    /\ Drafts \subseteq after
    /\ after = {} => bill.total = Amounts(Services)

\* A bill is never overpaid, is PAID when it is paid in full, and holds every
\* payment unless two were computed from the same bill.
PaymentsKept ==
  /\ bill.paid <= bill.total
  /\ bill.status = "PAID" => bill.paid = bill.total
  /\ ~crossing => bill.paid = received

\* The books of a month agree: what was used, summed up, billed and paid.
BooksAgree == OneCharge /\ SummedUp /\ AllBilled /\ PaymentsKept
=============================================================================
