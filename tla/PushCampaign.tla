---------------------------- MODULE PushCampaign ----------------------------
(***************************************************************************)
(* Push messages to all devices or to those of a course                    *)
(* (student/firebase/messaging): a request claims its event key, queues a  *)
(* job and then writes the log row; a run of the job pages through the     *)
(* devices under a lock without an owner.  BullMQ, which runs the job and  *)
(* hands it to another run when the first stalls or throws, is external.   *)
(***************************************************************************)
EXTENDS Integers, FiniteSets

CONSTANTS
  Campaigns,    \* requests with one event key, each with a uuid of its own
  Everyone,     \* those to all users; the others go to the students of a course
  Runs,         \* job slots of the workers
  LastDevice, PageSize,
  NoCampaign,
  MaxAttempts,  \* runs of a job until it is given up: attempts
  MaxTroubles,  \* bound on stalls of live runs, deaths and failures
  MaxChanges    \* bound on changes of devices

ASSUME PushCampaignAssumption ==
  /\ Everyone \subseteq Campaigns /\ NoCampaign \notin Campaigns
  /\ Runs \cap {"none", "waiting", "orphan", "done"} = {}
  /\ LastDevice \in Nat /\ PageSize \in Nat \ {0}
  /\ MaxAttempts \in Nat \ {0} /\ MaxTroubles \in Nat /\ MaxChanges \in Nat

Devices == 1..LastDevice  \* a student's one token, in the order of both
NoRow == -1

VARIABLES
  sender,    \* requests
  claimed,   \* dedup:event:<key>
  task,       \* of a campaign; its run while it is active
  tries,     \* its runs that threw
  run,
  lock,      \* lock:notification:<uuid>
  record,    \* notificationLog: sendCount
  valid,     \* pushNotification: isValid
  gone,      \* devices without the app
  enrolled,  \* students of the course
  troubles, changes,
  \* history, read by no guard
  got,       \* messages of a campaign a device got: 0, 1 or more
  owed,      \* devices in the audience ever since it was queued
  passed,    \* devices the paging passed over
  refused,   \* devices FCM did not reach, though nothing is wrong with their tokens
  swept,     \* campaigns whose pages came to an end
  stalled, again,  \* stalled once; stalled or threw, so that the job may run again
  failed,
  unlogged,     \* campaigns that ended before their log row was written
  renewed    \* the claim of the event key ran out

senderVars == <<sender, claimed, record, unlogged, renewed>>
deviceVars == <<valid, gone, enrolled, changes>>
runVars == <<task, tries, run, lock, got, owed, passed, refused, swept, again, stalled, failed,
             troubles>>
pushVars == <<senderVars, deviceVars, runVars>>

Run == [pc: {"idle", "lock", "page", "send", "mark", "release", "complete", "count"},
        of: Campaigns \cup {NoCampaign}, last: 0..LastDevice, page: SUBSET Devices,
        sent: Nat, counts: BOOLEAN]
Spare == [pc |-> "idle", of |-> NoCampaign, last |-> 0, page |-> {}, sent |-> 0,
         counts |-> TRUE]

PushInit ==
  /\ sender = [k \in Campaigns |-> "new"] /\ claimed = FALSE
  /\ task = [k \in Campaigns |-> "none"] /\ run = [r \in Runs |-> Spare]
  /\ lock = [k \in Campaigns |-> FALSE] /\ record = [k \in Campaigns |-> NoRow]
  /\ valid \in [Devices -> BOOLEAN] /\ gone = {} /\ enrolled = Devices
  /\ troubles = 0 /\ changes = 0
  /\ got = [k \in Campaigns |-> [d \in Devices |-> 0]]
  /\ owed = [k \in Campaigns |-> {}] /\ passed = [k \in Campaigns |-> {}]
  /\ refused = [k \in Campaigns |-> {}] /\ tries = [k \in Campaigns |-> 0]
  /\ swept = {} /\ again = {} /\ stalled = {} /\ failed = {} /\ unlogged = {} /\ renewed = FALSE

-----------------------------------------------------------------------------
(* The request                                                               *)

Trouble == troubles < MaxTroubles /\ troubles' = troubles + 1
Becomes(k, pc) == sender' = [sender EXCEPT ![k] = pc]

DedupOnce(k) ==
  /\ sender[k] = "new" /\ claimed' = TRUE
  /\ Becomes(k, IF claimed THEN "over" ELSE "enqueue")
  /\ UNCHANGED <<record, unlogged, renewed, deviceVars, runVars>>

ClaimExpires ==
  /\ claimed /\ claimed' = FALSE /\ renewed' = TRUE
  /\ UNCHANGED <<sender, record, unlogged, deviceVars, runVars>>

Audience(k) == IF k \in Everyone THEN Devices ELSE enrolled

CampaignQueueAdd(k) ==
  /\ sender[k] = "enqueue" /\ Becomes(k, "record")
  /\ task' = [task EXCEPT ![k] = "waiting"]
  /\ owed' = [owed EXCEPT ![k] = {d \in Audience(k) \ gone : valid[d]}]
  /\ UNCHANGED <<claimed, record, unlogged, renewed, deviceVars, tries, run, lock, got, passed,
                 refused, swept, again, stalled, failed, troubles>>

CreateNotificationLog(k) ==
  /\ sender[k] = "record" /\ Becomes(k, "over")
  /\ record' = [record EXCEPT ![k] = 0]
  /\ UNCHANGED <<claimed, unlogged, renewed, deviceVars, runVars>>

\* A call fails or the process dies; a failing log is only printed.
SenderFails(k) ==
  /\ sender[k] \in {"enqueue", "record"} /\ Trouble /\ Becomes(k, "over")
  /\ UNCHANGED <<claimed, record, unlogged, renewed, deviceVars, task, tries, run, lock, got,
                 owed, passed, refused, swept, again, stalled, failed>>

-----------------------------------------------------------------------------
(* The run                                                                   *)

Does(r, pc) == run[r].pc = pc
Goes(r, pc) == run' = [run EXCEPT ![r].pc = pc]
Quiet == UNCHANGED <<senderVars, deviceVars, tries, again, stalled, troubles>>

TakeJob(r, k) ==
  /\ Does(r, "idle") /\ task[k] = "waiting"
  /\ task' = [task EXCEPT ![k] = r]
  /\ run' = [run EXCEPT ![r] = [Spare EXCEPT !.pc = "lock", !.of = k]]
  /\ Quiet /\ UNCHANGED <<lock, got, owed, passed, refused, swept, failed>>

\* What is thrown fails the job, if the run still has it; it runs again unless that was
\* its last attempt.
FailJob(r) ==
  LET k == run[r].of IN
  /\ run' = [run EXCEPT ![r] = Spare] /\ again' = again \cup {k}
  /\ IF task[k] = r
     THEN /\ tries' = [tries EXCEPT ![k] = @ + 1]
          /\ task' = [task EXCEPT ![k] =
               IF tries[k] + 1 < MaxAttempts THEN "waiting" ELSE "done"]
     ELSE UNCHANGED <<tries, task>>

\* A run that finds the lock taken ends the job.
AcquireLock(r) ==
  LET k == run[r].of IN
  /\ Does(r, "lock")
  /\ IF lock[k]
     THEN run' = [run EXCEPT ![r].pc = "complete", ![r].counts = FALSE] /\ UNCHANGED lock
     ELSE lock' = [lock EXCEPT ![k] = TRUE] /\ Goes(r, "page")
  /\ Quiet /\ UNCHANGED <<task, got, owed, passed, refused, swept, failed>>

\* SET fails outside the try, with or without having set the lock.
AcquireFails(r) ==
  /\ Does(r, "lock") /\ Trouble /\ FailJob(r)
  /\ lock' \in {lock, [lock EXCEPT ![run[r].of] = TRUE]}
  /\ UNCHANGED <<senderVars, deviceVars, got, owed, passed, refused, swept, stalled, failed>>

\* Its answer is lost: ioredis sends SET again, which finds the run's own lock.
AcquireResent(r) ==
  LET k == run[r].of IN
  /\ Does(r, "lock") /\ ~lock[k] /\ Trouble
  /\ lock' = [lock EXCEPT ![k] = TRUE] /\ failed' = failed \cup {k}
  /\ run' = [run EXCEPT ![r].pc = "complete", ![r].counts = FALSE]
  /\ UNCHANGED <<senderVars, deviceVars, task, tries, got, owed, passed, refused, swept, again,
                 stalled>>

\* Rows from the cursor on; without the cursor's own row there are none.
From(k, last) ==
  IF k \in Everyone THEN {d \in Devices : valid[d] /\ d >= last}
  ELSE IF last \in enrolled \cup {0} THEN {d \in enrolled : d >= last} ELSE {}

Lowest(n, S) == {d \in S : Cardinality({e \in S : e < d}) < n}

\* Mutant: the cursor's row is not skipped.
Page_WithCursor(k, last) == Lowest(PageSize, From(k, last))

\* allUsersPages, courseStudentIdPages: `skip: 1` drops the first row, which is the
\* next device when the cursor's is not valid any more.
Page(k, last) ==
  Lowest(PageSize, From(k, last) \ (IF last = 0 THEN {} ELSE Lowest(1, From(k, last))))

ReadPage(r) ==
  LET k == run[r].of last == run[r].last page == Page(k, last) IN
  /\ Does(r, "page")
  /\ IF page = {}
     THEN Goes(r, "release") /\ swept' = swept \cup {k}
     ELSE /\ run' = [run EXCEPT ![r].pc = "send", ![r].page = page,
                                ![r].last = CHOOSE d \in page : \A e \in page : e <= d]
          /\ UNCHANGED swept
  /\ passed' = [passed EXCEPT ![k] = @ \cup
       IF k \in Everyone THEN (IF last > 0 /\ ~valid[last] THEN Lowest(1, From(k, last)) ELSE {})
       ELSE IF last \in enrolled \cup {0} THEN {} ELSE {d \in enrolled : d > last}]
  /\ Quiet /\ UNCHANGED <<task, lock, got, owed, refused, failed>>

\* Of a course's page the tokens are looked up when it is sent.
PageTokens(q) == IF q.of \in Everyone THEN q.page ELSE {d \in q.page : valid[d]}

Tell(k, reached) ==
  got' = [got EXCEPT ![k] = [d \in Devices |->
    IF d \in reached THEN (IF @[d] = 0 THEN 1 ELSE 2) ELSE @[d]]]

\* A token may fail for a reason that does not make it invalid: it is counted as failed
\* and not tried again.
SendToTokens(r) ==
  LET k == run[r].of
      tokens == PageTokens(run[r])
  IN  \E failing \in SUBSET tokens :
        LET reached == tokens \ (gone \cup failing)
            invalid == (tokens \cap gone) \ failing
        IN  /\ Does(r, "send")
            /\ IF failing = {} THEN UNCHANGED troubles ELSE Trouble
            /\ Tell(k, reached) /\ refused' = [refused EXCEPT ![k] = @ \cup failing]
            /\ run' = [run EXCEPT ![r].sent = @ + Cardinality(reached),
                                  ![r].page = invalid,
                                  ![r].pc = IF invalid = {} THEN "page" ELSE "mark"]
            /\ UNCHANGED <<senderVars, deviceVars, task, tries, lock, owed, passed, swept, again,
                           stalled, failed>>

InvalidateTokens(r) ==
  /\ Does(r, "mark")
  /\ valid' = [d \in Devices |-> valid[d] /\ d \notin run[r].page]
  /\ run' = [run EXCEPT ![r].pc = "page", ![r].page = {}]
  /\ owed' = [k \in Campaigns |-> owed[k] \ run[r].page]
  /\ UNCHANGED <<senderVars, gone, enrolled, changes, task, tries, lock, got, passed, refused,
                 swept, again, stalled, failed, troubles>>

\* A failing call is printed, and the job ends without a result; of a page's tokens,
\* sent in parts, some got the message.
SendFails(r) ==
  /\ run[r].pc \in {"page", "send", "mark"} /\ Trouble
  /\ run' = [run EXCEPT ![r].pc = "release", ![r].counts = FALSE]
  /\ \E reached \in SUBSET IF Does(r, "send") THEN PageTokens(run[r]) \ gone ELSE {} :
       Tell(run[r].of, reached)
  /\ failed' = failed \cup {run[r].of}
  /\ UNCHANGED <<senderVars, deviceVars, task, tries, lock, owed, passed, refused, swept, again,
                 stalled>>

\* Whoever has the lock by now.
ReleaseLock(r) ==
  /\ Does(r, "release") /\ Goes(r, "complete")
  /\ lock' = [lock EXCEPT ![run[r].of] = FALSE]
  /\ Quiet /\ UNCHANGED <<task, got, owed, passed, refused, swept, failed>>

\* DEL fails in the finally block, done or not, and takes the place of the job's result.
ReleaseFails(r) ==
  /\ Does(r, "release") /\ Trouble /\ FailJob(r)
  /\ lock' \in {lock, [lock EXCEPT ![run[r].of] = FALSE]}
  /\ UNCHANGED <<senderVars, deviceVars, got, owed, passed, refused, swept, stalled, failed>>

\* Only the run that still has the job completes it.
CompleteJob(r) ==
  LET k == run[r].of IN
  /\ Does(r, "complete")
  /\ IF task[k] = r
     THEN /\ task' = [task EXCEPT ![k] = "done"]
          /\ IF run[r].counts THEN Goes(r, "count")
             ELSE run' = [run EXCEPT ![r] = Spare]
     ELSE run' = [run EXCEPT ![r] = Spare] /\ UNCHANGED task
  /\ Quiet /\ UNCHANGED <<lock, got, owed, passed, refused, swept, failed>>

\* The "completed" event; updateMany finds no row that is not there yet.
CountSent(r) ==
  LET k == run[r].of IN
  /\ Does(r, "count")
  /\ run' = [run EXCEPT ![r] = Spare]
  /\ IF record[k] = NoRow
     THEN unlogged' = unlogged \cup {k} /\ UNCHANGED record
     ELSE record' = [record EXCEPT ![k] = @ + run[r].sent] /\ UNCHANGED unlogged
  /\ UNCHANGED <<sender, claimed, renewed, deviceVars, task, tries, lock, got, owed, passed,
                 refused, swept, again, stalled, failed, troubles>>

-----------------------------------------------------------------------------
(* Stalls, deaths and devices                                                *)

RunDies(r) ==
  LET k == run[r].of IN
  /\ ~Does(r, "idle") /\ Trouble
  /\ run' = [run EXCEPT ![r] = Spare]
  /\ task' = IF task[k] = r THEN [task EXCEPT ![k] = "orphan"] ELSE task
  /\ unlogged' = IF Does(r, "count") THEN unlogged \cup {k} ELSE unlogged
  /\ UNCHANGED <<sender, claimed, record, renewed, deviceVars, tries, lock, got, owed, passed,
                 refused, swept, again, stalled, failed>>

\* A job whose run is dead, or keeps its process busy for too long, is handed out
\* once more.
JobStalls(k) ==
  /\ \/ task[k] = "orphan" /\ UNCHANGED troubles
     \/ task[k] \in Runs /\ Trouble
  /\ task' = [task EXCEPT ![k] = IF k \in stalled THEN "done" ELSE "waiting"]
  /\ stalled' = stalled \cup {k} /\ again' = again \cup {k}
  /\ UNCHANGED <<senderVars, deviceVars, tries, run, lock, got, owed, passed, refused, swept,
                 failed>>

NotificationLockExpires(k) ==
  /\ lock[k] /\ lock' = [lock EXCEPT ![k] = FALSE]
  /\ Quiet /\ UNCHANGED <<task, run, got, owed, passed, refused, swept, failed>>

Change ==
  /\ changes < MaxChanges /\ changes' = changes + 1
  /\ UNCHANGED <<senderVars, task, tries, run, lock, got, passed, refused, swept, again, stalled,
                 failed, troubles>>

RegisterDevice(d) ==
  /\ Change /\ (~valid[d] \/ d \in gone)
  /\ valid' = [valid EXCEPT ![d] = TRUE] /\ gone' = gone \ {d}
  /\ UNCHANGED <<enrolled, owed>>

Leaves(d, from) == owed' = [k \in Campaigns |-> IF k \in from THEN owed[k] \ {d} ELSE owed[k]]

Uninstall(d) ==
  /\ Change /\ d \notin gone /\ gone' = gone \cup {d}
  /\ Leaves(d, Campaigns) /\ UNCHANGED <<valid, enrolled>>

\* Enrolled, or taken out of the course.
EnrolmentChanges(d) ==
  /\ Change /\ enrolled' = (enrolled \ {d}) \cup ({d} \ enrolled)
  /\ Leaves(d, Campaigns \ Everyone) /\ UNCHANGED <<valid, gone>>

PushNext ==
  \/ \E k \in Campaigns :
       \/ DedupOnce(k) \/ CampaignQueueAdd(k) \/ CreateNotificationLog(k) \/ SenderFails(k)
       \/ JobStalls(k) \/ NotificationLockExpires(k)
       \/ \E r \in Runs : TakeJob(r, k)
  \/ \E r \in Runs :
       \/ AcquireLock(r) \/ AcquireFails(r) \/ AcquireResent(r)
       \/ ReadPage(r) \/ SendToTokens(r) \/ InvalidateTokens(r) \/ SendFails(r)
       \/ ReleaseLock(r) \/ ReleaseFails(r) \/ CompleteJob(r) \/ CountSent(r) \/ RunDies(r)
  \/ \E d \in Devices : RegisterDevice(d) \/ Uninstall(d) \/ EnrolmentChanges(d)
  \/ ClaimExpires

PushSpec == PushInit /\ [][PushNext]_pushVars

-----------------------------------------------------------------------------
\* Every variable has its type.
PushTypeOK ==
  /\ sender \in [Campaigns -> {"new", "enqueue", "record", "over"}]
  /\ claimed \in BOOLEAN /\ renewed \in BOOLEAN
  /\ task \in [Campaigns -> {"none", "waiting", "orphan", "done"} \cup Runs]
  /\ run \in [Runs -> Run]
  /\ lock \in [Campaigns -> BOOLEAN] /\ record \in [Campaigns -> Nat \cup {NoRow}]
  /\ valid \in [Devices -> BOOLEAN]
  /\ gone \subseteq Devices /\ enrolled \subseteq Devices
  /\ troubles \in 0..MaxTroubles /\ changes \in 0..MaxChanges
  /\ got \in [Campaigns -> [Devices -> 0..2]]
  /\ owed \in [Campaigns -> SUBSET Devices] /\ passed \in [Campaigns -> SUBSET Devices]
  /\ refused \in [Campaigns -> SUBSET Devices] /\ tries \in [Campaigns -> Nat]
  /\ swept \subseteq Campaigns /\ again \subseteq Campaigns /\ stalled \subseteq Campaigns
  /\ failed \subseteq Campaigns /\ unlogged \subseteq Campaigns

Counting(k) == \E r \in Runs : Does(r, "count") /\ run[r].of = k

\* A campaign that was swept reached every device that could be reached ever since it
\* was queued, but for one FCM refused without a fault of its token and one whose page
\* follows a token just found dead or a student who left; unless its job stalled or
\* threw, no device got it twice, and its log says how many did if it neither failed
\* nor ended before its log was written; it is only dropped when it stalled, threw or
\* failed; and an event gives one campaign until the claim of its key runs out.
CampaignsAccounted ==
  /\ Cardinality({k \in Campaigns : task[k] # "none"}) > 1 => renewed
  /\ \A k \in Campaigns :
       /\ k \in swept => \A d \in owed[k] \ (passed[k] \cup refused[k]) : got[k][d] > 0
       /\ task[k] = "done" => k \in swept \cup again \cup failed
       /\ k \notin again =>
            /\ \A d \in Devices : got[k][d] <= 1
            /\ task[k] = "done" /\ ~Counting(k) /\ record[k] # NoRow /\ k \notin unlogged \cup failed
                 => record[k] = Cardinality({d \in Devices : got[k][d] = 1})
=============================================================================
