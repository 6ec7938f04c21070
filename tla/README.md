# Verification of the ASG web-app backend

TLA+ models of the Express and Socket.IO backend under `src/src` (about 73,000
lines of JavaScript), the TLC runs that check them, and the TLAPS proofs about
them. Paths below are relative to `src/src/app/` unless they start otherwise;
"the desktop README" is `modules/desktopAuthentication/README.md`.

To repeat the work: `tlc -config X.cfg M` for a row of the table of runs
(section 4), `tlapm M.tla` for the eight proof modules (section 6).

## 1. The system

Six Node processes (`src/ecosystem.config.cjs`, pm2 cluster mode) serve HTTP
(Express, Prisma over PostgreSQL) and Socket.IO, and share one PostgreSQL and
one Redis. Queue and stream workers run as processes of their own. Inside a
process nothing runs between two `await`s, so the steps that interleave are the
pieces of code between awaits: of requests in one process, of different
processes, and of Redis expiry and the database. What can go wrong lives in
Redis, in PostgreSQL and in what a request keeps in local variables across an
await. No code takes database row locks, and most multi-step updates are not
transactions.

### Inventory

State, operations and neighbours of each part, and what makes it correct. The
last column names the module that models the part.

| Part | State | Operations and interactions | Hard behaviour, correctness | Module |
| --- | --- | --- | --- | --- |
| Desktop sign-in, `modules/desktopAuthentication` | Redis: a transaction document, an exchange lock. SQL: `otpAttempts`, `studentOAuthProvider`, `student` | start, complete, cancel, linkAccount, requestRegistrationOtp, completeRegistration, exchange; uses student sessions to issue | handlers write documents read several awaits earlier; TTLs; crash between database and Redis. One session per transaction, for the account bound to it; no registration lost; codes spent once | `DesktopAuth`, `LoginOnce` |
| Student sessions, `desktopAuth.session.js`, `modules/authentication/session` | SQL: `studentAuthLog` rows per host; Redis: the newest row of a host | issue, refresh, sign out (desktop); log-in, social log-in, log-out (web); lift of the log-in ban; the check made by every request | read-then-write over several queries, no unique key, writers that do not invalidate. A token is traded once, one desktop at a time, ended sessions end | `StudentSessions` |
| Read-through cache, `src/src/lib/redis/cache` | Redis: entry and fill lock; per process a map of running fills | getOrLoadCache, refresh of a stale entry, deleteCache; used by sessions, authorization, courses, notifications, restrictions | single flight inside a process, a lock with heartbeat across processes. No stampede, no old value for ever | `CacheAside` |
| Web accounts, `auth.services.js` | SQL: `student`, `studentOAuthProvider` | sign-up with a password or an identity, social log-in, link and unlink | a flag that repeats what provider rows say, written by separate queries | `SocialLinks` |
| One-time codes, `auth.services.js`, `modules/grandCelebration` | SQL: `otpAttempts`, the guest's row | request and verify a code; reset a password | the code is sent before it is stored; compared in one query, spent in another | `OneTimeCodes` |
| Realtime chat, `socket/realtime/chat`, `socket/worker/chat.worker.js` | token bucket per socket, buffer per room, Redis stream with a consumer group, `activeChat` rows | send, flush, enqueue, consume, claim, dead letter, daily clean-up; a moderator deletes a row | reordering, redelivery, lost acknowledgements, one bad message in a batch, workers that die. What the stream took is stored or dead-lettered, for a cause; what was deleted stays so | `ChatPipeline`, `ChatStore` |
| Watch presence, `socket/realtime/watch` | Redis sets of viewers, per-process buffers and dirty marks, a leader lock per room | join, ping, leave, disconnect, flush, count broadcast | buffered joins against immediate leaves, lost wake-ups, changes too small to be sent | `WatchPresence` |
| Live classes, `modules/admin/liveClass*` | class rows, media rooms on outside servers, a scheduling lock | create (several versions), room webhooks, update, delete | compensation when a step fails. Capacity, no room lost or left open | `LiveSchedule` |
| Recordings of live classes, `liveClassV3Api` | `RecordingIngest`, parts (`classContent`) | recording and video webhooks | repeated and late webhooks. One part per recording, numbered | `RecordingIngest` |
| Quora, `modules/qna/quora`, its workers | questions, answers, a daily limit per course, BullMQ jobs | ask, OCR, embed, classify, answer, solve and pay | limits read then decremented, retries of what was done | `QuoraFlow` |
| Enrolment, `modules/student/courseStudent` | `courseStudents`, `cycleStudents` keyed by pair, cached memberships | redeem, migrate, give and take by hand | an outside shop, several rows per code, failures half way | `Enrolment` |
| Push campaigns, `modules/student/firebase` | devices, a claim per event, a job, a log row | send to all, to a course | pages over rows that the run itself invalidates; locks without owner; jobs that run again | `PushCampaign` |
| Usage and bills, `superAdmin/usageTracking` | usage logs, summaries, the bill of a month | log, sum, invoice, pay | billing while usage is written | `UsageBilling` |
| Course trees, `admin/courseSubject*`, `cycleSubject`, `cycleChapter`, `class`, `cycleContent` | rows of three levels; lookups of the course and cycle of a row | add, move, delete, copy | no transaction, no unique keys; lookups that authorization trusts | `CourseTree` |
| Courses that are over, `superAdmin/courses`, `admin/cycle` | `markAsArchieve`, `contentOwner`, `archieveCourseId` | update, delete, appoint a biller, copy; cycles created, pulled, copied | dependants and cycles put right by later statements | `CourseArchive` |
| Request authorization, `middleware/authorization.js`, `handleCourseAuth.js` | cached rows of user, course, role | deciding each request's access | decisions from cached rows | its caches are `CacheAside`, memberships `Enrolment`, lookups `CourseTree` |
| Socket access, `socket/authAccess` | counters per address, restriction memos | connect, ban, unban | counters without a lifetime, stale memos | none |
| Service offers and prices, `courseAdminService*`, `addOneServices` | offers, prices, selections | select, price | single rows | none |
| Solver applications, comments, reactions, notes, profiles, notices, routines, featured items, issues, analytics, admins | rows | one query per operation, or a read and a write of one row | little interleaves that the database does not serialise | none |
| Files, helpers, metrics, scripts, operations | none that the system decides on | uploads, formatting, one-shot migrations | | none |

`PROJECT.json` lists the same parts with their source files, and under
"hazards" the places, line by line, that a test would hardly reach.

## 2. Plan

1. **done** `DesktopAuth` with the abstract `LoginOnce`, `StudentSessions`,
   `CacheAside`, `ChatPipeline` with the abstract `ChatStore`.
2. **done** `WatchPresence`, `LiveSchedule`, `RecordingIngest`, `QuoraFlow`,
   `Enrolment`, `UsageBilling`, `PushCampaign`, `OneTimeCodes`, `SocialLinks`,
   `CourseTree`, `CourseArchive`.
3. Proofs. **Done** for all modules of points 1 and 2: types, safety and the
   two refinements.
4. `SocketAccess`; celebration codes and student codes over the rows of
   `DesktopAuth`, in place of the environment actions that stand for them.

Composition. `DesktopAuth` and `StudentSessions` meet at one step, the exchange
issuing a session. They are checked apart because neither reads the other's
state: the exchange only needs that issuing takes arbitrarily long and may fail
(`ExchangeIssue`, `Fail`, `LockExpires`), and the sessions only need that a
sign-in arrives at any time (`IssueFind`). `StudentSessions` holds the read
cache in two steps, the read and the fill; `CacheAside` is the same protocol in
full detail. `RecordingIngest` and `LiveSchedule` share the webhooks of rooms;
each has the part of the row it reads. `MCSigningIn`, `MCLiveClasses`,
`MCStudents`, `MCCacheWatch` and `MCFair` put components that do not read each other's state
side by side; a variable `focus`, chosen at the start, says which of them runs.
Each is an instance, not a product: the others keep their first values, and the
same model values serve as the requests of all.

## 3. The modules

All models follow one form. A request in flight is a slot whose `pc` names the
next await; an action is the code from that await to the following one. A
response, an early return or a thrown error frees the slot. A failing call or a
lost reply is `Fail` (`Abort`, `RedisFails`) at any step; a reply lost after its
effect is the effect followed by the failure. Variables under "history" only
record what happened for the properties, and nothing but a bound reads them.

### DesktopAuth and LoginOnce

| State | Code |
| --- | --- |
| `txn` | Redis document of a transaction: status, identity, student, recorded OTP attempt. `ABSENT` before start, `GONE` after its TTL |
| `lock` | Redis exchange lock, with the slot standing for its random token |
| `provider` | `studentOAuthProvider`, unique on (provider, providerUid) |
| `account` | `student`: status, e-mail, phone |
| `otp` | `otpAttempts`: phone, code (0 is null), expired, cooling (the resend window), count |
| `req` | the requests: step, transaction, document as read, status the compare-and-set expects, account, phone, code |

`start` is one action. `complete` is `Complete`, `CompleteProvider`,
`CompleteAccount`; `linkAccount` is `LinkAccount`, `LinkStudent`,
`LinkProvider`, `LinkCommit`; `requestRegistrationOtp` is
`RequestRegistrationOtp`, `OtpConflict`, `OtpAttempt`, `OtpSend`;
`completeRegistration` is `CompleteRegistration`, `AcquireExchangeLock` and the
`Registration...` actions; `exchange` is `Exchange`, `AcquireExchangeLock` and
the `Exchange...` actions. `SetTransactionIfStatus` is the Lua script all of
them end in: it compares the status only. `ReleaseExchangeLock` is the `finally`
block, reached by every return and throw of the locked region (`Leave`).
Prisma transactions are one action that applies all of its writes or none.

Identities are already verified (`desktopAuth.provider.js` asks Firebase) and
PKCE verifiers, polling secrets and the browser cookie are assumed checked:
these checks are pure, and each precedes the first await of the handler.
`getStatus` and `getBrowserContext` only read. The web flows appear as
`ToggleAccount`, `WebSignUp`, `WebLink`, `WebUnlink` when `Churn` is set.

`LoginOnce` is the promise: a transaction is bound to one account once, used
once and handed over once, and it may be forgotten at any time. `LoginSpec`
says that `DesktopAuth` implements it, with the status as `phase` and the first
account as `account`.

### StudentSessions

`rows` is `studentAuthLog` of one student: host, refresh token, time of the last
log-in, log-in count. The schema has no unique key on (student, host), so a host
may have several rows, and a query that wants "the" row gets any of the newest
(`Newest`, `First`). A token is the second of its signature, for that is all
that tells apart two tokens of one student and host (`Sign`): with `Subsecond`
two tokens may be signed in one second and are then equal. `cache` is the Redis
copy of the newest row's token, `filler` the request that fills it.
`issueDesktopSession` is `IssueFind`, `IssueGuard`, `IssueClear`, `IssueWrite`;
`refreshDesktopSession` is `RefreshFind`, `RefreshRotate`;
`logoutDesktopSession` is one `updateMany`. `registerStudentSession` is
`RegisterFind`, `RegisterWrite`, `Invalidate`; `verifyLoginV2` writes the same
rows by itself and invalidates nothing (`VerifiedLogin`). `Load` and `Fill` are
the check of every request. The student stays active; device columns are left out. `Web` and
`Desktop` are the two halves of the next-state relation.

### CacheAside

One key. `entry` is fresh, stale or missing and holds a version of the database
value `source`; each process has at most one cold and one refresh flight
(`flight`), which is `singleFlight`'s map. `Call` is a caller that starts a
flight; callers that join one add no state. The flight takes the lock, looks
again, loads, writes and releases by token; without the lock a refresh gives up
and a cold flight polls, then tries once more (`RescueLock`). The poll loop is
one step, for all that matters is whether the entry came before the deadline.
`LockExpires` may hit a lock whose holder runs: the heartbeat may fail or come
late. Writers update and delete in two steps and may die in between. When Redis
is down the loader is called without the cache, which is an answer and no state.

### ChatPipeline and ChatStore

| State | Code |
| --- | --- |
| `buffer`, `shown` | `buffers` of `batcher.js` for one room, and what its flushes emitted |
| `wire` | XADDs of `send` that Redis has not executed |
| `stream` | the Redis stream, oldest entry first |
| `delivered`, `pending`, `idle` | the consumer group: handed out, not acknowledged, not touched for MIN_IDLE |
| `dead`, `table` | the dead-letter stream, the rows of `activeChats` |
| `worker` | step of a worker process, the entries of the current call and the rest of its batch |

`send` up to its end is `Send`; the flush timer is `FlushRoom`; the answer to
the XADD is `EnqueueChat`, which may trim, or `EnqueueFails`, which also stands
for the death of the process. `consume` is `Read`, `reclaimStuck` is `Claim`,
`handleBatch` is `SaveChats`, then `Ack`, or for one entry after the other
`SaveChatOne`, `Ack` or `DeadLetter`, `Ack`. A save may fail, with or without
its rows, any number of times (`Accepts` tells whether it may succeed: the table
refuses rows whose class does not exist); XACK, XREADGROUP and the XADD of a
dead letter may fail, and workers die, `MaxFaults` times. A worker that starts
again creates the group, which exists (`AtStart`). `DeleteMessage` is the
deletion in `banUnbanInteractionIntoDb`.

Left out: `Send` takes the verdicts of the token bucket, of the room and of
`ensureChatAllowed` as inputs. Entries that are not JSON (`badIds`) do not
occur, because only `enqueueChat` writes the stream. A claim may come at any
read instead of every twentieth. The order in which the loop takes the entries
of a batch is free. An XADD is executed at most once: the client library may
send it again after a reconnection, which no code of the repository decides. A
trimmed entry is dropped from the pending list by XAUTOCLAIM, as Redis 7 does.
Typing signals keep no state; the daily deletion of old rows is a separate
statement on rows days old.

`ChatStore` is the promise to who sends a message, without room, stream and
workers: an accepted message is kept until it has an end (stored, buried or
known to be lost), only messages that are kept get rows, and one is buried only
if the table refuses it or its own handling was in doubt. `StoreSpec` says that
`ChatPipeline` implements it, with `Kept` (on the wire, unfinished in the stream
or in a worker's hand) as `kept` and `unsure` as `doubted`. It says of a deleted
row that it cannot come back once its message has been let go.

### OneTimeCodes

`attempt` is the phone's `otpAttempts` rows and the record of a celebration
guest: what code works there and how many were asked for. A request for a code
reads (`SendSignUpOtp`, `SendOtpToPhone`, `GranCelebrationSignUp`,
`GrandCelebrationResendOtp`), then the message is sent, and only then is the
code stored (`UpdateOtp`, `CreateOtp`, `CreateGuest`). One that shows a code reads
it (`VerifyLoginV2`, `GrandCelebrationLogin`) and spends it in another query by
the row's id (`SpendOtp`). `TimePasses` is half the life of a code.

Met while modelling: `verifyOtp` (`auth.services.js:1768`) reads an undeclared
`provider` and always throws, so it has no action, and the end of
`verifyCredential` is unreachable. Sign-up compares the trimmed phone and stores
the raw one. A guest who asked for the maximum of codes and verified none is
locked out for good; of two sign-ups at once the second falls into log-in and is
refused.

### SocialLinks

Accounts (`student`, by e-mail), `isOAuthUser` (`flag`) and provider rows
(`link`). Sign-ups, `existingAccountSocialLogin`, `linkSocialAccount` and
`unlinkSocialAccount` are a step per query; the unique key on (provider,
providerUid) is the only thing the database enforces. Google and Apple have
verified the identity.

### LiveSchedule

| State | Code |
| --- | --- |
| `class` | `liveClass` rows: status, server, start, room, settings |
| `room` | rooms of the media servers, opened and ended by HTTP calls |
| `lock` | `live-class:v5:scheduling-lock`, 60 seconds |
| `req` | the requests: step, plan as computed, rooms opened, what has to be undone |

`CreateVersion5` waits for the lock (`AcquireV5SchedulingLock`), computes the
plan from the rows (`Plan`: take a place in Europe, move a class of a smaller
audience to Malaysia, reduce one, or take Malaysia), opens rooms
(`CreateReplacementRoom`, `CreateMediaRoom`), reduces settings, commits
(`Commit` re-checks that the moved class is still scheduled) and ends the old
room. `StepFails` and `RoomUnheard` are failing calls, the latter after its
effect; the catch block is `UndoSettings`, `EndReplacementRoom`, `EndNewRoom`,
any of which may fail (`UndoFails`). The reply to a reduction of settings may be
lost as well (`ReduceUnheard`): then the request does not know that it has settings
to undo. Room webhooks, the older creators, updates and deletes run beside it.
`CreateOlder` stands for versions 1 to 4, of which the fourth may choose Malaysia.
Closing a room reads it first: `DeleteRoomMark`, `DeleteRoomClose`, or, when the
read fails, `DeleteRoomUnknown`, after which the room is marked recorded and ended
all the same.

Met while modelling: `V5_SAFE_SETTINGS` and `V5_NORMAL_SETTINGS`
(`liveClass.services.js` 1141-1152) have the same values, so that a class is "safe"
by its label and in the capacity it leaves; undoing restores normal settings even
when the class had reduced ones before; the timeouts of the media calls add up to more than the
lock's 60 seconds; `deleteLiveClassFromDb` leaves the room open (`leaked`);
`updateLiveClassIntoDb` moves the start without a look at the load, and the older
creators do not take the lock (`outside`).

### RecordingIngest

One live class, its recorded files and its parts. `RecordingAvailable`,
`ClaimRecording` (the unique key of `RecordingIngest`), `FetchVideo`,
`LookClosed`, `PublishPart` are the steps of `recording.available`;
`PublishRecorded` is the video service's own webhook. A delivery may be
repeated, late or die. A claim whose handling failed blocks later deliveries
(`failed`); recordings without a part name are not deduplicated, because the
unique key has a nullable column (`schema.prisma` 871-882). `handleRecordingFailed`
reads an undeclared `videoGuid` (line 2713), throws, and has no action.

### WatchPresence

One class. `buffer` and `dirty` are per process, `active` and `recent` are the
sorted set and the buckets in Redis, `leader` and `last` the lock and the last
count broadcast. A join is `Join`, `JoinCount`, `JoinGreet` (it shows the count to
the one who joined and marks the room), a leave `Leave`, `RemoveActive`; a ping
(`Heartbeat`) is buffered whoever sends it, in the room or not. `Flush` moves the
buffer to Redis, and each process's timer takes its mark (`TakeMark`), asks to lead,
counts, compares and emits (`CountOnline`, `ShouldEmit`, `Emit`).

A number is sent only if it differs from the last one sent by at least `MinDelta`:
`CHANGE_MIN_DELTA`, or 2 % of the new number if that is more (`broadcaster.js` 93-107,
`SHOULD_EMIT_LUA`). A page is therefore right up to less than that (`Near`), and this
is what `ShownExplained` promises of a room in which nothing is under way: from 100
viewers on a page may be off by one for ever, but small changes do not add up,
because the number compared with is the one that was sent, not the one that was
counted. It names what breaks the promise. `missed`: a change that
came without a mark (a late flush that brings a viewer back, a ping that grew too
old), a mark taken by a process that did not lead, a number that was overtaken, a
process that died, and a call that failed: the catch blocks of join (`JoinFails`),
leave and disconnect (`RemoveFails`) and broadcaster (`TakeMarkFails`, `TickFails`)
leave no mark behind. `greeted`: a page that shows the count of its own join is
compared with by nobody; if the room's number was not worth a broadcast, it keeps it.
A failing flush loses the buffer (`FlushLost`), which changes no number.

### QuoraFlow

Questions of one course: `limit` is the `courseQuoraDailyLimit` row, `job` the
BullMQ job of a question (OCR, embedding, answer) with its attempts, `solvedBy`
the paid solvers. `postNewQuora` is `PostNewQuora`, `ReadLimit`, `CreateQuora`;
`markAsSolved` is `MarkAsSolved`, `Pay`, `DistributeCredits`; the workers write a
status before they queue the next job, so a retry writes it again. What the limit
allowed is the history variable `granted`: the allowance of a day counts when the
first question of the day adds it, and `opened` is the last day for which one did,
since a question that began the evening before may write the row first.

Met while modelling: votes are never counted (`incrment`, lines 626 and 688, and
a where clause without a unique key); a solver at the highest level can never be
paid (line 303); a retried embedding writes a second similar answer; the OCR job
may run before the question is committed. Comments and reports are left out.

### Enrolment

`seat` is `courseStudents` and `cycleStudents`, `memo` their cached memberships.
`redeemCourseV3` is `RedeemCourse`, `AssignCycles`, `InvalidateCycles`,
`FindCourses`, `AssignCourses`, `InvalidateCourses`; any step may be the last
(`Abandon`). `MigrateFromOldApp`, `ManuallyAccess` and `RemoveStudentAccess`
interleave with it and with the fills of memberships (`LoadAccess`,
`CacheAccess`). What shops answer is an input (`Buyers`, `Sold`).

Met while modelling: migrating two cycles of one course fails on the second
course row after the cycles were written, and a retry does not repair it
(`torn`); removing a cycle and migrating leave the cached membership of the cycle
(`outdated`); an academic redemption looks for a used code among cycles only.
Left out: the come-back course, versions 1 and 2 (no caller), archive scopes.

### PushCampaign

A request claims its event key (`DedupOnce`), queues the job and then writes the
log row. A run of the job takes a lock without an owner, pages through the
devices (`ReadPage`), sends, marks dead tokens and counts. BullMQ is external:
`TakeJob`, `JobStalls`, `RunDies`, and what it does with a job that throws.

Of the tokens of a page FCM reaches some, finds some dead and fails some for
another reason (`SendToTokens`); the last are neither told nor marked invalid nor
tried again (`sendFcm.js` 54-64), and are in `refused`. `sendToTokens` splits a page
into parts of 500; the model sends it in one step, and when a later part throws
(`SendFails`) any of the page's devices have been told.

What throws while paging and sending is swallowed, and the job completes without a
result. Not so the lock: `acquireLock` is called before the `try` and `releaseLock` in
the `finally`, so either may fail the job (`AcquireFails`, `ReleaseFails`), with or
without having changed the lock, and `attempts: 3` (`MaxAttempts`) runs it again: after a
release that failed, for a campaign that is finished. Such a job is in `again`, like one
that stalled, and may tell a device twice. A `SET` whose answer is lost is sent again by
the Redis client and finds the run's own lock: the job ends as if another run had it
(`AcquireResent`).

Met while modelling: `allUsersPages` continues after the last token of a page
with `skip: 1`; when the run has just marked that token invalid, the next device
is skipped. A student removed from the course at the cursor ends the paging. A
job that is retried while the dead run's lock lives is dropped. Counts are lost
when the job ends before the log row is there. Administrators are paged by the same
loop and left out, like messages to one user.

### UsageBilling

One month of one course admin: `logs`, `summary`, `bill`, with `TrackUsage`,
`CreateLog`, `Aggregate`, `UpsertSummary`; `GenerateMonthlyBill`, `CreateBill`;
`PayBill`, `UpdateBill`. The named exceptions of `BooksAgree` are what the code
allows: a sum stored over a newer one, usage after the bill never billed, a
one-time charge made twice, one of two overlapping payments lost. Rates and
rounding are left out: each log is worth one unit.

### CourseTree

Rows of three levels with their `deleted` marks and, beside them, the lookups
`courseLookup` and `cycleLookup`, from which `handleCourseAuth.js` tells which
course a row belongs to. A tree is a course or a cycle; the catalogue has one
subject with one chapter, so a row is a place in a tree. `courseSubjectCreate` is
`AddSubject`, `InsertSubject`, `ReadSubjects`, `NextSubject`, `TakeChapters`,
`ReadChapters`, with `LogLookUpTable` (and `LogCycleLookUpTable`) for each row;
chapters and classes likewise. `GodClass` writes what is missing of the way to a
class in one transaction and no lookup. `Clone` copies a tree in one transaction.

`PlacesFound` and `NoTwins` name what the code leaves open (`adrift`, `twinned`):
rows of `GodClass`, lookups whose write failed and was swallowed, a chapter added
again whose deleted row `findFirst` finds instead (`courseSubjectChapter
.services.js:282`), two requests that fill one place. Left out: titles, images,
serial numbers, several subjects in one request, the copying of single rows
(`pullCourse`), `createCycleIntoDb` (it writes no lookup), the cached context of
two minutes, and that the reads of a copy take time.

### CourseArchive

`course` has the columns `markAsArchieve` (`archived`), `cycleAvailable` (`cycles`),
`contentOwner` and `archieveCourseId`; `cycleMark` has the marks that occur among the
cycles of a course, deleted cycles included, since nothing that marks them looks. An
update is `UpdateCourse`, `WriteCourse`, then `FindChildren` and `ClearOwners` when it
archives, then `MarkCycles`, which uses `cycleAvailable` as it was read at the start; a
deletion the same without cycles. `SetActiveBiller` checks that the biller runs,
`ReadCourses` and `Assign` follow. A copy of a course is archived, with its cycles,
and billed to the original's biller.

Cycles also come one by one. `createCycleIntoDb` (`CreateCycle`, `AddCycle`) and
`pullCourse` (`PullCourse`, `AddCycle`) give them no mark, whatever the course has;
`cloneCourseOrCycle` of a cycle (`CloneOneCycle`) puts an archived copy beside the
original; `updateCycleIntoDb` (`UpdateCycle`) marks one as it is told. A pull that finds
its cycle writes no mark and has no action.

`BillersActive` names how a course may still be billed to one that is over
(`strayed`). `CyclesFollow`, that cycles are marked as their course, holds from one
update of the course to the next event that sets a cycle apart (`apart`): one that
was created, pulled, copied or marked otherwise than its course, an update that read that
the course had no cycles or came between another one and its marks, or a failure half
way. Any update of the course ends that, for the better and the worse: it also takes
back the marks of cycles that were archived by themselves.

## 4. Runs

| Run | Checks | Instance | Distinct states |
| --- | --- | --- | --- |
| desktop_core | `ExchangeSingleUse`, `GuessesBounded`, `ReadyIsFinal`, `LoginSpec` | 2 requests to any endpoint, 1 transaction, 2 students, 2 e-mails, 2 phones, 1 code, 1 crash | 778,000 |
| desktop_churn | `ReadyMeansLinked`, `RequestsEnd` | 1 request to any endpoint, web flows on 2 students, 1 crash, fairness | 287,000 |
| desktop_shortlock | `RegistrationKept`, `NoAbandonedLock` | 2 requests, the lock may run out at any time | 791,000 |
| desktop_reuse | `ExchangeSingleUse` violated | as core, the lock may run out | |
| desktop_otp | `OtpBoundToTransaction` violated | 2 transactions, 1 phone | |
| signing_in | `SigningTypeOK`, `LoginsBounded`, `CacheCurrent`, `CodesHold`, `LinksAgree` | web sessions: 2 requests, 1 host, 3 rows, 2 ticks; codes of a student and of a guest: 2 requests, 3 codes; accounts: 2 requests, 2 e-mails, 2 phones, 3 identities, 1 death | 1,118,000 |
| sessions_reuse | `RefreshedOnce` violated | 1 request, tokens of one second | |
| cache_swr | `OneLoader`, `StaleExplained`, `PagesHold` | the cache: 2 processes, 1 update; presence: 2 processes, 2 sockets, a large and a small room, see below | 2,433,000 |
| chat | `NothingVanishes`, `DeletedStaysDeleted`, `ShownInOrder`, `EntriesFinish`, `StoreSpec` | 2 messages, one of them refused, 2 workers, 1 crash or failing call, any number of failing saves, fairness | 327,000 |
| live_classes | `TypeOK`, `CapacityRespected`, `RoomsServe`, `NoOrphanRoom`, `RecordingsKept`, `BooksAgree`, `TreeHolds`, `ArchivesHold` | eight small instances, see below | 856,000 |
| fair | `CatchesUp`, `FlightsEnd`, `DepartedVanish` | the cache: 1 process, 1 update, crashes; presence: 2 processes, 1 death, 1 viewer; fairness | 14,000 |
| students | `StudentsTypeOK`, `RefreshedOnce`, `SingleDevice`, `QuestionsLimited`, `SolversPaidOnce`, `CodesKept`, `AccessCurrent`, `CampaignsAccounted` | seven small instances, see below | 1,277,000 |

The `focus` values of **live_classes**: `failures` and `hooks`, the scheduler with 2
requests, 3 classes, a capacity of 1 per server and either one failing call or late
lock, or one webhook or other endpoint; `recordings`, 2 webhooks over a named and an
unnamed file, up to 3 parts, one failure; `billing`, 2 requests, a service charged
once and one charged by use, one failure; `courses` and `cycles`, 2 editors on 2
trees, with three requests that do not fail and two of which one may; `billers` and
`marks`, 2 clerks and 3 orders on 3 courses, the second with the marks of cycles and
one order stopped half way. `PagesHold` of **cache_swr** is `ShownExplained` of two
rooms, chosen by `focus` as well: in `large` two viewers ping only as they join, no
call fails, and a change by one is not sent (`ChangeMinDelta` is 2, which is two
percent of 100 viewers); in `small` one viewer pings from wherever he is connected,
every change is sent, and one call fails or one process dies. Those of **students**:
`sessions`, 2 desktop requests on 2 hosts; `asking`, the limit and its day;
`answering`, jobs, answers and payment; `redeeming` and `checking`, codes and cached
memberships; `all` and `course`, campaigns to 3 devices in pages of 2 with 2
attempts and two troubles, or one for a course (a stall, a death, a refused token, a
call that fails).

In these composites a type invariant is asked of the part that runs. The
invariants of a part hold trivially of its first state where another one runs;
the mutants show that each is decided where its part runs.

What the runs show, beyond "no error":

- The compare-and-set on the status alone is enough: whatever a request read,
  no status is reachable from which a stale document could undo a later one.
  A READY transaction is never rebound, cancelled or sent back (`ReadyIsFinal`)
  and names the account its identity is linked to, unless the student unlinked
  it meanwhile (`ReadyMeansLinked`).
- The exchange is single-use as long as the lock outlives its holder, and only
  then (**desktop_reuse**): nothing extends the 30 seconds and CONSUMED is
  written without a comparison, while issuing makes four database calls. The
  desktop README (line 91) says "The exchange is single-use".
- Registration keeps its account and spends its code even when the lock fails
  (`RegistrationKept`): the database transaction decides, not the lock.
- A code is looked up by phone, not by transaction (**desktop_otp**): two
  transactions that register one phone share a row, and the code sent for one
  opens an account for the other. The desktop README (line 214) says codes "are
  bound to the transaction and phone number". For the same reason
  `GuessesBounded` is stated for one transaction per phone: the count of wrong
  guesses is read before it is incremented, and only the transaction's lock
  serialises the two.
- A refresh token is traded once, except within the second it was signed
  (**sessions_reuse**), when its successor is the same string. The desktop
  README (line 180) says it "cannot be used again".
- One desktop is signed in at a time, except when two sign-ins overlap between
  clearing the other rows and writing their own: `SingleDevice` excludes exactly
  the behaviours in which that happened (`crossed`).
- The desktop flows and `verifyLoginV2` do not invalidate the cached session;
  `CacheCurrent` names every window in which it may differ from the row. Only
  the lifetime of the key closes them.
- The cache loads once per absence and holds an old value only for a reason one
  can name; deletes are not retried, so expiry is what ends a lost one
  (`CatchesUp`).
- A chat message that reached the stream is stored or dead-lettered, by
  whichever worker gets there, except when MAXLEN trims it first or the dead
  letter cannot be written. It is dead-lettered only if the table refuses it or
  its own save or acknowledgement failed, so a bad message costs its batch
  nothing but time. In the last case it may be both stored and dead-lettered.
  A message that a moderator deletes while its entry is unfinished can be
  inserted again: `DeletedStaysDeleted` names exactly these.
- The scheduler's lock and re-check keep both servers within their capacity, and
  every path of its catch block leaves each class in a room that was not ended
  and each open room with a class, but for a commit that was taken for failed
  (`lost`), a failure in the catch block itself and deletions (`leaked`).
- The remaining invariants have this form too: what the code promises, but for
  overlaps and failures that history variables name. The exceptions are the
  content of the result as much as the promise, since the code has no
  transaction, lock or unique key there; section 3 lists them per module.

### Bounds

Races in this code are between two requests: every check-then-act is a read and
a later write of one request, and a second request in between is what breaks it.
Two requests, each free to be any endpoint and to restart when it has answered,
give every pair of handlers and every order. One transaction is enough for
properties of one transaction; `desktop_otp` takes two because its property
relates two. Two students, e-mails and phones let an identity find its own, the
other or no account. `MaxCodes`, `MaxSessions` (2, so that a second delivery is
representable), `MaxCrashes`, `MaxClock` and `MaxVersion` bound counters that
the code does not. Wrong guesses are not limited in number, so the fifth is
reached; the log-in limit `HopLimit` is 0 for the same reason, and ticks are
coarse: a window of one tick is passed and not passed. `desktop_churn` has one
request since the web flows are the second actor. Runs with fairness use no
symmetry. The number of rows (3 for 2 requests) exceeds what the invariant
`LoginsBounded` allows. `LockOutlivesHolder`, `Subsecond` and `Churn` switch
assumptions on and off, so each property is checked under the weakest for which
it holds.

In the chat two messages are what one batch needs to have a neighbour in it,
and one refused message makes every batch of two fail; two workers are a holder
and a claimer (pm2 runs one, and two while it reloads). A stream of length 1
trims, a room buffer of 2 and batches of 1 make a flush leave something behind.
One fault suffices for each loss the code has; saves fail without bound.

In the composites: a capacity of one is full with one class, three classes are
one to place, one to move and one in the way; two start times overlap and do
not. Three parts are one more than the files that are deduplicated. A page of
two devices with a third behind it is the smallest paging with a cursor. Two
trees of one subject and one chapter let rows be added twice, moved and copied;
three requests are an addition, a deletion and an addition or copy. Two troubles of a
campaign and two attempts make a job throw twice, or stall and throw; `attempts` is 3 in
the code, and the theorem is about any number. Three courses
are a biller, an archived course and another biller or a copy. `MaxEvents`,
`MaxFaults`, `MaxBreaks`, `MaxDeaths`, `MaxJoins`, `MaxLogs`, `MaxLosses`,
`MaxSlips`, `MaxDay`, `MaxSends`, `MaxTroubles`, `MaxChanges`, `MaxEdits`,
`MaxFailures`, `MaxOrders` and `MaxAborts` bound what the world does. In
`codes` and `party` time passes only between requests: a code that expires under
a request in flight is not covered.

Deadlock checking is off because these systems may stop: no client calls, the
bounds are used up, all keys expired.

### Fairness

Weak fairness of `Continue(r)`, for each request of the desktop flow: Node runs
the continuation of every await it accepted, and Prisma, Redis and HTTP calls
answer or time out. No fairness of arrivals, failures, crashes or the web flows.
Weak fairness of expiry (`LockExpires`, `EntryAges`, `EntryExpires`): Redis keys
are all set with a lifetime. `DeleteCache` gets none: a writer may die before it.
Weak fairness of `Work(w)` for every chat worker: its loop catches every error
and goes on, pm2 restarts a process that dies, and after twenty reads, each at
most BLOCK long, it claims. Weak fairness of `GrowsIdle(m)`: time passes.
`WatchFairness` is the continuation of a join or leave that has begun, the timers
of a process (flush, tick) and the aging of pings in the sorted set; joining,
pinging and leaving by themselves have none.

## 5. Mutants

Every checked property comes with a plausible bug of the code that breaks it,
named `<definition>_<what>` beside the definition it would replace: the re-read
inside the lock left out, the fifth guess compared before it is counted, the
refresh's `where` naming the row only, the release script deleting whatever
token the lock holds, the candidate left out of the load, the unique key of
recordings ignored, the subjects already there not left out, and so on.

## 6. Proofs

The theorems hold for every number of requests, transactions, students, rows,
processes, versions, messages, workers, webhooks, files, courses and codes, and
for every bound. They rest on the `...Assumption` of the module they are about
and on what the column "Needs" adds. The assumptions give the constants their
types and keep `None`, `NoOne` and the like apart from proper values; beyond that
they say that the callers of `OneTimeCodes`, the requests of `StudentSessions`,
the viewers of `WatchPresence`, the classes of `LiveSchedule` and the services of
`UsageBilling` are finitely many (their invariants count or add them up), that
every tree of `CourseTree` belongs to a course, that a phone may get at least one
code (`Limit`) which lives for at least two ticks, and that `MaxClock` is at least
1, the initial clock.

| Theorem | Says | Needs |
| --- | --- | --- |
| `DesktopAuthProofs!TypeCorrect` | `Spec => []TypeOK` | |
| `DesktopAuthProofs!ReadyFinal` | `Spec => ReadyIsFinal` | |
| `DesktopAuthProofs!SingleUse` | `[]ExchangeSingleUse` | `LockOutlivesHolder` |
| `DesktopAuthProofs!Implements` | `Spec => LoginSpec` | `LockOutlivesHolder` |
| `DesktopAuthProofs!ReadyLinked` | `[]ReadyMeansLinked` | |
| `DesktopAuthProofs!LocksReturned` | `[]NoAbandonedLock` | |
| `DesktopAuthProofs!RegistrationsKept` | `[]RegistrationKept` | |
| `DesktopAuthProofs!GuessesEnd` | `[]GuessesBounded` | `LockOutlivesHolder`, one transaction |
| `CacheAsideProofs!TypeCorrect` | `Spec => []TypeOK` | |
| `CacheAsideProofs!Stampede` | `[]OneLoader` | |
| `CacheAsideProofs!Explained` | `[]StaleExplained` | |
| `ChatPipelineProofs!TypeCorrect` | `Spec => []TypeOK` | |
| `ChatPipelineProofs!Vanishing` | `[]NothingVanishes` | |
| `ChatPipelineProofs!Burials` | `[]BuriedForCause` | |
| `ChatPipelineProofs!Deletions` | `[]DeletedStaysDeleted` | |
| `ChatPipelineProofs!Orders` | `[]ShownInOrder` | |
| `ChatPipelineProofs!Implements` | `Spec => StoreSpec` | |
| `StudentSessionsProofs!TypeCorrect` | `[]TypeOK`, and a login's token was signed before | |
| `StudentSessionsProofs!TradedOnce` | `[]RefreshedOnce` | `~Subsecond` |
| `StudentSessionsProofs!OneDesktop` | `DesktopSpec => []SingleDevice` | |
| `StudentSessionsProofs!LoginsCounted` | `[]LoginsBounded` | |
| `StudentSessionsProofs!CachedSessionCurrent` | `[]CacheCurrent` | |
| `SigningInProofs!AccountsTyped`, `CodesTyped` | `[]LinksTypeOK`, `[]CodesTypeOK` | |
| `SigningInProofs!AccountsAgree` | `LinksSpec => []LinksAgree` | |
| `SigningInProofs!CodesSafe` | `CodesSpec => []CodesHold` | |
| `LiveScheduleProofs!SchedTypeCorrect` | `SchedSpec => []SchedTypeOK` | |
| `LiveScheduleProofs!RoomsAreKept` | `SchedSpec => []RoomsServe` | |
| `LiveScheduleProofs!RoomsAccounted` | `SchedSpec => []NoOrphanRoom` | |
| `LiveScheduleProofs!CapacityHolds` | `SchedSpec => []CapacityRespected` | |
| `LiveClassesProofs!RecordingsTyped`, `WatchTyped`, `ArchivesTyped`, `BillTyped`, `TreeTypeCorrect` | the type invariants | |
| `LiveClassesProofs!RecordingsSafe` | `RecSpec => []RecordingsKept` | |
| `LiveClassesProofs!NumbersExplained` | `WatchSpec => []ShownExplained`, which `PagesHold` asks of two rooms | |
| `LiveClassesProofs!ArchivesSafe` | `ArchiveSpec => []ArchivesHold` | |
| `LiveClassesProofs!BooksKept` | `BillSpec => []BooksAgree` | |
| `LiveClassesProofs!LookupsRight` | `TreeSpec => []PlacesFound` | |
| `LiveClassesProofs!ShownOnce` | `TreeSpec => []NoTwins` | |
| `StudentsProofs!EnrolTyped`, `QuoraTyped`, `PushTyped` | the type invariants | `QuoraTyped`: as `LimitsHold` |
| `StudentsProofs!CodesKeptAlways` | `EnrolSpec => []CodesKept` | |
| `StudentsProofs!MembershipCurrent` | `EnrolSpec => []AccessCurrent` | |
| `StudentsProofs!LimitsHold` | `QuoraSpec => []QuestionsLimited` | `Calls` finite, not empty |
| `StudentsProofs!SolutionsPaid` | `QuoraSpec => []SolversPaidOnce` | `Calls` finite, not empty |
| `StudentsProofs!CampaignsKept` | `PushSpec => []CampaignsAccounted` | |

**DesktopAuth.** `TypeOK` is not inductive: that a READY document has its
account depends on what requests carry. `TypeInv` adds, for every request, what
it knows at its step (`Knows`: the status it read, that an attempt is recorded,
which status change it is about to write, one of `Edges`) and that it holds the
lock in the locked region (`HeldOK`). `KeepsAttempt` is there for one step, the
re-read under the lock: the attempt seen before it must still be in the
document. `ReadyIsFinal` follows from `TypeInv` because no edge starts at READY.
`ExchangeSingleUse` needs three more conjuncts: `LockInv`, a request that
believes it holds the lock does; `BoundInv`, the status determines whether the
transaction is bound and to whom; `ExchangeInv`, past the re-read the
transaction is READY or expired, not yet delivered and bound to the account the
request carries. `LockInv` makes at most one request a holder, so no other
delivery can come between the re-read and this one: for this the assumption on
the lock is needed. The refinement uses the same invariant: each action maps to
one action of `LoginOnce` or to a stutter.

`ReadyMeansLinked` and `RegistrationKept` hold without the lock, since the
database and the compare-and-set protect them. `Owns`, that an identity is linked
to a student or has been unlinked, never ceases to hold; `OwnInv` says that what a
request believes of the account (at `c_account`, `g_account`, `l_commit` and at a
`cas` to READY) is owned, hence what it writes is. `Onward` is how transactions
move: one that is open for linking or registration keeps its identity while it is
open, because who writes it has read it after it was completed (`PastInv`). A
use is thus owned by the identity its transaction has (`UseInv`). `CodeInv`
numbers codes by what was sent, so that no two rows store one. `NoAbandonedLock`
is inductive once one knows that a request in the locked region leaves it by the
release only (`HeldStays`). `GuessesBounded` does need the lock, a second time:
the count is read at one step and written at the next, and nobody else is about to
guess (`WrongGuess`). A resend may come between and put another code in the row;
`SeenCount` then holds because the new code has no guesses yet.

**CacheAside.** `HolderInv`: a flight past the lock holds it, unless its lock
ran out under it (`overran`); two holders are then one, which is `OneLoader`.
`CountInv` ties the count to the phase: a load that counted is in a fresh entry
or is about to be written by a flight still under the lock, and a flight about
to load has seen the entry not fresh. `LoadInv`: what a flight is about to write
is current unless an update came since, which with the history variables `lost`
and `deletes` gives `StaleExplained`.

**ChatPipeline.** `NothingVanishes` is not inductive: an acknowledgement takes
an entry out of `pending` and must know that it has a place. `HandInv` says what
a worker knows of the entries in hand at each step: stored before it
acknowledges, with a cause before it buries, in the dead-letter stream or given
up before it acknowledges a burial; `BuriedForCause` follows from it. `KeptInv`
says where every message is: not handed out and in the stream or on its way, or
handed out and either placed or pending and in the stream. The lemmas on
`Elements` carry it through appending and trimming. `GoneInv` says that no
worker holds an entry finished when its row was deleted, because a batch is
taken from entries not handed out or still pending; `DeletedStaysDeleted`
follows since only entries in hand are inserted. `ShownInOrder` compares two
lines: what a room has seen followed by what it has yet to see, and what the
stream took followed by what is on its way. `OrderInv` says that neither repeats
a message and that they order alike what they share. A flush and an XADD move a
message along its line and leave the line as it is; a failing XADD takes one
message out of the line, a full buffer keeps one out.

That the pipeline implements `ChatStore` needs `HandInv`, `KeptInv` and one more
fact, `RestInv`: a worker between two batches has nothing in hand, so that a save
moves entries within its hand and `Kept` stays as it is (`SameHands`). Steps that
only take or leave entries put nothing new on the way (`KeptGrowsNot`): a batch
was unfinished in the stream before it was taken. `LeavesWithAnEnd` is
`NothingVanishes` of the next state, and makes each of them a `LetGo`; an
outdated claim, a failed acknowledgement and a death are no different here.
`DeadLetter` is `Bury` by `HandInv`, or `LetGo` of what it gave up.

**StudentSessions.** Three arguments that share types only. `RefreshedOnce`: a
refresh compares the token in the `where` of its update, so what must be shown
is that a traded token never comes back. `ApartInv`: a token is in one row or
with one log-in that has yet to write it; `TradedInv`: a traded one is in neither
and not newer than the last signature. Without `~Subsecond` a signature may repeat
a token, which is **sessions_reuse**. `SingleDevice`: `ClearedInv`, from the
clearing of the other rows to the write there is no session but at the request's
host, unless sign-ins crossed. It holds of the desktop flows, for web log-ins
clear nothing. `LoginsBounded` counts rows together with the requests about to
create one, and the log-ins of a row together with those past the limit that are
not counted yet; each count is bounded by the number of requests. `CacheCurrent`:
what a fill has read is the newest row's token until a writer makes it `late`,
and what is cached is so until one makes it `stale`.

**SigningIn.** Accounts: while no two requests of an account have crossed
(`mixed`), nobody attaches an identity while another detaches one and two that
attach are of different providers (`CrossInv`), so what a request found when it
looked still holds when it writes (`StepInv`); one row per provider and the truth
of `isOAuthUser` follow. Codes: a code is in one place, on its way to a record or
in one record (`PlaceInv`), a request that has read one is going to clear the
record that holds it, and a code that was used is nowhere (`SpentInv`); a request
that was not `crowded` is alone with its row, so the limit it saw still holds.
`RowCountInv` counts the rows made and those about to be against the messages
sent. The theorem also covers time that passes during a request, which the run
leaves out.

**LiveSchedule.** `SchedInv` serves the rooms. `RowInv`: a room is in one row.
`ReqInv` says what a request holds at its step (`Shape`), how that stands to the
rows (`Stands`: the room it opened is in no row before it is written, the room a
moved class leaves is nobody else's) and that no two requests hold the same class
or room (`Between`). What a request may end is then in no row that stands
(`ServeInv`, hence `RoomsServe`), and an open room is in a row, in hand or known
to be leaked (`OrphanInv`, hence `NoOrphanRoom`). `CapacityRespected` speaks of the
rows; what makes it inductive is the plan. `CapacityInv`: unless a class was placed
or moved without the scheduler, an undo put an old room back to full quality, or
the lock ran out under its holder (all of this is `outside`), requests past the lock
hold it (`HolderInv`), and what a request planned when it counted still fits
(`PlanInv`): what others do between its count and its commit can only take load
away (`LoadShrinks`). Loads are cardinalities of sets of classes, of which there are
finitely many.

**LiveClasses.** Recordings: a file has its row while it is handled, and a named
one has one handler or one part (`NamedInv`), by the unique key. Presence: `ShownExplained`
compares a page with the viewers of now, but what a broadcast compares with is the last
number sent; `FreshInv` ties the two together: while nothing was missed, a page shows
that number, or the count of its own join. A number that is not worth a broadcast is
then close to every page but the `greeted` ones, and the theorem holds for every
threshold. Archive: `BillersActive` speaks of archived courses,
`BillersInv` of all, for a running course may have a biller that is over and be
archived later; `CyclesInv` says that who will mark the cycles of a course
(`WillMark`) holds the course's own mark unless it was overtaken (`raced`), and that
otherwise the marks of its cycles are its own or it is `apart`.

**Billing.** `BooksAgree` adds amounts over all services, a fold. `Sums` states
the fold as a function on the subsets of a set; that a sum grows with its terms,
and changes by the change of one, is shown from a smallest subset that would
violate it (`WFMin`, a theorem of the library, in place of an induction). `ChargeInv`:
who is about to charge once found no charge, unless two looked together.
`SumInv`: what a request is about to store is the sum of the logs, unless the
service is `behind`, so a summary that is short has that reason or a request on its
way. `PlanInv`, `AllBilled`: the bill about to be written holds every summary
read, and a service used after it is in `after`. `PayInv`: what a payment is about
to write is the bill it read and its own amount, unless another one crossed.

**Course trees.** `FormInv`: a row stands in a row that stands, up to its tree; no
step takes a row away, only `UpdateClass` moves one, so who holds the name of a row
knows its tree. `PlacesFound` is not inductive: a row may be explained by a request
that made it, and the request moves on. `EditOK` says what becomes of what a
request made: at each of its steps it is going to write the lookup, or the row is
`adrift`, or (`Coming`) a deleted subject or one of those read back and still to
do. `HalfOK`: between its two lookups a row has the first. A class that is moved
while its lookups are written makes its older requests `raced`, and what they write
is `adrift`. `TwinInv`: who found its place empty, and was not overtaken (`raced`),
finds it empty still (`Alone`), so what it adds is the only one there. What a step
of one request does to the others is one lemma, `TreeStep`; a copy (`CloneStep`) is
the longest case, because its new rows must be shown to lie in the copy. The proof
found that nothing said of a tree that it has a course, which `TreeAssumption` now
says.

**Enrolment.** `CoverInv` and `LoadInv`: a membership in the cache or on its way
there is the one of the rows, or a request is about to drop it, or it is known to
be outdated. `CodesKept`: a code that is not shared is redeemed by one request
(`OneInv`), which creates nothing that was created for it (`UnusedInv`,
`OnceInv`). That its courses go to the student of its cycles needs `WholeInv`:
who has a course by a code that was not given in part has all its cycles, so that
a later redemption of the code finds them. `OwedInv` is the course of a cycle
before the cycle is written.

**QuoraFlow.** The bound on questions is not inductive: a question that has read
the limit writes a sum of its own. `BoundInv` says that what was asked and what is
left stays within what was allowed and the questions counted as out of turn, and
the same of what each request would write; a request that is the only one to
write writes what is left, and the others are counted (`together`). For a request
that opens a day the bound is `Allowed`, with the allowance nobody has added yet.
`PayInv`: a question that is not exempt has one call about to solve it, and only
while it is unsolved. `OpenInv`: who has a question that waits has no other and
asks no other, unless they are exempt. `AnswerInv` counts answers with those on
their way. The attempt to prove the bound corrected the model: `granted` did not
grow when a question read the limit in the evening and wrote the row first after
midnight, so that the opening question of the day was not recognised. It takes a
limit of two and five questions to see; the run has three.

**Push.** `ClaimInv`: until the event key runs out one campaign has it, for the
key is set before the job is queued. `CampaignInv` ties a job to its runs: unless
it stalled or threw (`again`), a job has one run (`Single`), which carries what it has
counted (`Carries`) and has not reached a device past its cursor; a finished job was
swept or failed and its log has the count or is known to lack it. `ReachInv`: up to its
cursor a run has reached the devices that can be reached and were not refused, or has
them in hand, whichever run of the job it is; that a page takes the next devices in order
(`PageTakes`) makes the cursor sound. Devices that a page could not see are in `passed`.

Model-checked only:

- what the composites check, as far as it is theirs: `SigningTypeOK`,
  `StudentsTypeOK`, `TypeOK` of `MCLiveClasses`, `TreeHolds` and `PagesHold` put
  together, for each value of `focus`, formulas of the parts. The theorems state each
  of these formulas for its part (`CodesTyped`, `AccountsTyped`, `LookupsRight`,
  `ShownOnce`, `NumbersExplained` and so on); that a composite runs one part under
  narrower bounds is not proved again. Other properties of a composite run are
  those of the part, which is what the theorem states.
- the three violations, for which a run shows a counterexample;
- all liveness (`RequestsEnd`, `CatchesUp`, `FlightsEnd`, `EntriesFinish`,
  `DepartedVanish`), since the prover handles neither fairness nor ENABLED.

## 7. Not modelled

Left out of the modelled parts: what each section above names. Of the parts
without a module, `SocketAccess` (a counter whose INCR and EXPIRE are two calls)
is worth one; the rest are operations of one query, lists and reports.

Much of the repository cannot gain from a model, which is why the map stays far
below the size of the source: the longest files are list queries with their
filters and pages, formatting of responses, creation and update of single rows,
several generations of one endpoint of which one is in use (live classes,
redemption, sign-up), commented-out versions, and one-shot scripts
(`dbScriptHelper.js`, `scripts/`). Left out for good: rendering, validation,
e-mail and SMS texts, cookie and header handling, uploads, metrics, key names.

Signatures, hashes and PKCE are taken as correct; PostgreSQL and Redis are taken
to execute one statement, script or Prisma transaction at a time; a Redis
failover that forgets a lock is not distinguished from the lock's expiry.
