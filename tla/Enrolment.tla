----------------------------- MODULE Enrolment -----------------------------
(***************************************************************************)
(* How students come by courses and cycles (student/courseStudent): an     *)
(* access code is redeemed against the cycles and courses of the product   *)
(* it bought, old purchases are migrated, administrators give and take     *)
(* access by hand.  None of it is a transaction: the lookups before a      *)
(* write, each write and each deletion of cached memberships are steps,    *)
(* any of which may be the last.                                           *)
(***************************************************************************)
EXTENDS Integers, FiniteSets

CONSTANTS
  Slots,      \* requests in flight
  Members,    \* students
  Cycles, Courses,
  Codes,      \* access codes
  CourseOf,   \* the course of a cycle
  Sold,       \* cycles and courses of the product a code bought
  Academic,   \* codes of academic products, which give cycles only
  Buyers,     \* who may redeem a code: its buyer, or anyone with an AFS or CAMP code
  Manual,     \* stands for the code of rows an administrator wrote
  Nothing,
  MaxEvents   \* bound on crashes, failures and changes by hand

Items == Cycles \cup Courses

ASSUME EnrolmentAssumption ==
  /\ Cycles \cap Courses = {}
  /\ CourseOf \in [Cycles -> Courses]
  /\ Sold \in [Codes -> SUBSET Items]
  /\ Academic \subseteq Codes
  /\ Buyers \in [Codes -> SUBSET Members]
  /\ {Manual, Nothing} \cap Codes = {} /\ Manual # Nothing
  /\ Nothing \notin Members
  /\ MaxEvents \in Nat

VARIABLES
  seat,      \* courseStudents and cycleStudents: the code of a student's row
  memo,      \* cached memberships: {allowed} or {} when absent
  loading,   \* what the fill of a membership has loaded and not yet cached
  redeem,    \* requests
  events,    \* crashes, failures and changes by hand so far
  \* history, read by no guard
  shared,    \* codes of two requests in flight together
  partly,    \* codes that gave, or left, a student a part of the product only
  torn,      \* courses a student's cycles ask for and a failure or removal took
  outdated   \* memberships that changed quietly, or while they were loaded

membership == <<memo, loading>>
enrolVars == <<seat, membership, redeem, events, shared, partly, torn, outdated>>

\* What a request carries: whose, by which code, and the rows to create or
\* memberships to delete (`courses`, for access given by hand any items); `full`
\* once the courses of the product itself were looked up.
Redeem == [pc: {"idle", "cycles", "drop_cycles", "courses", "drop_courses", "look"},
           member: Members \cup {Nothing}, code: Codes \cup {Nothing},
           cycles: SUBSET Cycles, courses: SUBSET Items, full: BOOLEAN,
           migrates: BOOLEAN]

Vacant == [pc |-> "idle", member |-> Nothing, code |-> Nothing, cycles |-> {},
           courses |-> {}, full |-> FALSE, migrates |-> FALSE]

EnrolInit ==
  /\ seat = [s \in Members |-> [i \in Items |-> Nothing]]
  /\ memo = [s \in Members |-> [i \in Items |-> {}]]
  /\ loading = memo
  /\ redeem = [r \in Slots |-> Vacant]
  /\ events = 0
  /\ shared = {} /\ partly = {} /\ torn = {} /\ outdated = {}

-----------------------------------------------------------------------------
Holds(s, i) == seat[s][i] # Nothing
Pairs(s, items) == {s} \X items

Step(r, pc) == redeem' = [redeem EXCEPT ![r].pc = pc]
Leave(r) == redeem' = [redeem EXCEPT ![r] = Vacant]
Event == events < MaxEvents /\ events' = events + 1

\* createMany: the rows of student s get the code.
Create(s, items, code) ==
  seat' = [seat EXCEPT ![s] = [i \in Items |-> IF i \in items THEN code ELSE @[i]]]

\* Memberships of s that are being loaded, or are cached, while their rows change.
Loading(s, items) == {x \in Pairs(s, items) : loading[s][x[2]] # {}}
Cached(s, items) == {x \in Pairs(s, items) : memo[s][x[2]] # {}} \cup Loading(s, items)

Delete(s, items) ==
  memo' = [memo EXCEPT ![s] = [i \in Items |-> IF i \in items THEN {} ELSE @[i]]]

-----------------------------------------------------------------------------
(* redeemCourseV3 and migrateFromOldApp                                      *)

\* Mutant: the code is looked for among the student's own rows.
Used_Own(k, i) == FALSE

\* The row of some student was created with the code.
Used(k, i) == \E s \in Members : seat[s][i] = k

CyclesOf(k) == Sold[k] \cap Cycles
Missing(s, items) == {i \in items : ~Holds(s, i)}

\* The courses of cycles that the student does not have.
CoursesOf(s, cycles) == Missing(s, {CourseOf[c] : c \in cycles})

Begin(r, s, k, cycles, migrates) ==
  /\ redeem' = [redeem EXCEPT ![r] =
       [Vacant EXCEPT !.pc = "cycles", !.member = s, !.code = k, !.cycles = cycles,
                      !.courses = CoursesOf(s, cycles), !.migrates = migrates]]
  /\ shared' = IF \E o \in Slots : redeem[o].code = k THEN shared \cup {k}
                  ELSE shared
  /\ partly' = IF cycles = CyclesOf(k) THEN partly ELSE partly \cup {k}

\* The code is refused when one of the cycles he lacks was given for it.
RedeemCourse(r, s, k) ==
  LET wanted == Missing(s, CyclesOf(k)) IN
  /\ redeem[r] = Vacant /\ s \in Buyers[k]
  /\ \A c \in wanted : ~Used(k, c)
  /\ Begin(r, s, k, wanted, FALSE)
  /\ UNCHANGED <<seat, membership, events, torn, outdated>>

\* A purchase of the old application: used cycles are passed over.
MigrateFromOldApp(r, s, k) ==
  LET wanted == {c \in Missing(s, CyclesOf(k)) : ~Used(k, c)} IN
  /\ redeem[r] = Vacant /\ s \in Buyers[k]
  /\ Begin(r, s, k, wanted, TRUE)
  /\ UNCHANGED <<seat, membership, events, torn, outdated>>

\* Fails when a row is there by now; nothing was written yet.
AssignCycles(r) ==
  LET q == redeem[r] IN
  /\ q.pc = "cycles"
  /\ IF q.cycles = Missing(q.member, q.cycles)
     THEN /\ Create(q.member, q.cycles, q.code)
          /\ Step(r, IF q.migrates THEN "courses" ELSE "drop_cycles")
          /\ outdated' = outdated \cup (IF q.migrates THEN Cached(q.member, q.cycles)
                                       ELSE Loading(q.member, q.cycles))
     ELSE Leave(r) /\ UNCHANGED <<seat, outdated>>
  /\ UNCHANGED <<membership, events, shared, partly, torn>>

\* Mutant: redeeming leaves the cached memberships of the cycles alone.
InvalidateCycles_Kept(r) ==
  /\ redeem[r].pc = "drop_cycles" /\ Step(r, "courses")
  /\ UNCHANGED <<seat, membership, events, shared, partly, torn, outdated>>

InvalidateCycles(r) ==
  LET q == redeem[r] IN
  /\ q.pc = "drop_cycles" /\ Delete(q.member, q.cycles) /\ Step(r, "courses")
  /\ UNCHANGED <<seat, loading, events, shared, partly, torn, outdated>>

\* Mutant: the courses of new cycles are not assigned.
AssignCourses_Skipped(r) ==
  /\ redeem[r].pc = "courses" /\ Leave(r)
  /\ UNCHANGED <<seat, membership, events, shared, partly, torn, outdated>>

\* A migration lists the course of every cycle: twice when two cycles share it.
Twice(q) ==
  q.migrates /\ \E c, d \in q.cycles : c # d /\ CourseOf[c] = CourseOf[d]
                                       /\ CourseOf[c] \in q.courses

AssignCourses(r) ==
  LET q == redeem[r] IN
  /\ q.pc = "courses"
  /\ IF q.courses = Missing(q.member, q.courses) /\ ~Twice(q)
     THEN /\ Create(q.member, q.courses, q.code) /\ Step(r, "drop_courses")
          /\ torn' = torn \ Pairs(q.member, q.courses)
          /\ outdated' = outdated \cup Loading(q.member, q.courses)
     ELSE /\ Leave(r) /\ torn' = torn \cup Pairs(q.member, q.courses)
          /\ UNCHANGED <<seat, outdated>>
  /\ UNCHANGED <<membership, events, shared, partly>>

\* After the courses of its cycles a request turns to those of the product.
Onward(r) ==
  LET q == redeem[r] IN
  IF q.full \/ q.migrates \/ q.code \in Academic THEN Leave(r) ELSE Step(r, "look")

InvalidateCourses(r) ==
  LET q == redeem[r] IN
  /\ q.pc = "drop_courses" /\ Delete(q.member, q.courses) /\ Onward(r)
  /\ UNCHANGED <<seat, loading, events, shared, partly, torn, outdated>>

\* Mutant: the cycles of the product are not told from its courses.
SoldCourses_Any(k) == Sold[k]

SoldCourses(k) == Sold[k] \cap Courses

\* The courses of the product itself, when it is not an academic one.
FindCourses(r) ==
  LET q == redeem[r]
      wanted == Missing(q.member, SoldCourses(q.code))
  IN
  /\ q.pc = "look"
  /\ IF \E z \in wanted : Used(q.code, z) THEN Leave(r)
     ELSE redeem' = [redeem EXCEPT ![r] = [q EXCEPT !.pc = "courses", !.courses = wanted,
                                                   !.full = TRUE]]
  /\ UNCHANGED <<seat, membership, events, shared, partly, torn, outdated>>

\* Memberships a request has written and not yet deleted from the cache.
Undropped(q) ==
  CASE q.pc = "drop_cycles" -> Cached(q.member, q.cycles)
    [] q.pc = "drop_courses" -> Cached(q.member, q.courses)
    [] OTHER -> {}

\* Courses a request owes for cycles it has created.
Owed(q) ==
  Pairs(q.member, IF q.pc \in {"drop_cycles", "courses"} THEN q.courses ELSE {})

\* Redis fails while memberships of courses are deleted: logged, no more.
InvalidationFails(r) ==
  /\ redeem[r].pc = "drop_courses" /\ Event /\ Onward(r)
  /\ outdated' = outdated \cup Undropped(redeem[r])
  /\ UNCHANGED <<seat, membership, shared, partly, torn>>

\* A query or an invalidation fails or the process dies: the rest is not done.
Abandon(r) ==
  /\ redeem[r] # Vacant /\ Event /\ Leave(r)
  /\ torn' = torn \cup Owed(redeem[r])
  /\ outdated' = outdated \cup Undropped(redeem[r])
  /\ UNCHANGED <<seat, membership, shared, partly>>

-----------------------------------------------------------------------------
(* manuallyCourseAccessIntoDb and removeStudentAccess                        *)

\* Courses or cycles are given, those the student has are skipped.
ManuallyAccess(r, s, items) ==
  LET new == Missing(s, items) IN
  /\ redeem[r] = Vacant /\ Event /\ items # {}
  /\ (items \subseteq Cycles \/ items \subseteq Courses)
  /\ Create(s, new, Manual)
  /\ redeem' = [redeem EXCEPT ![r] =
       [Vacant EXCEPT !.pc = "drop_courses", !.member = s, !.courses = items, !.full = TRUE]]
  /\ torn' = torn \ Pairs(s, items)
  /\ outdated' = outdated \cup Loading(s, new)
  /\ UNCHANGED <<membership, shared, partly>>

\* Only the membership of a course is deleted from the cache.
RemoveStudentAccess(r, s, i) ==
  /\ redeem[r] = Vacant /\ Event /\ Holds(s, i)
  /\ Create(s, {i}, Nothing)
  /\ IF i \in Courses
     THEN /\ redeem' = [redeem EXCEPT ![r] = [Vacant EXCEPT
                 !.pc = "drop_courses", !.member = s, !.courses = {i}, !.full = TRUE]]
          /\ torn' = torn \cup {<<s, i>>}
          /\ outdated' = outdated \cup Loading(s, {i})
     ELSE outdated' = outdated \cup Cached(s, {i}) /\ UNCHANGED <<redeem, torn>>
  /\ partly' = partly \cup ({seat[s][i]} \cap Codes)
  /\ UNCHANGED <<membership, shared>>

-----------------------------------------------------------------------------
(* hasCourseStudentAccess and hasCycleStudentAccess                          *)

LoadAccess(s, i) ==
  /\ memo[s][i] = {} /\ loading[s][i] = {}
  /\ loading' = [loading EXCEPT ![s][i] = {Holds(s, i)}]
  /\ outdated' = outdated \ {<<s, i>>}
  /\ UNCHANGED <<seat, memo, redeem, events, shared, partly, torn>>

CacheAccess(s, i) ==
  /\ loading[s][i] # {}
  /\ memo' = [memo EXCEPT ![s][i] = loading[s][i]]
  /\ loading' = [loading EXCEPT ![s][i] = {}]
  /\ UNCHANGED <<seat, redeem, events, shared, partly, torn, outdated>>

\* After MEMBERSHIP_TTL_MS.
AccessExpires(s, i) ==
  /\ memo[s][i] # {}
  /\ memo' = [memo EXCEPT ![s][i] = {}]
  /\ UNCHANGED <<seat, loading, redeem, events, shared, partly, torn, outdated>>

-----------------------------------------------------------------------------
Redeeming ==
  \/ \E r \in Slots, s \in Members, k \in Codes :
       RedeemCourse(r, s, k) \/ MigrateFromOldApp(r, s, k)
  \/ \E r \in Slots :
       \/ AssignCycles(r) \/ InvalidateCycles(r)
       \/ AssignCourses(r) \/ InvalidateCourses(r) \/ FindCourses(r)
       \/ InvalidationFails(r) \/ Abandon(r)

ByHand(s) ==
  \E r \in Slots :
    \/ \E items \in SUBSET Items : ManuallyAccess(r, s, items)
    \/ \E i \in Items : RemoveStudentAccess(r, s, i)

Checking ==
  \E s \in Members, i \in Items :
    LoadAccess(s, i) \/ CacheAccess(s, i) \/ AccessExpires(s, i)

EnrolNext == Redeeming \/ (\E s \in Members : ByHand(s)) \/ Checking

EnrolSpec == EnrolInit /\ [][EnrolNext]_enrolVars

-----------------------------------------------------------------------------
(* Properties.                                                               *)

EnrolTypeOK ==
  /\ seat \in [Members -> [Items -> Codes \cup {Manual, Nothing}]]
  /\ memo \in [Members -> [Items -> {{}, {TRUE}, {FALSE}}]]
  /\ loading \in [Members -> [Items -> {{}, {TRUE}, {FALSE}}]]
  /\ redeem \in [Slots -> Redeem]
  /\ events \in 0..MaxEvents
  /\ shared \subseteq Codes /\ partly \subseteq Codes
  /\ torn \subseteq Members \X Courses /\ outdated \subseteq Members \X Items

\* A code gives an item to one student: the check for a used code and the rows
\* it guards are separate queries, so two redemptions at once may break it, and
\* the course that comes with a cycle is given unchecked, which shows when both
\* students held parts of the product before.  And a student who redeemed a
\* cycle has its course, but for what is still on its way and what failures,
\* migrations of two cycles of one course and removals took: no second
\* redemption brings that back.
CodesKept ==
  /\ \A s, t \in Members, i \in Items :
       s # t /\ seat[s][i] \in Codes /\ seat[s][i] = seat[t][i]
         => seat[s][i] \in shared \cup (IF i \in Courses THEN partly ELSE {})
  /\ \A s \in Members, c \in Cycles :
       seat[s][c] \in Codes /\ ~Holds(s, CourseOf[c])
         => <<s, CourseOf[c]>> \in torn \cup UNION {Owed(redeem[r]) : r \in Slots}

\* A cached membership is the one of the rows, except between a write and the
\* deletion of the key, when the fill loaded what has changed since, and for
\* cycles that were removed by hand or migrated, which nothing deletes.
AccessCurrent ==
  \A s \in Members, i \in Items :
    \/ memo[s][i] \subseteq {Holds(s, i)}
    \/ <<s, i>> \in outdated \cup UNION {Undropped(redeem[r]) : r \in Slots}
=============================================================================
