---------------------------- MODULE CourseArchive ----------------------------
(***************************************************************************)
(* Courses that are over.  An archived course (markAsArchieve) stays open  *)
(* to students of the course that names it (archieveCourseId), and its     *)
(* content is billed to a running course (contentOwner, the active         *)
(* biller).  Updates and deletions of a course also put right its archived *)
(* dependants and its cycles, one statement after the other.  Cycles are   *)
(* also created, pulled, cloned and updated by themselves; of a course's   *)
(* cycles only the marks that occur among them are kept, deleted ones      *)
(* included, as the code does not look whether a cycle is deleted when it  *)
(* marks them.                                                             *)
(***************************************************************************)
EXTENDS Integers, FiniteSets

CONSTANTS
  Clerks,      \* requests of super admins
  Courses,
  WithCycles,  \* courses whose content is in cycles at first
  NoCourse,
  MaxOrders,   \* bound on requests
  MaxAborts    \* bound on requests that fail half way

ASSUME ArchiveAssumption ==
  /\ WithCycles \subseteq Courses /\ NoCourse \notin Courses
  /\ MaxOrders \in Nat /\ MaxAborts \in Nat

VARIABLES
  course,      \* course rows
  cycleMark,   \* the values of markAsArchieve among the cycles of a course
  desk,        \* the requests
  orders, aborts,
  \* history
  strayed,     \* courses left with a biller that is over, for a named reason
  apart        \* courses whose cycles may be marked otherwise

archiveVars == <<course, cycleMark, desk, orders, aborts, strayed, apart>>

\* `cycles` is cycleAvailable.
Absent == [there |-> FALSE, deleted |-> FALSE, archived |-> FALSE, cycles |-> FALSE,
           contentOwner |-> NoCourse, archieveCourseId |-> NoCourse]
Running == [Absent EXCEPT !.there = TRUE]
Alive(c) == course[c].there /\ ~course[c].deleted
Active(c) == Alive(c) /\ ~course[c].archived
Archived(c) == Alive(c) /\ course[c].archived
OwnedBy(o) == {c \in Courses : course[c].contentOwner = o}

Seated == [pc |-> "idle", course |-> NoCourse, mark |-> "keep", cycles |-> "keep",
           link |-> NoCourse, exists |-> NoCourse, avail |-> FALSE, result |-> FALSE,
           courses |-> {}, was |-> FALSE, raced |-> FALSE]

\* A field of the body that may be absent.
Given == {"keep", "true", "false"}
FromBody(given, old) == IF given = "keep" THEN old ELSE given = "true"

\* A running course, an archived one that it may bill and name, others that run or
\* are not there.
ArchiveInit ==
  /\ \E o, c \in Courses : o # c /\
       \E owner \in {NoCourse, o}, link \in {NoCourse, c}, others \in SUBSET (Courses \ {o, c}) :
         course = [x \in Courses |->
           IF x = o THEN [Running EXCEPT !.archieveCourseId = link, !.cycles = x \in WithCycles]
           ELSE IF x = c THEN [Running EXCEPT !.archived = TRUE, !.contentOwner = owner,
                                              !.cycles = x \in WithCycles]
           ELSE IF x \in others THEN [Running EXCEPT !.cycles = x \in WithCycles] ELSE Absent]
  /\ cycleMark = [x \in Courses |-> IF course[x].cycles THEN {course[x].archived} ELSE {}]
  /\ desk = [r \in Clerks |-> Seated]
  /\ orders = 0 /\ aborts = 0 /\ strayed = {} /\ apart = {}

Order(r) == desk[r].pc = "idle" /\ orders < MaxOrders /\ orders' = orders + 1 /\ UNCHANGED aborts
Goes(r, d) == desk' = [desk EXCEPT ![r] = d]
Turn(r, pc) == [desk[r] EXCEPT !.pc = pc]
Calm == UNCHANGED <<orders, aborts>>

\* updateCoursesIntoDb up to its first read; mark, link and cycles are the body's.
UpdateCourse(r, c, mark, link, cycles) ==
  /\ Order(r) /\ course[c].there /\ link # c
  /\ Goes(r, [Seated EXCEPT !.pc = "update", !.course = c, !.mark = mark, !.link = link,
                            !.cycles = cycles, !.exists = course[c].archieveCourseId,
                            !.avail = course[c].cycles])
  /\ UNCHANGED <<course, cycleMark, strayed, apart>>

\* The steps of a request that has updated its course and not yet its cycles.
Marking == {"children", "clear", "cycles"}

\* course.update.  Requests that will mark the cycles of this course have now read
\* a mark that may be another.
WriteCourse(r) ==
  LET d == desk[r]
      mark == FromBody(d.mark, course[d.course].archived)
      link == IF d.link = NoCourse THEN course[d.course].archieveCourseId ELSE d.link
      cycles == FromBody(d.cycles, course[d.course].cycles)
      after == [Turn(r, IF d.mark = "true" THEN "children" ELSE "cycles") EXCEPT !.result = mark]
  IN  /\ d.pc = "update"
      /\ course' = [course EXCEPT ![d.course].archived = mark, ![d.course].archieveCourseId = link,
                                  ![d.course].cycles = cycles]
      /\ desk' = [q \in Clerks |->
                    IF q = r THEN after
                    ELSE IF desk[q].course = d.course /\ desk[q].pc \in Marking
                         THEN [desk[q] EXCEPT !.raced = TRUE] ELSE desk[q]]
      /\ Calm /\ UNCHANGED <<cycleMark, strayed, apart>>

DeleteCourse(r, c) ==
  /\ Order(r) /\ course[c].there
  /\ Goes(r, [Seated EXCEPT !.pc = "delete", !.course = c, !.exists = course[c].archieveCourseId])
  /\ UNCHANGED <<course, cycleMark, strayed, apart>>

WriteDeleted(r) ==
  /\ desk[r].pc = "delete"
  /\ course' = [course EXCEPT ![desk[r].course].deleted = TRUE]
  /\ Goes(r, Turn(r, "children"))
  /\ Calm /\ UNCHANGED <<cycleMark, strayed, apart>>

\* Mutant: the course's own archive is the only one that is put right.
Dependants_Archive(o, archive) == {c \in OwnedBy(o) : Archived(c) /\ c = archive}

\* The courses to put right: archived ones, without the course's own archive.
Dependants(o, archive) == {c \in OwnedBy(o) : Archived(c) /\ c # archive}

\* Courses that run keep the biller, for the time they are archived.
FindChildren(r) ==
  LET o == desk[r].course
  IN  /\ desk[r].pc = "children"
      /\ Goes(r, [Turn(r, "clear") EXCEPT !.courses = Dependants(o, desk[r].exists)])
      /\ strayed' = strayed \cup {c \in OwnedBy(o) : Active(c) \/ c = desk[r].exists}
      /\ Calm /\ UNCHANGED <<course, cycleMark, apart>>

\* updateMany by the ids found; a deletion ends here.
ClearOwners(r) ==
  /\ desk[r].pc = "clear"
  /\ course' = [c \in Courses |-> IF c \in desk[r].courses
                                  THEN [course[c] EXCEPT !.contentOwner = NoCourse] ELSE course[c]]
  /\ strayed' = strayed \ desk[r].courses
  /\ Goes(r, IF desk[r].mark = "true" THEN Turn(r, "cycles") ELSE Seated)
  /\ Calm /\ UNCHANGED <<cycleMark, apart>>

\* Every cycle of c has this mark.
AllMarked(c, mark) == [cycleMark EXCEPT ![c] = IF @ = {} THEN {} ELSE {mark}]

\* The update meets a mark of the course other than its own, or cycles that were not
\* available when the course was read.
Missed(d) == d.raced \/ (~d.avail /\ ~(cycleMark[d.course] \subseteq {d.result}))

\* Mutant: cycles are archived with their course and not taken back.
MarkCycles_Once(r) ==
  LET c == desk[r].course
  IN  /\ desk[r].pc = "cycles"
      /\ cycleMark' = IF desk[r].avail /\ desk[r].result THEN AllMarked(c, TRUE) ELSE cycleMark
      /\ apart' = IF Missed(desk[r]) THEN apart \cup {c} ELSE apart \ {c}
      /\ Goes(r, Seated)
      /\ Calm /\ UNCHANGED <<course, strayed>>

\* Whatever was updated, the cycles get the mark that the course had then; not if
\* cycles were not available when the course was read.
MarkCycles(r) ==
  LET c == desk[r].course
  IN  /\ desk[r].pc = "cycles"
      /\ cycleMark' = IF desk[r].avail THEN AllMarked(c, desk[r].result) ELSE cycleMark
      /\ apart' = IF Missed(desk[r]) THEN apart \cup {c} ELSE apart \ {c}
      /\ Goes(r, Seated)
      /\ Calm /\ UNCHANGED <<course, strayed>>

\* updateCycleIntoDb: one cycle is marked by itself, so the marks among the cycles
\* become any; a cycle given as its archive also names the archive of a course that
\* had none.
UpdateCycle(r, c, marks, link) ==
  /\ Order(r) /\ course[c].there /\ cycleMark[c] # {} /\ marks # {}
  /\ cycleMark' = [cycleMark EXCEPT ![c] = marks]
  /\ apart' = IF marks = cycleMark[c] THEN apart ELSE apart \cup {c}
  /\ Goes(r, IF link # NoCourse /\ course[c].archieveCourseId = NoCourse
             THEN [Seated EXCEPT !.pc = "link", !.course = c, !.link = link] ELSE Seated)
  /\ UNCHANGED <<course, strayed>>

LinkArchive(r) ==
  /\ desk[r].pc = "link"
  /\ course' = [course EXCEPT ![desk[r].course].archieveCourseId = desk[r].link]
  /\ Goes(r, Seated)
  /\ Calm /\ UNCHANGED <<cycleMark, strayed, apart>>

\* Mutant: the owner may be an archived course.
SetActiveBiller_Any(r, o, cs) ==
  /\ Order(r)
  /\ Alive(o)
  /\ Goes(r, [Seated EXCEPT !.pc = "biller", !.course = o, !.courses = cs, !.was = Active(o)])
  /\ UNCHANGED <<course, cycleMark, strayed, apart>>

SetActiveBiller(r, o, cs) ==
  /\ Order(r)
  /\ Active(o)
  /\ Goes(r, [Seated EXCEPT !.pc = "biller", !.course = o, !.courses = cs, !.was = Active(o)])
  /\ UNCHANGED <<course, cycleMark, strayed, apart>>

ReadCourses(r) ==
  /\ desk[r].pc = "biller"
  /\ Goes(r, [Turn(r, "assign") EXCEPT !.courses = {c \in desk[r].courses : Archived(c)}])
  /\ Calm /\ UNCHANGED <<course, cycleMark, strayed, apart>>

\* The owner may be over by now.
Assign(r) ==
  LET o == desk[r].course
      cs == desk[r].courses
  IN  /\ desk[r].pc = "assign"
      /\ course' = [c \in Courses |-> IF c \in cs THEN [course[c] EXCEPT !.contentOwner = o] ELSE course[c]]
      /\ strayed' = IF desk[r].was /\ ~Active(o) THEN strayed \cup cs ELSE strayed \ cs
      /\ Goes(r, Seated)
      /\ Calm /\ UNCHANGED <<cycleMark, apart>>

\* Courses whose cycles are marked otherwise once c has a cycle with this mark.
ApartWith(c, mark) == IF course[c].archived = mark THEN apart ELSE apart \cup {c}
WithCycle(c, mark) == [cycleMark EXCEPT ![c] = @ \cup {mark}]

\* createCycleIntoDb, whatever the course's mark.
CreateCycle(r, c) ==
  /\ Order(r) /\ Alive(c) /\ course[c].cycles
  /\ Goes(r, [Seated EXCEPT !.pc = "cycle", !.course = c])
  /\ UNCHANGED <<course, cycleMark, strayed, apart>>

\* pullCourse of a product with cycles: its course is found by name, deleted or not,
\* or created.  (If the cycle is found as well, no mark is written.)
PullCourse(r, c) ==
  /\ Order(r)
  /\ IF course[c].there THEN UNCHANGED <<course, cycleMark>>
     ELSE /\ course' = [course EXCEPT ![c] = [Running EXCEPT !.cycles = TRUE]]
          /\ cycleMark' = [cycleMark EXCEPT ![c] = {}]
  /\ Goes(r, [Seated EXCEPT !.pc = "cycle", !.course = c])
  /\ UNCHANGED <<strayed, apart>>

\* Both create the cycle without a mark.
AddCycle(r) ==
  LET c == desk[r].course
  IN  /\ desk[r].pc = "cycle"
      /\ cycleMark' = WithCycle(c, FALSE)
      /\ apart' = ApartWith(c, FALSE)
      /\ Goes(r, Seated)
      /\ Calm /\ UNCHANGED <<course, strayed>>

\* cloneCourseOrCycle of a cycle: the copy is archived and in the same course.
CloneOneCycle(r, c) ==
  /\ Order(r) /\ course[c].there /\ cycleMark[c] # {}
  /\ cycleMark' = WithCycle(c, TRUE)
  /\ apart' = ApartWith(c, TRUE)
  /\ UNCHANGED <<course, desk, strayed>>

\* cloneCourseOrCycle of a course reads it first and commits at the end.  The copy
\* is archived; it is billed to the biller of the original, or to the original.
CloneOf(r, c) ==
  /\ Order(r) /\ Alive(c)
  /\ Goes(r, [Seated EXCEPT !.pc = "copy", !.course = c, !.avail = course[c].cycles,
                !.link = IF course[c].contentOwner = NoCourse THEN c ELSE course[c].contentOwner])
  /\ UNCHANGED <<course, cycleMark, strayed, apart>>

\* The cycles of the original that it finds are copied, archived.
CommitCopy(r, n) ==
  LET d == desk[r]
  IN  /\ d.pc = "copy" /\ ~course[n].there
      /\ course' = [course EXCEPT ![n] = [Running EXCEPT !.archived = TRUE, !.contentOwner = d.link,
                                                         !.cycles = d.avail]]
      /\ \E marks \in {{}, {TRUE}} :
           /\ marks # {} => d.avail /\ cycleMark[d.course] # {}
           /\ cycleMark' = [cycleMark EXCEPT ![n] = marks]
      /\ strayed' = IF Active(d.link) THEN strayed ELSE strayed \cup {n}
      /\ Goes(r, Seated)
      /\ Calm /\ UNCHANGED apart

\* createCoursesIntoDb, and pullCourse of a product without cycles.
CreateCourse(r, n, cycles) ==
  /\ Order(r) /\ ~course[n].there
  /\ course' = [course EXCEPT ![n] = [Running EXCEPT !.cycles = cycles]]
  /\ cycleMark' = [cycleMark EXCEPT ![n] = {}]
  /\ UNCHANGED <<desk, strayed, apart>>

\* A call fails or the process dies: what follows is not done.
Aborts(r) ==
  LET d == desk[r]
  IN  /\ d.pc # "idle" /\ aborts < MaxAborts /\ aborts' = aborts + 1 /\ UNCHANGED orders
      /\ strayed' = IF d.pc \in {"children", "clear"} THEN strayed \cup OwnedBy(d.course) ELSE strayed
      /\ apart' = IF d.pc \in Marking THEN apart \cup {d.course} ELSE apart
      /\ Goes(r, Seated)
      /\ UNCHANGED <<course, cycleMark>>

ArchiveNext == \E r \in Clerks :
  \/ \E c \in Courses, mark, cycles \in Given, link \in Courses \cup {NoCourse} :
       UpdateCourse(r, c, mark, link, cycles)
  \/ \E c \in Courses, marks \in SUBSET BOOLEAN, link \in Courses \cup {NoCourse} :
       UpdateCycle(r, c, marks, link)
  \/ \E c \in Courses :
       \/ DeleteCourse(r, c) \/ CloneOf(r, c) \/ CommitCopy(r, c)
       \/ CreateCycle(r, c) \/ PullCourse(r, c) \/ CloneOneCycle(r, c)
  \/ \E c \in Courses, cycles \in BOOLEAN : CreateCourse(r, c, cycles)
  \/ \E o \in Courses, cs \in SUBSET Courses : SetActiveBiller(r, o, cs)
  \/ WriteCourse(r) \/ WriteDeleted(r) \/ FindChildren(r) \/ ClearOwners(r) \/ MarkCycles(r)
  \/ LinkArchive(r) \/ AddCycle(r) \/ ReadCourses(r) \/ Assign(r) \/ Aborts(r)

ArchiveSpec == ArchiveInit /\ [][ArchiveNext]_archiveVars

-----------------------------------------------------------------------------
\* Every variable has its type.
ArchiveTypeOK ==
  /\ course \in [Courses -> [there : BOOLEAN, deleted : BOOLEAN, archived : BOOLEAN,
                             cycles : BOOLEAN, contentOwner : Courses \cup {NoCourse},
                             archieveCourseId : Courses \cup {NoCourse}]]
  /\ cycleMark \in [Courses -> SUBSET BOOLEAN]
  /\ \A r \in Clerks : desk[r].courses \subseteq Courses
  /\ orders \in 0..MaxOrders /\ aborts \in 0..MaxAborts
  /\ strayed \subseteq Courses /\ apart \subseteq Courses

\* Which request is about to take the biller o from course c.
BeingCleared(c, o) ==
  \E r \in Clerks : desk[r].course = o /\ \/ desk[r].pc = "children"
                                          \/ desk[r].pc = "clear" /\ c \in desk[r].courses

\* The biller of an archived course runs, but where it ended while being appointed,
\* where the course ran when its biller ended or is its biller's own archive, where
\* it is a copy of a course without one, and where a request stopped half way.
BillersActive ==
  \A c \in Courses :
    LET o == course[c].contentOwner
    IN  Archived(c) /\ o # NoCourse => Active(o) \/ c \in strayed \/ BeingCleared(c, o)

\* The cycles of a course are marked as the course is, unless one was created, cloned
\* or marked by itself otherwise than its course, an update of the course read that
\* cycles were not available, or updates overlapped or stopped half way.
CyclesFollow ==
  \A c \in Courses :
    course[c].there => \/ cycleMark[c] \subseteq {course[c].archived}
                       \/ c \in apart
                       \/ \E r \in Clerks : desk[r].course = c /\ desk[r].pc \in Marking

\* Archived courses are billed to running ones and cycles follow their course, but
\* for the windows named above.
ArchivesHold == BillersActive /\ CyclesFollow
=============================================================================
