--------------------------- MODULE MCLiveClasses ---------------------------
(* Small instances of what courses are made of and what goes on around a     *)
(* live class, side by side: course trees, archived courses, the scheduler,  *)
(* the recordings and the month's bill; `focus` says which of them runs.     *)
(* The scheduler runs twice, once with a failure and once with a webhook or  *)
(* another endpoint; the trees are once courses (three requests) and once    *)
(* cycles (two requests, of which one may fail); archiving is once about     *)
(* billers and once about cycles and requests that stop half way.            *)
EXTENDS LiveSchedule, RecordingIngest, UsageBilling,
        CourseTree, CourseArchive, TLC

VARIABLE focus

MCEnrolled == [c \in Classes |-> c]
MCCourseOf == [t \in Trees |-> t]

\* The same values are requests, webhooks and tasks: one permutation
\* serves them all, as only one component runs.
Symmetry == Permutations(Reqs)

Failing == INSTANCE LiveSchedule WITH MaxEvents <- 0
Hooked == INSTANCE LiveSchedule WITH MaxFaults <- 0
Plain == INSTANCE CourseTree WITH Cycled <- {}, MaxFailures <- 0
Brief == INSTANCE CourseTree WITH MaxEdits <- 2
Unbroken == INSTANCE CourseArchive WITH MaxAborts <- 0

\* One tree has content.  What does not run has one initial state.
Courses0 ==
  /\ IF focus = "courses" THEN Plain!TreeInit ELSE TreeInit
  /\ subject[1].in = 1
  /\ focus \notin {"courses", "cycles"} => subject[2].in = 2
  /\ ArchiveInit /\ course[1].there /\ ~course[1].archived /\ course[2].archived
  /\ course[2].contentOwner # 3 /\ course[3].archieveCourseId = NoCourse
  /\ focus \notin {"billers", "marks"} =>
       course[3].there /\ course[2].contentOwner # 1 /\ course[1].archieveCourseId = NoCourse

Init == /\ focus \in {"failures", "hooks", "recordings", "billing",
                      "courses", "cycles", "billers", "marks"}
        /\ SchedInit /\ RecInit /\ BillInit /\ Courses0

\* Updates archive a course or take it back; one archived course at a time is
\* given a biller; cycles matter as far as they name an archive.
BillersOnly ==
  /\ Unbroken!ArchiveNext
  /\ \A c \in Courses : cycleMark[c] # {} /\ course[c].there => cycleMark'[c] \subseteq cycleMark[c]
  /\ \A r \in Clerks :
       /\ (desk'[r].pc = "update") => desk'[r].mark # "keep" /\ desk'[r].link = NoCourse
                                      /\ desk'[r].cycles = "keep"
       /\ (desk'[r].pc = "biller") =>
            \E c \in Courses : course[c].archived /\ desk'[r].courses = {c}

\* One course is updated and its cycles.
MarksOnly ==
  /\ ArchiveNext
  /\ \A c \in Courses : course'[c].there = course[c].there
  /\ \A r \in Clerks : /\ desk'[r].pc \notin {"biller", "copy"}
                       /\ desk'[r].pc = "update" => desk'[r].link = NoCourse
                       /\ desk'[r].course \in WithCycles \cup {NoCourse}

Next ==
  /\ UNCHANGED focus
  /\ \/ /\ UNCHANGED <<treeVars, archiveVars>>
        /\ \/ /\ focus = "failures" /\ Failing!SchedNext
              /\ UNCHANGED <<recVars, billVars>>
           \/ /\ focus = "hooks" /\ Hooked!SchedNext
              /\ UNCHANGED <<recVars, billVars>>
           \/ /\ focus = "recordings" /\ RecNext
              /\ UNCHANGED <<schedVars, billVars>>
           \/ /\ focus = "billing" /\ BillNext
              /\ UNCHANGED <<schedVars, recVars>>
     \/ /\ UNCHANGED <<schedVars, recVars, billVars>>
        /\ \/ focus = "courses" /\ Plain!TreeNext /\ UNCHANGED archiveVars
           \/ focus = "cycles" /\ Brief!TreeNext /\ UNCHANGED archiveVars
           \/ focus = "billers" /\ BillersOnly /\ UNCHANGED treeVars
           \/ focus = "marks" /\ MarksOnly /\ UNCHANGED treeVars

Spec == Init /\ [][Next]_<<schedVars, recVars, billVars, treeVars, archiveVars, focus>>

\* Every variable of the part that runs has its type; the others keep their first
\* values.
TypeOK ==
  /\ focus \in {"failures", "hooks"} => SchedTypeOK
  /\ focus = "recordings" => RecTypeOK
  /\ focus = "billing" => BillTypeOK
  /\ focus = "courses" => Plain!TreeTypeOK
  /\ focus = "cycles" => Brief!TreeTypeOK
  /\ focus = "billers" => Unbroken!ArchiveTypeOK
  /\ focus = "marks" => ArchiveTypeOK

\* The lookups name where a row is, and no row is there twice, but for the overlaps,
\* failures and endpoints that PlacesFound and NoTwins name.
TreeHolds ==
  /\ focus = "courses" => Plain!PlacesFound /\ Plain!NoTwins
  /\ focus = "cycles" => Brief!PlacesFound /\ Brief!NoTwins
=============================================================================
