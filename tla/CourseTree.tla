----------------------------- MODULE CourseTree -----------------------------
(***************************************************************************)
(* The content of courses.  A tree (a course, or a cycle of a course) has  *)
(* subjects, these have chapters, and these have the recorded classes.     *)
(* Beside the rows a lookup names the course, and the cycle, of every row: *)
(* authorization asks it instead of joining.  Rows and lookups are written *)
(* one after the other, without a transaction, and the rows have no unique *)
(* keys.  A deleted row stays, marked.  The catalogue has one subject with *)
(* one chapter here, so the subject rows of a tree are about one subject.  *)
(***************************************************************************)
EXTENDS Integers, FiniteSets

CONSTANTS
  Editors,      \* requests of administrators
  Trees,        \* numbers
  Cycled,       \* the trees that are cycles
  CourseOf,     \* the course that a tree is, or is a cycle of
  Ids,          \* row ids, the same numbers for the three tables
  Nowhere,
  MaxEdits,     \* bound on requests
  MaxFailures   \* bound on failing calls and crashes

ASSUME TreeAssumption ==
  /\ Cycled \subseteq Trees /\ Trees \subseteq Ids /\ Ids \subseteq Nat
  /\ CourseOf \in [Trees -> Ids] /\ Nowhere \notin Ids
  /\ MaxEdits \in Nat /\ MaxFailures \in Nat

VARIABLES
  tree,         \* a tree was made, copied, or there is none
  subject,      \* courseSubject and cycleSubject rows
  chapter,      \* courseSubjectChapter and cycleSubjectChapter rows
  content,      \* classContent and cycleContent rows
  courseLookup, cycleLookup,
  edit,         \* the requests
  edits, failures,
  \* history
  adrift,       \* rows whose lookup GodClass, a failure or an overlap left out
  twinned       \* places that overlapping requests filled twice

rowVars == <<tree, subject, chapter, content>>
lookups == <<courseLookup, cycleLookup>>
treeVars == <<rowVars, lookups, edit, edits, failures, adrift, twinned>>

Unused == [in |-> Nowhere, deleted |-> FALSE]
Row(in) == [in |-> in, deleted |-> FALSE]
Children(table, p) == {r \in Ids : table[r].in = p}
Live(table, p) == {r \in Children(table, p) : ~table[r].deleted}
\* A new row gets an id not used so far.
Free(table) == LET spare == Children(table, Nowhere)
               IN  {r \in spare : \A q \in spare : r <= q}

Tables == {"subject", "chapter", "content"}
Keys == Tables \X Ids
TreeOf(n) ==
  LET s(h) == subject[chapter[h].in].in
  IN  CASE n[1] = "subject" -> subject[n[2]].in
        [] n[1] = "chapter" -> subject[chapter[n[2]].in].in
        [] n[1] = "content" -> s(content[n[2]].in)

Done == [pc |-> "idle", tree |-> Nowhere, subject |-> Nowhere, chapter |-> Nowhere,
         todo |-> {}, log |-> {}, row |-> <<>>, then |-> "idle", made |-> {},
         raced |-> FALSE]

\* A tree that is there is empty or has one class.
TreeInit ==
  \E there \in SUBSET Trees : \E full \in SUBSET there :
    LET rows == [r \in Ids |-> IF r \in full THEN Row(r) ELSE Unused]
        looked(f) == [k \in Tables |-> [r \in Ids |-> IF r \in full THEN f[r] ELSE Nowhere]]
    IN  /\ tree = [t \in Trees |-> IF t \in there THEN "made" ELSE "none"]
        /\ subject = rows /\ chapter = rows /\ content = rows
        /\ courseLookup = looked(CourseOf)
        /\ cycleLookup = looked([t \in Trees |-> IF t \in Cycled THEN t ELSE Nowhere])
        /\ edit = [e \in Editors |-> Done]
        /\ edits = 0 /\ failures = 0
        /\ adrift = {} /\ twinned = {}

Begin(e) == edit[e].pc = "idle" /\ edits < MaxEdits /\ edits' = edits + 1 /\ UNCHANGED failures
NoEdit == UNCHANGED <<edits, failures>>
Set(e, r) == edit' = [edit EXCEPT ![e] = r]
Wait(e, pc) == [edit[e] EXCEPT !.pc = pc]

\* Others who found the place empty and are about to fill it too.
Raced(e, r, others) ==
  edit' = [f \in Editors |->
             IF f = e THEN r
             ELSE IF f \in others THEN [edit[f] EXCEPT !.raced = TRUE] ELSE edit[f]]
WantSubject(t) ==
  {f \in Editors : edit[f].tree = t /\ \/ edit[f].pc = "insertSubject"
                                       \/ /\ edit[f].pc \in {"godChapter", "godCommit"}
                                          /\ edit[f].subject = Nowhere}
WantChapter(s) ==
  {f \in Editors : edit[f].subject = s /\ \/ edit[f].pc = "insertChapter"
                                          \/ /\ edit[f].pc = "godCommit"
                                             /\ edit[f].chapter = Nowhere}

\* Mutant: the subjects already there are not left out.
AddSubject_Again(e, t) ==
  /\ Begin(e) /\ tree[t] # "none"
  /\ Set(e, [Done EXCEPT !.pc = "insertSubject", !.tree = t])
  /\ UNCHANGED <<rowVars, lookups, adrift, twinned>>

AddSubject(e, t) ==
  /\ Begin(e) /\ tree[t] # "none"
  /\ Live(subject, t) = {}
  /\ Set(e, [Done EXCEPT !.pc = "insertSubject", !.tree = t])
  /\ UNCHANGED <<rowVars, lookups, adrift, twinned>>

InsertSubject(e) ==
  LET t == edit[e].tree
  IN  /\ edit[e].pc = "insertSubject"
      /\ \E s \in Free(subject) :
           /\ subject' = [subject EXCEPT ![s] = Row(t)]
           /\ Raced(e, [Wait(e, "readSubjects") EXCEPT !.made = {<<"subject", s>>}, !.raced = FALSE],
                    WantSubject(t))
      /\ twinned' = twinned \cup (IF edit[e].raced THEN {<<"tree", t>>} ELSE {})
      /\ NoEdit /\ UNCHANGED <<tree, chapter, content, lookups, adrift>>

\* The rows just made are read back, with those that others made meanwhile.
ReadSubjects(e) ==
  /\ edit[e].pc = "readSubjects"
  /\ Set(e, [Wait(e, "nextSubject") EXCEPT !.todo = Live(subject, edit[e].tree)])
  /\ NoEdit /\ UNCHANGED <<rowVars, lookups, adrift, twinned>>

\* For each its lookup; a course also takes over the chapters of the catalogue.
NextSubject(e) ==
  /\ edit[e].pc = "nextSubject"
  /\ \/ /\ edit[e].todo = {}
        /\ Set(e, Done)
     \/ \E s \in edit[e].todo :
          Set(e, [Wait(e, "log") EXCEPT !.todo = edit[e].todo \ {s}, !.subject = s, !.log = {<<"subject", s>>},
                    !.then = IF edit[e].tree \in Cycled THEN "nextSubject" ELSE "takeChapters"])
  /\ NoEdit /\ UNCHANGED <<rowVars, lookups, adrift, twinned>>

TakeChapters(e) ==
  LET s == edit[e].subject
  IN  /\ edit[e].pc = "takeChapters"
      /\ \E h \in Free(chapter) :
           /\ chapter' = [chapter EXCEPT ![h] = Row(s)]
           /\ Raced(e, [Wait(e, "readChapters") EXCEPT !.made = @ \cup {<<"chapter", h>>}], WantChapter(s))
      /\ twinned' = twinned \cup (IF Live(chapter, s) = {} THEN {} ELSE {<<"subject", s>>})
      /\ NoEdit /\ UNCHANGED <<tree, subject, content, lookups, adrift>>

ReadChapters(e) ==
  /\ edit[e].pc = "readChapters"
  /\ Set(e, [Wait(e, "log") EXCEPT !.log = {"chapter"} \X Children(chapter, edit[e].subject),
                                   !.then = "nextSubject"])
  /\ NoEdit /\ UNCHANGED <<rowVars, lookups, adrift, twinned>>

\* courseSubjectChapterCreate and createCycleChapterIntoDb
AddChapter(e, s) ==
  /\ Begin(e)
  /\ subject[s].in # Nowhere /\ ~subject[s].deleted
  /\ Live(chapter, s) = {}
  /\ Set(e, [Done EXCEPT !.pc = "insertChapter", !.tree = subject[s].in, !.subject = s])
  /\ UNCHANGED <<rowVars, lookups, adrift, twinned>>

InsertChapter(e) ==
  LET s == edit[e].subject
  IN  /\ edit[e].pc = "insertChapter"
      /\ \E h \in Free(chapter) :
           /\ chapter' = [chapter EXCEPT ![h] = Row(s)]
           /\ Raced(e, [Wait(e, "findChapter") EXCEPT !.made = {<<"chapter", h>>}, !.raced = FALSE],
                    WantChapter(s))
      /\ twinned' = twinned \cup (IF edit[e].raced THEN {<<"subject", s>>} ELSE {})
      /\ NoEdit /\ UNCHANGED <<tree, subject, content, lookups, adrift>>

\* The row is looked for again by subject and chapter, deleted rows included: a
\* course takes the first that comes, a cycle all.
FindChapter(e) ==
  LET found == {"chapter"} \X Children(chapter, edit[e].subject)
  IN  /\ edit[e].pc = "findChapter"
      /\ \E log \in IF edit[e].tree \in Cycled THEN {found} ELSE {{n} : n \in found} :
           /\ Set(e, [Wait(e, "log") EXCEPT !.log = log])
           /\ adrift' = adrift \cup (edit[e].made \ log)
      /\ NoEdit /\ UNCHANGED <<rowVars, lookups, twinned>>

\* createClassIntoDb takes a deleted chapter too.  Between the check and the row
\* the thumbnail is fetched.
CreateClass(e, h) ==
  /\ Begin(e)
  /\ chapter[h].in # Nowhere
  /\ TreeOf(<<"chapter", h>>) \in Cycled => ~chapter[h].deleted
  /\ Set(e, [Done EXCEPT !.pc = "insertContent", !.chapter = h, !.tree = TreeOf(<<"chapter", h>>)])
  /\ UNCHANGED <<rowVars, lookups, adrift, twinned>>

InsertContent(e) ==
  /\ edit[e].pc = "insertContent"
  /\ \E c \in Free(content) :
       /\ content' = [content EXCEPT ![c] = Row(edit[e].chapter)]
       /\ Set(e, [Wait(e, "log") EXCEPT !.made = {<<"content", c>>}, !.log = {<<"content", c>>}])
  /\ NoEdit /\ UNCHANGED <<tree, subject, chapter, lookups, adrift, twinned>>

\* Mutant: the lookup is not written again.
UpdateClass_KeepsLookup(e, c, h) ==
  /\ Begin(e)
  /\ content[c].in # Nowhere /\ chapter[h].in # Nowhere
  /\ (TreeOf(<<"content", c>>) \in Cycled) = (TreeOf(<<"chapter", h>>) \in Cycled)
  /\ content' = [content EXCEPT ![c].in = h]
  /\ UNCHANGED <<tree, subject, chapter, lookups, edit, adrift, twinned>>

\* updateClassIntoDb that moves a class.
UpdateClass(e, c, h) ==
  /\ Begin(e)
  /\ content[c].in # Nowhere /\ chapter[h].in # Nowhere
  /\ (TreeOf(<<"content", c>>) \in Cycled) = (TreeOf(<<"chapter", h>>) \in Cycled)
  /\ content' = [content EXCEPT ![c].in = h]
  /\ Raced(e, [Done EXCEPT !.pc = "log", !.tree = TreeOf(<<"chapter", h>>),
                           !.log = {<<"content", c>>}, !.made = {<<"content", c>>}],
           {f \in Editors : <<"content", c>> \in edit[f].made})
  /\ UNCHANGED <<tree, subject, chapter, lookups, adrift, twinned>>

\* What follows when the lookups of row n are done.
Logged(e, n) ==
  LET left == edit[e].log \ {n}
      next == IF left = {} THEN edit[e].then ELSE "log"
  IN  IF next = "idle" THEN Done
      ELSE [Wait(e, next) EXCEPT !.log = left, !.row = <<>>, !.made = @ \ {n}]

LogLookUpTable(e) ==
  /\ edit[e].pc = "log"
  /\ \E n \in edit[e].log :
       /\ courseLookup' = [courseLookup EXCEPT ![n[1]][n[2]] = CourseOf[edit[e].tree]]
       /\ Set(e, IF edit[e].tree \in Cycled
                 THEN [Wait(e, "logCycle") EXCEPT !.row = n] ELSE Logged(e, n))
       /\ adrift' = adrift \cup (IF edit[e].raced THEN {n} ELSE {})
  /\ NoEdit /\ UNCHANGED <<rowVars, cycleLookup, twinned>>

LogCycleLookUpTable(e) ==
  /\ edit[e].pc = "logCycle"
  /\ LET n == edit[e].row
     IN  cycleLookup' = [cycleLookup EXCEPT ![n[1]][n[2]] = edit[e].tree]
  /\ Set(e, Logged(e, edit[e].row))
  /\ adrift' = adrift \cup (IF edit[e].raced THEN {edit[e].row} ELSE {})
  /\ NoEdit /\ UNCHANGED <<rowVars, courseLookup, twinned>>

Mishap == failures < MaxFailures /\ failures' = failures + 1 /\ UNCHANGED edits

\* A failing upsert is swallowed, and the request goes on.
LookupFails(e) ==
  /\ Mishap
  /\ \/ /\ edit[e].pc = "log"
        /\ \E n \in edit[e].log :
             /\ Set(e, IF edit[e].tree \in Cycled
                       THEN [Wait(e, "logCycle") EXCEPT !.row = n] ELSE Logged(e, n))
             /\ adrift' = adrift \cup {n}
     \/ /\ edit[e].pc = "logCycle"
        /\ Set(e, Logged(e, edit[e].row))
        /\ adrift' = adrift \cup {edit[e].row}
  /\ UNCHANGED <<rowVars, lookups, twinned>>

\* Another call fails, or the process dies.
Dies(e) ==
  /\ Mishap /\ edit[e].pc # "idle"
  /\ adrift' = adrift \cup edit[e].made
  /\ Set(e, Done)
  /\ UNCHANGED <<rowVars, lookups, twinned>>

\* deleteCourseSubject deletes the chapters afterwards; a cycle's chapters stay.
DeleteSubject(e, s) ==
  /\ Begin(e)
  /\ subject[s].in # Nowhere
  /\ subject[s].in \in Cycled => ~subject[s].deleted
  /\ subject' = [subject EXCEPT ![s].deleted = TRUE]
  /\ Set(e, IF subject[s].in \in Cycled THEN Done ELSE [Done EXCEPT !.pc = "cascade", !.subject = s])
  /\ UNCHANGED <<tree, chapter, content, lookups, adrift, twinned>>

DeleteChapters(e) ==
  /\ edit[e].pc = "cascade"
  /\ chapter' = [h \in Ids |-> IF chapter[h].in = edit[e].subject
                               THEN [chapter[h] EXCEPT !.deleted = TRUE] ELSE chapter[h]]
  /\ Set(e, Done)
  /\ NoEdit /\ UNCHANGED <<tree, subject, content, lookups, adrift, twinned>>

DeleteChapter(e, h) ==
  /\ Begin(e)
  /\ chapter[h].in # Nowhere /\ ~chapter[h].deleted
  /\ chapter' = [chapter EXCEPT ![h].deleted = TRUE]
  /\ UNCHANGED <<tree, subject, content, lookups, edit, adrift, twinned>>

DeleteClass(e, c) ==
  /\ Begin(e)
  /\ content[c].in # Nowhere
  /\ content' = [content EXCEPT ![c].deleted = TRUE]
  /\ UNCHANGED <<tree, subject, chapter, lookups, edit, adrift, twinned>>

\* GodClass finds or makes the way to its class, in a transaction that sees what
\* others commit meanwhile.  In a cycle the subject is given.
GodClass(e, t) ==
  /\ Begin(e) /\ tree[t] # "none"
  /\ \E s \in IF Live(subject, t) = {} /\ t \notin Cycled THEN {Nowhere} ELSE Live(subject, t) :
       Set(e, [Done EXCEPT !.pc = "godChapter", !.tree = t, !.subject = s])
  /\ UNCHANGED <<rowVars, lookups, adrift, twinned>>

\* In a course the chapter found may be a deleted one.
GodChapter(e) ==
  LET s == edit[e].subject
      found == IF s = Nowhere THEN {}
               ELSE IF edit[e].tree \in Cycled THEN Live(chapter, s) ELSE Children(chapter, s)
  IN  /\ edit[e].pc = "godChapter"
      /\ \E h \in IF found = {} THEN {Nowhere} ELSE found :
           Set(e, [Wait(e, "godCommit") EXCEPT !.chapter = h])
      /\ NoEdit /\ UNCHANGED <<rowVars, lookups, adrift, twinned>>

\* The commit.  No lookup is written.
GodCommit(e) ==
  LET t == edit[e].tree
      newSubject == edit[e].subject = Nowhere
      newChapter == edit[e].chapter = Nowhere
      Or(known, table) == IF known = Nowhere THEN Free(table) ELSE {known}
  IN  /\ edit[e].pc = "godCommit"
      /\ \E s \in Or(edit[e].subject, subject), h \in Or(edit[e].chapter, chapter), c \in Free(content) :
           /\ subject' = IF newSubject THEN [subject EXCEPT ![s] = Row(t)] ELSE subject
           /\ chapter' = IF newChapter THEN [chapter EXCEPT ![h] = Row(s)] ELSE chapter
           /\ content' = [content EXCEPT ![c] = Row(h)]
           /\ adrift' = adrift \cup {<<"content", c>>}
                          \cup (IF newSubject THEN {<<"subject", s>>} ELSE {})
                          \cup (IF newChapter THEN {<<"chapter", h>>} ELSE {})
           /\ twinned' = twinned \cup (IF ~edit[e].raced THEN {}
                                       ELSE IF newSubject THEN {<<"tree", t>>} ELSE {<<"subject", s>>})
           /\ Raced(e, Done, (IF newSubject THEN WantSubject(t) ELSE {})
                              \cup (IF newChapter THEN WantChapter(s) ELSE {}))
      /\ NoEdit /\ UNCHANGED <<tree, lookups>>

\* A copy of every row, the deleted ones too, and all of it live; one transaction
\* writes rows and lookups.
Clone(from, to) ==
  LET subjects == Children(subject, from)
      chapters == {h \in Ids : chapter[h].in \in subjects}
      contents == {c \in Ids : content[c].in \in chapters}
      Onto(src, table) == {f \in [src -> Children(table, Nowhere)] :
                             \A a, b \in src : a < b => f[a] < f[b]}
      Copied(table, f, place(_)) ==
        [r \in Ids |-> IF \E q \in DOMAIN f : f[q] = r
                       THEN Row(place(CHOOSE q \in DOMAIN f : f[q] = r)) ELSE table[r]]
  IN  /\ tree[from] # "none" /\ tree[to] = "none"
      /\ (from \in Cycled) = (to \in Cycled)
      /\ tree' = [tree EXCEPT ![to] = "copied"]
      /\ Onto(subjects, subject) # {} /\ Onto(chapters, chapter) # {} /\ Onto(contents, content) # {}
      /\ LET f == CHOOSE f \in Onto(subjects, subject) : TRUE
             g == CHOOSE g \in Onto(chapters, chapter) : TRUE
             w == CHOOSE w \in Onto(contents, content) : TRUE
             Root(c) == to
             Under(h) == f[chapter[h].in]
             Inside(c) == g[content[c].in]
             new(n) == \/ n[1] = "subject" /\ \E q \in subjects : f[q] = n[2]
                       \/ n[1] = "chapter" /\ \E q \in chapters : g[q] = n[2]
                       \/ n[1] = "content" /\ \E q \in contents : w[q] = n[2]
         IN  /\ subject' = Copied(subject, f, Root)
             /\ chapter' = Copied(chapter, g, Under)
             /\ content' = Copied(content, w, Inside)
             /\ courseLookup' = [k \in Tables |-> [r \in Ids |->
                                  IF new(<<k, r>>) THEN CourseOf[to] ELSE courseLookup[k][r]]]
             /\ cycleLookup' = [k \in Tables |-> [r \in Ids |->
                                 IF new(<<k, r>>) /\ to \in Cycled THEN to ELSE cycleLookup[k][r]]]
      /\ UNCHANGED <<adrift, twinned>>

CloneCourse(e, from, to) == from \notin Cycled /\ Begin(e) /\ Clone(from, to) /\ UNCHANGED edit

\* By itself, or one of those that the copy of a course takes along.
CloneCycle(e, from, to) == from \in Cycled /\ Begin(e) /\ Clone(from, to) /\ UNCHANGED edit

TreeNext == \E e \in Editors :
  \/ \E t \in Trees : AddSubject(e, t) \/ GodClass(e, t)
  \/ \E t, u \in Trees : CloneCourse(e, t, u) \/ CloneCycle(e, t, u)
  \/ \E r \in Ids : AddChapter(e, r) \/ CreateClass(e, r)
                    \/ DeleteSubject(e, r) \/ DeleteChapter(e, r) \/ DeleteClass(e, r)
  \/ \E c, h \in Ids : UpdateClass(e, c, h)
  \/ InsertSubject(e) \/ ReadSubjects(e) \/ NextSubject(e) \/ TakeChapters(e) \/ ReadChapters(e)
  \/ InsertChapter(e) \/ FindChapter(e) \/ InsertContent(e)
  \/ LogLookUpTable(e) \/ LogCycleLookUpTable(e) \/ LookupFails(e) \/ Dies(e)
  \/ DeleteChapters(e) \/ GodChapter(e) \/ GodCommit(e)

TreeSpec == TreeInit /\ [][TreeNext]_treeVars

-----------------------------------------------------------------------------
\* Every variable has its type.
TreeTypeOK ==
  LET row == [in : Ids \cup {Nowhere}, deleted : BOOLEAN]
  IN  /\ tree \in [Trees -> {"none", "made", "copied"}]
      /\ subject \in [Ids -> row] /\ chapter \in [Ids -> row] /\ content \in [Ids -> row]
      /\ courseLookup \in [Tables -> [Ids -> Ids \cup {Nowhere}]]
      /\ cycleLookup \in [Tables -> [Ids -> Trees \cup {Nowhere}]]
      /\ \A e \in Editors : edit[e].made \subseteq Keys /\ edit[e].log \subseteq Keys
      /\ adrift \subseteq Keys
      /\ edits \in 0..MaxEdits /\ failures \in 0..MaxFailures

LiveRows ==
  {n \in Keys : LET table == CASE n[1] = "subject" -> subject [] n[1] = "chapter" -> chapter
                               [] n[1] = "content" -> content
                IN  table[n[2]].in # Nowhere /\ ~table[n[2]].deleted}

\* Who asks for a row is judged by the course and the cycle it is in: the lookups
\* agree with the tree, but for rows on their way, rows of GodClass, a chapter added
\* again whose deleted row was found instead, failed writes and classes moved by two
\* requests at once.
PlacesFound ==
  \A n \in LiveRows :
    \/ /\ courseLookup[n[1]][n[2]] = CourseOf[TreeOf(n)]
       /\ TreeOf(n) \in Cycled => cycleLookup[n[1]][n[2]] = TreeOf(n)
    \/ n \in adrift
    \/ \E e \in Editors : n \in edit[e].made

\* A tree shows a subject once, and a subject a chapter once, but in copies (which
\* revive what was deleted) and where requests overlapped.
NoTwins ==
  /\ \A t \in Trees : \/ tree[t] = "copied" \/ <<"tree", t>> \in twinned
                      \/ Cardinality(Live(subject, t)) <= 1
  /\ \A s \in Ids : \/ subject[s].in = Nowhere \/ <<"subject", s>> \in twinned
                    \/ tree[subject[s].in] = "copied"
                    \/ Cardinality(Live(chapter, s)) <= 1
=============================================================================
