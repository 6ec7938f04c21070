---------------------------- MODULE StudentsProofs ----------------------------
(***************************************************************************)
(* What students do, for every number of requests, students, codes,        *)
(* courses and failures: an access code gives what it was sold for once,   *)
(* and a cached membership differs from the rows for a named reason only.  *)
(* Then questions, for every number of them, of limits and failing jobs:   *)
(* the limit of a course is outrun by named questions only, a student      *)
(* waits for one solution at a time, a solver is paid once for a question, *)
(* and no pending question is forgotten. Then push campaigns, for every    *)
(* number of them, of devices and of failures: a campaign reaches whom it  *)
(* is owed to once and counts them, unless a named accident befell it.     *)
(***************************************************************************)
EXTENDS Enrolment, QuoraFlow, PushCampaign, FiniteSetTheorems, WellFoundedInduction, TLAPS

-----------------------------------------------------------------------------
(* Enrolment                                                                 *)

\* What a request carries at its step.
RequestOK(q) ==
  /\ q \in Redeem
  /\ q.pc = "idle" => q = Vacant
  /\ q.pc # "idle" => q.member \in Members
  /\ q.pc \in {"cycles", "drop_cycles", "courses", "look"} => q.code \in Codes
  /\ q.pc = "drop_courses" => q.code \in Codes \/ q.full
  /\ q.pc \in {"cycles", "drop_cycles", "courses"} => q.courses \subseteq Courses

RedeemInv == \A r \in Slots : RequestOK(redeem[r])

\* Memberships that a request has written and will delete from the cache.
Covers(q) ==
  Pairs(q.member, CASE q.pc = "drop_cycles" -> q.cycles
                    [] q.pc = "drop_courses" -> q.courses
                    [] OTHER -> {})

\* A membership in the cache, or on its way there, is the one of the rows, or it is
\* known not to be.
CoverInv ==
  \A s \in Members, i \in Items :
    \/ memo[s][i] \subseteq {Holds(s, i)}
    \/ <<s, i>> \in outdated
    \/ \E r \in Slots : <<s, i>> \in Covers(redeem[r])

LoadInv ==
  \A s \in Members, i \in Items : loading[s][i] \subseteq {Holds(s, i)} \/ <<s, i>> \in outdated

\* A code that is not shared is redeemed by one request at a time.
OneInv ==
  \A r, o \in Slots :
    redeem[r].code \in Codes \ shared /\ redeem[o].code = redeem[r].code => r = o

\* What a request is about to create for a code was not created for it yet.
UnusedInv ==
  \A r \in Slots :
    redeem[r].pc = "cycles" /\ redeem[r].code \notin shared =>
      \A c \in redeem[r].cycles : ~Used(redeem[r].code, c)

OnceInv ==
  \A r \in Slots :
    /\ redeem[r].pc \in {"cycles", "drop_cycles", "courses"}
    /\ redeem[r].code \notin shared \cup partly
    => \A z \in redeem[r].courses : ~Used(redeem[r].code, z)

\* Who has a course by a code has all cycles of the code by it, unless it was given
\* in part; and so has who is about to get one.
Gave(s, k) == \A c \in CyclesOf(k) : seat[s][c] = k

WholeInv ==
  /\ \A s \in Members, z \in Courses : seat[s][z] \in Codes \ partly => Gave(s, seat[s][z])
  /\ \A r \in Slots : redeem[r].code \in Codes \ partly =>
       /\ redeem[r].pc = "cycles" => redeem[r].cycles = CyclesOf(redeem[r].code)
       /\ redeem[r].pc \in {"drop_cycles", "courses", "drop_courses", "look"}
            => Gave(redeem[r].member, redeem[r].code)

\* The two halves of CodesKept.
GivenOnce ==
  \A s, t \in Members, i \in Items :
    s # t /\ seat[s][i] \in Codes /\ seat[s][i] = seat[t][i]
      => seat[s][i] \in shared \cup (IF i \in Courses THEN partly ELSE {})

HasCourse ==
  \A s \in Members, c \in Cycles :
    seat[s][c] \in Codes =>
      \/ Holds(s, CourseOf[c]) \/ <<s, CourseOf[c]>> \in torn
      \/ \E r \in Slots : <<s, CourseOf[c]>> \in Owed(redeem[r])

\* The same, of cycles a request is about to create.
WillHave(q) ==
  \A c \in q.cycles :
    Holds(q.member, CourseOf[c]) \/ CourseOf[c] \in q.courses \/ <<q.member, CourseOf[c]>> \in torn

OwedInv == \A r \in Slots : redeem[r].pc = "cycles" => WillHave(redeem[r])

CodeInv == OneInv /\ UnusedInv /\ OnceInv /\ WholeInv /\ GivenOnce

EnrolInv ==
  /\ EnrolTypeOK /\ RedeemInv /\ CoverInv /\ LoadInv /\ CodeInv /\ HasCourse /\ OwedInv

-----------------------------------------------------------------------------
(* What a step writes                                                        *)

\* Rows of student s get a code, or Nothing.
RowsGet(s, items, code) ==
  /\ seat' \in [Members -> [Items -> Codes \cup {Manual, Nothing}]]
  /\ \A t \in Members, i \in Items :
       seat'[t][i] = IF t = s /\ i \in items THEN code ELSE seat[t][i]

\* Cached memberships of student s are deleted.
Forgets(s, items) ==
  /\ memo' \in [Members -> [Items -> {{}, {TRUE}, {FALSE}}]]
  /\ \A t \in Members, i \in Items :
       memo'[t][i] = IF t = s /\ i \in items THEN {} ELSE memo[t][i]

\* Request r goes on as u.
GoesOn(r, u) ==
  /\ redeem' \in [Slots -> Redeem]
  /\ \A o \in Slots : redeem'[o] = IF o = r THEN u ELSE redeem[o]

\* What keeps the cache explained when request r goes on as u: written memberships
\* are in its care or known to be outdated, and those it had in its care were deleted.
CacheOK(r, u, s, items, forgot) ==
  /\ loading' = loading /\ outdated \subseteq outdated' /\ outdated' \subseteq Members \X Items
  /\ \A i \in items :
       /\ loading[s][i] # {} => <<s, i>> \in outdated'
       /\ memo[s][i] = {} \/ <<s, i>> \in outdated' \/ <<s, i>> \in Covers(u)
  /\ \A m \in Members, i \in Items : <<m, i>> \in Covers(redeem[r]) =>
       \/ <<m, i>> \in Covers(u) \/ <<m, i>> \in outdated' \/ memo[m][i] = {}
       \/ m = s /\ i \in forgot

\* What keeps the courses of redeemed cycles: they are there, owed or torn away.
OwnOK(r, u, s, items, code) ==
  /\ torn' \subseteq Members \X Courses
  /\ code \in Codes => \A c \in items \cap Cycles :
       \/ seat'[s][CourseOf[c]] # Nothing \/ <<s, CourseOf[c]>> \in torn'
       \/ <<s, CourseOf[c]>> \in Owed(u)
  /\ code = Nothing => \A z \in items \cap Courses : <<s, z>> \in torn'
  /\ \A t \in Members, z \in Courses :
       /\ <<t, z>> \in Owed(redeem[r]) => \/ <<t, z>> \in torn' \/ <<t, z>> \in Owed(u)
                                         \/ seat'[t][z] # Nothing
       /\ <<t, z>> \in torn => <<t, z>> \in torn' \/ seat'[t][z] # Nothing
  /\ u.pc = "cycles" => \A c \in u.cycles :
       \/ seat'[u.member][CourseOf[c]] # Nothing \/ CourseOf[c] \in u.courses
       \/ <<u.member, CourseOf[c]>> \in torn'

\* What keeps a code from giving twice: rows are free when they are written and by
\* the request's own code, and a request keeps its code and owner.
GiveOK(r, u, s, items, code) ==
  /\ shared' = shared /\ partly \subseteq partly' /\ partly' \subseteq Codes
  /\ code # Nothing => \A i \in items : seat[s][i] = Nothing
  /\ code = Nothing => \A i \in items : seat[s][i] \in Codes => seat[s][i] \in partly'
  /\ code \in Codes =>
       /\ code = redeem[r].code /\ s = redeem[r].member
       /\ \/ redeem[r].pc = "cycles" /\ items = redeem[r].cycles
          \/ redeem[r].pc = "courses" /\ items = redeem[r].courses
  /\ u.pc # "cycles"
  /\ u.code \in Codes =>
       /\ u.code = redeem[r].code /\ u.member = redeem[r].member /\ redeem[r].pc # "idle"
       /\ redeem[r].pc = "cycles" => code = redeem[r].code
       /\ u.pc \in {"drop_cycles", "courses"} =>
            \/ u.courses = redeem[r].courses /\ redeem[r].pc \in {"cycles", "drop_cycles"}
            \/ items = {} /\ \A z \in u.courses : ~Used(u.code, z)

LEMMA EnrolFacts ==
  /\ Cycles \cap Courses = {} /\ Items = Cycles \cup Courses
  /\ \A c \in Cycles : CourseOf[c] \in Courses
  /\ \A k \in Codes : CyclesOf(k) \subseteq Cycles /\ SoldCourses(k) \subseteq Courses
  /\ Manual \notin Codes /\ Nothing \notin Codes /\ Manual # Nothing /\ Nothing \notin Members
  /\ Academic \subseteq Codes
BY EnrolmentAssumption DEF Items, CyclesOf, SoldCourses

LEMMA PairFacts ==
  /\ \A s, items, t, i : <<t, i>> \in Pairs(s, items) <=> t = s /\ i \in items
  /\ \A s, items, t, i : <<t, i>> \in Loading(s, items) <=> t = s /\ i \in items /\ loading[s][i] # {}
  /\ \A s, items, t, i :
       <<t, i>> \in Cached(s, items) <=> t = s /\ i \in items /\ (memo[s][i] # {} \/ loading[s][i] # {})
  /\ \A s, items : Loading(s, items) \subseteq Pairs(s, items) /\ Cached(s, items) \subseteq Pairs(s, items)
  /\ \A s \in Members, items \in SUBSET Items : Pairs(s, items) \subseteq Members \X Items
  /\ \A s \in Members, items \in SUBSET Courses : Pairs(s, items) \subseteq Members \X Courses
<1>1. \A s, items, t, i : <<t, i>> \in Pairs(s, items) <=> t = s /\ i \in items
  BY DEF Pairs
<1>2. \A s, items, t, i : <<t, i>> \in Loading(s, items) <=> t = s /\ i \in items /\ loading[s][i] # {}
  BY <1>1 DEF Loading
<1>3. \A s, items, t, i :
        <<t, i>> \in Cached(s, items) <=> t = s /\ i \in items /\ (memo[s][i] # {} \/ loading[s][i] # {})
  BY <1>1, <1>2 DEF Cached
<1>4. \A s, items : Loading(s, items) \subseteq Pairs(s, items) /\ Cached(s, items) \subseteq Pairs(s, items)
  BY DEF Loading, Cached
<1>5. /\ \A s \in Members, items \in SUBSET Items : Pairs(s, items) \subseteq Members \X Items
      /\ \A s \in Members, items \in SUBSET Courses : Pairs(s, items) \subseteq Members \X Courses
  BY DEF Pairs
<1> QED
  BY <1>1, <1>2, <1>3, <1>4, <1>5

LEMMA CoversFacts ==
  /\ \A q : q.pc = "drop_cycles" => Covers(q) = Pairs(q.member, q.cycles)
  /\ \A q : q.pc = "drop_courses" => Covers(q) = Pairs(q.member, q.courses)
  /\ \A q : q.pc \notin {"drop_cycles", "drop_courses"} => \A x : x \notin Covers(q)
  /\ \A q : q.pc \in {"drop_cycles", "courses"} => Owed(q) = Pairs(q.member, q.courses)
  /\ \A q : q.pc \notin {"drop_cycles", "courses"} => \A x : x \notin Owed(q)
  /\ \A q, s, i : <<s, i>> \in Covers(q) => <<s, i>> \in Undropped(q) \/ memo[s][i] = {}
  /\ \A q : Undropped(q) \subseteq Covers(q)
<1>1. \A q : q.pc = "drop_cycles" => Covers(q) = Pairs(q.member, q.cycles)
  BY DEF Covers
<1>2. \A q : q.pc = "drop_courses" => Covers(q) = Pairs(q.member, q.courses)
  BY DEF Covers
<1>3. \A q : q.pc \notin {"drop_cycles", "drop_courses"} => \A x : x \notin Covers(q)
  BY DEF Covers, Pairs
<1>4. \A q : q.pc \in {"drop_cycles", "courses"} => Owed(q) = Pairs(q.member, q.courses)
  BY DEF Owed
<1>5. \A q : q.pc \notin {"drop_cycles", "courses"} => \A x : x \notin Owed(q)
  BY DEF Owed, Pairs
<1>6. \A q : Undropped(q) = CASE q.pc = "drop_cycles" -> Cached(q.member, q.cycles)
                              [] q.pc = "drop_courses" -> Cached(q.member, q.courses)
                              [] OTHER -> {}
  BY DEF Undropped
<1>7. ASSUME NEW q, NEW s, NEW i, <<s, i>> \in Covers(q)
      PROVE  <<s, i>> \in Undropped(q) \/ memo[s][i] = {}
  <2>1. CASE q.pc = "drop_cycles"
    BY <1>1, <1>6, <1>7, <2>1, PairFacts
  <2>2. CASE q.pc = "drop_courses"
    BY <1>2, <1>6, <1>7, <2>2, PairFacts
  <2> QED
    BY <1>3, <1>7, <2>1, <2>2
<1>8. ASSUME NEW q
      PROVE  Undropped(q) \subseteq Covers(q)
  <2>1. CASE q.pc = "drop_cycles"
    BY <1>1, <1>6, <2>1, PairFacts
  <2>2. CASE q.pc = "drop_courses"
    BY <1>2, <1>6, <2>2, PairFacts
  <2>3. CASE q.pc \notin {"drop_cycles", "drop_courses"}
    BY <1>6, <2>3
  <2> QED
    BY <2>1, <2>2, <2>3
<1> QED
  BY <1>1, <1>2, <1>3, <1>4, <1>5, <1>7, <1>8

LEMMA Creation ==
  ASSUME EnrolTypeOK, NEW s \in Members, NEW items, NEW code \in Codes \cup {Manual, Nothing},
         Create(s, items, code)
  PROVE  RowsGet(s, items, code)
<1> DEFINE row == [i \in Items |-> IF i \in items THEN code ELSE seat[s][i]]
<1>1. seat \in [Members -> [Items -> Codes \cup {Manual, Nothing}]]
  BY DEF EnrolTypeOK
<1>2. seat' = [seat EXCEPT ![s] = row]
  BY DEF Create
<1>3. row \in [Items -> Codes \cup {Manual, Nothing}]
  BY <1>1
<1>4. \A i \in Items : row[i] = IF i \in items THEN code ELSE seat[s][i]
  OBVIOUS
<1> HIDE DEF row
<1> QED
  BY <1>1, <1>2, <1>3, <1>4 DEF RowsGet

LEMMA Deletion ==
  ASSUME EnrolTypeOK, NEW s \in Members, NEW items, Delete(s, items)
  PROVE  Forgets(s, items)
<1> DEFINE row == [i \in Items |-> IF i \in items THEN {} ELSE memo[s][i]]
<1>1. memo \in [Members -> [Items -> {{}, {TRUE}, {FALSE}}]]
  BY DEF EnrolTypeOK
<1>2. memo' = [memo EXCEPT ![s] = row]
  BY DEF Delete
<1>3. row \in [Items -> {{}, {TRUE}, {FALSE}}]
  BY <1>1
<1>4. \A i \in Items : row[i] = IF i \in items THEN {} ELSE memo[s][i]
  OBVIOUS
<1> HIDE DEF row
<1> QED
  BY <1>1, <1>2, <1>3, <1>4 DEF Forgets

\* Rows and cache that are left alone.
LEMMA Alone ==
  ASSUME EnrolTypeOK
  PROVE  /\ \A s : seat' = seat => RowsGet(s, {}, Nothing)
         /\ \A s : memo' = memo => Forgets(s, {})
BY DEF EnrolTypeOK, RowsGet, Forgets

LEMMA GoingOn ==
  ASSUME EnrolTypeOK, RedeemInv, NEW r \in Slots, NEW u, RequestOK(u),
         redeem' = [redeem EXCEPT ![r] = u]
  PROVE  GoesOn(r, u) /\ RedeemInv'
<1>1. redeem \in [Slots -> Redeem] /\ u \in Redeem
  BY DEF EnrolTypeOK, RequestOK
<1>2. GoesOn(r, u)
  BY <1>1 DEF GoesOn
<1> QED
  BY <1>2 DEF GoesOn, RedeemInv

\* A request that is over.
LEMMA Vacates ==
  RequestOK(Vacant) /\ Vacant.pc = "idle" /\ Vacant.code = Nothing
BY DEF Vacant, RequestOK, Redeem

\* The cache after a step of a request.
LEMMA CacheStep ==
  ASSUME CoverInv, LoadInv, NEW r \in Slots, NEW u, GoesOn(r, u),
         NEW s, NEW items, NEW code, RowsGet(s, items, code),
         NEW forgot, Forgets(s, forgot), CacheOK(r, u, s, items, forgot)
  PROVE  CoverInv' /\ LoadInv'
<1>1. \A m \in Members, i \in Items :
        /\ memo'[m][i] \subseteq memo[m][i]
        /\ memo[m][i] = {} => memo'[m][i] = {}
        /\ m = s /\ i \in forgot => memo'[m][i] = {}
  BY DEF Forgets
<1>2. \A m \in Members, i \in Items : ~(m = s /\ i \in items) => Holds(m, i)' = Holds(m, i)
  BY DEF RowsGet, Holds
<1>3. LoadInv'
  BY <1>2 DEF LoadInv, CacheOK
<1>4. CoverInv'
  <2> SUFFICES ASSUME NEW m \in Members, NEW i \in Items
               PROVE  \/ memo'[m][i] \subseteq {Holds(m, i)'}
                      \/ <<m, i>> \in outdated'
                      \/ \E o \in Slots : <<m, i>> \in Covers(redeem'[o])
    BY DEF CoverInv, Covers, Pairs
  <2>1. CASE m = s /\ i \in items
    BY <1>1, <2>1 DEF GoesOn, CacheOK
  <2>2. CASE ~(m = s /\ i \in items)
    <3>1. CASE memo[m][i] \subseteq {Holds(m, i)} \/ <<m, i>> \in outdated
      BY <1>1, <1>2, <2>2, <3>1 DEF CacheOK
    <3>2. CASE \E o \in Slots : <<m, i>> \in Covers(redeem[o])
      <4>1. PICK o \in Slots : <<m, i>> \in Covers(redeem[o])
        BY <3>2
      <4>2. CASE o # r
        BY <4>1, <4>2 DEF GoesOn
      <4>3. CASE o = r
        BY <1>1, <4>1, <4>3 DEF GoesOn, CacheOK
      <4> QED
        BY <4>2, <4>3
    <3> QED
      BY <3>1, <3>2 DEF CoverInv
  <2> QED
    BY <2>1, <2>2
<1> QED
  BY <1>3, <1>4

\* The courses of redeemed cycles after a step of a request.
LEMMA OwnStep ==
  ASSUME EnrolTypeOK, RedeemInv, HasCourse, OwedInv, NEW r \in Slots, NEW u, GoesOn(r, u),
         NEW s \in Members, NEW items \in SUBSET Items, NEW code, RowsGet(s, items, code),
         OwnOK(r, u, s, items, code)
  PROVE  HasCourse' /\ OwedInv'
<1>1. \A t \in Members, z \in Courses :
        seat[t][z] # Nothing => seat'[t][z] # Nothing \/ <<t, z>> \in torn'
  BY EnrolFacts DEF RowsGet, OwnOK
<1>2. HasCourse'
  <2> SUFFICES ASSUME NEW m \in Members, NEW c \in Cycles, seat'[m][c] \in Codes
               PROVE  \/ seat'[m][CourseOf[c]] # Nothing \/ <<m, CourseOf[c]>> \in torn'
                      \/ \E o \in Slots : <<m, CourseOf[c]>> \in Owed(redeem'[o])
    BY DEF HasCourse, Holds, Owed, Pairs
  <2> DEFINE z == CourseOf[c]
  <2>1. z \in Courses /\ c \in Items
    BY EnrolFacts
  <2> HIDE DEF z
  <2>2. CASE m = s /\ c \in items
    <3>1. code \in Codes
      BY <2>1, <2>2 DEF RowsGet
    <3> QED
      BY <2>2, <3>1 DEF GoesOn, OwnOK
  <2>3. CASE ~(m = s /\ c \in items)
    <3>1. seat[m][c] \in Codes
      BY <2>1, <2>3 DEF RowsGet
    <3>2. \/ seat[m][z] # Nothing \/ <<m, z>> \in torn
          \/ \E o \in Slots : <<m, z>> \in Owed(redeem[o])
      BY <3>1 DEF HasCourse, Holds, z
    <3>3. \/ seat'[m][z] # Nothing \/ <<m, z>> \in torn'
          \/ \E o \in Slots : <<m, z>> \in Owed(redeem'[o])
      <4>1. CASE seat[m][z] # Nothing \/ <<m, z>> \in torn
        BY <1>1, <2>1, <4>1 DEF OwnOK
      <4>2. CASE \E o \in Slots : <<m, z>> \in Owed(redeem[o])
        <5>1. PICK o \in Slots : <<m, z>> \in Owed(redeem[o])
          BY <4>2
        <5>2. CASE o # r
          BY <5>1, <5>2 DEF GoesOn
        <5>3. CASE o = r
          BY <2>1, <5>1, <5>3 DEF GoesOn, OwnOK
        <5> QED
          BY <5>2, <5>3
      <4> QED
        BY <3>2, <4>1, <4>2
    <3> QED
      BY <3>3 DEF z
  <2> QED
    BY <2>2, <2>3
<1>3. OwedInv'
  <2> SUFFICES ASSUME NEW o \in Slots, redeem'[o].pc = "cycles", NEW c \in redeem'[o].cycles
               PROVE  \/ seat'[redeem'[o].member][CourseOf[c]] # Nothing
                      \/ CourseOf[c] \in redeem'[o].courses
                      \/ <<redeem'[o].member, CourseOf[c]>> \in torn'
    BY DEF OwedInv, WillHave, Holds
  <2>1. CASE o = r
    BY <2>1 DEF GoesOn, OwnOK
  <2>2. CASE o # r
    <3>1. redeem'[o] = redeem[o] /\ redeem[o] \in Redeem
      BY <2>2 DEF GoesOn, EnrolTypeOK
    <3>2. redeem[o].member \in Members /\ c \in Cycles /\ CourseOf[c] \in Courses
      BY <3>1, EnrolFacts DEF RedeemInv, RequestOK, Redeem
    <3>3. \/ seat[redeem[o].member][CourseOf[c]] # Nothing
          \/ CourseOf[c] \in redeem[o].courses \/ <<redeem[o].member, CourseOf[c]>> \in torn
      BY <3>1 DEF OwedInv, WillHave, Holds
    <3> QED
      BY <1>1, <3>1, <3>2, <3>3 DEF OwnOK
  <2> QED
    BY <2>1, <2>2
<1> QED
  BY <1>2, <1>3

\* What codes gave after a step of a request that does not begin.
LEMMA GiveStep ==
  ASSUME EnrolTypeOK, RedeemInv, CodeInv, NEW r \in Slots, NEW u, RequestOK(u), GoesOn(r, u),
         NEW s \in Members, NEW items \in SUBSET Items, NEW code, RowsGet(s, items, code),
         GiveOK(r, u, s, items, code)
  PROVE  CodeInv'
<1> USE DEF GiveOK
<1>0. OneInv /\ UnusedInv /\ OnceInv /\ WholeInv /\ GivenOnce
  BY DEF CodeInv
<1>1. \A o \in Slots : /\ redeem[o] \in Redeem /\ redeem'[o] \in Redeem
                       /\ redeem'[o].code \in Codes => redeem[o].code = redeem'[o].code
                       /\ o # r => redeem'[o] = redeem[o]
                       /\ redeem'[r] = u
  BY DEF GoesOn, EnrolTypeOK
<1>2. /\ \A t \in Members, i \in Items : seat'[t][i] = IF t = s /\ i \in items THEN code ELSE seat[t][i]
      /\ \A t \in Members, i \in Items : seat[t][i] \in Codes \cup {Manual, Nothing}
  BY DEF RowsGet, EnrolTypeOK
\* The rows of other codes are the old ones.
<1>3. \A k \in Codes, i \in Items : Used(k, i)' => Used(k, i) \/ (k = code /\ i \in items)
  BY <1>2 DEF Used
<1>4. \A t \in Members, i \in Items : seat[t][i] \in Codes \ partly' => seat'[t][i] = seat[t][i]
  BY <1>2, EnrolFacts
<1>5. OneInv'
  BY <1>0, <1>1 DEF OneInv
\* Another request with a code of its own is not disturbed.
<1>6. ASSUME NEW o \in Slots, o # r, redeem[o].code \in Codes \ shared, NEW i \in Items,
             ~Used(redeem[o].code, i)
      PROVE  \A m \in Members : seat'[m][i] # redeem[o].code
  <2> DEFINE k == redeem[o].code
  <2>1. k # redeem[r].code /\ k \in Codes
    BY <1>0, <1>6 DEF OneInv
  <2>2. ~Used(k, i)
    BY <1>6
  <2> HIDE DEF k
  <2>3. k # code
    BY <2>1
  <2>4. \A m \in Members : seat'[m][i] # k
    BY <1>2, <2>2, <2>3 DEF Used
  <2> QED
    BY <2>4 DEF k
<1>7. UnusedInv'
  <2> SUFFICES ASSUME NEW o \in Slots, redeem'[o].pc = "cycles", redeem'[o].code \notin shared,
                      NEW c \in redeem'[o].cycles
               PROVE  \A m \in Members : seat'[m][c] # redeem'[o].code
    BY DEF UnusedInv, Used
  <2>1. o # r /\ redeem'[o] = redeem[o]
    BY <1>1
  <2>2. redeem[o].code \in Codes \ shared /\ c \in Items /\ ~Used(redeem[o].code, c)
    BY <1>0, <1>1, <2>1, EnrolFacts DEF RedeemInv, RequestOK, UnusedInv, Redeem
  <2> QED
    BY <1>6, <2>1, <2>2 DEF Used
<1>8. OnceInv'
  <2> SUFFICES ASSUME NEW o \in Slots, redeem'[o].pc \in {"cycles", "drop_cycles", "courses"},
                      redeem'[o].code \notin shared \cup partly', NEW z \in redeem'[o].courses
               PROVE  \A m \in Members : seat'[m][z] # redeem'[o].code
    BY DEF OnceInv, Used
  <2>1. CASE o # r
    <3>1. redeem'[o] = redeem[o] /\ redeem[o].code \in Codes \ shared /\ z \in Items
      BY <1>1, <2>1, EnrolFacts DEF RedeemInv, RequestOK
    <3>2. ~Used(redeem[o].code, z)
      BY <1>0, <3>1 DEF OnceInv
    <3> QED
      BY <1>6, <2>1, <3>1, <3>2 DEF Used
  <2>2. CASE o = r
    <3>1. /\ redeem'[o] = u /\ u.code \in Codes /\ u.courses \subseteq Courses /\ z \in Courses
          /\ u.code = redeem[r].code /\ u.pc \in {"drop_cycles", "courses"} /\ z \in Items
      BY <1>1, <2>2, EnrolFacts DEF RequestOK
    <3>2. CASE u.courses = redeem[r].courses /\ redeem[r].pc \in {"cycles", "drop_cycles"}
      <4>1. ~Used(u.code, z)
        BY <1>0, <3>1, <3>2 DEF OnceInv
      <4>2. ~(u.code = code /\ z \in items)
        BY <1>1, <3>1, <3>2, EnrolFacts DEF Redeem
      <4> QED
        BY <1>3, <3>1, <4>1, <4>2 DEF Used
    <3>3. CASE items = {} /\ \A y \in u.courses : ~Used(u.code, y)
      BY <1>3, <3>1, <3>3 DEF Used
    <3> QED
      BY <3>1, <3>2, <3>3
  <2> QED
    BY <2>1, <2>2
<1>9. \A t \in Members, k \in Codes \ partly' : Gave(t, k) => \A c \in CyclesOf(k) : seat'[t][c] = k
  BY <1>4, EnrolFacts DEF Gave
<1>10. WholeInv'
  <2>1. ASSUME NEW t \in Members, NEW z \in Courses, seat'[t][z] \in Codes \ partly'
        PROVE  \A c \in CyclesOf(seat'[t][z]) : seat'[t][c] = seat'[t][z]
    <3>1. CASE seat'[t][z] = seat[t][z]
      BY <1>0, <1>9, <2>1, <3>1 DEF WholeInv
    <3>2. CASE seat'[t][z] # seat[t][z]
      <4>1. t = s /\ z \in items /\ seat'[t][z] = code /\ code \in Codes \ partly
        BY <1>2, <2>1, <3>2, EnrolFacts
      <4>2. redeem[r].pc = "courses" /\ code = redeem[r].code /\ s = redeem[r].member
        BY <1>1, <4>1, EnrolFacts DEF Redeem
      <4>3. Gave(t, code)
        BY <1>0, <4>1, <4>2 DEF WholeInv
      <4> QED
        BY <1>9, <2>1, <4>1, <4>3
    <3> QED
      BY <3>1, <3>2
  <2>2. ASSUME NEW o \in Slots, redeem'[o].code \in Codes \ partly'
        PROVE  /\ redeem'[o].pc = "cycles" => redeem'[o].cycles = CyclesOf(redeem'[o].code)
               /\ redeem'[o].pc \in {"drop_cycles", "courses", "drop_courses", "look"} =>
                    \A c \in CyclesOf(redeem'[o].code) : seat'[redeem'[o].member][c] = redeem'[o].code
    <3>1. CASE o # r
      <4>1. redeem'[o] = redeem[o] /\ redeem[o].code \in Codes \ partly
        BY <1>1, <2>2, <3>1
      <4>2. redeem[o].pc # "idle" => redeem[o].member \in Members
        BY DEF RedeemInv, RequestOK
      <4> QED
        BY <1>0, <1>9, <2>2, <4>1, <4>2 DEF WholeInv
    <3>2. CASE o = r
      <4> DEFINE k == redeem[r].code
      <4>1. /\ redeem'[o] = u /\ u.code = k /\ u.member = redeem[r].member /\ k \in Codes \ partly'
            /\ redeem[r].pc # "idle" /\ u.member \in Members /\ k \in Codes \ partly
        BY <1>1, <2>2, <3>2 DEF RedeemInv, RequestOK
      <4>2. \A c \in CyclesOf(k) : seat'[u.member][c] = k
        <5>1. CASE redeem[r].pc = "cycles"
          <6>1. items = CyclesOf(k) /\ code = k /\ s = u.member
            BY <1>0, <4>1, <5>1 DEF WholeInv
          <6> QED
            BY <1>2, <4>1, <6>1, EnrolFacts
        <5>2. CASE redeem[r].pc # "cycles"
          <6>1. Gave(u.member, k)
            BY <1>0, <1>1, <4>1, <5>2 DEF WholeInv, Redeem
          <6> QED
            BY <1>9, <4>1, <6>1
        <5> QED
          BY <5>1, <5>2
      <4> QED
        BY <4>1, <4>2
    <3> QED
      BY <3>1, <3>2
  <2> QED
    BY <2>1, <2>2 DEF WholeInv, Gave
<1>11. GivenOnce'
  <2>1. ASSUME NEW a \in Members, NEW b \in Members, NEW i \in Items, a # b, a = s, i \in items,
               code \in Codes, seat'[b][i] = code
        PROVE  code \in shared \cup (IF i \in Courses THEN partly ELSE {})
    <3>1. Used(code, i) /\ code = redeem[r].code
      BY <1>2, <2>1 DEF Used
    <3>2. CASE redeem[r].pc = "cycles" /\ items = redeem[r].cycles
      BY <1>0, <2>1, <3>1, <3>2 DEF UnusedInv
    <3>3. CASE redeem[r].pc = "courses" /\ items = redeem[r].courses
      BY <1>0, <2>1, <3>1, <3>3 DEF OnceInv, RedeemInv, RequestOK
    <3> QED
      BY <2>1, <3>2, <3>3
  <2> SUFFICES ASSUME NEW a \in Members, NEW b \in Members, NEW i \in Items, a # b,
                      seat'[a][i] \in Codes, seat'[a][i] = seat'[b][i]
               PROVE  seat'[a][i] \in shared \cup (IF i \in Courses THEN partly' ELSE {})
    BY DEF GivenOnce
  <2>2. CASE a = s /\ i \in items
    BY <1>2, <2>1, <2>2
  <2>3. CASE b = s /\ i \in items
    BY <1>2, <2>1, <2>3
  <2>4. CASE ~(a = s /\ i \in items) /\ ~(b = s /\ i \in items)
    BY <1>0, <1>2, <2>4 DEF GivenOnce
  <2> QED
    BY <2>2, <2>3, <2>4
<1> QED
  BY <1>5, <1>7, <1>8, <1>10, <1>11 DEF CodeInv

\* A request begins.
LEMMA BeginStep ==
  ASSUME EnrolInv, NEW r \in Slots, NEW s \in Members, NEW k \in Codes,
         NEW cycles \in SUBSET CyclesOf(k), NEW migrates \in BOOLEAN, redeem[r] = Vacant,
         \A c \in cycles : ~Used(k, c), Begin(r, s, k, cycles, migrates),
         UNCHANGED <<seat, membership, events, torn, outdated>>
  PROVE  EnrolInv'
<1> DEFINE u == [Vacant EXCEPT !.pc = "cycles", !.member = s, !.code = k, !.cycles = cycles,
                               !.courses = CoursesOf(s, cycles), !.migrates = migrates]
<1>0. /\ EnrolTypeOK /\ RedeemInv /\ CoverInv /\ LoadInv /\ HasCourse /\ OwedInv
      /\ OneInv /\ UnusedInv /\ OnceInv /\ WholeInv /\ GivenOnce
  BY DEF EnrolInv, CodeInv
<1>1. /\ redeem' = [redeem EXCEPT ![r] = u]
      /\ shared' = IF \E o \in Slots : redeem[o].code = k THEN shared \cup {k} ELSE shared
      /\ partly' = IF cycles = CyclesOf(k) THEN partly ELSE partly \cup {k}
      /\ seat' = seat /\ memo' = memo /\ loading' = loading /\ UNCHANGED <<events, torn, outdated>>
  BY DEF Begin, membership
<1>2. /\ CoursesOf(s, cycles) \subseteq Courses /\ cycles \subseteq Cycles
      /\ \A z \in CoursesOf(s, cycles) : \E c \in cycles : z = CourseOf[c]
      /\ \A c \in cycles : Holds(s, CourseOf[c]) \/ CourseOf[c] \in CoursesOf(s, cycles)
  BY EnrolFacts DEF CoursesOf, Missing
<1>3. /\ u \in Redeem /\ u.pc = "cycles" /\ u.member = s /\ u.code = k /\ u.cycles = cycles
      /\ u.courses = CoursesOf(s, cycles)
  BY <1>2, EnrolFacts DEF Vacant, Redeem
<1> HIDE DEF u
<1>4. RequestOK(u)
  BY <1>2, <1>3 DEF RequestOK
<1>5. GoesOn(r, u) /\ RedeemInv'
  BY <1>0, <1>1, <1>4, GoingOn
<1>6. EnrolTypeOK'
  BY <1>0, <1>1, <1>5 DEF EnrolTypeOK, GoesOn
<1>7. RowsGet(s, {}, Nothing) /\ Forgets(s, {})
  BY <1>0, <1>1, Alone
<1>8. CoverInv' /\ LoadInv'
  <2>1. \A m \in Members, i \in Items : <<m, i>> \notin Covers(redeem[r])
    BY CoversFacts, Vacates
  <2>2. CacheOK(r, u, s, {}, {})
    BY <1>0, <1>1, <2>1 DEF CacheOK, EnrolTypeOK
  <2> QED
    BY <1>0, <1>5, <1>7, <2>2, CacheStep
<1>9. HasCourse' /\ OwedInv'
  <2>1. \A m \in Members, i \in Items : <<m, i>> \notin Owed(redeem[r])
    BY CoversFacts, Vacates
  <2>2. \A c \in u.cycles : seat'[u.member][CourseOf[c]] # Nothing \/ CourseOf[c] \in u.courses
    <3>1. \A c \in cycles : seat[s][CourseOf[c]] # Nothing \/ CourseOf[c] \in CoursesOf(s, cycles)
      BY <1>2 DEF Holds
    <3> QED
      BY <1>1, <1>3, <3>1
  <2>3. OwnOK(r, u, s, {}, Nothing)
    <3>1. torn' = torn /\ torn \subseteq Members \X Courses /\ Nothing \notin Codes
      BY <1>0, <1>1, EnrolFacts DEF EnrolTypeOK
    <3>2. \A z : z \notin {} \cap Cycles /\ z \notin {} \cap Courses
      OBVIOUS
    <3> QED
      BY <2>1, <2>2, <3>1, <3>2, EnrolFacts DEF OwnOK
  <2> QED
    BY <1>0, <1>5, <1>7, <2>3, OwnStep
<1>10. /\ \A o \in Slots : redeem'[o] = IF o = r THEN u ELSE redeem[o]
       /\ shared \subseteq shared' /\ partly \subseteq partly'
       /\ \A j, i : Used(j, i)' <=> Used(j, i)
       /\ \A t, j : Gave(t, j)' <=> Gave(t, j)
  BY <1>1, <1>5 DEF GoesOn, Used, Gave
<1>11. OneInv'
  <2> SUFFICES ASSUME NEW a \in Slots, NEW b \in Slots, redeem'[a].code \in Codes \ shared',
                      redeem'[b].code = redeem'[a].code
               PROVE  a = b
    BY DEF OneInv
  <2>1. CASE a # r /\ b # r
    BY <1>0, <1>10, <2>1 DEF OneInv
  <2>2. CASE a = r \/ b = r
    <3>1. ~\E o \in Slots : redeem[o].code = k
      BY <1>1, <1>3, <1>10, <2>2
    <3> QED
      BY <1>3, <1>10, <2>2, <3>1
  <2> QED
    BY <2>1, <2>2
<1>12. UnusedInv'
  BY <1>0, <1>3, <1>10 DEF UnusedInv
<1>13. OnceInv'
  <2> SUFFICES ASSUME NEW o \in Slots, redeem'[o].pc \in {"cycles", "drop_cycles", "courses"},
                      redeem'[o].code \notin shared' \cup partly', NEW z \in redeem'[o].courses
               PROVE  ~Used(redeem'[o].code, z)
    BY <1>10 DEF OnceInv
  <2>1. CASE o # r
    BY <1>0, <1>10, <2>1 DEF OnceInv
  <2>2. CASE o = r
    <3>1. k \notin partly /\ cycles = CyclesOf(k) /\ z \in CoursesOf(s, cycles)
      BY <1>1, <1>3, <1>10, <2>2
    <3>2. PICK c \in cycles : z = CourseOf[c]
      BY <1>2, <3>1
    <3>3. ASSUME NEW t \in Members, seat[t][z] = k
          PROVE  FALSE
      <4>1. Gave(t, k)
        BY <1>0, <1>2, <3>1, <3>3 DEF WholeInv
      <4> QED
        BY <3>1, <3>2, <4>1 DEF Gave, Used
    <3> QED
      BY <1>3, <1>10, <2>2, <3>3 DEF Used
  <2> QED
    BY <2>1, <2>2
<1>14. WholeInv'
  <2>1. \A t \in Members, z \in Courses : seat'[t][z] \in Codes \ partly' => \A c \in CyclesOf(seat'[t][z]) : seat'[t][c] = seat'[t][z]
    BY <1>0, <1>1, <1>10 DEF WholeInv, Gave
  <2>2. ASSUME NEW o \in Slots, redeem'[o].code \in Codes \ partly'
        PROVE  /\ redeem'[o].pc = "cycles" => redeem'[o].cycles = CyclesOf(redeem'[o].code)
               /\ redeem'[o].pc \in {"drop_cycles", "courses", "drop_courses", "look"}
                    => Gave(redeem'[o].member, redeem'[o].code)
    <3>1. CASE o # r
      BY <1>0, <1>10, <2>2, <3>1 DEF WholeInv
    <3>2. CASE o = r
      BY <1>1, <1>3, <1>10, <2>2, <3>2
    <3> QED
      BY <3>1, <3>2
  <2> QED
    BY <1>1, <2>1, <2>2 DEF WholeInv, Gave
<1>15. GivenOnce'
  BY <1>0, <1>1, <1>10 DEF GivenOnce
<1> QED
  BY <1>5, <1>6, <1>8, <1>9, <1>11, <1>12, <1>13, <1>14, <1>15 DEF EnrolInv, CodeInv

-----------------------------------------------------------------------------
(* The steps                                                                 *)

\* A step of a request that has begun: what the three lemmas above ask of it.
LEMMA RequestStep ==
  ASSUME EnrolInv, NEW r \in Slots, NEW u, RequestOK(u), redeem' = [redeem EXCEPT ![r] = u],
         NEW s \in Members, NEW items \in SUBSET Items, NEW code \in Codes \cup {Manual, Nothing},
         RowsGet(s, items, code), NEW forgot, Forgets(s, forgot), events' \in 0..MaxEvents,
         CacheOK(r, u, s, items, forgot), OwnOK(r, u, s, items, code), GiveOK(r, u, s, items, code)
  PROVE  EnrolInv'
<1>0. EnrolTypeOK /\ RedeemInv /\ CoverInv /\ LoadInv /\ CodeInv /\ HasCourse /\ OwedInv
  BY DEF EnrolInv
<1>1. GoesOn(r, u) /\ RedeemInv'
  BY <1>0, GoingOn
<1>2. EnrolTypeOK'
  BY <1>0, <1>1 DEF EnrolTypeOK, GoesOn, RowsGet, Forgets, CacheOK, OwnOK, GiveOK
<1>3. CoverInv' /\ LoadInv'
  BY <1>0, <1>1, CacheStep
<1>4. HasCourse' /\ OwedInv'
  BY <1>0, <1>1, OwnStep
<1>5. CodeInv'
  BY <1>0, <1>1, GiveStep
<1> QED
  BY <1>1, <1>2, <1>3, <1>4, <1>5 DEF EnrolInv

\* One that leaves the rows alone.
LEMMA PlainStep ==
  ASSUME EnrolInv, NEW r \in Slots, NEW u, RequestOK(u), redeem' = [redeem EXCEPT ![r] = u],
         NEW s \in Members, NEW forgot, Forgets(s, forgot), seat' = seat, events' \in 0..MaxEvents,
         CacheOK(r, u, s, {}, forgot), OwnOK(r, u, s, {}, Nothing), GiveOK(r, u, s, {}, Nothing)
  PROVE  EnrolInv'
<1>1. RowsGet(s, {}, Nothing)
  BY Alone DEF EnrolInv
<1>2. {} \in SUBSET Items /\ Nothing \in Codes \cup {Manual, Nothing}
  OBVIOUS
<1> QED
  BY <1>1, <1>2, RequestStep

LEMMA AssignCyclesStep ==
  ASSUME EnrolInv, NEW r \in Slots, AssignCycles(r)
  PROVE  EnrolInv'
<1> DEFINE q == redeem[r]
           m == q.member
           pc == IF q.migrates THEN "courses" ELSE "drop_cycles"
           u == [q EXCEPT !.pc = pc]
<1>0. EnrolTypeOK /\ RedeemInv /\ OwedInv
  BY DEF EnrolInv
<1>1. /\ q \in Redeem /\ q.pc = "cycles" /\ m \in Members /\ q.code \in Codes
      /\ q.cycles \in SUBSET Items /\ q.cycles \subseteq Cycles /\ q.courses \subseteq Courses
      /\ q.migrates \in BOOLEAN /\ outdated \subseteq Members \X Items /\ torn \subseteq Members \X Courses
      /\ events \in 0..MaxEvents
  BY <1>0, EnrolFacts DEF AssignCycles, RedeemInv, RequestOK, Redeem, EnrolTypeOK
<1>2. memo' = memo /\ loading' = loading /\ UNCHANGED <<events, shared, partly, torn>>
  BY DEF AssignCycles, membership
<1>3. Forgets(m, {})
  BY <1>0, <1>2, Alone
<1>4. \A x : x \notin Covers(q) /\ x \notin Owed(q)
  BY <1>1, CoversFacts
<1>5. CASE q.cycles = Missing(m, q.cycles)
  <2>1. /\ Create(m, q.cycles, q.code) /\ redeem' = [redeem EXCEPT ![r].pc = pc]
        /\ outdated' = outdated \cup (IF q.migrates THEN Cached(m, q.cycles) ELSE Loading(m, q.cycles))
    BY <1>5 DEF AssignCycles, Step
  <2>2. /\ u \in Redeem /\ u.pc = pc /\ u.member = m /\ u.code = q.code /\ u.cycles = q.cycles
        /\ u.courses = q.courses
    BY <1>1 DEF Redeem
  <2>3. redeem' = [redeem EXCEPT ![r] = u]
    BY <1>0, <2>1 DEF EnrolTypeOK, Redeem
  <2>4. pc \in {"courses", "drop_cycles"} /\ (q.migrates = FALSE => pc = "drop_cycles")
    BY <1>1
  <2> HIDE DEF u
  <2>5. RequestOK(u)
    BY <1>1, <2>2, <2>4 DEF RequestOK
  <2>6. RowsGet(m, q.cycles, q.code)
    BY <1>0, <1>1, <2>1, Creation
  <2>7. \A i \in q.cycles : seat[m][i] = Nothing
    BY <1>5 DEF Missing, Holds
  <2>8. outdated \subseteq outdated' /\ outdated' \subseteq Members \X Items
    BY <1>1, <2>1, PairFacts
  <2>9. \A i \in q.cycles : loading[m][i] # {} => <<m, i>> \in outdated'
    BY <2>1, PairFacts
  <2>10. \A i \in q.cycles : memo[m][i] = {} \/ <<m, i>> \in outdated' \/ <<m, i>> \in Covers(u)
    <3>1. CASE q.migrates = TRUE
      BY <2>1, <3>1, PairFacts
    <3>2. CASE q.migrates = FALSE
      BY <2>2, <2>4, <3>2, PairFacts, CoversFacts
    <3> QED
      BY <1>1, <3>1, <3>2
  <2>11. \A c \in q.cycles \cap Cycles :
           \/ seat'[m][CourseOf[c]] # Nothing \/ <<m, CourseOf[c]>> \in torn'
           \/ <<m, CourseOf[c]>> \in Owed(u)
    <3> SUFFICES ASSUME NEW c \in q.cycles
                 PROVE  \/ seat'[m][CourseOf[c]] # Nothing \/ <<m, CourseOf[c]>> \in torn'
                        \/ <<m, CourseOf[c]>> \in Owed(u)
      OBVIOUS
    <3>1. Holds(m, CourseOf[c]) \/ CourseOf[c] \in q.courses \/ <<m, CourseOf[c]>> \in torn
      BY <1>0, <1>1 DEF OwedInv, WillHave
    <3>2. CourseOf[c] \in Items /\ CourseOf[c] \notin q.cycles
      BY <1>1, EnrolFacts
    <3>3. seat'[m][CourseOf[c]] = seat[m][CourseOf[c]]
      BY <1>1, <2>6, <3>2 DEF RowsGet
    <3>4. Owed(u) = Pairs(m, q.courses)
      BY <2>2, <2>4, CoversFacts
    <3> QED
      BY <1>2, <3>1, <3>3, <3>4, PairFacts DEF Holds
  <2>12. q.cycles \cap Courses = {} /\ q.code # Nothing /\ q.code \in Codes \cup {Manual, Nothing}
    BY <1>1, EnrolFacts
  <2>13. CacheOK(r, u, m, q.cycles, {})
    BY <1>2, <1>4, <2>8, <2>9, <2>10 DEF CacheOK
  <2>14. OwnOK(r, u, m, q.cycles, q.code)
    BY <1>1, <1>2, <1>4, <2>2, <2>4, <2>11, <2>12 DEF OwnOK
  <2>15. GiveOK(r, u, m, q.cycles, q.code)
    BY <1>0, <1>1, <1>2, <2>2, <2>4, <2>7, <2>12 DEF GiveOK, EnrolTypeOK
  <2> QED
    BY <1>1, <1>2, <1>3, <2>3, <2>5, <2>6, <2>12, <2>13, <2>14, <2>15, RequestStep
<1>6. CASE q.cycles # Missing(m, q.cycles)
  <2>1. redeem' = [redeem EXCEPT ![r] = Vacant] /\ seat' = seat /\ outdated' = outdated
    BY <1>6 DEF AssignCycles, Leave
  <2>2. CacheOK(r, Vacant, m, {}, {})
    BY <1>1, <1>2, <1>4, <2>1 DEF CacheOK
  <2>3. OwnOK(r, Vacant, m, {}, Nothing)
    BY <1>1, <1>2, <1>4, <2>1, Vacates DEF OwnOK
  <2>4. GiveOK(r, Vacant, m, {}, Nothing)
    BY <1>0, <1>2, <2>1, Vacates, EnrolFacts DEF GiveOK, EnrolTypeOK
  <2> QED
    BY <1>1, <1>2, <1>3, <2>1, <2>2, <2>3, <2>4, Vacates, PlainStep
<1> QED
  BY <1>5, <1>6

LEMMA AssignCoursesStep ==
  ASSUME EnrolInv, NEW r \in Slots, AssignCourses(r)
  PROVE  EnrolInv'
<1> DEFINE q == redeem[r]
           m == q.member
           u == [q EXCEPT !.pc = "drop_courses"]
<1>0. EnrolTypeOK /\ RedeemInv
  BY DEF EnrolInv
<1>1. /\ q \in Redeem /\ q.pc = "courses" /\ m \in Members /\ q.code \in Codes
      /\ q.courses \in SUBSET Items /\ q.courses \in SUBSET Courses
      /\ outdated \subseteq Members \X Items /\ torn \subseteq Members \X Courses
      /\ events \in 0..MaxEvents
  BY <1>0, EnrolFacts DEF AssignCourses, RedeemInv, RequestOK, Redeem, EnrolTypeOK
<1>2. memo' = memo /\ loading' = loading /\ UNCHANGED <<events, shared, partly>>
  BY DEF AssignCourses, membership
<1>3. Forgets(m, {})
  BY <1>0, <1>2, Alone
<1>4. (\A x : x \notin Covers(q)) /\ Owed(q) = Pairs(m, q.courses)
  BY <1>1, CoversFacts
<1>5. CASE q.courses = Missing(m, q.courses) /\ ~Twice(q)
  <2>1. /\ Create(m, q.courses, q.code) /\ redeem' = [redeem EXCEPT ![r].pc = "drop_courses"]
        /\ torn' = torn \ Pairs(m, q.courses)
        /\ outdated' = outdated \cup Loading(m, q.courses)
    BY <1>5 DEF AssignCourses, Step
  <2>2. /\ u \in Redeem /\ u.pc = "drop_courses" /\ u.member = m /\ u.code = q.code
        /\ u.courses = q.courses
    BY <1>1 DEF Redeem
  <2>3. redeem' = [redeem EXCEPT ![r] = u]
    BY <1>0, <2>1 DEF EnrolTypeOK, Redeem
  <2> HIDE DEF u
  <2>4. RequestOK(u)
    BY <1>1, <2>2 DEF RequestOK
  <2>5. RowsGet(m, q.courses, q.code)
    BY <1>0, <1>1, <2>1, Creation
  <2>6. \A i \in q.courses : seat[m][i] = Nothing
    BY <1>5 DEF Missing, Holds
  <2>7. /\ outdated \subseteq outdated' /\ outdated' \subseteq Members \X Items
        /\ torn' \subseteq Members \X Courses
    BY <1>1, <2>1, PairFacts
  <2>8. \A i \in q.courses : loading[m][i] # {} => <<m, i>> \in outdated'
    BY <2>1, PairFacts
  <2>9. \A i \in q.courses : <<m, i>> \in Covers(u)
    BY <2>2, PairFacts, CoversFacts
  <2>10. /\ q.courses \cap Cycles = {} /\ q.code # Nothing /\ q.code \in Codes \cup {Manual, Nothing}
    BY <1>1, EnrolFacts
  <2>11. \A i \in q.courses : seat'[m][i] # Nothing
    BY <1>1, <2>5, <2>10 DEF RowsGet
  <2>12. \A t \in Members, z \in Courses :
           <<t, z>> \in torn \/ <<t, z>> \in Owed(q) => <<t, z>> \in torn' \/ seat'[t][z] # Nothing
    BY <1>4, <2>1, <2>11, PairFacts
  <2>13. CacheOK(r, u, m, q.courses, {})
    BY <1>2, <1>4, <2>7, <2>8, <2>9 DEF CacheOK
  <2>14. OwnOK(r, u, m, q.courses, q.code)
    BY <2>2, <2>7, <2>10, <2>12 DEF OwnOK
  <2>15. GiveOK(r, u, m, q.courses, q.code)
    BY <1>0, <1>1, <1>2, <2>2, <2>6, <2>10 DEF GiveOK, EnrolTypeOK
  <2> QED
    BY <1>1, <1>2, <1>3, <2>3, <2>4, <2>5, <2>10, <2>13, <2>14, <2>15, RequestStep
<1>6. CASE ~(q.courses = Missing(m, q.courses) /\ ~Twice(q))
  <2>1. /\ redeem' = [redeem EXCEPT ![r] = Vacant] /\ seat' = seat /\ outdated' = outdated
        /\ torn' = torn \cup Pairs(m, q.courses)
    BY <1>6 DEF AssignCourses, Leave
  <2>2. torn' \subseteq Members \X Courses
    BY <1>1, <2>1, PairFacts
  <2>3. CacheOK(r, Vacant, m, {}, {})
    BY <1>1, <1>2, <1>4, <2>1 DEF CacheOK
  <2>4. OwnOK(r, Vacant, m, {}, Nothing)
    BY <1>4, <2>1, <2>2, Vacates DEF OwnOK
  <2>5. GiveOK(r, Vacant, m, {}, Nothing)
    BY <1>0, <1>2, <2>1, Vacates, EnrolFacts DEF GiveOK, EnrolTypeOK
  <2> QED
    BY <1>1, <1>2, <1>3, <2>1, <2>3, <2>4, <2>5, Vacates, PlainStep
<1> QED
  BY <1>5, <1>6

\* Deleting cached memberships, the way on, and the lookup of the product's courses.
LEMMA InvalidateStep ==
  ASSUME EnrolInv, NEW r \in Slots,
         InvalidateCycles(r) \/ InvalidateCourses(r) \/ FindCourses(r) \/ InvalidationFails(r) \/ Abandon(r)
  PROVE  EnrolInv'
<1> DEFINE q == redeem[r]
           m == q.member
           look == [q EXCEPT !.pc = "look"]
<1>0. EnrolTypeOK /\ RedeemInv
  BY DEF EnrolInv
<1>1. /\ q \in Redeem /\ q.pc # "idle" /\ m \in Members
      /\ outdated \subseteq Members \X Items /\ torn \subseteq Members \X Courses
      /\ events \in 0..MaxEvents /\ MaxEvents \in Nat
  <2>1. q \in Redeem /\ (q.pc # "idle" => q.member \in Members)
    BY <1>0 DEF RedeemInv, RequestOK
  <2>2. q.pc # "idle"
    <3>1. Vacant.pc = "idle"
      BY Vacates
    <3>2. CASE Abandon(r)
      <4>1. q # Vacant
        BY <3>2 DEF Abandon
      <4> QED
        BY <1>0, <4>1 DEF RedeemInv, RequestOK
    <3> QED
      BY <3>2 DEF InvalidateCycles, InvalidateCourses, FindCourses, InvalidationFails
  <2> QED
    BY <1>0, <2>1, <2>2, EnrolmentAssumption DEF EnrolTypeOK
<1>2. /\ seat' = seat /\ loading' = loading /\ shared' = shared /\ partly' = partly /\ partly \subseteq Codes
  BY <1>0 DEF InvalidateCycles, InvalidateCourses, FindCourses, InvalidationFails, Abandon, membership,
              EnrolTypeOK
<1>3. memo' = memo => Forgets(m, {})
  BY <1>0, Alone
<1>4. /\ look \in Redeem /\ look.pc = "look" /\ look.member = m /\ look.code = q.code
  BY <1>1 DEF Redeem
<1>5. [redeem EXCEPT ![r].pc = "look"] = [redeem EXCEPT ![r] = look]
  BY <1>0 DEF EnrolTypeOK, Redeem
<1> HIDE DEF look
<1>6. Vacant.code \notin Codes /\ Vacant.pc # "cycles" /\ RequestOK(Vacant)
  BY Vacates, EnrolFacts
<1>7. ASSUME q.pc = "drop_courses", Onward(r)
      PROVE  \E u \in {Vacant, look} :
               /\ redeem' = [redeem EXCEPT ![r] = u] /\ RequestOK(u)
               /\ u.code \in Codes => u.pc = "look" /\ u.code = q.code /\ u.member = m
               /\ u.pc # "cycles"
  <2>1. CASE q.full \/ q.migrates \/ q.code \in Academic
    BY <1>6, <1>7, <2>1 DEF Onward, Leave
  <2>2. CASE ~(q.full \/ q.migrates \/ q.code \in Academic)
    <3>1. q.code \in Codes
      BY <1>0, <1>7, <2>2 DEF RedeemInv, RequestOK
    <3>2. RequestOK(look)
      BY <1>1, <1>4, <3>1 DEF RequestOK
    <3> QED
      BY <1>4, <1>5, <1>7, <2>2, <3>2 DEF Onward, Step
  <2> QED
    BY <2>1, <2>2
<1>8. ASSUME q.pc = "drop_courses", Onward(r), NEW forgot, Forgets(m, forgot),
             events' \in 0..MaxEvents, torn' = torn, CacheOK(r, Vacant, m, {}, forgot)
      PROVE  EnrolInv'
  <2>1. PICK u \in {Vacant, look} :
               /\ redeem' = [redeem EXCEPT ![r] = u] /\ RequestOK(u)
               /\ u.code \in Codes => u.pc = "look" /\ u.code = q.code /\ u.member = m
               /\ u.pc # "cycles"
    BY <1>7, <1>8
  <2>2. \A x : x \notin Owed(q) /\ x \notin Covers(Vacant)
    BY <1>8, Vacates, CoversFacts
  <2>3. CacheOK(r, u, m, {}, forgot)
    BY <1>8, <2>2 DEF CacheOK
  <2>4. OwnOK(r, u, m, {}, Nothing)
    BY <1>1, <1>8, <2>1, <2>2 DEF OwnOK
  <2>5. GiveOK(r, u, m, {}, Nothing)
    BY <1>1, <1>2, <1>8, <2>1, EnrolFacts DEF GiveOK
  <2> QED
    BY <1>1, <1>2, <1>8, <2>1, <2>3, <2>4, <2>5, PlainStep
<1>9. CASE InvalidateCycles(r)
  <2> DEFINE u == [q EXCEPT !.pc = "courses"]
  <2>1. /\ q.pc = "drop_cycles" /\ Delete(m, q.cycles) /\ redeem' = [redeem EXCEPT ![r].pc = "courses"]
        /\ UNCHANGED <<events, torn, outdated>>
    BY <1>9 DEF InvalidateCycles, Step
  <2>2. /\ u \in Redeem /\ u.pc = "courses" /\ u.member = m /\ u.code = q.code /\ u.courses = q.courses
    BY <1>1 DEF Redeem
  <2>3. redeem' = [redeem EXCEPT ![r] = u]
    BY <1>0, <2>1 DEF EnrolTypeOK, Redeem
  <2> HIDE DEF u
  <2>4. q.code \in Codes /\ q.courses \subseteq Courses
    BY <1>0, <2>1 DEF RedeemInv, RequestOK
  <2>5. RequestOK(u)
    BY <1>1, <2>2, <2>4 DEF RequestOK
  <2>6. Forgets(m, q.cycles)
    BY <1>0, <1>1, <2>1, Deletion
  <2>7. \A t \in Members, i \in Items : <<t, i>> \in Covers(q) => t = m /\ i \in q.cycles
    BY <2>1, CoversFacts, PairFacts
  <2>8. Owed(q) = Owed(u)
    BY <2>1, <2>2, CoversFacts
  <2>9. CacheOK(r, u, m, {}, q.cycles)
    BY <1>1, <1>2, <2>1, <2>7 DEF CacheOK
  <2>10. OwnOK(r, u, m, {}, Nothing)
    BY <1>1, <2>1, <2>2, <2>8 DEF OwnOK
  <2>11. GiveOK(r, u, m, {}, Nothing)
    BY <1>2, <2>1, <2>2, EnrolFacts DEF GiveOK
  <2> QED
    BY <1>1, <1>2, <2>1, <2>3, <2>5, <2>6, <2>9, <2>10, <2>11, PlainStep
<1>10. CASE InvalidateCourses(r)
  <2>1. /\ q.pc = "drop_courses" /\ Delete(m, q.courses) /\ Onward(r)
        /\ UNCHANGED <<events, torn, outdated>>
    BY <1>10 DEF InvalidateCourses
  <2>2. Forgets(m, q.courses)
    BY <1>0, <1>1, <2>1, Deletion
  <2>3. \A t \in Members, i \in Items : <<t, i>> \in Covers(q) => t = m /\ i \in q.courses
    BY <2>1, CoversFacts, PairFacts
  <2>4. CacheOK(r, Vacant, m, {}, q.courses)
    BY <1>1, <1>2, <2>1, <2>3 DEF CacheOK
  <2> QED
    BY <1>1, <1>8, <2>1, <2>2, <2>4
<1>11. CASE FindCourses(r)
  <2> DEFINE wanted == Missing(m, SoldCourses(q.code))
             u == [q EXCEPT !.pc = "courses", !.courses = wanted, !.full = TRUE]
  <2>1. q.pc = "look" /\ UNCHANGED <<memo, events, torn, outdated>>
    BY <1>11 DEF FindCourses, membership
  <2>2. (\A x : x \notin Covers(q) /\ x \notin Owed(q)) /\ q.code \in Codes
    BY <1>0, <2>1, CoversFacts DEF RedeemInv, RequestOK
  <2>3. CASE \E z \in wanted : Used(q.code, z)
    <3>1. redeem' = [redeem EXCEPT ![r] = Vacant]
      BY <1>11, <2>3 DEF FindCourses, Leave
    <3>2. CacheOK(r, Vacant, m, {}, {})
      BY <1>1, <1>2, <2>1, <2>2 DEF CacheOK
    <3>3. OwnOK(r, Vacant, m, {}, Nothing)
      BY <1>1, <1>6, <2>1, <2>2 DEF OwnOK
    <3>4. GiveOK(r, Vacant, m, {}, Nothing)
      BY <1>2, <1>6, EnrolFacts DEF GiveOK
    <3> QED
      BY <1>1, <1>2, <1>3, <1>6, <2>1, <3>1, <3>2, <3>3, <3>4, PlainStep
  <2>4. CASE ~\E z \in wanted : Used(q.code, z)
    <3>1. redeem' = [redeem EXCEPT ![r] = u]
      BY <1>11, <2>4 DEF FindCourses
    <3>2. wanted \subseteq Courses /\ wanted \in SUBSET Items
      BY <2>2, EnrolFacts DEF Missing
    <3>3. /\ u \in Redeem /\ u.pc = "courses" /\ u.member = m /\ u.code = q.code /\ u.courses = wanted
      BY <1>1, <3>2 DEF Redeem
    <3>4. RequestOK(u)
      BY <1>1, <2>2, <3>2, <3>3 DEF RequestOK
    <3>5. \A z \in u.courses : ~Used(u.code, z)
      BY <2>4, <3>3
    <3> HIDE DEF u, wanted
    <3>6. CacheOK(r, u, m, {}, {})
      BY <1>1, <1>2, <2>1, <2>2 DEF CacheOK
    <3>7. OwnOK(r, u, m, {}, Nothing)
      BY <1>1, <2>1, <2>2, <3>3 DEF OwnOK
    <3>8. GiveOK(r, u, m, {}, Nothing)
      BY <1>1, <1>2, <2>1, <3>3, <3>5, EnrolFacts DEF GiveOK
    <3> QED
      BY <1>1, <1>2, <1>3, <2>1, <3>1, <3>4, <3>6, <3>7, <3>8, PlainStep
  <2> QED
    BY <2>3, <2>4
<1>12. ASSUME InvalidationFails(r) \/ Abandon(r)
       PROVE  memo' = memo /\ events' \in 0..MaxEvents /\ CacheOK(r, Vacant, m, {}, {})
  <2>1. memo' = memo /\ events < MaxEvents /\ events' = events + 1
        /\ outdated' = outdated \cup Undropped(q)
    BY <1>12 DEF InvalidationFails, Abandon, Event, membership
  <2>2. Covers(q) \subseteq Members \X Items
    <3>1. q.cycles \in SUBSET Items /\ q.courses \in SUBSET Items
      BY <1>1, EnrolFacts DEF Redeem
    <3>2. Pairs(m, q.cycles) \subseteq Members \X Items /\ Pairs(m, q.courses) \subseteq Members \X Items
      BY <1>1, <3>1, PairFacts
    <3> QED
      BY <3>2, CoversFacts
  <2>3. Undropped(q) \subseteq Covers(q)
    BY CoversFacts
  <2>4. \A t, i : <<t, i>> \in Covers(q) => <<t, i>> \in Undropped(q) \/ memo[t][i] = {}
    BY CoversFacts
  <2>5. events' \in 0..MaxEvents
    BY <1>1, <2>1
  <2> QED
    BY <1>1, <1>2, <2>1, <2>2, <2>3, <2>4, <2>5 DEF CacheOK
<1>13. CASE InvalidationFails(r)
  <2>1. q.pc = "drop_courses" /\ Onward(r) /\ torn' = torn
    BY <1>13 DEF InvalidationFails
  <2> QED
    BY <1>1, <1>3, <1>8, <1>12, <1>13, <2>1
<1>14. CASE Abandon(r)
  <2>1. redeem' = [redeem EXCEPT ![r] = Vacant] /\ torn' = torn \cup Owed(q)
    BY <1>14 DEF Abandon, Leave
  <2>2. torn \subseteq torn' /\ torn' \subseteq Members \X Courses
    <3>1. Owed(q) \subseteq Members \X Courses
      <4>1. CASE q.pc \in {"drop_cycles", "courses"}
        <5>1. q.courses \in SUBSET Courses
          BY <1>0, <4>1 DEF RedeemInv, RequestOK
        <5> QED
          BY <1>1, <4>1, <5>1, PairFacts, CoversFacts
      <4>2. CASE q.pc \notin {"drop_cycles", "courses"}
        BY <4>2, CoversFacts
      <4> QED
        BY <4>1, <4>2
    <3> QED
      BY <1>1, <2>1, <3>1
  <2>3. OwnOK(r, Vacant, m, {}, Nothing)
    BY <1>6, <2>1, <2>2 DEF OwnOK
  <2>4. GiveOK(r, Vacant, m, {}, Nothing)
    BY <1>2, <1>6, EnrolFacts DEF GiveOK
  <2> QED
    BY <1>1, <1>2, <1>3, <1>6, <1>12, <1>14, <2>1, <2>3, <2>4, PlainStep
<1> QED
  BY <1>9, <1>10, <1>11, <1>13, <1>14

\* Access given and taken by hand.
LEMMA ByHandStep ==
  ASSUME EnrolInv, NEW s \in Members, ByHand(s)
  PROVE  EnrolInv'
<1>0. EnrolTypeOK /\ RedeemInv
  BY DEF EnrolInv
<1>1. /\ outdated \subseteq Members \X Items /\ torn \subseteq Members \X Courses
      /\ events \in 0..MaxEvents /\ MaxEvents \in Nat /\ partly \subseteq Codes
      /\ seat \in [Members -> [Items -> Codes \cup {Manual, Nothing}]]
  BY <1>0, EnrolmentAssumption DEF EnrolTypeOK
<1>2. \A x : x \notin Covers(Vacant) /\ x \notin Owed(Vacant)
  BY CoversFacts, Vacates
<1>3. ASSUME NEW items \in SUBSET Items
      PROVE  LET u == [Vacant EXCEPT !.pc = "drop_courses", !.member = s, !.courses = items, !.full = TRUE]
             IN  RequestOK(u) /\ u.pc = "drop_courses" /\ u.code = Nothing /\ Covers(u) = Pairs(s, items)
  <2> DEFINE u == [Vacant EXCEPT !.pc = "drop_courses", !.member = s, !.courses = items, !.full = TRUE]
  <2>1. u \in Redeem /\ u.pc = "drop_courses" /\ u.code = Nothing /\ u.member = s /\ u.courses = items
        /\ u.full = TRUE
    BY DEF Vacant, Redeem
  <2> HIDE DEF u
  <2>2. RequestOK(u)
    BY <2>1 DEF RequestOK
  <2>3. Covers(u) = Pairs(s, items)
    BY <2>1, CoversFacts
  <2> QED
    BY <2>1, <2>2, <2>3 DEF u
<1>4. ASSUME NEW r \in Slots, NEW items \in SUBSET Items, ManuallyAccess(r, s, items)
      PROVE  EnrolInv'
  <2> DEFINE new == Missing(s, items)
             u == [Vacant EXCEPT !.pc = "drop_courses", !.member = s, !.courses = items, !.full = TRUE]
  <2>1. /\ redeem[r] = Vacant /\ Create(s, new, Manual) /\ redeem' = [redeem EXCEPT ![r] = u]
        /\ events < MaxEvents /\ events' = events + 1 /\ torn' = torn \ Pairs(s, items)
        /\ outdated' = outdated \cup Loading(s, new)
        /\ memo' = memo /\ loading' = loading /\ UNCHANGED <<shared, partly>>
    BY <1>4 DEF ManuallyAccess, Event, membership
  <2>2. RequestOK(u) /\ u.pc = "drop_courses" /\ u.code = Nothing /\ Covers(u) = Pairs(s, items)
    BY <1>3
  <2> HIDE DEF u
  <2>3. new \in SUBSET Items /\ new \subseteq items /\ \A i \in new : seat[s][i] = Nothing
    BY DEF Missing, Holds
  <2>4. Manual \in Codes \cup {Manual, Nothing} /\ Manual \notin Codes /\ Manual # Nothing
        /\ Nothing \notin Codes
    BY EnrolFacts
  <2>5. RowsGet(s, new, Manual) /\ Forgets(s, {})
    BY <1>0, <2>1, <2>4, Creation, Alone
  <2>6. /\ events' \in 0..MaxEvents /\ torn' \subseteq Members \X Courses
        /\ outdated \subseteq outdated' /\ outdated' \subseteq Members \X Items
    BY <1>1, <2>1, <2>3, PairFacts
  <2>7. /\ \A i \in new : loading[s][i] # {} => <<s, i>> \in outdated'
        /\ \A i \in new : <<s, i>> \in Covers(u)
    BY <2>1, <2>2, <2>3, PairFacts
  <2>8. \A i \in items : seat'[s][i] # Nothing
    BY <2>4, <2>5 DEF RowsGet, Missing, Holds
  <2>9. \A t \in Members, z \in Courses : <<t, z>> \in torn => <<t, z>> \in torn' \/ seat'[t][z] # Nothing
    BY <2>1, <2>8, PairFacts
  <2> HIDE DEF new
  <2>10. CacheOK(r, u, s, new, {})
    BY <1>2, <2>1, <2>6, <2>7 DEF CacheOK
  <2>11. OwnOK(r, u, s, new, Manual)
    BY <1>2, <2>1, <2>2, <2>4, <2>6, <2>9 DEF OwnOK
  <2>12. GiveOK(r, u, s, new, Manual)
    BY <1>1, <2>1, <2>2, <2>3, <2>4 DEF GiveOK
  <2> QED
    BY <2>1, <2>2, <2>3, <2>4, <2>5, <2>6, <2>10, <2>11, <2>12, RequestStep
<1>5. ASSUME NEW r \in Slots, NEW i \in Items, RemoveStudentAccess(r, s, i)
      PROVE  EnrolInv'
  <2>1. /\ redeem[r] = Vacant /\ Create(s, {i}, Nothing) /\ events < MaxEvents /\ events' = events + 1
        /\ partly' = partly \cup ({seat[s][i]} \cap Codes)
        /\ memo' = memo /\ loading' = loading /\ shared' = shared
    BY <1>5 DEF RemoveStudentAccess, Event, membership
  <2>2. RowsGet(s, {i}, Nothing) /\ Forgets(s, {})
    BY <1>0, <2>1, Creation, Alone
  <2>3. /\ events' \in 0..MaxEvents /\ partly \subseteq partly' /\ partly' \subseteq Codes
        /\ seat[s][i] \in Codes => seat[s][i] \in partly'
    BY <1>1, <2>1
  <2>4. {i} \in SUBSET Items /\ Nothing \in Codes \cup {Manual, Nothing} /\ Nothing \notin Codes
    BY EnrolFacts
  <2>5. CASE i \in Courses
    <3> DEFINE u == [Vacant EXCEPT !.pc = "drop_courses", !.member = s, !.courses = {i}, !.full = TRUE]
    <3>1. /\ redeem' = [redeem EXCEPT ![r] = u] /\ torn' = torn \cup {<<s, i>>}
          /\ outdated' = outdated \cup Loading(s, {i})
      BY <1>5, <2>5 DEF RemoveStudentAccess
    <3>2. RequestOK(u) /\ u.pc = "drop_courses" /\ u.code = Nothing /\ Covers(u) = Pairs(s, {i})
      BY <1>3, <2>4
    <3> HIDE DEF u
    <3>3. /\ torn \subseteq torn' /\ torn' \subseteq Members \X Courses
          /\ outdated \subseteq outdated' /\ outdated' \subseteq Members \X Items
      BY <1>1, <2>4, <2>5, <3>1, PairFacts
    <3>4. /\ loading[s][i] # {} => <<s, i>> \in outdated'
          /\ <<s, i>> \in Covers(u) /\ <<s, i>> \in torn'
      BY <3>1, <3>2, PairFacts
    <3>5. CacheOK(r, u, s, {i}, {})
      BY <1>2, <2>1, <3>3, <3>4 DEF CacheOK
    <3>6. OwnOK(r, u, s, {i}, Nothing)
      BY <1>2, <2>1, <2>4, <3>2, <3>3, <3>4 DEF OwnOK
    <3>7. GiveOK(r, u, s, {i}, Nothing)
      BY <2>1, <2>3, <2>4, <3>2 DEF GiveOK
    <3> QED
      BY <2>2, <2>3, <2>4, <3>1, <3>2, <3>5, <3>6, <3>7, RequestStep
  <2>6. CASE i \notin Courses
    <3>1. /\ redeem' = redeem /\ torn' = torn /\ outdated' = outdated \cup Cached(s, {i})
      BY <1>5, <2>6 DEF RemoveStudentAccess
    <3>2. redeem' = [redeem EXCEPT ![r] = Vacant]
      BY <1>0, <2>1, <3>1 DEF EnrolTypeOK
    <3>3. outdated \subseteq outdated' /\ outdated' \subseteq Members \X Items
      BY <1>1, <2>4, <3>1, PairFacts
    <3>4. /\ loading[s][i] # {} => <<s, i>> \in outdated'
          /\ memo[s][i] = {} \/ <<s, i>> \in outdated'
      BY <3>1, PairFacts
    <3>5. RequestOK(Vacant) /\ Vacant.pc # "cycles" /\ Vacant.code \notin Codes
      BY Vacates, EnrolFacts
    <3>6. CacheOK(r, Vacant, s, {i}, {})
      BY <1>2, <2>1, <3>3, <3>4 DEF CacheOK
    <3>7. OwnOK(r, Vacant, s, {i}, Nothing)
      BY <1>1, <1>2, <2>1, <2>4, <2>6, <3>1, <3>5 DEF OwnOK
    <3>8. GiveOK(r, Vacant, s, {i}, Nothing)
      BY <2>1, <2>3, <2>4, <3>5 DEF GiveOK
    <3> QED
      BY <2>2, <2>3, <2>4, <3>2, <3>5, <3>6, <3>7, <3>8, RequestStep
  <2> QED
    BY <2>5, <2>6
<1> QED
  BY <1>4, <1>5 DEF ByHand

\* A membership is looked up, cached, or expires.
LEMMA CheckingStep ==
  ASSUME EnrolInv, NEW s \in Members, NEW i \in Items,
         LoadAccess(s, i) \/ CacheAccess(s, i) \/ AccessExpires(s, i)
  PROVE  EnrolInv'
<1>0. EnrolTypeOK /\ RedeemInv /\ CoverInv /\ LoadInv /\ CodeInv /\ HasCourse /\ OwedInv
  BY DEF EnrolInv
<1>1. UNCHANGED <<seat, redeem, events, shared, partly, torn>>
  BY DEF LoadAccess, CacheAccess, AccessExpires
<1>2. RedeemInv' /\ CodeInv' /\ HasCourse' /\ OwedInv'
  BY <1>0, <1>1 DEF RedeemInv, CodeInv, OneInv, UnusedInv, OnceInv, WholeInv, GivenOnce, HasCourse,
                    OwedInv, WillHave, Used, Gave, Holds
<1>3. /\ memo \in [Members -> [Items -> {{}, {TRUE}, {FALSE}}]]
      /\ loading \in [Members -> [Items -> {{}, {TRUE}, {FALSE}}]] /\ outdated \subseteq Members \X Items
  BY <1>0 DEF EnrolTypeOK
<1>4. \A m, j : Holds(m, j)' = Holds(m, j)
  BY <1>1 DEF Holds
<1>5. ASSUME memo' \in [Members -> [Items -> {{}, {TRUE}, {FALSE}}]],
             loading' \in [Members -> [Items -> {{}, {TRUE}, {FALSE}}]],
             outdated' \subseteq Members \X Items,
             \A m \in Members, j \in Items :
               /\ \/ memo'[m][j] \subseteq {Holds(m, j)} \/ <<m, j>> \in outdated'
                  \/ memo'[m][j] = memo[m][j] /\ (<<m, j>> \in outdated => <<m, j>> \in outdated')
               /\ loading'[m][j] \subseteq {Holds(m, j)} \/ <<m, j>> \in outdated'
      PROVE  EnrolInv'
  <2>1. EnrolTypeOK'
    BY <1>0, <1>1, <1>5 DEF EnrolTypeOK
  <2>2. LoadInv'
    BY <1>4, <1>5 DEF LoadInv
  <2>3. CoverInv'
    <3> SUFFICES ASSUME NEW m \in Members, NEW j \in Items
                 PROVE  \/ memo'[m][j] \subseteq {Holds(m, j)'} \/ <<m, j>> \in outdated'
                        \/ \E r \in Slots : <<m, j>> \in Covers(redeem'[r])
      BY DEF CoverInv, Covers, Pairs
    <3>1. \/ memo[m][j] \subseteq {Holds(m, j)} \/ <<m, j>> \in outdated
          \/ \E r \in Slots : <<m, j>> \in Covers(redeem[r])
      BY <1>0 DEF CoverInv
    <3>2. \/ memo'[m][j] \subseteq {Holds(m, j)} \/ <<m, j>> \in outdated'
          \/ memo'[m][j] = memo[m][j] /\ (<<m, j>> \in outdated => <<m, j>> \in outdated')
      BY <1>5
    <3> QED
      BY <1>1, <1>4, <3>1, <3>2
  <2> QED
    BY <1>2, <2>1, <2>2, <2>3 DEF EnrolInv
<1>6. CASE LoadAccess(s, i)
  <2>1. /\ memo[s][i] = {} /\ memo' = memo /\ outdated' = outdated \ {<<s, i>>}
        /\ loading' = [loading EXCEPT ![s][i] = {Holds(s, i)}]
    BY <1>6 DEF LoadAccess
  <2>2. {Holds(s, i)} \in {{}, {TRUE}, {FALSE}}
    BY DEF Holds
  <2>3. /\ loading' \in [Members -> [Items -> {{}, {TRUE}, {FALSE}}]]
        /\ \A m \in Members, j \in Items :
             loading'[m][j] = IF m = s /\ j = i THEN {Holds(s, i)} ELSE loading[m][j]
    BY <1>3, <2>1, <2>2
  <2>4. \A m, j : <<m, j>> \in outdated => <<m, j>> \in outdated' \/ (m = s /\ j = i)
    BY <2>1
  <2> QED
    BY <1>0, <1>3, <1>5, <2>1, <2>3, <2>4 DEF LoadInv
<1>7. CASE CacheAccess(s, i)
  <2>1. /\ memo' = [memo EXCEPT ![s][i] = loading[s][i]] /\ loading' = [loading EXCEPT ![s][i] = {}]
        /\ outdated' = outdated
    BY <1>7 DEF CacheAccess
  <2>2. /\ memo' \in [Members -> [Items -> {{}, {TRUE}, {FALSE}}]]
        /\ loading' \in [Members -> [Items -> {{}, {TRUE}, {FALSE}}]]
        /\ \A m \in Members, j \in Items :
             /\ memo'[m][j] = IF m = s /\ j = i THEN loading[s][i] ELSE memo[m][j]
             /\ loading'[m][j] = IF m = s /\ j = i THEN {} ELSE loading[m][j]
    BY <1>3, <2>1
  <2> QED
    BY <1>0, <1>3, <1>5, <2>1, <2>2 DEF LoadInv
<1>8. CASE AccessExpires(s, i)
  <2>1. memo' = [memo EXCEPT ![s][i] = {}] /\ loading' = loading /\ outdated' = outdated
    BY <1>8 DEF AccessExpires
  <2>2. /\ memo' \in [Members -> [Items -> {{}, {TRUE}, {FALSE}}]]
        /\ \A m \in Members, j \in Items : memo'[m][j] = IF m = s /\ j = i THEN {} ELSE memo[m][j]
    BY <1>3, <2>1
  <2> QED
    BY <1>0, <1>3, <1>5, <2>1, <2>2 DEF LoadInv
<1> QED
  BY <1>6, <1>7, <1>8

LEMMA EnrolStep ==
  ASSUME EnrolInv, [EnrolNext]_enrolVars
  PROVE  EnrolInv'
<1>1. ASSUME NEW r \in Slots, NEW s \in Members, NEW k \in Codes,
             RedeemCourse(r, s, k) \/ MigrateFromOldApp(r, s, k)
      PROVE  EnrolInv'
  <2>1. PICK cycles \in SUBSET CyclesOf(k), migrates \in BOOLEAN :
          /\ \A c \in cycles : ~Used(k, c)
          /\ Begin(r, s, k, cycles, migrates)
    <3>1. CASE RedeemCourse(r, s, k)
      <4>1. Missing(s, CyclesOf(k)) \in SUBSET CyclesOf(k)
        BY DEF Missing
      <4> QED
        BY <3>1, <4>1 DEF RedeemCourse
    <3>2. CASE MigrateFromOldApp(r, s, k)
      <4> DEFINE wanted == {c \in Missing(s, CyclesOf(k)) : ~Used(k, c)}
      <4>1. wanted \in SUBSET CyclesOf(k) /\ \A c \in wanted : ~Used(k, c)
        BY DEF Missing
      <4>2. Begin(r, s, k, wanted, TRUE)
        BY <3>2 DEF MigrateFromOldApp
      <4> QED
        BY <4>1, <4>2
    <3> QED
      BY <1>1, <3>1, <3>2
  <2>2. redeem[r] = Vacant /\ UNCHANGED <<seat, membership, events, torn, outdated>>
    BY <1>1 DEF RedeemCourse, MigrateFromOldApp
  <2> QED
    BY <2>1, <2>2, BeginStep
<1>2. CASE UNCHANGED enrolVars
  <2>1. UNCHANGED <<seat, memo, loading, redeem, events, shared, partly, torn, outdated>>
    BY <1>2 DEF enrolVars, membership
  <2>2. EnrolTypeOK' /\ RedeemInv'
    BY <2>1 DEF EnrolInv, EnrolTypeOK, RedeemInv
  <2>3. CoverInv' /\ LoadInv'
    BY <2>1 DEF EnrolInv, CoverInv, LoadInv, Holds, Covers, Pairs
  <2>4. CodeInv' /\ HasCourse' /\ OwedInv'
    BY <2>1 DEF EnrolInv, CodeInv, OneInv, UnusedInv, OnceInv, WholeInv, GivenOnce, HasCourse, OwedInv,
                WillHave, Holds, Used, Gave
  <2> QED
    BY <2>2, <2>3, <2>4 DEF EnrolInv
<1> QED
  BY <1>1, <1>2, AssignCyclesStep, AssignCoursesStep, InvalidateStep, ByHandStep, CheckingStep
     DEF EnrolNext, Redeeming, Checking

\* The invariant holds of every reachable state.
LEMMA Enrolled == EnrolSpec => []EnrolInv
<1>1. EnrolInit => EnrolInv
  <2> SUFFICES ASSUME EnrolInit PROVE EnrolInv
    OBVIOUS
  <2>1. /\ seat = [s \in Members |-> [i \in Items |-> Nothing]]
        /\ memo = [s \in Members |-> [i \in Items |-> {}]] /\ loading = memo
        /\ redeem = [r \in Slots |-> Vacant] /\ events = 0
        /\ shared = {} /\ partly = {} /\ torn = {} /\ outdated = {}
    BY DEF EnrolInit
  <2>2. /\ \A s \in Members, i \in Items : seat[s][i] = Nothing /\ memo[s][i] = {} /\ loading[s][i] = {}
        /\ \A r \in Slots : redeem[r] = Vacant
    BY <2>1
  <2>3. RequestOK(Vacant) /\ Vacant.pc = "idle" /\ Vacant.code \notin Codes /\ Vacant \in Redeem
    BY Vacates, EnrolFacts DEF RequestOK
  <2>4. EnrolTypeOK
    BY <2>1, <2>3, EnrolmentAssumption DEF EnrolTypeOK
  <2>5. RedeemInv /\ CoverInv /\ LoadInv
    BY <2>2, <2>3 DEF RedeemInv, CoverInv, LoadInv
  <2>6. OneInv /\ UnusedInv /\ OnceInv /\ WholeInv
    BY <2>2, <2>3, EnrolFacts DEF OneInv, UnusedInv, OnceInv, WholeInv
  <2>7. GivenOnce /\ HasCourse /\ OwedInv
    BY <2>2, <2>3, EnrolFacts DEF GivenOnce, HasCourse, OwedInv
  <2> QED
    BY <2>4, <2>5, <2>6, <2>7 DEF EnrolInv, CodeInv
<1>2. EnrolInv /\ [EnrolNext]_enrolVars => EnrolInv'
  BY EnrolStep
<1> QED
  BY <1>1, <1>2, PTL DEF EnrolSpec

\* Every variable of the enrolment keeps its type.
THEOREM EnrolTyped == EnrolSpec => []EnrolTypeOK
<1>1. EnrolInv => EnrolTypeOK
  BY DEF EnrolInv
<1> QED
  BY <1>1, Enrolled, PTL

\* However redemptions, migrations and changes by hand interleave and fail: an item
\* is given once per code, but for codes redeemed twice at a time or in part, and who
\* redeemed a cycle has its course, but for the courses known to be torn away.
THEOREM CodesKeptAlways == EnrolSpec => []CodesKept
<1>1. EnrolInv => CodesKept
  <2> SUFFICES ASSUME EnrolInv PROVE CodesKept
    OBVIOUS
  <2>1. GivenOnce /\ HasCourse
    BY DEF EnrolInv, CodeInv
  <2> QED
    BY <2>1 DEF CodesKept, GivenOnce, HasCourse
<1> QED
  BY <1>1, Enrolled, PTL

\* A cached membership is the one of the rows, but for those being deleted and those
\* that are known to be outdated.
THEOREM MembershipCurrent == EnrolSpec => []AccessCurrent
<1>1. EnrolInv => AccessCurrent
  <2> SUFFICES ASSUME EnrolInv, NEW s \in Members, NEW i \in Items
               PROVE  \/ memo[s][i] \subseteq {Holds(s, i)}
                      \/ <<s, i>> \in outdated \cup UNION {Undropped(redeem[r]) : r \in Slots}
    BY DEF AccessCurrent
  <2>1. \/ memo[s][i] \subseteq {Holds(s, i)} \/ <<s, i>> \in outdated
        \/ \E r \in Slots : <<s, i>> \in Covers(redeem[r])
    BY DEF EnrolInv, CoverInv
  <2>2. \A q : <<s, i>> \in Covers(q) => <<s, i>> \in Undropped(q) \/ memo[s][i] = {}
    BY CoversFacts
  <2> QED
    BY <2>1, <2>2
<1> QED
  BY <1>1, Enrolled, PTL

-----------------------------------------------------------------------------
(* Questions                                                                 *)

Statuses == {"none", "pending", "duplicate", "unsolved", "solved"}
Asks(e) == e.pc \in {"limit", "write"}

\* What a call carries at its step; a question is being asked by one call, which
\* writes its row.
CallInv ==
  \A c \in Calls :
    /\ call[c].pc # "idle" => call[c].quora \in Quoras
    /\ Asks(call[c]) =>
         /\ call[c].who \in Students /\ Status(call[c].quora) = "none"
         /\ \A d \in Calls : call[d].quora = call[c].quora => d = c
    /\ call[c].pc \in {"answer", "mark"} =>
         call[c].who \in Authors /\ Status(call[c].quora) # "none"

\* Nothing is done for a question without a row.
BlankInv ==
  \A q \in Quoras : Status(q) = "none" => job[q].stage = "none" /\ paid[q] = 0

\* A question that is not exempt has paid when it is solved, at most, and one call at
\* a time is about to solve it, while it is not.
PayInv ==
  \A q \in Quoras \ (contested \cup reopened) :
    /\ paid[q] <= IF Status(q) = "solved" THEN 1 ELSE 0
    /\ \A c \in Calls : call[c].pc = "mark" /\ call[c].quora = q =>
         /\ Status(q) # "solved"
         /\ \A d \in Calls : call[d].pc = "mark" /\ call[d].quora = q => d = c

JobInv ==
  \A q \in Quoras : Status(q) = "pending" => job[q].stage \in {"ocr", "embed"} \/ q \in dead

\* The questions that were asked out of turn.
Outrun == {q \in together \cup early : Status(q) # "none"}

\* What limits allow today, the allowance of a day not opened yet included.
Allowed == granted + (IF opened < today THEN limit.last ELSE 0)

\* What is asked and what is left is allowed, or asked out of turn; also when a call
\* writes what it has read, which is what is left unless it is known to be together
\* with another.
BoundInv ==
  LET n == Cardinality(Outrun) IN
  /\ asked <= granted + n /\ asked + limit.daily <= granted + n
  /\ \A c \in Calls :
       /\ call[c].pc = "write" /\ call[c].sameDay = TRUE /\ call[c].quora \notin together =>
            limit.daily > 0
       /\ call[c].pc = "write" /\ call[c].sameDay = FALSE =>
            /\ call[c].last = limit.last
            /\ asked <= Allowed + n /\ asked + call[c].last + call[c].daily - 1 <= Allowed + n
            /\ call[c].quora \notin together => limit.daily = call[c].daily /\ opened < today

LimitInv ==
  /\ opened <= limit.day /\ limit.day <= today
  /\ IsFiniteSet(together) /\ IsFiniteSet(early)
  /\ overruled = FALSE => BoundInv

Exempt == forced \cup twin \cup reopened

\* Who has a question that waits has no other, and asks no other.
OpenInv ==
  /\ \A c, d \in Calls :
       Asks(call[c]) /\ Asks(call[d]) /\ call[c].who = call[d].who /\ c # d
         => call[c].quora \in twin
  /\ \A c \in Calls : Asks(call[c]) /\ call[c].quora \notin Exempt =>
       Open(call[c].who) \subseteq Exempt
  /\ \A s \in Students : \A q, p \in Open(s) \ Exempt : q = p

OnTheWay(q, a) == {c \in Calls : call[c].pc = "answer" /\ call[c].quora = q /\ call[c].who = a}

\* Answers given and on their way.
AnswerInv ==
  \A q \in Quoras, a \in Answerers :
    answers[q][a] + Cardinality(OnTheWay(q, a)) < AnswerLimit + Cardinality(Calls)

QuoraInv ==
  /\ QuoraTypeOK /\ CallInv /\ BlankInv /\ PayInv /\ JobInv /\ LimitInv /\ OpenInv /\ AnswerInv

-----------------------------------------------------------------------------
(* What a step writes                                                        *)

\* Call c goes on as u.
Moves(c, u) ==
  /\ call' \in [Calls -> Call]
  /\ \A d \in Calls : call'[d] = IF d = c THEN u ELSE call[d]

\* No call begins, or goes on to a step where it is waited for.
Ends == \A d \in Calls : call'[d] = call[d] \/ call'[d] = Unused

\* Questions that had rows have rows, and no other has.
SameRows == \A q \in Quoras : quora'[q].status = "none" <=> Status(q) = "none"

\* A call that ends, and one that begins.
LEMMA UnusedFacts ==
  Unused \in Call /\ Unused.pc = "idle" /\ Unused.quora = NoOne /\ ~Asks(Unused)
BY DEF Unused, Call, Asks

LEMMA Moving ==
  ASSUME QuoraTypeOK, NEW c \in Calls, NEW u \in Call, call' = [call EXCEPT ![c] = u]
  PROVE  Moves(c, u)
BY DEF QuoraTypeOK, Moves

LEMMA Returning ==
  ASSUME QuoraTypeOK, NEW c \in Calls, Return(c)
  PROVE  Moves(c, Unused) /\ Ends
<1>1. Moves(c, Unused)
  BY Moving, UnusedFacts DEF Return
<1> QED
  BY <1>1 DEF Moves, Ends

LEMMA Beginning ==
  ASSUME NEW pc \in {"limit", "answer", "mark"}, NEW q \in Quoras,
         NEW who \in Students \cup Authors
  PROVE  LET u == [Unused EXCEPT !.pc = pc, !.quora = q, !.who = who]
         IN  u \in Call /\ u.pc = pc /\ u.quora = q /\ u.who = who
<1>1. q \in Quoras \cup {NoOne} /\ who \in Students \cup Authors \cup {NoOne}
  OBVIOUS
<1>2. pc \in {"idle", "limit", "write", "answer", "mark"}
  OBVIOUS
<1> QED
  BY <1>1, <1>2, UnusedFacts DEF Call

LEMMA Becoming ==
  ASSUME QuoraTypeOK, NEW q \in Quoras, NEW status \in Statuses, Become(q, status)
  PROVE  /\ quora' \in [Quoras -> [student: Students \cup {NoOne}, status: Statuses]]
         /\ \A p \in Quoras : /\ quora'[p].status = IF p = q THEN status ELSE Status(p)
                              /\ quora'[p].student = quora[p].student
<1> DEFINE u == [quora[q] EXCEPT !.status = status]
<1>1. quora \in [Quoras -> [student: Students \cup {NoOne}, status: Statuses]]
  BY DEF QuoraTypeOK, Statuses
<1>2. \A p \in Quoras : quora[p] \in [student: Students \cup {NoOne}, status: Statuses]
  BY <1>1
<1>3. u \in [student: Students \cup {NoOne}, status: Statuses] /\ u.status = status
      /\ u.student = quora[q].student
  BY <1>2
<1>4. quora' = [quora EXCEPT ![q] = u]
  BY <1>1 DEF Become
<1> HIDE DEF u
<1>5. /\ quora' \in [Quoras -> [student: Students \cup {NoOne}, status: Statuses]]
      /\ \A p \in Quoras : quora'[p] = IF p = q THEN u ELSE quora[p]
  BY <1>1, <1>3, <1>4
<1> QED
  BY <1>3, <1>5 DEF Status

LEMMA Jobs ==
  ASSUME QuoraTypeOK, NEW q \in Quoras, NEW j \in [stage: {"none", "ocr", "embed", "written", "answer"},
                                                   tries: 0..Attempts - 1],
         job' = [job EXCEPT ![q] = j]
  PROVE  /\ job' \in [Quoras -> [stage: {"none", "ocr", "embed", "written", "answer"},
                                 tries: 0..Attempts - 1]]
         /\ \A p \in Quoras : job'[p] = IF p = q THEN j ELSE job[p]
BY DEF QuoraTypeOK

LEMMA Queued ==
  ASSUME QuoraTypeOK, NEW q \in Quoras, NEW stage \in {"none", "embed", "answer"}, Queue(q, stage)
  PROVE  /\ job' \in [Quoras -> [stage: {"none", "ocr", "embed", "written", "answer"},
                                 tries: 0..Attempts - 1]]
         /\ \A p \in Quoras : job'[p].stage = IF p = q THEN stage ELSE job[p].stage
<1> DEFINE j == [stage |-> stage, tries |-> 0]
<1>1. j \in [stage: {"none", "ocr", "embed", "written", "answer"}, tries: 0..Attempts - 1]
      /\ j.stage = stage
  BY QuoraAssumption
<1>2. job' = [job EXCEPT ![q] = j]
  BY DEF Queue
<1> HIDE DEF j
<1>3. /\ job' \in [Quoras -> [stage: {"none", "ocr", "embed", "written", "answer"},
                              tries: 0..Attempts - 1]]
      /\ \A p \in Quoras : job'[p] = IF p = q THEN j ELSE job[p]
  BY <1>1, <1>2, Jobs
<1> QED
  BY <1>1, <1>3

-----------------------------------------------------------------------------
(* Steps that leave a part of the invariant alone                            *)

LEMMA CallsKept ==
  ASSUME CallInv, Ends, SameRows
  PROVE  CallInv'
<1> SUFFICES ASSUME NEW c \in Calls
             PROVE  /\ call'[c].pc # "idle" => call'[c].quora \in Quoras
                    /\ call'[c].pc \in {"limit", "write"} =>
                         /\ call'[c].who \in Students /\ quora'[call'[c].quora].status = "none"
                         /\ \A d \in Calls : call'[d].quora = call'[c].quora => d = c
                    /\ call'[c].pc \in {"answer", "mark"} =>
                         call'[c].who \in Authors /\ quora'[call'[c].quora].status # "none"
  BY DEF CallInv, Asks, Status
<1>1. CASE call'[c] = Unused
  BY <1>1, UnusedFacts
<1>2. CASE call'[c] # Unused
  <2>1. call'[c] = call[c]
    BY <1>2 DEF Ends
  <2>2. ASSUME call[c].pc \in {"limit", "write"}, NEW d \in Calls, call'[d].quora = call'[c].quora
        PROVE  d = c
    <3>1. call[c].quora \in Quoras
      BY <2>2 DEF CallInv
    <3>2. call'[d] = call[d]
      BY <2>1, <2>2, <3>1, UnusedFacts, QuoraAssumption DEF Ends
    <3> QED
      BY <2>1, <2>2, <3>2 DEF CallInv, Asks
  <2> QED
    BY <2>1, <2>2 DEF CallInv, Asks, SameRows
<1> QED
  BY <1>1, <1>2

LEMMA PaymentsKept ==
  ASSUME PayInv, paid' = paid, contested \subseteq contested', reopened \subseteq reopened',
         \A d \in Calls : call'[d].pc = "mark" => call'[d] = call[d],
         \A q \in Quoras \ (contested' \cup reopened') :
           quora'[q].status = "solved" <=> Status(q) = "solved"
  PROVE  PayInv'
<1> SUFFICES ASSUME NEW q \in Quoras \ (contested' \cup reopened')
             PROVE  /\ paid'[q] <= IF quora'[q].status = "solved" THEN 1 ELSE 0
                    /\ \A c \in Calls : call'[c].pc = "mark" /\ call'[c].quora = q =>
                         /\ quora'[q].status # "solved"
                         /\ \A d \in Calls : call'[d].pc = "mark" /\ call'[d].quora = q => d = c
  BY DEF PayInv, Status
<1>1. q \in Quoras \ (contested \cup reopened)
  OBVIOUS
<1> QED
  BY <1>1 DEF PayInv

\* The limit, where no question is written or on its way to be.
LEMMA LimitKept ==
  ASSUME LimitInv, CallInv, SameRows,
         UNCHANGED <<limit, today, asked, granted, opened, together, early, overruled>>,
         together \cup early \subseteq Quoras,
         \A d \in Calls : call'[d].pc = "write" => call'[d] = call[d]
  PROVE  LimitInv'
<1>1. Outrun' = Outrun
  BY DEF Outrun, SameRows, Status
<1>2. Allowed' = Allowed
  BY DEF Allowed
<1>3. BoundInv => BoundInv'
  BY <1>1, <1>2 DEF BoundInv
<1> QED
  BY <1>3 DEF LimitInv

\* Who waits, where no question but an exempt one is opened.
LEMMA WaitingKept ==
  ASSUME OpenInv, CallInv, forced \subseteq forced', twin' = twin, reopened \subseteq reopened',
         \A d \in Calls : Asks(call'[d]) => /\ Asks(call[d])
                                             /\ call'[d].who = call[d].who /\ call'[d].quora = call[d].quora,
         \A q \in Quoras : /\ quora'[q].student = quora[q].student
                           /\ quora'[q].status \in {"pending", "unsolved"} =>
                                Status(q) \in {"pending", "unsolved"} \/ q \in forced' \cup reopened'
  PROVE  OpenInv'
<1>1. Exempt \subseteq Exempt'
  BY DEF Exempt
<1>2. \A s, q : q \in Open(s)' => q \in Open(s) \/ q \in Exempt'
  BY DEF Open, Exempt, Status
<1>3. ASSUME NEW c \in Calls, NEW d \in Calls, Asks(call'[c]), Asks(call'[d]),
             call'[c].who = call'[d].who, c # d
      PROVE  call'[c].quora \in twin'
  BY <1>3 DEF OpenInv
<1>4. ASSUME NEW c \in Calls, Asks(call'[c]), call'[c].quora \notin Exempt'
      PROVE  \A q \in Quoras :
               quora'[q].student = call'[c].who /\ quora'[q].status \in {"pending", "unsolved"}
                 => q \in Exempt'
  <2> SUFFICES ASSUME NEW q \in Quoras, quora'[q].student = call'[c].who,
                      quora'[q].status \in {"pending", "unsolved"}, q \notin Exempt'
               PROVE  FALSE
    OBVIOUS
  <2>1. q \notin forced' \cup reopened'
    BY DEF Exempt
  <2>2. Asks(call[c]) /\ call'[c].who = call[c].who /\ call'[c].quora = call[c].quora
    BY <1>4
  <2>3. q \in Open(call[c].who)
    BY <2>1, <2>2 DEF Open, Status
  <2>4. q \notin Exempt /\ call[c].quora \notin Exempt
    BY <1>1, <1>4, <2>2
  <2> QED
    BY <2>2, <2>3, <2>4 DEF OpenInv
<1>5. ASSUME NEW s \in Students, NEW q \in Open(s)' \ Exempt', NEW p \in Open(s)' \ Exempt'
      PROVE  q = p
  BY <1>1, <1>2, <1>5 DEF OpenInv
<1> QED
  BY <1>3, <1>4, <1>5 DEF OpenInv, Asks, Open, Status

LEMMA AnswersKept ==
  ASSUME IsFiniteSet(Calls), QuoraTypeOK, AnswerInv,
         \A q \in Quoras, a \in Answerers : answers'[q][a] = answers[q][a],
         \A d \in Calls : call'[d].pc = "answer" => call'[d] = call[d]
  PROVE  AnswerInv'
<1> SUFFICES ASSUME NEW q \in Quoras, NEW a \in Answerers
             PROVE  answers'[q][a] + Cardinality(OnTheWay(q, a)') < AnswerLimit + Cardinality(Calls)
  BY DEF AnswerInv
<1>1. OnTheWay(q, a)' \subseteq OnTheWay(q, a) /\ OnTheWay(q, a) \subseteq Calls
  BY DEF OnTheWay
<1>2. IsFiniteSet(OnTheWay(q, a))
  BY <1>1, FS_Subset
<1>3. Cardinality(OnTheWay(q, a)') <= Cardinality(OnTheWay(q, a))
  BY <1>1, <1>2, FS_Subset
<1>4. Cardinality(OnTheWay(q, a)') \in Nat /\ Cardinality(OnTheWay(q, a)) \in Nat
      /\ Cardinality(Calls) \in Nat
  BY <1>1, <1>2, FS_Subset, FS_CardinalityType
<1>5. answers[q][a] \in Nat /\ AnswerLimit \in Nat
  BY QuoraAssumption DEF QuoraTypeOK, Authors
<1>6. answers[q][a] + Cardinality(OnTheWay(q, a)) < AnswerLimit + Cardinality(Calls)
  BY DEF AnswerInv
<1> QED
  BY <1>3, <1>4, <1>5, <1>6

-----------------------------------------------------------------------------
(* Asking                                                                    *)

LEMMA BesidesFacts ==
  ASSUME IsFiniteSet(Calls), CallInv, NEW c, NEW pc \in {"limit", "write"}
  PROVE  /\ IsFiniteSet(Besides(c, pc)) /\ Besides(c, pc) \subseteq Quoras
         /\ \A q \in Besides(c, pc) : Status(q) = "none"
         /\ \A d \in Calls : d # c /\ call[d].pc = pc => call[d].quora \in Besides(c, pc)
         /\ c \in Calls => call[c].quora \notin Besides(c, pc)
<1> DEFINE f == [d \in Calls |-> call[d].quora]
           all == {call[d].quora : d \in Calls}
<1>1. f \in Surjection(Calls, all)
  BY DEF Surjection
<1>2. IsFiniteSet(all)
  BY <1>1, FS_Surjection
<1>3. Besides(c, pc) \in SUBSET all
  BY DEF Besides
<1>4. IsFiniteSet(Besides(c, pc))
  BY <1>2, <1>3, FS_Subset
<1>5. \A d \in Calls : call[d].pc = pc =>
        /\ call[d].quora \in Quoras /\ Status(call[d].quora) = "none"
        /\ \A e \in Calls : call[e].quora = call[d].quora => e = d
  BY DEF CallInv, Asks
<1>6. /\ \A q \in Besides(c, pc) : \E d \in Calls : d # c /\ call[d].pc = pc /\ q = call[d].quora
      /\ \A d \in Calls : d # c /\ call[d].pc = pc => call[d].quora \in Besides(c, pc)
  BY DEF Besides
<1>7. c \in Calls => call[c].quora \notin Besides(c, pc)
  BY <1>5, <1>6
<1> QED
  BY <1>4, <1>5, <1>6, <1>7

LEMMA PostNewQuoraStep ==
  ASSUME IsFiniteSet(Calls), QuoraInv, NEW c \in Calls, NEW q \in Quoras, NEW s \in Students,
         PostNewQuora(c, q, s)
  PROVE  QuoraInv'
<1> DEFINE u == [Unused EXCEPT !.pc = "limit", !.quora = q, !.who = s]
           same == {call[d].quora : d \in {d \in Calls :
                      call[d].pc \in {"limit", "write"} /\ call[d].who = s}}
<1>0. /\ QuoraTypeOK /\ CallInv /\ BlankInv /\ PayInv /\ JobInv /\ LimitInv /\ OpenInv /\ AnswerInv
  BY DEF QuoraInv
<1>1. /\ call[c] = Unused /\ Status(q) = "none" /\ Open(s) = {} /\ call' = [call EXCEPT ![c] = u]
      /\ \A d \in Calls : call[d].quora # q
      /\ twin' = twin \cup (IF same = {} THEN {} ELSE same \cup {q})
      /\ UNCHANGED <<quora, job, slips, limit, today, asked, granted, opened, together, early,
                     overruled, forced, reopened, dead>>
      /\ UNCHANGED <<answers, solvedBy, paid, contested>>
  BY DEF PostNewQuora, MayAsk, solving
<1>2. u \in Call /\ u.pc = "limit" /\ u.quora = q /\ u.who = s
  BY Beginning
<1> HIDE DEF u
<1>3. Moves(c, u)
  BY <1>0, <1>1, <1>2, Moving
<1>4. \A d \in Calls : call'[d] = IF d = c THEN u ELSE call[d]
  BY <1>3 DEF Moves
<1>5. same \subseteq Quoras /\ \A d \in Calls : Asks(call[d]) /\ call[d].who = s => call[d].quora \in same
  BY <1>0 DEF CallInv, Asks
<1> HIDE DEF same
<1>6. QuoraTypeOK'
  BY <1>0, <1>1, <1>3, <1>5 DEF QuoraTypeOK, Moves
<1>7. CallInv'
  BY <1>0, <1>1, <1>2, <1>4 DEF CallInv, Asks, Status
<1>8. BlankInv' /\ JobInv'
  BY <1>0, <1>1 DEF BlankInv, JobInv, Status
<1>9. PayInv'
  BY <1>0, <1>1, <1>2, <1>4, PaymentsKept DEF Status
<1>10. LimitInv'
  <2>1. SameRows /\ together \cup early \subseteq Quoras
    BY <1>0, <1>1 DEF SameRows, Status, QuoraTypeOK
  <2> QED
    BY <1>0, <1>1, <1>2, <1>4, <2>1, LimitKept
<1>11. OpenInv'
  <2>1. Exempt \subseteq Exempt' /\ twin \subseteq twin' /\ \A t : Open(t)' = Open(t)
    BY <1>1 DEF Exempt, Open, Status
  <2>2. ASSUME NEW a \in Calls, NEW b \in Calls, Asks(call'[a]), Asks(call'[b]),
               call'[a].who = call'[b].who, a # b
        PROVE  call'[a].quora \in twin'
    <3>1. CASE a = c
      <4>1. call[b].quora \in same
        BY <1>2, <1>4, <1>5, <2>2, <3>1
      <4> QED
        BY <1>1, <1>2, <1>4, <3>1, <4>1
    <3>2. CASE b = c
      <4>1. call[a].quora \in same
        BY <1>2, <1>4, <1>5, <2>2, <3>2
      <4> QED
        BY <1>1, <1>4, <2>2, <3>2, <4>1
    <3>3. CASE a # c /\ b # c
      BY <1>0, <1>4, <2>1, <2>2, <3>3 DEF OpenInv
    <3> QED
      BY <3>1, <3>2, <3>3
  <2>3. ASSUME NEW a \in Calls, Asks(call'[a]), call'[a].quora \notin Exempt', NEW p \in Quoras,
               quora'[p].student = call'[a].who, quora'[p].status \in {"pending", "unsolved"}
        PROVE  p \in Exempt'
    <3>1. p \in Open(call'[a].who)
      BY <1>1, <2>3 DEF Open, Status
    <3>2. a # c /\ call'[a] = call[a]
      BY <1>1, <1>2, <1>4, <3>1
    <3> QED
      BY <1>0, <2>1, <2>3, <3>1, <3>2 DEF OpenInv
  <2>4. \A t \in Students : \A a, b \in Open(t)' \ Exempt' : a = b
    BY <1>0, <2>1 DEF OpenInv
  <2> QED
    BY <1>1, <2>1, <2>2, <2>3, <2>4 DEF OpenInv, Open, Status, Asks
<1>12. AnswerInv'
  BY <1>0, <1>1, <1>2, <1>4, AnswersKept
<1> QED
  BY <1>6, <1>7, <1>8, <1>9, <1>10, <1>11, <1>12 DEF QuoraInv

LEMMA ReadLimitStep ==
  ASSUME IsFiniteSet(Calls), QuoraInv, NEW c \in Calls, ReadLimit(c)
  PROVE  QuoraInv'
<1>0. /\ QuoraTypeOK /\ CallInv /\ BlankInv /\ PayInv /\ JobInv /\ LimitInv /\ OpenInv /\ AnswerInv
  BY DEF QuoraInv
<1>1. /\ call[c].pc = "limit"
      /\ UNCHANGED <<quora, job, slips, forced, reopened, dead>>
      /\ UNCHANGED <<limit, today, asked, granted, opened, together, early, overruled, twin>>
      /\ UNCHANGED <<answers, solvedBy, paid, contested>>
  BY DEF ReadLimit, asking, solving
<1>2. PICK u \in Call :
        /\ call' = [call EXCEPT ![c] = u]
        /\ \/ u = Unused
           \/ /\ u.pc = "write" /\ u.quora = call[c].quora /\ u.who = call[c].who
              /\ u.daily = limit.daily /\ u.last = limit.last /\ u.sameDay \in BOOLEAN
              /\ u.sameDay = TRUE => limit.daily > 0
              /\ u.sameDay = FALSE => limit.day # today
  <2> DEFINE sameDay == limit.day = today
             u == [call[c] EXCEPT !.pc = "write", !.daily = limit.daily, !.last = limit.last,
                                  !.sameDay = sameDay]
  <2>1. call \in [Calls -> Call] /\ limit.daily \in Int /\ limit.last \in Nat /\ call[c] \in Call
    BY <1>0 DEF QuoraTypeOK
  <2>2. CASE Refused(sameDay)
    BY <2>2, UnusedFacts DEF ReadLimit, Return
  <2>3. CASE ~Refused(sameDay)
    <3>1. call' = [call EXCEPT ![c] = u]
      BY <2>1, <2>3 DEF ReadLimit
    <3>2. /\ u \in Call /\ u.pc = "write" /\ u.quora = call[c].quora /\ u.who = call[c].who
          /\ u.daily = limit.daily /\ u.last = limit.last /\ u.sameDay = sameDay
      BY <2>1 DEF Call
    <3>3. sameDay = TRUE => limit.daily > 0
      BY <2>1, <2>3 DEF Refused
    <3> HIDE DEF u
    <3> QED
      BY <3>1, <3>2, <3>3
  <2> QED
    BY <2>2, <2>3
<1>3. Moves(c, u)
  BY <1>0, <1>2, Moving
<1>4. \A d \in Calls : call'[d] = IF d = c THEN u ELSE call[d]
  BY <1>3 DEF Moves
<1>5. u.pc \in {"idle", "write"} /\ (u.pc = "idle" => u = Unused) /\ (u = Unused => u.pc = "idle")
  BY <1>2, UnusedFacts
<1>6. QuoraTypeOK'
  BY <1>0, <1>1, <1>3 DEF QuoraTypeOK, Moves
<1>7. CallInv'
  <2>1. CASE u = Unused
    <3>1. Ends /\ SameRows
      BY <1>1, <1>4, <2>1 DEF Ends, SameRows, Status
    <3> QED
      BY <1>0, <3>1, CallsKept
  <2>2. CASE u # Unused
    <3>1. u.pc = "write" /\ u.quora = call[c].quora /\ u.who = call[c].who
      BY <1>2, <2>2
    <3>2. \A d \in Calls : call'[d].quora = call[d].quora /\ call'[d].who = call[d].who
      BY <1>4, <3>1
    <3>3. \A d \in Calls : call'[d].pc = call[d].pc \/ (Asks(call'[d]) /\ Asks(call[d]))
      BY <1>1, <1>4, <3>1 DEF Asks
    <3> QED
      BY <1>0, <1>1, <3>2, <3>3 DEF CallInv, Asks, Status
  <2> QED
    BY <2>1, <2>2
<1>8. BlankInv' /\ JobInv'
  BY <1>0, <1>1 DEF BlankInv, JobInv, Status
<1>9. PayInv'
  BY <1>0, <1>1, <1>4, <1>5, PaymentsKept DEF Status
<1>10. LimitInv'
  <2>1. Outrun' = Outrun /\ Allowed' = Allowed
    BY <1>1 DEF Outrun, Allowed, Status
  <2>2. ASSUME BoundInv
        PROVE  BoundInv'
    <3> DEFINE n == Cardinality(Outrun)
    <3>1. /\ limit.daily \in Int /\ limit.last \in Nat /\ asked \in Nat /\ granted \in Nat /\ n \in Nat
          /\ opened \in Nat /\ today \in Nat /\ limit.day \in Nat
      <4>1. IsFiniteSet(together \cup early) /\ Outrun \in SUBSET (together \cup early)
        BY <1>0, FS_Union DEF LimitInv, Outrun
      <4>2. IsFiniteSet(Outrun)
        BY <4>1, FS_Subset
      <4> QED
        BY <1>0, <4>2, FS_CardinalityType DEF QuoraTypeOK
    <3>2. ASSUME u.pc = "write", u.sameDay = FALSE
          PROVE  /\ u.last = limit.last /\ limit.daily = u.daily /\ opened < today
                 /\ asked <= Allowed + n /\ asked + u.last + u.daily - 1 <= Allowed + n
      <4>1. u.last = limit.last /\ limit.daily = u.daily /\ limit.day # today
        BY <1>2, <3>2, UnusedFacts
      <4>2. opened < today
        BY <1>0, <3>1, <4>1 DEF LimitInv
      <4>3. Allowed = granted + limit.last
        BY <4>2 DEF Allowed
      <4>4. asked <= granted + n /\ asked + limit.daily <= granted + n
        BY <2>2 DEF BoundInv
      <4> HIDE DEF n
      <4> QED
        BY <3>1, <4>1, <4>2, <4>3, <4>4
    <3>3. u.pc = "write" /\ u.sameDay = TRUE => limit.daily > 0
      BY <1>2, UnusedFacts
    <3> QED
      BY <1>1, <1>4, <2>1, <2>2, <3>2, <3>3 DEF BoundInv
  <2> QED
    BY <1>0, <1>1, <2>2 DEF LimitInv
<1>11. OpenInv'
  <2>1. \A d \in Calls : Asks(call'[d]) => /\ Asks(call[d])
                                            /\ call'[d].who = call[d].who /\ call'[d].quora = call[d].quora
    BY <1>1, <1>2, <1>4, UnusedFacts DEF Asks
  <2> QED
    BY <1>0, <1>1, <2>1, WaitingKept DEF Status
<1>12. AnswerInv'
  BY <1>0, <1>1, <1>4, <1>5, AnswersKept
<1> QED
  BY <1>6, <1>7, <1>8, <1>9, <1>10, <1>11, <1>12 DEF QuoraInv

\* The questions asked out of turn, and their number.
LEMMA OutrunFacts ==
  ASSUME QuoraTypeOK, LimitInv
  PROVE  /\ IsFiniteSet(Outrun) /\ Cardinality(Outrun) \in Nat
         /\ limit.daily \in Int /\ limit.last \in Nat /\ limit.day \in Nat /\ today \in Nat
         /\ opened \in Nat /\ asked \in Nat /\ granted \in Nat
         /\ Allowed \in Nat /\ granted <= Allowed
<1>1. IsFiniteSet(together \cup early) /\ Outrun \in SUBSET (together \cup early)
  BY FS_Union DEF LimitInv, Outrun
<1>2. IsFiniteSet(Outrun) /\ Cardinality(Outrun) \in Nat
  BY <1>1, FS_Subset, FS_CardinalityType
<1>3. /\ limit.daily \in Int /\ limit.last \in Nat /\ limit.day \in Nat /\ today \in Nat
      /\ opened \in Nat /\ asked \in Nat /\ granted \in Nat
  BY QuoraAssumption DEF QuoraTypeOK
<1> QED
  BY <1>2, <1>3 DEF Allowed

\* The bound when a call writes its question: what was read is what is left, or the
\* question is counted.
LEMMA CreateBound ==
  ASSUME IsFiniteSet(Calls), QuoraInv, overruled = FALSE, NEW c \in Calls, CreateQuora(c)
  PROVE  BoundInv'
<1> DEFINE q == call[c].quora
           rest == Besides(c, "write")
           n == Cardinality(Outrun)
           counted == q \in together' \cup early'
<1>0. QuoraTypeOK /\ CallInv /\ LimitInv /\ BoundInv
  BY DEF QuoraInv, LimitInv
<1>1. /\ call[c].pc = "write"
      /\ limit' = [limit EXCEPT !.daily = Lowered(c), !.day = today]
      /\ quora' = [quora EXCEPT ![q] = [student |-> call[c].who, status |-> "pending"]]
      /\ asked' = asked + 1
      /\ granted' = IF ~call[c].sameDay /\ opened < today THEN granted + limit.last ELSE granted
      /\ opened' = IF ~call[c].sameDay THEN today ELSE opened
      /\ together' = together \cup (IF rest = {} THEN {} ELSE rest \cup {q})
      /\ early' = early \cup (IF ~call[c].sameDay /\ call[c].last + call[c].daily <= 0 THEN {q} ELSE {})
      /\ Return(c) /\ today' = today
  BY DEF CreateQuora
<1>2. /\ limit \in [daily: Int, last: Nat, day: 0..MaxDay] /\ call[c] \in Call /\ q \in Quoras
      /\ Status(q) = "none" /\ quora \in [Quoras -> [student: Students \cup {NoOne}, status: Statuses]]
      /\ call[c].sameDay \in BOOLEAN /\ call[c].daily \in Int /\ call[c].last \in Nat
      /\ together \cup early \subseteq Quoras
  BY <1>0, <1>1 DEF QuoraTypeOK, CallInv, Asks, Call, Statuses
<1>3. limit'.daily = Lowered(c) /\ limit'.last = limit.last
  BY <1>1, <1>2
<1>4. /\ IsFiniteSet(Outrun) /\ n \in Nat /\ limit.daily \in Int /\ limit.last \in Nat
      /\ limit.day \in Nat /\ today \in Nat /\ opened \in Nat /\ asked \in Nat /\ granted \in Nat
      /\ Allowed \in Nat /\ granted <= Allowed
  BY <1>0, OutrunFacts
<1>5. /\ rest \subseteq Quoras /\ \A p \in rest : Status(p) = "none"
      /\ \A d \in Calls : d # c /\ call[d].pc = "write" => call[d].quora \in rest
      /\ q \notin rest
  BY <1>0, BesidesFacts
<1>6. Cardinality(Outrun') = IF counted THEN n + 1 ELSE n
  <2>1. /\ quora'[q].status = "pending"
        /\ \A p \in Quoras : p # q => quora'[p].status = Status(p)
    BY <1>1, <1>2 DEF Status
  <2> HIDE DEF rest
  <2>2. \A p \in Quoras : p # q /\ Status(p) # "none" =>
          (p \in together' \cup early' <=> p \in together \cup early)
    BY <1>1, <1>5
  <2>3. \A p \in Quoras : p # q => (p \in Outrun' <=> p \in Outrun)
    <3> SUFFICES ASSUME NEW p \in Quoras, p # q
                 PROVE  p \in together' \cup early' /\ quora'[p].status # "none" <=> p \in Outrun
      BY DEF Outrun, Status
    <3> QED
      BY <2>1, <2>2 DEF Outrun
  <2>4. q \in Outrun' <=> counted
    BY <2>1 DEF Outrun, Status
  <2>5. q \notin Outrun /\ Outrun \subseteq Quoras /\ Outrun' \subseteq Quoras
    BY <1>1, <1>2, <1>5 DEF Outrun
  <2> HIDE DEF q
  <2>6. CASE counted
    <3>1. Outrun' = Outrun \cup {q}
      BY <1>2, <2>3, <2>4, <2>5, <2>6
    <3> QED
      BY <1>4, <2>5, <2>6, <3>1, FS_AddElement
  <2>7. CASE ~counted
    <3>1. Outrun' = Outrun
      BY <2>3, <2>4, <2>5, <2>7
    <3> QED
      BY <2>7, <3>1
  <2> QED
    BY <2>6, <2>7
<1> HIDE DEF n
\* When it is not counted, nothing was written since the limit was read.
<1>7. ASSUME ~counted
      PROVE  /\ rest = {}
             /\ call[c].sameDay = TRUE => limit.daily > 0
             /\ call[c].sameDay = FALSE =>
                  call[c].daily = limit.daily /\ opened < today /\ call[c].last + call[c].daily > 0
  <2>1. q \notin together
    BY <1>1, <1>7
  <2>2. /\ call[c].sameDay = TRUE => limit.daily > 0
        /\ call[c].sameDay = FALSE => call[c].daily = limit.daily /\ opened < today
    BY <1>0, <1>1, <2>1 DEF BoundInv
  <2>3. call[c].sameDay = FALSE => ~(call[c].last + call[c].daily <= 0)
    BY <1>1, <1>7
  <2>4. rest = {}
    BY <1>1, <1>7
  <2> QED
    BY <1>2, <2>2, <2>3, <2>4
<1>8. /\ asked <= granted + n /\ asked + limit.daily <= granted + n
      /\ call[c].sameDay = FALSE =>
           /\ call[c].last = limit.last
           /\ asked <= Allowed + n /\ asked + call[c].last + call[c].daily - 1 <= Allowed + n
  BY <1>0, <1>1 DEF BoundInv, n
\* The allowance of the day is granted with the question that opens it.
<1>9. Allowed' = Allowed /\ (call[c].sameDay = FALSE => granted' = Allowed)
      /\ (call[c].sameDay = TRUE => granted' = granted)
  <2>1. CASE call[c].sameDay = TRUE
    BY <1>1, <1>3, <2>1 DEF Allowed
  <2>2. CASE call[c].sameDay = FALSE
    BY <1>1, <1>4, <2>2 DEF Allowed
  <2> QED
    BY <1>2, <2>1, <2>2
<1>10. /\ asked' <= granted' + Cardinality(Outrun')
       /\ asked' + limit'.daily <= granted' + Cardinality(Outrun')
  <2> DEFINE m == Cardinality(Outrun')
  <2> SUFFICES asked' <= granted' + m /\ asked' + limit'.daily <= granted' + m
    OBVIOUS
  <2>1. asked' = asked + 1 /\ (counted => m = n + 1) /\ (~counted => m = n)
    BY <1>1, <1>6
  <2>2. call[c].daily \in Int /\ call[c].last \in Nat
    BY <1>2
  <2> HIDE DEF m, counted
  <2>3. CASE call[c].sameDay = TRUE
    <3>1. limit'.daily = limit.daily - 1 /\ granted' = granted
      BY <1>3, <1>9, <2>3 DEF Lowered
    <3>2. CASE counted
      BY <1>4, <1>8, <2>1, <3>1, <3>2
    <3>3. CASE ~counted
      <4>1. limit.daily > 0
        BY <1>7, <2>3, <3>3
      <4> QED
        BY <1>4, <1>8, <2>1, <3>1, <3>3, <4>1
    <3> QED
      BY <3>2, <3>3
  <2>4. CASE call[c].sameDay = FALSE
    <3> DEFINE left == call[c].last + call[c].daily
    <3>1. limit'.daily = left - 1 /\ granted' = Allowed /\ left \in Int
      BY <1>3, <1>9, <2>2, <2>4 DEF Lowered
    <3>2. asked <= Allowed + n /\ asked + left - 1 <= Allowed + n
      BY <1>4, <1>8, <2>2, <2>4
    <3>3. CASE counted
      <4> HIDE DEF left
      <4> QED
        BY <1>4, <2>1, <3>1, <3>2, <3>3
    <3>4. CASE ~counted
      <4>1. left > 0 /\ left = limit.last + limit.daily /\ Allowed = granted + limit.last
        BY <1>7, <1>8, <2>4, <3>4 DEF Allowed
      <4> HIDE DEF left
      <4> QED
        BY <1>4, <1>8, <2>1, <3>1, <3>4, <4>1
    <3> QED
      BY <3>3, <3>4
  <2> QED
    BY <1>2, <2>3, <2>4
\* Who else has read the limit is together with it.
<1>11. ASSUME NEW d \in Calls, call'[d].pc = "write"
       PROVE  call'[d] = call[d] /\ call[d].quora \in together' /\ counted
  <2>1. d # c /\ call'[d] = call[d]
    BY <1>0, <1>1, <1>11, UnusedFacts DEF Return, QuoraTypeOK
  <2>2. call[d].quora \in rest
    BY <1>5, <1>11, <2>1
  <2> QED
    BY <1>1, <2>1, <2>2
<1>12. ASSUME NEW d \in Calls, call'[d].pc = "write", call'[d].sameDay = FALSE
       PROVE  /\ call'[d].last = limit'.last
              /\ asked' <= Allowed' + Cardinality(Outrun')
              /\ asked' + call'[d].last + call'[d].daily - 1 <= Allowed' + Cardinality(Outrun')
  <2>1. call'[d] = call[d] /\ Cardinality(Outrun') = n + 1
    BY <1>6, <1>11, <1>12
  <2>2. /\ call[d].last = limit.last
        /\ asked <= Allowed + n /\ asked + call[d].last + call[d].daily - 1 <= Allowed + n
    BY <1>0, <1>12, <2>1 DEF BoundInv, n
  <2>3. call[d].last \in Nat /\ call[d].daily \in Int
    BY <1>0 DEF QuoraTypeOK, Call
  <2> QED
    BY <1>1, <1>3, <1>4, <1>9, <2>1, <2>2, <2>3
<1> QED
  BY <1>10, <1>11, <1>12 DEF BoundInv

LEMMA CreateQuoraStep ==
  ASSUME IsFiniteSet(Calls), QuoraInv, NEW c \in Calls, CreateQuora(c)
  PROVE  QuoraInv'
<1> DEFINE q == call[c].quora
           s == call[c].who
           rest == Besides(c, "write")
           row == [student |-> s, status |-> "pending"]
           queued == [job[q] EXCEPT !.stage = "ocr"]
<1>0. /\ QuoraTypeOK /\ CallInv /\ BlankInv /\ PayInv /\ JobInv /\ LimitInv /\ OpenInv /\ AnswerInv
  BY DEF QuoraInv
<1>1. /\ call[c].pc = "write"
      /\ limit' = [limit EXCEPT !.daily = Lowered(c), !.day = today]
      /\ quora' = [quora EXCEPT ![q] = row] /\ job' = [job EXCEPT ![q].stage = "ocr"]
      /\ asked' = asked + 1
      /\ granted' = IF ~call[c].sameDay /\ opened < today THEN granted + limit.last ELSE granted
      /\ opened' = IF ~call[c].sameDay THEN today ELSE opened
      /\ together' = together \cup (IF rest = {} THEN {} ELSE rest \cup {q})
      /\ early' = early \cup (IF ~call[c].sameDay /\ call[c].last + call[c].daily <= 0 THEN {q} ELSE {})
      /\ Return(c)
      /\ UNCHANGED <<slips, today, overruled, twin, forced, reopened, dead>>
      /\ UNCHANGED <<answers, solvedBy, paid, contested>>
  BY DEF CreateQuora, solving
<1>2. /\ call[c] \in Call /\ q \in Quoras /\ s \in Students /\ Status(q) = "none"
      /\ limit \in [daily: Int, last: Nat, day: 0..MaxDay] /\ today \in 0..MaxDay
      /\ quora \in [Quoras -> [student: Students \cup {NoOne}, status: Statuses]]
      /\ job \in [Quoras -> [stage: {"none", "ocr", "embed", "written", "answer"},
                             tries: 0..Attempts - 1]]
      /\ call[c].daily \in Int /\ call[c].last \in Nat
      /\ \A d \in Calls : call[d].quora = q => d = c
  BY <1>0, <1>1 DEF QuoraTypeOK, CallInv, Asks, Call, Statuses
<1>3. Moves(c, Unused) /\ Ends
  BY <1>0, <1>1, Returning
<1>4. \A d \in Calls : call'[d] = IF d = c THEN Unused ELSE call[d]
  BY <1>3 DEF Moves
<1>5. /\ IsFiniteSet(rest) /\ rest \subseteq Quoras
      /\ \A p \in rest : Status(p) = "none"
  BY <1>0, BesidesFacts
<1>6. /\ row \in [student: Students \cup {NoOne}, status: Statuses]
      /\ row.status = "pending" /\ row.student = s
  BY <1>2 DEF Statuses
<1>7. /\ queued \in [stage: {"none", "ocr", "embed", "written", "answer"}, tries: 0..Attempts - 1]
      /\ queued.stage = "ocr" /\ job' = [job EXCEPT ![q] = queued]
  BY <1>1, <1>2
<1> HIDE DEF row, queued, rest
<1>8. /\ quora' \in [Quoras -> [student: Students \cup {NoOne}, status: Statuses]]
      /\ \A p \in Quoras : quora'[p] = IF p = q THEN row ELSE quora[p]
  BY <1>1, <1>2, <1>6
<1>9. /\ job' \in [Quoras -> [stage: {"none", "ocr", "embed", "written", "answer"},
                              tries: 0..Attempts - 1]]
      /\ \A p \in Quoras : job'[p] = IF p = q THEN queued ELSE job[p]
  BY <1>0, <1>2, <1>7, Jobs
<1>10. /\ limit' \in [daily: Int, last: Nat, day: 0..MaxDay] /\ limit'.day = today
  <2>1. Lowered(c) \in Int
    BY <1>2 DEF Lowered
  <2> QED
    BY <1>1, <1>2, <2>1
<1>11. QuoraTypeOK'
  <2>1. asked' \in Nat /\ granted' \in Nat /\ opened' \in 0..MaxDay
    BY <1>0, <1>1, <1>2 DEF QuoraTypeOK
  <2>2. together' \subseteq Quoras /\ early' \subseteq Quoras
    BY <1>0, <1>1, <1>2, <1>5 DEF QuoraTypeOK
  <2> QED
    BY <1>0, <1>1, <1>3, <1>8, <1>9, <1>10, <2>1, <2>2 DEF QuoraTypeOK, Moves, Statuses
<1>12. CallInv'
  <2> SUFFICES ASSUME NEW d \in Calls, d # c
               PROVE  /\ call'[d].pc # "idle" => call'[d].quora \in Quoras
                      /\ call'[d].pc \in {"limit", "write"} =>
                           /\ call'[d].who \in Students /\ quora'[call'[d].quora].status = "none"
                           /\ \A e \in Calls : call'[e].quora = call'[d].quora => e = d
                      /\ call'[d].pc \in {"answer", "mark"} =>
                           call'[d].who \in Authors /\ quora'[call'[d].quora].status # "none"
    BY <1>4, UnusedFacts DEF CallInv, Asks, Status
  <2>1. call'[d] = call[d] /\ call[d].quora # q
    BY <1>2, <1>4
  <2>2. call[d].pc # "idle" => /\ call[d].quora \in Quoras
                               /\ quora'[call[d].quora].status = Status(call[d].quora)
    BY <1>0, <1>8, <2>1 DEF CallInv, Status
  <2>3. ASSUME call[d].pc \in {"limit", "write"}, NEW e \in Calls, call'[e].quora = call[d].quora
        PROVE  e = d
    <3>1. e # c
      BY <1>4, <2>2, <2>3, UnusedFacts, QuoraAssumption
    <3> QED
      BY <1>0, <1>4, <2>3, <3>1 DEF CallInv, Asks
  <2> QED
    BY <1>0, <2>1, <2>2, <2>3 DEF CallInv, Asks
<1>13. BlankInv' /\ JobInv'
  BY <1>0, <1>1, <1>6, <1>7, <1>8, <1>9 DEF BlankInv, JobInv, Status
<1>14. PayInv'
  <2>1. \A p \in Quoras : quora'[p].status = "solved" <=> Status(p) = "solved"
    BY <1>2, <1>6, <1>8 DEF Status
  <2>2. \A d \in Calls : call'[d].pc = "mark" => call'[d] = call[d]
    BY <1>4, UnusedFacts
  <2> QED
    BY <1>0, <1>1, <2>1, <2>2, PaymentsKept
<1>15. LimitInv'
  <2>1. opened' <= limit'.day /\ limit'.day <= today'
    <3>1. opened \in Int /\ limit.day \in Int /\ today \in Int
      BY <1>0, OutrunFacts
    <3>2. opened <= today
      BY <1>0, <3>1 DEF LimitInv
    <3>3. opened' \in {opened, today} /\ today' = today
      BY <1>1
    <3> QED
      BY <1>10, <3>1, <3>2, <3>3
  <2>2. IsFiniteSet(together') /\ IsFiniteSet(early')
    <3>1. IsFiniteSet(rest \cup {q}) /\ IsFiniteSet({q}) /\ IsFiniteSet({})
      BY <1>5, FS_AddElement, FS_Singleton, FS_EmptySet
    <3>2. IsFiniteSet(together \cup (rest \cup {q})) /\ IsFiniteSet(together \cup {})
      BY <1>0, <3>1, FS_Union DEF LimitInv
    <3>3. IsFiniteSet(early \cup {q}) /\ IsFiniteSet(early \cup {})
      BY <1>0, <3>1, FS_Union DEF LimitInv
    <3> QED
      BY <1>1, <3>2, <3>3
  <2>3. overruled = FALSE => BoundInv'
    BY CreateBound
  <2> QED
    BY <1>1, <2>1, <2>2, <2>3 DEF LimitInv
<1>16. OpenInv'
  <2>1. Exempt' = Exempt
    BY <1>1 DEF Exempt
  <2>2. \A t, p : p \in Open(t)' <=> p \in Open(t) \/ (p = q /\ t = s)
    BY <1>2, <1>6, <1>8 DEF Open, Status
  <2>3. ASSUME NEW a \in Calls, NEW b \in Calls, Asks(call'[a]), Asks(call'[b]),
               call'[a].who = call'[b].who, a # b
        PROVE  call'[a].quora \in twin'
    BY <1>0, <1>1, <1>4, <2>3, UnusedFacts DEF OpenInv
  <2>4. ASSUME NEW a \in Calls, Asks(call'[a]), call'[a].quora \notin Exempt', NEW p \in Quoras,
               quora'[p].student = call'[a].who, quora'[p].status \in {"pending", "unsolved"}
        PROVE  p \in Exempt'
    <3>1. a # c /\ call'[a] = call[a]
      BY <1>4, <2>4, UnusedFacts
    <3>2. p \in Open(call[a].who)'
      BY <2>4, <3>1 DEF Open, Status
    <3>3. call[a].who # s
      BY <1>0, <1>1, <2>1, <2>4, <3>1 DEF OpenInv, Asks, Exempt
    <3> QED
      BY <1>0, <2>1, <2>2, <2>4, <3>1, <3>2, <3>3 DEF OpenInv
  <2>5. ASSUME NEW t \in Students, NEW a \in Open(t)' \ Exempt', NEW b \in Open(t)' \ Exempt'
        PROVE  a = b
    <3>1. q \notin Exempt => Open(s) \subseteq Exempt
      BY <1>0, <1>1 DEF OpenInv, Asks
    <3> QED
      BY <1>0, <2>1, <2>2, <2>5, <3>1 DEF OpenInv
  <2> QED
    BY <2>3, <2>4, <2>5 DEF OpenInv, Open, Status, Asks
<1>17. AnswerInv'
  BY <1>0, <1>1, <1>4, UnusedFacts, AnswersKept
<1> QED
  BY <1>11, <1>12, <1>13, <1>14, <1>15, <1>16, <1>17 DEF QuoraInv

\* An administrator's limit, and a new day.
LEMMA UpdateDailyLimitStep ==
  ASSUME IsFiniteSet(Calls), QuoraInv, NEW n \in Allowances, UpdateDailyLimit(n)
  PROVE  QuoraInv'
<1> DEFINE rest == Besides(NoOne, "write")
<1>0. /\ QuoraTypeOK /\ CallInv /\ BlankInv /\ PayInv /\ JobInv /\ LimitInv /\ OpenInv /\ AnswerInv
  BY DEF QuoraInv
<1>1. /\ limit' = [daily |-> n, last |-> n, day |-> today]
      /\ granted' = asked + n /\ opened' = today /\ together' = together \cup rest
      /\ overruled' = (overruled \/ \E c \in Calls : call[c].pc = "write" /\ ~call[c].sameDay)
      /\ UNCHANGED <<quora, job, call, slips, today, asked, early, twin, forced, reopened, dead>>
      /\ UNCHANGED <<answers, solvedBy, paid, contested>>
  BY DEF UpdateDailyLimit, solving
<1>2. n \in Nat /\ today \in 0..MaxDay /\ asked \in Nat
  BY <1>0, QuoraAssumption DEF QuoraTypeOK
<1>3. /\ IsFiniteSet(rest) /\ rest \subseteq Quoras /\ \A q \in rest : Status(q) = "none"
      /\ \A d \in Calls : d # NoOne /\ call[d].pc = "write" => call[d].quora \in rest
  BY <1>0, BesidesFacts
<1>4. \A d \in Calls : call[d].pc = "write" => call[d].quora \in together'
  BY <1>1, <1>3, QuoraAssumption
<1> HIDE DEF rest
<1>5. limit' \in [daily: Int, last: Nat, day: 0..MaxDay] /\ limit'.daily = n /\ limit'.day = today
  BY <1>1, <1>2
<1>6. QuoraTypeOK'
  BY <1>0, <1>1, <1>2, <1>3, <1>5 DEF QuoraTypeOK
<1>7. CallInv' /\ BlankInv' /\ PayInv' /\ JobInv'
  BY <1>0, <1>1 DEF CallInv, BlankInv, PayInv, JobInv, Asks, Status
<1>8. OpenInv'
  BY <1>0, <1>1 DEF OpenInv, Exempt, Open, Asks, Status
<1>9. AnswerInv'
  BY <1>0, <1>1 DEF AnswerInv, OnTheWay
<1>10. LimitInv'
  <2>1. IsFiniteSet(together') /\ IsFiniteSet(early')
    BY <1>0, <1>1, <1>3, FS_Union DEF LimitInv
  <2>2. opened' <= limit'.day /\ limit'.day <= today'
    BY <1>1, <1>2, <1>5
  <2>3. ASSUME overruled' = FALSE
        PROVE  BoundInv'
    <3>1. \A d \in Calls : call[d].pc = "write" => call[d].sameDay # FALSE
      BY <1>1, <2>3
    <3>2. Outrun' = Outrun
      BY <1>1, <1>3 DEF Outrun, Status
    <3>3. Cardinality(Outrun) \in Nat
      BY <1>0, OutrunFacts
    <3>4. asked' <= granted' + Cardinality(Outrun') /\ asked' + limit'.daily <= granted' + Cardinality(Outrun')
      BY <1>1, <1>2, <1>5, <3>2, <3>3
    <3> QED
      BY <1>1, <1>4, <3>1, <3>4 DEF BoundInv
  <2> QED
    BY <2>1, <2>2, <2>3 DEF LimitInv
<1> QED
  BY <1>6, <1>7, <1>8, <1>9, <1>10 DEF QuoraInv

LEMMA NextDayStep ==
  ASSUME IsFiniteSet(Calls), QuoraInv, NextDay
  PROVE  QuoraInv'
<1>0. /\ QuoraTypeOK /\ CallInv /\ BlankInv /\ PayInv /\ JobInv /\ LimitInv /\ OpenInv /\ AnswerInv
  BY DEF QuoraInv
<1>1. /\ today < MaxDay /\ today' = today + 1
      /\ UNCHANGED <<quora, job, call, slips, limit, asked, granted, opened, together, early,
                     overruled, twin, forced, reopened, dead>>
      /\ UNCHANGED <<answers, solvedBy, paid, contested>>
  BY DEF NextDay, solving
<1>2. QuoraTypeOK'
  <2>1. today' \in 0..MaxDay
    BY <1>0, <1>1, QuoraAssumption DEF QuoraTypeOK
  <2> QED
    BY <1>0, <1>1, <2>1 DEF QuoraTypeOK
<1>3. CallInv' /\ BlankInv' /\ PayInv' /\ JobInv'
  BY <1>0, <1>1 DEF CallInv, BlankInv, PayInv, JobInv, Asks, Status
<1>4. OpenInv'
  BY <1>0, <1>1 DEF OpenInv, Exempt, Open, Asks, Status
<1>5. AnswerInv'
  BY <1>0, <1>1 DEF AnswerInv, OnTheWay
<1>6. LimitInv'
  <2>1. /\ Cardinality(Outrun) \in Nat /\ Allowed \in Nat /\ opened \in Nat /\ today \in Nat
        /\ limit.last \in Nat /\ limit.day \in Nat /\ granted \in Nat /\ granted <= Allowed /\ asked \in Nat
    BY <1>0, OutrunFacts
  <2>2. Outrun' = Outrun
    BY <1>1 DEF Outrun, Status
  <2>3. Allowed <= Allowed' /\ Allowed' \in Nat /\ (opened < today => opened' < today')
    BY <1>1, <2>1 DEF Allowed
  <2>4. ASSUME BoundInv
        PROVE  BoundInv'
    <3> DEFINE n == Cardinality(Outrun)
    <3>1. ASSUME NEW c \in Calls, call[c].pc = "write", call[c].sameDay = FALSE
          PROVE  /\ call[c].last = limit.last
                 /\ asked <= Allowed' + n /\ asked + call[c].last + call[c].daily - 1 <= Allowed' + n
      <4> DEFINE m == asked + call[c].last + call[c].daily - 1
      <4>1. /\ call[c].last = limit.last /\ asked <= Allowed + n /\ m <= Allowed + n
        BY <2>4, <3>1 DEF BoundInv
      <4>2. m \in Int
        BY <1>0, <2>1 DEF QuoraTypeOK, Call
      <4> HIDE DEF n, m
      <4>3. n \in Nat
        BY <2>1 DEF n
      <4>4. asked <= Allowed' + n /\ m <= Allowed' + n
        <5> DEFINE may == Allowed
                   mayNow == Allowed'
        <5>1. may \in Nat /\ mayNow \in Nat /\ may <= mayNow /\ asked \in Nat
          BY <2>1, <2>3
        <5>2. asked <= may + n /\ m <= may + n
          BY <4>1
        <5> HIDE DEF may, mayNow
        <5>3. asked <= mayNow + n /\ m <= mayNow + n
          BY <4>2, <4>3, <5>1, <5>2
        <5> QED
          BY <5>3 DEF mayNow
      <4> QED
        BY <4>1, <4>4 DEF m
    <3> QED
      BY <1>1, <2>2, <2>3, <2>4, <3>1 DEF BoundInv
  <2>5. opened' <= limit'.day /\ limit'.day <= today'
    BY <1>0, <1>1, <2>1 DEF LimitInv
  <2> QED
    BY <1>0, <1>1, <2>4, <2>5 DEF LimitInv
<1> QED
  BY <1>2, <1>3, <1>4, <1>5, <1>6 DEF QuoraInv

\* A call that is given up: nothing it did stays.
LEMMA GivenUpStep ==
  ASSUME IsFiniteSet(Calls), QuoraInv, NEW c \in Calls, CreateFails(c) \/ MarkFails(c)
  PROVE  QuoraInv'
<1>0. /\ QuoraTypeOK /\ CallInv /\ BlankInv /\ PayInv /\ JobInv /\ LimitInv /\ OpenInv /\ AnswerInv
  BY DEF QuoraInv
<1>1. /\ Return(c) /\ slips' \in 0..MaxSlips
      /\ UNCHANGED <<quora, job, forced, reopened, dead>>
      /\ UNCHANGED <<limit, today, asked, granted, opened, together, early, overruled, twin>>
      /\ UNCHANGED <<answers, solvedBy, paid, contested>>
  BY <1>0, QuoraAssumption DEF CreateFails, MarkFails, Slip, asking, solving, QuoraTypeOK
<1>2. Moves(c, Unused) /\ Ends
  BY <1>0, <1>1, Returning
<1>3. \A d \in Calls : call'[d] = IF d = c THEN Unused ELSE call[d]
  BY <1>2 DEF Moves
<1>4. QuoraTypeOK'
  BY <1>0, <1>1, <1>2 DEF QuoraTypeOK, Moves
<1>5. SameRows /\ together \cup early \subseteq Quoras
  BY <1>0, <1>1 DEF SameRows, Status, QuoraTypeOK
<1>6. CallInv'
  BY <1>0, <1>2, <1>5, CallsKept
<1>7. BlankInv' /\ JobInv'
  BY <1>0, <1>1 DEF BlankInv, JobInv, Status
<1>8. PayInv'
  BY <1>0, <1>1, <1>3, UnusedFacts, PaymentsKept DEF Status
<1>9. LimitInv'
  BY <1>0, <1>1, <1>3, <1>5, UnusedFacts, LimitKept
<1>10. OpenInv'
  <2>1. \A d \in Calls : Asks(call'[d]) => /\ Asks(call[d])
                                            /\ call'[d].who = call[d].who /\ call'[d].quora = call[d].quora
    BY <1>3, UnusedFacts
  <2> QED
    BY <1>0, <1>1, <2>1, WaitingKept DEF Status
<1>11. AnswerInv'
  BY <1>0, <1>1, <1>3, UnusedFacts, AnswersKept
<1> QED
  BY <1>4, <1>6, <1>7, <1>8, <1>9, <1>10, <1>11 DEF QuoraInv

-----------------------------------------------------------------------------
(* Jobs, and a question posted by force                                      *)

\* A job that leaves its question alone.
LEMMA JobStep ==
  ASSUME QuoraInv, NEW q \in Quoras,
         OcrProcessing(q) \/ AddGenerateAnswerJob(q) \/ GenerateAnswer(q) \/ JobFails(q)
  PROVE  QuoraInv'
<1> DEFINE Jobs0 == [Quoras -> [stage: {"none", "ocr", "embed", "written", "answer"},
                                tries: 0..Attempts - 1]]
<1>0. /\ QuoraTypeOK /\ CallInv /\ BlankInv /\ PayInv /\ JobInv /\ LimitInv /\ OpenInv /\ AnswerInv
  BY DEF QuoraInv
<1>1. /\ job[q].stage # "none"
      /\ UNCHANGED <<quora, call, forced, reopened>>
      /\ UNCHANGED <<limit, today, asked, granted, opened, together, early, overruled, twin>>
      /\ UNCHANGED <<answers, solvedBy, paid, contested>>
  BY DEF OcrProcessing, AddGenerateAnswerJob, GenerateAnswer, JobFails, asking, solving
<1>2. /\ job' \in Jobs0 /\ slips' \in 0..MaxSlips /\ dead \subseteq dead' /\ dead' \subseteq Quoras
      /\ \A p \in Quoras \ {q} : job'[p].stage = job[p].stage
      /\ job[q].stage \in {"ocr", "embed"} => job'[q].stage \in {"ocr", "embed"} \/ q \in dead'
  <2>1. CASE OcrProcessing(q)
    BY <1>0, <2>1, Queued DEF OcrProcessing, QuoraTypeOK
  <2>2. CASE AddGenerateAnswerJob(q)
    BY <1>0, <2>2, Queued DEF AddGenerateAnswerJob, QuoraTypeOK
  <2>3. CASE GenerateAnswer(q)
    BY <1>0, <2>3, Queued DEF GenerateAnswer, QuoraTypeOK
  <2>4. CASE JobFails(q)
    <3> DEFINE j == job[q]
               retries == j.tries + 1 < Attempts
               retried == [stage |-> IF j.stage = "ocr" THEN "ocr" ELSE "embed", tries |-> j.tries + 1]
               u == IF retries THEN retried ELSE NoJob
               Job0 == [stage: {"none", "ocr", "embed", "written", "answer"}, tries: 0..Attempts - 1]
    <3>1. /\ job' = [job EXCEPT ![q] = u] /\ dead' = IF retries THEN dead ELSE dead \cup {q}
          /\ slips < MaxSlips /\ slips' = slips + 1
      BY <2>4 DEF JobFails, Slip
    <3>2. j \in Job0 /\ Attempts \in Nat \ {0} /\ MaxSlips \in Nat /\ slips \in 0..MaxSlips
          /\ dead \subseteq Quoras
      BY <1>0, QuoraAssumption DEF QuoraTypeOK
    <3>3. retries => retried \in Job0
      <4>1. j.tries \in 0..Attempts - 1
        BY <3>2
      <4>2. retries => j.tries + 1 \in 0..Attempts - 1
        BY <3>2, <4>1
      <4> QED
        BY <4>2
    <3>4. NoJob \in Job0
      BY <3>2 DEF NoJob
    <3>5. u \in Job0 /\ (retries => u.stage \in {"ocr", "embed"})
      BY <3>3, <3>4
    <3> HIDE DEF u, retries
    <3>6. job' \in Jobs0 /\ \A p \in Quoras : job'[p] = IF p = q THEN u ELSE job[p]
      BY <1>0, <3>1, <3>5, Jobs
    <3>7. slips' \in 0..MaxSlips
      BY <3>1, <3>2
    <3> QED
      BY <3>1, <3>2, <3>5, <3>6, <3>7
  <2> QED
    BY <2>1, <2>2, <2>3, <2>4
<1>3. QuoraTypeOK'
  BY <1>0, <1>1, <1>2 DEF QuoraTypeOK
<1>4. CallInv' /\ PayInv' /\ OpenInv' /\ AnswerInv'
  BY <1>0, <1>1 DEF CallInv, PayInv, OpenInv, AnswerInv, OnTheWay, Exempt, Open, Asks, Status
<1>5. LimitInv'
  BY <1>0, <1>1 DEF LimitInv, BoundInv, Outrun, Allowed, Status
<1>6. BlankInv' /\ JobInv'
  BY <1>0, <1>1, <1>2 DEF BlankInv, JobInv, Status
<1> QED
  BY <1>3, <1>4, <1>5, <1>6 DEF QuoraInv

\* A status that is written: over a waiting question, or over one that is then
\* forced or reopened.
LEMMA StatusStep ==
  ASSUME IsFiniteSet(Calls), QuoraInv, NEW q \in Quoras, ForcePostQuora(q) \/ EmbedProcessing(q)
  PROVE  QuoraInv'
<1>0. /\ QuoraTypeOK /\ CallInv /\ BlankInv /\ PayInv /\ JobInv /\ LimitInv /\ OpenInv /\ AnswerInv
  BY DEF QuoraInv
<1>1. PICK status \in {"duplicate", "unsolved"} :
        /\ Become(q, status) /\ Status(q) # "none"
        /\ \/ status = "unsolved" /\ Status(q) = "duplicate" /\ forced' = forced \cup {q} /\ reopened' = reopened
           \/ /\ forced' = forced
              /\ reopened' = IF Status(q) \in {"pending", "unsolved"} THEN reopened ELSE reopened \cup {q}
  <2>1. CASE ForcePostQuora(q)
    BY <2>1 DEF ForcePostQuora
  <2>2. CASE EmbedProcessing(q)
    <3>1. Status(q) # "none"
      BY <1>0, <2>2 DEF EmbedProcessing, BlankInv
    <3> QED
      BY <2>2, <3>1 DEF EmbedProcessing, Written
  <2> QED
    BY <2>1, <2>2
<1>2. /\ UNCHANGED <<call, slips, dead, solvedBy, paid, contested>>
      /\ UNCHANGED <<limit, today, asked, granted, opened, together, early, overruled, twin>>
  BY DEF ForcePostQuora, EmbedProcessing, asking, solving
<1>3. /\ quora' \in [Quoras -> [student: Students \cup {NoOne}, status: Statuses]]
      /\ \A p \in Quoras : /\ quora'[p].status = IF p = q THEN status ELSE Status(p)
                           /\ quora'[p].student = quora[p].student
  BY <1>0, <1>1, Becoming DEF Statuses
<1>4. /\ answers' \in [Quoras -> [Authors -> Nat]]
      /\ \A p \in Quoras, a \in Answerers : answers'[p][a] = answers[p][a]
  <2>1. Machine \notin Answerers /\ answers \in [Quoras -> [Authors -> Nat]]
    BY <1>0, QuoraAssumption DEF QuoraTypeOK
  <2>2. CASE answers' = answers
    BY <2>1, <2>2 DEF Authors
  <2>3. CASE answers' = [answers EXCEPT ![q][Machine] = 1]
    BY <2>1, <2>3 DEF Authors
  <2> QED
    BY <2>2, <2>3 DEF ForcePostQuora, EmbedProcessing, Written, solving
<1>5. /\ job' \in [Quoras -> [stage: {"none", "ocr", "embed", "written", "answer"},
                              tries: 0..Attempts - 1]]
      /\ \A p \in Quoras \ {q} : job'[p].stage = job[p].stage
  <2>1. CASE ForcePostQuora(q)
    BY <1>0, <2>1 DEF ForcePostQuora, QuoraTypeOK
  <2>2. CASE EmbedProcessing(q) /\ Queue(q, "none")
    BY <1>0, <2>2, Queued
  <2>3. CASE job' = [job EXCEPT ![q].stage = "written"]
    <3> DEFINE j == [job[q] EXCEPT !.stage = "written"]
    <3>1. job' = [job EXCEPT ![q] = j]
          /\ j \in [stage: {"none", "ocr", "embed", "written", "answer"}, tries: 0..Attempts - 1]
      BY <1>0, <2>3 DEF QuoraTypeOK
    <3> HIDE DEF j
    <3> QED
      BY <1>0, <3>1, Jobs
  <2> QED
    BY <2>1, <2>2, <2>3 DEF EmbedProcessing
<1>6. reopened' \subseteq Quoras /\ reopened \subseteq reopened' /\ forced' \subseteq Quoras
      /\ forced \subseteq forced'
  BY <1>0, <1>1 DEF QuoraTypeOK
<1>7. QuoraTypeOK'
  BY <1>0, <1>2, <1>3, <1>4, <1>5, <1>6 DEF QuoraTypeOK, Statuses
<1>8. Ends /\ SameRows /\ together \cup early \subseteq Quoras
  BY <1>0, <1>1, <1>2, <1>3 DEF Ends, SameRows, QuoraTypeOK
<1>9. CallInv'
  BY <1>0, <1>8, CallsKept
<1>10. BlankInv' /\ JobInv'
  BY <1>0, <1>1, <1>2, <1>3, <1>5 DEF BlankInv, JobInv, Status
<1>11. PayInv'
  <2>1. \A p \in Quoras \ (contested' \cup reopened') :
          quora'[p].status = "solved" <=> Status(p) = "solved"
    BY <1>1, <1>3
  <2> QED
    BY <1>0, <1>2, <1>6, <2>1, PaymentsKept
<1>12. LimitInv'
  BY <1>0, <1>2, <1>8, LimitKept
<1>13. OpenInv'
  <2>1. \A p \in Quoras : /\ quora'[p].student = quora[p].student
                          /\ quora'[p].status \in {"pending", "unsolved"} =>
                               Status(p) \in {"pending", "unsolved"} \/ p \in forced' \cup reopened'
    BY <1>1, <1>3
  <2> QED
    BY <1>0, <1>2, <1>6, <2>1, WaitingKept
<1>14. AnswerInv'
  BY <1>0, <1>2, <1>4, AnswersKept
<1> QED
  BY <1>7, <1>9, <1>10, <1>11, <1>12, <1>13, <1>14 DEF QuoraInv

-----------------------------------------------------------------------------
(* Answering                                                                 *)

\* A call begins to answer or to mark a question that has a row.
LEMMA TurnStep ==
  ASSUME IsFiniteSet(Calls), QuoraInv, NEW c \in Calls, NEW q \in Quoras, NEW a \in Authors,
         PostAnswer(c, q, a) \/ MarkAsSolved(c, q, a)
  PROVE  QuoraInv'
<1>0. /\ QuoraTypeOK /\ CallInv /\ BlankInv /\ PayInv /\ JobInv /\ LimitInv /\ OpenInv /\ AnswerInv
  BY DEF QuoraInv
<1>1. /\ call[c] = Unused /\ Status(q) = "unsolved"
      /\ UNCHANGED <<quora, job, slips, forced, reopened, dead>>
      /\ UNCHANGED <<limit, today, asked, granted, opened, together, early, overruled, twin>>
      /\ UNCHANGED <<answers, solvedBy, paid>>
  BY DEF PostAnswer, MarkAsSolved, asking, solving
<1>2. PICK u \in Call :
        /\ call' = [call EXCEPT ![c] = u] /\ u.quora = q /\ u.who = a
        /\ \/ u.pc = "answer" /\ contested' = contested /\ a \in Answerers /\ answers[q][a] < AnswerLimit
           \/ /\ u.pc = "mark" /\ contested \subseteq contested' /\ contested' \subseteq contested \cup {q}
              /\ q \in contested' \/ \A d \in Calls : ~(call[d].pc = "mark" /\ call[d].quora = q)
  <2>1. CASE PostAnswer(c, q, a)
    <3> DEFINE u == [Unused EXCEPT !.pc = "answer", !.quora = q, !.who = a]
    <3>1. u \in Call /\ u.pc = "answer" /\ u.quora = q /\ u.who = a
      BY Beginning
    <3>2. call' = [call EXCEPT ![c] = u] /\ contested' = contested /\ a \in Answerers
          /\ answers[q][a] < AnswerLimit
      BY <2>1 DEF PostAnswer, MayAnswer, solving, Authors
    <3> HIDE DEF u
    <3> QED
      BY <3>1, <3>2
  <2>2. CASE MarkAsSolved(c, q, a)
    <3> DEFINE u == [Unused EXCEPT !.pc = "mark", !.quora = q, !.who = a]
               same == {d \in Calls : call[d].pc = "mark" /\ call[d].quora = q}
    <3>1. u \in Call /\ u.pc = "mark" /\ u.quora = q /\ u.who = a
      BY Beginning
    <3>2. call' = [call EXCEPT ![c] = u]
          /\ contested' = IF same = {} THEN contested ELSE contested \cup {q}
      BY <2>2 DEF MarkAsSolved
    <3>3. q \in contested' \/ \A d \in Calls : ~(call[d].pc = "mark" /\ call[d].quora = q)
      BY <3>2
    <3> HIDE DEF u, same
    <3> QED
      BY <3>1, <3>2, <3>3
  <2> QED
    BY <2>1, <2>2
<1>3. Moves(c, u)
  BY <1>0, <1>2, Moving
<1>4. \A d \in Calls : call'[d] = IF d = c THEN u ELSE call[d]
  BY <1>3 DEF Moves
<1>5. contested' \subseteq Quoras /\ contested \subseteq contested'
  BY <1>0, <1>2 DEF QuoraTypeOK
<1>6. QuoraTypeOK'
  BY <1>0, <1>1, <1>3, <1>5 DEF QuoraTypeOK, Moves
<1>7. CallInv'
  BY <1>0, <1>1, <1>2, <1>4 DEF CallInv, Asks, Status
<1>8. BlankInv' /\ JobInv'
  BY <1>0, <1>1 DEF BlankInv, JobInv, Status
<1>9. PayInv'
  <2> SUFFICES ASSUME NEW p \in Quoras \ (contested' \cup reopened)
               PROVE  /\ paid[p] <= IF Status(p) = "solved" THEN 1 ELSE 0
                      /\ \A e \in Calls : call'[e].pc = "mark" /\ call'[e].quora = p =>
                           /\ Status(p) # "solved"
                           /\ \A d \in Calls : call'[d].pc = "mark" /\ call'[d].quora = p => d = e
    BY <1>1 DEF PayInv, Status
  <2>1. /\ paid[p] <= IF Status(p) = "solved" THEN 1 ELSE 0
        /\ \A e \in Calls : call[e].pc = "mark" /\ call[e].quora = p =>
             /\ Status(p) # "solved"
             /\ \A d \in Calls : call[d].pc = "mark" /\ call[d].quora = p => d = e
    BY <1>0, <1>5 DEF PayInv
  <2>2. CASE p = q /\ u.pc = "mark"
    BY <1>1, <1>2, <1>4, <2>1, <2>2
  <2>3. CASE ~(p = q /\ u.pc = "mark")
    BY <1>1, <1>2, <1>4, <2>1, <2>3, UnusedFacts
  <2> QED
    BY <2>2, <2>3
<1>10. LimitInv'
  <2>1. SameRows /\ together \cup early \subseteq Quoras
    BY <1>0, <1>1 DEF SameRows, Status, QuoraTypeOK
  <2> QED
    BY <1>0, <1>1, <1>2, <1>4, <2>1, LimitKept
<1>11. OpenInv'
  <2>1. \A d \in Calls : Asks(call'[d]) => /\ Asks(call[d])
                                            /\ call'[d].who = call[d].who /\ call'[d].quora = call[d].quora
    BY <1>2, <1>4 DEF Asks
  <2> QED
    BY <1>0, <1>1, <2>1, WaitingKept DEF Status
<1>12. CASE u.pc = "mark"
  <2>1. AnswerInv'
    BY <1>0, <1>1, <1>4, <1>12, AnswersKept
  <2> QED
    BY <1>6, <1>7, <1>8, <1>9, <1>10, <1>11, <2>1 DEF QuoraInv
<1>13. CASE u.pc # "mark"
  <2>1. AnswerInv'
    <3> SUFFICES ASSUME NEW p \in Quoras, NEW b \in Answerers
                 PROVE  answers[p][b] + Cardinality(OnTheWay(p, b)') < AnswerLimit + Cardinality(Calls)
      BY <1>1 DEF AnswerInv
    <3>1. OnTheWay(p, b) \in SUBSET Calls /\ OnTheWay(p, b)' \in SUBSET Calls
      BY DEF OnTheWay
    <3>2. /\ IsFiniteSet(OnTheWay(p, b)) /\ Cardinality(OnTheWay(p, b)) \in Nat
          /\ Cardinality(OnTheWay(p, b)') \in Nat /\ Cardinality(Calls) \in Nat
          /\ Cardinality(OnTheWay(p, b)') <= Cardinality(Calls)
      BY <3>1, FS_Subset, FS_CardinalityType
    <3>3. answers[p][b] \in Nat /\ AnswerLimit \in Nat
      BY <1>0, QuoraAssumption DEF QuoraTypeOK, Authors
    <3>4. CASE p = q /\ b = a
      <4>1. answers[p][b] < AnswerLimit
        BY <1>2, <1>13, <3>4
      <4> QED
        BY <3>2, <3>3, <4>1
    <3>5. CASE ~(p = q /\ b = a)
      <4>1. OnTheWay(p, b)' \subseteq OnTheWay(p, b)
        BY <1>2, <1>4, <3>5 DEF OnTheWay
      <4>2. Cardinality(OnTheWay(p, b)') <= Cardinality(OnTheWay(p, b))
        BY <3>2, <4>1, FS_Subset
      <4>3. answers[p][b] + Cardinality(OnTheWay(p, b)) < AnswerLimit + Cardinality(Calls)
        BY <1>0 DEF AnswerInv
      <4> QED
        BY <3>2, <3>3, <4>2, <4>3
    <3> QED
      BY <3>4, <3>5
  <2> QED
    BY <1>6, <1>7, <1>8, <1>9, <1>10, <1>11, <2>1 DEF QuoraInv
<1> QED
  BY <1>12, <1>13

LEMMA CreateAnswerStep ==
  ASSUME IsFiniteSet(Calls), QuoraInv, NEW c \in Calls, CreateAnswer(c)
  PROVE  QuoraInv'
<1> DEFINE q == call[c].quora
           a == call[c].who
<1>0. /\ QuoraTypeOK /\ CallInv /\ BlankInv /\ PayInv /\ JobInv /\ LimitInv /\ OpenInv /\ AnswerInv
  BY DEF QuoraInv
<1>1. /\ call[c].pc = "answer" /\ answers' = [answers EXCEPT ![q][a] = @ + 1] /\ Return(c)
      /\ UNCHANGED <<quora, job, slips, forced, reopened, dead, solvedBy, paid, contested>>
      /\ UNCHANGED <<limit, today, asked, granted, opened, together, early, overruled, twin>>
  BY DEF CreateAnswer, asking
<1>2. q \in Quoras /\ a \in Authors /\ answers \in [Quoras -> [Authors -> Nat]]
  BY <1>0, <1>1 DEF CallInv, QuoraTypeOK
<1> HIDE DEF q, a
<1>3. Moves(c, Unused) /\ Ends
  BY <1>0, <1>1, Returning
<1>4. \A d \in Calls : call'[d] = IF d = c THEN Unused ELSE call[d]
  BY <1>3 DEF Moves
<1>5. /\ answers' \in [Quoras -> [Authors -> Nat]]
      /\ \A p \in Quoras, b \in Authors :
           answers'[p][b] = IF p = q /\ b = a THEN answers[p][b] + 1 ELSE answers[p][b]
  BY <1>1, <1>2
<1>6. QuoraTypeOK'
  BY <1>0, <1>1, <1>3, <1>5 DEF QuoraTypeOK, Moves
<1>7. SameRows /\ together \cup early \subseteq Quoras
  BY <1>0, <1>1 DEF SameRows, Status, QuoraTypeOK
<1>8. CallInv'
  BY <1>0, <1>3, <1>7, CallsKept
<1>9. BlankInv' /\ JobInv'
  BY <1>0, <1>1 DEF BlankInv, JobInv, Status
<1>10. PayInv'
  BY <1>0, <1>1, <1>4, UnusedFacts, PaymentsKept DEF Status
<1>11. LimitInv'
  BY <1>0, <1>1, <1>4, <1>7, UnusedFacts, LimitKept
<1>12. OpenInv'
  <2>1. \A d \in Calls : Asks(call'[d]) => /\ Asks(call[d])
                                            /\ call'[d].who = call[d].who /\ call'[d].quora = call[d].quora
    BY <1>4, UnusedFacts
  <2> QED
    BY <1>0, <1>1, <2>1, WaitingKept DEF Status
<1>13. AnswerInv'
  <2> SUFFICES ASSUME NEW p \in Quoras, NEW b \in Answerers
               PROVE  answers'[p][b] + Cardinality(OnTheWay(p, b)') < AnswerLimit + Cardinality(Calls)
    BY DEF AnswerInv
  <2>1. OnTheWay(p, b) \in SUBSET Calls /\ OnTheWay(p, b)' = OnTheWay(p, b) \ {c}
    BY <1>4, UnusedFacts DEF OnTheWay
  <2>2. IsFiniteSet(OnTheWay(p, b)) /\ Cardinality(OnTheWay(p, b)) \in Nat /\ Cardinality(Calls) \in Nat
    BY <2>1, FS_Subset, FS_CardinalityType
  <2>3. Cardinality(OnTheWay(p, b)') = IF c \in OnTheWay(p, b) THEN Cardinality(OnTheWay(p, b)) - 1
                                       ELSE Cardinality(OnTheWay(p, b))
    BY <2>1, <2>2, FS_RemoveElement
  <2>4. c \in OnTheWay(p, b) <=> p = q /\ b = a
    BY <1>1 DEF OnTheWay, q, a
  <2>5. answers[p][b] \in Nat /\ AnswerLimit \in Nat /\ b \in Authors
    BY <1>2, QuoraAssumption DEF Authors
  <2>6. answers[p][b] + Cardinality(OnTheWay(p, b)) < AnswerLimit + Cardinality(Calls)
    BY <1>0 DEF AnswerInv
  <2> QED
    BY <1>5, <2>2, <2>3, <2>4, <2>5, <2>6
<1> QED
  BY <1>6, <1>8, <1>9, <1>10, <1>11, <1>12, <1>13 DEF QuoraInv

\* A question is marked, and its solver is paid, once.
LEMMA DistributeCreditsStep ==
  ASSUME IsFiniteSet(Calls), QuoraInv, NEW c \in Calls, DistributeCredits(c)
  PROVE  QuoraInv'
<1> DEFINE q == call[c].quora
           a == call[c].who
<1>0. /\ QuoraTypeOK /\ CallInv /\ BlankInv /\ PayInv /\ JobInv /\ LimitInv /\ OpenInv /\ AnswerInv
  BY DEF QuoraInv
<1>1. /\ call[c].pc = "mark" /\ Become(q, "solved") /\ Return(c)
      /\ \/ /\ a \in Solvers /\ solvedBy' = [solvedBy EXCEPT ![a] = @ + 1]
            /\ paid' = [paid EXCEPT ![q] = @ + 1]
         \/ UNCHANGED <<solvedBy, paid>>
      /\ UNCHANGED <<job, slips, forced, reopened, dead, answers, contested>>
      /\ UNCHANGED <<limit, today, asked, granted, opened, together, early, overruled, twin>>
  BY DEF DistributeCredits, Pay, asking
<1>2. q \in Quoras /\ Status(q) # "none" /\ paid \in [Quoras -> Nat] /\ solvedBy \in [Solvers -> Nat]
  BY <1>0, <1>1 DEF CallInv, QuoraTypeOK
<1>3. Moves(c, Unused) /\ Ends
  BY <1>0, <1>1, Returning
<1>4. \A d \in Calls : call'[d] = IF d = c THEN Unused ELSE call[d]
  BY <1>3 DEF Moves
<1>5. /\ quora' \in [Quoras -> [student: Students \cup {NoOne}, status: Statuses]]
      /\ \A p \in Quoras : /\ quora'[p].status = IF p = q THEN "solved" ELSE Status(p)
                           /\ quora'[p].student = quora[p].student
  BY <1>0, <1>1, <1>2, Becoming DEF Statuses
<1>6. /\ paid' \in [Quoras -> Nat] /\ solvedBy' \in [Solvers -> Nat]
      /\ \A p \in Quoras : paid'[p] <= IF p = q THEN paid[p] + 1 ELSE paid[p]
  BY <1>1, <1>2
<1>7. QuoraTypeOK'
  BY <1>0, <1>1, <1>3, <1>5, <1>6 DEF QuoraTypeOK, Moves, Statuses
<1>8. SameRows /\ together \cup early \subseteq Quoras
  BY <1>0, <1>2, <1>5 DEF SameRows, QuoraTypeOK
<1>9. CallInv'
  BY <1>0, <1>3, <1>8, CallsKept
<1>10. BlankInv' /\ JobInv'
  <2>1. \A p \in Quoras : Status(p) = "none" => p # q /\ paid'[p] = paid[p]
    BY <1>1, <1>2
  <2> QED
    BY <1>0, <1>1, <1>5, <2>1 DEF BlankInv, JobInv, Status
<1>11. PayInv'
  <2> SUFFICES ASSUME NEW p \in Quoras \ (contested \cup reopened)
               PROVE  /\ paid'[p] <= IF quora'[p].status = "solved" THEN 1 ELSE 0
                      /\ \A e \in Calls : call'[e].pc = "mark" /\ call'[e].quora = p =>
                           /\ quora'[p].status # "solved"
                           /\ \A d \in Calls : call'[d].pc = "mark" /\ call'[d].quora = p => d = e
    BY <1>1 DEF PayInv, Status
  <2>1. /\ paid[p] <= IF Status(p) = "solved" THEN 1 ELSE 0
        /\ \A e \in Calls : call[e].pc = "mark" /\ call[e].quora = p =>
             /\ Status(p) # "solved"
             /\ \A d \in Calls : call[d].pc = "mark" /\ call[d].quora = p => d = e
    BY <1>0 DEF PayInv
  <2>2. paid[p] \in Nat /\ paid'[p] \in Nat
    BY <1>2, <1>6
  <2>3. CASE p = q
    <3>1. paid[p] <= 0 /\ \A e \in Calls : call[e].pc = "mark" /\ call[e].quora = p => e = c
      BY <1>1, <2>1, <2>3
    <3> QED
      BY <1>4, <1>5, <1>6, <2>2, <2>3, <3>1, UnusedFacts
  <2>4. CASE p # q
    BY <1>4, <1>5, <1>6, <2>1, <2>2, <2>4, UnusedFacts
  <2> QED
    BY <2>3, <2>4
<1>12. LimitInv'
  BY <1>0, <1>1, <1>4, <1>8, UnusedFacts, LimitKept
<1>13. OpenInv'
  <2>1. \A d \in Calls : Asks(call'[d]) => /\ Asks(call[d])
                                            /\ call'[d].who = call[d].who /\ call'[d].quora = call[d].quora
    BY <1>4, UnusedFacts
  <2>2. \A p \in Quoras : /\ quora'[p].student = quora[p].student
                          /\ quora'[p].status \in {"pending", "unsolved"} =>
                               Status(p) \in {"pending", "unsolved"} \/ p \in forced' \cup reopened'
    BY <1>5
  <2> QED
    BY <1>0, <1>1, <2>1, <2>2, WaitingKept
<1>14. AnswerInv'
  BY <1>0, <1>1, <1>4, UnusedFacts, AnswersKept
<1> QED
  BY <1>7, <1>9, <1>10, <1>11, <1>12, <1>13, <1>14 DEF QuoraInv

-----------------------------------------------------------------------------
(* The theorems                                                              *)

LEMMA QuoraStep ==
  ASSUME IsFiniteSet(Calls), QuoraInv, [QuoraNext]_quoraVars
  PROVE  QuoraInv'
<1>1. CASE Asking
  BY <1>1, PostNewQuoraStep, ReadLimitStep, CreateQuoraStep, GivenUpStep DEF Asking
<1>2. CASE Limiting
  BY <1>2, NextDayStep, UpdateDailyLimitStep DEF Limiting
<1>3. CASE Classifying
  BY <1>3, StatusStep, JobStep DEF Classifying
<1>4. CASE Answering
  BY <1>4, TurnStep, CreateAnswerStep, DistributeCreditsStep, GivenUpStep DEF Answering
<1>5. CASE UNCHANGED quoraVars
  <2>0. /\ QuoraTypeOK /\ CallInv /\ BlankInv /\ PayInv /\ JobInv /\ LimitInv /\ OpenInv /\ AnswerInv
    BY DEF QuoraInv
  <2>1. /\ UNCHANGED <<quora, job, call, slips, forced, reopened, dead>>
        /\ UNCHANGED <<limit, today, asked, granted, opened, together, early, overruled, twin>>
        /\ UNCHANGED <<answers, solvedBy, paid, contested>>
    BY <1>5 DEF quoraVars, asking, solving
  <2>2. QuoraTypeOK'
    BY <2>0, <2>1 DEF QuoraTypeOK
  <2>3. SameRows /\ Ends /\ together \cup early \subseteq Quoras
    BY <2>0, <2>1 DEF SameRows, Ends, Status, QuoraTypeOK
  <2>4. CallInv' /\ BlankInv' /\ JobInv'
    BY <2>0, <2>1, <2>3, CallsKept DEF BlankInv, JobInv, Status
  <2>5. PayInv' /\ LimitInv'
    BY <2>0, <2>1, <2>3, PaymentsKept, LimitKept DEF Status
  <2>6. OpenInv' /\ AnswerInv'
    BY <2>0, <2>1, WaitingKept, AnswersKept DEF Status
  <2> QED
    BY <2>2, <2>4, <2>5, <2>6 DEF QuoraInv
<1> QED
  BY <1>1, <1>2, <1>3, <1>4, <1>5 DEF QuoraNext

\* The limit of an author may be none: then only a request makes the bound on answers
\* positive.
LEMMA Questions ==
  ASSUME IsFiniteSet(Calls), Calls # {}
  PROVE  QuoraSpec => []QuoraInv
<1>1. QuoraInit => QuoraInv
  <2> SUFFICES ASSUME QuoraInit PROVE QuoraInv
    OBVIOUS
  <2>0. PICK n \in Allowances : limit = [daily |-> n, last |-> n, day |-> 0] /\ granted = n
    BY DEF QuoraInit
  <2>1. /\ quora = [q \in Quoras |-> [student |-> NoOne, status |-> "none"]]
        /\ job = [q \in Quoras |-> NoJob] /\ today = 0 /\ slips = 0
        /\ answers = [q \in Quoras |-> [a \in Authors |-> 0]]
        /\ solvedBy = [s \in Solvers |-> 0] /\ paid = [q \in Quoras |-> 0]
        /\ call = [c \in Calls |-> Unused]
        /\ asked = 0 /\ opened = 0 /\ together = {} /\ early = {} /\ overruled = FALSE
        /\ forced = {} /\ twin = {} /\ contested = {} /\ reopened = {} /\ dead = {}
    BY DEF QuoraInit
  <2>2. \A q \in Quoras : /\ quora[q].student = NoOne /\ Status(q) = "none"
                          /\ job[q].stage = "none" /\ paid[q] = 0
    BY <2>1 DEF Status, NoJob
  <2>3. \A c \in Calls : call[c] = Unused
    BY <2>1
  <2>4. n \in Nat
    BY QuoraAssumption
  <2>5. QuoraTypeOK
    <3>1. NoJob \in [stage: {"none", "ocr", "embed", "written", "answer"}, tries: 0..Attempts - 1]
      BY QuoraAssumption DEF NoJob
    <3>2. call \in [Calls -> Call]
      BY <2>1, UnusedFacts
    <3>3. /\ limit \in [daily: Int, last: Nat, day: 0..MaxDay] /\ today \in 0..MaxDay
          /\ opened \in 0..MaxDay /\ slips \in 0..MaxSlips
          /\ asked \in Nat /\ granted \in Nat /\ overruled \in BOOLEAN
      <4>1. 0 \in 0..MaxDay /\ 0 \in 0..MaxSlips
        BY QuoraAssumption
      <4>2. limit \in [daily: Int, last: Nat, day: 0..MaxDay] /\ granted \in Nat
        BY <2>0, <2>4, <4>1
      <4>3. overruled \in BOOLEAN
        BY <2>1
      <4> QED
        BY <2>1, <4>1, <4>2, <4>3
    <3>4. /\ quora \in [Quoras -> [student: Students \cup {NoOne},
               status: {"none", "pending", "duplicate", "unsolved", "solved"}]]
          /\ job \in [Quoras -> [stage: {"none", "ocr", "embed", "written", "answer"},
                                 tries: 0..Attempts - 1]]
      BY <2>1, <3>1
    <3>5. /\ answers \in [Quoras -> [Authors -> Nat]]
          /\ solvedBy \in [Solvers -> Nat] /\ paid \in [Quoras -> Nat]
      BY <2>1
    <3>6. UNION {together, early, forced, twin, contested, reopened, dead} \subseteq Quoras
      BY <2>1
    <3> QED
      BY <3>2, <3>3, <3>4, <3>5, <3>6 DEF QuoraTypeOK
  <2>6. CallInv /\ BlankInv /\ PayInv /\ JobInv
    BY <2>2, <2>3, UnusedFacts DEF CallInv, BlankInv, PayInv, JobInv
  <2>7. LimitInv
    <3>1. Outrun = {} /\ Cardinality(Outrun) = 0
      BY <2>1, FS_EmptySet DEF Outrun
    <3>2. BoundInv
      BY <2>0, <2>1, <2>3, <2>4, <3>1, UnusedFacts DEF BoundInv
    <3> QED
      BY <2>0, <2>1, <3>2, FS_EmptySet DEF LimitInv
  <2>8. OpenInv
    BY <2>2, <2>3, UnusedFacts DEF OpenInv, Open
  <2>9. AnswerInv
    <3>1. Cardinality(Calls) \in Nat /\ Cardinality(Calls) # 0
      BY FS_EmptySet, FS_CardinalityType
    <3>2. ASSUME NEW q \in Quoras, NEW a \in Answerers
          PROVE  answers[q][a] = 0 /\ Cardinality(OnTheWay(q, a)) = 0
      <4>1. OnTheWay(q, a) = {}
        BY <2>3, UnusedFacts DEF OnTheWay
      <4> QED
        BY <2>1, <4>1, FS_EmptySet DEF Authors
    <3> QED
      BY <3>1, <3>2, QuoraAssumption DEF AnswerInv
  <2> QED
    BY <2>5, <2>6, <2>7, <2>8, <2>9 DEF QuoraInv
<1>2. QuoraInv /\ [QuoraNext]_quoraVars => QuoraInv'
  BY QuoraStep
<1> QED
  BY <1>1, <1>2, PTL DEF QuoraSpec

\* However requests, jobs, days and administrators interleave, the questions of a
\* course outrun its limit only by those counted as asked together or before the day
\* had an allowance, a student waits for one solution at a time, and the answers of
\* one solver outnumber his limit by fewer than the calls in flight.
THEOREM LimitsHold ==
  ASSUME IsFiniteSet(Calls), Calls # {}
  PROVE  QuoraSpec => []QuestionsLimited
<1>1. QuoraInv => QuestionsLimited
  <2> SUFFICES ASSUME QuoraInv PROVE QuestionsLimited
    OBVIOUS
  <2>0. QuoraTypeOK /\ LimitInv /\ OpenInv /\ AnswerInv
    BY DEF QuoraInv
  <2>1. ASSUME ~overruled
        PROVE  asked <= granted + Cardinality(together \cup early)
    <3>1. BoundInv
      BY <2>0, <2>1 DEF LimitInv, QuoraTypeOK
    <3>2. IsFiniteSet(together \cup early) /\ Outrun \in SUBSET (together \cup early)
      BY <2>0, FS_Union DEF LimitInv, Outrun
    <3>3. /\ Cardinality(Outrun) <= Cardinality(together \cup early)
          /\ Cardinality(together \cup early) \in Nat
      BY <3>2, FS_Subset, FS_CardinalityType
    <3>4. asked <= granted + Cardinality(Outrun)
      BY <3>1 DEF BoundInv
    <3> QED
      BY <2>0, <3>3, <3>4, OutrunFacts
  <2>2. ASSUME NEW s \in Students
        PROVE  Cardinality(Open(s) \ (forced \cup twin \cup reopened)) <= 1
    <3> DEFINE waiting == Open(s) \ (forced \cup twin \cup reopened)
    <3>1. \A q, p \in waiting : q = p
      BY <2>0 DEF OpenInv, Exempt
    <3>2. CASE waiting = {}
      BY <3>2, FS_EmptySet
    <3>3. CASE waiting # {}
      <4>1. PICK q : waiting = {q}
        BY <3>1, <3>3
      <4> QED
        BY <4>1, FS_Singleton
    <3> QED
      BY <3>2, <3>3
  <2>3. ASSUME NEW q \in Quoras, NEW a \in Answerers
        PROVE  answers[q][a] < AnswerLimit + Cardinality(Calls)
    <3>1. OnTheWay(q, a) \in SUBSET Calls
      BY DEF OnTheWay
    <3>2. Cardinality(OnTheWay(q, a)) \in Nat /\ Cardinality(Calls) \in Nat
      BY <3>1, FS_Subset, FS_CardinalityType
    <3>3. answers[q][a] \in Nat
      BY <2>0 DEF QuoraTypeOK, Authors
    <3>4. answers[q][a] + Cardinality(OnTheWay(q, a)) < AnswerLimit + Cardinality(Calls)
      BY <2>0 DEF AnswerInv
    <3> QED
      BY <3>2, <3>3, <3>4, QuoraAssumption
  <2> QED
    BY <2>1, <2>2, <2>3 DEF QuestionsLimited
<1> QED
  BY <1>1, Questions, PTL

\* Every variable of the questions keeps its type.
THEOREM QuoraTyped ==
  ASSUME IsFiniteSet(Calls), Calls # {}
  PROVE  QuoraSpec => []QuoraTypeOK
<1>1. QuoraInv => QuoraTypeOK
  BY DEF QuoraInv
<1> QED
  BY <1>1, Questions, PTL

\* A question pays its solver once unless two calls marked it together or a job wrote
\* over its solution, and a pending one has a job that will classify it or one that
\* ran out of attempts.
THEOREM SolutionsPaid ==
  ASSUME IsFiniteSet(Calls), Calls # {}
  PROVE  QuoraSpec => []SolversPaidOnce
<1>1. QuoraInv => SolversPaidOnce
  <2> SUFFICES ASSUME QuoraInv, NEW q \in Quoras
               PROVE  /\ q \notin contested \cup reopened => paid[q] <= 1
                      /\ Status(q) = "pending" => job[q].stage \in {"ocr", "embed"} \/ q \in dead
    BY DEF SolversPaidOnce
  <2>1. QuoraTypeOK /\ PayInv /\ JobInv
    BY DEF QuoraInv
  <2>2. paid[q] \in Nat
    BY <2>1 DEF QuoraTypeOK
  <2>3. q \notin contested \cup reopened => paid[q] <= IF Status(q) = "solved" THEN 1 ELSE 0
    BY <2>1 DEF PayInv
  <2> QED
    BY <2>1, <2>2, <2>3 DEF JobInv
<1> QED
  BY <1>1, Questions, PTL

-----------------------------------------------------------------------------
(* Push campaigns                                                            *)

Paging == {"page", "send", "mark"}
Senders == {"new", "enqueue", "record", "over"}
JobStates == {"none", "waiting", "orphan", "done"} \cup Runs

\* Campaigns that have the event key, or had.
Won(k) == sender[k] \in {"enqueue", "record"} \/ task[k] # "none"

ClaimInv ==
  ~renewed => /\ \A j, k \in Campaigns : Won(j) /\ Won(k) => j = k
              /\ ~claimed => \A k \in Campaigns : ~Won(k)

Reached(k) == Cardinality({d \in Devices : got[k][d] = 1})
Untold(k) == \A d \in Devices : got[k][d] = 0

\* A job that neither stalled nor threw has one run, which is the one that counts its messages.
Single(k) ==
  /\ task[k] \in {"none", "waiting", "orphan"} => \A s \in Runs : run[s].of # k
  /\ task[k] \in Runs => \A s \in Runs : run[s].of = k => s = task[k]
  /\ task[k] = "done" =>
       /\ \A s \in Runs : run[s].of = k => run[s].pc = "count"
       /\ \A s, t \in Runs : run[s].of = k /\ run[t].of = k => s = t
       /\ k \in swept \cup failed
       /\ (\A s \in Runs : run[s].of # k) /\ k \notin failed =>
            k \in unlogged \/ record[k] = Reached(k)
  /\ task[k] # "done" => record[k] \in {NoRow, 0}
  /\ task[k] \in {"none", "waiting"} => ~lock[k] /\ k \notin swept \cup failed /\ Untold(k)
  /\ \A d \in Devices : got[k][d] <= 1

JobOK(k) ==
  /\ sender[k] \in {"new", "enqueue"} => task[k] = "none"
  /\ sender[k] # "over" => record[k] = NoRow
  /\ task[k] \in Runs => run[task[k]].of = k /\ run[task[k]].pc # "count"
  /\ task[k] = "none" => k \notin again
  /\ k \notin again => Single(k)

\* What such a run carries at its step.
Carries(q) ==
  LET k == q.of IN
  /\ q.pc = "count" => record[k] \in {NoRow, 0}
  /\ q.pc = "lock" => ~lock[k] /\ k \notin swept \cup failed /\ Untold(k)
  /\ k \notin failed => q.counts /\ q.sent = Reached(k)
  /\ k \in failed => ~q.counts /\ q.pc \in {"release", "complete"}
  /\ q.pc \in {"page", "mark"} => \A d \in Devices : d > q.last => got[k][d] = 0
  /\ q.pc = "send" => \A d \in Devices : got[k][d] > 0 => d <= q.last /\ d \notin q.page

RunOK(q) ==
  /\ q.pc = "idle" <=> q.of = NoCampaign
  /\ q.pc = "lock" => q.last = 0 /\ q.page = {}
  /\ q.pc \in {"release", "complete"} => q.of \in swept \cup again \cup failed
  /\ q.of \in Campaigns \ again => Carries(q)

CampaignInv == (\A k \in Campaigns : JobOK(k)) /\ (\A r \in Runs : RunOK(run[r]))

\* Devices that are still to be reached can be; up to its cursor a run reached them, or
\* has them in hand.
Reaches(q) ==
  q.pc \in Paging =>
    /\ \A d \in q.page : d <= q.last
    /\ \A d \in owed[q.of] \ (passed[q.of] \cup refused[q.of]) :
         d <= q.last => got[q.of][d] > 0 \/ (q.pc = "send" /\ d \in q.page)

ReachInv ==
  /\ \A k \in Campaigns : \A d \in owed[k] :
       valid[d] /\ d \notin gone /\ (k \in Everyone \/ d \in enrolled)
  /\ \A k \in swept : \A d \in owed[k] \ (passed[k] \cup refused[k]) : got[k][d] > 0
  /\ \A r \in Runs : Reaches(run[r])

PushInv == PushTypeOK /\ ClaimInv /\ CampaignInv /\ ReachInv

-----------------------------------------------------------------------------
\* Devices are finitely many numbers.
LEMMA DevicesFinite ==
  /\ \A S \in SUBSET Devices : IsFiniteSet(S) /\ Cardinality(S) \in Nat
  /\ Devices \subseteq Nat \ {0} /\ \A d \in Devices : d <= LastDevice
  /\ LastDevice \in Nat
<1>1. LastDevice \in Nat
  BY PushCampaignAssumption
<1>2. IsFiniteSet(Devices)
  BY <1>1, FS_Interval DEF Devices
<1>3. \A S \in SUBSET Devices : IsFiniteSet(S)
  BY <1>2, FS_Subset
<1>4. \A S \in SUBSET Devices : Cardinality(S) \in Nat
  BY <1>3, FS_CardinalityType
<1>5. Devices \subseteq Nat \ {0} /\ \A d \in Devices : d <= LastDevice
  BY <1>1 DEF Devices
<1> QED
  BY <1>1, <1>3, <1>4, <1>5

\* A set of devices that is not empty has a first one.
LEMMA FirstDevice ==
  ASSUME NEW S \in SUBSET Devices, S # {}
  PROVE  \E d \in S : \A e \in S : d <= e
<1>1. S \in SUBSET Nat
  BY DevicesFinite
<1>2. PICK d \in S : \A e \in S : ~(<<e, d>> \in OpToRel(<, Nat))
  BY <1>1, NatLessThanWellFounded, WFMin, Zenon
<1>3. \A e \in S : ~(e < d)
  BY <1>1, <1>2 DEF OpToRel
<1> QED
  BY <1>1, <1>3

\* And a last one.
LEMMA LastOf ==
  ASSUME NEW S \in SUBSET Devices, S # {}
  PROVE  LET m == CHOOSE d \in S : \A e \in S : e <= d
         IN  m \in S /\ \A e \in S : e <= m
<1> DEFINE U == {n \in 0 .. LastDevice : \A e \in S : e <= n}
<1>1. U \in SUBSET Nat /\ LastDevice \in U /\ S \in SUBSET (Nat \ {0})
  BY DevicesFinite
<1>2. PICK n \in U : \A m \in U : ~(<<m, n>> \in OpToRel(<, Nat))
  BY <1>1, NatLessThanWellFounded, WFMin, Zenon
<1>8. LastDevice \in Nat
  BY DevicesFinite
<1>6. n \in Nat /\ n <= LastDevice /\ (\A e \in S : e <= n)
  <2>1. n \in U
    BY <1>2
  <2> QED
    BY <1>8, <2>1
<1>7. \A m \in U : m \in Nat /\ ~(m < n)
  <2> HIDE DEF U
  <2> QED
    BY <1>1, <1>2, <1>6 DEF OpToRel
<1>3. n \in Nat /\ n <= LastDevice /\ (\A e \in S : e <= n) /\ \A m \in U : ~(m < n)
  BY <1>6, <1>7
<1>4. n \in S
  <2> SUFFICES ASSUME n \notin S PROVE FALSE
    OBVIOUS
  <2>1. \A e \in S : e \in Nat /\ e # 0 /\ e <= n /\ e # n
    BY <1>1, <1>3
  <2>2. \A e \in S : e <= n - 1
    BY <1>3, <2>1
  <2>3. n # 0
    BY <1>3, <2>1
  <2>4. n - 1 \in 0 .. LastDevice /\ n - 1 < n
    BY <1>3, <2>3, DevicesFinite
  <2>5. n - 1 \in U
    BY <2>2, <2>4
  <2> QED
    BY <1>3, <2>4, <2>5
<1>5. \E d \in S : \A e \in S : e <= d
  BY <1>3, <1>4
<1> QED
  BY <1>5

\* What Lowest takes: only what is there, something if there is anything, nothing
\* behind what it leaves.
LEMMA LowestTakes ==
  ASSUME NEW n \in Nat \ {0}, NEW S \in SUBSET Devices
  PROVE  /\ Lowest(n, S) \in SUBSET S
         /\ S # {} => Lowest(n, S) # {}
         /\ \A d \in S, m \in Lowest(n, S) : d <= m => d \in Lowest(n, S)
         /\ \A d, m \in S : d < m => m \notin Lowest(1, S)
<1>0. S \subseteq Nat /\ \A T \in SUBSET S : IsFiniteSet(T) /\ Cardinality(T) \in Nat
  BY DevicesFinite
<1>1. Lowest(n, S) \in SUBSET S
  BY DEF Lowest
<1>2. ASSUME S # {} PROVE Lowest(n, S) # {}
  <2>1. PICK d \in S : \A e \in S : d <= e
    BY <1>2, FirstDevice
  <2>4. \A e \in S : ~(e < d)
    BY <1>0, <2>1
  <2>2. {e \in S : e < d} = {}
    BY <2>4
  <2>3. Cardinality({e \in S : e < d}) = 0
    BY <2>2, FS_EmptySet, Zenon
  <2> QED
    BY <2>1, <2>3 DEF Lowest
<1>3. ASSUME NEW d \in S, NEW m \in Lowest(n, S), d <= m PROVE d \in Lowest(n, S)
  <2> DEFINE D == {e \in S : e < d}
             M == {e \in S : e < m}
  <2>1. m \in S /\ Cardinality(M) < n
    BY <1>3 DEF Lowest
  <2>6. \A e \in S : e < d => e < m
    BY <1>0, <1>3, <2>1
  <2>2. D \in SUBSET M /\ M \in SUBSET S
    BY <2>6
  <2> HIDE DEF D, M
  <2>3. D \in SUBSET S /\ IsFiniteSet(M) /\ Cardinality(D) \in Nat /\ Cardinality(M) \in Nat
    BY <1>0, <2>2
  <2>5. Cardinality(D) <= Cardinality(M)
    BY <2>2, <2>3, FS_Subset
  <2>4. Cardinality(D) < n
    BY <2>1, <2>3, <2>5
  <2> QED
    BY <1>3, <2>4 DEF Lowest, D
<1>4. ASSUME NEW d \in S, NEW m \in S, d < m PROVE m \notin Lowest(1, S)
  <2> DEFINE M == {e \in S : e < m}
  <2>1. M \in SUBSET S /\ M # {}
    BY <1>4
  <2>2. Cardinality(M) \in Nat /\ Cardinality(M) # 0
    BY <1>0, <2>1, FS_EmptySet
  <2>3. ~(Cardinality(M) < 1)
    BY <2>2
  <2> QED
    BY <2>3 DEF Lowest
<1> QED
  BY <1>1, <1>2, <1>3, <1>4

\* A page holds devices behind the cursor only; of these, those that can be reached
\* are on it up to its last one, or the paging passes over them.
LEMMA PageTakes ==
  ASSUME PushTypeOK, NEW k \in Campaigns, NEW last \in 0 .. LastDevice,
         NEW d \in Devices, d > last, valid[d], k \in Everyone \/ d \in enrolled
  PROVE  \/ d \in IF k \in Everyone
                  THEN IF last > 0 /\ ~valid[last] THEN Lowest(1, From(k, last)) ELSE {}
                  ELSE IF last \in enrolled \cup {0} THEN {} ELSE {e \in enrolled : e > last}
         \/ /\ Page(k, last) # {}
            /\ \A m \in Page(k, last) : d <= m => d \in Page(k, last)
<1> DEFINE F == From(k, last)
           R == F \ (IF last = 0 THEN {} ELSE Lowest(1, F))
<1>0. enrolled \subseteq Devices /\ valid \in [Devices -> BOOLEAN] /\ last \in Nat /\ d \in Nat
  BY DevicesFinite DEF PushTypeOK
<1>1. F \in SUBSET Devices
  BY <1>0 DEF From
<1>2. R \in SUBSET Devices
  BY <1>1
<1>3. Page(k, last) = Lowest(PageSize, R) /\ PageSize \in Nat \ {0}
  BY PushCampaignAssumption DEF Page
<1>4. CASE k \in Everyone /\ last > 0 /\ ~valid[last] /\ d \in Lowest(1, F)
  BY <1>4
<1>5. CASE k \notin Everyone /\ last \notin enrolled \cup {0}
  BY <1>5
<1>6. CASE ~(k \in Everyone /\ last > 0 /\ ~valid[last] /\ d \in Lowest(1, F))
           /\ ~(k \notin Everyone /\ last \notin enrolled \cup {0})
  <2>1. d \in F
    BY <1>0, <1>6 DEF From
  <2>2. last # 0 /\ last \in F => d \notin Lowest(1, F)
    BY <1>1, <2>1, LowestTakes
  <2>3. last # 0 => last \in F \/ d \notin Lowest(1, F)
    BY <1>0, <1>6 DEF From, Devices
  <2>4. d \in R
    BY <2>1, <2>2, <2>3
  <2> HIDE DEF R
  <2>5. /\ Lowest(PageSize, R) # {}
        /\ \A m \in Lowest(PageSize, R) : d <= m => d \in Lowest(PageSize, R)
    BY <1>2, <1>3, <2>4, LowestTakes
  <2> QED
    BY <1>3, <2>5
<1> QED
  BY <1>4, <1>5, <1>6

\* A page, and the window it is cut from, are devices.
LEMMA PageBehind ==
  ASSUME PushTypeOK, NEW k \in Campaigns, NEW last \in 0 .. LastDevice
  PROVE  /\ Page(k, last) \in SUBSET Devices /\ Lowest(1, From(k, last)) \in SUBSET Devices
         /\ \A d \in Page(k, last) : d > last
<1> DEFINE F == From(k, last)
           R == F \ (IF last = 0 THEN {} ELSE Lowest(1, F))
<1>0. enrolled \subseteq Devices /\ valid \in [Devices -> BOOLEAN] /\ last \in Nat
      /\ Devices \subseteq Nat \ {0}
  BY DevicesFinite DEF PushTypeOK
<1>1. F \in SUBSET Devices /\ \A d \in F : d >= last
  BY <1>0 DEF From
<1>2. R \in SUBSET Devices
  BY <1>1
<1>3. Page(k, last) = Lowest(PageSize, R) /\ PageSize \in Nat \ {0}
  BY PushCampaignAssumption DEF Page
<1>4. Lowest(1, F) \in SUBSET F /\ (last \in F => Lowest(1, F) # {})
  BY <1>1, LowestTakes
<1>5. ASSUME last \in F PROVE last \in Lowest(1, F)
  <2>1. PICK m \in Lowest(1, F) : m \in F
    BY <1>4, <1>5
  <2>2. last <= m
    BY <1>1, <2>1
  <2> QED
    BY <1>1, <1>5, <2>1, <2>2, LowestTakes
<1>6. ASSUME NEW d \in R PROVE d > last
  <2>1. d \in F /\ d \in Nat /\ d # 0 /\ d >= last
    BY <1>0, <1>1
  <2>2. last # 0 => d # last
    BY <1>5, <2>1
  <2> QED
    BY <1>0, <2>1, <2>2
<1> HIDE DEF R
<1>8. R \in SUBSET Devices /\ PageSize \in Nat \ {0}
  BY <1>2, <1>3
<1>7. Lowest(PageSize, R) \in SUBSET R
  BY <1>8, LowestTakes
<1> QED
  BY <1>1, <1>2, <1>3, <1>4, <1>6, <1>7
\* Every variable keeps its type.
LEMMA PushTypeStep == ASSUME PushTypeOK, CampaignInv, [PushNext]_pushVars PROVE PushTypeOK'
<1> USE PushCampaignAssumption
<1>0. /\ sender \in [Campaigns -> Senders] /\ task \in [Campaigns -> JobStates]
      /\ run \in [Runs -> Run] /\ Spare \in Run /\ owed \in [Campaigns -> SUBSET Devices]
      /\ got \in [Campaigns -> [Devices -> 0..2]] /\ passed \in [Campaigns -> SUBSET Devices]
      /\ refused \in [Campaigns -> SUBSET Devices] /\ tries \in [Campaigns -> Nat]
  BY DEF PushTypeOK, Senders, JobStates, Spare, Run
<1>t. Trouble => troubles' \in 0 .. MaxTroubles
  BY DEF Trouble, PushTypeOK
<1>1. ASSUME NEW k \in Campaigns,
             DedupOnce(k) \/ CampaignQueueAdd(k) \/ CreateNotificationLog(k) \/ SenderFails(k)
      PROVE  PushTypeOK'
  <2>1. CASE DedupOnce(k)
    <3>1. sender' \in [Campaigns -> Senders] /\ claimed' \in BOOLEAN
      BY <1>0, <2>1 DEF DedupOnce, Becomes, Senders
    <3> QED
      BY <2>1, <3>1 DEF DedupOnce, PushTypeOK, Senders, deviceVars, runVars
  <2>2. CASE CampaignQueueAdd(k)
    <3>1. sender' \in [Campaigns -> Senders] /\ task' \in [Campaigns -> JobStates]
      BY <1>0, <2>2 DEF CampaignQueueAdd, Becomes, Senders, JobStates
    <3>2. owed' \in [Campaigns -> SUBSET Devices]
      <4> DEFINE set == {d \in Audience(k) \ gone : valid[d]}
      <4>1. set \in SUBSET Devices /\ owed' = [owed EXCEPT ![k] = set]
        BY <2>2 DEF PushTypeOK, Audience, CampaignQueueAdd
      <4> HIDE DEF set
      <4> QED
        BY <1>0, <4>1
    <3> QED
      BY <2>2, <3>1, <3>2 DEF CampaignQueueAdd, PushTypeOK, Senders, JobStates, deviceVars
  <2>3. CASE CreateNotificationLog(k)
    <3>1. sender' \in [Campaigns -> Senders] /\ record' \in [Campaigns -> Nat \cup {NoRow}]
      BY <1>0, <2>3 DEF CreateNotificationLog, Becomes, Senders, PushTypeOK
    <3> QED
      BY <2>3, <3>1 DEF CreateNotificationLog, PushTypeOK, Senders, deviceVars, runVars
  <2>4. CASE SenderFails(k)
    <3>1. sender' \in [Campaigns -> Senders]
      BY <1>0, <2>4 DEF SenderFails, Becomes, Senders
    <3>2. troubles' \in 0 .. MaxTroubles
      BY <1>t, <2>4 DEF SenderFails
    <3> QED
      BY <2>4, <3>1, <3>2 DEF SenderFails, PushTypeOK, Senders, deviceVars
  <2> QED
    BY <1>1, <2>1, <2>2, <2>3, <2>4
<1>2. ASSUME NEW k \in Campaigns, JobStalls(k) \/ NotificationLockExpires(k) PROVE PushTypeOK'
  <2>1. CASE JobStalls(k)
    <3>1. task' \in [Campaigns -> JobStates]
      BY <1>0, <2>1 DEF JobStalls, JobStates
    <3>2. troubles' \in 0 .. MaxTroubles /\ again' \subseteq Campaigns /\ stalled' \subseteq Campaigns
      BY <1>t, <2>1 DEF JobStalls, PushTypeOK
    <3> QED
      BY <2>1, <3>1, <3>2 DEF JobStalls, PushTypeOK, JobStates, senderVars, deviceVars
  <2>2. CASE NotificationLockExpires(k)
    <3>1. lock' \in [Campaigns -> BOOLEAN]
      BY <2>2, Zenon DEF NotificationLockExpires, PushTypeOK
    <3> QED
      BY <2>2, <3>1 DEF NotificationLockExpires, PushTypeOK, Quiet, deviceVars, senderVars
  <2> QED
    BY <1>2, <2>1, <2>2
<1>3. ASSUME NEW k \in Campaigns, NEW r \in Runs, TakeJob(r, k) PROVE PushTypeOK'
  <2>1. run' \in [Runs -> Run] /\ task' \in [Campaigns -> JobStates]
    BY <1>0, <1>3 DEF TakeJob, Run, Spare, JobStates
  <2> QED
    BY <1>3, <2>1 DEF TakeJob, PushTypeOK, Quiet, deviceVars, senderVars, JobStates
<1>r. ASSUME NEW r \in Runs, ~Does(r, "idle")
      PROVE  run[r].of \in Campaigns
  BY <1>0, <1>r DEF CampaignInv, RunOK, Does, Run
<1>c. ASSUME NEW r \in Runs, run' = [run EXCEPT ![r].pc = "complete", ![r].counts = FALSE]
      PROVE  run' \in [Runs -> Run]
  <2> DEFINE no == FALSE
  <2>1. no \in BOOLEAN /\ run' = [run EXCEPT ![r].pc = "complete", ![r].counts = no]
    BY <1>c
  <2> HIDE DEF no
  <2> QED
    BY <1>0, <2>1 DEF Run
<1>4. ASSUME NEW r \in Runs, AcquireLock(r) PROVE PushTypeOK'
  <2>1. run' \in [Runs -> Run]
    <3>1. CASE lock[run[r].of]
      BY <1>4, <1>c, <3>1 DEF AcquireLock
    <3>2. CASE ~lock[run[r].of]
      <4>1. run' = [run EXCEPT ![r].pc = "page"]
        BY <1>4, <3>2, Zenon DEF AcquireLock, Goes
      <4> QED
        BY <1>0, <4>1 DEF Run
    <3> QED
      BY <3>1, <3>2
  <2>2. lock' \in [Campaigns -> BOOLEAN]
    BY <1>4, Zenon DEF AcquireLock, PushTypeOK
  <2> QED
    BY <1>4, <2>1, <2>2 DEF AcquireLock, PushTypeOK, Quiet, deviceVars, senderVars
<1>16. ASSUME NEW r \in Runs, AcquireFails(r) \/ ReleaseFails(r), run[r].of \in Campaigns
       PROVE  PushTypeOK'
  <2>1. FailJob(r) /\ Trouble
    BY <1>16 DEF AcquireFails, ReleaseFails
  <2>2. /\ UNCHANGED <<senderVars, deviceVars, got, owed, passed, refused, swept, stalled, failed>>
        /\ \E b \in BOOLEAN : lock' \in {lock, [lock EXCEPT ![run[r].of] = b]}
    BY <1>16, Zenon DEF AcquireFails, ReleaseFails
  <2>3. lock' \in [Campaigns -> BOOLEAN]
    BY <2>2 DEF PushTypeOK
  <2>4. run' \in [Runs -> Run] /\ again' \subseteq Campaigns
    BY <1>0, <1>16, <2>1 DEF FailJob, PushTypeOK
  <2>5. tries' \in [Campaigns -> Nat] /\ task' \in [Campaigns -> JobStates]
    <3>1. PICK k \in Campaigns : k = run[r].of
      BY <1>16
    <3>2. PICK next \in {"waiting", "done"} :
            IF task[k] = r
            THEN tries' = [tries EXCEPT ![k] = @ + 1] /\ task' = [task EXCEPT ![k] = next]
            ELSE tries' = tries /\ task' = task
      BY <2>1, <3>1 DEF FailJob
    <3>3. next \in JobStates
      BY DEF JobStates
    <3>4. task' \in [Campaigns -> JobStates]
      BY <1>0, <3>2, <3>3
    <3>5. tries' = tries \/ tries' = [tries EXCEPT ![k] = @ + 1]
      BY <3>2
    <3>6. tries' \in [Campaigns -> Nat]
      BY <1>0, <3>5
    <3> QED
      BY <3>4, <3>6
  <2> QED
    BY <1>t, <2>1, <2>2, <2>3, <2>4, <2>5 DEF PushTypeOK, deviceVars, senderVars, JobStates
<1>17. ASSUME NEW r \in Runs, AcquireResent(r), run[r].of \in Campaigns PROVE PushTypeOK'
  <2>1. run' \in [Runs -> Run]
    BY <1>17, <1>c DEF AcquireResent
  <2>2. lock' \in [Campaigns -> BOOLEAN] /\ failed' \subseteq Campaigns
    BY <1>17, Zenon DEF AcquireResent, PushTypeOK
  <2>3. troubles' \in 0 .. MaxTroubles
    BY <1>17, <1>t DEF AcquireResent
  <2> QED
    BY <1>17, <2>1, <2>2, <2>3 DEF AcquireResent, PushTypeOK, deviceVars, senderVars
<1>5. ASSUME NEW r \in Runs, ReadPage(r), run[r].of \in Campaigns PROVE PushTypeOK'
  <2> DEFINE k == run[r].of
             last == run[r].last
  <2>1. k \in Campaigns /\ last \in 0 .. LastDevice
    BY <1>0, <1>5 DEF Run
  <2>2. Page(k, last) \in SUBSET Devices /\ Lowest(1, From(k, last)) \in SUBSET Devices
    BY <2>1, PageBehind
  <2>3. Page(k, last) # {} =>
          (CHOOSE d \in Page(k, last) : \A e \in Page(k, last) : e <= d) \in 0 .. LastDevice
    <3> DEFINE page == Page(k, last)
    <3>1. page \in SUBSET Devices
      BY <2>2
    <3>2. ASSUME page # {} PROVE (CHOOSE d \in page : \A e \in page : e <= d) \in Devices
      <4> HIDE DEF page
      <4> QED
        BY <3>1, <3>2, LastOf
    <3>3. Devices \subseteq 0 .. LastDevice
      BY DEF Devices
    <3> QED
      BY <3>2, <3>3
  <2>4. run' \in [Runs -> Run]
    <3>1. CASE Page(k, last) = {}
      <4>1. run' = [run EXCEPT ![r].pc = "release"]
        BY <1>5, <3>1 DEF ReadPage, Goes
      <4> QED
        BY <1>0, <4>1 DEF Run
    <3>2. CASE Page(k, last) # {}
      <4> DEFINE page == Page(k, last)
                 top == CHOOSE d \in page : \A e \in page : e <= d
      <4>1. run' = [run EXCEPT ![r].pc = "send", ![r].page = page, ![r].last = top]
        BY <1>5, <3>2 DEF ReadPage
      <4>2. page \in SUBSET Devices /\ top \in 0 .. LastDevice
        BY <2>2, <2>3, <3>2
      <4> HIDE DEF page, top
      <4> QED
        <5> DEFINE q == [run[r] EXCEPT !.pc = "send", !.page = page, !.last = top]
        <5>1. q \in Run
          BY <1>0, <4>2 DEF Run
        <5>2. run' = [run EXCEPT ![r] = q]
          BY <4>1
        <5> HIDE DEF q
        <5> QED
          BY <1>0, <5>1, <5>2
    <3> QED
      BY <3>1, <3>2
  <2>5. passed' \in [Campaigns -> SUBSET Devices]
    <3> DEFINE over == IF k \in Everyone
                       THEN (IF last > 0 /\ ~valid[last] THEN Lowest(1, From(k, last)) ELSE {})
                       ELSE IF last \in enrolled \cup {0} THEN {} ELSE {d \in enrolled : d > last}
    <3>1. over \in SUBSET Devices
      BY <2>2 DEF PushTypeOK
    <3>2. passed' = [passed EXCEPT ![k] = @ \cup over]
      BY <1>5 DEF ReadPage
    <3> HIDE DEF over
    <3> QED
      BY <1>0, <3>1, <3>2
  <2>6. swept' \in SUBSET Campaigns
    BY <1>5, <2>1 DEF ReadPage, PushTypeOK
  <2> QED
    BY <1>5, <2>4, <2>5, <2>6 DEF ReadPage, PushTypeOK, Quiet, deviceVars, senderVars
<1>g. ASSUME NEW k, NEW reached, Tell(k, reached)
      PROVE  got' \in [Campaigns -> [Devices -> 0..2]]
  <2>1. ASSUME k \in Campaigns
        PROVE  [d \in Devices |-> IF d \in reached THEN (IF got[k][d] = 0 THEN 1 ELSE 2)
                                   ELSE got[k][d]] \in [Devices -> 0..2]
    <3>1. got[k] \in [Devices -> 0..2]
      BY <1>0, <2>1
    <3> QED
      BY <3>1
  <2> QED
    BY <1>0, <1>g, <2>1 DEF Tell
<1>6. ASSUME NEW r \in Runs, SendToTokens(r) PROVE PushTypeOK'
  <2> DEFINE k == run[r].of
             tokens == PageTokens(run[r])
  <2>0. PICK failing \in SUBSET tokens :
          LET reached == tokens \ (gone \cup failing)
              invalid == (tokens \cap gone) \ failing
          IN  /\ IF failing = {} THEN UNCHANGED troubles ELSE Trouble
              /\ Tell(k, reached) /\ refused' = [refused EXCEPT ![k] = @ \cup failing]
              /\ run' = [run EXCEPT ![r].sent = @ + Cardinality(reached), ![r].page = invalid,
                                    ![r].pc = IF invalid = {} THEN "page" ELSE "mark"]
              /\ UNCHANGED <<senderVars, deviceVars, task, tries, lock, owed, passed, swept, again,
                             stalled, failed>>
    BY <1>6 DEF SendToTokens
  <2>1. PICK reached, invalid :
          /\ reached = tokens \ (gone \cup failing) /\ invalid = (tokens \cap gone) \ failing
          /\ IF failing = {} THEN UNCHANGED troubles ELSE Trouble
          /\ Tell(k, reached) /\ refused' = [refused EXCEPT ![k] = @ \cup failing]
          /\ run' = [run EXCEPT ![r].sent = @ + Cardinality(reached), ![r].page = invalid,
                                ![r].pc = IF invalid = {} THEN "page" ELSE "mark"]
          /\ UNCHANGED <<senderVars, deviceVars, task, tries, lock, owed, passed, swept, again,
                         stalled, failed>>
    BY <2>0
  <2>2. tokens \in SUBSET Devices
    BY <1>0 DEF PageTokens, Run
  <2>3. /\ failing \in SUBSET Devices /\ reached \in SUBSET Devices /\ invalid \in SUBSET Devices
        /\ Cardinality(reached) \in Nat
    BY <2>1, <2>2, DevicesFinite
  <2> HIDE DEF tokens
  <2>4. run' \in [Runs -> Run]
    <3> DEFINE sum == run[r].sent + Cardinality(reached)
               step == IF invalid = {} THEN "page" ELSE "mark"
               q == [run[r] EXCEPT !.sent = sum, !.page = invalid, !.pc = step]
    <3>2. run' = [run EXCEPT ![r] = q]
      BY <2>1
    <3>3. sum \in Nat /\ step \in {"page", "mark"}
      BY <1>0, <2>3 DEF Run
    <3> HIDE DEF sum, step
    <3>1. q \in Run
      BY <1>0, <2>3, <3>3 DEF Run
    <3> HIDE DEF q
    <3> QED
      BY <1>0, <3>1, <3>2
  <2>5. got' \in [Campaigns -> [Devices -> 0..2]]
    BY <1>g, <2>1
  <2>6. refused' \in [Campaigns -> SUBSET Devices]
    <3> HIDE DEF k
    <3> QED
      BY <1>0, <2>1, <2>3
  <2>7. troubles' \in 0 .. MaxTroubles
    BY <1>t, <2>1 DEF PushTypeOK
  <2> QED
    BY <2>1, <2>4, <2>5, <2>6, <2>7 DEF PushTypeOK, deviceVars, senderVars
<1>7. ASSUME NEW r \in Runs, InvalidateTokens(r) PROVE PushTypeOK'
  <2>1. run' \in [Runs -> Run] /\ owed' \in [Campaigns -> SUBSET Devices]
    BY <1>0, <1>7 DEF InvalidateTokens, Run
  <2>2. valid' \in [Devices -> BOOLEAN]
    BY <1>7, Zenon DEF InvalidateTokens, PushTypeOK
  <2> QED
    BY <1>7, <2>1, <2>2 DEF InvalidateTokens, PushTypeOK, senderVars
<1>8. ASSUME NEW r \in Runs, SendFails(r), run[r].of \in Campaigns PROVE PushTypeOK'
  <2>1. run' \in [Runs -> Run]
    BY <1>0, <1>8 DEF SendFails, Run
  <2>2. got' \in [Campaigns -> [Devices -> 0..2]]
    BY <1>8, <1>g DEF SendFails
  <2>3. troubles' \in 0 .. MaxTroubles /\ failed' \subseteq Campaigns
    BY <1>8, <1>t DEF SendFails, PushTypeOK
  <2> QED
    BY <1>8, <2>1, <2>2, <2>3 DEF SendFails, PushTypeOK, deviceVars, senderVars
<1>9. ASSUME NEW r \in Runs, ReleaseLock(r) PROVE PushTypeOK'
  <2>1. run' \in [Runs -> Run]
    BY <1>0, <1>9 DEF ReleaseLock, Goes, Run
  <2>2. lock' \in [Campaigns -> BOOLEAN]
    BY <1>9 DEF ReleaseLock, PushTypeOK
  <2> QED
    BY <1>9, <2>1, <2>2 DEF ReleaseLock, PushTypeOK, Quiet, deviceVars, senderVars
<1>10. ASSUME NEW r \in Runs, CompleteJob(r) PROVE PushTypeOK'
  <2>1. run' \in [Runs -> Run] /\ task' \in [Campaigns -> JobStates]
    <3>1. task' \in [Campaigns -> JobStates]
      BY <1>0, <1>10, Zenon DEF CompleteJob, JobStates
    <3>2. run' = [run EXCEPT ![r].pc = "count"] \/ run' = [run EXCEPT ![r] = Spare]
      BY <1>10, Zenon DEF CompleteJob, Goes
    <3>4. [run[r] EXCEPT !.pc = "count"] \in Run
      BY <1>0 DEF Run
    <3>3. run' \in [Runs -> Run]
      BY <1>0, <3>2, <3>4
    <3> QED
      BY <3>1, <3>3
  <2> QED
    <3>1. UNCHANGED <<senderVars, deviceVars, tries, again, stalled, troubles, lock, got, owed,
                      passed, refused, swept, failed>>
      BY <1>10 DEF CompleteJob, Quiet
    <3> QED
      BY <2>1, <3>1 DEF PushTypeOK, deviceVars, senderVars, JobStates
<1>11. ASSUME NEW r \in Runs, CountSent(r), run[r].of \in Campaigns PROVE PushTypeOK'
  <2>1. run' \in [Runs -> Run]
    BY <1>0, <1>11 DEF CountSent
  <2>2. record[run[r].of] # NoRow => record[run[r].of] + run[r].sent \in Nat
    BY <1>0, <1>11 DEF PushTypeOK, Run, NoRow
  <2>3. record' \in [Campaigns -> Nat \cup {NoRow}] /\ unlogged' \in SUBSET Campaigns
    <3>1. record \in [Campaigns -> Nat \cup {NoRow}] /\ unlogged \in SUBSET Campaigns
      BY DEF PushTypeOK
    <3> QED
      BY <1>11, <2>2, <3>1 DEF CountSent
  <2> QED
    BY <1>11, <2>1, <2>3 DEF CountSent, PushTypeOK, deviceVars
<1>12. ASSUME NEW r \in Runs, RunDies(r), run[r].of \in Campaigns PROVE PushTypeOK'
  <2>1. run' \in [Runs -> Run] /\ task' \in [Campaigns -> JobStates]
    BY <1>0, <1>12 DEF RunDies, JobStates
  <2>2. troubles' \in 0 .. MaxTroubles
    BY <1>12, <1>t DEF RunDies
  <2> QED
    BY <1>12, <2>1, <2>2 DEF RunDies, PushTypeOK, deviceVars, JobStates
<1>13. ASSUME NEW d \in Devices, RegisterDevice(d) \/ Uninstall(d) \/ EnrolmentChanges(d)
       PROVE  PushTypeOK'
  <2>1. CASE RegisterDevice(d)
    <3>1. valid' \in [Devices -> BOOLEAN]
      BY <2>1, Zenon DEF RegisterDevice, PushTypeOK
    <3> QED
      BY <2>1, <3>1 DEF RegisterDevice, Change, PushTypeOK, senderVars
  <2>2. CASE Uninstall(d)
    BY <1>0, <2>2 DEF Uninstall, Change, Leaves, PushTypeOK, senderVars
  <2>3. CASE EnrolmentChanges(d)
    BY <1>0, <2>3 DEF EnrolmentChanges, Change, Leaves, PushTypeOK, senderVars
  <2> QED
    BY <1>13, <2>1, <2>2, <2>3
<1>14. ClaimExpires \/ UNCHANGED pushVars => PushTypeOK'
  BY DEF ClaimExpires, PushTypeOK, pushVars, senderVars, deviceVars, runVars
<1>15. ASSUME NEW r \in Runs, \/ ReadPage(r) \/ SendFails(r) \/ CountSent(r) \/ RunDies(r)
                               \/ AcquireFails(r) \/ AcquireResent(r) \/ ReleaseFails(r)
       PROVE  run[r].of \in Campaigns
  <2>1. ~Does(r, "idle")
    BY <1>15 DEF ReadPage, SendFails, CountSent, RunDies, AcquireFails, AcquireResent, ReleaseFails,
      Does
  <2> QED
    BY <1>r, <2>1
<1> QED
  BY <1>1, <1>2, <1>3, <1>4, <1>5, <1>6, <1>7, <1>8, <1>9, <1>10, <1>11, <1>12, <1>13, <1>14, <1>15,
     <1>16, <1>17 DEF PushNext

\* While the claim of the key lasts one campaign has it.
LEMMA ClaimStep == ASSUME PushTypeOK, ClaimInv, [PushNext]_pushVars PROVE ClaimInv'
<1>0. /\ sender \in [Campaigns -> Senders] /\ task \in [Campaigns -> JobStates]
      /\ "none" \notin Runs
  BY PushCampaignAssumption DEF PushTypeOK, Senders, JobStates
<1>1. ASSUME UNCHANGED <<claimed, renewed>>, \A k \in Campaigns : Won(k)' => Won(k)
      PROVE  ClaimInv'
  BY <1>1 DEF ClaimInv
<1>2. ASSUME NEW k \in Campaigns, DedupOnce(k) PROVE ClaimInv'
  <2>1. CASE claimed
    <3>1. sender' = [sender EXCEPT ![k] = "over"] /\ UNCHANGED <<task, renewed>> /\ claimed'
      BY <1>2, <2>1 DEF DedupOnce, Becomes, runVars
    <3> QED
      BY <1>0, <2>1, <3>1 DEF ClaimInv, Won
  <2>2. CASE ~claimed
    <3>1. sender' = [sender EXCEPT ![k] = "enqueue"] /\ UNCHANGED <<task, renewed>> /\ claimed'
      BY <1>2, <2>2 DEF DedupOnce, Becomes, runVars
    <3> QED
      BY <1>0, <2>2, <3>1 DEF ClaimInv, Won
  <2> QED
    BY <2>1, <2>2
<1>3. ClaimExpires => ClaimInv'
  BY DEF ClaimExpires, ClaimInv
<1>4. ASSUME NEW k \in Campaigns,
             CampaignQueueAdd(k) \/ CreateNotificationLog(k) \/ SenderFails(k)
      PROVE  ClaimInv'
  <2>1. CASE CampaignQueueAdd(k)
    <3>1. /\ sender[k] = "enqueue" /\ sender' = [sender EXCEPT ![k] = "record"]
          /\ task' = [task EXCEPT ![k] = "waiting"] /\ UNCHANGED <<claimed, renewed>>
      BY <2>1 DEF CampaignQueueAdd, Becomes
    <3> QED
      BY <1>0, <1>1, <3>1 DEF Won
  <2>2. CASE CreateNotificationLog(k) \/ SenderFails(k)
    <3>1. sender' = [sender EXCEPT ![k] = "over"] /\ UNCHANGED <<claimed, renewed, task>>
      BY <2>2 DEF CreateNotificationLog, SenderFails, Becomes, runVars
    <3> QED
      BY <1>0, <1>1, <3>1 DEF Won
  <2> QED
    BY <1>4, <2>1, <2>2
<1>5. ASSUME NEW k \in Campaigns, JobStalls(k) \/ \E r \in Runs : TakeJob(r, k) PROVE ClaimInv'
  <2>1. UNCHANGED <<claimed, renewed, sender>> /\ task[k] # "none"
    BY <1>0, <1>5 DEF JobStalls, TakeJob, Quiet, senderVars
  <2>2. \A j \in Campaigns \ {k} : task'[j] = task[j]
    BY <1>0, <1>5 DEF JobStalls, TakeJob
  <2> QED
    BY <1>1, <2>1, <2>2 DEF Won
<1>6. ASSUME NEW r \in Runs, CompleteJob(r) \/ RunDies(r) \/ AcquireFails(r) \/ ReleaseFails(r)
      PROVE  ClaimInv'
  <2>1. UNCHANGED <<claimed, renewed, sender>>
    BY <1>6 DEF CompleteJob, RunDies, AcquireFails, ReleaseFails, Quiet, senderVars
  <2>2. \A j \in Campaigns : task'[j] = task[j] \/ task[j] = r
    BY <1>0, <1>6 DEF CompleteJob, RunDies, AcquireFails, ReleaseFails, FailJob
  <2> QED
    BY <1>0, <1>1, <2>1, <2>2 DEF Won
<1>7. ASSUME NEW r \in Runs, \/ AcquireLock(r) \/ ReadPage(r) \/ SendToTokens(r)
                             \/ InvalidateTokens(r) \/ SendFails(r) \/ ReleaseLock(r) \/ CountSent(r)
                             \/ AcquireResent(r)
      PROVE  ClaimInv'
  <2>1. UNCHANGED <<claimed, renewed, sender, task>>
    BY <1>7 DEF AcquireLock, AcquireResent, ReadPage, SendToTokens, InvalidateTokens, SendFails,
      ReleaseLock, CountSent, Quiet, senderVars
  <2> QED
    BY <1>1, <2>1 DEF Won
<1>8. ASSUME NEW d \in Devices, RegisterDevice(d) \/ Uninstall(d) \/ EnrolmentChanges(d)
      PROVE  ClaimInv'
  <2>1. UNCHANGED <<claimed, renewed, sender, task>>
    BY <1>8 DEF RegisterDevice, Uninstall, EnrolmentChanges, Change, senderVars
  <2> QED
    BY <1>1, <2>1 DEF Won
<1>9. ASSUME (\E k \in Campaigns : NotificationLockExpires(k)) \/ UNCHANGED pushVars
      PROVE  ClaimInv'
  <2>1. UNCHANGED <<claimed, renewed, sender, task>>
    BY <1>9 DEF NotificationLockExpires, Quiet, senderVars, pushVars, runVars
  <2> QED
    BY <1>1, <2>1 DEF Won
<1> QED
  BY <1>2, <1>3, <1>4, <1>5, <1>6, <1>7, <1>8, <1>9 DEF PushNext

-----------------------------------------------------------------------------
\* Whatever else a step does, it is about campaign k: the others, and their runs, stay
\* as they are, and who makes it keeps to k.
About(k) ==
  /\ \A j \in Campaigns \ {k} :
       /\ sender'[j] = sender[j] /\ task'[j] = task[j] /\ got'[j] = got[j]
       /\ record'[j] = record[j] /\ lock'[j] = lock[j]
       /\ (j \in swept' <=> j \in swept) /\ (j \in again' <=> j \in again)
       /\ (j \in failed' <=> j \in failed) /\ (j \in unlogged' <=> j \in unlogged)
  /\ \A s \in Runs : run'[s] # run[s] =>
       run[s].of \in {k, NoCampaign} /\ run'[s].of \in {k, NoCampaign}

\* Then k is all there is to look at.
LEMMA JobFrame ==
  ASSUME PushTypeOK, CampaignInv, NEW k \in Campaigns, About(k), JobOK(k)',
         \A s \in Runs : run[s].of = k \/ run'[s] # run[s] => RunOK(run[s])'
  PROVE  CampaignInv'
<1>0. run \in [Runs -> Run] /\ NoCampaign \notin Campaigns /\ Runs \cap {"none", "waiting", "orphan", "done"} = {}
  BY PushCampaignAssumption DEF PushTypeOK
<1>1. ASSUME NEW j \in Campaigns, j # k PROVE JobOK(j)'
  <2>1. /\ sender'[j] = sender[j] /\ task'[j] = task[j] /\ got'[j] = got[j]
        /\ record'[j] = record[j] /\ lock'[j] = lock[j]
        /\ (j \in swept' <=> j \in swept) /\ (j \in again' <=> j \in again)
        /\ (j \in failed' <=> j \in failed) /\ (j \in unlogged' <=> j \in unlogged)
    BY <1>1 DEF About
  <2>2. \A s \in Runs : /\ run[s].of = j => run'[s] = run[s]
                        /\ run'[s].of = j => run'[s] = run[s]
    BY <1>0, <1>1 DEF About
  <2>3. \A s \in Runs : run'[s].of = j <=> run[s].of = j
    BY <2>2
  <2>4. Reached(j)' = Reached(j) /\ (Untold(j)' <=> Untold(j))
    BY <2>1 DEF Reached, Untold
  <2>5. JobOK(j)
    BY DEF CampaignInv
  <2>6. Single(j) => Single(j)'
    BY <2>1, <2>2, <2>3, <2>4 DEF Single
  <2> QED
    BY <2>1, <2>2, <2>5, <2>6 DEF JobOK
<1>2. ASSUME NEW s \in Runs, run[s].of # k, run'[s] = run[s] PROVE RunOK(run[s])'
  <2> DEFINE j == run[s].of
  <2>1. RunOK(run[s]) /\ j \in Campaigns \cup {NoCampaign}
    BY <1>0 DEF CampaignInv, Run
  <2>2. CASE j \in Campaigns
    <3>1. /\ got'[j] = got[j] /\ record'[j] = record[j] /\ lock'[j] = lock[j]
          /\ (j \in swept' <=> j \in swept) /\ (j \in again' <=> j \in again)
          /\ (j \in failed' <=> j \in failed)
      BY <1>2, <2>2 DEF About
    <3>2. Reached(j)' = Reached(j) /\ (Untold(j)' <=> Untold(j))
      BY <1>2, <3>1 DEF Reached, Untold
    <3> QED
      BY <1>2, <2>1, <3>1, <3>2 DEF RunOK, Carries
  <2>3. CASE j = NoCampaign
    BY <1>0, <1>2, <2>1, <2>3 DEF RunOK
  <2> QED
    BY <2>1, <2>2, <2>3
<1>3. \A j \in Campaigns : JobOK(j)'
  BY <1>1
<1>4. \A s \in Runs : RunOK(run[s])'
  BY <1>2
<1> QED
  BY <1>3, <1>4 DEF CampaignInv

\* What is known of a run and of its campaign.
LEMMA RunKnown ==
  ASSUME PushTypeOK, CampaignInv, NEW r \in Runs, run[r].pc # "idle"
  PROVE  /\ run[r] \in Run /\ run[r].of \in Campaigns /\ RunOK(run[r]) /\ JobOK(run[r].of)
         /\ run[r].of \notin again =>
              /\ Single(run[r].of) /\ Carries(run[r])
              /\ IF run[r].pc = "count" THEN task[run[r].of] = "done" ELSE task[run[r].of] = r
              /\ \A s \in Runs : run[s].of = run[r].of => s = r
<1>0. /\ run[r] \in Run /\ Runs \cap {"none", "waiting", "orphan", "done"} = {}
      /\ task \in [Campaigns -> JobStates]
  BY PushCampaignAssumption DEF PushTypeOK, JobStates
<1>1. run[r].of \in Campaigns /\ RunOK(run[r]) /\ JobOK(run[r].of)
  BY <1>0 DEF CampaignInv, RunOK, Run
<1>2. ASSUME run[r].of \notin again PROVE Single(run[r].of) /\ Carries(run[r])
  BY <1>1, <1>2 DEF JobOK, RunOK
<1>3. ASSUME run[r].of \notin again
      PROVE  /\ IF run[r].pc = "count" THEN task[run[r].of] = "done" ELSE task[run[r].of] = r
             /\ \A s \in Runs : run[s].of = run[r].of => s = r
  <2>1. task[run[r].of] \in Runs \/ task[run[r].of] = "done"
    BY <1>0, <1>1, <1>2, <1>3 DEF Single, JobStates
  <2> QED
    BY <1>0, <1>1, <1>2, <1>3, <2>1 DEF Single, JobOK
<1> QED
  BY <1>0, <1>1, <1>2, <1>3

\* The step of a run is about its campaign, and about itself.
Steps(r, q) ==
  /\ run' = [run EXCEPT ![r] = q]
  /\ swept \subseteq swept' /\ failed \subseteq failed' /\ UNCHANGED again

\* A step of one run, about its own campaign only, keeps every other campaign and run as it was.
LEMMA RunFrame ==
  ASSUME PushTypeOK, CampaignInv, NEW r \in Runs, run[r].pc # "idle", NEW k \in Campaigns, k = run[r].of,
         NEW q, q.of \in {k, NoCampaign}, Steps(r, q), About(k),
         JobOK(k)', RunOK(q)'
  PROVE  CampaignInv'
<1>1. run \in [Runs -> Run]
  BY DEF PushTypeOK
<1>2. run'[r] = q /\ \A s \in Runs \ {r} : run'[s] = run[s]
  BY <1>1 DEF Steps
<1>3. ASSUME NEW s \in Runs, s # r, run[s].of = k PROVE RunOK(run[s])'
  <2>1. k \in again
    BY <1>3, RunKnown
  <2>2. RunOK(run[s]) /\ run'[s] = run[s]
    BY <1>2, <1>3 DEF CampaignInv
  <2> QED
    BY <1>3, <2>1, <2>2 DEF RunOK, Steps
<1>4. RunOK(run[r])'
  BY <1>2
<1>5. \A s \in Runs : run[s].of = k \/ run'[s] # run[s] => RunOK(run[s])'
  BY <1>2, <1>3, <1>4
<1> QED
  BY <1>5, JobFrame

\* While a run works its job is active.
LEMMA JobGoesOn ==
  ASSUME PushTypeOK, CampaignInv, NEW r \in Runs, run[r].pc \notin {"idle", "count"},
         NEW k \in Campaigns, k = run[r].of, NEW q, q.of = k, q.pc \notin {"idle", "count"},
         Steps(r, q), sender'[k] = sender[k], task'[k] = task[k], record'[k] = record[k],
         k \notin again => \A d \in Devices : got'[k][d] <= 1
  PROVE  JobOK(k)'
<1>0. /\ run \in [Runs -> Run] /\ Runs \cap {"none", "waiting", "orphan", "done"} = {}
      /\ \A s \in Runs : run[s] \in Run
  BY PushCampaignAssumption DEF PushTypeOK
<1>1. run'[r] = q /\ (\A s \in Runs \ {r} : run'[s] = run[s]) /\ UNCHANGED again
  BY <1>0 DEF Steps
<1>2. JobOK(k) /\ (k \notin again => Single(k) /\ task[k] = r /\ \A s \in Runs : run[s].of = k => s = r)
  BY RunKnown
<1>3. \A s \in Runs : run'[s].of = k <=> run[s].of = k
  BY <1>1
<1>4. k \notin again => Single(k)'
  BY <1>0, <1>1, <1>2, <1>3 DEF Single
<1>5. task[k] \in Runs => run'[task[k]].of = k /\ run'[task[k]].pc # "count"
  BY <1>1, <1>2 DEF JobOK
<1>6. task[k] # "none"
  BY <1>0, <1>2 DEF JobOK, Single
<1> QED
  BY <1>1, <1>2, <1>4, <1>5, <1>6 DEF JobOK

\* A run that takes the lock of its notification starts from its first page, or ends without one.
LEMMA JobAcquires == ASSUME PushTypeOK, CampaignInv, NEW r \in Runs, AcquireLock(r) PROVE CampaignInv'
<1>1. run[r].pc = "lock"
  BY DEF AcquireLock, Does
<1>2. /\ run[r] \in Run /\ run[r].of \in Campaigns /\ RunOK(run[r])
      /\ run[r].of \notin again => Carries(run[r])
  BY <1>1, RunKnown
<1>3. PICK k \in Campaigns : k = run[r].of
  BY <1>2
<1>4. /\ UNCHANGED <<sender, record, unlogged, task, got, swept, failed, again>>
      /\ \A j \in Campaigns \ {k} : lock'[j] = lock[j]
  BY <1>3 DEF AcquireLock, Quiet, senderVars, PushTypeOK
<1>5. CASE lock[k]
  <2> DEFINE no == FALSE
  <2>1. PICK q \in Run : q = [run[r] EXCEPT !.pc = "complete", !.counts = no]
    BY <1>2 DEF Run
  <2>2. run' = [run EXCEPT ![r] = q] /\ q.of = k /\ q.pc = "complete"
    BY <1>2, <1>3, <1>5, <2>1 DEF AcquireLock, Run
  <2>3. k \in again
    BY <1>1, <1>2, <1>3, <1>5 DEF Carries
  <2>4. Steps(r, q)
    BY <1>4, <2>2 DEF Steps
  <2>5. About(k)
    BY <1>3, <1>4, <2>2 DEF About, PushTypeOK
  <2>6. JobOK(k)'
    BY <1>1, <1>3, <1>4, <2>2, <2>3, <2>4, JobGoesOn
  <2>7. RunOK(q)'
    BY <1>4, <2>2, <2>3, PushCampaignAssumption DEF RunOK
  <2> QED
    BY <1>1, <1>3, <2>2, <2>4, <2>5, <2>6, <2>7, RunFrame
<1>6. CASE ~lock[k]
  <2>1. PICK q \in Run : q = [run[r] EXCEPT !.pc = "page"]
    BY <1>2 DEF Run
  <2>2. run' = [run EXCEPT ![r] = q]
    BY <1>3, <1>6, <2>1, Zenon DEF AcquireLock, Goes
  <2>3. /\ q.of = k /\ q.pc = "page" /\ q.counts = run[r].counts /\ q.sent = run[r].sent
        /\ q.last = run[r].last
    BY <1>2, <1>3, <2>1 DEF Run
  <2>4. Steps(r, q)
    BY <1>4, <2>2 DEF Steps
  <2>5. About(k)
    BY <1>3, <1>4, <2>2, <2>3 DEF About, PushTypeOK
  <2>6. JobOK(k)'
    <3>1. k \notin again => \A d \in Devices : got'[k][d] <= 1
      BY <1>1, <1>3, <1>4, RunKnown DEF Single
    <3> QED
      BY <1>1, <1>3, <1>4, <2>3, <2>4, <3>1, JobGoesOn
  <2>7. RunOK(q)'
    <3>1. k \notin again => Carries(q)'
      BY <1>1, <1>2, <1>3, <1>4, <2>3 DEF Carries, Reached, Untold
    <3> QED
      BY <1>4, <2>3, <3>1, PushCampaignAssumption DEF RunOK
  <2> QED
    BY <1>1, <1>3, <2>3, <2>4, <2>5, <2>6, <2>7, RunFrame
<1> QED
  BY <1>5, <1>6

\* A run whose lock was answered for twice ends without a result, as one that failed.
LEMMA JobResent == ASSUME PushTypeOK, CampaignInv, NEW r \in Runs, AcquireResent(r) PROVE CampaignInv'
<1>1. run[r].pc = "lock"
  BY DEF AcquireResent, Does
<1>2. run[r] \in Run /\ run[r].of \in Campaigns
  BY <1>1, RunKnown
<1>3. PICK k \in Campaigns : k = run[r].of
  BY <1>2
<1> DEFINE no == FALSE
<1>4. /\ UNCHANGED <<sender, record, unlogged, task, got, swept, again>>
      /\ failed' = failed \cup {k} /\ \A j \in Campaigns \ {k} : lock'[j] = lock[j]
      /\ run' = [run EXCEPT ![r].pc = "complete", ![r].counts = no]
  BY <1>3 DEF AcquireResent, senderVars, PushTypeOK
<1>b. no \in BOOLEAN /\ ~no
  OBVIOUS
<1> HIDE DEF no
<1>5. PICK q \in Run : q = [run[r] EXCEPT !.pc = "complete", !.counts = no]
  BY <1>2, <1>b DEF Run
<1>6. run' = [run EXCEPT ![r] = q]
  BY <1>4, <1>5
<1>7. q.of = k /\ q.pc = "complete" /\ q.counts = no
  BY <1>2, <1>3, <1>5 DEF Run
<1>8. Steps(r, q)
  BY <1>4, <1>6 DEF Steps
<1>9. About(k)
  BY <1>3, <1>4, <1>6, <1>7 DEF About, PushTypeOK
<1>10. JobOK(k)'
  <2>1. k \notin again => \A d \in Devices : got'[k][d] <= 1
    BY <1>1, <1>3, <1>4, RunKnown DEF Single
  <2> QED
    BY <1>1, <1>3, <1>4, <1>7, <1>8, <2>1, JobGoesOn
<1>11. RunOK(q)'
  <2>1. k \notin again => Carries(q)'
    BY <1>4, <1>7, <1>b DEF Carries
  <2> QED
    BY <1>4, <1>7, <2>1, PushCampaignAssumption DEF RunOK
<1> QED
  BY <1>1, <1>3, <1>7, <1>8, <1>9, <1>10, <1>11, RunFrame

\* A job that threw is known as one that may run again, so that nothing more is asked of it.
LEMMA JobThrows ==
  ASSUME PushTypeOK, CampaignInv, NEW r \in Runs, AcquireFails(r) \/ ReleaseFails(r)
  PROVE  CampaignInv'
<1>1. run[r].pc \in {"lock", "release"}
  BY DEF AcquireFails, ReleaseFails, Does
<1>2. run[r] \in Run /\ run[r].of \in Campaigns
  BY <1>1, RunKnown
<1>3. PICK k \in Campaigns : k = run[r].of
  BY <1>2
<1>0. /\ run \in [Runs -> Run] /\ task \in [Campaigns -> JobStates] /\ NoCampaign \notin Campaigns
      /\ Runs \cap {"none", "waiting", "orphan", "done"} = {}
      /\ Spare.of = NoCampaign /\ Spare.pc = "idle"
  BY PushCampaignAssumption DEF PushTypeOK, JobStates, Spare
<1>4. /\ UNCHANGED <<sender, record, unlogged, got, swept, failed>>
      /\ \A j \in Campaigns \ {k} : lock'[j] = lock[j]
      /\ FailJob(r)
  BY <1>3 DEF AcquireFails, ReleaseFails, senderVars, PushTypeOK
<1>5. /\ again' = again \cup {k} /\ \A j \in Campaigns \ {k} : task'[j] = task[j]
      /\ IF task[k] = r THEN task'[k] \in {"waiting", "done"} ELSE task' = task
      /\ run'[r] = Spare /\ \A s \in Runs \ {r} : run'[s] = run[s]
  BY <1>0, <1>3, <1>4 DEF FailJob
<1>6. About(k)
  BY <1>0, <1>3, <1>4, <1>5 DEF About
<1>7. JobOK(k)'
  <2>1. JobOK(k) /\ task[k] # "none"
    <3>1. JobOK(k)
      BY DEF CampaignInv
    <3>2. k \notin again => task[k] = r
      BY <1>1, <1>3, RunKnown
    <3> QED
      BY <1>0, <3>1, <3>2 DEF JobOK
  <2> QED
    BY <1>0, <1>4, <1>5, <2>1 DEF JobOK
<1>8. ASSUME NEW s \in Runs, run[s].of = k \/ run'[s] # run[s] PROVE RunOK(run[s])'
  <2>1. CASE s = r
    BY <1>0, <1>5, <2>1 DEF RunOK
  <2>2. CASE s # r
    <3>1. RunOK(run[s]) /\ run'[s] = run[s] /\ run[s].of = k
      BY <1>5, <1>8, <2>2 DEF CampaignInv
    <3> QED
      BY <1>4, <1>5, <3>1 DEF RunOK
  <2> QED
    BY <2>1, <2>2
<1> QED
  BY <1>6, <1>7, <1>8, JobFrame

\* A page read keeps the counts: it sends nothing.
LEMMA JobReads == ASSUME PushTypeOK, CampaignInv, NEW r \in Runs, ReadPage(r) PROVE CampaignInv'
<1>1. run[r].pc = "page"
  BY DEF ReadPage, Does
<1>2. /\ run[r] \in Run /\ run[r].of \in Campaigns /\ RunOK(run[r])
      /\ run[r].of \notin again => Carries(run[r])
  BY <1>1, RunKnown
<1>3. PICK k \in Campaigns : k = run[r].of
  BY <1>2
<1> DEFINE last == run[r].last
           page == Page(k, last)
           top == CHOOSE d \in page : \A e \in page : e <= d
<1>4. /\ UNCHANGED <<sender, record, unlogged, task, got, lock, failed, again>>
      /\ swept' = swept \/ swept' = swept \cup {k}
  BY <1>3 DEF ReadPage, Quiet, senderVars
<1>5. last \in 0 .. LastDevice /\ page \in SUBSET Devices /\ \A d \in page : d > last
  BY <1>2, PageBehind DEF Run
<1>6. PICK q \in Run :
        IF page = {} THEN q = [run[r] EXCEPT !.pc = "release"]
        ELSE q = [run[r] EXCEPT !.pc = "send", !.page = page, !.last = top]
  <2>1. page # {} => top \in Devices /\ top \in 0 .. LastDevice
    <3>1. page # {} => top \in page
      <4> HIDE DEF page
      <4> QED
        BY <1>5, LastOf
    <3>2. Devices \subseteq 0 .. LastDevice
      BY DEF Devices
    <3> HIDE DEF page, top
    <3> QED
      BY <1>5, <3>1, <3>2
  <2>2. [run[r] EXCEPT !.pc = "release"] \in Run
    BY <1>2 DEF Run
  <2>3. page # {} => [run[r] EXCEPT !.pc = "send", !.page = page, !.last = top] \in Run
    <3> HIDE DEF page, top
    <3> QED
      BY <1>2, <1>5, <2>1 DEF Run
  <2> QED
    BY <2>2, <2>3
<1>7. run' = [run EXCEPT ![r] = q]
  BY <1>3, <1>6 DEF ReadPage, Goes
<1>8. /\ q.of = k /\ q.pc \in {"release", "send"} /\ q.counts = run[r].counts /\ q.sent = run[r].sent
      /\ q.pc = "release" => k \in swept'
      /\ q.pc = "send" => q.page = page /\ page # {} /\ q.last = top
  <2>1. page = {} => k \in swept'
    BY <1>3 DEF ReadPage
  <2> HIDE DEF page, top
  <2> QED
    BY <1>2, <1>3, <1>6, <2>1 DEF Run
<1>9. Steps(r, q)
  BY <1>4, <1>7 DEF Steps
<1>10. About(k)
  BY <1>3, <1>4, <1>7, <1>8 DEF About, PushTypeOK
<1>11. JobOK(k)'
  <2>1. k \notin again => \A d \in Devices : got'[k][d] <= 1
    BY <1>1, <1>3, <1>4, RunKnown DEF Single
  <2> QED
    BY <1>1, <1>3, <1>4, <1>8, <1>9, <2>1, JobGoesOn
<1>12. RunOK(q)'
  <2>1. q.pc = "send" => \A d \in Devices : d <= last => d <= q.last /\ d \notin q.page
    <3>1. page # {} => top \in page /\ \A d \in page : d <= top
      <4> HIDE DEF page
      <4> QED
        BY <1>5, LastOf
    <3> HIDE DEF page, top
    <3>2. page # {} => top \in Nat /\ top > last
      BY <1>5, <3>1, DevicesFinite
    <3>3. \A d \in Devices : d \in Nat
      BY DevicesFinite
    <3>4. ASSUME NEW d \in Devices, d <= last, q.pc = "send" PROVE d <= q.last /\ d \notin q.page
      <4>1. q.page = page /\ q.last = top /\ top \in Nat /\ top > last /\ d \in Nat /\ last \in Nat
        BY <1>5, <1>8, <3>2, <3>3, <3>4
      <4>2. d \notin page
        BY <1>5, <3>4, <4>1
      <4> QED
        BY <3>4, <4>1, <4>2
    <3> QED
      BY <3>4
  <2>2. ASSUME k \notin again PROVE Carries(q)'
    <3>1. /\ k \notin failed /\ run[r].counts /\ run[r].sent = Reached(k)
          /\ \A d \in Devices : d > last => got[k][d] = 0
      BY <1>1, <1>2, <1>3, <2>2 DEF Carries
    <3>2. \A d \in Devices : got[k][d] > 0 => d <= last
      <4> HIDE DEF page, top
      <4>1. ASSUME NEW d \in Devices, ~(d <= last) PROVE ~(got[k][d] > 0)
        <5>1. d \in Nat /\ last \in Nat
          BY <1>5, DevicesFinite
        <5>2. got[k][d] = 0
          BY <3>1, <4>1, <5>1
        <5> QED
          BY <5>2
      <4> QED
        BY <4>1
    <3> QED
      BY <1>4, <1>8, <2>1, <3>1, <3>2 DEF Carries, Reached
  <2> QED
    BY <1>4, <1>8, <2>2, PushCampaignAssumption DEF RunOK
<1> QED
  BY <1>1, <1>3, <1>8, <1>9, <1>10, <1>11, <1>12, RunFrame

\* Sending a page adds to the run's count what the devices of the page got.
LEMMA JobSends == ASSUME PushTypeOK, CampaignInv, ReachInv, NEW r \in Runs, SendToTokens(r) PROVE CampaignInv'
<1>1. run[r].pc = "send"
  BY DEF SendToTokens, Does
<1>2. /\ run[r] \in Run /\ run[r].of \in Campaigns /\ RunOK(run[r])
      /\ run[r].of \notin again => Carries(run[r])
  BY <1>1, RunKnown
<1>3. PICK k \in Campaigns : k = run[r].of
  BY <1>2
<1>p. PICK failing, reached, left :
        /\ failing \subseteq PageTokens(run[r])
        /\ reached = PageTokens(run[r]) \ (gone \cup failing)
        /\ left = (PageTokens(run[r]) \cap gone) \ failing
        /\ Tell(k, reached)
        /\ run' = [run EXCEPT ![r].sent = @ + Cardinality(reached), ![r].page = left,
                              ![r].pc = IF left = {} THEN "page" ELSE "mark"]
        /\ UNCHANGED <<senderVars, task, lock, swept, failed, again>>
  BY <1>3 DEF SendToTokens
<1> DEFINE sum == run[r].sent + Cardinality(reached)
           step == IF left = {} THEN "page" ELSE "mark"
<1>4. /\ UNCHANGED <<sender, record, unlogged, task, lock, swept, failed, again>>
      /\ got' = [got EXCEPT ![k] = [d \in Devices |->
           IF d \in reached THEN (IF @[d] = 0 THEN 1 ELSE 2) ELSE @[d]]]
      /\ run' = [run EXCEPT ![r].sent = sum, ![r].page = left, ![r].pc = step]
  BY <1>p DEF senderVars, Tell
<1>5. /\ reached \in SUBSET run[r].page /\ left \in SUBSET Devices /\ run[r].page \in SUBSET Devices
      /\ step \in {"page", "mark"} /\ IsFiniteSet(reached) /\ Cardinality(reached) \in Nat /\ sum \in Nat
  <2>1. run[r].page \in SUBSET Devices /\ PageTokens(run[r]) \subseteq run[r].page
        /\ run[r].sent \in Nat
    BY <1>2 DEF PageTokens, Run
  <2>2. reached \in SUBSET run[r].page /\ left \in SUBSET Devices
    BY <1>p, <2>1
  <2>3. IsFiniteSet(reached) /\ Cardinality(reached) \in Nat
    BY <2>1, <2>2, DevicesFinite
  <2> QED
    BY <2>1, <2>2, <2>3
<1> HIDE DEF step
<1>6. PICK q \in Run : q = [run[r] EXCEPT !.sent = sum, !.page = left, !.pc = step]
  <2> HIDE DEF sum
  <2> QED
    BY <1>2, <1>5 DEF Run
<1>7. run' = [run EXCEPT ![r] = q]
  BY <1>4, <1>6
<1>8. /\ q.of = k /\ q.pc \in {"page", "mark"} /\ q.counts = run[r].counts /\ q.sent = sum
      /\ q.last = run[r].last
  <2> HIDE DEF sum
  <2> QED
    BY <1>2, <1>3, <1>5, <1>6 DEF Run
<1>9. Steps(r, q)
  BY <1>4, <1>7 DEF Steps
<1>10. About(k)
  BY <1>3, <1>4, <1>7, <1>8 DEF About, PushTypeOK
<1>11. \A d \in Devices : got'[k][d] = IF d \in reached THEN (IF got[k][d] = 0 THEN 1 ELSE 2)
                                       ELSE got[k][d]
  BY <1>4 DEF PushTypeOK
<1>12. ASSUME k \notin again
       PROVE  /\ \A d \in Devices : got[k][d] \in 0 .. 1 /\ (d \in reached => got[k][d] = 0)
              /\ \A d \in Devices : d > run[r].last => got'[k][d] = 0
              /\ Reached(k)' = Reached(k) + Cardinality(reached)
              /\ k \notin failed /\ run[r].counts /\ run[r].sent = Reached(k)
  <2>1. /\ \A d \in Devices : got[k][d] \in 0 .. 2 /\ got[k][d] <= 1
        /\ \A d \in Devices : got[k][d] > 0 => d <= run[r].last /\ d \notin run[r].page
        /\ k \notin failed /\ run[r].counts /\ run[r].sent = Reached(k)
    BY <1>1, <1>2, <1>3, <1>12, RunKnown DEF Carries, Single, PushTypeOK
  <2>2. \A d \in Devices : got[k][d] \in 0 .. 1 /\ (d \in reached => got[k][d] = 0)
    BY <1>5, <2>1
  <2>3. \A d \in run[r].page : d <= run[r].last
    BY <1>1 DEF ReachInv, Reaches, Paging
  <2>4. run[r].last \in Nat /\ \A d \in Devices : d \in Nat
    BY <1>2, DevicesFinite DEF Run
  <2>5. \A d \in Devices : d > run[r].last => got'[k][d] = 0
    <3> SUFFICES ASSUME NEW d \in Devices, d > run[r].last PROVE got'[k][d] = 0
      OBVIOUS
    <3>1. d \notin reached
      BY <1>5, <2>3, <2>4
    <3>2. got[k][d] = 0
      BY <2>1, <2>2, <2>4
    <3> QED
      BY <1>11, <3>1, <3>2
  <2>6. Reached(k)' = Reached(k) + Cardinality(reached)
    <3> DEFINE old == {d \in Devices : got[k][d] = 1}
               new == {d \in Devices : got'[k][d] = 1}
    <3>1. new = old \cup reached /\ old \cap reached = {}
      BY <1>5, <1>11, <2>2
    <3>2. IsFiniteSet(old) /\ Cardinality(old) \in Nat
      BY DevicesFinite
    <3> HIDE DEF old, new
    <3>3. Cardinality(new) = Cardinality(old) + Cardinality(reached) - Cardinality(old \cap reached)
      BY <1>5, <3>1, <3>2, FS_Union
    <3>4. Cardinality(old \cap reached) = 0
      BY <3>1, FS_EmptySet
    <3> QED
      BY <1>5, <3>2, <3>3, <3>4 DEF Reached, old, new
  <2> QED
    BY <2>1, <2>2, <2>5, <2>6
<1>13. JobOK(k)'
  <2>1. k \notin again => \A d \in Devices : got'[k][d] <= 1
    BY <1>11, <1>12
  <2> QED
    BY <1>1, <1>3, <1>4, <1>8, <1>9, <2>1, JobGoesOn
<1>14. RunOK(q)'
  <2>1. k \notin again => Carries(q)'
    BY <1>4, <1>8, <1>12 DEF Carries
  <2> QED
    BY <1>4, <1>8, <2>1, PushCampaignAssumption DEF RunOK
<1> QED
  BY <1>1, <1>3, <1>8, <1>9, <1>10, <1>13, <1>14, RunFrame

\* Marking dead tokens touches devices only, and moves the run on to its next page.
LEMMA JobInvalidates == ASSUME PushTypeOK, CampaignInv, NEW r \in Runs, InvalidateTokens(r) PROVE CampaignInv'
<1>1. run[r].pc = "mark"
  BY DEF InvalidateTokens, Does
<1>2. /\ run[r] \in Run /\ run[r].of \in Campaigns /\ RunOK(run[r])
      /\ run[r].of \notin again => Carries(run[r])
  BY <1>1, RunKnown
<1>3. PICK k \in Campaigns : k = run[r].of
  BY <1>2
<1>4. /\ UNCHANGED <<sender, record, unlogged, task, lock, got, swept, failed, again>>
      /\ run' = [run EXCEPT ![r].pc = "page", ![r].page = {}]
  BY DEF InvalidateTokens, senderVars
<1>5. PICK q \in Run : q = [run[r] EXCEPT !.pc = "page", !.page = {}]
  BY <1>2 DEF Run
<1>6. run' = [run EXCEPT ![r] = q]
  BY <1>4, <1>5
<1>7. /\ q.of = k /\ q.pc = "page" /\ q.counts = run[r].counts /\ q.sent = run[r].sent
      /\ q.last = run[r].last
  BY <1>2, <1>3, <1>5 DEF Run
<1>8. Steps(r, q)
  BY <1>4, <1>6 DEF Steps
<1>9. About(k)
  BY <1>3, <1>4, <1>6, <1>7 DEF About, PushTypeOK
<1>10. JobOK(k)'
  <2>1. k \notin again => \A d \in Devices : got'[k][d] <= 1
    BY <1>1, <1>3, <1>4, RunKnown DEF Single
  <2> QED
    BY <1>1, <1>3, <1>4, <1>7, <1>8, <2>1, JobGoesOn
<1>11. RunOK(q)'
  <2>1. k \notin again => Carries(q)'
    BY <1>1, <1>2, <1>3, <1>4, <1>7 DEF Carries, Reached
  <2> QED
    BY <1>4, <1>7, <2>1, PushCampaignAssumption DEF RunOK
<1> QED
  BY <1>1, <1>3, <1>7, <1>8, <1>9, <1>10, <1>11, RunFrame

\* A send that fails ends the paging, and with it the counting.
LEMMA JobSendFails == ASSUME PushTypeOK, CampaignInv, NEW r \in Runs, SendFails(r) PROVE CampaignInv'
<1>1. run[r].pc \in Paging
  BY DEF SendFails, Paging
<1>2. /\ run[r] \in Run /\ run[r].of \in Campaigns /\ RunOK(run[r]) /\ run[r].pc # "idle"
      /\ run[r].of \notin again => Carries(run[r])
  BY <1>1, RunKnown DEF Paging
<1>3. PICK k \in Campaigns : k = run[r].of
  BY <1>2
<1> DEFINE no == FALSE
<1>4. /\ UNCHANGED <<sender, record, unlogged, task, lock, swept, again>>
      /\ failed' = failed \cup {k}
      /\ run' = [run EXCEPT ![r].pc = "release", ![r].counts = no]
  BY <1>3 DEF SendFails, senderVars
<1>p. PICK reached : /\ Tell(k, reached)
                     /\ reached \subseteq IF run[r].pc = "send" THEN run[r].page ELSE {}
  BY <1>3 DEF SendFails, PageTokens, Does
<1>d. /\ \A j \in Campaigns \ {k} : got'[j] = got[j]
      /\ \A d \in Devices : got'[k][d] = IF d \in reached THEN (IF got[k][d] = 0 THEN 1 ELSE 2)
                                          ELSE got[k][d]
  BY <1>p DEF Tell, PushTypeOK
<1>b. no \in BOOLEAN /\ ~no
  OBVIOUS
<1> HIDE DEF no
<1>5. PICK q \in Run : q = [run[r] EXCEPT !.pc = "release", !.counts = no]
  BY <1>2, <1>b DEF Run
<1>6. run' = [run EXCEPT ![r] = q]
  BY <1>4, <1>5
<1>7. q.of = k /\ q.pc = "release" /\ q.counts = no
  BY <1>2, <1>3, <1>5 DEF Run
<1>8. Steps(r, q)
  BY <1>4, <1>6 DEF Steps
<1>9. About(k)
  BY <1>3, <1>4, <1>6, <1>7, <1>d DEF About, PushTypeOK
<1>10. JobOK(k)'
  <2>1. k \notin again => \A d \in Devices : got'[k][d] <= 1
    <3> SUFFICES ASSUME k \notin again, NEW d \in Devices PROVE got'[k][d] <= 1
      OBVIOUS
    <3>1. Single(k) /\ Carries(run[r])
      BY <1>2, <1>3, RunKnown
    <3>2. got[k][d] \in 0 .. 2 /\ got[k][d] <= 1 /\ (d \in reached => got[k][d] = 0)
      <4>1. got[k][d] \in 0 .. 2 /\ got[k][d] <= 1
        BY <3>1 DEF Single, PushTypeOK
      <4>2. d \in reached => run[r].pc = "send" /\ d \in run[r].page
        BY <1>p
      <4>3. d \in reached => ~(got[k][d] > 0)
        BY <1>3, <3>1, <4>2 DEF Carries
      <4> QED
        BY <4>1, <4>3
    <3> QED
      BY <1>d, <3>2
  <2> QED
    BY <1>1, <1>3, <1>4, <1>7, <1>8, <2>1, JobGoesOn DEF Paging
<1>11. RunOK(q)'
  <2>1. k \notin again => Carries(q)'
    BY <1>4, <1>7, <1>b DEF Carries
  <2> QED
    BY <1>4, <1>7, <2>1, PushCampaignAssumption DEF RunOK
<1> QED
  BY <1>2, <1>3, <1>7, <1>8, <1>9, <1>10, <1>11, RunFrame

\* The lock is released by a run whose pages came to an end, failed, or whose job may run again.
LEMMA JobReleases == ASSUME PushTypeOK, CampaignInv, NEW r \in Runs, ReleaseLock(r) PROVE CampaignInv'
<1>1. run[r].pc = "release"
  BY DEF ReleaseLock, Does
<1>2. /\ run[r] \in Run /\ run[r].of \in Campaigns /\ RunOK(run[r])
      /\ run[r].of \notin again => Carries(run[r])
  BY <1>1, RunKnown
<1>3. PICK k \in Campaigns : k = run[r].of
  BY <1>2
<1>4. /\ UNCHANGED <<sender, record, unlogged, task, got, swept, failed, again>>
      /\ run' = [run EXCEPT ![r].pc = "complete"]
      /\ \A j \in Campaigns \ {k} : lock'[j] = lock[j]
  BY <1>3, Zenon DEF ReleaseLock, Goes, Quiet, senderVars, PushTypeOK
<1>5. PICK q \in Run : q = [run[r] EXCEPT !.pc = "complete"]
  BY <1>2 DEF Run
<1>6. run' = [run EXCEPT ![r] = q]
  BY <1>4, <1>5
<1>7. /\ q.of = k /\ q.pc = "complete" /\ q.counts = run[r].counts /\ q.sent = run[r].sent
  BY <1>2, <1>3, <1>5 DEF Run
<1>8. Steps(r, q)
  BY <1>4, <1>6 DEF Steps
<1>9. About(k)
  BY <1>3, <1>4, <1>6, <1>7 DEF About, PushTypeOK
<1>10. JobOK(k)'
  <2>1. k \notin again => \A d \in Devices : got'[k][d] <= 1
    BY <1>1, <1>3, <1>4, RunKnown DEF Single
  <2> QED
    BY <1>1, <1>3, <1>4, <1>7, <1>8, <2>1, JobGoesOn
<1>11. RunOK(q)'
  <2>1. k \notin again => Carries(q)'
    BY <1>1, <1>2, <1>3, <1>4, <1>7 DEF Carries, Reached
  <2> QED
    BY <1>1, <1>2, <1>3, <1>4, <1>7, <2>1, PushCampaignAssumption DEF RunOK
<1> QED
  BY <1>1, <1>3, <1>7, <1>8, <1>9, <1>10, <1>11, RunFrame

\* A run that is over leaves no other run of a job that did not stall.
LEMMA RunGone ==
  ASSUME PushTypeOK, CampaignInv, NEW r \in Runs, run[r].pc # "idle", NEW k \in Campaigns, k = run[r].of,
         run' = [run EXCEPT ![r] = Spare]
  PROVE  /\ Spare.of = NoCampaign /\ Spare.pc = "idle" /\ RunOK(Spare)'
         /\ \A s \in Runs \ {r} : run'[s] = run[s]
         /\ run'[r].of # k
         /\ k \notin again => \A s \in Runs : run'[s].of # k
<1>0. run \in [Runs -> Run] /\ NoCampaign \notin Campaigns
  BY PushCampaignAssumption DEF PushTypeOK
<1>1. Spare.of = NoCampaign /\ Spare.pc = "idle"
  BY DEF Spare
<1>2. RunOK(Spare)'
  BY <1>0, <1>1 DEF RunOK
<1>3. run'[r] = Spare /\ \A s \in Runs \ {r} : run'[s] = run[s]
  BY <1>0
<1>4. run'[r].of # k
  BY <1>0, <1>1, <1>3
<1>5. k \notin again => \A s \in Runs : run[s].of = k => s = r
  BY RunKnown
<1> QED
  BY <1>1, <1>2, <1>3, <1>4, <1>5

\* A job completes once; its run then holds the count it will add to the log row.
LEMMA JobCompletes == ASSUME PushTypeOK, CampaignInv, NEW r \in Runs, CompleteJob(r) PROVE CampaignInv'
<1>1. run[r].pc = "complete"
  BY DEF CompleteJob, Does
<1>2. /\ run[r] \in Run /\ run[r].of \in Campaigns /\ RunOK(run[r]) /\ JobOK(run[r].of)
      /\ run[r].of \notin again =>
           /\ Carries(run[r]) /\ Single(run[r].of) /\ task[run[r].of] = r
           /\ \A s \in Runs : run[s].of = run[r].of => s = r
  BY <1>1, RunKnown
<1>3. PICK k \in Campaigns : k = run[r].of
  BY <1>2
<1>0. /\ run \in [Runs -> Run] /\ task \in [Campaigns -> JobStates]
      /\ Runs \cap {"none", "waiting", "orphan", "done"} = {}
  BY PushCampaignAssumption DEF PushTypeOK, JobStates
<1>4. /\ UNCHANGED <<sender, record, unlogged, lock, got, swept, failed, again>>
      /\ \A j \in Campaigns \ {k} : task'[j] = task[j]
  BY <1>0, <1>3 DEF CompleteJob, Quiet, senderVars
<1>u. Reached(k)' = Reached(k)
  BY <1>4 DEF Reached
<1>5. CASE task[k] = r /\ run[r].counts
  <2>1. PICK q \in Run : q = [run[r] EXCEPT !.pc = "count"]
    BY <1>2 DEF Run
  <2>2. run' = [run EXCEPT ![r] = q] /\ task'[k] = "done"
    BY <1>0, <1>3, <1>5, <2>1 DEF CompleteJob, Goes
  <2>3. q.of = k /\ q.pc = "count" /\ q.counts /\ q.sent = run[r].sent
    BY <1>2, <1>3, <1>5, <2>1 DEF Run
  <2>4. Steps(r, q)
    BY <1>4, <2>2 DEF Steps
  <2>5. About(k)
    BY <1>3, <1>4, <2>2, <2>3 DEF About, PushTypeOK
  <2>6. run'[r] = q /\ \A s \in Runs \ {r} : run'[s] = run[s]
    BY <1>0, <2>2
  <2>7. k \notin again => Single(k)'
    <3> SUFFICES ASSUME k \notin again PROVE Single(k)'
      OBVIOUS
    <3>1. Single(k) /\ Carries(run[r]) /\ k \in swept \cup failed
      BY <1>1, <1>2, <1>3 DEF RunOK
    <3>2. \A s \in Runs : run'[s].of = k <=> s = r
      BY <1>2, <1>3, <2>3, <2>6
    <3>3. \A d \in Devices : got[k][d] <= 1
      BY <3>1 DEF Single
    <3> QED
      BY <1>0, <1>4, <2>2, <2>3, <2>6, <3>1, <3>2, <3>3 DEF Single
  <2>8. JobOK(k)'
    BY <1>0, <1>2, <1>3, <1>4, <1>5, <2>2, <2>7 DEF JobOK
  <2>9. RunOK(q)'
    <3>1. k \notin again => record[k] \in {NoRow, 0}
      BY <1>0, <1>2, <1>3 DEF Single
    <3>2. k \notin again => Carries(q)'
      BY <1>2, <1>3, <1>4, <1>5, <1>u, <2>3, <3>1 DEF Carries
    <3> QED
      BY <1>4, <2>3, <3>2, PushCampaignAssumption DEF RunOK
  <2> QED
    BY <1>1, <1>3, <2>3, <2>4, <2>5, <2>8, <2>9, RunFrame
<1>6. CASE ~(task[k] = r /\ run[r].counts)
  <2>1. run' = [run EXCEPT ![r] = Spare] /\ (IF task[k] = r THEN task'[k] = "done" ELSE UNCHANGED task)
    BY <1>0, <1>3, <1>6 DEF CompleteJob
  <2>2. /\ Spare.of = NoCampaign /\ Spare.pc = "idle" /\ RunOK(Spare)' /\ run'[r].of # k
        /\ \A s \in Runs \ {r} : run'[s] = run[s]
        /\ k \notin again => \A s \in Runs : run'[s].of # k
    BY <1>1, <1>3, <2>1, RunGone
  <2>3. Steps(r, Spare)
    BY <1>4, <2>1 DEF Steps
  <2>4. About(k)
    BY <1>3, <1>4, <2>1, <2>2 DEF About, PushTypeOK
  <2>5. k \notin again => Single(k)'
    <3> SUFFICES ASSUME k \notin again PROVE Single(k)'
      OBVIOUS
    <3>1. Single(k) /\ Carries(run[r]) /\ k \in swept \cup failed /\ task[k] = r
      BY <1>1, <1>2, <1>3 DEF RunOK
    <3>2. k \in failed
      BY <1>3, <1>6, <3>1 DEF Carries
    <3>3. \A d \in Devices : got[k][d] <= 1
      BY <3>1 DEF Single
    <3> QED
      BY <1>0, <1>4, <2>1, <2>2, <3>1, <3>2, <3>3 DEF Single
  <2>6. JobOK(k)'
    <3>1. CASE task[k] = r
      BY <1>0, <1>2, <1>3, <1>4, <2>1, <2>5, <3>1 DEF JobOK
    <3>2. CASE task[k] # r
      BY <1>0, <1>2, <1>3, <1>4, <2>1, <2>2, <2>5, <3>2 DEF JobOK
    <3> QED
      BY <3>1, <3>2
  <2> QED
    BY <1>1, <1>3, <2>2, <2>3, <2>4, <2>6, RunFrame
<1> QED
  BY <1>5, <1>6

\* The count reaches the log row, or the campaign is known to have ended before that row was written.
LEMMA JobCounts == ASSUME PushTypeOK, CampaignInv, NEW r \in Runs, CountSent(r) PROVE CampaignInv'
<1>1. run[r].pc = "count"
  BY DEF CountSent, Does
<1>2. /\ run[r] \in Run /\ run[r].of \in Campaigns /\ RunOK(run[r]) /\ JobOK(run[r].of)
      /\ run[r].of \notin again =>
           Carries(run[r]) /\ Single(run[r].of) /\ task[run[r].of] = "done"
  BY <1>1, RunKnown
<1>3. PICK k \in Campaigns : k = run[r].of
  BY <1>2
<1>0. /\ run \in [Runs -> Run] /\ record \in [Campaigns -> Nat \cup {NoRow}]
      /\ Runs \cap {"none", "waiting", "orphan", "done"} = {} /\ NoRow = -1
  BY PushCampaignAssumption DEF PushTypeOK, NoRow
<1>4. /\ UNCHANGED <<sender, task, lock, got, swept, failed, again>>
      /\ run' = [run EXCEPT ![r] = Spare]
      /\ IF record[k] = NoRow THEN unlogged' = unlogged \cup {k} /\ record' = record
         ELSE record' = [record EXCEPT ![k] = record[k] + run[r].sent] /\ unlogged' = unlogged
  BY <1>3 DEF CountSent
<1>u. Reached(k)' = Reached(k)
  BY <1>4 DEF Reached
<1>5. /\ Spare.of = NoCampaign /\ Spare.pc = "idle" /\ RunOK(Spare)' /\ run'[r].of # k
      /\ \A s \in Runs \ {r} : run'[s] = run[s]
      /\ k \notin again => \A s \in Runs : run'[s].of # k
  BY <1>1, <1>3, <1>4, RunGone
<1>6. Steps(r, Spare)
  BY <1>4 DEF Steps
<1>7. About(k)
  BY <1>0, <1>3, <1>4, <1>5 DEF About
<1>8. k \notin again => Single(k)'
  <2> SUFFICES ASSUME k \notin again PROVE Single(k)'
    OBVIOUS
  <2>1. /\ Single(k) /\ Carries(run[r]) /\ task[k] = "done" /\ record[k] \in {NoRow, 0}
        /\ run[r].sent \in Nat
    BY <1>1, <1>2, <1>3 DEF Carries, Run
  <2>2. k \in swept \cup failed /\ \A d \in Devices : got[k][d] <= 1
    BY <2>1 DEF Single
  <2>3. k \notin failed => k \in unlogged' \/ record'[k] = Reached(k)
    <3>1. k \notin failed => run[r].sent = Reached(k)
      BY <1>3, <2>1 DEF Carries
    <3> QED
      BY <1>0, <1>4, <2>1, <3>1
  <2> QED
    BY <1>0, <1>4, <1>5, <1>u, <2>1, <2>2, <2>3 DEF Single
<1>9. JobOK(k)'
  <2>1. sender[k] # "over" => record'[k] = NoRow
    BY <1>0, <1>2, <1>3, <1>4 DEF JobOK
  <2>2. task[k] \in Runs => task[k] # r
    BY <1>1, <1>2, <1>3 DEF JobOK
  <2> QED
    BY <1>2, <1>3, <1>4, <1>5, <1>8, <2>1, <2>2 DEF JobOK
<1> QED
  BY <1>1, <1>3, <1>5, <1>6, <1>7, <1>9, RunFrame

\* A run that dies leaves its job orphaned or, when counting, its campaign without its counts.
LEMMA JobRunDies == ASSUME PushTypeOK, CampaignInv, NEW r \in Runs, RunDies(r) PROVE CampaignInv'
<1>1. run[r].pc # "idle"
  BY DEF RunDies, Does
<1>2. /\ run[r] \in Run /\ run[r].of \in Campaigns /\ RunOK(run[r]) /\ JobOK(run[r].of)
      /\ run[r].of \notin again =>
           /\ Carries(run[r]) /\ Single(run[r].of)
           /\ IF run[r].pc = "count" THEN task[run[r].of] = "done" ELSE task[run[r].of] = r
  BY <1>1, RunKnown
<1>3. PICK k \in Campaigns : k = run[r].of
  BY <1>2
<1>0. /\ run \in [Runs -> Run] /\ task \in [Campaigns -> JobStates]
      /\ Runs \cap {"none", "waiting", "orphan", "done"} = {}
  BY PushCampaignAssumption DEF PushTypeOK, JobStates
<1>4. /\ UNCHANGED <<sender, record, lock, got, swept, failed, again>>
      /\ run' = [run EXCEPT ![r] = Spare]
      /\ task' = IF task[k] = r THEN [task EXCEPT ![k] = "orphan"] ELSE task
      /\ unlogged' = IF run[r].pc = "count" THEN unlogged \cup {k} ELSE unlogged
  BY <1>3 DEF RunDies, Does
<1>u. Reached(k)' = Reached(k)
  BY <1>4 DEF Reached
<1>5. /\ Spare.of = NoCampaign /\ Spare.pc = "idle" /\ RunOK(Spare)' /\ run'[r].of # k
      /\ \A s \in Runs \ {r} : run'[s] = run[s]
      /\ k \notin again => \A s \in Runs : run'[s].of # k
  BY <1>1, <1>3, <1>4, RunGone
<1>6. Steps(r, Spare)
  BY <1>4 DEF Steps
<1>7. About(k)
  BY <1>0, <1>3, <1>4, <1>5 DEF About
<1>8. k \notin again => Single(k)'
  <2> SUFFICES ASSUME k \notin again PROVE Single(k)'
    OBVIOUS
  <2>1. /\ Single(k) /\ Carries(run[r])
        /\ IF run[r].pc = "count" THEN task[k] = "done" ELSE task[k] = r
    BY <1>2, <1>3
  <2>2. \A d \in Devices : got[k][d] <= 1
    BY <2>1 DEF Single
  <2>3. CASE run[r].pc = "count"
    <3>1. task'[k] = "done" /\ k \in unlogged' /\ k \in swept \cup failed
      BY <1>0, <1>4, <2>1, <2>3 DEF Single
    <3> QED
      BY <1>0, <1>4, <1>5, <2>2, <3>1 DEF Single
  <2>4. CASE run[r].pc # "count"
    <3>1. task'[k] = "orphan" /\ record[k] \in {NoRow, 0}
      BY <1>0, <1>4, <2>1, <2>4 DEF Single
    <3> QED
      BY <1>0, <1>4, <1>5, <2>2, <3>1 DEF Single
  <2> QED
    BY <2>3, <2>4
<1>9. JobOK(k)'
  <2>1. task'[k] \in Runs => task'[k] # r /\ task'[k] = task[k]
    BY <1>0, <1>4
  <2>2. task[k] = r => task'[k] = "orphan"
    BY <1>0, <1>4
  <2>3. task[k] # r => task'[k] = task[k]
    BY <1>4
  <2> QED
    BY <1>0, <1>2, <1>3, <1>4, <1>5, <1>8, <2>1, <2>2, <2>3 DEF JobOK
<1> QED
  BY <1>1, <1>3, <1>5, <1>6, <1>7, <1>9, RunFrame

\* The steps of the request and of the queue.
LEMMA JobRequested ==
  ASSUME PushTypeOK, CampaignInv, NEW k \in Campaigns,
         \/ DedupOnce(k) \/ CampaignQueueAdd(k) \/ CreateNotificationLog(k) \/ SenderFails(k)
         \/ JobStalls(k) \/ NotificationLockExpires(k)
  PROVE  CampaignInv'
<1>0. /\ run \in [Runs -> Run] /\ task \in [Campaigns -> JobStates] /\ sender \in [Campaigns -> Senders]
      /\ record \in [Campaigns -> Nat \cup {NoRow}] /\ NoRow = -1 /\ Reached(k) \in Nat
      /\ Runs \cap {"none", "waiting", "orphan", "done"} = {}
  BY PushCampaignAssumption, DevicesFinite DEF PushTypeOK, JobStates, Senders, NoRow, Reached
<1>1. /\ JobOK(k) /\ \A s \in Runs : RunOK(run[s])
      /\ k \notin again => Single(k) /\ \A s \in Runs : run[s].of = k => Carries(run[s])
  BY DEF CampaignInv, JobOK, RunOK
<1>2. ASSUME UNCHANGED <<got, run, swept, failed>>
      PROVE  Reached(k)' = Reached(k) /\ (Untold(k)' <=> Untold(k))
  BY <1>2 DEF Reached, Untold
<1>3. ASSUME UNCHANGED <<got, run, swept, failed, unlogged, again, record>>, lock'[k] => lock[k],
             About(k), JobOK(k)'
      PROVE  CampaignInv'
  <2>1. \A s \in Runs : run[s].of = k => RunOK(run[s])'
    BY <1>1, <1>2, <1>3 DEF RunOK, Carries
  <2> QED
    BY <1>3, <2>1, JobFrame
<1>4. CASE DedupOnce(k) \/ SenderFails(k)
  <2>1. /\ UNCHANGED <<got, run, swept, failed, unlogged, again, record, task, lock>>
        /\ sender[k] # "over" /\ sender' = [sender EXCEPT ![k] = sender'[k]]
        /\ sender'[k] = "over" \/ (sender[k] = "new" /\ sender'[k] = "enqueue")
    BY <1>0, <1>4 DEF DedupOnce, SenderFails, Becomes, runVars
  <2>2. About(k)
    BY <1>0, <2>1 DEF About
  <2>3. JobOK(k)'
    <3>1. Single(k) => Single(k)'
      BY <1>2, <2>1 DEF Single
    <3> QED
      BY <1>1, <2>1, <3>1 DEF JobOK
  <2> QED
    BY <1>3, <2>1, <2>2, <2>3
<1>5. CASE CampaignQueueAdd(k)
  <2>1. /\ UNCHANGED <<got, run, swept, failed, unlogged, again, record, lock>>
        /\ sender[k] = "enqueue" /\ sender' = [sender EXCEPT ![k] = "record"]
        /\ task' = [task EXCEPT ![k] = "waiting"]
    BY <1>5 DEF CampaignQueueAdd, Becomes
  <2>2. About(k)
    BY <1>0, <2>1 DEF About
  <2>3. task[k] = "none" /\ record[k] = NoRow /\ k \notin again /\ Single(k)
    BY <1>1, <2>1 DEF JobOK
  <2>4. task'[k] = "waiting" /\ sender'[k] = "record"
    BY <1>0, <2>1
  <2>5. Single(k)'
    BY <1>0, <1>2, <2>1, <2>3, <2>4 DEF Single
  <2>6. JobOK(k)'
    BY <1>0, <2>1, <2>3, <2>4, <2>5 DEF JobOK
  <2> QED
    BY <1>3, <2>1, <2>2, <2>6
<1>6. CASE CreateNotificationLog(k)
  <2>1. /\ UNCHANGED <<got, run, swept, failed, unlogged, again, task, lock>>
        /\ sender[k] = "record" /\ sender' = [sender EXCEPT ![k] = "over"]
        /\ record' = [record EXCEPT ![k] = 0]
    BY <1>6 DEF CreateNotificationLog, Becomes, runVars
  <2>2. About(k)
    BY <1>0, <2>1 DEF About
  <2>3. record[k] = NoRow /\ record'[k] = 0 /\ sender'[k] = "over"
    BY <1>0, <1>1, <2>1 DEF JobOK
  <2>4. Single(k) => Single(k)'
    BY <1>0, <1>2, <2>1, <2>3 DEF Single
  <2>5. JobOK(k)'
    BY <1>1, <2>1, <2>3, <2>4 DEF JobOK
  <2>6. \A s \in Runs : run[s].of = k => RunOK(run[s])'
    BY <1>1, <1>2, <2>1, <2>3 DEF RunOK, Carries
  <2> QED
    BY <2>1, <2>2, <2>5, <2>6, JobFrame
<1>7. CASE JobStalls(k)
  <2>1. /\ UNCHANGED <<sender, got, run, swept, failed, unlogged, record, lock>>
        /\ task[k] \notin {"none"} /\ again' = again \cup {k}
        /\ task' = [task EXCEPT ![k] = task'[k]] /\ task'[k] \in {"done", "waiting"}
    BY <1>0, <1>7 DEF JobStalls, senderVars
  <2>2. About(k)
    BY <1>0, <2>1 DEF About
  <2>3. JobOK(k)'
    BY <1>0, <1>1, <2>1 DEF JobOK
  <2>4. \A s \in Runs : run[s].of = k => RunOK(run[s])'
    BY <1>1, <2>1 DEF RunOK
  <2> QED
    BY <2>1, <2>2, <2>3, <2>4, JobFrame
<1>8. CASE NotificationLockExpires(k)
  <2> DEFINE no == FALSE
  <2>1. /\ UNCHANGED <<sender, got, run, swept, failed, unlogged, again, record, task>>
        /\ lock' = [lock EXCEPT ![k] = no]
    BY <1>8 DEF NotificationLockExpires, Quiet, senderVars
  <2>2. ~no
    OBVIOUS
  <2> HIDE DEF no
  <2>3. About(k) /\ ~lock'[k]
    BY <2>1, <2>2 DEF About, PushTypeOK
  <2>4. Single(k) => Single(k)'
    BY <1>2, <2>1, <2>3 DEF Single
  <2>5. JobOK(k)'
    BY <1>1, <2>1, <2>4 DEF JobOK
  <2> QED
    BY <1>3, <2>1, <2>3, <2>5
<1> QED
  BY <1>4, <1>5, <1>6, <1>7, <1>8

\* A job that is taken, waiting or orphaned, goes to an idle run, which is then its only one unless it ran before.
LEMMA JobTaken ==
  ASSUME PushTypeOK, CampaignInv, NEW k \in Campaigns, NEW r \in Runs, TakeJob(r, k)
  PROVE  CampaignInv'
<1>0. /\ run \in [Runs -> Run] /\ task \in [Campaigns -> JobStates] /\ NoCampaign \notin Campaigns
      /\ Runs \cap {"none", "waiting", "orphan", "done"} = {} /\ Spare \in Run
  BY PushCampaignAssumption DEF PushTypeOK, JobStates, Spare, Run
<1>1. PICK q \in Run : q = [Spare EXCEPT !.pc = "lock", !.of = k]
  BY <1>0 DEF Run
<1>2. /\ run' = [run EXCEPT ![r] = q] /\ task' = [task EXCEPT ![k] = r] /\ task[k] = "waiting"
      /\ UNCHANGED <<sender, got, swept, failed, unlogged, again, record, lock>>
      /\ run[r].pc = "idle"
  BY <1>1 DEF TakeJob, Does, Quiet, senderVars
<1>3. /\ q.pc = "lock" /\ q.of = k /\ q.last = 0 /\ q.page = {} /\ q.sent = 0 /\ q.counts
  BY <1>1, Zenon DEF Spare
<1>4. run'[r] = q /\ (\A s \in Runs \ {r} : run'[s] = run[s]) /\ task'[k] = r /\ run[r].of = NoCampaign
  BY <1>0, <1>2 DEF CampaignInv, RunOK
<1>5. About(k)
  BY <1>0, <1>2, <1>3, <1>4 DEF About
<1>6. JobOK(k) /\ (k \notin again => Single(k))
  BY DEF CampaignInv, JobOK
<1>7. Reached(k)' = Reached(k) /\ (Untold(k)' <=> Untold(k))
  BY <1>2 DEF Reached, Untold
<1>8. ASSUME k \notin again
      PROVE  /\ \A s \in Runs : run[s].of # k
             /\ record[k] \in {NoRow, 0} /\ ~lock[k] /\ k \notin swept \cup failed /\ Untold(k)
             /\ \A d \in Devices : got[k][d] <= 1
  BY <1>0, <1>2, <1>6, <1>8 DEF Single
<1>9. k \notin again => Single(k)'
  BY <1>0, <1>2, <1>4, <1>8 DEF Single
<1>10. JobOK(k)'
  BY <1>0, <1>2, <1>3, <1>4, <1>6, <1>9 DEF JobOK
<1>11. k \notin again => Reached(k) = 0
  <2>1. k \notin again => {d \in Devices : got[k][d] = 1} = {}
    BY <1>8 DEF Untold
  <2> QED
    BY <2>1, FS_EmptySet DEF Reached
<1>12. RunOK(q)'
  BY <1>0, <1>2, <1>3, <1>7, <1>8, <1>11 DEF RunOK, Carries
<1>13. \A s \in Runs \ {r} : run[s].of = k => RunOK(run[s])'
  BY <1>0, <1>2, <1>4, <1>8 DEF CampaignInv, RunOK
<1>14. \A s \in Runs : run[s].of = k \/ run'[s] # run[s] => RunOK(run[s])'
  BY <1>4, <1>12, <1>13
<1> QED
  BY <1>5, <1>10, <1>14, JobFrame

\* Every step keeps jobs and runs in order.
LEMMA CampaignStep ==
  ASSUME PushTypeOK, CampaignInv, ReachInv, [PushNext]_pushVars
  PROVE  CampaignInv'
<1>1. ASSUME UNCHANGED <<sender, task, got, record, lock, swept, again, failed, unlogged, run>>
      PROVE  CampaignInv'
  <2>1. \A k \in Campaigns : Reached(k)' = Reached(k) /\ (Untold(k)' <=> Untold(k))
    BY <1>1 DEF Reached, Untold
  <2>2. ASSUME NEW k \in Campaigns PROVE JobOK(k)'
    BY <1>1, <2>1 DEF CampaignInv, JobOK, Single
  <2>3. ASSUME NEW r \in Runs PROVE RunOK(run[r])'
    BY <1>1, <2>1 DEF CampaignInv, RunOK, Carries
  <2> QED
    BY <2>2, <2>3 DEF CampaignInv
<1>2. ASSUME NEW d \in Devices, RegisterDevice(d) \/ Uninstall(d) \/ EnrolmentChanges(d)
      PROVE  CampaignInv'
  BY <1>1, <1>2 DEF RegisterDevice, Uninstall, EnrolmentChanges, Change, senderVars
<1>3. ClaimExpires \/ UNCHANGED pushVars => CampaignInv'
  BY <1>1 DEF ClaimExpires, pushVars, senderVars, runVars
<1> QED
  BY <1>2, <1>3, JobRequested, JobTaken, JobAcquires, JobResent, JobThrows, JobReads, JobSends, JobInvalidates,
     JobSendFails, JobReleases, JobCompletes, JobCounts, JobRunDies DEF PushNext

\* Who is owed a message can get it.
Reachable == \A k \in Campaigns : \A d \in owed[k] :
               valid[d] /\ d \notin gone /\ (k \in Everyone \/ d \in enrolled)

\* No message is taken back, nobody is owed more, and the paging passes over no fewer.
Grows ==
  /\ \A k \in Campaigns : /\ \A d \in Devices : got[k][d] > 0 => got'[k][d] > 0
                          /\ owed'[k] \subseteq owed[k] /\ passed[k] \subseteq passed'[k]
                          /\ refused[k] \subseteq refused'[k]

\* What was reached stays reached when no message is forgotten and no cursor moves.
LEMMA ReachFrame ==
  ASSUME PushTypeOK, PushTypeOK', CampaignInv, ReachInv, Grows, Reachable',
         \A k \in swept' \ swept : \A d \in owed'[k] \ (passed'[k] \cup refused'[k]) : got'[k][d] > 0,
         \A s \in Runs : run'[s] # run[s] => Reaches(run[s])'
  PROVE  ReachInv'
<1>0. run \in [Runs -> Run] /\ owed \in [Campaigns -> SUBSET Devices]
      /\ owed' \in [Campaigns -> SUBSET Devices] /\ swept' \subseteq Campaigns
  BY DEF PushTypeOK
<1>1. ASSUME NEW s \in Runs, run'[s] = run[s] PROVE Reaches(run[s])'
  <2>1. run[s].pc \in Paging => run[s].of \in Campaigns
    BY <1>0 DEF CampaignInv, RunOK, Run, Paging
  <2>2. Reaches(run[s])
    BY DEF ReachInv
  <2> QED
    BY <1>0, <1>1, <2>1, <2>2 DEF Reaches, Grows
<1>2. \A s \in Runs : Reaches(run[s])'
  BY <1>1
<1>3. ASSUME NEW k \in swept', NEW d \in owed'[k] \ (passed'[k] \cup refused'[k])
      PROVE  got'[k][d] > 0
  <2>1. CASE k \in swept
    <3>1. got[k][d] > 0 /\ k \in Campaigns /\ d \in Devices
      BY <1>0, <1>3, <2>1 DEF ReachInv, Grows
    <3> QED
      BY <3>1 DEF Grows
  <2>2. CASE k \notin swept
    BY <1>3, <2>2
  <2> QED
    BY <2>1, <2>2
<1> QED
  BY <1>2, <1>3 DEF ReachInv, Reachable

\* A device a page read leaves behind is on its page, or named as passed over.
LEMMA ReachReads ==
  ASSUME PushTypeOK, PushTypeOK', CampaignInv, ReachInv, NEW r \in Runs, ReadPage(r)
  PROVE  ReachInv'
<1>1. run[r].pc = "page"
  BY DEF ReadPage, Does
<1>2. run[r] \in Run /\ run[r].of \in Campaigns
  BY <1>1, RunKnown
<1>3. PICK k \in Campaigns : k = run[r].of
  BY <1>2
<1>4. PICK last \in 0 .. LastDevice : last = run[r].last
  BY <1>2 DEF Run
<1> DEFINE page == Page(k, last)
           top == CHOOSE d \in page : \A e \in page : e <= d
           over == IF k \in Everyone
                   THEN IF last > 0 /\ ~valid[last] THEN Lowest(1, From(k, last)) ELSE {}
                   ELSE IF last \in enrolled \cup {0} THEN {} ELSE {e \in enrolled : e > last}
<1>5. /\ UNCHANGED <<got, owed, refused, valid, gone, enrolled>>
      /\ passed' = [passed EXCEPT ![k] = @ \cup over]
      /\ page = {} => run' = [run EXCEPT ![r].pc = "release"] /\ swept' = swept \cup {k}
      /\ page # {} => /\ run' = [run EXCEPT ![r].pc = "send", ![r].page = page, ![r].last = top]
                      /\ swept' = swept
  BY <1>3, <1>4 DEF ReadPage, Goes, Quiet, deviceVars
<1>6. page \in SUBSET Devices
  BY PageBehind
<1>7. ASSUME NEW d \in owed[k] \ (passed[k] \cup refused[k] \cup over)
      PROVE  \/ d <= last /\ got[k][d] > 0
             \/ page # {} /\ \A m \in page : d <= m => d \in page
  <2>1. d \in Devices /\ valid[d] /\ (k \in Everyone \/ d \in enrolled)
    BY DEF ReachInv, PushTypeOK
  <2>2. CASE d <= last
    <3>1. Reaches(run[r])
      BY DEF ReachInv
    <3> QED
      BY <1>1, <1>3, <1>4, <1>7, <2>2, <3>1 DEF Reaches, Paging
  <2>3. CASE d > last
    <3>1. d \notin over
      BY <1>7
    <3> QED
      BY <2>1, <2>3, <3>1, PageTakes
  <2>4. d \in Nat /\ last \in Nat
    BY <2>1, DevicesFinite
  <2> QED
    BY <2>2, <2>3, <2>4
<1> HIDE DEF over
<1>8. passed'[k] = passed[k] \cup over /\ \A j \in Campaigns : passed[j] \subseteq passed'[j]
  BY <1>5 DEF PushTypeOK
<1>9. Grows
  BY <1>5, <1>8 DEF Grows
<1>10. Reachable'
  BY <1>5 DEF ReachInv, Reachable
<1>11. \A j \in swept' \ swept : \A d \in owed'[j] \ (passed'[j] \cup refused'[j]) : got'[j][d] > 0
  <2> HIDE DEF page, top
  <2>1. \A j \in swept' \ swept : j = k /\ page = {}
    BY <1>5
  <2> QED
    BY <1>5, <1>7, <1>8, <2>1
<1>12. \A s \in Runs \ {r} : run'[s] = run[s]
  <2> HIDE DEF page, top
  <2> QED
    BY <1>5 DEF PushTypeOK
<1>13. Reaches(run[r])'
  <2>1. CASE page = {}
    <3>1. run' = [run EXCEPT ![r].pc = "release"] /\ run \in [Runs -> Run]
      BY <1>5, <2>1 DEF PushTypeOK
    <3> HIDE DEF page, top
    <3>2. run'[r] = [run[r] EXCEPT !.pc = "release"]
      BY <3>1
    <3>3. run'[r].pc = "release"
      BY <1>2, <3>2 DEF Run
    <3> QED
      BY <3>3 DEF Reaches, Paging
  <2>2. CASE page # {}
    <3>1. top \in page /\ \A d \in page : d <= top
      <4> HIDE DEF page
      <4> QED
        BY <1>6, <2>2, LastOf
    <3> HIDE DEF page, top
    <3>2. run'[r] = [run[r] EXCEPT !.pc = "send", !.page = page, !.last = top]
      BY <1>5, <2>2 DEF PushTypeOK
    <3>3. run'[r].pc = "send" /\ run'[r].page = page /\ run'[r].last = top /\ run'[r].of = k
      BY <1>2, <1>3, <3>2 DEF Run
    <3>4. \A d \in owed[k] \ (passed'[k] \cup refused[k]) : d <= top => got[k][d] > 0 \/ d \in page
      BY <1>7, <1>8, <3>1
    <3> QED
      BY <1>5, <3>1, <3>3, <3>4 DEF Reaches
  <2> QED
    BY <2>1, <2>2
<1> QED
  BY <1>9, <1>10, <1>11, <1>12, <1>13, ReachFrame

\* Devices of a page that was sent are reached before the cursor leaves it.
LEMMA ReachSends ==
  ASSUME PushTypeOK, PushTypeOK', CampaignInv, ReachInv, NEW r \in Runs, SendToTokens(r)
  PROVE  ReachInv'
<1>1. run[r].pc = "send"
  BY DEF SendToTokens, Does
<1>2. run[r] \in Run /\ run[r].of \in Campaigns
  BY <1>1, RunKnown
<1>3. PICK k \in Campaigns : k = run[r].of
  BY <1>2
<1>p. PICK failing, reached, left :
        /\ failing \subseteq PageTokens(run[r])
        /\ reached = PageTokens(run[r]) \ (gone \cup failing)
        /\ left = (PageTokens(run[r]) \cap gone) \ failing
        /\ Tell(k, reached) /\ refused' = [refused EXCEPT ![k] = @ \cup failing]
        /\ run' = [run EXCEPT ![r].sent = @ + Cardinality(reached), ![r].page = left,
                              ![r].pc = IF left = {} THEN "page" ELSE "mark"]
        /\ UNCHANGED <<deviceVars, owed, passed, swept>>
  BY <1>3 DEF SendToTokens
<1> DEFINE sum == run[r].sent + Cardinality(reached)
           step == IF left = {} THEN "page" ELSE "mark"
<1>4. /\ UNCHANGED <<swept, owed, passed, valid, gone, enrolled>>
      /\ got' = [got EXCEPT ![k] = [d \in Devices |->
           IF d \in reached THEN (IF @[d] = 0 THEN 1 ELSE 2) ELSE @[d]]]
      /\ run' = [run EXCEPT ![r].sent = sum, ![r].page = left, ![r].pc = step]
  BY <1>p DEF deviceVars, Tell
<1>r. refused'[k] = refused[k] \cup failing /\ \A j \in Campaigns : refused[j] \subseteq refused'[j]
  BY <1>p DEF PushTypeOK
<1>5. left \subseteq run[r].page /\ step \in {"page", "mark"}
  BY <1>p DEF PageTokens
<1>6. \A d \in run[r].page : k \in Everyone \/ valid[d] => d \in reached \cup gone \cup failing
  BY <1>3, <1>p DEF PageTokens
<1> HIDE DEF sum, step
<1>7. run'[r] = [run[r] EXCEPT !.sent = sum, !.page = left, !.pc = step]
      /\ \A s \in Runs \ {r} : run'[s] = run[s]
  BY <1>4 DEF PushTypeOK
<1>8. run'[r].page = left /\ run'[r].pc = step /\ run'[r].of = k /\ run'[r].last = run[r].last
  BY <1>2, <1>3, <1>7 DEF Run
<1>9. /\ \A d \in Devices : got'[k][d] = IF d \in reached THEN (IF got[k][d] = 0 THEN 1 ELSE 2)
                                         ELSE got[k][d]
      /\ \A j \in Campaigns \ {k} : got'[j] = got[j]
  BY <1>4 DEF PushTypeOK
<1>10. Grows
  BY <1>4, <1>9, <1>r DEF Grows
<1>11. Reachable'
  BY <1>4 DEF ReachInv, Reachable
<1>12. Reaches(run[r])'
  <2>1. Reaches(run[r]) /\ run[r].page \subseteq Devices
    BY <1>2 DEF ReachInv, Run
  <2>2. ASSUME NEW d \in owed[k] \ (passed[k] \cup refused'[k]), d <= run[r].last
        PROVE  got'[k][d] > 0
    <3>1. valid[d] /\ d \notin gone /\ d \in Devices
      BY DEF ReachInv, PushTypeOK
    <3>2. got[k][d] > 0 \/ d \in run[r].page
      BY <1>1, <1>3, <1>r, <2>1, <2>2 DEF Reaches, Paging
    <3> QED
      BY <1>6, <1>9, <1>r, <2>2, <3>1, <3>2
  <2>3. \A d \in left : d <= run[r].last
    BY <1>1, <1>5, <2>1 DEF Reaches, Paging
  <2> QED
    BY <1>4, <1>5, <1>8, <2>2, <2>3 DEF Reaches
<1> QED
  BY <1>4, <1>7, <1>10, <1>11, <1>12, ReachFrame

\* Every step keeps what is owed within reach.
LEMMA ReachStep ==
  ASSUME PushTypeOK, PushTypeOK', CampaignInv, ReachInv, [PushNext]_pushVars
  PROVE  ReachInv'
<1>0. /\ run \in [Runs -> Run] /\ owed \in [Campaigns -> SUBSET Devices]
      /\ \A s \in Runs : run[s] \in Run
      /\ valid \in [Devices -> BOOLEAN]
  BY DEF PushTypeOK
<1>1. ASSUME UNCHANGED <<got, passed, refused, owed, swept, valid, gone, enrolled>>,
             \A s \in Runs : run'[s] # run[s] => run'[s].pc \notin Paging
      PROVE  ReachInv'
  <2>1. Grows /\ Reachable'
    BY <1>1 DEF Grows, Reachable, ReachInv
  <2>2. \A s \in Runs : run'[s] # run[s] => Reaches(run[s])'
    BY <1>1 DEF Reaches
  <2> QED
    BY <1>1, <2>1, <2>2, ReachFrame
<1>2. ASSUME NEW k \in Campaigns,
             \/ DedupOnce(k) \/ CreateNotificationLog(k) \/ SenderFails(k)
             \/ JobStalls(k) \/ NotificationLockExpires(k)
      PROVE  ReachInv'
  <2>1. UNCHANGED <<got, passed, refused, owed, swept, valid, gone, enrolled, run>>
    BY <1>2, Zenon DEF DedupOnce, CreateNotificationLog, SenderFails, JobStalls,
      NotificationLockExpires, Quiet, deviceVars, runVars
  <2> QED
    BY <1>1, <2>1
<1>3. ASSUME NEW k \in Campaigns, NEW r \in Runs, TakeJob(r, k) PROVE ReachInv'
  <2>1. /\ UNCHANGED <<got, passed, refused, owed, swept, valid, gone, enrolled>>
        /\ run' = [run EXCEPT ![r] = [Spare EXCEPT !.pc = "lock", !.of = k]]
    BY <1>3 DEF TakeJob, Quiet, deviceVars
  <2>2. \A s \in Runs : run'[s] # run[s] => run'[s].pc = "lock"
    BY <1>0, <2>1 DEF Spare
  <2> QED
    BY <1>1, <2>1, <2>2 DEF Paging
<1>9. ASSUME NEW k \in Campaigns, CampaignQueueAdd(k) PROVE ReachInv'
  <2> DEFINE set == {d \in Audience(k) \ gone : valid[d]}
  <2>1. /\ UNCHANGED <<got, passed, refused, swept, valid, gone, enrolled, run>>
        /\ owed' = [owed EXCEPT ![k] = set] /\ sender[k] = "enqueue"
    BY <1>9 DEF CampaignQueueAdd, deviceVars
  <2>2. owed'[k] = set /\ \A j \in Campaigns \ {k} : owed'[j] = owed[j]
    BY <1>0, <2>1
  <2>3. k \notin swept /\ \A s \in Runs : run[s].of # k
    <3>1. task[k] = "none" /\ Single(k)
      BY <2>1 DEF CampaignInv, JobOK
    <3> QED
      BY <3>1 DEF Single
  <2>4. \A j \in Campaigns : \A d \in owed'[j] :
          valid[d] /\ d \notin gone /\ (j \in Everyone \/ d \in enrolled)
    BY <2>2 DEF ReachInv, Audience
  <2>5. \A j \in swept : \A d \in owed'[j] \ (passed[j] \cup refused[j]) : got[j][d] > 0
    BY <2>2, <2>3 DEF ReachInv, PushTypeOK
  <2>6. ASSUME NEW s \in Runs PROVE Reaches(run[s])'
    <3>1. run[s].pc \in Paging => run[s].of \in Campaigns \ {k}
      BY <1>0, <2>3 DEF CampaignInv, RunOK, Run, Paging
    <3>2. Reaches(run[s])
      BY DEF ReachInv
    <3> HIDE DEF set
    <3> QED
      BY <2>1, <2>2, <3>1, <3>2 DEF Reaches
  <2> QED
    BY <2>1, <2>4, <2>5, <2>6 DEF ReachInv
<1>4. ASSUME NEW r \in Runs, AcquireLock(r) PROVE ReachInv'
  <2>1. run[r].pc = "lock"
    BY <1>4 DEF AcquireLock, Does
  <2>2. run[r].of \in Campaigns
    BY <2>1, RunKnown
  <2>3. PICK k \in Campaigns : k = run[r].of
    BY <2>2
  <2>4. UNCHANGED <<got, passed, refused, owed, swept, valid, gone, enrolled>>
    BY <1>4 DEF AcquireLock, Quiet, deviceVars
  <2>5. CASE lock[k]
    <3> DEFINE no == FALSE
    <3>1. run' = [run EXCEPT ![r].pc = "complete", ![r].counts = no]
      BY <1>4, <2>3, <2>5 DEF AcquireLock
    <3> HIDE DEF no
    <3>2. \A s \in Runs : run'[s] # run[s] => run'[s].pc = "complete"
      BY <1>0, <3>1 DEF Run
    <3> QED
      BY <1>1, <2>4, <3>2 DEF Paging
  <2>6. CASE ~lock[k]
    <3>1. run' = [run EXCEPT ![r].pc = "page"]
      BY <1>4, <2>3, <2>6, Zenon DEF AcquireLock, Goes
    <3>2. run'[r] = [run[r] EXCEPT !.pc = "page"] /\ \A s \in Runs \ {r} : run'[s] = run[s]
      BY <1>0, <3>1
    <3>3. run'[r].pc = "page" /\ run'[r].of = k /\ run'[r].last = run[r].last /\ run'[r].page = run[r].page
      BY <1>0, <2>3, <3>2 DEF Run
    <3>4. run[r].last = 0 /\ run[r].page = {}
      BY <2>1 DEF CampaignInv, RunOK
    <3>5. Reaches(run[r])'
      <4>1. owed' \in [Campaigns -> SUBSET Devices] /\ \A d \in Devices : ~(d <= 0)
        BY DevicesFinite DEF PushTypeOK
      <4> QED
        BY <3>3, <3>4, <4>1 DEF Reaches
    <3>6. Grows /\ Reachable'
      BY <2>4 DEF Grows, Reachable, ReachInv
    <3> QED
      BY <2>4, <3>2, <3>5, <3>6, ReachFrame
  <2> QED
    BY <2>5, <2>6
<1>5. ASSUME NEW r \in Runs, InvalidateTokens(r) PROVE ReachInv'
  <2>1. run[r].pc = "mark"
    BY <1>5 DEF InvalidateTokens, Does
  <2>2. run[r].of \in Campaigns /\ Reaches(run[r])
    BY <2>1, RunKnown DEF ReachInv
  <2> DEFINE none == {}
  <2>3. /\ UNCHANGED <<got, passed, refused, swept, gone, enrolled>>
        /\ run' = [run EXCEPT ![r].pc = "page", ![r].page = none]
        /\ \A k \in Campaigns : owed'[k] = owed[k] \ run[r].page
        /\ \A d \in Devices : valid[d] /\ d \notin run[r].page => valid'[d]
    BY <1>5, Zenon DEF InvalidateTokens
  <2>4. none = {}
    OBVIOUS
  <2> HIDE DEF none
  <2>5. /\ run'[r] = [run[r] EXCEPT !.pc = "page", !.page = none]
        /\ \A s \in Runs \ {r} : run'[s] = run[s]
    BY <1>0, <2>3
  <2>6. run'[r].pc = "page" /\ run'[r].of = run[r].of /\ run'[r].last = run[r].last /\ run'[r].page = none
    BY <1>0, <2>5 DEF Run
  <2>7. Grows /\ Reachable'
    BY <1>0, <2>3 DEF Grows, Reachable, ReachInv
  <2>8. Reaches(run[r])'
    BY <2>1, <2>2, <2>3, <2>4, <2>6 DEF Reaches, Paging
  <2> QED
    BY <2>3, <2>5, <2>7, <2>8, ReachFrame
<1>6. ASSUME NEW r \in Runs, \/ ReleaseLock(r) \/ CompleteJob(r) \/ CountSent(r) \/ RunDies(r)
                             \/ AcquireFails(r) \/ AcquireResent(r) \/ ReleaseFails(r)
      PROVE  ReachInv'
  <2> DEFINE no == FALSE
  <2>1. UNCHANGED <<got, passed, refused, owed, swept, valid, gone, enrolled>>
    BY <1>6, Zenon DEF ReleaseLock, CompleteJob, CountSent, RunDies, AcquireFails, AcquireResent,
      ReleaseFails, Quiet, deviceVars
  <2>2. \/ run' = [run EXCEPT ![r].pc = "complete", ![r].counts = no]
        \/ run' = [run EXCEPT ![r].pc = "complete"] \/ run' = [run EXCEPT ![r].pc = "count"]
        \/ run' = [run EXCEPT ![r] = Spare]
    BY <1>6, Zenon DEF ReleaseLock, CompleteJob, CountSent, RunDies, AcquireFails, AcquireResent,
      ReleaseFails, FailJob, Goes
  <2>3. Spare.pc = "idle"
    BY DEF Spare
  <2> HIDE DEF no
  <2>4. \A s \in Runs : run'[s] # run[s] => run'[s].pc \in {"complete", "count", "idle"}
    BY <1>0, <2>2, <2>3 DEF Run
  <2> QED
    BY <1>1, <2>1, <2>4 DEF Paging
<1>10. ASSUME NEW r \in Runs, SendFails(r) PROVE ReachInv'
  <2> DEFINE no == FALSE
  <2>1. /\ UNCHANGED <<passed, refused, owed, swept, valid, gone, enrolled>>
        /\ run' = [run EXCEPT ![r].pc = "release", ![r].counts = no]
    BY <1>10, Zenon DEF SendFails, deviceVars
  <2> HIDE DEF no
  <2>2. \A s \in Runs : run'[s] # run[s] => run'[s].pc = "release"
    BY <1>0, <2>1 DEF Run
  <2>3. PICK reached : Tell(run[r].of, reached)
    BY <1>10 DEF SendFails
  <2>4. \A k \in Campaigns, d \in Devices : got[k][d] > 0 => got'[k][d] > 0
    BY <2>3 DEF Tell, PushTypeOK
  <2>5. Grows /\ Reachable'
    BY <2>1, <2>4 DEF Grows, Reachable, ReachInv
  <2>6. \A s \in Runs : run'[s] # run[s] => Reaches(run[s])'
    BY <2>2 DEF Reaches, Paging
  <2> QED
    BY <2>1, <2>5, <2>6, ReachFrame
<1>7. ASSUME NEW d \in Devices, RegisterDevice(d) \/ Uninstall(d) \/ EnrolmentChanges(d)
      PROVE  ReachInv'
  <2>1. UNCHANGED <<got, passed, refused, swept, run>>
    BY <1>7 DEF RegisterDevice, Uninstall, EnrolmentChanges, Change
  <2>2. \A k \in Campaigns : owed'[k] \subseteq owed[k]
    BY <1>0, <1>7 DEF RegisterDevice, Uninstall, EnrolmentChanges, Leaves
  <2>3. Reachable'
    <3>1. CASE RegisterDevice(d)
      <4>1. UNCHANGED <<owed, enrolled>> /\ gone' \subseteq gone /\ \A e \in Devices : valid[e] => valid'[e]
        BY <1>0, <3>1, Zenon DEF RegisterDevice
      <4> QED
        BY <1>0, <4>1 DEF Reachable, ReachInv
    <3>2. CASE Uninstall(d)
      <4>1. /\ UNCHANGED <<valid, enrolled>> /\ gone' = gone \cup {d}
            /\ \A k \in Campaigns : owed'[k] = owed[k] \ {d}
        BY <3>2 DEF Uninstall, Leaves
      <4> QED
        BY <1>0, <4>1 DEF Reachable, ReachInv
    <3>3. CASE EnrolmentChanges(d)
      <4>1. /\ UNCHANGED <<valid, gone>> /\ enrolled \ {d} \subseteq enrolled'
            /\ \A k \in Campaigns : owed'[k] = IF k \in Everyone THEN owed[k] ELSE owed[k] \ {d}
        BY <3>3 DEF EnrolmentChanges, Leaves
      <4> QED
        BY <1>0, <4>1 DEF Reachable, ReachInv
    <3> QED
      BY <1>7, <3>1, <3>2, <3>3
  <2>4. Grows
    BY <2>1, <2>2 DEF Grows
  <2> QED
    BY <2>1, <2>3, <2>4, ReachFrame
<1>8. ClaimExpires \/ UNCHANGED pushVars => ReachInv'
  BY <1>1 DEF ClaimExpires, pushVars, deviceVars, runVars
<1> QED
  BY <1>2, <1>3, <1>4, <1>5, <1>6, <1>7, <1>8, <1>9, <1>10, ReachReads, ReachSends DEF PushNext

\* Before any request nothing is claimed, queued or reached.
LEMMA PushStart == PushInit => PushInv
<1> SUFFICES ASSUME PushInit PROVE PushInv
  OBVIOUS
<1> USE PushCampaignAssumption
<1>0. Spare \in Run /\ Spare.pc = "idle" /\ Spare.of = NoCampaign
  BY DEF Spare, Run
<1>1. PushTypeOK
  <2>1. run \in [Runs -> Run] /\ (\A r \in Runs : run[r] = Spare)
    BY <1>0 DEF PushInit
  <2>2. lock \in [Campaigns -> BOOLEAN] /\ claimed \in BOOLEAN /\ renewed \in BOOLEAN
    BY DEF PushInit
  <2> QED
    BY <2>1, <2>2 DEF PushInit, PushTypeOK
<1>2. ClaimInv
  BY DEF PushInit, ClaimInv, Won
<1>3. CampaignInv
  <2>1. \A r \in Runs : RunOK(run[r])
    BY <1>0 DEF PushInit, RunOK
  <2>2. ASSUME NEW k \in Campaigns PROVE JobOK(k)
    <3>1. /\ sender[k] = "new" /\ task[k] = "none" /\ record[k] = NoRow /\ ~lock[k]
          /\ \A d \in Devices : got[k][d] = 0
          /\ k \notin swept \cup failed \cup again /\ \A s \in Runs : run[s].of # k
      BY <1>0, Zenon DEF PushInit
    <3> QED
      BY <3>1 DEF JobOK, Single, Untold
  <2> QED
    BY <2>1, <2>2 DEF CampaignInv
<1>4. ReachInv
  BY <1>0 DEF PushInit, ReachInv, Reaches, Paging
<1> QED
  BY <1>1, <1>2, <1>3, <1>4 DEF PushInv

\* A campaign and its log agree with what the devices got.
LEMMA PushFollows == PushInv => CampaignsAccounted
<1> SUFFICES ASSUME PushInv PROVE CampaignsAccounted
  OBVIOUS
<1>0. /\ run \in [Runs -> Run] /\ task \in [Campaigns -> JobStates]
      /\ Runs \cap {"none", "waiting", "orphan", "done"} = {}
  BY PushCampaignAssumption DEF PushInv, PushTypeOK, JobStates
<1>1. Cardinality({k \in Campaigns : task[k] # "none"}) > 1 => renewed
  <2> SUFFICES ASSUME ~renewed PROVE Cardinality({k \in Campaigns : task[k] # "none"}) <= 1
               /\ Cardinality({k \in Campaigns : task[k] # "none"}) \in Nat
    OBVIOUS
  <2> DEFINE K == {k \in Campaigns : task[k] # "none"}
  <2>1. \A j, k \in K : j = k
    BY DEF PushInv, ClaimInv, Won
  <2>2. CASE K = {}
    BY <2>2, FS_EmptySet
  <2>3. CASE K # {}
    <3>1. PICK k : K = {k}
      BY <2>1, <2>3
    <3> QED
      BY <3>1, FS_Singleton
  <2> QED
    BY <2>2, <2>3
<1>2. \A k \in swept : \A d \in owed[k] \ (passed[k] \cup refused[k]) : got[k][d] > 0
  BY DEF PushInv, ReachInv
<1>3. ASSUME NEW k \in Campaigns, k \notin again
      PROVE  /\ task[k] = "done" => k \in swept \cup failed
             /\ \A d \in Devices : got[k][d] <= 1
             /\ task[k] = "done" /\ ~Counting(k) /\ k \notin unlogged \cup failed =>
                  record[k] = Reached(k)
  <2>1. Single(k)
    BY <1>3 DEF PushInv, CampaignInv, JobOK
  <2>2. task[k] = "done" /\ ~Counting(k) => \A s \in Runs : run[s].of # k
    BY <2>1 DEF Single, Counting, Does
  <2> QED
    BY <2>1, <2>2 DEF Single
<1> QED
  BY <1>1, <1>2, <1>3 DEF CampaignsAccounted, Reached

\* The invariant holds in every state.
LEMMA PushAlways == PushSpec => []PushInv
<1>1. PushInv /\ [PushNext]_pushVars => PushInv'
  BY PushTypeStep, ClaimStep, CampaignStep, ReachStep DEF PushInv
<1> QED
  BY PushStart, <1>1, PTL DEF PushSpec

\* Every variable of the campaigns keeps its type.
THEOREM PushTyped == PushSpec => []PushTypeOK
<1>1. PushInv => PushTypeOK
  BY DEF PushInv
<1> QED
  BY <1>1, PushAlways, PTL

\* For any number of campaigns, runs, devices, attempts and failures (createMessage, the
\* job and its lock, allUsersPages, courseStudentIdPages and sendToTokens): a campaign
\* that was swept reached every device that could be reached since it was queued but for
\* those FCM refused and those the paging passed over; no device got a message twice
\* unless its job stalled or threw, and the log says how many got it.
THEOREM CampaignsKept == PushSpec => []CampaignsAccounted
BY PushAlways, PushFollows, PTL
=============================================================================
