-------------------------- MODULE LiveClassesProofs --------------------------
(***************************************************************************)
(* Around a live class, for any number of webhooks, files, viewers,        *)
(* courses and requests: the parts of its recording are numbered and       *)
(* published once, the number of viewers that is shown has an explanation, *)
(* archived courses are billed to running ones and cycles follow their     *)
(* course, the books of a month agree (what was used, summed up, billed    *)
(* and paid), and every subject, chapter and class is looked up where it   *)
(* is and shown once.                                                      *)
(***************************************************************************)
EXTENDS RecordingIngest, WatchPresence, CourseArchive, UsageBilling, CourseTree, FiniteSetTheorems,
        WellFoundedInduction, TLAPS

-----------------------------------------------------------------------------
(* Recordings *)

\* What a webhook's handler is about, and what its steps after the claim are.
Hook == [pc : {"idle", "claim", "fetch", "look", "publish"},
         file : Files \cup {NoFile}, closed : BOOLEAN]
Working(q, f) == q.file = f /\ q.pc \in {"fetch", "look", "publish"}
Handling(h, f) == Working(hook[h], f)

HookInv ==
  \A h \in Hooks : hook[h].pc # "idle" => hook[h].file \in Files

\* A file has its row while it is handled and once it has a part; a named one has
\* one handler, or one part.
NamedInv ==
  /\ \A f \in Files : (\E h \in Hooks : Handling(h, f)) \/ PartsOf(f) # {} => ingest[f] # "none"
  /\ \A f \in Named :
       /\ \A g, h \in Hooks : Handling(g, f) /\ Handling(h, f) => g = h
       /\ \A h \in Hooks : Handling(h, f) => PartsOf(f) = {}

\* Every variable keeps its type, and a handler its file.
LEMMA RecTypeStep ==
  ASSUME RecTypeOK, HookInv, [RecNext]_recVars
  PROVE  RecTypeOK' /\ HookInv'
<1> USE RecordingAssumption
<1>0. hook \in [Hooks -> Hook]
  BY DEF RecTypeOK, Hook
<1>a. ASSUME NEW h \in Hooks, NEW q \in Hook, hook' = [hook EXCEPT ![h] = q],
             q.pc # "idle" => q.file \in Files
      PROVE  hook' \in [Hooks -> Hook] /\ HookInv'
  BY <1>0, <1>a DEF HookInv
<1>i. Waiting \in Hook /\ Waiting.pc = "idle"
  BY DEF Waiting, Hook
<1>1. ASSUME NEW h \in Hooks, NEW f \in Files, RecordingAvailable(h, f)
      PROVE  RecTypeOK' /\ HookInv'
  <2> DEFINE q == [Waiting EXCEPT !.pc = "claim", !.file = f]
  <2>1. q \in Hook /\ q.file \in Files
    BY DEF Waiting, Hook
  <2> HIDE DEF q
  <2>2. hook' \in [Hooks -> Hook] /\ HookInv'
    BY <1>1, <1>a, <2>1 DEF RecordingAvailable, q
  <2> QED
    BY <1>1, <2>2 DEF RecordingAvailable, RecTypeOK, Hook
<1>b. ASSUME NEW h \in Hooks, NEW pc \in {"fetch", "look"}, Step(h, pc), hook[h].pc # "idle"
      PROVE  hook' \in [Hooks -> Hook] /\ HookInv'
  <2> DEFINE q == [hook[h] EXCEPT !.pc = pc]
  <2>1. q \in Hook /\ q.file = hook[h].file
    BY <1>0 DEF Hook
  <2>2. hook' = [hook EXCEPT ![h] = q]
    BY <1>0, <1>b DEF Step
  <2>3. q.file \in Files
    BY <1>b, <2>1 DEF HookInv
  <2> HIDE DEF q
  <2> QED
    BY <1>a, <2>1, <2>2, <2>3
<1>2. ASSUME NEW h \in Hooks, ClaimRecording(h)
      PROVE  RecTypeOK' /\ HookInv'
  <2>1. hook' \in [Hooks -> Hook] /\ HookInv'
    BY <1>2, <1>a, <1>b, <1>i DEF ClaimRecording
  <2>2. ingest' \in [Files -> {"none", "processing", "done", "failed"}]
    BY <1>2 DEF ClaimRecording, RecTypeOK
  <2> QED
    BY <1>2, <2>1, <2>2 DEF ClaimRecording, RecTypeOK, Hook
<1>3. ASSUME NEW h \in Hooks, FetchVideo(h)
      PROVE  RecTypeOK' /\ HookInv'
  <2>1. hook' \in [Hooks -> Hook] /\ HookInv'
    BY <1>3, <1>b DEF FetchVideo
  <2> QED
    BY <1>3, <2>1 DEF FetchVideo, RecTypeOK, Hook
<1>c. Break => breaks' \in 0 .. MaxBreaks
  BY DEF Break, RecTypeOK
<1>4. ASSUME NEW h \in Hooks, FetchFails(h)
      PROVE  RecTypeOK' /\ HookInv'
  <2>1. hook' \in [Hooks -> Hook] /\ HookInv'
    BY <1>4, <1>a, <1>i DEF FetchFails
  <2>2. hook[h].file \in Files
    BY <1>4 DEF FetchFails, HookInv
  <2> QED
    BY <1>4, <1>c, <2>1, <2>2 DEF FetchFails, RecTypeOK, Hook
<1>5. ASSUME NEW h \in Hooks, LookClosed(h)
      PROVE  RecTypeOK' /\ HookInv'
  <2> DEFINE q == [hook[h] EXCEPT !.pc = "publish", !.closed = live.closed]
  <2>0. live.closed \in BOOLEAN
    BY DEF RecTypeOK
  <2>1. q \in Hook /\ q.file = hook[h].file
    BY <1>0, <2>0, Zenon DEF Hook
  <2>2. hook' = [hook EXCEPT ![h] = q]
    BY <1>0, <1>5 DEF LookClosed
  <2>3. q.file \in Files
    BY <1>5, <2>1 DEF LookClosed, HookInv
  <2> HIDE DEF q
  <2>4. hook' \in [Hooks -> Hook] /\ HookInv'
    BY <1>a, <2>1, <2>2, <2>3
  <2> QED
    BY <1>5, <2>4 DEF LookClosed, RecTypeOK, Hook
<1>6. ASSUME NEW h \in Hooks, PublishPart(h)
      PROVE  RecTypeOK' /\ HookInv'
  <2>1. hook' \in [Hooks -> Hook] /\ HookInv'
    BY <1>6, <1>a, <1>i DEF PublishPart
  <2>2. /\ hook[h].file \in Files /\ live.count \in Nat /\ live.count + 1 \in 1 .. MaxParts
        /\ hook[h].closed \in BOOLEAN
    BY <1>0, <1>6 DEF PublishPart, HookInv, RecTypeOK, Hook
  <2>3. live' \in [status : {"live", "processing", "completed", "recorded"},
                   closed : BOOLEAN, count : 0 .. MaxParts, video : Files \cup {NoFile}]
    <3> DEFINE status == IF hook[h].closed THEN "processing" ELSE "live"
               n == live.count + 1
    <3>1. live' = [live EXCEPT !.status = status, !.count = n, !.video = hook[h].file]
      BY <1>6 DEF PublishPart
    <3>2. status \in {"live", "processing", "completed", "recorded"} /\ n \in 0 .. MaxParts
      BY <2>2
    <3> HIDE DEF status, n
    <3> QED
      BY <2>2, <3>1, <3>2 DEF RecTypeOK
  <2>4. parts' \subseteq [file : Files, index : 1 .. MaxParts]
    BY <1>6, <2>2 DEF PublishPart, RecTypeOK
  <2>5. stale' \in BOOLEAN
    BY <1>6 DEF PublishPart, RecTypeOK
  <2> QED
    BY <1>6, <2>1, <2>3, <2>4, <2>5 DEF PublishPart, RecTypeOK, Hook
<1>7. ASSUME NEW h \in Hooks, HookDies(h)
      PROVE  RecTypeOK' /\ HookInv'
  <2>1. hook' \in [Hooks -> Hook] /\ HookInv'
    BY <1>7, <1>a, <1>i DEF HookDies
  <2>2. hook[h].file \in Files
    BY <1>7 DEF HookDies, HookInv
  <2> QED
    BY <1>7, <1>c, <2>1, <2>2 DEF HookDies, RecTypeOK, Hook
<1>8. ASSUME RoomLive \/ RoomClosed \/ PublishRecorded
      PROVE  RecTypeOK' /\ HookInv'
  <2>1. breaks' \in 0 .. MaxBreaks
    BY <1>8, <1>c DEF RoomLive, RoomClosed, PublishRecorded, RecTypeOK
  <2>2. live' \in [status : {"live", "processing", "completed", "recorded"},
                   closed : BOOLEAN, count : 0 .. MaxParts, video : Files \cup {NoFile}]
    BY <1>8 DEF RoomLive, RoomClosed, PublishRecorded, RecTypeOK
  <2> QED
    BY <1>8, <2>1, <2>2 DEF RoomLive, RoomClosed, PublishRecorded, RecTypeOK, HookInv
<1>9. CASE UNCHANGED recVars
  BY <1>9 DEF recVars, RecTypeOK, HookInv
<1> QED
  BY <1>1, <1>2, <1>3, <1>4, <1>5, <1>6, <1>7, <1>8, <1>9 DEF RecNext

\* Whatever interleaves, the claims about the recordings hold.
LEMMA RecStep ==
  ASSUME RecTypeOK, RecTypeOK', HookInv, NamedInv, RecordingsKept, [RecNext]_recVars
  PROVE  NamedInv' /\ RecordingsKept'
<1> USE RecordingAssumption
<1>0. /\ hook \in [Hooks -> Hook] /\ ingest \in [Files -> {"none", "processing", "done", "failed"}]
      /\ parts \subseteq [file : Files, index : 1 .. MaxParts]
      /\ live.count \in Nat /\ live.closed \in BOOLEAN /\ Named \subseteq Files
      /\ live \in [status : {"live", "processing", "completed", "recorded"},
                   closed : BOOLEAN, count : 0 .. MaxParts, video : Files \cup {NoFile}]
  BY DEF RecTypeOK, Hook
\* What the new value of one hook means for who handles what.
<1>h. ASSUME NEW h \in Hooks, NEW q, hook' = [hook EXCEPT ![h] = q]
      PROVE  \A g \in Hooks : \A f : Handling(g, f)' <=> IF g = h THEN Working(q, f) ELSE Handling(g, f)
  BY <1>0, <1>h DEF Handling, Working
<1>w. \A f : f # NoFile => ~Working(Waiting, f)
  BY DEF Working, Waiting
<1>k. \A f : (Handled(f) <=> \E h \in Hooks : Handling(h, f))
             /\ (Handled(f)' <=> \E h \in Hooks : Handling(h, f)')
  BY DEF Handled, Handling, Working
\* A step that publishes nothing and claims nothing.
<1>a. ASSUME UNCHANGED parts, live'.count = live.count, ClosedNotLive',
             \A g \in Hooks, f \in Files : Handling(g, f)' => Handling(g, f),
             \A f \in Files : ingest'[f] # "none" <=> ingest[f] # "none",
             failed \subseteq failed',
             \A g \in Hooks, f \in Files : Handling(g, f) => Handling(g, f)' \/ f \in failed'
      PROVE  NamedInv' /\ RecordingsKept'
  <2>1. NamedInv'
    BY <1>0, <1>a DEF NamedInv, PartsOf
  <2>2. NumberedInOrder' /\ PublishedOnce'
    BY <1>a DEF RecordingsKept, NumberedInOrder, PublishedOnce
  <2>3. ClaimedIsPublished'
    BY <1>a, <1>k DEF RecordingsKept, ClaimedIsPublished, PartsOf
  <2> QED
    BY <1>a, <2>1, <2>2, <2>3 DEF RecordingsKept
<1>b. UNCHANGED <<live, stale>> => ClosedNotLive'
  BY DEF RecordingsKept, ClosedNotLive
<1>1. ASSUME NEW h \in Hooks, NEW f \in Files, RecordingAvailable(h, f)
      PROVE  NamedInv' /\ RecordingsKept'
  <2> DEFINE q == [Waiting EXCEPT !.pc = "claim", !.file = f]
  <2>1. hook' = [hook EXCEPT ![h] = q] /\ \A k : ~Working(q, k)
    BY <1>1 DEF RecordingAvailable, Waiting, Working
  <2>2. UNCHANGED <<live, ingest, parts, stale, failed>> /\ \A k : ~Handling(h, k)
    BY <1>1 DEF RecordingAvailable, Handling, Working
  <2> HIDE DEF q
  <2> QED
    BY <1>a, <1>b, <1>h, <2>1, <2>2
<1>2. ASSUME NEW h \in Hooks, ClaimRecording(h)
      PROVE  NamedInv' /\ RecordingsKept'
  <2> DEFINE f == hook[h].file
             q == [hook[h] EXCEPT !.pc = "fetch"]
  <2>0. UNCHANGED <<live, parts, stale, failed>> /\ f \in Files /\ \A k : ~Handling(h, k)
    BY <1>2 DEF ClaimRecording, Handling, Working, HookInv
  <2>1. CASE Duplicate(f)
    <3>1. hook' = [hook EXCEPT ![h] = Waiting] /\ UNCHANGED ingest
      BY <1>2, <2>1 DEF ClaimRecording
    <3> QED
      BY <1>a, <1>b, <1>h, <1>w, <2>0, <3>1
  <2>2. CASE ~Duplicate(f)
    <3>1. /\ hook' = [hook EXCEPT ![h] = q] /\ \A k : Working(q, k) <=> k = f
          /\ ingest' = [ingest EXCEPT ![f] = "processing"]
      BY <1>0, <1>2, <2>2 DEF ClaimRecording, Step, Working, Hook
    <3>2. f \in Named => ingest[f] = "none"
      BY <2>2 DEF Duplicate
    <3> HIDE DEF f, q
    <3>3. \A g \in Hooks : \A k : Handling(g, k)' <=> IF g = h THEN k = f ELSE Handling(g, k)
      BY <1>h, <3>1
    <3>4. \A k \in Files : ingest'[k] = IF k = f THEN "processing" ELSE ingest[k]
      BY <1>0, <3>1
    <3>5. NamedInv'
      BY <1>0, <2>0, <3>2, <3>3, <3>4 DEF NamedInv, PartsOf
    <3>6. ClaimedIsPublished'
      BY <1>k, <2>0, <3>3, <3>4 DEF RecordingsKept, ClaimedIsPublished, PartsOf
    <3> QED
      BY <1>b, <2>0, <3>5, <3>6 DEF RecordingsKept, NumberedInOrder, PublishedOnce
  <2> QED
    BY <2>1, <2>2
<1>3. ASSUME NEW h \in Hooks, FetchVideo(h)
      PROVE  NamedInv' /\ RecordingsKept'
  <2> DEFINE q == [hook[h] EXCEPT !.pc = "look"]
  <2>1. /\ hook' = [hook EXCEPT ![h] = q] /\ \A k : Working(q, k) <=> Handling(h, k)
    BY <1>0, <1>3 DEF FetchVideo, Step, Working, Handling, Hook
  <2>2. /\ UNCHANGED <<live, parts, stale, failed>>
        /\ ingest' = [ingest EXCEPT ![hook[h].file] = "done"]
        /\ Handling(h, hook[h].file)
    BY <1>3 DEF FetchVideo, Handling, Working
  <2>3. \A k \in Files : ingest'[k] # "none" <=> ingest[k] # "none" \/ k = hook[h].file
    BY <1>0, <2>2
  <2> HIDE DEF q
  <2>4. \A g \in Hooks : \A k : Handling(g, k)' <=> Handling(g, k)
    BY <1>h, <2>1
  <2> QED
    BY <1>0, <1>a, <1>b, <2>2, <2>3, <2>4 DEF NamedInv
<1>4. ASSUME NEW h \in Hooks, FetchFails(h)
      PROVE  NamedInv' /\ RecordingsKept'
  <2>1. /\ hook' = [hook EXCEPT ![h] = Waiting] /\ failed' = failed \cup {hook[h].file}
        /\ ingest' = [ingest EXCEPT ![hook[h].file] = "failed"]
        /\ Handling(h, hook[h].file) /\ UNCHANGED <<live, parts, stale>>
    BY <1>4 DEF FetchFails, Handling, Working
  <2>2. /\ \A k \in Files : ingest'[k] # "none" <=> ingest[k] # "none" \/ k = hook[h].file
        /\ \A k : Handling(h, k) => k = hook[h].file
    BY <1>0, <2>1 DEF Handling, Working
  <2>3. \A g \in Hooks : \A k : k # NoFile =>
          (Handling(g, k)' <=> g # h /\ Handling(g, k))
    BY <1>h, <1>w, <2>1
  <2>4. \A g \in Hooks, k \in Files : /\ Handling(g, k)' => Handling(g, k)
                                      /\ Handling(g, k) => Handling(g, k)' \/ k \in failed'
    BY <2>1, <2>2, <2>3
  <2> QED
    BY <1>0, <1>a, <1>b, <2>1, <2>2, <2>4 DEF NamedInv
<1>5. ASSUME NEW h \in Hooks, LookClosed(h)
      PROVE  NamedInv' /\ RecordingsKept'
  <2> DEFINE q == [hook[h] EXCEPT !.pc = "publish", !.closed = live.closed]
  <2>1. /\ hook' = [hook EXCEPT ![h] = q] /\ \A k : Working(q, k) <=> Handling(h, k)
        /\ UNCHANGED <<live, parts, stale, failed, ingest>>
    BY <1>0, <1>5 DEF LookClosed, Working, Handling, Hook
  <2> HIDE DEF q
  <2>2. \A g \in Hooks : \A k : Handling(g, k)' <=> Handling(g, k)
    BY <1>h, <2>1
  <2> QED
    BY <1>a, <1>b, <2>1, <2>2
<1>6. ASSUME NEW h \in Hooks, PublishPart(h)
      PROVE  NamedInv' /\ RecordingsKept'
  <2> DEFINE f == hook[h].file
             n == live.count + 1
             status == IF hook[h].closed THEN "processing" ELSE "live"
             p == [file |-> f, index |-> n]
  <2>1. /\ hook' = [hook EXCEPT ![h] = Waiting] /\ Handling(h, f) /\ f \in Files
        /\ live' = [live EXCEPT !.status = status, !.count = n, !.video = f]
        /\ parts' = parts \cup {p} /\ UNCHANGED <<ingest, failed>>
        /\ stale' = (stale \/ hook[h].closed # live.closed)
    BY <1>6 DEF PublishPart, Handling, Working, HookInv
  <2>2. /\ live'.count = n /\ live'.status = status /\ live'.closed = live.closed
    BY <1>0, <2>1
  <2>3. p.file = f /\ p.index = n /\ \A k : Handling(h, k) => k = f
    BY DEF Handling, Working
  <2>4. \A g \in Hooks : \A k : k # NoFile => (Handling(g, k)' <=> g # h /\ Handling(g, k))
    BY <1>h, <1>w, <2>1
  <2>5. NumberedInOrder'
    <3>1. {x.index : x \in parts} = 1 .. live.count /\ \A x, y \in parts : x.index = y.index => x = y
      BY DEF RecordingsKept, NumberedInOrder
    <3>2. n = live.count + 1 /\ \A x \in parts : x.index # n
      BY <1>0, <3>1
    <3> HIDE DEF n, p
    <3>3. {x.index : x \in parts'} = {x.index : x \in parts} \cup {n}
      BY <2>1, <2>3
    <3>4. 1 .. n = (1 .. live.count) \cup {n}
      BY <1>0, <3>2
    <3> QED
      BY <2>1, <2>2, <2>3, <3>1, <3>2, <3>3, <3>4 DEF NumberedInOrder
  <2> HIDE DEF f, n, p
  <2>6. \A k : PartsOf(k)' = IF k = f THEN PartsOf(k) \cup {p} ELSE PartsOf(k)
    BY <2>1, <2>3 DEF PartsOf
  <2>7. NamedInv'
    <3>1. ASSUME NEW k \in Files, (\E g \in Hooks : Handling(g, k)') \/ PartsOf(k)' # {}
          PROVE  ingest'[k] # "none"
      BY <1>0, <2>1, <2>4, <2>6, <3>1 DEF NamedInv
    <3>2. ASSUME NEW k \in Named, NEW g \in Hooks, Handling(g, k)'
          PROVE  PartsOf(k)' = {} /\ \A o \in Hooks : Handling(o, k)' => g = o
      <4>1. g # h /\ Handling(g, k) /\ k \in Files
        BY <2>4, <3>2
      <4>2. k # f
        BY <2>1, <4>1 DEF NamedInv
      <4> QED
        BY <2>4, <2>6, <4>1, <4>2 DEF NamedInv
    <3> QED
      BY <3>1, <3>2 DEF NamedInv
  <2>8. PublishedOnce'
    <3>1. \A x \in parts : x.file = f => x \in PartsOf(f)
      BY DEF PartsOf
    <3>2. f \in Named => \A x \in parts : x.file # f
      BY <2>1, <3>1 DEF NamedInv
    <3> QED
      BY <2>1, <2>3, <3>2 DEF RecordingsKept, PublishedOnce
  <2>9. ClaimedIsPublished'
    <3> SUFFICES ASSUME NEW k \in Files, ingest'[k] # "none"
                 PROVE  PartsOf(k)' # {} \/ Handled(k)' \/ k \in failed'
      BY DEF ClaimedIsPublished
    <3>1. CASE k = f
      BY <2>6, <3>1
    <3>2. CASE k # f
      BY <1>k, <2>1, <2>3, <2>4, <2>6, <3>2 DEF RecordingsKept, ClaimedIsPublished
    <3> QED
      BY <3>1, <3>2
  <2>10. ClosedNotLive'
    BY <1>0, <2>1, <2>2 DEF RecordingsKept, ClosedNotLive
  <2> QED
    BY <2>5, <2>7, <2>8, <2>9, <2>10 DEF RecordingsKept
<1>7. ASSUME NEW h \in Hooks, HookDies(h)
      PROVE  NamedInv' /\ RecordingsKept'
  <2>1. /\ hook' = [hook EXCEPT ![h] = Waiting] /\ UNCHANGED <<live, parts, stale, ingest>>
        /\ failed' = IF hook[h].pc = "claim" THEN failed ELSE failed \cup {hook[h].file}
    BY <1>7 DEF HookDies
  <2>2. \A k : Handling(h, k) => k \in failed'
    BY <2>1 DEF Handling, Working
  <2>3. \A g \in Hooks : \A k : k # NoFile => (Handling(g, k)' <=> g # h /\ Handling(g, k))
    BY <1>h, <1>w, <2>1
  <2> QED
    BY <1>a, <1>b, <2>1, <2>2, <2>3
<1>8. ASSUME RoomLive \/ RoomClosed \/ PublishRecorded
      PROVE  NamedInv' /\ RecordingsKept'
  <2>1. UNCHANGED <<ingest, parts, hook, failed, stale>>
    BY <1>8 DEF RoomLive, RoomClosed, PublishRecorded
  <2>2. live'.count = live.count /\ ClosedNotLive'
    BY <1>0, <1>8 DEF RoomLive, RoomClosed, PublishRecorded, ClosedNotLive
  <2> QED
    BY <1>a, <2>1, <2>2 DEF Handling
<1>9. CASE UNCHANGED recVars
  BY <1>9, <1>a, <1>b DEF recVars, Handling
<1> QED
  BY <1>1, <1>2, <1>3, <1>4, <1>5, <1>6, <1>7, <1>8, <1>9 DEF RecNext

\* The invariant and the property hold in every state.
LEMMA RecordingsAlways == RecSpec => [](RecTypeOK /\ HookInv /\ NamedInv /\ RecordingsKept)
<1>1. RecInit => RecTypeOK /\ HookInv /\ NamedInv /\ RecordingsKept
  <2> SUFFICES ASSUME RecInit PROVE RecTypeOK /\ HookInv /\ NamedInv /\ RecordingsKept
    OBVIOUS
  <2>1. HookInv /\ \A h \in Hooks : hook[h] = Waiting
    BY DEF RecInit, HookInv, Waiting
  <2>t. RecTypeOK
    <3>1. live \in [status : {"live", "processing", "completed", "recorded"},
                   closed : BOOLEAN, count : 0 .. MaxParts, video : Files \cup {NoFile}]
      BY RecordingAssumption DEF RecInit
    <3>2. hook \in [Hooks -> Hook]
      BY DEF RecInit, Waiting, Hook
    <3>3. ingest \in [Files -> {"none", "processing", "done", "failed"}] /\ breaks \in 0 .. MaxBreaks
      BY RecordingAssumption DEF RecInit
    <3> QED
      BY <3>1, <3>2, <3>3, RecordingAssumption DEF RecInit, RecTypeOK, Hook
  <2>2. NamedInv
    BY RecordingAssumption DEF RecInit, NamedInv, Handling, Working, Waiting, PartsOf
  <2>3. {p.index : p \in parts} = {} /\ live.count = 0 /\ 1 .. 0 = {}
    BY DEF RecInit
  <2>4. RecordingsKept
    BY <2>3 DEF RecInit, RecordingsKept, NumberedInOrder, PublishedOnce, ClaimedIsPublished,
                ClosedNotLive
  <2> QED
    BY <2>1, <2>t, <2>2, <2>4
<1>2. RecTypeOK /\ HookInv /\ NamedInv /\ RecordingsKept /\ [RecNext]_recVars
        => RecTypeOK' /\ HookInv' /\ NamedInv' /\ RecordingsKept'
  BY RecTypeStep, RecStep
<1> QED
  BY <1>1, <1>2, PTL DEF RecSpec

\* Every variable of the recordings keeps its type: parts are numbered within bounds.
THEOREM RecordingsTyped == RecSpec => []RecTypeOK
BY RecordingsAlways, PTL

\* However many webhooks are handled at once, come again or fail: the parts of a
\* class are numbered without gap or repetition, a named file becomes one part, a
\* claimed file is published or its failure is known, and a closed class is not live.
THEOREM RecordingsSafe == RecSpec => []RecordingsKept
BY RecordingsAlways, PTL

-----------------------------------------------------------------------------
(* Presence *)

\* A place in the room, and the steps of a join and of a broadcast.
Place == [proc : Nodes \cup {Nobody}, viewer : Viewers \cup {Nobody}]
Seats == [proc : Nodes, viewer : Viewers]
Joins == [pc : {"idle", "count", "greet"}, count : Numbers]
Ticks == [pc : {"idle", "count", "decide", "emit"}, count : Numbers]

\* Whoever watches or leaves is a viewer of a process.
PlaceInv ==
  \A s \in Sockets : watch[s] \in Seats \cup {Out} /\ leaving[s] \in Seats \cup {Out}

\* While nothing was missed and no number is on its way, a page shows the last number
\* that was broadcast, or the count of its own join.
FreshInv ==
  missed \/ (\E p \in Nodes : tick[p].pc = "emit")
    \/ \A s \in Sockets : Watching(s) /\ s \notin greeted /\ joining[s].pc = "idle"
                            => last = -1 \/ shown[s] = last

\* A number is close to itself.
LEMMA NearItself ==
  ASSUME NEW n \in Nat
  PROVE  Near(n, n)
<1>1. MinDelta(n) > 0
  BY WatchAssumption DEF MinDelta
<1> QED
  BY <1>1 DEF Near

\* The count is a number of viewers.
LEMMA CountType ==
  ASSUME active \subseteq Viewers, recent \subseteq Viewers
  PROVE  Count \in Numbers /\ Count \in Nat /\ -1 \in Numbers /\ 0 \in Numbers
<1>1. IsFiniteSet(Viewers) /\ Cardinality(Viewers) \in Nat
  BY WatchAssumption, FS_CardinalityType
<1>2. ASSUME NEW S \in SUBSET Viewers
      PROVE  Cardinality(S) \in Nat /\ Cardinality(S) <= Cardinality(Viewers)
  <2>1. IsFiniteSet(S) /\ Cardinality(S) <= Cardinality(Viewers)
    BY <1>1, FS_Subset
  <2> QED
    BY <2>1, FS_CardinalityType
<1>3. /\ Cardinality(active) \in Nat /\ Cardinality(active) <= Cardinality(Viewers)
      /\ Cardinality(recent) \in Nat /\ Cardinality(recent) <= Cardinality(Viewers)
  BY <1>2
<1>4. Count \in {Cardinality(active), Cardinality(recent)}
  BY DEF Count, CountOf
<1> QED
  BY <1>1, <1>3, <1>4 DEF Numbers

\* Every variable keeps its type.
LEMMA WatchTypeStep ==
  ASSUME WatchTypeOK, PlaceInv, [WatchNext]_watchVars
  PROVE  WatchTypeOK' /\ PlaceInv'
<1>0. /\ watch \in [Sockets -> Place] /\ leaving \in [Sockets -> Place]
      /\ joining \in [Sockets -> Joins] /\ tick \in [Nodes -> Ticks]
      /\ Out \in Place /\ Resting \in Joins /\ Resting \in Ticks
      /\ Count \in Numbers /\ -1 \in Numbers /\ Nobody \notin Nodes
  BY CountType, WatchAssumption DEF WatchTypeOK, Place, Joins, Ticks, Out, Resting
<1>1. ASSUME NEW s \in Sockets, NEW p \in Nodes, NEW v \in Viewers, Join(s, p, v)
      PROVE  WatchTypeOK' /\ PlaceInv'
  <2>1. watch' \in [Sockets -> Place] /\ PlaceInv'
    <3> DEFINE w == [proc |-> p, viewer |-> v]
    <3>1. w \in Place /\ w \in Seats /\ watch' = [watch EXCEPT ![s] = w]
      BY <1>1 DEF Join, Place, Seats
    <3>2. UNCHANGED leaving
      BY <1>1 DEF Join
    <3> HIDE DEF w
    <3> QED
      BY <1>0, <3>1, <3>2 DEF PlaceInv
  <2>2. joining' \in [Sockets -> Joins]
    <3> DEFINE j == [joining[s] EXCEPT !.pc = "count"]
    <3>1. j \in Joins /\ joining' = [joining EXCEPT ![s] = j]
      BY <1>0, <1>1 DEF Join, Joins
    <3> HIDE DEF j
    <3> QED
      BY <1>0, <3>1
  <2>3. buffer' \in [Nodes -> SUBSET Viewers]
    BY <1>0, <1>1 DEF Join, WatchTypeOK
  <2> QED
    BY <1>1, <2>1, <2>2, <2>3 DEF Join, WatchTypeOK, Place, Joins
<1>2. ASSUME NEW s \in Sockets, JoinCount(s)
      PROVE  WatchTypeOK' /\ PlaceInv'
  <2> DEFINE j == [pc |-> "greet", count |-> Count]
  <2>1. j \in Joins /\ joining' = [joining EXCEPT ![s] = j]
    BY <1>0, <1>2 DEF JoinCount, Joins
  <2> HIDE DEF j
  <2>2. joining' \in [Sockets -> Joins]
    BY <1>0, <2>1
  <2> QED
    BY <1>2, <2>2 DEF JoinCount, WatchTypeOK, Joins, PlaceInv
<1>3. ASSUME NEW s \in Sockets, NEW p \in Nodes, JoinGreet(s, p)
      PROVE  WatchTypeOK' /\ PlaceInv'
  <2>1. joining' \in [Sockets -> Joins] /\ dirty' \in [Nodes -> BOOLEAN]
    BY <1>0, <1>3 DEF JoinGreet, WatchTypeOK
  <2>2. joining[s].count \in Numbers
    BY <1>0 DEF Joins
  <2>3. shown' \in [Sockets -> Numbers] /\ greeted' \subseteq Sockets
    BY <1>3, <2>2 DEF JoinGreet, WatchTypeOK
  <2> QED
    BY <1>3, <2>1, <2>3 DEF JoinGreet, WatchTypeOK, Joins, PlaceInv
<1>4. ASSUME NEW p \in Nodes, NEW v \in Viewers, Heartbeat(p, v)
      PROVE  WatchTypeOK' /\ PlaceInv'
  <2>1. buffer' \in [Nodes -> SUBSET Viewers]
    BY <1>4 DEF Heartbeat, WatchTypeOK
  <2> QED
    BY <1>4, <2>1 DEF Heartbeat, WatchTypeOK, PlaceInv
<1>5. ASSUME NEW s \in Sockets, Leave(s)
      PROVE  WatchTypeOK' /\ PlaceInv'
  <2>1. /\ watch' = [watch EXCEPT ![s] = Out] /\ leaving' = [leaving EXCEPT ![s] = watch[s]]
    BY <1>5 DEF Leave
  <2>2. watch' \in [Sockets -> Place] /\ leaving' \in [Sockets -> Place] /\ PlaceInv'
    BY <1>0, <2>1 DEF PlaceInv
  <2>3. shown' \in [Sockets -> Numbers] /\ greeted' \subseteq Sockets
    BY <1>0, <1>5 DEF Leave, WatchTypeOK
  <2> QED
    BY <1>5, <2>2, <2>3 DEF Leave, WatchTypeOK, Place
<1>6. ASSUME NEW s \in Sockets, RemoveActive(s)
      PROVE  WatchTypeOK' /\ PlaceInv'
  <2>1. leaving' \in [Sockets -> Place] /\ PlaceInv'
    BY <1>0, <1>6 DEF RemoveActive, PlaceInv
  <2>2. dirty' \in [Nodes -> BOOLEAN] /\ active' \subseteq Viewers
    BY <1>6 DEF RemoveActive, WatchTypeOK
  <2> QED
    BY <1>6, <2>1, <2>2 DEF RemoveActive, WatchTypeOK, Place
<1>7. ASSUME NEW p \in Nodes, Flush(p)
      PROVE  WatchTypeOK' /\ PlaceInv'
  <2>1. /\ buffer' \in [Nodes -> SUBSET Viewers] /\ missed' \in BOOLEAN
        /\ active' \subseteq Viewers /\ recent' \subseteq Viewers
    BY <1>7 DEF Flush, Kept, Unannounced, WatchTypeOK
  <2> QED
    BY <1>7, <2>1 DEF Flush, WatchTypeOK, PlaceInv
<1>8. ASSUME NEW p \in Nodes, FlushLost(p)
      PROVE  WatchTypeOK' /\ PlaceInv'
  BY <1>8 DEF FlushLost, WatchTypeOK, PlaceInv
<1>9. ASSUME NEW v \in Viewers, Ages(v)
      PROVE  WatchTypeOK' /\ PlaceInv'
  <2>1. active' \subseteq Viewers /\ recent' \subseteq Viewers /\ missed' \in BOOLEAN
    BY <1>9 DEF Ages, Unannounced, WatchTypeOK
  <2> QED
    BY <1>9, <2>1 DEF Ages, WatchTypeOK, PlaceInv
\* A tick with another step and count.
<1>t. ASSUME NEW p \in Nodes, NEW k \in Ticks, tick' = [tick EXCEPT ![p] = k]
      PROVE  tick' \in [Nodes -> Ticks]
  BY <1>0, <1>t
<1>10. ASSUME NEW p \in Nodes, TakeMark(p)
       PROVE  WatchTypeOK' /\ PlaceInv'
  <2> DEFINE pc == IF leader THEN "idle" ELSE "count"
             k == [tick[p] EXCEPT !.pc = pc]
  <2>1. tick' = [tick EXCEPT ![p] = k] /\ pc \in {"idle", "count"} /\ tick[p] \in Ticks
    BY <1>0, <1>10 DEF TakeMark
  <2> HIDE DEF pc
  <2>2. k \in Ticks
    BY <2>1 DEF Ticks
  <2> HIDE DEF k
  <2>3. tick' \in [Nodes -> Ticks]
    BY <1>t, <2>1, <2>2
  <2>4. dirty' \in [Nodes -> BOOLEAN] /\ missed' \in BOOLEAN
    BY <1>10 DEF TakeMark, WatchTypeOK
  <2> QED
    BY <1>10, <2>3, <2>4 DEF TakeMark, WatchTypeOK, Ticks, PlaceInv
<1>11. ASSUME NEW p \in Nodes, CountOnline(p)
       PROVE  WatchTypeOK' /\ PlaceInv'
  <2> DEFINE k == [pc |-> "decide", count |-> Count]
  <2>1. k \in Ticks /\ tick' = [tick EXCEPT ![p] = k]
    BY <1>0, <1>11 DEF CountOnline, Ticks
  <2> HIDE DEF k
  <2>2. tick' \in [Nodes -> Ticks]
    BY <1>t, <2>1
  <2> QED
    BY <1>11, <2>2 DEF CountOnline, WatchTypeOK, Ticks, PlaceInv
<1>12. ASSUME NEW p \in Nodes, ShouldEmit(p)
       PROVE  WatchTypeOK' /\ PlaceInv'
  <2> DEFINE k == [tick[p] EXCEPT !.pc = "emit"]
  <2>1. k \in Ticks /\ tick[p].count \in Numbers
    BY <1>0 DEF Ticks
  <2>2. tick' = [tick EXCEPT ![p] = Resting] \/ tick' = [tick EXCEPT ![p] = k]
    BY <1>0, <1>12 DEF ShouldEmit
  <2> HIDE DEF k
  <2>3. tick' \in [Nodes -> Ticks]
    BY <1>0, <1>t, <2>1, <2>2
  <2>4. missed' \in BOOLEAN /\ last' \in Numbers
    BY <1>12, <2>1 DEF ShouldEmit, WatchTypeOK
  <2> QED
    BY <1>12, <2>3, <2>4 DEF ShouldEmit, WatchTypeOK, Ticks, PlaceInv
<1>13. ASSUME NEW p \in Nodes, Emit(p)
       PROVE  WatchTypeOK' /\ PlaceInv'
  <2>1. tick' \in [Nodes -> Ticks]
    BY <1>0, <1>13, <1>t DEF Emit
  <2>2. tick[p].count \in Numbers
    BY <1>0 DEF Ticks
  <2>3. shown' \in [Sockets -> Numbers] /\ missed' \in BOOLEAN /\ greeted' \subseteq Sockets
    BY <1>0, <1>13, <2>2 DEF Emit, WatchTypeOK
  <2> QED
    BY <1>13, <2>1, <2>3 DEF Emit, WatchTypeOK, Ticks, PlaceInv
<1>14. ASSUME NEW p \in Nodes, NodeDies(p)
       PROVE  WatchTypeOK' /\ PlaceInv'
  <2>1. /\ watch' \in [Sockets -> Place] /\ leaving' \in [Sockets -> Place] /\ PlaceInv'
        /\ joining' \in [Sockets -> Joins] /\ tick' \in [Nodes -> Ticks]
    BY <1>0, <1>14 DEF NodeDies, PlaceInv
  <2>2. /\ buffer' \in [Nodes -> SUBSET Viewers] /\ dirty' \in [Nodes -> BOOLEAN]
        /\ shown' \in [Sockets -> Numbers] /\ greeted' \subseteq Sockets /\ missed' \in BOOLEAN
    BY <1>0, <1>14 DEF NodeDies, WatchTypeOK
  <2> QED
    BY <1>14, <2>1, <2>2 DEF NodeDies, WatchTypeOK, Place, Joins, Ticks
<1>15. CASE LeaderExpires \/ LastExpires \/ UNCHANGED watchVars
  BY <1>0, <1>15 DEF LeaderExpires, LastExpires, watchVars, WatchTypeOK, PlaceInv
<1>16. ASSUME NEW s \in Sockets, JoinFails(s)
       PROVE  WatchTypeOK' /\ PlaceInv'
  <2>1. joining' \in [Sockets -> Joins] /\ missed' \in BOOLEAN
    BY <1>0, <1>16 DEF JoinFails
  <2> QED
    BY <1>16, <2>1 DEF JoinFails, WatchTypeOK, PlaceInv, Joins
<1>17. ASSUME NEW s \in Sockets, RemoveFails(s)
       PROVE  WatchTypeOK' /\ PlaceInv'
  <2>1. leaving' \in [Sockets -> Place] /\ PlaceInv'
    BY <1>0, <1>17 DEF RemoveFails, PlaceInv
  <2>2. active' \subseteq Viewers /\ missed' \in BOOLEAN
    BY <1>17 DEF RemoveFails, WatchTypeOK
  <2> QED
    BY <1>17, <2>1, <2>2 DEF RemoveFails, WatchTypeOK, Place
<1>18. ASSUME NEW p \in Nodes, TakeMarkFails(p)
       PROVE  WatchTypeOK' /\ PlaceInv'
  <2>1. dirty' \in [Nodes -> BOOLEAN] /\ leader' \in BOOLEAN /\ missed' \in BOOLEAN
    BY <1>18 DEF TakeMarkFails, WatchTypeOK
  <2> QED
    BY <1>18, <2>1 DEF TakeMarkFails, WatchTypeOK, PlaceInv
<1>19. ASSUME NEW p \in Nodes, TickFails(p)
       PROVE  WatchTypeOK' /\ PlaceInv'
  <2>1. tick' \in [Nodes -> Ticks] /\ missed' \in BOOLEAN
    BY <1>0, <1>19, <1>t DEF TickFails
  <2>2. tick[p].count \in Numbers
    BY <1>0 DEF Ticks
  <2>3. last' \in Numbers
    BY <1>19, <2>2 DEF TickFails, WatchTypeOK
  <2> QED
    BY <1>19, <2>1, <2>3 DEF TickFails, WatchTypeOK, PlaceInv, Ticks
<1> QED
  BY <1>1, <1>2, <1>3, <1>4, <1>5, <1>6, <1>7, <1>8, <1>9, <1>10, <1>11, <1>12, <1>13,
     <1>14, <1>15, <1>16, <1>17, <1>18, <1>19
     DEF WatchNext, Pinged, Worked, Handle, Broadcast

\* Every step keeps the pages at the last number, or at what was missed or greeted.
LEMMA FreshStep ==
  ASSUME WatchTypeOK, PlaceInv, FreshInv, [WatchNext]_watchVars
  PROVE  FreshInv'
<1>0. /\ watch \in [Sockets -> Place] /\ joining \in [Sockets -> Joins]
      /\ tick \in [Nodes -> Ticks] /\ missed \in BOOLEAN
      /\ shown \in [Sockets -> Numbers]
  BY DEF WatchTypeOK, Place, Joins, Ticks
<1>a. ASSUME missed' PROVE FreshInv'
  BY <1>a DEF FreshInv
\* What is shown, read and known stays, and no number that was on its way is gone.
<1>b. ASSUME UNCHANGED <<watch, shown, joining, greeted>>,
             last' = last \/ last' = -1,
             missed => missed',
             \A p \in Nodes : tick[p].pc = "emit" => tick'[p].pc = "emit"
      PROVE  FreshInv'
  BY <1>b DEF FreshInv, Watching
<1>1. ASSUME NEW s \in Sockets, NEW p \in Nodes, NEW v \in Viewers, Join(s, p, v)
      PROVE  FreshInv'
  <2>1. joining'[s].pc = "count"
    BY <1>0, <1>1 DEF Join, Joins
  <2>3. /\ \A t \in Sockets \ {s} : watch'[t] = watch[t] /\ joining'[t] = joining[t]
        /\ UNCHANGED <<shown, greeted, last, missed, tick>>
    BY <1>0, <1>1 DEF Join
  <2> QED
    BY <2>1, <2>3 DEF FreshInv, Watching
<1>2. ASSUME NEW s \in Sockets, JoinCount(s) \/ \E p \in Nodes : JoinGreet(s, p)
      PROVE  FreshInv'
  <2>1. joining[s].pc # "idle" /\ UNCHANGED <<watch, last, missed, tick>>
    BY <1>2 DEF JoinCount, JoinGreet
  <2>2. \A t \in Sockets \ {s} : joining'[t] = joining[t] /\ shown'[t] = shown[t]
    BY <1>0, <1>2 DEF JoinCount, JoinGreet
  <2>3. greeted \subseteq greeted'
    BY <1>2 DEF JoinCount, JoinGreet
  <2>4. Watching(s) => joining'[s].pc # "idle" \/ s \in greeted'
    <3>1. CASE JoinCount(s)
      <4>1. joining'[s].pc = "greet"
        BY <1>0, <3>1 DEF JoinCount
      <4> QED
        BY <4>1
    <3>2. CASE ~JoinCount(s)
      BY <1>2, <3>2 DEF JoinGreet
    <3> QED
      BY <3>1, <3>2
  <2> QED
    BY <2>1, <2>2, <2>3, <2>4 DEF FreshInv, Watching
<1>3. ASSUME NEW s \in Sockets, Leave(s)
      PROVE  FreshInv'
  <2>1. /\ watch'[s] = Out /\ UNCHANGED <<joining, last, missed, tick>>
        /\ \A t \in Sockets \ {s} : watch'[t] = watch[t] /\ shown'[t] = shown[t]
        /\ greeted' = greeted \ {s}
    BY <1>0, <1>3 DEF Leave
  <2> SUFFICES ASSUME ~missed, \A p \in Nodes : tick[p].pc # "emit", NEW t \in Sockets,
                      Watching(t)', t \notin greeted', joining[t].pc = "idle"
               PROVE  last = -1 \/ shown'[t] = last
    BY <2>1 DEF FreshInv
  <2>2. t # s
    BY <2>1 DEF Watching
  <2>3. Watching(t) /\ t \notin greeted /\ shown'[t] = shown[t]
    BY <2>1, <2>2 DEF Watching
  <2> QED
    BY <2>3 DEF FreshInv
<1>4. CASE \/ \E s \in Sockets : JoinFails(s) \/ RemoveFails(s)
           \/ \E p \in Nodes : TakeMarkFails(p) \/ TickFails(p) \/ NodeDies(p)
  BY <1>4, <1>a DEF JoinFails, RemoveFails, TakeMarkFails, TickFails, NodeDies
<1>8. CASE \/ \E s \in Sockets : RemoveActive(s)
           \/ \E p \in Nodes : FlushLost(p) \/ \E v \in Viewers : Heartbeat(p, v)
           \/ LeaderExpires \/ LastExpires \/ UNCHANGED watchVars
  <2>1. /\ UNCHANGED <<watch, shown, joining, greeted, missed, tick>>
        /\ last' = last \/ last' = -1
    BY <1>8 DEF RemoveActive, FlushLost, Heartbeat, LeaderExpires, LastExpires, watchVars
  <2> QED
    BY <1>b, <2>1
<1>9. CASE (\E p \in Nodes : Flush(p)) \/ \E v \in Viewers : Ages(v)
  <2>1. UNCHANGED <<watch, shown, joining, greeted, last, tick>> /\ (missed => missed')
    BY <1>9 DEF Flush, Ages, Unannounced
  <2> QED
    BY <1>b, <2>1
<1>5. ASSUME NEW p \in Nodes, TakeMark(p) \/ CountOnline(p)
      PROVE  FreshInv'
  <2>1. tick[p].pc # "emit" /\ \A q \in Nodes \ {p} : tick'[q] = tick[q]
    BY <1>0, <1>5 DEF TakeMark, CountOnline, Resting
  <2>2. /\ UNCHANGED <<watch, shown, joining, greeted, last>>
        /\ missed => missed'
    BY <1>0, <1>5 DEF TakeMark, CountOnline
  <2>3. \A q \in Nodes : tick[q].pc = "emit" => tick'[q].pc = "emit"
    <3> TAKE q \in Nodes
    <3> QED
      BY <2>1
  <2> QED
    BY <1>b, <2>2, <2>3
<1>6. ASSUME NEW p \in Nodes, ShouldEmit(p)
      PROVE  FreshInv'
  <2>1. /\ tick[p].pc = "decide" /\ UNCHANGED <<watch, shown, joining, greeted>>
        /\ \A q \in Nodes \ {p} : tick'[q] = tick[q]
    BY <1>0, <1>6 DEF ShouldEmit
  <2>2. CASE Near(last, tick[p].count)
    <3>1. last' = last /\ (missed => missed')
      BY <1>6, <2>2 DEF ShouldEmit
    <3> QED
      BY <1>b, <2>1, <3>1
  <2>3. CASE ~Near(last, tick[p].count)
    <3>1. tick' = [tick EXCEPT ![p].pc = "emit"]
      BY <1>6, <2>3 DEF ShouldEmit
    <3>2. tick'[p].pc = "emit"
      BY <1>0, <3>1 DEF Ticks
    <3> QED
      BY <3>2 DEF FreshInv
  <2> QED
    BY <2>2, <2>3
<1>7. ASSUME NEW p \in Nodes, Emit(p)
      PROVE  FreshInv'
  <2> SUFFICES ASSUME ~missed' PROVE FreshInv'
    BY <1>a
  <2>1. /\ last \in {-1, tick[p].count} /\ UNCHANGED <<watch, last>>
        /\ shown' = [s \in Sockets |-> IF Watching(s) THEN tick[p].count ELSE -1]
    BY <1>7 DEF Emit
  <2> QED
    BY <2>1 DEF FreshInv, Watching
<1> QED
  BY <1>1, <1>2, <1>3, <1>4, <1>5, <1>6, <1>7, <1>8, <1>9
     DEF WatchNext, Pinged, Worked, Handle, Broadcast

\* Every step that makes the room quiet leaves the shown numbers right or the
\* difference known.
LEMMA ShownStep ==
  ASSUME WatchTypeOK, PlaceInv, FreshInv, ShownExplained, [WatchNext]_watchVars
  PROVE  ShownExplained'
<1>0. /\ watch \in [Sockets -> Place] /\ leaving \in [Sockets -> Place]
      /\ joining \in [Sockets -> Joins] /\ tick \in [Nodes -> Ticks]
      /\ dirty \in [Nodes -> BOOLEAN] /\ missed \in BOOLEAN
      /\ \A w \in Seats : w # Out /\ w.proc \in Nodes
  BY WatchAssumption DEF WatchTypeOK, Place, Seats, Joins, Ticks, Out
<1>a. ASSUME ~Quiet' \/ missed' PROVE ShownExplained'
  BY <1>a DEF ShownExplained
\* Nothing that is shown or under way changes, and the count only in the open.
<1>b. ASSUME UNCHANGED <<watch, shown, joining, leaving, dirty, tick>>,
             (Count' = Count /\ UNCHANGED missed) \/ Unannounced
      PROVE  ShownExplained'
  <2> SUFFICES ASSUME Quiet', ~missed' PROVE ShownExplained'
    BY <1>a
  <2>1. Quiet /\ ~CountPending
    BY <1>b DEF Quiet, CountPending
  <2>c. Count' = CountOf(active', recent')
    BY DEF Count
  <2>2. Count' = Count /\ ~missed
    BY <1>0, <1>b, <2>1, <2>c DEF Unannounced
  <2> QED
    BY <1>b, <2>1, <2>2 DEF ShownExplained, Watching
<1>c. ASSUME UNCHANGED <<active, recent>> PROVE Count' = Count
  BY <1>c DEF Count
<1>1. ASSUME NEW s \in Sockets, NEW p \in Nodes, NEW v \in Viewers, Join(s, p, v)
      PROVE  ShownExplained'
  <2>1. joining'[s].pc = "count"
    BY <1>0, <1>1 DEF Join, Joins
  <2> QED
    BY <1>a, <2>1 DEF Quiet, CountPending
<1>2. ASSUME NEW s \in Sockets, JoinCount(s)
      PROVE  ShownExplained'
  <2>1. joining'[s].pc = "greet"
    BY <1>0, <1>2 DEF JoinCount
  <2> QED
    BY <1>a, <2>1 DEF Quiet, CountPending
<1>3. ASSUME NEW s \in Sockets, NEW p \in Nodes, JoinGreet(s, p)
      PROVE  ShownExplained'
  <2>1. dirty'[p]
    BY <1>0, <1>3 DEF JoinGreet
  <2> QED
    BY <1>a, <2>1 DEF Quiet, CountPending
<1>4. ASSUME NEW p \in Nodes, NEW v \in Viewers, Heartbeat(p, v)
      PROVE  ShownExplained'
  BY <1>4, <1>b, <1>c DEF Heartbeat
<1>5. ASSUME NEW s \in Sockets, Leave(s)
      PROVE  ShownExplained'
  <2>1. leaving'[s] # Out
    BY <1>0, <1>5 DEF Leave, Watching
  <2> QED
    BY <1>a, <2>1 DEF Quiet, CountPending
<1>6. ASSUME NEW s \in Sockets, RemoveActive(s)
      PROVE  ShownExplained'
  <2>1. leaving[s].proc \in Nodes
    BY <1>0, <1>6 DEF RemoveActive, PlaceInv
  <2>2. dirty'[leaving[s].proc]
    BY <1>0, <1>6, <2>1 DEF RemoveActive
  <2> QED
    BY <1>a, <2>1, <2>2 DEF Quiet, CountPending
<1>7. ASSUME NEW p \in Nodes, Flush(p)
      PROVE  ShownExplained'
  BY <1>7, <1>b DEF Flush
<1>8. ASSUME NEW p \in Nodes, FlushLost(p)
      PROVE  ShownExplained'
  BY <1>8, <1>b, <1>c DEF FlushLost
<1>9. ASSUME NEW v \in Viewers, Ages(v)
      PROVE  ShownExplained'
  BY <1>9, <1>b DEF Ages
<1>10. ASSUME NEW p \in Nodes, TakeMark(p)
       PROVE  ShownExplained'
  <2>1. CASE leader
    BY <1>10, <1>a, <2>1 DEF TakeMark
  <2>2. CASE ~leader
    <3>1. tick' = [tick EXCEPT ![p].pc = "count"]
      BY <1>10, <2>2 DEF TakeMark
    <3>2. tick'[p].pc = "count"
      BY <1>0, <3>1 DEF Ticks
    <3> QED
      BY <1>a, <3>2 DEF Quiet, CountPending
  <2> QED
    BY <2>1, <2>2
<1>11. ASSUME NEW p \in Nodes, CountOnline(p)
       PROVE  ShownExplained'
  <2>1. tick'[p].pc = "decide"
    BY <1>0, <1>11 DEF CountOnline
  <2> QED
    BY <1>a, <2>1 DEF Quiet, Resting
<1>12. ASSUME NEW p \in Nodes, ShouldEmit(p)
       PROVE  ShownExplained'
  <2>1. CASE Near(last, tick[p].count)
    <3> SUFFICES ASSUME Quiet', ~missed', NEW s \in Sockets, Watching(s)'
                 PROVE  Near(shown'[s], Count')
      BY DEF ShownExplained
    <3>1. /\ ~missed /\ tick[p].count = Count
          /\ \A t \in greeted : ~Watching(t) \/ Near(shown[t], tick[p].count)
          /\ tick[p].pc = "decide" /\ tick' = [tick EXCEPT ![p] = Resting]
          /\ UNCHANGED <<watch, shown, active, recent, joining, last>>
      BY <1>12, <2>1 DEF ShouldEmit
    <3>2. Count' = Count /\ Watching(s)
      BY <1>c, <3>1 DEF Watching
    <3>3. CASE s \in greeted
      BY <3>1, <3>2, <3>3
    <3>4. CASE s \notin greeted
      <4>1. joining[s].pc = "idle"
        BY <3>1 DEF Quiet, CountPending
      <4>2. \A q \in Nodes : tick[q].pc # "emit"
        BY <1>0, <3>1 DEF Quiet, Resting
      <4>3. last = -1 \/ shown[s] = last
        BY <3>1, <3>2, <3>4, <4>1, <4>2 DEF FreshInv
      <4> QED
        BY <2>1, <3>1, <3>2, <4>3 DEF Near
    <3> QED
      BY <3>3, <3>4
  <2>2. CASE ~Near(last, tick[p].count)
    <3>1. tick' = [tick EXCEPT ![p].pc = "emit"]
      BY <1>12, <2>2 DEF ShouldEmit
    <3>2. tick'[p].pc = "emit"
      BY <1>0, <3>1 DEF Ticks
    <3> QED
      BY <1>a, <3>2 DEF Quiet, Resting
  <2> QED
    BY <2>1, <2>2
<1>13. ASSUME NEW p \in Nodes, Emit(p)
       PROVE  ShownExplained'
  <2>1. /\ shown' = [s \in Sockets |-> IF Watching(s) THEN tick[p].count ELSE -1]
        /\ tick[p].count # Count => missed'
        /\ UNCHANGED <<watch, active, recent>>
    BY <1>13 DEF Emit
  <2>2. Count' = Count /\ Count \in Nat
    BY <1>c, <2>1, CountType DEF WatchTypeOK
  <2>3. Near(Count, Count)
    BY <2>2, NearItself
  <2> QED
    BY <2>1, <2>2, <2>3 DEF ShownExplained, Watching
<1>14. ASSUME NEW p \in Nodes, NodeDies(p)
       PROVE  ShownExplained'
  BY <1>14, <1>a DEF NodeDies
<1>15. CASE LeaderExpires \/ LastExpires \/ UNCHANGED watchVars
  BY <1>15, <1>b, <1>c DEF LeaderExpires, LastExpires, watchVars
<1>16. CASE \/ \E s \in Sockets : JoinFails(s) \/ RemoveFails(s)
            \/ \E p \in Nodes : TakeMarkFails(p) \/ TickFails(p)
  BY <1>16, <1>a DEF JoinFails, RemoveFails, TakeMarkFails, TickFails
<1> QED
  BY <1>1, <1>2, <1>3, <1>4, <1>5, <1>6, <1>7, <1>8, <1>9, <1>10, <1>11, <1>12, <1>13,
     <1>14, <1>15, <1>16 DEF WatchNext, Pinged, Worked, Handle, Broadcast

\* The invariant and the property hold in every state.
LEMMA WatchAlways == WatchSpec => [](WatchTypeOK /\ PlaceInv /\ FreshInv /\ ShownExplained)
<1>1. WatchInit => WatchTypeOK /\ PlaceInv /\ FreshInv /\ ShownExplained
  <2> SUFFICES ASSUME WatchInit PROVE WatchTypeOK /\ PlaceInv /\ FreshInv /\ ShownExplained
    OBVIOUS
  <2>1. active \subseteq Viewers /\ recent \subseteq Viewers
    BY DEF WatchInit
  <2>2. -1 \in Numbers /\ 0 \in Numbers
    BY <2>1, CountType
  <2>3. WatchTypeOK
    BY <2>2 DEF WatchInit, WatchTypeOK, Out, Resting
  <2> QED
    BY <2>3 DEF WatchInit, PlaceInv, FreshInv, ShownExplained, Watching
<1>2. WatchTypeOK /\ PlaceInv /\ FreshInv /\ ShownExplained /\ [WatchNext]_watchVars
        => WatchTypeOK' /\ PlaceInv' /\ FreshInv' /\ ShownExplained'
  BY WatchTypeStep, FreshStep, ShownStep
<1> QED
  BY <1>1, <1>2, PTL DEF WatchSpec

\* Every variable of the presence keeps its type.
THEOREM WatchTyped == WatchSpec => []WatchTypeOK
BY WatchAlways, PTL

\* Once nothing is under way, the number on every viewer's page is closer to the number
\* of viewers than a change worth a broadcast, or the reason is known: a change without
\* a mark, a dropped mark, a failed call, an overtaken number, a page of a late join.
THEOREM NumbersExplained == WatchSpec => []ShownExplained
BY WatchAlways, PTL

-----------------------------------------------------------------------------
(* Archived courses *)

ArchiveRow == [there : BOOLEAN, deleted : BOOLEAN, archived : BOOLEAN, cycles : BOOLEAN,
        contentOwner : Courses \cup {NoCourse}, archieveCourseId : Courses \cup {NoCourse}]

DeskSteps == {"idle", "update", "delete", "children", "clear", "cycles", "link", "biller",
              "assign", "copy", "cycle"}

Desk == [pc : DeskSteps, course : Courses \cup {NoCourse}, mark : Given, cycles : Given,
         link : Courses \cup {NoCourse}, exists : Courses \cup {NoCourse}, avail : BOOLEAN,
         result : BOOLEAN, courses : SUBSET Courses, was : BOOLEAN, raced : BOOLEAN]

\* A request is about a course that is there; a biller ran when it was appointed;
\* a deletion marks nothing.
DeskInv ==
  \A r \in Clerks :
    /\ desk[r].pc # "idle" => desk[r].course \in Courses /\ course[desk[r].course].there
    /\ desk[r].pc \in {"biller", "assign"} => desk[r].was
    /\ desk[r].pc = "delete" => desk[r].mark = "keep"

\* BillersActive of every course that is not deleted, archived or not: a course that
\* runs may be archived while its biller is over.  The rows and the requests are
\* arguments, for both may be those of the next state.
Runs(cs, o) == cs[o].there /\ ~cs[o].deleted /\ ~cs[o].archived

Clearing(ds, c, o) ==
  \E r \in Clerks : ds[r].course = o /\ \/ ds[r].pc = "children"
                                        \/ ds[r].pc = "clear" /\ c \in ds[r].courses

Billed(cs, ds, c) ==
  cs[c].there /\ ~cs[c].deleted /\ cs[c].contentOwner # NoCourse =>
    Runs(cs, cs[c].contentOwner) \/ Clearing(ds, c, cs[c].contentOwner)

BillersInv == \A c \in Courses : c \in strayed \/ Billed(course, desk, c)

\* A request that will mark the cycles of a course, unless overtaken, with the mark
\* that the course has.
WillMark(d, c) ==
  /\ d.course = c
  /\ \/ d.pc = "cycles"
     \/ d.pc \in {"children", "clear"} /\ d.mark = "true"

Even(c) == cycleMark[c] \subseteq {course[c].archived}

CyclesInv ==
  /\ \A c \in Courses :
       course[c].there => Even(c) \/ c \in apart \/ \E r \in Clerks : WillMark(desk[r], c)
  /\ \A r \in Clerks, c \in Courses :
       WillMark(desk[r], c) => desk[r].raced \/ desk[r].result = course[c].archived

\* The types that the proofs need.
ArchiveTypes ==
  /\ course \in [Courses -> ArchiveRow] /\ cycleMark \in [Courses -> SUBSET BOOLEAN]
  /\ desk \in [Clerks -> Desk] /\ strayed \subseteq Courses /\ apart \subseteq Courses

\* Rows keep their type and their other fields with a field replaced.
LEMMA Removed ==
  ASSUME NEW x \in ArchiveRow, NEW y, y = [x EXCEPT !.deleted = TRUE]
  PROVE  /\ y \in ArchiveRow /\ y.archived = x.archived /\ y.there = x.there /\ y.deleted = TRUE
         /\ y.contentOwner = x.contentOwner
BY DEF ArchiveRow

LEMMA Reowned ==
  ASSUME NEW x \in ArchiveRow, NEW o \in Courses \cup {NoCourse}, NEW y, y = [x EXCEPT !.contentOwner = o]
  PROVE  /\ y \in ArchiveRow /\ y.archived = x.archived /\ y.there = x.there /\ y.deleted = x.deleted
         /\ y.contentOwner = o
BY DEF ArchiveRow

LEMMA Relinked ==
  ASSUME NEW x \in ArchiveRow, NEW o \in Courses \cup {NoCourse}, NEW y,
         y = [x EXCEPT !.archieveCourseId = o]
  PROVE  /\ y \in ArchiveRow /\ y.archived = x.archived /\ y.there = x.there /\ y.deleted = x.deleted
         /\ y.contentOwner = x.contentOwner
BY DEF ArchiveRow

\* New rows: a course, one that names its archive, a copy.
LEMMA NewCourse ==
  ASSUME NEW b \in BOOLEAN, NEW y, y = [Running EXCEPT !.cycles = b]
  PROVE  /\ y \in ArchiveRow /\ y.there /\ ~y.deleted /\ ~y.archived /\ y.contentOwner = NoCourse
BY DEF Running, Absent, ArchiveRow

LEMMA NewLinked ==
  ASSUME NEW b \in BOOLEAN, NEW o \in Courses \cup {NoCourse}, NEW y,
         y = [Running EXCEPT !.archieveCourseId = o, !.cycles = b]
  PROVE  /\ y \in ArchiveRow /\ y.there /\ ~y.deleted /\ ~y.archived /\ y.contentOwner = NoCourse
BY DEF Running, Absent, ArchiveRow

IsCloned(y, o) ==
  \E b \in BOOLEAN : y = [Running EXCEPT !.archived = TRUE, !.contentOwner = o, !.cycles = b]

LEMMA NewCopy ==
  ASSUME NEW o \in Courses \cup {NoCourse}, NEW y, IsCloned(y, o)
  PROVE  /\ y \in ArchiveRow /\ y.there /\ ~y.deleted /\ y.archived = TRUE /\ y.contentOwner = o
BY DEF IsCloned, Running, Absent, ArchiveRow

LEMMA NoRow == Absent \in ArchiveRow /\ Absent.contentOwner = NoCourse
BY DEF Absent, ArchiveRow

ArchiveInv == ArchiveTypes /\ DeskInv /\ BillersInv /\ CyclesInv

\* Request r goes on as d, about a course that is there.
LEMMA DeskStep ==
  ASSUME ArchiveTypes, DeskInv, NEW r \in Clerks, NEW d \in Desk, Goes(r, d),
         \A c \in Courses : course[c].there => course'[c].there,
         d.pc # "idle" => d.course \in Courses /\ course'[d.course].there,
         d.pc \in {"biller", "assign"} => d.was,
         d.pc = "delete" => d.mark = "keep"
  PROVE  /\ desk' \in [Clerks -> Desk] /\ DeskInv'
         /\ \A q \in Clerks : desk'[q] = IF q = r THEN d ELSE desk[q]
<1>1. desk' \in [Clerks -> Desk] /\ \A q \in Clerks : desk'[q] = IF q = r THEN d ELSE desk[q]
  BY DEF Goes, ArchiveTypes
<1>2. DeskInv'
  BY <1>1 DEF DeskInv
<1> QED
  BY <1>1, <1>2

\* A step that takes no biller away and ends none.
LEMMA BillersKept ==
  ASSUME ArchiveTypes, BillersInv, NEW r \in Clerks, NEW d \in Desk, Goes(r, d),
         desk[r].pc \notin {"children", "clear"}, strayed \subseteq strayed',
         \A c \in Courses :
           /\ \/ course'[c].contentOwner = NoCourse
              \/ /\ course'[c].there /\ ~course'[c].deleted => course[c].there /\ ~course[c].deleted
                 /\ course'[c].contentOwner = course[c].contentOwner
           /\ Runs(course, c) => Runs(course', c)
  PROVE  BillersInv'
<1>1. \A q \in Clerks : desk'[q] = IF q = r THEN d ELSE desk[q]
  BY DEF Goes, ArchiveTypes
<1>2. \A c, o : Clearing(desk, c, o) => Clearing(desk', c, o)
  BY <1>1 DEF Clearing
<1>3. \A c \in Courses : course[c].contentOwner \in Courses \cup {NoCourse}
  BY DEF ArchiveTypes, ArchiveRow
<1>4. \A c \in Courses : Billed(course, desk, c) => Billed(course', desk', c)
  BY <1>2, <1>3 DEF Billed
<1> QED
  BY <1>4 DEF BillersInv

\* A step that hands on who will mark, and leaves a course as it is or even, or
\* excused.
LEMMA CyclesMove ==
  ASSUME ArchiveTypes, DeskInv, CyclesInv, NEW r \in Clerks, NEW d \in Desk, Goes(r, d),
         \A c \in Courses : course[c].there => course'[c].archived = course[c].archived,
         \A c \in Courses : WillMark(d, c) => /\ WillMark(desk[r], c)
                                              /\ d.raced = desk[r].raced /\ d.result = desk[r].result,
         \A c \in Courses : course'[c].there =>
           \/ c \in apart' \/ Even(c)'
           \/ /\ course[c].there /\ cycleMark'[c] = cycleMark[c]
              /\ c \in apart => c \in apart'
              /\ WillMark(desk[r], c) => WillMark(d, c)
  PROVE  CyclesInv'
<1>1. \A q \in Clerks : desk'[q] = IF q = r THEN d ELSE desk[q]
  BY DEF Goes, ArchiveTypes
<1>3. ASSUME NEW c \in Courses, course'[c].there
      PROVE  Even(c)' \/ c \in apart' \/ \E q \in Clerks : WillMark(desk'[q], c)
  <2>1. CASE c \in apart' \/ Even(c)'
    BY <2>1
  <2>2. CASE /\ course[c].there /\ cycleMark'[c] = cycleMark[c]
             /\ c \in apart => c \in apart'
             /\ WillMark(desk[r], c) => WillMark(d, c)
    <3>1. Even(c) \/ c \in apart \/ \E q \in Clerks : WillMark(desk[q], c)
      BY <2>2 DEF CyclesInv
    <3>2. Even(c) => Even(c)'
      BY <2>2 DEF Even
    <3>3. \A q \in Clerks : WillMark(desk[q], c) => WillMark(desk'[q], c)
      BY <1>1, <2>2
    <3> QED
      BY <2>2, <3>1, <3>2, <3>3
  <2> QED
    BY <1>3, <2>1, <2>2
<1>4. ASSUME NEW q \in Clerks, NEW c \in Courses, WillMark(desk'[q], c)
      PROVE  desk'[q].raced \/ desk'[q].result = course'[c].archived
  <2>1. WillMark(desk[q], c) /\ desk'[q].raced = desk[q].raced /\ desk'[q].result = desk[q].result
    BY <1>1, <1>4
  <2>2. course[c].there
    BY <2>1 DEF DeskInv, WillMark
  <2> QED
    BY <2>1, <2>2 DEF CyclesInv
<1> QED
  BY <1>3, <1>4 DEF CyclesInv, WillMark

\* A step that changes no mark.
LEMMA CyclesKept ==
  ASSUME ArchiveTypes, DeskInv, CyclesInv, NEW r \in Clerks, NEW d \in Desk, Goes(r, d),
         UNCHANGED cycleMark, apart \subseteq apart',
         \A c \in Courses : course'[c].there = course[c].there /\ course'[c].archived = course[c].archived,
         \A c \in Courses :
           /\ WillMark(desk[r], c) => WillMark(d, c) \/ c \in apart'
           /\ WillMark(d, c) => /\ WillMark(desk[r], c)
                                /\ d.raced = desk[r].raced /\ d.result = desk[r].result
  PROVE  CyclesInv'
<1>1. \A c \in Courses : course'[c].there =>
           \/ c \in apart' \/ Even(c)'
           \/ /\ course[c].there /\ cycleMark'[c] = cycleMark[c]
              /\ c \in apart => c \in apart'
              /\ WillMark(desk[r], c) => WillMark(d, c)
  OBVIOUS
<1> QED
  BY <1>1, CyclesMove

\* Whatever interleaves, billers and cycles are right or excused.
LEMMA ArchiveStep ==
  ASSUME ArchiveInv, [ArchiveNext]_archiveVars
  PROVE  ArchiveInv'
<1> USE ArchiveAssumption
<1>0. /\ ArchiveTypes /\ DeskInv /\ BillersInv /\ CyclesInv
      /\ course \in [Courses -> ArchiveRow] /\ cycleMark \in [Courses -> SUBSET BOOLEAN]
      /\ desk \in [Clerks -> Desk] /\ strayed \subseteq Courses /\ apart \subseteq Courses
  BY DEF ArchiveInv, ArchiveTypes
<1>s. /\ Seated \in Desk /\ Seated.pc = "idle" /\ Seated.mark = "keep"
      /\ Seated.courses = {} /\ \A c : ~WillMark(Seated, c)
  BY DEF Seated, Desk, DeskSteps, WillMark, Given
\* Types of the rest when rows, marks and histories are typed.
<1>i. ASSUME course' \in [Courses -> ArchiveRow], cycleMark' \in [Courses -> SUBSET BOOLEAN],
             desk' \in [Clerks -> Desk], strayed' \subseteq Courses, apart' \subseteq Courses,
             DeskInv', BillersInv', CyclesInv'
      PROVE  ArchiveInv'
  BY <1>i DEF ArchiveInv, ArchiveTypes
\* A request that starts, or reads: no row, mark or history changes.
<1>r. ASSUME NEW r \in Clerks, NEW d \in Desk, Goes(r, d),
             UNCHANGED <<course, cycleMark, strayed, apart>>,
             desk[r].pc \notin Marking, d.pc \notin Marking,
             d.pc # "idle" => d.course \in Courses /\ course[d.course].there,
             d.pc \in {"biller", "assign"} => d.was,
         d.pc = "delete" => d.mark = "keep"
      PROVE  ArchiveInv'
  <2>1. desk' \in [Clerks -> Desk] /\ DeskInv'
    BY <1>0, <1>r, DeskStep
  <2>2. BillersInv'
    BY <1>0, <1>r, BillersKept DEF Marking, Runs
  <2>3. CyclesInv'
    BY <1>0, <1>r, CyclesKept DEF Marking, WillMark
  <2> QED
    BY <1>0, <1>i, <1>r, <2>1, <2>2, <2>3
<1>1. ASSUME NEW r \in Clerks, NEW c \in Courses, NEW mark \in Given, NEW cycles \in Given,
             NEW link \in Courses \cup {NoCourse}, UpdateCourse(r, c, mark, link, cycles)
      PROVE  ArchiveInv'
  <2> DEFINE e == course[c].archieveCourseId
             a == course[c].cycles
             d == [Seated EXCEPT !.pc = "update", !.course = c, !.mark = mark, !.link = link,
                                 !.cycles = cycles, !.exists = e, !.avail = a]
  <2>1. Goes(r, d) /\ desk[r].pc = "idle" /\ course[c].there
        /\ UNCHANGED <<course, cycleMark, strayed, apart>>
    BY <1>1 DEF UpdateCourse, Order
  <2>2. e \in Courses \cup {NoCourse} /\ a \in BOOLEAN
    BY <1>0 DEF ArchiveRow
  <2> HIDE DEF e, a
  <2>3. d \in Desk /\ d.pc = "update" /\ d.course = c
    BY <2>2 DEF Seated, Desk, DeskSteps, Given
  <2> HIDE DEF d
  <2> QED
    BY <1>r, <2>1, <2>3 DEF Marking
<1>2. ASSUME NEW r \in Clerks, NEW c \in Courses, NEW marks \in SUBSET BOOLEAN,
             NEW link \in Courses \cup {NoCourse}, UpdateCycle(r, c, marks, link)
      PROVE  ArchiveInv'
  <2>1. /\ desk[r].pc = "idle" /\ course[c].there /\ UNCHANGED <<course, strayed>>
        /\ cycleMark' = [cycleMark EXCEPT ![c] = marks]
        /\ apart' = IF marks = cycleMark[c] THEN apart ELSE apart \cup {c}
    BY <1>2 DEF UpdateCycle, Order
  <2>2. PICK d \in Desk : /\ Goes(r, d) /\ d.pc \in {"idle", "link"}
                          /\ d.pc # "idle" => d.course = c
    <3> DEFINE l == [Seated EXCEPT !.pc = "link", !.course = c, !.link = link]
    <3>1. l \in Desk /\ l.pc = "link" /\ l.course = c
      BY DEF Seated, Desk, DeskSteps, Given
    <3>2. Goes(r, l) \/ Goes(r, Seated)
      BY <1>2 DEF UpdateCycle
    <3> HIDE DEF l
    <3> QED
      BY <1>s, <3>1, <3>2
  <2>3. /\ desk' \in [Clerks -> Desk] /\ DeskInv'
        /\ \A q \in Clerks : desk'[q] = IF q = r THEN d ELSE desk[q]
    BY <1>0, <2>1, <2>2, DeskStep
  <2>4. BillersInv'
    BY <1>0, <2>1, <2>2, BillersKept DEF Runs
  <2>5. \A k \in Courses : cycleMark'[k] = IF k = c THEN marks ELSE cycleMark[k]
    BY <1>0, <2>1
  <2>6. CyclesInv'
    <3>1. \A k : ~WillMark(desk[r], k) /\ ~WillMark(d, k)
      BY <2>1, <2>2 DEF WillMark
    <3>2. \A k \in Courses : course'[k].there =>
            \/ k \in apart'
            \/ course[k].there /\ cycleMark'[k] = cycleMark[k] /\ (k \in apart => k \in apart')
      BY <2>1, <2>5
    <3> QED
      BY <1>0, <2>1, <2>2, <3>1, <3>2, CyclesMove
  <2>7. cycleMark' \in [Courses -> SUBSET BOOLEAN] /\ apart' \subseteq Courses
    BY <1>0, <2>1
  <2> QED
    BY <1>0, <1>i, <2>1, <2>3, <2>4, <2>6, <2>7
<1>3. ASSUME NEW r \in Clerks, NEW c \in Courses, DeleteCourse(r, c)
      PROVE  ArchiveInv'
  <2> DEFINE e == course[c].archieveCourseId
             d == [Seated EXCEPT !.pc = "delete", !.course = c, !.exists = e]
  <2>1. Goes(r, d) /\ desk[r].pc = "idle" /\ course[c].there
        /\ UNCHANGED <<course, cycleMark, strayed, apart>>
    BY <1>3 DEF DeleteCourse, Order
  <2>2. e \in Courses \cup {NoCourse}
    BY <1>0 DEF ArchiveRow
  <2> HIDE DEF e
  <2>3. d \in Desk /\ d.pc = "delete" /\ d.course = c /\ d.mark = "keep"
    BY <2>2 DEF Seated, Desk, DeskSteps, Given
  <2> HIDE DEF d
  <2> QED
    BY <1>r, <2>1, <2>3 DEF Marking
<1>4. ASSUME NEW r \in Clerks, NEW c \in Courses, CloneOf(r, c)
      PROVE  ArchiveInv'
  <2> DEFINE l == IF course[c].contentOwner = NoCourse THEN c ELSE course[c].contentOwner
             a == course[c].cycles
             d == [Seated EXCEPT !.pc = "copy", !.course = c, !.avail = a, !.link = l]
  <2>1. Goes(r, d) /\ desk[r].pc = "idle" /\ course[c].there
        /\ UNCHANGED <<course, cycleMark, strayed, apart>>
    BY <1>4 DEF CloneOf, Order, Alive
  <2>2. l \in Courses \cup {NoCourse} /\ a \in BOOLEAN
    BY <1>0 DEF ArchiveRow
  <2> HIDE DEF l, a
  <2>3. d \in Desk /\ d.pc = "copy" /\ d.course = c
    BY <2>2 DEF Seated, Desk, DeskSteps, Given
  <2> HIDE DEF d
  <2> QED
    BY <1>r, <2>1, <2>3 DEF Marking
<1>5. ASSUME NEW r \in Clerks, NEW o \in Courses, NEW cs \in SUBSET Courses,
             SetActiveBiller(r, o, cs)
      PROVE  ArchiveInv'
  <2> DEFINE d == [Seated EXCEPT !.pc = "biller", !.course = o, !.courses = cs, !.was = TRUE]
  <2>1. desk[r].pc = "idle" /\ course[o].there /\ Active(o) = TRUE
        /\ UNCHANGED <<course, cycleMark, strayed, apart>>
    BY <1>5 DEF SetActiveBiller, Order, Active, Alive
  <2>2. Goes(r, d)
    BY <1>5, <2>1 DEF SetActiveBiller
  <2>3. d \in Desk /\ d.pc = "biller" /\ d.course = o /\ d.was
    BY DEF Seated, Desk, DeskSteps, Given
  <2> HIDE DEF d
  <2> QED
    BY <1>r, <2>1, <2>2, <2>3 DEF Marking
<1>6. ASSUME NEW r \in Clerks, ReadCourses(r)
      PROVE  ArchiveInv'
  <2> DEFINE cs == {c \in desk[r].courses : Archived(c)}
             d == [desk[r] EXCEPT !.pc = "assign", !.courses = cs]
  <2>1. Goes(r, d) /\ desk[r].pc = "biller" /\ UNCHANGED <<course, cycleMark, strayed, apart>>
    BY <1>6 DEF ReadCourses, Turn
  <2>2. desk[r] \in Desk /\ cs \in SUBSET Courses
    BY <1>0 DEF Desk
  <2> HIDE DEF cs
  <2>3. d \in Desk /\ d.pc = "assign" /\ d.course = desk[r].course /\ d.was = desk[r].was
    BY <2>2 DEF Desk, DeskSteps
  <2> HIDE DEF d
  <2> QED
    BY <1>0, <1>r, <2>1, <2>3 DEF Marking, DeskInv
<1>7. ASSUME NEW r \in Clerks, WriteCourse(r)
      PROVE  ArchiveInv'
  <2> DEFINE d == desk[r]
             k == d.course
             mark == FromBody(d.mark, course[k].archived)
             cycles == FromBody(d.cycles, course[k].cycles)
             link == IF d.link = NoCourse THEN course[k].archieveCourseId ELSE d.link
             pc == IF d.mark = "true" THEN "children" ELSE "cycles"
             moved == [d EXCEPT !.pc = pc, !.result = mark]
             x == [course[k] EXCEPT !.archived = mark, !.archieveCourseId = link, !.cycles = cycles]
  <2>1. d \in Desk /\ d.pc = "update" /\ k \in Courses /\ course[k] \in ArchiveRow /\ course[k].there
    BY <1>0, <1>7 DEF WriteCourse, DeskInv
  <2>2. mark \in BOOLEAN /\ link \in Courses \cup {NoCourse} /\ pc \in {"children", "cycles"}
        /\ cycles \in BOOLEAN
        /\ (d.mark = "true" => mark = TRUE /\ pc = "children") /\ (d.mark # "true" => pc = "cycles")
    BY <2>1 DEF Desk, ArchiveRow, FromBody
  <2>3. /\ course' = [course EXCEPT ![k].archived = mark, ![k].archieveCourseId = link,
                                    ![k].cycles = cycles]
        /\ desk' = [q \in Clerks |->
                      IF q = r THEN [[d EXCEPT !.pc = pc] EXCEPT !.result = mark]
                      ELSE IF desk[q].course = k /\ desk[q].pc \in Marking
                           THEN [desk[q] EXCEPT !.raced = TRUE] ELSE desk[q]]
        /\ UNCHANGED <<cycleMark, strayed, apart>>
    BY <1>7 DEF WriteCourse, Turn
  <2>4. \A c \in Courses : course'[c] = IF c = k THEN x ELSE course[c]
    BY <1>0, <2>1, <2>3
  <2>5. moved = [[d EXCEPT !.pc = pc] EXCEPT !.result = mark]
    OBVIOUS
  <2> HIDE DEF mark, link, pc, cycles
  <2>6. /\ x \in ArchiveRow /\ x.archived = mark /\ x.there = course[k].there
        /\ x.deleted = course[k].deleted /\ x.contentOwner = course[k].contentOwner
    <3> DEFINE row == course[k]
    <3>1. row \in ArchiveRow /\ x = [row EXCEPT !.archived = mark, !.archieveCourseId = link, !.cycles = cycles]
      BY <2>1
    <3> HIDE DEF x, row
    <3>2. /\ x \in ArchiveRow /\ x.archived = mark /\ x.there = row.there
          /\ x.deleted = row.deleted /\ x.contentOwner = row.contentOwner
      BY <2>2, <3>1 DEF ArchiveRow
    <3> QED
      BY <3>2 DEF row
  <2>7. /\ moved \in Desk /\ moved.pc = pc /\ moved.course = k /\ moved.mark = d.mark
        /\ moved.result = mark
    BY <2>1, <2>2 DEF Desk, DeskSteps
  <2>8. \A y \in Desk : /\ [y EXCEPT !.raced = TRUE] \in Desk
                        /\ [y EXCEPT !.raced = TRUE].raced
                        /\ [y EXCEPT !.raced = TRUE].course = y.course
                        /\ [y EXCEPT !.raced = TRUE].pc = y.pc
                        /\ [y EXCEPT !.raced = TRUE].mark = y.mark
                        /\ [y EXCEPT !.raced = TRUE].courses = y.courses
                        /\ [y EXCEPT !.raced = TRUE].was = y.was
    BY DEF Desk
  <2> HIDE DEF x, moved
  <2>9. /\ desk'[r] = moved
        /\ \A q \in Clerks : q # r =>
             desk'[q] = IF desk[q].course = k /\ desk[q].pc \in Marking
                        THEN [desk[q] EXCEPT !.raced = TRUE] ELSE desk[q]
    BY <2>3, <2>5
  <2>10. \A q \in Clerks : q # r =>
           /\ desk'[q] \in Desk /\ desk'[q].course = desk[q].course /\ desk'[q].pc = desk[q].pc
           /\ desk'[q].mark = desk[q].mark /\ desk'[q].courses = desk[q].courses
           /\ desk'[q].was = desk[q].was
           /\ desk[q].course = k /\ desk[q].pc \in Marking => desk'[q].raced
           /\ desk[q].course # k => desk'[q] = desk[q]
    <3> SUFFICES ASSUME NEW q \in Clerks, q # r
                 PROVE  /\ desk'[q] \in Desk /\ desk'[q].course = desk[q].course
                        /\ desk'[q].pc = desk[q].pc
                        /\ desk'[q].mark = desk[q].mark /\ desk'[q].courses = desk[q].courses
                        /\ desk'[q].was = desk[q].was
                        /\ desk[q].course = k /\ desk[q].pc \in Marking => desk'[q].raced
                        /\ desk[q].course # k => desk'[q] = desk[q]
      OBVIOUS
    <3>1. desk[q] \in Desk
      BY <1>0
    <3>2. CASE desk[q].course = k /\ desk[q].pc \in Marking
      <4>1. desk'[q] = [desk[q] EXCEPT !.raced = TRUE]
        BY <2>9, <3>2
      <4> QED
        BY <2>8, <3>1, <3>2, <4>1
    <3>3. CASE ~(desk[q].course = k /\ desk[q].pc \in Marking)
      <4>1. desk'[q] = desk[q]
        BY <2>9, <3>3
      <4> QED
        BY <3>1, <3>3, <4>1
    <3> QED
      BY <3>2, <3>3
  <2> HIDE DEF d, k
  <2>11. desk' \in [Clerks -> Desk]
    BY <2>3, <2>7, <2>9, <2>10
  <2>12. course' \in [Courses -> ArchiveRow]
    BY <1>0, <2>3, <2>4, <2>6
  <2>13. \A c \in Courses : /\ course'[c].there = course[c].there
                            /\ course'[c].deleted = course[c].deleted
                            /\ course'[c].contentOwner = course[c].contentOwner
                            /\ c # k => course'[c].archived = course[c].archived
    BY <2>4, <2>6
  <2>14. DeskInv'
    BY <1>0, <2>1, <2>2, <2>7, <2>9, <2>10, <2>13 DEF DeskInv
  <2>15. BillersInv'
    <3>1. \A c, o : Clearing(desk, c, o) => Clearing(desk', c, o)
      BY <2>1, <2>10 DEF Clearing, d
    <3>2. \A c \in Courses : Runs(course, c) => Runs(course', c) \/ (c = k /\ mark)
      BY <1>0, <2>1, <2>4, <2>6, <2>13 DEF Runs
    <3>3. Runs(course, k) /\ mark => d.mark = "true" \/ Runs(course', k)
      BY <2>1, <2>4, <2>6 DEF Runs, mark, FromBody
    <3>4. d.mark = "true" => \A c : Clearing(desk', c, k)
      BY <2>2, <2>7, <2>9 DEF Clearing
    <3>5. \A c \in Courses : course[c].contentOwner \in Courses \cup {NoCourse}
      BY <1>0 DEF ArchiveRow
    <3>6. \A c \in Courses : Billed(course, desk, c) => Billed(course', desk', c)
      BY <2>13, <3>1, <3>2, <3>3, <3>4, <3>5 DEF Billed
    <3> QED
      BY <1>0, <2>3, <3>6 DEF BillersInv
  <2>16. CyclesInv'
    <3>0. \A c : WillMark(moved, c) <=> c = k
      BY <2>2, <2>7 DEF WillMark
    <3>1. ASSUME NEW c \in Courses, course'[c].there
          PROVE  Even(c)' \/ c \in apart' \/ \E q \in Clerks : WillMark(desk'[q], c)
      <4>1. CASE c = k
        BY <2>9, <3>0, <4>1
      <4>2. CASE c # k
        <5>1. Even(c) \/ c \in apart \/ \E q \in Clerks : WillMark(desk[q], c)
          BY <1>0, <2>13, <3>1 DEF CyclesInv
        <5>2. \A q \in Clerks : WillMark(desk[q], c) => WillMark(desk'[q], c)
          BY <2>1, <2>10, <4>2 DEF WillMark, d
        <5>3. Even(c) => Even(c)'
          BY <2>3, <2>13, <4>2 DEF Even
        <5> QED
          BY <2>3, <5>1, <5>2, <5>3
      <4> QED
        BY <4>1, <4>2
    <3>2. ASSUME NEW q \in Clerks, NEW c \in Courses, WillMark(desk'[q], c)
          PROVE  desk'[q].raced \/ desk'[q].result = course'[c].archived
      <4>1. CASE q = r
        BY <2>4, <2>6, <2>7, <2>9, <3>0, <3>2, <4>1, <1>0
      <4>2. CASE q # r /\ c = k
        BY <2>10, <3>2, <4>2 DEF WillMark, Marking
      <4>3. CASE q # r /\ c # k
        <5>1. desk'[q] = desk[q]
          BY <2>10, <3>2, <4>3 DEF WillMark
        <5> QED
          BY <1>0, <2>13, <3>2, <4>3, <5>1 DEF CyclesInv
      <4> QED
        BY <4>1, <4>2, <4>3
    <3> QED
      BY <3>1, <3>2 DEF CyclesInv, WillMark
  <2> QED
    BY <1>0, <1>i, <2>3, <2>11, <2>12, <2>14, <2>15, <2>16
<1>8. ASSUME NEW r \in Clerks, WriteDeleted(r)
      PROVE  ArchiveInv'
  <2> DEFINE k == desk[r].course
             d == [desk[r] EXCEPT !.pc = "children"]
             x == [course[k] EXCEPT !.deleted = TRUE]
  <2>1. /\ desk[r] \in Desk /\ desk[r].pc = "delete" /\ k \in Courses /\ course[k] \in ArchiveRow
        /\ course[k].there
    BY <1>0, <1>8 DEF WriteDeleted, DeskInv
  <2>2. /\ course' = [course EXCEPT ![k].deleted = TRUE] /\ Goes(r, d)
        /\ UNCHANGED <<cycleMark, strayed, apart>>
    BY <1>8 DEF WriteDeleted, Turn
  <2>3. \A c \in Courses : course'[c] = IF c = k THEN x ELSE course[c]
    BY <1>0, <2>1, <2>2
  <2>4. /\ x \in ArchiveRow /\ x.archived = course[k].archived /\ x.there = course[k].there
        /\ x.deleted = TRUE /\ x.contentOwner = course[k].contentOwner
    BY <2>1, Removed
  <2>5. d \in Desk /\ d.pc = "children" /\ d.course = k /\ d.mark = "keep"
    BY <1>0, <2>1 DEF Desk, DeskSteps, DeskInv, Given
  <2> HIDE DEF d, x
  <2>6. \A c \in Courses : /\ course'[c].there = course[c].there
                           /\ course'[c].archived = course[c].archived
                           /\ course'[c].contentOwner = course[c].contentOwner
                           /\ course'[c].deleted = IF c = k THEN TRUE ELSE course[c].deleted
    BY <2>3, <2>4
  <2> HIDE DEF k
  <2>7. /\ desk' \in [Clerks -> Desk] /\ DeskInv'
        /\ \A q \in Clerks : desk'[q] = IF q = r THEN d ELSE desk[q]
    BY <1>0, <2>1, <2>2, <2>5, <2>6, DeskStep
  <2>8. course' \in [Courses -> ArchiveRow]
    BY <1>0, <2>2, <2>3, <2>4
  <2>9. BillersInv'
    <3>1. \A c, o : Clearing(desk, c, o) => Clearing(desk', c, o)
      BY <2>1, <2>7 DEF Clearing
    <3>2. \A c : Clearing(desk', c, k)
      BY <2>5, <2>7 DEF Clearing
    <3>3. \A c \in Courses : Runs(course, c) => Runs(course', c) \/ c = k
      BY <2>6 DEF Runs
    <3>4. \A c \in Courses : course[c].contentOwner \in Courses \cup {NoCourse}
      BY <1>0 DEF ArchiveRow
    <3>5. \A c \in Courses : Billed(course, desk, c) => Billed(course', desk', c)
      BY <2>6, <3>1, <3>2, <3>3, <3>4 DEF Billed
    <3> QED
      BY <1>0, <2>2, <3>5 DEF BillersInv
  <2>10. \A c : ~WillMark(desk[r], c) /\ ~WillMark(d, c)
    BY <2>1, <2>5 DEF WillMark
  <2>11. CyclesInv'
    BY <1>0, <2>2, <2>5, <2>6, <2>10, CyclesKept
  <2> QED
    BY <1>0, <1>i, <2>2, <2>7, <2>8, <2>9, <2>11
<1>9. ASSUME NEW r \in Clerks, FindChildren(r)
      PROVE  ArchiveInv'
  <2> DEFINE o == desk[r].course
             cs == Dependants(o, desk[r].exists)
             d == [desk[r] EXCEPT !.pc = "clear", !.courses = cs]
             missed1 == {c \in OwnedBy(o) : Active(c) \/ c = desk[r].exists}
  <2>1. desk[r] \in Desk /\ desk[r].pc = "children" /\ o \in Courses /\ course[o].there
    BY <1>0, <1>9 DEF FindChildren, DeskInv
  <2>2. Goes(r, d) /\ strayed' = strayed \cup missed1 /\ UNCHANGED <<course, cycleMark, apart>>
    BY <1>9 DEF FindChildren, Turn
  <2>3. cs \in SUBSET Courses /\ missed1 \in SUBSET Courses
    BY DEF Dependants, OwnedBy
  <2>4. ASSUME NEW c \in Courses, course[c].contentOwner = o, course[c].there, ~course[c].deleted
        PROVE  c \in cs \/ c \in missed1
    BY <2>4 DEF Dependants, OwnedBy, Archived, Active, Alive
  <2> HIDE DEF cs, missed1
  <2>5. /\ d \in Desk /\ d.pc = "clear" /\ d.course = o /\ d.courses = cs
        /\ d.mark = desk[r].mark /\ d.raced = desk[r].raced /\ d.result = desk[r].result
    BY <2>1, <2>3 DEF Desk, DeskSteps
  <2> HIDE DEF d
  <2>6. /\ desk' \in [Clerks -> Desk] /\ DeskInv'
        /\ \A q \in Clerks : desk'[q] = IF q = r THEN d ELSE desk[q]
    BY <1>0, <2>1, <2>2, <2>5, DeskStep
  <2>7. BillersInv'
    <3> SUFFICES ASSUME NEW c \in Courses, c \notin strayed' PROVE Billed(course', desk', c)
      BY DEF BillersInv
    <3>1. c \notin missed1 /\ Billed(course, desk, c)
      BY <1>0, <2>2 DEF BillersInv
    <3>2. CASE course[c].contentOwner # o
      <4>1. Clearing(desk, c, course[c].contentOwner) => Clearing(desk', c, course[c].contentOwner)
        BY <2>6, <3>2 DEF Clearing
      <4> QED
        BY <2>2, <3>1, <4>1 DEF Billed
    <3>3. CASE course[c].contentOwner = o
      <4>1. course[c].there /\ ~course[c].deleted => Clearing(desk', c, o)
        BY <2>4, <2>5, <2>6, <3>1, <3>3 DEF Clearing
      <4> QED
        BY <2>2, <3>3, <4>1 DEF Billed
    <3> QED
      BY <3>2, <3>3
  <2>8. \A c : WillMark(d, c) <=> WillMark(desk[r], c)
    BY <2>1, <2>5 DEF WillMark
  <2>9. CyclesInv'
    BY <1>0, <2>2, <2>5, <2>8, CyclesKept
  <2> QED
    BY <1>0, <1>i, <2>2, <2>3, <2>6, <2>7, <2>9
<1>10. ASSUME NEW r \in Clerks, ClearOwners(r)
       PROVE  ArchiveInv'
  <2> DEFINE cs == desk[r].courses
             d == IF desk[r].mark = "true" THEN [desk[r] EXCEPT !.pc = "cycles"] ELSE Seated
  <2>1. /\ desk[r] \in Desk /\ desk[r].pc = "clear" /\ cs \in SUBSET Courses
        /\ desk[r].course \in Courses /\ course[desk[r].course].there
    BY <1>0, <1>10 DEF ClearOwners, DeskInv, Desk
  <2>2. /\ course' = [c \in Courses |-> IF c \in cs THEN [course[c] EXCEPT !.contentOwner = NoCourse]
                                        ELSE course[c]]
        /\ Goes(r, d) /\ strayed' = strayed \ cs /\ UNCHANGED <<cycleMark, apart>>
    BY <1>10 DEF ClearOwners, Turn
  <2>4. /\ d \in Desk /\ d.pc \in {"idle", "cycles"}
        /\ d.pc # "idle" => d.course = desk[r].course
        /\ \A c : WillMark(d, c) <=> WillMark(desk[r], c)
        /\ \A c : WillMark(d, c) => d.raced = desk[r].raced /\ d.result = desk[r].result
    <3>1. CASE desk[r].mark = "true"
      <4>1. /\ d \in Desk /\ d.pc = "cycles" /\ d.course = desk[r].course
            /\ d.raced = desk[r].raced /\ d.result = desk[r].result
        BY <2>1, <3>1 DEF Desk, DeskSteps
      <4> HIDE DEF d
      <4> QED
        BY <2>1, <3>1, <4>1 DEF WillMark
    <3>2. CASE desk[r].mark # "true"
      <4>1. d = Seated
        BY <3>2
      <4> HIDE DEF d
      <4> QED
        BY <1>s, <2>1, <3>2, <4>1 DEF WillMark
    <3> QED
      BY <3>1, <3>2
  <2> HIDE DEF d
  <2>5. \A c \in Courses : [course[c] EXCEPT !.contentOwner = NoCourse] \in ArchiveRow
    BY <1>0, Reowned
  <2>6. \A c \in Courses : /\ course'[c].there = course[c].there
                           /\ course'[c].archived = course[c].archived
                           /\ course'[c].deleted = course[c].deleted
                           /\ course'[c].contentOwner = IF c \in cs THEN NoCourse ELSE course[c].contentOwner
    BY <1>0, <2>2, Reowned
  <2> HIDE DEF cs
  <2>7. course' \in [Courses -> ArchiveRow]
    BY <1>0, <2>2, <2>5
  <2>8. /\ desk' \in [Clerks -> Desk] /\ DeskInv'
        /\ \A q \in Clerks : desk'[q] = IF q = r THEN d ELSE desk[q]
    BY <1>0, <2>1, <2>2, <2>4, <2>6, DeskStep
  <2>9. BillersInv'
    <3> SUFFICES ASSUME NEW c \in Courses, c \notin strayed' PROVE Billed(course', desk', c)
      BY DEF BillersInv
    <3>1. CASE c \in cs
      BY <2>6, <3>1 DEF Billed
    <3>2. CASE c \notin cs
      <4>1. Billed(course, desk, c)
        BY <1>0, <2>2, <3>2 DEF BillersInv
      <4>2. \A k : Clearing(desk, c, k) => Clearing(desk', c, k)
        BY <2>1, <2>8, <3>2 DEF Clearing, cs
      <4>3. course[c].contentOwner \in Courses \cup {NoCourse}
        BY <1>0 DEF ArchiveRow
      <4>4. \A k \in Courses : Runs(course, k) => Runs(course', k)
        BY <2>6 DEF Runs
      <4> QED
        BY <2>6, <3>2, <4>1, <4>2, <4>3, <4>4 DEF Billed
    <3> QED
      BY <3>1, <3>2
  <2>10. CyclesInv'
    BY <1>0, <2>2, <2>4, <2>6, CyclesKept
  <2> QED
    BY <1>0, <1>i, <2>2, <2>7, <2>8, <2>9, <2>10
<1>11. ASSUME NEW r \in Clerks, MarkCycles(r)
       PROVE  ArchiveInv'
  <2>0. PICK c \in Courses : c = desk[r].course
    BY <1>0, <1>11 DEF MarkCycles, DeskInv
  <2> DEFINE m == desk[r].result
  <2>1. /\ desk[r] \in Desk /\ desk[r].pc = "cycles" /\ c \in Courses /\ course[c].there
        /\ m \in BOOLEAN /\ desk[r].raced \in BOOLEAN /\ desk[r].avail \in BOOLEAN
    BY <1>0, <1>11, <2>0 DEF MarkCycles, DeskInv, Desk
  <2>2. /\ cycleMark' = IF desk[r].avail THEN AllMarked(c, m) ELSE cycleMark
        /\ apart' = IF Missed(desk[r]) THEN apart \cup {c} ELSE apart \ {c}
        /\ Goes(r, Seated) /\ UNCHANGED <<course, strayed>>
    BY <1>11, <2>0 DEF MarkCycles
  <2>3. /\ desk' \in [Clerks -> Desk] /\ DeskInv'
        /\ \A q \in Clerks : desk'[q] = IF q = r THEN Seated ELSE desk[q]
    BY <1>0, <1>s, <2>2, DeskStep
  <2>4. BillersInv'
    BY <1>0, <1>s, <2>1, <2>2, BillersKept DEF Runs
  <2> DEFINE x == IF cycleMark[c] = {} THEN {} ELSE {m}
  <2>x. x \in SUBSET BOOLEAN /\ x \subseteq {m} /\ AllMarked(c, m) = [cycleMark EXCEPT ![c] = x]
    BY <1>0, <2>1 DEF AllMarked
  <2> HIDE DEF x
  <2>5. /\ desk[r].avail => cycleMark' = [cycleMark EXCEPT ![c] = x]
        /\ ~desk[r].avail => cycleMark' = cycleMark
    BY <2>2, <2>x
  <2>6. cycleMark' \in [Courses -> SUBSET BOOLEAN] /\ apart' \subseteq Courses
    BY <1>0, <2>1, <2>2, <2>5, <2>x
  <2>7. \A k : WillMark(desk[r], k) <=> k = c
    BY <2>0, <2>1 DEF WillMark
  <2>8. desk[r].raced \/ m = course[c].archived
    BY <1>0, <2>1, <2>7 DEF CyclesInv
  <2>10. Missed(desk[r]) \/ cycleMark'[c] \subseteq {m}
    BY <1>0, <2>1, <2>0, <2>5, <2>x DEF Missed
  <2>11. \A k \in Courses : k # c => cycleMark'[k] = cycleMark[k] /\ (k \in apart => k \in apart')
    BY <1>0, <2>1, <2>2, <2>5
  <2>12. Missed(desk[r]) => c \in apart'
    BY <2>2
  <2>13. desk[r].raced => Missed(desk[r])
    BY DEF Missed
  <2> HIDE DEF m
  <2>9. CyclesInv'
    <3>1. c \in apart' \/ Even(c)'
      BY <2>2, <2>8, <2>10, <2>12, <2>13 DEF Even
    <3>2. \A k \in Courses : k # c => ~WillMark(desk[r], k)
      BY <2>7
    <3>3. \A k \in Courses : course'[k].there =>
            \/ k \in apart' \/ Even(k)'
            \/ /\ course[k].there /\ cycleMark'[k] = cycleMark[k]
               /\ k \in apart => k \in apart'
               /\ WillMark(desk[r], k) => WillMark(Seated, k)
      <4> SUFFICES ASSUME NEW k \in Courses, course'[k].there
                   PROVE  \/ k \in apart' \/ Even(k)'
                          \/ /\ course[k].there /\ cycleMark'[k] = cycleMark[k]
                             /\ k \in apart => k \in apart'
                             /\ WillMark(desk[r], k) => WillMark(Seated, k)
        OBVIOUS
      <4>1. CASE k = c
        BY <3>1, <4>1
      <4>2. CASE k # c
        BY <2>2, <2>11, <3>2, <4>2
      <4> QED
        BY <4>1, <4>2
    <3> QED
      BY <1>0, <1>s, <2>2, <3>3, CyclesMove
  <2> QED
    BY <1>0, <1>i, <2>2, <2>3, <2>4, <2>6, <2>9
<1>12. ASSUME NEW r \in Clerks, LinkArchive(r)
       PROVE  ArchiveInv'
  <2> DEFINE k == desk[r].course
             o == desk[r].link
             x == [course[k] EXCEPT !.archieveCourseId = o]
  <2>1. /\ desk[r].pc = "link" /\ k \in Courses /\ course[k] \in ArchiveRow /\ o \in Courses \cup {NoCourse}
    BY <1>0, <1>12 DEF LinkArchive, DeskInv, Desk
  <2>2. /\ course' = [course EXCEPT ![k].archieveCourseId = o] /\ Goes(r, Seated)
        /\ UNCHANGED <<cycleMark, strayed, apart>>
    BY <1>12 DEF LinkArchive
  <2>3. \A c \in Courses : course'[c] = IF c = k THEN x ELSE course[c]
    BY <1>0, <2>1, <2>2
  <2>4. /\ x \in ArchiveRow /\ x.archived = course[k].archived /\ x.there = course[k].there
        /\ x.deleted = course[k].deleted /\ x.contentOwner = course[k].contentOwner
    BY <2>1, Relinked
  <2> HIDE DEF x, o
  <2>5. \A c \in Courses : /\ course'[c].there = course[c].there
                           /\ course'[c].archived = course[c].archived
                           /\ course'[c].deleted = course[c].deleted
                           /\ course'[c].contentOwner = course[c].contentOwner
    BY <2>3, <2>4
  <2>6. course' \in [Courses -> ArchiveRow]
    BY <1>0, <2>2, <2>3, <2>4
  <2> HIDE DEF k
  <2>7. desk' \in [Clerks -> Desk] /\ DeskInv'
    BY <1>0, <1>s, <2>2, <2>5, DeskStep
  <2>8. BillersInv'
    BY <1>0, <1>s, <2>1, <2>2, <2>5, BillersKept DEF Runs
  <2>9. CyclesInv'
    BY <1>0, <1>s, <2>1, <2>2, <2>5, CyclesKept DEF WillMark
  <2> QED
    BY <1>0, <1>i, <2>2, <2>6, <2>7, <2>8, <2>9
<1>13. ASSUME NEW r \in Clerks, Assign(r)
       PROVE  ArchiveInv'
  <2> DEFINE o == desk[r].course
             cs == desk[r].courses
  <2>1. /\ desk[r].pc = "assign" /\ o \in Courses /\ course[o] \in ArchiveRow /\ cs \in SUBSET Courses
        /\ desk[r].was = TRUE
    BY <1>0, <1>13 DEF Assign, DeskInv, Desk
  <2>2. /\ course' = [c \in Courses |-> IF c \in cs THEN [course[c] EXCEPT !.contentOwner = o]
                                        ELSE course[c]]
        /\ strayed' = IF ~Active(o) THEN strayed \cup cs ELSE strayed \ cs
        /\ Goes(r, Seated) /\ UNCHANGED <<cycleMark, apart>>
    BY <1>13, <2>1 DEF Assign
  <2>3. \A c \in Courses : [course[c] EXCEPT !.contentOwner = o] \in ArchiveRow
    BY <1>0, <2>1, Reowned
  <2>4. \A c \in Courses : /\ course'[c].there = course[c].there
                           /\ course'[c].archived = course[c].archived
                           /\ course'[c].deleted = course[c].deleted
                           /\ course'[c].contentOwner = IF c \in cs THEN o ELSE course[c].contentOwner
    BY <1>0, <2>1, <2>2, Reowned
  <2>5. course' \in [Courses -> ArchiveRow]
    BY <1>0, <2>2, <2>3
  <2>6. strayed' \subseteq Courses
    BY <1>0, <2>1, <2>2
  <2> HIDE DEF o, cs
  <2>7. /\ desk' \in [Clerks -> Desk] /\ DeskInv'
        /\ \A q \in Clerks : desk'[q] = IF q = r THEN Seated ELSE desk[q]
    BY <1>0, <1>s, <2>2, <2>4, DeskStep
  <2>8. BillersInv'
    <3> SUFFICES ASSUME NEW c \in Courses, c \notin strayed' PROVE Billed(course', desk', c)
      BY DEF BillersInv
    <3>1. CASE c \in cs
      <4>1. Active(o)
        BY <2>2, <3>1
      <4>2. Runs(course', o)
        BY <2>1, <2>4, <4>1 DEF Runs, Active, Alive
      <4> QED
        BY <2>4, <3>1, <4>2 DEF Billed
    <3>2. CASE c \notin cs
      <4>1. Billed(course, desk, c)
        BY <1>0, <2>2, <3>2 DEF BillersInv
      <4>2. \A k : Clearing(desk, c, k) => Clearing(desk', c, k)
        BY <2>1, <2>7 DEF Clearing
      <4>3. course[c].contentOwner \in Courses \cup {NoCourse}
        BY <1>0 DEF ArchiveRow
      <4>4. \A k \in Courses : Runs(course, k) => Runs(course', k)
        BY <2>4 DEF Runs
      <4> QED
        BY <2>4, <3>2, <4>1, <4>2, <4>3, <4>4 DEF Billed
    <3> QED
      BY <3>1, <3>2
  <2>9. CyclesInv'
    BY <1>0, <1>s, <2>1, <2>2, <2>4, CyclesKept DEF WillMark
  <2> QED
    BY <1>0, <1>i, <2>2, <2>5, <2>6, <2>7, <2>8, <2>9
<1>14. ASSUME NEW r \in Clerks, NEW n \in Courses, CommitCopy(r, n)
       PROVE  ArchiveInv'
  <2> DEFINE o == desk[r].link
             a == desk[r].avail
             x == [Running EXCEPT !.archived = TRUE, !.contentOwner = o, !.cycles = a]
  <2>1. desk[r].pc = "copy" /\ ~course[n].there /\ o \in Courses \cup {NoCourse} /\ a \in BOOLEAN
    BY <1>0, <1>14 DEF CommitCopy, Desk
  <2>2. /\ course' = [course EXCEPT ![n] = x]
        /\ strayed' = IF Active(o) THEN strayed ELSE strayed \cup {n}
        /\ Goes(r, Seated) /\ UNCHANGED apart
    BY <1>14 DEF CommitCopy
  <2>m. PICK marks \in {{}, {TRUE}} : cycleMark' = [cycleMark EXCEPT ![n] = marks]
    BY <1>14 DEF CommitCopy
  <2>3. x \in ArchiveRow /\ x.there /\ x.archived = TRUE /\ ~x.deleted /\ x.contentOwner = o
    <3> HIDE DEF o, a
    <3> QED
      <4>1. IsCloned(x, o)
        BY <2>1 DEF IsCloned
      <4> HIDE DEF x
      <4> QED
        BY ONLY <2>1, <4>1, NewCopy
  <2> HIDE DEF x, a
  <2>4. /\ course'[n] = x /\ course' \in [Courses -> ArchiveRow]
        /\ \A c \in Courses : c # n => course'[c] = course[c]
    BY <1>0, <2>2, <2>3
  <2>5. \A c \in Courses : cycleMark'[c] = IF c = n THEN marks ELSE cycleMark[c]
    BY <1>0, <2>m
  <2>e. marks \subseteq {TRUE} /\ marks \in SUBSET BOOLEAN
    OBVIOUS
  <2>6. cycleMark' \in [Courses -> SUBSET BOOLEAN] /\ strayed' \subseteq Courses
    BY <1>0, <2>2, <2>m, <2>e
  <2>7. \A c \in Courses : course[c].there => course'[c].there
    BY <2>3, <2>4
  <2>8. /\ desk' \in [Clerks -> Desk] /\ DeskInv'
        /\ \A q \in Clerks : desk'[q] = IF q = r THEN Seated ELSE desk[q]
    BY <1>0, <1>s, <2>2, <2>7, DeskStep
  <2> HIDE DEF o
  <2>9. BillersInv'
    <3> SUFFICES ASSUME NEW c \in Courses, c \notin strayed' PROVE Billed(course', desk', c)
      BY DEF BillersInv
    <3>1. CASE c = n
      <4>1. o \in Courses => Runs(course', o)
        BY <2>1, <2>2, <2>4, <3>1 DEF Runs, Active, Alive
      <4> QED
        BY <2>1, <2>3, <2>4, <3>1, <4>1 DEF Billed
    <3>2. CASE c # n
      <4>1. Billed(course, desk, c)
        BY <1>0, <2>2, <3>2 DEF BillersInv
      <4>2. \A k : Clearing(desk, c, k) => Clearing(desk', c, k)
        BY <2>1, <2>8 DEF Clearing
      <4>3. course[c].contentOwner \in Courses \cup {NoCourse}
        BY <1>0 DEF ArchiveRow
      <4>4. \A k \in Courses : Runs(course, k) => Runs(course', k)
        BY <2>1, <2>4 DEF Runs
      <4> QED
        BY <2>4, <3>2, <4>1, <4>2, <4>3, <4>4 DEF Billed
    <3> QED
      BY <3>1, <3>2
  <2>10. CyclesInv'
    <3>1. Even(n)'
      BY <2>3, <2>4, <2>5, <2>e DEF Even
    <3>2. \A k \in Courses : ~WillMark(desk[r], k)
      BY <2>1 DEF WillMark
    <3>3. \A k \in Courses : course[k].there => course'[k].archived = course[k].archived
      BY <2>1, <2>4
    <3>4. \A k \in Courses : course'[k].there =>
            \/ Even(k)'
            \/ course[k].there /\ cycleMark'[k] = cycleMark[k] /\ (k \in apart => k \in apart')
      <4> SUFFICES ASSUME NEW k \in Courses, course'[k].there, k # n
                   PROVE  course[k].there /\ cycleMark'[k] = cycleMark[k] /\ (k \in apart => k \in apart')
        BY <3>1
      <4> QED
        BY <2>2, <2>4, <2>5
    <3> QED
      BY <1>0, <1>s, <2>2, <3>2, <3>3, <3>4, CyclesMove
  <2> QED
    BY <1>0, <1>i, <2>2, <2>4, <2>6, <2>8, <2>9, <2>10
\* A course is created, and request r goes on as d.
<1>n. ASSUME NEW r \in Clerks, NEW n \in Courses, NEW b \in BOOLEAN, NEW d \in Desk,
             ~course[n].there, course' = [course EXCEPT ![n] = [Running EXCEPT !.cycles = b]],
             cycleMark' = [cycleMark EXCEPT ![n] = {}], UNCHANGED <<strayed, apart>>, Goes(r, d),
             d = desk[r] \/ (desk[r].pc = "idle" /\ d.pc = "cycle" /\ d.course = n)
      PROVE  ArchiveInv'
  <2> DEFINE x == [Running EXCEPT !.cycles = b]
  <2>2. x \in ArchiveRow /\ x.there /\ ~x.deleted /\ ~x.archived /\ x.contentOwner = NoCourse
    BY NewCourse
  <2>1. course' = [course EXCEPT ![n] = x]
    BY <1>n
  <2> HIDE DEF x
  <2>3. /\ course'[n] = x /\ course' \in [Courses -> ArchiveRow]
        /\ \A c \in Courses : c # n => course'[c] = course[c]
    BY <1>0, <2>1, <2>2
  <2>m. /\ cycleMark'[n] = {} /\ cycleMark' \in [Courses -> SUBSET BOOLEAN]
        /\ \A c \in Courses : c # n => cycleMark'[c] = cycleMark[c]
    BY <1>0, <1>n
  <2>4. /\ desk' \in [Clerks -> Desk] /\ DeskInv'
        /\ \A q \in Clerks : desk'[q] = IF q = r THEN d ELSE desk[q]
    <3>1. \A c \in Courses : course[c].there => course'[c].there
      BY <2>2, <2>3
    <3>2. /\ d.pc # "idle" => d.course \in Courses /\ course'[d.course].there
          /\ d.pc \in {"biller", "assign"} => d.was
          /\ d.pc = "delete" => d.mark = "keep"
      <4>1. CASE d = desk[r]
        BY <1>0, <3>1, <4>1 DEF DeskInv
      <4>2. CASE d.pc = "cycle" /\ d.course = n
        BY <2>2, <2>3, <4>2
      <4> QED
        BY <1>n, <4>1, <4>2
    <3> QED
      BY <1>0, <1>n, <3>1, <3>2, DeskStep
  <2>5. BillersInv'
    <3> SUFFICES ASSUME NEW c \in Courses, c \notin strayed' PROVE Billed(course', desk', c)
      BY DEF BillersInv
    <3>1. CASE c = n
      BY <2>2, <2>3, <3>1 DEF Billed
    <3>2. CASE c # n
      <4>1. Billed(course, desk, c)
        BY <1>0, <1>n, <3>2 DEF BillersInv
      <4>2. \A o : Clearing(desk, c, o) => Clearing(desk', c, o)
        BY <1>n, <2>4 DEF Clearing
      <4>3. course[c].contentOwner \in Courses \cup {NoCourse}
        BY <1>0 DEF ArchiveRow
      <4>4. \A k \in Courses : Runs(course, k) => Runs(course', k)
        BY <1>n, <2>3 DEF Runs
      <4> QED
        BY <2>3, <3>2, <4>1, <4>2, <4>3, <4>4 DEF Billed
    <3> QED
      BY <3>1, <3>2
  <2>6. CyclesInv'
    <3>1. Even(n)'
      BY <2>m DEF Even
    <3>2. \A k : WillMark(desk[r], k) <=> WillMark(d, k)
      BY <1>n DEF WillMark
    <3>3. \A k : WillMark(d, k) => d.raced = desk[r].raced /\ d.result = desk[r].result
      BY <1>n DEF WillMark
    <3>4. \A k \in Courses : course[k].there => course'[k].archived = course[k].archived
      BY <1>n, <2>3
    <3>5. \A k \in Courses : course'[k].there =>
            \/ Even(k)'
            \/ course[k].there /\ cycleMark'[k] = cycleMark[k] /\ (k \in apart => k \in apart')
      <4> SUFFICES ASSUME NEW k \in Courses, course'[k].there, k # n
                   PROVE  course[k].there /\ cycleMark'[k] = cycleMark[k] /\ (k \in apart => k \in apart')
        BY <3>1
      <4> QED
        BY <1>n, <2>3, <2>m
    <3> QED
      BY <1>0, <1>n, <3>2, <3>3, <3>4, <3>5, CyclesMove
  <2> QED
    BY <1>0, <1>i, <1>n, <2>3, <2>m, <2>4, <2>5, <2>6
<1>15. ASSUME NEW r \in Clerks, NEW n \in Courses, NEW b \in BOOLEAN, CreateCourse(r, n, b)
       PROVE  ArchiveInv'
  <2>1. /\ ~course[n].there /\ course' = [course EXCEPT ![n] = [Running EXCEPT !.cycles = b]]
        /\ cycleMark' = [cycleMark EXCEPT ![n] = {}]
        /\ UNCHANGED <<desk, strayed, apart>>
    BY <1>15 DEF CreateCourse
  <2>2. Goes(r, desk[r])
    BY <1>0, <2>1 DEF Goes
  <2>3. desk[r] \in Desk
    BY <1>0
  <2> QED
    BY <1>n, <2>1, <2>2, <2>3
<1>18. ASSUME NEW r \in Clerks, NEW c \in Courses, CreateCycle(r, c) \/ PullCourse(r, c)
       PROVE  ArchiveInv'
  <2> DEFINE d == [Seated EXCEPT !.pc = "cycle", !.course = c]
  <2>1. d \in Desk /\ d.pc = "cycle" /\ d.course = c
    BY DEF Seated, Desk, DeskSteps, Given
  <2>2. Goes(r, d) /\ desk[r].pc = "idle" /\ UNCHANGED <<strayed, apart>>
    BY <1>18 DEF CreateCycle, PullCourse, Order
  <2>3. \/ course[c].there /\ UNCHANGED <<course, cycleMark>>
        \/ /\ ~course[c].there /\ course' = [course EXCEPT ![c] = [Running EXCEPT !.cycles = TRUE]]
           /\ cycleMark' = [cycleMark EXCEPT ![c] = {}]
    BY <1>18 DEF CreateCycle, PullCourse, Alive
  <2> HIDE DEF d
  <2>4. CASE course[c].there /\ UNCHANGED <<course, cycleMark>>
    BY <1>r, <2>1, <2>2, <2>4 DEF Marking
  <2>5. CASE /\ ~course[c].there /\ course' = [course EXCEPT ![c] = [Running EXCEPT !.cycles = TRUE]]
             /\ cycleMark' = [cycleMark EXCEPT ![c] = {}]
    <3> DEFINE b == TRUE
    <3>1. b \in BOOLEAN /\ course' = [course EXCEPT ![c] = [Running EXCEPT !.cycles = b]]
      BY <2>5
    <3> HIDE DEF b
    <3> QED
      BY <1>n, <2>1, <2>2, <2>5, <3>1
  <2> QED
    BY <2>3, <2>4, <2>5
\* A course has one cycle more.
<1>c. ASSUME NEW r \in Clerks, NEW c \in Courses, NEW b \in BOOLEAN, NEW d \in Desk, Goes(r, d),
             course[c].there, cycleMark' = WithCycle(c, b), apart' = ApartWith(c, b),
             UNCHANGED <<course, strayed>>,
             d = desk[r] \/ (desk[r].pc = "cycle" /\ d = Seated)
      PROVE  ArchiveInv'
  <2>1. /\ \A k \in Courses : cycleMark'[k] = IF k = c THEN cycleMark[c] \cup {b} ELSE cycleMark[k]
        /\ cycleMark' \in [Courses -> SUBSET BOOLEAN]
    BY <1>0, <1>c DEF WithCycle
  <2>2. /\ apart \subseteq apart' /\ apart' \subseteq Courses
        /\ c \in apart' \/ course[c].archived = b
    BY <1>0, <1>c DEF ApartWith
  <2>3. /\ desk' \in [Clerks -> Desk] /\ DeskInv'
        /\ \A q \in Clerks : desk'[q] = IF q = r THEN d ELSE desk[q]
    <3>1. /\ d.pc # "idle" => d.course \in Courses /\ course'[d.course].there
          /\ d.pc \in {"biller", "assign"} => d.was
          /\ d.pc = "delete" => d.mark = "keep"
      BY <1>0, <1>c, <1>s DEF DeskInv
    <3> QED
      BY <1>0, <1>c, <3>1, DeskStep
  <2>4. \A k : WillMark(desk[r], k) <=> WillMark(d, k)
    BY <1>c, <1>s DEF WillMark
  <2>5. \A k : WillMark(d, k) => d.raced = desk[r].raced /\ d.result = desk[r].result
    BY <1>c, <1>s
  <2>6. BillersInv'
    <3> SUFFICES ASSUME NEW k \in Courses, k \notin strayed' PROVE Billed(course', desk', k)
      BY DEF BillersInv
    <3>1. Billed(course, desk, k)
      BY <1>0, <1>c DEF BillersInv
    <3>2. \A o : Clearing(desk, k, o) => Clearing(desk', k, o)
      BY <1>c, <2>3 DEF Clearing
    <3> QED
      BY <1>c, <3>1, <3>2 DEF Billed
  <2>7. CyclesInv'
    <3>1. ASSUME NEW k \in Courses, course'[k].there
          PROVE  Even(k)' \/ k \in apart' \/ \E q \in Clerks : WillMark(desk'[q], k)
      <4>1. Even(k) \/ k \in apart \/ \E q \in Clerks : WillMark(desk[q], k)
        BY <1>0, <1>c, <3>1 DEF CyclesInv
      <4>2. Even(k) => Even(k)' \/ k \in apart'
        BY <1>c, <2>1, <2>2 DEF Even
      <4>3. \A q \in Clerks : WillMark(desk[q], k) => WillMark(desk'[q], k)
        BY <2>3, <2>4
      <4> QED
        BY <2>2, <4>1, <4>2, <4>3
    <3>2. ASSUME NEW q \in Clerks, NEW k \in Courses, WillMark(desk'[q], k)
          PROVE  desk'[q].raced \/ desk'[q].result = course'[k].archived
      <4>1. WillMark(desk[q], k) /\ desk'[q].raced = desk[q].raced /\ desk'[q].result = desk[q].result
        BY <2>3, <2>4, <2>5, <3>2
      <4> QED
        BY <1>0, <1>c, <4>1 DEF CyclesInv
    <3> QED
      BY <3>1, <3>2 DEF CyclesInv, WillMark
  <2> QED
    BY <1>0, <1>i, <1>c, <2>1, <2>2, <2>3, <2>6, <2>7
<1>19. ASSUME NEW r \in Clerks, AddCycle(r)
       PROVE  ArchiveInv'
  <2> DEFINE b == FALSE
             c == desk[r].course
  <2>1. /\ desk[r].pc = "cycle" /\ c \in Courses /\ course[c].there /\ b \in BOOLEAN
        /\ cycleMark' = WithCycle(c, b) /\ apart' = ApartWith(c, b)
        /\ Goes(r, Seated) /\ UNCHANGED <<course, strayed>>
    BY <1>0, <1>19 DEF AddCycle, DeskInv
  <2> HIDE DEF b, c
  <2> QED
    BY <1>c, <1>s, <2>1
<1>20. ASSUME NEW r \in Clerks, NEW c \in Courses, CloneOneCycle(r, c)
       PROVE  ArchiveInv'
  <2> DEFINE b == TRUE
  <2>1. /\ course[c].there /\ b \in BOOLEAN
        /\ cycleMark' = WithCycle(c, b) /\ apart' = ApartWith(c, b)
        /\ UNCHANGED <<course, desk, strayed>>
    BY <1>20 DEF CloneOneCycle
  <2>2. Goes(r, desk[r]) /\ desk[r] \in Desk
    BY <1>0, <2>1 DEF Goes
  <2> HIDE DEF b
  <2> QED
    BY <1>c, <2>1, <2>2
<1>16. ASSUME NEW r \in Clerks, Aborts(r)
       PROVE  ArchiveInv'
  <2> DEFINE k == desk[r].course
             finding == desk[r].pc \in {"children", "clear"}
  <2>1. /\ k \in Courses
        /\ strayed' = IF finding THEN strayed \cup OwnedBy(k) ELSE strayed
        /\ apart' = IF desk[r].pc \in Marking THEN apart \cup {k} ELSE apart
        /\ Goes(r, Seated) /\ UNCHANGED <<course, cycleMark>>
    BY <1>0, <1>16 DEF Aborts, DeskInv
  <2>2. /\ desk' \in [Clerks -> Desk] /\ DeskInv'
        /\ \A q \in Clerks : desk'[q] = IF q = r THEN Seated ELSE desk[q]
    BY <1>0, <1>s, <2>1, DeskStep
  <2>3. strayed' \subseteq Courses /\ apart' \subseteq Courses
    BY <1>0, <2>1 DEF OwnedBy
  <2>4. BillersInv'
    <3>1. CASE finding
      <4> SUFFICES ASSUME NEW c \in Courses, c \notin strayed' PROVE Billed(course', desk', c)
        BY DEF BillersInv
      <4>1. c \notin strayed /\ course[c].contentOwner # k
        BY <2>1, <3>1 DEF OwnedBy
      <4>2. Billed(course, desk, c)
        BY <1>0, <4>1 DEF BillersInv
      <4>3. Clearing(desk, c, course[c].contentOwner) => Clearing(desk', c, course[c].contentOwner)
        BY <2>2, <4>1 DEF Clearing
      <4> QED
        BY <2>1, <4>2, <4>3 DEF Billed
    <3>2. CASE ~finding
      BY <1>0, <1>s, <2>1, <3>2, BillersKept DEF Runs
    <3> QED
      BY <3>1, <3>2
  <2>5. CyclesInv'
    <3>1. \A c : WillMark(desk[r], c) => c \in apart'
      BY <2>1 DEF WillMark, Marking
    <3> QED
      BY <1>0, <1>s, <2>1, <3>1, CyclesKept
  <2> QED
    BY <1>0, <1>i, <2>1, <2>2, <2>3, <2>4, <2>5
<1>17. CASE UNCHANGED archiveVars
  <2>1. UNCHANGED <<course, cycleMark, desk, strayed, apart>>
    BY <1>17 DEF archiveVars
  <2> QED
    BY <1>0, <1>i, <2>1 DEF DeskInv, BillersInv, Billed, Runs, Clearing, CyclesInv, WillMark, Even
<1> QED
  BY <1>1, <1>2, <1>3, <1>4, <1>5, <1>6, <1>7, <1>8, <1>9, <1>10, <1>11, <1>12, <1>13, <1>14,
     <1>15, <1>16, <1>17, <1>18, <1>19, <1>20 DEF ArchiveNext

\* The invariant holds in every state.
LEMMA ArchiveAlways == ArchiveSpec => []ArchiveInv
<1> USE ArchiveAssumption
<1>1. ArchiveInit => ArchiveInv
  <2> SUFFICES ASSUME ArchiveInit PROVE ArchiveInv
    OBVIOUS
  <2>0. PICK o, c \in Courses :
          /\ o # c
          /\ \E owner \in {NoCourse, o}, link \in {NoCourse, c}, others \in SUBSET (Courses \ {o, c}) :
               course = [x \in Courses |->
                 IF x = o THEN [Running EXCEPT !.archieveCourseId = link, !.cycles = x \in WithCycles]
                 ELSE IF x = c THEN [Running EXCEPT !.archived = TRUE, !.contentOwner = owner,
                                                    !.cycles = x \in WithCycles]
                 ELSE IF x \in others THEN [Running EXCEPT !.cycles = x \in WithCycles] ELSE Absent]
    BY DEF ArchiveInit
  <2>1. PICK owner \in {NoCourse, o}, link \in {NoCourse, c}, others \in SUBSET (Courses \ {o, c}) :
          course = [x \in Courses |->
            IF x = o THEN [Running EXCEPT !.archieveCourseId = link, !.cycles = x \in WithCycles]
            ELSE IF x = c THEN [Running EXCEPT !.archived = TRUE, !.contentOwner = owner,
                                               !.cycles = x \in WithCycles]
            ELSE IF x \in others THEN [Running EXCEPT !.cycles = x \in WithCycles] ELSE Absent]
    BY <2>0
  <2>2. /\ cycleMark = [x \in Courses |-> IF course[x].cycles THEN {course[x].archived} ELSE {}]
        /\ desk = [r \in Clerks |-> Seated] /\ strayed = {} /\ apart = {}
    BY DEF ArchiveInit
  <2>5. course[o] \in ArchiveRow /\ Runs(course, o) /\ course[o].contentOwner = NoCourse
    <3> DEFINE b == o \in WithCycles
    <3>1. course[o] = [Running EXCEPT !.archieveCourseId = link, !.cycles = b]
      BY <2>1
    <3>2. link \in Courses \cup {NoCourse} /\ b \in BOOLEAN
      OBVIOUS
    <3> HIDE DEF b
    <3> QED
      BY <3>1, <3>2, NewLinked DEF Runs
  <2>6. course[c] \in ArchiveRow /\ course[c].there /\ course[c].contentOwner \in {NoCourse, o}
    <3> DEFINE b == c \in WithCycles
    <3>1. course[c] = [Running EXCEPT !.archived = TRUE, !.contentOwner = owner, !.cycles = b]
      BY <2>0, <2>1
    <3>2. owner \in Courses \cup {NoCourse} /\ b \in BOOLEAN
      OBVIOUS
    <3> HIDE DEF b
    <3>3. course[c] \in ArchiveRow /\ course[c].there /\ course[c].contentOwner = owner
      <4>1. IsCloned(course[c], owner)
        BY <3>1, <3>2 DEF IsCloned
      <4> QED
        BY ONLY <3>2, <4>1, NewCopy
    <3> QED
      BY <3>3
  <2>7. ASSUME NEW x \in Courses, x # o, x # c
        PROVE  course[x] \in ArchiveRow /\ course[x].contentOwner = NoCourse
    <3> DEFINE b == x \in WithCycles
    <3>0. course[x] = IF x \in others THEN [Running EXCEPT !.cycles = b] ELSE Absent
      BY <2>1, <2>7
    <3>1. b \in BOOLEAN /\ (course[x] = [Running EXCEPT !.cycles = b] \/ course[x] = Absent)
      BY <3>0
    <3> HIDE DEF b
    <3> QED
      BY <3>1, NewCourse, NoRow
  <2>8. \A x \in Courses : course[x] \in ArchiveRow
    BY <2>5, <2>6, <2>7
  <2>9. course \in [Courses -> ArchiveRow]
    BY <2>1, <2>8
  <2>10. Seated \in Desk /\ Seated.pc = "idle" /\ \A x : ~WillMark(Seated, x)
    BY DEF Seated, Desk, DeskSteps, WillMark, Given
  <2>11. cycleMark \in [Courses -> SUBSET BOOLEAN] /\ \A x \in Courses : Even(x)
    BY <2>2, <2>8 DEF ArchiveRow, Even
  <2>12. ArchiveTypes /\ DeskInv
    BY <2>2, <2>9, <2>10, <2>11 DEF ArchiveTypes, DeskInv
  <2>13. BillersInv
    <3> SUFFICES ASSUME NEW x \in Courses, course[x].contentOwner # NoCourse
                 PROVE  Runs(course, course[x].contentOwner)
      BY DEF BillersInv, Billed
    <3> QED
      BY <2>5, <2>6, <2>7
  <2>14. CyclesInv
    BY <2>2, <2>8, <2>10, <2>11 DEF CyclesInv
  <2> QED
    BY <2>12, <2>13, <2>14 DEF ArchiveInv
<1>2. ArchiveInv /\ [ArchiveNext]_archiveVars => ArchiveInv'
  BY ArchiveStep
<1> QED
  BY <1>1, <1>2, PTL DEF ArchiveSpec

\* The bounds of the model.
WithinBounds == orders \in 0..MaxOrders /\ aborts \in 0..MaxAborts

\* A request is counted when it comes, a failure when it stops one.
LEMMA ArchiveCounts ==
  ASSUME WithinBounds, [ArchiveNext]_archiveVars
  PROVE  WithinBounds'
<1> USE ArchiveAssumption DEF WithinBounds
<1>1. CASE UNCHANGED archiveVars
  BY <1>1 DEF archiveVars
<1>2. ASSUME NEW r \in Clerks, Order(r) PROVE WithinBounds'
  BY <1>2 DEF Order
<1>3. ASSUME Calm PROVE WithinBounds'
  BY <1>3 DEF Calm
<1>4. ASSUME NEW r \in Clerks, Aborts(r) PROVE WithinBounds'
  BY <1>4 DEF Aborts
<1>5. ASSUME NEW r \in Clerks, NEW c \in Courses,
             DeleteCourse(r, c) \/ CloneOf(r, c) \/ CommitCopy(r, c)
             \/ CreateCycle(r, c) \/ PullCourse(r, c) \/ CloneOneCycle(r, c)
      PROVE  WithinBounds'
  BY <1>2, <1>3, <1>5, Zenon DEF DeleteCourse, CloneOf, CommitCopy, CreateCycle, PullCourse, CloneOneCycle
<1>6. ASSUME NEW r \in Clerks, NEW c, NEW mark, NEW link, NEW cycles,
             UpdateCourse(r, c, mark, link, cycles) \/ UpdateCycle(r, c, mark, link)
             \/ CreateCourse(r, c, cycles)
      PROVE  WithinBounds'
  BY <1>2, <1>6, Zenon DEF UpdateCourse, UpdateCycle, CreateCourse
<1>7. ASSUME NEW r \in Clerks, NEW o, NEW cs, SetActiveBiller(r, o, cs) PROVE WithinBounds'
  BY <1>2, <1>7, Zenon DEF SetActiveBiller
<1>8. ASSUME NEW r \in Clerks, WriteCourse(r) \/ WriteDeleted(r) \/ FindChildren(r) \/ ClearOwners(r) \/ MarkCycles(r)
      PROVE  WithinBounds'
  BY <1>3, <1>8, Zenon DEF WriteCourse, WriteDeleted, FindChildren, ClearOwners, MarkCycles
<1>9. ASSUME NEW r \in Clerks, LinkArchive(r) \/ AddCycle(r) \/ ReadCourses(r) \/ Assign(r)
      PROVE  WithinBounds'
  BY <1>3, <1>9, Zenon DEF LinkArchive, AddCycle, ReadCourses, Assign
<1> QED
  BY <1>1, <1>4, <1>5, <1>6, <1>7, <1>8, <1>9, Zenon DEF ArchiveNext

\* Every variable of the courses' archive keeps its type.
THEOREM ArchivesTyped == ArchiveSpec => []ArchiveTypeOK
<1>1. ArchiveInit => WithinBounds
  <2>1. ArchiveInit => orders = 0 /\ aborts = 0
    BY Zenon DEF ArchiveInit
  <2> QED
    BY <2>1, ArchiveAssumption DEF WithinBounds
<1>2. ArchiveInv /\ WithinBounds => ArchiveTypeOK
  BY DEF ArchiveInv, ArchiveTypes, ArchiveTypeOK, WithinBounds, ArchiveRow, Desk
<1> QED
  BY <1>1, <1>2, ArchiveAlways, ArchiveCounts, PTL DEF ArchiveSpec

\* The biller of an archived course runs, or the course has lost it for one of the
\* reasons that the history names, and the cycles of a course are marked as the
\* course is, but where one was created, pulled, cloned or marked otherwise by itself
\* and where updates overlapped, stopped or found no cycles: updateCoursesIntoDb,
\* deleteCourseFromDb, setActiveBiller, cloneCourseOrCycle, createCycleIntoDb,
\* updateCycleIntoDb and pullCourse, however their statements interleave.
THEOREM ArchivesSafe == ArchiveSpec => []ArchivesHold
<1>1. ArchiveInv => ArchivesHold
  <2> SUFFICES ASSUME ArchiveInv PROVE BillersActive /\ CyclesFollow
    BY DEF ArchivesHold
  <2>1. ArchiveTypes /\ BillersInv /\ CyclesInv
    BY DEF ArchiveInv
  <2>2. \A c \in Courses : course[c].contentOwner \in Courses \cup {NoCourse}
    BY <2>1 DEF ArchiveTypes, ArchiveRow
  <2>3. BillersActive
    BY <2>1, <2>2 DEF BillersInv, Billed, BillersActive, Archived, Active, Alive, Runs,
                      BeingCleared, Clearing
  <2>4. CyclesFollow
    BY <2>1 DEF CyclesInv, CyclesFollow, WillMark, Marking, Even
  <2> QED
    BY <2>3, <2>4
<1> QED
  BY <1>1, ArchiveAlways, PTL

-----------------------------------------------------------------------------
(* Sums of amounts                                                           *)

\* The sum of the amounts of summaries m over the services of S, and the function
\* from the subsets of S that computes it, one service at a time.
Total(m, S) == MapThenSumSet(LAMBDA s : m[s].amount, S)
AnyOf(s) == CHOOSE x \in s : TRUE
Sums(m, S, f) ==
  f = [s \in SUBSET S |-> IF s = {} THEN 0 ELSE m[AnyOf(s)].amount + f[s \ {AnyOf(s)}]]

\* MapThenSumSet is the value of that function at S.
LEMMA TotalIs == ASSUME NEW m, NEW S PROVE Total(m, S) = (CHOOSE f : Sums(m, S, f))[S]
BY DEF Total, MapThenSumSet, MapThenFoldSet, Sums, AnyOf

\* Sets of naturals have a least element.
LEMMA LeastOf ==
  ASSUME NEW W \in SUBSET Nat, W # {}
  PROVE  \E n \in W : \A k \in W : n <= k
<1>1. PICK n \in W : \A k \in W : ~(<<k, n>> \in OpToRel(<, Nat))
  BY NatLessThanWellFounded, WFMin, Zenon
<1>2. W \subseteq Nat /\ n \in W
  BY <1>1
<1>3. \A k \in W : ~(k < n)
  BY <1>1, <1>2 DEF OpToRel
<1> QED
  BY <1>2, <1>3

\* What does not hold of every subset of a finite set fails first at one where it
\* holds of what is left without any one element.
LEMMA FirstSubset ==
  ASSUME NEW S, IsFiniteSet(S), NEW W \in SUBSET SUBSET S, W # {}
  PROVE  \E T \in W : \A x \in T : T \ {x} \notin W
<1> DEFINE N == {Cardinality(T) : T \in W}
<1>1. \A T \in SUBSET S : IsFiniteSet(T) /\ Cardinality(T) \in Nat
  BY FS_Subset, FS_CardinalityType
<1>2. N \in SUBSET Nat /\ N # {}
  BY <1>1
<1>3. PICK n \in N : \A k \in N : n <= k
  BY <1>2, LeastOf
<1>4. PICK T \in W : Cardinality(T) = n
  BY <1>3
<1>5. ASSUME NEW x \in T, T \ {x} \in W PROVE FALSE
  <2>1. Cardinality(T \ {x}) = n - 1 /\ n \in Nat
    BY <1>1, <1>4, FS_RemoveElement
  <2>2. n <= n - 1
    BY <1>3, <1>5, <2>1
  <2> QED
    BY <2>1, <2>2
<1> QED
  BY <1>4, <1>5

\* The function exists for every finite set.
LEMMA SumsExists ==
  ASSUME NEW m, NEW S, IsFiniteSet(S)
  PROVE  \E f : Sums(m, S, f)
<1> DEFINE Upto(n) == {s \in SUBSET S : Cardinality(s) <= n}
           Some(n) == \E f : f = [s \in Upto(n) |-> IF s = {} THEN 0
                                    ELSE m[AnyOf(s)].amount + f[s \ {AnyOf(s)}]]
           W == {n \in Nat : ~Some(n)}
<1>1. \A T \in SUBSET S : IsFiniteSet(T) /\ Cardinality(T) \in Nat
                          /\ Cardinality(T) <= Cardinality(S)
  BY FS_Subset, FS_CardinalityType
<1>2. Cardinality(S) \in Nat
  BY FS_CardinalityType
<1>3. Upto(Cardinality(S)) = SUBSET S
  BY <1>1
<1>4. ASSUME W # {} PROVE FALSE
  <2>1. PICK n \in W : \A k \in W : n <= k
    <3> HIDE DEF W
    <3>1. W \in SUBSET Nat
      BY DEF W
    <3> QED
      BY <3>1, <1>4, LeastOf
  <2>2. n \in Nat /\ ~Some(n)
    BY <2>1
  <2>3. CASE n = 0
    <3>1. \A s \in Upto(0) : s = {}
      BY <1>1, FS_EmptySet
    <3> DEFINE f == [s \in Upto(0) |-> 0]
    <3>2. f = [s \in Upto(0) |-> IF s = {} THEN 0 ELSE m[AnyOf(s)].amount + f[s \ {AnyOf(s)}]]
      BY <3>1, Zenon
    <3> QED
      BY <2>2, <2>3, <3>2
  <2>4. CASE n # 0
    <3>0. n - 1 \in Nat /\ ~(n <= n - 1)
      BY <2>2, <2>4
    <3>1. n - 1 \in Nat /\ n - 1 \notin W
      BY <2>1, <3>0, Zenon
    <3>2. PICK f : f = [s \in Upto(n - 1) |-> IF s = {} THEN 0
                                    ELSE m[AnyOf(s)].amount + f[s \ {AnyOf(s)}]]
      BY <3>1
    <3> DEFINE g == [s \in Upto(n) |-> IF s = {} THEN 0
                                    ELSE m[AnyOf(s)].amount + f[s \ {AnyOf(s)}]]
    <3>3. ASSUME NEW s \in Upto(n), s # {} PROVE s \ {AnyOf(s)} \in Upto(n - 1)
      <4>1. AnyOf(s) \in s
        BY <3>3 DEF AnyOf
      <4>2. Cardinality(s \ {AnyOf(s)}) = Cardinality(s) - 1
        BY <4>1, <1>1, FS_RemoveElement
      <4> QED
        BY <4>2, <1>1, <2>2
    <3>4. \A s \in Upto(n - 1) : s \in Upto(n)
      BY <1>1, <2>2
    <3>5. \A s \in Upto(n - 1) : g[s] = f[s]
      <4>1. ASSUME NEW s \in Upto(n - 1) PROVE g[s] = f[s]
        <5>1. s \in Upto(n)
          BY <3>4
        <5>2. g[s] = IF s = {} THEN 0 ELSE m[AnyOf(s)].amount + f[s \ {AnyOf(s)}]
          BY <5>1, Zenon
        <5>3. f[s] = IF s = {} THEN 0 ELSE m[AnyOf(s)].amount + f[s \ {AnyOf(s)}]
          BY <3>2, <4>1, Zenon
        <5> QED
          BY <5>2, <5>3, Zenon
      <4> QED
        BY <4>1
    <3>6. \A s \in Upto(n) : s # {} => g[s \ {AnyOf(s)}] = f[s \ {AnyOf(s)}]
      BY <3>3, <3>5
    <3>7. g = [s \in Upto(n) |-> IF s = {} THEN 0 ELSE m[AnyOf(s)].amount + g[s \ {AnyOf(s)}]]
      <4> HIDE DEF Upto
      <4> DEFINE h == [s \in Upto(n) |-> IF s = {} THEN 0
                                          ELSE m[AnyOf(s)].amount + g[s \ {AnyOf(s)}]]
      <4>1. \A s \in Upto(n) : g[s] = h[s]
        BY <3>6
      <4> QED
        BY <4>1, Zenon
    <3> QED
      BY <2>2, <3>7, Zenon
  <2> QED
    BY <2>3, <2>4
<1>5. Some(Cardinality(S))
  BY <1>2, <1>4
<1> QED
  BY <1>5, <1>3, Zenon DEF Sums

\* On the sets they share, two such functions agree.
LEMMA SumsAgree ==
  ASSUME NEW m, NEW S, IsFiniteSet(S), NEW T \in SUBSET S,
         NEW f, NEW g, Sums(m, S, f), Sums(m, T, g)
  PROVE  f[T] = g[T]
<1> DEFINE W == {U \in SUBSET T : f[U] # g[U]}
<1>1. ASSUME W # {} PROVE FALSE
  <2>1. IsFiniteSet(T)
    BY FS_Subset
  <2>2. PICK U \in W : \A x \in U : U \ {x} \notin W
    <3> HIDE DEF W
    <3>1. W \in SUBSET SUBSET T
      BY DEF W
    <3> QED
      BY <1>1, <2>1, <3>1, FirstSubset
  <2>3. U \in SUBSET T /\ U \in SUBSET S
    BY <2>2
  <2>4. f[U] = IF U = {} THEN 0 ELSE m[AnyOf(U)].amount + f[U \ {AnyOf(U)}]
    BY <2>3, Zenon DEF Sums
  <2>5. g[U] = IF U = {} THEN 0 ELSE m[AnyOf(U)].amount + g[U \ {AnyOf(U)}]
    BY <2>3, Zenon DEF Sums
  <2>6. U # {} => AnyOf(U) \in U
    BY DEF AnyOf
  <2>7. U # {} => f[U \ {AnyOf(U)}] = g[U \ {AnyOf(U)}]
    BY <2>2, <2>3, <2>6
  <2>8. f[U] = g[U]
    BY <2>4, <2>5, <2>7, Zenon
  <2> QED
    BY <2>2, <2>8
<1> QED
  BY <1>1

\* A sum is taken one service at a time.
LEMMA TotalUnfolds ==
  ASSUME NEW m, NEW S, IsFiniteSet(S)
  PROVE  /\ Total(m, {}) = 0
         /\ S # {} => AnyOf(S) \in S /\ Total(m, S) = m[AnyOf(S)].amount + Total(m, S \ {AnyOf(S)})
<1> DEFINE F(T) == CHOOSE f : Sums(m, T, f)
<1>1. \A T : IsFiniteSet(T) => Sums(m, T, F(T)) /\ Total(m, T) = F(T)[T]
  BY SumsExists, TotalIs
<1> HIDE DEF F
<1>2. Total(m, {}) = 0
  <2>1. Sums(m, {}, F({})) /\ Total(m, {}) = F({})[{}]
    BY <1>1, FS_EmptySet
  <2> QED
    BY <2>1, Zenon DEF Sums
<1>3. ASSUME S # {}
      PROVE  AnyOf(S) \in S /\ Total(m, S) = m[AnyOf(S)].amount + Total(m, S \ {AnyOf(S)})
  <2>1. AnyOf(S) \in S
    BY <1>3 DEF AnyOf
  <2> DEFINE T == S \ {AnyOf(S)}
  <2>2. T \in SUBSET S /\ IsFiniteSet(T)
    BY FS_Subset
  <2>3. /\ Sums(m, S, F(S)) /\ Total(m, S) = F(S)[S]
        /\ Sums(m, T, F(T)) /\ Total(m, T) = F(T)[T]
    BY <1>1, <2>2
  <2>4. F(S)[T] = F(T)[T]
    BY <2>2, <2>3, SumsAgree
  <2>5. F(S)[S] = m[AnyOf(S)].amount + F(S)[T]
    BY <1>3, <2>3, Zenon DEF Sums
  <2> QED
    BY <2>1, <2>3, <2>4, <2>5, Zenon
<1> QED
  BY <1>2, <1>3

\* A sum of naturals is one.
LEMMA TotalNat ==
  ASSUME NEW m, NEW S, IsFiniteSet(S), \A x \in S : m[x].amount \in Nat
  PROVE  Total(m, S) \in Nat
<1> DEFINE W == {U \in SUBSET S : Total(m, U) \notin Nat}
<1>1. ASSUME W # {} PROVE FALSE
  <2>1. PICK U \in W : \A x \in U : U \ {x} \notin W
    <3> HIDE DEF W
    <3>1. W \in SUBSET SUBSET S
      BY DEF W
    <3> QED
      BY <1>1, <3>1, FirstSubset
  <2>2. U \in SUBSET S /\ IsFiniteSet(U) /\ Total(m, U) \notin Nat
    BY <2>1, FS_Subset
  <2>0. Total(m, {}) = 0
    BY FS_EmptySet, TotalUnfolds
  <2>3. U # {}
    BY <2>0, <2>2
  <2>4. AnyOf(U) \in U /\ Total(m, U) = m[AnyOf(U)].amount + Total(m, U \ {AnyOf(U)})
    BY <2>2, <2>3, TotalUnfolds
  <2>5. Total(m, U \ {AnyOf(U)}) \in Nat
    BY <2>1, <2>2, <2>4
  <2> QED
    BY <2>2, <2>4, <2>5
<1> QED
  BY <1>1

\* It does not matter which service is taken first.
LEMMA TotalWithout ==
  ASSUME NEW m, NEW S, IsFiniteSet(S), \A x \in S : m[x].amount \in Nat, NEW y \in S
  PROVE  Total(m, S) = m[y].amount + Total(m, S \ {y})
<1> DEFINE Fine(U) == \A x \in U : Total(m, U) = m[x].amount + Total(m, U \ {x})
           W == {U \in SUBSET S : ~Fine(U)}
<1>1. ASSUME W # {} PROVE FALSE
  <2>1. PICK U \in W : \A x \in U : U \ {x} \notin W
    <3> HIDE DEF W
    <3>1. W \in SUBSET SUBSET S
      BY DEF W
    <3> QED
      BY <1>1, <3>1, FirstSubset
  <2>2. U \in SUBSET S /\ IsFiniteSet(U) /\ ~Fine(U)
    BY <2>1, FS_Subset
  <2>3. PICK x \in U : ~(Total(m, U) = m[x].amount + Total(m, U \ {x}))
    BY <2>2
  <2> DEFINE c == AnyOf(U)
  <2>4. c \in U /\ Total(m, U) = m[c].amount + Total(m, U \ {c})
    BY <2>2, <2>3, TotalUnfolds
  <2>5. c # x
    BY <2>3, <2>4
  <2>6. Fine(U \ {c}) /\ Fine(U \ {x})
    BY <2>1, <2>2, <2>3, <2>4
  <2> HIDE DEF c
  <2>7. /\ Total(m, U \ {c}) = m[x].amount + Total(m, (U \ {c}) \ {x})
        /\ Total(m, U \ {x}) = m[c].amount + Total(m, (U \ {x}) \ {c})
    BY <2>3, <2>4, <2>5, <2>6
  <2>8. (U \ {c}) \ {x} = (U \ {x}) \ {c}
    OBVIOUS
  <2>9. Total(m, (U \ {x}) \ {c}) \in Nat /\ m[x].amount \in Nat /\ m[c].amount \in Nat
    <3>1. (U \ {x}) \ {c} \in SUBSET S
      BY <2>2
    <3>2. IsFiniteSet((U \ {x}) \ {c})
      BY <3>1, FS_Subset
    <3> QED
      BY <3>1, <3>2, <2>2, <2>3, <2>4, TotalNat
  <2> DEFINE rest == Total(m, (U \ {x}) \ {c})
             a == m[x].amount
             b == m[c].amount
  <2>10. Total(m, U \ {c}) = a + rest /\ Total(m, U \ {x}) = b + rest
    BY <2>7, <2>8, Zenon
  <2>11. ~(Total(m, U) = a + (b + rest)) /\ Total(m, U) = b + (a + rest)
    BY <2>3, <2>4, <2>10, Zenon
  <2>12. rest \in Nat /\ a \in Nat /\ b \in Nat
    BY <2>9, Zenon
  <2> HIDE DEF rest, a, b
  <2> QED
    BY <2>11, <2>12
<1>2. Fine(S)
  BY <1>1
<1> QED
  BY <1>2

\* Services that add nothing may be left out.
LEMMA TotalOver ==
  ASSUME NEW m, NEW S, IsFiniteSet(S), \A x \in S : m[x].amount \in Nat, NEW T \in SUBSET S,
         \A x \in S \ T : m[x].amount = 0
  PROVE  Total(m, S) = Total(m, T)
<1> DEFINE W == {U \in SUBSET (S \ T) : Total(m, T \cup U) # Total(m, T)}
<1>1. ASSUME W # {} PROVE FALSE
  <2>1. PICK U \in W : \A x \in U : U \ {x} \notin W
    <3> HIDE DEF W
    <3>1. W \in SUBSET SUBSET (S \ T) /\ IsFiniteSet(S \ T)
      BY FS_Subset DEF W
    <3> QED
      BY <1>1, <3>1, FirstSubset
  <2>2. U \in SUBSET (S \ T) /\ Total(m, T \cup U) # Total(m, T)
    BY <2>1
  <2>3. T \cup U \in SUBSET S /\ IsFiniteSet(T \cup U)
    BY <2>2, FS_Subset
  <2>4. U # {}
    BY <2>2
  <2>5. PICK x : x \in U
    BY <2>4
  <2>6. Total(m, T \cup U) = m[x].amount + Total(m, (T \cup U) \ {x})
    BY <2>3, <2>5, TotalWithout
  <2>7. (T \cup U) \ {x} = T \cup (U \ {x})
    BY <2>2, <2>5
  <2>8. m[x].amount = 0 /\ U \ {x} \in SUBSET (S \ T) /\ U \ {x} \notin W
    BY <2>1, <2>2, <2>5
  <2>9. Total(m, T \cup (U \ {x})) = Total(m, T)
    BY <2>8
  <2>10. IsFiniteSet(T) /\ Total(m, T) \in Nat
    BY FS_Subset, TotalNat
  <2> DEFINE rest == Total(m, T)
  <2>11. Total(m, T \cup U) = 0 + rest
    BY <2>6, <2>7, <2>8, <2>9, Zenon
  <2> HIDE DEF rest
  <2> QED
    BY <2>2, <2>10, <2>11 DEF rest
<1>2. Total(m, T \cup (S \ T)) = Total(m, T)
  BY <1>1
<1>3. T \cup (S \ T) = S
  OBVIOUS
<1> QED
  BY <1>2, <1>3

\* A sum depends on the amounts only.
LEMMA TotalSame ==
  ASSUME NEW m, NEW n, NEW S, IsFiniteSet(S), \A x \in S : m[x].amount = n[x].amount
  PROVE  Total(m, S) = Total(n, S)
<1> DEFINE W == {U \in SUBSET S : Total(m, U) # Total(n, U)}
<1>1. ASSUME W # {} PROVE FALSE
  <2>1. PICK U \in W : \A x \in U : U \ {x} \notin W
    <3> HIDE DEF W
    <3>1. W \in SUBSET SUBSET S
      BY DEF W
    <3> QED
      BY <1>1, <3>1, FirstSubset
  <2>2. U \in SUBSET S /\ IsFiniteSet(U) /\ Total(m, U) # Total(n, U)
    BY <2>1, FS_Subset
  <2>3. U # {}
    BY <2>2, TotalUnfolds
  <2>4. /\ AnyOf(U) \in U /\ Total(m, U) = m[AnyOf(U)].amount + Total(m, U \ {AnyOf(U)})
        /\ Total(n, U) = n[AnyOf(U)].amount + Total(n, U \ {AnyOf(U)})
    BY <2>2, <2>3, TotalUnfolds
  <2>5. Total(m, U \ {AnyOf(U)}) = Total(n, U \ {AnyOf(U)})
    BY <2>1, <2>2, <2>4
  <2>6. m[AnyOf(U)].amount = n[AnyOf(U)].amount
    BY <2>2, <2>4
  <2> QED
    BY <2>2, <2>4, <2>5, <2>6, Zenon
<1> QED
  BY <1>1
\* What a bill adds up is such a sum, of the rows as they are.
LEMMA AmountsAre == ASSUME NEW S PROVE Amounts(S) = Total(summary, S)
BY DEF Total, Amounts

\* So it is after a step.
LEMMA AmountsBecome == Amounts(Services)' = Total(summary', Services)
<1>1. Amounts(Services) = Total(summary, Services)
  BY AmountsAre
<1>2. (Amounts(Services) = Total(summary, Services))'
  BY <1>1, PTL
<1> QED
  BY <1>2

-----------------------------------------------------------------------------
(* The books of a month                                                      *)

\* A service charged once is charged by one request, which has the only log.
Charging(t, s) == task[t].pc = "log" /\ task[t].service = s

ChargeInv ==
  \A s \in Once \ doubled :
    /\ logs[s] <= 1
    /\ \A t \in Tasks : Charging(t, s) => logs[s] = 0
    /\ \A t, u \in Tasks : Charging(t, s) /\ Charging(u, s) => t = u

\* A sum on its way to its row is of every log.
SumInv ==
  \A t \in Tasks : /\ task[t].pc \in {"log", "sum", "upsert"} => task[t].service \in Services
                   /\ task[t].pc = "upsert" /\ task[t].service \notin behind
                        => task[t].amount = logs[task[t].service]

\* Without a row nothing is counted, and without a bill no row is marked.
RowInv ==
  \A s \in Services : /\ summary[s].status = "none" => summary[s].amount = 0
                      /\ summary[s].status = "INVOICED" => bill.status # "none"

\* A bill on its way is what the rows still say, but for those named.
PlanInv ==
  bill.status = "none" =>
    \A t \in Tasks : task[t].pc = "bill" =>
      /\ Drafts \subseteq task[t].summaries \cup after
      /\ after = {} => task[t].amount = Total(summary, Services)

\* A payment on its way fits the bill and, alone, is computed from the bill as it is.
PayInv ==
  /\ bill.status = "none" => received = 0 /\ \A t \in Tasks : task[t].pc # "pay"
  /\ \A t \in Tasks : task[t].pc = "pay" =>
       /\ task[t].amount <= bill.total
       /\ ~crossing => task[t].amount = bill.paid + task[t].paying
  /\ ~crossing => \A t, u \in Tasks : task[t].pc = "pay" /\ task[u].pc = "pay" => t = u

BillInv == /\ BillTypeOK /\ ChargeInv /\ SumInv /\ SummedUp /\ RowInv /\ PlanInv /\ AllBilled
           /\ PayInv /\ PaymentsKept

\* Every step keeps the types.
LEMMA BillTypeStep == ASSUME BillTypeOK, SumInv, [BillNext]_billVars PROVE BillTypeOK'
<1>0. /\ task \in [Tasks -> Task] /\ logs \in [Services -> 0..MaxLogs] /\ NoTask \in Task
      /\ summary \in [Services -> [amount: Nat, status: {"none", "DRAFT", "INVOICED"}]]
      /\ bill \in Bill /\ MaxLogs \in Nat
  BY BillingAssumption DEF BillTypeOK, NoTask, Task
<1>1. ASSUME NEW t \in Tasks, NEW s \in Services, TrackUsage(t, s) PROVE BillTypeOK'
  <2>1. [NoTask EXCEPT !.pc = "log", !.service = s] \in Task
    BY DEF Task, NoTask
  <2> QED
    BY <1>0, <1>1, <2>1 DEF BillTypeOK, TrackUsage, Become, billing
<1>2. ASSUME NEW t \in Tasks, CreateLog(t) PROVE BillTypeOK'
  <2>1. task[t] \in Task /\ task[t].service \in Services
    BY <1>0, <1>2 DEF SumInv, CreateLog
  <2>2. task' \in [Tasks -> Task]
    <3>1. [task[t] EXCEPT !.pc = "sum"] \in Task
      BY <2>1 DEF Task
    <3> QED
      BY <1>0, <1>2, <3>1 DEF CreateLog, Await
  <2>3. logs' \in [Services -> 0..MaxLogs]
    BY <1>0, <1>2, <2>1 DEF CreateLog
  <2>4. behind' \subseteq Services
    BY <1>2, <2>1 DEF CreateLog, BillTypeOK
  <2> QED
    BY <1>2, <2>2, <2>3, <2>4 DEF BillTypeOK, CreateLog
<1>3. ASSUME NEW t \in Tasks, Aggregate(t) PROVE BillTypeOK'
  <2>1. task[t] \in Task /\ task[t].service \in Services
    BY <1>0, <1>3 DEF SumInv, Aggregate
  <2>2. logs[task[t].service] \in Nat
    BY <1>0, <2>1
  <2>3. [task[t] EXCEPT !.pc = "upsert", !.amount = logs[task[t].service]] \in Task
    BY <2>1, <2>2 DEF Task
  <2>4. task' \in [Tasks -> Task]
    BY <1>0, <1>3, <2>3 DEF Aggregate, Become
  <2> QED
    BY <1>3, <2>4 DEF BillTypeOK, Aggregate, billing
<1>4. ASSUME NEW t \in Tasks, UpsertSummary(t) PROVE BillTypeOK'
  <2>1. task[t] \in Task /\ task[t].service \in Services
    BY <1>0, <1>4 DEF SumInv, UpsertSummary
  <2>2. Upserted(task[t].service, task[t].amount)
          \in [amount: Nat, status: {"none", "DRAFT", "INVOICED"}]
    BY <1>0, <2>1 DEF Upserted, Task
  <2>3. task' \in [Tasks -> Task]
    BY <1>0, <1>4 DEF UpsertSummary, Finish, Become
  <2>4. summary' \in [Services -> [amount: Nat, status: {"none", "DRAFT", "INVOICED"}]]
    BY <1>0, <1>4, <2>1, <2>2 DEF UpsertSummary
  <2>5. after' \subseteq Services
    BY <1>4, <2>1 DEF UpsertSummary, BillTypeOK
  <2> QED
    BY <1>4, <2>3, <2>4, <2>5 DEF BillTypeOK, UpsertSummary
<1>5. ASSUME NEW t \in Tasks, GenerateMonthlyBill(t) PROVE BillTypeOK'
  <2>1. Amounts(Drafts) \in Nat
    <3>1. Drafts \subseteq Services /\ IsFiniteSet(Services)
      BY BillingAssumption DEF Drafts
    <3>2. IsFiniteSet(Drafts)
      BY <3>1, FS_Subset
    <3>3. \A s \in Drafts : summary[s].amount \in Nat
      BY <1>0, <3>1
    <3> QED
      BY <3>2, <3>3, TotalNat, AmountsAre
  <2>2. [NoTask EXCEPT !.pc = "bill", !.summaries = Drafts, !.amount = Amounts(Drafts)] \in Task
    BY <2>1 DEF Task, NoTask, Drafts
  <2>3. task' \in [Tasks -> Task]
    BY <1>0, <1>5, <2>2 DEF GenerateMonthlyBill, Become
  <2> QED
    BY <1>5, <2>3 DEF BillTypeOK, GenerateMonthlyBill, billing
<1>6. ASSUME NEW t \in Tasks, CreateBill(t) PROVE BillTypeOK'
  <2>1. task[t] \in Task
    BY <1>0
  <2>2. task' \in [Tasks -> Task]
    BY <1>0, <1>6 DEF CreateBill, Finish, Become
  <2>3. Invoiced(task[t].summaries) \in [Services -> [amount: Nat, status: {"none", "DRAFT", "INVOICED"}]]
    BY <1>0 DEF Invoiced
  <2>4. bill' \in Bill /\ summary' \in [Services -> [amount: Nat, status: {"none", "DRAFT", "INVOICED"}]]
    BY <1>0, <1>6, <2>1, <2>3 DEF CreateBill, Bill, Task
  <2> QED
    BY <1>6, <2>2, <2>4 DEF BillTypeOK, CreateBill
<1>7. ASSUME NEW t \in Tasks, NEW n \in 1..bill.total, PayBill(t, n) PROVE BillTypeOK'
  <2>1. n \in Nat /\ bill.paid + n \in Nat
    BY <1>0 DEF Bill
  <2>2. [NoTask EXCEPT !.pc = "pay", !.amount = bill.paid + n, !.paying = n] \in Task
    BY <2>1 DEF Task, NoTask
  <2>3. task' \in [Tasks -> Task]
    BY <1>0, <1>7, <2>2 DEF PayBill, Become
  <2>4. crossing' \in BOOLEAN
    BY <1>7 DEF PayBill, BillTypeOK
  <2> QED
    BY <1>7, <2>3, <2>4 DEF BillTypeOK, PayBill, billing
<1>8. ASSUME NEW t \in Tasks, UpdateBill(t) PROVE BillTypeOK'
  <2>1. task[t] \in Task
    BY <1>0
  <2>2. task' \in [Tasks -> Task]
    BY <1>0, <1>8 DEF UpdateBill, Finish, Become
  <2>3. received' \in Nat
    BY <1>8, <2>1 DEF UpdateBill, Task, BillTypeOK
  <2> DEFINE paid == task[t].amount
             status == IF paid = bill.total THEN "PAID" ELSE "PENDING"
  <2>4. bill' = [bill EXCEPT !.paid = paid, !.status = status]
    BY <1>8 DEF UpdateBill
  <2>5. paid \in Nat /\ status \in {"PENDING", "PAID"}
    BY <2>1 DEF Task
  <2> HIDE DEF paid, status
  <2>6. bill' \in Bill
    BY <1>0, <2>4, <2>5 DEF Bill
  <2> QED
    BY <1>8, <2>2, <2>3, <2>6 DEF BillTypeOK, UpdateBill
<1>9. ASSUME NEW t \in Tasks, RequestFails(t) PROVE BillTypeOK'
  <2>1. task[t] \in Task /\ (task[t].pc \in {"sum", "upsert"} => task[t].service \in Services)
    BY <1>0 DEF SumInv
  <2>2. task' \in [Tasks -> Task]
    BY <1>0, <1>9 DEF RequestFails, Finish, Become
  <2>3. losses' \in 0..MaxLosses /\ behind' \subseteq Services
    BY <1>9, <2>1, BillingAssumption DEF RequestFails, BillTypeOK
  <2> QED
    BY <1>9, <2>2, <2>3 DEF BillTypeOK, RequestFails, billing
<1>10. CASE UNCHANGED billVars
  BY <1>10 DEF billVars, billing, BillTypeOK, Bill
<1> QED
  BY <1>1, <1>2, <1>3, <1>4, <1>5, <1>6, <1>7, <1>8, <1>9, <1>10 DEF BillNext

\* The other requests are as they were.
Others(t) == \A u \in Tasks \ {t} : task'[u] = task[u]

\* Where each step takes its request.
LEMMA BillMoves ==
  ASSUME BillTypeOK, NEW t \in Tasks
  PROVE  /\ \A s \in Services : TrackUsage(t, s) =>
              /\ Others(t) /\ task[t].pc = "idle" /\ task'[t].pc = "log" /\ task'[t].service = s
         /\ CreateLog(t) => /\ Others(t) /\ task[t].pc = "log"
                            /\ task'[t].pc = "sum" /\ task'[t].service = task[t].service
         /\ Aggregate(t) =>
              /\ Others(t) /\ task[t].pc = "sum" /\ task'[t].pc = "upsert"
              /\ task'[t].service = task[t].service /\ task'[t].amount = logs[task[t].service]
         /\ UpsertSummary(t) => Others(t) /\ task[t].pc = "upsert" /\ task'[t] = NoTask
         /\ GenerateMonthlyBill(t) =>
              /\ Others(t) /\ task[t].pc = "idle" /\ task'[t].pc = "bill"
              /\ task'[t].summaries = Drafts /\ task'[t].amount = Amounts(Drafts)
         /\ CreateBill(t) => Others(t) /\ task[t].pc = "bill" /\ task'[t] = NoTask
         /\ \A n \in 1..bill.total : PayBill(t, n) =>
              /\ Others(t) /\ task[t].pc = "idle" /\ task'[t].pc = "pay"
              /\ task'[t].amount = bill.paid + n /\ task'[t].paying = n
         /\ UpdateBill(t) => Others(t) /\ task[t].pc = "pay" /\ task'[t] = NoTask
         /\ RequestFails(t) => Others(t) /\ task'[t] = NoTask
<1>0. task \in [Tasks -> Task] /\ task[t] \in Task
  BY DEF BillTypeOK
<1>1. ASSUME NEW q, task' = [task EXCEPT ![t] = q] PROVE Others(t) /\ task'[t] = q
  BY <1>0, <1>1 DEF Others
<1>2. ASSUME NEW s \in Services, TrackUsage(t, s)
      PROVE  Others(t) /\ task[t].pc = "idle" /\ task'[t].pc = "log" /\ task'[t].service = s
  <2> DEFINE q == [NoTask EXCEPT !.pc = "log", !.service = s]
  <2>1. task' = [task EXCEPT ![t] = q] /\ task[t] = NoTask
    BY <1>2, Zenon DEF TrackUsage, Become
  <2>2. q.pc = "log" /\ q.service = s /\ NoTask.pc = "idle"
    BY DEF NoTask
  <2> HIDE DEF q
  <2> QED
    BY <1>1, <2>1, <2>2, Zenon
<1>3. ASSUME CreateLog(t)
      PROVE  /\ Others(t) /\ task[t].pc = "log"
             /\ task'[t].pc = "sum" /\ task'[t].service = task[t].service
  BY <1>0, <1>3 DEF CreateLog, Await, Others, Task
<1>4. ASSUME Aggregate(t)
      PROVE  /\ Others(t) /\ task[t].pc = "sum" /\ task'[t].pc = "upsert"
             /\ task'[t].service = task[t].service /\ task'[t].amount = logs[task[t].service]
  BY <1>0, <1>1, <1>4 DEF Aggregate, Become, Task
<1>5. UpsertSummary(t) => Others(t) /\ task[t].pc = "upsert" /\ task'[t] = NoTask
  BY <1>1 DEF UpsertSummary, Finish, Become
<1>6. ASSUME GenerateMonthlyBill(t)
      PROVE  /\ Others(t) /\ task[t].pc = "idle" /\ task'[t].pc = "bill"
             /\ task'[t].summaries = Drafts /\ task'[t].amount = Amounts(Drafts)
  <2> DEFINE amount == Amounts(Drafts)
             drafts == Drafts
             q == [NoTask EXCEPT !.pc = "bill", !.summaries = drafts, !.amount = amount]
  <2>1. task' = [task EXCEPT ![t] = q] /\ task[t] = NoTask
    BY <1>6, Zenon DEF GenerateMonthlyBill, Become
  <2>2. q.pc = "bill" /\ q.summaries = drafts /\ q.amount = amount
    <3> HIDE DEF drafts, amount
    <3> QED
      BY DEF NoTask
  <2>3. task[t].pc = "idle"
    BY <2>1 DEF NoTask
  <2> HIDE DEF q
  <2> QED
    BY <1>1, <2>1, <2>2, <2>3, Zenon
<1>7. CreateBill(t) => Others(t) /\ task[t].pc = "bill" /\ task'[t] = NoTask
  BY <1>1 DEF CreateBill, Finish, Become
<1>8. ASSUME NEW n \in 1..bill.total, PayBill(t, n)
      PROVE  /\ Others(t) /\ task[t].pc = "idle" /\ task'[t].pc = "pay"
             /\ task'[t].amount = bill.paid + n /\ task'[t].paying = n
  <2> DEFINE amount == bill.paid + n
             q == [NoTask EXCEPT !.pc = "pay", !.amount = amount, !.paying = n]
  <2>1. task' = [task EXCEPT ![t] = q] /\ task[t] = NoTask
    BY <1>8, Zenon DEF PayBill, Become
  <2>2. q.pc = "pay" /\ q.amount = amount /\ q.paying = n /\ NoTask.pc = "idle"
    <3> HIDE DEF amount
    <3> QED
      BY DEF NoTask
  <2> HIDE DEF q
  <2> QED
    BY <1>1, <2>1, <2>2, Zenon
<1>9. UpdateBill(t) => Others(t) /\ task[t].pc = "pay" /\ task'[t] = NoTask
  BY <1>1 DEF UpdateBill, Finish, Become
<1>10. RequestFails(t) => Others(t) /\ task'[t] = NoTask
  BY <1>1 DEF RequestFails, Finish, Become
<1> QED
  BY <1>2, <1>3, <1>4, <1>5, <1>6, <1>7, <1>8, <1>9, <1>10, Zenon

\* A service charged once is charged again only when two requests checked together.
LEMMA ChargeStep == ASSUME BillTypeOK, ChargeInv, SumInv, [BillNext]_billVars PROVE ChargeInv'
<1>0. task \in [Tasks -> Task] /\ logs \in [Services -> 0..MaxLogs] /\ Once \subseteq Services
      /\ MaxLogs \in Nat
  BY BillingAssumption DEF BillTypeOK
<1>1. ASSUME NEW t \in Tasks, NEW s \in Services, TrackUsage(t, s) PROVE ChargeInv'
  <2>1. /\ task'[t].pc = "log" /\ task'[t].service = s /\ Others(t)
    BY <1>1, BillMoves, Zenon
  <2>2. logs' = logs /\ (s \in Once => logs[s] = 0)
        /\ doubled' = IF Busy(t, "log", s) THEN doubled \cup {s} ELSE doubled
    BY <1>0, <1>1 DEF TrackUsage, Charged, billing
  <2>3. s \in doubled' \/ \A u \in Tasks \ {t} : ~Charging(u, s)
    BY <2>2 DEF Busy, Rest, Charging
  <2>4. \A u \in Tasks, r \in Services : Charging(u, r)' => Charging(u, r) \/ (u = t /\ r = s)
    BY <2>1 DEF Charging, Others
  <2> SUFFICES ASSUME NEW r \in Once \ doubled'
               PROVE  /\ logs'[r] <= 1
                      /\ \A u \in Tasks : Charging(u, r)' => logs'[r] = 0
                      /\ \A u, w \in Tasks : Charging(u, r)' /\ Charging(w, r)' => u = w
    BY Zenon DEF ChargeInv
  <2>5. r \in Once \ doubled /\ r \in Services
    BY <1>0, <2>2
  <2>6. /\ logs[r] <= 1
        /\ \A u \in Tasks : Charging(u, r) => logs[r] = 0
        /\ \A u, w \in Tasks : Charging(u, r) /\ Charging(w, r) => u = w
    BY <2>5, Zenon DEF ChargeInv
  <2> QED
    BY <2>2, <2>3, <2>4, <2>5, <2>6
<1>2. ASSUME NEW t \in Tasks, CreateLog(t) PROVE ChargeInv'
  <2> DEFINE s == task[t].service
  <2>0. s \in Services
    BY <1>2 DEF SumInv, CreateLog
  <2>1. task[t].pc = "log" /\ task'[t].pc = "sum" /\ Others(t)
    BY <1>2, BillMoves, Zenon
  <2>2. logs' = [logs EXCEPT ![s] = @ + 1] /\ doubled' = doubled
    BY <1>2 DEF CreateLog
  <2>3. logs'[s] = logs[s] + 1 /\ \A r \in Services \ {s} : logs'[r] = logs[r]
    BY <1>0, <2>0, <2>2
  <2>4. Charging(t, s) /\ \A u \in Tasks, r \in Services : Charging(u, r)' => Charging(u, r) /\ u # t
    BY <2>1 DEF Charging, Others
  <2> SUFFICES ASSUME NEW r \in Once \ doubled'
               PROVE  /\ logs'[r] <= 1
                      /\ \A u \in Tasks : Charging(u, r)' => logs'[r] = 0
                      /\ \A u, w \in Tasks : Charging(u, r)' /\ Charging(w, r)' => u = w
    BY Zenon DEF ChargeInv
  <2>5. r \in Once \ doubled /\ r \in Services
    BY <1>0, <2>2
  <2>6. /\ logs[r] <= 1
        /\ \A u \in Tasks : Charging(u, r) => logs[r] = 0
        /\ \A u, w \in Tasks : Charging(u, r) /\ Charging(w, r) => u = w
    BY <2>5, Zenon DEF ChargeInv
  <2> HIDE DEF s
  <2> QED
    BY <2>3, <2>4, <2>5, <2>6
<1>3. ASSUME NEW t \in Tasks,
             \/ Aggregate(t) \/ UpsertSummary(t) \/ GenerateMonthlyBill(t) \/ CreateBill(t)
             \/ (\E n \in 1..bill.total : PayBill(t, n)) \/ UpdateBill(t) \/ RequestFails(t)
      PROVE  ChargeInv'
  <2>1. logs' = logs /\ doubled' = doubled
    BY <1>3 DEF Aggregate, UpsertSummary, GenerateMonthlyBill, CreateBill, PayBill, UpdateBill,
                RequestFails, billing
  <2>2. Others(t) /\ task'[t].pc # "log"
    <3>1. NoTask.pc # "log"
      BY DEF NoTask
    <3> QED
      BY <1>3, <3>1, BillMoves
  <2>3. \A u \in Tasks, r \in Services : Charging(u, r)' => Charging(u, r)
    BY <2>2 DEF Charging, Others
  <2> QED
    BY <1>0, <2>1, <2>3 DEF ChargeInv
<1>4. CASE UNCHANGED billVars
  BY <1>4 DEF billVars, billing, ChargeInv, Charging
<1> QED
  BY <1>1, <1>2, <1>3, <1>4, Zenon DEF BillNext

\* A sum that a log overtakes is named, and so is one that is never stored.
LEMMA SumStep ==
  ASSUME BillTypeOK, SumInv, SummedUp, [BillNext]_billVars
  PROVE  SumInv' /\ SummedUp'
<1>0. task \in [Tasks -> Task] /\ logs \in [Services -> 0..MaxLogs] /\ MaxLogs \in Nat
      /\ NoTask \in Task
      /\ summary \in [Services -> [amount: Nat, status: {"none", "DRAFT", "INVOICED"}]]
  BY BillingAssumption DEF BillTypeOK, NoTask, Task
<1>1. ASSUME NEW t \in Tasks, NEW s \in Services, TrackUsage(t, s) PROVE SumInv' /\ SummedUp'
  <2>1. /\ task[t].pc = "idle" /\ task'[t].pc = "log" /\ task'[t].service = s /\ Others(t)
    BY <1>1, BillMoves, Zenon
  <2>2. logs' = logs /\ summary' = summary /\ behind' = behind
    BY <1>1 DEF TrackUsage, billing
  <2> QED
    BY <2>1, <2>2 DEF SumInv, SummedUp, Others
<1>2. ASSUME NEW t \in Tasks, CreateLog(t) PROVE SumInv' /\ SummedUp'
  <2> DEFINE s == task[t].service
  <2>0. s \in Services
    BY <1>2 DEF SumInv, CreateLog
  <2>1. task[t].pc = "log" /\ task'[t].pc = "sum" /\ task'[t].service = s /\ Others(t)
    BY <1>2, BillMoves, Zenon
  <2>2. logs' = [logs EXCEPT ![s] = @ + 1] /\ summary' = summary
        /\ behind' = IF Busy(t, "upsert", s) THEN behind \cup {s} ELSE behind
    BY <1>2 DEF CreateLog
  <2>3. \A r \in Services \ {s} : logs'[r] = logs[r]
    BY <1>0, <2>2
  <2>4. s \in behind' \/ \A u \in Tasks \ {t} : ~(task[u].pc = "upsert" /\ task[u].service = s)
    BY <2>2 DEF Busy, Rest
  <2> QED
    BY <2>0, <2>1, <2>2, <2>3, <2>4 DEF SumInv, SummedUp, Others
<1>3. ASSUME NEW t \in Tasks, Aggregate(t) PROVE SumInv' /\ SummedUp'
  <2> DEFINE s == task[t].service
  <2>0. s \in Services /\ task[t].pc = "sum"
    BY <1>3 DEF SumInv, Aggregate
  <2>1. /\ task'[t].pc = "upsert" /\ task'[t].service = s /\ task'[t].amount = logs[s] /\ Others(t)
    BY <1>3, BillMoves, Zenon
  <2>2. logs' = logs /\ summary' = summary
        /\ behind' = IF Busy(t, "upsert", s) THEN behind ELSE behind \ {s}
    BY <1>3 DEF Aggregate, billing
  <2>4. behind' = behind \/ /\ behind' = behind \ {s}
                            /\ \A u \in Tasks \ {t} : ~(task[u].pc = "upsert" /\ task[u].service = s)
    BY <2>2 DEF Busy, Rest
  <2> QED
    BY <2>0, <2>1, <2>2, <2>4 DEF SumInv, SummedUp, Others
<1>4. ASSUME NEW t \in Tasks, UpsertSummary(t) PROVE SumInv' /\ SummedUp'
  <2> DEFINE s == task[t].service
  <2>0. s \in Services /\ task[t].pc = "upsert"
    BY <1>4 DEF SumInv, UpsertSummary
  <2>1. task'[t] = NoTask /\ Others(t)
    BY <1>4, BillMoves, Zenon
  <2>2. logs' = logs /\ behind' = behind
        /\ summary' = [summary EXCEPT ![s] = Upserted(s, task[t].amount)]
    BY <1>4 DEF UpsertSummary
  <2>3. summary'[s].amount = task[t].amount /\ \A r \in Services \ {s} : summary'[r] = summary[r]
    BY <1>0, <2>0, <2>2 DEF Upserted
  <2> QED
    BY <2>0, <2>1, <2>2, <2>3 DEF SumInv, SummedUp, Others, NoTask
<1>5. ASSUME NEW t \in Tasks, RequestFails(t) PROVE SumInv' /\ SummedUp'
  <2>1. task'[t] = NoTask /\ Others(t)
    BY <1>5, BillMoves, Zenon
  <2>2. logs' = logs /\ summary' = summary
        /\ behind' = IF task[t].pc \in {"sum", "upsert"} THEN behind \cup {task[t].service} ELSE behind
    BY <1>5 DEF RequestFails, billing
  <2> QED
    BY <2>1, <2>2 DEF SumInv, SummedUp, Others, NoTask
<1>6. ASSUME NEW t \in Tasks,
             \/ GenerateMonthlyBill(t) \/ CreateBill(t)
             \/ (\E n \in 1..bill.total : PayBill(t, n)) \/ UpdateBill(t)
      PROVE  SumInv' /\ SummedUp'
  <2>1. logs' = logs /\ behind' = behind
    BY <1>6 DEF GenerateMonthlyBill, CreateBill, PayBill, UpdateBill, billing
  <2>2. \A s \in Services : summary'[s].amount = summary[s].amount
    <3>1. CASE CreateBill(t)
      <4>1. summary' = summary \/ summary' = Invoiced(task[t].summaries)
        BY <3>1 DEF CreateBill
      <4>2. \A s \in Services : Invoiced(task[t].summaries)[s].amount = summary[s].amount
        BY <1>0 DEF Invoiced
      <4> QED
        BY <4>1, <4>2
    <3> QED
      BY <1>6, <3>1 DEF GenerateMonthlyBill, PayBill, UpdateBill, billing
  <2>4. /\ task[t].pc \notin {"log", "sum", "upsert"} /\ task'[t].pc \notin {"log", "sum", "upsert"}
        /\ Others(t)
    <3>1. NoTask.pc \notin {"log", "sum", "upsert"}
      BY DEF NoTask
    <3> QED
      BY <1>6, <3>1, BillMoves
  <2> QED
    BY <2>1, <2>2, <2>4 DEF SumInv, SummedUp, Others
<1>7. CASE UNCHANGED billVars
  BY <1>7 DEF billVars, billing, SumInv, SummedUp
<1> QED
  BY <1>1, <1>2, <1>3, <1>4, <1>5, <1>6, <1>7, Zenon DEF BillNext

\* A step that leaves the rows, the bill's total and what is named alone, and begins no
\* bill, keeps plans and bill.
LEMMA PlanFrame ==
  ASSUME RowInv, PlanInv, AllBilled, NEW t \in Tasks, summary' = summary, after' = after,
         Others(t), task'[t].pc # "bill",
         bill'.status = "none" <=> bill.status = "none", bill'.total = bill.total
  PROVE  RowInv' /\ PlanInv' /\ AllBilled'
<1>1. Drafts' = Drafts
  BY DEF Drafts
<1>2. RowInv'
  BY DEF RowInv
<1>3. PlanInv'
  <2>1. \A u \in Tasks : task'[u].pc = "bill" => task'[u] = task[u]
    BY DEF Others
  <2> QED
    BY <1>1, <2>1 DEF PlanInv
<1>4. AllBilled'
  <2>1. Amounts(Services)' = Amounts(Services)
    BY AmountsAre, AmountsBecome
  <2> QED
    BY <1>1, <2>1 DEF AllBilled
<1> QED
  BY <1>2, <1>3, <1>4

\* The bill of a month holds every row of it, but for those that changed after it read
\* them.
LEMMA PlanStep ==
  ASSUME BillTypeOK, SumInv, RowInv, PlanInv, AllBilled, PayInv, [BillNext]_billVars
  PROVE  RowInv' /\ PlanInv' /\ AllBilled'
<1>0. /\ task \in [Tasks -> Task] /\ bill \in Bill /\ IsFiniteSet(Services)
      /\ summary \in [Services -> [amount: Nat, status: {"none", "DRAFT", "INVOICED"}]]
  BY BillingAssumption DEF BillTypeOK
<1>1. ASSUME NEW t \in Tasks, UpsertSummary(t) PROVE RowInv' /\ PlanInv' /\ AllBilled'
  <2> DEFINE s == task[t].service
             row == Upserted(s, task[t].amount)
  <2>0. s \in Services
    BY <1>1 DEF SumInv, UpsertSummary
  <2>1. Others(t) /\ task'[t].pc = "idle"
    BY <1>1, BillMoves DEF NoTask
  <2>2. bill' = bill /\ summary' = [summary EXCEPT ![s] = row]
        /\ after' = IF bill.status # "none" \/ Rest(t, "bill") # {} THEN after \cup {s} ELSE after
    BY <1>1 DEF UpsertSummary
  <2>3. /\ summary'[s] = row /\ \A r \in Services \ {s} : summary'[r] = summary[r]
        /\ row.status # "none" /\ (row.status = "INVOICED" => summary[s].status = "INVOICED")
    BY <1>0, <2>0, <2>2 DEF Upserted
  <2> HIDE DEF s, row
  <2>4. Drafts' \subseteq Drafts \cup {s} /\ Drafts' \subseteq Services
    BY <2>3 DEF Drafts
  <2>5. RowInv'
    BY <2>2, <2>3 DEF RowInv
  <2>6. PlanInv'
    <3>1. SUFFICES ASSUME bill'.status = "none", NEW u \in Tasks, task'[u].pc = "bill"
                   PROVE  /\ Drafts' \subseteq task'[u].summaries \cup after'
                          /\ after' # {}
      BY Zenon DEF PlanInv
    <3>2. u # t /\ task'[u] = task[u]
      BY <2>1, <3>1 DEF Others
    <3>3. u \in Rest(t, "bill")
      BY <3>1, <3>2 DEF Rest
    <3>4. after' = after \cup {s}
      BY <2>2, <3>3
    <3>5. Drafts \subseteq task[u].summaries \cup after
      BY <2>2, <3>1, <3>2 DEF PlanInv
    <3> QED
      BY <2>4, <3>2, <3>4, <3>5
  <2>7. AllBilled'
    <3>1. SUFFICES ASSUME bill'.status # "none" PROVE Drafts' \subseteq after' /\ after' # {}
      BY Zenon DEF AllBilled
    <3>2. after' = after \cup {s} /\ Drafts \subseteq after
      BY <2>2, <3>1 DEF AllBilled
    <3> QED
      BY <2>4, <3>2
  <2> QED
    BY <2>5, <2>6, <2>7
<1>2. ASSUME NEW t \in Tasks, GenerateMonthlyBill(t) PROVE RowInv' /\ PlanInv' /\ AllBilled'
  <2>1. /\ Others(t) /\ task[t].pc = "idle" /\ task'[t].pc = "bill"
        /\ task'[t].summaries = Drafts /\ task'[t].amount = Amounts(Drafts)
    BY <1>2, BillMoves, Zenon
  <2>2. bill' = bill /\ summary' = summary /\ after' = after /\ bill.status = "none"
    BY <1>2 DEF GenerateMonthlyBill, billing
  <2>3. Drafts' = Drafts /\ Drafts \in SUBSET Services
    BY <2>2 DEF Drafts
  <2>4. RowInv' /\ AllBilled'
    BY <2>2 DEF RowInv, AllBilled
  <2>5. Amounts(Drafts) = Total(summary, Services)
    <3>1. \A s \in Services : summary[s].amount \in Nat
      BY <1>0
    <3>2. \A s \in Services \ Drafts : summary[s].amount = 0
      BY <1>0, <2>2 DEF Drafts, RowInv
    <3> QED
      BY <1>0, <2>3, <3>1, <3>2, TotalOver, AmountsAre
  <2>6. PlanInv'
    <3>1. SUFFICES ASSUME NEW u \in Tasks, task'[u].pc = "bill"
                   PROVE  /\ Drafts' \subseteq task'[u].summaries \cup after'
                          /\ after' = {} => task'[u].amount = Total(summary', Services)
      BY Zenon DEF PlanInv
    <3>2. CASE u = t
      BY <2>1, <2>2, <2>3, <2>5, <3>2
    <3>3. CASE u # t
      <4>1. task'[u] = task[u]
        BY <2>1, <3>3 DEF Others
      <4> QED
        BY <2>2, <2>3, <3>1, <4>1 DEF PlanInv
    <3> QED
      BY <3>2, <3>3
  <2> QED
    BY <2>4, <2>6
<1>3. ASSUME NEW t \in Tasks, CreateBill(t) PROVE RowInv' /\ PlanInv' /\ AllBilled'
  <2>1. Others(t) /\ task[t].pc = "bill" /\ task'[t].pc = "idle"
    BY <1>3, BillMoves DEF NoTask
  <2>2. after' = after
    BY <1>3 DEF CreateBill
  <2>3. CASE bill.status # "none"
    <3>1. bill' = bill /\ summary' = summary
      BY <1>3, <2>3 DEF CreateBill
    <3> QED
      BY <2>1, <2>2, <3>1, PlanFrame
  <2>4. CASE bill.status = "none"
    <3> DEFINE taken == task[t].summaries
    <3>1. bill'.status = "PENDING" /\ bill'.total = task[t].amount /\ summary' = Invoiced(taken)
      BY <1>3, <2>4 DEF CreateBill
    <3>2. Drafts \subseteq taken \cup after /\ (after = {} => task[t].amount = Total(summary, Services))
      BY <2>1, <2>4 DEF PlanInv
    <3> HIDE DEF taken
    <3>3. \A s \in Services : /\ s \in taken => summary'[s] = [summary[s] EXCEPT !.status = "INVOICED"]
                              /\ s \notin taken => summary'[s] = summary[s]
      BY <3>1 DEF Invoiced
    <3>4. \A s \in Services : /\ summary'[s].amount = summary[s].amount
                              /\ summary'[s].status \in {"INVOICED", summary[s].status}
                              /\ s \in taken => summary'[s].status = "INVOICED"
      BY <1>0, <3>3
    <3>5. Drafts' \subseteq Drafts \ taken
      BY <3>4 DEF Drafts
    <3>6. RowInv'
      BY <3>1, <3>4 DEF RowInv
    <3>7. PlanInv'
      BY <3>1 DEF PlanInv
    <3>8. Total(summary', Services) = Total(summary, Services)
      <4> DEFINE new == summary'
      <4>1. \A s \in Services : new[s].amount = summary[s].amount
        BY <3>4
      <4> HIDE DEF new
      <4>2. Total(new, Services) = Total(summary, Services)
        BY <1>0, <4>1, TotalSame
      <4> QED
        BY <4>2 DEF new
    <3>9. AllBilled'
      BY <2>2, <3>1, <3>2, <3>5, <3>8, AmountsBecome DEF AllBilled
    <3> QED
      BY <3>6, <3>7, <3>9
  <2> QED
    BY <2>3, <2>4
<1>4. ASSUME NEW t \in Tasks, UpdateBill(t) PROVE RowInv' /\ PlanInv' /\ AllBilled'
  <2>1. Others(t) /\ task[t].pc = "pay" /\ task'[t].pc = "idle"
    BY <1>4, BillMoves DEF NoTask
  <2>2. bill.status # "none"
    BY <2>1 DEF PayInv
  <2>3. after' = after /\ summary' = summary /\ bill'.total = bill.total /\ bill'.status # "none"
    BY <1>0, <1>4 DEF UpdateBill, Bill
  <2>4. bill'.status = "none" <=> bill.status = "none"
    BY <2>2, <2>3
  <2> QED
    BY <2>1, <2>3, <2>4, PlanFrame
<1>5. ASSUME NEW t \in Tasks,
             \/ (\E s \in Services : TrackUsage(t, s)) \/ CreateLog(t) \/ Aggregate(t)
             \/ (\E n \in 1..bill.total : PayBill(t, n)) \/ RequestFails(t)
      PROVE  RowInv' /\ PlanInv' /\ AllBilled'
  <2>1. summary' = summary /\ bill' = bill /\ after' = after
    BY <1>5 DEF TrackUsage, CreateLog, Aggregate, PayBill, RequestFails, billing
  <2>2. Others(t) /\ task'[t].pc # "bill"
    <3>1. NoTask.pc # "bill"
      BY DEF NoTask
    <3> QED
      BY <1>5, <3>1, BillMoves
  <2> QED
    BY <2>1, <2>2, PlanFrame
<1>6. CASE UNCHANGED billVars
  <2>1. summary' = summary /\ bill' = bill /\ after' = after /\ task' = task
    BY <1>6 DEF billVars, billing
  <2>2. Drafts' = Drafts /\ Amounts(Services)' = Amounts(Services)
    BY <2>1, AmountsAre, AmountsBecome DEF Drafts
  <2> QED
    BY <2>1, <2>2 DEF RowInv, PlanInv, AllBilled
<1> QED
  BY <1>1, <1>2, <1>3, <1>4, <1>5, <1>6, Zenon DEF BillNext

\* A step that leaves the bill and the payments alone, and begins none, keeps them.
LEMMA PayFrame ==
  ASSUME PayInv, PaymentsKept, NEW t \in Tasks, bill' = bill, received' = received,
         crossing' = crossing, Others(t), task'[t].pc # "pay"
  PROVE  PayInv' /\ PaymentsKept'
<1>1. \A u \in Tasks : task'[u].pc = "pay" => task'[u] = task[u]
  BY DEF Others
<1>2. PayInv'
  <2>1. bill'.status = "none" => received' = 0 /\ \A u \in Tasks : task'[u].pc # "pay"
    BY <1>1 DEF PayInv
  <2>2. \A u \in Tasks : task'[u].pc = "pay" =>
          /\ task'[u].amount <= bill'.total
          /\ ~crossing' => task'[u].amount = bill'.paid + task'[u].paying
    BY <1>1 DEF PayInv
  <2>3. ~crossing' => \A u, w \in Tasks : task'[u].pc = "pay" /\ task'[w].pc = "pay" => u = w
    BY <1>1, Zenon DEF PayInv
  <2> QED
    BY <2>1, <2>2, <2>3, Zenon DEF PayInv
<1> QED
  BY <1>2 DEF PaymentsKept

\* A payment that is alone is added to the bill it was computed from, and none is more
\* than is due.
LEMMA PayStep ==
  ASSUME BillTypeOK, PayInv, PaymentsKept, [BillNext]_billVars
  PROVE  PayInv' /\ PaymentsKept'
<1>0. task \in [Tasks -> Task] /\ bill \in Bill /\ crossing \in BOOLEAN /\ received \in Nat
  BY DEF BillTypeOK
<1>1. ASSUME NEW t \in Tasks, CreateBill(t) PROVE PayInv' /\ PaymentsKept'
  <2>1. Others(t) /\ task'[t].pc = "idle" /\ task[t] \in Task
    BY <1>0, <1>1, BillMoves DEF NoTask
  <2>2. received' = received /\ crossing' = crossing
    BY <1>1 DEF CreateBill
  <2>3. CASE bill.status # "none"
    <3>1. bill' = bill
      BY <1>1, <2>3 DEF CreateBill
    <3> QED
      BY <2>1, <2>2, <3>1, PayFrame
  <2>4. CASE bill.status = "none"
    <3>1. bill'.status = "PENDING" /\ bill'.total = task[t].amount /\ bill'.paid = 0
      BY <1>1, <2>4 DEF CreateBill
    <3>2. received = 0 /\ \A u \in Tasks : task'[u].pc # "pay"
      BY <2>1, <2>4 DEF PayInv, Others
    <3>3. PayInv'
      BY <3>1, <3>2 DEF PayInv
    <3>4. task[t].amount \in Nat
      BY <2>1 DEF Task
    <3> QED
      BY <2>2, <3>1, <3>2, <3>3, <3>4 DEF PaymentsKept
  <2> QED
    BY <2>3, <2>4
<1>2. ASSUME NEW t \in Tasks, NEW n \in 1..bill.total, PayBill(t, n) PROVE PayInv' /\ PaymentsKept'
  <2>1. /\ Others(t) /\ task'[t].pc = "pay"
        /\ task'[t].amount = bill.paid + n /\ task'[t].paying = n
    BY <1>2, BillMoves, Zenon
  <2>2. bill' = bill /\ received' = received /\ bill.status = "PENDING" /\ bill.paid + n <= bill.total
    BY <1>2 DEF PayBill, Payable, billing
  <2>3. crossing' = (crossing \/ Rest(t, "pay") # {})
    BY <1>2 DEF PayBill
  <2>4. ~crossing' => ~crossing /\ \A u \in Tasks \ {t} : task'[u].pc # "pay"
    BY <1>0, <2>1, <2>3 DEF Rest, Others
  <2>5. ASSUME NEW u \in Tasks, task'[u].pc = "pay"
        PROVE  /\ task'[u].amount <= bill'.total
               /\ ~crossing' => task'[u].amount = bill'.paid + task'[u].paying
    <3>1. CASE u = t
      BY <2>1, <2>2, <3>1
    <3>2. CASE u # t
      <4>1. task'[u] = task[u] /\ crossing'
        BY <2>1, <2>4, <2>5, <3>2 DEF Others
      <4> QED
        BY <2>2, <2>5, <4>1 DEF PayInv
    <3> QED
      BY <3>1, <3>2
  <2>6. PayInv'
    <3>1. ~crossing' => \A u, w \in Tasks : task'[u].pc = "pay" /\ task'[w].pc = "pay" => u = w
      BY <2>4
    <3>2. bill'.status # "none"
      BY <2>2
    <3> QED
      BY <2>5, <3>1, <3>2, Zenon DEF PayInv
  <2> QED
    BY <2>2, <2>4, <2>6 DEF PaymentsKept
<1>3. ASSUME NEW t \in Tasks, UpdateBill(t) PROVE PayInv' /\ PaymentsKept'
  <2> DEFINE paid == task[t].amount
             status == IF paid = bill.total THEN "PAID" ELSE "PENDING"
  <2>1. Others(t) /\ task[t].pc = "pay" /\ task'[t].pc = "idle" /\ task[t] \in Task
    BY <1>0, <1>3, BillMoves DEF NoTask
  <2>2. /\ bill' = [bill EXCEPT !.paid = paid, !.status = status]
        /\ received' = received + task[t].paying /\ crossing' = crossing
    BY <1>3 DEF UpdateBill
  <2>3. paid \in Nat /\ paid <= bill.total /\ task[t].paying \in Nat
        /\ (~crossing => paid = bill.paid + task[t].paying)
    BY <2>1 DEF PayInv, Task
  <2>4. status \in {"PENDING", "PAID"} /\ (status = "PAID" => paid = bill.total)
    OBVIOUS
  <2> HIDE DEF paid, status
  <2>5. bill'.paid = paid /\ bill'.status = status /\ bill'.total = bill.total
    BY <1>0, <2>2 DEF Bill
  <2>6. \A u \in Tasks : task'[u].pc = "pay" => u # t /\ task'[u] = task[u] /\ crossing
    BY <2>1 DEF Others, PayInv
  <2>7. PayInv'
    <3>1. \A u \in Tasks : task'[u].pc = "pay" => task'[u].amount <= bill'.total
      BY <2>5, <2>6 DEF PayInv
    <3>2. ~crossing' => \A u \in Tasks : task'[u].pc # "pay"
      BY <2>2, <2>6
    <3>3. bill'.status # "none"
      BY <2>4, <2>5
    <3> QED
      BY <3>1, <3>2, <3>3, Zenon DEF PayInv
  <2>8. PaymentsKept'
    <3>1. bill'.paid <= bill'.total /\ (bill'.status = "PAID" => bill'.paid = bill'.total)
      BY <2>3, <2>4, <2>5
    <3>2. ~crossing' => bill'.paid = received'
      BY <2>2, <2>3, <2>5 DEF PaymentsKept
    <3> QED
      BY <3>1, <3>2, Zenon DEF PaymentsKept
  <2> QED
    BY <2>7, <2>8
<1>4. ASSUME NEW t \in Tasks,
             \/ (\E s \in Services : TrackUsage(t, s)) \/ CreateLog(t) \/ Aggregate(t)
             \/ UpsertSummary(t) \/ GenerateMonthlyBill(t) \/ RequestFails(t)
      PROVE  PayInv' /\ PaymentsKept'
  <2>1. bill' = bill /\ received' = received /\ crossing' = crossing
    BY <1>4 DEF TrackUsage, CreateLog, Aggregate, UpsertSummary, GenerateMonthlyBill,
                RequestFails, billing
  <2>2. Others(t) /\ task'[t].pc # "pay"
    <3>1. NoTask.pc # "pay"
      BY DEF NoTask
    <3> QED
      BY <1>4, <3>1, BillMoves
  <2> QED
    BY <2>1, <2>2, PayFrame
<1>5. CASE UNCHANGED billVars
  BY <1>5 DEF billVars, billing, PayInv, PaymentsKept
<1> QED
  BY <1>1, <1>2, <1>3, <1>4, <1>5, Zenon DEF BillNext

\* At the start of a month nothing is used, summed up, billed or paid.
LEMMA BillStart == BillInit => BillInv
<1> SUFFICES ASSUME BillInit PROVE BillInv
  OBVIOUS
<1>0. MaxLogs \in Nat /\ MaxLosses \in Nat /\ Once \subseteq Services
  BY BillingAssumption
<1>1. /\ \A s \in Services : logs[s] = 0 /\ summary[s].amount = 0 /\ summary[s].status = "none"
      /\ bill.status = "none" /\ bill.total = 0 /\ bill.paid = 0 /\ received = 0
      /\ \A t \in Tasks : task[t] = NoTask
  BY DEF BillInit
<1>2. BillTypeOK
  <2>1. NoTask \in Task
    BY DEF NoTask, Task
  <2>2. task \in [Tasks -> Task] /\ logs \in [Services -> 0..MaxLogs]
    BY <1>0, <2>1 DEF BillInit
  <2>3. summary \in [Services -> [amount: Nat, status: {"none", "DRAFT", "INVOICED"}]]
    BY DEF BillInit
  <2>4. bill \in Bill
    BY DEF BillInit, Bill
  <2>5. crossing \in BOOLEAN
    BY Zenon DEF BillInit
  <2>6. /\ losses \in 0..MaxLosses /\ received \in Nat
        /\ behind \subseteq Services /\ doubled \subseteq Services /\ after \subseteq Services
    BY <1>0 DEF BillInit
  <2> QED
    BY <2>2, <2>3, <2>4, <2>5, <2>6 DEF BillTypeOK
<1>3. NoTask.pc = "idle"
  BY DEF NoTask
<1>4. ChargeInv /\ SumInv /\ SummedUp
  BY <1>0, <1>1, <1>3 DEF ChargeInv, Charging, SumInv, SummedUp
<1>5. RowInv /\ PlanInv /\ AllBilled
  BY <1>1, <1>3 DEF RowInv, PlanInv, AllBilled
<1>6. PayInv /\ PaymentsKept
  BY <1>1, <1>3 DEF PayInv, PaymentsKept
<1> QED
  BY <1>2, <1>4, <1>5, <1>6 DEF BillInv

\* AnyOf request at most charges a service charged once, so its logs and requests are one.
LEMMA BillFollows == BillInv => BooksAgree
<1> SUFFICES ASSUME BillInv PROVE OneCharge
  BY DEF BillInv, BooksAgree
<1>0. BillTypeOK /\ ChargeInv /\ Once \subseteq Services /\ MaxLogs \in Nat
  BY BillingAssumption DEF BillInv
<1>1. ASSUME NEW s \in Once \ doubled
      PROVE  logs[s] + Cardinality({t \in Tasks : task[t].pc = "log" /\ task[t].service = s}) <= 1
  <2> DEFINE C == {t \in Tasks : task[t].pc = "log" /\ task[t].service = s}
  <2>1. logs[s] \in Nat /\ logs[s] <= 1
    BY <1>0 DEF BillTypeOK, ChargeInv
  <2>2. \A t \in C : logs[s] = 0 /\ \A u \in C : u = t
    BY <1>0 DEF ChargeInv, Charging
  <2>3. CASE C = {}
    BY <2>1, <2>3, FS_EmptySet
  <2>4. CASE C # {}
    <3>1. PICK t : t \in C
      BY <2>4
    <3>2. C = {t} /\ logs[s] = 0
      BY <2>2, <3>1
    <3>3. Cardinality(C) = 1
      BY <3>2, FS_Singleton
    <3> HIDE DEF C
    <3> QED
      BY <3>2, <3>3 DEF C
  <2> QED
    BY <2>3, <2>4
<1> QED
  BY <1>1 DEF OneCharge

\* The invariant holds in every state.
LEMMA BillAlways == BillSpec => []BillInv
<1>1. BillInv /\ [BillNext]_billVars => BillInv'
  BY BillTypeStep, ChargeStep, SumStep, PlanStep, PayStep DEF BillInv
<1> QED
  BY BillStart, <1>1, PTL DEF BillSpec

\* Every variable of the month keeps its type.
THEOREM BillTyped == BillSpec => []BillTypeOK
<1>1. BillInv => BillTypeOK
  BY DEF BillInv
<1> QED
  BY <1>1, BillAlways, PTL

\* For every number of services, requests, failures and payments
\* (usageTracking.helpers.js): a service charged once has one log, unless two requests
\* checked together; every log is in its summary, or named as on its way, failed or
\* overtaken; the bill is the sum of all summaries, but for what was used since they
\* were read; it is never overpaid, and holds every payment that no other one crossed.
THEOREM BooksKept == BillSpec => []BooksAgree
BY BillAlways, BillFollows, PTL

-----------------------------------------------------------------------------
(* Course trees                                                              *)

Steps == {"idle", "insertSubject", "readSubjects", "nextSubject", "takeChapters", "readChapters",
          "insertChapter", "findChapter", "insertContent", "log", "logCycle",
          "cascade", "godChapter", "godCommit"}

\* What a request carries.
Edit == [pc: Steps, tree: Trees \cup {Nowhere}, subject: Ids \cup {Nowhere},
         chapter: Ids \cup {Nowhere}, todo: SUBSET Ids, log: SUBSET Keys, row: Keys \cup {<<>>},
         then: {"idle", "nextSubject", "takeChapters"}, made: SUBSET Keys, raced: BOOLEAN]

TableRow == [in : Ids \cup {Nowhere}, deleted : BOOLEAN]

RowsOK == subject \in [Ids -> TableRow] /\ chapter \in [Ids -> TableRow] /\ content \in [Ids -> TableRow]
          /\ tree \in [Trees -> {"none", "made", "copied"}]

\* A row that is there is in one that is there, up to a tree that is there.
FormInv ==
  /\ \A s \in Ids : subject[s].in # Nowhere => subject[s].in \in Trees /\ tree[subject[s].in] # "none"
  /\ \A h \in Ids : chapter[h].in # Nowhere => subject[chapter[h].in].in # Nowhere
  /\ \A c \in Ids : content[c].in # Nowhere => chapter[content[c].in].in # Nowhere

\* Rows of a table stay where they are, and deleted ones stay deleted.
Stays(old, new) == \A i \in Ids : old[i].in # Nowhere => /\ new[i].in = old[i].in
                                                         /\ old[i].deleted => new[i].deleted

Grows == /\ Stays(subject, subject') /\ Stays(chapter, chapter')
         /\ \A t \in Trees : tree[t] # "none" => tree'[t] = tree[t]
         /\ adrift \subseteq adrift'

\* A new row is where it was put, and not deleted.
LEMMA NewRow ==
  ASSUME NEW p \in Ids \cup {Nowhere}
  PROVE  Row(p) \in TableRow /\ Row(p).in = p /\ ~Row(p).deleted /\ Row(p).deleted = FALSE
<1>1. Row(p).in = p /\ ~Row(p).deleted
  BY DEF Row
<1>2. Row(p).deleted = FALSE
  BY Zenon DEF Row
<1> DEFINE d == Row(p).deleted
<1>3. Row(p) = [in |-> p, deleted |-> d]
  BY <1>2, Zenon DEF Row
<1>4. d \in BOOLEAN
  BY <1>2, Zenon
<1>5. Row(p) \in TableRow
  <2> HIDE DEF d
  <2> QED
    BY <1>3, <1>4 DEF TableRow
<1> QED
  BY <1>1, <1>2, <1>5

\* A deleted row is where it was.
LEMMA DeletedRow ==
  ASSUME NEW x \in TableRow
  PROVE  /\ [x EXCEPT !.deleted = TRUE] \in TableRow
         /\ [x EXCEPT !.deleted = TRUE].in = x.in
         /\ [x EXCEPT !.deleted = TRUE].deleted
<1> DEFINE yes == TRUE
           y == [x EXCEPT !.deleted = yes]
<1>1. yes \in BOOLEAN /\ yes
  OBVIOUS
<1>2. y \in TableRow /\ y.in = x.in /\ y.deleted = yes
  <2> HIDE DEF yes
  <2> QED
    BY <1>1 DEF TableRow
<1> HIDE DEF y
<1>3. y = [x EXCEPT !.deleted = TRUE]
  BY DEF y
<1> QED
  BY <1>1, <1>2, <1>3, Zenon

\* Every row stays where it is.
Marks(old, new) == \A i \in Ids : new[i].in = old[i].in /\ (old[i].deleted => new[i].deleted)

Deleted(table, r) == [table EXCEPT ![r].deleted = TRUE]

\* Where a deleted row was it stays.
LEMMA DeletesRow ==
  ASSUME NEW table \in [Ids -> TableRow], NEW r \in Ids
  PROVE  /\ Deleted(table, r) \in [Ids -> TableRow]
         /\ Marks(table, Deleted(table, r))
<1> DEFINE y == [table[r] EXCEPT !.deleted = TRUE]
           new == Deleted(table, r)
<1>1. new = [table EXCEPT ![r] = y]
  BY Zenon DEF Deleted
<1>2. y \in TableRow /\ y.in = table[r].in /\ y.deleted
  BY DeletedRow
<1> HIDE DEF y, new
<1>3. new \in [Ids -> TableRow] /\ \A i \in Ids : new[i] = IF i = r THEN y ELSE table[i]
  BY <1>1, <1>2
<1>4. \A i \in Ids : new[i].in = table[i].in /\ (table[i].deleted => new[i].deleted)
  BY <1>2, <1>3
<1> QED
  BY <1>3, <1>4 DEF Marks, new

\* The tree of a row, read from the rows above it.
LEMMA TreeOfRow ==
  ASSUME NEW i
  PROVE  /\ TreeOf(<<"subject", i>>) = subject[i].in
         /\ TreeOf(<<"chapter", i>>) = subject[chapter[i].in].in
         /\ TreeOf(<<"content", i>>) = subject[chapter[content[i].in].in].in
BY DEF TreeOf

\* Clone in parts: what is copied, and the unused ids the copies take.
Injections(src, table) ==
  {f \in [src -> Children(table, Nowhere)] : \A a, b \in src : a < b => f[a] < f[b]}
SubjectsOf(t) == Children(subject, t)
ChaptersOf(t) == {h \in Ids : chapter[h].in \in SubjectsOf(t)}
ContentsOf(t) == {c \in Ids : content[c].in \in ChaptersOf(t)}
NewSubject(t) == CHOOSE f \in Injections(SubjectsOf(t), subject) : TRUE
NewChapter(t) == CHOOSE g \in Injections(ChaptersOf(t), chapter) : TRUE
NewContent(t) == CHOOSE w \in Injections(ContentsOf(t), content) : TRUE
IsCopy(t, n) == \/ n[1] = "subject" /\ \E q \in SubjectsOf(t) : NewSubject(t)[q] = n[2]
                \/ n[1] = "chapter" /\ \E q \in ChaptersOf(t) : NewChapter(t)[q] = n[2]
                \/ n[1] = "content" /\ \E q \in ContentsOf(t) : NewContent(t)[q] = n[2]

\* A copy of a course or a cycle, said with the names above.
LEMMA CloneParts ==
  ASSUME NEW from \in Trees, NEW to \in Trees, Clone(from, to)
  PROVE  /\ tree[from] # "none" /\ tree[to] = "none" /\ tree' = [tree EXCEPT ![to] = "copied"]
         /\ (from \in Cycled) = (to \in Cycled) /\ adrift' = adrift /\ twinned' = twinned
         /\ Injections(SubjectsOf(from), subject) # {} /\ Injections(ChaptersOf(from), chapter) # {}
         /\ Injections(ContentsOf(from), content) # {}
         /\ subject' = [r \in Ids |-> IF \E q \in DOMAIN NewSubject(from) : NewSubject(from)[q] = r
                                      THEN Row(to) ELSE subject[r]]
         /\ chapter' = [r \in Ids |-> IF \E q \in DOMAIN NewChapter(from) : NewChapter(from)[q] = r
              THEN Row(NewSubject(from)[chapter[CHOOSE q \in DOMAIN NewChapter(from) :
                                                 NewChapter(from)[q] = r].in])
              ELSE chapter[r]]
         /\ content' = [r \in Ids |-> IF \E q \in DOMAIN NewContent(from) : NewContent(from)[q] = r
              THEN Row(NewChapter(from)[content[CHOOSE q \in DOMAIN NewContent(from) :
                                                 NewContent(from)[q] = r].in])
              ELSE content[r]]
         /\ courseLookup' = [k \in Tables |-> [r \in Ids |->
                              IF IsCopy(from, <<k, r>>) THEN CourseOf[to] ELSE courseLookup[k][r]]]
         /\ cycleLookup' = [k \in Tables |-> [r \in Ids |->
                             IF IsCopy(from, <<k, r>>) /\ to \in Cycled THEN to ELSE cycleLookup[k][r]]]
<1>1. /\ tree[from] # "none" /\ tree[to] = "none" /\ tree' = [tree EXCEPT ![to] = "copied"]
      /\ (from \in Cycled) = (to \in Cycled) /\ adrift' = adrift /\ twinned' = twinned
  BY Zenon DEF Clone
<1>2. /\ Injections(SubjectsOf(from), subject) # {} /\ Injections(ChaptersOf(from), chapter) # {}
      /\ Injections(ContentsOf(from), content) # {}
  BY Zenon DEF Clone, Injections, SubjectsOf, ChaptersOf, ContentsOf
<1>3. subject' = [r \in Ids |-> IF \E q \in DOMAIN NewSubject(from) : NewSubject(from)[q] = r
                                      THEN Row(to) ELSE subject[r]]
  BY Zenon DEF Clone, Injections, SubjectsOf, NewSubject
<1>4. chapter' = [r \in Ids |-> IF \E q \in DOMAIN NewChapter(from) : NewChapter(from)[q] = r
              THEN Row(NewSubject(from)[chapter[CHOOSE q \in DOMAIN NewChapter(from) :
                                                 NewChapter(from)[q] = r].in])
              ELSE chapter[r]]
  BY Zenon DEF Clone, Injections, SubjectsOf, NewSubject, ChaptersOf, NewChapter
<1>5. content' = [r \in Ids |-> IF \E q \in DOMAIN NewContent(from) : NewContent(from)[q] = r
              THEN Row(NewChapter(from)[content[CHOOSE q \in DOMAIN NewContent(from) :
                                                 NewContent(from)[q] = r].in])
              ELSE content[r]]
  BY Zenon DEF Clone, Injections, SubjectsOf, ChaptersOf, NewChapter, ContentsOf, NewContent
<1>6. courseLookup' = [k \in Tables |-> [r \in Ids |->
                              IF IsCopy(from, <<k, r>>) THEN CourseOf[to] ELSE courseLookup[k][r]]]
  BY Zenon DEF Clone, Injections, SubjectsOf, ChaptersOf, NewChapter, ContentsOf, NewContent,
               NewSubject, IsCopy
<1>7. cycleLookup' = [k \in Tables |-> [r \in Ids |->
                             IF IsCopy(from, <<k, r>>) /\ to \in Cycled THEN to ELSE cycleLookup[k][r]]]
  BY Zenon DEF Clone, Injections, SubjectsOf, ChaptersOf, NewChapter, ContentsOf, NewContent,
               NewSubject, IsCopy
<1> QED
  BY <1>1, <1>2, <1>3, <1>4, <1>5, <1>6, <1>7, Zenon

\* A table with the copies that f makes, each put at its place.
WithCopies(table, f, place) ==
  [r \in Ids |-> IF \E q \in DOMAIN f : f[q] = r
                 THEN Row(place[CHOOSE q \in DOMAIN f : f[q] = r]) ELSE table[r]]

\* Copies are new rows, each where the copy of what holds the original is.
LEMMA CopiesRows ==
  ASSUME NEW table \in [Ids -> TableRow], NEW src \in SUBSET Ids, NEW f \in Injections(src, table),
         NEW place \in [src -> Ids \cup {Nowhere}], NEW new,
         new = WithCopies(table, f, place)
  PROVE  /\ new \in [Ids -> TableRow] /\ Stays(table, new)
         /\ \A q \in src : /\ f[q] \in Ids /\ table[f[q]].in = Nowhere
                           /\ new[f[q]].in = place[q] /\ ~new[f[q]].deleted
         /\ \A r \in Ids : (\E q \in src : f[q] = r) \/ new[r] = table[r]
<1>1. /\ DOMAIN f = src /\ \A q \in src : f[q] \in Ids /\ table[f[q]].in = Nowhere
      /\ \A a, b \in src : a < b => f[a] < f[b]
  BY DEF Injections, Children
<1>2. Ids \subseteq Nat
  BY TreeAssumption
<1>3. \A a, b \in src : f[a] = f[b] => a = b
  <2> SUFFICES ASSUME NEW a \in src, NEW b \in src, f[a] = f[b], a # b PROVE FALSE
    OBVIOUS
  <2>1. a \in Nat /\ b \in Nat /\ f[a] \in Nat /\ f[b] \in Nat
    BY <1>1, <1>2
  <2>2. a < b \/ b < a
    BY <2>1
  <2> QED
    BY <1>1, <2>1, <2>2
<1> DEFINE Of(r) == CHOOSE q \in DOMAIN f : f[q] = r
<1>4. \A q \in src : Of(f[q]) = q
  BY <1>1, <1>3
<1>5. \A r \in Ids : (\E q \in src : f[q] = r) => Of(r) \in src
  BY <1>1
<1>6. \A r \in Ids : new[r] = IF \E q \in src : f[q] = r THEN Row(place[Of(r)]) ELSE table[r]
  BY <1>1, Zenon DEF WithCopies
<1>7. \A p \in Ids \cup {Nowhere} : Row(p) \in TableRow /\ Row(p).in = p /\ ~Row(p).deleted
  BY NewRow
<1>8. new = [r \in Ids |-> new[r]]
  BY Zenon DEF WithCopies
<1> HIDE DEF Of
<1>9. \A r \in Ids : new[r] \in TableRow
  BY <1>5, <1>6, <1>7
<1>10. new \in [Ids -> TableRow]
  BY <1>8, <1>9
<1>11. \A q \in src : new[f[q]] = Row(place[q])
  BY <1>1, <1>4, <1>6
<1>12. \A q \in src : new[f[q]].in = place[q] /\ ~new[f[q]].deleted
  BY <1>7, <1>11
<1>13. \A r \in Ids : (\E q \in src : f[q] = r) \/ new[r] = table[r]
  BY <1>6
<1>14. Stays(table, new)
  BY <1>1, <1>13 DEF Stays
<1> QED
  BY <1>1, <1>10, <1>12, <1>13, <1>14

\* Row n was made.
Stands(n) == /\ n[1] = "subject" => subject[n[2]].in # Nowhere
             /\ n[1] = "chapter" => chapter[n[2]].in # Nowhere
             /\ n[1] = "content" => content[n[2]].in # Nowhere

\* A row that stands is in a tree.
LEMMA RowPlaced ==
  ASSUME RowsOK, FormInv
  PROVE  /\ \A s \in Ids : subject[s].in # Nowhere => subject[s].in \in Trees
         /\ \A h \in Ids : chapter[h].in # Nowhere =>
              chapter[h].in \in Ids /\ subject[chapter[h].in].in \in Trees
         /\ \A c \in Ids : content[c].in # Nowhere =>
              /\ content[c].in \in Ids /\ chapter[content[c].in].in \in Ids
              /\ subject[chapter[content[c].in].in].in \in Trees
<1>1. /\ \A i \in Ids : /\ subject[i].in \in Ids \cup {Nowhere}
                        /\ chapter[i].in \in Ids \cup {Nowhere}
                        /\ content[i].in \in Ids \cup {Nowhere}
  BY DEF RowsOK, TableRow
<1> QED
  BY <1>1 DEF FormInv

\* A copy of a tree: the rows there were stay, and every new row is in the new tree.
LEMMA CloneRows ==
  ASSUME RowsOK, FormInv, NEW from \in Trees, NEW to \in Trees, Clone(from, to)
  PROVE  /\ RowsOK' /\ FormInv' /\ Grows /\ Stays(content, content')
         /\ \A s \in Ids : \/ subject'[s] = subject[s]
                           \/ subject[s].in = Nowhere /\ subject'[s].in = to
         /\ \A h \in Ids : \/ chapter'[h] = chapter[h]
                           \/ /\ chapter[h].in = Nowhere /\ chapter'[h].in \in Ids
                              /\ subject[chapter'[h].in].in = Nowhere
                              /\ subject'[chapter'[h].in].in = to
         /\ \A c \in Ids : content'[c] = content[c] \/ content[c].in = Nowhere
         /\ \A i \in Ids : /\ subject'[i] = subject[i] \/ IsCopy(from, <<"subject", i>>)
                           /\ chapter'[i] = chapter[i] \/ IsCopy(from, <<"chapter", i>>)
                           /\ content'[i] = content[i] \/ IsCopy(from, <<"content", i>>)
         /\ \A i \in Ids : /\ IsCopy(from, <<"subject", i>>) =>
                                subject[i].in = Nowhere /\ subject'[i].in = to
                           /\ IsCopy(from, <<"chapter", i>>) =>
                                chapter[i].in = Nowhere /\ subject'[chapter'[i].in].in = to
                           /\ IsCopy(from, <<"content", i>>) =>
                                /\ content[i].in = Nowhere
                                /\ subject'[chapter'[content'[i].in].in].in = to
<1> DEFINE S == SubjectsOf(from)
           H == ChaptersOf(from)
           C == ContentsOf(from)
           f == NewSubject(from)
           g == NewChapter(from)
           w == NewContent(from)
           inS == [q \in S |-> to]
           inH == [q \in H |-> f[chapter[q].in]]
           inC == [q \in C |-> g[content[q].in]]
<1>0. RowsOK /\ Trees \subseteq Ids /\ Nowhere \notin Ids
  BY TreeAssumption
<1>1. S \in SUBSET Ids /\ H \in SUBSET Ids /\ C \in SUBSET Ids
  BY DEF SubjectsOf, Children, ChaptersOf, ContentsOf
<1>2. f \in Injections(S, subject) /\ g \in Injections(H, chapter) /\ w \in Injections(C, content)
  BY CloneParts, Zenon DEF NewSubject, NewChapter, NewContent
<1>3. DOMAIN f = S /\ DOMAIN g = H /\ DOMAIN w = C
  BY <1>2 DEF Injections
<1>4. (\A q \in H : chapter[q].in \in S) /\ (\A q \in C : content[q].in \in H)
  BY DEF ChaptersOf, ContentsOf
<1>5. (\A q \in S : f[q] \in Ids) /\ (\A q \in H : g[q] \in Ids)
  BY <1>2 DEF Injections, Children
<1>6. /\ inS \in [S -> Ids \cup {Nowhere}] /\ inH \in [H -> Ids \cup {Nowhere}]
      /\ inC \in [C -> Ids \cup {Nowhere}]
  BY <1>0, <1>4, <1>5
<1>7. subject' = [r \in Ids |-> IF \E q \in DOMAIN f : f[q] = r
                                THEN Row(inS[CHOOSE q \in DOMAIN f : f[q] = r]) ELSE subject[r]]
  <2>1. subject' = [r \in Ids |-> IF \E q \in DOMAIN f : f[q] = r THEN Row(to) ELSE subject[r]]
    BY CloneParts, Zenon
  <2>2. ASSUME NEW r \in Ids, \E q \in DOMAIN f : f[q] = r
        PROVE  inS[CHOOSE q \in DOMAIN f : f[q] = r] = to
    <3>1. (CHOOSE q \in DOMAIN f : f[q] = r) \in S
      BY <1>3, <2>2
    <3> QED
      BY <3>1
  <2> HIDE DEF f, inS
  <2> QED
    BY <2>1, <2>2, Zenon
<1>8. chapter' = [r \in Ids |-> IF \E q \in DOMAIN g : g[q] = r
                                THEN Row(inH[CHOOSE q \in DOMAIN g : g[q] = r]) ELSE chapter[r]]
  <2>1. chapter' = [r \in Ids |-> IF \E q \in DOMAIN g : g[q] = r
                     THEN Row(f[chapter[CHOOSE q \in DOMAIN g : g[q] = r].in]) ELSE chapter[r]]
    BY CloneParts, Zenon
  <2>2. ASSUME NEW r \in Ids, \E q \in DOMAIN g : g[q] = r
        PROVE  inH[CHOOSE q \in DOMAIN g : g[q] = r] = f[chapter[CHOOSE q \in DOMAIN g : g[q] = r].in]
    <3>1. (CHOOSE q \in DOMAIN g : g[q] = r) \in H
      BY <1>3, <2>2
    <3> QED
      BY <3>1
  <2> DEFINE A(r) == IF \E q \in DOMAIN g : g[q] = r
                     THEN Row(f[chapter[CHOOSE q \in DOMAIN g : g[q] = r].in]) ELSE chapter[r]
             B(r) == IF \E q \in DOMAIN g : g[q] = r
                     THEN Row(inH[CHOOSE q \in DOMAIN g : g[q] = r]) ELSE chapter[r]
  <2>3. \A r \in Ids : A(r) = B(r)
    <3> HIDE DEF f, g, inH
    <3> QED
      BY <2>2, Zenon
  <2>4. [r \in Ids |-> A(r)] = [r \in Ids |-> B(r)]
    <3> HIDE DEF A, B
    <3> QED
      BY <2>3, Zenon
  <2> HIDE DEF f, g, inH
  <2> QED
    BY <2>1, <2>4, Zenon
<1>9. content' = [r \in Ids |-> IF \E q \in DOMAIN w : w[q] = r
                                THEN Row(inC[CHOOSE q \in DOMAIN w : w[q] = r]) ELSE content[r]]
  <2>1. content' = [r \in Ids |-> IF \E q \in DOMAIN w : w[q] = r
                     THEN Row(g[content[CHOOSE q \in DOMAIN w : w[q] = r].in]) ELSE content[r]]
    BY CloneParts, Zenon
  <2>2. ASSUME NEW r \in Ids, \E q \in DOMAIN w : w[q] = r
        PROVE  inC[CHOOSE q \in DOMAIN w : w[q] = r] = g[content[CHOOSE q \in DOMAIN w : w[q] = r].in]
    <3>1. (CHOOSE q \in DOMAIN w : w[q] = r) \in C
      BY <1>3, <2>2
    <3> QED
      BY <3>1
  <2> DEFINE A(r) == IF \E q \in DOMAIN w : w[q] = r
                     THEN Row(g[content[CHOOSE q \in DOMAIN w : w[q] = r].in]) ELSE content[r]
             B(r) == IF \E q \in DOMAIN w : w[q] = r
                     THEN Row(inC[CHOOSE q \in DOMAIN w : w[q] = r]) ELSE content[r]
  <2>3. \A r \in Ids : A(r) = B(r)
    <3> HIDE DEF w, g, inC
    <3> QED
      BY <2>2, Zenon
  <2>4. [r \in Ids |-> A(r)] = [r \in Ids |-> B(r)]
    <3> HIDE DEF A, B
    <3> QED
      BY <2>3, Zenon
  <2> HIDE DEF w, g, inC
  <2> QED
    BY <2>1, <2>4, Zenon
<1>10. /\ \A i : IsCopy(from, <<"subject", i>>) <=> \E q \in S : f[q] = i
       /\ \A i : IsCopy(from, <<"chapter", i>>) <=> \E q \in H : g[q] = i
       /\ \A i : IsCopy(from, <<"content", i>>) <=> \E q \in C : w[q] = i
  BY DEF IsCopy
<1>11. (\A q \in S : inS[q] = to) /\ (\A q \in H : inH[q] = f[chapter[q].in])
       /\ (\A q \in C : inC[q] = g[content[q].in])
  OBVIOUS
<1> HIDE DEF S, H, C, f, g, w, inS, inH, inC
<1>12. /\ subject' \in [Ids -> TableRow] /\ Stays(subject, subject')
       /\ \A q \in S : /\ f[q] \in Ids /\ subject[f[q]].in = Nowhere /\ subject'[f[q]].in = to
       /\ \A r \in Ids : (\E q \in S : f[q] = r) \/ subject'[r] = subject[r]
  <2> DEFINE new == subject'
  <2> HIDE DEF new
  <2>1. new = WithCopies(subject, f, inS)
    BY <1>7, Zenon DEF new, WithCopies
  <2>2. subject \in [Ids -> TableRow]
    BY <1>0 DEF RowsOK
  <2>0. S \in SUBSET Ids /\ f \in Injections(S, subject) /\ inS \in [S -> Ids \cup {Nowhere}]
    BY <1>1, <1>2, <1>6
  <2>3. /\ new \in [Ids -> TableRow] /\ Stays(subject, new)
        /\ \A q \in S : /\ f[q] \in Ids /\ subject[f[q]].in = Nowhere
                        /\ new[f[q]].in = inS[q] /\ ~new[f[q]].deleted
        /\ \A r \in Ids : (\E q \in S : f[q] = r) \/ new[r] = subject[r]
    BY <2>0, <2>1, <2>2, CopiesRows
  <2>4. \A q \in S : f[q] \in Ids /\ subject[f[q]].in = Nowhere /\ new[f[q]].in = to
    BY <1>11, <2>3
  <2> QED
    BY <2>3, <2>4, Zenon DEF new
<1>13. /\ chapter' \in [Ids -> TableRow] /\ Stays(chapter, chapter')
       /\ \A q \in H : /\ g[q] \in Ids /\ chapter[g[q]].in = Nowhere
                       /\ chapter'[g[q]].in = f[chapter[q].in]
       /\ \A r \in Ids : (\E q \in H : g[q] = r) \/ chapter'[r] = chapter[r]
  <2> DEFINE new == chapter'
  <2> HIDE DEF new
  <2>1. new = WithCopies(chapter, g, inH)
    BY <1>8, Zenon DEF new, WithCopies
  <2>2. chapter \in [Ids -> TableRow]
    BY <1>0 DEF RowsOK
  <2>0. H \in SUBSET Ids /\ g \in Injections(H, chapter) /\ inH \in [H -> Ids \cup {Nowhere}]
    BY <1>1, <1>2, <1>6
  <2>3. /\ new \in [Ids -> TableRow] /\ Stays(chapter, new)
        /\ \A q \in H : /\ g[q] \in Ids /\ chapter[g[q]].in = Nowhere
                        /\ new[g[q]].in = inH[q] /\ ~new[g[q]].deleted
        /\ \A r \in Ids : (\E q \in H : g[q] = r) \/ new[r] = chapter[r]
    BY <2>0, <2>1, <2>2, CopiesRows
  <2>4. \A q \in H : g[q] \in Ids /\ chapter[g[q]].in = Nowhere /\ new[g[q]].in = f[chapter[q].in]
    BY <1>11, <2>3
  <2> QED
    BY <2>3, <2>4, Zenon DEF new
<1>14. /\ content' \in [Ids -> TableRow] /\ Stays(content, content')
       /\ \A q \in C : /\ w[q] \in Ids /\ content[w[q]].in = Nowhere
                       /\ content'[w[q]].in = g[content[q].in]
       /\ \A r \in Ids : (\E q \in C : w[q] = r) \/ content'[r] = content[r]
  <2> DEFINE new == content'
  <2> HIDE DEF new
  <2>1. new = WithCopies(content, w, inC)
    BY <1>9, Zenon DEF new, WithCopies
  <2>2. content \in [Ids -> TableRow]
    BY <1>0 DEF RowsOK
  <2>0. C \in SUBSET Ids /\ w \in Injections(C, content) /\ inC \in [C -> Ids \cup {Nowhere}]
    BY <1>1, <1>2, <1>6
  <2>3. /\ new \in [Ids -> TableRow] /\ Stays(content, new)
        /\ \A q \in C : /\ w[q] \in Ids /\ content[w[q]].in = Nowhere
                        /\ new[w[q]].in = inC[q] /\ ~new[w[q]].deleted
        /\ \A r \in Ids : (\E q \in C : w[q] = r) \/ new[r] = content[r]
    BY <2>0, <2>1, <2>2, CopiesRows
  <2>4. \A q \in C : w[q] \in Ids /\ content[w[q]].in = Nowhere /\ new[w[q]].in = g[content[q].in]
    BY <1>11, <2>3
  <2> QED
    BY <2>3, <2>4, Zenon DEF new
<1>15. \A q \in H : /\ subject[chapter'[g[q]].in].in = Nowhere
                    /\ subject'[chapter'[g[q]].in].in = to /\ chapter'[g[q]].in \in Ids
  BY <1>4, <1>12, <1>13
<1>16. \A q \in C : subject'[chapter'[content'[w[q]].in].in].in = to /\ content'[w[q]].in \in Ids
                    /\ chapter'[content'[w[q]].in].in \in Ids
  BY <1>4, <1>13, <1>14, <1>15
<1>17. /\ tree[to] = "none" /\ tree' = [tree EXCEPT ![to] = "copied"] /\ adrift' = adrift
  BY CloneParts, Zenon
<1>18. tree' \in [Trees -> {"none", "made", "copied"}] /\ tree'[to] # "none"
       /\ \A t \in Trees : tree[t] # "none" => tree'[t] = tree[t]
  BY <1>0, <1>17 DEF RowsOK
<1>19. RowsOK' /\ Grows
  BY <1>12, <1>13, <1>14, <1>17, <1>18 DEF RowsOK, Grows
<1>20. FormInv'
  <2>0. FormInv /\ to # Nowhere
    BY <1>0
  <2>1. \A s \in Ids : subject'[s].in # Nowhere => subject'[s].in \in Trees /\ tree'[subject'[s].in] # "none"
    BY <1>12, <1>18, <2>0 DEF FormInv
  <2>2. \A h \in Ids : chapter'[h].in # Nowhere => subject'[chapter'[h].in].in # Nowhere
    <3> SUFFICES ASSUME NEW h \in Ids, chapter'[h].in # Nowhere
                 PROVE  subject'[chapter'[h].in].in # Nowhere
      OBVIOUS
    <3>1. CASE \E q \in H : g[q] = h
      BY <1>15, <2>0, <3>1
    <3>2. CASE chapter'[h] = chapter[h]
      <4>1. chapter[h].in \in Ids /\ subject[chapter[h].in].in # Nowhere
        BY <3>2, <1>0, <2>0 DEF FormInv, RowsOK, TableRow
      <4> QED
        BY <1>12, <3>2, <4>1 DEF Stays
    <3> QED
      BY <1>13, <3>1, <3>2
  <2>3. \A c \in Ids : content'[c].in # Nowhere => chapter'[content'[c].in].in # Nowhere
    <3> SUFFICES ASSUME NEW c \in Ids, content'[c].in # Nowhere
                 PROVE  chapter'[content'[c].in].in # Nowhere
      OBVIOUS
    <3>1. CASE \E q \in C : w[q] = c
      BY <1>0, <1>16, <3>1
    <3>2. CASE content'[c] = content[c]
      <4>1. content[c].in \in Ids /\ chapter[content[c].in].in # Nowhere
        BY <3>2, <1>0, <2>0 DEF FormInv, RowsOK, TableRow
      <4> QED
        BY <1>13, <3>2, <4>1 DEF Stays
    <3> QED
      BY <1>14, <3>1, <3>2
  <2> QED
    BY <2>1, <2>2, <2>3 DEF FormInv
<1>21. \A s \in Ids : subject'[s] = subject[s] \/ (subject[s].in = Nowhere /\ subject'[s].in = to)
  BY <1>12
<1>22. \A h \in Ids : \/ chapter'[h] = chapter[h]
                      \/ /\ chapter[h].in = Nowhere /\ chapter'[h].in \in Ids
                         /\ subject[chapter'[h].in].in = Nowhere
                         /\ subject'[chapter'[h].in].in = to
  BY <1>13, <1>15
<1>23. \A i \in Ids : /\ subject'[i] = subject[i] \/ IsCopy(from, <<"subject", i>>)
                      /\ chapter'[i] = chapter[i] \/ IsCopy(from, <<"chapter", i>>)
                      /\ content'[i] = content[i] \/ IsCopy(from, <<"content", i>>)
  BY <1>10, <1>12, <1>13, <1>14
<1>24. \A i \in Ids : /\ IsCopy(from, <<"subject", i>>) =>
                                subject[i].in = Nowhere /\ subject'[i].in = to
                      /\ IsCopy(from, <<"chapter", i>>) =>
                                chapter[i].in = Nowhere /\ subject'[chapter'[i].in].in = to
                      /\ IsCopy(from, <<"content", i>>) =>
                                /\ content[i].in = Nowhere
                                /\ subject'[chapter'[content'[i].in].in].in = to
  <2> SUFFICES ASSUME NEW i \in Ids
               PROVE  /\ IsCopy(from, <<"subject", i>>) => subject[i].in = Nowhere /\ subject'[i].in = to
                      /\ IsCopy(from, <<"chapter", i>>) =>
                                chapter[i].in = Nowhere /\ subject'[chapter'[i].in].in = to
                      /\ IsCopy(from, <<"content", i>>) =>
                                /\ content[i].in = Nowhere
                                /\ subject'[chapter'[content'[i].in].in].in = to
    OBVIOUS
  <2>1. IsCopy(from, <<"subject", i>>) => subject[i].in = Nowhere /\ subject'[i].in = to
    BY <1>10, <1>12
  <2>2. IsCopy(from, <<"chapter", i>>) => chapter[i].in = Nowhere /\ subject'[chapter'[i].in].in = to
    BY <1>10, <1>13, <1>15
  <2>3. IsCopy(from, <<"content", i>>) =>
           content[i].in = Nowhere /\ subject'[chapter'[content'[i].in].in].in = to
    BY <1>10, <1>14, <1>16
  <2> QED
    BY <2>1, <2>2, <2>3
<1>25. \A c \in Ids : content'[c] = content[c] \/ content[c].in = Nowhere
  BY <1>14
<1> QED
  BY <1>14, <1>19, <1>20, <1>21, <1>22, <1>23, <1>24, <1>25

\* What a request makes and has not looked up yet it will, or it is deleted or known
\* to be adrift.
Coming(q, n) == \/ n \in adrift
                \/ n[1] = "subject" /\ (subject[n[2]].deleted \/ n[2] \in q.todo)

EditOK(q) ==
  /\ \A n \in q.made : Stands(n)
  /\ q.pc \notin {"idle", "cascade"} => q.tree \in Trees /\ tree[q.tree] # "none"
  /\ q.pc \in {"idle", "insertSubject", "insertChapter", "insertContent", "godChapter",
               "godCommit", "cascade"} => q.made = {}
  /\ q.pc \in {"insertChapter", "findChapter", "takeChapters", "readChapters"} =>
       q.subject \in Ids /\ subject[q.subject].in = q.tree
  /\ q.pc = "insertContent" => /\ q.chapter \in Ids /\ chapter[q.chapter].in # Nowhere
                               /\ TreeOf(<<"chapter", q.chapter>>) = q.tree
  /\ q.pc \in {"godChapter", "godCommit"} /\ q.subject # Nowhere => subject[q.subject].in = q.tree
  /\ q.pc = "godCommit" /\ q.chapter # Nowhere =>
        q.subject # Nowhere /\ chapter[q.chapter].in = q.subject
  /\ q.pc \in {"nextSubject", "log", "logCycle", "takeChapters", "readChapters"} =>
       \A s \in q.todo : subject[s].in = q.tree
  /\ q.pc \in {"log", "logCycle"} =>
       /\ q.then = "takeChapters" => /\ q.tree \notin Cycled /\ q.subject \in Ids
                                     /\ subject[q.subject].in = q.tree
       /\ \A n \in q.log : /\ Stands(n) /\ (TreeOf(n) = q.tree \/ q.raced)
                           /\ n[1] = "content" => n \in q.made
                           /\ n[1] # "content" => TreeOf(n) = q.tree
       /\ \A n \in q.made : n \in q.log \/ n \in adrift \/ (q.then # "idle" /\ Coming(q, n))
  /\ q.pc = "logCycle" => q.row \in q.log /\ q.tree \in Cycled
  /\ q.pc = "readSubjects" => \A n \in q.made : n[1] = "subject" /\ subject[n[2]].in = q.tree
  /\ q.pc \in {"nextSubject", "takeChapters"} => \A n \in q.made : Coming(q, n)
  /\ q.pc = "readChapters" =>
       \A n \in q.made : Coming(q, n) \/ (n[1] = "chapter" /\ chapter[n[2]].in = q.subject)
  /\ q.pc = "findChapter" => \A n \in q.made : n[1] = "chapter" /\ chapter[n[2]].in = q.subject
  /\ q.pc \in {"insertChapter", "findChapter", "insertContent"} => q.then = "idle" /\ q.todo = {}

\* Between its two lookups a row has the first.
HalfOK(q) ==
  q.pc = "logCycle" => \/ q.row \in adrift \/ q.raced
                       \/ courseLookup[q.row[1]][q.row[2]] = CourseOf[TreeOf(q.row)]

EditInv == \A e \in Editors : edit[e] \in Edit /\ EditOK(edit[e]) /\ HalfOK(edit[e])

\* The same request, that another one may have overtaken.
Same(q, p) ==
  /\ p \in Edit /\ p.pc = q.pc /\ p.tree = q.tree /\ p.subject = q.subject /\ p.chapter = q.chapter
  /\ p.todo = q.todo /\ p.log = q.log /\ p.row = q.row /\ p.then = q.then /\ p.made = q.made
  /\ q.raced => p.raced

\* A key names a table and an id.
LEMMA KeyParts ==
  ASSUME NEW n \in Keys
  PROVE  /\ n[1] \in {"subject", "chapter", "content"} /\ n[2] \in Ids /\ n = <<n[1], n[2]>>
BY DEF Keys, Tables

\* A row that stays where it is stays in its tree.
LEMMA TreeFrame ==
  ASSUME RowsOK, FormInv, Grows, NEW n \in Keys, Stands(n),
         n[1] = "content" => content'[n[2]].in = content[n[2]].in
  PROVE  TreeOf(n)' = TreeOf(n) /\ Stands(n)'
<1> DEFINE i == n[2]
<1>1. i \in Ids /\ (n = <<"subject", i>> \/ n = <<"chapter", i>> \/ n = <<"content", i>>)
  BY KeyParts
<1>2. /\ TreeOf(<<"subject", i>>)' = subject'[i].in
      /\ TreeOf(<<"chapter", i>>)' = subject'[chapter'[i].in].in
      /\ TreeOf(<<"content", i>>)' = subject'[chapter'[content'[i].in].in].in
  BY DEF TreeOf
<1>3. CASE n = <<"subject", i>>
  BY <1>1, <1>2, <1>3, TreeOfRow DEF Stands, Grows, Stays
<1>4. CASE n = <<"chapter", i>>
  <2>1. chapter[i].in # Nowhere /\ chapter[i].in \in Ids /\ subject[chapter[i].in].in # Nowhere
    BY <1>1, <1>4 DEF Stands, FormInv, RowsOK, TableRow
  <2> QED
    BY <1>1, <1>2, <1>4, <2>1, TreeOfRow DEF Stands, Grows, Stays
<1>5. CASE n = <<"content", i>>
  <2>1. content[i].in # Nowhere /\ content'[i].in = content[i].in
    BY <1>1, <1>5 DEF Stands
  <2>2. content[i].in \in Ids /\ chapter[content[i].in].in # Nowhere
        /\ chapter[content[i].in].in \in Ids /\ subject[chapter[content[i].in].in].in # Nowhere
    BY <1>1, <2>1 DEF FormInv, RowsOK, TableRow
  <2>3. chapter'[content[i].in].in = chapter[content[i].in].in
    BY <2>2 DEF Grows, Stays
  <2>4. subject'[chapter[content[i].in].in].in = subject[chapter[content[i].in].in].in
    BY <2>2 DEF Grows, Stays
  <2>5. TreeOf(n)' = TreeOf(n)
    BY <1>1, <1>2, <1>5, <2>1, <2>3, <2>4, TreeOfRow
  <2> QED
    BY <1>5, <2>1, <2>5 DEF Stands
<1> QED
  BY <1>1, <1>3, <1>4, <1>5

\* What a request carries stays true when others add, delete and move rows.
LEMMA EditFrame ==
  ASSUME RowsOK, FormInv, Grows, NEW q \in Edit, EditOK(q), NEW p, Same(q, p),
         \A c \in Ids : content[c].in # Nowhere =>
           /\ content'[c].in # Nowhere
           /\ content'[c].in = content[c].in \/ (<<"content", c>> \in q.made => p.raced)
  PROVE  EditOK(p)'
<1>0. Nowhere \notin Trees /\ Nowhere \notin Ids
  BY TreeAssumption
<1>1. /\ q.made \subseteq Keys /\ q.log \subseteq Keys /\ q.todo \subseteq Ids
      /\ q.tree \in Trees \cup {Nowhere} /\ q.subject \in Ids \cup {Nowhere}
      /\ q.chapter \in Ids \cup {Nowhere}
  BY DEF Edit
<1>2. /\ \A s \in Ids : subject[s].in # Nowhere => /\ subject'[s].in = subject[s].in
                                                   /\ subject[s].deleted => subject'[s].deleted
      /\ \A h \in Ids : chapter[h].in # Nowhere => chapter'[h].in = chapter[h].in
      /\ \A t \in Trees : tree[t] # "none" => tree'[t] = tree[t]
      /\ adrift \subseteq adrift'
  BY DEF Grows, Stays
<1>3. \A n \in q.log : q.pc \in {"log", "logCycle"} =>
          /\ Stands(n)' /\ (TreeOf(n)' = p.tree \/ p.raced)
          /\ n[1] = "content" => n \in p.made
          /\ n[1] # "content" => TreeOf(n)' = p.tree
  <2> SUFFICES ASSUME NEW n \in q.log, q.pc \in {"log", "logCycle"}
               PROVE  /\ Stands(n)' /\ (TreeOf(n)' = p.tree \/ p.raced)
                      /\ n[1] = "content" => n \in p.made
                      /\ n[1] # "content" => TreeOf(n)' = p.tree
    OBVIOUS
  <2>1. /\ Stands(n) /\ (TreeOf(n) = q.tree \/ q.raced)
        /\ n[1] = "content" => n \in q.made
        /\ n[1] # "content" => TreeOf(n) = q.tree
    BY DEF EditOK
  <2>2. p.tree = q.tree /\ p.made = q.made /\ (q.raced => p.raced) /\ n \in Keys
    BY <1>1 DEF Same
  <2>3. CASE n[1] = "content" => content'[n[2]].in = content[n[2]].in
    <3>1. TreeOf(n)' = TreeOf(n) /\ Stands(n)'
      BY <2>1, <2>2, <2>3, TreeFrame
    <3> QED
      BY <2>1, <2>2, <3>1
  <2>4. CASE n[1] = "content" /\ content'[n[2]].in # content[n[2]].in
    <3>1. n \in q.made /\ n = <<"content", n[2]>> /\ n[2] \in Ids /\ content[n[2]].in # Nowhere
      BY <2>1, <2>2, <2>4, KeyParts DEF Stands
    <3>2. p.raced /\ content'[n[2]].in # Nowhere
      BY <2>4, <3>1
    <3>3. Stands(n)'
      BY <2>4, <3>2 DEF Stands
    <3> QED
      BY <2>1, <2>2, <2>4, <3>2, <3>3
  <2> QED
    BY <2>3, <2>4
<1>4. \A n \in q.made : n \in Keys /\ Stands(n) /\ Stands(n)'
  <2> SUFFICES ASSUME NEW n \in q.made PROVE n \in Keys /\ Stands(n) /\ Stands(n)'
    OBVIOUS
  <2>1. n \in Keys /\ Stands(n)
    BY <1>1 DEF EditOK
  <2>2. n[2] \in Ids
    BY <2>1, KeyParts
  <2>3. Stands(n)'
    <3>1. n[1] = "subject" => subject'[n[2]].in # Nowhere
      BY <1>2, <2>1, <2>2 DEF Stands
    <3>2. n[1] = "chapter" => chapter'[n[2]].in # Nowhere
      BY <1>2, <2>1, <2>2 DEF Stands
    <3>3. n[1] = "content" => content'[n[2]].in # Nowhere
      BY <2>1, <2>2 DEF Stands
    <3> QED
      BY <3>1, <3>2, <3>3 DEF Stands
  <2> QED
    BY <2>1, <2>3
<1>5. \A n \in q.made : Coming(q, n) => Coming(p, n)'
  <2> SUFFICES ASSUME NEW n \in q.made, Coming(q, n)
               PROVE  n \in adrift' \/ (n[1] = "subject" /\ (subject'[n[2]].deleted \/ n[2] \in p.todo))
    BY DEF Coming
  <2>1. n[1] = "subject" => n[2] \in Ids /\ subject[n[2]].in # Nowhere
    BY <1>4, KeyParts DEF Stands
  <2>2. p.todo = q.todo
    BY DEF Same
  <2> QED
    BY <1>2, <2>1, <2>2 DEF Coming
<1>6. /\ q.pc = p.pc /\ q.tree = p.tree /\ q.subject = p.subject /\ q.chapter = p.chapter
      /\ q.todo = p.todo /\ q.log = p.log /\ q.row = p.row /\ q.then = p.then /\ q.made = p.made
  BY DEF Same
<1>7. q.tree \in Trees /\ tree[q.tree] # "none" => tree'[q.tree] # "none"
  BY <1>2
<1>8. \A s \in Ids : subject[s].in = q.tree /\ q.tree \in Trees => subject'[s].in = q.tree
  BY <1>0, <1>2
<1>9. \A h \in Ids : chapter[h].in = q.subject /\ q.subject # Nowhere => chapter'[h].in = q.subject
  BY <1>2
<1>10. q.pc \notin {"idle", "cascade"} => q.tree \in Trees /\ tree[q.tree] # "none"
  BY DEF EditOK
<1>11. q.pc \in {"insertChapter", "findChapter", "takeChapters", "readChapters"} =>
         q.subject \in Ids /\ subject'[q.subject].in = q.tree
  BY <1>8, <1>10 DEF EditOK
<1>12. q.pc = "insertContent" => /\ q.chapter \in Ids /\ chapter'[q.chapter].in # Nowhere
                                 /\ TreeOf(<<"chapter", q.chapter>>)' = q.tree
  <2> SUFFICES ASSUME q.pc = "insertContent"
               PROVE  /\ q.chapter \in Ids /\ chapter'[q.chapter].in # Nowhere
                      /\ TreeOf(<<"chapter", q.chapter>>)' = q.tree
    OBVIOUS
  <2>1. q.chapter \in Ids /\ chapter[q.chapter].in # Nowhere /\ TreeOf(<<"chapter", q.chapter>>) = q.tree
    BY DEF EditOK
  <2>2. <<"chapter", q.chapter>> \in Keys /\ Stands(<<"chapter", q.chapter>>)
    BY <2>1 DEF Keys, Tables, Stands
  <2>3. TreeOf(<<"chapter", q.chapter>>)' = TreeOf(<<"chapter", q.chapter>>)
    BY <2>2, TreeFrame
  <2> QED
    BY <1>2, <2>1, <2>3
<1>13. q.pc \in {"godChapter", "godCommit"} /\ q.subject # Nowhere => subject'[q.subject].in = q.tree
  BY <1>1, <1>8, <1>10 DEF EditOK
<1>14. q.pc = "godCommit" /\ q.chapter # Nowhere =>
         q.subject # Nowhere /\ chapter'[q.chapter].in = q.subject
  BY <1>1, <1>9 DEF EditOK
<1>15. q.pc \in {"nextSubject", "log", "logCycle", "takeChapters", "readChapters"} =>
         \A s \in q.todo : subject'[s].in = q.tree
  BY <1>1, <1>8, <1>10 DEF EditOK
<1>16. q.pc \in {"log", "logCycle"} /\ q.then = "takeChapters" =>
         q.tree \notin Cycled /\ q.subject \in Ids /\ subject'[q.subject].in = q.tree
  BY <1>8, <1>10 DEF EditOK
<1>17. q.pc \in {"log", "logCycle"} =>
         \A n \in q.made : n \in q.log \/ n \in adrift' \/ (q.then # "idle" /\ Coming(p, n)')
  BY <1>2, <1>5 DEF EditOK
<1>18. q.pc = "logCycle" => q.row \in q.log /\ q.tree \in Cycled
  BY DEF EditOK
<1>19. q.pc = "readSubjects" => \A n \in q.made : n[1] = "subject" /\ subject'[n[2]].in = q.tree
  <2> SUFFICES ASSUME q.pc = "readSubjects", NEW n \in q.made
               PROVE  n[1] = "subject" /\ subject'[n[2]].in = q.tree
    OBVIOUS
  <2>1. n[1] = "subject" /\ subject[n[2]].in = q.tree /\ q.tree \in Trees
    BY <1>10 DEF EditOK
  <2>2. n[2] \in Ids
    BY <1>4, KeyParts
  <2> QED
    BY <1>8, <2>1, <2>2
<1>20. q.pc \in {"nextSubject", "takeChapters"} => \A n \in q.made : Coming(p, n)'
  BY <1>5 DEF EditOK
<1>21. \A n \in q.made : n[1] = "chapter" /\ chapter[n[2]].in = q.subject => chapter'[n[2]].in = q.subject
  <2> SUFFICES ASSUME NEW n \in q.made, n[1] = "chapter", chapter[n[2]].in = q.subject
               PROVE  chapter'[n[2]].in = q.subject
    OBVIOUS
  <2>1. n[2] \in Ids /\ chapter[n[2]].in # Nowhere
    BY <1>4, KeyParts DEF Stands
  <2> QED
    BY <1>2, <2>1
<1>22. q.pc = "readChapters" =>
         \A n \in q.made : Coming(p, n)' \/ (n[1] = "chapter" /\ chapter'[n[2]].in = q.subject)
  BY <1>5, <1>21 DEF EditOK
<1>23. q.pc = "findChapter" => \A n \in q.made : n[1] = "chapter" /\ chapter'[n[2]].in = q.subject
  BY <1>21 DEF EditOK
<1>24. q.pc \in {"idle", "insertSubject", "insertChapter", "insertContent", "godChapter",
                 "godCommit", "cascade"} => q.made = {}
  BY DEF EditOK
<1>25. EditOK(p)' <=> /\ \A n \in p.made : Stands(n)'
                      /\ p.pc \notin {"idle", "cascade"} => p.tree \in Trees /\ tree'[p.tree] # "none"
                      /\ p.pc \in {"idle", "insertSubject", "insertChapter", "insertContent", "godChapter",
                                   "godCommit", "cascade"} => p.made = {}
                      /\ p.pc \in {"insertChapter", "findChapter", "takeChapters", "readChapters"} =>
                           p.subject \in Ids /\ subject'[p.subject].in = p.tree
                      /\ p.pc = "insertContent" => /\ p.chapter \in Ids /\ chapter'[p.chapter].in # Nowhere
                                                   /\ TreeOf(<<"chapter", p.chapter>>)' = p.tree
                      /\ p.pc \in {"godChapter", "godCommit"} /\ p.subject # Nowhere =>
                           subject'[p.subject].in = p.tree
                      /\ p.pc = "godCommit" /\ p.chapter # Nowhere =>
                           p.subject # Nowhere /\ chapter'[p.chapter].in = p.subject
                      /\ p.pc \in {"nextSubject", "log", "logCycle", "takeChapters", "readChapters"} =>
                           \A s \in p.todo : subject'[s].in = p.tree
                      /\ p.pc \in {"log", "logCycle"} =>
                           /\ p.then = "takeChapters" => /\ p.tree \notin Cycled /\ p.subject \in Ids
                                                         /\ subject'[p.subject].in = p.tree
                           /\ \A n \in p.log : /\ Stands(n)' /\ (TreeOf(n)' = p.tree \/ p.raced)
                                               /\ n[1] = "content" => n \in p.made
                                               /\ n[1] # "content" => TreeOf(n)' = p.tree
                           /\ \A n \in p.made : n \in p.log \/ n \in adrift' \/ (p.then # "idle" /\ Coming(p, n)')
                      /\ p.pc = "logCycle" => p.row \in p.log /\ p.tree \in Cycled
                      /\ p.pc = "readSubjects" => \A n \in p.made : n[1] = "subject" /\ subject'[n[2]].in = p.tree
                      /\ p.pc \in {"nextSubject", "takeChapters"} => \A n \in p.made : Coming(p, n)'
                      /\ p.pc = "readChapters" =>
                           \A n \in p.made : Coming(p, n)' \/ (n[1] = "chapter" /\ chapter'[n[2]].in = p.subject)
                      /\ p.pc = "findChapter" => \A n \in p.made : n[1] = "chapter" /\ chapter'[n[2]].in = p.subject
                      /\ p.pc \in {"insertChapter", "findChapter", "insertContent"} => p.then = "idle" /\ p.todo = {}
  BY Zenon DEF EditOK
<1>26. q.pc \in {"insertChapter", "findChapter", "insertContent"} => q.then = "idle" /\ q.todo = {}
  BY DEF EditOK
<1> QED
  BY <1>26, <1>3, <1>4, <1>6, <1>7, <1>10, <1>11, <1>12, <1>13, <1>14, <1>15, <1>16, <1>17, <1>18, <1>19,
     <1>20, <1>22, <1>23, <1>24, <1>25

\* What the lookups say of a row agrees with where it is.
Right(n) == /\ courseLookup[n[1]][n[2]] = CourseOf[TreeOf(n)]
            /\ TreeOf(n) \in Cycled => cycleLookup[n[1]][n[2]] = TreeOf(n)

\* What PlacesFound says of one row.
Found(n) == Right(n) \/ n \in adrift \/ \E e \in Editors : n \in edit[e].made

\* A step writes the lookups of a row that is there as its place wants them, or the
\* row is adrift.
LooksKept ==
  \A n \in Keys : Stands(n) =>
    /\ \/ courseLookup'[n[1]][n[2]] = courseLookup[n[1]][n[2]]
       \/ courseLookup'[n[1]][n[2]] = CourseOf[TreeOf(n)'] \/ n \in adrift'
    /\ \/ cycleLookup'[n[1]][n[2]] = cycleLookup[n[1]][n[2]]
       \/ cycleLookup'[n[1]][n[2]] = TreeOf(n)' \/ n \in adrift'

\* Rows are put below rows that are there.
LEMMA FormFrame ==
  ASSUME RowsOK, FormInv, RowsOK', Grows,
         \A s \in Ids : \/ subject'[s].in = subject[s].in
                        \/ subject'[s].in \in Trees /\ tree'[subject'[s].in] # "none",
         \A h \in Ids : \/ chapter'[h].in = chapter[h].in
                        \/ subject'[chapter'[h].in].in # Nowhere,
         \A c \in Ids : \/ content'[c].in = content[c].in
                        \/ chapter'[content'[c].in].in # Nowhere
  PROVE  FormInv'
<1>1. \A s \in Ids : subject'[s].in # Nowhere => subject'[s].in \in Trees /\ tree'[subject'[s].in] # "none"
  BY DEF FormInv, Grows
<1>2. /\ \A i \in Ids : chapter[i].in \in Ids \cup {Nowhere} /\ content[i].in \in Ids \cup {Nowhere}
      /\ \A i \in Ids : subject[i].in # Nowhere => subject'[i].in # Nowhere
      /\ \A i \in Ids : chapter[i].in # Nowhere => chapter'[i].in # Nowhere
  BY DEF RowsOK, TableRow, Grows, Stays
<1>3. \A h \in Ids : chapter'[h].in # Nowhere => subject'[chapter'[h].in].in # Nowhere
  BY <1>2 DEF FormInv
<1>4. \A c \in Ids : content'[c].in # Nowhere => chapter'[content'[c].in].in # Nowhere
  BY <1>2 DEF FormInv
<1> QED
  BY <1>1, <1>3, <1>4 DEF FormInv

\* Between its two lookups a row keeps the first, whatever others do.
LEMMA HalfFrame ==
  ASSUME RowsOK, FormInv, Grows, LooksKept, NEW q \in Edit, EditOK(q), HalfOK(q), NEW p, Same(q, p),
         \A c \in Ids : content[c].in # Nowhere =>
           content'[c].in = content[c].in \/ (<<"content", c>> \in q.made => p.raced)
  PROVE  HalfOK(p)'
<1> SUFFICES ASSUME q.pc = "logCycle", q.row \notin adrift', ~p.raced
             PROVE  courseLookup'[q.row[1]][q.row[2]] = CourseOf[TreeOf(q.row)']
  BY DEF HalfOK, Same
<1> DEFINE n == q.row
<1>1. n \in q.log /\ n \in Keys
  BY DEF EditOK, Edit
<1>2. Stands(n) /\ (n[1] = "content" => n \in q.made)
  BY <1>1 DEF EditOK
<1>3. ~q.raced /\ n \notin adrift
  BY DEF Same, Grows
<1>4. courseLookup[n[1]][n[2]] = CourseOf[TreeOf(n)]
  BY <1>3 DEF HalfOK
<1> HIDE DEF n
<1>5. n[1] = "content" => content'[n[2]].in = content[n[2]].in
  BY <1>1, <1>2, KeyParts DEF Stands
<1>6. TreeOf(n)' = TreeOf(n)
  BY <1>1, <1>2, <1>5, TreeFrame
<1>7. \/ courseLookup'[n[1]][n[2]] = courseLookup[n[1]][n[2]]
      \/ courseLookup'[n[1]][n[2]] = CourseOf[TreeOf(n)'] \/ n \in adrift'
  BY <1>1, <1>2 DEF LooksKept
<1>8. courseLookup'[n[1]][n[2]] = CourseOf[TreeOf(n)']
  BY <1>4, <1>6, <1>7 DEF n
<1> QED
  BY <1>8 DEF n

EditTyped == edit \in [Editors -> Edit]

\* A step of one request: the others go on as they were, or know they were overtaken.
LEMMA EditStep ==
  ASSUME RowsOK, FormInv, Grows, LooksKept, EditTyped, EditInv, NEW e \in Editors, NEW r \in Edit,
         NEW others, Raced(e, r, others), EditOK(r)', HalfOK(r)',
         \A c \in Ids : content[c].in # Nowhere =>
           /\ content'[c].in # Nowhere
           /\ \/ content'[c].in = content[c].in
              \/ \A f \in Editors \ {e} : <<"content", c>> \in edit[f].made => f \in others
  PROVE  /\ EditTyped' /\ EditInv' /\ edit'[e] = r
         /\ \A f \in Editors \ {e} : Same(edit[f], edit'[f]) /\ (f \in others => edit'[f].raced)
<1> DEFINE yes == TRUE
           P(f) == [edit[f] EXCEPT !.raced = yes]
<1>1. yes \in BOOLEAN /\ yes
  OBVIOUS
<1>2. edit' = [f \in Editors |-> IF f = e THEN r ELSE IF f \in others THEN P(f) ELSE edit[f]]
  BY Zenon DEF Raced
<1> HIDE DEF yes
<1>3. \A f \in Editors : P(f) \in Edit /\ Same(edit[f], P(f)) /\ P(f).raced
  <2> TAKE f \in Editors
  <2>1. edit[f] \in Edit
    BY DEF EditInv
  <2>2. /\ P(f) \in Edit /\ P(f).pc = edit[f].pc /\ P(f).tree = edit[f].tree
        /\ P(f).subject = edit[f].subject /\ P(f).chapter = edit[f].chapter
        /\ P(f).todo = edit[f].todo /\ P(f).log = edit[f].log /\ P(f).row = edit[f].row
        /\ P(f).then = edit[f].then /\ P(f).made = edit[f].made /\ P(f).raced = yes
    BY <1>1, <2>1 DEF Edit
  <2> QED
    BY <1>1, <2>2 DEF Same
<1> HIDE DEF P
<1>4. /\ edit'[e] = r
      /\ \A f \in Editors \ {e} : edit'[f] = IF f \in others THEN P(f) ELSE edit[f]
  BY <1>2
<1>5. \A f \in Editors : edit[f] \in Edit
  BY DEF EditInv
<1>6. edit' \in [Editors -> Edit]
  BY <1>2, <1>3, <1>5
<1>7. \A f \in Editors \ {e} : Same(edit[f], edit'[f]) /\ (f \in others => edit'[f].raced)
  BY <1>3, <1>4, <1>5 DEF Same
<1>8. \A f \in Editors : EditOK(edit[f])' /\ HalfOK(edit[f])'
  <2> TAKE f \in Editors
  <2> PICK p \in Edit : p = edit'[f]
    BY <1>6
  <2> PICK q \in Edit : q = edit[f]
    BY <1>5
  <2>1. CASE f = e
    <3>1. p = r
      BY <1>4, <2>1
    <3>2. EditOK(p)' /\ HalfOK(p)'
      BY <3>1
    <3> QED
      BY <3>2, Zenon
  <2>2. CASE f # e
    <3>1. EditOK(q) /\ HalfOK(q) /\ Same(q, p) /\ (f \in others => p.raced)
      BY <1>7, <2>2 DEF EditInv
    <3>2. \A c \in Ids : content[c].in # Nowhere =>
           /\ content'[c].in # Nowhere
           /\ content'[c].in = content[c].in \/ (<<"content", c>> \in q.made => p.raced)
      BY <2>2, <3>1
    <3>4. EditOK(p)'
      BY <3>1, <3>2, EditFrame
    <3>5. HalfOK(p)'
      BY <3>1, <3>2, HalfFrame
    <3> QED
      BY <3>4, <3>5, Zenon
  <2> QED
    BY <2>1, <2>2
<1>9. \A f \in Editors : edit'[f] \in Edit
  BY <1>6
<1>10. EditInv'
  BY <1>8, <1>9, Zenon DEF EditInv
<1> QED
  BY <1>4, <1>6, <1>7, <1>10 DEF EditTyped

\* The rows the lookups are for, in other words.
LEMMA LiveRow ==
  ASSUME NEW n \in Keys
  PROVE  n \in LiveRows <=> /\ Stands(n)
                            /\ n[1] = "subject" => ~subject[n[2]].deleted
                            /\ n[1] = "chapter" => ~chapter[n[2]].deleted
                            /\ n[1] = "content" => ~content[n[2]].deleted
<1>1. n[1] \in {"subject", "chapter", "content"}
  BY KeyParts
<1>2. CASE n[1] = "subject"
  BY <1>2, Zenon DEF LiveRows, Stands
<1>3. CASE n[1] = "chapter"
  BY <1>3, Zenon DEF LiveRows, Stands
<1>4. CASE n[1] = "content"
  BY <1>4, Zenon DEF LiveRows, Stands
<1> QED
  BY <1>1, <1>2, <1>3, <1>4

\* A row is live when it is there and, for a subject, not deleted.
LEMMA LiveRowsAre ==
  \A m \in Keys : m \in LiveRows <=>
                            /\ Stands(m)
                            /\ m[1] = "subject" => ~subject[m[2]].deleted
                            /\ m[1] = "chapter" => ~chapter[m[2]].deleted
                            /\ m[1] = "content" => ~content[m[2]].deleted
BY LiveRow

\* PlacesFound, row by row.
LEMMA PlacesAre == PlacesFound <=> \A n \in Keys : n \in LiveRows => Found(n)
<1>1. LiveRows \subseteq Keys
  BY DEF LiveRows
<1>2. PlacesFound <=> \A n \in LiveRows : Found(n)
  BY Zenon DEF PlacesFound, Found, Right
<1> QED
  BY <1>1, <1>2

\* A row that stays is found as before, or by the request that moves it; what a
\* request no longer holds, and what is new, the step answers for.
LEMMA PlacesStep ==
  ASSUME RowsOK, FormInv, Grows, LooksKept, PlacesFound,
         \A c \in Ids : content[c].in # Nowhere =>
           /\ content[c].deleted => content'[c].deleted
           /\ content'[c].in = content[c].in \/ Found(<<"content", c>>)',
         \A n \in Keys : n \in LiveRows' /\ (\E f \in Editors : n \in edit[f].made) => Found(n)',
         \A n \in Keys : n \in LiveRows' /\ ~Stands(n) => Found(n)'
  PROVE  PlacesFound'
<1>0. (\A m \in Keys : m \in LiveRows <=>
                            /\ Stands(m)
                            /\ m[1] = "subject" => ~subject[m[2]].deleted
                            /\ m[1] = "chapter" => ~chapter[m[2]].deleted
                            /\ m[1] = "content" => ~content[m[2]].deleted)'
  BY LiveRowsAre, PTL
<1>1. ASSUME NEW n \in Keys, n \in LiveRows' PROVE Found(n)'
  <2>1. CASE ~Stands(n)
    BY <1>1, <2>1
  <2>2. CASE Stands(n) /\ n[1] = "content" /\ content'[n[2]].in # content[n[2]].in
    <3>1. n[2] \in Ids /\ n = <<"content", n[2]>>
      BY <2>2, KeyParts
    <3> DEFINE c == n[2]
    <3>2. content[c].in # Nowhere
      BY <2>2 DEF Stands
    <3> HIDE DEF c
    <3>3. c \in Ids /\ n = <<"content", c>> /\ content'[c].in # content[c].in
      BY <2>2, <3>1 DEF c
    <3>4. Found(<<"content", c>>)'
      BY <3>2, <3>3
    <3> PICK i \in Ids : i = c
      BY <3>3
    <3>5. Found(<<"content", i>>)' /\ n = <<"content", i>>
      BY <3>3, <3>4
    <3> QED
      BY <3>5, Zenon
  <2>3. CASE Stands(n) /\ (n[1] = "content" => content'[n[2]].in = content[n[2]].in)
    <3>0. n[2] \in Ids
      BY KeyParts
    <3>1. n \in LiveRows
      <4>1. /\ n[1] = "subject" => ~subject'[n[2]].deleted
            /\ n[1] = "chapter" => ~chapter'[n[2]].deleted
            /\ n[1] = "content" => ~content'[n[2]].deleted
        BY <1>0, <1>1
      <4>2. /\ n[1] = "subject" => ~subject[n[2]].deleted
            /\ n[1] = "chapter" => ~chapter[n[2]].deleted
            /\ n[1] = "content" => ~content[n[2]].deleted
        BY <2>3, <3>0, <4>1 DEF Grows, Stays, Stands
      <4> QED
        BY <2>3, <4>2, LiveRow
    <3>2. Found(n)
      BY <3>1, PlacesAre
    <3>3. CASE \E f \in Editors : n \in edit[f].made
      BY <1>1, <3>3
    <3>4. CASE n \in adrift
      BY <3>4 DEF Found, Grows
    <3>5. CASE Right(n)
      <4>1. TreeOf(n)' = TreeOf(n)
        BY <2>3, TreeFrame
      <4>2. /\ \/ courseLookup'[n[1]][n[2]] = courseLookup[n[1]][n[2]]
               \/ courseLookup'[n[1]][n[2]] = CourseOf[TreeOf(n)'] \/ n \in adrift'
            /\ \/ cycleLookup'[n[1]][n[2]] = cycleLookup[n[1]][n[2]]
               \/ cycleLookup'[n[1]][n[2]] = TreeOf(n)' \/ n \in adrift'
        BY <2>3 DEF LooksKept
      <4>3. n \in adrift' \/ (/\ courseLookup'[n[1]][n[2]] = CourseOf[TreeOf(n)']
                              /\ TreeOf(n)' \in Cycled => cycleLookup'[n[1]][n[2]] = TreeOf(n)')
        BY <3>5, <4>1, <4>2 DEF Right
      <4> QED
        BY <4>3, Zenon DEF Found, Right
    <3> QED
      BY <3>2, <3>3, <3>4, <3>5 DEF Found
  <2> QED
    BY <2>1, <2>2, <2>3
<1>2. (PlacesFound <=> \A n \in Keys : n \in LiveRows => Found(n))'
  BY PlacesAre, PTL
<1> QED
  BY <1>1, <1>2

\* A request that found its place empty, and was not overtaken, still finds it so.
Alone(q) ==
  ~q.raced =>
    /\ \/ q.pc = "insertSubject"
       \/ q.pc \in {"godChapter", "godCommit"} /\ q.subject = Nowhere
       => Live(subject, q.tree) = {}
    /\ \/ q.pc = "insertChapter"
       \/ q.pc = "godCommit" /\ q.subject # Nowhere /\ q.chapter = Nowhere
       => Live(chapter, q.subject) = {}

OneOf(S) == \A a, b \in S : a = b

SubjectsOnce == \A t \in Trees : \/ tree[t] = "copied" \/ <<"tree", t>> \in twinned
                                 \/ OneOf(Live(subject, t))
ChaptersOnce == \A s \in Ids : \/ subject[s].in = Nowhere \/ <<"subject", s>> \in twinned
                               \/ tree[subject[s].in] = "copied" \/ OneOf(Live(chapter, s))
TwinInv == (\A e \in Editors : Alone(edit[e])) /\ SubjectsOnce /\ ChaptersOnce

\* A step adds subjects to a new copy, or to a tree where others who want one are
\* told, and a second one is known; and so it is with chapters.
SubjectsKept(others) ==
  \A t \in Trees : \/ Live(subject', t) \subseteq Live(subject, t)
                   \/ tree[t] = "none" /\ tree'[t] = "copied"
                   \/ /\ WantSubject(t) \subseteq others
                      /\ <<"tree", t>> \in twinned' \/ OneOf(Live(subject', t))
ChaptersKept(others) ==
  \A s \in Ids : \/ Live(chapter', s) \subseteq Live(chapter, s)
                 \/ subject[s].in = Nowhere /\ subject'[s].in \in Trees /\ tree'[subject'[s].in] = "copied"
                 \/ /\ WantChapter(s) \subseteq others
                    /\ <<"subject", s>> \in twinned' \/ OneOf(Live(chapter', s))

\* A step of one request keeps TwinInv when whoever found the place it fills empty,
\* and has not filled it yet, is marked as raced.
LEMMA TwinStep ==
  ASSUME RowsOK, FormInv, Grows, EditInv, TwinInv, twinned \subseteq twinned',
         NEW e \in Editors, NEW others, SubjectsKept(others), ChaptersKept(others), Alone(edit[e])',
         \A f \in Editors \ {e} : Same(edit[f], edit'[f]) /\ (f \in others => edit'[f].raced)
  PROVE  TwinInv'
<1>0. Nowhere \notin Trees /\ Nowhere \notin Ids
  BY TreeAssumption
<1>1. SubjectsOnce'
  <2> SUFFICES ASSUME NEW t \in Trees, tree'[t] # "copied", <<"tree", t>> \notin twinned'
               PROVE  OneOf(Live(subject', t))
    BY DEF SubjectsOnce, OneOf, Live, Children
  <2>1. tree[t] # "copied" /\ <<"tree", t>> \notin twinned
    BY DEF Grows
  <2>2. OneOf(Live(subject, t))
    BY <2>1 DEF TwinInv, SubjectsOnce
  <2> QED
    BY <2>2 DEF SubjectsKept, OneOf
<1>2. ChaptersOnce'
  <2> SUFFICES ASSUME NEW s \in Ids, subject'[s].in # Nowhere, <<"subject", s>> \notin twinned',
                      tree'[subject'[s].in] # "copied"
               PROVE  OneOf(Live(chapter', s))
    BY DEF ChaptersOnce, OneOf, Live, Children
  <2>1. CASE ~(Live(chapter', s) \subseteq Live(chapter, s))
    BY <2>1 DEF ChaptersKept
  <2>2. CASE Live(chapter', s) \subseteq Live(chapter, s) /\ subject[s].in = Nowhere
    <3>1. Live(chapter, s) = {}
      BY <2>2, <1>0 DEF FormInv, Live, Children
    <3> QED
      BY <2>2, <3>1 DEF OneOf
  <2>3. CASE Live(chapter', s) \subseteq Live(chapter, s) /\ subject[s].in # Nowhere
    <3>1. subject[s].in = subject'[s].in
      BY <2>3 DEF Grows, Stays
    <3>2. subject[s].in \in Trees /\ tree[subject[s].in] # "copied"
      BY <2>3, <3>1 DEF FormInv, Grows
    <3>3. OneOf(Live(chapter, s))
      BY <2>3, <3>2 DEF TwinInv, ChaptersOnce
    <3> QED
      BY <2>3, <3>3 DEF OneOf
  <2> QED
    BY <2>1, <2>2, <2>3
<1>3. \A f \in Editors \ {e} : Alone(edit[f])'
  <2> TAKE f \in Editors \ {e}
  <2> DEFINE q == edit[f]
             p == edit'[f]
  <2>1. /\ q \in Edit /\ EditOK(q) /\ Alone(q) /\ Same(q, p) /\ (f \in others => p.raced)
    BY DEF EditInv, TwinInv
  <2>2. f \in Editors /\ p.pc = q.pc /\ p.tree = q.tree /\ p.subject = q.subject /\ p.chapter = q.chapter
        /\ (q.raced => p.raced)
    BY <2>1 DEF Same
  <2>3. ASSUME ~p.raced, \/ p.pc = "insertSubject"
                         \/ p.pc \in {"godChapter", "godCommit"} /\ p.subject = Nowhere
        PROVE  Live(subject', p.tree) = {}
    <3>1. q.tree \in Trees /\ tree[q.tree] # "none" /\ Live(subject, q.tree) = {}
      BY <2>1, <2>2, <2>3 DEF Alone, EditOK
    <3>2. f \in WantSubject(q.tree) /\ f \notin others
      BY <2>1, <2>2, <2>3 DEF WantSubject
    <3> QED
      BY <2>2, <3>1, <3>2 DEF SubjectsKept
  <2>4. ASSUME ~p.raced, \/ p.pc = "insertChapter"
                         \/ p.pc = "godCommit" /\ p.subject # Nowhere /\ p.chapter = Nowhere
        PROVE  Live(chapter', p.subject) = {}
    <3>1. Live(chapter, q.subject) = {}
      BY <2>1, <2>2, <2>4 DEF Alone
    <3>2. q.tree \in Trees /\ q.subject \in Ids /\ subject[q.subject].in = q.tree
      BY <2>1, <2>2, <2>4 DEF EditOK, Edit
    <3>3. f \in WantChapter(q.subject) /\ f \notin others
      BY <2>1, <2>2, <2>4 DEF WantChapter
    <3> QED
      BY <1>0, <2>2, <3>1, <3>2, <3>3 DEF ChaptersKept
  <2>5. Alone(edit[f])' <=> (~p.raced =>
    /\ \/ p.pc = "insertSubject"
       \/ p.pc \in {"godChapter", "godCommit"} /\ p.subject = Nowhere
       => Live(subject', p.tree) = {}
    /\ \/ p.pc = "insertChapter"
       \/ p.pc = "godCommit" /\ p.subject # Nowhere /\ p.chapter = Nowhere
       => Live(chapter', p.subject) = {})
    BY Zenon DEF Alone, Live, Children
  <2> HIDE DEF p, q
  <2> QED
    BY <2>3, <2>4, <2>5
<1>4. (\A f \in Editors : Alone(edit[f]))'
  BY <1>3
<1> QED
  BY <1>1, <1>2, <1>4 DEF TwinInv

LooksTyped == /\ courseLookup \in [Tables -> [Ids -> Ids \cup {Nowhere}]]
              /\ cycleLookup \in [Tables -> [Ids -> Trees \cup {Nowhere}]]
              /\ adrift \subseteq Keys

TreeInv == RowsOK /\ LooksTyped /\ FormInv /\ EditTyped /\ EditInv /\ PlacesFound /\ TwinInv

\* A request that is done.
LEMMA DoneFields ==
  /\ Done \in Edit /\ Done.pc = "idle" /\ Done.tree = Nowhere /\ Done.subject = Nowhere
  /\ Done.chapter = Nowhere /\ Done.todo = {} /\ Done.log = {} /\ Done.made = {}
  /\ Done.then = "idle" /\ Done.row = <<>> /\ ~Done.raced
<1> DEFINE no == FALSE
           d == [pc |-> "idle", tree |-> Nowhere, subject |-> Nowhere, chapter |-> Nowhere,
                 todo |-> {}, log |-> {}, row |-> <<>>, then |-> "idle", made |-> {}, raced |-> no]
<1>1. no \in BOOLEAN /\ ~no
  OBVIOUS
<1>2. Done = d
  BY Zenon DEF Done
<1>3. d \in Edit
  <2> HIDE DEF no
  <2> QED
    BY <1>1 DEF Edit, Steps
<1>4. /\ d.pc = "idle" /\ d.tree = Nowhere /\ d.subject = Nowhere
      /\ d.chapter = Nowhere /\ d.todo = {} /\ d.log = {} /\ d.made = {}
      /\ d.then = "idle" /\ d.row = <<>> /\ d.raced = no
  <2> HIDE DEF no
  <2> QED
    OBVIOUS
<1> HIDE DEF d, no
<1> QED
  BY <1>1, <1>2, <1>3, <1>4

\* A step that touches its own request only overtakes nobody.
LEMMA SetRaces ==
  ASSUME EditTyped, NEW e \in Editors, NEW r, Set(e, r)
  PROVE  Raced(e, r, {})
<1> DEFINE P(f) == [edit[f] EXCEPT !.raced = TRUE]
<1>1. edit' = [f \in Editors |-> IF f = e THEN r ELSE edit[f]]
  BY DEF Set, EditTyped
<1> HIDE DEF P
<1>2. edit' = [f \in Editors |-> IF f = e THEN r ELSE IF f \in {} THEN P(f) ELSE edit[f]]
  BY <1>1
<1> QED
  BY <1>2, Zenon DEF Raced, P

\* A step keeps what is promised when the request that makes it does.
LEMMA TreeStep ==
  ASSUME TreeInv, RowsOK', LooksTyped', Grows, LooksKept, twinned \subseteq twinned',
         \A s \in Ids : \/ subject'[s].in = subject[s].in
                        \/ subject'[s].in \in Trees /\ tree'[subject'[s].in] # "none",
         \A h \in Ids : \/ chapter'[h].in = chapter[h].in
                        \/ subject'[chapter'[h].in].in # Nowhere,
         \A c \in Ids : \/ content'[c].in = content[c].in
                        \/ chapter'[content'[c].in].in # Nowhere,
         NEW e \in Editors, NEW r \in Edit, NEW others, Raced(e, r, others),
         EditOK(r)', HalfOK(r)', Alone(r)',
         \A c \in Ids : content[c].in # Nowhere =>
           /\ content'[c].in # Nowhere
           /\ content[c].deleted => content'[c].deleted
           /\ \/ content'[c].in = content[c].in
              \/ /\ <<"content", c>> \in r.made
                 /\ \A f \in Editors \ {e} : <<"content", c>> \in edit[f].made => f \in others,
         SubjectsKept(others), ChaptersKept(others),
         \A n \in Keys : n \in LiveRows' /\ (n \in edit[e].made \/ ~Stands(n)) =>
                            n \in r.made \/ n \in adrift' \/ Right(n)'
  PROVE  TreeInv'
<1>1. RowsOK /\ LooksTyped /\ FormInv /\ EditTyped /\ EditInv /\ PlacesFound /\ TwinInv
  BY DEF TreeInv
<1>2. FormInv'
  BY <1>1, FormFrame
<1>3. /\ EditTyped' /\ EditInv' /\ edit'[e] = r
      /\ \A f \in Editors \ {e} : Same(edit[f], edit'[f]) /\ (f \in others => edit'[f].raced)
  BY <1>1, EditStep
<1>4. Alone(edit[e])'
  BY <1>3, Zenon DEF Alone, Live, Children
<1>5. TwinInv'
  BY <1>1, <1>3, <1>4, TwinStep
<1>6. \A n \in Keys : n \in LiveRows' /\ (n \in edit[e].made \/ ~Stands(n)) => Found(n)'
  <2> SUFFICES ASSUME NEW n \in Keys, n \in LiveRows', n \in edit[e].made \/ ~Stands(n)
               PROVE  Found(n)'
    BY Zenon
  <2>1. n \in edit'[e].made \/ n \in adrift' \/ Right(n)'
    BY <1>3
  <2> QED
    BY <2>1, Zenon DEF Found
<1>7. \A n \in Keys : n \in LiveRows' /\ (\E f \in Editors : n \in edit[f].made) => Found(n)'
  <2> SUFFICES ASSUME NEW n \in Keys, n \in LiveRows', NEW f \in Editors, n \in edit[f].made
               PROVE  Found(n)'
    BY Zenon
  <2>1. CASE f = e
    BY <1>6, <2>1, Zenon
  <2>2. CASE f # e
    <3>1. n \in edit'[f].made
      BY <1>3, <2>2 DEF Same
    <3> QED
      BY <3>1, Zenon DEF Found
  <2> QED
    BY <2>1, <2>2
<1>8. \A n \in Keys : n \in LiveRows' /\ ~Stands(n) => Found(n)'
  BY <1>6, Zenon
<1>9. \A c \in Ids : content[c].in # Nowhere =>
           /\ content[c].deleted => content'[c].deleted
           /\ content'[c].in = content[c].in \/ Found(<<"content", c>>)'
  <2> SUFFICES ASSUME NEW c \in Ids, content[c].in # Nowhere
               PROVE  /\ content[c].deleted => content'[c].deleted
                      /\ content'[c].in = content[c].in \/ Found(<<"content", c>>)'
    BY Zenon
  <2>1. content'[c].in = content[c].in \/ <<"content", c>> \in edit'[e].made
    BY <1>3
  <2>2. content'[c].in = content[c].in \/ Found(<<"content", c>>)'
    BY <2>1, Zenon DEF Found
  <2> QED
    BY <2>2
<1>10. PlacesFound'
  BY <1>1, <1>7, <1>8, <1>9, PlacesStep
<1> QED
  BY <1>1, <1>2, <1>3, <1>5, <1>10 DEF TreeInv

\* The rows stay as they are.
LEMMA QuietStep ==
  ASSUME TreeInv, UNCHANGED <<rowVars, twinned>>, LooksTyped', LooksKept, adrift \subseteq adrift',
         NEW e \in Editors, NEW r \in Edit, Set(e, r),
         EditOK(r)', HalfOK(r)', Alone(r),
         \A n \in Keys : n \in LiveRows' /\ n \in edit[e].made =>
                            n \in r.made \/ n \in adrift' \/ Right(n)'
  PROVE  TreeInv'
<1>1. /\ subject' = subject /\ chapter' = chapter /\ content' = content /\ tree' = tree
      /\ twinned' = twinned
  BY DEF rowVars
<1>2. RowsOK' /\ Grows /\ (\A t : Live(subject', t) = Live(subject, t))
      /\ (\A s : Live(chapter', s) = Live(chapter, s))
  BY <1>1 DEF TreeInv, RowsOK, Grows, Stays
<1>3. SubjectsKept({}) /\ ChaptersKept({})
  BY <1>2 DEF SubjectsKept, ChaptersKept
<1>4. Raced(e, r, {})
  BY SetRaces DEF TreeInv
<1>5. Alone(r)'
  BY <1>1, Zenon DEF Alone, Live, Children
<1>6. \A n \in Keys : n \in LiveRows' => Stands(n)
  <2>1. \A n \in Keys : n \in LiveRows' => Stands(n)'
    <3>1. (\A m \in Keys : m \in LiveRows <=>
                            /\ Stands(m)
                            /\ m[1] = "subject" => ~subject[m[2]].deleted
                            /\ m[1] = "chapter" => ~chapter[m[2]].deleted
                            /\ m[1] = "content" => ~content[m[2]].deleted)'
      BY LiveRowsAre, PTL
    <3> QED
      BY <3>1, Zenon
  <2> QED
    BY <1>1, <2>1 DEF Stands
<1>7. \A n \in Keys : n \in LiveRows' /\ (n \in edit[e].made \/ ~Stands(n)) =>
                            n \in r.made \/ n \in adrift' \/ Right(n)'
  BY <1>6, Zenon
<1>8. /\ \A s \in Ids : subject'[s].in = subject[s].in
      /\ \A h \in Ids : chapter'[h].in = chapter[h].in
      /\ \A c \in Ids : content'[c] = content[c]
  BY <1>1
<1>9. \A c \in Ids : content[c].in # Nowhere =>
           /\ content'[c].in # Nowhere
           /\ content[c].deleted => content'[c].deleted
           /\ content'[c].in = content[c].in
  BY <1>8
<1>10. twinned \subseteq twinned'
  BY <1>1
<1> QED
  BY <1>2, <1>3, <1>4, <1>5, <1>7, <1>8, <1>9, <1>10, TreeStep

\* Lookups that a step leaves alone keep their type and stay.
LEMMA LooksStill ==
  ASSUME TreeInv, UNCHANGED <<lookups, adrift>>
  PROVE  LooksTyped' /\ LooksKept
BY DEF TreeInv, LooksTyped, LooksKept, lookups

\* Rows stay and lookups too: a request takes its next step.
LEMMA NextStep ==
  ASSUME TreeInv, UNCHANGED <<rowVars, lookups, adrift, twinned>>,
         NEW e \in Editors, NEW r \in Edit, Set(e, r),
         EditOK(r), r.pc # "logCycle", Alone(r),
         \A n \in edit[e].made : n \in r.made \/ n \in adrift \/ (n[1] = "subject" /\ subject[n[2]].deleted)
  PROVE  TreeInv'
<1>1. /\ subject' = subject /\ chapter' = chapter /\ content' = content /\ tree' = tree
      /\ adrift' = adrift
  BY DEF rowVars
<1>2. LooksTyped' /\ LooksKept
  BY LooksStill
<1>3. RowsOK /\ FormInv /\ EditInv
  BY DEF TreeInv
<1>4. Grows
  BY <1>1 DEF Grows, Stays
<1>5. Same(r, r)
  BY DEF Same
<1>6. EditOK(r)'
  BY <1>1, <1>3, <1>4, <1>5, EditFrame
<1>7. HalfOK(r)'
  BY Zenon DEF HalfOK
<1>8. (\A m \in Keys : m \in LiveRows <=>
                            /\ Stands(m)
                            /\ m[1] = "subject" => ~subject[m[2]].deleted
                            /\ m[1] = "chapter" => ~chapter[m[2]].deleted
                            /\ m[1] = "content" => ~content[m[2]].deleted)'
  BY LiveRowsAre, PTL
<1>9. \A n \in Keys : n \in LiveRows' /\ n \in edit[e].made =>
                            n \in r.made \/ n \in adrift' \/ Right(n)'
  <2> SUFFICES ASSUME NEW n \in Keys, n \in LiveRows', n \in edit[e].made
               PROVE  n \in r.made \/ n \in adrift'
    BY Zenon
  <2>1. n[1] = "subject" => ~subject[n[2]].deleted
    BY <1>1, <1>8
  <2> QED
    BY <1>1, <2>1
<1> QED
  BY <1>1, <1>2, <1>6, <1>7, <1>9, QuietStep

\* A request begins where none was.
LEMMA BeginStep ==
  ASSUME TreeInv, UNCHANGED <<rowVars, lookups, adrift, twinned>>,
         NEW e \in Editors, edit[e].pc = "idle", NEW r \in Edit, Set(e, r), EditOK(r),
         r.pc # "logCycle", Alone(r)
  PROVE  TreeInv'
<1>1. edit[e].made = {}
  BY DEF TreeInv, EditInv, EditOK
<1> QED
  BY <1>1, NextStep

\* The fields of a new request, and of one that goes on.
LEMMA NewEdit ==
  ASSUME NEW pc \in Steps, NEW t \in Trees \cup {Nowhere}, NEW s \in Ids \cup {Nowhere},
         NEW h \in Ids \cup {Nowhere}
  PROVE  LET r == [Done EXCEPT !.pc = pc, !.tree = t, !.subject = s, !.chapter = h]
         IN  /\ r \in Edit /\ r.pc = pc /\ r.tree = t /\ r.subject = s /\ r.chapter = h
             /\ r.made = {} /\ r.log = {} /\ r.todo = {} /\ ~r.raced
BY DoneFields DEF Edit

\* addSubject keeps the invariant.
LEMMA AddSubjectStep ==
  ASSUME TreeInv, NEW e \in Editors, NEW t \in Trees, AddSubject(e, t)
  PROVE  TreeInv'
<1> PICK r : r = [Done EXCEPT !.pc = "insertSubject", !.tree = t]
  OBVIOUS
<1>1. /\ r \in Edit /\ r.pc = "insertSubject" /\ r.tree = t /\ r.made = {}
  BY DoneFields DEF Edit, Steps
<1>2. /\ edit[e].pc = "idle" /\ tree[t] # "none" /\ Live(subject, t) = {}
      /\ Set(e, r) /\ UNCHANGED <<rowVars, lookups, adrift, twinned>>
  BY Zenon DEF AddSubject, Begin
<1>3. EditOK(r)
  BY <1>1, <1>2 DEF EditOK
<1>4. Alone(r)
  BY <1>1, <1>2 DEF Alone
<1> QED
  BY <1>1, <1>2, <1>3, <1>4, BeginStep

\* addChapter keeps the invariant.
LEMMA AddChapterStep ==
  ASSUME TreeInv, NEW e \in Editors, NEW s \in Ids, AddChapter(e, s)
  PROVE  TreeInv'
<1> PICK t : t = subject[s].in
  OBVIOUS
<1> PICK r : r = [Done EXCEPT !.pc = "insertChapter", !.tree = t, !.subject = s]
  OBVIOUS
<1>1. /\ edit[e].pc = "idle" /\ subject[s].in # Nowhere /\ Live(chapter, s) = {}
      /\ Set(e, r) /\ UNCHANGED <<rowVars, lookups, adrift, twinned>>
  BY Zenon DEF AddChapter, Begin
<1>2. t \in Trees /\ tree[t] # "none"
  BY <1>1 DEF TreeInv, FormInv
<1>3. /\ r \in Edit /\ r.pc = "insertChapter" /\ r.tree = t /\ r.subject = s /\ r.made = {}
      /\ r.then = "idle" /\ r.todo = {}
  BY <1>2, DoneFields DEF Edit, Steps
<1>4. EditOK(r)
  BY <1>1, <1>2, <1>3 DEF EditOK
<1>5. Alone(r)
  BY <1>1, <1>3 DEF Alone
<1> QED
  BY <1>1, <1>3, <1>4, <1>5, BeginStep

\* createClass keeps the invariant.
LEMMA CreateClassStep ==
  ASSUME TreeInv, NEW e \in Editors, NEW h \in Ids, CreateClass(e, h)
  PROVE  TreeInv'
<1> PICK t : t = TreeOf(<<"chapter", h>>)
  OBVIOUS
<1> PICK r : r = [Done EXCEPT !.pc = "insertContent", !.chapter = h, !.tree = t]
  OBVIOUS
<1>1. /\ edit[e].pc = "idle" /\ chapter[h].in # Nowhere
      /\ Set(e, r) /\ UNCHANGED <<rowVars, lookups, adrift, twinned>>
  BY Zenon DEF CreateClass, Begin
<1>2. t \in Trees /\ tree[t] # "none"
  <2>1. t = subject[chapter[h].in].in
    BY TreeOfRow
  <2> QED
    BY <1>1, <2>1, RowPlaced DEF TreeInv, FormInv
<1>3. /\ r \in Edit /\ r.pc = "insertContent" /\ r.tree = t /\ r.chapter = h /\ r.made = {}
      /\ r.then = "idle" /\ r.todo = {}
  BY <1>2, DoneFields DEF Edit, Steps
<1>4. EditOK(r)
  BY <1>1, <1>2, <1>3 DEF EditOK
<1>5. Alone(r)
  BY <1>1, <1>3 DEF Alone
<1> QED
  BY <1>1, <1>3, <1>4, <1>5, BeginStep

\* The choice of the subject for GodClass keeps the invariant.
LEMMA GodClassStep ==
  ASSUME TreeInv, NEW e \in Editors, NEW t \in Trees, GodClass(e, t)
  PROVE  TreeInv'
<1>1. PICK s \in IF Live(subject, t) = {} /\ t \notin Cycled THEN {Nowhere} ELSE Live(subject, t) :
        Set(e, [Done EXCEPT !.pc = "godChapter", !.tree = t, !.subject = s])
  BY DEF GodClass
<1> PICK r : r = [Done EXCEPT !.pc = "godChapter", !.tree = t, !.subject = s]
  OBVIOUS
<1>2. /\ edit[e].pc = "idle" /\ tree[t] # "none"
      /\ Set(e, r) /\ UNCHANGED <<rowVars, lookups, adrift, twinned>>
  BY <1>1, Zenon DEF GodClass, Begin
<1>3. \/ s = Nowhere /\ Live(subject, t) = {}
      \/ s \in Ids /\ subject[s].in = t
  BY <1>1 DEF Live, Children
<1>4. /\ r \in Edit /\ r.pc = "godChapter" /\ r.tree = t /\ r.subject = s /\ r.made = {}
  BY <1>3, DoneFields DEF Edit, Steps
<1>5. EditOK(r)
  BY <1>2, <1>3, <1>4 DEF EditOK
<1>6. s # Nowhere \/ Live(subject, t) = {}
  BY <1>3, TreeAssumption
<1>7. Alone(r)
  BY <1>4, <1>6 DEF Alone
<1> QED
  BY <1>2, <1>4, <1>5, <1>7, BeginStep

\* The choice of the chapter for GodClass keeps the invariant.
LEMMA GodChapterStep ==
  ASSUME TreeInv, NEW e \in Editors, GodChapter(e)
  PROVE  TreeInv'
<1> PICK q : q = edit[e]
  OBVIOUS
<1> DEFINE s == q.subject
           found == IF s = Nowhere THEN {}
                    ELSE IF q.tree \in Cycled THEN Live(chapter, s) ELSE Children(chapter, s)
<1>1. /\ q.pc = "godChapter"
      /\ \E h \in IF found = {} THEN {Nowhere} ELSE found :
           Set(e, [q EXCEPT !.pc = "godCommit", !.chapter = h])
      /\ UNCHANGED <<rowVars, lookups, adrift, twinned>>
  <2>1. \A h : [Wait(e, "godCommit") EXCEPT !.chapter = h] = [q EXCEPT !.pc = "godCommit", !.chapter = h]
    BY DEF Wait
  <2>2. /\ edit[e].pc = "godChapter"
        /\ \E h \in IF found = {} THEN {Nowhere} ELSE found :
             Set(e, [Wait(e, "godCommit") EXCEPT !.chapter = h])
        /\ UNCHANGED <<rowVars, lookups, adrift, twinned>>
    BY Zenon DEF GodChapter
  <2> QED
    BY <2>1, <2>2, Zenon
<1>2. PICK h \in IF found = {} THEN {Nowhere} ELSE found :
           Set(e, [q EXCEPT !.pc = "godCommit", !.chapter = h])
  BY <1>1
<1> PICK r : r = [q EXCEPT !.pc = "godCommit", !.chapter = h]
  OBVIOUS
<1>3. q \in Edit /\ EditOK(q) /\ Alone(q)
  BY DEF TreeInv, EditInv, TwinInv
<1>4. Nowhere \notin Ids /\ s \in Ids \cup {Nowhere}
  BY <1>3, TreeAssumption DEF Edit
<1>5. \/ h = Nowhere /\ found = {}
      \/ h \in Ids /\ s # Nowhere /\ chapter[h].in = s
  BY <1>2 DEF Live, Children
<1>6. /\ r \in Edit /\ r.pc = "godCommit" /\ r.tree = q.tree /\ r.subject = q.subject /\ r.chapter = h
      /\ r.made = q.made /\ r.raced = q.raced
  BY <1>3, <1>5 DEF Edit, Steps
<1>7. q.tree \in Trees /\ tree[q.tree] # "none" /\ q.made = {} /\ (s # Nowhere => subject[s].in = q.tree)
  BY <1>1, <1>3 DEF EditOK
<1>8. EditOK(r)
  BY <1>5, <1>6, <1>7 DEF EditOK
<1>9. s # Nowhere /\ h = Nowhere => Live(chapter, s) = {}
  BY <1>4, <1>5 DEF Live, Children
<1>10. ~q.raced /\ s = Nowhere => Live(subject, q.tree) = {}
  BY <1>1, <1>3 DEF Alone
<1>11. Alone(r)
  BY <1>6, <1>9, <1>10 DEF Alone
<1>12. Set(e, r)
  BY <1>2
<1> QED
  BY <1>1, <1>6, <1>7, <1>8, <1>11, <1>12, NextStep

\* Reading back the subjects of a tree keeps the invariant: what was made is among them.
LEMMA ReadSubjectsStep ==
  ASSUME TreeInv, NEW e \in Editors, ReadSubjects(e)
  PROVE  TreeInv'
<1> PICK q : q = edit[e]
  OBVIOUS
<1> PICK r : r = [q EXCEPT !.pc = "nextSubject", !.todo = Live(subject, q.tree)]
  OBVIOUS
<1>1. q.pc = "readSubjects" /\ Set(e, r) /\ UNCHANGED <<rowVars, lookups, adrift, twinned>>
  <2>1. [Wait(e, "nextSubject") EXCEPT !.todo = Live(subject, q.tree)] = r
    BY DEF Wait
  <2> QED
    BY <2>1, Zenon DEF ReadSubjects
<1>2. q \in Edit /\ EditOK(q)
  BY DEF TreeInv, EditInv
<1>3. /\ q.tree \in Trees /\ tree[q.tree] # "none"
      /\ \A n \in q.made : Stands(n) /\ n[1] = "subject" /\ subject[n[2]].in = q.tree
  BY <1>1, <1>2 DEF EditOK
<1>4. /\ Live(subject, q.tree) \subseteq Ids /\ \A s \in Live(subject, q.tree) : subject[s].in = q.tree
  BY DEF Live, Children
<1>5. /\ r \in Edit /\ r.pc = "nextSubject" /\ r.tree = q.tree /\ r.todo = Live(subject, q.tree)
      /\ r.made = q.made
  BY <1>2, <1>4 DEF Edit, Steps
<1>6. \A n \in q.made : Coming(r, n)
  <2> TAKE n \in q.made
  <2>1. n[2] \in Ids
    BY <1>2, KeyParts DEF Edit
  <2> QED
    BY <1>3, <1>5, <2>1 DEF Coming, Live, Children
<1>7. EditOK(r)
  BY <1>3, <1>4, <1>5, <1>6 DEF EditOK
<1>8. Alone(r)
  BY <1>5 DEF Alone
<1> QED
  BY <1>1, <1>5, <1>7, <1>8, NextStep

\* The turn to the next subject keeps the invariant.
LEMMA NextSubjectStep ==
  ASSUME TreeInv, NEW e \in Editors, NextSubject(e)
  PROVE  TreeInv'
<1> PICK q : q = edit[e]
  OBVIOUS
<1>1. q.pc = "nextSubject" /\ UNCHANGED <<rowVars, lookups, adrift, twinned>>
  BY Zenon DEF NextSubject
<1>2. q \in Edit /\ EditOK(q)
  BY DEF TreeInv, EditInv
<1>3. /\ q.tree \in Trees /\ tree[q.tree] # "none" /\ \A s \in q.todo : subject[s].in = q.tree
      /\ \A n \in q.made : Stands(n) /\ Coming(q, n)
  BY <1>1, <1>2 DEF EditOK
<1>4. CASE q.todo = {} /\ Set(e, Done)
  <2>1. EditOK(Done) /\ Alone(Done) /\ Done \in Edit /\ Done.pc # "logCycle"
    BY DoneFields DEF EditOK, Alone
  <2>2. \A n \in q.made : n \in Done.made \/ n \in adrift \/ (n[1] = "subject" /\ subject[n[2]].deleted)
    BY <1>3, <1>4 DEF Coming
  <2> QED
    BY <1>1, <1>4, <2>1, <2>2, NextStep
<1>5. ASSUME NEW s \in q.todo,
             Set(e, [q EXCEPT !.pc = "log", !.todo = q.todo \ {s}, !.subject = s, !.log = {<<"subject", s>>},
                       !.then = IF q.tree \in Cycled THEN "nextSubject" ELSE "takeChapters"])
      PROVE  TreeInv'
  <2> DEFINE next == IF q.tree \in Cycled THEN "nextSubject" ELSE "takeChapters"
  <2> PICK r : r = [q EXCEPT !.pc = "log", !.todo = q.todo \ {s}, !.subject = s, !.log = {<<"subject", s>>},
                       !.then = next]
    OBVIOUS
  <2>1. s \in Ids /\ <<"subject", s>> \in Keys
    BY <1>2 DEF Edit, Keys, Tables
  <2>2. next \in {"nextSubject", "takeChapters"} /\ (next = "takeChapters" => q.tree \notin Cycled)
    OBVIOUS
  <2>3. Set(e, r)
    BY <1>5
  <2> HIDE DEF next
  <2>4. /\ r \in Edit /\ r.pc = "log" /\ r.tree = q.tree /\ r.subject = s /\ r.todo = q.todo \ {s}
        /\ r.log = {<<"subject", s>>} /\ r.then = next /\ r.made = q.made
    BY <1>2, <2>1, <2>2 DEF Edit, Steps
  <2>5. \A n \in r.log : Stands(n) /\ TreeOf(n) = q.tree /\ n[1] = "subject"
    <3>1. subject[s].in = q.tree /\ q.tree # Nowhere
      BY <1>3, TreeAssumption
    <3>2. Stands(<<"subject", s>>) /\ TreeOf(<<"subject", s>>) = q.tree
      BY <3>1, TreeOfRow DEF Stands
    <3> QED
      BY <2>4, <3>2
  <2>6. \A n \in q.made : n \in r.log \/ Coming(r, n)
    <3> TAKE n \in q.made
    <3>1. n \in Keys
      BY <1>2 DEF Edit
    <3>2. Coming(q, n)
      BY <1>3
    <3>3. n[1] = "subject" /\ n[2] = s => n = <<"subject", s>>
      BY <3>1, KeyParts
    <3> QED
      BY <2>4, <3>2, <3>3 DEF Coming
  <2>7. EditOK(r)
    BY <1>3, <2>1, <2>2, <2>4, <2>5, <2>6 DEF EditOK
  <2>8. Alone(r)
    BY <2>4 DEF Alone
  <2> QED
    BY <1>1, <2>3, <2>4, <2>7, <2>8, NextStep
<1>6. \/ q.todo = {} /\ Set(e, Done)
      \/ \E s \in q.todo :
           Set(e, [q EXCEPT !.pc = "log", !.todo = q.todo \ {s}, !.subject = s, !.log = {<<"subject", s>>},
                       !.then = IF q.tree \in Cycled THEN "nextSubject" ELSE "takeChapters"])
  <2> DEFINE next == IF q.tree \in Cycled THEN "nextSubject" ELSE "takeChapters"
             One(s) == [q EXCEPT !.pc = "log", !.todo = q.todo \ {s}, !.subject = s,
                                 !.log = {<<"subject", s>>}, !.then = next]
             Two(s) == [Wait(e, "log") EXCEPT !.todo = q.todo \ {s}, !.subject = s,
                                 !.log = {<<"subject", s>>}, !.then = next]
  <2>1. \A s : Two(s) = One(s)
    BY DEF Wait
  <2>2. \/ q.todo = {} /\ Set(e, Done)
        \/ \E s \in q.todo : Set(e, Two(s))
    BY Zenon DEF NextSubject
  <2>3. \/ q.todo = {} /\ Set(e, Done)
        \/ \E s \in q.todo : Set(e, One(s))
    <3> HIDE DEF One, Two
    <3> QED
      BY <2>1, <2>2
  <2> QED
    BY <2>3, Zenon
<1> QED
  BY <1>4, <1>5, <1>6, Zenon

\* LiveRowsAre, after a step.
LEMMA LiveRowsNext ==
  (\A m \in Keys : m \in LiveRows <=>
                            /\ Stands(m)
                            /\ m[1] = "subject" => ~subject[m[2]].deleted
                            /\ m[1] = "chapter" => ~chapter[m[2]].deleted
                            /\ m[1] = "content" => ~content[m[2]].deleted)'
BY LiveRowsAre, PTL

\* Reading back the chapters of a subject keeps the invariant.
LEMMA ReadChaptersStep ==
  ASSUME TreeInv, NEW e \in Editors, ReadChapters(e)
  PROVE  TreeInv'
<1> PICK q : q = edit[e]
  OBVIOUS
<1> DEFINE found == {"chapter"} \X Children(chapter, q.subject)
<1> PICK r : r = [q EXCEPT !.pc = "log", !.log = found, !.then = "nextSubject"]
  OBVIOUS
<1>1. q.pc = "readChapters" /\ Set(e, r) /\ UNCHANGED <<rowVars, lookups, adrift, twinned>>
  <2>1. [Wait(e, "log") EXCEPT !.log = found, !.then = "nextSubject"] = r
    BY DEF Wait
  <2> QED
    BY <2>1, Zenon DEF ReadChapters
<1>2. q \in Edit /\ EditOK(q)
  BY DEF TreeInv, EditInv
<1>3. /\ q.tree \in Trees /\ tree[q.tree] # "none" /\ q.subject \in Ids /\ subject[q.subject].in = q.tree
      /\ \A s \in q.todo : subject[s].in = q.tree
      /\ \A n \in q.made : /\ Stands(n)
                           /\ Coming(q, n) \/ (n[1] = "chapter" /\ chapter[n[2]].in = q.subject)
  BY <1>1, <1>2 DEF EditOK
<1>4. found \subseteq Keys
  BY DEF Children, Keys, Tables
<1>5. \A n \in found : /\ n[1] = "chapter" /\ n[2] \in Ids /\ chapter[n[2]].in = q.subject
                       /\ n = <<"chapter", n[2]>>
  BY DEF Children
<1>6. \A n \in found : Stands(n) /\ TreeOf(n) = q.tree /\ n[1] = "chapter"
  <2> SUFFICES ASSUME NEW n \in found PROVE Stands(n) /\ TreeOf(n) = q.tree
    BY <1>5
  <2> DEFINE h == n[2]
  <2>1. n = <<"chapter", h>> /\ chapter[h].in = q.subject
    BY <1>5
  <2> HIDE DEF h
  <2>2. TreeOf(n) = subject[chapter[h].in].in
    BY <2>1, TreeOfRow
  <2> QED
    BY <1>3, <2>1, <2>2, TreeAssumption DEF Stands
<1>7. \A n \in q.made : n \in found \/ Coming(q, n)
  <2> TAKE n \in q.made
  <2>1. n \in Keys
    BY <1>2 DEF Edit
  <2>2. n[2] \in Ids /\ n = <<n[1], n[2]>>
    BY <2>1, KeyParts
  <2>3. CASE n[1] = "chapter" /\ chapter[n[2]].in = q.subject
    <3>1. n[2] \in Children(chapter, q.subject)
      BY <2>2, <2>3 DEF Children
    <3>2. <<"chapter", n[2]>> \in found
      BY <3>1
    <3> QED
      BY <2>2, <2>3, <3>2
  <2> QED
    BY <1>3, <2>3
<1> HIDE DEF found
<1>8. /\ r \in Edit /\ r.pc = "log" /\ r.tree = q.tree /\ r.todo = q.todo /\ r.log = found
      /\ r.then = "nextSubject" /\ r.made = q.made
  BY <1>2, <1>4 DEF Edit, Steps
<1>9. \A n \in q.made : Coming(q, n) => Coming(r, n)
  BY <1>8 DEF Coming
<1>10. EditOK(r)
  BY <1>3, <1>6, <1>7, <1>8, <1>9 DEF EditOK
<1>11. Alone(r)
  BY <1>8 DEF Alone
<1> QED
  BY <1>1, <1>8, <1>10, <1>11, NextStep

\* The second search for a chapter keeps the invariant: what it misses is adrift.
LEMMA FindChapterStep ==
  ASSUME TreeInv, NEW e \in Editors, FindChapter(e)
  PROVE  TreeInv'
<1> PICK q : q = edit[e]
  OBVIOUS
<1> DEFINE found == {"chapter"} \X Children(chapter, q.subject)
<1>1. /\ q.pc = "findChapter" /\ UNCHANGED <<rowVars, lookups, twinned>>
      /\ \E log \in IF q.tree \in Cycled THEN {found} ELSE {{n} : n \in found} :
           Set(e, [Wait(e, "log") EXCEPT !.log = log]) /\ adrift' = adrift \cup (q.made \ log)
  BY Zenon DEF FindChapter
<1>2. PICK log \in IF q.tree \in Cycled THEN {found} ELSE {{n} : n \in found} :
         Set(e, [Wait(e, "log") EXCEPT !.log = log]) /\ adrift' = adrift \cup (q.made \ log)
  BY <1>1
<1> PICK r : r = [q EXCEPT !.pc = "log", !.log = log]
  OBVIOUS
<1>3. Set(e, r) /\ adrift' = adrift \cup (q.made \ log) /\ log \subseteq found
  <2>1. [Wait(e, "log") EXCEPT !.log = log] = r
    BY DEF Wait
  <2>2. log \subseteq found
    BY <1>2
  <2> QED
    BY <1>2, <2>1, <2>2, Zenon
<1>4. q \in Edit /\ EditOK(q)
  BY DEF TreeInv, EditInv
<1>5. /\ q.tree \in Trees /\ tree[q.tree] # "none" /\ q.subject \in Ids /\ subject[q.subject].in = q.tree
      /\ q.then = "idle" /\ q.todo = {} /\ \A n \in q.made : Stands(n) /\ n[1] = "chapter"
  BY <1>1, <1>4 DEF EditOK
<1>6. found \subseteq Keys
  BY DEF Children, Keys, Tables
<1>7. \A n \in found : /\ n[1] = "chapter" /\ n[2] \in Ids /\ chapter[n[2]].in = q.subject
                       /\ n = <<"chapter", n[2]>>
  BY DEF Children
<1>8. \A n \in found : Stands(n) /\ TreeOf(n) = q.tree
  <2> SUFFICES ASSUME NEW n \in found PROVE Stands(n) /\ TreeOf(n) = q.tree
    OBVIOUS
  <2> DEFINE h == n[2]
  <2>1. n = <<"chapter", h>> /\ chapter[h].in = q.subject
    BY <1>7
  <2> HIDE DEF h
  <2>2. TreeOf(n) = subject[chapter[h].in].in
    BY <2>1, TreeOfRow
  <2> QED
    BY <1>5, <2>1, <2>2, TreeAssumption DEF Stands
<1>9. \A n \in log : n \in Keys /\ n[1] = "chapter" /\ Stands(n) /\ TreeOf(n) = q.tree
  BY <1>3, <1>6, <1>7, <1>8
<1> HIDE DEF found
<1>10. /\ r \in Edit /\ r.pc = "log" /\ r.tree = q.tree /\ r.log = log /\ r.then = "idle" /\ r.made = q.made
       /\ r.todo = q.todo /\ r.raced = q.raced /\ r.subject = q.subject
  BY <1>4, <1>5, <1>9 DEF Edit, Steps
<1>11. /\ subject' = subject /\ chapter' = chapter /\ content' = content /\ tree' = tree
  BY <1>1 DEF rowVars
<1>12. /\ \A n \in r.made : Stands(n)'
       /\ \A n \in r.log : Stands(n)' /\ TreeOf(n)' = r.tree /\ n[1] = "chapter"
       /\ \A n \in r.made : n \in r.log \/ n \in adrift'
  <2>1. (\A n \in r.made : Stands(n)') /\ (\A n \in r.log : Stands(n)')
    BY <1>5, <1>9, <1>10, <1>11 DEF Stands
  <2>2. \A n \in r.log : TreeOf(n)' = TreeOf(n)
    BY <1>11 DEF TreeOf
  <2> QED
    BY <1>3, <1>9, <1>10, <2>1, <2>2
<1>13. EditOK(r)'
  BY <1>5, <1>10, <1>11, <1>12 DEF EditOK
<1>14. Alone(r) /\ HalfOK(r)'
  BY <1>10 DEF Alone, HalfOK
<1>15. LooksTyped' /\ LooksKept /\ adrift \subseteq adrift'
  <2>1. q.made \subseteq Keys
    BY <1>4 DEF Edit
  <2> QED
    BY <1>1, <1>3, <2>1 DEF TreeInv, LooksTyped, LooksKept, lookups
<1>16. \A n \in edit[e].made : n \in r.made
  BY <1>10
<1> QED
  BY <1>1, <1>3, <1>10, <1>13, <1>14, <1>15, <1>16, QuietStep

\* A request that dies keeps the invariant: what it had made is adrift.
LEMMA DiesStep ==
  ASSUME TreeInv, NEW e \in Editors, Dies(e)
  PROVE  TreeInv'
<1>1. /\ adrift' = adrift \cup edit[e].made /\ Set(e, Done) /\ UNCHANGED <<rowVars, lookups, twinned>>
  BY Zenon DEF Dies
<1>2. EditOK(Done)' /\ Alone(Done) /\ HalfOK(Done)' /\ Done \in Edit
  BY DoneFields DEF EditOK, Alone, HalfOK
<1>3. LooksTyped' /\ LooksKept /\ adrift \subseteq adrift'
  <2>1. edit[e].made \subseteq Keys
    BY DEF TreeInv, EditInv, Edit
  <2> QED
    BY <1>1, <2>1 DEF TreeInv, LooksTyped, LooksKept, lookups
<1>4. \A n \in edit[e].made : n \in adrift'
  BY <1>1
<1> QED
  BY <1>1, <1>2, <1>3, <1>4, QuietStep

\* What a request still holds when the lookups of row n are done.
LEMMA LoggedHolds ==
  ASSUME TreeInv, NEW e \in Editors, edit[e].pc \in {"log", "logCycle"}, NEW n \in edit[e].log,
         NEW r, r = Logged(e, n)
  PROVE  /\ r \in Edit /\ EditOK(r) /\ r.pc # "logCycle" /\ Alone(r)
         /\ \A m \in edit[e].made : \/ m = n \/ m \in r.made \/ m \in adrift
                                    \/ m[1] = "subject" /\ subject[m[2]].deleted
<1> PICK q : q = edit[e]
  OBVIOUS
<1> PICK left : left = q.log \ {n}
  OBVIOUS
<1> PICK next : next = IF left = {} THEN q.then ELSE "log"
  OBVIOUS
<1>1. q \in Edit /\ EditOK(q) /\ q.pc \in {"log", "logCycle"} /\ n \in q.log
  BY DEF TreeInv, EditInv
<1>2. r = IF next = "idle" THEN Done
          ELSE [q EXCEPT !.pc = next, !.log = left, !.row = <<>>, !.made = q.made \ {n}]
  <2>1. r = IF next = "idle" THEN Done
            ELSE [Wait(e, next) EXCEPT !.log = left, !.row = <<>>, !.made = Wait(e, next).made \ {n}]
    BY Zenon DEF Logged
  <2>2. Wait(e, next) = [q EXCEPT !.pc = next]
    BY DEF Wait
  <2>3. [q EXCEPT !.pc = next].made = q.made
    BY <1>1 DEF Edit
  <2>4. [Wait(e, next) EXCEPT !.log = left, !.row = <<>>, !.made = Wait(e, next).made \ {n}]
          = [q EXCEPT !.pc = next, !.log = left, !.row = <<>>, !.made = q.made \ {n}]
    BY <2>2, <2>3
  <2> QED
    BY <2>1, <2>4, Zenon
<1>3. /\ q.tree \in Trees /\ tree[q.tree] # "none" /\ \A s \in q.todo : subject[s].in = q.tree
      /\ q.then = "takeChapters" => /\ q.tree \notin Cycled /\ q.subject \in Ids
                                    /\ subject[q.subject].in = q.tree
      /\ \A m \in q.log : /\ Stands(m) /\ (TreeOf(m) = q.tree \/ q.raced)
                          /\ m[1] = "content" => m \in q.made
                          /\ m[1] # "content" => TreeOf(m) = q.tree
      /\ \A m \in q.made : Stands(m) /\ (m \in q.log \/ m \in adrift \/ (q.then # "idle" /\ Coming(q, m)))
  BY <1>1 DEF EditOK
<1>4. CASE next = "idle"
  <2>1. r = Done
    BY <1>2, <1>4
  <2>2. left = {} /\ q.then = "idle"
    BY <1>4
  <2>3. \A m \in q.made : m = n \/ m \in adrift
    BY <1>3, <2>2
  <2>4. Done \in Edit /\ Done.pc # "logCycle" /\ EditOK(Done) /\ Alone(Done)
    BY DoneFields DEF EditOK, Alone
  <2> QED
    BY <2>1, <2>3, <2>4
<1>5. CASE next # "idle"
  <2>1. next \in {"log", "nextSubject", "takeChapters"} /\ next \in Steps
    BY <1>1, <1>5 DEF Edit, Steps
  <2>2. r = [q EXCEPT !.pc = next, !.log = left, !.row = <<>>, !.made = q.made \ {n}]
    BY <1>2, <1>5
  <2>3. left \subseteq Keys /\ q.made \ {n} \subseteq Keys
    BY <1>1 DEF Edit
  <2>4. /\ r \in Edit /\ r.pc = next /\ r.tree = q.tree /\ r.subject = q.subject /\ r.todo = q.todo
        /\ r.log = left /\ r.then = q.then /\ r.made = q.made \ {n} /\ r.raced = q.raced
    <3> PICK z : z = <<>>
      OBVIOUS
    <3>1. z \in Keys \cup {<<>>}
      BY Zenon
    <3>2. r = [q EXCEPT !.pc = next, !.log = left, !.row = z, !.made = q.made \ {n}]
      BY <2>2
    <3> PICK rest : rest = q.made \ {n}
      OBVIOUS
    <3>3. r = [q EXCEPT !.pc = next, !.log = left, !.row = z, !.made = rest]
      BY <3>2
    <3>4. rest \in SUBSET Keys /\ left \in SUBSET Keys
      BY <2>3
    <3>5. r \in Edit
      BY <1>1, <2>1, <3>1, <3>3, <3>4 DEF Edit
    <3>6. /\ r.pc = next /\ r.tree = q.tree /\ r.subject = q.subject /\ r.todo = q.todo
          /\ r.log = left /\ r.then = q.then /\ r.made = rest /\ r.raced = q.raced
      BY <1>1, <3>3 DEF Edit
    <3> QED
      BY <3>5, <3>6
  <2>5. \A m : Coming(q, m) => Coming(r, m)
    BY <2>4 DEF Coming
  <2>6. CASE next = "log"
    <3>1. \A m \in r.made : m \in r.log \/ m \in adrift \/ (r.then # "idle" /\ Coming(r, m))
      BY <1>3, <2>4, <2>5
    <3>2. \A m \in r.log : m \in q.log /\ m # n
      BY <2>4
    <3>3. \A m \in r.log : /\ Stands(m) /\ (TreeOf(m) = r.tree \/ r.raced)
                           /\ m[1] = "content" => m \in r.made
                           /\ m[1] # "content" => TreeOf(m) = r.tree
      BY <1>3, <2>4, <3>2
    <3>4. EditOK(r)
      BY <1>3, <2>4, <2>6, <3>1, <3>3 DEF EditOK
    <3>5. Alone(r)
      BY <2>4, <2>6 DEF Alone
    <3> QED
      BY <2>4, <2>6, <3>4, <3>5
  <2>7. CASE next # "log"
    <3>1. left = {} /\ next = q.then /\ next \in {"nextSubject", "takeChapters"}
      BY <2>1, <2>7
    <3>2. \A m \in r.made : Stands(m) /\ Coming(r, m)
      BY <1>3, <2>4, <2>5, <3>1 DEF Coming
    <3>3. EditOK(r)
      BY <1>3, <2>4, <3>1, <3>2 DEF EditOK
    <3>4. Alone(r)
      BY <2>4, <3>1 DEF Alone
    <3> QED
      BY <2>4, <3>1, <3>3, <3>4
  <2> QED
    BY <2>6, <2>7
<1> QED
  BY <1>4, <1>5

Half(e, n) == [Wait(e, "logCycle") EXCEPT !.row = n]

\* What a request holds between the two lookups of row n.
LEMMA HalfHolds ==
  ASSUME TreeInv, NEW e \in Editors, edit[e].pc = "log", edit[e].tree \in Cycled,
         NEW n \in edit[e].log, NEW r, r = Half(e, n)
  PROVE  /\ r \in Edit /\ EditOK(r) /\ r.pc = "logCycle" /\ Alone(r) /\ r.made = edit[e].made
         /\ r.row = n /\ r.raced = edit[e].raced /\ r.tree = edit[e].tree
<1> PICK q : q = edit[e]
  OBVIOUS
<1>1. q \in Edit /\ EditOK(q) /\ q.pc = "log" /\ n \in q.log /\ n \in Keys
  BY DEF TreeInv, EditInv, Edit
<1>2. r = [q EXCEPT !.pc = "logCycle", !.row = n]
  BY DEF Wait, Half
<1>3. /\ q.tree \in Trees /\ tree[q.tree] # "none" /\ \A s \in q.todo : subject[s].in = q.tree
      /\ q.then = "takeChapters" => /\ q.tree \notin Cycled /\ q.subject \in Ids
                                    /\ subject[q.subject].in = q.tree
      /\ \A m \in q.log : /\ Stands(m) /\ (TreeOf(m) = q.tree \/ q.raced)
                          /\ m[1] = "content" => m \in q.made
                          /\ m[1] # "content" => TreeOf(m) = q.tree
      /\ \A m \in q.made : Stands(m) /\ (m \in q.log \/ m \in adrift \/ (q.then # "idle" /\ Coming(q, m)))
  BY <1>1 DEF EditOK
<1>4. /\ r \in Edit /\ r.pc = "logCycle" /\ r.tree = q.tree /\ r.subject = q.subject /\ r.todo = q.todo
      /\ r.log = q.log /\ r.then = q.then /\ r.made = q.made /\ r.raced = q.raced /\ r.row = n
  BY <1>1, <1>2 DEF Edit, Steps
<1>5. \A m : Coming(q, m) => Coming(r, m)
  BY <1>4 DEF Coming
<1>6. \A m \in r.made : Stands(m) /\ (m \in r.log \/ m \in adrift \/ (r.then # "idle" /\ Coming(r, m)))
  BY <1>3, <1>4, <1>5
<1>7. EditOK(r)
  BY <1>1, <1>3, <1>4, <1>6 DEF EditOK
<1>8. Alone(r)
  BY <1>4 DEF Alone
<1> QED
  BY <1>4, <1>7, <1>8

\* Rows and their places stay: what held of a request holds.
LEMMA EditStays ==
  ASSUME TreeInv, UNCHANGED <<rowVars>>, adrift \subseteq adrift', NEW r \in Edit, EditOK(r)
  PROVE  EditOK(r)'
<1>1. /\ subject' = subject /\ chapter' = chapter /\ content' = content /\ tree' = tree
  BY DEF rowVars
<1>2. RowsOK /\ FormInv
  BY DEF TreeInv
<1>3. Grows
  BY <1>1 DEF Grows, Stays
<1>4. Same(r, r)
  BY DEF Same
<1> QED
  BY <1>1, <1>2, <1>3, <1>4, EditFrame

Writes(new, old, n, v, V) ==
  /\ old \in [Tables -> [Ids -> V]] /\ v \in V /\ n \in Keys
  /\ new = [old EXCEPT ![n[1]][n[2]] = v]

\* The write of one lookup gives it its value and leaves the others.
LEMMA Lookups ==
  ASSUME NEW V, NEW old, NEW n, NEW v, NEW new, Writes(new, old, n, v, V)
  PROVE  /\ new \in [Tables -> [Ids -> V]] /\ new[n[1]][n[2]] = v
         /\ \A m \in Keys : m # n => new[m[1]][m[2]] = old[m[1]][m[2]]
<1>1. n[1] \in Tables /\ n[2] \in Ids /\ n = <<n[1], n[2]>>
  BY DEF Keys, Writes
<1>2. new \in [Tables -> [Ids -> V]] /\ new[n[1]][n[2]] = v
  BY <1>1 DEF Writes
<1>3. ASSUME NEW m \in Keys, m # n PROVE new[m[1]][m[2]] = old[m[1]][m[2]]
  <2>1. m[1] \in Tables /\ m[2] \in Ids /\ m = <<m[1], m[2]>>
    BY DEF Keys
  <2>2. m[1] # n[1] \/ m[2] # n[2]
    BY <1>1, <1>3, <2>1
  <2> QED
    BY <1>1, <2>1, <2>2 DEF Writes
<1> QED
  BY <1>2, <1>3

\* The row whose lookups a request writes is in its tree, or the request was overtaken.
LEMMA LogsOwn ==
  ASSUME TreeInv, NEW e \in Editors, edit[e].pc \in {"log", "logCycle"}, NEW n \in edit[e].log
  PROVE  /\ n \in Keys /\ Stands(n) /\ (TreeOf(n) = edit[e].tree \/ edit[e].raced)
         /\ edit[e].tree \in Trees /\ CourseOf[edit[e].tree] \in Ids
<1> PICK q : q = edit[e]
  OBVIOUS
<1>1. q \in Edit /\ EditOK(q) /\ q.pc \in {"log", "logCycle"} /\ n \in q.log
  BY DEF TreeInv, EditInv
<1>2. n \in Keys /\ Stands(n) /\ (TreeOf(n) = q.tree \/ q.raced) /\ q.tree \in Trees
  BY <1>1 DEF EditOK, Edit
<1> QED
  BY <1>2, TreeAssumption

\* When no table of rows changes, every row is in the tree it was in.
LEMMA TreeOfStill ==
  ASSUME UNCHANGED <<rowVars>>
  PROVE  \A n \in Keys : TreeOf(n)' = TreeOf(n)
<1>1. /\ subject' = subject /\ chapter' = chapter /\ content' = content
  BY DEF rowVars
<1> QED
  BY <1>1 DEF TreeOf

\* The write of a course lookup row keeps the invariant.
LEMMA LogLookUpTableStep ==
  ASSUME TreeInv, NEW e \in Editors, LogLookUpTable(e)
  PROVE  TreeInv'
<1> PICK q : q = edit[e]
  OBVIOUS
<1>1. /\ q.pc = "log" /\ UNCHANGED <<rowVars, cycleLookup, twinned>>
      /\ \E n \in q.log :
           /\ courseLookup' = [courseLookup EXCEPT ![n[1]][n[2]] = CourseOf[q.tree]]
           /\ Set(e, IF q.tree \in Cycled
                     THEN [Wait(e, "logCycle") EXCEPT !.row = n] ELSE Logged(e, n))
           /\ adrift' = adrift \cup (IF q.raced THEN {n} ELSE {})
  BY Zenon DEF LogLookUpTable
<1>2. PICK n \in q.log :
           /\ courseLookup' = [courseLookup EXCEPT ![n[1]][n[2]] = CourseOf[q.tree]]
           /\ Set(e, IF q.tree \in Cycled
                     THEN [Wait(e, "logCycle") EXCEPT !.row = n] ELSE Logged(e, n))
           /\ adrift' = adrift \cup (IF q.raced THEN {n} ELSE {})
  BY <1>1
<1>3. /\ n \in Keys /\ Stands(n) /\ (TreeOf(n) = q.tree \/ q.raced)
      /\ q.tree \in Trees /\ CourseOf[q.tree] \in Ids
  BY <1>1, LogsOwn
<1>4. adrift \subseteq adrift' /\ adrift' \subseteq Keys /\ (q.raced => n \in adrift')
  BY <1>2, <1>3 DEF TreeInv, LooksTyped
<1>5. /\ courseLookup' \in [Tables -> [Ids -> Ids \cup {Nowhere}]]
      /\ courseLookup'[n[1]][n[2]] = CourseOf[q.tree]
      /\ \A m \in Keys : m # n => courseLookup'[m[1]][m[2]] = courseLookup[m[1]][m[2]]
  <2> DEFINE V == Ids \cup {Nowhere}
             new == courseLookup'
             old == courseLookup
             v == CourseOf[q.tree]
  <2>1. old \in [Tables -> [Ids -> V]] /\ v \in V
    BY <1>3 DEF TreeInv, LooksTyped
  <2>2. new = [old EXCEPT ![n[1]][n[2]] = v]
    BY <1>2
  <2> HIDE DEF V, new, old, v
  <2>3. /\ new \in [Tables -> [Ids -> V]] /\ new[n[1]][n[2]] = v
        /\ \A m \in Keys : m # n => new[m[1]][m[2]] = old[m[1]][m[2]]
    <3>1. Writes(new, old, n, v, V)
      BY <1>3, <2>1, <2>2 DEF Writes
    <3> QED
      BY <3>1, Lookups
  <2> QED
    BY <2>3 DEF V, new, old, v
<1>6. \A m \in Keys : TreeOf(m)' = TreeOf(m)
  BY <1>1, TreeOfStill
<1>7. LooksTyped'
  BY <1>1, <1>4, <1>5 DEF TreeInv, LooksTyped
<1>8. LooksKept
  <2> SUFFICES ASSUME NEW m \in Keys
               PROVE  \/ courseLookup'[m[1]][m[2]] = courseLookup[m[1]][m[2]]
                      \/ courseLookup'[m[1]][m[2]] = CourseOf[TreeOf(m)'] \/ m \in adrift'
    BY <1>1 DEF LooksKept
  <2>1. CASE m = n /\ TreeOf(n) = q.tree
    <3>1. TreeOf(m)' = q.tree
      BY <1>6, <2>1
    <3> QED
      BY <1>5, <2>1, <3>1
  <2> QED
    BY <1>3, <1>4, <1>5, <2>1
<1>9. CASE q.tree \in Cycled
  <2> PICK r : r = Half(e, n)
    OBVIOUS
  <2>1. /\ r \in Edit /\ EditOK(r) /\ r.pc = "logCycle" /\ Alone(r) /\ r.made = edit[e].made
        /\ r.row = n /\ r.raced = q.raced /\ r.tree = q.tree
    <3>1. edit[e].pc = "log" /\ edit[e].tree \in Cycled /\ n \in edit[e].log
          /\ r = Half(e, n) /\ q = edit[e]
      BY <1>1, <1>9
    <3> QED
      BY <3>1, HalfHolds
  <2>2. Set(e, r)
    BY <1>2, <1>9, Zenon DEF Half
  <2>3. EditOK(r)'
    BY <1>1, <1>4, <2>1, EditStays
  <2>4. \/ n \in adrift' \/ q.raced \/ courseLookup'[n[1]][n[2]] = CourseOf[TreeOf(n)']
    BY <1>3, <1>5, <1>6
  <2>5. HalfOK(r)'
    BY <2>1, <2>4 DEF HalfOK
  <2>6. \A m \in edit[e].made : m \in r.made
    BY <2>1
  <2> QED
    BY <1>1, <1>4, <1>7, <1>8, <2>1, <2>2, <2>3, <2>5, <2>6, QuietStep
<1>10. CASE q.tree \notin Cycled
  <2> PICK r : r = Logged(e, n)
    OBVIOUS
  <2>1. /\ r \in Edit /\ EditOK(r) /\ r.pc # "logCycle" /\ Alone(r)
        /\ \A m \in edit[e].made : \/ m = n \/ m \in r.made \/ m \in adrift
                                   \/ m[1] = "subject" /\ subject[m[2]].deleted
    <3>1. edit[e].pc \in {"log", "logCycle"} /\ n \in edit[e].log /\ r = Logged(e, n)
      BY <1>1
    <3> QED
      BY <3>1, LoggedHolds
  <2>2. Set(e, r)
    BY <1>2, <1>10
  <2>3. EditOK(r)' /\ HalfOK(r)'
    BY <1>1, <1>4, <2>1, EditStays DEF HalfOK
  <2>4. n \in adrift' \/ Right(n)'
    <3>1. CASE q.raced
      BY <1>4, <3>1
    <3>2. CASE TreeOf(n) = q.tree
      <4>1. TreeOf(n)' = q.tree
        BY <1>3, <1>6, <3>2
      <4>2. /\ courseLookup'[n[1]][n[2]] = CourseOf[TreeOf(n)']
            /\ TreeOf(n)' \in Cycled => cycleLookup'[n[1]][n[2]] = TreeOf(n)'
        BY <1>5, <1>10, <4>1
      <4> QED
        BY <4>2, Zenon DEF Right
    <3> QED
      BY <1>3, <3>1, <3>2
  <2>5. \A m \in Keys : m \in LiveRows' /\ m \in edit[e].made => m \in r.made \/ m \in adrift' \/ Right(m)'
    <3> SUFFICES ASSUME NEW m \in Keys, m \in LiveRows', m \in edit[e].made
                 PROVE  m \in r.made \/ m \in adrift' \/ Right(m)'
      BY Zenon
    <3>1. m[1] = "subject" => ~subject[m[2]].deleted
      <4>1. m[1] = "subject" => ~subject'[m[2]].deleted
        BY LiveRowsNext
      <4> QED
        BY <1>1, <4>1 DEF rowVars
    <3>2. CASE m = n
      <4>1. m \in adrift' \/ Right(m)'
        BY <2>4, <3>2, Zenon
      <4> QED
        BY <4>1
    <3>3. CASE m # n
      BY <1>4, <2>1, <3>1, <3>3
    <3> QED
      BY <3>2, <3>3
  <2> QED
    BY <1>1, <1>4, <1>7, <1>8, <2>1, <2>2, <2>3, <2>5, QuietStep
<1> QED
  BY <1>9, <1>10

\* The write of a cycle lookup row keeps the invariant.
LEMMA LogCycleLookUpTableStep ==
  ASSUME TreeInv, NEW e \in Editors, LogCycleLookUpTable(e)
  PROVE  TreeInv'
<1> PICK q : q = edit[e]
  OBVIOUS
<1> PICK n : n = q.row
  OBVIOUS
<1> PICK r : r = Logged(e, n)
  OBVIOUS
<1>1. /\ q.pc = "logCycle" /\ UNCHANGED <<rowVars, courseLookup, twinned>>
      /\ cycleLookup' = [cycleLookup EXCEPT ![n[1]][n[2]] = q.tree]
      /\ Set(e, r)
      /\ adrift' = adrift \cup (IF q.raced THEN {n} ELSE {})
  BY Zenon DEF LogCycleLookUpTable
<1>2. q \in Edit /\ EditOK(q) /\ HalfOK(q)
  BY DEF TreeInv, EditInv
<1>3. n \in q.log /\ q.tree \in Cycled
  BY <1>1, <1>2 DEF EditOK
<1>4. /\ n \in Keys /\ Stands(n) /\ (TreeOf(n) = q.tree \/ q.raced)
      /\ q.tree \in Trees
  BY <1>1, <1>3, LogsOwn
<1>5. adrift \subseteq adrift' /\ adrift' \subseteq Keys /\ (q.raced => n \in adrift')
  BY <1>1, <1>4 DEF TreeInv, LooksTyped
<1>6. /\ cycleLookup' \in [Tables -> [Ids -> Trees \cup {Nowhere}]]
      /\ cycleLookup'[n[1]][n[2]] = q.tree
      /\ \A m \in Keys : m # n => cycleLookup'[m[1]][m[2]] = cycleLookup[m[1]][m[2]]
  <2> DEFINE V == Trees \cup {Nowhere}
             new == cycleLookup'
             old == cycleLookup
             v == q.tree
  <2>1. old \in [Tables -> [Ids -> V]] /\ v \in V
    BY <1>4 DEF TreeInv, LooksTyped
  <2>2. new = [old EXCEPT ![n[1]][n[2]] = v]
    BY <1>1
  <2> HIDE DEF V, new, old, v
  <2>3. /\ new \in [Tables -> [Ids -> V]] /\ new[n[1]][n[2]] = v
        /\ \A m \in Keys : m # n => new[m[1]][m[2]] = old[m[1]][m[2]]
    <3>1. Writes(new, old, n, v, V)
      BY <1>4, <2>1, <2>2 DEF Writes
    <3> QED
      BY <3>1, Lookups
  <2> QED
    BY <2>3 DEF V, new, old, v
<1>7. \A m \in Keys : TreeOf(m)' = TreeOf(m)
  BY <1>1, TreeOfStill
<1>8. LooksTyped'
  BY <1>1, <1>5, <1>6 DEF TreeInv, LooksTyped
<1>9. LooksKept
  <2> SUFFICES ASSUME NEW m \in Keys
               PROVE  \/ cycleLookup'[m[1]][m[2]] = cycleLookup[m[1]][m[2]]
                      \/ cycleLookup'[m[1]][m[2]] = TreeOf(m)' \/ m \in adrift'
    BY <1>1 DEF LooksKept
  <2>1. CASE m = n /\ TreeOf(n) = q.tree
    <3>1. TreeOf(m)' = q.tree
      BY <1>7, <2>1
    <3> QED
      BY <1>6, <2>1, <3>1
  <2> QED
    BY <1>4, <1>5, <1>6, <2>1
<1>10. /\ r \in Edit /\ EditOK(r) /\ r.pc # "logCycle" /\ Alone(r)
       /\ \A m \in edit[e].made : \/ m = n \/ m \in r.made \/ m \in adrift
                                  \/ m[1] = "subject" /\ subject[m[2]].deleted
  BY <1>1, <1>3, LoggedHolds
<1>11. EditOK(r)' /\ HalfOK(r)'
  BY <1>1, <1>5, <1>10, EditStays DEF HalfOK
<1>12. n \in adrift' \/ Right(n)'
  <2>1. CASE q.raced \/ n \in adrift
    BY <1>5, <2>1
  <2>2. CASE ~q.raced /\ n \notin adrift
    <3>1. courseLookup[n[1]][n[2]] = CourseOf[TreeOf(n)] /\ TreeOf(n) = q.tree
      BY <1>1, <1>2, <1>4, <2>2 DEF HalfOK
    <3>2. TreeOf(n)' = q.tree
      BY <1>4, <1>7, <3>1
    <3>3. /\ courseLookup'[n[1]][n[2]] = CourseOf[TreeOf(n)']
          /\ TreeOf(n)' \in Cycled => cycleLookup'[n[1]][n[2]] = TreeOf(n)'
      BY <1>1, <1>6, <3>1, <3>2
    <3> QED
      BY <3>3, Zenon DEF Right
  <2> QED
    BY <2>1, <2>2
<1>13. \A m \in Keys : m \in LiveRows' /\ m \in edit[e].made => m \in r.made \/ m \in adrift' \/ Right(m)'
  <2> SUFFICES ASSUME NEW m \in Keys, m \in LiveRows', m \in edit[e].made
               PROVE  m \in r.made \/ m \in adrift' \/ Right(m)'
    BY Zenon
  <2>1. m[1] = "subject" => ~subject[m[2]].deleted
    <3>1. m[1] = "subject" => ~subject'[m[2]].deleted
      BY LiveRowsNext
    <3> QED
      BY <1>1, <3>1 DEF rowVars
  <2>2. CASE m = n
    <3>1. m \in adrift' \/ Right(m)'
      BY <1>12, <2>2, Zenon
    <3> QED
      BY <3>1
  <2>3. CASE m # n
    BY <1>5, <1>10, <2>1, <2>3
  <2> QED
    BY <2>2, <2>3
<1> QED
  BY <1>1, <1>5, <1>8, <1>9, <1>10, <1>11, <1>13, QuietStep

\* A lookup whose write fails keeps the invariant: its row is adrift.
LEMMA LookupFailsStep ==
  ASSUME TreeInv, NEW e \in Editors, LookupFails(e)
  PROVE  TreeInv'
<1> PICK q : q = edit[e]
  OBVIOUS
<1>1. /\ UNCHANGED <<rowVars, lookups, twinned>>
      /\ \/ /\ q.pc = "log"
            /\ \E n \in q.log : /\ Set(e, IF q.tree \in Cycled THEN Half(e, n) ELSE Logged(e, n))
                                /\ adrift' = adrift \cup {n}
         \/ q.pc = "logCycle" /\ Set(e, Logged(e, q.row)) /\ adrift' = adrift \cup {q.row}
  BY Zenon DEF LookupFails, Half
<1>2. q.pc = "logCycle" => q.row \in q.log
  BY DEF TreeInv, EditInv, EditOK
<1>3. PICK n \in q.log : /\ q.pc \in {"log", "logCycle"} /\ adrift' = adrift \cup {n}
                         /\ \/ Set(e, Logged(e, n))
                            \/ q.pc = "log" /\ q.tree \in Cycled /\ Set(e, Half(e, n))
  BY <1>1, <1>2
<1>4. n \in Keys
  BY <1>3, LogsOwn
<1>5. adrift \subseteq adrift' /\ LooksTyped' /\ LooksKept /\ n \in adrift'
  BY <1>1, <1>3, <1>4 DEF TreeInv, LooksTyped, LooksKept, lookups
<1>6. CASE q.pc = "log" /\ q.tree \in Cycled /\ Set(e, Half(e, n))
  <2> PICK r : r = Half(e, n)
    OBVIOUS
  <2>1. /\ r \in Edit /\ EditOK(r) /\ r.pc = "logCycle" /\ Alone(r) /\ r.made = edit[e].made
        /\ r.row = n /\ r.raced = q.raced /\ r.tree = q.tree
    <3>1. edit[e].pc = "log" /\ edit[e].tree \in Cycled /\ n \in edit[e].log
          /\ r = Half(e, n) /\ q = edit[e]
      BY <1>6
    <3> QED
      BY <3>1, HalfHolds
  <2>2. Set(e, r)
    BY <1>6
  <2>3. EditOK(r)' /\ HalfOK(r)'
    BY <1>1, <1>5, <2>1, EditStays DEF HalfOK
  <2>4. \A m \in edit[e].made : m \in r.made
    BY <2>1
  <2> QED
    BY <1>1, <1>5, <2>1, <2>2, <2>3, <2>4, QuietStep
<1>7. CASE Set(e, Logged(e, n))
  <2> PICK r : r = Logged(e, n)
    OBVIOUS
  <2>1. /\ r \in Edit /\ EditOK(r) /\ r.pc # "logCycle" /\ Alone(r)
        /\ \A m \in edit[e].made : \/ m = n \/ m \in r.made \/ m \in adrift
                                   \/ m[1] = "subject" /\ subject[m[2]].deleted
    <3>1. edit[e].pc \in {"log", "logCycle"} /\ n \in edit[e].log /\ r = Logged(e, n)
      BY <1>3
    <3> QED
      BY <3>1, LoggedHolds
  <2>2. Set(e, r)
    BY <1>7
  <2>3. EditOK(r)' /\ HalfOK(r)'
    BY <1>1, <1>5, <2>1, EditStays DEF HalfOK
  <2>4. \A m \in Keys : m \in LiveRows' /\ m \in edit[e].made => m \in r.made \/ m \in adrift'
    <3> SUFFICES ASSUME NEW m \in Keys, m \in LiveRows', m \in edit[e].made
                 PROVE  m \in r.made \/ m \in adrift'
      BY Zenon
    <3>1. m[1] = "subject" => ~subject[m[2]].deleted
      <4>1. m[1] = "subject" => ~subject'[m[2]].deleted
        BY LiveRowsNext
      <4> QED
        BY <1>1, <4>1 DEF rowVars
    <3> QED
      BY <1>5, <2>1, <3>1
  <2>5. \A m \in Keys : m \in LiveRows' /\ m \in edit[e].made => m \in r.made \/ m \in adrift' \/ Right(m)'
    BY <2>4, Zenon
  <2> QED
    BY <1>1, <1>5, <2>1, <2>2, <2>3, <2>5, QuietStep
<1> QED
  BY <1>3, <1>6, <1>7

\* What a step that adds or deletes rows leaves alone.
LEMMA LiveFrame ==
  /\ UNCHANGED subject => \A others : SubjectsKept(others)
  /\ UNCHANGED chapter => \A others : ChaptersKept(others)
<1>1. UNCHANGED subject => \A t : Live(subject', t) = Live(subject, t)
  OBVIOUS
<1>2. UNCHANGED chapter => \A t : Live(chapter', t) = Live(chapter, t)
  OBVIOUS
<1> QED
  BY <1>1, <1>2 DEF SubjectsKept, ChaptersKept

\* A table with a new row.
With(table, r, p) == [table EXCEPT ![r] = Row(p)]

\* A table with one more row: that row is there, the others as they were.
LEMMA WithRow ==
  ASSUME NEW table \in [Ids -> TableRow], NEW r \in Free(table), NEW p \in Ids
  PROVE  /\ r \in Ids /\ table[r].in = Nowhere /\ With(table, r, p) \in [Ids -> TableRow]
         /\ Stays(table, With(table, r, p)) /\ With(table, r, p)[r].in = p
         /\ ~With(table, r, p)[r].deleted
         /\ \A i \in Ids \ {r} : With(table, r, p)[i] = table[i]
<1> DEFINE new == With(table, r, p)
<1>1. r \in Ids /\ table[r].in = Nowhere
  BY DEF Free, Children
<1>2. Row(p) \in TableRow /\ Row(p).in = p /\ ~Row(p).deleted
  BY NewRow
<1>3. new \in [Ids -> TableRow] /\ new[r] = Row(p) /\ \A i \in Ids \ {r} : new[i] = table[i]
  BY <1>1, <1>2 DEF With
<1> HIDE DEF new
<1>4. Stays(table, new)
  BY <1>1, <1>3 DEF Stays
<1>5. new[r].in = p /\ ~new[r].deleted
  BY <1>2, <1>3
<1> QED
  BY <1>1, <1>3, <1>4, <1>5 DEF new

\* The insertion of a subject keeps the invariant.
LEMMA InsertSubjectStep ==
  ASSUME TreeInv, NEW e \in Editors, InsertSubject(e)
  PROVE  TreeInv'
<1> PICK q : q = edit[e]
  OBVIOUS
<1> PICK t : t = q.tree
  OBVIOUS
<1> PICK no : no = FALSE
  OBVIOUS
<1>1. /\ q.pc = "insertSubject" /\ UNCHANGED <<tree, chapter, content, lookups, adrift>>
      /\ twinned' = twinned \cup (IF q.raced THEN {<<"tree", t>>} ELSE {})
      /\ \E s \in Free(subject) :
           /\ subject' = [subject EXCEPT ![s] = Row(t)]
           /\ Raced(e, [Wait(e, "readSubjects") EXCEPT !.made = {<<"subject", s>>}, !.raced = FALSE],
                    WantSubject(t))
  BY Zenon DEF InsertSubject
<1>2. PICK s \in Free(subject) :
           /\ subject' = [subject EXCEPT ![s] = Row(t)]
           /\ Raced(e, [Wait(e, "readSubjects") EXCEPT !.made = {<<"subject", s>>}, !.raced = FALSE],
                    WantSubject(t))
  BY <1>1
<1> PICK r : r = [q EXCEPT !.pc = "readSubjects", !.made = {<<"subject", s>>}, !.raced = no]
  OBVIOUS
<1>3. Raced(e, r, WantSubject(t))
  <2>1. [Wait(e, "readSubjects") EXCEPT !.made = {<<"subject", s>>}, !.raced = FALSE] = r
    BY Zenon DEF Wait
  <2> QED
    BY <1>2, <2>1, Zenon
<1>4. q \in Edit /\ EditOK(q) /\ Alone(q) /\ RowsOK /\ FormInv
  BY DEF TreeInv, EditInv, TwinInv
<1>5. t \in Trees /\ tree[t] # "none" /\ t \in Ids /\ t # Nowhere
  BY <1>1, <1>4, TreeAssumption DEF EditOK
<1>6. /\ s \in Ids /\ subject[s].in = Nowhere /\ subject' \in [Ids -> TableRow] /\ Stays(subject, subject')
      /\ subject'[s].in = t /\ ~subject'[s].deleted /\ \A i \in Ids \ {s} : subject'[i] = subject[i]
  <2>1. subject' = With(subject, s, t) /\ subject \in [Ids -> TableRow] /\ t \in Ids
    BY <1>2, <1>4, <1>5, Zenon DEF With, RowsOK
  <2> QED
    BY <2>1, WithRow
<1>7. no \in BOOLEAN /\ ~no /\ <<"subject", s>> \in Keys
  BY <1>6 DEF Keys, Tables
<1>8. /\ r \in Edit /\ r.pc = "readSubjects" /\ r.tree = t /\ r.made = {<<"subject", s>>}
  BY <1>4, <1>7 DEF Edit, Steps
<1>9. RowsOK' /\ Grows /\ LooksTyped' /\ LooksKept
  <2>1. LooksTyped' /\ LooksKept
    BY <1>1, LooksStill
  <2> QED
    BY <1>1, <1>4, <1>6, <2>1 DEF RowsOK, Grows, Stays
<1>10. EditOK(r)' /\ HalfOK(r)' /\ Alone(r)'
  <2>1. EditOK(r)'
    BY <1>1, <1>5, <1>6, <1>8 DEF EditOK, Stands
  <2> QED
    BY <1>8, <2>1 DEF HalfOK, Alone
<1>11. ChaptersKept(WantSubject(t))
  BY <1>1, LiveFrame
<1>12. SubjectsKept(WantSubject(t))
  <2> SUFFICES ASSUME NEW u \in Trees
               PROVE  \/ Live(subject', u) \subseteq Live(subject, u)
                      \/ /\ u = t
                         /\ <<"tree", u>> \in twinned' \/ OneOf(Live(subject', u))
    BY DEF SubjectsKept
  <2>1. CASE u # t
    BY <1>6, <2>1 DEF Live, Children
  <2>2. CASE u = t /\ q.raced
    BY <1>1, <2>2
  <2>3. CASE u = t /\ ~q.raced
    <3>1. Live(subject, t) = {}
      BY <1>1, <1>4, <2>3 DEF Alone
    <3>2. \A i \in Live(subject', t) : i = s
      BY <1>6, <3>1 DEF Live, Children
    <3> QED
      BY <2>3, <3>2 DEF OneOf
  <2> QED
    BY <2>1, <2>2, <2>3
<1>13. \A n \in Keys : n \in LiveRows' /\ (n \in edit[e].made \/ ~Stands(n)) => n \in r.made
  <2> SUFFICES ASSUME NEW n \in Keys, n \in LiveRows', n \in edit[e].made \/ ~Stands(n)
               PROVE  n \in r.made
    BY Zenon
  <2>1. ~Stands(n)
    BY <1>1, <1>4 DEF EditOK
  <2>2. Stands(n)'
    BY LiveRowsNext
  <2>3. n[1] = "subject" /\ n[2] = s /\ n = <<n[1], n[2]>>
    BY <1>1, <1>6, <2>1, <2>2, KeyParts DEF Stands
  <2> QED
    BY <1>8, <2>3
<1>14. \A i \in Ids : \/ subject'[i].in = subject[i].in
                      \/ subject'[i].in \in Trees /\ tree'[subject'[i].in] # "none"
  BY <1>1, <1>5, <1>6
<1>15. \A c \in Ids : content[c].in # Nowhere =>
           /\ content'[c].in # Nowhere
           /\ content[c].deleted => content'[c].deleted
           /\ content'[c].in = content[c].in
  BY <1>1
<1>16. /\ \A h \in Ids : chapter'[h].in = chapter[h].in
       /\ \A c \in Ids : content'[c].in = content[c].in
       /\ twinned \subseteq twinned'
  BY <1>1
<1> QED
  BY <1>3, <1>8, <1>9, <1>10, <1>11, <1>12, <1>13, <1>14, <1>15, <1>16, TreeStep

\* A new chapter under a subject, of which those who want to add one are told.
LEMMA ChapterPut ==
  ASSUME RowsOK, NEW h \in Free(chapter), NEW s \in Ids, chapter' = With(chapter, h, s),
         NEW others, WantChapter(s) \subseteq others,
         <<"subject", s>> \in twinned' \/ Live(chapter, s) = {}
  PROVE  ChaptersKept(others)
<1>1. /\ h \in Ids /\ chapter[h].in = Nowhere /\ Stays(chapter, chapter')
      /\ chapter'[h].in = s /\ ~chapter'[h].deleted /\ \A i \in Ids \ {h} : chapter'[i] = chapter[i]
  BY WithRow DEF RowsOK
<1>2. ASSUME NEW u \in Ids, u # s PROVE Live(chapter', u) \subseteq Live(chapter, u)
  BY <1>1, <1>2 DEF Live, Children
<1>3. ASSUME Live(chapter, s) = {} PROVE OneOf(Live(chapter', s))
  <2>1. \A i \in Live(chapter', s) : i = h
    BY <1>1, <1>3 DEF Live, Children
  <2> QED
    BY <2>1 DEF OneOf
<1> QED
  BY <1>2, <1>3 DEF ChaptersKept

\* A step that puts a chapter in a subject and changes nothing else of the rows.
LEMMA ChapterStep ==
  ASSUME TreeInv, NEW e \in Editors, UNCHANGED <<tree, subject, content, lookups, adrift>>,
         NEW h \in Free(chapter), NEW s \in Ids, subject[s].in # Nowhere, chapter' = With(chapter, h, s),
         twinned \subseteq twinned', <<"subject", s>> \in twinned' \/ Live(chapter, s) = {},
         NEW r \in Edit, Raced(e, r, WantChapter(s)), EditOK(r)', r.pc \in {"readChapters", "findChapter"},
         edit[e].made \cup {<<"chapter", h>>} \subseteq r.made
  PROVE  TreeInv'
<1>1. RowsOK /\ FormInv
  BY DEF TreeInv
<1>2. /\ h \in Ids /\ chapter[h].in = Nowhere /\ chapter' \in [Ids -> TableRow] /\ Stays(chapter, chapter')
      /\ chapter'[h].in = s /\ ~chapter'[h].deleted /\ \A i \in Ids \ {h} : chapter'[i] = chapter[i]
  BY <1>1, WithRow DEF RowsOK
<1>3. RowsOK' /\ Grows
  BY <1>1, <1>2 DEF RowsOK, Grows, Stays
<1>4. LooksTyped' /\ LooksKept
  BY LooksStill
<1>5. HalfOK(r)' /\ Alone(r)'
  BY DEF HalfOK, Alone
<1>6. SubjectsKept(WantChapter(s))
  BY LiveFrame
<1>7. ChaptersKept(WantChapter(s))
  BY <1>1, ChapterPut
<1>8. \A n \in Keys : n \in LiveRows' /\ (n \in edit[e].made \/ ~Stands(n)) => n \in r.made
  <2> SUFFICES ASSUME NEW n \in Keys, n \in LiveRows', ~Stands(n)
               PROVE  n \in r.made
    BY Zenon
  <2>2. Stands(n)'
    BY LiveRowsNext
  <2>3. n[1] = "chapter" /\ n[2] = h /\ n = <<n[1], n[2]>>
    BY <1>2, <2>2, KeyParts DEF Stands
  <2> QED
    BY <2>3
<1>9. /\ \A i \in Ids : subject'[i].in = subject[i].in
      /\ \A i \in Ids : chapter'[i].in = chapter[i].in \/ subject'[chapter'[i].in].in # Nowhere
      /\ \A c \in Ids : content'[c].in = content[c].in
  BY <1>2
<1>10. \A c \in Ids : content[c].in # Nowhere =>
           /\ content'[c].in # Nowhere
           /\ content[c].deleted => content'[c].deleted
           /\ content'[c].in = content[c].in
  OBVIOUS
<1> QED
  BY <1>3, <1>4, <1>5, <1>6, <1>7, <1>8, <1>9, <1>10, TreeStep

\* The insertion of a chapter keeps the invariant.
LEMMA InsertChapterStep ==
  ASSUME TreeInv, NEW e \in Editors, InsertChapter(e)
  PROVE  TreeInv'
<1> PICK q : q = edit[e]
  OBVIOUS
<1> PICK s : s = q.subject
  OBVIOUS
<1> PICK no : no = FALSE
  OBVIOUS
<1>1. /\ q.pc = "insertChapter" /\ UNCHANGED <<tree, subject, content, lookups, adrift>>
      /\ twinned' = twinned \cup (IF q.raced THEN {<<"subject", s>>} ELSE {})
      /\ \E h \in Free(chapter) :
           /\ chapter' = With(chapter, h, s)
           /\ Raced(e, [Wait(e, "findChapter") EXCEPT !.made = {<<"chapter", h>>}, !.raced = FALSE],
                    WantChapter(s))
  BY Zenon DEF InsertChapter, With
<1>2. PICK h \in Free(chapter) :
           /\ chapter' = With(chapter, h, s)
           /\ Raced(e, [Wait(e, "findChapter") EXCEPT !.made = {<<"chapter", h>>}, !.raced = FALSE],
                    WantChapter(s))
  BY <1>1
<1> PICK r : r = [q EXCEPT !.pc = "findChapter", !.made = {<<"chapter", h>>}, !.raced = no]
  OBVIOUS
<1>3. Raced(e, r, WantChapter(s))
  <2>1. [Wait(e, "findChapter") EXCEPT !.made = {<<"chapter", h>>}, !.raced = FALSE] = r
    BY Zenon DEF Wait
  <2> QED
    BY <1>2, <2>1, Zenon
<1>4. q \in Edit /\ EditOK(q) /\ Alone(q) /\ RowsOK /\ FormInv
  BY DEF TreeInv, EditInv, TwinInv
<1>5. /\ q.tree \in Trees /\ tree[q.tree] # "none" /\ s \in Ids /\ subject[s].in = q.tree
      /\ q.tree # Nowhere /\ q.made = {} /\ q.then = "idle" /\ q.todo = {}
  BY <1>1, <1>4, TreeAssumption DEF EditOK
<1>6. h \in Ids /\ chapter'[h].in = s
  BY <1>2, <1>4, <1>5, WithRow DEF RowsOK
<1>7. no \in BOOLEAN /\ ~no /\ <<"chapter", h>> \in Keys
  BY <1>6 DEF Keys, Tables
<1>8. /\ r \in Edit /\ r.pc = "findChapter" /\ r.tree = q.tree /\ r.subject = s
      /\ r.made = {<<"chapter", h>>} /\ r.then = "idle" /\ r.todo = {}
  BY <1>4, <1>5, <1>7 DEF Edit, Steps
<1>9. EditOK(r)'
  BY <1>1, <1>5, <1>6, <1>8, TreeAssumption DEF EditOK, Stands
<1>10. <<"subject", s>> \in twinned' \/ Live(chapter, s) = {}
  BY <1>1, <1>4 DEF Alone
<1>11. edit[e].made \cup {<<"chapter", h>>} \subseteq r.made /\ twinned \subseteq twinned'
       /\ subject[s].in # Nowhere /\ r.pc \in {"readChapters", "findChapter"}
  BY <1>1, <1>5, <1>8
<1> QED
  BY <1>1, <1>2, <1>3, <1>5, <1>8, <1>9, <1>10, <1>11, ChapterStep

\* The chapters a course takes over from the catalogue keep the invariant.
LEMMA TakeChaptersStep ==
  ASSUME TreeInv, NEW e \in Editors, TakeChapters(e)
  PROVE  TreeInv'
<1> PICK q : q = edit[e]
  OBVIOUS
<1> PICK s : s = q.subject
  OBVIOUS
<1>1. /\ q.pc = "takeChapters" /\ UNCHANGED <<tree, subject, content, lookups, adrift>>
      /\ twinned' = twinned \cup (IF Live(chapter, s) = {} THEN {} ELSE {<<"subject", s>>})
      /\ \E h \in Free(chapter) :
           /\ chapter' = With(chapter, h, s)
           /\ Raced(e, [Wait(e, "readChapters") EXCEPT !.made = @ \cup {<<"chapter", h>>}], WantChapter(s))
  BY Zenon DEF TakeChapters, With
<1>2. PICK h \in Free(chapter) :
           /\ chapter' = With(chapter, h, s)
           /\ Raced(e, [Wait(e, "readChapters") EXCEPT !.made = @ \cup {<<"chapter", h>>}], WantChapter(s))
  BY <1>1
<1>4. q \in Edit /\ EditOK(q) /\ RowsOK /\ FormInv
  BY DEF TreeInv, EditInv
<1> PICK held : held = q.made \cup {<<"chapter", h>>}
  OBVIOUS
<1> PICK r : r = [q EXCEPT !.pc = "readChapters", !.made = held]
  OBVIOUS
<1>3. Raced(e, r, WantChapter(s))
  <2>1. Wait(e, "readChapters") = [q EXCEPT !.pc = "readChapters"]
    BY DEF Wait
  <2>2. Wait(e, "readChapters").made = q.made
    BY <1>4, <2>1 DEF Edit
  <2>3. [Wait(e, "readChapters") EXCEPT !.made = @ \cup {<<"chapter", h>>}] = r
    BY <2>1, <2>2, Zenon
  <2> QED
    BY <1>2, <2>3, Zenon
<1>5. /\ q.tree \in Trees /\ tree[q.tree] # "none" /\ s \in Ids /\ subject[s].in = q.tree
      /\ q.tree # Nowhere /\ \A n \in q.made : Stands(n) /\ Coming(q, n)
      /\ \A i \in q.todo : subject[i].in = q.tree
  BY <1>1, <1>4, TreeAssumption DEF EditOK
<1>6. h \in Ids /\ chapter'[h].in = s /\ Stays(chapter, chapter')
  BY <1>2, <1>4, <1>5, WithRow DEF RowsOK
<1>7. <<"chapter", h>> \in Keys
  BY <1>6 DEF Keys, Tables
<1>8. held \in SUBSET Keys
  BY <1>4, <1>7 DEF Edit
<1>9. /\ r \in Edit /\ r.pc = "readChapters" /\ r.tree = q.tree /\ r.subject = s
      /\ r.made = held /\ r.todo = q.todo
  BY <1>4, <1>8 DEF Edit, Steps
<1>10. \A n \in r.made : /\ Stands(n)'
                         /\ Coming(r, n)' \/ (n[1] = "chapter" /\ chapter'[n[2]].in = s)
  <2> SUFFICES ASSUME NEW n \in r.made
               PROVE  /\ Stands(n)'
                      /\ Coming(r, n)' \/ (n[1] = "chapter" /\ chapter'[n[2]].in = s)
    OBVIOUS
  <2>1. CASE n = <<"chapter", h>>
    BY <1>5, <1>6, <2>1, TreeAssumption DEF Stands
  <2>2. CASE n \in q.made
    <3>1. Stands(n) /\ Coming(q, n) /\ n \in Keys
      BY <1>4, <1>5, <2>2 DEF Edit
    <3>2. n[2] \in Ids
      BY <3>1, KeyParts
    <3>3. Stands(n)'
      BY <1>1, <1>6, <3>1, <3>2 DEF Stands, Stays
    <3>4. n \in adrift' \/ (n[1] = "subject" /\ (subject'[n[2]].deleted \/ n[2] \in r.todo))
      BY <1>1, <1>9, <3>1 DEF Coming
    <3>5. Coming(r, n)'
      BY <3>4 DEF Coming
    <3> QED
      BY <3>3, <3>5
  <2> QED
    BY <1>9, <2>1, <2>2
<1>11. EditOK(r)'
  BY <1>1, <1>5, <1>9, <1>10 DEF EditOK
<1>12. <<"subject", s>> \in twinned' \/ Live(chapter, s) = {}
  BY <1>1
<1>13. edit[e].made \cup {<<"chapter", h>>} \subseteq r.made /\ twinned \subseteq twinned'
       /\ subject[s].in # Nowhere /\ r.pc \in {"readChapters", "findChapter"}
  BY <1>1, <1>5, <1>9
<1> QED
  BY <1>1, <1>2, <1>3, <1>5, <1>9, <1>11, <1>12, <1>13, ChapterStep

\* The insertion of a class keeps the invariant.
LEMMA InsertContentStep ==
  ASSUME TreeInv, NEW e \in Editors, InsertContent(e)
  PROVE  TreeInv'
<1> PICK q : q = edit[e]
  OBVIOUS
<1>1. /\ q.pc = "insertContent" /\ UNCHANGED <<tree, subject, chapter, lookups, adrift, twinned>>
      /\ \E c \in Free(content) :
           /\ content' = With(content, c, q.chapter)
           /\ Set(e, [Wait(e, "log") EXCEPT !.made = {<<"content", c>>}, !.log = {<<"content", c>>}])
  BY Zenon DEF InsertContent, With
<1>2. PICK c \in Free(content) :
           /\ content' = With(content, c, q.chapter)
           /\ Set(e, [Wait(e, "log") EXCEPT !.made = {<<"content", c>>}, !.log = {<<"content", c>>}])
  BY <1>1
<1> PICK r : r = [q EXCEPT !.pc = "log", !.made = {<<"content", c>>}, !.log = {<<"content", c>>}]
  OBVIOUS
<1>3. Raced(e, r, {})
  <2>1. [Wait(e, "log") EXCEPT !.made = {<<"content", c>>}, !.log = {<<"content", c>>}] = r
    BY Zenon DEF Wait
  <2>2. Set(e, r)
    BY <1>2, <2>1, Zenon
  <2> QED
    BY <2>2, SetRaces DEF TreeInv
<1>4. q \in Edit /\ EditOK(q) /\ RowsOK /\ FormInv
  BY DEF TreeInv, EditInv
<1>5. /\ q.tree \in Trees /\ tree[q.tree] # "none" /\ q.chapter \in Ids /\ chapter[q.chapter].in # Nowhere
      /\ TreeOf(<<"chapter", q.chapter>>) = q.tree /\ q.then = "idle" /\ q.todo = {} /\ q.made = {}
      /\ Nowhere \notin Ids
  BY <1>1, <1>4, TreeAssumption DEF EditOK
<1>6. /\ c \in Ids /\ content[c].in = Nowhere /\ content' \in [Ids -> TableRow] /\ Stays(content, content')
      /\ content'[c].in = q.chapter /\ \A i \in Ids \ {c} : content'[i] = content[i]
  BY <1>2, <1>4, <1>5, WithRow DEF RowsOK
<1>7. <<"content", c>> \in Keys
  BY <1>6 DEF Keys, Tables
<1>8. /\ r \in Edit /\ r.pc = "log" /\ r.tree = q.tree /\ r.log = {<<"content", c>>}
      /\ r.made = {<<"content", c>>} /\ r.then = "idle" /\ r.todo = {}
  BY <1>4, <1>5, <1>7 DEF Edit, Steps
<1>9. RowsOK' /\ Grows
  BY <1>1, <1>4, <1>6 DEF RowsOK, Grows, Stays
<1>10. LooksTyped' /\ LooksKept
  BY <1>1, LooksStill
<1>11. Stands(<<"content", c>>)' /\ TreeOf(<<"content", c>>)' = q.tree
  <2>1. TreeOf(<<"content", c>>)' = subject'[chapter'[content'[c].in].in].in
    BY DEF TreeOf
  <2>2. TreeOf(<<"chapter", q.chapter>>) = subject[chapter[q.chapter].in].in
    BY TreeOfRow
  <2> QED
    BY <1>1, <1>5, <1>6, <2>1, <2>2 DEF Stands
<1>12. EditOK(r)'
  BY <1>1, <1>5, <1>8, <1>11 DEF EditOK
<1>13. HalfOK(r)' /\ Alone(r)'
  BY <1>8 DEF HalfOK, Alone
<1>14. SubjectsKept({}) /\ ChaptersKept({})
  BY <1>1, LiveFrame
<1>15. \A n \in Keys : n \in LiveRows' /\ (n \in edit[e].made \/ ~Stands(n)) => n \in r.made
  <2> SUFFICES ASSUME NEW n \in Keys, n \in LiveRows', ~Stands(n)
               PROVE  n \in r.made
    BY <1>5, Zenon
  <2>2. Stands(n)'
    BY LiveRowsNext
  <2>3. n[1] = "content" /\ n[2] = c /\ n = <<n[1], n[2]>>
    BY <1>1, <1>6, <2>2, KeyParts DEF Stands
  <2> QED
    BY <1>8, <2>3
<1>16. /\ \A i \in Ids : subject'[i].in = subject[i].in
       /\ \A i \in Ids : chapter'[i].in = chapter[i].in
       /\ \A i \in Ids : content'[i].in = content[i].in \/ chapter'[content'[i].in].in # Nowhere
       /\ twinned \subseteq twinned'
  BY <1>1, <1>5, <1>6
<1>17. \A i \in Ids : content[i].in # Nowhere =>
           /\ content'[i].in # Nowhere
           /\ content[i].deleted => content'[i].deleted
           /\ content'[i].in = content[i].in
  BY <1>6
<1> QED
  BY <1>3, <1>8, <1>9, <1>10, <1>12, <1>13, <1>14, <1>15, <1>16, <1>17, TreeStep

\* What a step that only marks rows as deleted leaves alone.
LEMMA MarksFrame ==
  ASSUME TreeInv, UNCHANGED <<tree, lookups, adrift, twinned>>, RowsOK',
         Marks(subject, subject'), Marks(chapter, chapter'), Marks(content, content')
  PROVE  /\ Grows /\ LooksKept /\ LooksTyped' /\ SubjectsKept({}) /\ ChaptersKept({})
         /\ \A n \in Keys : Stands(n)' => Stands(n)
         /\ \A t : Live(subject', t) \subseteq Live(subject, t)
         /\ \A s : Live(chapter', s) \subseteq Live(chapter, s)
<1>1. Grows
  BY DEF Grows, Stays, Marks
<1>2. LooksKept /\ LooksTyped'
  BY LooksStill
<1>3. (\A t : Live(subject', t) \subseteq Live(subject, t))
      /\ (\A s : Live(chapter', s) \subseteq Live(chapter, s))
  BY DEF Live, Children, Marks
<1>4. SubjectsKept({}) /\ ChaptersKept({})
  BY <1>3 DEF SubjectsKept, ChaptersKept
<1>5. \A n \in Keys : Stands(n)' => Stands(n)
  BY KeyParts DEF Stands, Marks
<1> QED
  BY <1>1, <1>2, <1>3, <1>4, <1>5

\* A step that only marks rows as deleted keeps the invariant.
LEMMA MarkStep ==
  ASSUME TreeInv, UNCHANGED <<tree, lookups, adrift, twinned>>, RowsOK',
         Marks(subject, subject'), Marks(chapter, chapter'), Marks(content, content'),
         NEW e \in Editors, NEW r \in Edit, Raced(e, r, {}), EditOK(r)', HalfOK(r)', Alone(r)',
         edit[e].made \subseteq r.made
  PROVE  TreeInv'
<1>1. /\ Grows /\ LooksKept /\ LooksTyped' /\ SubjectsKept({}) /\ ChaptersKept({})
      /\ \A n \in Keys : Stands(n)' => Stands(n)
  BY MarksFrame
<1>2. \A n \in Keys : n \in LiveRows' /\ (n \in edit[e].made \/ ~Stands(n)) => n \in r.made
  <2>1. \A n \in Keys : n \in LiveRows' => Stands(n)'
    BY LiveRowsNext, Zenon
  <2> QED
    BY <1>1, <2>1
<1>3. /\ \A i \in Ids : subject'[i].in = subject[i].in
      /\ \A i \in Ids : chapter'[i].in = chapter[i].in
      /\ \A i \in Ids : content'[i].in = content[i].in
      /\ twinned \subseteq twinned'
  BY DEF Marks
<1>4. \A i \in Ids : content[i].in # Nowhere =>
           /\ content'[i].in # Nowhere
           /\ content[i].deleted => content'[i].deleted
           /\ content'[i].in = content[i].in
  BY DEF Marks
<1> QED
  BY <1>1, <1>2, <1>3, <1>4, TreeStep

\* The requests are left alone.
LEMMA MarkAlone ==
  ASSUME TreeInv, UNCHANGED <<tree, lookups, adrift, twinned, edit>>, RowsOK',
         Marks(subject, subject'), Marks(chapter, chapter'), Marks(content, content'),
         NEW e \in Editors
  PROVE  TreeInv'
<1> PICK r : r = edit[e]
  OBVIOUS
<1>1. r \in Edit /\ EditOK(r) /\ HalfOK(r) /\ Alone(r) /\ RowsOK /\ FormInv
  BY DEF TreeInv, EditInv, TwinInv
<1>2. /\ Grows /\ LooksKept
      /\ \A t : Live(subject', t) \subseteq Live(subject, t)
      /\ \A s : Live(chapter', s) \subseteq Live(chapter, s)
  BY MarksFrame
<1>3. Same(r, r)
  BY <1>1 DEF Same
<1>4. \A c \in Ids : content[c].in # Nowhere => content'[c].in # Nowhere /\ content'[c].in = content[c].in
  BY DEF Marks
<1>5. EditOK(r)'
  BY <1>1, <1>2, <1>3, <1>4, EditFrame
<1>6. HalfOK(r)'
  BY <1>1, <1>2, <1>3, <1>4, HalfFrame
<1>7. Alone(r)'
  <2>1. ~r.raced =>
    /\ \/ r.pc = "insertSubject"
       \/ r.pc \in {"godChapter", "godCommit"} /\ r.subject = Nowhere
       => Live(subject', r.tree) = {}
    /\ \/ r.pc = "insertChapter"
       \/ r.pc = "godCommit" /\ r.subject # Nowhere /\ r.chapter = Nowhere
       => Live(chapter', r.subject) = {}
    <3> DEFINE A == Live(subject, r.tree)
               B == Live(chapter, r.subject)
               C == Live(subject', r.tree)
               D == Live(chapter', r.subject)
    <3>1. C \subseteq A /\ D \subseteq B
      BY <1>2
    <3>2. ~r.raced =>
    /\ \/ r.pc = "insertSubject"
       \/ r.pc \in {"godChapter", "godCommit"} /\ r.subject = Nowhere
       => A = {}
    /\ \/ r.pc = "insertChapter"
       \/ r.pc = "godCommit" /\ r.subject # Nowhere /\ r.chapter = Nowhere
       => B = {}
      BY <1>1 DEF Alone
    <3> HIDE DEF A, B, C, D
    <3>3. (A = {} => C = {}) /\ (B = {} => D = {})
      BY <3>1
    <3>4. ~r.raced =>
    /\ \/ r.pc = "insertSubject"
       \/ r.pc \in {"godChapter", "godCommit"} /\ r.subject = Nowhere
       => C = {}
    /\ \/ r.pc = "insertChapter"
       \/ r.pc = "godCommit" /\ r.subject # Nowhere /\ r.chapter = Nowhere
       => D = {}
      BY <3>2, <3>3
    <3> QED
      BY <3>4 DEF C, D
  <2> QED
    BY <2>1, Zenon DEF Alone, Live, Children
<1>8. Raced(e, r, {})
  <2>1. Set(e, r)
    BY DEF Set, TreeInv, EditTyped
  <2> QED
    BY <2>1, SetRaces DEF TreeInv
<1>9. edit[e].made \subseteq r.made
  OBVIOUS
<1> QED
  BY <1>1, <1>5, <1>6, <1>7, <1>8, <1>9, MarkStep

\* deleteChapter keeps the invariant.
LEMMA DeleteChapterStep ==
  ASSUME TreeInv, NEW e \in Editors, NEW h \in Ids, DeleteChapter(e, h)
  PROVE  TreeInv'
<1>1. /\ chapter' = Deleted(chapter, h)
      /\ UNCHANGED <<tree, subject, content, lookups, edit, adrift, twinned>>
  BY Zenon DEF DeleteChapter, Deleted
<1>2. RowsOK
  BY DEF TreeInv
<1>3. chapter' \in [Ids -> TableRow] /\ Marks(chapter, chapter')
  BY <1>1, <1>2, DeletesRow DEF RowsOK
<1>4. RowsOK' /\ Marks(subject, subject') /\ Marks(content, content')
  BY <1>1, <1>2, <1>3 DEF RowsOK, Marks
<1> QED
  BY <1>1, <1>3, <1>4, MarkAlone

\* deleteClass keeps the invariant.
LEMMA DeleteClassStep ==
  ASSUME TreeInv, NEW e \in Editors, NEW c \in Ids, DeleteClass(e, c)
  PROVE  TreeInv'
<1>1. /\ content' = Deleted(content, c)
      /\ UNCHANGED <<tree, subject, chapter, lookups, edit, adrift, twinned>>
  BY Zenon DEF DeleteClass, Deleted
<1>2. RowsOK
  BY DEF TreeInv
<1>3. content' \in [Ids -> TableRow] /\ Marks(content, content')
  BY <1>1, <1>2, DeletesRow DEF RowsOK
<1>4. RowsOK' /\ Marks(subject, subject') /\ Marks(chapter, chapter')
  BY <1>1, <1>2, <1>3 DEF RowsOK, Marks
<1> QED
  BY <1>1, <1>3, <1>4, MarkAlone

\* deleteSubject keeps the invariant.
LEMMA DeleteSubjectStep ==
  ASSUME TreeInv, NEW e \in Editors, NEW s \in Ids, DeleteSubject(e, s)
  PROVE  TreeInv'
<1> PICK r : r = IF subject[s].in \in Cycled THEN Done ELSE [Done EXCEPT !.pc = "cascade", !.subject = s]
  OBVIOUS
<1>1. /\ subject' = Deleted(subject, s) /\ edit[e].pc = "idle" /\ Set(e, r)
      /\ UNCHANGED <<tree, chapter, content, lookups, adrift, twinned>>
  BY Zenon DEF DeleteSubject, Begin, Deleted
<1>2. RowsOK
  BY DEF TreeInv
<1>3. subject' \in [Ids -> TableRow] /\ Marks(subject, subject')
  BY <1>1, <1>2, DeletesRow DEF RowsOK
<1>4. RowsOK' /\ Marks(content, content') /\ Marks(chapter, chapter')
  BY <1>1, <1>2, <1>3 DEF RowsOK, Marks
<1>5. r \in Edit /\ r.pc \in {"idle", "cascade"} /\ r.made = {}
  BY DoneFields DEF Edit, Steps
<1>6. EditOK(r)' /\ HalfOK(r)' /\ Alone(r)'
  BY <1>5 DEF EditOK, HalfOK, Alone
<1>7. Raced(e, r, {})
  BY <1>1, SetRaces DEF TreeInv
<1>8. edit[e].made \subseteq r.made
  BY <1>1 DEF TreeInv, EditInv, EditOK
<1>9. UNCHANGED <<tree, lookups, adrift, twinned>>
  BY <1>1
<1> QED
  BY <1>3, <1>4, <1>5, <1>6, <1>7, <1>8, <1>9, MarkStep

\* The deletion of the chapters of a deleted subject keeps the invariant.
LEMMA DeleteChaptersStep ==
  ASSUME TreeInv, NEW e \in Editors, DeleteChapters(e)
  PROVE  TreeInv'
<1> PICK s : s = edit[e].subject
  OBVIOUS
<1> DEFINE gone(h) == [chapter[h] EXCEPT !.deleted = TRUE]
<1>1. /\ chapter' = [h \in Ids |-> IF chapter[h].in = s THEN gone(h) ELSE chapter[h]]
      /\ edit[e].pc = "cascade" /\ Set(e, Done)
      /\ UNCHANGED <<tree, subject, content, lookups, adrift, twinned>>
  BY Zenon DEF DeleteChapters
<1>2. RowsOK
  BY DEF TreeInv
<1>3. \A h \in Ids : chapter[h] \in TableRow
  BY <1>2 DEF RowsOK
<1>4. \A h \in Ids : gone(h) \in TableRow /\ gone(h).in = chapter[h].in /\ gone(h).deleted
  BY <1>3, DeletedRow
<1> HIDE DEF gone
<1>5. chapter' \in [Ids -> TableRow] /\ Marks(chapter, chapter')
  BY <1>1, <1>3, <1>4 DEF Marks
<1>6. RowsOK' /\ Marks(subject, subject') /\ Marks(content, content')
  BY <1>1, <1>2, <1>5 DEF RowsOK, Marks
<1>7. EditOK(Done)' /\ HalfOK(Done)' /\ Alone(Done)' /\ Done \in Edit
  BY DoneFields DEF EditOK, HalfOK, Alone
<1>8. Raced(e, Done, {})
  BY <1>1, SetRaces DEF TreeInv
<1>9. edit[e].made \subseteq Done.made
  BY <1>1 DEF TreeInv, EditInv, EditOK
<1>10. UNCHANGED <<tree, lookups, adrift, twinned>>
  BY <1>1
<1> QED
  BY <1>5, <1>6, <1>7, <1>8, <1>9, <1>10, MarkStep

\* updateClass keeps the invariant: the request that moves a class carries it until
\* its lookups are written, and requests that carried it before are marked as raced.
LEMMA UpdateClassStep ==
  ASSUME TreeInv, NEW e \in Editors, NEW c \in Ids, NEW h \in Ids, UpdateClass(e, c, h)
  PROVE  TreeInv'
<1> PICK t : t = TreeOf(<<"chapter", h>>)
  OBVIOUS
<1> PICK n : n = <<"content", c>>
  OBVIOUS
<1> PICK r : r = [Done EXCEPT !.pc = "log", !.tree = t, !.log = {n}, !.made = {n}]
  OBVIOUS
<1> DEFINE others == {f \in Editors : n \in edit[f].made}
<1>1. /\ edit[e].pc = "idle" /\ content[c].in # Nowhere /\ chapter[h].in # Nowhere
      /\ content' = [content EXCEPT ![c].in = h] /\ Raced(e, r, others)
      /\ UNCHANGED <<tree, subject, chapter, lookups, adrift, twinned>>
  BY Zenon DEF UpdateClass, Begin
<1>2. RowsOK /\ FormInv
  BY DEF TreeInv
<1>3. t \in Trees /\ tree[t] # "none" /\ t = subject[chapter[h].in].in
  <2>1. t = subject[chapter[h].in].in
    BY TreeOfRow
  <2> QED
    BY <1>1, <1>2, <2>1, RowPlaced DEF FormInv
<1>4. /\ content' \in [Ids -> TableRow] /\ content'[c].in = h
      /\ content'[c].deleted = content[c].deleted
      /\ \A i \in Ids \ {c} : content'[i] = content[i]
  BY <1>1, <1>2 DEF RowsOK, TableRow
<1>5. n \in Keys /\ Nowhere \notin Ids
  BY TreeAssumption DEF Keys, Tables
<1>6. /\ r \in Edit /\ r.pc = "log" /\ r.tree = t /\ r.log = {n} /\ r.made = {n} /\ r.then = "idle"
      /\ r.todo = {}
  BY <1>3, <1>5, DoneFields DEF Edit, Steps
<1>7. Stands(<<"content", c>>)' /\ TreeOf(<<"content", c>>)' = t
  <2>1. TreeOf(<<"content", c>>)' = subject'[chapter'[content'[c].in].in].in
    BY DEF TreeOf
  <2> QED
    BY <1>1, <1>3, <1>4, <1>5, <2>1 DEF Stands
<1>8. EditOK(r)'
  BY <1>1, <1>3, <1>6, <1>7 DEF EditOK
<1>9. HalfOK(r)' /\ Alone(r)'
  BY <1>6 DEF HalfOK, Alone
<1>10. RowsOK' /\ Grows
  BY <1>1, <1>2, <1>4 DEF RowsOK, Grows, Stays
<1>11. LooksTyped' /\ LooksKept
  BY <1>1, LooksStill
<1>12. SubjectsKept(others) /\ ChaptersKept(others)
  BY <1>1, LiveFrame
<1>13. \A m \in Keys : m \in LiveRows' /\ (m \in edit[e].made \/ ~Stands(m)) => m \in r.made
  <2> SUFFICES ASSUME NEW m \in Keys, m \in LiveRows', m \in edit[e].made \/ ~Stands(m)
               PROVE  FALSE
    BY Zenon
  <2>1. ~Stands(m)
    BY <1>1 DEF TreeInv, EditInv, EditOK
  <2>2. Stands(m)'
    BY LiveRowsNext
  <2> QED
    BY <1>1, <1>4, <2>1, <2>2, KeyParts DEF Stands
<1>14. /\ \A i \in Ids : subject'[i].in = subject[i].in
       /\ \A i \in Ids : chapter'[i].in = chapter[i].in
       /\ \A i \in Ids : content'[i].in = content[i].in \/ chapter'[content'[i].in].in # Nowhere
       /\ twinned \subseteq twinned'
  BY <1>1, <1>4
<1>15. \A i \in Ids : content[i].in # Nowhere =>
           /\ content'[i].in # Nowhere
           /\ content[i].deleted => content'[i].deleted
           /\ \/ content'[i].in = content[i].in
              \/ /\ <<"content", i>> \in r.made
                 /\ \A f \in Editors \ {e} : <<"content", i>> \in edit[f].made => f \in others
  <2> SUFFICES ASSUME NEW i \in Ids, content[i].in # Nowhere
               PROVE  /\ content'[i].in # Nowhere
                      /\ content[i].deleted => content'[i].deleted
                      /\ \/ content'[i].in = content[i].in
                         \/ /\ <<"content", i>> \in r.made
                            /\ \A f \in Editors \ {e} : <<"content", i>> \in edit[f].made => f \in others
    OBVIOUS
  <2>1. CASE i = c
    BY <1>4, <1>5, <1>6, <2>1
  <2>2. CASE i # c
    BY <1>4, <2>2
  <2> QED
    BY <2>1, <2>2
<1> HIDE DEF others
<1> QED
  BY <1>1, <1>6, <1>8, <1>9, <1>10, <1>11, <1>12, <1>13, <1>14, <1>15, TreeStep

\* A new subject of a tree, of which those who want to add one are told.
LEMMA SubjectPut ==
  ASSUME RowsOK, NEW s \in Free(subject), NEW t \in Trees, subject' = With(subject, s, t),
         NEW others, WantSubject(t) \subseteq others,
         <<"tree", t>> \in twinned' \/ Live(subject, t) = {}
  PROVE  SubjectsKept(others)
<1>0. t \in Ids
  BY TreeAssumption
<1>1. /\ s \in Ids /\ subject[s].in = Nowhere /\ Stays(subject, subject')
      /\ subject'[s].in = t /\ ~subject'[s].deleted /\ \A i \in Ids \ {s} : subject'[i] = subject[i]
  BY <1>0, WithRow DEF RowsOK
<1>2. ASSUME NEW u \in Trees, u # t PROVE Live(subject', u) \subseteq Live(subject, u)
  BY <1>1, <1>2 DEF Live, Children
<1>3. ASSUME Live(subject, t) = {} PROVE OneOf(Live(subject', t))
  <2>1. \A i \in Live(subject', t) : i = s
    BY <1>1, <1>3 DEF Live, Children
  <2> QED
    BY <2>1 DEF OneOf
<1> QED
  BY <1>2, <1>3 DEF SubjectsKept

\* The commit of GodClass keeps the invariant: the rows it makes are adrift.
LEMMA GodCommitStep ==
  ASSUME TreeInv, NEW e \in Editors, GodCommit(e)
  PROVE  TreeInv'
<1> PICK q : q = edit[e]
  OBVIOUS
<1> PICK t : t = q.tree
  OBVIOUS
<1> DEFINE newSubject == q.subject = Nowhere
           newChapter == q.chapter = Nowhere
           Or(known, table) == IF known = Nowhere THEN Free(table) ELSE {known}
           told(s) == (IF newSubject THEN WantSubject(t) ELSE {})
                      \cup (IF newChapter THEN WantChapter(s) ELSE {})
<1>1. /\ q.pc = "godCommit" /\ UNCHANGED <<tree, lookups>>
      /\ \E s \in Or(q.subject, subject), h \in Or(q.chapter, chapter), c \in Free(content) :
           /\ subject' = IF newSubject THEN With(subject, s, t) ELSE subject
           /\ chapter' = IF newChapter THEN With(chapter, h, s) ELSE chapter
           /\ content' = With(content, c, h)
           /\ adrift' = adrift \cup {<<"content", c>>}
                          \cup (IF newSubject THEN {<<"subject", s>>} ELSE {})
                          \cup (IF newChapter THEN {<<"chapter", h>>} ELSE {})
           /\ twinned' = twinned \cup (IF ~q.raced THEN {}
                                       ELSE IF newSubject THEN {<<"tree", t>>} ELSE {<<"subject", s>>})
           /\ Raced(e, Done, told(s))
  BY Zenon DEF GodCommit, With
<1>2. PICK s \in Or(q.subject, subject), h \in Or(q.chapter, chapter), c \in Free(content) :
           /\ subject' = IF newSubject THEN With(subject, s, t) ELSE subject
           /\ chapter' = IF newChapter THEN With(chapter, h, s) ELSE chapter
           /\ content' = With(content, c, h)
           /\ adrift' = adrift \cup {<<"content", c>>}
                          \cup (IF newSubject THEN {<<"subject", s>>} ELSE {})
                          \cup (IF newChapter THEN {<<"chapter", h>>} ELSE {})
           /\ twinned' = twinned \cup (IF ~q.raced THEN {}
                                       ELSE IF newSubject THEN {<<"tree", t>>} ELSE {<<"subject", s>>})
           /\ Raced(e, Done, told(s))
  BY <1>1
<1> PICK others : others = told(s)
  OBVIOUS
<1>3. q \in Edit /\ EditOK(q) /\ Alone(q) /\ RowsOK /\ FormInv /\ LooksTyped
  BY DEF TreeInv, EditInv, TwinInv
<1>4. /\ t \in Trees /\ t \in Ids /\ tree[t] # "none" /\ q.made = {} /\ Nowhere \notin Ids
      /\ ~newSubject => q.subject \in Ids /\ subject[q.subject].in = t
      /\ ~newChapter => ~newSubject /\ q.chapter \in Ids /\ chapter[q.chapter].in = q.subject
  BY <1>1, <1>3, TreeAssumption DEF EditOK, Edit
<1>5. /\ Raced(e, Done, others)
      /\ newSubject => s \in Free(subject) /\ subject' = With(subject, s, t) /\ WantSubject(t) \subseteq others
      /\ ~newSubject => s = q.subject /\ subject' = subject
      /\ newChapter => h \in Free(chapter) /\ chapter' = With(chapter, h, s) /\ WantChapter(s) \subseteq others
      /\ ~newChapter => h = q.chapter /\ chapter' = chapter
      /\ content' = With(content, c, h)
      /\ twinned \subseteq twinned'
      /\ q.raced => <<"tree", t>> \in twinned' \/ (~newSubject /\ <<"subject", s>> \in twinned')
      /\ q.raced /\ newSubject => <<"tree", t>> \in twinned'
  BY <1>2
<1>6. adrift \subseteq adrift' /\ <<"content", c>> \in adrift'
      /\ (newSubject => <<"subject", s>> \in adrift') /\ (newChapter => <<"chapter", h>> \in adrift')
      /\ adrift' \subseteq adrift \cup {<<"content", c>>, <<"subject", s>>, <<"chapter", h>>}
  BY <1>2
<1> HIDE DEF told, Or
<1>7. s \in Ids /\ h \in Ids /\ c \in Ids
  BY <1>4, <1>5 DEF Free, Children
<1>8. /\ newSubject => /\ subject[s].in = Nowhere /\ subject' \in [Ids -> TableRow]
                       /\ Stays(subject, subject') /\ subject'[s].in = t
                       /\ \A i \in Ids \ {s} : subject'[i] = subject[i]
      /\ newChapter => /\ chapter[h].in = Nowhere /\ chapter' \in [Ids -> TableRow]
                       /\ Stays(chapter, chapter') /\ chapter'[h].in = s
                       /\ \A i \in Ids \ {h} : chapter'[i] = chapter[i]
      /\ content[c].in = Nowhere /\ content' \in [Ids -> TableRow]
      /\ Stays(content, content') /\ content'[c].in = h
      /\ \A i \in Ids \ {c} : content'[i] = content[i]
  <2>0. subject \in [Ids -> TableRow] /\ chapter \in [Ids -> TableRow] /\ content \in [Ids -> TableRow]
    BY <1>3 DEF RowsOK
  <2>1. newSubject => /\ subject[s].in = Nowhere /\ subject' \in [Ids -> TableRow]
                      /\ Stays(subject, subject') /\ subject'[s].in = t
                      /\ \A i \in Ids \ {s} : subject'[i] = subject[i]
    BY <1>4, <1>5, <2>0, WithRow
  <2>2. newChapter => /\ chapter[h].in = Nowhere /\ chapter' \in [Ids -> TableRow]
                      /\ Stays(chapter, chapter') /\ chapter'[h].in = s
                      /\ \A i \in Ids \ {h} : chapter'[i] = chapter[i]
    BY <1>5, <1>7, <2>0, WithRow
  <2>3. /\ content[c].in = Nowhere /\ content' \in [Ids -> TableRow]
        /\ Stays(content, content') /\ content'[c].in = h
        /\ \A i \in Ids \ {c} : content'[i] = content[i]
    BY <1>5, <1>7, <2>0, WithRow
  <2> QED
    BY <2>1, <2>2, <2>3
<1>9. subject'[s].in = t /\ chapter'[h].in = s
  BY <1>4, <1>5, <1>8
<1>10. RowsOK' /\ Grows
  BY <1>1, <1>3, <1>5, <1>6, <1>8 DEF RowsOK, Grows, Stays
<1>11. LooksTyped' /\ LooksKept
  <2>1. adrift' \subseteq Keys
    BY <1>3, <1>6, <1>7 DEF LooksTyped, Keys, Tables
  <2> QED
    BY <1>1, <1>3, <2>1 DEF LooksTyped, LooksKept, lookups
<1>12. EditOK(Done)' /\ HalfOK(Done)' /\ Alone(Done)' /\ Done \in Edit
  BY DoneFields DEF EditOK, HalfOK, Alone
<1>13. SubjectsKept(others)
  <2>1. CASE ~newSubject
    BY <1>5, <2>1, LiveFrame
  <2>2. CASE newSubject
    <3>1. <<"tree", t>> \in twinned' \/ Live(subject, t) = {}
      BY <1>1, <1>3, <1>5, <2>2 DEF Alone
    <3> QED
      BY <1>3, <1>4, <1>5, <2>2, <3>1, SubjectPut
  <2> QED
    BY <2>1, <2>2
<1>14. ChaptersKept(others)
  <2>1. CASE ~newChapter
    BY <1>5, <2>1, LiveFrame
  <2>2. CASE newChapter
    <3>1. CASE newSubject
      <4>1. Live(chapter, s) = {}
        BY <1>3, <1>4, <1>7, <1>8, <3>1 DEF FormInv, Live, Children
      <4> QED
        BY <1>3, <1>5, <1>7, <2>2, <4>1, ChapterPut
    <3>2. CASE ~newSubject
      <4>1. ~q.raced => Live(chapter, s) = {}
        BY <1>1, <1>3, <1>5, <2>2, <3>2 DEF Alone
      <4>2. q.raced => <<"subject", s>> \in twinned'
        BY <1>2, <3>2
      <4> QED
        BY <1>3, <1>5, <1>7, <2>2, <4>1, <4>2, ChapterPut
    <3> QED
      BY <3>1, <3>2
  <2> QED
    BY <2>1, <2>2
<1>15. \A n \in Keys : n \in LiveRows' /\ (n \in edit[e].made \/ ~Stands(n)) => n \in adrift'
  <2> SUFFICES ASSUME NEW n \in Keys, n \in LiveRows', ~Stands(n)
               PROVE  n \in adrift'
    BY <1>4, Zenon
  <2>2. Stands(n)'
    BY LiveRowsNext
  <2>3. n[1] \in {"subject", "chapter", "content"} /\ n[2] \in Ids /\ n = <<n[1], n[2]>>
    BY KeyParts
  <2>4. \/ newSubject /\ n[1] = "subject" /\ n[2] = s
        \/ newChapter /\ n[1] = "chapter" /\ n[2] = h
        \/ n[1] = "content" /\ n[2] = c
    BY <1>5, <1>8, <2>2, <2>3 DEF Stands
  <2> QED
    BY <1>6, <2>3, <2>4
<1>16. /\ \A i \in Ids : subject'[i].in = subject[i].in
                         \/ (subject'[i].in \in Trees /\ tree'[subject'[i].in] # "none")
       /\ \A i \in Ids : chapter'[i].in = chapter[i].in \/ subject'[chapter'[i].in].in # Nowhere
       /\ \A i \in Ids : content'[i].in = content[i].in \/ chapter'[content'[i].in].in # Nowhere
  BY <1>1, <1>4, <1>5, <1>7, <1>8, <1>9
<1>17. \A i \in Ids : content[i].in # Nowhere =>
           /\ content'[i].in # Nowhere
           /\ content[i].deleted => content'[i].deleted
           /\ content'[i].in = content[i].in
  BY <1>8
<1> HIDE DEF newSubject, newChapter
<1> QED
  BY <1>5, <1>10, <1>11, <1>12, <1>13, <1>14, <1>15, <1>16, <1>17, TreeStep

\* A copy of a course or a cycle keeps the invariant.
LEMMA CloneStep ==
  ASSUME TreeInv, NEW e \in Editors, NEW from \in Trees, NEW to \in Trees, Clone(from, to), UNCHANGED edit
  PROVE  TreeInv'
<1> PICK r : r = edit[e]
  OBVIOUS
<1>1. r \in Edit /\ EditOK(r) /\ HalfOK(r) /\ Alone(r) /\ RowsOK /\ FormInv /\ LooksTyped
  BY DEF TreeInv, EditInv, TwinInv
<1>2. /\ RowsOK' /\ FormInv' /\ Grows /\ Stays(content, content')
      /\ \A s \in Ids : \/ subject'[s] = subject[s]
                        \/ subject[s].in = Nowhere /\ subject'[s].in = to
      /\ \A h \in Ids : \/ chapter'[h] = chapter[h]
                        \/ /\ chapter[h].in = Nowhere /\ chapter'[h].in \in Ids
                           /\ subject[chapter'[h].in].in = Nowhere
                           /\ subject'[chapter'[h].in].in = to
      /\ \A c \in Ids : content'[c] = content[c] \/ content[c].in = Nowhere
      /\ \A i \in Ids : /\ subject'[i] = subject[i] \/ IsCopy(from, <<"subject", i>>)
                        /\ chapter'[i] = chapter[i] \/ IsCopy(from, <<"chapter", i>>)
                        /\ content'[i] = content[i] \/ IsCopy(from, <<"content", i>>)
      /\ \A i \in Ids : /\ IsCopy(from, <<"subject", i>>) =>
                             subject[i].in = Nowhere /\ subject'[i].in = to
                        /\ IsCopy(from, <<"chapter", i>>) =>
                             chapter[i].in = Nowhere /\ subject'[chapter'[i].in].in = to
                        /\ IsCopy(from, <<"content", i>>) =>
                             /\ content[i].in = Nowhere
                             /\ subject'[chapter'[content'[i].in].in].in = to
  BY <1>1, CloneRows
<1>3. /\ tree[to] = "none" /\ tree' = [tree EXCEPT ![to] = "copied"] /\ adrift' = adrift /\ twinned' = twinned
      /\ courseLookup' = [k \in Tables |-> [i \in Ids |->
                              IF IsCopy(from, <<k, i>>) THEN CourseOf[to] ELSE courseLookup[k][i]]]
      /\ cycleLookup' = [k \in Tables |-> [i \in Ids |->
                             IF IsCopy(from, <<k, i>>) /\ to \in Cycled THEN to ELSE cycleLookup[k][i]]]
  BY CloneParts, Zenon
<1>4. CourseOf[to] \in Ids /\ Nowhere \notin Ids /\ Nowhere \notin Trees /\ tree'[to] = "copied" /\ to # Nowhere
  BY <1>1, <1>3, TreeAssumption DEF RowsOK
<1>5. \A n \in Keys : /\ IsCopy(from, n) => /\ ~Stands(n) /\ TreeOf(n)' = to
                      /\ ~Stands(n) /\ Stands(n)' => IsCopy(from, n)
  <2> TAKE n \in Keys
  <2> PICK i \in Ids : i = n[2]
    BY KeyParts
  <2>1. n = <<"subject", i>> \/ n = <<"chapter", i>> \/ n = <<"content", i>>
    BY KeyParts
  <2>2. /\ TreeOf(<<"subject", i>>)' = subject'[i].in
        /\ TreeOf(<<"chapter", i>>)' = subject'[chapter'[i].in].in
        /\ TreeOf(<<"content", i>>)' = subject'[chapter'[content'[i].in].in].in
    BY DEF TreeOf
  <2>3. CASE n = <<"subject", i>>
    BY <1>2, <2>2, <2>3 DEF Stands
  <2>4. CASE n = <<"chapter", i>>
    BY <1>2, <2>2, <2>4 DEF Stands
  <2>5. CASE n = <<"content", i>>
    BY <1>2, <2>2, <2>5 DEF Stands
  <2> QED
    BY <2>1, <2>3, <2>4, <2>5
<1>6. \A n \in Keys : /\ courseLookup'[n[1]][n[2]] = IF IsCopy(from, n) THEN CourseOf[to] ELSE courseLookup[n[1]][n[2]]
                      /\ cycleLookup'[n[1]][n[2]] = IF IsCopy(from, n) /\ to \in Cycled THEN to
                                                    ELSE cycleLookup[n[1]][n[2]]
  <2> TAKE n \in Keys
  <2>1. n[1] \in Tables /\ n[2] \in Ids /\ n = <<n[1], n[2]>>
    BY DEF Keys
  <2> DEFINE cp(k, i) == IsCopy(from, <<k, i>>)
  <2>2. cp(n[1], n[2]) <=> IsCopy(from, n)
    BY <2>1
  <2> HIDE DEF cp
  <2>3. /\ courseLookup'[n[1]][n[2]] = IF cp(n[1], n[2]) THEN CourseOf[to] ELSE courseLookup[n[1]][n[2]]
        /\ cycleLookup'[n[1]][n[2]] = IF cp(n[1], n[2]) /\ to \in Cycled THEN to
                                                    ELSE cycleLookup[n[1]][n[2]]
    <3>1. /\ courseLookup' = [k \in Tables |-> [i \in Ids |-> IF cp(k, i) THEN CourseOf[to] ELSE courseLookup[k][i]]]
          /\ cycleLookup' = [k \in Tables |-> [i \in Ids |->
                             IF cp(k, i) /\ to \in Cycled THEN to ELSE cycleLookup[k][i]]]
      BY <1>3, Zenon DEF cp
    <3> QED
      BY <2>1, <3>1
  <2> QED
    BY <2>2, <2>3
<1>7. LooksTyped'
  <2> DEFINE cp(k, i) == IsCopy(from, <<k, i>>)
  <2>1. /\ courseLookup' = [k \in Tables |-> [i \in Ids |-> IF cp(k, i) THEN CourseOf[to] ELSE courseLookup[k][i]]]
        /\ cycleLookup' = [k \in Tables |-> [i \in Ids |->
                             IF cp(k, i) /\ to \in Cycled THEN to ELSE cycleLookup[k][i]]]
    BY <1>3, Zenon
  <2> HIDE DEF cp
  <2>2. /\ courseLookup' \in [Tables -> [Ids -> Ids \cup {Nowhere}]]
        /\ cycleLookup' \in [Tables -> [Ids -> Trees \cup {Nowhere}]]
    BY <1>1, <1>4, <2>1 DEF LooksTyped
  <2> QED
    BY <1>1, <1>3, <2>2 DEF LooksTyped
<1>8. LooksKept
  BY <1>5, <1>6 DEF LooksKept
<1>9. \A n \in Keys : IsCopy(from, n) => Right(n)'
  <2> SUFFICES ASSUME NEW n \in Keys, IsCopy(from, n)
               PROVE  Right(n)'
    OBVIOUS
  <2>1. /\ courseLookup'[n[1]][n[2]] = CourseOf[TreeOf(n)']
        /\ TreeOf(n)' \in Cycled => cycleLookup'[n[1]][n[2]] = TreeOf(n)'
    BY <1>5, <1>6
  <2> QED
    BY <2>1, Zenon DEF Right
<1>10. SubjectsKept({})
  <2>1. ASSUME NEW u \in Trees, u # to PROVE Live(subject', u) \subseteq Live(subject, u)
    BY <1>2, <2>1 DEF Live, Children
  <2> QED
    BY <1>3, <1>4, <2>1 DEF SubjectsKept
<1>11. \A s \in Ids : \/ Live(chapter', s) \subseteq Live(chapter, s)
                      \/ subject[s].in = Nowhere /\ subject'[s].in = to
  <2> SUFFICES ASSUME NEW s \in Ids, ~(subject[s].in = Nowhere /\ subject'[s].in = to)
               PROVE  Live(chapter', s) \subseteq Live(chapter, s)
    OBVIOUS
  <2> QED
    BY <1>2 DEF Live, Children
<1>12. ChaptersKept({})
  BY <1>4, <1>11 DEF ChaptersKept
<1>13. Same(r, r)
  BY <1>1 DEF Same
<1>14. \A c \in Ids : content[c].in # Nowhere => content'[c] = content[c]
  BY <1>2
<1>15. EditOK(r)'
  BY <1>1, <1>2, <1>13, <1>14, EditFrame
<1>16. HalfOK(r)'
  BY <1>1, <1>2, <1>8, <1>13, <1>14, HalfFrame
<1>17. Alone(r)'
  <2> DEFINE A == Live(subject, r.tree)
             B == Live(chapter, r.subject)
             C == Live(subject', r.tree)
             D == Live(chapter', r.subject)
             wantS == r.pc = "insertSubject" \/ (r.pc \in {"godChapter", "godCommit"} /\ r.subject = Nowhere)
             wantC == r.pc = "insertChapter" \/ (r.pc = "godCommit" /\ r.subject # Nowhere /\ r.chapter = Nowhere)
  <2>1. wantS => C \subseteq A
    <3> SUFFICES ASSUME wantS PROVE C \subseteq A
      OBVIOUS
    <3>1. r.tree \in Trees /\ tree[r.tree] # "none"
      BY <1>1 DEF EditOK
    <3> QED
      BY <1>3, <1>10, <3>1, <1>2 DEF Live, Children
  <2>2. wantC => D \subseteq B
    <3> SUFFICES ASSUME wantC PROVE D \subseteq B
      OBVIOUS
    <3>1. r.tree \in Trees /\ r.subject \in Ids /\ subject[r.subject].in = r.tree
      BY <1>1 DEF EditOK, Edit
    <3> QED
      BY <1>4, <1>11, <3>1
  <2>3. Alone(r) <=> (~r.raced => (wantS => A = {}) /\ (wantC => B = {}))
    BY Zenon DEF Alone
  <2>4. Alone(r)' <=> (~r.raced => (wantS => C = {}) /\ (wantC => D = {}))
    BY Zenon DEF Alone, Live, Children
  <2> HIDE DEF A, B, C, D, wantS, wantC
  <2> QED
    BY <1>1, <2>1, <2>2, <2>3, <2>4
<1>18. Raced(e, r, {})
  <2>1. Set(e, r)
    BY DEF Set, TreeInv, EditTyped
  <2> QED
    BY <2>1, SetRaces DEF TreeInv
<1>19. \A n \in Keys : n \in LiveRows' /\ (n \in edit[e].made \/ ~Stands(n)) => n \in r.made \/ n \in adrift' \/ Right(n)'
  <2> SUFFICES ASSUME NEW n \in Keys, n \in LiveRows', ~Stands(n)
               PROVE  Right(n)'
    BY Zenon
  <2>1. Stands(n)'
    BY LiveRowsNext
  <2>2. IsCopy(from, n)
    BY <1>5, <2>1
  <2> QED
    BY <1>9, <2>2
<1>20. /\ \A s \in Ids : \/ subject'[s].in = subject[s].in
                         \/ subject'[s].in \in Trees /\ tree'[subject'[s].in] # "none"
       /\ \A h \in Ids : \/ chapter'[h].in = chapter[h].in
                         \/ subject'[chapter'[h].in].in # Nowhere
       /\ \A c \in Ids : \/ content'[c].in = content[c].in
                         \/ chapter'[content'[c].in].in # Nowhere
       /\ twinned \subseteq twinned'
  <2>1. \A s \in Ids : \/ subject'[s].in = subject[s].in
                       \/ subject'[s].in \in Trees /\ tree'[subject'[s].in] # "none"
    BY <1>2, <1>4
  <2>2. \A h \in Ids : \/ chapter'[h].in = chapter[h].in
                       \/ subject'[chapter'[h].in].in # Nowhere
    BY <1>2, <1>4
  <2>3. \A c \in Ids : \/ content'[c].in = content[c].in
                       \/ chapter'[content'[c].in].in # Nowhere
    <3> SUFFICES ASSUME NEW c \in Ids, content'[c].in # content[c].in
                 PROVE  chapter'[content'[c].in].in # Nowhere
      OBVIOUS
    <3>1. content[c].in = Nowhere
      BY <1>14
    <3> QED
      BY <1>2, <3>1 DEF FormInv
  <2> QED
    BY <1>3, <2>1, <2>2, <2>3
<1>21. \A c \in Ids : content[c].in # Nowhere =>
           /\ content'[c].in # Nowhere
           /\ content[c].deleted => content'[c].deleted
           /\ content'[c].in = content[c].in
  BY <1>14
<1> QED
  BY <1>1, <1>2, <1>7, <1>8, <1>10, <1>12, <1>15, <1>16, <1>17, <1>18, <1>19, <1>20, <1>21, TreeStep

\* No requests, and trees that are empty or have one class.
LEMMA TreeStarts == TreeInit => TreeInv
<1> SUFFICES ASSUME TreeInit PROVE TreeInv
  OBVIOUS
<1>1. PICK there \in SUBSET Trees : \E full \in SUBSET there :
    LET rows == [r \in Ids |-> IF r \in full THEN Row(r) ELSE Unused]
        looked(f) == [k \in Tables |-> [r \in Ids |-> IF r \in full THEN f[r] ELSE Nowhere]]
    IN  /\ tree = [t \in Trees |-> IF t \in there THEN "made" ELSE "none"]
        /\ subject = rows /\ chapter = rows /\ content = rows
        /\ courseLookup = looked(CourseOf)
        /\ cycleLookup = looked([t \in Trees |-> IF t \in Cycled THEN t ELSE Nowhere])
        /\ edit = [e \in Editors |-> Done]
        /\ edits = 0 /\ failures = 0
        /\ adrift = {} /\ twinned = {}
  BY Zenon DEF TreeInit
<1>2. PICK full \in SUBSET there :
        /\ tree = [t \in Trees |-> IF t \in there THEN "made" ELSE "none"]
        /\ subject = [r \in Ids |-> IF r \in full THEN Row(r) ELSE Unused]
        /\ chapter = subject /\ content = subject
        /\ courseLookup = [k \in Tables |-> [r \in Ids |-> IF r \in full THEN CourseOf[r] ELSE Nowhere]]
        /\ cycleLookup = [k \in Tables |-> [r \in Ids |-> IF r \in full
                            THEN [t \in Trees |-> IF t \in Cycled THEN t ELSE Nowhere][r] ELSE Nowhere]]
        /\ edit = [e \in Editors |-> Done] /\ adrift = {} /\ twinned = {}
  BY <1>1, Zenon
<1>3. /\ full \subseteq Trees /\ full \subseteq Ids /\ Nowhere \notin Ids /\ Nowhere \notin Trees
      /\ \A t \in Trees : CourseOf[t] \in Ids
  BY TreeAssumption
<1>4. \A p \in Ids \cup {Nowhere} : Row(p) \in TableRow /\ Row(p).in = p
  BY NewRow
<1>5. Unused = Row(Nowhere)
  BY Zenon DEF Unused, Row
<1> HIDE DEF Unused, Row
<1>6. /\ subject \in [Ids -> TableRow]
      /\ \A i \in Ids : subject[i].in = IF i \in full THEN i ELSE Nowhere
  BY <1>2, <1>3, <1>4, <1>5
<1>7. /\ tree \in [Trees -> {"none", "made", "copied"}]
      /\ \A t \in there : tree[t] = "made"
  BY <1>2
<1>8. RowsOK
  BY <1>2, <1>6, <1>7 DEF RowsOK
<1>9. FormInv
  BY <1>2, <1>3, <1>6, <1>7 DEF FormInv
<1>10. /\ courseLookup \in [Tables -> [Ids -> Ids \cup {Nowhere}]]
       /\ \A k \in Tables, i \in full : courseLookup[k][i] = CourseOf[i]
  BY <1>2, <1>3
<1>11. /\ cycleLookup \in [Tables -> [Ids -> Trees \cup {Nowhere}]]
       /\ \A k \in Tables, i \in full : i \in Cycled => cycleLookup[k][i] = i
  BY <1>2, <1>3
<1>12. LooksTyped
  BY <1>2, <1>10, <1>11 DEF LooksTyped
<1>13. \A e \in Editors : edit[e] = Done
  BY <1>2
<1>14. EditTyped
  BY <1>2, DoneFields DEF EditTyped
<1>15. EditOK(Done) /\ HalfOK(Done) /\ Alone(Done)
  BY DoneFields DEF EditOK, HalfOK, Alone
<1>16. EditInv
  BY <1>13, <1>15, DoneFields DEF EditInv
<1>17. PlacesFound
  <2> SUFFICES ASSUME NEW n \in Keys, n \in LiveRows PROVE Right(n)
    BY PlacesAre DEF Found
  <2> PICK i \in Ids : i = n[2]
    BY KeyParts
  <2>1. n = <<"subject", i>> \/ n = <<"chapter", i>> \/ n = <<"content", i>>
    BY KeyParts
  <2>2. i \in full
    BY <1>2, <1>6, <2>1, LiveRow DEF Stands
  <2>3. TreeOf(n) = i
    <3>1. subject[i].in = i /\ chapter[i].in = i /\ content[i].in = i
      BY <1>2, <1>6, <2>2
    <3>2. /\ TreeOf(<<"subject", i>>) = i /\ TreeOf(<<"chapter", i>>) = i /\ TreeOf(<<"content", i>>) = i
      BY <3>1, TreeOfRow
    <3> QED
      BY <2>1, <3>2
  <2>4. n[1] \in Tables
    BY DEF Keys
  <2> QED
    BY <1>10, <1>11, <2>2, <2>3, <2>4 DEF Right
<1>18. TwinInv
  <2>1. \A t \in Trees : OneOf(Live(subject, t))
    BY <1>3, <1>6 DEF OneOf, Live, Children
  <2>2. \A s \in Ids : OneOf(Live(chapter, s))
    BY <1>2, <1>3, <1>6 DEF OneOf, Live, Children
  <2> QED
    BY <1>13, <1>15, <2>1, <2>2 DEF TwinInv, SubjectsOnce, ChaptersOnce
<1> QED
  BY <1>8, <1>9, <1>12, <1>14, <1>16, <1>17, <1>18 DEF TreeInv

\* Nothing happens.
LEMMA TreeStutters ==
  ASSUME TreeInv, UNCHANGED treeVars
  PROVE  TreeInv'
<1>1. /\ tree' = tree /\ subject' = subject /\ chapter' = chapter /\ content' = content
      /\ courseLookup' = courseLookup /\ cycleLookup' = cycleLookup /\ edit' = edit
      /\ adrift' = adrift /\ twinned' = twinned
  BY DEF treeVars, rowVars, lookups
<1>2. RowsOK' /\ LooksTyped' /\ FormInv' /\ EditTyped'
  BY <1>1, Zenon DEF TreeInv, RowsOK, LooksTyped, FormInv, EditTyped
<1>3. EditInv'
  <2>1. RowsOK /\ FormInv /\ EditInv
    BY DEF TreeInv
  <2>2. Grows
    BY <1>1 DEF Grows, Stays
  <2>3. LooksKept
    BY <1>1, LooksStill DEF lookups
  <2>4. \A e \in Editors : EditOK(edit[e])' /\ HalfOK(edit[e])'
    <3> TAKE e \in Editors
    <3> PICK q : q = edit[e]
      OBVIOUS
    <3>1. q \in Edit /\ EditOK(q) /\ HalfOK(q) /\ q = edit'[e]
      BY <1>1, <2>1 DEF EditInv
    <3>2. Same(q, q)
      BY <3>1 DEF Same
    <3>3. EditOK(q)' /\ HalfOK(q)'
      BY <1>1, <2>1, <2>2, <2>3, <3>1, <3>2, EditFrame, HalfFrame
    <3> QED
      BY <3>1, <3>3, Zenon
  <2>5. \A e \in Editors : edit'[e] \in Edit
    BY <1>1, <2>1 DEF EditInv
  <2> QED
    BY <2>4, <2>5, Zenon DEF EditInv
<1>4. PlacesFound'
  BY <1>1 DEF TreeInv, PlacesFound, LiveRows, TreeOf
<1>5. TwinInv'
  BY <1>1 DEF TreeInv, TwinInv, SubjectsOnce, ChaptersOnce, Alone, OneOf, Live, Children
<1> QED
  BY <1>2, <1>3, <1>4, <1>5 DEF TreeInv

\* Every step of the courses.
LEMMA TreeMoves ==
  ASSUME TreeInv, TreeNext
  PROVE  TreeInv'
<1>1. PICK e \in Editors :
  \/ \E t \in Trees : AddSubject(e, t) \/ GodClass(e, t)
  \/ \E t, u \in Trees : CloneCourse(e, t, u) \/ CloneCycle(e, t, u)
  \/ \E r \in Ids : AddChapter(e, r) \/ CreateClass(e, r)
                    \/ DeleteSubject(e, r) \/ DeleteChapter(e, r) \/ DeleteClass(e, r)
  \/ \E c, h \in Ids : UpdateClass(e, c, h)
  \/ InsertSubject(e) \/ ReadSubjects(e) \/ NextSubject(e) \/ TakeChapters(e) \/ ReadChapters(e)
  \/ InsertChapter(e) \/ FindChapter(e) \/ InsertContent(e)
  \/ LogLookUpTable(e) \/ LogCycleLookUpTable(e) \/ LookupFails(e) \/ Dies(e)
  \/ DeleteChapters(e) \/ GodChapter(e) \/ GodCommit(e)
  BY DEF TreeNext
<1>2. CASE \E t \in Trees : AddSubject(e, t) \/ GodClass(e, t)
  BY <1>2, AddSubjectStep, GodClassStep
<1>3. CASE \E t, u \in Trees : CloneCourse(e, t, u) \/ CloneCycle(e, t, u)
  <2>1. PICK t \in Trees, u \in Trees : Clone(t, u) /\ UNCHANGED edit
    BY <1>3 DEF CloneCourse, CloneCycle
  <2> QED
    BY <2>1, CloneStep
<1>4. CASE \E r \in Ids : AddChapter(e, r) \/ CreateClass(e, r)
  BY <1>4, AddChapterStep, CreateClassStep
<1>5. CASE \E r \in Ids : DeleteSubject(e, r) \/ DeleteChapter(e, r) \/ DeleteClass(e, r)
  BY <1>5, DeleteSubjectStep, DeleteChapterStep, DeleteClassStep
<1>6. CASE \E c, h \in Ids : UpdateClass(e, c, h)
  BY <1>6, UpdateClassStep
<1>7. CASE InsertSubject(e) \/ ReadSubjects(e) \/ NextSubject(e) \/ TakeChapters(e) \/ ReadChapters(e)
  BY <1>7, InsertSubjectStep, ReadSubjectsStep, NextSubjectStep, TakeChaptersStep, ReadChaptersStep
<1>8. CASE InsertChapter(e) \/ FindChapter(e) \/ InsertContent(e)
  BY <1>8, InsertChapterStep, FindChapterStep, InsertContentStep
<1>9. CASE LogLookUpTable(e) \/ LogCycleLookUpTable(e) \/ LookupFails(e) \/ Dies(e)
  BY <1>9, LogLookUpTableStep, LogCycleLookUpTableStep, LookupFailsStep, DiesStep
<1>10. CASE DeleteChapters(e) \/ GodChapter(e) \/ GodCommit(e)
  BY <1>10, DeleteChaptersStep, GodChapterStep, GodCommitStep
<1> QED
  BY <1>1, <1>2, <1>3, <1>4, <1>5, <1>6, <1>7, <1>8, <1>9, <1>10

Counted == edits \in 0..MaxEdits /\ failures \in 0..MaxFailures

\* Requests and failures are counted up to their bounds.
LEMMA TreeCounts ==
  ASSUME Counted, [TreeNext]_treeVars
  PROVE  Counted'
<1>1. CASE UNCHANGED treeVars
  BY <1>1 DEF treeVars, Counted
<1>2. CASE TreeNext
  <2>1. ASSUME NEW e \in Editors, Begin(e)
        PROVE  edits < MaxEdits /\ edits' = edits + 1 /\ failures' = failures
    BY <2>1 DEF Begin
  <2>2. ASSUME NEW e \in Editors, NEW t, AddSubject(e, t) \/ GodClass(e, t)
        PROVE  Begin(e)
    BY <2>2, Zenon DEF AddSubject, GodClass
  <2>3. ASSUME NEW e \in Editors, NEW t, NEW u, CloneCourse(e, t, u) \/ CloneCycle(e, t, u)
        PROVE  Begin(e)
    BY <2>3, Zenon DEF CloneCourse, CloneCycle
  <2>4. ASSUME NEW e \in Editors, NEW r, AddChapter(e, r) \/ CreateClass(e, r)
                 \/ DeleteSubject(e, r) \/ DeleteChapter(e, r) \/ DeleteClass(e, r)
        PROVE  Begin(e)
    <3>1. CASE AddChapter(e, r) \/ CreateClass(e, r)
      BY <3>1, Zenon DEF AddChapter, CreateClass
    <3>2. CASE DeleteSubject(e, r) \/ DeleteChapter(e, r) \/ DeleteClass(e, r)
      BY <3>2, Zenon DEF DeleteSubject, DeleteChapter, DeleteClass
    <3> QED
      BY <2>4, <3>1, <3>2
  <2>5. ASSUME NEW e \in Editors, NEW c, NEW h, UpdateClass(e, c, h)
        PROVE  Begin(e)
    BY <2>5, Zenon DEF UpdateClass
  <2>6. ASSUME NEW e \in Editors, LookupFails(e) \/ Dies(e)
        PROVE  failures < MaxFailures /\ failures' = failures + 1 /\ edits' = edits
    BY <2>6, Zenon DEF LookupFails, Dies, Mishap
  <2>7. ASSUME NEW e \in Editors,
               \/ InsertSubject(e) \/ ReadSubjects(e) \/ NextSubject(e) \/ TakeChapters(e) \/ ReadChapters(e)
               \/ InsertChapter(e) \/ FindChapter(e) \/ InsertContent(e)
               \/ LogLookUpTable(e) \/ LogCycleLookUpTable(e)
               \/ DeleteChapters(e) \/ GodChapter(e) \/ GodCommit(e)
        PROVE  edits' = edits /\ failures' = failures
    <3>1. NoEdit => edits' = edits /\ failures' = failures
      BY DEF NoEdit
    <3>2. CASE InsertSubject(e) \/ ReadSubjects(e) \/ NextSubject(e) \/ TakeChapters(e) \/ ReadChapters(e)
      BY <3>1, <3>2, Zenon DEF InsertSubject, ReadSubjects, NextSubject, TakeChapters, ReadChapters
    <3>3. CASE InsertChapter(e) \/ FindChapter(e) \/ InsertContent(e)
      BY <3>1, <3>3, Zenon DEF InsertChapter, FindChapter, InsertContent
    <3>4. CASE LogLookUpTable(e) \/ LogCycleLookUpTable(e)
      BY <3>1, <3>4, Zenon DEF LogLookUpTable, LogCycleLookUpTable
    <3>5. CASE DeleteChapters(e) \/ GodChapter(e) \/ GodCommit(e)
      BY <3>1, <3>5, Zenon DEF DeleteChapters, GodChapter, GodCommit
    <3> QED
      BY <2>7, <3>2, <3>3, <3>4, <3>5
  <2>8. \/ edits' = edits /\ failures' = failures
        \/ edits < MaxEdits /\ edits' = edits + 1 /\ failures' = failures
        \/ failures < MaxFailures /\ failures' = failures + 1 /\ edits' = edits
    BY <1>2, <2>1, <2>2, <2>3, <2>4, <2>5, <2>6, <2>7 DEF TreeNext
  <2> QED
    BY <2>8, TreeAssumption DEF Counted
<1> QED
  BY <1>1, <1>2

\* TreeInv and the bounds on the counters hold in every state.
LEMMA TreeAlways == TreeSpec => [](TreeInv /\ Counted)
<1>1. TreeInit => TreeInv /\ Counted
  <2>1. TreeInit => edits = 0 /\ failures = 0
    BY Zenon DEF TreeInit
  <2> QED
    BY <2>1, TreeStarts, TreeAssumption DEF Counted
<1>2. TreeInv /\ Counted /\ [TreeNext]_treeVars => (TreeInv /\ Counted)'
  BY TreeMoves, TreeStutters, TreeCounts
<1> QED
  BY <1>1, <1>2, PTL DEF TreeSpec

\* Every variable of the courses keeps its type.
THEOREM TreeTypeCorrect == TreeSpec => []TreeTypeOK
<1>1. TreeInv /\ Counted => TreeTypeOK
  BY DEF TreeInv, Counted, TreeTypeOK, RowsOK, LooksTyped, TableRow, EditInv, Edit
<1> QED
  BY <1>1, TreeAlways, PTL

\* The lookups that authorization asks agree with where a row is.
THEOREM LookupsRight == TreeSpec => []PlacesFound
<1>1. TreeInv => PlacesFound
  BY DEF TreeInv
<1> QED
  BY <1>1, TreeAlways, PTL

\* A tree shows a subject once, and a subject a chapter once.
THEOREM ShownOnce == TreeSpec => []NoTwins
<1>1. ASSUME NEW S, OneOf(S) PROVE Cardinality(S) <= 1
  <2>1. CASE S = {}
    BY <2>1, FS_EmptySet
  <2>2. CASE S # {}
    <3>1. PICK a : a \in S
      BY <2>2
    <3>2. S = {a}
      BY <1>1, <3>1 DEF OneOf
    <3>3. Cardinality({a}) = 1
      BY FS_Singleton
    <3> QED
      BY <3>2, <3>3
  <2> QED
    BY <2>1, <2>2
<1>2. TreeInv => NoTwins
  BY <1>1 DEF TreeInv, TwinInv, SubjectsOnce, ChaptersOnce, NoTwins
<1> QED
  BY <1>2, TreeAlways, PTL
=============================================================================
