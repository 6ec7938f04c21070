--------------------------- MODULE RecordingIngest ---------------------------
(***************************************************************************)
(* What happens to the recordings of one live class.  The media server     *)
(* announces each recorded file by a webhook (recording.available); the    *)
(* handler claims the file in the table RecordingIngest, has the video     *)
(* service fetch it, and publishes it as the next numbered part of the     *)
(* class.  The video service announces in a webhook of its own that it is  *)
(* done.  Webhooks may come late, again, together and out of order.        *)
(***************************************************************************)
EXTENDS Integers, FiniteSets

CONSTANTS
  Hooks,     \* recording webhooks being handled
  Files,     \* recorded files of the class
  Named,     \* the files whose webhook carries a part name
  NoFile,
  MaxParts,  \* bound on published parts
  MaxBreaks  \* bound on failing calls and crashes

ASSUME RecordingAssumption ==
  Named \subseteq Files /\ NoFile \notin Files /\ MaxParts \in Nat /\ MaxBreaks \in Nat

VARIABLES
  live,    \* the liveClass row: status, roomClosedAt, partsCount, bunnyVideoId
  ingest,  \* RecordingIngest: the latest status per file, "none" without a row
  parts,   \* classContent rows of the class: file and partIndex
  hook,    \* the webhooks
  breaks,
  \* history
  failed,  \* files whose claim a failure left without a part
  stale    \* a publication used a roomClosedAt that changed meanwhile

recVars == <<live, ingest, parts, hook, breaks, failed, stale>>

Waiting == [pc |-> "idle", file |-> NoFile, closed |-> FALSE]

RecInit ==
  /\ live = [status |-> "live", closed |-> FALSE, count |-> 0, video |-> NoFile]
  /\ ingest = [f \in Files |-> "none"]
  /\ parts = {}
  /\ hook = [h \in Hooks |-> Waiting]
  /\ breaks = 0
  /\ failed = {}
  /\ stale = FALSE

\* Mutant: the table has no unique key.
Duplicate_Never(f) == FALSE

\* The unique key of RecordingIngest has the part name in it, and two rows without
\* one are distinct for the database.
Duplicate(f) == f \in Named /\ ingest[f] # "none"

Step(h, pc) == hook' = [hook EXCEPT ![h].pc = pc]
Break == breaks < MaxBreaks /\ breaks' = breaks + 1

RecordingAvailable(h, f) ==
  /\ hook[h].pc = "idle"
  /\ hook' = [hook EXCEPT ![h] = [Waiting EXCEPT !.pc = "claim", !.file = f]]
  /\ UNCHANGED <<live, ingest, parts, breaks, failed, stale>>

\* recordingIngest.create; a duplicate is answered as skipped.
ClaimRecording(h) ==
  /\ hook[h].pc = "claim"
  /\ IF Duplicate(hook[h].file)
     THEN hook' = [hook EXCEPT ![h] = Waiting] /\ UNCHANGED ingest
     ELSE Step(h, "fetch") /\ ingest' = [ingest EXCEPT ![hook[h].file] = "processing"]
  /\ UNCHANGED <<live, parts, breaks, failed, stale>>

\* The video service takes the file, and the row says done.
FetchVideo(h) ==
  /\ hook[h].pc = "fetch"
  /\ ingest' = [ingest EXCEPT ![hook[h].file] = "done"]
  /\ Step(h, "look")
  /\ UNCHANGED <<live, parts, breaks, failed, stale>>

\* Anything in that step fails: the row stays, as failed.
FetchFails(h) ==
  /\ hook[h].pc = "fetch" /\ Break
  /\ ingest' = [ingest EXCEPT ![hook[h].file] = "failed"]
  /\ failed' = failed \cup {hook[h].file}
  /\ hook' = [hook EXCEPT ![h] = Waiting]
  /\ UNCHANGED <<live, parts, stale>>

\* The transaction reads roomClosedAt, ...
LookClosed(h) ==
  /\ hook[h].pc = "look"
  /\ hook' = [hook EXCEPT ![h].pc = "publish", ![h].closed = live.closed]
  /\ UNCHANGED <<live, ingest, parts, breaks, failed, stale>>

\* Mutant: the part takes the count from before it.
PublishPart_Before(h) ==
  /\ hook[h].pc = "publish" /\ live.count < MaxParts
  /\ live' = [live EXCEPT !.status = IF hook[h].closed THEN "processing" ELSE "live",
                          !.count = @ + 1, !.video = hook[h].file]
  /\ parts' = parts \cup {[file |-> hook[h].file, index |-> live.count]}
  /\ stale' = (stale \/ hook[h].closed # live.closed)
  /\ hook' = [hook EXCEPT ![h] = Waiting]
  /\ UNCHANGED <<ingest, breaks, failed>>

\* ... counts the part and creates it under that number.
PublishPart(h) ==
  /\ hook[h].pc = "publish" /\ live.count < MaxParts
  /\ live' = [live EXCEPT !.status = IF hook[h].closed THEN "processing" ELSE "live",
                          !.count = @ + 1, !.video = hook[h].file]
  /\ parts' = parts \cup {[file |-> hook[h].file, index |-> live.count + 1]}
  /\ stale' = (stale \/ hook[h].closed # live.closed)
  /\ hook' = [hook EXCEPT ![h] = Waiting]
  /\ UNCHANGED <<ingest, breaks, failed>>

\* The transaction fails, or the process dies at any step.
HookDies(h) ==
  /\ hook[h].pc # "idle" /\ Break
  /\ failed' = IF hook[h].pc = "claim" THEN failed ELSE failed \cup {hook[h].file}
  /\ hook' = [hook EXCEPT ![h] = Waiting]
  /\ UNCHANGED <<live, ingest, parts, stale>>

\* room.live and room.closed, again and in any order.
RoomLive ==
  /\ live' = [live EXCEPT !.status = "live", !.closed = FALSE]
  /\ UNCHANGED <<ingest, parts, hook, breaks, failed, stale>>

\* When its first update fails the handler writes "completed" and no roomClosedAt.
RoomClosed ==
  /\ \/ live' = [live EXCEPT !.status = "processing", !.closed = TRUE] /\ UNCHANGED breaks
     \/ live' = [live EXCEPT !.status = "completed"] /\ Break
  /\ UNCHANGED <<ingest, parts, hook, failed, stale>>

\* Bunny finished the video the row names: a part of the class exists, for both are
\* written in one transaction.
PublishRecorded ==
  /\ live.video # NoFile
  /\ live' = [live EXCEPT !.status = "recorded"]
  /\ UNCHANGED <<ingest, parts, hook, breaks, failed, stale>>

RecNext ==
  \/ \E h \in Hooks :
       \/ \E f \in Files : RecordingAvailable(h, f)
       \/ ClaimRecording(h) \/ FetchVideo(h) \/ FetchFails(h)
       \/ LookClosed(h) \/ PublishPart(h) \/ HookDies(h)
  \/ RoomLive \/ RoomClosed \/ PublishRecorded

RecSpec == RecInit /\ [][RecNext]_recVars

-----------------------------------------------------------------------------
RecTypeOK ==
  /\ live \in [status : {"live", "processing", "completed", "recorded"},
               closed : BOOLEAN, count : 0 .. MaxParts, video : Files \cup {NoFile}]
  /\ ingest \in [Files -> {"none", "processing", "done", "failed"}]
  /\ parts \subseteq [file : Files, index : 1 .. MaxParts]
  /\ hook \in [Hooks -> [pc : {"idle", "claim", "fetch", "look", "publish"},
                         file : Files \cup {NoFile}, closed : BOOLEAN]]
  /\ breaks \in 0 .. MaxBreaks
  /\ failed \subseteq Files
  /\ stale \in BOOLEAN

PartsOf(f) == {p \in parts : p.file = f}
Handled(f) == \E h \in Hooks : hook[h].file = f /\ hook[h].pc \in {"fetch", "look", "publish"}

\* The parts of a class are numbered without gap or repetition, however many
\* webhooks are handled at once.
NumberedInOrder ==
  /\ {p.index : p \in parts} = 1 .. live.count
  /\ \A p, q \in parts : p.index = q.index => p = q

\* A named recording becomes one part, however often it is announced.
PublishedOnce ==
  \A p, q \in parts : p.file = q.file /\ p.file \in Named => p = q

\* A claimed recording becomes a part, unless handling it failed after the claim:
\* then no later announcement can make up for it.
ClaimedIsPublished ==
  \A f \in Files : ingest[f] # "none" => PartsOf(f) # {} \/ Handled(f) \/ f \in failed

\* A class whose room has closed is not shown as live, but for a publication that
\* looked before the room closed and wrote after.
ClosedNotLive == live.closed /\ live.status = "live" => stale

RecordingsKept == NumberedInOrder /\ PublishedOnce /\ ClaimedIsPublished /\ ClosedNotLive

=============================================================================
