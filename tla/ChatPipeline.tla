---------------------------- MODULE ChatPipeline ----------------------------
(***************************************************************************)
(* The chat of a recorded class (socket/realtime/chat, socket/worker): a   *)
(* process shows a message to the room through a buffer and, at the same   *)
(* time, appends it to a Redis stream.  Workers of one consumer group move *)
(* the stream into the table activeChat, in batches, one by one when a     *)
(* batch fails, and into a dead-letter stream what the table refuses; what *)
(* a worker leaves unacknowledged another one claims.                      *)
(***************************************************************************)
EXTENDS Integers, Sequences, FiniteSets

CONSTANTS
  Messages,
  Workers,
  Refused,    \* messages whose row the database refuses, whoever asks
  MaxBuffer,  \* CHAT.MAX_ROOM_BUFFER
  MaxBatch,   \* CHAT.MAX_BATCH
  Count,      \* CHAT_WORKER.COUNT
  MaxLen,     \* MAXLEN of the stream
  MaxFaults   \* bound: crashes of a worker and Redis calls of it that fail

ASSUME ChatPipelineAssumption ==
  /\ Refused \subseteq Messages
  /\ MaxBuffer \in Nat \ {0} /\ MaxBatch \in Nat \ {0}
  /\ Count \in Nat \ {0} /\ MaxLen \in Nat \ {0}
  /\ MaxFaults \in Nat

Steps == {"read", "save", "ack", "one", "ack_one", "bury", "ack_buried"}

VARIABLES
  \* a process that serves the room
  sent,       \* messages accepted
  buffer,     \* messages to show at the next flush
  shown,      \* messages the room has seen, in order
  wire,       \* XADDs the process has not been answered
  \* Redis
  stream,     \* entries of the stream, a message each
  delivered,  \* entries the group has handed out
  pending,    \* entries handed out and not acknowledged, whoever has them
  idle,       \* those untouched for MIN_IDLE
  dead,       \* messages in the dead-letter stream
  \* PostgreSQL and the workers
  table,      \* activeChat
  worker,     \* where a worker is, the entries it deals with, and those it has left
  \* history, read by no guard but the bounds
  appended,   \* messages in the order they entered the stream
  lost,       \* messages that the stream never got, or trimmed unfinished, or
              \* that a failed write to the dead-letter stream gave up
  stored,     \* messages that were in the table
  erased,     \* messages a moderator deleted from the table
  unsure,     \* messages whose own save or acknowledgement failed, one by one
  early,      \* messages deleted while their entry was pending
  faults

room == <<sent, buffer, shown, wire>>
group == <<stream, delivered, pending, idle>>
history == <<appended, lost, stored, erased, unsure, early, faults>>
vars == <<room, group, dead, table, worker, history>>

Elements(s) == {s[k] : k \in DOMAIN s}

Ready == [pc |-> "read", todo |-> {}, rest |-> {}]

Init ==
  /\ sent = {} /\ buffer = <<>> /\ shown = <<>> /\ wire = <<>>
  /\ stream = <<>> /\ delivered = {} /\ idle = {}
  /\ pending = {}
  /\ dead = {} /\ table = {}
  /\ worker = [w \in Workers |-> Ready]
  /\ appended = <<>> /\ lost = {} /\ stored = {} /\ erased = {}
  /\ unsure = {} /\ early = {}
  /\ faults = 0

-----------------------------------------------------------------------------
(* The process: send, flush, XADD *)

\* A message that passed the token bucket, the room and the restriction check:
\* into the room's buffer unless that is full, and on its way to the stream.
Send(m) ==
  /\ m \notin sent
  /\ sent' = sent \cup {m}
  /\ buffer' = IF Len(buffer) >= MaxBuffer THEN buffer ELSE Append(buffer, m)
  /\ wire' = Append(wire, m)
  /\ UNCHANGED <<shown, group, dead, table, worker, history>>

Least(a, b) == IF a < b THEN a ELSE b

\* Mutant: the newest messages are taken first.
Splice_Newest(s) ==
  LET n == Len(s) - Least(MaxBatch, Len(s)) IN
  [batch |-> SubSeq(s, n + 1, Len(s)), rest |-> SubSeq(s, 1, n)]

\* What the next flush shows, and what it leaves.
Splice(s) ==
  LET n == Least(MaxBatch, Len(s)) IN
  [batch |-> SubSeq(s, 1, n), rest |-> SubSeq(s, n + 1, Len(s))]

FlushRoom ==
  /\ buffer # <<>>
  /\ shown' = shown \o Splice(buffer).batch
  /\ buffer' = Splice(buffer).rest
  /\ UNCHANGED <<sent, wire, group, dead, table, worker, history>>

\* The group still has to hand the entry out, or waits for its acknowledgement.
Unfinished(m) == m \notin delivered \/ m \in pending

\* XADD MAXLEN ~: Redis may drop the oldest entries, never below MAXLEN.
EnqueueChat ==
  /\ wire # <<>>
  /\ \E cut \in 0..Len(stream) :
       /\ cut > 0 => Len(stream) + 1 - cut >= MaxLen
       /\ stream' = Append(SubSeq(stream, cut + 1, Len(stream)), Head(wire))
       /\ lost' = lost \cup {m \in Elements(SubSeq(stream, 1, cut)) : Unfinished(m)}
  /\ wire' = Tail(wire)
  /\ appended' = Append(appended, Head(wire))
  /\ UNCHANGED <<sent, buffer, shown, delivered, pending, idle, dead, table, worker,
                 stored, erased, unsure, early, faults>>

\* The error is logged, nobody tries again; or the process dies.
EnqueueFails ==
  /\ wire # <<>>
  /\ wire' = Tail(wire)
  /\ lost' = lost \cup {Head(wire)}
  /\ UNCHANGED <<sent, buffer, shown, group, dead, table, worker, appended,
                 stored, erased, unsure, early, faults>>

-----------------------------------------------------------------------------
(* The workers *)

Hold(w, pc, todo, rest) ==
  worker' = [worker EXCEPT ![w] = [pc |-> pc, todo |-> todo, rest |-> rest]]

\* Mutant: XREADGROUP with NOACK.
Pend_NoAck(ms) == pending

\* The pending entries after the group has handed out ms.
Pend(ms) == pending \cup ms

Fresh == Elements(stream) \ delivered

\* The oldest of the entries ms, at most Count (a set of one batch).
First(ms) ==
  {batch \in SUBSET ms :
     /\ Cardinality(batch) = Least(Count, Cardinality(ms))
     /\ \A i, j \in DOMAIN stream :
          stream[i] \in batch /\ stream[j] \in ms \ batch => i < j}

HandOut(batch) ==
  /\ delivered' = delivered \cup batch
  /\ pending' = Pend(batch)

\* XREADGROUP: the next entries, at most Count.
Read(w) ==
  /\ worker[w].pc = "read" /\ Fresh # {}
  /\ \E batch \in First(Fresh) : HandOut(batch) /\ Hold(w, "save", batch, {})
  /\ UNCHANGED <<room, stream, idle, dead, table, history>>

\* Mutant: MIN_IDLE in another unit, which no entry reaches.
Claimable_Never == {}

\* What XAUTOCLAIM may take, whoever held it.
Claimable == Elements(stream) \cap idle

\* reclaimStuck: entries idle for MIN_IDLE, whoever has them; pending entries
\* that the stream has trimmed are forgotten.
Claim(w) ==
  LET gone == idle \ Elements(stream) IN
  /\ worker[w].pc = "read" /\ Claimable \cup gone # {}
  /\ pending' = pending \ gone
  /\ \E batch \in First(Claimable) :
       /\ idle' = idle \ (gone \cup batch)
       /\ IF batch = {} THEN UNCHANGED worker ELSE Hold(w, "save", batch, {})
  /\ UNCHANGED <<room, stream, delivered, dead, table, history>>

\* Mutant: duplicates are not skipped.
Accepts_NoDuplicate(ms) == ms \cap (Refused \cup table) = {}

\* createMany with skipDuplicates: all rows or, when one is refused, none.
Accepts(ms) == ms \cap Refused = {}

Insert(ms) ==
  /\ Accepts(ms)
  /\ table' = table \cup ms
  /\ stored' = stored \cup ms

\* An outage, or an insert that is not answered: the worker gets an error.
SaveChats(w) ==
  LET todo == worker[w].todo IN
  /\ worker[w].pc = "save"
  /\ \/ Insert(todo) /\ (Hold(w, "ack", todo, {}) \/ Hold(w, "one", {}, todo))
     \/ Hold(w, "one", {}, todo) /\ UNCHANGED <<table, stored>>
  /\ UNCHANGED <<room, group, dead, appended, lost, erased, unsure, early, faults>>

\* The order in which the loop takes the entries does not matter here.
SaveChatOne(w, m) ==
  LET rest == worker[w].rest \ {m} IN
  /\ worker[w].pc = "one" /\ m \in worker[w].rest
  /\ \/ Insert({m}) /\ Hold(w, "ack_one", {m}, rest) /\ UNCHANGED unsure
     \/ /\ Insert({m}) \/ UNCHANGED <<table, stored>>
        /\ Hold(w, "bury", {m}, rest)
        /\ unsure' = IF Accepts({m}) THEN unsure \cup {m} ELSE unsure
  /\ UNCHANGED <<room, group, dead, appended, lost, erased, early, faults>>

\* A failed XADD is logged, the entry is acknowledged all the same.
DeadLetter(w) ==
  LET todo == worker[w].todo IN
  /\ worker[w].pc = "bury"
  /\ Hold(w, "ack_buried", todo, worker[w].rest)
  /\ \/ dead' = dead \cup todo /\ UNCHANGED <<lost, faults>>
     \/ /\ faults < MaxFaults /\ faults' = faults + 1
        /\ lost' = lost \cup todo
        /\ UNCHANGED dead
  /\ UNCHANGED <<room, group, table, appended, stored, erased, unsure, early>>

Acknowledge(ms) ==
  /\ pending' = pending \ ms
  /\ idle' = idle \ ms

\* The next entry of the batch, or the next read.
GoOn(w) ==
  IF worker[w].rest = {} THEN worker' = [worker EXCEPT ![w] = Ready]
  ELSE Hold(w, "one", {}, worker[w].rest)

\* XACK of the batch or of one entry.
Ack(w) ==
  /\ worker[w].pc \in {"ack", "ack_one", "ack_buried"}
  /\ Acknowledge(worker[w].todo)
  /\ GoOn(w)
  /\ UNCHANGED <<room, stream, delivered, dead, table, history>>

\* An error, with or without effect: a batch is taken one by one, an entry that
\* was saved is buried, the rest of a batch is left pending after a burial.
AckFails(w) ==
  LET todo == worker[w].todo IN
  /\ faults < MaxFaults /\ faults' = faults + 1
  /\ \/ worker[w].pc = "ack" /\ Hold(w, "one", {}, todo) /\ UNCHANGED unsure
     \/ /\ worker[w].pc = "ack_one" /\ Hold(w, "bury", todo, worker[w].rest)
        /\ unsure' = unsure \cup todo
     \/ /\ worker[w].pc = "ack_buried" /\ worker' = [worker EXCEPT ![w] = Ready]
        /\ UNCHANGED unsure
  /\ UNCHANGED <<pending, idle>> \/ Acknowledge(todo)
  /\ UNCHANGED <<room, stream, delivered, dead, table, appended, lost, stored,
                 erased, early>>

\* The reply to XREADGROUP is lost: the entries are pending, nobody has them.
ReadLost(w) ==
  /\ worker[w].pc = "read" /\ Fresh # {}
  /\ faults < MaxFaults /\ faults' = faults + 1
  /\ \E batch \in First(Fresh) : HandOut(batch)
  /\ UNCHANGED <<room, stream, idle, dead, table, worker, appended, lost, stored,
                 erased, unsure, early>>

\* Mutant: a worker that starts creates the group anew, from entry 0.
AtStart_Anew == {}

\* XGROUP CREATE of a group that exists (BUSYGROUP) changes nothing.
AtStart == delivered

\* A worker dies and starts again.
Crash(w) ==
  /\ faults < MaxFaults /\ faults' = faults + 1
  /\ worker' = [worker EXCEPT ![w] = Ready]
  /\ delivered' = AtStart
  /\ UNCHANGED <<room, stream, pending, idle, dead, table, appended, lost, stored,
                 erased, unsure, early>>

\* MIN_IDLE passes; the holder may still be at work.
GrowsIdle(m) ==
  /\ m \in pending \ idle
  /\ idle' = idle \cup {m}
  /\ UNCHANGED <<room, stream, delivered, pending, dead, table, worker, history>>

-----------------------------------------------------------------------------
(* Moderation *)

InHand(m) == \E w \in Workers : m \in worker[w].todo \cup worker[w].rest

\* banUnbanInteraction deletes the row; while there is none it answers an error.
\* Send takes the verdict on the restriction it also creates as an input: that is
\* read through a memo and a cache which no one invalidates.
DeleteMessage(m) ==
  /\ m \in table
  /\ table' = table \ {m}
  /\ erased' = erased \cup {m}
  /\ early' = IF Unfinished(m) \/ InHand(m) THEN early \cup {m} ELSE early
  /\ UNCHANGED <<room, group, dead, worker, appended, lost, stored, unsure,
                 faults>>

-----------------------------------------------------------------------------
Work(w) == \/ Read(w) \/ Claim(w) \/ SaveChats(w) \/ DeadLetter(w) \/ Ack(w)
           \/ \E m \in Messages : SaveChatOne(w, m)

Next ==
  \/ \E m \in Messages : Send(m) \/ GrowsIdle(m) \/ DeleteMessage(m)
  \/ FlushRoom \/ EnqueueChat \/ EnqueueFails
  \/ \E w \in Workers : Work(w) \/ AckFails(w) \/ ReadLost(w) \/ Crash(w)

Spec == Init /\ [][Next]_vars

\* A worker's loop goes on after every error; pending entries grow idle.
FairSpec == /\ Spec
            /\ \A w \in Workers : WF_vars(Work(w))
            /\ \A m \in Messages : WF_vars(GrowsIdle(m))

-----------------------------------------------------------------------------
(* Properties *)

TypeOK ==
  /\ sent \subseteq Messages /\ buffer \in Seq(sent) /\ shown \in Seq(sent)
  /\ wire \in Seq(sent) /\ stream \in Seq(sent) /\ appended \in Seq(sent)
  /\ delivered \subseteq sent
  /\ pending \subseteq delivered /\ idle \subseteq pending
  /\ dead \subseteq sent /\ lost \subseteq sent
  /\ table \subseteq stored /\ stored \subseteq sent \ Refused
  /\ erased \subseteq stored /\ unsure \subseteq sent /\ early \subseteq erased
  /\ worker \in [Workers -> [pc: Steps, todo: SUBSET sent, rest: SUBSET sent]]
  /\ \A w \in Workers : /\ worker[w].pc = "one" => worker[w].rest # {}
                        /\ worker[w].pc \in {"save", "ack"} => worker[w].todo # {}
  /\ faults \in 0..MaxFaults

\* chat.worker.js: a message the stream has taken is stored, dead-lettered or
\* still to be handed out, whatever crashes and fails in the workers.  Known
\* losses: entries trimmed by MAXLEN, dead letters that could not be written.
NothingVanishes ==
  \A m \in sent : \/ m \in Elements(wire) \cup stored \cup dead \cup lost
                  \/ m \in Elements(stream) /\ Unfinished(m)

\* A message is buried only if the table refuses it or its own save or
\* acknowledgement failed: not for a neighbour in its batch, not for being
\* handled again after a crash.
BuriedForCause == dead \subseteq Refused \cup unsure

\* What a moderator deleted comes back only by an entry that was unfinished when
\* he deleted it: an acknowledged entry is never handled again.
DeletedStaysDeleted == erased \cap table \subseteq early

\* Students and the history agree: the room sees messages in the order in which
\* they entered the stream.
ShownInOrder ==
  LET At(s, m) == CHOOSE k \in DOMAIN s : s[k] = m IN
  \A a, b \in Elements(shown) \cap Elements(appended) :
    At(shown, a) < At(shown, b) => At(appended, a) < At(appended, b)

\* A message is kept while it is on its way to the stream, while its entry there is
\* unfinished, and while a worker has it in hand.
Kept == {m \in sent : \/ m \in Elements(wire) \/ InHand(m)
                      \/ m \in Elements(stream) /\ Unfinished(m)}

Store == INSTANCE ChatStore WITH kept <- Kept, doubted <- unsure

\* Room, stream, workers and table together are one store that keeps each message
\* until it has an end: send, the consumer group, handleBatch, reclaimStuck and
\* banUnbanInteractionIntoDb, however their steps interleave and fail.
StoreSpec == Store!Spec

\* Every entry is finished, or trimmed, although workers die with it in hand.
EntriesFinish ==
  \A m \in Messages : m \in Elements(stream) /\ Unfinished(m)
                        ~> ~(m \in Elements(stream) /\ Unfinished(m))
=============================================================================
