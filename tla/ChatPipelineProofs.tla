------------------------- MODULE ChatPipelineProofs -------------------------
(***************************************************************************)
(* ChatPipeline for any number of messages and workers and any number of   *)
(* crashes and failing calls: nothing the stream took vanishes, nothing is *)
(* buried without a cause, what a moderator deleted stays deleted, the     *)
(* room and the stream see messages in one order, and the whole pipeline   *)
(* implements ChatStore.                                                   *)
(***************************************************************************)
EXTENDS ChatPipeline, SequenceTheorems, FiniteSetTheorems, TLAPS

\* Entries handed out are pending and in the stream until they have a place.
Placed == stored \cup dead \cup lost

KeptInv ==
  /\ \A m \in delivered : m \in Placed \/ (m \in pending /\ m \in Elements(stream))
  /\ \A m \in sent \ delivered : m \in Elements(wire) \cup lost \cup Elements(stream)

\* What a worker knows of the entries it deals with at each step.
HandInv ==
  \A w \in Workers :
    /\ worker[w].pc \in {"ack", "ack_one"} => worker[w].todo \subseteq stored
    /\ worker[w].pc = "bury" => worker[w].todo \subseteq Refused \cup unsure
    /\ worker[w].pc = "ack_buried" => worker[w].todo \subseteq dead \cup lost

\* No one has an entry that was finished when its row was deleted.
GoneInv ==
  \A m \in erased \ early :
    /\ m \in delivered /\ m \notin pending
    /\ ~InHand(m)

-----------------------------------------------------------------------------
\* The elements of a sequence that grows at its end.
LEMMA ElementsOfAppend ==
  ASSUME NEW S, NEW s \in Seq(S), NEW e
  PROVE  Elements(Append(s, e)) = Elements(s) \cup {e}
<1>1. /\ DOMAIN Append(s, e) = 1..(Len(s) + 1)
      /\ DOMAIN s = 1..Len(s) /\ Len(s) \in Nat
  OBVIOUS
<1>2. /\ \A k \in 1..Len(s) : Append(s, e)[k] = s[k]
      /\ Append(s, e)[Len(s) + 1] = e
  OBVIOUS
<1> QED
  BY <1>1, <1>2 DEF Elements

\* The elements of a sequence and of its two parts.
LEMMA ElementsOfCut ==
  ASSUME NEW S, NEW s \in Seq(S), NEW cut \in 0..Len(s)
  PROVE  Elements(s) = Elements(SubSeq(s, 1, cut))
                         \cup Elements(SubSeq(s, cut + 1, Len(s)))
<1> DEFINE a == SubSeq(s, 1, cut)
           b == SubSeq(s, cut + 1, Len(s))
<1>1. /\ DOMAIN s = 1..Len(s) /\ Len(s) \in Nat
      /\ DOMAIN a = 1..cut /\ DOMAIN b = 1..(Len(s) - cut)
  OBVIOUS
<1>2. /\ \A k \in 1..cut : a[k] = s[k]
      /\ \A k \in 1..(Len(s) - cut) : b[k] = s[cut + k]
  OBVIOUS
<1>3. \A k \in (cut + 1)..Len(s) : k - cut \in 1..(Len(s) - cut) /\ b[k - cut] = s[k]
  BY <1>1, <1>2
<1> HIDE DEF a, b
<1>4. Elements(s) \subseteq Elements(a) \cup Elements(b)
  <2> SUFFICES ASSUME NEW k \in 1..Len(s) PROVE s[k] \in Elements(a) \cup Elements(b)
    BY <1>1 DEF Elements
  <2>1. CASE k <= cut
    <3>1. k \in 1..cut /\ s[k] = a[k]
      BY <1>1, <1>2, <2>1
    <3> QED
      BY <1>1, <3>1 DEF Elements
  <2>2. CASE ~(k <= cut)
    <3>1. k \in (cut + 1)..Len(s)
      BY <1>1, <2>2
    <3>2. k - cut \in 1..(Len(s) - cut) /\ b[k - cut] = s[k]
      BY <1>3, <3>1
    <3> QED
      BY <1>1, <3>2 DEF Elements
  <2> QED
    BY <2>1, <2>2
<1>5. Elements(a) \subseteq Elements(s)
  BY <1>1, <1>2 DEF Elements
<1>6. Elements(b) \subseteq Elements(s)
  <2>1. \A k \in 1..(Len(s) - cut) : cut + k \in 1..Len(s) /\ b[k] = s[cut + k]
    BY <1>1, <1>2
  <2> QED
    BY <1>1, <2>1 DEF Elements
<1> QED
  BY <1>4, <1>5, <1>6 DEF a, b

\* The elements of a sequence whose first is taken away.
LEMMA ElementsOfTail ==
  ASSUME NEW S, NEW s \in Seq(S), s # <<>>
  PROVE  /\ Elements(s) = {Head(s)} \cup Elements(Tail(s))
         /\ Head(s) \in S /\ Tail(s) \in Seq(S)
<1>1. /\ DOMAIN s = 1..Len(s) /\ Len(s) \in Nat \ {0} /\ Head(s) = s[1]
      /\ DOMAIN Tail(s) = 1..(Len(s) - 1)
      /\ \A k \in 1..(Len(s) - 1) : Tail(s)[k] = s[k + 1]
  OBVIOUS
<1>2. \A k \in 2..Len(s) : k - 1 \in 1..(Len(s) - 1) /\ Tail(s)[k - 1] = s[k]
  BY <1>1
<1>3. Elements(s) = {Head(s)} \cup Elements(Tail(s))
  <2> DEFINE t == Tail(s)
  <2>1. Elements(s) = {s[k] : k \in 1..Len(s)} /\ Elements(t) = {t[k] : k \in 1..(Len(s) - 1)}
    BY <1>1 DEF Elements
  <2>2. \A k \in 1..Len(s) : s[k] \in {Head(s)} \cup Elements(t)
    <3> SUFFICES ASSUME NEW k \in 1..Len(s) PROVE s[k] \in {Head(s)} \cup Elements(t)
      OBVIOUS
    <3>1. CASE k = 1
      BY <1>1, <3>1
    <3>2. CASE k # 1
      <4>1. k \in 2..Len(s)
        BY <1>1, <3>2
      <4>2. k - 1 \in 1..(Len(s) - 1) /\ t[k - 1] = s[k]
        BY <1>2, <4>1
      <4> QED
        BY <2>1, <4>2
    <3> QED
      BY <3>1, <3>2
  <2>3. \A k \in 1..(Len(s) - 1) : k + 1 \in 1..Len(s) /\ t[k] = s[k + 1]
    BY <1>1
  <2>4. Head(s) \in Elements(s)
    BY <1>1, <2>1
  <2> HIDE DEF t
  <2>5. Elements(t) \subseteq Elements(s)
    BY <2>1, <2>3
  <2>6. Elements(s) \subseteq {Head(s)} \cup Elements(t)
    BY <2>1, <2>2
  <2> QED
    BY <2>4, <2>5, <2>6 DEF t
<1>4. Head(s) \in S /\ Tail(s) \in Seq(S)
  BY HeadTailProperties
<1> QED
  BY <1>3, <1>4

\* A batch consists of the entries it was to be taken from.
LEMMA FirstIsPart ==
  ASSUME NEW ms, NEW batch \in First(ms)
  PROVE  batch \subseteq ms
BY DEF First

\* A batch of something is not empty.
LEMMA FirstIsNotEmpty ==
  ASSUME NEW S, stream \in Seq(S), NEW ms \in SUBSET Elements(stream), ms # {},
         NEW batch \in First(ms)
  PROVE  batch # {}
<1> USE ChatPipelineAssumption
<1>1. IsFiniteSet(DOMAIN stream)
  <2>1. DOMAIN stream = 1..Len(stream) /\ Len(stream) \in Nat
    OBVIOUS
  <2> QED
    BY <2>1, FS_Interval
<1>2. IsFiniteSet(Elements(stream))
  <2>1. stream \in Surjection(DOMAIN stream, Elements(stream))
    BY DEF Elements, Surjection
  <2> QED
    BY <1>1, <2>1, FS_Surjection
<1>3. IsFiniteSet(ms)
  BY <1>2, FS_Subset
<1>4. Cardinality(ms) \in Nat \ {0}
  BY <1>3, FS_CardinalityType, FS_EmptySet
<1>5. Cardinality(batch) = Least(Count, Cardinality(ms))
  BY DEF First
<1>6. Cardinality(batch) # 0
  BY <1>4, <1>5 DEF Least
<1> QED
  BY <1>6, FS_EmptySet

\* Where a worker is, and what it has in hand.
WorkerOK ==
  /\ worker \in [Workers -> [pc: Steps, todo: SUBSET sent, rest: SUBSET sent]]
  /\ \A w \in Workers : /\ worker[w].pc = "one" => worker[w].rest # {}
                        /\ worker[w].pc \in {"save", "ack"} => worker[w].todo # {}

\* A worker that goes to a step with entries that were sent.
LEMMA HoldKeeps ==
  ASSUME WorkerOK, UNCHANGED sent, NEW w \in Workers, NEW pc \in Steps,
         NEW todo \in SUBSET sent, NEW rest \in SUBSET sent,
         pc = "one" => rest # {}, pc \in {"save", "ack"} => todo # {},
         Hold(w, pc, todo, rest)
  PROVE  /\ WorkerOK'
         /\ worker'[w] = [pc |-> pc, todo |-> todo, rest |-> rest]
         /\ \A v \in Workers \ {w} : worker'[v] = worker[v]
BY DEF WorkerOK, Hold

\* A worker that goes back to reading.
LEMMA ReadyKeeps ==
  ASSUME WorkerOK, UNCHANGED sent, NEW w \in Workers,
         worker' = [worker EXCEPT ![w] = Ready]
  PROVE  /\ WorkerOK'
         /\ worker'[w] = Ready
         /\ \A v \in Workers \ {w} : worker'[v] = worker[v]
BY DEF WorkerOK, Ready, Steps

-----------------------------------------------------------------------------
\* Types are kept.
LEMMA TypeStep ==
  ASSUME TypeOK, [Next]_vars
  PROVE  TypeOK'
<1> USE ChatPipelineAssumption DEF TypeOK, Steps, room, group, history, Ready
<1>0. WorkerOK
  BY DEF WorkerOK
<1>1. ASSUME NEW m \in Messages, Send(m) PROVE TypeOK'
  <2>1. \A s \in Seq(sent) : s \in Seq(sent \cup {m}) /\ Append(s, m) \in Seq(sent \cup {m})
    OBVIOUS
  <2> QED
    BY <1>1, <2>1 DEF Send
<1>2. ASSUME NEW m \in Messages, GrowsIdle(m) PROVE TypeOK'
  BY <1>2 DEF GrowsIdle
<1>3. ASSUME NEW m \in Messages, DeleteMessage(m) PROVE TypeOK'
  BY <1>3 DEF DeleteMessage
<1>4. ASSUME FlushRoom PROVE TypeOK'
  <2>1. Least(MaxBatch, Len(buffer)) \in 0..Len(buffer)
    BY DEF Least
  <2>2. Splice(buffer).batch \in Seq(sent) /\ Splice(buffer).rest \in Seq(sent)
    BY <2>1, SubSeqProperties DEF Splice
  <2>3. shown \o Splice(buffer).batch \in Seq(sent)
    BY <2>2
  <2> QED
    BY <1>4, <2>2, <2>3 DEF FlushRoom
<1>5. ASSUME EnqueueChat PROVE TypeOK'
  <2>1. Head(wire) \in sent /\ Tail(wire) \in Seq(sent)
    BY <1>5, ElementsOfTail DEF EnqueueChat
  <2>2. PICK cut \in 0..Len(stream) :
          /\ stream' = Append(SubSeq(stream, cut + 1, Len(stream)), Head(wire))
          /\ lost' = lost \cup {m \in Elements(SubSeq(stream, 1, cut)) : Unfinished(m)}
    BY <1>5 DEF EnqueueChat
  <2>3. SubSeq(stream, 1, cut) \in Seq(sent) /\ SubSeq(stream, cut + 1, Len(stream)) \in Seq(sent)
    BY SubSeqProperties
  <2>4. Elements(SubSeq(stream, 1, cut)) \subseteq sent
    BY <2>3 DEF Elements
  <2>5. stream' \in Seq(sent) /\ lost' \subseteq sent /\ appended' \in Seq(sent)
    BY <1>5, <2>1, <2>2, <2>3, <2>4 DEF EnqueueChat
  <2> QED
    BY <1>5, <2>1, <2>5 DEF EnqueueChat
<1>6. ASSUME EnqueueFails PROVE TypeOK'
  BY <1>6, ElementsOfTail DEF EnqueueFails
<1>7. ASSUME NEW w \in Workers, Read(w) PROVE TypeOK'
  <2>1. Elements(stream) \subseteq sent
    BY DEF Elements
  <2>2. PICK batch \in First(Fresh) : HandOut(batch) /\ Hold(w, "save", batch, {})
    BY <1>7 DEF Read
  <2>3. batch \in SUBSET sent /\ batch # {}
    BY <1>7, <2>1, FirstIsPart, FirstIsNotEmpty DEF Read, Fresh
  <2>4. WorkerOK'
    BY <1>7, <2>2, <2>3, <1>0, HoldKeeps DEF Read
  <2> QED
    BY <1>7, <2>2, <2>3, <2>4 DEF Read, HandOut, Pend, WorkerOK
<1>8. ASSUME NEW w \in Workers, Claim(w) PROVE TypeOK'
  <2>1. PICK batch \in First(Claimable) :
          /\ idle' = idle \ ((idle \ Elements(stream)) \cup batch)
          /\ IF batch = {} THEN UNCHANGED worker ELSE Hold(w, "save", batch, {})
    BY <1>8 DEF Claim
  <2>2. batch \subseteq idle /\ batch \in SUBSET sent
    BY FirstIsPart DEF Claimable
  <2>3. WorkerOK'
    <3>1. sent' = sent
      BY <1>8 DEF Claim
    <3>2. CASE batch = {}
      BY <1>0, <2>1, <3>1, <3>2 DEF WorkerOK
    <3>3. CASE batch # {}
      <4>1. Hold(w, "save", batch, {}) /\ "save" \in Steps /\ {} \in SUBSET sent
        BY <2>1, <3>3
      <4> QED
        BY ONLY <1>0, <2>2, <3>1, <3>3, <4>1, w \in Workers, HoldKeeps
    <3> QED
      BY <3>2, <3>3
  <2>4. pending' = pending \ (idle \ Elements(stream)) /\ idle' \subseteq pending'
    BY <1>8, <2>1, <2>2 DEF Claim, Claimable
  <2>5. UNCHANGED <<sent, buffer, shown, wire, stream, delivered, dead, table>>
        /\ UNCHANGED <<appended, lost, stored, erased, unsure, early, faults>>
    BY <1>8 DEF Claim
  <2> QED
    BY <2>3, <2>4, <2>5 DEF WorkerOK
<1>9. ASSUME NEW w \in Workers, SaveChats(w) PROVE TypeOK'
  <2>1. worker[w].todo \in SUBSET sent
    BY DEF WorkerOK
  <2>2. WorkerOK'
    BY <1>9, <2>1, <1>0, HoldKeeps DEF SaveChats
  <2> QED
    BY <1>9, <2>1, <2>2 DEF SaveChats, Insert, Accepts, WorkerOK
<1>10. ASSUME NEW w \in Workers, NEW m \in Messages, SaveChatOne(w, m) PROVE TypeOK'
  <2>1. {m} \in SUBSET sent /\ worker[w].rest \ {m} \in SUBSET sent
    BY <1>10 DEF SaveChatOne
  <2>2. PICK pc \in {"ack_one", "bury"} : Hold(w, pc, {m}, worker[w].rest \ {m})
    BY <1>10 DEF SaveChatOne
  <2>3. pc \in Steps /\ pc \notin {"one", "save", "ack"} /\ UNCHANGED sent
    BY <1>10, <2>2 DEF SaveChatOne
  <2>4. WorkerOK'
    <3> HIDE DEF TypeOK, Steps
    <3> QED
      BY <2>1, <2>2, <2>3, <1>0, HoldKeeps
  <2> QED
    BY <1>10, <2>1, <2>4 DEF SaveChatOne, Insert, Accepts, WorkerOK
<1>11. ASSUME NEW w \in Workers, DeadLetter(w) PROVE TypeOK'
  BY <1>11 DEF DeadLetter, Hold
<1>12. ASSUME NEW w \in Workers, Ack(w) PROVE TypeOK'
  <2>1. worker[w].rest \in SUBSET sent
    OBVIOUS
  <2>2. WorkerOK'
    BY <1>12, <2>1, <1>0, HoldKeeps, ReadyKeeps DEF Ack, GoOn
  <2> QED
    BY <1>12, <2>2 DEF Ack, Acknowledge, WorkerOK
<1>13. ASSUME NEW w \in Workers, AckFails(w) PROVE TypeOK'
  <2>1. worker[w].todo \in SUBSET sent /\ worker[w].rest \in SUBSET sent
    OBVIOUS
  <2>2. WorkerOK'
    BY <1>13, <2>1, <1>0, HoldKeeps, ReadyKeeps DEF AckFails
  <2> QED
    BY <1>13, <2>1, <2>2 DEF AckFails, Acknowledge, WorkerOK
<1>14. ASSUME NEW w \in Workers, ReadLost(w) PROVE TypeOK'
  <2>1. Elements(stream) \subseteq sent
    BY DEF Elements
  <2> QED
    BY <1>14, <2>1, FirstIsPart DEF ReadLost, HandOut, Pend, Fresh
<1>15. ASSUME NEW w \in Workers, Crash(w) PROVE TypeOK'
  BY <1>15 DEF Crash, AtStart
<1>16. ASSUME UNCHANGED vars PROVE TypeOK'
  BY <1>16 DEF vars
<1> QED
  BY <1>1, <1>2, <1>3, <1>4, <1>5, <1>6, <1>7, <1>8, <1>9, <1>10,
     <1>11, <1>12, <1>13, <1>14, <1>15, <1>16 DEF Next, Work

\* A worker knows more of the entries it deals with at each step.
LEMMA HandStep ==
  ASSUME TypeOK, HandInv, [Next]_vars
  PROVE  HandInv'
<1> USE DEF HandInv, room, group, history, Ready
<1>0. WorkerOK
  BY DEF TypeOK, WorkerOK
<1>1. ASSUME UNCHANGED worker,
             stored \subseteq stored' /\ dead \subseteq dead' /\ lost \subseteq lost'
               /\ unsure \subseteq unsure'
      PROVE  HandInv'
  BY <1>1
<1>2. ASSUME NEW m \in Messages, Send(m) \/ GrowsIdle(m) \/ DeleteMessage(m) PROVE HandInv'
  BY <1>1, <1>2 DEF Send, GrowsIdle, DeleteMessage
<1>3. ASSUME FlushRoom \/ EnqueueChat \/ EnqueueFails PROVE HandInv'
  BY <1>1, <1>3 DEF FlushRoom, EnqueueChat, EnqueueFails
<1>4. ASSUME NEW w \in Workers, Read(w) \/ Claim(w) PROVE HandInv'
  BY <1>4, <1>0 DEF Read, Claim, Hold, WorkerOK
<1>5. ASSUME NEW w \in Workers, SaveChats(w) PROVE HandInv'
  BY <1>5, <1>0 DEF SaveChats, Hold, Insert, WorkerOK
<1>6. ASSUME NEW w \in Workers, NEW m \in Messages, SaveChatOne(w, m) PROVE HandInv'
  <2>1. CASE Insert({m}) /\ Hold(w, "ack_one", {m}, worker[w].rest \ {m}) /\ UNCHANGED unsure
    BY <1>6, <2>1, <1>0 DEF SaveChatOne, Hold, Insert, WorkerOK
  <2>2. CASE /\ Insert({m}) \/ UNCHANGED <<table, stored>>
             /\ Hold(w, "bury", {m}, worker[w].rest \ {m})
             /\ unsure' = IF Accepts({m}) THEN unsure \cup {m} ELSE unsure
    <3>1. m \in Refused \cup unsure' /\ unsure \subseteq unsure' /\ stored \subseteq stored'
      BY <2>2 DEF Accepts, Insert
    <3> QED
      BY <1>6, <2>2, <3>1, <1>0 DEF SaveChatOne, Hold, WorkerOK
  <2> QED
    BY <1>6, <2>1, <2>2 DEF SaveChatOne
<1>7. ASSUME NEW w \in Workers, DeadLetter(w) PROVE HandInv'
  BY <1>7, <1>0 DEF DeadLetter, Hold, WorkerOK
<1>8. ASSUME NEW w \in Workers, Ack(w) PROVE HandInv'
  BY <1>8, <1>0 DEF Ack, GoOn, Hold, WorkerOK
<1>9. ASSUME NEW w \in Workers, AckFails(w) PROVE HandInv'
  BY <1>9, <1>0 DEF AckFails, Hold, WorkerOK
<1>10. ASSUME NEW w \in Workers, ReadLost(w) \/ Crash(w) PROVE HandInv'
  BY <1>10, <1>0 DEF ReadLost, Crash, WorkerOK
<1>11. ASSUME UNCHANGED vars PROVE HandInv'
  BY <1>1, <1>11 DEF vars
<1> QED
  BY <1>2, <1>3, <1>4, <1>5, <1>6, <1>7, <1>8, <1>9, <1>10, <1>11 DEF Next, Work

\* What is acknowledged, trimmed or forgotten has a place.
LEMMA KeptStep ==
  ASSUME TypeOK, HandInv, KeptInv, [Next]_vars
  PROVE  KeptInv'
<1> USE DEF KeptInv, Placed, room, group, history, Unfinished
<1>1. ASSUME NEW m \in Messages, Send(m) PROVE KeptInv'
  <2>1. Elements(wire') = Elements(wire) \cup {m}
    BY <1>1, ElementsOfAppend DEF Send, TypeOK
  <2> QED
    BY <1>1, <2>1 DEF Send
<1>2. ASSUME NEW m \in Messages, GrowsIdle(m) \/ DeleteMessage(m) PROVE KeptInv'
  BY <1>2 DEF GrowsIdle, DeleteMessage
<1>3. ASSUME FlushRoom PROVE KeptInv'
  BY <1>3 DEF FlushRoom
<1>4. ASSUME EnqueueChat PROVE KeptInv'
  <2>1. PICK cut \in 0..Len(stream) :
          /\ stream' = Append(SubSeq(stream, cut + 1, Len(stream)), Head(wire))
          /\ lost' = lost \cup {m \in Elements(SubSeq(stream, 1, cut)) : Unfinished(m)}
    BY <1>4 DEF EnqueueChat
  <2> DEFINE old == SubSeq(stream, 1, cut)
             kept == SubSeq(stream, cut + 1, Len(stream))
  <2>2. Elements(wire) = {Head(wire)} \cup Elements(wire')
    BY <1>4, ElementsOfTail DEF EnqueueChat, TypeOK
  <2>3. Elements(stream) = Elements(old) \cup Elements(kept)
    BY ElementsOfCut DEF TypeOK
  <2>4. kept \in Seq(sent)
    BY SubSeqProperties DEF TypeOK
  <2>5. Elements(stream') = Elements(kept) \cup {Head(wire)}
    BY <2>1, <2>4, ElementsOfAppend
  <2> HIDE DEF old, kept
  <2>6. lost' = lost \cup {m \in Elements(old) : Unfinished(m)}
    BY <2>1 DEF old
  <2> QED
    BY <1>4, <2>2, <2>3, <2>5, <2>6 DEF EnqueueChat
<1>5. ASSUME EnqueueFails PROVE KeptInv'
  <2>1. Elements(wire) = {Head(wire)} \cup Elements(wire')
    BY <1>5, ElementsOfTail DEF EnqueueFails, TypeOK
  <2> QED
    BY <1>5, <2>1 DEF EnqueueFails
<1>6. ASSUME NEW w \in Workers, Read(w) \/ ReadLost(w) PROVE KeptInv'
  <2>1. PICK batch \in First(Fresh) : HandOut(batch)
    BY <1>6 DEF Read, ReadLost
  <2>2. batch \subseteq Elements(stream)
    BY FirstIsPart DEF Fresh
  <2> QED
    BY <1>6, <2>1, <2>2 DEF Read, ReadLost, HandOut, Pend
<1>7. ASSUME NEW w \in Workers, Claim(w) PROVE KeptInv'
  BY <1>7 DEF Claim
<1>8. ASSUME NEW w \in Workers, SaveChats(w) PROVE KeptInv'
  BY <1>8 DEF SaveChats, Insert
<1>9. ASSUME NEW w \in Workers, NEW m \in Messages, SaveChatOne(w, m) PROVE KeptInv'
  BY <1>9 DEF SaveChatOne, Insert
<1>10. ASSUME NEW w \in Workers, DeadLetter(w) PROVE KeptInv'
  BY <1>10 DEF DeadLetter
<1>11. ASSUME NEW w \in Workers, Ack(w) PROVE KeptInv'
  <2>1. worker[w].todo \subseteq Placed
    BY <1>11 DEF Ack, HandInv
  <2> QED
    BY <1>11, <2>1 DEF Ack, Acknowledge
<1>12. ASSUME NEW w \in Workers, AckFails(w) PROVE KeptInv'
  <2>1. worker[w].todo \subseteq Placed
    BY <1>12 DEF AckFails, HandInv
  <2> QED
    BY <1>12, <2>1 DEF AckFails, Acknowledge
<1>13. ASSUME NEW w \in Workers, Crash(w) PROVE KeptInv'
  BY <1>13 DEF Crash, AtStart
<1>14. ASSUME UNCHANGED vars PROVE KeptInv'
  BY <1>14 DEF vars
<1> QED
  BY <1>1, <1>2, <1>3, <1>4, <1>5, <1>6, <1>7, <1>8, <1>9, <1>10,
     <1>11, <1>12, <1>13, <1>14 DEF Next, Work

\* A finished entry is in no worker's hand again.
LEMMA GoneStep ==
  ASSUME TypeOK, GoneInv, [Next]_vars
  PROVE  GoneInv'
<1> USE DEF GoneInv, InHand, room, group, history, Ready
<1>0. WorkerOK
  BY DEF TypeOK, WorkerOK
<1>1. ASSUME NEW m \in Messages, Send(m) \/ GrowsIdle(m) PROVE GoneInv'
  BY <1>1 DEF Send, GrowsIdle
<1>2. ASSUME NEW m \in Messages, DeleteMessage(m) PROVE GoneInv'
  BY <1>2 DEF DeleteMessage, Unfinished
<1>3. ASSUME FlushRoom \/ EnqueueChat \/ EnqueueFails PROVE GoneInv'
  BY <1>3 DEF FlushRoom, EnqueueChat, EnqueueFails
<1>4. ASSUME NEW w \in Workers, Read(w) PROVE GoneInv'
  <2>1. PICK batch \in First(Fresh) : HandOut(batch) /\ Hold(w, "save", batch, {})
    BY <1>4 DEF Read
  <2>2. batch \cap delivered = {}
    BY FirstIsPart DEF Fresh
  <2> QED
    BY <1>4, <2>1, <2>2, <1>0 DEF Read, HandOut, Pend, Hold, WorkerOK
<1>5. ASSUME NEW w \in Workers, Claim(w) PROVE GoneInv'
  <2>1. PICK batch \in First(Claimable) :
          IF batch = {} THEN UNCHANGED worker ELSE Hold(w, "save", batch, {})
    BY <1>5 DEF Claim
  <2>2. batch \subseteq pending
    BY FirstIsPart DEF Claimable, TypeOK
  <2> QED
    BY <1>5, <2>1, <2>2, <1>0 DEF Claim, Hold, WorkerOK
<1>6. ASSUME NEW w \in Workers, SaveChats(w) PROVE GoneInv'
  BY <1>6, <1>0 DEF SaveChats, Hold, WorkerOK
<1>7. ASSUME NEW w \in Workers, NEW m \in Messages, SaveChatOne(w, m) PROVE GoneInv'
  BY <1>7, <1>0 DEF SaveChatOne, Hold, WorkerOK
<1>8. ASSUME NEW w \in Workers, DeadLetter(w) PROVE GoneInv'
  BY <1>8, <1>0 DEF DeadLetter, Hold, WorkerOK
<1>9. ASSUME NEW w \in Workers, Ack(w) PROVE GoneInv'
  BY <1>9, <1>0 DEF Ack, Acknowledge, GoOn, Hold, WorkerOK
<1>10. ASSUME NEW w \in Workers, AckFails(w) PROVE GoneInv'
  BY <1>10, <1>0 DEF AckFails, Acknowledge, Hold, WorkerOK
<1>11. ASSUME NEW w \in Workers, ReadLost(w) PROVE GoneInv'
  <2>1. PICK batch \in First(Fresh) : HandOut(batch)
    BY <1>11 DEF ReadLost
  <2>2. batch \cap delivered = {}
    BY FirstIsPart DEF Fresh
  <2> QED
    BY <1>11, <2>1, <2>2 DEF ReadLost, HandOut, Pend
<1>12. ASSUME NEW w \in Workers, Crash(w) PROVE GoneInv'
  BY <1>12, <1>0 DEF Crash, AtStart, WorkerOK
<1>13. ASSUME UNCHANGED vars PROVE GoneInv'
  BY <1>13 DEF vars
<1> QED
  BY <1>1, <1>2, <1>3, <1>4, <1>5, <1>6, <1>7, <1>8, <1>9, <1>10,
     <1>11, <1>12, <1>13 DEF Next, Work

\* Only entries that a worker has in hand get a row.
LEMMA DeletedStep ==
  ASSUME TypeOK, GoneInv, DeletedStaysDeleted, [Next]_vars
  PROVE  DeletedStaysDeleted'
<1> USE DEF DeletedStaysDeleted, room, group, history
<1>1. ASSUME table' \subseteq table, UNCHANGED <<erased, early>> PROVE DeletedStaysDeleted'
  BY <1>1
<1>2. ASSUME NEW m \in Messages, DeleteMessage(m) PROVE DeletedStaysDeleted'
  BY <1>2 DEF DeleteMessage
<1>3. ASSUME NEW m \in Messages, Send(m) \/ GrowsIdle(m) PROVE DeletedStaysDeleted'
  BY <1>1, <1>3 DEF Send, GrowsIdle
<1>4. ASSUME FlushRoom \/ EnqueueChat \/ EnqueueFails PROVE DeletedStaysDeleted'
  BY <1>1, <1>4 DEF FlushRoom, EnqueueChat, EnqueueFails
<1>5. ASSUME NEW w \in Workers, SaveChats(w) PROVE DeletedStaysDeleted'
  <2>1. worker[w].todo \cap (erased \ early) = {}
    BY DEF GoneInv, InHand
  <2> QED
    BY <1>5, <2>1 DEF SaveChats, Insert
<1>6. ASSUME NEW w \in Workers, NEW m \in Messages, SaveChatOne(w, m)
      PROVE  DeletedStaysDeleted'
  <2>1. m \notin erased \ early
    BY <1>6 DEF SaveChatOne, GoneInv, InHand
  <2> QED
    BY <1>6, <2>1 DEF SaveChatOne, Insert
<1>7. ASSUME NEW w \in Workers,
             Read(w) \/ Claim(w) \/ DeadLetter(w) \/ Ack(w) \/ AckFails(w)
               \/ ReadLost(w) \/ Crash(w)
      PROVE  DeletedStaysDeleted'
  BY <1>1, <1>7 DEF Read, Claim, DeadLetter, Ack, AckFails, ReadLost, Crash
<1>8. ASSUME UNCHANGED vars PROVE DeletedStaysDeleted'
  BY <1>1, <1>8 DEF vars
<1> QED
  BY <1>2, <1>3, <1>4, <1>5, <1>6, <1>7, <1>8 DEF Next, Work

\* Only DeadLetter buries, and unsure never shrinks.
LEMMA BuriedStep ==
  ASSUME HandInv, BuriedForCause, [Next]_vars
  PROVE  BuriedForCause'
<1> USE DEF BuriedForCause, room, group, history
<1>1. ASSUME dead' \subseteq dead, unsure \subseteq unsure' PROVE BuriedForCause'
  BY <1>1
<1>2. ASSUME NEW w \in Workers, DeadLetter(w) PROVE BuriedForCause'
  BY <1>2 DEF DeadLetter, HandInv
<1>3. ASSUME NEW m \in Messages, Send(m) \/ GrowsIdle(m) \/ DeleteMessage(m)
      PROVE  BuriedForCause'
  BY <1>1, <1>3 DEF Send, GrowsIdle, DeleteMessage
<1>4. ASSUME FlushRoom \/ EnqueueChat \/ EnqueueFails PROVE BuriedForCause'
  BY <1>1, <1>4 DEF FlushRoom, EnqueueChat, EnqueueFails
<1>5. ASSUME NEW w \in Workers,
             \/ Read(w) \/ Claim(w) \/ SaveChats(w) \/ Ack(w) \/ AckFails(w)
             \/ ReadLost(w) \/ Crash(w)
      PROVE  BuriedForCause'
  BY <1>1, <1>5 DEF Read, Claim, SaveChats, Ack, AckFails, ReadLost, Crash
<1>6. ASSUME NEW w \in Workers, NEW m \in Messages, SaveChatOne(w, m)
      PROVE  BuriedForCause'
  BY <1>1, <1>6 DEF SaveChatOne
<1>7. ASSUME UNCHANGED vars PROVE BuriedForCause'
  BY <1>1, <1>7 DEF vars
<1> QED
  BY <1>2, <1>3, <1>4, <1>5, <1>6, <1>7 DEF Next, Work

-----------------------------------------------------------------------------
IInv == TypeOK /\ HandInv /\ KeptInv /\ GoneInv /\ DeletedStaysDeleted /\ BuriedForCause

\* The inductive invariant holds.
LEMMA Inductive == Spec => []IInv
<1>1. Init => IInv
  <2> SUFFICES ASSUME Init PROVE IInv
    OBVIOUS
  <2>1. TypeOK
    BY ChatPipelineAssumption DEF Init, TypeOK, Ready, Steps
  <2>2. HandInv /\ GoneInv
    BY DEF Init, HandInv, GoneInv, Ready
  <2>3. KeptInv /\ DeletedStaysDeleted /\ BuriedForCause
    BY DEF Init, KeptInv, DeletedStaysDeleted, BuriedForCause
  <2> QED
    BY <2>1, <2>2, <2>3 DEF IInv
<1>2. IInv /\ [Next]_vars => IInv'
  BY TypeStep, HandStep, KeptStep, GoneStep, DeletedStep, BuriedStep DEF IInv
<1> QED
  BY <1>1, <1>2, PTL DEF Spec

\* Every variable keeps its type.
THEOREM TypeCorrect == Spec => []TypeOK
<1>1. IInv => TypeOK
  BY DEF IInv
<1> QED
  BY Inductive, <1>1, PTL

\* What the stream has taken is stored, dead-lettered or still to be handled,
\* besides what MAXLEN trims and what a failed dead letter gives up.
THEOREM Vanishing == Spec => []NothingVanishes
<1>1. IInv => NothingVanishes
  BY DEF IInv, KeptInv, Placed, NothingVanishes, Unfinished, TypeOK
<1> QED
  BY Inductive, <1>1, PTL

\* Nothing is dead-lettered for the fault of a neighbour or for a repetition.
THEOREM Burials == Spec => []BuriedForCause
<1>1. IInv => BuriedForCause
  BY DEF IInv
<1> QED
  BY Inductive, <1>1, PTL

\* A deleted message comes back only by an entry unfinished at its deletion.
THEOREM Deletions == Spec => []DeletedStaysDeleted
<1>1. IInv => DeletedStaysDeleted
  BY DEF IInv
<1> QED
  BY Inductive, <1>1, PTL

-----------------------------------------------------------------------------
(* The order of messages                                                     *)

\* Two sequences without repetitions that order what they share alike.
InOrder(s, t) ==
  /\ \A i, j \in 1..Len(s) : s[i] = s[j] => i = j
  /\ \A p, q \in 1..Len(t) : t[p] = t[q] => p = q
  /\ \A i, j \in 1..Len(s), p, q \in 1..Len(t) : s[i] = t[p] /\ s[j] = t[q] /\ i < j => p < q

\* What the room has seen and will see, and what the stream got and will get.
OrderInv == InOrder(shown \o buffer, appended \o wire)

\* A new element at the end of the second, and of both.
LEMMA OrderAppended ==
  ASSUME NEW S, NEW s \in Seq(S), NEW t \in Seq(S), InOrder(s, t), NEW m, m \notin S
  PROVE  InOrder(s, Append(t, m)) /\ InOrder(Append(s, m), Append(t, m))
<1> DEFINE a == Append(s, m)
           b == Append(t, m)
<1>1. /\ Len(s) \in Nat /\ \A i \in 1..Len(s) : s[i] \in S
      /\ Len(t) \in Nat /\ \A i \in 1..Len(t) : t[i] \in S
  BY ElementOfSeq, LenProperties
<1>2. /\ Len(a) = Len(s) + 1 /\ a[Len(s) + 1] = m /\ \A i \in 1..Len(s) : a[i] = s[i]
      /\ Len(b) = Len(t) + 1 /\ b[Len(t) + 1] = m /\ \A i \in 1..Len(t) : b[i] = t[i]
  OBVIOUS
<1> HIDE DEF a, b
<1>3. /\ \A i \in 1..Len(a) : (i = Len(s) + 1 /\ a[i] = m) \/ (i \in 1..Len(s) /\ a[i] = s[i] /\ a[i] # m)
      /\ \A i \in 1..Len(b) : (i = Len(t) + 1 /\ b[i] = m) \/ (i \in 1..Len(t) /\ b[i] = t[i] /\ b[i] # m)
  BY <1>1, <1>2
<1>4. /\ \A i, j \in 1..Len(s) : s[i] = s[j] => i = j
      /\ \A p, q \in 1..Len(t) : t[p] = t[q] => p = q
      /\ \A i, j \in 1..Len(s), p, q \in 1..Len(t) : s[i] = t[p] /\ s[j] = t[q] /\ i < j => p < q
  BY DEF InOrder
<1>5. \A p, q \in 1..Len(b) : b[p] = b[q] => p = q
  BY <1>3, <1>4
<1>6. \A i, j \in 1..Len(a) : a[i] = a[j] => i = j
  BY <1>3, <1>4
<1>7. InOrder(s, b)
  <2>2. ASSUME NEW i \in 1..Len(s), NEW j \in 1..Len(s), NEW p \in 1..Len(b), NEW q \in 1..Len(b),
               s[i] = b[p], s[j] = b[q], i < j
        PROVE  p < q
    <3>1. p \in 1..Len(t) /\ b[p] = t[p] /\ q \in 1..Len(t) /\ b[q] = t[q]
      BY <1>1, <1>3, <2>2
    <3> QED
      BY <1>4, <2>2, <3>1
  <2> QED
    BY <1>4, <1>5, <2>2 DEF InOrder
<1>8. InOrder(a, b)
  <2>2. ASSUME NEW i \in 1..Len(a), NEW j \in 1..Len(a), NEW p \in 1..Len(b), NEW q \in 1..Len(b),
               a[i] = b[p], a[j] = b[q], i < j
        PROVE  p < q
    <3>1. i \in 1..Len(s) /\ a[i] = s[i] /\ p \in 1..Len(t) /\ b[p] = t[p]
      BY <1>1, <1>2, <1>3, <2>2
    <3>2. CASE j = Len(s) + 1
      <4>1. q = Len(t) + 1
        BY <1>1, <1>2, <1>3, <2>2, <3>2
      <4> QED
        BY <1>1, <3>1, <4>1
    <3>3. CASE j # Len(s) + 1
      <4>1. j \in 1..Len(s) /\ a[j] = s[j] /\ q \in 1..Len(t) /\ b[q] = t[q]
        BY <1>1, <1>2, <1>3, <2>2, <3>3
      <4> QED
        <5>1. s[i] = t[p] /\ s[j] = t[q]
          BY <2>2, <3>1, <4>1
        <5>2. i \in 1..Len(s) /\ j \in 1..Len(s) /\ p \in 1..Len(t) /\ q \in 1..Len(t) /\ i < j
          BY <2>2, <3>1, <4>1
        <5> QED
          BY ONLY <1>4, <5>1, <5>2
    <3> QED
      BY <3>2, <3>3
  <2> QED
    BY <1>5, <1>6, <2>2 DEF InOrder
<1> QED
  BY <1>7, <1>8 DEF a, b

\* The first of the elements that wait is left out.
LEMMA OrderSkipped ==
  ASSUME NEW S, NEW s \in Seq(S), NEW t \in Seq(S), NEW w \in Seq(S), w # <<>>,
         InOrder(s, t \o w)
  PROVE  InOrder(s, t \o Tail(w))
<1> DEFINE a == t \o w
           b == t \o Tail(w)
           From(p) == IF p <= Len(t) THEN p ELSE p + 1
<1>1. /\ Tail(w) \in Seq(S) /\ Len(w) \in Nat \ {0} /\ Len(t) \in Nat /\ Len(s) \in Nat
      /\ Len(Tail(w)) = Len(w) - 1 /\ \A p \in 1..Len(w) - 1 : Tail(w)[p] = w[p + 1]
  BY HeadTailProperties
<1>2. /\ Len(a) = Len(t) + Len(w)
      /\ \A p \in 1..Len(t) + Len(w) : a[p] = IF p <= Len(t) THEN t[p] ELSE w[p - Len(t)]
      /\ Len(b) = Len(t) + Len(w) - 1
      /\ \A p \in 1..Len(t) + Len(w) - 1 : b[p] = IF p <= Len(t) THEN t[p] ELSE Tail(w)[p - Len(t)]
  BY <1>1, ConcatProperties
<1> HIDE DEF a, b
<1>3. \A p \in 1..Len(b) : From(p) \in 1..Len(a) /\ b[p] = a[From(p)]
  <2> SUFFICES ASSUME NEW p \in 1..Len(b) PROVE From(p) \in 1..Len(a) /\ b[p] = a[From(p)]
    OBVIOUS
  <2>1. CASE p <= Len(t)
    <3>1. p \in 1..Len(t) + Len(w) /\ p \in 1..Len(t) + Len(w) - 1
      BY <1>1, <1>2
    <3>2. b[p] = t[p] /\ a[p] = t[p]
      BY <1>2, <2>1, <3>1
    <3> QED
      BY <1>2, <2>1, <3>1, <3>2
  <2>2. CASE ~(p <= Len(t))
    <3>1. p \in Nat /\ p <= Len(t) + Len(w) - 1 /\ p > Len(t)
      BY <1>1, <1>2, <2>2
    <3>2. p - Len(t) \in 1..Len(w) - 1 /\ (p + 1) - Len(t) = (p - Len(t)) + 1
      BY <1>1, <3>1
    <3>3. b[p] = w[(p - Len(t)) + 1]
      BY <1>1, <1>2, <2>2, <3>2
    <3>4. p + 1 \in 1..Len(t) + Len(w) /\ ~(p + 1 <= Len(t))
      BY <1>1, <3>1
    <3>5. a[p + 1] = w[(p + 1) - Len(t)]
      BY <1>2, <3>4
    <3> QED
      BY <1>2, <2>2, <3>2, <3>3, <3>4, <3>5
  <2> QED
    BY <2>1, <2>2
<1>4. \A p, q \in 1..Len(b) : /\ From(p) = From(q) => p = q
                              /\ From(p) < From(q) => p < q
  BY <1>1, <1>2
<1> HIDE DEF From
<1>5. InOrder(s, a)
  BY DEF a
<1>6. InOrder(s, b)
  <2>1. /\ \A i, j \in 1..Len(s) : s[i] = s[j] => i = j
        /\ \A p, q \in 1..Len(a) : a[p] = a[q] => p = q
        /\ \A i, j \in 1..Len(s), p, q \in 1..Len(a) : s[i] = a[p] /\ s[j] = a[q] /\ i < j => p < q
    BY <1>5 DEF InOrder
  <2>2. \A p, q \in 1..Len(b) : b[p] = b[q] => p = q
    BY <1>3, <1>4, <2>1
  <2>3. \A i, j \in 1..Len(s), p, q \in 1..Len(b) : s[i] = b[p] /\ s[j] = b[q] /\ i < j => p < q
    <3> SUFFICES ASSUME NEW i \in 1..Len(s), NEW j \in 1..Len(s), NEW p \in 1..Len(b),
                        NEW q \in 1..Len(b), s[i] = b[p], s[j] = b[q], i < j
                 PROVE  p < q
      OBVIOUS
    <3>1. /\ From(p) \in 1..Len(a) /\ s[i] = a[From(p)]
          /\ From(q) \in 1..Len(a) /\ s[j] = a[From(q)]
      BY <1>3
    <3>2. From(p) < From(q)
      BY ONLY <2>1, <3>1, i \in 1..Len(s), j \in 1..Len(s), i < j
    <3> QED
      BY <1>4, <3>2
  <2> QED
    BY <2>1, <2>2, <2>3 DEF InOrder
<1> QED
  BY <1>6 DEF b

\* The parts of a sequence join another one as the sequence does.
Glue(s, t) == s \o t

LEMMA Joined ==
  \A S : \A s, u, v \in Seq(S) : Glue(Glue(s, u), v) = Glue(s, Glue(u, v))
BY ConcatAssociative DEF Glue

LEMMA Regroup ==
  ASSUME NEW S, NEW s \in Seq(S), NEW t \in Seq(S)
  PROVE  /\ \A m \in S : s \o Append(t, m) = Append(s \o t, m)
         /\ t # <<>> => Append(s, Head(t)) \o Tail(t) = s \o t
         /\ \A n \in 0..Len(t) :
              (s \o SubSeq(t, 1, n)) \o SubSeq(t, n + 1, Len(t)) = s \o t
<1>1. ASSUME NEW m \in S PROVE s \o Append(t, m) = Append(s \o t, m)
  <2>1. <<m>> \in Seq(S) /\ s \o t \in Seq(S)
    BY ConcatProperties
  <2>2. Append(t, m) = t \o <<m>> /\ Append(s \o t, m) = (s \o t) \o <<m>>
    BY <2>1, AppendIsConcat
  <2> QED
    BY <2>1, <2>2, ConcatAssociative
<1>2. ASSUME NEW n \in 0..Len(t)
      PROVE  (s \o SubSeq(t, 1, n)) \o SubSeq(t, n + 1, Len(t)) = s \o t
  <2> DEFINE u == SubSeq(t, 1, n)
             v == SubSeq(t, n + 1, Len(t))
  <2>1. Len(t) \in Nat /\ \A i \in 1..Len(t) : t[i] \in S
    BY LenProperties, ElementOfSeq
  <2>2. u \in Seq(S) /\ v \in Seq(S)
    BY <2>1, SubSeqProperties
  <2>3. u \o v = t
    <3>1. 1 \in 1..Len(t) + 1 /\ n \in 1 - 1..Len(t) /\ Len(t) \in n..Len(t)
      BY <2>1
    <3>2. SubSeq(t, 1, n) \o SubSeq(t, n + 1, Len(t)) = SubSeq(t, 1, Len(t))
      BY <3>1, ConcatAdjacentSubSeq
    <3> QED
      BY <3>2, SubSeqFull
  <2> HIDE DEF u, v
  <2>4. (s \o u) \o v = s \o t
    <3>1. Glue(Glue(s, u), v) = Glue(s, Glue(u, v))
      BY <2>2, Joined
    <3>2. Glue(u, v) = t
      BY <2>3 DEF Glue
    <3>3. Glue(Glue(s, u), v) = Glue(s, t)
      BY <3>1, <3>2
    <3> QED
      BY <3>3, Zenon DEF Glue
  <2> QED
    BY <2>4 DEF u, v
<1>3. ASSUME t # <<>> PROVE Append(s, Head(t)) \o Tail(t) = s \o t
  <2>1. Head(t) \in S /\ Tail(t) \in Seq(S) /\ Len(t) \in Nat \ {0}
    BY <1>3, HeadTailProperties
  <2>2. <<Head(t)>> \in Seq(S) /\ Append(s, Head(t)) = s \o <<Head(t)>>
    BY <2>1, AppendIsConcat
  <2>3. <<Head(t)>> \o Tail(t) = t
    BY <1>3, <2>1, SubSeqRecursiveFirst, SubSeqFull, TailIsSubSeq
  <2> QED
    BY <2>1, <2>2, <2>3, ConcatAssociative
<1> QED
  BY <1>1, <1>2, <1>3

LEMMA OrderStep ==
  ASSUME TypeOK, OrderInv, [Next]_vars
  PROVE  OrderInv'
<1>0. /\ buffer \in Seq(sent) /\ shown \in Seq(sent) /\ wire \in Seq(sent)
      /\ appended \in Seq(sent)
  BY DEF TypeOK
<1>1. shown \o buffer \in Seq(sent) /\ appended \o wire \in Seq(sent)
  BY <1>0, ConcatProperties
<1>2. ASSUME NEW m \in Messages, Send(m) PROVE OrderInv'
  <2>1. /\ m \notin sent /\ shown' = shown /\ appended' = appended
        /\ wire' = Append(wire, m) /\ buffer' \in {buffer, Append(buffer, m)}
    BY <1>2 DEF Send, history
  <2> DEFINE S == sent \cup {m}
  <2>2. /\ buffer \in Seq(S) /\ shown \in Seq(S) /\ wire \in Seq(S) /\ appended \in Seq(S)
        /\ m \in S
    BY <1>0
  <2>3. /\ shown \o Append(buffer, m) = Append(shown \o buffer, m)
        /\ appended \o Append(wire, m) = Append(appended \o wire, m)
    BY <2>2, Regroup
  <2>4. /\ InOrder(shown \o buffer, Append(appended \o wire, m))
        /\ InOrder(Append(shown \o buffer, m), Append(appended \o wire, m))
    BY <1>1, <2>1, OrderAppended DEF OrderInv
  <2> QED
    BY <2>1, <2>3, <2>4 DEF OrderInv
<1>3. ASSUME FlushRoom PROVE OrderInv'
  <2> DEFINE n == Least(MaxBatch, Len(buffer))
  <2>1. n \in 0..Len(buffer)
    BY <1>0, ChatPipelineAssumption DEF Least
  <2>2. /\ shown' = shown \o SubSeq(buffer, 1, n) /\ buffer' = SubSeq(buffer, n + 1, Len(buffer))
        /\ appended' = appended /\ wire' = wire
    BY <1>3 DEF FlushRoom, Splice, history
  <2> HIDE DEF n
  <2>3. shown' \o buffer' = shown \o buffer
    BY <1>0, <2>1, <2>2, Regroup
  <2> QED
    BY <2>2, <2>3 DEF OrderInv
<1>4. ASSUME EnqueueChat PROVE OrderInv'
  <2>1. /\ wire # <<>> /\ wire' = Tail(wire) /\ appended' = Append(appended, Head(wire))
        /\ shown' = shown /\ buffer' = buffer
    BY <1>4 DEF EnqueueChat
  <2>2. appended' \o wire' = appended \o wire
    BY <1>0, <2>1, Regroup
  <2> QED
    BY <2>1, <2>2 DEF OrderInv
<1>5. ASSUME EnqueueFails PROVE OrderInv'
  <2>1. /\ wire # <<>> /\ wire' = Tail(wire) /\ appended' = appended
        /\ shown' = shown /\ buffer' = buffer
    BY <1>5 DEF EnqueueFails
  <2> QED
    BY <1>0, <1>1, <2>1, OrderSkipped DEF OrderInv
<1>6. ASSUME UNCHANGED <<room, appended>> PROVE OrderInv'
  BY <1>6 DEF room, OrderInv
<1>7. ASSUME NEW m \in Messages, GrowsIdle(m) \/ DeleteMessage(m) PROVE OrderInv'
  BY <1>6, <1>7 DEF GrowsIdle, DeleteMessage, history
<1>8. ASSUME NEW w \in Workers,
             Work(w) \/ AckFails(w) \/ ReadLost(w) \/ Crash(w)
      PROVE  OrderInv'
  BY <1>6, <1>8 DEF Work, Read, Claim, SaveChats, SaveChatOne, DeadLetter, Ack, AckFails,
                    ReadLost, Crash, history
<1>9. ASSUME UNCHANGED vars PROVE OrderInv'
  BY <1>6, <1>9 DEF vars, history
<1> QED
  BY <1>2, <1>3, <1>4, <1>5, <1>7, <1>8, <1>9 DEF Next

LEMMA Ordered == Spec => []OrderInv
<1>1. Init => OrderInv
  <2> SUFFICES ASSUME Init PROVE OrderInv
    OBVIOUS
  <2>1. shown \o buffer = <<>> /\ appended \o wire = <<>>
    BY DEF Init
  <2> QED
    BY <2>1 DEF OrderInv, InOrder
<1>2. TypeOK /\ OrderInv /\ [Next]_vars => OrderInv'
  BY OrderStep
<1> QED
  BY <1>1, <1>2, TypeCorrect, PTL DEF Spec

\* Messages that were shown and entered the stream did both in one order, however
\* flushes, full buffers and failing XADDs interleave.
THEOREM Orders == Spec => []ShownInOrder
<1>1. TypeOK /\ OrderInv => ShownInOrder
  <2> DEFINE At(s, m) == CHOOSE k \in DOMAIN s : s[k] = m
  <2> SUFFICES ASSUME TypeOK, OrderInv,
                      NEW a \in Elements(shown) \cap Elements(appended),
                      NEW b \in Elements(shown) \cap Elements(appended),
                      At(shown, a) < At(shown, b)
               PROVE  At(appended, a) < At(appended, b)
    BY DEF ShownInOrder
  <2>1. /\ DOMAIN shown = 1..Len(shown) /\ DOMAIN appended = 1..Len(appended)
        /\ Len(shown) \in Nat /\ Len(buffer) \in Nat
        /\ Len(appended) \in Nat /\ Len(wire) \in Nat
    BY DEF TypeOK
  <2>2. ASSUME NEW m \in Elements(shown) \cap Elements(appended)
        PROVE  /\ At(shown, m) \in 1..Len(shown) /\ shown[At(shown, m)] = m
               /\ At(appended, m) \in 1..Len(appended) /\ appended[At(appended, m)] = m
    BY <2>1 DEF Elements
  <2> HIDE DEF At
  <2> DEFINE s == shown \o buffer
             t == appended \o wire
  <2>3. /\ Len(s) = Len(shown) + Len(buffer) /\ \A i \in 1..Len(shown) : s[i] = shown[i]
        /\ Len(t) = Len(appended) + Len(wire) /\ \A i \in 1..Len(appended) : t[i] = appended[i]
    <3>1. /\ buffer \in Seq(sent) /\ shown \in Seq(sent) /\ wire \in Seq(sent)
          /\ appended \in Seq(sent)
      BY DEF TypeOK
    <3> QED
      BY <2>1, <3>1, ConcatProperties
  <2>4. InOrder(s, t)
    BY DEF OrderInv
  <2> HIDE DEF s, t
  <2>5. /\ At(shown, a) \in 1..Len(s) /\ s[At(shown, a)] = a
        /\ At(shown, b) \in 1..Len(s) /\ s[At(shown, b)] = b
        /\ At(appended, a) \in 1..Len(t) /\ t[At(appended, a)] = a
        /\ At(appended, b) \in 1..Len(t) /\ t[At(appended, b)] = b
    BY <2>1, <2>2, <2>3
  <2> QED
    BY <2>4, <2>5 DEF InOrder
<1> QED
  BY <1>1, TypeCorrect, Ordered, PTL

-----------------------------------------------------------------------------
(* The pipeline is a store that keeps what it accepts                        *)

\* At which steps a worker has no entry in hand, and at which no rest of a batch.
RestInv ==
  \A w \in Workers : /\ worker[w].pc \in {"read", "save", "ack"} => worker[w].rest = {}
                     /\ worker[w].pc \in {"read", "one"} => worker[w].todo = {}

\* A worker that reads has put everything out of its hands.
LEMMA RestStep ==
  ASSUME TypeOK, RestInv, [Next]_vars
  PROVE  RestInv'
<1> USE DEF RestInv, Ready
<1>0. WorkerOK
  BY DEF TypeOK, WorkerOK
<1>1. CASE UNCHANGED worker
  BY <1>1
<1>2. ASSUME NEW m \in Messages, Send(m) \/ GrowsIdle(m) \/ DeleteMessage(m) PROVE RestInv'
  BY <1>1, <1>2 DEF Send, GrowsIdle, DeleteMessage
<1>3. ASSUME FlushRoom \/ EnqueueChat \/ EnqueueFails PROVE RestInv'
  BY <1>1, <1>3 DEF FlushRoom, EnqueueChat, EnqueueFails
<1>4. ASSUME NEW w \in Workers, Read(w) \/ Claim(w) \/ ReadLost(w) \/ Crash(w) PROVE RestInv'
  BY <1>4, <1>0 DEF Read, Claim, ReadLost, Crash, Hold, WorkerOK
<1>5. ASSUME NEW w \in Workers, SaveChats(w) \/ DeadLetter(w) \/ Ack(w) \/ AckFails(w)
      PROVE  RestInv'
  BY <1>5, <1>0 DEF SaveChats, DeadLetter, Ack, AckFails, GoOn, Hold, WorkerOK
<1>6. ASSUME NEW w \in Workers, NEW m \in Messages, SaveChatOne(w, m) PROVE RestInv'
  BY <1>6, <1>0 DEF SaveChatOne, Hold, WorkerOK
<1>7. CASE UNCHANGED vars
  BY <1>1, <1>7 DEF vars
<1> QED
  BY <1>2, <1>3, <1>4, <1>5, <1>6, <1>7 DEF Next, Work

\* What a worker has in hand.
Hand(w) == worker[w].todo \cup worker[w].rest

\* A step puts nothing new on the way when the wire, the unfinished entries of the
\* stream and the workers' hands hold only what was on the way before it.
LEMMA KeptGrowsNot ==
  ASSUME UNCHANGED sent,
         Elements(wire') \subseteq Kept,
         \A m \in sent : m \in Elements(stream') /\ Unfinished(m)' => m \in Kept,
         \A w \in Workers : Hand(w)' \subseteq Kept
  PROVE  Kept' \subseteq Kept
BY DEF Kept, InHand, Hand

\* What leaves the way is stored, buried or lost.
LEMMA LeavesWithAnEnd ==
  ASSUME TypeOK, HandInv, KeptInv, [Next]_vars, UNCHANGED sent
  PROVE  Kept \ Kept' \subseteq stored' \cup dead' \cup lost'
<1>1. TypeOK' /\ KeptInv'
  BY TypeStep, KeptStep
<1>2. \A m \in sent : \/ m \in stored' \cup dead' \cup lost'
                      \/ m \in Elements(wire')
                      \/ m \in Elements(stream') /\ Unfinished(m)'
  BY <1>1 DEF KeptInv, Placed, Unfinished, TypeOK
<1> QED
  BY <1>2 DEF Kept

\* A step that stores and buries nothing, and puts nothing new on the way.
LEMMA LettingGo ==
  ASSUME TypeOK, HandInv, KeptInv, [Next]_vars,
         UNCHANGED <<sent, table, stored, dead, unsure>>,
         NEW ms \in SUBSET Kept, lost' = lost \cup ms, Kept' \subseteq Kept
  PROVE  Store!Next
<1>1. Kept \ Kept' \subseteq stored \cup dead \cup lost'
  BY LeavesWithAnEnd
<1>2. Kept' = Kept \ (Kept \ Kept')
  OBVIOUS
<1>3. Store!LetGo(ms)
  BY <1>1, <1>2 DEF Store!LetGo
<1> QED
  BY <1>3 DEF Store!Next

\* Nothing that is on its way is touched.
LEMMA KeptSame ==
  ASSUME UNCHANGED <<sent, wire, stream, delivered, pending>>,
         \A w \in Workers : Hand(w)' = Hand(w)
  PROVE  Kept' = Kept
BY DEF Kept, InHand, Hand, Unfinished, Elements

\* The process and the moderators.
LEMMA RoomImplements ==
  ASSUME TypeOK, HandInv, KeptInv, [Next]_vars,
         \/ \E m \in Messages : Send(m) \/ GrowsIdle(m) \/ DeleteMessage(m)
         \/ FlushRoom \/ EnqueueChat \/ EnqueueFails
  PROVE  [Store!Next]_Store!vars
<1> USE DEF room, group, history
<1>1. ASSUME NEW m \in Messages, Send(m) PROVE Store!Next
  <2>1. Elements(wire') = Elements(wire) \cup {m}
    BY <1>1, ElementsOfAppend DEF Send, TypeOK
  <2>2. Kept' = Kept \cup {m}
    <3>1. UNCHANGED <<stream, delivered, pending, worker>> /\ sent' = sent \cup {m}
      BY <1>1 DEF Send
    <3>2. Elements(stream) \subseteq sent /\ \A w \in Workers : worker[w].todo \cup worker[w].rest \subseteq sent
      BY DEF TypeOK, Elements
    <3> QED
      BY <2>1, <3>1, <3>2 DEF Kept, InHand, Unfinished, Elements
  <2>3. Store!Accept(m)
    BY <1>1, <2>2 DEF Send, Store!Accept
  <2> QED
    BY <2>3 DEF Store!Next
<1>2. ASSUME UNCHANGED <<sent, wire, stream, delivered, pending, worker>>
      PROVE  Kept' = Kept
  BY <1>2, KeptSame DEF Hand
<1>3. ASSUME NEW m \in Messages, DeleteMessage(m) PROVE Store!Next
  <2>1. Store!Delete(m)
    BY <1>2, <1>3 DEF DeleteMessage, Store!Delete
  <2> QED
    BY <2>1 DEF Store!Next
<1>4. ASSUME NEW m \in Messages, GrowsIdle(m) PROVE UNCHANGED Store!vars
  BY <1>2, <1>4 DEF GrowsIdle, Store!vars
<1>5. CASE FlushRoom
  BY <1>2, <1>5 DEF FlushRoom, Store!vars
<1>6. CASE EnqueueFails
  <2>1. Elements(wire) = {Head(wire)} \cup Elements(wire') /\ Head(wire) \in sent
    BY <1>6, ElementsOfTail DEF EnqueueFails, TypeOK
  <2>2. UNCHANGED <<sent, stream, delivered, pending, worker>>
        /\ UNCHANGED <<table, stored, dead, unsure>> /\ lost' = lost \cup {Head(wire)}
    BY <1>6 DEF EnqueueFails
  <2>3. Kept' \subseteq Kept /\ {Head(wire)} \in SUBSET Kept
    BY <2>1, <2>2 DEF Kept, InHand, Unfinished, Elements
  <2> QED
    BY <2>2, <2>3, LettingGo
<1>7. CASE EnqueueChat
  <2>1. PICK cut \in 0..Len(stream) :
          /\ stream' = Append(SubSeq(stream, cut + 1, Len(stream)), Head(wire))
          /\ lost' = lost \cup {m \in Elements(SubSeq(stream, 1, cut)) : Unfinished(m)}
    BY <1>7 DEF EnqueueChat
  <2> DEFINE old == SubSeq(stream, 1, cut)
             new == SubSeq(stream, cut + 1, Len(stream))
             ms == {m \in Elements(old) : Unfinished(m)}
  <2>2. Elements(wire) = {Head(wire)} \cup Elements(wire')
    BY <1>7, ElementsOfTail DEF EnqueueChat, TypeOK
  <2>3. Elements(stream) = Elements(old) \cup Elements(new)
    BY ElementsOfCut DEF TypeOK
  <2>0. Elements(wire) \subseteq sent /\ Elements(stream) \subseteq sent
    BY DEF TypeOK, Elements
  <2>4. Elements(stream') = Elements(new) \cup {Head(wire)}
    <3>1. new \in Seq(sent)
      BY SubSeqProperties DEF TypeOK
    <3> QED
      BY <2>1, <3>1, ElementsOfAppend
  <2> HIDE DEF old, new
  <2>5. UNCHANGED <<sent, delivered, pending, worker>> /\ UNCHANGED <<table, stored, dead, unsure>>
    BY <1>7 DEF EnqueueChat
  <2>6. Kept' \subseteq Kept
    BY <2>0, <2>2, <2>3, <2>4, <2>5 DEF Kept, InHand, Unfinished
  <2>7. ms \in SUBSET Kept /\ lost' = lost \cup ms
    BY <2>0, <2>1, <2>3 DEF Kept, old
  <2> HIDE DEF ms
  <2> QED
    BY <2>5, <2>6, <2>7, LettingGo
<1> QED
  BY <1>1, <1>3, <1>4, <1>5, <1>6, <1>7

\* A worker that goes to another step with the same in hand.
LEMMA SameHands ==
  ASSUME WorkerOK, NEW w \in Workers, NEW pc, NEW todo, NEW rest,
         Hold(w, pc, todo, rest), todo \cup rest = Hand(w)
  PROVE  \A v \in Workers : Hand(v)' = Hand(v)
BY DEF WorkerOK, Hold, Hand

\* A worker that puts entries out of its hands and takes none.
LEMMA LighterHands ==
  ASSUME WorkerOK, NEW w \in Workers, NEW pc, NEW todo, NEW rest,
         \/ Hold(w, pc, todo, rest) /\ todo \cup rest \subseteq Hand(w)
         \/ worker' = [worker EXCEPT ![w] = Ready]
  PROVE  \A v \in Workers : Hand(v)' \subseteq Hand(v)
BY DEF WorkerOK, Hold, Hand, Ready

\* What is in a worker's hand is on its way.
LEMMA HandsAreKept ==
  ASSUME TypeOK
  PROVE  \A w \in Workers : Hand(w) \subseteq Kept
BY DEF TypeOK, Kept, InHand, Hand

\* A worker that saves, whatever the table answers.
LEMMA SavingImplements ==
  ASSUME TypeOK, RestInv, NEW w \in Workers,
         SaveChats(w) \/ \E m \in Messages : SaveChatOne(w, m)
  PROVE  Store!Next
<1> USE DEF room, group, Accepts, Insert
<1>0. WorkerOK
  BY DEF TypeOK, WorkerOK
<1>1. UNCHANGED <<sent, wire, stream, delivered, pending>> /\ UNCHANGED <<dead, lost>>
  BY DEF SaveChats, SaveChatOne
<1>2. Hand(w) \subseteq Kept
  BY HandsAreKept
<1>3. ASSUME NEW ms \in SUBSET Kept, ms \cap Refused = {},
             table' = table \cup ms, stored' = stored \cup ms,
             NEW ns \in SUBSET Kept, unsure' = unsure \cup ns, Kept' = Kept
      PROVE  Store!Next
  <2>1. Store!Save(ms)
    BY <1>1, <1>3 DEF Store!Save
  <2> QED
    BY <2>1 DEF Store!Next
<1>4. CASE SaveChats(w)
  <2>1. \/ Hold(w, "ack", worker[w].todo, {}) \/ Hold(w, "one", {}, worker[w].todo)
    BY <1>4 DEF SaveChats
  <2>2. Hand(w) = worker[w].todo
    BY <1>4 DEF SaveChats, RestInv, Hand
  <2>3. Kept' = Kept
    BY <1>0, <1>1, <2>1, <2>2, SameHands, KeptSame
  <2>4. unsure' = unsure \cup {}
    BY <1>4 DEF SaveChats
  <2>5. CASE UNCHANGED <<table, stored>>
    <3>1. PICK none \in SUBSET Kept : none = {}
      OBVIOUS
    <3>2. /\ none \cap Refused = {} /\ table' = table \cup none
          /\ stored' = stored \cup none
      BY <2>5, <3>1
    <3> QED
      BY ONLY <1>3, <2>3, <2>4, <3>1, <3>2
  <2>6. CASE Insert(worker[w].todo)
    <3>1. /\ worker[w].todo \in SUBSET Kept /\ worker[w].todo \cap Refused = {}
          /\ table' = table \cup worker[w].todo /\ stored' = stored \cup worker[w].todo
      BY <1>2, <2>2, <2>6
    <3> QED
      BY ONLY <1>3, <2>3, <2>4, <3>1
  <2> QED
    BY <1>4, <2>5, <2>6 DEF SaveChats
<1>5. ASSUME NEW m \in Messages, SaveChatOne(w, m) PROVE Store!Next
  <2>1. PICK pc \in {"ack_one", "bury"} : Hold(w, pc, {m}, worker[w].rest \ {m})
    BY <1>5 DEF SaveChatOne
  <2>2. Hand(w) = {m} \cup (worker[w].rest \ {m})
    BY <1>5 DEF SaveChatOne, RestInv, Hand
  <2>3. Kept' = Kept
    BY <1>0, <1>1, <2>1, <2>2, SameHands, KeptSame
  <2>4. {m} \in SUBSET Kept
    BY <1>2, <2>2
  <2>5. PICK ns \in {{}, {m}} : unsure' = unsure \cup ns
    BY <1>5 DEF SaveChatOne
  <2>6. CASE UNCHANGED <<table, stored>>
    <3>1. PICK none \in SUBSET Kept : none = {}
      OBVIOUS
    <3>2. /\ none \cap Refused = {} /\ table' = table \cup none
          /\ stored' = stored \cup none
      BY <2>6, <3>1
    <3>3. ns \in SUBSET Kept
      BY <2>4
    <3> QED
      BY ONLY <1>3, <2>3, <2>5, <3>1, <3>2, <3>3
  <2>7. CASE Insert({m})
    <3>1. {m} \cap Refused = {} /\ table' = table \cup {m} /\ stored' = stored \cup {m}
      BY <2>7
    <3>2. ns \in SUBSET Kept
      BY <2>4
    <3> QED
      BY ONLY <1>3, <2>3, <2>4, <2>5, <3>1, <3>2
  <2> QED
    BY <1>5, <2>6, <2>7 DEF SaveChatOne
<1> QED
  BY <1>4, <1>5

\* A worker that writes to the dead-letter stream, or fails to.
LEMMA BurialImplements ==
  ASSUME TypeOK, HandInv, KeptInv, [Next]_vars, NEW w \in Workers, DeadLetter(w)
  PROVE  Store!Next
<1> USE DEF room, group
<1>1. WorkerOK /\ Hold(w, "ack_buried", worker[w].todo, worker[w].rest)
  BY DEF TypeOK, WorkerOK, DeadLetter
<1>2. UNCHANGED <<sent, wire, stream, delivered, pending>>
      /\ UNCHANGED <<table, stored, unsure>>
  BY DEF DeadLetter
<1>3. Kept' = Kept
  <2>1. worker[w].todo \cup worker[w].rest = Hand(w)
    BY DEF Hand
  <2> QED
    BY <1>1, <1>2, <2>1, SameHands, KeptSame
<1>4. worker[w].todo \in SUBSET Kept
  BY HandsAreKept DEF Hand
<1>5. CASE dead' = dead \cup worker[w].todo /\ UNCHANGED lost
  <2>1. worker[w].todo \subseteq Refused \cup unsure
    BY DEF DeadLetter, HandInv
  <2>2. Store!Bury(worker[w].todo)
    BY <1>2, <1>3, <1>5, <2>1 DEF Store!Bury
  <2> QED
    BY <1>4, <2>2 DEF Store!Next
<1>6. CASE lost' = lost \cup worker[w].todo /\ UNCHANGED dead
  BY <1>2, <1>3, <1>4, <1>6, LettingGo
<1> QED
  BY <1>5, <1>6 DEF DeadLetter

\* A worker that takes entries: they were unfinished in the stream.
LEMMA TakingImplements ==
  ASSUME TypeOK, HandInv, KeptInv, [Next]_vars, NEW w \in Workers,
         Read(w) \/ ReadLost(w) \/ Claim(w)
  PROVE  Store!Next
<1> USE DEF room, group, history
<1>0. WorkerOK /\ Elements(stream) \subseteq sent /\ idle \subseteq pending
  BY DEF TypeOK, WorkerOK, Elements
<1>1. /\ UNCHANGED <<sent, wire, stream>>
      /\ UNCHANGED <<table, stored, dead, lost, unsure>>
  BY DEF Read, ReadLost, Claim
<1>2. /\ Elements(wire') \subseteq Kept
      /\ \A v \in Workers : Hand(v) \subseteq Kept
  BY <1>0, <1>1, HandsAreKept DEF TypeOK, Kept, Elements
<1>3. ASSUME NEW batch \in SUBSET Elements(stream),
             \A m \in batch : Unfinished(m),
             UNCHANGED worker \/ Hold(w, "save", batch, {}),
             \A m \in sent : Unfinished(m)' => Unfinished(m)
      PROVE  Store!Next
  <2>1. batch \subseteq Kept
    BY <1>0, <1>3 DEF Kept
  <2>2. \A v \in Workers : Hand(v)' \subseteq Kept
    BY <1>0, <1>2, <1>3, <2>1 DEF Hand, Hold, WorkerOK
  <2>3. \A m \in sent : m \in Elements(stream') /\ Unfinished(m)' => m \in Kept
    BY <1>1, <1>3 DEF Kept, Elements
  <2>4. Kept' \subseteq Kept
    BY <1>1, <1>2, <2>2, <2>3, KeptGrowsNot
  <2>5. PICK none \in SUBSET Kept : none = {}
    OBVIOUS
  <2>6. lost' = lost \cup none
    BY <1>1, <2>5
  <2> QED
    BY <1>1, <2>4, <2>6, LettingGo
<1>4. CASE Read(w) \/ ReadLost(w)
  <2>1. PICK batch \in First(Fresh) :
          HandOut(batch) /\ (UNCHANGED worker \/ Hold(w, "save", batch, {}))
    BY <1>4 DEF Read, ReadLost
  <2>2. batch \in SUBSET Elements(stream) /\ batch \cap delivered = {}
    BY FirstIsPart DEF Fresh
  <2>3. \A m \in batch : Unfinished(m)
    BY <2>2 DEF Unfinished
  <2>4. \A m \in sent : Unfinished(m)' => Unfinished(m)
    BY <2>1, <2>2 DEF HandOut, Pend, Unfinished
  <2> QED
    BY <1>3, <2>1, <2>2, <2>3, <2>4
<1>5. CASE Claim(w)
  <2>1. PICK batch \in First(Claimable) :
          IF batch = {} THEN UNCHANGED worker ELSE Hold(w, "save", batch, {})
    BY <1>5 DEF Claim
  <2>2. batch \in SUBSET Elements(stream) /\ \A m \in batch : Unfinished(m)
    BY <1>0, FirstIsPart DEF Claimable, Unfinished
  <2>3. \A m \in sent : Unfinished(m)' => Unfinished(m)
    BY <1>5 DEF Claim, Unfinished
  <2> QED
    BY <1>3, <2>1, <2>2, <2>3
<1> QED
  BY <1>4, <1>5

\* A worker that acknowledges, and one that stops.
LEMMA LeavingImplements ==
  ASSUME TypeOK, HandInv, KeptInv, RestInv, [Next]_vars, NEW w \in Workers,
         Ack(w) \/ AckFails(w) \/ Crash(w)
  PROVE  Store!Next
<1> USE DEF room, group, history
<1>0. WorkerOK
  BY DEF TypeOK, WorkerOK
<1>1. /\ UNCHANGED <<sent, wire, stream, delivered>>
      /\ UNCHANGED <<table, stored, dead, lost>>
  BY DEF Ack, AckFails, Crash, AtStart
<1>2. \A m \in sent : Unfinished(m)' => Unfinished(m)
  BY <1>1 DEF Ack, AckFails, Crash, Acknowledge, Unfinished
<1>3. Hand(w) \subseteq Kept
  BY HandsAreKept
<1>4. ASSUME \A v \in Workers : Hand(v)' \subseteq Hand(v)
      PROVE  Kept' \subseteq Kept
  <2>1. \A v \in Workers : Hand(v)' \subseteq Kept
    BY <1>4, HandsAreKept
  <2>2. \A m \in sent : m \in Elements(stream') /\ Unfinished(m)' => m \in Kept
    BY <1>1, <1>2 DEF Kept, Elements
  <2>3. Elements(wire') \subseteq Kept
    BY <1>1 DEF TypeOK, Kept, Elements
  <2> QED
    BY <1>1, <2>1, <2>2, <2>3, KeptGrowsNot
<1>5. ASSUME \A v \in Workers : Hand(v)' \subseteq Hand(v), UNCHANGED unsure
      PROVE  Store!Next
  <2>1. PICK none \in SUBSET Kept : none = {}
    OBVIOUS
  <2>2. lost' = lost \cup none
    BY <1>1, <2>1
  <2> QED
    BY <1>1, <1>4, <1>5, <2>2, LettingGo
<1>6. CASE Ack(w)
  <2>1. \/ Hold(w, "one", {}, worker[w].rest)
        \/ worker' = [worker EXCEPT ![w] = Ready]
    BY <1>6 DEF Ack, GoOn
  <2>2. {} \cup worker[w].rest \subseteq Hand(w)
    BY DEF Hand
  <2> QED
    BY <1>0, <1>5, <1>6, <2>1, <2>2, LighterHands DEF Ack
<1>7. CASE Crash(w)
  BY <1>0, <1>5, <1>7, LighterHands DEF Crash
<1>8. CASE AckFails(w)
  <2>1. CASE worker[w].pc = "ack" /\ Hold(w, "one", {}, worker[w].todo) /\ UNCHANGED unsure
    <3>1. {} \cup worker[w].todo \subseteq Hand(w)
      BY DEF Hand
    <3> QED
      BY <1>0, <1>5, <2>1, <3>1, LighterHands
  <2>2. CASE worker' = [worker EXCEPT ![w] = Ready] /\ UNCHANGED unsure
    BY <1>0, <1>5, <2>2, LighterHands
  <2>3. CASE /\ worker[w].pc = "ack_one" /\ Hold(w, "bury", worker[w].todo, worker[w].rest)
             /\ unsure' = unsure \cup worker[w].todo
    <3>1. worker[w].todo \cup worker[w].rest = Hand(w)
      BY DEF Hand
    <3>2. \A v \in Workers : Hand(v)' = Hand(v)
      BY <1>0, <2>3, <3>1, SameHands
    <3>3. \A m \in Messages \cup sent : m \notin Hand(w) => Unfinished(m)' = Unfinished(m)
      BY <1>1, <1>8 DEF AckFails, Acknowledge, Unfinished, Hand
    <3>4. Kept' = Kept
      BY <1>1, <3>2, <3>3 DEF Kept, InHand, Hand, Elements
    <3>5. Store!Save({})
      BY <1>1, <1>3, <2>3, <3>1, <3>4 DEF Store!Save
    <3> QED
      BY <3>5 DEF Store!Next
  <2> QED
    BY <1>8, <2>1, <2>2, <2>3 DEF AckFails
<1> QED
  BY <1>6, <1>7, <1>8

\* Room, stream, workers and table together are the abstract store: every message
\* is kept until it is stored, buried for a cause or known to be lost, and rows
\* are made of messages that are kept, whatever interleaves and fails.
THEOREM Implements == Spec => StoreSpec
<1> DEFINE Inv == TypeOK /\ HandInv /\ KeptInv /\ RestInv
<1>1. Init => Inv /\ Store!Init
  <2> SUFFICES ASSUME Init PROVE Inv /\ Store!Init
    OBVIOUS
  <2>1. TypeOK
    BY ChatPipelineAssumption DEF Init, TypeOK, Ready, Steps
  <2>2. HandInv /\ KeptInv /\ RestInv
    BY DEF Init, HandInv, KeptInv, RestInv, Ready
  <2>3. Kept = {}
    BY DEF Init, Kept
  <2> QED
    BY <2>1, <2>2, <2>3 DEF Init, Store!Init
<1>2. Inv /\ [Next]_vars => Inv'
  BY TypeStep, HandStep, KeptStep, RestStep
<1>3. Inv /\ [Next]_vars => [Store!Next]_Store!vars
  <2> SUFFICES ASSUME Inv, [Next]_vars PROVE [Store!Next]_Store!vars
    OBVIOUS
  <2>1. CASE \/ \E m \in Messages : Send(m) \/ GrowsIdle(m) \/ DeleteMessage(m)
             \/ FlushRoom \/ EnqueueChat \/ EnqueueFails
    BY <2>1, RoomImplements
  <2>2. ASSUME NEW w \in Workers, Work(w) \/ AckFails(w) \/ ReadLost(w) \/ Crash(w)
        PROVE  Store!Next
    BY <2>2, SavingImplements, BurialImplements, TakingImplements, LeavingImplements DEF Work
  <2>3. CASE UNCHANGED vars
    <3>1. Kept' = Kept
      BY <2>3 DEF vars, room, group, Kept, InHand, Unfinished, Elements
    <3> QED
      BY <2>3, <3>1 DEF vars, room, history, Store!vars
  <2> QED
    BY <2>1, <2>2, <2>3 DEF Next
<1> HIDE DEF Inv
<1> QED
  BY <1>1, <1>2, <1>3, PTL DEF Spec, StoreSpec, Store!Spec
=============================================================================
