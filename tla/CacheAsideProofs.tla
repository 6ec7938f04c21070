-------------------------- MODULE CacheAsideProofs --------------------------
(***************************************************************************)
(* CacheAside for any number of processes, versions and crashes: one       *)
(* loader at a time under the lock, one load for an entry that nobody      *)
(* dropped, and no stale value that a delete in flight, a lost delete or   *)
(* an overtaken load does not explain.                                     *)
(***************************************************************************)
EXTENDS CacheAside, TLAPS

\* A flight under the lock holds it, unless its lock ran out.
HolderInv == \A f \in Flights \ overran : Holding(f) => lock = f

\* What a flight is about to write is current unless an update came since.
LoadInv ==
  \A f \in Flights : At(f, "write") /\ ~late[f] => flight[f].val = source

\* A load that counts is in a fresh entry or on its way there.
CountInv ==
  /\ loads <= 1
  /\ \A f \in Flights \ overran : At(f, "load") => loads = 0
  /\ loads # 0 => \/ entry.state = "fresh"
                 \/ \E f \in Flights \ overran : At(f, "write")

IInv == TypeOK /\ HolderInv /\ LoadInv /\ CountInv /\ StaleExplained

\* Types are kept.
LEMMA TypeStep ==
  ASSUME TypeOK, [Next]_vars
  PROVE  TypeOK'
<1> USE CacheAsideAssumption DEF TypeOK, Versions, Entry, Miss, Flights, Kinds, Steps,
          At, Move, Quietly, redis, writers, history
<1>1. ASSUME NEW p \in Procs, Call(p) PROVE TypeOK'
  <2>1. <<p, "cold">> \in Flights /\ <<p, "refresh">> \in Flights
    BY <1>1
  <2>2. PICK f \in Flights, pc \in {"lock", "read"} :
          At(f, "none") /\ Move(f, pc) /\ Quietly /\ (f[2] = "refresh" => pc = "lock")
    <3> HIDE DEF Flights, Move, At, Quietly, Miss
    <3> QED
      BY <1>1, <2>1 DEF Call
  <2> QED
    BY <2>2
<1>2. ASSUME NEW p \in Procs, Crash(p) PROVE TypeOK'
  BY <1>2 DEF Crash
<1>3. ASSUME NEW f \in Flights, SecondRead(f) PROVE TypeOK'
  BY <1>3 DEF SecondRead
<1>4. ASSUME NEW f \in Flights, AcquireLock(f) PROVE TypeOK'
  BY <1>4 DEF AcquireLock, TryLock, LockIsFree, WithoutLock
<1>5. ASSUME NEW f \in Flights, Wait(f) PROVE TypeOK'
  BY <1>5 DEF Wait
<1>6. ASSUME NEW f \in Flights, RescueLock(f) PROVE TypeOK'
  BY <1>6 DEF RescueLock, TryLock, LockIsFree
<1>7. ASSUME NEW f \in Flights, Recheck(f) PROVE TypeOK'
  BY <1>7 DEF Recheck, Good
<1>8. ASSUME NEW f \in Flights, Load(f) PROVE TypeOK'
  BY <1>8 DEF Load
<1>9. ASSUME NEW f \in Flights, Write(f) PROVE TypeOK'
  BY <1>9 DEF Write
<1>10. ASSUME NEW f \in Flights, ReleaseLock(f) PROVE TypeOK'
  BY <1>10 DEF ReleaseLock, Mine
<1>11. ASSUME NEW f \in Flights, RedisFails(f) PROVE TypeOK'
  BY <1>11 DEF RedisFails
<1>12. ASSUME NEW f \in Flights, LoaderFails(f) PROVE TypeOK'
  BY <1>12 DEF LoaderFails
<1>13. ASSUME Update PROVE TypeOK'
  BY <1>13 DEF Update
<1>14. ASSUME DeleteCache PROVE TypeOK'
  BY <1>14 DEF DeleteCache, Dropped
<1>15. ASSUME LoseDelete PROVE TypeOK'
  BY <1>15 DEF LoseDelete
<1>16. ASSUME EntryAges PROVE TypeOK'
  BY <1>16 DEF EntryAges
<1>17. ASSUME EntryExpires PROVE TypeOK'
  BY <1>17 DEF EntryExpires
<1>18. ASSUME LockExpires PROVE TypeOK'
  BY <1>18 DEF LockExpires
<1>19. ASSUME UNCHANGED vars PROVE TypeOK'
  BY <1>19 DEF vars
<1> QED
  BY <1>1, <1>2, <1>3, <1>4, <1>5, <1>6, <1>7, <1>8, <1>9, <1>10,
     <1>11, <1>12, <1>13, <1>14, <1>15, <1>16, <1>17, <1>18, <1>19
  DEF Next, Continue

\* Only the flight that the lock names works under it, but for overruns.
LEMMA HolderStep ==
  ASSUME TypeOK, HolderInv, [Next]_vars
  PROVE  HolderInv'
<1> USE CacheAsideAssumption DEF TypeOK, Versions, Entry, Miss, Flights, Kinds, Steps,
          HolderInv, Holding, At, Move, Quietly, redis, writers, history
<1>1. ASSUME NEW p \in Procs, Call(p) PROVE HolderInv'
  <2>1. <<p, "cold">> \in Flights /\ <<p, "refresh">> \in Flights
    BY <1>1
  <2>2. PICK f \in Flights, pc \in {"lock", "read"} :
          At(f, "none") /\ Move(f, pc) /\ Quietly /\ (f[2] = "refresh" => pc = "lock")
    <3> HIDE DEF Flights, Move, At, Quietly, Miss
    <3> QED
      BY <1>1, <2>1 DEF Call
  <2> QED
    BY <2>2
<1>2. ASSUME NEW p \in Procs, Crash(p) PROVE HolderInv'
  BY <1>2 DEF Crash
<1>3. ASSUME NEW f \in Flights, SecondRead(f) PROVE HolderInv'
  BY <1>3 DEF SecondRead
<1>4. ASSUME NEW f \in Flights, AcquireLock(f) PROVE HolderInv'
  BY <1>4 DEF AcquireLock, TryLock, LockIsFree, WithoutLock
<1>5. ASSUME NEW f \in Flights, Wait(f) PROVE HolderInv'
  BY <1>5 DEF Wait
<1>6. ASSUME NEW f \in Flights, RescueLock(f) PROVE HolderInv'
  BY <1>6 DEF RescueLock, TryLock, LockIsFree
<1>7. ASSUME NEW f \in Flights, Recheck(f) PROVE HolderInv'
  BY <1>7 DEF Recheck, Good
<1>8. ASSUME NEW f \in Flights, Load(f) PROVE HolderInv'
  BY <1>8 DEF Load
<1>9. ASSUME NEW f \in Flights, Write(f) PROVE HolderInv'
  BY <1>9 DEF Write
<1>10. ASSUME NEW f \in Flights, ReleaseLock(f) PROVE HolderInv'
  BY <1>10 DEF ReleaseLock, Mine
<1>11. ASSUME NEW f \in Flights, RedisFails(f) PROVE HolderInv'
  BY <1>11 DEF RedisFails
<1>12. ASSUME NEW f \in Flights, LoaderFails(f) PROVE HolderInv'
  BY <1>12 DEF LoaderFails
<1>13. ASSUME Update PROVE HolderInv'
  BY <1>13 DEF Update
<1>14. ASSUME DeleteCache PROVE HolderInv'
  BY <1>14 DEF DeleteCache, Dropped
<1>15. ASSUME LoseDelete PROVE HolderInv'
  BY <1>15 DEF LoseDelete
<1>16. ASSUME EntryAges PROVE HolderInv'
  BY <1>16 DEF EntryAges
<1>17. ASSUME EntryExpires PROVE HolderInv'
  BY <1>17 DEF EntryExpires
<1>18. ASSUME LockExpires PROVE HolderInv'
  BY <1>18 DEF LockExpires
<1>19. ASSUME UNCHANGED vars PROVE HolderInv'
  BY <1>19 DEF vars
<1> QED
  BY <1>1, <1>2, <1>3, <1>4, <1>5, <1>6, <1>7, <1>8, <1>9, <1>10,
     <1>11, <1>12, <1>13, <1>14, <1>15, <1>16, <1>17, <1>18, <1>19
  DEF Next, Continue

\* An update marks every flight's value as late.
LEMMA LoadStep ==
  ASSUME TypeOK, LoadInv, [Next]_vars
  PROVE  LoadInv'
<1> USE CacheAsideAssumption DEF TypeOK, Versions, Entry, Miss, Flights, Kinds, Steps,
          LoadInv, At, Move, Quietly, redis, writers, history
<1>1. ASSUME NEW p \in Procs, Call(p) PROVE LoadInv'
  <2>1. <<p, "cold">> \in Flights /\ <<p, "refresh">> \in Flights
    BY <1>1
  <2>2. PICK f \in Flights, pc \in {"lock", "read"} :
          At(f, "none") /\ Move(f, pc) /\ Quietly /\ (f[2] = "refresh" => pc = "lock")
    <3> HIDE DEF Flights, Move, At, Quietly, Miss
    <3> QED
      BY <1>1, <2>1 DEF Call
  <2> QED
    BY <2>2
<1>2. ASSUME NEW p \in Procs, Crash(p) PROVE LoadInv'
  BY <1>2 DEF Crash
<1>3. ASSUME NEW f \in Flights, SecondRead(f) PROVE LoadInv'
  BY <1>3 DEF SecondRead
<1>4. ASSUME NEW f \in Flights, AcquireLock(f) PROVE LoadInv'
  BY <1>4 DEF AcquireLock, TryLock, LockIsFree, WithoutLock
<1>5. ASSUME NEW f \in Flights, Wait(f) PROVE LoadInv'
  BY <1>5 DEF Wait
<1>6. ASSUME NEW f \in Flights, RescueLock(f) PROVE LoadInv'
  BY <1>6 DEF RescueLock, TryLock, LockIsFree
<1>7. ASSUME NEW f \in Flights, Recheck(f) PROVE LoadInv'
  BY <1>7 DEF Recheck, Good
<1>8. ASSUME NEW f \in Flights, Load(f) PROVE LoadInv'
  BY <1>8 DEF Load
<1>9. ASSUME NEW f \in Flights, Write(f) PROVE LoadInv'
  BY <1>9 DEF Write
<1>10. ASSUME NEW f \in Flights, ReleaseLock(f) PROVE LoadInv'
  BY <1>10 DEF ReleaseLock, Mine
<1>11. ASSUME NEW f \in Flights, RedisFails(f) PROVE LoadInv'
  BY <1>11 DEF RedisFails
<1>12. ASSUME NEW f \in Flights, LoaderFails(f) PROVE LoadInv'
  BY <1>12 DEF LoaderFails
<1>13. ASSUME Update PROVE LoadInv'
  BY <1>13 DEF Update
<1>14. ASSUME DeleteCache PROVE LoadInv'
  BY <1>14 DEF DeleteCache, Dropped
<1>15. ASSUME LoseDelete PROVE LoadInv'
  BY <1>15 DEF LoseDelete
<1>16. ASSUME EntryAges PROVE LoadInv'
  BY <1>16 DEF EntryAges
<1>17. ASSUME EntryExpires PROVE LoadInv'
  BY <1>17 DEF EntryExpires
<1>18. ASSUME LockExpires PROVE LoadInv'
  BY <1>18 DEF LockExpires
<1>19. ASSUME UNCHANGED vars PROVE LoadInv'
  BY <1>19 DEF vars
<1> QED
  BY <1>1, <1>2, <1>3, <1>4, <1>5, <1>6, <1>7, <1>8, <1>9, <1>10,
     <1>11, <1>12, <1>13, <1>14, <1>15, <1>16, <1>17, <1>18, <1>19
  DEF Next, Continue

\* A flight re-reads the entry under the lock before it loads.
LEMMA CountStep ==
  ASSUME TypeOK, HolderInv, CountInv, [Next]_vars
  PROVE  CountInv'
<1> USE CacheAsideAssumption DEF TypeOK, Versions, Entry, Miss, Flights, Kinds, Steps,
          HolderInv, CountInv, Holding, At, Move, Quietly, redis, writers, history
<1>1. ASSUME NEW p \in Procs, Call(p) PROVE CountInv'
  <2>1. <<p, "cold">> \in Flights /\ <<p, "refresh">> \in Flights
    BY <1>1
  <2>2. PICK f \in Flights, pc \in {"lock", "read"} :
          At(f, "none") /\ Move(f, pc) /\ Quietly /\ (f[2] = "refresh" => pc = "lock")
    <3> HIDE DEF Flights, Move, At, Quietly, Miss
    <3> QED
      BY <1>1, <2>1 DEF Call
  <2> QED
    BY <2>2
<1>2. ASSUME NEW p \in Procs, Crash(p) PROVE CountInv'
  BY <1>2 DEF Crash
<1>3. ASSUME NEW f \in Flights, SecondRead(f) PROVE CountInv'
  BY <1>3 DEF SecondRead
<1>4. ASSUME NEW f \in Flights, AcquireLock(f) PROVE CountInv'
  BY <1>4 DEF AcquireLock, TryLock, LockIsFree, WithoutLock
<1>5. ASSUME NEW f \in Flights, Wait(f) PROVE CountInv'
  BY <1>5 DEF Wait
<1>6. ASSUME NEW f \in Flights, RescueLock(f) PROVE CountInv'
  BY <1>6 DEF RescueLock, TryLock, LockIsFree
<1>7. ASSUME NEW f \in Flights, Recheck(f) PROVE CountInv'
  BY <1>7 DEF Recheck, Good
<1>8. ASSUME NEW f \in Flights, Load(f) PROVE CountInv'
  BY <1>8 DEF Load
<1>9. ASSUME NEW f \in Flights, Write(f) PROVE CountInv'
  BY <1>9 DEF Write
<1>10. ASSUME NEW f \in Flights, ReleaseLock(f) PROVE CountInv'
  BY <1>10 DEF ReleaseLock, Mine
<1>11. ASSUME NEW f \in Flights, RedisFails(f) PROVE CountInv'
  BY <1>11 DEF RedisFails
<1>12. ASSUME NEW f \in Flights, LoaderFails(f) PROVE CountInv'
  BY <1>12 DEF LoaderFails
<1>13. ASSUME Update PROVE CountInv'
  BY <1>13 DEF Update
<1>14. ASSUME DeleteCache PROVE CountInv'
  BY <1>14 DEF DeleteCache, Dropped
<1>15. ASSUME LoseDelete PROVE CountInv'
  BY <1>15 DEF LoseDelete
<1>16. ASSUME EntryAges PROVE CountInv'
  BY <1>16 DEF EntryAges
<1>17. ASSUME EntryExpires PROVE CountInv'
  BY <1>17 DEF EntryExpires
<1>18. ASSUME LockExpires PROVE CountInv'
  BY <1>18 DEF LockExpires
<1>19. ASSUME UNCHANGED vars PROVE CountInv'
  BY <1>19 DEF vars
<1> QED
  BY <1>1, <1>2, <1>3, <1>4, <1>5, <1>6, <1>7, <1>8, <1>9, <1>10,
     <1>11, <1>12, <1>13, <1>14, <1>15, <1>16, <1>17, <1>18, <1>19
  DEF Next, Continue

\* A write is current or late, a delete in flight or lost.
LEMMA StaleStep ==
  ASSUME TypeOK, LoadInv, StaleExplained, [Next]_vars
  PROVE  StaleExplained'
<1> USE CacheAsideAssumption DEF TypeOK, Versions, Entry, Miss, Flights, Kinds, Steps,
          LoadInv, StaleExplained, At, Move, Quietly, redis, writers, history
<1>1. ASSUME NEW p \in Procs, Call(p) PROVE StaleExplained'
  <2>1. <<p, "cold">> \in Flights /\ <<p, "refresh">> \in Flights
    BY <1>1
  <2>2. PICK f \in Flights, pc \in {"lock", "read"} :
          At(f, "none") /\ Move(f, pc) /\ Quietly /\ (f[2] = "refresh" => pc = "lock")
    <3> HIDE DEF Flights, Move, At, Quietly, Miss
    <3> QED
      BY <1>1, <2>1 DEF Call
  <2> QED
    BY <2>2
<1>2. ASSUME NEW p \in Procs, Crash(p) PROVE StaleExplained'
  BY <1>2 DEF Crash
<1>3. ASSUME NEW f \in Flights, SecondRead(f) PROVE StaleExplained'
  BY <1>3 DEF SecondRead
<1>4. ASSUME NEW f \in Flights, AcquireLock(f) PROVE StaleExplained'
  BY <1>4 DEF AcquireLock, TryLock, LockIsFree, WithoutLock
<1>5. ASSUME NEW f \in Flights, Wait(f) PROVE StaleExplained'
  BY <1>5 DEF Wait
<1>6. ASSUME NEW f \in Flights, RescueLock(f) PROVE StaleExplained'
  BY <1>6 DEF RescueLock, TryLock, LockIsFree
<1>7. ASSUME NEW f \in Flights, Recheck(f) PROVE StaleExplained'
  BY <1>7 DEF Recheck, Good
<1>8. ASSUME NEW f \in Flights, Load(f) PROVE StaleExplained'
  BY <1>8 DEF Load
<1>9. ASSUME NEW f \in Flights, Write(f) PROVE StaleExplained'
  BY <1>9 DEF Write
<1>10. ASSUME NEW f \in Flights, ReleaseLock(f) PROVE StaleExplained'
  BY <1>10 DEF ReleaseLock, Mine
<1>11. ASSUME NEW f \in Flights, RedisFails(f) PROVE StaleExplained'
  BY <1>11 DEF RedisFails
<1>12. ASSUME NEW f \in Flights, LoaderFails(f) PROVE StaleExplained'
  BY <1>12 DEF LoaderFails
<1>13. ASSUME Update PROVE StaleExplained'
  BY <1>13 DEF Update
<1>14. ASSUME DeleteCache PROVE StaleExplained'
  BY <1>14 DEF DeleteCache, Dropped
<1>15. ASSUME LoseDelete PROVE StaleExplained'
  BY <1>15 DEF LoseDelete
<1>16. ASSUME EntryAges PROVE StaleExplained'
  BY <1>16 DEF EntryAges
<1>17. ASSUME EntryExpires PROVE StaleExplained'
  BY <1>17 DEF EntryExpires
<1>18. ASSUME LockExpires PROVE StaleExplained'
  BY <1>18 DEF LockExpires
<1>19. ASSUME UNCHANGED vars PROVE StaleExplained'
  BY <1>19 DEF vars
<1> QED
  BY <1>1, <1>2, <1>3, <1>4, <1>5, <1>6, <1>7, <1>8, <1>9, <1>10,
     <1>11, <1>12, <1>13, <1>14, <1>15, <1>16, <1>17, <1>18, <1>19
  DEF Next, Continue

\* The initial state.
LEMMA InitIInv == Init => IInv
<1> SUFFICES ASSUME Init PROVE IInv
  OBVIOUS
<1> USE CacheAsideAssumption DEF Init, Flights, Kinds
<1>1. \A f \in Flights : flight[f].pc = "none"
  OBVIOUS
<1>2. \A p \in Procs : <<p, "refresh">> \in Flights
  OBVIOUS
<1>3. TypeOK
  <2>1. flight \in [Flights -> [pc: Steps, val: Versions]]
    BY DEF Versions, Steps
  <2>2. \A p \in Procs : flight[<<p, "refresh">>].pc \notin {"read", "wait", "rescue"}
    BY <1>1, <1>2
  <2>3. entry \in Entry /\ lock \in Flights \cup {None}
    BY DEF Entry, Miss
  <2>4. source \in Versions /\ deletes \in 0..source
    BY DEF Versions
  <2>5. loads \in Nat /\ late \in [Flights -> BOOLEAN] /\ overran \subseteq Flights
    OBVIOUS
  <2>6. outrun \in BOOLEAN /\ lost \in BOOLEAN
    BY Zenon
  <2> HIDE DEF Init, Flights
  <2> QED
    BY <2>1, <2>2, <2>3, <2>4, <2>5, <2>6 DEF TypeOK
<1>4. HolderInv /\ LoadInv
  BY <1>1 DEF HolderInv, LoadInv, At, Holding
<1>5. CountInv
  BY <1>1 DEF CountInv, At
<1>6. StaleExplained
  BY DEF StaleExplained, Miss
<1> QED
  BY <1>3, <1>4, <1>5, <1>6 DEF IInv

\* The invariant is inductive.
LEMMA Invariance == Spec => []IInv
<1>1. IInv /\ [Next]_vars => IInv'
  BY TypeStep, HolderStep, LoadStep, CountStep, StaleStep DEF IInv
<1> QED
  BY <1>1, InitIInv, PTL DEF Spec

\* Reachable states are well typed: no refresh waits for the lock, and a
\* delete is outstanding only for an update that was made.
THEOREM TypeCorrect == Spec => []TypeOK
<1>1. IInv => TypeOK
  BY DEF IInv
<1> QED
  BY <1>1, Invariance, PTL

\* Whatever number of processes miss, wait, time out and crash, the loader
\* runs under the lock in one flight, and what nobody dropped is loaded once,
\* besides flights that outran their lock.
THEOREM Stampede == Spec => []OneLoader
<1>1. IInv => OneLoader
  BY DEF IInv, HolderInv, CountInv, OneLoader
<1> QED
  BY <1>1, Invariance, PTL

\* An old value in the cache has an update in flight, a lost delete or an
\* overtaken load to blame.
THEOREM Explained == Spec => []StaleExplained
<1>1. IInv => StaleExplained
  BY DEF IInv
<1> QED
  BY <1>1, Invariance, PTL
=============================================================================
