--------------------------- MODULE PresenceProofs ---------------------------
(***************************************************************************)
(* Proofs about Presence, for every set of accounts, processes and         *)
(* sockets and every cap: what holds whatever the faults, what holds       *)
(* without Redis, and what holds until the first fault.                    *)
(***************************************************************************)
EXTENDS Presence, FiniteSetTheorems, TLAPS

USE DEF Full, AfterRelease, TouchKey, SetTtl, NoneLeft

\* Every socket has an account and a process.
LEMMA Owners ==
    ASSUME NEW c \in Conns
    PROVE  UserOf[c] \in Users /\ InstOf[c] \in Instances
  BY OwnersAssumption

\* A set of sockets is finite, so it has a cardinality.
LEMMA SocketSets ==
    ASSUME NEW S \in SUBSET Conns
    PROVE  IsFiniteSet(S) /\ Cardinality(S) \in Nat
  BY ConnsFinite, FS_Subset, FS_CardinalityType

-----------------------------------------------------------------------------
(* Type correctness.                                                       *)

Ttls == {"missing", "forever", "set"}

\* What the commands do to the expiry of a key is one of its three values.
LEMMA TtlType ==
    ASSUME TypeOK, NEW u \in Users,
           TouchKey(u) \/ SetTtl(u) \/ UNCHANGED ttl
    PROVE  ttl' \in [Users -> Ttls]
  <1>1. ttl \in [Users -> Ttls]
    BY DEF TypeOK, Ttls
  <1> QED
    BY <1>1 DEF Ttls

\* The four ways a handshake or a disconnect ends keep the types.
LEMMA AdmitType ==
    ASSUME TypeOK, NEW c \in Conns, NEW counter \in {"shared", "local"},
           NEW isFirst \in BOOLEAN, Admit(c, counter, isFirst)
    PROVE  /\ phase' \in [Conns -> Phases]
           /\ gone' \in [Conns -> BOOLEAN]
           /\ got' \in [Conns -> Int]
           /\ unit' \in [Conns -> {"none", "shared", "local"}]
           /\ announced' \in [Users -> {"online", "offline"}]
  BY Owners DEF TypeOK, Admit, Phases

LEMMA RefuseType ==
    ASSUME TypeOK, NEW c \in Conns, Refuse(c)
    PROVE  /\ phase' \in [Conns -> Phases]
           /\ gone' \in [Conns -> BOOLEAN]
           /\ got' \in [Conns -> Int]
           /\ unit' \in [Conns -> {"none", "shared", "local"}]
           /\ announced' \in [Users -> {"online", "offline"}]
  BY DEF TypeOK, Refuse, Phases

LEMMA LeaveType ==
    ASSUME TypeOK, NEW c \in Conns, NEW isLast \in BOOLEAN, Leave(c, isLast)
    PROVE  /\ phase' \in [Conns -> Phases]
           /\ gone' \in [Conns -> BOOLEAN]
           /\ got' \in [Conns -> Int]
           /\ unit' \in [Conns -> {"none", "shared", "local"}]
           /\ announced' \in [Users -> {"online", "offline"}]
  BY Owners DEF TypeOK, Leave, Phases

LEMMA LocalAcquireType ==
    ASSUME TypeOK, NEW c \in Conns, LocalAcquire(c)
    PROVE  /\ phase' \in [Conns -> Phases]
           /\ gone' \in [Conns -> BOOLEAN]
           /\ got' \in [Conns -> Int]
           /\ unit' \in [Conns -> {"none", "shared", "local"}]
           /\ announced' \in [Users -> {"online", "offline"}]
           /\ local' \in [Instances -> [Users -> Nat]]
           /\ lostLocal' \in [Instances -> [Users -> Nat]]
  <1> DEFINE i == InstOf[c]
             u == UserOf[c]
  <1>1. i \in Instances /\ u \in Users
    BY Owners
  <1>2. CASE local[i][u] >= MaxPerUser
    <2>1. Refuse(c) /\ UNCHANGED <<local, lostLocal>>
      BY <1>1, <1>2, MaxAssumption DEF LocalAcquire, TypeOK
    <2> QED
      BY <2>1, RefuseType DEF TypeOK
  <1>3. CASE local[i][u] < MaxPerUser
    <2>1. /\ local' = [local EXCEPT ![i][u] = @ + 1]
          /\ Admit(c, "local", local[i][u] = 0)
          /\ lostLocal' = IF gone[c] THEN [lostLocal EXCEPT ![i][u] = @ + 1]
                                     ELSE lostLocal
      BY <1>1, <1>3, MaxAssumption DEF LocalAcquire, TypeOK
    <2>2. local' \in [Instances -> [Users -> Nat]]
      BY <1>1, <2>1 DEF TypeOK
    <2>3. lostLocal' \in [Instances -> [Users -> Nat]]
      BY <1>1, <2>1 DEF TypeOK
    <2> QED
      BY <2>1, <2>2, <2>3, AdmitType
  <1> QED
    BY <1>1, <1>2, <1>3, MaxAssumption DEF TypeOK

LEMMA LocalReleaseType ==
    ASSUME TypeOK, NEW c \in Conns, LocalRelease(c)
    PROVE  /\ phase' \in [Conns -> Phases]
           /\ gone' \in [Conns -> BOOLEAN]
           /\ got' \in [Conns -> Int]
           /\ unit' \in [Conns -> {"none", "shared", "local"}]
           /\ announced' \in [Users -> {"online", "offline"}]
           /\ local' \in [Instances -> [Users -> Nat]]
           /\ lostLocal' \in [Instances -> [Users -> Nat]]
  <1> DEFINE i == InstOf[c]
             u == UserOf[c]
             isLast == local[i][u] <= 1
  <1>1. i \in Instances /\ u \in Users
    BY Owners
  <1>2. /\ local' = [local EXCEPT ![i][u] = IF isLast THEN 0 ELSE @ - 1]
        /\ lostLocal' = IF isLast THEN [lostLocal EXCEPT ![i][u] = 0]
                                  ELSE lostLocal
        /\ Leave(c, isLast)
    BY DEF LocalRelease
  <1>3. local[i][u] \in Nat
    BY <1>1 DEF TypeOK
  <1>4. local' \in [Instances -> [Users -> Nat]]
    <2>1. (IF isLast THEN 0 ELSE local[i][u] - 1) \in Nat
      BY <1>3
    <2> QED
      BY <1>1, <1>2, <2>1 DEF TypeOK
  <1>5. lostLocal' \in [Instances -> [Users -> Nat]]
    BY <1>1, <1>2 DEF TypeOK
  <1>6. isLast \in BOOLEAN
    OBVIOUS
  <1> QED
    BY <1>2, <1>4, <1>5, <1>6, LeaveType

\* A process that stops leaves numbers of the right type behind.
LEMMA StopType ==
    ASSUME TypeOK, NEW i \in Instances, Stop(i), budget' \in Nat
    PROVE  TypeOK'
  <1>1. lostShared' \in [Users -> Nat]
    <2>1. ASSUME NEW u \in Users
          PROVE  Cardinality(Stranded(i, u)) \in Nat
      BY SocketSets DEF Stranded, SharedHolders, SocketsOf
    <2> QED
      BY <2>1 DEF Stop, TypeOK
  <1>2. /\ local' \in [Instances -> [Users -> Nat]]
        /\ lostLocal' \in [Instances -> [Users -> Nat]]
    BY DEF Stop, TypeOK
  <1>3. /\ phase' \in [Conns -> Phases]
        /\ unit' \in [Conns -> {"none", "shared", "local"}]
    BY DEF Stop, TypeOK, Phases
  <1>4. gone' \in [Conns -> BOOLEAN]
    BY DEF Stop, TypeOK
  <1>5. got' \in [Conns -> Int]
    BY DEF Stop, TypeOK
  <1>6. /\ link' \in [Instances -> {"none", "ready", "lost"}]
        /\ up' \in [Instances -> BOOLEAN]
        /\ closing' \in [Instances -> BOOLEAN]
    BY DEF Stop, TypeOK
  <1> QED
    BY <1>1, <1>2, <1>3, <1>4, <1>5, <1>6 DEF Stop, TypeOK, redisVars

\* Every step keeps the types, action by action.
LEMMA TypeStep == TypeOK /\ [Next]_vars => TypeOK'
  <1> SUFFICES ASSUME TypeOK, [Next]_vars PROVE TypeOK'
    OBVIOUS
  <1>1. ASSUME NEW c \in Conns, Connect(c) PROVE TypeOK'
    BY <1>1 DEF Connect, TypeOK, Phases, redisVars, procVars, lostVars
  <1>2. ASSUME NEW c \in Conns, RejectToken(c) PROVE TypeOK'
    BY <1>2, RefuseType DEF RejectToken, TypeOK, redisVars, procVars, lostVars
  <1>3. ASSUME NEW c \in Conns, CallAcquire(c) PROVE TypeOK'
    <2>1. CASE /\ phase' = [phase EXCEPT ![c] = "incr"]
               /\ UNCHANGED <<gone, got, unit, local, announced, lostLocal>>
      BY <1>3, <2>1 DEF CallAcquire, TypeOK, Phases, redisVars
    <2>2. CASE LocalAcquire(c)
      BY <1>3, <2>2, LocalAcquireType DEF CallAcquire, TypeOK, redisVars
    <2> QED
      BY <1>3, <2>1, <2>2 DEF CallAcquire
  <1>4. ASSUME NEW c \in Conns, Incr(c) PROVE TypeOK'
    <2>1. ttl' \in [Users -> Ttls]
      BY <1>4, Owners, TtlType DEF Incr
    <2>2. shared' \in [Users -> Int] /\ got' \in [Conns -> Int]
      BY <1>4, Owners DEF Incr, TypeOK
    <2> QED
      BY <1>4, <2>1, <2>2 DEF Incr, TypeOK, Phases, Ttls, procVars, lostVars
  <1>5. ASSUME NEW c \in Conns, Expire(c) PROVE TypeOK'
    <2>1. ttl' \in [Users -> Ttls] /\ UNCHANGED <<shared, procVars, lostLocal, budget>>
      BY <1>5, Owners, TtlType DEF Expire
    <2>2. CASE /\ phase' = [phase EXCEPT ![c] = "decr"]
               /\ UNCHANGED <<gone, got, unit, announced, lostShared>>
      BY <2>1, <2>2 DEF TypeOK, Phases, Ttls, procVars
    <2>3. CASE /\ Admit(c, "shared", got[c] = 1)
               /\ lostShared' = IF gone[c]
                                THEN [lostShared EXCEPT ![UserOf[c]] = @ + 1]
                                ELSE lostShared
      <3>1. lostShared' \in [Users -> Nat]
        BY <2>3, Owners DEF TypeOK
      <3> QED
        BY <2>1, <2>3, <3>1, AdmitType DEF TypeOK, Ttls, procVars
    <2> QED
      BY <1>5, <2>2, <2>3 DEF Expire
  <1>6. ASSUME NEW c \in Conns, GiveBack(c) PROVE TypeOK'
    <2>1. ttl' \in [Users -> Ttls]
      BY <1>6, Owners, TtlType DEF GiveBack
    <2>2. shared' \in [Users -> Int]
      BY <1>6, Owners DEF GiveBack, TypeOK
    <2> QED
      BY <1>6, <2>1, <2>2, RefuseType DEF GiveBack, TypeOK, Ttls, procVars, lostVars
  <1>7. ASSUME NEW c \in Conns, AcquireFallsBack(c) PROVE TypeOK'
    <2>1. shared' \in [Users -> Int] /\ lostShared' \in [Users -> Nat]
      <3>1. UserOf[c] \in Users
        BY Owners
      <3>2. /\ \/ shared' = [shared EXCEPT ![UserOf[c]] = @ - 1]
               \/ UNCHANGED shared
            /\ \/ lostShared' = [lostShared EXCEPT ![UserOf[c]] = @ + 1]
               \/ UNCHANGED lostShared
        BY <1>7 DEF AcquireFallsBack
      <3>3. shared' \in [Users -> Int]
        BY <3>1, <3>2 DEF TypeOK
      <3>4. lostShared' \in [Users -> Nat]
        BY <3>1, <3>2 DEF TypeOK
      <3> QED
        BY <3>3, <3>4
    <2>2. ttl' \in [Users -> Ttls]
      BY <1>7, Owners, TtlType DEF AcquireFallsBack
    <2> QED
      BY <1>7, <2>1, <2>2, LocalAcquireType DEF AcquireFallsBack, TypeOK, Ttls
  <1>8. ASSUME NEW c \in Conns, Disconnect(c) PROVE TypeOK'
    <2>1. CASE /\ phase' = [phase EXCEPT ![c] = "rel"]
               /\ UNCHANGED <<gone, got, unit, local, announced, lostVars>>
      BY <1>8, <2>1 DEF Disconnect, TypeOK, Phases, redisVars, lostVars
    <2>2. CASE /\ LocalRelease(c)
               /\ lostShared' = IF unit[c] = "shared"
                                THEN [lostShared EXCEPT ![UserOf[c]] = @ + 1]
                                ELSE lostShared
      <3>1. lostShared' \in [Users -> Nat]
        BY <2>2, Owners DEF TypeOK
      <3> QED
        BY <1>8, <2>2, <3>1, LocalReleaseType DEF Disconnect, TypeOK, redisVars
    <2> QED
      BY <1>8, <2>1, <2>2 DEF Disconnect
  <1>9. ASSUME NEW c \in Conns, Decr(c) PROVE TypeOK'
    <2>1. /\ shared' \in [Users -> Int]
          /\ lostLocal' \in [Instances -> [Users -> Nat]]
          /\ UNCHANGED <<procVars, lostShared, budget>>
      BY <1>9, Owners DEF Decr, TypeOK
    <2>4. ttl' \in [Users -> Ttls]
      BY <1>9, Owners, TtlType DEF Decr
    <2>2. CASE /\ phase' = [phase EXCEPT ![c] = "del"]
               /\ unit' = [unit EXCEPT ![c] = "none"]
               /\ UNCHANGED <<gone, got, announced>>
      BY <2>1, <2>2, <2>4 DEF TypeOK, Phases, Ttls, procVars
    <2>3. CASE Leave(c, FALSE)
      BY <2>1, <2>3, <2>4, LeaveType DEF TypeOK, Ttls, procVars
    <2> QED
      BY <1>9, <2>2, <2>3 DEF Decr
  <1>10. ASSUME NEW c \in Conns, Del(c) PROVE TypeOK'
    <2>1. /\ shared' \in [Users -> Int]
          /\ ttl' \in [Users -> Ttls]
          /\ lostShared' \in [Users -> Nat]
      BY <1>10, Owners DEF Del, ForgetKey, TypeOK, Ttls
    <2> QED
      BY <1>10, <2>1, LeaveType DEF Del, TypeOK, Ttls, procVars
  <1>11. ASSUME NEW c \in Conns, ReleaseFallsBack(c) PROVE TypeOK'
    <2>1. /\ shared' \in [Users -> Int]
          /\ ttl' \in [Users -> Ttls]
          /\ lostShared' \in [Users -> Nat]
      <3>1. UserOf[c] \in Users /\ shared[UserOf[c]] - 1 \in Int
        BY <1>11, Owners DEF TypeOK
      <3>2. CASE ForgetKey(UserOf[c])
        BY <3>1, <3>2 DEF ForgetKey, TypeOK, Ttls
      <3>3. CASE ~ForgetKey(UserOf[c])
        <4>1. ttl' \in [Users -> Ttls]
          BY <1>11, <3>1, <3>3, TtlType DEF ReleaseFallsBack, redisVars
        <4>2. /\ \/ shared' = [shared EXCEPT ![UserOf[c]] = @ - 1]
                 \/ UNCHANGED shared
              /\ \/ lostShared' = [lostShared EXCEPT ![UserOf[c]] = @ + 1]
                 \/ UNCHANGED lostShared
          BY <1>11, <3>3 DEF ReleaseFallsBack, redisVars
        <4> QED
          BY <3>1, <4>1, <4>2 DEF TypeOK
      <3> QED
        BY <3>2, <3>3
    <2> QED
      BY <1>11, <2>1, LocalReleaseType DEF ReleaseFallsBack, TypeOK, Ttls
  <1>12. ASSUME NEW c \in Conns, HangUp(c) PROVE TypeOK'
    BY <1>12 DEF HangUp, Inject, TypeOK, redisVars, procVars, lostVars
  <1>13. ASSUME NEW i \in Instances, LoseRedis(i) \/ RegainRedis(i) PROVE TypeOK'
    <2>1. link' \in [Instances -> {"none", "ready", "lost"}] /\ budget' \in Nat
      BY <1>13 DEF LoseRedis, RegainRedis, Inject, TypeOK
    <2>2. UNCHANGED <<connVars, redisVars, local, up, closing, announced, lostVars>>
      BY <1>13 DEF LoseRedis, RegainRedis
    <2> QED
      BY <2>1, <2>2 DEF TypeOK, connVars, redisVars, lostVars
  <1>14. ASSUME NEW i \in Instances, Crash(i) \/ Exit(i) PROVE TypeOK'
    <2>1. Stop(i) /\ budget' \in Nat
      BY <1>14 DEF Crash, Exit, Inject, TypeOK
    <2> QED
      BY <2>1, StopType
  <1>15. ASSUME NEW i \in Instances, Restart(i) PROVE TypeOK'
    <2>1. link' \in [Instances -> {"none", "ready", "lost"}]
      <3>1. PICK l \in {"none", "ready", "lost"} : link' = [link EXCEPT ![i] = l]
        BY <1>15 DEF Restart
      <3> QED
        BY <3>1 DEF TypeOK
    <2>3. up' \in [Instances -> BOOLEAN] /\ budget' \in Nat
      BY <1>15 DEF Restart, Inject, TypeOK
    <2>2. UNCHANGED <<connVars, redisVars, local, closing, announced, lostVars>>
      BY <1>15 DEF Restart
    <2> QED
      BY <2>1, <2>2, <2>3 DEF TypeOK, connVars, redisVars, lostVars
  <1>16. ASSUME NEW i \in Instances, Close(i) PROVE TypeOK'
    BY <1>16 DEF Close, Inject, TypeOK, Phases, redisVars, lostVars
  <1>17. ASSUME NEW u \in Users, TtlFires(u) PROVE TypeOK'
    BY <1>17 DEF TtlFires, Inject, ForgetKey, TypeOK, connVars, procVars
  <1>18. CASE UNCHANGED vars
    BY <1>18 DEF vars, TypeOK, connVars, redisVars, procVars, lostVars
  <1> QED
    BY <1>1, <1>2, <1>3, <1>4, <1>5, <1>6, <1>7, <1>8, <1>9, <1>10, <1>11,
       <1>12, <1>13, <1>14, <1>15, <1>16, <1>17, <1>18
    DEF Next, Command, Environment

LEMMA TypeInit == Init => TypeOK
  BY ConfigAssumption DEF Init, TypeOK, Phases

\* The types of Presence are correct in every reachable state.
THEOREM TypeCorrect == Spec => []TypeOK
  BY TypeInit, TypeStep, PTL DEF Spec

-----------------------------------------------------------------------------
(* Slots are accounted for.  SharedAccounted and LocalAccounted are not    *)
(* inductive alone: a step that forgets a socket's unit must know that the *)
(* phase it leaves holds one, or none.                                     *)

UnitByPhase ==
    \A c \in Conns :
        /\ phase[c] \in {"idle", "auth", "incr", "del"} => unit[c] = "none"
        /\ phase[c] \in {"expire", "decr"} => unit[c] = "shared"

Accounted == TypeOK /\ UnitByPhase /\ SharedAccounted /\ LocalAccounted

One(b) == IF b THEN 1 ELSE 0

\* Changing the unit of one socket changes the number of holders by at most it.
LEMMA SharedHoldersStep ==
    ASSUME TypeOK, NEW c \in Conns, NEW x,
           unit' = [unit EXCEPT ![c] = x],
           NEW u \in Users
    PROVE  /\ Cardinality(SharedHolders(u)) \in Nat
           /\ Cardinality(SharedHolders(u))' \in Nat
           /\ u # UserOf[c] => SharedHolders(u)' = SharedHolders(u)
           /\ u = UserOf[c] => Cardinality(SharedHolders(u))'
                 = Cardinality(SharedHolders(u)) + One(x = "shared")
                      - One(unit[c] = "shared")
  <1> DEFINE H == SharedHolders(u)
             K == {d \in SocketsOf(u) : unit'[d] = "shared"}
  <1>1. K = SharedHolders(u)'
    BY DEF SharedHolders, SocketsOf
  <1>2. /\ IsFiniteSet(H) /\ Cardinality(H) \in Nat
        /\ IsFiniteSet(K) /\ Cardinality(K) \in Nat
    BY SocketSets DEF SharedHolders, SocketsOf
  <1>3. u # UserOf[c] => K = H
    BY DEF SharedHolders, SocketsOf, TypeOK
  <1>4. ASSUME u = UserOf[c]
        PROVE  Cardinality(K) = Cardinality(H) + One(x = "shared")
                                  - One(unit[c] = "shared")
    <2>1. CASE x = "shared" /\ unit[c] # "shared"
      <3>1. K = H \cup {c} /\ c \notin H
        BY <1>4, <2>1 DEF SharedHolders, SocketsOf, TypeOK
      <3> QED
        BY <1>2, <2>1, <3>1, FS_AddElement DEF One
    <2>2. CASE x # "shared" /\ unit[c] = "shared"
      <3>1. K = H \ {c} /\ c \in H
        BY <1>4, <2>2 DEF SharedHolders, SocketsOf, TypeOK
      <3> QED
        BY <1>2, <2>2, <3>1, FS_RemoveElement DEF One
    <2>3. CASE x = "shared" <=> unit[c] = "shared"
      <3>1. K = H
        BY <1>4, <2>3 DEF SharedHolders, SocketsOf, TypeOK
      <3>2. /\ One(x = "shared") = One(unit[c] = "shared")
            /\ One(x = "shared") \in {0, 1}
        <4>1. CASE x = "shared" /\ unit[c] = "shared"
          BY <4>1 DEF One
        <4>2. CASE x # "shared" /\ unit[c] # "shared"
          BY <4>2 DEF One
        <4> QED
          BY <2>3, <4>1, <4>2
      <3>3. Cardinality(K) = Cardinality(H) /\ Cardinality(H) \in Int
        BY <1>2, <3>1
      <3> HIDE DEF H, K
      <3> QED
        BY <3>2, <3>3
    <2> QED
      BY <2>1, <2>2, <2>3
  <1>5. Cardinality(SharedHolders(u))' = Cardinality(K)
    BY <1>1
  <1> QED
    BY <1>1, <1>2, <1>3, <1>4, <1>5

LEMMA LocalHoldersStep ==
    ASSUME TypeOK, NEW c \in Conns, NEW x,
           unit' = [unit EXCEPT ![c] = x],
           NEW i \in Instances, NEW u \in Users
    PROVE  /\ Cardinality(LocalHolders(i, u)) \in Nat
           /\ Cardinality(LocalHolders(i, u))' \in Nat
           /\ ~(i = InstOf[c] /\ u = UserOf[c]) =>
                 LocalHolders(i, u)' = LocalHolders(i, u)
           /\ i = InstOf[c] /\ u = UserOf[c] => Cardinality(LocalHolders(i, u))'
                 = Cardinality(LocalHolders(i, u)) + One(x = "local")
                      - One(unit[c] = "local")
  <1> DEFINE H == LocalHolders(i, u)
             K == {d \in SocketsOf(u) : InstOf[d] = i /\ unit'[d] = "local"}
  <1>1. K = LocalHolders(i, u)'
    BY DEF LocalHolders, SocketsOf
  <1>2. /\ IsFiniteSet(H) /\ Cardinality(H) \in Nat
        /\ IsFiniteSet(K) /\ Cardinality(K) \in Nat
    BY SocketSets DEF LocalHolders, SocketsOf
  <1>3. ~(i = InstOf[c] /\ u = UserOf[c]) => K = H
    BY DEF LocalHolders, SocketsOf, TypeOK
  <1>4. ASSUME i = InstOf[c], u = UserOf[c]
        PROVE  Cardinality(K) = Cardinality(H) + One(x = "local")
                                  - One(unit[c] = "local")
    <2>1. CASE x = "local" /\ unit[c] # "local"
      <3>1. K = H \cup {c} /\ c \notin H
        BY <1>4, <2>1 DEF LocalHolders, SocketsOf, TypeOK
      <3>2. Cardinality(K) = Cardinality(H) + 1
        BY <1>2, <3>1, FS_AddElement
      <3> QED
        BY <1>2, <2>1, <3>2 DEF One
    <2>2. CASE x # "local" /\ unit[c] = "local"
      <3>1. K = H \ {c} /\ c \in H
        BY <1>4, <2>2 DEF LocalHolders, SocketsOf, TypeOK
      <3> QED
        BY <1>2, <2>2, <3>1, FS_RemoveElement DEF One
    <2>3. CASE x = "local" <=> unit[c] = "local"
      <3>1. K = H
        BY <1>4, <2>3 DEF LocalHolders, SocketsOf, TypeOK
      <3>2. /\ One(x = "local") = One(unit[c] = "local")
            /\ One(x = "local") \in {0, 1}
        <4>1. CASE x = "local" /\ unit[c] = "local"
          BY <4>1 DEF One
        <4>2. CASE x # "local" /\ unit[c] # "local"
          BY <4>2 DEF One
        <4> QED
          BY <2>3, <4>1, <4>2
      <3>3. Cardinality(K) = Cardinality(H) /\ Cardinality(H) \in Int
        BY <1>2, <3>1
      <3> HIDE DEF H, K
      <3> QED
        BY <3>2, <3>3
    <2> QED
      BY <2>1, <2>2, <2>3
  <1>5. Cardinality(LocalHolders(i, u))' = Cardinality(K)
    BY <1>1
  <1> QED
    BY <1>1, <1>2, <1>3, <1>4, <1>5

\* A step on one socket keeps the Redis counter accounted for if the counter,
\* less what is stranded in it, grows no more than the socket's own unit, or
\* if the key is forgotten.
LEMMA SharedStep ==
    ASSUME TypeOK, TypeOK', SharedAccounted, NEW c \in Conns, NEW x,
           unit' = [unit EXCEPT ![c] = x],
           \A v \in Users \ {UserOf[c]} :
               shared'[v] = shared[v] /\ lostShared'[v] = lostShared[v],
           \/ shared'[UserOf[c]] <= 0
           \/ shared'[UserOf[c]] - lostShared'[UserOf[c]]
                 <= shared[UserOf[c]] - lostShared[UserOf[c]]
                       + One(x = "shared") - One(unit[c] = "shared")
    PROVE  SharedAccounted'
  <1> SUFFICES ASSUME NEW u \in Users
               PROVE  shared'[u] <= Cardinality(SharedHolders(u))' + lostShared'[u]
    BY DEF SharedAccounted
  <1>1. shared[u] <= Cardinality(SharedHolders(u)) + lostShared[u]
    BY DEF SharedAccounted
  <1>2. /\ shared[u] \in Int /\ shared'[u] \in Int
        /\ lostShared[u] \in Nat /\ lostShared'[u] \in Nat
    BY DEF TypeOK
  <1>3. CASE u # UserOf[c]
    BY <1>1, <1>2, <1>3, SharedHoldersStep
  <1>4. CASE u = UserOf[c]
    <2>1. /\ Cardinality(SharedHolders(u)) \in Nat
          /\ Cardinality(SharedHolders(u))' \in Nat
          /\ Cardinality(SharedHolders(u))' = Cardinality(SharedHolders(u))
                + One(x = "shared") - One(unit[c] = "shared")
      BY <1>4, SharedHoldersStep
    <2>2. One(x = "shared") \in {0, 1} /\ One(unit[c] = "shared") \in {0, 1}
      BY DEF One
    <2>3. \/ shared'[u] <= 0
          \/ shared'[u] - lostShared'[u] <= shared[u] - lostShared[u]
                + One(x = "shared") - One(unit[c] = "shared")
      BY <1>4
    <2> QED
      BY <1>1, <1>2, <2>1, <2>2, <2>3
  <1> QED
    BY <1>3, <1>4

LEMMA LocalStep ==
    ASSUME TypeOK, TypeOK', LocalAccounted, NEW c \in Conns, NEW x,
           unit' = [unit EXCEPT ![c] = x],
           \A i \in Instances, v \in Users :
               ~(i = InstOf[c] /\ v = UserOf[c]) =>
                   local'[i][v] = local[i][v] /\ lostLocal'[i][v] = lostLocal[i][v],
           \/ local'[InstOf[c]][UserOf[c]] <= 0
           \/ local'[InstOf[c]][UserOf[c]] - lostLocal'[InstOf[c]][UserOf[c]]
                 <= local[InstOf[c]][UserOf[c]] - lostLocal[InstOf[c]][UserOf[c]]
                       + One(x = "local") - One(unit[c] = "local")
    PROVE  LocalAccounted'
  <1> SUFFICES ASSUME NEW i \in Instances, NEW u \in Users
               PROVE  local'[i][u]
                         <= Cardinality(LocalHolders(i, u))' + lostLocal'[i][u]
    BY DEF LocalAccounted
  <1>1. local[i][u] <= Cardinality(LocalHolders(i, u)) + lostLocal[i][u]
    BY DEF LocalAccounted
  <1>2. /\ local[i][u] \in Nat /\ local'[i][u] \in Nat
        /\ lostLocal[i][u] \in Nat /\ lostLocal'[i][u] \in Nat
    BY DEF TypeOK
  <1>3. CASE ~(i = InstOf[c] /\ u = UserOf[c])
    BY <1>1, <1>2, <1>3, LocalHoldersStep
  <1>4. CASE i = InstOf[c] /\ u = UserOf[c]
    <2>1. /\ Cardinality(LocalHolders(i, u)) \in Nat
          /\ Cardinality(LocalHolders(i, u))' \in Nat
          /\ Cardinality(LocalHolders(i, u))' = Cardinality(LocalHolders(i, u))
                + One(x = "local") - One(unit[c] = "local")
      BY <1>4, LocalHoldersStep
    <2>2. One(x = "local") \in {0, 1} /\ One(unit[c] = "local") \in {0, 1}
      BY DEF One
    <2>3. \/ local'[i][u] <= 0
          \/ local'[i][u] - lostLocal'[i][u] <= local[i][u] - lostLocal[i][u]
                + One(x = "local") - One(unit[c] = "local")
      BY <1>4
    <2> QED
      BY <1>1, <1>2, <2>1, <2>2, <2>3
  <1> QED
    BY <1>3, <1>4

\* Steps that change no unit and no local Map.
LEMMA SharedFrame ==
    ASSUME UNCHANGED unit
    PROVE  /\ \A u \in Users : SharedHolders(u)' = SharedHolders(u)
           /\ \A i \in Instances, u \in Users :
                 LocalHolders(i, u)' = LocalHolders(i, u)
  BY DEF SharedHolders, LocalHolders, SocketsOf

LEMMA AccountedFrame ==
    ASSUME Accounted, UNCHANGED <<unit, shared, lostShared, local, lostLocal>>
    PROVE  SharedAccounted' /\ LocalAccounted'
  BY SharedFrame DEF Accounted, SharedAccounted, LocalAccounted

\* The parts of acquire() and release() that work on the local Map.
LEMMA LocalAcquireStep ==
    ASSUME Accounted, TypeOK', NEW c \in Conns, LocalAcquire(c),
           unit[c] # "local"
    PROVE  /\ LocalAccounted'
           /\ \E x \in {"none", "local"} : unit' = [unit EXCEPT ![c] = x]
           /\ phase'[c] \in {"idle", "open"}
           /\ phase'[c] = "idle" => unit'[c] = "none"
           /\ \A d \in Conns \ {c} : phase'[d] = phase[d] /\ unit'[d] = unit[d]
  <1> DEFINE i == InstOf[c]
             u == UserOf[c]
  <1>0. i \in Instances /\ u \in Users
    BY Owners
  <1>1. CASE Refuse(c) /\ UNCHANGED <<local, lostLocal>>
    <2>1. /\ unit' = [unit EXCEPT ![c] = "none"]
          /\ phase' = [phase EXCEPT ![c] = "idle"]
      BY <1>1 DEF Refuse
    <2>2. local[i][u] \in Nat /\ lostLocal[i][u] \in Nat
      BY <1>0 DEF Accounted, TypeOK
    <2>3. local'[i][u] - lostLocal'[i][u]
             <= local[i][u] - lostLocal[i][u] + One("none" = "local")
                   - One(unit[c] = "local")
      BY <1>1, <2>2 DEF One
    <2>4. \A j \in Instances, v \in Users :
             local'[j][v] = local[j][v] /\ lostLocal'[j][v] = lostLocal[j][v]
      BY <1>1
    <2>5. LocalAccounted'
      BY <2>1, <2>3, <2>4, LocalStep DEF Accounted
    <2> QED
      BY <2>1, <2>5 DEF Accounted, TypeOK, Phases
  <1>2. CASE /\ local' = [local EXCEPT ![i][u] = @ + 1]
             /\ Admit(c, "local", local[i][u] = 0)
             /\ lostLocal' = IF gone[c] THEN [lostLocal EXCEPT ![i][u] = @ + 1]
                                        ELSE lostLocal
    <2>1. /\ unit' = [unit EXCEPT ![c] = IF gone[c] THEN "none" ELSE "local"]
          /\ phase' = [phase EXCEPT ![c] = IF gone[c] THEN "idle" ELSE "open"]
      BY <1>2 DEF Admit
    <2>2. \A j \in Instances, v \in Users :
             ~(j = i /\ v = u) =>
                 local'[j][v] = local[j][v] /\ lostLocal'[j][v] = lostLocal[j][v]
      BY <1>0, <1>2 DEF Accounted, TypeOK
    <2>3. local'[i][u] = local[i][u] + 1
      BY <1>0, <1>2 DEF Accounted, TypeOK
    <2>4. lostLocal'[i][u] = lostLocal[i][u] + One(gone[c])
      BY <1>0, <1>2 DEF Accounted, TypeOK, One
    <2>5. local[i][u] \in Nat /\ lostLocal[i][u] \in Nat
      BY <1>0 DEF Accounted, TypeOK
    <2>6. LocalAccounted'
      <3> DEFINE x == IF gone[c] THEN "none" ELSE "local"
      <3>1. local'[i][u] - lostLocal'[i][u]
               <= local[i][u] - lostLocal[i][u] + One(x = "local")
                     - One(unit[c] = "local")
        <4>1. One(x = "local") = 1 - One(gone[c]) /\ One(gone[c]) \in {0, 1}
          BY DEF One
        <4>2. One(unit[c] = "local") = 0
          BY DEF One
        <4> QED
          BY <2>3, <2>4, <2>5, <4>1, <4>2
      <3> QED
        BY <2>1, <2>2, <3>1, LocalStep DEF Accounted
    <2>7. /\ \E x \in {"none", "local"} : unit' = [unit EXCEPT ![c] = x]
          /\ phase'[c] \in {"idle", "open"}
          /\ phase'[c] = "idle" => unit'[c] = "none"
      BY <2>1 DEF Accounted, TypeOK
    <2>8. \A d \in Conns \ {c} : phase'[d] = phase[d] /\ unit'[d] = unit[d]
      BY <2>1 DEF Accounted, TypeOK
    <2> QED
      BY <2>6, <2>7, <2>8
  <1> QED
    BY <1>1, <1>2 DEF LocalAcquire

LEMMA LocalReleaseStep ==
    ASSUME Accounted, TypeOK', NEW c \in Conns, LocalRelease(c)
    PROVE  /\ LocalAccounted'
           /\ unit' = [unit EXCEPT ![c] = "none"]
           /\ phase' = [phase EXCEPT ![c] = "idle"]
  <1> DEFINE i == InstOf[c]
             u == UserOf[c]
  <1>0. i \in Instances /\ u \in Users
    BY Owners
  <1>1. /\ unit' = [unit EXCEPT ![c] = "none"]
        /\ phase' = [phase EXCEPT ![c] = "idle"]
    BY DEF LocalRelease, Leave
  <1>2. \A j \in Instances, v \in Users :
           ~(j = i /\ v = u) =>
               local'[j][v] = local[j][v] /\ lostLocal'[j][v] = lostLocal[j][v]
    BY <1>0 DEF LocalRelease, Accounted, TypeOK
  <1>3. local[i][u] \in Nat /\ lostLocal[i][u] \in Nat
    BY <1>0 DEF Accounted, TypeOK
  <1>4. CASE local[i][u] <= 1
    <2>1. local'[i][u] = 0
      BY <1>0, <1>4 DEF LocalRelease, Accounted, TypeOK
    <2>2. local'[i][u] <= 0
      BY <2>1
    <2> QED
      BY <1>1, <1>2, <2>2, LocalStep DEF Accounted
  <1>5. CASE ~(local[i][u] <= 1)
    <2>1. local'[i][u] = local[i][u] - 1 /\ lostLocal'[i][u] = lostLocal[i][u]
      BY <1>0, <1>5 DEF LocalRelease, Accounted, TypeOK
    <2>2. local'[i][u] - lostLocal'[i][u]
             <= local[i][u] - lostLocal[i][u] + One("none" = "local")
                   - One(unit[c] = "local")
      BY <1>3, <2>1 DEF One
    <2> QED
      BY <1>1, <1>2, <2>2, LocalStep DEF Accounted
  <1> QED
    BY <1>1, <1>4, <1>5

\* A step that moves one socket keeps the units and phases in agreement.
LEMMA PhaseStep ==
    ASSUME UnitByPhase, NEW c \in Conns,
           \A d \in Conns \ {c} : phase'[d] = phase[d] /\ unit'[d] = unit[d],
           phase'[c] \in {"idle", "auth", "incr", "del"} => unit'[c] = "none",
           phase'[c] \in {"expire", "decr"} => unit'[c] = "shared"
    PROVE  UnitByPhase'
  BY DEF UnitByPhase

\* Forgetting a key accounts for everything in it.
LEMMA ForgetStep ==
    ASSUME Accounted, TypeOK', NEW u \in Users, ForgetKey(u),
           \A v \in Users \ {u} : SharedHolders(v)' = SharedHolders(v)
    PROVE  SharedAccounted'
  <1> SUFFICES ASSUME NEW v \in Users
               PROVE  shared'[v] <= Cardinality(SharedHolders(v))' + lostShared'[v]
    BY DEF SharedAccounted
  <1>1. CASE v = u
    <2>1. shared'[v] = 0 /\ lostShared'[v] = 0
      BY <1>1 DEF ForgetKey, Accounted, TypeOK
    <2>2. Cardinality(SharedHolders(v)') \in Nat
      BY SocketSets DEF SharedHolders, SocketsOf
    <2> QED
      BY <2>1, <2>2
  <1>2. CASE v # u
    BY <1>2 DEF ForgetKey, Accounted, TypeOK, SharedAccounted
  <1> QED
    BY <1>1, <1>2

\* Stopping a process strands exactly the Redis slots of its sockets.
LEMMA StopStep ==
    ASSUME Accounted, TypeOK', NEW i \in Instances, Stop(i)
    PROVE  Accounted'
  <1>1. UnitByPhase'
    BY DEF Stop, UnitByPhase, Accounted, TypeOK
  <1>2. SharedAccounted'
    <2> SUFFICES ASSUME NEW u \in Users
                 PROVE  shared'[u] <= Cardinality(SharedHolders(u))' + lostShared'[u]
      BY DEF SharedAccounted
    <2> DEFINE H == SharedHolders(u)
               S == Stranded(i, u)
               K == {d \in SocketsOf(u) : unit'[d] = "shared"}
    <2>1. K = H \ S /\ S \subseteq H
      BY DEF SharedHolders, SocketsOf, Stranded, Stop, Accounted, TypeOK
    <2>2. IsFiniteSet(H) /\ IsFiniteSet(S) /\ IsFiniteSet(K)
      BY SocketSets DEF SharedHolders, SocketsOf, Stranded
    <2>3. /\ Cardinality(K) = Cardinality(H) - Cardinality(S)
          /\ Cardinality(K) \in Nat /\ Cardinality(H) \in Nat /\ Cardinality(S) \in Nat
      <3>1. H \cap S = S
        BY <2>1
      <3> HIDE DEF H, S, K
      <3>2. Cardinality(H \ S) = Cardinality(H) - Cardinality(H \cap S)
        BY <2>2, FS_Difference
      <3>3. /\ Cardinality(K) \in Nat
            /\ Cardinality(H) \in Nat
            /\ Cardinality(S) \in Nat
        BY <2>2, FS_CardinalityType
      <3> QED
        BY <2>1, <3>1, <3>2, <3>3
    <2>4. K = SharedHolders(u)'
      BY DEF SharedHolders, SocketsOf
    <2>5. /\ shared'[u] = shared[u]
          /\ lostShared'[u] = lostShared[u] + Cardinality(S)
      BY DEF Stop, redisVars
    <2>6. /\ shared[u] <= Cardinality(H) + lostShared[u]
          /\ shared[u] \in Int /\ lostShared[u] \in Nat
      BY DEF Accounted, SharedAccounted, TypeOK
    <2>7. Cardinality(SharedHolders(u))' = Cardinality(K)
      BY <2>4
    <2> HIDE DEF H, S, K
    <2> QED
      BY <2>3, <2>5, <2>6, <2>7
  <1>3. LocalAccounted'
    <2> SUFFICES ASSUME NEW j \in Instances, NEW u \in Users
                 PROVE  local'[j][u]
                           <= Cardinality(LocalHolders(j, u))' + lostLocal'[j][u]
      BY DEF LocalAccounted
    <2>1. CASE j = i
      <3>1. local'[j][u] = 0 /\ lostLocal'[j][u] = 0
        BY <2>1 DEF Stop, Accounted, TypeOK
      <3>2. Cardinality(LocalHolders(j, u)') \in Nat
        BY SocketSets DEF LocalHolders, SocketsOf
      <3> QED
        BY <3>1, <3>2
    <2>2. CASE j # i
      <3>1. LocalHolders(j, u)' = LocalHolders(j, u)
        BY <2>2 DEF LocalHolders, SocketsOf, Stop
      <3>2. local'[j][u] = local[j][u] /\ lostLocal'[j][u] = lostLocal[j][u]
        BY <2>2 DEF Stop, Accounted, TypeOK
      <3> QED
        BY <3>1, <3>2 DEF Accounted, LocalAccounted
    <2> QED
      BY <2>1, <2>2
  <1> QED
    BY <1>1, <1>2, <1>3 DEF Accounted

LEMMA AccountedInit == Init => Accounted
  <1> SUFFICES ASSUME Init PROVE Accounted
    OBVIOUS
  <1>1. TypeOK /\ UnitByPhase
    BY TypeInit DEF Init, UnitByPhase
  <1>2. SharedAccounted
    <2>1. ASSUME NEW u \in Users PROVE Cardinality(SharedHolders(u)) \in Nat
      BY SocketSets DEF SharedHolders, SocketsOf
    <2> QED
      BY <2>1 DEF Init, SharedAccounted
  <1>3. LocalAccounted
    <2>1. ASSUME NEW i \in Instances, NEW u \in Users
          PROVE  Cardinality(LocalHolders(i, u)) \in Nat
      BY SocketSets DEF LocalHolders, SocketsOf
    <2> QED
      BY <2>1 DEF Init, LocalAccounted
  <1> QED
    BY <1>1, <1>2, <1>3 DEF Accounted

LEMMA AccountedStep == Accounted /\ [Next]_vars => Accounted'
  <1> SUFFICES ASSUME Accounted, [Next]_vars PROVE Accounted'
    OBVIOUS
  <1> USE DEF Accounted
  <1>0. TypeOK'
    BY TypeStep
  <1>1. ASSUME NEW c \in Conns, Connect(c) PROVE Accounted'
    <2>1. /\ UNCHANGED <<unit, shared, lostShared, local, lostLocal>>
          /\ phase[c] = "idle"
          /\ phase' = [phase EXCEPT ![c] = "auth"]
      BY <1>1 DEF Connect, redisVars, procVars, lostVars
    <2>2. UnitByPhase'
      BY <2>1, PhaseStep DEF TypeOK, UnitByPhase
    <2> QED
      BY <1>0, <2>1, <2>2, AccountedFrame
  <1>2. ASSUME NEW c \in Conns, RejectToken(c) PROVE Accounted'
    <2>1. /\ phase[c] = "auth" /\ unit[c] = "none"
          /\ phase' = [phase EXCEPT ![c] = "idle"]
          /\ unit' = [unit EXCEPT ![c] = "none"]
          /\ UNCHANGED <<shared, lostShared, local, lostLocal>>
      BY <1>2 DEF RejectToken, Refuse, UnitByPhase, redisVars, procVars, lostVars
    <2>2. UNCHANGED unit
      BY <2>1 DEF TypeOK
    <2>3. UnitByPhase'
      BY <2>1, PhaseStep DEF TypeOK
    <2> QED
      BY <1>0, <2>1, <2>2, <2>3, AccountedFrame
  <1>3. ASSUME NEW c \in Conns, CallAcquire(c) PROVE Accounted'
    <2>1. /\ phase[c] = "auth" /\ unit[c] = "none"
          /\ UNCHANGED <<shared, lostShared>>
      BY <1>3 DEF CallAcquire, UnitByPhase, redisVars
    <2>2. CASE /\ phase' = [phase EXCEPT ![c] = "incr"]
               /\ UNCHANGED <<gone, got, unit, local, announced, lostLocal>>
      <3>1. UnitByPhase'
        BY <2>1, <2>2, PhaseStep DEF TypeOK
      <3> QED
        BY <1>0, <2>1, <2>2, <3>1, AccountedFrame
    <2>3. CASE LocalAcquire(c)
      <3>1. /\ LocalAccounted'
            /\ \E x \in {"none", "local"} : unit' = [unit EXCEPT ![c] = x]
            /\ phase'[c] \in {"idle", "open"}
            /\ phase'[c] = "idle" => unit'[c] = "none"
            /\ \A d \in Conns \ {c} : phase'[d] = phase[d] /\ unit'[d] = unit[d]
        BY <1>0, <2>1, <2>3, LocalAcquireStep
      <3>2. UnitByPhase'
        BY <3>1, PhaseStep
      <3>3. \A u \in Users : SharedHolders(u)' = SharedHolders(u)
        BY <2>1, <3>1 DEF SharedHolders, SocketsOf, TypeOK
      <3>4. SharedAccounted'
        BY <2>1, <3>3 DEF SharedAccounted
      <3> QED
        BY <1>0, <3>1, <3>2, <3>4
    <2> QED
      BY <1>3, <2>2, <2>3 DEF CallAcquire
  <1>4. ASSUME NEW c \in Conns, Incr(c) PROVE Accounted'
    <2>1. /\ phase[c] = "incr" /\ unit[c] = "none"
          /\ phase' = [phase EXCEPT ![c] = "expire"]
          /\ unit' = [unit EXCEPT ![c] = "shared"]
          /\ shared' = [shared EXCEPT ![UserOf[c]] = @ + 1]
          /\ UNCHANGED <<local, lostShared, lostLocal>>
      BY <1>4 DEF Incr, UnitByPhase, procVars, lostVars
    <2>2. UnitByPhase'
      BY <2>1, PhaseStep DEF TypeOK
    <2>3. shared'[UserOf[c]] - lostShared'[UserOf[c]]
             <= shared[UserOf[c]] - lostShared[UserOf[c]]
                   + One("shared" = "shared") - One(unit[c] = "shared")
      <3>1. shared'[UserOf[c]] = shared[UserOf[c]] + 1
        BY <2>1, Owners DEF TypeOK
      <3>2. shared[UserOf[c]] \in Int /\ lostShared[UserOf[c]] \in Nat
        BY Owners DEF TypeOK
      <3> QED
        BY <2>1, <3>1, <3>2 DEF One
    <2>4. \A v \in Users \ {UserOf[c]} :
             shared'[v] = shared[v] /\ lostShared'[v] = lostShared[v]
      BY <2>1 DEF TypeOK
    <2>5. SharedAccounted'
      BY <1>0, <2>1, <2>3, <2>4, SharedStep
    <2>6. LocalAccounted'
      <3>1. \A i \in Instances, u \in Users : LocalHolders(i, u)' = LocalHolders(i, u)
        BY <2>1 DEF LocalHolders, SocketsOf, TypeOK
      <3> QED
        BY <2>1, <3>1 DEF LocalAccounted
    <2> QED
      BY <1>0, <2>2, <2>5, <2>6
  <1>5. ASSUME NEW c \in Conns, Expire(c) PROVE Accounted'
    <2>1. /\ phase[c] = "expire" /\ unit[c] = "shared"
          /\ UNCHANGED <<shared, local, lostLocal>>
      BY <1>5 DEF Expire, UnitByPhase, procVars
    <2>2. CASE /\ phase' = [phase EXCEPT ![c] = "decr"]
               /\ UNCHANGED <<gone, got, unit, announced, lostShared>>
      <3>1. UnitByPhase'
        BY <2>1, <2>2, PhaseStep DEF TypeOK
      <3> QED
        BY <1>0, <2>1, <2>2, <3>1, AccountedFrame
    <2>3. CASE Admit(c, "shared", got[c] = 1) /\ ~gone[c] /\ UNCHANGED lostShared
      <3>1. /\ phase' = [phase EXCEPT ![c] = "open"]
            /\ unit' = [unit EXCEPT ![c] = "shared"]
        BY <2>3 DEF Admit
      <3>2. UNCHANGED unit
        BY <2>1, <3>1 DEF TypeOK
      <3>3. UnitByPhase'
        BY <2>1, <3>1, PhaseStep DEF TypeOK
      <3> QED
        BY <1>0, <2>1, <2>3, <3>2, <3>3, AccountedFrame
    <2>4. CASE /\ Admit(c, "shared", got[c] = 1) /\ gone[c]
               /\ lostShared' = [lostShared EXCEPT ![UserOf[c]] = @ + 1]
      <3>1. /\ phase' = [phase EXCEPT ![c] = "idle"]
            /\ unit' = [unit EXCEPT ![c] = "none"]
        BY <2>4 DEF Admit
      <3>2. UnitByPhase'
        BY <3>1, PhaseStep DEF TypeOK
      <3>3. shared'[UserOf[c]] - lostShared'[UserOf[c]]
               <= shared[UserOf[c]] - lostShared[UserOf[c]]
                     + One("none" = "shared") - One(unit[c] = "shared")
        <4>1. lostShared'[UserOf[c]] = lostShared[UserOf[c]] + 1
          BY <2>4, Owners DEF TypeOK
        <4>2. shared[UserOf[c]] \in Int /\ lostShared[UserOf[c]] \in Nat
          BY Owners DEF TypeOK
        <4> QED
          BY <2>1, <4>1, <4>2 DEF One
      <3>4. \A v \in Users \ {UserOf[c]} :
               shared'[v] = shared[v] /\ lostShared'[v] = lostShared[v]
        BY <2>1, <2>4 DEF TypeOK
      <3>5. SharedAccounted'
        BY <1>0, <3>1, <3>3, <3>4, SharedStep
      <3>6. \A i \in Instances, u \in Users : LocalHolders(i, u)' = LocalHolders(i, u)
        BY <2>1, <3>1 DEF LocalHolders, SocketsOf, TypeOK
      <3>7. LocalAccounted'
        BY <2>1, <3>6 DEF LocalAccounted
      <3> QED
        BY <1>0, <3>2, <3>5, <3>7
    <2> QED
      BY <1>5, <2>2, <2>3, <2>4 DEF Expire
  <1>6. ASSUME NEW c \in Conns, GiveBack(c) PROVE Accounted'
    <2>1. /\ phase[c] = "decr" /\ unit[c] = "shared"
          /\ phase' = [phase EXCEPT ![c] = "idle"]
          /\ unit' = [unit EXCEPT ![c] = "none"]
          /\ shared' = [shared EXCEPT ![UserOf[c]] = @ - 1]
          /\ UNCHANGED <<local, lostShared, lostLocal>>
      BY <1>6 DEF GiveBack, Refuse, UnitByPhase, procVars, lostVars
    <2>2. UnitByPhase'
      BY <2>1, PhaseStep DEF TypeOK
    <2>3. shared'[UserOf[c]] - lostShared'[UserOf[c]]
             <= shared[UserOf[c]] - lostShared[UserOf[c]]
                   + One("none" = "shared") - One(unit[c] = "shared")
      <3>1. shared'[UserOf[c]] = shared[UserOf[c]] - 1
        BY <2>1, Owners DEF TypeOK
      <3>2. shared[UserOf[c]] \in Int /\ lostShared[UserOf[c]] \in Nat
        BY Owners DEF TypeOK
      <3> QED
        BY <2>1, <3>1, <3>2 DEF One
    <2>4. \A v \in Users \ {UserOf[c]} :
             shared'[v] = shared[v] /\ lostShared'[v] = lostShared[v]
      BY <2>1 DEF TypeOK
    <2>5. SharedAccounted'
      BY <1>0, <2>1, <2>3, <2>4, SharedStep
    <2>6. \A i \in Instances, u \in Users : LocalHolders(i, u)' = LocalHolders(i, u)
      BY <2>1 DEF LocalHolders, SocketsOf, TypeOK
    <2>7. LocalAccounted'
      BY <2>1, <2>6 DEF LocalAccounted
    <2> QED
      BY <1>0, <2>2, <2>5, <2>7
  <1>7. ASSUME NEW c \in Conns, AcquireFallsBack(c) PROVE Accounted'
    <2> DEFINE u == UserOf[c]
    <2>0. u \in Users /\ shared[u] \in Int /\ lostShared[u] \in Nat
      BY Owners DEF TypeOK
    <2>1. /\ phase[c] \in {"incr", "expire", "decr"}
          /\ unit[c] \in {"none", "shared"}
          /\ LocalAcquire(c)
      BY <1>7 DEF AcquireFallsBack, UnitByPhase
    <2>2. PICK x \in {"none", "local"} : unit' = [unit EXCEPT ![c] = x]
      BY <1>0, <2>1, LocalAcquireStep
    <2>3. /\ LocalAccounted'
          /\ phase'[c] \in {"idle", "open"}
          /\ phase'[c] = "idle" => unit'[c] = "none"
          /\ \A d \in Conns \ {c} : phase'[d] = phase[d] /\ unit'[d] = unit[d]
      BY <1>0, <2>1, LocalAcquireStep
    <2>4. UnitByPhase'
      BY <2>3, PhaseStep
    <2>5. PICK returned \in BOOLEAN :
             /\ shared' = IF returned THEN [shared EXCEPT ![u] = @ - 1] ELSE shared
             /\ lostShared' = IF unit[c] = "shared" /\ ~returned
                              THEN [lostShared EXCEPT ![u] = @ + 1]
                              ELSE lostShared
      BY <1>7 DEF AcquireFallsBack
    <2>6. shared'[u] - lostShared'[u]
             <= shared[u] - lostShared[u] + One(x = "shared") - One(unit[c] = "shared")
      <3>1. One(x = "shared") = 0
        BY DEF One
      <3>2. CASE returned
        <4>1. shared'[u] = shared[u] - 1 /\ lostShared'[u] = lostShared[u]
          BY <2>0, <2>5, <3>2 DEF TypeOK
        <4>2. One(unit[c] = "shared") \in {0, 1}
          BY DEF One
        <4> QED
          BY <2>0, <3>1, <4>1, <4>2
      <3>3. CASE ~returned /\ unit[c] = "shared"
        <4>1. shared'[u] = shared[u] /\ lostShared'[u] = lostShared[u] + 1
          BY <2>0, <2>5, <3>3 DEF TypeOK
        <4>2. One(unit[c] = "shared") = 1
          BY <3>3 DEF One
        <4> QED
          BY <2>0, <3>1, <4>1, <4>2
      <3>4. CASE ~returned /\ unit[c] # "shared"
        <4>1. shared'[u] = shared[u] /\ lostShared'[u] = lostShared[u]
          BY <2>5, <3>4
        <4>2. One(unit[c] = "shared") = 0
          BY <3>4 DEF One
        <4> QED
          BY <2>0, <3>1, <4>1, <4>2
      <3> QED
        BY <3>2, <3>3, <3>4
    <2>7. \A v \in Users \ {u} :
             shared'[v] = shared[v] /\ lostShared'[v] = lostShared[v]
      BY <2>5 DEF TypeOK
    <2>8. SharedAccounted'
      BY <1>0, <2>2, <2>6, <2>7, SharedStep
    <2> QED
      BY <1>0, <2>3, <2>4, <2>8
  <1>8. ASSUME NEW c \in Conns, Disconnect(c) PROVE Accounted'
    <2> DEFINE u == UserOf[c]
    <2>0. u \in Users /\ shared[u] \in Int /\ lostShared[u] \in Nat
      BY Owners DEF TypeOK
    <2>1. CASE /\ phase' = [phase EXCEPT ![c] = "rel"]
               /\ UNCHANGED <<gone, got, unit, local, announced, lostVars>>
      <3>1. UnitByPhase'
        BY <2>1, PhaseStep DEF TypeOK
      <3>2. UNCHANGED <<unit, shared, lostShared, local, lostLocal>>
        BY <1>8, <2>1 DEF Disconnect, redisVars, lostVars
      <3> QED
        BY <1>0, <3>1, <3>2, AccountedFrame
    <2>2. CASE /\ LocalRelease(c)
               /\ lostShared' = IF unit[c] = "shared"
                                THEN [lostShared EXCEPT ![u] = @ + 1]
                                ELSE lostShared
      <3>1. /\ LocalAccounted'
            /\ unit' = [unit EXCEPT ![c] = "none"]
            /\ phase' = [phase EXCEPT ![c] = "idle"]
        BY <1>0, <2>2, LocalReleaseStep
      <3>2. UnitByPhase'
        BY <3>1, PhaseStep DEF TypeOK
      <3>3. UNCHANGED shared
        BY <1>8 DEF Disconnect, redisVars
      <3>4. shared'[u] - lostShared'[u] <= shared[u] - lostShared[u]
               + One("none" = "shared") - One(unit[c] = "shared")
        BY <2>0, <2>2, <3>3 DEF One, TypeOK
      <3>5. \A v \in Users \ {u} :
               shared'[v] = shared[v] /\ lostShared'[v] = lostShared[v]
        BY <2>2, <3>3 DEF TypeOK
      <3>6. SharedAccounted'
        BY <1>0, <3>1, <3>4, <3>5, SharedStep
      <3> QED
        BY <1>0, <3>1, <3>2, <3>6
    <2> QED
      BY <1>8, <2>1, <2>2 DEF Disconnect
  <1>9. ASSUME NEW c \in Conns, Decr(c) PROVE Accounted'
    <2> DEFINE u == UserOf[c]
               i == InstOf[c]
    <2>0. /\ u \in Users /\ shared[u] \in Int /\ lostShared[u] \in Nat
          /\ i \in Instances /\ local[i][u] \in Nat /\ lostLocal[i][u] \in Nat
      BY Owners DEF TypeOK
    <2>1. /\ shared' = [shared EXCEPT ![u] = @ - 1]
          /\ UNCHANGED <<local, lostShared>>
          /\ lostLocal' = IF unit[c] = "local"
                          THEN [lostLocal EXCEPT ![i][u] = @ + 1] ELSE lostLocal
          /\ unit' = [unit EXCEPT ![c] = "none"]
          /\ \E ph \in {"idle", "del"} : phase' = [phase EXCEPT ![c] = ph]
      BY <1>9 DEF Decr, Leave, procVars
    <2>2. UnitByPhase'
      BY <2>1, PhaseStep DEF TypeOK
    <2>3. SharedAccounted'
      <3>1. shared'[u] - lostShared'[u] <= shared[u] - lostShared[u]
               + One("none" = "shared") - One(unit[c] = "shared")
        BY <2>0, <2>1 DEF One, TypeOK
      <3>2. \A v \in Users \ {u} :
               shared'[v] = shared[v] /\ lostShared'[v] = lostShared[v]
        BY <2>1 DEF TypeOK
      <3> QED
        BY <1>0, <2>1, <3>1, <3>2, SharedStep
    <2>4. LocalAccounted'
      <3>1. lostLocal'[i][u] = lostLocal[i][u] + One(unit[c] = "local")
        BY <2>0, <2>1 DEF One, TypeOK
      <3>2. local'[i][u] - lostLocal'[i][u] <= local[i][u] - lostLocal[i][u]
               + One("none" = "local") - One(unit[c] = "local")
        <4>1. One("none" = "local") = 0 /\ One(unit[c] = "local") \in {0, 1}
          BY DEF One
        <4> QED
          BY <2>0, <2>1, <3>1, <4>1
      <3>3. \A j \in Instances, v \in Users :
               ~(j = i /\ v = u) =>
                   local'[j][v] = local[j][v] /\ lostLocal'[j][v] = lostLocal[j][v]
        BY <2>0, <2>1 DEF TypeOK
      <3> QED
        BY <1>0, <2>1, <3>2, <3>3, LocalStep
    <2> QED
      BY <1>0, <2>2, <2>3, <2>4
  <1>10. ASSUME NEW c \in Conns, Del(c) PROVE Accounted'
    <2>1. /\ phase[c] = "del" /\ unit[c] = "none"
          /\ ForgetKey(UserOf[c])
          /\ phase' = [phase EXCEPT ![c] = "idle"]
          /\ unit' = [unit EXCEPT ![c] = "none"]
          /\ UNCHANGED <<local, lostLocal>>
      BY <1>10 DEF Del, Leave, UnitByPhase, procVars
    <2>2. UNCHANGED unit
      BY <2>1 DEF TypeOK
    <2>3. UnitByPhase'
      BY <2>1, PhaseStep DEF TypeOK
    <2>4. SharedAccounted'
      BY <1>0, <2>1, <2>2, SharedFrame, ForgetStep, Owners
    <2>5. LocalAccounted'
      BY <2>1, <2>2, SharedFrame DEF LocalAccounted
    <2> QED
      BY <1>0, <2>3, <2>4, <2>5
  <1>11. ASSUME NEW c \in Conns, ReleaseFallsBack(c) PROVE Accounted'
    <2> DEFINE u == UserOf[c]
    <2>0. u \in Users /\ shared[u] \in Int /\ lostShared[u] \in Nat
      BY Owners DEF TypeOK
    <2>1. /\ LocalAccounted'
          /\ unit' = [unit EXCEPT ![c] = "none"]
          /\ phase' = [phase EXCEPT ![c] = "idle"]
      BY <1>0, <1>11, LocalReleaseStep DEF ReleaseFallsBack
    <2>2. UnitByPhase'
      BY <2>1, PhaseStep DEF TypeOK
    <2>3. CASE ForgetKey(u)
      <3>1. \A v \in Users \ {u} : SharedHolders(v)' = SharedHolders(v)
        BY <2>1 DEF SharedHolders, SocketsOf, TypeOK
      <3>2. SharedAccounted'
        BY <1>0, <2>0, <2>3, <3>1, ForgetStep
      <3> QED
        BY <1>0, <2>1, <2>2, <3>2
    <2>4. CASE \/ /\ shared' = [shared EXCEPT ![u] = @ - 1]
                  /\ UNCHANGED lostShared
               \/ /\ UNCHANGED redisVars
                  /\ lostShared' = IF unit[c] = "shared"
                                   THEN [lostShared EXCEPT ![u] = @ + 1]
                                   ELSE lostShared
      <3>1. shared'[u] - lostShared'[u] <= shared[u] - lostShared[u]
               + One("none" = "shared") - One(unit[c] = "shared")
        BY <2>0, <2>4 DEF One, TypeOK, redisVars
      <3>2. \A v \in Users \ {u} :
               shared'[v] = shared[v] /\ lostShared'[v] = lostShared[v]
        BY <2>4 DEF TypeOK, redisVars
      <3>3. SharedAccounted'
        BY <1>0, <2>1, <3>1, <3>2, SharedStep
      <3> QED
        BY <1>0, <2>1, <2>2, <3>3
    <2> QED
      BY <1>11, <2>3, <2>4 DEF ReleaseFallsBack
  <1>12. ASSUME NEW c \in Conns, HangUp(c) PROVE Accounted'
    BY <1>0, <1>12, AccountedFrame DEF HangUp, UnitByPhase, redisVars, procVars,
       lostVars
  <1>13. ASSUME NEW i \in Instances, LoseRedis(i) \/ RegainRedis(i) \/ Restart(i)
         PROVE  Accounted'
    BY <1>0, <1>13, AccountedFrame DEF LoseRedis, RegainRedis, Restart,
       UnitByPhase, connVars, redisVars, lostVars
  <1>14. ASSUME NEW i \in Instances, Crash(i) \/ Exit(i) PROVE Accounted'
    BY <1>0, <1>14, StopStep DEF Crash, Exit
  <1>15. ASSUME NEW i \in Instances, Close(i) PROVE Accounted'
    <2>1. UNCHANGED <<unit, shared, lostShared, local, lostLocal>>
      BY <1>15 DEF Close, redisVars, lostVars
    <2>2. \A c \in Conns : phase'[c] = phase[c] \/ phase'[c] = "kicked"
      BY <1>15 DEF Close
    <2>3. UnitByPhase'
      BY <2>1, <2>2 DEF UnitByPhase
    <2> QED
      BY <1>0, <2>1, <2>3, AccountedFrame
  <1>16. ASSUME NEW u \in Users, TtlFires(u) PROVE Accounted'
    <2>1. ForgetKey(u) /\ UNCHANGED <<phase, unit, local, lostLocal>>
      BY <1>16 DEF TtlFires, connVars, procVars
    <2>2. UnitByPhase'
      BY <2>1 DEF UnitByPhase
    <2>3. SharedAccounted'
      BY <1>0, <2>1, SharedFrame, ForgetStep
    <2>4. LocalAccounted'
      BY <2>1, SharedFrame DEF LocalAccounted
    <2> QED
      BY <1>0, <2>2, <2>3, <2>4
  <1>17. CASE UNCHANGED vars
    BY <1>0, <1>17, AccountedFrame DEF vars, UnitByPhase, connVars, redisVars,
       procVars, lostVars
  <1> QED
    BY <1>1, <1>2, <1>3, <1>4, <1>5, <1>6, <1>7, <1>8, <1>9, <1>10, <1>11,
       <1>12, <1>13, <1>14, <1>15, <1>16, <1>17
    DEF Next, Command, Environment

\* The Redis counter of an account never exceeds the slots its living sockets
\* hold plus those a fault has stranded; neither does the Map of any process.
THEOREM SlotsAccounted == Spec => [](SharedAccounted /\ LocalAccounted)
  <1>1. Accounted => SharedAccounted /\ LocalAccounted
    BY DEF Accounted
  <1> QED
    BY <1>1, AccountedInit, AccountedStep, PTL DEF Spec


-----------------------------------------------------------------------------
(* Without Redis.  The Map of a process is exact as long as no client goes *)
(* away before its handshake is answered, whatever else happens: processes *)
(* crash, restart and shut down.  What makes LocalExact inductive is that  *)
(* no handler ever awaits Redis, so that each one is a single step.        *)

\* The sockets a process has let in and not yet released.
Held(i, u) ==
    {c \in SocketsOf(u) : InstOf[c] = i /\ phase[c] \in {"open", "kicked"}}

WithoutRedis ==
    /\ \A i \in Instances : link[i] = "none"
    /\ \A c \in Conns : ~gone[c] /\ phase[c] \notin Awaiting

LocalInv == TypeOK /\ WithoutRedis /\ LocalExact

\* Two sets of sockets that agree but for one differ in size by that one.
LEMMA ButOne ==
    ASSUME NEW H \in SUBSET Conns, NEW K \in SUBSET Conns, NEW c \in Conns,
           H \ {c} = K \ {c}
    PROVE  Cardinality(K) = Cardinality(H) + One(c \in K) - One(c \in H)
  <1>1. /\ IsFiniteSet(H) /\ Cardinality(H) \in Nat
        /\ IsFiniteSet(K) /\ Cardinality(K) \in Nat
    BY SocketSets
  <1>2. CASE c \in K /\ c \notin H
    <2>1. K = H \cup {c}
      BY <1>2
    <2> QED
      BY <1>1, <1>2, <2>1, FS_AddElement DEF One
  <1>3. CASE c \notin K /\ c \in H
    <2>1. K = H \ {c}
      BY <1>3
    <2> QED
      BY <1>1, <1>3, <2>1, FS_RemoveElement DEF One
  <1>4. CASE c \in K /\ c \in H
    <2>1. K = H
      BY <1>4
    <2> QED
      BY <1>1, <1>4, <2>1 DEF One
  <1>5. CASE c \notin K /\ c \notin H
    <2>1. K = H
      BY <1>5
    <2> QED
      BY <1>1, <1>5, <2>1 DEF One
  <1> QED
    BY <1>2, <1>3, <1>4, <1>5

\* A socket that changes its phase changes the size of the one set it is in.
LEMMA HeldStep ==
    ASSUME TypeOK, NEW c \in Conns, NEW x,
           phase' = [phase EXCEPT ![c] = x],
           NEW i \in Instances, NEW u \in Users
    PROVE  /\ Cardinality(Held(i, u)) \in Nat
           /\ ~(i = InstOf[c] /\ u = UserOf[c]) => Held(i, u)' = Held(i, u)
           /\ i = InstOf[c] /\ u = UserOf[c] => Cardinality(Held(i, u))'
                 = Cardinality(Held(i, u)) + One(x \in {"open", "kicked"})
                      - One(phase[c] \in {"open", "kicked"})
  <1> DEFINE H == Held(i, u)
             K == {d \in SocketsOf(u) :
                      InstOf[d] = i /\ phase'[d] \in {"open", "kicked"}}
  <1>1. K = Held(i, u)' /\ Cardinality(Held(i, u))' = Cardinality(K)
    BY DEF Held, SocketsOf
  <1>2. H \in SUBSET Conns /\ K \in SUBSET Conns
    BY DEF Held, SocketsOf
  <1>3. ~(i = InstOf[c] /\ u = UserOf[c]) => K = H
    BY DEF Held, SocketsOf, TypeOK
  <1>4. ASSUME i = InstOf[c], u = UserOf[c]
        PROVE  Cardinality(K) = Cardinality(H) + One(x \in {"open", "kicked"})
                                   - One(phase[c] \in {"open", "kicked"})
    <2>1. H \ {c} = K \ {c}
      BY DEF Held, SocketsOf, TypeOK
    <2>2. /\ (c \in K) <=> (x \in {"open", "kicked"})
          /\ (c \in H) <=> (phase[c] \in {"open", "kicked"})
      BY <1>4 DEF Held, SocketsOf, TypeOK
    <2>3. /\ One(c \in K) = One(x \in {"open", "kicked"})
          /\ One(c \in H) = One(phase[c] \in {"open", "kicked"})
      BY <2>2 DEF One
    <2>4. Cardinality(K) = Cardinality(H) + One(c \in K) - One(c \in H)
      BY <1>2, <2>1, ButOne
    <2> HIDE DEF H, K
    <2> QED
      BY <2>3, <2>4
  <1>5. Cardinality(H) \in Nat
    BY <1>2, SocketSets
  <1> QED
    BY <1>1, <1>3, <1>4, <1>5

\* The counts stay exact in a step on one socket that changes its entry as it
\* changes the set.
LEMMA LocalExactStep ==
    ASSUME TypeOK, LocalExact, NEW c \in Conns, NEW x, NEW n,
           phase' = [phase EXCEPT ![c] = x],
           local' = [local EXCEPT ![InstOf[c]][UserOf[c]] = n],
           n = local[InstOf[c]][UserOf[c]] + One(x \in {"open", "kicked"})
                  - One(phase[c] \in {"open", "kicked"})
    PROVE  LocalExact'
  <1> SUFFICES ASSUME NEW i \in Instances, NEW u \in Users
               PROVE  local'[i][u] = Cardinality(Held(i, u))'
    BY DEF LocalExact, Held, SocketsOf
  <1>1. local[i][u] = Cardinality(Held(i, u))
    BY DEF LocalExact, Held
  <1>2. CASE i = InstOf[c] /\ u = UserOf[c]
    <2>1. local'[i][u] = n
      BY <1>2 DEF TypeOK
    <2> QED
      BY <1>1, <1>2, <2>1, HeldStep
  <1>3. CASE ~(i = InstOf[c] /\ u = UserOf[c])
    <2>1. local'[i][u] = local[i][u]
      BY <1>3, Owners DEF TypeOK
    <2>2. Held(i, u)' = Held(i, u)
      BY <1>3, HeldStep
    <2> QED
      BY <1>1, <2>1, <2>2
  <1> QED
    BY <1>2, <1>3

\* The entry of a socket that a process holds is not zero.
LEMMA HeldIsCounted ==
    ASSUME TypeOK, LocalExact, NEW c \in Conns, phase[c] \in {"open", "kicked"}
    PROVE  local[InstOf[c]][UserOf[c]] >= 1
  <1> DEFINE H == Held(InstOf[c], UserOf[c])
  <1>1. c \in H /\ H \in SUBSET Conns
    BY DEF Held, SocketsOf
  <1>2. Cardinality(H) # 0 /\ Cardinality(H) \in Nat
    BY <1>1, SocketSets, FS_EmptySet
  <1>3. local[InstOf[c]][UserOf[c]] = Cardinality(H)
    BY Owners DEF LocalExact, Held
  <1> QED
    BY <1>2, <1>3

LEMMA LocalAcquireExact ==
    ASSUME LocalInv, NEW c \in Conns, phase[c] = "auth", LocalAcquire(c)
    PROVE  LocalExact' /\ \A d \in Conns : ~gone'[d] /\ phase'[d] \notin Awaiting
  <1> DEFINE i == InstOf[c]
             u == UserOf[c]
  <1>0. /\ i \in Instances /\ u \in Users /\ local[i][u] \in Nat
        /\ TypeOK /\ LocalExact /\ ~gone[c]
        /\ \A d \in Conns : ~gone[d] /\ phase[d] \notin Awaiting
    BY Owners DEF LocalInv, TypeOK, WithoutRedis
  <1>1. CASE local[i][u] >= MaxPerUser
    <2>1. phase' = [phase EXCEPT ![c] = "idle"] /\ UNCHANGED local
          /\ gone' = [gone EXCEPT ![c] = FALSE]
      BY <1>0, <1>1, MaxAssumption DEF LocalAcquire, Refuse
    <2>2. local' = [local EXCEPT ![i][u] = local[i][u]]
      BY <1>0, <2>1 DEF TypeOK
    <2>3. local[i][u] = local[i][u] + One("idle" \in {"open", "kicked"})
                           - One(phase[c] \in {"open", "kicked"})
      BY <1>0 DEF One
    <2>4. LocalExact'
      BY <1>0, <2>1, <2>2, <2>3, LocalExactStep
    <2> QED
      BY <1>0, <2>1, <2>4 DEF TypeOK, Awaiting
  <1>2. CASE local[i][u] < MaxPerUser
    <2>1. /\ phase' = [phase EXCEPT ![c] = "open"]
          /\ local' = [local EXCEPT ![i][u] = local[i][u] + 1]
          /\ gone' = [gone EXCEPT ![c] = FALSE]
      BY <1>0, <1>2, MaxAssumption DEF LocalAcquire, Admit
    <2>2. local[i][u] + 1 = local[i][u] + One("open" \in {"open", "kicked"})
                               - One(phase[c] \in {"open", "kicked"})
      BY <1>0 DEF One
    <2>3. LocalExact'
      BY <1>0, <2>1, <2>2, LocalExactStep
    <2> QED
      BY <1>0, <2>1, <2>3 DEF TypeOK, Awaiting
  <1> QED
    BY <1>0, <1>1, <1>2, MaxAssumption

LEMMA LocalReleaseExact ==
    ASSUME LocalInv, NEW c \in Conns, phase[c] \in {"open", "kicked"},
           LocalRelease(c)
    PROVE  LocalExact' /\ \A d \in Conns : ~gone'[d] /\ phase'[d] \notin Awaiting
  <1> DEFINE i == InstOf[c]
             u == UserOf[c]
             n == IF local[i][u] <= 1 THEN 0 ELSE local[i][u] - 1
  <1>0. /\ i \in Instances /\ u \in Users /\ local[i][u] \in Nat
        /\ TypeOK /\ LocalExact
        /\ \A d \in Conns : ~gone[d] /\ phase[d] \notin Awaiting
    BY Owners DEF LocalInv, TypeOK, WithoutRedis
  <1>1. /\ phase' = [phase EXCEPT ![c] = "idle"]
        /\ local' = [local EXCEPT ![i][u] = n]
        /\ UNCHANGED gone
    BY <1>0 DEF LocalRelease, Leave, TypeOK
  <1>2. local[i][u] >= 1
    BY <1>0, HeldIsCounted
  <1>3. n = local[i][u] - 1
    BY <1>0, <1>2
  <1>4. n = local[i][u] + One("idle" \in {"open", "kicked"})
               - One(phase[c] \in {"open", "kicked"})
    BY <1>0, <1>3 DEF One
  <1>5. LocalExact'
    BY <1>0, <1>1, <1>4, LocalExactStep
  <1> QED
    BY <1>0, <1>1, <1>5 DEF TypeOK, Awaiting

\* A process that stops forgets its own sockets and nobody else's.
LEMMA LocalStopExact ==
    ASSUME TypeOK, LocalExact, NEW j \in Instances, Stop(j)
    PROVE  LocalExact'
  <1> SUFFICES ASSUME NEW i \in Instances, NEW u \in Users
               PROVE  local'[i][u] = Cardinality(Held(i, u))'
    BY DEF LocalExact, Held, SocketsOf
  <1>1. /\ local' = [local EXCEPT ![j] = [v \in Users |-> 0]]
        /\ \A c \in Conns :
              phase'[c] = IF InstOf[c] = j THEN "idle" ELSE phase[c]
    BY DEF Stop
  <1>2. CASE i = j
    <2>1. local'[i][u] = 0
      BY <1>1, <1>2 DEF TypeOK
    <2>2. Held(i, u)' = {}
      BY <1>1, <1>2 DEF Held, SocketsOf
    <2> QED
      BY <2>1, <2>2, FS_EmptySet
  <1>3. CASE i # j
    <2>1. local'[i][u] = local[i][u]
      BY <1>1, <1>3 DEF TypeOK
    <2>2. Held(i, u)' = Held(i, u)
      BY <1>1, <1>3 DEF Held, SocketsOf
    <2>3. local[i][u] = Cardinality(Held(i, u))
      BY DEF LocalExact, Held
    <2> QED
      BY <2>1, <2>2, <2>3
  <1> QED
    BY <1>2, <1>3

\* A step that leaves the Map and the open sockets alone.
LEMMA LocalFrame ==
    ASSUME LocalExact, UNCHANGED local,
           \A c \in Conns : phase'[c] \in {"open", "kicked"}
                               <=> phase[c] \in {"open", "kicked"}
    PROVE  LocalExact'
  <1> SUFFICES ASSUME NEW i \in Instances, NEW u \in Users
               PROVE  local'[i][u] = Cardinality(Held(i, u))'
    BY DEF LocalExact, Held, SocketsOf
  <1>1. Held(i, u)' = Held(i, u)
    BY DEF Held, SocketsOf
  <1>2. local[i][u] = Cardinality(Held(i, u))
    BY DEF LocalExact, Held
  <1> QED
    BY <1>1, <1>2

LEMMA LocalInit ==
    ASSUME Configured = FALSE, Init PROVE LocalInv
  <1>1. WithoutRedis
    BY DEF Init, WithoutRedis, Awaiting
  <1>2. ASSUME NEW i \in Instances, NEW u \in Users
        PROVE  local[i][u] = Cardinality(Held(i, u))
    <2>1. Held(i, u) = {}
      BY DEF Init, Held, SocketsOf
    <2> QED
      BY <2>1, FS_EmptySet DEF Init
  <1> QED
    BY <1>1, <1>2, TypeInit DEF LocalInv, LocalExact, Held

LEMMA LocalInvStep ==
    ASSUME Configured = FALSE, "abandon" \notin Faults, LocalInv, [Next]_vars
    PROVE  LocalInv'
  <1>0. /\ TypeOK /\ LocalExact /\ TypeOK'
        /\ \A i \in Instances : link[i] = "none"
        /\ \A c \in Conns : ~gone[c] /\ phase[c] \notin Awaiting
        /\ \A c \in Conns : link[InstOf[c]] = "none" /\ ~Usable(c)
    BY TypeStep, Owners DEF LocalInv, WithoutRedis, Usable
  <1> SUFFICES LocalExact' /\ WithoutRedis'
    BY <1>0 DEF LocalInv
  <1>1. ASSUME NEW c \in Conns, Connect(c) PROVE LocalExact' /\ WithoutRedis'
    <2>1. /\ phase[c] = "idle" /\ phase' = [phase EXCEPT ![c] = "auth"]
          /\ UNCHANGED <<gone, local, link>>
      BY <1>1 DEF Connect, procVars
    <2> QED
      BY <1>0, <2>1, LocalFrame DEF WithoutRedis, TypeOK, Awaiting
  <1>2. ASSUME NEW c \in Conns, RejectToken(c) PROVE LocalExact' /\ WithoutRedis'
    <2>1. /\ phase[c] = "auth" /\ phase' = [phase EXCEPT ![c] = "idle"]
          /\ gone' = [gone EXCEPT ![c] = FALSE]
          /\ UNCHANGED <<local, link>>
      BY <1>2 DEF RejectToken, Refuse, procVars
    <2> QED
      BY <1>0, <2>1, LocalFrame DEF WithoutRedis, TypeOK, Awaiting
  <1>3. ASSUME NEW c \in Conns, Command(c) PROVE LocalExact' /\ WithoutRedis'
    <2>1. CallAcquire(c)
      BY <1>0, <1>3 DEF Command, Incr, Expire, GiveBack, AcquireFallsBack, Decr,
         Del, ReleaseFallsBack
    <2>2. phase[c] = "auth" /\ LocalAcquire(c) /\ UNCHANGED link
      BY <1>0, <2>1 DEF CallAcquire
    <2> QED
      BY <1>0, <2>2, LocalAcquireExact DEF WithoutRedis
  <1>4. ASSUME NEW c \in Conns, Disconnect(c) PROVE LocalExact' /\ WithoutRedis'
    <2>1. phase[c] \in {"open", "kicked"} /\ LocalRelease(c) /\ UNCHANGED link
      BY <1>0, <1>4 DEF Disconnect
    <2> QED
      BY <1>0, <2>1, LocalReleaseExact DEF WithoutRedis
  <1>5. ASSUME NEW i \in Instances, Crash(i) \/ Exit(i)
        PROVE  LocalExact' /\ WithoutRedis'
    <2>1. Stop(i)
      BY <1>5 DEF Crash, Exit
    <2>2. WithoutRedis'
      BY <1>0, <2>1 DEF WithoutRedis, Stop, Awaiting, TypeOK
    <2> QED
      BY <1>0, <2>1, <2>2, LocalStopExact
  <1>6. ASSUME NEW i \in Instances, Restart(i) PROVE LocalExact' /\ WithoutRedis'
    <2>1. link' = [link EXCEPT ![i] = "none"] /\ UNCHANGED <<phase, gone, local>>
      BY <1>6 DEF Restart, connVars
    <2> QED
      BY <1>0, <2>1, LocalFrame DEF WithoutRedis, TypeOK
  <1>7. ASSUME NEW i \in Instances, Close(i) PROVE LocalExact' /\ WithoutRedis'
    <2>1. /\ UNCHANGED <<gone, local, link>>
          /\ \A c \in Conns : \/ phase'[c] = phase[c]
                              \/ phase[c] = "open" /\ phase'[c] = "kicked"
      BY <1>7 DEF Close
    <2> QED
      BY <1>0, <2>1, LocalFrame DEF WithoutRedis, Awaiting
  <1>8. ASSUME \/ \E i \in Instances : LoseRedis(i) \/ RegainRedis(i)
               \/ \E c \in Conns : HangUp(c)
        PROVE  FALSE
    BY <1>0, <1>8 DEF LoseRedis, RegainRedis, HangUp, Inject
  <1>9. ASSUME NEW u \in Users, TtlFires(u) PROVE LocalExact' /\ WithoutRedis'
    <2>1. UNCHANGED <<phase, gone, local, link>>
      BY <1>9 DEF TtlFires, connVars, procVars
    <2> QED
      BY <1>0, <2>1, LocalFrame DEF WithoutRedis
  <1>10. CASE UNCHANGED vars
    <2>1. UNCHANGED <<phase, gone, local, link>>
      BY <1>10 DEF vars, connVars, procVars
    <2> QED
      BY <1>0, <2>1, LocalFrame DEF WithoutRedis
  <1> QED
    BY <1>1, <1>2, <1>3, <1>4, <1>5, <1>6, <1>7, <1>8, <1>9, <1>10
    DEF Next, Environment

\* Without Redis, and while no client gives up its handshake, the Map of every
\* process counts exactly the sockets it holds, through crashes and shutdowns.
THEOREM LocalCountExact ==
    ASSUME Configured = FALSE, "abandon" \notin Faults
    PROVE  Spec => []LocalExact
  <1>1. Init => LocalInv
    BY LocalInit
  <1>2. LocalInv /\ [Next]_vars => LocalInv'
    BY LocalInvStep
  <1>3. LocalInv => LocalExact
    BY DEF LocalInv
  <1> QED
    BY <1>1, <1>2, <1>3, PTL DEF Spec

-----------------------------------------------------------------------------
(* The promise of ConnectionCap, kept without Redis when all sockets of an *)
(* account meet in one process and nothing stops it: a socket let in is an *)
(* Arrive, one released a Depart, and every other step a stutter.          *)

Together ==
    \A c, d \in Conns : UserOf[c] = UserOf[d] => InstOf[c] = InstOf[d]

\* Nothing that stops a process or loses a client
Undisturbed == Faults \cap {"abandon", "crash", "shutdown"} = {}

\* Neither is a socket ever kicked nor a process closing, and the others were
\* told of an account exactly what its open sockets say.
PromiseInv ==
    /\ LocalInv
    /\ \A i \in Instances : ~closing[i]
    /\ \A c \in Conns : phase[c] # "kicked"
    /\ \A u \in Users : announced[u] = "online" <=> Open(u) # {}

\* The one entry of the Map that matters to an account counts its open sockets.
LEMMA EntryIsOpen ==
    ASSUME Together, PromiseInv, NEW c \in Conns
    PROVE  /\ local[InstOf[c]][UserOf[c]] = Cardinality(Open(UserOf[c]))
           /\ Cardinality(Open(UserOf[c])) \in Nat
  <1>1. Held(InstOf[c], UserOf[c]) = Open(UserOf[c])
    BY DEF Together, PromiseInv, Held, Open, SocketsOf
  <1>2. local[InstOf[c]][UserOf[c]] = Cardinality(Held(InstOf[c], UserOf[c]))
    BY Owners DEF PromiseInv, LocalInv, LocalExact, Held
  <1>3. Open(UserOf[c]) \in SUBSET Conns
    BY DEF Open, SocketsOf
  <1> QED
    BY <1>1, <1>2, <1>3, SocketSets

\* ConnectionCap counts with the same Cardinality.
LEMMA SameSize == ASSUME NEW S PROVE Promise!Cardinality(S) = Cardinality(S)
  BY DEF Promise!Cardinality, Cardinality

\* What one socket's step does to the open sockets of every account.
LEMMA OpenStep ==
    ASSUME TypeOK, NEW c \in Conns, NEW x, phase' = [phase EXCEPT ![c] = x],
           NEW u \in Users
    PROVE  Open(u)' = IF u = UserOf[c]
                      THEN IF x = "open" THEN Open(u) \cup {c} ELSE Open(u) \ {c}
                      ELSE Open(u)
  BY DEF TypeOK, Open, SocketsOf

\* A step that changes neither what is open nor what is announced stutters.
LEMMA PromiseFrame ==
    ASSUME UNCHANGED announced, \A u \in Users : Open(u)' = Open(u)
    PROVE  /\ UNCHANGED Promise!vars
           /\ (\A u \in Users : announced[u] = "online" <=> Open(u) # {})
              => (\A u \in Users : announced[u] = "online" <=> Open(u) # {})'
  BY DEF Promise!vars

LEMMA SocketLetIn ==
    ASSUME Together, PromiseInv, NEW c \in Conns, phase[c] = "auth",
           LocalAcquire(c)
    PROVE  /\ [Promise!Next]_(Promise!vars)
           /\ \A d \in Conns : phase'[d] # "kicked"
           /\ \A u \in Users : announced'[u] = "online" <=> Open(u)' # {}
  <1> DEFINE i == InstOf[c]
             u == UserOf[c]
             n == local[i][u]
  <1>0. /\ i \in Instances /\ u \in Users /\ n \in Nat /\ TypeOK /\ ~gone[c]
        /\ \A d \in Conns : phase[d] # "kicked"
        /\ \A v \in Users : announced[v] = "online" <=> Open(v) # {}
    BY Owners DEF PromiseInv, LocalInv, TypeOK, WithoutRedis
  <1>1. n = Cardinality(Open(u)) /\ IsFiniteSet(Open(u)) /\ c \notin Open(u)
    BY EntryIsOpen, SocketSets DEF Open, SocketsOf
  <1>2. CASE n >= MaxPerUser
    <2>1. phase' = [phase EXCEPT ![c] = "idle"] /\ UNCHANGED announced
      BY <1>0, <1>2, MaxAssumption DEF LocalAcquire, Refuse
    <2>2. \A v \in Users : Open(v)' = Open(v)
      BY <1>0, <1>1, <2>1 DEF TypeOK, Open, SocketsOf
    <2>3. \A d \in Conns : phase'[d] # "kicked"
      BY <1>0, <2>1 DEF TypeOK
    <2> QED
      BY <1>0, <2>1, <2>2, <2>3, PromiseFrame
  <1>3. CASE n < MaxPerUser
    <2>1. /\ phase' = [phase EXCEPT ![c] = "open"]
          /\ announced' = IF n = 0 THEN [announced EXCEPT ![u] = "online"]
                                   ELSE announced
      BY <1>0, <1>3, MaxAssumption DEF LocalAcquire, Admit
    <2>2. \A v \in Users : Open(v)' = IF v = u THEN Open(v) \cup {c} ELSE Open(v)
      BY <1>0, <2>1, OpenStep
    <2>3. n # 0 => announced[u] = "online"
      BY <1>0, <1>1, FS_EmptySet
    <2>4. /\ announced'[u] = "online"
          /\ \A v \in Users \ {u} : announced'[v] = announced[v]
      BY <1>0, <2>1, <2>3 DEF TypeOK
    <2>5. [v \in Users |-> Open(v)]'
             = [[v \in Users |-> Open(v)] EXCEPT ![u] = @ \cup {c}]
      BY <1>0, <2>2
    <2>6. [v \in Users |-> announced[v] = "online"]'
             = [[v \in Users |-> announced[v] = "online"] EXCEPT ![u] = TRUE]
      BY <1>0, <2>4
    <2>7. Promise!Arrive(c)
      <3>1. [v \in Users |-> Open(v)][u] = Open(u)
        BY <1>0
      <3>2. Promise!Cardinality(Open(u)) < MaxPerUser
        BY <1>1, <1>3, SameSize
      <3> QED
        BY <1>1, <2>5, <2>6, <3>1, <3>2 DEF Promise!Arrive
    <2>8. Promise!Next
      BY <2>7 DEF Promise!Next
    <2>9. \A v \in Users : announced'[v] = "online" <=> Open(v)' # {}
      BY <1>0, <2>2, <2>4
    <2>10. \A d \in Conns : phase'[d] # "kicked"
      BY <1>0, <2>1 DEF TypeOK
    <2> QED
      BY <2>8, <2>9, <2>10
  <1> QED
    BY <1>0, <1>2, <1>3, MaxAssumption

LEMMA SocketReleased ==
    ASSUME Together, PromiseInv, NEW c \in Conns, phase[c] = "open",
           LocalRelease(c)
    PROVE  /\ [Promise!Next]_(Promise!vars)
           /\ \A d \in Conns : phase'[d] # "kicked"
           /\ \A u \in Users : announced'[u] = "online" <=> Open(u)' # {}
  <1> DEFINE i == InstOf[c]
             u == UserOf[c]
             n == local[i][u]
  <1>0. /\ i \in Instances /\ u \in Users /\ n \in Nat /\ TypeOK /\ ~closing[i]
        /\ \A d \in Conns : phase[d] # "kicked"
        /\ \A v \in Users : announced[v] = "online" <=> Open(v) # {}
    BY Owners DEF PromiseInv, LocalInv, TypeOK
  <1>1. n = Cardinality(Open(u)) /\ IsFiniteSet(Open(u)) /\ c \in Open(u)
    BY EntryIsOpen, SocketSets DEF Open, SocketsOf
  <1>2. /\ phase' = [phase EXCEPT ![c] = "idle"]
        /\ announced' = IF n <= 1 THEN [announced EXCEPT ![u] = "offline"]
                                  ELSE announced
    BY <1>0 DEF LocalRelease, Leave
  <1>3. \A v \in Users : Open(v)' = IF v = u THEN Open(v) \ {c} ELSE Open(v)
    BY <1>0, <1>2, OpenStep
  <1>4. n <= 1 <=> Open(u) \ {c} = {}
    <2>1. IsFiniteSet(Open(u) \ {c}) /\ Cardinality(Open(u) \ {c}) = n - 1
      BY <1>1, FS_RemoveElement
    <2>2. n - 1 = 0 <=> Open(u) \ {c} = {}
      BY <2>1, FS_EmptySet
    <2>3. n # 0
      BY <1>1, FS_EmptySet
    <2> QED
      BY <1>0, <2>2, <2>3
  <1>5. /\ announced'[u] = "online" <=> Open(u) \ {c} # {}
        /\ \A v \in Users \ {u} : announced'[v] = announced[v]
    BY <1>0, <1>1, <1>2, <1>4 DEF TypeOK
  <1>6. [v \in Users |-> Open(v)]'
           = [[v \in Users |-> Open(v)] EXCEPT ![u] = @ \ {c}]
    BY <1>0, <1>3
  <1>7. [v \in Users |-> announced[v] = "online"]'
           = [[v \in Users |-> announced[v] = "online"] EXCEPT
                 ![u] = (Open(u) \ {c} # {})]
    BY <1>0, <1>5
  <1>8. [v \in Users |-> Open(v)]'[u] = Open(u) \ {c}
    BY <1>0, <1>3
  <1>9. Promise!Depart(c)
    BY <1>0, <1>1, <1>6, <1>7, <1>8 DEF Promise!Depart
  <1>10. Promise!Next
    BY <1>9 DEF Promise!Next
  <1>11. \A v \in Users : announced'[v] = "online" <=> Open(v)' # {}
    BY <1>0, <1>3, <1>5
  <1>12. \A d \in Conns : phase'[d] # "kicked"
    BY <1>0, <1>2 DEF TypeOK
  <1> QED
    BY <1>10, <1>11, <1>12

LEMMA PromiseInit ==
    ASSUME Configured = FALSE, Init PROVE PromiseInv /\ Promise!Init
  <1>1. LocalInv
    BY LocalInit
  <1>2. \A u \in Users : Open(u) = {} /\ announced[u] = "offline"
    BY DEF Init, Open, SocketsOf
  <1>3. PromiseInv
    BY <1>1, <1>2 DEF PromiseInv, Init
  <1>4. Promise!Init
    BY <1>2 DEF Promise!Init
  <1> QED
    BY <1>3, <1>4

LEMMA PromiseStep ==
    ASSUME Configured = FALSE, Together, Undisturbed, PromiseInv, [Next]_vars
    PROVE  PromiseInv' /\ [Promise!Next]_(Promise!vars)
  <1>0. /\ LocalInv /\ TypeOK /\ LocalInv'
        /\ \A i \in Instances : ~closing[i]
        /\ \A c \in Conns : phase[c] # "kicked" /\ phase[c] \notin Awaiting
        /\ \A u \in Users : announced[u] = "online" <=> Open(u) # {}
        /\ \A c \in Conns : link[InstOf[c]] = "none" /\ ~Usable(c)
        /\ "abandon" \notin Faults /\ "crash" \notin Faults
        /\ "shutdown" \notin Faults
    BY LocalInvStep, Owners DEF PromiseInv, LocalInv, WithoutRedis, Usable,
       Undisturbed
  <1>1. ASSUME UNCHANGED <<announced, closing>>,
               \A c \in Conns : \/ phase'[c] = phase[c]
                                \/ {phase[c], phase'[c]} \subseteq {"idle", "auth"}
        PROVE  PromiseInv' /\ [Promise!Next]_(Promise!vars)
    <2>1. \A u \in Users : Open(u)' = Open(u)
      BY <1>1 DEF Open, SocketsOf
    <2> QED
      BY <1>0, <1>1, <2>1, PromiseFrame DEF PromiseInv
  <1>2. ASSUME NEW c \in Conns, Connect(c) \/ RejectToken(c)
        PROVE  PromiseInv' /\ [Promise!Next]_(Promise!vars)
    <2>1. /\ UNCHANGED <<announced, closing>> /\ phase[c] \in {"idle", "auth"}
          /\ \E x \in {"idle", "auth"} : phase' = [phase EXCEPT ![c] = x]
      BY <1>2 DEF Connect, RejectToken, Refuse, procVars
    <2> QED
      BY <1>0, <1>1, <2>1 DEF TypeOK
  <1>3. ASSUME NEW c \in Conns, Command(c)
        PROVE  PromiseInv' /\ [Promise!Next]_(Promise!vars)
    <2>1. CallAcquire(c)
      BY <1>0, <1>3 DEF Command, Incr, Expire, GiveBack, AcquireFallsBack, Decr,
         Del, ReleaseFallsBack, Awaiting
    <2>2. phase[c] = "auth" /\ LocalAcquire(c) /\ UNCHANGED closing
      BY <1>0, <2>1 DEF CallAcquire
    <2> QED
      BY <1>0, <2>2, SocketLetIn DEF PromiseInv
  <1>4. ASSUME NEW c \in Conns, Disconnect(c)
        PROVE  PromiseInv' /\ [Promise!Next]_(Promise!vars)
    <2>1. phase[c] = "open" /\ LocalRelease(c) /\ UNCHANGED closing
      BY <1>0, <1>4 DEF Disconnect
    <2> QED
      BY <1>0, <2>1, SocketReleased DEF PromiseInv
  <1>5. ASSUME NEW i \in Instances, Restart(i)
        PROVE  PromiseInv' /\ [Promise!Next]_(Promise!vars)
    BY <1>1, <1>5 DEF Restart, connVars
  <1>6. ASSUME \/ \E c \in Conns : HangUp(c)
               \/ \E i \in Instances : \/ LoseRedis(i) \/ RegainRedis(i)
                                       \/ Crash(i) \/ Close(i) \/ Exit(i)
        PROVE  FALSE
    BY <1>0, <1>6 DEF HangUp, LoseRedis, RegainRedis, Crash, Close, Exit, Inject,
       LocalInv, WithoutRedis
  <1>7. ASSUME NEW u \in Users, TtlFires(u)
        PROVE  PromiseInv' /\ [Promise!Next]_(Promise!vars)
    BY <1>1, <1>7 DEF TtlFires, connVars, procVars
  <1>8. CASE UNCHANGED vars
    BY <1>1, <1>8 DEF vars, connVars, procVars
  <1> QED
    BY <1>2, <1>3, <1>4, <1>5, <1>6, <1>7, <1>8 DEF Next, Environment

\* Without Redis and undisturbed, presence implements ConnectionCap: an account
\* whose sockets meet in one process never holds more than its cap, and the
\* others are told it is online exactly while it holds one.
THEOREM PromiseKept ==
    ASSUME Configured = FALSE, Together, Undisturbed
    PROVE  Spec => KeepsPromise
  <1>1. Init => PromiseInv /\ Promise!Init
    BY PromiseInit
  <1>2. PromiseInv /\ [Next]_vars => PromiseInv' /\ [Promise!Next]_(Promise!vars)
    BY PromiseStep
  <1> QED
    BY <1>1, <1>2, PTL DEF Spec, KeepsPromise, Promise!Spec

-----------------------------------------------------------------------------
(* Until the first fault.  KeysExpire and SilentMeansOffline promise        *)
(* nothing after one, so their invariants hold while the budget is whole:  *)
(* every process is up and sees what it saw at boot, no client has hung    *)
(* up, nothing is stranded, and without Redis the Map is exact.            *)

Calm ==
    /\ \A i \in Instances : /\ link[i] = IF Configured THEN "ready" ELSE "none"
                            /\ up[i] /\ ~closing[i]
    /\ \A c \in Conns : ~gone[c] /\ phase[c] # "kicked"
    /\ \A u \in Users : lostShared[u] = 0
    /\ ~Configured => /\ \A c \in Conns : /\ phase[c] \notin Awaiting
                                          /\ unit[c] # "shared"
                      /\ LocalExact

CalmInv == Accounted /\ budget <= FaultBudget /\ (NoFaultYet => Calm)

\* A key that is not there counts nobody.
MissingIsZero == \A u \in Users : ttl[u] = "missing" => shared[u] = 0

\* A reply to INCR is no more than the account's sockets, so only an account
\* with more of them than its cap is ever refused by Redis.
CountedWithin ==
    \A c \in Conns :
        /\ phase[c] = "expire" => got[c] <= Cardinality(SocketsOf(UserOf[c]))
        /\ phase[c] = "decr" => Cardinality(SocketsOf(UserOf[c])) > MaxPerUser

\* Somebody is left to announce that the account has gone.
Announcing == {"expire", "open", "rel", "del"}
SomebodyLeft ==
    \A u \in Users :
        announced[u] = "online" /\ Cardinality(SocketsOf(u)) <= MaxPerUser
        => \E c \in SocketsOf(u) : phase[c] \in Announcing

QuietInv ==
    /\ CalmInv
    /\ NoFaultYet => KeysExpire /\ MissingIsZero /\ CountedWithin /\ SomebodyLeft

\* Until the first fault every step is one socket's, and none falls back.
SocketStep(c) ==
    \/ Connect(c) \/ RejectToken(c) \/ CallAcquire(c) \/ Incr(c) \/ Expire(c)
    \/ GiveBack(c) \/ Decr(c) \/ Del(c) \/ Disconnect(c)

LEMMA BudgetStep ==
    ASSUME TypeOK, budget <= FaultBudget, [Next]_vars
    PROVE  /\ budget' <= FaultBudget
           /\ NoFaultYet' => NoFaultYet /\ \A kind \in FaultKinds : ~Inject(kind)
  <1>0. budget \in Nat /\ FaultBudget \in Nat
    BY ConfigAssumption DEF TypeOK
  <1>1. budget' = budget \/ \E kind \in FaultKinds : Inject(kind)
    <2>1. ASSUME NEW c \in Conns,
                 Connect(c) \/ RejectToken(c) \/ Command(c) \/ Disconnect(c)
          PROVE  budget' = budget
      BY <2>1 DEF Connect, RejectToken, Disconnect, Command, CallAcquire, Incr,
         Expire, GiveBack, AcquireFallsBack, Decr, Del, ReleaseFallsBack
    <2>2. ASSUME Environment
          PROVE  budget' = budget \/ \E kind \in FaultKinds : Inject(kind)
      BY <2>2 DEF Environment, HangUp, LoseRedis, RegainRedis, Crash, Restart,
         Close, Exit, TtlFires, FaultKinds
    <2> QED
      BY <2>1, <2>2 DEF Next, vars
  <1>2. ASSUME NEW kind, Inject(kind) PROVE budget' = budget - 1
    BY <1>2 DEF Inject
  <1> QED
    BY <1>0, <1>1, <1>2 DEF NoFaultYet

LEMMA CalmNext ==
    ASSUME CalmInv, [Next]_vars, NoFaultYet'
    PROVE  /\ NoFaultYet /\ Calm
           /\ UNCHANGED vars \/ \E c \in Conns : SocketStep(c)
  <1>1. NoFaultYet /\ \A kind \in FaultKinds : ~Inject(kind)
    BY BudgetStep DEF CalmInv, Accounted
  <1>2. Calm
    BY <1>1 DEF CalmInv
  <1>3. \A i \in Instances : up[i] /\ ~closing[i] /\ link[i] # "lost"
    BY <1>2 DEF Calm
  <1>4. ~Environment
    BY <1>1, <1>3 DEF Environment, HangUp, LoseRedis, RegainRedis, Crash,
       Restart, Close, Exit, TtlFires, FaultKinds
  <1>5. \A c \in Conns : ~AcquireFallsBack(c) /\ ~ReleaseFallsBack(c)
    BY <1>3, Owners DEF AcquireFallsBack, ReleaseFallsBack
  <1> QED
    BY <1>1, <1>2, <1>4, <1>5 DEF Next, Command, SocketStep

\* What holds of the sockets' steps taken without Redis.
LEMMA CalmWithoutRedis ==
    ASSUME CalmInv, Calm, ~Configured, NEW c \in Conns, SocketStep(c)
    PROVE  /\ \A d \in Conns : /\ ~gone'[d] /\ phase'[d] \notin Awaiting
                               /\ phase'[d] # "kicked" /\ unit'[d] # "shared"
           /\ UNCHANGED <<link, up, closing, redisVars, lostShared>>
           /\ LocalExact'
  <1>0. /\ TypeOK /\ LocalExact
        /\ \A d \in Conns : ~gone[d] /\ phase[d] \notin Awaiting
                            /\ phase[d] # "kicked" /\ unit[d] # "shared"
        /\ LocalInv /\ ~Usable(c)
    BY Owners DEF CalmInv, Accounted, Calm, LocalInv, WithoutRedis, Usable
  <1>1. CASE Connect(c) \/ RejectToken(c)
    <2>1. /\ phase[c] \in {"idle", "auth"}
          /\ \E x \in {"idle", "auth"} : phase' = [phase EXCEPT ![c] = x]
          /\ gone' = gone \/ gone' = [gone EXCEPT ![c] = FALSE]
          /\ unit' = unit \/ unit' = [unit EXCEPT ![c] = "none"]
          /\ UNCHANGED <<local, link, up, closing, redisVars, lostShared>>
      BY <1>1 DEF Connect, RejectToken, Refuse, procVars, lostVars
    <2>2. \A d \in Conns : phase'[d] \in {"open", "kicked"}
                              <=> phase[d] \in {"open", "kicked"}
      BY <2>1 DEF TypeOK
    <2>3. LocalExact'
      BY <1>0, <2>1, <2>2, LocalFrame
    <2>4. \A d \in Conns : ~gone'[d] /\ unit'[d] # "shared"
      BY <1>0, <2>1 DEF TypeOK
    <2>5. \A d \in Conns : phase'[d] \notin Awaiting /\ phase'[d] # "kicked"
      BY <1>0, <2>1 DEF TypeOK, Awaiting
    <2> QED
      BY <2>1, <2>3, <2>4, <2>5
  <1>2. CASE CallAcquire(c)
    <2>1. /\ phase[c] = "auth" /\ LocalAcquire(c)
          /\ UNCHANGED <<link, up, closing, redisVars, lostShared>>
      BY <1>0, <1>2 DEF CallAcquire
    <2>2. /\ LocalExact'
          /\ \A d \in Conns : ~gone'[d] /\ phase'[d] \notin Awaiting
      BY <1>0, <2>1, LocalAcquireExact
    <2>3. \E x \in {"idle", "open"}, y \in {"none", "local"} :
             phase' = [phase EXCEPT ![c] = x] /\ unit' = [unit EXCEPT ![c] = y]
      BY <2>1 DEF LocalAcquire, Admit, Refuse
    <2>4. \A d \in Conns : phase'[d] # "kicked" /\ unit'[d] # "shared"
      BY <1>0, <2>3 DEF TypeOK
    <2> QED
      BY <2>1, <2>2, <2>4
  <1>3. CASE Disconnect(c)
    <2>1. /\ phase[c] = "open" /\ LocalRelease(c)
          /\ UNCHANGED <<link, up, closing, redisVars, lostShared>>
      BY <1>0, <1>3 DEF Disconnect
    <2>2. /\ LocalExact'
          /\ \A d \in Conns : ~gone'[d] /\ phase'[d] \notin Awaiting
      BY <1>0, <2>1, LocalReleaseExact
    <2>3. phase' = [phase EXCEPT ![c] = "idle"]
          /\ unit' = [unit EXCEPT ![c] = "none"]
      BY <2>1 DEF LocalRelease, Leave
    <2>4. \A d \in Conns : phase'[d] # "kicked" /\ unit'[d] # "shared"
      BY <1>0, <2>3 DEF TypeOK
    <2> QED
      BY <2>1, <2>2, <2>4
  <1>4. CASE Incr(c) \/ Expire(c) \/ GiveBack(c) \/ Decr(c) \/ Del(c)
    BY <1>0, <1>4 DEF Incr, Expire, GiveBack, Decr, Del
  <1> QED
    BY <1>1, <1>2, <1>3, <1>4 DEF SocketStep

\* With Redis no step touches a Map: each handler works on the shared counter.
LEMMA CalmWithRedis ==
    ASSUME CalmInv, Calm, Configured, NEW c \in Conns, SocketStep(c)
    PROVE  /\ \A d \in Conns : ~gone'[d] /\ phase'[d] # "kicked"
           /\ UNCHANGED <<link, up, closing>>
           /\ \A u \in Users : lostShared'[u] = 0
  <1>0. /\ TypeOK /\ Usable(c)
        /\ \A d \in Conns : ~gone[d] /\ phase[d] # "kicked"
        /\ \A u \in Users : lostShared[u] = 0
    BY Owners DEF CalmInv, Accounted, Calm, Usable
  <1>1. /\ \E x \in Phases \ {"kicked"} : phase' = [phase EXCEPT ![c] = x]
        /\ gone' = gone \/ gone' = [gone EXCEPT ![c] = FALSE]
    <2>1. CASE Connect(c) \/ RejectToken(c) \/ GiveBack(c)
      BY <2>1 DEF Connect, RejectToken, GiveBack, Refuse, Phases
    <2>2. CASE CallAcquire(c) \/ Incr(c) \/ Disconnect(c)
      BY <1>0, <2>2 DEF CallAcquire, Incr, Disconnect, Phases
    <2>3. CASE Expire(c)
      BY <1>0, <2>3 DEF Expire, Admit, Phases
    <2>4. CASE Decr(c) \/ Del(c)
      BY <2>4 DEF Decr, Del, Leave, Phases
    <2> QED
      BY <2>1, <2>2, <2>3, <2>4 DEF SocketStep
  <1>2. UNCHANGED <<link, up, closing>>
    BY DEF SocketStep, Connect, RejectToken, CallAcquire, Incr, Expire, GiveBack,
       Decr, Del, Disconnect, procVars
  <1>3. \/ UNCHANGED lostShared
        \/ lostShared' = [lostShared EXCEPT ![UserOf[c]] = 0]
    <2>1. CASE Expire(c)
      BY <1>0, <2>1 DEF Expire
    <2>2. CASE ~Expire(c)
      BY <1>0, <2>2 DEF SocketStep, Connect, RejectToken, CallAcquire, Incr,
         GiveBack, Decr, Del, ForgetKey, Disconnect, lostVars
    <2> QED
      BY <2>1, <2>2
  <1>4. \A d \in Conns : ~gone'[d] /\ phase'[d] # "kicked"
    BY <1>0, <1>1 DEF TypeOK
  <1>5. \A u \in Users : lostShared'[u] = 0
    BY <1>0, <1>3 DEF TypeOK
  <1> QED
    BY <1>2, <1>4, <1>5

LEMMA CalmStep == CalmInv /\ [Next]_vars => CalmInv'
  <1> SUFFICES ASSUME CalmInv, [Next]_vars PROVE CalmInv'
    OBVIOUS
  <1>1. Accounted' /\ budget' <= FaultBudget
    BY AccountedStep, BudgetStep DEF CalmInv, Accounted
  <1>2. ASSUME NoFaultYet' PROVE Calm'
    <2>1. Calm /\ (UNCHANGED vars \/ \E c \in Conns : SocketStep(c))
      BY <1>2, CalmNext
    <2>2. CASE UNCHANGED vars
      <3>1. UNCHANGED <<phase, gone, unit, link, up, closing, lostShared, local>>
        BY <2>2 DEF vars, connVars, procVars, lostVars
      <3>2. LocalExact => LocalExact'
        BY <3>1, LocalFrame
      <3> QED
        BY <2>1, <3>1, <3>2 DEF Calm
    <2>3. ASSUME NEW c \in Conns, SocketStep(c), Configured PROVE Calm'
      BY <2>1, <2>3, CalmWithRedis DEF Calm
    <2>4. ASSUME NEW c \in Conns, SocketStep(c), ~Configured PROVE Calm'
      BY <2>1, <2>4, CalmWithoutRedis DEF Calm
    <2> QED
      BY <2>1, <2>2, <2>3, <2>4, ConfigAssumption
  <1> QED
    BY <1>1, <1>2 DEF CalmInv

LEMMA CalmInit == Init => CalmInv
  <1> SUFFICES ASSUME Init PROVE CalmInv
    OBVIOUS
  <1>1. Accounted /\ budget <= FaultBudget
    BY AccountedInit, ConfigAssumption DEF Init
  <1>2. ~Configured => LocalExact
    BY LocalInit, ConfigAssumption DEF LocalInv
  <1>3. /\ \A i \in Instances : /\ link[i] = IF Configured THEN "ready" ELSE "none"
                                /\ up[i] /\ ~closing[i]
        /\ \A c \in Conns : /\ ~gone[c] /\ phase[c] = "idle" /\ unit[c] = "none"
        /\ \A u \in Users : lostShared[u] = 0
    BY DEF Init
  <1> QED
    BY <1>1, <1>2, <1>3 DEF CalmInv, Calm, Awaiting

\* A key counts nobody, or it will expire: an Incr leaves its own Expire to come,
\* and no other step counts more or leaves "expire" without setting the expiry of
\* a key that is there.
LEMMA ExpiringStep ==
    ASSUME CalmInv, Calm, KeysExpire, MissingIsZero, NoFaultYet,
           NEW c \in Conns, SocketStep(c)
    PROVE  KeysExpire' /\ MissingIsZero'
  <1> DEFINE Expiring(u) ==
                 ttl'[u] = "set" \/ \E d \in SocketsOf(u) : phase'[d] = "expire"
             v == UserOf[c]
  <1>0. TypeOK /\ v \in Users /\ \A u \in Users : shared[u] \in Int
    BY Owners DEF CalmInv, Accounted, TypeOK
  <1> SUFFICES ASSUME NEW u \in Users
               PROVE  /\ shared'[u] > 0 => Expiring(u)
                      /\ ttl'[u] = "missing" => shared'[u] = 0
    BY DEF KeysExpire, MissingIsZero, SocketsOf
  <1>1. ASSUME shared[u] > 0, ttl'[u] = ttl[u],
               \A d \in Conns : phase[d] = "expire" => phase'[d] = "expire"
        PROVE  Expiring(u)
    BY <1>1 DEF KeysExpire, SocketsOf
  <1>2. CASE Connect(c) \/ RejectToken(c) \/ CallAcquire(c) \/ Disconnect(c)
    <2>1. /\ phase[c] # "expire" /\ UNCHANGED redisVars
          /\ \E x : phase' = [phase EXCEPT ![c] = x]
      BY <1>2 DEF Connect, RejectToken, CallAcquire, LocalAcquire, Admit, Refuse,
         Disconnect, LocalRelease, Leave
    <2> QED
      BY <1>0, <1>1, <2>1 DEF TypeOK, MissingIsZero, redisVars
  <1>3. CASE Incr(c)
    <2>1. /\ shared' = [shared EXCEPT ![v] = @ + 1]
          /\ ttl' = [ttl EXCEPT ![v] = IF @ = "missing" THEN "forever" ELSE @]
          /\ phase[c] = "incr" /\ phase' = [phase EXCEPT ![c] = "expire"]
      BY <1>3 DEF Incr
    <2>2. CASE u = v
      BY <1>0, <2>1, <2>2 DEF TypeOK, SocketsOf
    <2>3. CASE u # v
      BY <1>0, <1>1, <2>1, <2>3 DEF TypeOK, MissingIsZero
    <2> QED
      BY <2>2, <2>3
  <1>4. CASE Expire(c)
    <2>1. /\ ttl' = [ttl EXCEPT ![v] = IF @ = "missing" THEN @ ELSE "set"]
          /\ UNCHANGED shared
          /\ \E x : phase' = [phase EXCEPT ![c] = x]
      BY <1>4 DEF Expire, Admit
    <2>2. CASE u = v
      BY <1>0, <2>1, <2>2 DEF TypeOK, MissingIsZero
    <2>3. CASE u # v
      BY <1>0, <2>1, <2>3 DEF KeysExpire, MissingIsZero, TypeOK, SocketsOf
    <2> QED
      BY <2>2, <2>3
  <1>5. CASE GiveBack(c) \/ Decr(c) \/ Del(c)
    <2>1. phase[c] # "expire" /\ \E x : phase' = [phase EXCEPT ![c] = x]
      BY <1>5 DEF GiveBack, Refuse, Decr, Del, Leave
    <2>2. CASE /\ shared' = [shared EXCEPT ![v] = @ - 1]
               /\ ttl' = [ttl EXCEPT ![v] = IF @ = "missing" THEN "forever" ELSE @]
      <3>1. CASE u = v
        <4>1. ttl'[u] # "missing" /\ (ttl[u] # "missing" => ttl'[u] = ttl[u])
          BY <1>0, <2>2, <3>1 DEF TypeOK
        <4>2. shared'[u] > 0 => shared[u] > 0 /\ ttl[u] # "missing"
          BY <1>0, <2>2, <3>1 DEF TypeOK, MissingIsZero
        <4> QED
          BY <1>0, <1>1, <2>1, <4>1, <4>2 DEF TypeOK
      <3>2. CASE u # v
        BY <1>0, <1>1, <2>1, <2>2, <3>2 DEF TypeOK, MissingIsZero
      <3> QED
        BY <3>1, <3>2
    <2>3. CASE ForgetKey(v)
      <3>1. CASE u = v
        BY <1>0, <2>3, <3>1 DEF ForgetKey, TypeOK
      <3>2. CASE u # v
        <4>1. shared'[u] = shared[u] /\ ttl'[u] = ttl[u]
          BY <2>3, <3>2 DEF ForgetKey, TypeOK
        <4> QED
          BY <1>0, <1>1, <2>1, <4>1 DEF TypeOK, MissingIsZero
      <3> QED
        BY <3>1, <3>2
    <2> QED
      BY <1>5, <2>2, <2>3 DEF GiveBack, Decr, Del
  <1> QED
    BY <1>2, <1>3, <1>4, <1>5 DEF SocketStep

\* The counter cannot show an INCR more than the sockets the account has.
LEMMA ReplyWithin ==
    ASSUME CalmInv', Calm', NEW u \in Users
    PROVE  shared'[u] <= Cardinality(SharedHolders(u))'
           /\ Cardinality(SharedHolders(u))' <= Cardinality(SocketsOf(u))
           /\ Cardinality(SharedHolders(u))' \in Nat
           /\ Cardinality(SocketsOf(u)) \in Nat
  <1> DEFINE K == {d \in SocketsOf(u) : unit'[d] = "shared"}
  <1>1. K = SharedHolders(u)' /\ Cardinality(K) = Cardinality(SharedHolders(u))'
    BY DEF SharedHolders, SocketsOf
  <1>2. K \subseteq SocketsOf(u) /\ IsFiniteSet(SocketsOf(u))
        /\ Cardinality(SocketsOf(u)) \in Nat /\ Cardinality(K) \in Nat
    BY SocketSets DEF SocketsOf
  <1>3. Cardinality(K) <= Cardinality(SocketsOf(u))
    BY <1>2, FS_Subset
  <1>4. shared'[u] <= Cardinality(SharedHolders(u))' + lostShared'[u]
        /\ lostShared'[u] = 0
    BY DEF CalmInv, Accounted, SharedAccounted, Calm
  <1> QED
    BY <1>1, <1>2, <1>3, <1>4

LEMMA CountedWithinStep ==
    ASSUME CalmInv, CalmInv', Calm', CountedWithin, NEW c \in Conns,
           SocketStep(c)
    PROVE  CountedWithin'
  <1>0. TypeOK /\ UserOf[c] \in Users /\ Cardinality(SocketsOf(UserOf[c])) \in Nat
    BY Owners, ReplyWithin DEF CalmInv, Accounted
  <1> SUFFICES ASSUME NEW d \in Conns
               PROVE  /\ phase'[d] = "expire"
                            => got'[d] <= Cardinality(SocketsOf(UserOf[d]))
                      /\ phase'[d] = "decr"
                            => Cardinality(SocketsOf(UserOf[d])) > MaxPerUser
    BY DEF CountedWithin, SocketsOf
  <1>1. CASE d # c
    <2>1. /\ \E x : phase' = [phase EXCEPT ![c] = x]
          /\ got' = got \/ \E x : got' = [got EXCEPT ![c] = x]
      <3>1. CASE Connect(c) \/ RejectToken(c) \/ CallAcquire(c)
        BY <3>1 DEF Connect, RejectToken, CallAcquire, LocalAcquire, Admit, Refuse
      <3>2. CASE Incr(c) \/ Expire(c) \/ GiveBack(c)
        BY <3>2 DEF Incr, Expire, GiveBack, Admit, Refuse
      <3>3. CASE Decr(c) \/ Del(c) \/ Disconnect(c)
        BY <3>3 DEF Decr, Del, Disconnect, LocalRelease, Leave
      <3> QED
        BY <3>1, <3>2, <3>3 DEF SocketStep
    <2>2. phase'[d] = phase[d] /\ got'[d] = got[d]
      BY <1>0, <1>1, <2>1 DEF TypeOK
    <2> QED
      BY <2>2 DEF CountedWithin
  <1>2. CASE d = c /\ Incr(c)
    <2>1. /\ phase'[c] = "expire" /\ got'[c] = shared'[UserOf[c]]
      BY <1>0, <1>2 DEF Incr, TypeOK
    <2>2. got'[c] <= Cardinality(SocketsOf(UserOf[c]))
      BY <1>0, <2>1, ReplyWithin DEF CalmInv, Accounted, TypeOK
    <2> QED
      BY <1>2, <2>1, <2>2
  <1>3. CASE d = c /\ Expire(c)
    <2>1. /\ phase[c] = "expire" /\ got[c] <= Cardinality(SocketsOf(UserOf[c]))
          /\ \/ got[c] > MaxPerUser /\ phase'[c] = "decr"
             \/ phase'[c] \in {"idle", "open"}
      BY <1>0, <1>3 DEF Expire, Admit, CountedWithin, TypeOK
    <2>2. got[c] \in Int /\ MaxPerUser \in Nat
      BY <1>0, MaxAssumption DEF TypeOK
    <2> QED
      BY <1>0, <1>3, <2>1, <2>2
  <1>4. CASE d = c /\ ~Incr(c) /\ ~Expire(c)
    <2>1. phase'[c] \notin {"expire", "decr"}
      <3>1. CASE Connect(c) \/ RejectToken(c) \/ CallAcquire(c)
        BY <1>0, <3>1 DEF Connect, RejectToken, CallAcquire, LocalAcquire, Admit,
           Refuse, TypeOK
      <3>2. CASE GiveBack(c) \/ Decr(c) \/ Del(c) \/ Disconnect(c)
        BY <1>0, <3>2 DEF GiveBack, Decr, Del, Disconnect, LocalRelease, Leave,
           Refuse, TypeOK
      <3> QED
        BY <1>4, <3>1, <3>2 DEF SocketStep
    <2> QED
      BY <1>4, <2>1
  <1> QED
    BY <1>1, <1>2, <1>3, <1>4

\* A socket that leaves the counter of an online account above zero leaves
\* another socket behind: the units left belong to somebody.
LEMMA SomebodyElse ==
    ASSUME CalmInv, CalmInv', Calm', CountedWithin', Configured,
           NEW c \in Conns, phase'[c] \in {"idle", "del"},
           shared'[UserOf[c]] >= 1,
           Cardinality(SocketsOf(UserOf[c])) <= MaxPerUser
    PROVE  \E d \in SocketsOf(UserOf[c]) : phase'[d] \in Announcing
  <1> DEFINE u == UserOf[c]
             K == {d \in SocketsOf(u) : unit'[d] = "shared"}
  <1>1. u \in Users /\ shared'[u] \in Int
    BY Owners DEF CalmInv, Accounted, TypeOK
  <1>2. K = SharedHolders(u)' /\ Cardinality(K) = Cardinality(SharedHolders(u))'
    BY DEF SharedHolders, SocketsOf
  <1>3. Cardinality(K) >= 1
    BY <1>1, <1>2, ReplyWithin
  <1>4. PICK d \in K : TRUE
    <2>1. K # {}
      BY <1>3, FS_EmptySet
    <2> QED
      BY <2>1
  <1>5. d \in Conns /\ UserOf[d] = u /\ unit'[d] = "shared"
    BY <1>4 DEF SocketsOf
  <1>6. /\ phase'[d] \in Phases /\ phase'[d] # "kicked"
        /\ phase'[d] \notin {"idle", "auth", "incr", "del"}
    BY <1>5 DEF CalmInv, Accounted, TypeOK, UnitByPhase, Calm
  <1>7. phase'[d] # "decr"
    <2>1. Cardinality(SocketsOf(u)) \in Nat /\ MaxPerUser \in Nat
      BY <1>1, ReplyWithin, MaxAssumption
    <2>2. phase'[d] = "decr" => Cardinality(SocketsOf(u)) > MaxPerUser
      BY <1>5 DEF CountedWithin, SocketsOf
    <2> QED
      BY <2>1, <2>2
  <1>8. phase'[d] \in {"expire", "open", "rel"}
    BY <1>6, <1>7 DEF Phases
  <1> QED
    BY <1>5, <1>8 DEF Announcing, SocketsOf

\* Nobody who could announce the account's end goes before somebody else can,
\* or it is announced.
LEMMA SomebodyLeftStep ==
    ASSUME CalmInv, Calm, CalmInv', Calm', CountedWithin, CountedWithin',
           SomebodyLeft, NEW c \in Conns, SocketStep(c)
    PROVE  SomebodyLeft'
  <1> DEFINE v == UserOf[c]
  <1>0. /\ TypeOK /\ v \in Users /\ InstOf[c] \in Instances
        /\ ~gone[c] /\ ~closing[InstOf[c]] /\ phase[c] # "kicked"
        /\ Configured => Usable(c)
    BY Owners DEF CalmInv, Accounted, Calm, Usable
  <1> SUFFICES ASSUME NEW u \in Users, announced'[u] = "online",
                      Cardinality(SocketsOf(u)) <= MaxPerUser
               PROVE  \E d \in SocketsOf(u) : phase'[d] \in Announcing
    BY DEF SomebodyLeft, SocketsOf
  \* A step that announces nothing and keeps c among those who can.
  <1>1. ASSUME announced'[u] = announced[u],
               NEW x, phase' = [phase EXCEPT ![c] = x],
               \/ v # u
               \/ phase[c] \notin Announcing
               \/ x \in Announcing
        PROVE  \E d \in SocketsOf(u) : phase'[d] \in Announcing
    <2>1. PICK d \in SocketsOf(u) : phase[d] \in Announcing
      BY <1>1 DEF SomebodyLeft
    <2>2. d \in Conns /\ UserOf[d] = u
      BY <2>1 DEF SocketsOf
    <2>3. phase'[d] \in Announcing
      BY <1>0, <1>1, <2>1, <2>2 DEF TypeOK
    <2> QED
      BY <2>1, <2>3
  \* A step that ends with c among those who can.
  <1>2. ASSUME v = u, phase'[c] \in Announcing
        PROVE  \E d \in SocketsOf(u) : phase'[d] \in Announcing
    BY <1>2 DEF SocketsOf
  <1>3. CASE Connect(c) \/ RejectToken(c) \/ Incr(c) \/ GiveBack(c)
    <2>1. /\ phase[c] \notin Announcing /\ UNCHANGED announced
          /\ \E x : phase' = [phase EXCEPT ![c] = x]
      BY <1>3 DEF Connect, RejectToken, Incr, GiveBack, Refuse, Announcing
    <2> QED
      BY <1>1, <2>1
  <1>4. CASE CallAcquire(c)
    <2>1. /\ phase[c] \notin Announcing
          /\ \E x : /\ phase' = [phase EXCEPT ![c] = x]
                    /\ \/ UNCHANGED announced
                       \/ x = "open" /\ announced' = [announced EXCEPT ![v] = "online"]
      BY <1>0, <1>4 DEF CallAcquire, LocalAcquire, Admit, Refuse, Announcing
    <2>2. v # u => announced'[u] = announced[u]
      BY <1>0, <2>1 DEF TypeOK
    <2>3. phase'[c] = "open" \/ UNCHANGED announced
      BY <1>0, <2>1 DEF TypeOK
    <2> QED
      BY <1>1, <1>2, <2>1, <2>2, <2>3 DEF Announcing
  <1>5. CASE Expire(c)
    <2>1. /\ phase[c] = "expire"
          /\ \/ /\ got[c] > MaxPerUser /\ phase' = [phase EXCEPT ![c] = "decr"]
                /\ UNCHANGED announced
             \/ /\ phase' = [phase EXCEPT ![c] = "open"]
                /\ announced' = IF got[c] = 1
                                THEN [announced EXCEPT ![v] = "online"]
                                ELSE announced
      BY <1>0, <1>5 DEF Expire, Admit
    <2>2. CASE v # u
      <3>1. announced'[u] = announced[u]
        BY <1>0, <2>1, <2>2 DEF TypeOK
      <3> QED
        BY <1>1, <2>1, <2>2, <3>1
    <2>3. CASE v = u
      <3>1. /\ got[c] <= Cardinality(SocketsOf(u)) /\ got[c] \in Int
            /\ Cardinality(SocketsOf(u)) \in Nat /\ MaxPerUser \in Nat
        BY <1>0, <2>1, <2>3, ReplyWithin, MaxAssumption
        DEF CountedWithin, TypeOK
      <3>2. ~(got[c] > MaxPerUser)
        BY <3>1
      <3>3. phase'[c] = "open"
        BY <1>0, <2>1, <3>2 DEF TypeOK
      <3> QED
        BY <1>2, <2>3, <3>3 DEF Announcing
    <2> QED
      BY <2>2, <2>3
  <1>6. CASE Decr(c)
    <2>1. /\ phase[c] = "rel" /\ shared' = [shared EXCEPT ![v] = @ - 1]
          /\ \/ phase' = [phase EXCEPT ![c] = "del"]
             \/ ~(shared'[v] <= 0) /\ phase' = [phase EXCEPT ![c] = "idle"]
          /\ UNCHANGED announced
      BY <1>6 DEF Decr, Leave
    <2>2. CASE v # u \/ phase' = [phase EXCEPT ![c] = "del"]
      BY <1>1, <2>1, <2>2 DEF Announcing
    <2>3. CASE v = u /\ ~(shared'[v] <= 0) /\ phase' = [phase EXCEPT ![c] = "idle"]
      <3>1. shared'[v] >= 1 /\ phase'[c] = "idle"
        BY <1>0, <2>1, <2>3 DEF TypeOK
      <3>2. Configured
        BY <1>0, <2>1, ConfigAssumption DEF Calm, Awaiting
      <3> QED
        BY <2>3, <3>1, <3>2, SomebodyElse
    <2> QED
      BY <2>1, <2>2, <2>3
  <1>7. CASE Del(c)
    <2>1. /\ announced' = [announced EXCEPT ![v] = "offline"]
          /\ phase' = [phase EXCEPT ![c] = "idle"]
      BY <1>0, <1>7 DEF Del, Leave
    <2>2. v # u /\ announced'[u] = announced[u]
      BY <1>0, <2>1 DEF TypeOK
    <2> QED
      BY <1>1, <2>1, <2>2
  <1>8. CASE Disconnect(c)
    <2>1. CASE phase' = [phase EXCEPT ![c] = "rel"] /\ UNCHANGED announced
      BY <1>1, <2>1 DEF Announcing
    <2>2. CASE ~Configured /\ LocalRelease(c)
      <3>1. /\ phase' = [phase EXCEPT ![c] = "idle"]
            /\ announced' = IF local[InstOf[c]][v] <= 1
                            THEN [announced EXCEPT ![v] = "offline"]
                            ELSE announced
        BY <1>0, <2>2 DEF LocalRelease, Leave
      <3>2. CASE v # u
        <4>1. announced'[u] = announced[u]
          BY <1>0, <3>1, <3>2 DEF TypeOK
        <4> QED
          BY <1>1, <3>1, <3>2, <4>1
      <3>3. CASE v = u
        <4> DEFINE H == Held(InstOf[c], v)
        <4>1. ~(local[InstOf[c]][v] <= 1)
          BY <1>0, <3>1, <3>3 DEF TypeOK
        <4>2. local[InstOf[c]][v] = Cardinality(H) /\ IsFiniteSet(H)
              /\ Cardinality(H) \in Nat
          BY <1>0, <2>2, SocketSets DEF Calm, LocalExact, Held, SocketsOf
        <4>3. PICK d \in H : d # c
          <5>1. CASE c \notin H
            <6>1. H # {}
              BY <4>1, <4>2, FS_EmptySet
            <6> QED
              BY <5>1, <6>1
          <5>2. CASE c \in H
            <6>1. Cardinality(H \ {c}) = Cardinality(H) - 1
              BY <4>2, <5>2, FS_RemoveElement
            <6>2. Cardinality(H \ {c}) # 0
              BY <4>1, <4>2, <6>1
            <6>3. H \ {c} # {}
              BY <6>2, FS_EmptySet
            <6> QED
              BY <6>3
          <5> QED
            BY <5>1, <5>2
        <4>4. d \in SocketsOf(u) /\ d \in Conns /\ phase[d] = "open"
          BY <3>3, <4>3 DEF Held, SocketsOf, Calm
        <4>5. phase'[d] = "open"
          BY <1>0, <3>1, <4>3, <4>4 DEF TypeOK
        <4> QED
          BY <4>4, <4>5 DEF Announcing
      <3> QED
        BY <3>2, <3>3
    <2> QED
      BY <1>0, <1>8, <2>1, <2>2, ConfigAssumption DEF Disconnect
  <1> QED
    BY <1>3, <1>4, <1>5, <1>6, <1>7, <1>8 DEF SocketStep

LEMMA QuietInit == Init => QuietInv
  <1> SUFFICES ASSUME Init PROVE QuietInv
    OBVIOUS
  <1>1. CalmInv
    BY CalmInit
  <1>2. /\ \A u \in Users : shared[u] = 0 /\ announced[u] = "offline"
        /\ \A c \in Conns : phase[c] = "idle"
    BY DEF Init
  <1> QED
    BY <1>1, <1>2 DEF QuietInv, KeysExpire, MissingIsZero, CountedWithin,
       SomebodyLeft

LEMMA QuietStep == QuietInv /\ [Next]_vars => QuietInv'
  <1> SUFFICES ASSUME QuietInv, [Next]_vars PROVE QuietInv'
    OBVIOUS
  <1>1. CalmInv /\ CalmInv'
    BY CalmStep DEF QuietInv
  <1>2. ASSUME NoFaultYet'
        PROVE  KeysExpire' /\ MissingIsZero' /\ CountedWithin' /\ SomebodyLeft'
    <2>1. /\ NoFaultYet /\ Calm /\ Calm'
          /\ UNCHANGED vars \/ \E c \in Conns : SocketStep(c)
      BY <1>1, <1>2, CalmNext DEF CalmInv
    <2>2. KeysExpire /\ MissingIsZero /\ CountedWithin /\ SomebodyLeft
      BY <2>1 DEF QuietInv
    <2>3. CASE UNCHANGED vars
      <3>1. UNCHANGED <<phase, got, shared, ttl, announced, budget>>
        BY <2>3 DEF vars, connVars, redisVars
      <3> QED
        BY <2>2, <3>1
        DEF KeysExpire, MissingIsZero, CountedWithin, SomebodyLeft, SocketsOf,
            NoFaultYet
    <2>4. ASSUME NEW c \in Conns, SocketStep(c)
          PROVE  KeysExpire' /\ MissingIsZero' /\ CountedWithin' /\ SomebodyLeft'
      <3>1. CountedWithin'
        BY <1>1, <2>1, <2>2, <2>4, CountedWithinStep
      <3> QED
        BY <1>1, <2>1, <2>2, <2>4, <3>1, ExpiringStep, SomebodyLeftStep
    <2> QED
      BY <2>1, <2>3, <2>4
  <1> QED
    BY <1>1, <1>2 DEF QuietInv

\* Until the first fault a key that counts somebody expires by itself, however
\* the handshakes and disconnects of its account interleave.
THEOREM CountedKeysExpire == Spec => []KeysExpire
  <1>1. QuietInv => KeysExpire
    BY DEF QuietInv, KeysExpire
  <1> QED
    BY <1>1, QuietInit, QuietStep, PTL DEF Spec

\* Until the first fault an account that cannot exceed its cap and has no socket
\* left is one the other clients were told is offline, with Redis and without.
THEOREM SilentAccountOffline == Spec => []SilentMeansOffline
  <1>1. QuietInv => SilentMeansOffline
    <2> SUFFICES ASSUME QuietInv, NEW u \in Users, NoFaultYet,
                        Cardinality(SocketsOf(u)) <= MaxPerUser,
                        \A c \in SocketsOf(u) : phase[c] = "idle"
                 PROVE  announced[u] = "offline"
      BY DEF SilentMeansOffline
    <2>1. announced[u] \in {"online", "offline"}
      BY DEF QuietInv, CalmInv, Accounted, TypeOK
    <2>2. announced[u] # "online"
      BY DEF QuietInv, SomebodyLeft, Announcing
    <2> QED
      BY <2>1, <2>2
  <1> QED
    BY <1>1, QuietInit, QuietStep, PTL DEF Spec

=============================================================================
