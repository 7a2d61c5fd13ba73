--------------------------- MODULE BlacklistProofs ---------------------------
(***************************************************************************)
(* Proof that SecurityManager lists an address when it should, only then,   *)
(* and keeps the ban in memory and in Redis but for the cases BanHolds and  *)
(* BanSaved name, for any number of servers and threads, any limit, window  *)
(* and length of the ban, and any number of failed commands and restarts.   *)
(***************************************************************************)
EXTENDS Blacklist, FiniteSetTheorems, SequenceTheorems, WellFoundedInduction, TLAPS

-----------------------------------------------------------------------------
(* Sets of indices and the loop of AbnormalRecord::AbnormalBehavior *)

\* A set of natural numbers has a least one.
LEMMA Least ==
  ASSUME NEW T, T \subseteq Nat, T # {}
  PROVE  \E i \in T : \A j \in T : i <= j
<1>1. \E i \in T : \A j \in T : ~(<<j, i>> \in OpToRel(<, Nat))
  BY NatLessThanWellFounded, WFMin
<1>2. PICK i \in T : \A j \in T : ~(<<j, i>> \in OpToRel(<, Nat))
  BY <1>1
<1>3. \A j \in T : ~(j < i)
  BY <1>2 DEF OpToRel
<1> QED
  BY <1>3

\* What Recent returns: the end of the list, from the first entry that is recent.
LEMMA RecentIs ==
  ASSUME NEW list \in Seq(Times), NEW time \in Times
  PROVE  \E f \in 1 .. Len(list) + 1 :
           /\ Recent(list, time) = SubSeq(list, f, Len(list))
           /\ \A i \in 1 .. f - 1 : time - list[i] > Window
           /\ f <= Len(list) => time - list[f] <= Window
<1> DEFINE keep == {i \in DOMAIN list : time - list[i] <= Window}
           first == IF keep = {} THEN Len(list) + 1
                    ELSE CHOOSE i \in keep : \A j \in keep : i <= j
<1>1. Len(list) \in Nat /\ DOMAIN list = 1 .. Len(list) /\ \A i \in 1 .. Len(list) : list[i] \in Times
  BY LenProperties, ElementOfSeq
<1>2. Times \subseteq Int /\ Window \in Nat
  BY BlacklistAssumption DEF Times
<1>3. Recent(list, time) = SubSeq(list, first, Len(list))
  BY DEF Recent
<1>4. CASE keep = {}
  <2>1. first = Len(list) + 1
    BY <1>4
  <2> HIDE DEF first
  <2>2. \A i \in 1 .. first - 1 : time - list[i] > Window
    <3> TAKE i \in 1 .. first - 1
    <3>1. i \in 1 .. Len(list)
      BY <1>1, <2>1
    <3>2. i \in DOMAIN list /\ list[i] \in Int /\ time \in Int
      BY <1>1, <1>2, <3>1
    <3>3. ~(time - list[i] <= Window)
      BY <1>4, <3>2
    <3> QED
      BY <1>2, <3>2, <3>3
  <2>3. first \in 1 .. Len(list) + 1
    BY <1>1, <2>1
  <2> HIDE DEF first, keep
  <2> QED
    BY <1>1, <1>3, <2>1, <2>2, <2>3
<1>5. CASE keep # {}
  <2>1. keep \subseteq Nat
    BY <1>1
  <2>2. \E i \in keep : \A j \in keep : i <= j
    <3> HIDE DEF keep
    <3> QED
      BY <1>5, <2>1, Least
  <2>3. first \in keep /\ \A j \in keep : first <= j
    <3> HIDE DEF keep
    <3> QED
      BY <1>5, <2>2
  <2> HIDE DEF first
  <2>4. first \in 1 .. Len(list) /\ time - list[first] <= Window
    BY <1>1, <2>3
  <2>5. \A i \in 1 .. first - 1 : time - list[i] > Window
    <3> TAKE i \in 1 .. first - 1
    <3>1. i \in DOMAIN list /\ i < first
      BY <1>1, <2>4
    <3>2. i \notin keep
      BY <1>1, <2>3, <2>4, <3>1
    <3>3. list[i] \in Int /\ time \in Int
      BY <1>1, <1>2, <3>1
    <3> QED
      BY <1>2, <3>1, <3>2, <3>3
  <2> HIDE DEF keep
  <2> QED
    BY <1>1, <1>3, <2>4, <2>5
<1> QED
  BY <1>4, <1>5

\* Indices of a list.
LEMMA IndexSets ==
  ASSUME NEW n \in Nat, NEW m \in 0 .. n, NEW A, A \subseteq 1 .. n
  PROVE  /\ IsFiniteSet(A) /\ Cardinality(A) \in Nat
         /\ (m + 1) .. n \subseteq A => Cardinality(A) >= n - m
         /\ A \subseteq (m + 1) .. n => Cardinality(A) <= n - m
         /\ \A B : B \subseteq A => IsFiniteSet(B) /\ Cardinality(B) <= Cardinality(A)
<1>1. IsFiniteSet(1 .. n) /\ IsFiniteSet((m + 1) .. n) /\ Cardinality((m + 1) .. n) = n - m
  BY FS_Interval
<1>2. IsFiniteSet(A)
  BY <1>1, FS_Subset
<1>3. Cardinality(A) \in Nat
  BY <1>2, FS_CardinalityType
<1>4. (m + 1) .. n \subseteq A => Cardinality(A) >= n - m
  <2>1. (m + 1) .. n \subseteq A => Cardinality((m + 1) .. n) <= Cardinality(A)
    BY <1>2, FS_Subset
  <2> QED
    BY <1>1, <1>3, <2>1
<1>5. A \subseteq (m + 1) .. n => Cardinality(A) <= n - m
  <2>1. A \subseteq (m + 1) .. n => Cardinality(A) <= Cardinality((m + 1) .. n)
    BY <1>1, FS_Subset
  <2> QED
    BY <1>1, <2>1
<1>6. \A B : B \subseteq A => IsFiniteSet(B) /\ Cardinality(B) <= Cardinality(A)
  BY <1>2, FS_Subset
<1> QED
  BY <1>2, <1>3, <1>4, <1>5, <1>6

-----------------------------------------------------------------------------
(* Steps that leave the history alone *)

\* A thread sets its call, and the others keep theirs.
Sets(v, k, r) == th' = [th EXCEPT ![v][k] = r]
IsSet(v, k, r) ==
  /\ th' \in [Servers -> [Threads -> Call]] /\ th'[v][k] = r
  /\ \A u \in Servers, l \in Threads : u # v \/ l # k => th'[u][l] = th[u][l]

LEMMA SetCall ==
  ASSUME BlacklistInv, NEW v \in Servers, NEW k \in Threads, NEW r \in Call, Sets(v, k, r)
  PROVE  IsSet(v, k, r)
<1>1. th \in [Servers -> [Threads -> Call]]
  BY DEF BlacklistInv, TypeOK
<1> QED
  BY <1>1 DEF Sets, IsSet

LEMMA Lists ==
  ASSUME TypeOK, NEW v \in Servers
  PROVE  /\ Len(past[v]) \in Nat /\ Len(record[v]) \in Nat
         /\ DOMAIN past[v] = 1 .. Len(past[v])
         /\ \A i \in 1 .. Len(past[v]) : past[v][i] \in Nat /\ past[v][i] \in Times
         /\ \A i \in 1 .. Len(record[v]) : record[v][i] \in Nat /\ record[v][i] \in Times
<1>1. past[v] \in Seq(Times) /\ record[v] \in Seq(Times) /\ Times \subseteq Nat
  BY DEF TypeOK, Times
<1> QED
  BY <1>1, LenProperties, ElementOfSeq

\* Nobody begins to list the address or stops, and the clock does not go back.
Calm ==
  /\ UNCHANGED <<record, past, listed>> /\ now' \in Nat /\ now <= now'
  /\ \A v \in Servers, k \in Threads :
       /\ th'[v][k].pc = "add" => th[v][k].pc = "add" /\ th'[v][k].time = th[v][k].time
       /\ th[v][k].pc = "add" => th'[v][k].pc = "add"

LEMMA CalmKeeps ==
  ASSUME BlacklistInv, Calm
  PROVE  HistoryInv' /\ BurstInv' /\ ListedOnlyIfAbnormal'
<1>1. now \in Nat /\ Window \in Nat
  BY BlacklistAssumption DEF BlacklistInv, TypeOK, Times
<1>2. \A v \in Servers : /\ Len(past[v]) \in Nat /\ Len(record[v]) \in Nat
                         /\ \A i \in 1 .. Len(past[v]) : past[v][i] \in Nat
  BY Lists DEF BlacklistInv
<1>3. \A v \in Servers : Missing(v)' = Missing(v) /\ Missing(v) \in Int
  BY <1>2 DEF Missing, Calm
<1>4. HistoryInv'
  <2> SUFFICES ASSUME NEW v \in Servers
               PROVE  /\ Missing(v) >= 0
                      /\ \A i \in 1 .. Len(record[v]) : record[v][i] = past[v][Missing(v) + i]
                      /\ \A i \in 1 .. Missing(v) : past[v][i] + Window < now'
                      /\ \A i, j \in 1 .. Len(past[v]) : i < j => past[v][i] <= past[v][j] + 1
                      /\ \A i \in 1 .. Len(past[v]) : past[v][i] <= now'
    BY <1>3 DEF HistoryInv, Calm
  <2>1. /\ Missing(v) >= 0
        /\ \A i \in 1 .. Len(record[v]) : record[v][i] = past[v][Missing(v) + i]
        /\ \A i \in 1 .. Missing(v) : past[v][i] + Window < now
        /\ \A i, j \in 1 .. Len(past[v]) : i < j => past[v][i] <= past[v][j] + 1
        /\ \A i \in 1 .. Len(past[v]) : past[v][i] <= now
    BY DEF BlacklistInv, HistoryInv
  <2>2. \A i \in 1 .. Missing(v) : past[v][i] \in Nat
    BY <1>2, <1>3, <2>1 DEF Missing
  <2> QED
    BY <1>1, <1>2, <2>1, <2>2 DEF Calm
<1>5. BurstInv'
  <2> SUFFICES ASSUME NEW v \in Servers, \A k \in Threads : th'[v][k].pc # "add",
                      NEW i \in 1 .. Len(past[v]), Cardinality(Burst(v, i)) >= Limit
               PROVE  listed[v] # Nil /\ listed[v] >= past[v][i] - 1
    BY DEF BurstInv, Burst, Calm
  <2>1. \A k \in Threads : th[v][k].pc # "add"
    BY DEF Calm
  <2> QED
    BY <2>1 DEF BlacklistInv, BurstInv
<1>6. ListedOnlyIfAbnormal'
  BY DEF BlacklistInv, ListedOnlyIfAbnormal, Calm
<1> QED
  BY <1>4, <1>5, <1>6

-----------------------------------------------------------------------------
(* The ban *)

\* The facts about numbers that every step uses.
LEMMA Clock ==
  ASSUME TypeOK
  PROVE  /\ now \in Nat /\ Nil \notin Nat /\ Window \in Nat /\ BanTime \in Nat \ {0}
         /\ Limit \in Nat \ {0} /\ Times \subseteq Nat
         /\ redis \in Nat \cup {Nil}
         /\ \A v \in Servers : listed[v] \in Nat \cup {Nil} /\ blackLists[v] \in Nat \cup {Nil}
BY BlacklistAssumption DEF TypeOK, Times, Entry

\* A Redis command works or fails.
LEMMA CommandCounted ==
  ASSUME TypeOK, Works \/ Fails
  PROVE  faults' \in 0 .. MaxFaults
BY BlacklistAssumption DEF TypeOK, Works, Fails

\* An entry that has expired is not the one of a ban that is on.
LEMMA ExpiredNotBanned ==
  ASSUME TypeOK, CallInv, NEW v \in Servers, Banned(v), NEW e \in Nat, Expired(e)
  PROVE  ~Covers(e, v)
<1>1. now \in Nat /\ listed[v] \in Nat /\ BanTime \in Nat
  BY Clock DEF Banned
<1>2. now - listed[v] < BanTime - 1 /\ now - e >= BanTime
  BY DEF Banned, Expired
<1> QED
  BY <1>1, <1>2 DEF Covers

\* A removal leaves the copy of a ban that is on, or the ban counts as not saved.
LEMMA Deleted ==
  ASSUME TypeOK, CallInv, NEW t \in Nat, Expired(t), DeleteCopy(t)
  PROVE  /\ faults' \in 0 .. MaxFaults /\ redis' \in Entry /\ unsaved' \subseteq Servers
         /\ \A u \in Servers : Banned(u) /\ u \notin unsaved' =>
              u \notin unsaved /\ (Covers(redis, u) => redis' = redis)
<1>1. redis \in Entry /\ Nil \in Entry /\ unsaved \subseteq Servers
  BY DEF TypeOK, Entry
<1>2. CASE Works /\ redis' = Nil
           /\ unsaved' = IF redis \in {Nil, t} THEN unsaved ELSE Servers
  <2>1. faults' \in 0 .. MaxFaults /\ redis' \in Entry /\ unsaved' \subseteq Servers
    BY <1>1, <1>2, CommandCounted
  <2>2. ASSUME NEW u \in Servers, Banned(u), u \notin unsaved'
        PROVE  u \notin unsaved /\ ~Covers(redis, u)
    <3>1. u \notin unsaved /\ redis \in {Nil, t}
      BY <1>2, <2>2
    <3>2. ~Covers(t, u) /\ ~Covers(Nil, u)
      BY <2>2, ExpiredNotBanned DEF Covers
    <3> QED
      BY <3>1, <3>2
  <2> QED
    BY <2>1, <2>2
<1>3. CASE Fails /\ UNCHANGED <<redis, unsaved>>
  BY <1>1, <1>3, CommandCounted
<1> QED
  BY <1>2, <1>3 DEF DeleteCopy

\* The time of an abnormal behaviour is as good as any entry.
LEMMA RecentCovers ==
  ASSUME TypeOK, CallInv, NEW v \in Servers, listed[v] # Nil, NEW e \in Nat, e >= now - 1
  PROVE  Covers(e, v)
<1>1. now \in Nat /\ listed[v] \in Nat /\ listed[v] <= now /\ e # Nil
  BY Clock DEF CallInv
<1> QED
  BY <1>1 DEF Covers

\* A call of a thread, before and after.
LEMMA CallFacts ==
  ASSUME BlacklistInv, NEW v \in Servers, NEW k \in Threads
  PROVE  /\ th[v][k] \in Call
         /\ th[v][k].pc \in Reading =>
              /\ th[v][k].time \in Times /\ th[v][k].time \in Nat
              /\ now - 1 <= th[v][k].time /\ th[v][k].time <= now
         /\ th[v][k].pc \in Removing =>
              th[v][k].time \in Times /\ th[v][k].time \in Nat /\ Expired(th[v][k].time)
<1>1. th[v][k] \in Call /\ now \in Nat /\ Times \subseteq Nat
  BY Clock DEF BlacklistInv, TypeOK
<1>2. th[v][k].pc \in Reading =>
        /\ th[v][k].time \in Times
        /\ th[v][k].time \in {now, IF th[v][k].late THEN now - 1 ELSE now}
  BY DEF BlacklistInv, CallInv
<1>3. th[v][k].pc \in Removing => th[v][k].time \in Times /\ Expired(th[v][k].time)
  BY DEF BlacklistInv, CallInv
<1>4. th[v][k].pc \in Reading => th[v][k].time = now \/ th[v][k].time = now - 1
  BY <1>2
<1>5. th[v][k].pc \in Reading => now - 1 <= th[v][k].time /\ th[v][k].time <= now
  BY <1>1, <1>4
<1> QED
  BY <1>1, <1>2, <1>3, <1>5

\* A step of thread k of server v that is not a tick: the calls of the others stay.
LEMMA CallKept ==
  ASSUME BlacklistInv, NEW v \in Servers, NEW k \in Threads, NEW r \in Call,
         Sets(v, k, r), UNCHANGED <<now, boot>>,
         r.pc \in Reading =>
           r.time \in Times /\ r.time \in {now, IF r.late THEN now - 1 ELSE now},
         r.pc \in Removing => r.time \in Times /\ Expired(r.time),
         boot[v].pc # "idle" => r.pc = "idle",
         \A u \in Servers : listed'[u] # Nil => listed'[u] <= now
  PROVE  CallInv'
<1>1. /\ th'[v][k] = r
      /\ \A u \in Servers, l \in Threads : u # v \/ l # k => th'[u][l] = th[u][l]
  BY SetCall DEF IsSet
<1> SUFFICES ASSUME NEW u \in Servers
             PROVE  /\ \A l \in Threads :
                         /\ th'[u][l].pc \in Reading =>
                              /\ th'[u][l].time \in Times
                              /\ th'[u][l].time \in {now, IF th'[u][l].late THEN now - 1 ELSE now}
                         /\ th'[u][l].pc \in Removing =>
                              th'[u][l].time \in Times /\ Expired(th'[u][l].time)
                         /\ boot[u].pc # "idle" => th'[u][l].pc = "idle"
                    /\ boot[u].pc = "hdel" => boot[u].time \in Times /\ now - boot[u].time > BanTime
                    /\ listed'[u] # Nil => listed'[u] <= now
  BY DEF CallInv, Expired
<1>2. ASSUME NEW l \in Threads
      PROVE  /\ th'[u][l].pc \in Reading =>
                  /\ th'[u][l].time \in Times
                  /\ th'[u][l].time \in {now, IF th'[u][l].late THEN now - 1 ELSE now}
             /\ th'[u][l].pc \in Removing =>
                  th'[u][l].time \in Times /\ Expired(th'[u][l].time)
             /\ boot[u].pc # "idle" => th'[u][l].pc = "idle"
  <2>1. CASE u = v /\ l = k
    BY <1>1, <2>1
  <2>2. CASE u # v \/ l # k
    BY <1>1, <2>2 DEF BlacklistInv, CallInv
  <2> QED
    BY <2>1, <2>2
<1> QED
  BY <1>2 DEF BlacklistInv, CallInv

\* A step that leaves the entries alone.
LEMMA BanKept ==
  ASSUME BlacklistInv, UNCHANGED <<listed, redis, blackLists, unsaved, lost>>,
         now' \in Nat, now <= now',
         \A u \in Servers : boot'[u].pc = boot[u].pc,
         \A u \in Servers, l \in Threads : th[u][l].pc = "hset" => th'[u][l].pc = "hset"
  PROVE  BanInv'
<1>1. now \in Nat /\ BanTime \in Nat /\ \A u \in Servers : listed[u] \in Nat \cup {Nil}
  BY Clock DEF BlacklistInv
<1>2. \A u \in Servers : Banned(u)' => Banned(u)
  BY <1>1 DEF Banned
<1> QED
  BY <1>2 DEF BlacklistInv, BanInv, Covers

LEMMA CheckBlackListStep ==
  ASSUME BlacklistInv, NEW v \in Servers, NEW k \in Threads, CheckBlackList(v, k)
  PROVE  BlacklistInv'
<1> DEFINE r == [Idle EXCEPT !.pc = "hdel", !.time = blackLists[v]]
<1>1. UNCHANGED <<now, record, blackLists, redis, boot, abnormal, crashes, faults, listed,
                  past, unsaved, lost>>
  BY DEF CheckBlackList, bounds
<1>2. /\ boot[v].pc = "idle" /\ th[v][k].pc = "idle"
      /\ blackLists[v] # Nil /\ Expired(blackLists[v]) /\ Sets(v, k, r)
  BY DEF CheckBlackList, Free, Sets
<1>3. blackLists[v] \in Times /\ now \in Nat
  BY <1>2, Clock DEF BlacklistInv, TypeOK, Entry
<1>4. r \in Call /\ r.pc = "hdel" /\ r.time = blackLists[v]
  BY <1>3 DEF Idle, Call, Entry
<1> HIDE DEF r
<1>5. /\ th' \in [Servers -> [Threads -> Call]] /\ th'[v][k] = r
      /\ \A u \in Servers, l \in Threads : u # v \/ l # k => th'[u][l] = th[u][l]
  BY <1>2, <1>4, SetCall DEF IsSet
<1>6. TypeOK'
  BY <1>1, <1>5 DEF BlacklistInv, TypeOK
<1>7. \A u \in Servers : listed[u] # Nil => listed[u] <= now
  BY DEF BlacklistInv, CallInv
<1>8. CallInv'
  BY <1>1, <1>2, <1>3, <1>4, <1>7, CallKept DEF Reading, Removing
<1>9. Calm
  BY <1>1, <1>2, <1>3, <1>4, <1>5 DEF Calm
<1>10. BanInv'
  BY <1>1, <1>2, <1>3, <1>4, <1>5, BanKept
<1> QED
  BY <1>6, <1>8, <1>9, <1>10, CalmKeeps DEF BlacklistInv

LEMMA HdelStep ==
  ASSUME BlacklistInv, NEW v \in Servers, NEW k \in Threads, Hdel(v, k)
  PROVE  BlacklistInv'
<1> DEFINE r == [th[v][k] EXCEPT !.pc = "remove"]
           t == th[v][k].time
<1>1. UNCHANGED <<now, record, blackLists, boot, abnormal, crashes, listed, past, lost>>
  BY DEF Hdel
<1>2. th[v][k].pc = "hdel" /\ DeleteCopy(t) /\ Sets(v, k, r)
  BY DEF Hdel, Goto, Sets
<1>3. th[v][k] \in Call /\ t \in Times /\ t \in Nat /\ Expired(t)
  BY <1>2, CallFacts DEF Removing
<1>4. r \in Call /\ r.pc = "remove" /\ r.time = t
  BY <1>3 DEF Call
<1> HIDE DEF r
<1>5. /\ th' \in [Servers -> [Threads -> Call]] /\ th'[v][k] = r
      /\ \A u \in Servers, l \in Threads : u # v \/ l # k => th'[u][l] = th[u][l]
  BY <1>2, <1>4, SetCall DEF IsSet
<1>6. /\ faults' \in 0 .. MaxFaults /\ redis' \in Entry /\ unsaved' \subseteq Servers
      /\ \A u \in Servers : Banned(u) /\ u \notin unsaved' =>
           u \notin unsaved /\ (Covers(redis, u) => redis' = redis)
  BY <1>2, <1>3, Deleted DEF BlacklistInv
<1>7. TypeOK'
  BY <1>1, <1>5, <1>6 DEF BlacklistInv, TypeOK
<1>8. /\ \A u \in Servers : listed[u] # Nil => listed[u] <= now
      /\ boot[v].pc = "idle" /\ now \in Nat
  BY <1>2, Clock DEF BlacklistInv, CallInv
<1>9. CallInv'
  BY <1>1, <1>2, <1>3, <1>4, <1>8, CallKept DEF Reading, Removing
<1>10. Calm
  BY <1>1, <1>2, <1>4, <1>5, <1>8 DEF Calm
<1>11. BanInv'
  <2> SUFFICES ASSUME NEW u \in Servers, Banned(u)'
               PROVE  /\ u \notin lost /\ boot[u].pc = "idle" => Covers(blackLists[u], u)
                      /\ u \notin unsaved' /\ (\A l \in Threads : th'[u][l].pc # "hset") =>
                           Covers(redis', u)
                      /\ u \notin lost /\ boot[u].pc # "idle" => boot[u].pc = "get"
    BY <1>1 DEF BanInv, Covers
  <2>1. Banned(u)
    BY <1>1 DEF Banned
  <2>2. (\A l \in Threads : th'[u][l].pc # "hset") => \A l \in Threads : th[u][l].pc # "hset"
    BY <1>2, <1>5
  <2> QED
    BY <1>6, <2>1, <2>2 DEF BlacklistInv, BanInv
<1> QED
  BY <1>7, <1>9, <1>10, <1>11, CalmKeeps DEF BlacklistInv

LEMMA RemoveStep ==
  ASSUME BlacklistInv, NEW v \in Servers, NEW k \in Threads, RemoveFromBlacklist(v, k)
  PROVE  BlacklistInv'
<1> DEFINE t == th[v][k].time
<1>1. UNCHANGED <<now, record, redis, boot, abnormal, crashes, faults, listed, past, unsaved>>
  BY DEF RemoveFromBlacklist, bounds
<1>2. /\ th[v][k].pc = "remove" /\ Sets(v, k, Idle)
      /\ blackLists' = [blackLists EXCEPT ![v] = Nil]
      /\ lost' = IF blackLists[v] \in {Nil, t} THEN lost ELSE lost \cup {v}
  BY DEF RemoveFromBlacklist, Done, Sets
<1>3. t \in Nat /\ Expired(t)
  BY <1>2, CallFacts DEF Removing
<1>4. Idle \in Call /\ Idle.pc = "idle"
  BY DEF Call, Idle, Entry
<1>5. /\ th' \in [Servers -> [Threads -> Call]] /\ th'[v][k] = Idle
      /\ \A u \in Servers, l \in Threads : u # v \/ l # k => th'[u][l] = th[u][l]
  BY <1>2, <1>4, SetCall DEF IsSet
<1>6. /\ blackLists' \in [Servers -> Entry]
      /\ \A u \in Servers : u # v => blackLists'[u] = blackLists[u]
  BY <1>2 DEF BlacklistInv, TypeOK, Entry
<1>7. TypeOK'
  BY <1>1, <1>2, <1>5, <1>6 DEF BlacklistInv, TypeOK
<1>8. /\ \A u \in Servers : listed[u] # Nil => listed[u] <= now
      /\ boot[v].pc = "idle" /\ now \in Nat
  BY <1>2, Clock DEF BlacklistInv, CallInv
<1>9. CallInv'
  BY <1>1, <1>2, <1>4, <1>8, CallKept DEF Reading, Removing
<1>10. Calm
  BY <1>1, <1>2, <1>4, <1>5, <1>8 DEF Calm
<1>11. BanInv'
  <2> SUFFICES ASSUME NEW u \in Servers, Banned(u)'
               PROVE  /\ u \notin lost' /\ boot[u].pc = "idle" => Covers(blackLists'[u], u)
                      /\ u \notin unsaved /\ (\A l \in Threads : th'[u][l].pc # "hset") =>
                           Covers(redis, u)
                      /\ u \notin lost' /\ boot[u].pc # "idle" => boot[u].pc = "get"
    BY <1>1 DEF BanInv, Covers
  <2>1. Banned(u)
    BY <1>1 DEF Banned
  <2>2. /\ u \notin lost /\ boot[u].pc = "idle" => Covers(blackLists[u], u)
        /\ u \notin unsaved /\ (\A l \in Threads : th[u][l].pc # "hset") => Covers(redis, u)
        /\ u \notin lost /\ boot[u].pc # "idle" => boot[u].pc = "get"
    BY <2>1 DEF BlacklistInv, BanInv
  <2>3. (\A l \in Threads : th'[u][l].pc # "hset") => \A l \in Threads : th[u][l].pc # "hset"
    BY <1>2, <1>5
  <2>4. u \notin lost' => u \notin lost
    BY <1>2
  <2>5. u = v => u \in lost'
    <3> SUFFICES ASSUME u = v, v \notin lost'
                 PROVE  FALSE
      OBVIOUS
    <3>1. blackLists[v] \in {Nil, t} /\ v \notin lost
      BY <1>2
    <3>2. Covers(blackLists[v], v)
      BY <1>8, <2>2, <3>1
    <3>3. ~Covers(t, v) /\ ~Covers(Nil, v)
      BY <1>3, <2>1, ExpiredNotBanned DEF BlacklistInv, Covers
    <3> QED
      BY <3>1, <3>2, <3>3
  <2> QED
    BY <1>6, <2>2, <2>3, <2>4, <2>5
<1> QED
  BY <1>7, <1>9, <1>10, <1>11, CalmKeeps DEF BlacklistInv

LEMMA AbnormalBehaviorStep ==
  ASSUME BlacklistInv, NEW v \in Servers, NEW k \in Threads, AbnormalBehavior(v, k)
  PROVE  BlacklistInv'
<1> DEFINE r == [Idle EXCEPT !.pc = "record", !.time = now]
<1>1. UNCHANGED <<now, record, blackLists, redis, boot, crashes, faults, listed, past,
                  unsaved, lost>>
  BY DEF AbnormalBehavior
<1>2. /\ boot[v].pc = "idle" /\ th[v][k].pc = "idle" /\ Sets(v, k, r)
      /\ abnormal < MaxAbnormal /\ abnormal' = abnormal + 1
  BY DEF AbnormalBehavior, Free, Sets
<1>3. now \in Times /\ now \in Nat
  BY Clock DEF BlacklistInv, TypeOK
<1>4. r \in Call /\ r.pc = "record" /\ r.time = now
  BY <1>3 DEF Idle, Call, Entry
<1> HIDE DEF r
<1>5. /\ th' \in [Servers -> [Threads -> Call]] /\ th'[v][k] = r
      /\ \A u \in Servers, l \in Threads : u # v \/ l # k => th'[u][l] = th[u][l]
  BY <1>2, <1>4, SetCall DEF IsSet
<1>6. abnormal' \in 0 .. MaxAbnormal
  BY <1>2, BlacklistAssumption DEF BlacklistInv, TypeOK
<1>7. TypeOK'
  BY <1>1, <1>5, <1>6 DEF BlacklistInv, TypeOK
<1>8. \A u \in Servers : listed[u] # Nil => listed[u] <= now
  BY DEF BlacklistInv, CallInv
<1>9. CallInv'
  BY <1>1, <1>2, <1>3, <1>4, <1>8, CallKept DEF Reading, Removing
<1>10. Calm
  BY <1>1, <1>2, <1>3, <1>4, <1>5 DEF Calm
<1>11. BanInv'
  BY <1>1, <1>2, <1>3, <1>4, <1>5, BanKept
<1> QED
  BY <1>7, <1>9, <1>10, <1>11, CalmKeeps DEF BlacklistInv

LEMMA HsetStep ==
  ASSUME BlacklistInv, NEW v \in Servers, NEW k \in Threads, Hset(v, k)
  PROVE  BlacklistInv'
<1> DEFINE t == th[v][k].time
<1>1. UNCHANGED <<now, record, blackLists, boot, abnormal, crashes, listed, past, lost>>
  BY DEF Hset
<1>2. /\ th[v][k].pc = "hset" /\ Sets(v, k, Idle)
      /\ \/ Works /\ redis' = t /\ unsaved' = {}
         \/ Fails /\ unsaved' = unsaved \cup {v} /\ redis' = redis
  BY DEF Hset, Done, Sets
<1>3. t \in Times /\ t \in Nat /\ t >= now - 1 /\ now \in Nat
  BY <1>2, CallFacts, Clock DEF Reading, BlacklistInv
<1>4. Idle \in Call /\ Idle.pc = "idle"
  BY DEF Call, Idle, Entry
<1>5. /\ th' \in [Servers -> [Threads -> Call]] /\ th'[v][k] = Idle
      /\ \A u \in Servers, l \in Threads : u # v \/ l # k => th'[u][l] = th[u][l]
  BY <1>2, <1>4, SetCall DEF IsSet
<1>6. TypeOK'
  <2>1. faults' \in 0 .. MaxFaults
    BY <1>2, CommandCounted DEF BlacklistInv
  <2>2. redis' \in Entry /\ unsaved' \subseteq Servers
    BY <1>2, <1>3 DEF BlacklistInv, TypeOK, Entry
  <2> QED
    BY <1>1, <1>5, <2>1, <2>2 DEF BlacklistInv, TypeOK
<1>7. /\ \A u \in Servers : listed[u] # Nil => listed[u] <= now
      /\ boot[v].pc = "idle"
  BY <1>2 DEF BlacklistInv, CallInv
<1>8. CallInv'
  BY <1>1, <1>2, <1>4, <1>7, CallKept DEF Reading, Removing
<1>9. Calm
  BY <1>1, <1>2, <1>3, <1>4, <1>5 DEF Calm
<1>10. BanInv'
  <2> SUFFICES ASSUME NEW u \in Servers, Banned(u)'
               PROVE  /\ u \notin lost /\ boot[u].pc = "idle" => Covers(blackLists[u], u)
                      /\ u \notin unsaved' /\ (\A l \in Threads : th'[u][l].pc # "hset") =>
                           Covers(redis', u)
                      /\ u \notin lost /\ boot[u].pc # "idle" => boot[u].pc = "get"
    BY <1>1 DEF BanInv, Covers
  <2>1. Banned(u)
    BY <1>1 DEF Banned
  <2>2. /\ u \notin lost /\ boot[u].pc = "idle" => Covers(blackLists[u], u)
        /\ u \notin unsaved /\ (\A l \in Threads : th[u][l].pc # "hset") => Covers(redis, u)
        /\ u \notin lost /\ boot[u].pc # "idle" => boot[u].pc = "get"
    BY <2>1 DEF BlacklistInv, BanInv
  <2>3. CASE redis' = t
    <3>1. Covers(t, u)
      BY <1>3, <2>1, RecentCovers DEF BlacklistInv, Banned
    <3> QED
      BY <2>2, <2>3, <3>1
  <2>4. CASE unsaved' = unsaved \cup {v} /\ redis' = redis
    <3>1. u \notin unsaved' => u \notin unsaved /\ u # v
      BY <2>4
    <3>2. u # v => \A l \in Threads : th'[u][l] = th[u][l]
      BY <1>5
    <3> QED
      BY <2>2, <2>4, <3>1, <3>2
  <2> QED
    BY <1>2, <2>3, <2>4
<1> QED
  BY <1>6, <1>8, <1>9, <1>10, CalmKeeps DEF BlacklistInv

-----------------------------------------------------------------------------
(* AbnormalRecord::AbnormalBehavior *)

\* What Record does to the record and the history of its server: behaviours 1 .. c are
\* the ones that are missing from the record after it.
Recorded(v, t, c) ==
  /\ record' \in [Servers -> Seq(Times)] /\ past' \in [Servers -> Seq(Times)]
  /\ \A u \in Servers \ {v} : record'[u] = record[u] /\ past'[u] = past[u]
  /\ Len(past'[v]) = Len(past[v]) + 1 /\ past'[v][Len(past[v]) + 1] = t
  /\ \A i \in 1 .. Len(past[v]) : past'[v][i] = past[v][i]
  /\ c \in 0 .. Len(past[v]) /\ Len(record'[v]) = Len(past[v]) + 1 - c
  /\ \A i \in 1 .. Len(record'[v]) : record'[v][i] = past'[v][c + i]
  /\ \A i \in 1 .. c : past[v][i] + Window < now
  /\ \A i \in (c + 1) .. (Len(past[v]) + 1) : t - past'[v][i] <= Window + 1

LEMMA RecordFacts ==
  ASSUME BlacklistInv, NEW v \in Servers, NEW k \in Threads, Record(v, k)
  PROVE  \E c \in Nat : Recorded(v, th[v][k].time, c)
<1> DEFINE t == th[v][k].time
           rec == record[v]
           old == past[v]
           n == Len(old)
           m == Len(rec)
           d == Missing(v)
<1>1. t \in Times /\ t \in Nat /\ now - 1 <= t /\ t <= now /\ now \in Nat /\ Window \in Nat
  BY CallFacts, Clock DEF Record, Reading, BlacklistInv
<1>2. rec \in Seq(Times) /\ old \in Seq(Times)
  BY DEF BlacklistInv, TypeOK
<1>3. /\ n \in Nat /\ m \in Nat /\ \A i \in 1 .. n : old[i] \in Nat
      /\ \A i \in 1 .. m : rec[i] \in Nat /\ rec[i] \in Times
  BY Lists DEF BlacklistInv
<1>4. /\ d = n - m /\ d >= 0
      /\ \A i \in 1 .. m : rec[i] = old[d + i]
      /\ \A i \in 1 .. d : old[i] + Window < now
      /\ \A i, j \in 1 .. n : i < j => old[i] <= old[j] + 1
  BY DEF BlacklistInv, HistoryInv, Missing
<1>5. PICK f \in 1 .. m + 1 :
        /\ Recent(rec, t) = SubSeq(rec, f, m)
        /\ \A i \in 1 .. f - 1 : t - rec[i] > Window
        /\ f <= m => t - rec[f] <= Window
  BY <1>1, <1>2, RecentIs
<1> HIDE DEF t, rec, old, n, m, d
<1> DEFINE c == d + f - 1
           rest == SubSeq(rec, f, m)
           list == Append(rest, t)
           new == Append(old, t)
<1>6. n \in Nat /\ m \in Nat /\ d = n - m /\ d >= 0 /\ f \in Int /\ 1 <= f /\ f <= m + 1
  BY <1>3, <1>4, <1>5
<1>7. /\ c \in Nat /\ c \in 0 .. n /\ d \in Nat /\ m - f + 1 \in Nat /\ d = c - f + 1
      /\ n + 1 = c + (m - f + 2)
  BY <1>6
<1> HIDE DEF c
<1>8. /\ rest \in Seq(Times) /\ Len(rest) = m - f + 1
      /\ \A i \in 1 .. m - f + 1 : rest[i] = rec[f + i - 1]
  <2>1. \A i \in f .. m : i \in 1 .. m
    BY <1>6
  <2>2. f \in Int /\ m \in Int /\ \A i \in f .. m : rec[i] \in Times
    BY <1>3, <1>6, <2>1
  <2>3. /\ rest \in Seq(Times) /\ Len(rest) = IF f <= m THEN m - f + 1 ELSE 0
        /\ \A i \in 1 .. m - f + 1 : rest[i] = rec[f + i - 1]
    BY <2>2, SubSeqProperties
  <2>4. ~(f <= m) => m - f + 1 = 0
    BY <1>6
  <2> QED
    BY <2>3, <2>4
<1>9. record' = [record EXCEPT ![v] = list] /\ past' = [past EXCEPT ![v] = new]
  BY <1>5 DEF Record, t, rec, old, m
<1> HIDE DEF rest
<1>10. /\ list \in Seq(Times) /\ Len(list) = m - f + 2 /\ list[m - f + 2] = t
       /\ \A i \in 1 .. m - f + 1 : list[i] = rec[f + i - 1]
  <2>1. t \in Times /\ rest \in Seq(Times)
    BY <1>1, <1>8
  <2>2. /\ list \in Seq(Times) /\ Len(list) = Len(rest) + 1 /\ list[Len(rest) + 1] = t
        /\ \A i \in 1 .. Len(rest) : list[i] = rest[i]
    BY <2>1, AppendProperties
  <2>3. Len(rest) + 1 = m - f + 2
    BY <1>6, <1>8
  <2> QED
    BY <1>8, <2>2, <2>3
<1>11. /\ new \in Seq(Times) /\ Len(new) = n + 1
       /\ new[n + 1] = t /\ \A i \in 1 .. n : new[i] = old[i]
  BY <1>1, <1>2, AppendProperties DEF n
<1> HIDE DEF list, new
<1>12. /\ record' \in [Servers -> Seq(Times)] /\ record'[v] = list
       /\ past' \in [Servers -> Seq(Times)] /\ past'[v] = new
       /\ \A u \in Servers \ {v} : record'[u] = record[u] /\ past'[u] = past[u]
  <2>1. record \in [Servers -> Seq(Times)] /\ past \in [Servers -> Seq(Times)]
    BY DEF BlacklistInv, TypeOK
  <2>2. list \in Seq(Times) /\ new \in Seq(Times)
    BY <1>10, <1>11
  <2> QED
    BY <1>9, <2>1, <2>2
<1>13. \A i \in 1 .. Len(list) : list[i] = new[c + i]
  <2> SUFFICES ASSUME NEW i \in 1 .. m - f + 2
               PROVE  list[i] = new[c + i]
    BY <1>10
  <2>1. CASE i = m - f + 2
    BY <1>7, <1>10, <1>11, <2>1
  <2>2. CASE i # m - f + 2
    <3>1. /\ i \in 1 .. m - f + 1 /\ f + i - 1 \in 1 .. m
          /\ d + (f + i - 1) = c + i /\ c + i \in 1 .. n
      BY <1>6, <1>7, <2>2
    <3>2. list[i] = rec[f + i - 1] /\ rec[f + i - 1] = old[d + (f + i - 1)]
      BY <1>4, <1>10, <3>1
    <3> QED
      BY <1>11, <3>1, <3>2
  <2> QED
    BY <2>1, <2>2
<1>14. \A i \in 1 .. c : old[i] + Window < now
  <2> TAKE i \in 1 .. c
  <2>1. CASE i <= d
    <3>1. i \in 1 .. d
      BY <1>6, <1>7, <2>1
    <3> QED
      BY <1>4, <3>1
  <2>2. CASE ~(i <= d)
    <3>1. i - d \in 1 .. f - 1 /\ i - d \in 1 .. m /\ d + (i - d) = i
      BY <1>6, <1>7, <2>2
    <3>2. rec[i - d] = old[i] /\ t - rec[i - d] > Window /\ rec[i - d] \in Nat
      BY <1>3, <1>4, <1>5, <3>1
    <3> QED
      BY <1>1, <3>2
  <2> QED
    BY <2>1, <2>2
<1>15. \A i \in (c + 1) .. (n + 1) : t - new[i] <= Window + 1
  <2> TAKE i \in (c + 1) .. (n + 1)
  <2>1. CASE i = n + 1
    BY <1>1, <1>11, <2>1
  <2>2. CASE i # n + 1
    <3>1. i \in 1 .. n /\ i >= d + f /\ f \in 1 .. m /\ d + f \in 1 .. n /\ f <= m
      BY <1>6, <1>7, <2>2
    <3>2. new[i] = old[i] /\ old[i] \in Nat /\ old[d + f] \in Nat
      BY <1>3, <1>11, <3>1
    <3>3. rec[f] = old[d + f] /\ t - rec[f] <= Window
      BY <1>4, <1>5, <3>1
    <3>4. CASE i = d + f
      BY <1>1, <3>2, <3>3, <3>4
    <3>5. CASE i # d + f
      <4>1. d + f < i
        BY <1>6, <3>1, <3>5
      <4>2. old[d + f] <= old[i] + 1
        BY <1>4, <3>1, <4>1
      <4> QED
        BY <1>1, <3>2, <3>3, <4>2
    <3> QED
      BY <3>4, <3>5
  <2> QED
    BY <2>1, <2>2
<1>16. Len(list) = n + 1 - c
  BY <1>6, <1>7, <1>10
<1>17. Recorded(v, t, c)
  BY <1>7, <1>11, <1>12, <1>13, <1>14, <1>15, <1>16 DEF Recorded, n, old
<1> QED
  BY <1>7, <1>17 DEF t

\* The step, seen from its server.
LEMMA RecordedLists ==
  ASSUME BlacklistInv, NEW v \in Servers, NEW t \in Nat, NEW c \in Nat, Recorded(v, t, c)
  PROVE  /\ Len(past[v]) \in Nat /\ c \in 0 .. Len(past[v]) /\ Missing(v)' = c
         /\ DOMAIN past'[v] = 1 .. Len(past[v]) + 1
         /\ \A i \in 1 .. Len(past[v]) + 1 : past'[v][i] \in Nat
<1> DEFINE n == Len(past[v])
<1>1. n \in Nat /\ \A i \in 1 .. n : past[v][i] \in Nat
  BY Lists DEF BlacklistInv
<1>2. /\ c \in 0 .. n /\ Len(past'[v]) = n + 1 /\ Len(record'[v]) = n + 1 - c
      /\ past'[v] \in Seq(Times)
  BY DEF Recorded
<1>3. Missing(v)' = c
  BY <1>1, <1>2 DEF Missing
<1>4. Times \subseteq Nat
  BY DEF Times
<1>5. /\ DOMAIN past'[v] = 1 .. n + 1
      /\ \A i \in 1 .. n + 1 : past'[v][i] \in Nat
  BY <1>2, <1>4, LenProperties, ElementOfSeq
<1> QED
  BY <1>1, <1>2, <1>3, <1>5

LEMMA RecordHistory ==
  ASSUME BlacklistInv, NEW v \in Servers, NEW t \in Nat, NEW c \in Nat, Recorded(v, t, c),
         now - 1 <= t, t <= now, now' = now
  PROVE  HistoryInv'
<1> DEFINE n == Len(past[v])
<1>1. /\ n \in Nat /\ c \in 0 .. n /\ Missing(v)' = c
      /\ \A i \in 1 .. n + 1 : past'[v][i] \in Nat
  BY RecordedLists
<1>2. now \in Nat /\ Window \in Nat
  BY Clock DEF BlacklistInv
<1>3. /\ \A i, j \in 1 .. n : i < j => past[v][i] <= past[v][j] + 1
      /\ \A i \in 1 .. n : past[v][i] <= now
  BY DEF BlacklistInv, HistoryInv
<1>4. /\ Len(past'[v]) = n + 1 /\ past'[v][n + 1] = t
      /\ \A i \in 1 .. n : past'[v][i] = past[v][i]
      /\ \A i \in 1 .. Len(record'[v]) : record'[v][i] = past'[v][c + i]
      /\ \A i \in 1 .. c : past[v][i] + Window < now
      /\ \A u \in Servers \ {v} : record'[u] = record[u] /\ past'[u] = past[u]
  BY DEF Recorded
<1>5. \A i \in 1 .. c : past'[v][i] + Window < now
  <2> TAKE i \in 1 .. c
  <2>1. i \in 1 .. n
    BY <1>1
  <2> QED
    BY <1>4, <2>1
<1>6. \A i \in 1 .. n + 1 : past'[v][i] <= now
  <2> TAKE i \in 1 .. n + 1
  <2>1. i \in 1 .. n \/ i = n + 1
    BY <1>1
  <2>2. CASE i \in 1 .. n
    BY <1>3, <1>4, <2>2
  <2>3. CASE i = n + 1
    BY <1>4, <2>3
  <2> QED
    BY <2>1, <2>2, <2>3
<1>7. ASSUME NEW i \in 1 .. n + 1, NEW j \in 1 .. n + 1, i < j
      PROVE  past'[v][i] <= past'[v][j] + 1
  <2>1. i \in 1 .. n /\ (j \in 1 .. n \/ j = n + 1)
    BY <1>1, <1>7
  <2>2. CASE j \in 1 .. n
    BY <1>3, <1>4, <1>7, <2>1, <2>2
  <2>3. CASE j = n + 1
    <3>1. past'[v][i] <= now /\ past'[v][i] \in Nat /\ past'[v][j] = t
      BY <1>1, <1>4, <1>6, <2>3
    <3> QED
      BY <1>2, <3>1
  <2> QED
    BY <2>1, <2>2, <2>3
<1>8. \A u \in Servers \ {v} :
        /\ Missing(u)' = Missing(u) /\ Len(record'[u]) = Len(record[u])
        /\ Len(past'[u]) = Len(past[u])
  BY <1>4 DEF Missing
<1> SUFFICES ASSUME NEW u \in Servers
             PROVE  /\ Missing(u)' >= 0
                    /\ \A i \in 1 .. Len(record'[u]) : record'[u][i] = past'[u][Missing(u)' + i]
                    /\ \A i \in 1 .. Missing(u)' : past'[u][i] + Window < now
                    /\ \A i, j \in 1 .. Len(past'[u]) : i < j => past'[u][i] <= past'[u][j] + 1
                    /\ \A i \in 1 .. Len(past'[u]) : past'[u][i] <= now
  BY DEF HistoryInv
<1> HIDE DEF n
<1>9. CASE u = v
  BY <1>1, <1>4, <1>5, <1>6, <1>7, <1>9, SMTT(30)
<1>10. CASE u # v
  <2>1. /\ Missing(u) >= 0
        /\ \A i \in 1 .. Len(record[u]) : record[u][i] = past[u][Missing(u) + i]
        /\ \A i \in 1 .. Missing(u) : past[u][i] + Window < now
        /\ \A i, j \in 1 .. Len(past[u]) : i < j => past[u][i] <= past[u][j] + 1
        /\ \A i \in 1 .. Len(past[u]) : past[u][i] <= now
    BY DEF BlacklistInv, HistoryInv
  <2>2. record'[u] = record[u] /\ past'[u] = past[u] /\ Missing(u)' = Missing(u)
    BY <1>4, <1>8, <1>10
  <2> QED
    BY <2>1, <2>2
<1> QED
  BY <1>9, <1>10

\* The behaviours that count for a listing.
LEMMA RecordListed ==
  ASSUME BlacklistInv, NEW v \in Servers, NEW t \in Nat, NEW c \in Nat, Recorded(v, t, c)
  PROVE  LET C(s) == Cardinality({i \in DOMAIN past'[v] : s - past'[v][i] <= Window + 1})
             B(s) == Cardinality({i \in DOMAIN past[v] : s - past[v][i] <= Window + 1})
         IN  /\ C(t) >= Len(record'[v]) /\ Len(record'[v]) \in Nat
             /\ \A s \in Nat : C(s) >= B(s) /\ C(s) \in Nat /\ B(s) \in Nat
<1> DEFINE n == Len(past[v])
           W(s) == {i \in DOMAIN past'[v] : s - past'[v][i] <= Window + 1}
           O(s) == {i \in DOMAIN past[v] : s - past[v][i] <= Window + 1}
<1>1. n \in Nat /\ c \in 0 .. n /\ DOMAIN past'[v] = 1 .. n + 1
  BY RecordedLists
<1>2. DOMAIN past[v] = 1 .. n
  BY Lists DEF BlacklistInv
<1>3. /\ \A i \in 1 .. n : past'[v][i] = past[v][i]
      /\ \A i \in (c + 1) .. (n + 1) : t - past'[v][i] <= Window + 1
      /\ Len(record'[v]) = n + 1 - c
  BY DEF Recorded
<1> HIDE DEF n
<1>4. \A s : W(s) \subseteq 1 .. n + 1 /\ O(s) \subseteq W(s)
  BY <1>1, <1>2, <1>3
<1>5. (c + 1) .. (n + 1) \subseteq W(t)
  BY <1>1, <1>3
<1>6. n + 1 \in Nat /\ c \in 0 .. n + 1
  BY <1>1
<1> HIDE DEF W, O
<1>7. Cardinality(W(t)) >= n + 1 - c
  <2> DEFINE p == n + 1
             A == W(t)
  <2>1. p \in Nat /\ c \in 0 .. p /\ A \subseteq 1 .. p /\ (c + 1) .. p \subseteq A
    BY <1>4, <1>5, <1>6
  <2> HIDE DEF p, A
  <2>2. Cardinality(A) >= p - c
    BY <2>1, IndexSets
  <2> QED
    BY <1>1, <2>2 DEF p, A
<1>8. \A s : /\ Cardinality(O(s)) <= Cardinality(W(s)) /\ Cardinality(W(s)) \in Nat
             /\ Cardinality(O(s)) \in Nat
  <2> TAKE s
  <2>1. Cardinality(O(s)) <= Cardinality(W(s)) /\ Cardinality(W(s)) \in Nat /\ IsFiniteSet(O(s))
    BY <1>4, <1>6, IndexSets
  <2> QED
    BY <2>1, FS_CardinalityType
<1>9. \A s : /\ Cardinality(W(s)) >= Cardinality(O(s)) /\ Cardinality(W(s)) \in Nat
             /\ Cardinality(O(s)) \in Nat
  BY <1>8
<1>10. Len(record'[v]) \in Nat
  BY <1>1, <1>3
<1> QED
  BY <1>3, <1>7, <1>9, <1>10 DEF W, O

\* A behaviour that does not get the address listed reaches the limit in no window: the
\* windows that have it were full before.
LEMMA RecordBurst ==
  ASSUME BlacklistInv, NEW v \in Servers, NEW t \in Nat, NEW c \in Nat, Recorded(v, t, c),
         now - 1 <= t, t <= now, Len(record'[v]) < Limit, \A k \in Threads : th[v][k].pc # "add"
  PROVE  \A i \in 1 .. Len(past'[v]) :
           Cardinality({j \in DOMAIN past'[v] : past'[v][i] - past'[v][j] \in 0 .. Window - 1}) >= Limit
             => listed[v] # Nil /\ listed[v] >= past'[v][i] - 1
<1>1. /\ Len(past[v]) \in Nat /\ c \in 0 .. Len(past[v])
      /\ DOMAIN past'[v] = 1 .. Len(past[v]) + 1
      /\ \A i \in 1 .. Len(past[v]) + 1 : past'[v][i] \in Nat
  BY RecordedLists
<1>2. now \in Nat /\ Window \in Nat /\ Limit \in Nat
  BY Clock DEF BlacklistInv
<1>3. /\ Len(past'[v]) = Len(past[v]) + 1 /\ past'[v][Len(past[v]) + 1] = t
      /\ \A i \in 1 .. Len(past[v]) : past'[v][i] = past[v][i]
      /\ \A i \in 1 .. c : past[v][i] + Window < now
      /\ Len(record'[v]) = Len(past[v]) + 1 - c
  BY DEF Recorded
<1> DEFINE n == Len(past[v])
           p == n + 1
           W(i) == {j \in 1 .. p : past'[v][i] - past'[v][j] \in 0 .. Window - 1}
<1>4. n \in Nat /\ c \in 0 .. n /\ p \in Nat /\ c \in 0 .. p
  BY <1>1
<1>5. /\ DOMAIN past[v] = 1 .. n
      /\ \A i \in 1 .. n :
           Cardinality({j \in DOMAIN past[v] : past[v][i] - past[v][j] \in 0 .. Window - 1}) >= Limit
             => listed[v] # Nil /\ listed[v] >= past[v][i] - 1
  BY Lists DEF BlacklistInv, BurstInv, Burst
<1>6. \A i \in 1 .. n : i \in 1 .. p
  BY <1>1
<1> SUFFICES ASSUME NEW i \in 1 .. p
             PROVE  Cardinality(W(i)) >= Limit =>
                      listed[v] # Nil /\ listed[v] >= past'[v][i] - 1
  BY <1>1, <1>3, <1>4
<1>7. CASE p \in W(i) \/ i = p
  <2>1. past'[v][i] >= t /\ past'[v][i] \in Nat
    BY <1>1, <1>3, <1>4, <1>7, SMTT(30)
  <2>2. ASSUME NEW j \in W(i)
        PROVE  j \in (c + 1) .. p
    <3>1. j \in 1 .. p /\ past'[v][j] \in Nat /\ past'[v][i] - past'[v][j] <= Window - 1
      BY <1>1, <1>2, <1>4, <2>1
    <3>2. past'[v][j] + Window >= now
      <4> DEFINE a == past'[v][i]
                 b == past'[v][j]
      <4>1. a \in Nat /\ b \in Nat /\ a >= t /\ a - b <= Window - 1
        BY <2>1, <3>1
      <4> HIDE DEF a, b
      <4>2. b + Window >= now
        BY <1>2, <4>1
      <4> QED
        BY <4>2 DEF b
    <3>3. ~(j \in 1 .. c)
      <4> SUFFICES ASSUME j \in 1 .. c
                   PROVE  FALSE
        OBVIOUS
      <4>1. j \in 1 .. n
        BY <1>1, <1>4
      <4>2. past'[v][j] + Window < now
        BY <1>3, <4>1
      <4> QED
        BY <1>2, <3>1, <3>2, <4>2
    <3> QED
      BY <1>1, <1>4, <3>1, <3>3
  <2> DEFINE A == W(i)
  <2>3. A \subseteq 1 .. p /\ A \subseteq (c + 1) .. p
    BY <2>2
  <2>4. p - c < Limit
    BY <1>3
  <2> HIDE DEF A, p
  <2>5. Cardinality(A) <= p - c /\ Cardinality(A) \in Nat
    BY <1>4, <2>3, IndexSets
  <2>6. ~(Cardinality(A) >= Limit)
    BY <1>2, <1>4, <2>4, <2>5
  <2> QED
    BY <2>6 DEF A, p
<1>8. CASE ~(p \in W(i) \/ i = p)
  <2>1. i \in 1 .. n
    BY <1>1, <1>4, <1>8
  <2>2. W(i) = {j \in DOMAIN past[v] : past[v][i] - past[v][j] \in 0 .. Window - 1}
    <3>1. ASSUME NEW j \in W(i)
          PROVE  j \in DOMAIN past[v] /\ past[v][i] - past[v][j] \in 0 .. Window - 1
      <4>1. j \in 1 .. p /\ j # p
        BY <1>8
      <4>2. j \in 1 .. n
        BY <1>1, <1>4, <4>1
      <4>3. past[v][i] = past'[v][i] /\ past[v][j] = past'[v][j]
        BY <1>3, <2>1, <4>2
      <4> QED
        BY <1>5, <4>2, <4>3
    <3>2. ASSUME NEW j \in DOMAIN past[v], past[v][i] - past[v][j] \in 0 .. Window - 1
          PROVE  j \in W(i)
      BY <1>3, <1>5, <1>6, <2>1, <3>2
    <3> QED
      BY <3>1, <3>2
  <2>3. past'[v][i] = past[v][i]
    BY <1>3, <2>1
  <2> QED
    BY <1>5, <2>1, <2>2, <2>3
<1> QED
  BY <1>7, <1>8

LEMMA RecordStep ==
  ASSUME BlacklistInv, NEW v \in Servers, NEW k \in Threads, Record(v, k)
  PROVE  BlacklistInv'
<1> DEFINE t == th[v][k].time
           over == Over(record'[v])
           r == IF over THEN [th[v][k] EXCEPT !.pc = "add"] ELSE Idle
<1>1. UNCHANGED <<now, blackLists, redis, boot, abnormal, crashes, faults, listed, unsaved, lost>>
  BY DEF Record, bounds
<1>2. PICK c \in Nat : Recorded(v, t, c)
  BY RecordFacts
<1>3. th[v][k].pc = "record"
  BY DEF Record
<1>4. Sets(v, k, r)
  <2>1. record'[v] = Append(Recent(record[v], t), t)
    BY DEF Record, BlacklistInv, TypeOK
  <2> QED
    BY <2>1 DEF Record, Goto, Done, Sets
<1>5. /\ th[v][k] \in Call /\ t \in Times /\ t \in Nat /\ now - 1 <= t /\ t <= now
      /\ t \in {now, IF th[v][k].late THEN now - 1 ELSE now}
  BY <1>3, CallFacts DEF Reading, BlacklistInv, CallInv
<1>6. /\ r \in Call
      /\ over => r.pc = "add" /\ r.time = t /\ r.late = th[v][k].late
      /\ ~over => r.pc = "idle"
  BY <1>5 DEF Idle, Call, Entry
<1>7. over <=> ~(Len(record'[v]) < Limit)
  <2>1. Len(record'[v]) \in Nat /\ Limit \in Nat
    BY <1>2, RecordedLists, Clock DEF Recorded, BlacklistInv
  <2> QED
    BY <2>1 DEF Over
<1> HIDE DEF r, over
<1>8. /\ th' \in [Servers -> [Threads -> Call]] /\ th'[v][k] = r
      /\ \A u \in Servers, l \in Threads : u # v \/ l # k => th'[u][l] = th[u][l]
  BY <1>4, <1>6, SetCall DEF IsSet
<1>9. TypeOK'
  BY <1>1, <1>2, <1>8 DEF BlacklistInv, TypeOK, Recorded
<1>10. /\ \A u \in Servers : listed[u] # Nil => listed[u] <= now
       /\ boot[v].pc = "idle" /\ now \in Nat
  BY <1>3, Clock DEF BlacklistInv, CallInv
<1>11. CallInv'
  BY <1>1, <1>4, <1>5, <1>6, <1>10, CallKept DEF Reading, Removing
<1>12. BanInv'
  BY <1>1, <1>3, <1>6, <1>8, <1>10, BanKept
<1>13. HistoryInv'
  BY <1>1, <1>2, <1>5, RecordHistory
<1>14. \A u \in Servers \ {v} : past'[u] = past[u]
  BY <1>2 DEF Recorded
<1>15. BurstInv'
  <2> SUFFICES ASSUME NEW u \in Servers, \A l \in Threads : th'[u][l].pc # "add"
               PROVE  \A i \in 1 .. Len(past'[u]) :
                        Cardinality({j \in DOMAIN past'[u] :
                                       past'[u][i] - past'[u][j] \in 0 .. Window - 1}) >= Limit
                          => listed[u] # Nil /\ listed[u] >= past'[u][i] - 1
    BY <1>1 DEF BurstInv, Burst
  <2>1. \A l \in Threads : th[u][l].pc # "add"
    BY <1>3, <1>8
  <2>2. CASE u = v
    <3>1. Len(record'[v]) < Limit
      BY <1>6, <1>7, <1>8, <2>2
    <3> QED
      BY <1>2, <1>5, <2>1, <2>2, <3>1, RecordBurst
  <2>3. CASE u # v
    BY <1>14, <2>1, <2>3 DEF BlacklistInv, BurstInv, Burst
  <2> QED
    BY <2>2, <2>3
<1>16. ListedOnlyIfAbnormal'
  <2> SUFFICES ASSUME NEW u \in Servers, NEW l \in Threads, th'[u][l].pc = "add"
               PROVE  Cardinality({i \in DOMAIN past'[u] :
                                     th'[u][l].time - past'[u][i] <= Window + 1}) >= Limit
    BY DEF ListedOnlyIfAbnormal
  <2> DEFINE C(s) == Cardinality({i \in DOMAIN past'[v] : s - past'[v][i] <= Window + 1})
             B(s) == Cardinality({i \in DOMAIN past[v] : s - past[v][i] <= Window + 1})
  <2>4. /\ C(t) >= Len(record'[v]) /\ Len(record'[v]) \in Nat /\ Limit \in Nat
        /\ \A s \in Nat : C(s) >= B(s) /\ C(s) \in Nat /\ B(s) \in Nat
    BY <1>2, <1>5, RecordListed, RecordedLists, Clock DEF Recorded, BlacklistInv
  <2>1. CASE u = v /\ l = k
    <3>1. r.pc = "add" /\ th'[u][l] = r
      BY <1>8, <2>1
    <3>2. Len(record'[v]) >= Limit /\ th'[u][l].time = t
      BY <1>6, <3>1 DEF over, Over
    <3> DEFINE x == C(t)
    <3>3. x >= Len(record'[v]) /\ x \in Nat
      BY <1>5, <2>4
    <3> HIDE DEF x
    <3>4. x >= Limit
      BY <2>4, <3>2, <3>3
    <3> QED
      BY <2>1, <3>2, <3>4 DEF x
  <2>2. CASE u = v /\ l # k
    <3>1. th'[u][l] = th[v][l] /\ th[v][l].pc = "add" /\ th[v][l].time \in Nat
      BY <1>8, <2>2, CallFacts DEF Reading
    <3>2. B(th[v][l].time) >= Limit
      BY <3>1 DEF BlacklistInv, ListedOnlyIfAbnormal
    <3> DEFINE x == C(th[v][l].time)
               y == B(th[v][l].time)
    <3>3. x >= y /\ x \in Nat /\ y \in Nat /\ y >= Limit
      BY <2>4, <3>1, <3>2
    <3> HIDE DEF x, y
    <3>4. x >= Limit
      BY <2>4, <3>3
    <3> QED
      BY <2>2, <3>1, <3>4 DEF x
  <2>3. CASE u # v
    BY <1>8, <1>14, <2>3 DEF BlacklistInv, ListedOnlyIfAbnormal
  <2> QED
    BY <2>1, <2>2, <2>3
<1> QED
  BY <1>9, <1>11, <1>12, <1>13, <1>15, <1>16 DEF BlacklistInv

-----------------------------------------------------------------------------
(* Listing, restarts and the clock *)

LEMMA Add2BlackListStep ==
  ASSUME BlacklistInv, NEW v \in Servers, NEW k \in Threads, Add2BlackList(v, k)
  PROVE  BlacklistInv'
<1> DEFINE r == [th[v][k] EXCEPT !.pc = "hset"]
           t == th[v][k].time
<1>1. UNCHANGED <<now, record, redis, boot, abnormal, crashes, faults, past, unsaved>>
  BY DEF Add2BlackList, bounds
<1>2. /\ th[v][k].pc = "add" /\ Sets(v, k, r)
      /\ blackLists' = [blackLists EXCEPT ![v] = t] /\ listed' = [listed EXCEPT ![v] = t]
      /\ lost' = lost \ {v}
  BY DEF Add2BlackList, Goto, Sets
<1>3. /\ th[v][k] \in Call /\ t \in Times /\ t \in Nat /\ now - 1 <= t /\ t <= now
      /\ t \in {now, IF th[v][k].late THEN now - 1 ELSE now}
  BY <1>2, CallFacts DEF Reading, BlacklistInv, CallInv
<1>4. r \in Call /\ r.pc = "hset" /\ r.time = t /\ r.late = th[v][k].late
  BY <1>3 DEF Call
<1> HIDE DEF r
<1>5. /\ th' \in [Servers -> [Threads -> Call]] /\ th'[v][k] = r
      /\ \A u \in Servers, l \in Threads : u # v \/ l # k => th'[u][l] = th[u][l]
  BY <1>2, <1>4, SetCall DEF IsSet
<1>6. /\ blackLists' \in [Servers -> Entry] /\ blackLists'[v] = t
      /\ listed' \in [Servers -> Entry] /\ listed'[v] = t
      /\ \A u \in Servers : u # v => blackLists'[u] = blackLists[u] /\ listed'[u] = listed[u]
  BY <1>2, <1>3 DEF BlacklistInv, TypeOK, Entry
<1>7. TypeOK'
  BY <1>1, <1>2, <1>5, <1>6 DEF BlacklistInv, TypeOK
<1>8. /\ \A u \in Servers : listed'[u] # Nil => listed'[u] <= now
      /\ boot[v].pc = "idle" /\ Nil \notin Nat
  BY <1>2, <1>3, <1>6, Clock DEF BlacklistInv, CallInv
<1>9. CallInv'
  BY <1>1, <1>2, <1>3, <1>4, <1>8, CallKept DEF Reading, Removing
<1>10. BanInv'
  <2> SUFFICES ASSUME NEW u \in Servers, Banned(u)'
               PROVE  /\ u \notin lost' /\ boot[u].pc = "idle" => Covers(blackLists[u], u)'
                      /\ u \notin unsaved /\ (\A l \in Threads : th'[u][l].pc # "hset") =>
                           Covers(redis, u)'
                      /\ u \notin lost' /\ boot[u].pc # "idle" => boot[u].pc = "get"
    BY <1>1 DEF BanInv
  <2>1. CASE u = v
    BY <1>3, <1>4, <1>5, <1>6, <1>8, <2>1 DEF Covers
  <2>2. CASE u # v
    <3>1. Banned(u) /\ listed'[u] = listed[u] /\ blackLists'[u] = blackLists[u]
      BY <1>1, <1>6, <2>2 DEF Banned
    <3>2. /\ u \notin lost /\ boot[u].pc = "idle" => Covers(blackLists[u], u)
          /\ u \notin unsaved /\ (\A l \in Threads : th[u][l].pc # "hset") => Covers(redis, u)
          /\ u \notin lost /\ boot[u].pc # "idle" => boot[u].pc = "get"
      BY <3>1 DEF BlacklistInv, BanInv
    <3>3. u \notin lost' => u \notin lost
      BY <1>2, <2>2
    <3> QED
      BY <1>1, <1>5, <2>2, <3>1, <3>2, <3>3 DEF Covers
  <2> QED
    BY <2>1, <2>2
<1>11. HistoryInv'
  BY <1>1 DEF BlacklistInv, HistoryInv, Missing
<1>12. BurstInv'
  <2> SUFFICES ASSUME NEW u \in Servers, \A l \in Threads : th'[u][l].pc # "add",
                      NEW i \in 1 .. Len(past[u]), Cardinality(Burst(u, i)) >= Limit
               PROVE  listed'[u] # Nil /\ listed'[u] >= past[u][i] - 1
    BY <1>1 DEF BurstInv, Burst
  <2>1. CASE u = v
    <3>1. past[v][i] <= now /\ past[v][i] \in Nat /\ now \in Nat
      BY <2>1, Lists, Clock DEF BlacklistInv, HistoryInv
    <3>2. listed'[v] = t /\ t # Nil
      BY <1>3, <1>6, <1>8
    <3> HIDE DEF t
    <3> QED
      BY <1>3, <2>1, <3>1, <3>2
  <2>2. CASE u # v
    <3>1. \A l \in Threads : th[u][l].pc # "add"
      BY <1>5, <2>2
    <3>2. listed[u] # Nil /\ listed[u] >= past[u][i] - 1
      BY <3>1 DEF BlacklistInv, BurstInv
    <3> QED
      BY <1>6, <2>2, <3>2
  <2> QED
    BY <2>1, <2>2
<1>13. ListedOnlyIfAbnormal'
  BY <1>1, <1>4, <1>5 DEF BlacklistInv, ListedOnlyIfAbnormal
<1> QED
  BY <1>7, <1>9, <1>10, <1>11, <1>12, <1>13 DEF BlacklistInv

LEMMA CrashStep ==
  ASSUME BlacklistInv, NEW v \in Servers, Crash(v)
  PROVE  BlacklistInv'
<1> DEFINE b == [Idle EXCEPT !.pc = "get"]
<1>1. UNCHANGED <<now, redis, abnormal, faults, listed, lost>>
  BY DEF Crash
<1>2. /\ crashes < MaxCrashes /\ crashes' = crashes + 1
      /\ unsaved' = IF \E k \in Threads : th[v][k].pc = "hset" THEN unsaved \cup {v}
                    ELSE unsaved
      /\ record' = [record EXCEPT ![v] = <<>>] /\ past' = [past EXCEPT ![v] = <<>>]
      /\ blackLists' = [blackLists EXCEPT ![v] = Nil]
      /\ th' = [th EXCEPT ![v] = [k \in Threads |-> Idle]]
      /\ boot' = [boot EXCEPT ![v] = b]
  BY DEF Crash
<1>3. Idle \in Call /\ Idle.pc = "idle" /\ b \in Call /\ b.pc = "get"
  BY DEF Idle, Call, Entry
<1> HIDE DEF b
<1>4. /\ th' \in [Servers -> [Threads -> Call]] /\ \A k \in Threads : th'[v][k] = Idle
      /\ \A u \in Servers : u # v => th'[u] = th[u]
  BY <1>2, <1>3 DEF BlacklistInv, TypeOK
<1>5. boot' \in [Servers -> Call] /\ boot'[v] = b /\ \A u \in Servers : u # v => boot'[u] = boot[u]
  BY <1>2, <1>3 DEF BlacklistInv, TypeOK
<1>6. /\ blackLists' \in [Servers -> Entry] /\ \A u \in Servers : u # v => blackLists'[u] = blackLists[u]
  BY <1>2 DEF BlacklistInv, TypeOK, Entry
<1>7. /\ record' \in [Servers -> Seq(Times)] /\ past' \in [Servers -> Seq(Times)]
      /\ record'[v] = <<>> /\ past'[v] = <<>>
      /\ \A u \in Servers : u # v => record'[u] = record[u] /\ past'[u] = past[u]
  <2>1. <<>> \in Seq(Times)
    BY EmptySeq
  <2>2. record \in [Servers -> Seq(Times)] /\ past \in [Servers -> Seq(Times)]
    BY DEF BlacklistInv, TypeOK
  <2> QED
    BY <1>2, <2>1, <2>2
<1>8. crashes' \in 0 .. MaxCrashes /\ unsaved' \subseteq Servers
  BY <1>2, BlacklistAssumption DEF BlacklistInv, TypeOK
<1>9. TypeOK'
  BY <1>1, <1>4, <1>5, <1>6, <1>7, <1>8 DEF BlacklistInv, TypeOK
<1>10. CallInv'
  <2> SUFFICES ASSUME NEW u \in Servers
               PROVE  /\ \A k \in Threads :
                           /\ th'[u][k].pc \in Reading =>
                                /\ th'[u][k].time \in Times
                                /\ th'[u][k].time \in {now, IF th'[u][k].late THEN now - 1 ELSE now}
                           /\ th'[u][k].pc \in Removing =>
                                th'[u][k].time \in Times /\ Expired(th'[u][k].time)
                           /\ boot'[u].pc # "idle" => th'[u][k].pc = "idle"
                      /\ boot'[u].pc = "hdel" => boot'[u].time \in Times /\ now - boot'[u].time > BanTime
                      /\ listed[u] # Nil => listed[u] <= now
    BY <1>1 DEF CallInv, Expired
  <2>1. CASE u = v
    BY <1>3, <1>4, <1>5, <2>1 DEF BlacklistInv, CallInv, Reading, Removing
  <2>2. CASE u # v
    BY <1>4, <1>5, <2>2 DEF BlacklistInv, CallInv
  <2> QED
    BY <2>1, <2>2
<1>11. BanInv'
  <2> SUFFICES ASSUME NEW u \in Servers, Banned(u)'
               PROVE  /\ u \notin lost /\ boot'[u].pc = "idle" => Covers(blackLists'[u], u)
                      /\ u \notin unsaved' /\ (\A l \in Threads : th'[u][l].pc # "hset") =>
                           Covers(redis, u)
                      /\ u \notin lost /\ boot'[u].pc # "idle" => boot'[u].pc = "get"
    BY <1>1 DEF BanInv, Covers
  <2>1. Banned(u)
    BY <1>1 DEF Banned
  <2>2. /\ u \notin lost /\ boot[u].pc = "idle" => Covers(blackLists[u], u)
        /\ u \notin unsaved /\ (\A l \in Threads : th[u][l].pc # "hset") => Covers(redis, u)
        /\ u \notin lost /\ boot[u].pc # "idle" => boot[u].pc = "get"
    BY <2>1 DEF BlacklistInv, BanInv
  <2>3. u \notin unsaved' =>
          u \notin unsaved /\ (u = v => \A k \in Threads : th[v][k].pc # "hset")
    BY <1>2
  <2>4. CASE u = v
    BY <1>3, <1>5, <2>2, <2>3, <2>4
  <2>5. CASE u # v
    BY <1>4, <1>5, <1>6, <2>2, <2>3, <2>5
  <2> QED
    BY <2>4, <2>5
<1>12. Len(record'[v]) = 0 /\ Len(past'[v]) = 0
  BY <1>7, EmptySeq
<1>13. HistoryInv'
  <2> SUFFICES ASSUME NEW u \in Servers
               PROVE  /\ Missing(u)' >= 0
                      /\ \A i \in 1 .. Len(record'[u]) : record'[u][i] = past'[u][Missing(u)' + i]
                      /\ \A i \in 1 .. Missing(u)' : past'[u][i] + Window < now
                      /\ \A i, j \in 1 .. Len(past'[u]) : i < j => past'[u][i] <= past'[u][j] + 1
                      /\ \A i \in 1 .. Len(past'[u]) : past'[u][i] <= now
    BY <1>1 DEF HistoryInv
  <2>1. CASE u = v
    <3>1. Missing(u)' = 0
      BY <1>12, <2>1 DEF Missing
    <3>2. Len(record'[u]) = 0 /\ Len(past'[u]) = 0
      BY <1>12, <2>1
    <3> QED
      BY <3>1, <3>2
  <2>2. CASE u # v
    <3>1. record'[u] = record[u] /\ past'[u] = past[u] /\ Missing(u)' = Missing(u)
      BY <1>7, <2>2 DEF Missing
    <3> QED
      BY <3>1 DEF BlacklistInv, HistoryInv
  <2> QED
    BY <2>1, <2>2
<1>14. BurstInv'
  <2> SUFFICES ASSUME NEW u \in Servers, \A l \in Threads : th'[u][l].pc # "add",
                      NEW i \in 1 .. Len(past'[u]), Cardinality(Burst(u, i)') >= Limit
               PROVE  listed[u] # Nil /\ listed[u] >= past'[u][i] - 1
    BY <1>1 DEF BurstInv
  <2>1. u # v
    BY <1>12
  <2>2. past'[u] = past[u] /\ \A l \in Threads : th[u][l].pc # "add"
    BY <1>4, <1>7, <2>1
  <2>3. Burst(u, i)' = Burst(u, i)
    BY <2>2 DEF Burst
  <2> QED
    BY <2>2, <2>3 DEF BlacklistInv, BurstInv
<1>15. ListedOnlyIfAbnormal'
  <2> SUFFICES ASSUME NEW u \in Servers, NEW l \in Threads, th'[u][l].pc = "add"
               PROVE  Cardinality({i \in DOMAIN past'[u] :
                                     th'[u][l].time - past'[u][i] <= Window + 1}) >= Limit
    BY DEF ListedOnlyIfAbnormal
  <2>1. u # v
    BY <1>3, <1>4
  <2>2. past'[u] = past[u] /\ th'[u] = th[u]
    BY <1>4, <1>7, <2>1
  <2> QED
    BY <2>2 DEF BlacklistInv, ListedOnlyIfAbnormal
<1> QED
  BY <1>9, <1>10, <1>11, <1>13, <1>14, <1>15 DEF BlacklistInv

\* A server that starts: its boot changes, the calls and the clock do not.
LEMMA BootKept ==
  ASSUME BlacklistInv, NEW v \in Servers, NEW b \in Call, boot' = [boot EXCEPT ![v] = b],
         boot[v].pc # "idle", b.pc \in {"idle", "hdel"},
         b.pc = "hdel" => b.time \in Times /\ now - b.time > BanTime,
         UNCHANGED <<now, th, record, past, listed>>
  PROVE  /\ boot' \in [Servers -> Call] /\ boot'[v] = b /\ now \in Nat
         /\ \A u \in Servers : u # v => boot'[u] = boot[u]
         /\ \A k \in Threads : th[v][k].pc = "idle"
         /\ CallInv' /\ HistoryInv' /\ BurstInv' /\ ListedOnlyIfAbnormal'
<1>1. /\ boot' \in [Servers -> Call] /\ boot'[v] = b /\ now \in Nat
      /\ \A u \in Servers : u # v => boot'[u] = boot[u]
  BY Clock DEF BlacklistInv, TypeOK
<1>2. \A k \in Threads : th[v][k].pc = "idle"
  BY DEF BlacklistInv, CallInv
<1>3. CallInv'
  <2> SUFFICES ASSUME NEW u \in Servers
               PROVE  /\ \A k \in Threads : boot'[u].pc # "idle" => th[u][k].pc = "idle"
                      /\ boot'[u].pc = "hdel" => boot'[u].time \in Times /\ now - boot'[u].time > BanTime
    BY DEF BlacklistInv, CallInv, Expired
  <2>1. CASE u = v
    BY <1>1, <1>2, <2>1
  <2>2. CASE u # v
    BY <1>1, <2>2 DEF BlacklistInv, CallInv
  <2> QED
    BY <2>1, <2>2
<1>4. Calm
  BY <1>1 DEF Calm
<1> QED
  BY <1>1, <1>2, <1>3, <1>4, CalmKeeps

LEMMA InitGetStep ==
  ASSUME BlacklistInv, NEW v \in Servers, InitGet(v)
  PROVE  BlacklistInv'
<1>1. UNCHANGED <<now, record, redis, th, abnormal, crashes, listed, past, unsaved>>
  BY DEF InitGet
<1>2. /\ boot[v] \in Call /\ boot[v].pc = "get" /\ redis \in Entry /\ now \in Nat
      /\ Idle \in Call /\ Idle.pc = "idle" /\ blackLists \in [Servers -> Entry]
      /\ boot \in [Servers -> Call] /\ lost \subseteq Servers
  BY Clock DEF InitGet, BlacklistInv, TypeOK, Idle, Call, Entry
<1>3. faults' \in 0 .. MaxFaults
  BY CommandCounted DEF InitGet, BlacklistInv
<1>4. PICK b \in Call :
        /\ boot' = [boot EXCEPT ![v] = b] /\ b.pc \in {"idle", "hdel"}
        /\ b.pc = "hdel" => b.time \in Times /\ now - b.time > BanTime
        /\ blackLists' \in [Servers -> Entry] /\ lost' \subseteq Servers
        /\ \A u \in Servers : u # v => /\ blackLists'[u] = blackLists[u]
                                       /\ u \in lost' <=> u \in lost
        /\ v \notin lost' => /\ v \notin unsaved
                             /\ b.pc = "idle" => blackLists'[v] = redis
                             /\ b.pc = "hdel" => redis = b.time
  <2>1. CASE /\ boot' = [boot EXCEPT ![v] = Idle] /\ lost' = lost \cup {v}
             /\ UNCHANGED blackLists
    BY <1>2, <2>1
  <2>2. CASE /\ redis # Nil /\ now - redis > BanTime
             /\ boot' = [boot EXCEPT ![v].pc = "hdel", ![v].time = redis]
             /\ UNCHANGED blackLists
             /\ lost' = IF v \in unsaved THEN lost \cup {v} ELSE lost \ {v}
    <3> DEFINE b == [boot[v] EXCEPT !.pc = "hdel", !.time = redis]
    <3>1. redis \in Times
      BY <1>2, <2>2 DEF Entry
    <3>2. b \in Call /\ b.pc = "hdel" /\ b.time = redis
      BY <1>2 DEF Call
    <3>3. boot' = [boot EXCEPT ![v] = b]
      BY <1>2, <2>2
    <3> HIDE DEF b
    <3>4. lost' \subseteq Servers /\ (v \notin lost' => v \notin unsaved)
      BY <1>2, <2>2
    <3>5. \A u \in Servers : u # v => (u \in lost' <=> u \in lost)
      BY <2>2
    <3> QED
      BY <1>2, <2>2, <3>1, <3>2, <3>3, <3>4, <3>5
  <2>3. CASE /\ boot' = [boot EXCEPT ![v] = Idle]
             /\ blackLists' = [blackLists EXCEPT ![v] = redis]
             /\ lost' = IF v \in unsaved THEN lost \cup {v} ELSE lost \ {v}
    <3>1. lost' \subseteq Servers /\ (v \notin lost' => v \notin unsaved)
      BY <1>2, <2>3
    <3>2. \A u \in Servers : u # v => (u \in lost' <=> u \in lost)
      BY <2>3
    <3>3. /\ blackLists' \in [Servers -> Entry] /\ blackLists'[v] = redis
          /\ \A u \in Servers : u # v => blackLists'[u] = blackLists[u]
      BY <1>2, <2>3
    <3> QED
      BY <1>2, <2>3, <3>1, <3>2, <3>3
  <2> QED
    BY <2>1, <2>2, <2>3 DEF InitGet
<1>5. /\ boot' \in [Servers -> Call] /\ boot'[v] = b
      /\ \A u \in Servers : u # v => boot'[u] = boot[u]
      /\ \A k \in Threads : th[v][k].pc = "idle"
      /\ CallInv' /\ HistoryInv' /\ BurstInv' /\ ListedOnlyIfAbnormal'
  BY <1>1, <1>2, <1>4, BootKept
<1>6. TypeOK'
  BY <1>1, <1>3, <1>4, <1>5 DEF BlacklistInv, TypeOK
<1>7. BanInv'
  <2> SUFFICES ASSUME NEW u \in Servers, Banned(u)'
               PROVE  /\ u \notin lost' /\ boot'[u].pc = "idle" => Covers(blackLists'[u], u)
                      /\ u \notin unsaved /\ (\A l \in Threads : th[u][l].pc # "hset") =>
                           Covers(redis, u)
                      /\ u \notin lost' /\ boot'[u].pc # "idle" => boot'[u].pc = "get"
    BY <1>1 DEF BanInv, Covers
  <2>1. Banned(u)
    BY <1>1 DEF Banned
  <2>2. /\ u \notin lost /\ boot[u].pc = "idle" => Covers(blackLists[u], u)
        /\ u \notin unsaved /\ (\A l \in Threads : th[u][l].pc # "hset") => Covers(redis, u)
        /\ u \notin lost /\ boot[u].pc # "idle" => boot[u].pc = "get"
    BY <2>1 DEF BlacklistInv, BanInv
  <2>3. CASE u = v
    <3>1. v \notin lost' => Covers(redis, v)
      BY <1>4, <1>5, <2>2, <2>3
    <3>2. v \notin lost' => b.pc = "idle"
      <4> SUFFICES ASSUME v \notin lost', b.pc = "hdel"
                   PROVE  FALSE
        BY <1>4
      <4>1. redis \in Nat /\ now - redis > BanTime /\ BanTime \in Nat
        BY <1>4, Clock DEF BlacklistInv
      <4>2. Expired(redis)
        BY <1>2, <4>1 DEF Expired
      <4> QED
        BY <2>1, <2>3, <3>1, <4>1, <4>2, ExpiredNotBanned DEF BlacklistInv
    <3> QED
      BY <1>4, <1>5, <2>2, <2>3, <3>1, <3>2
  <2>4. CASE u # v
    BY <1>4, <1>5, <2>2, <2>4
  <2> QED
    BY <2>3, <2>4
<1> QED
  BY <1>5, <1>6, <1>7 DEF BlacklistInv

LEMMA InitHdelStep ==
  ASSUME BlacklistInv, NEW v \in Servers, InitHdel(v)
  PROVE  BlacklistInv'
<1> DEFINE t == boot[v].time
<1>1. UNCHANGED <<now, record, blackLists, th, abnormal, crashes, listed, past, lost>>
  BY DEF InitHdel
<1>2. boot[v].pc = "hdel" /\ boot' = [boot EXCEPT ![v] = Idle] /\ DeleteCopy(t)
  BY DEF InitHdel
<1>3. Idle \in Call /\ Idle.pc = "idle"
  BY DEF Call, Idle, Entry
<1>4. /\ boot' \in [Servers -> Call] /\ boot'[v] = Idle /\ now \in Nat
      /\ \A u \in Servers : u # v => boot'[u] = boot[u]
      /\ \A k \in Threads : th[v][k].pc = "idle"
      /\ CallInv' /\ HistoryInv' /\ BurstInv' /\ ListedOnlyIfAbnormal'
  BY <1>1, <1>2, <1>3, BootKept
<1>5. t \in Nat /\ Expired(t)
  <2>1. t \in Times /\ now - t > BanTime /\ Times \subseteq Nat /\ BanTime \in Nat
    BY <1>2, Clock DEF BlacklistInv, CallInv
  <2> HIDE DEF t
  <2>2. t \in Nat /\ now - t >= BanTime
    BY <1>4, <2>1
  <2> QED
    BY <2>2 DEF Expired
<1>6. /\ faults' \in 0 .. MaxFaults /\ redis' \in Entry /\ unsaved' \subseteq Servers
      /\ \A u \in Servers : Banned(u) /\ u \notin unsaved' =>
           u \notin unsaved /\ (Covers(redis, u) => redis' = redis)
  BY <1>2, <1>5, Deleted DEF BlacklistInv
<1>7. TypeOK'
  BY <1>1, <1>4, <1>6 DEF BlacklistInv, TypeOK
<1>8. BanInv'
  <2> SUFFICES ASSUME NEW u \in Servers, Banned(u)'
               PROVE  /\ u \notin lost /\ boot'[u].pc = "idle" => Covers(blackLists[u], u)
                      /\ u \notin unsaved' /\ (\A l \in Threads : th[u][l].pc # "hset") =>
                           Covers(redis', u)
                      /\ u \notin lost /\ boot'[u].pc # "idle" => boot'[u].pc = "get"
    BY <1>1 DEF BanInv, Covers
  <2>1. Banned(u)
    BY <1>1 DEF Banned
  <2>2. /\ u \notin lost /\ boot[u].pc = "idle" => Covers(blackLists[u], u)
        /\ u \notin unsaved /\ (\A l \in Threads : th[u][l].pc # "hset") => Covers(redis, u)
        /\ u \notin lost /\ boot[u].pc # "idle" => boot[u].pc = "get"
    BY <2>1 DEF BlacklistInv, BanInv
  <2>3. u \notin unsaved' /\ (\A l \in Threads : th[u][l].pc # "hset") => Covers(redis', u)
    BY <1>6, <2>1, <2>2
  <2>4. u = v => u \in lost
    BY <1>2, <2>2
  <2> QED
    BY <1>3, <1>4, <2>2, <2>3, <2>4
<1> QED
  BY <1>4, <1>7, <1>8 DEF BlacklistInv

\* What has expired stays so.
LEMMA Later ==
  ASSUME NEW n \in Nat, NEW e \in Nat, NEW b \in Nat
  PROVE  (n - e >= b => (n + 1) - e >= b) /\ (n - e > b => (n + 1) - e > b)
OBVIOUS

LEMMA TickStep ==
  ASSUME BlacklistInv, Tick
  PROVE  BlacklistInv'
<1>1. UNCHANGED <<record, blackLists, redis, abnormal, crashes, faults, listed, past,
                  unsaved, lost>>
  BY DEF Tick, bounds
<1>2. /\ now < MaxTime /\ now' = now + 1
      /\ \A v \in Servers : ~boot[v].late /\ \A k \in Threads : ~th[v][k].late
  BY DEF Tick
<1>3. now \in Nat /\ now' \in Nat /\ now <= now' /\ now' \in Times
  BY <1>2, BlacklistAssumption DEF BlacklistInv, TypeOK, Times
<1>4. /\ th \in [Servers -> [Threads -> Call]] /\ boot \in [Servers -> Call]
  BY DEF BlacklistInv, TypeOK
<1>5. /\ th' \in [Servers -> [Threads -> Call]]
      /\ \A v \in Servers, k \in Threads :
           /\ th'[v][k].pc = th[v][k].pc /\ th'[v][k].time = th[v][k].time
           /\ th'[v][k].late = (th[v][k].pc # "idle")
  <2> DEFINE c(v, k) == [th[v][k] EXCEPT !.late = th[v][k].pc # "idle"]
  <2>1. ASSUME NEW v \in Servers, NEW k \in Threads
        PROVE  /\ c(v, k) \in Call /\ c(v, k).pc = th[v][k].pc /\ c(v, k).time = th[v][k].time
               /\ c(v, k).late = (th[v][k].pc # "idle")
    <3>1. th[v][k] \in Call
      BY <1>4
    <3> QED
      BY <3>1 DEF Call
  <2>2. th' = [v \in Servers |-> [k \in Threads |-> c(v, k)]]
    BY DEF Tick
  <2> HIDE DEF c
  <2> QED
    BY <2>1, <2>2
<1>6. /\ boot' \in [Servers -> Call]
      /\ \A v \in Servers : boot'[v].pc = boot[v].pc /\ boot'[v].time = boot[v].time
  BY <1>4 DEF Tick, Call
<1>7. TypeOK'
  BY <1>1, <1>3, <1>5, <1>6 DEF BlacklistInv, TypeOK
<1>8. CallInv'
  <2> SUFFICES ASSUME NEW v \in Servers
               PROVE  /\ \A k \in Threads :
                           /\ th'[v][k].pc \in Reading =>
                                /\ th'[v][k].time \in Times
                                /\ th'[v][k].time \in {now', IF th'[v][k].late THEN now' - 1 ELSE now'}
                           /\ th'[v][k].pc \in Removing =>
                                th'[v][k].time \in Times /\ now' - th'[v][k].time >= BanTime
                           /\ boot'[v].pc # "idle" => th'[v][k].pc = "idle"
                      /\ boot'[v].pc = "hdel" => boot'[v].time \in Times /\ now' - boot'[v].time > BanTime
                      /\ listed[v] # Nil => listed[v] <= now'
    BY <1>1 DEF CallInv, Expired
  <2>1. Times \subseteq Nat /\ BanTime \in Nat /\ listed[v] \in Nat \cup {Nil}
    BY Clock DEF BlacklistInv
  <2>2. ASSUME NEW k \in Threads
        PROVE  /\ th'[v][k].pc \in Reading =>
                    /\ th'[v][k].time \in Times
                    /\ th'[v][k].time \in {now', IF th'[v][k].late THEN now' - 1 ELSE now'}
               /\ th'[v][k].pc \in Removing =>
                    th'[v][k].time \in Times /\ now' - th'[v][k].time >= BanTime
               /\ boot'[v].pc # "idle" => th'[v][k].pc = "idle"
    <3>1. CASE th[v][k].pc \in Reading
      <4>1. /\ th[v][k].time \in Times
            /\ th[v][k].time \in {now, IF th[v][k].late THEN now - 1 ELSE now}
        BY <3>1 DEF BlacklistInv, CallInv
      <4>3. th[v][k].time = now /\ th'[v][k].late
        BY <1>2, <1>5, <3>1, <4>1 DEF Reading
      <4>4. now' - 1 = now
        BY <1>2, <1>3
      <4>2. th'[v][k].time = now' - 1 /\ th'[v][k].pc \notin Removing
        BY <1>5, <3>1, <4>3, <4>4 DEF Reading, Removing
      <4> QED
        BY <1>5, <1>6, <4>1, <4>2, <4>3 DEF BlacklistInv, CallInv
    <3>2. CASE th[v][k].pc \in Removing
      <4>1. th[v][k].time \in Times /\ now - th[v][k].time >= BanTime
        BY <3>2 DEF BlacklistInv, CallInv, Expired
      <4>2. now' - th[v][k].time >= BanTime
        BY <1>2, <1>3, <2>1, <4>1, Later
      <4> QED
        BY <1>5, <1>6, <3>2, <4>1, <4>2 DEF BlacklistInv, CallInv, Reading, Removing
    <3>3. CASE th[v][k].pc \notin Reading \cup Removing
      BY <1>5, <1>6, <3>3 DEF BlacklistInv, CallInv
    <3> QED
      BY <3>1, <3>2, <3>3
  <2>3. boot'[v].pc = "hdel" => boot'[v].time \in Times /\ now' - boot'[v].time > BanTime
    <3> SUFFICES ASSUME boot[v].pc = "hdel"
                 PROVE  boot[v].time \in Times /\ now' - boot[v].time > BanTime
      BY <1>6
    <3>1. boot[v].time \in Times /\ now - boot[v].time > BanTime
      BY DEF BlacklistInv, CallInv
    <3> QED
      BY <1>2, <1>3, <2>1, <3>1, Later
  <2>4. listed[v] # Nil => listed[v] <= now'
    <3>1. listed[v] # Nil => listed[v] <= now
      BY DEF BlacklistInv, CallInv
    <3> QED
      BY <1>2, <1>3, <2>1, <3>1
  <2> QED
    BY <2>2, <2>3, <2>4
<1>9. BanInv'
  BY <1>1, <1>3, <1>5, <1>6, BanKept
<1>10. Calm
  BY <1>1, <1>3, <1>5 DEF Calm
<1> QED
  BY <1>7, <1>8, <1>9, <1>10, CalmKeeps DEF BlacklistInv

-----------------------------------------------------------------------------
(* The theorems *)

LEMMA InitBlacklist == Init => BlacklistInv
<1> SUFFICES ASSUME Init
             PROVE  BlacklistInv
  OBVIOUS
<1>1. Idle \in Call /\ Idle.pc = "idle" /\ 0 \in Times /\ Nil \in Entry
  BY BlacklistAssumption DEF Call, Idle, Entry, Times
<1>2. <<>> \in Seq(Times) /\ Len(<<>>) = 0
  BY EmptySeq
<1>3. TypeOK
  <2>1. record \in [Servers -> Seq(Times)] /\ past \in [Servers -> Seq(Times)]
    BY <1>2 DEF Init
  <2>2. th \in [Servers -> [Threads -> Call]] /\ boot \in [Servers -> Call]
    BY <1>1 DEF Init
  <2>3. abnormal \in 0 .. MaxAbnormal /\ crashes \in 0 .. MaxCrashes /\ faults \in 0 .. MaxFaults
    BY BlacklistAssumption DEF Init
  <2>4. /\ now \in Times /\ redis \in Entry /\ unsaved \subseteq Servers /\ lost \subseteq Servers
        /\ blackLists \in [Servers -> Entry] /\ listed \in [Servers -> Entry]
    BY <1>1 DEF Init
  <2> QED
    BY <2>1, <2>2, <2>3, <2>4 DEF TypeOK
<1>4. CallInv
  BY <1>1 DEF Init, CallInv, Reading, Removing
<1>5. BanInv
  BY DEF Init, BanInv, Banned
<1>6. \A v \in Servers : Len(past[v]) = 0 /\ Len(record[v]) = 0 /\ Missing(v) = 0
  BY <1>2 DEF Init, Missing
<1>7. HistoryInv
  BY <1>6 DEF HistoryInv
<1>8. BurstInv
  <2>1. \A v \in Servers : 1 .. Len(past[v]) = {}
    BY <1>6
  <2> QED
    BY <2>1 DEF BurstInv
<1>9. ListedOnlyIfAbnormal
  BY <1>1 DEF Init, ListedOnlyIfAbnormal
<1> QED
  BY <1>3, <1>4, <1>5, <1>7, <1>8, <1>9 DEF BlacklistInv

LEMMA NextBlacklist == BlacklistInv /\ [Next]_vars => BlacklistInv'
<1> SUFFICES ASSUME BlacklistInv, [Next]_vars
             PROVE  BlacklistInv'
  OBVIOUS
<1>1. CASE Next
  <2>1. CASE \E v \in Servers, k \in Threads :
               \/ CheckBlackList(v, k) \/ Hdel(v, k) \/ RemoveFromBlacklist(v, k)
               \/ AbnormalBehavior(v, k) \/ Record(v, k) \/ Add2BlackList(v, k) \/ Hset(v, k)
    BY <2>1, CheckBlackListStep, HdelStep, RemoveStep, AbnormalBehaviorStep, RecordStep,
       Add2BlackListStep, HsetStep
  <2>2. CASE \E v \in Servers : Crash(v) \/ InitGet(v) \/ InitHdel(v)
    BY <2>2, CrashStep, InitGetStep, InitHdelStep
  <2>3. CASE Tick
    BY <2>3, TickStep
  <2> QED
    BY <1>1, <2>1, <2>2, <2>3 DEF Next
<1>2. CASE UNCHANGED vars
  <2>1. UNCHANGED <<now, record, blackLists, redis, th, boot, abnormal, crashes, faults, listed,
                    past, unsaved, lost>>
    BY <1>2 DEF vars
  <2>2. TypeOK'
    BY <2>1 DEF BlacklistInv, TypeOK
  <2>3. CallInv'
    BY <2>1 DEF BlacklistInv, CallInv, Expired
  <2>4. BanInv'
    BY <2>1 DEF BlacklistInv, BanInv, Banned, Covers
  <2>5. Calm
    <3>1. now \in Nat
      BY Clock DEF BlacklistInv
    <3> QED
      BY <2>1, <3>1 DEF Calm
  <2> QED
    BY <2>2, <2>3, <2>4, <2>5, CalmKeeps DEF BlacklistInv
<1> QED
  BY <1>1, <1>2

\* The inductive invariant of SecurityManager: what a call knows about the clock, where
\* a ban is kept, and how the record of an address relates to what happened.
THEOREM BlacklistInvariant == Spec => []BlacklistInv
<1>1. Init => BlacklistInv
  BY InitBlacklist
<1>2. BlacklistInv /\ [Next]_vars => BlacklistInv'
  BY NextBlacklist
<1> QED
  BY <1>1, <1>2, PTL DEF Spec

\* Every variable keeps its type.
THEOREM BlacklistTypeOK == Spec => []TypeOK
<1>1. BlacklistInv => TypeOK
  BY DEF BlacklistInv
<1> QED
  BY <1>1, BlacklistInvariant, PTL

\* A ban lasts for its whole time, whatever checks, other servers, failed commands and
\* restarts do, unless it is lost: a removal meant for an older entry hit it, or a server
\* that started could not read it or did not find it in Redis.
THEOREM BlacklistBanHolds == Spec => []BanHolds
<1>1. BlacklistInv => BanHolds
  <2> SUFFICES ASSUME BlacklistInv, NEW v \in Servers, v \notin lost, boot[v].pc = "idle",
                      listed[v] # Nil, now - listed[v] < BanTime - 1
               PROVE  blackLists[v] # Nil /\ ~Expired(blackLists[v])
    BY DEF BanHolds
  <2>1. Banned(v)
    BY DEF Banned
  <2>2. Covers(blackLists[v], v)
    BY <2>1 DEF BlacklistInv, BanInv
  <2>3. blackLists[v] \in Nat
    BY <2>2, Clock DEF BlacklistInv, Covers
  <2>4. ~Expired(blackLists[v])
    BY <2>1, <2>2, <2>3, ExpiredNotBanned DEF BlacklistInv
  <2> QED
    BY <2>2, <2>4 DEF Covers
<1> QED
  BY <1>1, BlacklistInvariant, PTL

\* Redis has a copy of a ban that is on, which a server reads when it starts, unless the
\* command failed, or its server crashed before it, or a removal meant for an older entry
\* hit the copy.
THEOREM BlacklistBanSaved == Spec => []BanSaved
<1>1. BlacklistInv => BanSaved
  <2> SUFFICES ASSUME BlacklistInv, NEW v \in Servers, v \notin unsaved,
                      \A k \in Threads : th[v][k].pc # "hset",
                      listed[v] # Nil, now - listed[v] < BanTime - 1
               PROVE  redis # Nil /\ ~Expired(redis)
    BY DEF BanSaved
  <2>1. Banned(v)
    BY DEF Banned
  <2>2. Covers(redis, v)
    BY <2>1 DEF BlacklistInv, BanInv
  <2>3. redis \in Nat
    BY <2>2, Clock DEF BlacklistInv, Covers
  <2>4. ~Expired(redis)
    BY <2>1, <2>2, <2>3, ExpiredNotBanned DEF BlacklistInv
  <2> QED
    BY <2>2, <2>4 DEF Covers
<1> QED
  BY <1>1, BlacklistInvariant, PTL

\* An address is listed only after Limit behaviours within the window.
THEOREM BlacklistOnlyIfAbnormal == Spec => []ListedOnlyIfAbnormal
<1>1. BlacklistInv => ListedOnlyIfAbnormal
  BY DEF BlacklistInv
<1> QED
  BY <1>1, BlacklistInvariant, PTL

\* Whenever Limit behaviours fall into the window, an entry at least as new as the last of
\* them, but for a second, gets written: for the first ban and for every later one.
THEOREM BlacklistAbnormalIsListed == Spec => []AbnormalIsListed
<1>1. BlacklistInv => AbnormalIsListed
  <2> SUFFICES ASSUME BlacklistInv, NEW v \in Servers,
                      \A k \in Threads : th[v][k].pc \notin {"record", "add"},
                      NEW i \in DOMAIN past[v], Cardinality(Burst(v, i)) >= Limit
               PROVE  listed[v] # Nil /\ listed[v] >= past[v][i] - 1
    BY DEF AbnormalIsListed
  <2>1. i \in 1 .. Len(past[v]) /\ \A k \in Threads : th[v][k].pc # "add"
    BY Lists DEF BlacklistInv
  <2> QED
    BY <2>1 DEF BlacklistInv, BurstInv
<1> QED
  BY <1>1, BlacklistInvariant, PTL
=============================================================================
