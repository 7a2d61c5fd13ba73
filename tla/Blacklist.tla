----------------------------- MODULE Blacklist -----------------------------
(***************************************************************************)
(* SecurityManager: an address with too many abnormal behaviours in a short *)
(* time is listed for a while.  Every server keeps a list of its own, and a *)
(* copy of all of them is a hash in Redis that a server reads when it       *)
(* starts.  The network threads and the message threads of a server call    *)
(* checkBlackList and abnormalBehavior, each in several critical sections   *)
(* and Redis commands; a step below is one of those.  A Redis command may   *)
(* fail, and no caller looks at the result.  Addresses do not depend on     *)
(* each other, so there is one.                                             *)
(***************************************************************************)
EXTENDS Integers, Sequences, FiniteSets

CONSTANTS
  Servers,
  Threads,      \* threads of a server
  Nil,          \* no entry
  Limit,        \* behaviours that get an address listed, 20 in the code
  Window,       \* within so many seconds, 3 in the code
  BanTime,      \* seconds an address is listed, 300 in the code
  MaxTime,      \* bound: seconds
  MaxAbnormal,  \* bound: abnormal behaviours
  MaxCrashes,   \* bound: restarts
  MaxFaults     \* bound: failed Redis commands

ASSUME BlacklistAssumption ==
  /\ Nil \notin Nat
  /\ Limit \in Nat \ {0} /\ Window \in Nat /\ BanTime \in Nat \ {0}
  /\ MaxTime \in Nat /\ MaxAbnormal \in Nat /\ MaxCrashes \in Nat
  /\ MaxFaults \in Nat

VARIABLES
  now,        \* BaseUtils::getCurrentSecond
  record,     \* record[v]: AbnormalRecord::_timestmaps of the address
  blackLists, \* blackLists[v]: SecurityManager::_blackLists of the address
  redis,      \* the hash RedisKeys::IP_BLACKLIST of the address
  th,         \* th[v][k]: the call of thread k
  boot,       \* boot[v]: where server v is in SecurityManager::init
  abnormal,   \* abnormal behaviours so far
  crashes,    \* restarts so far
  faults,     \* failed Redis commands so far
  listed,     \* history: listed[v]: when v last listed the address
  past,       \* history: past[v]: times of the behaviours v recorded
  unsaved,    \* history: servers whose last ban did not get into Redis, or was
              \* deleted there by a removal that was meant for an older entry
  lost        \* history: servers whose last ban was removed from memory by such a
              \* removal, or not found in Redis at a restart

bounds == <<abnormal, crashes, faults>>
vars == <<now, record, blackLists, redis, th, boot, abnormal, crashes, faults,
          listed, past, unsaved, lost>>

Times == 0 .. MaxTime
Entry == Times \cup {Nil}

\* late: the call began before the clock's last tick.
Call == [pc : {"idle", "get", "hdel", "remove", "record", "add", "hset"},
         time : Entry, late : BOOLEAN]
Idle == [pc |-> "idle", time |-> Nil, late |-> FALSE]

TypeOK ==
  /\ now \in Times /\ redis \in Entry
  /\ record \in [Servers -> Seq(Times)] /\ past \in [Servers -> Seq(Times)]
  /\ blackLists \in [Servers -> Entry] /\ listed \in [Servers -> Entry]
  /\ th \in [Servers -> [Threads -> Call]]
  /\ boot \in [Servers -> Call]
  /\ abnormal \in 0 .. MaxAbnormal /\ crashes \in 0 .. MaxCrashes
  /\ faults \in 0 .. MaxFaults
  /\ unsaved \subseteq Servers /\ lost \subseteq Servers

Init ==
  /\ now = 0 /\ redis = Nil
  /\ record = [v \in Servers |-> <<>>] /\ past = [v \in Servers |-> <<>>]
  /\ blackLists = [v \in Servers |-> Nil] /\ listed = [v \in Servers |-> Nil]
  /\ th = [v \in Servers |-> [k \in Threads |-> Idle]]
  /\ boot = [v \in Servers |-> Idle]
  /\ abnormal = 0 /\ crashes = 0 /\ faults = 0
  /\ unsaved = {} /\ lost = {}

Goto(v, k, pc) == th' = [th EXCEPT ![v][k].pc = pc]
Done(v, k) == th' = [th EXCEPT ![v][k] = Idle]
\* A Redis command fails, with no effect.
Fails == faults < MaxFaults /\ faults' = faults + 1
Works == UNCHANGED faults

Free(v, k) == boot[v].pc = "idle" /\ th[v][k].pc = "idle"

-----------------------------------------------------------------------------
(* checkBlackList, which TcpServer calls for a new connection and MsgSession *)
(* for what it receives *)

\* Mutant of Expired: a second too early.
ExpiredEarly(time) == now - time >= BanTime - 1

Expired(time) == now - time >= BanTime

\* getTimeStramp and the comparison with the clock.  An address that is not listed
\* is let through and one that is listed refused, which changes nothing.
CheckBlackList(v, k) ==
  /\ Free(v, k) /\ blackLists[v] # Nil /\ Expired(blackLists[v])
  /\ th' = [th EXCEPT ![v][k] = [Idle EXCEPT !.pc = "hdel", !.time = blackLists[v]]]
  /\ UNCHANGED <<now, record, blackLists, redis, boot, bounds, listed, past,
                 unsaved, lost>>

\* hdel of an entry found to be as old as `time`: it deletes the copy whichever
\* server wrote it, and whenever, or fails and leaves it.
DeleteCopy(time) ==
  \/ /\ Works
     /\ redis' = Nil
     /\ unsaved' = IF redis \in {Nil, time} THEN unsaved ELSE Servers
  \/ Fails /\ UNCHANGED <<redis, unsaved>>

Hdel(v, k) ==
  /\ th[v][k].pc = "hdel"
  /\ DeleteCopy(th[v][k].time)
  /\ Goto(v, k, "remove")
  /\ UNCHANGED <<now, record, blackLists, boot, abnormal, crashes, listed, past, lost>>

\* removeFromBlacklist.  The call still answers that the address is listed.
RemoveFromBlacklist(v, k) ==
  /\ th[v][k].pc = "remove"
  /\ blackLists' = [blackLists EXCEPT ![v] = Nil]
  /\ lost' = IF blackLists[v] \in {Nil, th[v][k].time} THEN lost ELSE lost \cup {v}
  /\ Done(v, k)
  /\ UNCHANGED <<now, record, redis, boot, bounds, listed, past, unsaved>>

-----------------------------------------------------------------------------
(* abnormalBehavior *)

\* The clock is read before the record is locked.
AbnormalBehavior(v, k) ==
  /\ Free(v, k) /\ abnormal < MaxAbnormal
  /\ abnormal' = abnormal + 1
  /\ th' = [th EXCEPT ![v][k] = [Idle EXCEPT !.pc = "record", !.time = now]]
  /\ UNCHANGED <<now, record, blackLists, redis, boot, crashes, faults, listed, past,
                 unsaved, lost>>

\* What the loop of AbnormalRecord::AbnormalBehavior leaves of the list: it stops
\* at the first entry that is recent enough.
Recent(list, time) ==
  LET keep == {i \in DOMAIN list : time - list[i] <= Window}
      first == IF keep = {} THEN Len(list) + 1
               ELSE CHOOSE i \in keep : \A j \in keep : i <= j
  IN SubSeq(list, first, Len(list))

\* Mutants of Over: one behaviour too few, and only the behaviour that reaches the
\* limit.
OverEarly(list) == Len(list) >= Limit - 1
OverOnce(list) == Len(list) = Limit

Over(list) == Len(list) >= Limit

Record(v, k) ==
  LET time == th[v][k].time
      list == Append(Recent(record[v], time), time)
  IN
  /\ th[v][k].pc = "record"
  /\ record' = [record EXCEPT ![v] = list]
  /\ past' = [past EXCEPT ![v] = Append(@, time)]
  /\ IF Over(list) THEN Goto(v, k, "add") ELSE Done(v, k)
  /\ UNCHANGED <<now, blackLists, redis, boot, bounds, listed, unsaved, lost>>

\* Mutant of Add2BlackList: the entry is the end of the ban.
Add2BlackListEnd(v, k) ==
  /\ th[v][k].pc = "add"
  /\ blackLists' = [blackLists EXCEPT ![v] = th[v][k].time + BanTime]
  /\ listed' = [listed EXCEPT ![v] = th[v][k].time]
  /\ lost' = lost \ {v}
  /\ Goto(v, k, "hset")
  /\ UNCHANGED <<now, record, redis, boot, bounds, past, unsaved>>

Add2BlackList(v, k) ==
  /\ th[v][k].pc = "add"
  /\ blackLists' = [blackLists EXCEPT ![v] = th[v][k].time]
  /\ listed' = [listed EXCEPT ![v] = th[v][k].time]
  /\ lost' = lost \ {v}
  /\ Goto(v, k, "hset")
  /\ UNCHANGED <<now, record, redis, boot, bounds, past, unsaved>>

\* Mutant of Hset: an entry that is already there is not overwritten.
HsetIfAbsent(v, k) ==
  /\ th[v][k].pc = "hset"
  /\ \/ /\ Works
        /\ redis' = IF redis = Nil THEN th[v][k].time ELSE redis
        /\ unsaved' = {}
     \/ Fails /\ unsaved' = unsaved \cup {v} /\ UNCHANGED redis
  /\ Done(v, k)
  /\ UNCHANGED <<now, record, blackLists, boot, abnormal, crashes, listed, past, lost>>

\* The entry is as new as any, so it is also the copy of what others have listed.
Hset(v, k) ==
  /\ th[v][k].pc = "hset"
  /\ \/ Works /\ redis' = th[v][k].time /\ unsaved' = {}
     \/ Fails /\ unsaved' = unsaved \cup {v} /\ UNCHANGED redis
  /\ Done(v, k)
  /\ UNCHANGED <<now, record, blackLists, boot, abnormal, crashes, listed, past, lost>>

-----------------------------------------------------------------------------
(* Restart *)

\* A server stops at any point and starts again with nothing in memory.
Crash(v) ==
  /\ crashes < MaxCrashes
  /\ crashes' = crashes + 1
  /\ unsaved' = IF \E k \in Threads : th[v][k].pc = "hset" THEN unsaved \cup {v}
                ELSE unsaved
  /\ record' = [record EXCEPT ![v] = <<>>] /\ past' = [past EXCEPT ![v] = <<>>]
  /\ blackLists' = [blackLists EXCEPT ![v] = Nil]
  /\ th' = [th EXCEPT ![v] = [k \in Threads |-> Idle]]
  /\ boot' = [boot EXCEPT ![v] = [Idle EXCEPT !.pc = "get"]]
  /\ UNCHANGED <<now, redis, abnormal, faults, listed, lost>>

\* init: hkeys and hget, then Add2BlackList or hdel.  An entry that is exactly as
\* old as the ban is still taken over, and one that cannot be read is skipped.
InitGet(v) ==
  /\ boot[v].pc = "get"
  /\ \/ /\ Works
        /\ IF redis # Nil /\ now - redis > BanTime
           THEN boot' = [boot EXCEPT ![v].pc = "hdel", ![v].time = redis]
                /\ UNCHANGED blackLists
           ELSE /\ boot' = [boot EXCEPT ![v] = Idle]
                /\ blackLists' = [blackLists EXCEPT ![v] = redis]
        /\ lost' = IF v \in unsaved THEN lost \cup {v} ELSE lost \ {v}
     \/ /\ Fails
        /\ boot' = [boot EXCEPT ![v] = Idle]
        /\ lost' = lost \cup {v}
        /\ UNCHANGED blackLists
  /\ UNCHANGED <<now, record, redis, th, abnormal, crashes, listed, past, unsaved>>

InitHdel(v) ==
  /\ boot[v].pc = "hdel"
  /\ DeleteCopy(boot[v].time)
  /\ boot' = [boot EXCEPT ![v] = Idle]
  /\ UNCHANGED <<now, record, blackLists, th, abnormal, crashes, listed, past, lost>>

-----------------------------------------------------------------------------

\* The clock ticks.  A call is over within a second.
Tick ==
  /\ now < MaxTime
  /\ \A v \in Servers : ~boot[v].late /\ \A k \in Threads : ~th[v][k].late
  /\ now' = now + 1
  /\ th' = [v \in Servers |-> [k \in Threads |->
              [th[v][k] EXCEPT !.late = th[v][k].pc # "idle"]]]
  /\ boot' = [v \in Servers |-> [boot[v] EXCEPT !.late = boot[v].pc # "idle"]]
  /\ UNCHANGED <<record, blackLists, redis, bounds, listed, past, unsaved, lost>>

Next ==
  \/ \E v \in Servers, k \in Threads :
       \/ CheckBlackList(v, k) \/ Hdel(v, k) \/ RemoveFromBlacklist(v, k)
       \/ AbnormalBehavior(v, k) \/ Record(v, k) \/ Add2BlackList(v, k) \/ Hset(v, k)
  \/ \E v \in Servers : Crash(v) \/ InitGet(v) \/ InitHdel(v)
  \/ Tick

Spec == Init /\ [][Next]_vars

-----------------------------------------------------------------------------
(* Properties *)

\* An address a server has listed stays listed there for the whole time, in spite
\* of checks that run at the same time, of other servers, of failed commands and of
\* restarts.  It is lost only if a removal meant for an older entry hits it, or if a
\* restarting server cannot read it or finds that it is not in Redis, where
\* BanSaved says when it must be; and the next listing starts afresh.  A second is
\* lost because the clock is read before the entry is written.
BanHolds ==
  \A v \in Servers :
    /\ v \notin lost /\ boot[v].pc = "idle"
    /\ listed[v] # Nil /\ now - listed[v] < BanTime - 1
    => blackLists[v] # Nil /\ ~Expired(blackLists[v])

\* Redis has a copy of every ban for a server that starts, whichever servers wrote
\* and deleted the one entry they share.  A ban is missing there only while it is
\* being written, if that command failed or its server crashed before it, or if a
\* removal meant for an older entry hit it; and the next entry written makes good.
BanSaved ==
  \A v \in Servers :
    /\ v \notin unsaved /\ \A k \in Threads : th[v][k].pc # "hset"
    /\ listed[v] # Nil /\ now - listed[v] < BanTime - 1
    => redis # Nil /\ ~Expired(redis)

\* An address gets listed only after Limit behaviours that the server really saw
\* within the window, a second more for calls that overtook each other, however
\* its list of times was cut and in whatever order the times were added.
ListedOnlyIfAbnormal ==
  \A v \in Servers, k \in Threads :
    th[v][k].pc = "add" =>
      Cardinality({i \in DOMAIN past[v] : th[v][k].time - past[v][i] <= Window + 1}) >= Limit

\* The behaviours the server saw within the window, a second less for calls that
\* overtook each other, when the i-th of its history happened.
Burst(v, i) ==
  {j \in DOMAIN past[v] : past[v][i] - past[v][j] \in 0 .. Window - 1}

\* Whenever Limit behaviours fall into the window, the address has been listed, or
\* listed again, by the time the calls that recorded them are over, and as of then
\* but for a second: also after an earlier ban has expired, and after a restart.
AbnormalIsListed ==
  \A v \in Servers :
    boot[v].pc = "idle" /\ (\A k \in Threads : th[v][k].pc \notin {"record", "add"}) =>
      \A i \in DOMAIN past[v] :
        Cardinality(Burst(v, i)) >= Limit =>
          listed[v] # Nil /\ listed[v] >= past[v][i] - 1

\* The inductive invariant behind the properties above.

Reading == {"record", "add", "hset"}   \* in abnormalBehavior
Removing == {"hdel", "remove"}         \* in checkBlackList

\* A call knows the time to the second, and removes only an entry that has expired.
\* A server that is starting runs no call.
CallInv ==
  \A v \in Servers :
    /\ \A k \in Threads :
         /\ th[v][k].pc \in Reading =>
              th[v][k].time \in Times /\ th[v][k].time \in {now, IF th[v][k].late THEN now - 1 ELSE now}
         /\ th[v][k].pc \in Removing => th[v][k].time \in Times /\ Expired(th[v][k].time)
         /\ boot[v].pc # "idle" => th[v][k].pc = "idle"
    /\ boot[v].pc = "hdel" => boot[v].time \in Times /\ now - boot[v].time > BanTime
    /\ listed[v] # Nil => listed[v] <= now

\* Is the ban of v still on, and is an entry as old as it, but for a second?
Banned(v) == listed[v] # Nil /\ now - listed[v] < BanTime - 1
Covers(e, v) == e # Nil /\ listed[v] - 1 <= e

\* The ban is in memory, and unless it is just being written also in Redis.
BanInv ==
  \A v \in Servers : Banned(v) =>
    /\ v \notin lost /\ boot[v].pc = "idle" => Covers(blackLists[v], v)
    /\ v \notin unsaved /\ (\A k \in Threads : th[v][k].pc # "hset") => Covers(redis, v)
    /\ v \notin lost /\ boot[v].pc # "idle" => boot[v].pc = "get"

\* The record is the end of the history; what is missing is too old to count, and
\* the times are in order, but for a second.
Missing(v) == Len(past[v]) - Len(record[v])
HistoryInv ==
  \A v \in Servers :
    /\ Missing(v) >= 0
    /\ \A i \in 1 .. Len(record[v]) : record[v][i] = past[v][Missing(v) + i]
    /\ \A i \in 1 .. Missing(v) : past[v][i] + Window < now
    /\ \A i, j \in 1 .. Len(past[v]) : i < j => past[v][i] <= past[v][j] + 1
    /\ \A i \in 1 .. Len(past[v]) : past[v][i] <= now

\* A burst has been answered with an entry, unless a call is about to write one.
BurstInv ==
  \A v \in Servers : (\A k \in Threads : th[v][k].pc # "add") =>
    \A i \in 1 .. Len(past[v]) :
      Cardinality(Burst(v, i)) >= Limit => listed[v] # Nil /\ listed[v] >= past[v][i] - 1

BlacklistInv ==
  TypeOK /\ CallInv /\ BanInv /\ HistoryInv /\ BurstInv /\ ListedOnlyIfAbnormal
=============================================================================
