----------------------------- MODULE RateLimit ------------------------------
(***************************************************************************)
(* The login rate limit of auth-service: the login_attempts table of       *)
(* failed logins, and the login requests in flight between the check of    *)
(* the limits and the record of a failure.                                 *)
(*                                                                         *)
(* A row carries its age instead of its time of creation, so that time has *)
(* no bound: the age stops at the first value past every window.           *)
(*                                                                         *)
(* The three counts of a check are three statements, but one action here:  *)
(* rows committed between them can only make a later count larger, so a    *)
(* check that passes would have passed at its first count, and one that a  *)
(* count stops would have been stopped at that count.                      *)
(***************************************************************************)
EXTENDS Naturals, FiniteSets

CONSTANTS Ips, Names, Handlers,
          Ids,                          \* login_attempts.id
          MaxIp, MaxPair, MaxName,      \* rate_limit_*_max_attempts
          IpWindow, PairWindow, NameWindow  \* rate_limit_*_window_minutes

MaxWindow == CHOOSE w \in {IpWindow, PairWindow, NameWindow} :
               /\ w >= IpWindow
               /\ w >= PairWindow
               /\ w >= NameWindow

Ages == 0 .. MaxWindow + 1

Row == [id : Ids, ip : Ips, name : Names, age : Ages]

Idle == [step |-> "idle"]

Request == {Idle} \cup [step : {"verify"}, ip : Ips, name : Names]

ASSUME LimitsAssumption ==
  /\ MaxIp \in Nat \ {0}
  /\ MaxPair \in Nat \ {0}
  /\ MaxName \in Nat \ {0}
  /\ IpWindow \in Nat
  /\ PairWindow \in Nat
  /\ NameWindow \in Nat
  /\ IsFiniteSet(Handlers)

VARIABLES attempts,   \* the rows of login_attempts
          req         \* req[h]: the login in slot h, past its check

vars == <<attempts, req>>

TypeOK ==
  /\ attempts \subseteq Row
  /\ req \in [Handlers -> Request]

-----------------------------------------------------------------------------
Within(window) == {r \in attempts : r.age <= window}

OfIp(i) == {r \in Within(IpWindow) : r.ip = i}

OfPair(i, n) == {r \in Within(PairWindow) : r.ip = i /\ r.name = n}

OfName(n) == {r \in Within(NameWindow) : r.name = n}

\* faulty: no limit on one name from one address
BlockedByIpOrName(i, n) ==
  \/ Cardinality(OfIp(i)) >= MaxIp
  \/ Cardinality(OfName(n)) >= MaxName

\* faulty: one attempt too many
BlockedBeyond(i, n) ==
  \/ Cardinality(OfIp(i)) > MaxIp
  \/ Cardinality(OfPair(i, n)) > MaxPair
  \/ Cardinality(OfName(n)) > MaxName

\* check_login_rate_limit raises RateLimitExceeded.
Blocked(i, n) ==
  \/ Cardinality(OfIp(i)) >= MaxIp
  \/ Cardinality(OfPair(i, n)) >= MaxPair
  \/ Cardinality(OfName(n)) >= MaxName

Free == Ids \ {r.id : r \in attempts}

\* faulty: rows are dropped once the shortest window has passed
KeptShortest(A) == {r \in A : r.age <= PairWindow}

\* What the housekeeping of record_failed_attempt leaves.
Kept(A) == {r \in A : r.age <= MaxWindow}

\* faulty: address and name change places
InsertSwapped(A, i, n) ==
  Kept(A) \cup {[id |-> CHOOSE a \in Free : TRUE, ip |-> n, name |-> i, age |-> 0]}

Insert(A, i, n) ==
  Kept(A) \cup {[id |-> CHOOSE a \in Free : TRUE, ip |-> i, name |-> n, age |-> 0]}

-----------------------------------------------------------------------------
Init ==
  /\ attempts = {}
  /\ req = [h \in Handlers |-> Idle]

Older(r) == [r EXCEPT !.age = IF @ > MaxWindow THEN @ ELSE @ + 1]

\* A minute passes.
Tick ==
  /\ attempts' = {Older(r) : r \in attempts}
  /\ UNCHANGED req

\* A login passes the three limits; the password is verified next.
Check(h, i, n) ==
  /\ req[h] = Idle
  /\ ~Blocked(i, n)
  /\ req' = [req EXCEPT ![h] = [step |-> "verify", ip |-> i, name |-> n]]
  /\ UNCHANGED attempts

\* faulty: the attempt that a limit stops is recorded like a failure
StopRecording(h, i, n) ==
  /\ req[h] = Idle
  /\ Blocked(i, n)
  /\ Free # {}
  /\ attempts' = Insert(attempts, i, n)
  /\ UNCHANGED req

\* A login that a limit stops is answered 429 and leaves nothing behind.
Stop(h, i, n) ==
  /\ req[h] = Idle
  /\ Blocked(i, n)
  /\ UNCHANGED vars

\* No such user, or the wrong password.
RecordFailure(h) ==
  /\ req[h].step = "verify"
  /\ Free # {}
  /\ attempts' = Insert(attempts, req[h].ip, req[h].name)
  /\ req' = [req EXCEPT ![h] = Idle]

\* The right password, an account that may not log in, or a crash before the
\* commit: nothing is recorded, and no row is removed.
LeaveNoRecord(h) ==
  /\ req[h].step = "verify"
  /\ req' = [req EXCEPT ![h] = Idle]
  /\ UNCHANGED attempts

Next ==
  \/ Tick
  \/ \E h \in Handlers :
       \/ \E i \in Ips, n \in Names : Check(h, i, n) \/ Stop(h, i, n)
       \/ RecordFailure(h)
       \/ LeaveNoRecord(h)

Spec == Init /\ [][Next]_vars

\* Only time is fair: clients may keep trying, and no request has to finish.
FairSpec == Spec /\ WF_vars(Tick)

-----------------------------------------------------------------------------
(***************************************************************************)
(* Properties.                                                             *)
(***************************************************************************)
Room(max) == max + Cardinality(Handlers) - 1

\* However logins interleave, no window holds more failures than its limit
\* plus the other requests that were let through before the last of those
\* failures was recorded (check_login_rate_limit, record_failed_attempt).
IpLimit ==
  \A i \in Ips : Cardinality(OfIp(i)) <= Room(MaxIp)

PairLimit ==
  \A i \in Ips, n \in Names : Cardinality(OfPair(i, n)) <= Room(MaxPair)

NameLimit ==
  \A n \in Names : Cardinality(OfName(n)) <= Room(MaxName)

LimitsUpToRequestsInFlight == IpLimit /\ PairLimit /\ NameLimit

(***************************************************************************)
(* The three limits, one by one: a limit counts the failures of its window *)
(* whose <<address, name>> is among its keys, and it has granted the       *)
(* requests in flight whose own pair is.                                   *)
(***************************************************************************)
Limits ==
       {[keys |-> {i} \X Names, window |-> IpWindow, max |-> MaxIp] : i \in Ips}
  \cup {[keys |-> {<<k[1], k[2]>>}, window |-> PairWindow, max |-> MaxPair] : k \in Ips \X Names}
  \cup {[keys |-> Ips \X {n}, window |-> NameWindow, max |-> MaxName] : n \in Names}

Counted(K, w) == {r \in attempts : r.age <= w /\ <<r.ip, r.name>> \in K}

Granted(K) == {h \in Handlers : req[h].step = "verify" /\ <<req[h].ip, req[h].name>> \in K}

Full(l) == Cardinality(Counted(l.keys, l.window)) >= l.max

\* Every failure counted after the step was counted before, one minute younger.
AllOlder(l) ==
  \A r2 \in Counted(l.keys, l.window)' : \E r \in Counted(l.keys, l.window) :
    r2 = [id |-> r.id, ip |-> r.ip, name |-> r.name, age |-> r.age + 1]

FullOnlyDrains ==
  \A l \in Limits : Full(l) /\ Granted(l.keys) = {} =>
    /\ Granted(l.keys)' = {}
    /\ Tick => AllOlder(l)
    /\ ~Tick => Counted(l.keys, l.window)' \subseteq Counted(l.keys, l.window)

\* Once a limit is reached and the logins it had let through are answered, no
\* attempt counts against it any more, refused ones least of all: the failures
\* it counts only grow old and go, as time alone decides, so nobody can keep a
\* lock up by trying (config.py:58-60; check_login_rate_limit raises before
\* record_failed_attempt is reached).
LocksOnlyDrain == [][FullOnlyDrains]_vars

\* Housekeeping never drops a row that some window still counts
\* (record_failed_attempt prunes by the longest window).
CountedFailuresStay ==
  [][ \A r \in Within(MaxWindow) : \E r2 \in attempts' :
        /\ [r2 EXCEPT !.age = r.age] = r
        /\ r2.age >= r.age ]_vars

\* Every lock heals by itself, even while the blocked client keeps trying
\* (config.py:58-60: "it self-heals when the window elapses").
LocksHeal ==
  \A i \in Ips, n \in Names : Blocked(i, n) ~> ~Blocked(i, n)
=============================================================================
