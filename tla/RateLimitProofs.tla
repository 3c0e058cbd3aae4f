-------------------------- MODULE RateLimitProofs ---------------------------
(***************************************************************************)
(* Proofs about RateLimit, for any addresses, names, limits and windows,   *)
(* and any finite number of requests in flight.                            *)
(*                                                                         *)
(* The three limits are one argument.  A limit counts the failures whose   *)
(* (address, name) lies in a set of keys; a request in flight was granted  *)
(* by it when its own pair lies there.  Failures and grants together never *)
(* exceed the limit plus the other requests: a check that passes finds     *)
(* fewer failures than the limit, a recorded failure uses up its grant,    *)
(* and time and housekeeping only take failures away.                      *)
(***************************************************************************)
EXTENDS RateLimit, FiniteSetTheorems, TLAPS

LimitInv(l) ==
  Cardinality(Counted(l.keys, l.window)) + Cardinality(Granted(l.keys)) <= Room(l.max)

RateLimitInv ==
  /\ TypeOK
  /\ IsFiniteSet(attempts)
  /\ \A l \in Limits : LimitInv(l)

-----------------------------------------------------------------------------
\* The longest window is one of the three and no shorter than any of them.
LEMMA MaxWindowFacts ==
  /\ MaxWindow \in Nat
  /\ IpWindow <= MaxWindow /\ PairWindow <= MaxWindow /\ NameWindow <= MaxWindow
<1>1. \E w \in {IpWindow, PairWindow, NameWindow} :
         w >= IpWindow /\ w >= PairWindow /\ w >= NameWindow
  BY LimitsAssumption
<1>2. QED
  BY <1>1, LimitsAssumption DEF MaxWindow

LEMMA LimitsFacts ==
  ASSUME NEW l \in Limits
  PROVE  l.max \in Nat \ {0} /\ l.window \in Nat
BY LimitsAssumption DEF Limits

\* Adding one element adds at most one to the count of a subset.
LEMMA OneMore ==
  ASSUME NEW S, NEW x, IsFiniteSet(S), NEW T \in SUBSET (S \cup {x})
  PROVE  IsFiniteSet(T) /\ Cardinality(T) <= Cardinality(S) + 1
<1>1. IsFiniteSet(S \cup {x}) /\ Cardinality(S) \in Nat
  BY FS_AddElement, FS_CardinalityType
<1>2. Cardinality(S \cup {x}) <= Cardinality(S) + 1
  BY <1>1, FS_AddElement
<1>3. IsFiniteSet(T) /\ Cardinality(T) <= Cardinality(S \cup {x}) /\ Cardinality(T) \in Nat
  BY <1>1, FS_Subset, FS_CardinalityType
<1>4. Cardinality(S \cup {x}) \in Nat
  BY <1>1, FS_CardinalityType
<1>5. QED
  BY <1>1, <1>2, <1>3, <1>4

\* What a limit counts and what it granted are finite.
LEMMA CountsFinite ==
  ASSUME IsFiniteSet(attempts), NEW l \in Limits
  PROVE  /\ IsFiniteSet(Counted(l.keys, l.window))
         /\ Cardinality(Counted(l.keys, l.window)) \in Nat
         /\ IsFiniteSet(Granted(l.keys))
         /\ Cardinality(Granted(l.keys)) \in Nat
         /\ Cardinality(Granted(l.keys)) <= Cardinality(Handlers)
         /\ Cardinality(Handlers) \in Nat
<1>1. Counted(l.keys, l.window) \in SUBSET attempts /\ Granted(l.keys) \in SUBSET Handlers
  BY DEF Counted, Granted
<1>2. QED
  BY <1>1, FS_Subset, FS_CardinalityType, LimitsAssumption

\* A login that no limit stops finds room in every limit that counts it.
LEMMA PassingCheck ==
  ASSUME TypeOK, NEW i \in Ips, NEW n \in Names, ~Blocked(i, n),
         NEW l \in Limits, <<i, n>> \in l.keys, IsFiniteSet(attempts)
  PROVE  Cardinality(Counted(l.keys, l.window)) < l.max
<1>1. CASE \E j \in Ips : l = [keys |-> {j} \X Names, window |-> IpWindow, max |-> MaxIp]
  <2>1. l = [keys |-> {i} \X Names, window |-> IpWindow, max |-> MaxIp]
    <3>1. PICK j \in Ips : l = [keys |-> {j} \X Names, window |-> IpWindow, max |-> MaxIp]
      BY <1>1
    <3>2. <<i, n>> \in {j} \X Names
      BY <3>1
    <3>3. QED
      BY <3>1, <3>2
  <2>2. Counted(l.keys, l.window) = OfIp(i) /\ l.max = MaxIp
    BY <2>1 DEF Counted, OfIp, Within, TypeOK, Row
  <2>3. QED
    <3>1. Cardinality(Counted(l.keys, l.window)) \in Nat
      BY CountsFinite
    <3>2. QED
      BY <2>2, <3>1, LimitsAssumption DEF Blocked
<1>2. CASE \E k \in Ips \X Names :
             l = [keys |-> {<<k[1], k[2]>>}, window |-> PairWindow, max |-> MaxPair]
  <2>1. l = [keys |-> {<<i, n>>}, window |-> PairWindow, max |-> MaxPair]
    BY <1>2
  <2>2. Counted(l.keys, l.window) = OfPair(i, n) /\ l.max = MaxPair
    BY <2>1 DEF Counted, OfPair, Within, TypeOK, Row
  <2>3. QED
    <3>1. Cardinality(Counted(l.keys, l.window)) \in Nat
      BY CountsFinite
    <3>2. QED
      BY <2>2, <3>1, LimitsAssumption DEF Blocked
<1>3. CASE \E m \in Names : l = [keys |-> Ips \X {m}, window |-> NameWindow, max |-> MaxName]
  <2>1. l = [keys |-> Ips \X {n}, window |-> NameWindow, max |-> MaxName]
    BY <1>3
  <2>2. Counted(l.keys, l.window) = OfName(n) /\ l.max = MaxName
    BY <2>1 DEF Counted, OfName, Within, TypeOK, Row
  <2>3. QED
    <3>1. Cardinality(Counted(l.keys, l.window)) \in Nat
      BY CountsFinite
    <3>2. QED
      BY <2>2, <3>1, LimitsAssumption DEF Blocked
<1>4. QED
  BY <1>1, <1>2, <1>3 DEF Limits

-----------------------------------------------------------------------------
\* Each step keeps the state well typed and the table finite.
LEMMA TypeStep ==
  ASSUME TypeOK, IsFiniteSet(attempts), [Next]_vars
  PROVE  TypeOK' /\ IsFiniteSet(attempts)'
<1>1. CASE Tick
  <2>1. \A r \in Row : Older(r) \in Row
    BY MaxWindowFacts DEF Older, Row, Ages
  <2>2. TypeOK'
    BY <1>1, <2>1 DEF TypeOK, Tick
  <2> DEFINE f == [r \in attempts |-> Older(r)]
  <2>3. f \in Surjection(attempts, attempts')
    BY <1>1 DEF Tick, Surjection
  <2>4. QED
    BY <2>2, <2>3, FS_Surjection
<1>2. CASE \E h \in Handlers, i \in Ips, n \in Names : Check(h, i, n)
  BY <1>2 DEF TypeOK, Check, Request
<1>3. CASE \E h \in Handlers, i \in Ips, n \in Names : Stop(h, i, n)
  BY <1>3 DEF TypeOK, Stop, vars
<1>4. CASE \E h \in Handlers : RecordFailure(h)
  <2>1. PICK h \in Handlers : RecordFailure(h)
    BY <1>4
  <2> DEFINE new == [id |-> CHOOSE a \in Free : TRUE, ip |-> req[h].ip, name |-> req[h].name, age |-> 0]
  <2>2. req[h].ip \in Ips /\ req[h].name \in Names
    BY <2>1 DEF RecordFailure, TypeOK, Request, Idle
  <2>3. new \in Row
    <3>1. (CHOOSE a \in Free : TRUE) \in Ids
      BY <2>1 DEF RecordFailure, Free
    <3>2. 0 \in Ages
      BY MaxWindowFacts DEF Ages
    <3>3. QED
      BY <2>2, <3>1, <3>2 DEF Row
  <2>4. attempts' = Kept(attempts) \cup {new} /\ attempts' \in SUBSET (attempts \cup {new})
        /\ Kept(attempts) \subseteq attempts
    BY <2>1 DEF RecordFailure, Insert, Kept
  <2>5. TypeOK'
    BY <2>1, <2>3, <2>4 DEF TypeOK, RecordFailure, Request
  <2>6. ASSUME NEW x, attempts' \in SUBSET (attempts \cup {x}) PROVE IsFiniteSet(attempts')
    BY <2>6, OneMore
  <2>7. QED
    BY <2>4, <2>5, <2>6
<1>5. CASE \E h \in Handlers : LeaveNoRecord(h)
  BY <1>5 DEF TypeOK, LeaveNoRecord, Request
<1>6. CASE UNCHANGED vars
  BY <1>6 DEF TypeOK, vars
<1>7. QED
  BY <1>1, <1>2, <1>3, <1>4, <1>5, <1>6 DEF Next

\* Each step keeps failures and grants together within the limit's room.
LEMMA LimitStep ==
  ASSUME TypeOK, IsFiniteSet(attempts), [Next]_vars, NEW l \in Limits, LimitInv(l)
  PROVE  LimitInv(l)'
<1> DEFINE C == Counted(l.keys, l.window)
           G == Granted(l.keys)
<1>0. /\ IsFiniteSet(C) /\ Cardinality(C) \in Nat
      /\ IsFiniteSet(G) /\ Cardinality(G) \in Nat
      /\ IsFiniteSet(C') /\ Cardinality(C') \in Nat
      /\ IsFiniteSet(G') /\ Cardinality(G') \in Nat
      /\ Cardinality(G') <= Cardinality(Handlers)
      /\ Cardinality(Handlers) \in Nat
      /\ l.max \in Nat \ {0} /\ l.window \in Nat
  <2>1. IsFiniteSet(attempts')
    BY TypeStep
  <2>2. C' \in SUBSET attempts' /\ G' \in SUBSET Handlers
    BY DEF Counted, Granted
  <2>3. IsFiniteSet(C') /\ IsFiniteSet(G') /\ Cardinality(G') <= Cardinality(Handlers)
    BY <2>1, <2>2, FS_Subset, LimitsAssumption
  <2>4. QED
    BY <2>3, CountsFinite, LimitsFacts, FS_CardinalityType
<1>1. SUFFICES Cardinality(C') + Cardinality(G') <= l.max + Cardinality(Handlers) - 1
  BY DEF LimitInv, Room
<1>2. Cardinality(C) + Cardinality(G) <= l.max + Cardinality(Handlers) - 1
  BY DEF LimitInv, Room
<1>3. CASE Tick
  <2> DEFINE S == {r \in attempts : Older(r) \in C'}
             f == [r \in S |-> Older(r)]
  <2>1. S \in SUBSET C
    <3>1. \A r \in Row : /\ Older(r).ip = r.ip
                         /\ Older(r).name = r.name
                         /\ r.age <= Older(r).age
      BY MaxWindowFacts DEF Older, Row, Ages
    <3>2. \A r \in Row : r.age \in Nat /\ Older(r).age \in Nat
      BY MaxWindowFacts DEF Older, Row, Ages
    <3>3. SUFFICES ASSUME NEW r \in attempts, Older(r) \in C' PROVE r \in C
      OBVIOUS
    <3>4. r \in Row
      BY DEF TypeOK
    <3>5. Older(r).age <= l.window /\ <<Older(r).ip, Older(r).name>> \in l.keys
      BY <3>3 DEF Counted
    <3>6. QED
      BY <1>0, <3>1, <3>2, <3>4, <3>5 DEF Counted
  <2>2. f \in Surjection(S, C')
    <3>1. C' \subseteq {Older(r) : r \in attempts}
      BY <1>3 DEF Tick, Counted
    <3>2. QED
      BY <3>1 DEF Surjection
  <2>3. IsFiniteSet(S) /\ Cardinality(S) <= Cardinality(C)
    BY <1>0, <2>1, FS_Subset
  <2>4. Cardinality(C') <= Cardinality(S)
    BY <2>2, <2>3, FS_Surjection
  <2>5. Cardinality(S) \in Nat
    BY <2>3, FS_CardinalityType
  <2>6. G' = G
    BY <1>3 DEF Tick, Granted
  <2>7. QED
    BY <1>0, <1>2, <2>3, <2>4, <2>5, <2>6
<1>4. CASE \E h \in Handlers, i \in Ips, n \in Names : Check(h, i, n)
  <2>1. PICK h \in Handlers, i \in Ips, n \in Names : Check(h, i, n)
    BY <1>4
  <2>2. C' = C
    BY <2>1 DEF Check, Counted
  <2>3. CASE <<i, n>> \in l.keys
    BY <1>0, <2>1, <2>2, <2>3, PassingCheck DEF Check
  <2>4. CASE <<i, n>> \notin l.keys
    <3>1. G' = G
      BY <2>1, <2>4 DEF Check, Granted, Idle, TypeOK
    <3>2. QED
      BY <1>2, <2>2, <3>1
  <2>5. QED
    BY <2>3, <2>4
<1>5. CASE \E h \in Handlers : RecordFailure(h)
  <2>1. PICK h \in Handlers : RecordFailure(h)
    BY <1>5
  <2> DEFINE new == [id |-> CHOOSE a \in Free : TRUE, ip |-> req[h].ip, name |-> req[h].name, age |-> 0]
  <2>2. attempts' \subseteq attempts \cup {new}
    BY <2>1 DEF RecordFailure, Insert, Kept
  <2>3. req' = [req EXCEPT ![h] = Idle] /\ req[h].step = "verify"
    BY <2>1 DEF RecordFailure
  <2>4. CASE <<req[h].ip, req[h].name>> \in l.keys
    <3>1. h \in G /\ G' = G \ {h}
      BY <2>3, <2>4 DEF Granted, Idle, TypeOK
    <3>2. C' \in SUBSET (C \cup {new})
      BY <2>2 DEF Counted
    <3>3. Cardinality(G') = Cardinality(G) - 1
      BY <1>0, <3>1, FS_RemoveElement
    <3>4. Cardinality(C') <= Cardinality(C) + 1
      BY <1>0, <3>2, OneMore
    <3>5. QED
      BY <1>0, <1>2, <3>3, <3>4
  <2>5. CASE <<req[h].ip, req[h].name>> \notin l.keys
    <3>1. G' = G
      BY <2>3, <2>5 DEF Granted, Idle, TypeOK
    <3>2. C' \in SUBSET C
      BY <2>2, <2>5 DEF Counted
    <3>3. Cardinality(C') <= Cardinality(C)
      BY <1>0, <3>2, FS_Subset
    <3>4. QED
      BY <1>0, <1>2, <3>1, <3>3
  <2>6. QED
    BY <2>4, <2>5
<1>6. CASE \E h \in Handlers : LeaveNoRecord(h)
  <2>1. C' = C
    BY <1>6 DEF LeaveNoRecord, Counted
  <2>2. G' \in SUBSET G
    BY <1>6 DEF LeaveNoRecord, Granted, Idle, TypeOK
  <2>3. Cardinality(G') <= Cardinality(G)
    BY <1>0, <2>2, FS_Subset
  <2>4. QED
    BY <1>0, <1>2, <2>1, <2>3
<1>7. CASE UNCHANGED vars
  <2>1. C' = C /\ G' = G
    BY <1>7 DEF vars, Counted, Granted
  <2>2. QED
    BY <1>2, <2>1
<1>8. CASE \E h \in Handlers, i \in Ips, n \in Names : Stop(h, i, n)
  BY <1>7, <1>8 DEF Stop
<1>9. QED
  BY <1>3, <1>4, <1>5, <1>6, <1>7, <1>8 DEF Next

-----------------------------------------------------------------------------
\* The invariant holds initially: nothing is recorded and nothing granted.
LEMMA RateLimitInvInit == Init => RateLimitInv
<1> SUFFICES ASSUME Init PROVE RateLimitInv
  OBVIOUS
<1>1. TypeOK
  BY DEF Init, TypeOK, Request
<1>2. IsFiniteSet(attempts)
  BY FS_EmptySet DEF Init
<1>3. ASSUME NEW l \in Limits PROVE LimitInv(l)
  <2>1. Counted(l.keys, l.window) = {}
    BY DEF Init, Counted
  <2>2. Granted(l.keys) = {}
    BY DEF Init, Granted, Idle
  <2>3. Cardinality(Handlers) \in Nat
    BY LimitsAssumption, FS_CardinalityType
  <2>4. QED
    BY <2>1, <2>2, <2>3, LimitsFacts, FS_EmptySet DEF LimitInv, Room
<1>4. QED
  BY <1>1, <1>2, <1>3 DEF RateLimitInv

THEOREM RateLimitInvariance == Spec => []RateLimitInv
<1>1. RateLimitInv /\ [Next]_vars => RateLimitInv'
  <2> SUFFICES ASSUME RateLimitInv, [Next]_vars PROVE RateLimitInv'
    OBVIOUS
  <2>1. TypeOK' /\ IsFiniteSet(attempts)'
    BY TypeStep DEF RateLimitInv
  <2>2. ASSUME NEW l \in Limits PROVE LimitInv(l)'
    BY LimitStep DEF RateLimitInv
  <2>3. QED
    BY <2>1, <2>2 DEF RateLimitInv, Limits
<1>2. QED
  BY <1>1, RateLimitInvInit, PTL DEF Spec

\* Every reachable state is well typed, whatever the constants.
THEOREM RateLimitTyped == Spec => []TypeOK
BY RateLimitInvariance, PTL DEF RateLimitInv

\* However many logins interleave, the failures of an address, of a pair and
\* of a name within their windows stay within the limit plus the other
\* requests in flight (check_login_rate_limit, record_failed_attempt).
THEOREM LimitsHold == Spec => []LimitsUpToRequestsInFlight
<1>1. RateLimitInv => LimitsUpToRequestsInFlight
  <2> SUFFICES ASSUME RateLimitInv PROVE LimitsUpToRequestsInFlight
    OBVIOUS
  <2>1. ASSUME NEW l \in Limits
        PROVE  Cardinality(Counted(l.keys, l.window)) <= Room(l.max)
    <3>1. LimitInv(l)
      BY DEF RateLimitInv
    <3>2. QED
      BY <3>1, CountsFinite, LimitsFacts DEF RateLimitInv, LimitInv, Room
  <2>2. IpLimit
    <3> SUFFICES ASSUME NEW i \in Ips PROVE Cardinality(OfIp(i)) <= Room(MaxIp)
      BY DEF IpLimit
    <3> DEFINE l == [keys |-> {i} \X Names, window |-> IpWindow, max |-> MaxIp]
    <3>1. l \in Limits
      BY DEF Limits
    <3>2. Counted(l.keys, l.window) = OfIp(i)
      BY DEF Counted, OfIp, Within, RateLimitInv, TypeOK, Row
    <3>3. QED
      BY <2>1, <3>1, <3>2
  <2>3. PairLimit
    <3> SUFFICES ASSUME NEW i \in Ips, NEW n \in Names
                 PROVE  Cardinality(OfPair(i, n)) <= Room(MaxPair)
      BY DEF PairLimit
    <3> DEFINE l == [keys |-> {<<i, n>>}, window |-> PairWindow, max |-> MaxPair]
    <3>1. l \in Limits
      <4>1. <<i, n>> \in Ips \X Names /\ <<i, n>>[1] = i /\ <<i, n>>[2] = n
        OBVIOUS
      <4>2. QED
        BY <4>1 DEF Limits
    <3>2. Counted(l.keys, l.window) = OfPair(i, n)
      BY DEF Counted, OfPair, Within, RateLimitInv, TypeOK, Row
    <3>3. QED
      BY <2>1, <3>1, <3>2
  <2>4. NameLimit
    <3> SUFFICES ASSUME NEW n \in Names PROVE Cardinality(OfName(n)) <= Room(MaxName)
      BY DEF NameLimit
    <3> DEFINE l == [keys |-> Ips \X {n}, window |-> NameWindow, max |-> MaxName]
    <3>1. l \in Limits
      BY DEF Limits
    <3>2. Counted(l.keys, l.window) = OfName(n)
      BY DEF Counted, OfName, Within, RateLimitInv, TypeOK, Row
    <3>3. QED
      BY <2>1, <3>1, <3>2
  <2>5. QED
    BY <2>2, <2>3, <2>4 DEF LimitsUpToRequestsInFlight
<1>2. QED
  BY <1>1, RateLimitInvariance, PTL

-----------------------------------------------------------------------------
\* A failure that some window still counts is kept by every step, as old or
\* older: housekeeping prunes by the longest window (record_failed_attempt).
THEOREM CountedFailures == Spec => CountedFailuresStay
<1> DEFINE Stays(r) == \E r2 \in attempts' : /\ [r2 EXCEPT !.age = r.age] = r
                                             /\ r2.age >= r.age
           Stay == \A r \in Within(MaxWindow) : Stays(r)
<1>1. ASSUME TypeOK, [Next]_vars, NEW r \in Within(MaxWindow)
      PROVE  Stays(r)
  <2>1. r \in attempts /\ r \in Row /\ r.age \in Nat /\ r.age <= MaxWindow
    BY <1>1, MaxWindowFacts DEF Within, TypeOK, Row, Ages
  <2>2. [r EXCEPT !.age = r.age] = r
    BY <2>1 DEF Row
  <2>3. CASE Tick
    <3>1. Older(r) \in attempts'
      BY <2>1, <2>3 DEF Tick
    <3>2. Older(r) = [id |-> r.id, ip |-> r.ip, name |-> r.name, age |-> r.age + 1]
      BY <2>1, MaxWindowFacts DEF Older, Row
    <3>3. PICK o \in attempts' : o = [id |-> r.id, ip |-> r.ip, name |-> r.name, age |-> r.age + 1]
      BY <3>1, <3>2
    <3>4. [o EXCEPT !.age = r.age] = r /\ o.age >= r.age
      BY <2>1, <3>3 DEF Row
    <3>5. QED
      BY <3>4
  <2>4. ASSUME NEW h \in Handlers, RecordFailure(h)
        PROVE  Stays(r)
    <3>1. r \in Kept(attempts)
      BY <2>1 DEF Kept
    <3>2. r \in attempts'
      BY <2>4, <3>1 DEF RecordFailure, Insert
    <3>3. QED
      BY <2>1, <2>2, <3>2
  <2>5. CASE UNCHANGED attempts
    BY <2>1, <2>2, <2>5
  <2>6. QED
    BY <1>1, <2>3, <2>4, <2>5 DEF Next, vars, Check, Stop, LeaveNoRecord
<1>2. TypeOK /\ [Next]_vars => [Stay]_vars
  BY <1>1
<1>3. QED
  BY <1>2, RateLimitTyped, PTL DEF Spec, CountedFailuresStay

-----------------------------------------------------------------------------
(***************************************************************************)
(* What makes a lock heal, short of the fairness of time: a full limit     *)
(* that no request in flight was granted is granted to nobody, and what it *)
(* counts is only lost and, with each minute, older.                       *)
(***************************************************************************)
LEMMA CountedGrowOld ==
  ASSUME TypeOK, Tick, NEW l \in Limits
  PROVE  AllOlder(l)
<1> SUFFICES ASSUME NEW r2 \in attempts', r2.age <= l.window, <<r2.ip, r2.name>> \in l.keys
             PROVE  \E r \in Counted(l.keys, l.window) :
                      r2 = [id |-> r.id, ip |-> r.ip, name |-> r.name, age |-> r.age + 1]
  BY DEF AllOlder, Counted
<1>1. PICK r \in attempts : r2 = Older(r)
  BY DEF Tick
<1>2. r \in Row /\ r.age \in Nat /\ l.window \in Nat /\ l.window <= MaxWindow
  BY MaxWindowFacts, LimitsFacts, LimitsAssumption DEF TypeOK, Row, Ages, Limits
<1>3. r2.age = IF r.age > MaxWindow THEN r.age ELSE r.age + 1
  BY <1>1, <1>2 DEF Older, Row
<1>4. r2.age = r.age + 1 /\ r.age <= l.window
  BY <1>2, <1>3, MaxWindowFacts
<1>5. r2 = [id |-> r.id, ip |-> r.ip, name |-> r.name, age |-> r2.age]
  BY <1>1, <1>2, <1>3 DEF Older, Row
<1>6. r \in Counted(l.keys, l.window)
  BY <1>4, <1>5 DEF Counted
<1>7. QED
  BY <1>4, <1>5, <1>6

LEMMA FullGrantsNothing ==
  ASSUME TypeOK, IsFiniteSet(attempts), [Next]_vars,
         NEW l \in Limits, Full(l), Granted(l.keys) = {}
  PROVE  Granted(l.keys)' = {}
<1> SUFFICES ASSUME NEW h \in Handlers, req'[h].step = "verify",
                    <<req'[h].ip, req'[h].name>> \in l.keys
             PROVE  FALSE
  BY DEF Granted
<1>1. ~(req[h].step = "verify" /\ <<req[h].ip, req[h].name>> \in l.keys)
  BY DEF Granted
<1>2. req'[h] # req[h]
  BY <1>1
<1>3. PICK i \in Ips, n \in Names : Check(h, i, n)
  BY <1>2 DEF Next, vars, Tick, Check, Stop, RecordFailure, LeaveNoRecord, TypeOK, Idle
<1>4. <<i, n>> \in l.keys
  <2>1. req'[h] = [step |-> "verify", ip |-> i, name |-> n]
    BY <1>3 DEF Check, TypeOK
  <2>2. QED
    BY <2>1
<1>5. Cardinality(Counted(l.keys, l.window)) < l.max
  BY <1>3, <1>4, PassingCheck DEF Check
<1>6. QED
  BY <1>5, CountsFinite, LimitsFacts DEF Full

LEMMA FullCountsNothingNew ==
  ASSUME TypeOK, [Next]_vars, ~Tick, NEW l \in Limits, Granted(l.keys) = {}
  PROVE  Counted(l.keys, l.window)' \subseteq Counted(l.keys, l.window)
<1>1. CASE UNCHANGED attempts
  BY <1>1 DEF Counted
<1>2. ASSUME NEW h \in Handlers, RecordFailure(h)
      PROVE  Counted(l.keys, l.window)' \subseteq Counted(l.keys, l.window)
  <2>1. req[h].step = "verify"
    BY <1>2 DEF RecordFailure
  <2>2. <<req[h].ip, req[h].name>> \notin l.keys
    BY <2>1 DEF Granted
  <2>3. \A r \in attempts' : r \in attempts \/ (r.ip = req[h].ip /\ r.name = req[h].name)
    BY <1>2 DEF RecordFailure, Insert, Kept
  <2>4. QED
    BY <2>2, <2>3 DEF Counted
<1>3. QED
  BY <1>1, <1>2 DEF Next, vars, Check, Stop, LeaveNoRecord

\* Once a limit is reached and the logins it had let through are answered, no
\* attempt counts against it any more, refused ones least of all: the failures
\* it counts only grow old and go, as time alone decides (config.py:58-60,
\* check_login_rate_limit raises before record_failed_attempt is reached).
THEOREM LocksDrain == Spec => LocksOnlyDrain
<1>1. RateLimitInv /\ [Next]_vars => FullOnlyDrains
  BY CountedGrowOld, FullGrantsNothing, FullCountsNothingNew DEF RateLimitInv, FullOnlyDrains
<1>2. QED
  BY <1>1, RateLimitInvariance, PTL DEF Spec, LocksOnlyDrain
=============================================================================
