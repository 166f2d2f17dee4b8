------------------------- MODULE GnssAdapterProofs -------------------------
(***************************************************************************)
(* Proofs about two parts of GnssAdapter that restartSessions restarts:    *)
(* tracking sessions (Tracking) and position injection (Odcpi, last).      *)
(*                                                                         *)
(* Three arguments about Tracking share the types of the tables and the    *)
(* queue (Typed).                                                          *)
(*                                                                         *)
(* The modem's session is what the calls under way will leave it at: the   *)
(* options of the last of them that sets it, or its own if there is none.  *)
(* FastInv says that these options are fast enough for every session of    *)
(* the table, OffInv that they are None once the table is empty.  Each     *)
(* handler puts the call behind all others that keeps this so, or shows    *)
(* that none is needed; an answer only takes the oldest call away.         *)
(*                                                                         *)
(* Responses are counted: OwedInv says that a session has as many requests *)
(* open as calls that will report an answer and requests that were put off.*)
(***************************************************************************)
EXTENDS Tracking, Odcpi, FiniteSetTheorems, WellFoundedInduction, TLAPS

USE TrackingAssumption

-----------------------------------------------------------------------------
(* The operators on tables *)

\* A set of numbers has a least one.
LEMMA LeastNumber ==
    ASSUME NEW S, S \subseteq Nat, S # {}
    PROVE  \E m \in S : \A x \in S : m <= x
<1>1. PICK m \in S : \A x \in S : <<x, m>> \notin OpToRel(<, Nat)
  BY NatLessThanWellFounded, WFMin
<1>2. \A x \in S : ~ (x < m)
  BY <1>1 DEF OpToRel
<1>. QED  BY <1>2

\* Well-typed tables of options
Table(t) == t \in [Session -> Options \union {None}]

LEMMA HeldOptions ==
    ASSUME NEW t, Table(t), NEW s \in Held(t)
    PROVE  /\ s \in Session /\ t[s] \in Options /\ t[s] \in Option
           /\ t[s].interval \in Nat /\ t[s].power \in 1..5 /\ t[s].distance \in BOOLEAN
  BY DEF Table, Held, Option

\* Smallest gives a session's options, and none has a smaller interval.
LEMMA SmallestIsSmallest ==
    ASSUME Table(timeBased), NEW S \in SUBSET Held(timeBased), S # {}
    PROVE  /\ \E s \in S : Smallest(S) = timeBased[s]
           /\ \A s \in S : Smallest(S).interval <= timeBased[s].interval
           /\ Smallest(S) \in Option
<1>. DEFINE First(s) == \A t \in S :
                            \/ timeBased[s].interval < timeBased[t].interval
                            \/ timeBased[s].interval = timeBased[t].interval /\ s <= t
<1>1. \A s \in S : /\ s \in Nat /\ timeBased[s] \in Option
                   /\ timeBased[s].interval \in Nat
  BY HeldOptions
<1>2. \E s \in S : First(s)
  <2>. DEFINE Intervals == {timeBased[s].interval : s \in S}
  <2>1. PICK m \in Intervals : \A x \in Intervals : m <= x
    <3>1. Intervals \subseteq Nat /\ Intervals # {}
      BY <1>1
    <3>. QED  BY <3>1, LeastNumber
  <2>. DEFINE Fastest == {s \in S : timeBased[s].interval = m}
  <2>2. PICK s \in Fastest : \A t \in Fastest : s <= t
    <3>1. Fastest \subseteq Nat /\ Fastest # {}
      BY <1>1, <2>1
    <3>. QED  BY <3>1, LeastNumber
  <2>3. First(s)
    BY <1>1, <2>1, <2>2
  <2>. QED  BY <2>2, <2>3
<1>3. PICK s \in S : First(s) /\ Smallest(S) = timeBased[s]
  BY <1>2 DEF Smallest
<1>. QED  BY <1>1, <1>3

\* LeastPower gives a session's power mode, and none has a smaller one.
LEMMA LeastPowerIsLeast ==
    ASSUME Table(timeBased), NEW S \in SUBSET Held(timeBased), S # {}
    PROVE  LeastPower(S) \in 1..5 /\ \A s \in S : LeastPower(S) <= timeBased[s].power
<1>. DEFINE Powers == {timeBased[s].power : s \in S}
<1>1. Powers \subseteq 1..5 /\ Powers \subseteq Nat /\ Powers # {}
  BY HeldOptions
<1>2. PICK p \in Powers : \A x \in Powers : p <= x
  BY <1>1, LeastNumber
<1>3. /\ p \in 1..5
      /\ \E s \in S : timeBased[s].power = p
      /\ \A s \in S : p <= timeBased[s].power
  BY <1>1, <1>2
<1>. QED  BY <1>3 DEF LeastPower

\* InOrder enumerates a finite set: every place has a member, and every member
\* a place.
LEMMA OrderEnumerates ==
    ASSUME NEW S \in SUBSET Session
    PROVE  /\ Cardinality(S) \in Nat
           /\ InOrder(S) \in [1..Cardinality(S) -> S]
           /\ \A s \in S : \E i \in 1..Cardinality(S) : InOrder(S)[i] = s
<1>. DEFINE Upto(s) == {t \in S : t <= s}
            rank == [s \in S |-> Cardinality(Upto(s))]
            n == Cardinality(S)
<1>1. IsFiniteSet(S) /\ n \in Nat /\ S \subseteq Nat
  BY FS_Subset, FS_CardinalityType
<1>2. \A s \in S : IsFiniteSet(Upto(s)) /\ Cardinality(Upto(s)) \in 1..n
  <2>. SUFFICES ASSUME NEW s \in S
                PROVE  IsFiniteSet(Upto(s)) /\ Cardinality(Upto(s)) \in 1..n
    OBVIOUS
  <2>1. IsFiniteSet(Upto(s)) /\ Cardinality(Upto(s)) <= n
    BY <1>1, FS_Subset
  <2>2. Upto(s) # {}
    BY <1>1
  <2>3. Cardinality(Upto(s)) \in Nat /\ Cardinality(Upto(s)) # 0
    BY <2>1, <2>2, FS_CardinalityType, FS_EmptySet
  <2>. QED  BY <1>1, <2>1, <2>3
<1>3. rank \in Injection(S, 1..n)
  <2>1. rank \in [S -> 1..n]
    BY <1>2
  <2>2. ASSUME NEW s \in S, NEW t \in S, s < t
        PROVE  rank[s] # rank[t]
    <3>1. Upto(s) \in SUBSET Upto(t) /\ Upto(s) # Upto(t)
      <4>1. t \in Upto(t) /\ t \notin Upto(s)
        BY <1>1, <2>2
      <4>2. \A x \in S : x <= s => x <= t
        BY <1>1, <2>2
      <4>. QED  BY <4>1, <4>2
    <3>2. Cardinality(Upto(s)) # Cardinality(Upto(t))
      BY <1>2, <3>1, FS_Subset
    <3>. QED  BY <3>2
  <2>3. \A s, t \in S : rank[s] = rank[t] => s = t
    BY <1>1, <2>2
  <2>. QED  BY <2>1, <2>3 DEF Injection, IsInjective
<1>4. rank \in Surjection(S, 1..n)
  <2>1. IsFiniteSet(1..n) /\ Cardinality(1..n) = n
    BY <1>1, FS_Interval
  <2>. QED  BY <1>3, <2>1, FS_Injection
<1>5. \A i \in 1..n : \E s \in S : rank[s] = i
  BY <1>4 DEF Surjection
<1>6. \A i \in 1..n : InOrder(S)[i] \in S /\ rank[InOrder(S)[i]] = i
  BY <1>5 DEF InOrder
<1>7. InOrder(S) \in [1..n -> S]
  BY <1>6 DEF InOrder
<1>8. ASSUME NEW s \in S  PROVE \E i \in 1..n : InOrder(S)[i] = s
  <2>1. rank[s] \in 1..n
    BY <1>2
  <2>2. rank[InOrder(S)[rank[s]]] = rank[s] /\ InOrder(S)[rank[s]] \in S
    BY <1>6, <2>1
  <2>. QED  BY <1>3, <2>1, <2>2 DEF Injection, IsInjective
<1>. QED  BY <1>1, <1>7, <1>8

-----------------------------------------------------------------------------
(* How many members of a sequence are in a set. *)

Places(q, M) == {i \in DOMAIN q : q[i] \in M}

Count(q, M) == Cardinality(Places(q, M))

LEMMA PlacesFinite ==
    ASSUME NEW X, NEW q \in Seq(X), NEW M
    PROVE  IsFiniteSet(Places(q, M)) /\ Count(q, M) \in Nat
<1>1. IsFiniteSet(DOMAIN q) /\ Places(q, M) \in SUBSET DOMAIN q
  BY FS_Interval DEF Places
<1>. QED  BY <1>1, FS_Subset, FS_CardinalityType DEF Count

LEMMA CountEmpty == ASSUME NEW M PROVE Count(<<>>, M) = 0
  BY FS_EmptySet DEF Count, Places

LEMMA CountAppend ==
    ASSUME NEW X, NEW q \in Seq(X), NEW x \in X, NEW M
    PROVE  Count(Append(q, x), M) = IF x \in M THEN Count(q, M) + 1 ELSE Count(q, M)
<1>1. Places(Append(q, x), M) =
        IF x \in M THEN Places(q, M) \union {Len(q) + 1} ELSE Places(q, M)
  BY DEF Places
<1>2. Len(q) + 1 \notin Places(q, M)
  BY DEF Places
<1>. QED  BY <1>1, <1>2, PlacesFinite, FS_AddElement DEF Count

\* What stands behind p keeps its order and moves up by Len(p).
LEMMA CountConcat ==
    ASSUME NEW X, NEW p \in Seq(X), NEW q \in Seq(X), NEW M
    PROVE  Count(p \o q, M) = Count(p, M) + Count(q, M)
<1>. DEFINE Moved == {i + Len(p) : i \in Places(q, M)}
            move == [i \in Places(q, M) |-> i + Len(p)]
<1>1. /\ IsFiniteSet(Places(p, M)) /\ IsFiniteSet(Places(q, M))
      /\ Count(p, M) \in Nat /\ Count(q, M) \in Nat
  BY PlacesFinite
<1>2. Places(q, M) \subseteq 1..Len(q) /\ Places(p, M) \subseteq 1..Len(p)
  BY DEF Places
<1>3. move \in Bijection(Places(q, M), Moved)
  <2>1. move \in [Places(q, M) -> Moved]
    OBVIOUS
  <2>2. \A i, j \in Places(q, M) : move[i] = move[j] => i = j
    BY <1>2
  <2>3. \A k \in Moved : \E i \in Places(q, M) : move[i] = k
    OBVIOUS
  <2>. QED  BY <2>1, <2>2, <2>3 DEF Bijection, Injection, Surjection, IsInjective
<1>4. IsFiniteSet(Moved) /\ Cardinality(Moved) = Count(q, M)
  BY <1>1, <1>3, FS_Bijection DEF Count, ExistsBijection
<1>5. Places(p \o q, M) = Places(p, M) \union Moved
  <2>1. ASSUME NEW k \in Places(p \o q, M)  PROVE k \in Places(p, M) \union Moved
    <3>1. k \in 1..(Len(p) + Len(q)) /\ (p \o q)[k] \in M
      BY DEF Places
    <3>2. CASE k <= Len(p)
      BY <3>1, <3>2 DEF Places
    <3>3. CASE k > Len(p)
      <4>1. k - Len(p) \in 1..Len(q) /\ q[k - Len(p)] \in M
        BY <3>1, <3>3
      <4>2. k - Len(p) \in Places(q, M) /\ k = (k - Len(p)) + Len(p)
        BY <3>1, <4>1 DEF Places
      <4>. QED  BY <4>2
    <3>. QED  BY <3>1, <3>2, <3>3
  <2>2. ASSUME NEW k \in Places(p, M)  PROVE k \in Places(p \o q, M)
    BY DEF Places
  <2>3. ASSUME NEW i \in Places(q, M)  PROVE i + Len(p) \in Places(p \o q, M)
    BY DEF Places
  <2>. QED  BY <2>1, <2>2, <2>3
<1>6. Places(p, M) \cap Moved = {}
  BY <1>2
<1>7. Cardinality(Places(p, M) \union Moved) = Cardinality(Places(p, M)) + Cardinality(Moved)
  <2>1. Cardinality(Places(p, M)) \in Nat /\ Cardinality(Moved) \in Nat
    BY <1>1, <1>4 DEF Count
  <2>2. Cardinality(Places(p, M) \cap Moved) = 0
    BY <1>6, FS_EmptySet
  <2>. HIDE DEF Moved
  <2>3. Cardinality(Places(p, M) \union Moved) =
          Cardinality(Places(p, M)) + Cardinality(Moved) - Cardinality(Places(p, M) \cap Moved)
    BY <1>1, <1>4, FS_Union, Zenon
  <2>. QED  BY <2>1, <2>2, <2>3
<1>. QED  BY <1>4, <1>5, <1>7 DEF Count

LEMMA CountOne ==
    ASSUME NEW x, NEW M
    PROVE  Count(<<x>>, M) = IF x \in M THEN 1 ELSE 0
<1>1. Places(<<x>>, M) = IF x \in M THEN {1} ELSE {}
  BY DEF Places
<1>. QED  BY <1>1, FS_Singleton, FS_EmptySet DEF Count

LEMMA CountTail ==
    ASSUME NEW X, NEW q \in Seq(X), q # <<>>, NEW M
    PROVE  /\ Tail(q) \in Seq(X)
           /\ Count(q, M) = Count(Tail(q), M) + IF Head(q) \in M THEN 1 ELSE 0
<1>1. q = <<Head(q)>> \o Tail(q) /\ Head(q) \in X /\ Tail(q) \in Seq(X)
  OBVIOUS
<1>2. <<Head(q)>> \in Seq(X)
  BY <1>1
<1>3. Count(q, M) = Count(<<Head(q)>>, M) + Count(Tail(q), M)
  <2>1. Count(<<Head(q)>> \o Tail(q), M) = Count(<<Head(q)>>, M) + Count(Tail(q), M)
    BY <1>1, <1>2, CountConcat, Zenon
  <2>. QED  BY <1>1, <2>1
<1>4. Count(Tail(q), M) \in Nat
  BY <1>1, PlacesFinite
<1>. QED  BY <1>1, <1>3, <1>4, CountOne

LEMMA CountNone ==
    ASSUME NEW X, NEW q \in Seq(X), NEW M, \A i \in DOMAIN q : q[i] \notin M
    PROVE  Count(q, M) = 0
<1>1. Places(q, M) = {}
  BY DEF Places
<1>. QED  BY <1>1, FS_EmptySet DEF Count

-----------------------------------------------------------------------------
(* The calls that share the modem's one session among the sessions, if any: *)
(* what they ask for is as fast as what is in the table then.               *)

\* Options x are fast enough for the sessions S of a table t.
FastFor(x, t, S) == \A s \in S : x.interval <= t[s].interval

LEMMA MixedOptions ==
    ASSUME NEW x \in Option, NEW i \in Nat, NEW p \in 1..5
    PROVE  /\ [x EXCEPT !.interval = i, !.power = p] \in Option
           /\ [x EXCEPT !.interval = i, !.power = p].interval = i
<1>. DEFINE z == [x EXCEPT !.interval = i]
<1>1. z \in Option /\ z.interval = i
  BY DEF Option
<1>2. [z EXCEPT !.power = p] \in Option /\ [z EXCEPT !.power = p].interval = i
  <2>. HIDE DEF z
  <2>. QED  BY <1>1 DEF Option
<1>. QED  BY <1>2

LEMMA StartMultiplexCalls ==
    ASSUME Table(timeBased), NEW s \in Session, NEW o \in Options
    PROVE  \/ /\ StartMultiplex(s, o) = <<>>
              /\ \E t \in Held(timeBased) : timeBased[t].interval <= o.interval
           \/ \E x \in Option :
                 /\ StartMultiplex(s, o) = <<StartTimeBased(s, x)>>
                 /\ x.interval <= o.interval
                 /\ FastFor(x, timeBased, Held(timeBased))
<1>. DEFINE all == Held(timeBased)
            least == Smallest(all)
            faster == o.interval < least.interval
            higher == o.power < LeastPower(all)
            mixed == [least EXCEPT !.interval = IF faster THEN o.interval ELSE @,
                                   !.power = IF higher THEN o.power ELSE @]
<1>1. o \in Option /\ o.interval \in Nat /\ o.power \in 1..5
  BY DEF Option
<1>2. CASE all = {}
  BY <1>1, <1>2 DEF StartMultiplex, FastFor
<1>3. CASE all # {}
  <2>1. /\ least \in Option /\ least.interval \in Nat
        /\ \E t \in all : least = timeBased[t]
        /\ \A t \in all : least.interval <= timeBased[t].interval
    BY <1>3, SmallestIsSmallest DEF Option
  <2>2. mixed \in Option /\ mixed.interval <= o.interval /\ mixed.interval <= least.interval
    <3>. DEFINE i == IF faster THEN o.interval ELSE least.interval
                p == IF higher THEN o.power ELSE least.power
    <3>1. i \in Nat /\ i <= o.interval /\ i <= least.interval /\ p \in 1..5
      BY <1>1, <2>1 DEF Option
    <3>2. mixed = [least EXCEPT !.interval = i, !.power = p]
      OBVIOUS
    <3>. HIDE DEF i, p, mixed, least
    <3>3. mixed \in Option /\ mixed.interval = i
      BY <2>1, <3>1, <3>2, MixedOptions, Zenon
    <3>. QED  BY <3>1, <3>3
  <2>3. FastFor(mixed, timeBased, all)
    BY <2>1, <2>2, HeldOptions DEF FastFor, Option
  <2>4. StartMultiplex(s, o) = IF faster \/ higher THEN <<StartTimeBased(s, mixed)>> ELSE <<>>
    BY <1>3 DEF StartMultiplex
  <2>5. CASE faster \/ higher
    <3>. HIDE DEF mixed
    <3>. QED  BY <2>2, <2>3, <2>4, <2>5
  <2>6. CASE ~ faster
    <3>1. \E t \in all : timeBased[t].interval <= o.interval
      BY <1>1, <2>1, <2>6
    <3>. QED  BY <2>4, <2>5, <2>6, <3>1
  <2>. QED  BY <2>5, <2>6
<1>. QED  BY <1>2, <1>3

LEMMA UpdateMultiplexCalls ==
    ASSUME Table(timeBased), NEW s \in Held(timeBased), NEW o \in Options
    PROVE  \/ /\ UpdateMultiplex(s, o) = <<>>
              /\ \E t \in Held(timeBased) : timeBased[t].interval <= o.interval
           \/ \E x \in Option :
                 /\ UpdateMultiplex(s, o) = <<UpdateTracking(s, x)>>
                 /\ x.interval <= o.interval
                 /\ FastFor(x, timeBased, Held(timeBased) \ {s})
<1>. DEFINE others == Held(timeBased) \ {s}
            least == Smallest(others)
            faster == o.interval < least.interval
            higher == o.power < LeastPower(others)
            same == o.interval = timeBased[s].interval /\ o.power = timeBased[s].power
            mixed == [least EXCEPT !.interval = IF faster THEN o.interval ELSE @,
                                   !.power = IF higher THEN o.power ELSE @]
<1>1. o \in Option /\ o.interval \in Nat /\ o.power \in 1..5
  BY DEF Option
<1>2. CASE same
  <2>1. timeBased[s].interval <= o.interval
    BY <1>1, <1>2
  <2>. QED  BY <1>2, <2>1 DEF UpdateMultiplex
<1>3. CASE ~ same /\ others = {}
  BY <1>1, <1>3 DEF UpdateMultiplex, FastFor
<1>4. CASE ~ same /\ others # {}
  <2>1. /\ least \in Option /\ least.interval \in Nat
        /\ \E t \in others : least = timeBased[t]
        /\ \A t \in others : least.interval <= timeBased[t].interval
    BY <1>4, SmallestIsSmallest DEF Option
  <2>2. mixed \in Option /\ mixed.interval <= o.interval /\ mixed.interval <= least.interval
    <3>. DEFINE i == IF faster THEN o.interval ELSE least.interval
                p == IF higher THEN o.power ELSE least.power
    <3>1. i \in Nat /\ i <= o.interval /\ i <= least.interval /\ p \in 1..5
      BY <1>1, <2>1 DEF Option
    <3>2. mixed = [least EXCEPT !.interval = i, !.power = p]
      OBVIOUS
    <3>. HIDE DEF i, p, mixed, least
    <3>3. mixed \in Option /\ mixed.interval = i
      BY <2>1, <3>1, <3>2, MixedOptions, Zenon
    <3>. QED  BY <3>1, <3>3
  <2>3. FastFor(mixed, timeBased, others)
    <3>1. mixed.interval \in Nat
      BY <2>2 DEF Option
    <3>2. \A t \in others : timeBased[t].interval \in Nat
      BY HeldOptions
    <3>. HIDE DEF mixed, least, faster, higher
    <3>. QED  BY <2>1, <2>2, <3>1, <3>2 DEF FastFor
  <2>4. UpdateMultiplex(s, o) = IF faster \/ higher THEN <<UpdateTracking(s, mixed)>> ELSE <<>>
    BY <1>4 DEF UpdateMultiplex
  <2>5. CASE faster \/ higher
    <3>. HIDE DEF mixed
    <3>. QED  BY <2>2, <2>3, <2>4, <2>5
  <2>6. CASE ~ faster
    <3>1. \E t \in others : timeBased[t].interval <= o.interval
      BY <1>1, <2>1, <2>6
    <3>. QED  BY <2>4, <2>5, <2>6, <3>1
  <2>. QED  BY <2>5, <2>6
<1>. QED  BY <1>2, <1>3, <1>4

LEMMA StopMultiplexCalls ==
    ASSUME Table(timeBased), NEW s \in Held(timeBased)
    PROVE  \/ StopMultiplex(s) = <<>> /\ Held(timeBased) \ {s} # {}
           \/ StopMultiplex(s) = <<StopTracking(s)>> /\ Held(timeBased) = {s}
           \/ \E x \in Option :
                 /\ StopMultiplex(s) = <<StartTimeBased(s, x)>>
                 /\ Held(timeBased) \ {s} # {}
                 /\ FastFor(x, timeBased, Held(timeBased) \ {s})
<1>. DEFINE others == Held(timeBased) \ {s}
            least == Smallest(others)
            mixed == [least EXCEPT !.power = LeastPower(others)]
<1>1. Cardinality(Held(timeBased)) = 1 <=> Held(timeBased) = {s}
  BY FS_Subset, FS_Singleton DEF Held
<1>2. CASE Held(timeBased) = {s}
  BY <1>1, <1>2 DEF StopMultiplex
<1>3. CASE Held(timeBased) # {s}
  <2>1. others # {}
    BY <1>3
  <2>2. /\ least \in Option /\ LeastPower(others) \in 1..5
        /\ \A t \in others : least.interval <= timeBased[t].interval
    BY <2>1, SmallestIsSmallest, LeastPowerIsLeast
  <2>3. mixed \in Option /\ mixed.interval = least.interval
    BY <2>2 DEF Option
  <2>4. FastFor(mixed, timeBased, others)
    BY <2>2, <2>3 DEF FastFor
  <2>5. StopMultiplex(s) \in {<<>>, <<StartTimeBased(s, mixed)>>}
    BY <1>1, <1>3 DEF StopMultiplex
  <2>. HIDE DEF mixed
  <2>. QED  BY <2>1, <2>3, <2>4, <2>5
<1>. QED  BY <1>2, <1>3

-----------------------------------------------------------------------------
(* Types *)

TablesOK == Table(timeBased) /\ Table(distanceBased) /\ powerOn \in BOOLEAN

CallsOK == calls \in Seq(LocApiCall)

DeferOK ==
    /\ capsKnown \in BOOLEAN
    /\ mPendingMsgs \in Seq(DeferredRequest) /\ resent \in Seq(DeferredRequest)

ModemOK ==
    /\ modem \in Option \union {None} /\ modemDistance \subseteq Session
    /\ engine \in {"down", "opened", "up"}

ClientOK ==
    /\ clients \subseteq Client
    /\ phase \in [Session -> {"new", "started", "stopped"}]

UsedOK == used \in [DOMAIN Limit -> Nat] /\ \A b \in DOMAIN Limit : used[b] <= Limit[b]

Typed == TablesOK /\ CallsOK /\ DeferOK /\ ModemOK /\ ClientOK /\ UsedOK

LEMMA SaveTables ==
    ASSUME TablesOK, NEW s \in Session, NEW o \in Options, SaveTrackingSession(s, o)
    PROVE  TablesOK'
<1>1. powerOn' \in BOOLEAN
  BY DEF SaveTrackingSession, ReportPowerState
<1>. QED  BY <1>1 DEF TablesOK, Table, SaveTrackingSession

LEMMA EraseTables ==
    ASSUME TablesOK, NEW s \in Session, EraseTrackingSession(s)
    PROVE  TablesOK'
<1>1. powerOn' \in BOOLEAN
  BY DEF EraseTrackingSession, ReportPowerState
<1>. QED  BY <1>1 DEF TablesOK, Table, EraseTrackingSession

LEMMA SameTables == ASSUME TablesOK, UNCHANGED sessionVars PROVE TablesOK'
  BY DEF TablesOK, Table, sessionVars

\* The calls that handlers make have the types of LocApiCall.
LEMMA CallTypes ==
    ASSUME TablesOK, NEW s \in Session
    PROVE  /\ \A x \in Option : StartTimeBased(s, x) \in LocApiCall
           /\ s \in Held(timeBased) => \A x \in Option : UpdateTracking(s, x) \in LocApiCall
           /\ StopTracking(s) \in LocApiCall
           /\ \A o \in Options : \A then \in {"erase", "nothing"} :
                 StartDistance(s, o, then) \in LocApiCall
           /\ \A o \in Options : o.distance =>
                 /\ StartDistance(s, o, "save") \in LocApiCall
                 /\ StopDistance(s, o, "restart") \in LocApiCall
           /\ \A then \in {"erase", "forget"} : StopDistance(s, None, then) \in LocApiCall
           /\ \A o \in Options : ~ o.distance => StopDistance(s, o, "switch") \in LocApiCall
<1>. USE DEF Call, LocApiCall
<1>1. \A x \in Option : StartTimeBased(s, x) \in LocApiCall
  BY DEF StartTimeBased
<1>2. s \in Held(timeBased) => \A x \in Option : UpdateTracking(s, x) \in LocApiCall
  BY DEF UpdateTracking, TablesOK, Table, Held
<1>3. StopTracking(s) \in LocApiCall
  BY DEF StopTracking
<1>4. \A o \in Options : \A then \in {"erase", "nothing"} :
        StartDistance(s, o, then) \in LocApiCall
  BY DEF StartDistance
<1>7. \A o \in Options : o.distance =>
        StartDistance(s, o, "save") \in LocApiCall /\ StopDistance(s, o, "restart") \in LocApiCall
  BY DEF StartDistance, StopDistance
<1>5. \A then \in {"erase", "forget"} : StopDistance(s, None, then) \in LocApiCall
  BY DEF StopDistance
<1>6. \A o \in Options : ~ o.distance => StopDistance(s, o, "switch") \in LocApiCall
  BY DEF StopDistance
<1>. HIDE DEF Call, LocApiCall
<1>. QED  BY <1>1, <1>2, <1>3, <1>4, <1>5, <1>6, <1>7

LEMMA OneCall == ASSUME NEW k \in LocApiCall PROVE <<k>> \in Seq(LocApiCall)
  OBVIOUS

LEMMA MultiplexTypes ==
    ASSUME TablesOK, NEW s \in Session, NEW o \in Options
    PROVE  /\ StartMultiplex(s, o) \in Seq(LocApiCall)
           /\ s \in Held(timeBased) => /\ UpdateMultiplex(s, o) \in Seq(LocApiCall)
                                       /\ StopMultiplex(s) \in Seq(LocApiCall)
<1>1. Table(timeBased)
  BY DEF TablesOK
<1>2. \A x \in Option : <<StartTimeBased(s, x)>> \in Seq(LocApiCall)
  BY CallTypes, OneCall, Zenon
<1>3. <<StopTracking(s)>> \in Seq(LocApiCall)
  BY CallTypes, OneCall, Zenon
<1>4. s \in Held(timeBased) => \A x \in Option : <<UpdateTracking(s, x)>> \in Seq(LocApiCall)
  BY CallTypes, OneCall, Zenon
<1>5. <<>> \in Seq(LocApiCall)
  OBVIOUS
<1>6. StartMultiplex(s, o) \in Seq(LocApiCall)
  BY <1>1, <1>2, <1>5, StartMultiplexCalls, Zenon
<1>7. s \in Held(timeBased) => UpdateMultiplex(s, o) \in Seq(LocApiCall)
  BY <1>1, <1>4, <1>5, UpdateMultiplexCalls, Zenon
<1>8. s \in Held(timeBased) => StopMultiplex(s) \in Seq(LocApiCall)
  BY <1>1, <1>2, <1>3, <1>5, StopMultiplexCalls, Zenon
<1>. QED  BY <1>6, <1>7, <1>8

LEMMA CallsAppend ==
    ASSUME CallsOK, NEW k \in LocApiCall
    PROVE  Append(calls, k) \in Seq(LocApiCall)
  BY DEF CallsOK

LEMMA CallsConcat ==
    ASSUME NEW p \in Seq(LocApiCall), NEW q \in Seq(LocApiCall)
    PROVE  p \o q \in Seq(LocApiCall)
  OBVIOUS

LEMMA CallsAssociate ==
    ASSUME NEW p \in Seq(LocApiCall), NEW q \in Seq(LocApiCall), NEW r \in Seq(LocApiCall)
    PROVE  p \o (q \o r) = (p \o q) \o r
<1>. DEFINE x == p \o (q \o r)
            y == (p \o q) \o r
<1>1. x \in Seq(LocApiCall) /\ y \in Seq(LocApiCall) /\ Len(x) = Len(y)
  OBVIOUS
<1>2. \A i \in 1..Len(x) : x[i] = y[i]
  OBVIOUS
<1>. HIDE DEF x, y
<1>3. x = y
  BY <1>1, <1>2
<1>. QED  BY <1>3 DEF x, y

LEMMA DoStartTypes ==
    ASSUME TablesOK, CallsOK, NEW s \in Session, NEW o \in Options, NEW due, DoStart(s, o, due)
    PROVE  TablesOK' /\ CallsOK'
<1>1. CASE UNCHANGED <<sessionVars, calls>>
  BY <1>1, SameTables DEF CallsOK
<1>2. CASE SaveTrackingSession(s, o) /\ calls' = Append(calls, StartDistance(s, o, "erase"))
  BY <1>2, SaveTables, CallTypes, CallsAppend DEF CallsOK
<1>3. CASE SaveTrackingSession(s, o) /\ calls' = calls \o StartMultiplex(s, o)
  BY <1>3, SaveTables, MultiplexTypes, CallsConcat DEF CallsOK
<1>. QED  BY <1>1, <1>2, <1>3 DEF DoStart

LEMMA SwitchToDistanceTypes ==
    ASSUME TablesOK, CallsOK, NEW s \in Held(timeBased), NEW o \in Options, NEW due,
           SwitchToDistance(s, o, due)
    PROVE  TablesOK' /\ CallsOK'
<1>1. s \in Session
  BY DEF Held
<1>2. TablesOK'
  <2>1. powerOn' \in BOOLEAN
    BY DEF SwitchToDistance, ReportPowerState
  <2>. QED  BY <1>1, <2>1 DEF SwitchToDistance, TablesOK, Table
<1>3. calls \o StopMultiplex(s) \in Seq(LocApiCall)
  BY <1>1, MultiplexTypes, CallsConcat DEF CallsOK
<1>4. <<StartDistance(s, o, "nothing")>> \in Seq(LocApiCall)
  BY <1>1, CallTypes, OneCall
<1>5. CallsOK'
  BY <1>3, <1>4, CallsConcat DEF SwitchToDistance, CallsOK
<1>. QED  BY <1>2, <1>5

LEMMA DoUpdateTypes ==
    ASSUME TablesOK, CallsOK, NEW s \in Session, NEW o \in Options, NEW due, DoUpdate(s, o, due)
    PROVE  TablesOK' /\ CallsOK'
<1>1. CASE UNCHANGED <<sessionVars, calls>>
  BY <1>1, SameTables DEF CallsOK
<1>2. CASE s \in Held(timeBased) /\ SwitchToDistance(s, o, due)
  BY <1>2, SwitchToDistanceTypes
<1>3. CASE /\ ~ o.distance /\ EraseTrackingSession(s)
           /\ calls' = Append(calls, StopDistance(s, o, "switch"))
  BY <1>3, EraseTables, CallTypes, CallsAppend DEF CallsOK
<1>4. CASE s \in Held(timeBased) /\ SaveTrackingSession(s, o) /\ calls' = calls \o UpdateMultiplex(s, o)
  BY <1>4, SaveTables, MultiplexTypes, CallsConcat DEF CallsOK
<1>5. CASE /\ o.distance /\ UNCHANGED sessionVars
           /\ calls' = Append(calls, StopDistance(s, o, "restart"))
  BY <1>5, SameTables, CallTypes, CallsAppend DEF CallsOK
<1>. QED  BY <1>1, <1>2, <1>3, <1>4, <1>5 DEF DoUpdate

LEMMA DoStopTypes ==
    ASSUME TablesOK, CallsOK, NEW s \in Session, NEW due, DoStop(s, due)
    PROVE  TablesOK' /\ CallsOK'
<1>1. CASE UNCHANGED <<sessionVars, calls>>
  BY <1>1, SameTables DEF CallsOK
<1>2. CASE s \in Held(timeBased) /\ EraseTrackingSession(s) /\ calls' = calls \o StopMultiplex(s)
  <2>1. timeBased[s] \in Options
    BY <1>2, HeldOptions DEF TablesOK
  <2>. QED  BY <1>2, <2>1, EraseTables, MultiplexTypes, CallsConcat DEF CallsOK
<1>3. CASE UNCHANGED sessionVars /\ calls' = Append(calls, StopDistance(s, None, "erase"))
  BY <1>3, SameTables, CallTypes, CallsAppend DEF CallsOK
<1>. QED  BY <1>1, <1>2, <1>3 DEF DoStop

\* The answer's handler: the call answered leaves the queue.
LEMMA HeadCall ==
    ASSUME CallsOK, calls # <<>>
    PROVE  Head(calls) \in LocApiCall /\ Tail(calls) \in Seq(LocApiCall)
  BY DEF CallsOK

LEMMA CallFields ==
    ASSUME NEW k \in LocApiCall
    PROVE  /\ k.then # "nothing" \/ k.op # "start" => k.s \in Session
           /\ k.then \in {"switch", "restart", "save"} => k.o \in Options
           /\ k.then \in {"restart", "save"} => k.o.distance
           /\ k.then = "switch" => ~ k.o.distance
           /\ k.then = "restore" => k.old \in Options
           /\ k.op \in {"start", "stop"} => k.o \in Option \union {None}
           /\ k.op \in {"startDistance", "stopDistance"} => k.s \in Session
           /\ k.op = "start" => k.o \in Option
  BY DEF LocApiCall

LEMMA AnswerTypes ==
    ASSUME TablesOK, CallsOK, calls # <<>>, NEW ok \in BOOLEAN, NEW k, k = Head(calls),
           \/ k.then = "erase" /\ k.op # "stopDistance" /\ OnStart(k, ok)
           \/ k.then = "restore" /\ OnUpdate(k, ok)
           \/ k.then \in {"erase", "forget"} /\ k.op = "stopDistance" /\ OnStopDistance(k, ok)
           \/ k.then = "switch" /\ OnSwitch(k)
           \/ k.then = "restart" /\ OnRestart(k, ok)
           \/ k.then = "save" /\ OnSave(k, ok)
           \/ k.then \in {"report", "nothing"} /\ OnOther(k)
    PROVE  TablesOK' /\ CallsOK'
<1>1. k \in LocApiCall /\ Tail(calls) \in Seq(LocApiCall)
  BY HeadCall
<1>2. CASE calls' = Tail(calls) /\ UNCHANGED sessionVars
  BY <1>1, <1>2, SameTables DEF CallsOK
<1>3. CASE calls' = Tail(calls) /\ k.s \in Session /\ EraseTrackingSession(k.s)
  BY <1>1, <1>3, EraseTables DEF CallsOK
<1>4. CASE calls' = Tail(calls) /\ k.s \in Session /\ \E o \in Options : SaveTrackingSession(k.s, o)
  BY <1>1, <1>4, SaveTables DEF CallsOK
<1>5. CASE k.then = "switch" /\ OnSwitch(k)
  <2>1. k.s \in Session /\ k.o \in Options
    BY <1>1, <1>5, CallFields
  <2>2. StartMultiplex(k.s, k.o) \in Seq(LocApiCall)
    BY <2>1, MultiplexTypes
  <2>. QED  BY <1>1, <1>5, <2>1, <2>2, SaveTables, CallsConcat DEF OnSwitch, CallsOK
<1>6. CASE k.then = "restart" /\ OnRestart(k, ok)
  <2>1. k.s \in Session /\ k.o \in Options /\ k.o.distance
    BY <1>1, <1>6, CallFields
  <2>2. StartDistance(k.s, k.o, "save") \in LocApiCall
    BY <2>1, CallTypes
  <2>3. CallsOK'
    BY <1>1, <1>6, <2>2 DEF OnRestart, CallsOK
  <2>. QED  BY <1>6, <2>3, SameTables DEF OnRestart
<1>7. k.then # "nothing" => k.s \in Session
  BY <1>1, CallFields
<1>8. CASE k.then = "erase" /\ OnStart(k, ok)
  BY <1>2, <1>3, <1>7, <1>8 DEF OnStart
<1>9. CASE k.then = "restore" /\ OnUpdate(k, ok)
  BY <1>1, <1>2, <1>4, <1>9, CallFields DEF OnUpdate
<1>10. CASE k.then \in {"erase", "forget"} /\ OnStopDistance(k, ok)
  BY <1>2, <1>3, <1>7, <1>10 DEF OnStopDistance
<1>11. CASE k.then = "save" /\ OnSave(k, ok)
  BY <1>1, <1>2, <1>4, <1>11, CallFields DEF OnSave
<1>12. CASE OnOther(k)
  BY <1>2, <1>12 DEF OnOther
<1>. QED  BY <1>5, <1>6, <1>8, <1>9, <1>10, <1>11, <1>12

\* The calls that stop the sessions of c, each about a session of c
LEMMA StopClientCalls ==
    ASSUME TablesOK, NEW c
    PROVE  /\ StopsOfTimeBased(c) \in Seq(LocApiCall)
           /\ \A i \in DOMAIN StopsOfTimeBased(c) : \E s \in Session :
                 /\ ClientOf[s] = c
                 /\ \/ StopsOfTimeBased(c)[i] = StopTracking(s)
                    \/ \E x \in Option : StopsOfTimeBased(c)[i] = StartTimeBased(s, x)
           /\ StopsOfDistanceBased(c, "forget") \in Seq(LocApiCall)
           /\ \A i \in DOMAIN StopsOfDistanceBased(c, "forget") : \E s \in Session :
                 StopsOfDistanceBased(c, "forget")[i] = StopDistance(s, None, "forget")
<1>1. /\ StopsOfTimeBased(c) \in Seq(LocApiCall)
      /\ \A i \in DOMAIN StopsOfTimeBased(c) : \E s \in Session :
            /\ ClientOf[s] = c
            /\ \/ StopsOfTimeBased(c)[i] = StopTracking(s)
               \/ \E x \in Option : StopsOfTimeBased(c)[i] = StartTimeBased(s, x)
  <2>. DEFINE S == {s \in Held(timeBased) : ClientOf[s] = c /\ StopMultiplex(s) # <<>>}
              q == InOrder(S)
              Stops(k, s) == k = StopTracking(s) \/ \E x \in Option : k = StartTimeBased(s, x)
  <2>1. Cardinality(S) \in Nat /\ q \in [1..Cardinality(S) -> S]
    <3>1. S \in SUBSET Session
      BY DEF Held
    <3>. HIDE DEF S
    <3>. QED  BY <3>1, OrderEnumerates
  <2>2. \A s \in S : /\ s \in Session /\ ClientOf[s] = c
                     /\ StopMultiplex(s)[1] \in LocApiCall /\ Stops(StopMultiplex(s)[1], s)
    <3>. SUFFICES ASSUME NEW s \in S
                  PROVE  /\ s \in Session /\ ClientOf[s] = c
                         /\ StopMultiplex(s)[1] \in LocApiCall /\ Stops(StopMultiplex(s)[1], s)
      OBVIOUS
    <3>1. s \in Held(timeBased) /\ s \in Session /\ ClientOf[s] = c /\ StopMultiplex(s) # <<>>
      BY HeldOptions DEF TablesOK
    <3>2. \/ StopMultiplex(s) = <<StopTracking(s)>>
          \/ \E x \in Option : StopMultiplex(s) = <<StartTimeBased(s, x)>>
      BY <3>1, StopMultiplexCalls DEF TablesOK
    <3>3. StopTracking(s) \in LocApiCall /\ \A x \in Option : StartTimeBased(s, x) \in LocApiCall
      BY <3>1, CallTypes
    <3>. HIDE DEF S
    <3>. QED  BY <3>1, <3>2, <3>3
  <2>3. StopsOfTimeBased(c) = [i \in 1..Cardinality(S) |-> StopMultiplex(q[i])[1]]
    BY <2>1 DEF StopsOfTimeBased
  <2>4. \A i \in 1..Cardinality(S) :
          /\ StopMultiplex(q[i])[1] \in LocApiCall
          /\ q[i] \in Session /\ ClientOf[q[i]] = c /\ Stops(StopMultiplex(q[i])[1], q[i])
    BY <2>1, <2>2
  <2>. HIDE DEF S, q, Stops
  <2>5. /\ StopsOfTimeBased(c) \in Seq(LocApiCall)
        /\ DOMAIN StopsOfTimeBased(c) = 1..Cardinality(S)
        /\ \A i \in 1..Cardinality(S) : StopsOfTimeBased(c)[i] = StopMultiplex(q[i])[1]
    BY <2>1, <2>3, <2>4
  <2>6. \A i \in DOMAIN StopsOfTimeBased(c) : \E s \in Session :
              ClientOf[s] = c /\ Stops(StopsOfTimeBased(c)[i], s)
    BY <2>4, <2>5, Zenon
  <2>. QED  BY <2>5, <2>6, Zenon DEF Stops
<1>2. /\ StopsOfDistanceBased(c, "forget") \in Seq(LocApiCall)
      /\ \A i \in DOMAIN StopsOfDistanceBased(c, "forget") : \E s \in Session :
            StopsOfDistanceBased(c, "forget")[i] = StopDistance(s, None, "forget")
  <2>. DEFINE S == {s \in Held(distanceBased) : ClientOf[s] = c}
              q == InOrder(S)
  <2>1. Cardinality(S) \in Nat /\ q \in [1..Cardinality(S) -> S] /\ S \subseteq Session
    <3>1. S \in SUBSET Session
      BY DEF Held
    <3>. HIDE DEF S
    <3>. QED  BY <3>1, OrderEnumerates
  <2>2. \A i \in 1..Cardinality(S) : /\ StopDistance(q[i], None, "forget") \in LocApiCall
                                     /\ q[i] \in Session
    <3>. HIDE DEF S, q
    <3>. QED  BY <2>1, CallTypes
  <2>3. StopsOfDistanceBased(c, "forget") =
          [i \in 1..Cardinality(S) |-> StopDistance(q[i], None, "forget")]
    BY <2>1 DEF StopsOfDistanceBased
  <2>. HIDE DEF S, q
  <2>4. /\ StopsOfDistanceBased(c, "forget") \in Seq(LocApiCall)
        /\ DOMAIN StopsOfDistanceBased(c, "forget") = 1..Cardinality(S)
        /\ \A i \in 1..Cardinality(S) :
              StopsOfDistanceBased(c, "forget")[i] = StopDistance(q[i], None, "forget")
    BY <2>1, <2>2, <2>3
  <2>. QED  BY <2>2, <2>4, Zenon
<1>. QED  BY <1>1, <1>2

LEMMA StopClientTypes ==
    ASSUME TablesOK, CallsOK, NEW c, StopClientSessions(c)
    PROVE  CallsOK'
  BY StopClientCalls, CallsConcat DEF StopClientSessions, CallsOK

\* restartSessions makes one call to start for the time-based sessions, and
\* calls for distance-based sessions behind it.
LEMMA RestartCalls ==
    ASSUME TablesOK
    PROVE  /\ \/ RestartTimeBased = <<>> /\ Held(timeBased) = {}
              \/ \E x \in Option : /\ RestartTimeBased = <<Call("start", 0, x, "nothing", None)>>
                                   /\ FastFor(x, timeBased, Held(timeBased))
           /\ RestartTimeBased \in Seq(LocApiCall)
           /\ RestartDistanceBased \in
                Seq({StartDistance(s, o, "nothing") : s \in Session, o \in Options})
           /\ RestartDistanceBased \in Seq(LocApiCall)
<1>1. \/ RestartTimeBased = <<>> /\ Held(timeBased) = {}
      \/ \E x \in Option : /\ RestartTimeBased = <<Call("start", 0, x, "nothing", None)>>
                           /\ FastFor(x, timeBased, Held(timeBased))
  <2>. DEFINE all == Held(timeBased)
              mixed == [Smallest(all) EXCEPT !.power = LeastPower(all)]
  <2>1. CASE all # {}
    <3>1. /\ Smallest(all) \in Option /\ LeastPower(all) \in 1..5
          /\ \A s \in all : Smallest(all).interval <= timeBased[s].interval
      BY <2>1, SmallestIsSmallest, LeastPowerIsLeast DEF TablesOK
    <3>2. mixed \in Option /\ mixed.interval = Smallest(all).interval
      BY <3>1 DEF Option
    <3>3. FastFor(mixed, timeBased, all)
      BY <3>1, <3>2 DEF FastFor
    <3>. QED  BY <2>1, <3>2, <3>3 DEF RestartTimeBased
  <2>. QED  BY <2>1 DEF RestartTimeBased
<1>2. RestartTimeBased \in Seq(LocApiCall)
  <2>1. \A x \in Option : Call("start", 0, x, "nothing", None) \in LocApiCall
    BY DEF Call, LocApiCall
  <2>2. <<>> \in Seq(LocApiCall)
    OBVIOUS
  <2>. QED  BY <1>1, <2>1, <2>2, OneCall, Zenon
<1>3. RestartDistanceBased \in Seq({StartDistance(s, o, "nothing") : s \in Session, o \in Options})
  <2>. DEFINE S == Held(distanceBased)
              q == InOrder(S)
              made == {StartDistance(s, o, "nothing") : s \in Session, o \in Options}
  <2>1. Cardinality(S) \in Nat /\ q \in [1..Cardinality(S) -> S]
    <3>1. S \in SUBSET Session
      BY DEF Held
    <3>. HIDE DEF S
    <3>. QED  BY <3>1, OrderEnumerates
  <2>2. \A s \in S : s \in Session /\ distanceBased[s] \in Options
    BY HeldOptions DEF TablesOK
  <2>3. RestartDistanceBased =
          [i \in 1..Cardinality(S) |-> StartDistance(q[i], distanceBased[q[i]], "nothing")]
    BY <2>1 DEF RestartDistanceBased
  <2>4. \A i \in 1..Cardinality(S) : StartDistance(q[i], distanceBased[q[i]], "nothing") \in made
    BY <2>1, <2>2
  <2>. PICK n : n = Cardinality(S)
    OBVIOUS
  <2>. HIDE DEF S, q, made
  <2>5. n \in Nat /\ \A f : (\A i \in 1..n : f[i] \in made) =>
                               [i \in 1..n |-> f[i]] \in Seq(made)
    BY <2>1
  <2>6. RestartDistanceBased \in Seq(made)
    BY <2>1, <2>3, <2>4, <2>5
  <2>. QED  BY <2>6 DEF made
<1>4. {StartDistance(s, o, "nothing") : s \in Session, o \in Options} \subseteq LocApiCall
  BY CallTypes
<1>5. RestartDistanceBased \in Seq(LocApiCall)
  <2>. DEFINE made == {StartDistance(s, o, "nothing") : s \in Session, o \in Options}
  <2>1. RestartDistanceBased \in Seq(made) /\ made \subseteq LocApiCall
    BY <1>3, <1>4
  <2>. HIDE DEF made
  <2>. QED  BY <2>1
<1>. QED  BY <1>1, <1>2, <1>3, <1>5

LEMMA UseTypes ==
    ASSUME UsedOK, NEW b \in DOMAIN Limit, Use(b)
    PROVE  UsedOK' /\ used'[b] > 0 /\ \A x \in DOMAIN Limit \ {b} : used'[x] = used[x]
<1>1. \A x \in DOMAIN Limit : Limit[x] \in Nat
  BY DEF Limit
<1>2. used' = [used EXCEPT ![b] = @ + 1] /\ used[b] < Limit[b]
  BY DEF Use
<1>. HIDE DEF Limit
<1>. QED  BY <1>1, <1>2 DEF UsedOK

LEMMA ModemTypes ==
    ASSUME ModemOK, UsedOK, NEW k \in LocApiCall, NEW ok \in BOOLEAN, ModemDoes(k, ok)
    PROVE  ModemOK' /\ UsedOK'
<1>1. UsedOK'
  <2>1. "failures" \in DOMAIN Limit
    BY DEF Limit
  <2>2. UNCHANGED used => UsedOK'
    BY DEF UsedOK
  <2>. QED  BY <2>1, <2>2, UseTypes DEF ModemDoes
<1>2. modem' \in Option \union {None}
  BY CallFields DEF ModemDoes, ModemOK
<1>3. modemDistance' \subseteq Session
  BY CallFields DEF ModemDoes, ModemOK
<1>. QED  BY <1>1, <1>2, <1>3 DEF ModemDoes, ModemOK

LEMMA TypedStep ==
    ASSUME Typed, [Next]_vars
    PROVE  Typed'
<1>. USE DEF Typed
<1>1. {"updates", "failures", "removals", "restarts"} = DOMAIN Limit
  BY DEF Limit
<1>2. UNCHANGED used => UsedOK'
  BY DEF UsedOK
<1>3. UNCHANGED deferVars => DeferOK'
  BY DEF deferVars, DeferOK
<1>4. UNCHANGED modemVars => ModemOK'
  BY DEF modemVars, ModemOK
<1>5. UNCHANGED clientVars => ClientOK'
  BY DEF clientVars, ClientOK
<1>6. UNCHANGED <<sessionVars, calls>> => TablesOK' /\ CallsOK'
  BY SameTables DEF CallsOK
<1>7. ASSUME NEW kind \in {"start", "update"}, NEW s \in Session, NEW o \in Options, Defer(kind, s, o)
      PROVE  TablesOK' /\ CallsOK' /\ DeferOK'
  <2>1. [kind |-> kind, s |-> s, o |-> o] \in DeferredRequest
    BY DEF DeferredRequest
  <2>2. DeferOK'
    BY <1>7, <2>1 DEF Defer, DeferOK
  <2>. QED  BY <1>6, <1>7, <2>2 DEF Defer
<1>8. ASSUME NEW s \in Session, NEW o \in Options, StartTrackingCommand(s, o)
      PROVE  Typed'
  <2>1. ClientOK' /\ ModemOK' /\ UsedOK'
    BY <1>2, <1>4, <1>8 DEF StartTrackingCommand, ClientOK
  <2>2. TablesOK' /\ CallsOK' /\ DeferOK'
    BY <1>3, <1>7, <1>8, DoStartTypes DEF StartTrackingCommand
  <2>. QED  BY <2>1, <2>2
<1>9. ASSUME NEW s \in Session, NEW o \in Options, UpdateTrackingOptionsCommand(s, o)
      PROVE  Typed'
  <2>1. ClientOK' /\ ModemOK' /\ UsedOK'
    BY <1>1, <1>4, <1>5, <1>9, UseTypes DEF UpdateTrackingOptionsCommand
  <2>2. TablesOK' /\ CallsOK' /\ DeferOK'
    BY <1>3, <1>7, <1>9, DoUpdateTypes DEF UpdateTrackingOptionsCommand
  <2>. QED  BY <2>1, <2>2
<1>10. ASSUME NEW s \in Session, StopTrackingCommand(s)
       PROVE  Typed'
  <2>1. ClientOK' /\ ModemOK' /\ UsedOK' /\ DeferOK'
    BY <1>2, <1>3, <1>4, <1>10 DEF StopTrackingCommand, ClientOK
  <2>2. TablesOK' /\ CallsOK'
    BY <1>10, DoStopTypes DEF StopTrackingCommand
  <2>. QED  BY <2>1, <2>2
<1>11. CASE HandleResent
  <2>1. Head(resent) \in DeferredRequest /\ DeferOK'
    BY <1>11 DEF HandleResent, DeferOK
  <2>2. Head(resent).s \in Session /\ Head(resent).o \in Options
    BY <2>1 DEF DeferredRequest
  <2>3. TablesOK' /\ CallsOK'
    BY <1>11, <2>2, DoStartTypes, DoUpdateTypes DEF HandleResent
  <2>. QED  BY <1>2, <1>4, <1>5, <1>11, <2>1, <2>3 DEF HandleResent
<1>12. ASSUME NEW c \in Client, RemoveClient(c)
       PROVE  Typed'
  <2>1. UsedOK'
    BY <1>1, <1>12, UseTypes DEF RemoveClient
  <2>2. ClientOK'
    BY <1>12 DEF RemoveClient, ClientOK
  <2>3. TablesOK' /\ CallsOK'
    BY <1>12, SameTables, StopClientTypes DEF RemoveClient
  <2>. QED  BY <1>3, <1>4, <1>12, <2>1, <2>2, <2>3 DEF RemoveClient
<1>13. ASSUME NEW ok \in BOOLEAN, LocApiAnswers(ok)
       PROVE  Typed'
  <2>1. calls # <<>> /\ Head(calls) \in LocApiCall /\ ModemDoes(Head(calls), ok)
    BY <1>13, HeadCall DEF LocApiAnswers
  <2>2. ModemOK' /\ UsedOK'
    BY <2>1, ModemTypes
  <2>3. TablesOK' /\ CallsOK'
    BY <1>13, <2>1, AnswerTypes DEF LocApiAnswers
  <2>. QED  BY <1>3, <1>5, <1>13, <2>2, <2>3 DEF LocApiAnswers
<1>14. CASE ModemRestart
  <2>1. UsedOK'
    BY <1>1, <1>14, UseTypes DEF ModemRestart
  <2>2. ModemOK'
    BY <1>14 DEF ModemRestart, ModemOK
  <2>. QED  BY <1>3, <1>5, <1>6, <1>14, <2>1, <2>2 DEF ModemRestart
<1>15. CASE ModemOpens
  <2>1. ModemOK'
    BY <1>15 DEF ModemOpens, ModemOK
  <2>. QED  BY <1>2, <1>3, <1>5, <1>6, <1>15, <2>1 DEF ModemOpens
<1>16. CASE HandleEngineUp
  <2>1. ModemOK' /\ DeferOK'
    BY <1>16 DEF HandleEngineUp, ModemOK, DeferOK
  <2>2. TablesOK'
    BY <1>16, SameTables DEF HandleEngineUp
  <2>3. CallsOK'
    BY <1>16, RestartCalls, CallsConcat DEF HandleEngineUp, RestartSessions, CallsOK
  <2>. QED  BY <1>2, <1>5, <1>16, <2>1, <2>2, <2>3 DEF HandleEngineUp
<1>17. CASE UNCHANGED vars
  BY <1>2, <1>3, <1>4, <1>5, <1>6, <1>17 DEF vars
<1>. QED  BY <1>8, <1>9, <1>10, <1>11, <1>12, <1>13, <1>14, <1>15, <1>16, <1>17 DEF Next

-----------------------------------------------------------------------------
(* The modem tracks fast enough.  What counts is the last call in the queue *)
(* that sets the modem's session, or the modem if there is none: it must be *)
(* fast enough for every session in the table.                              *)

Sets(k) == k.op \in {"start", "stop"}

FastEnough(o, t) == o # None /\ FastFor(o, t, Held(t))

FastQueue(q, m, t) ==
    /\ \A i \in DOMAIN q :
          Sets(q[i]) /\ (\A j \in DOMAIN q : j > i => ~ Sets(q[j])) => FastEnough(q[i].o, t)
    /\ (\A i \in DOMAIN q : ~ Sets(q[i])) => FastEnough(m, t)

\* Once there are sessions, the queue is fast enough for them.
Fast(q, m, t) == Held(t) # {} => FastQueue(q, m, t)

\* Distance-based tracking is asked for only where there is such a thing.
Supported == \A o \in Options : o.distance => DistanceSupported

\* The modem carries out what it is told while it is up, and no client is
\* removed, whose time-based sessions would stay in the table.
Obeyed == used["failures"] = 0 /\ used["removals"] = 0

FastInv == Obeyed /\ engine = "up" => Fast(calls, modem, timeBased)

LEMMA AppendSetting ==
    ASSUME NEW q \in Seq(LocApiCall), NEW m, NEW t, NEW k \in LocApiCall,
           Sets(k), FastEnough(k.o, t)
    PROVE  FastQueue(q \o <<k>>, m, t)
<1>. DEFINE r == q \o <<k>>
            n == Len(q) + 1
<1>1. /\ n \in DOMAIN r /\ r[n] = k
      /\ \A i \in DOMAIN r : i # n => n > i
  OBVIOUS
<1>. HIDE DEF r, n
<1>2. FastQueue(r, m, t)
  BY <1>1 DEF FastQueue
<1>. QED  BY <1>2 DEF r

LEMMA AppendOthers ==
    ASSUME NEW q \in Seq(LocApiCall), NEW m, NEW t, FastQueue(q, m, t),
           NEW p \in Seq(LocApiCall), \A i \in DOMAIN p : ~ Sets(p[i])
    PROVE  FastQueue(q \o p, m, t)
<1>. DEFINE r == q \o p
<1>1. /\ \A i \in DOMAIN q : i \in DOMAIN r /\ r[i] = q[i]
      /\ \A i \in DOMAIN r : i \notin DOMAIN q => i - Len(q) \in DOMAIN p /\ r[i] = p[i - Len(q)]
  OBVIOUS
<1>2. \A i \in DOMAIN r : i \notin DOMAIN q => ~ Sets(r[i])
  BY <1>1
<1>. HIDE DEF r
<1>3. FastQueue(r, m, t)
  BY <1>1, <1>2 DEF FastQueue
<1>. QED  BY <1>3 DEF r

LEMMA AppendOther ==
    ASSUME NEW q \in Seq(LocApiCall), NEW m, NEW t, FastQueue(q, m, t),
           NEW k \in LocApiCall, ~ Sets(k)
    PROVE  FastQueue(q \o <<k>>, m, t)
<1>1. <<k>> \in Seq(LocApiCall) /\ \A i \in DOMAIN <<k>> : ~ Sets(<<k>>[i])
  OBVIOUS
<1>. QED  BY <1>1, AppendOthers, Zenon

\* The modem carries out the oldest call.
LEMMA PopCall ==
    ASSUME NEW q \in Seq(LocApiCall), q # <<>>, NEW m, NEW t, FastQueue(q, m, t),
           NEW n, n = IF Sets(Head(q)) THEN Head(q).o ELSE m
    PROVE  FastQueue(Tail(q), n, t)
<1>. DEFINE r == Tail(q)
<1>1. /\ \A i \in DOMAIN r : i \in Nat /\ i + 1 \in DOMAIN q /\ r[i] = q[i + 1]
      /\ \A j \in DOMAIN q : j \in Nat /\ (j > 1 => j - 1 \in DOMAIN r /\ r[j - 1] = q[j])
      /\ 1 \in DOMAIN q /\ q[1] = Head(q)
      /\ \A j \in DOMAIN q : j = 1 \/ j > 1
  OBVIOUS
<1>. HIDE DEF r
<1>2. ASSUME NEW i \in DOMAIN r, Sets(r[i]), \A j \in DOMAIN r : j > i => ~ Sets(r[j])
      PROVE  FastEnough(r[i].o, t)
  <2>1. ASSUME NEW j \in DOMAIN q, j > i + 1  PROVE ~ Sets(q[j])
    <3>1. j > 1 /\ j - 1 \in DOMAIN r /\ j - 1 > i /\ r[j - 1] = q[j]
      BY <1>1, <2>1
    <3>. QED  BY <1>2, <3>1
  <2>. QED  BY <1>1, <1>2, <2>1 DEF FastQueue
<1>3. ASSUME \A i \in DOMAIN r : ~ Sets(r[i])
      PROVE  FastEnough(n, t)
  <2>1. \A j \in DOMAIN q : j > 1 => ~ Sets(q[j])
    BY <1>1, <1>3
  <2>. QED  BY <1>1, <2>1 DEF FastQueue
<1>4. FastQueue(r, n, t)
  BY <1>2, <1>3 DEF FastQueue
<1>. QED  BY <1>4 DEF r

\* What is fast enough for t is so for u, each of whose sessions has one in t
\* that is as fast.
LEMMA Relax ==
    ASSUME NEW q \in Seq(LocApiCall), NEW m \in Option \union {None}, NEW t, NEW u,
           Table(t), Table(u), FastQueue(q, m, t),
           \A s \in Held(u) : \E r \in Held(t) : t[r].interval <= u[s].interval
    PROVE  FastQueue(q, m, u)
<1>1. ASSUME NEW o \in Option \union {None}, FastEnough(o, t)
      PROVE  FastEnough(o, u)
  <2>1. o \in Option /\ o.interval \in Nat
    BY <1>1 DEF FastEnough, Option
  <2>2. /\ \A s \in Held(u) : u[s].interval \in Nat
        /\ \A s \in Held(t) : t[s].interval \in Nat
    BY HeldOptions
  <2>. QED  BY <1>1, <2>1, <2>2 DEF FastEnough, FastFor
<1>2. \A i \in DOMAIN q : Sets(q[i]) => q[i].o \in Option \union {None}
  BY CallFields DEF Sets
<1>. QED  BY <1>1, <1>2 DEF FastQueue

LEMMA RelaxToPart ==
    ASSUME NEW q \in Seq(LocApiCall), NEW m \in Option \union {None}, NEW t, NEW u,
           Table(t), Table(u), Fast(q, m, t), \A s \in Held(u) : u[s] = t[s]
    PROVE  Fast(q, m, u)
<1>1. Held(u) \subseteq Held(t)
  BY DEF Held
<1>2. \A s \in Held(u) : t[s].interval <= u[s].interval
  BY HeldOptions
<1>. QED  BY <1>1, <1>2, Relax DEF Fast

\* The three multiplexing functions keep up with what happens to the table.
LEMMA StartKeepsFast ==
    ASSUME Table(timeBased), NEW q \in Seq(LocApiCall), NEW m \in Option \union {None},
           Fast(q, m, timeBased), NEW s \in Session, NEW o \in Options,
           NEW t, t = timeBased \/ t = [timeBased EXCEPT ![s] = o]
    PROVE  Fast(q \o StartMultiplex(s, o), m, t)
<1>1. Table(t)
  BY DEF Table
<1>2. \A r \in Held(t) : r \in Session /\ (t[r] = timeBased[r] \/ t[r] = o)
  BY DEF Table, Held
<1>3. \A r \in Held(t) : r \in Held(timeBased) \/ t[r] = o
  BY <1>2 DEF Held
<1>4. \A r \in Held(timeBased) : timeBased[r].interval \in Nat
  BY HeldOptions
<1>5. CASE /\ StartMultiplex(s, o) = <<>>
           /\ \E r \in Held(timeBased) : timeBased[r].interval <= o.interval
  <2>1. \A r \in Held(t) : \E x \in Held(timeBased) : timeBased[x].interval <= t[r].interval
    BY <1>2, <1>3, <1>4, <1>5
  <2>2. FastQueue(q, m, timeBased) /\ q \o <<>> = q
    BY <1>5 DEF Fast
  <2>. QED  BY <1>1, <1>5, <2>1, <2>2, Relax DEF Fast
<1>6. ASSUME NEW x \in Option, StartMultiplex(s, o) = <<StartTimeBased(s, x)>>,
             x.interval <= o.interval, FastFor(x, timeBased, Held(timeBased))
      PROVE  Fast(q \o StartMultiplex(s, o), m, t)
  <2>1. FastEnough(x, t)
    BY <1>2, <1>3, <1>6 DEF FastEnough, FastFor
  <2>2. /\ StartTimeBased(s, x) \in LocApiCall /\ Sets(StartTimeBased(s, x))
        /\ StartTimeBased(s, x).o = x
    BY DEF StartTimeBased, Call, LocApiCall, Sets
  <2>. QED  BY <1>6, <2>1, <2>2, AppendSetting DEF Fast
<1>. QED  BY <1>5, <1>6, StartMultiplexCalls

LEMMA UpdateKeepsFast ==
    ASSUME Table(timeBased), NEW q \in Seq(LocApiCall), NEW m \in Option \union {None},
           Fast(q, m, timeBased), NEW s \in Held(timeBased), NEW o \in Options,
           NEW t, t = [timeBased EXCEPT ![s] = o]
    PROVE  Fast(q \o UpdateMultiplex(s, o), m, t)
<1>1. Table(t) /\ s \in Session
  BY DEF Table, Held
<1>2. \A r \in Held(t) : IF r = s THEN t[r] = o
                         ELSE r \in Held(timeBased) /\ t[r] = timeBased[r]
  BY DEF Table, Held
<1>3. \A r \in Held(timeBased) : timeBased[r].interval \in Nat
  BY HeldOptions
<1>4. CASE /\ UpdateMultiplex(s, o) = <<>>
           /\ \E r \in Held(timeBased) : timeBased[r].interval <= o.interval
  <2>1. \A r \in Held(t) : \E x \in Held(timeBased) : timeBased[x].interval <= t[r].interval
    BY <1>2, <1>3, <1>4
  <2>2. FastQueue(q, m, timeBased) /\ q \o <<>> = q
    BY <1>4 DEF Fast
  <2>. QED  BY <1>1, <1>4, <2>1, <2>2, Relax DEF Fast
<1>5. ASSUME NEW x \in Option, UpdateMultiplex(s, o) = <<UpdateTracking(s, x)>>,
             x.interval <= o.interval, FastFor(x, timeBased, Held(timeBased) \ {s})
      PROVE  Fast(q \o UpdateMultiplex(s, o), m, t)
  <2>1. FastEnough(x, t)
    BY <1>2, <1>5 DEF FastEnough, FastFor
  <2>2. timeBased[s] \in Options
    BY HeldOptions
  <2>3. /\ UpdateTracking(s, x) \in LocApiCall /\ Sets(UpdateTracking(s, x))
        /\ UpdateTracking(s, x).o = x
    BY <1>1, <2>2 DEF UpdateTracking, Call, LocApiCall, Sets
  <2>. QED  BY <1>5, <2>1, <2>3, AppendSetting DEF Fast
<1>. QED  BY <1>4, <1>5, UpdateMultiplexCalls

LEMMA StopKeepsFast ==
    ASSUME Table(timeBased), NEW q \in Seq(LocApiCall), NEW m \in Option \union {None},
           Fast(q, m, timeBased), NEW s \in Held(timeBased),
           NEW t, t = [timeBased EXCEPT ![s] = None]
    PROVE  Fast(q \o StopMultiplex(s), m, t)
<1>1. Table(t) /\ s \in Session
  BY DEF Table, Held
<1>2. Held(t) = Held(timeBased) \ {s} /\ \A r \in Held(t) : t[r] = timeBased[r]
  BY DEF Table, Held
<1>3. CASE StopMultiplex(s) = <<>>
  <2>1. q \o <<>> = q
    OBVIOUS
  <2>. QED  BY <1>1, <1>2, <1>3, <2>1, RelaxToPart
<1>4. CASE Held(timeBased) = {s}
  BY <1>2, <1>4 DEF Fast
<1>5. ASSUME NEW x \in Option, StopMultiplex(s) = <<StartTimeBased(s, x)>>,
             FastFor(x, timeBased, Held(timeBased) \ {s})
      PROVE  Fast(q \o StopMultiplex(s), m, t)
  <2>1. FastEnough(x, t)
    BY <1>2, <1>5 DEF FastEnough, FastFor
  <2>2. /\ StartTimeBased(s, x) \in LocApiCall /\ Sets(StartTimeBased(s, x))
        /\ StartTimeBased(s, x).o = x
    BY <1>1 DEF StartTimeBased, Call, LocApiCall, Sets
  <2>. QED  BY <1>5, <2>1, <2>2, AppendSetting DEF Fast
<1>. QED  BY <1>3, <1>4, <1>5, StopMultiplexCalls

LEMMA SameFast ==
    ASSUME Fast(calls, modem, timeBased), UNCHANGED <<calls, modem, timeBased>>
    PROVE  Fast(calls', modem', timeBased')
  BY DEF Fast, FastQueue, FastEnough, FastFor, Held

\* A call for a distance-based session is no setting of the modem's session.
LEMMA DistanceCall ==
    ASSUME CallsOK, Fast(calls, modem, timeBased), NEW k \in LocApiCall, ~ Sets(k)
    PROVE  Fast(Append(calls, k), modem, timeBased)
<1>1. Append(calls, k) = calls \o <<k>>
  BY DEF CallsOK
<1>. QED  BY <1>1, AppendOther DEF CallsOK, Fast

LEMMA DistanceCallsSetNothing ==
    ASSUME NEW s, NEW o, NEW then
    PROVE  ~ Sets(StartDistance(s, o, then)) /\ ~ Sets(StopDistance(s, o, then))
  BY DEF StartDistance, StopDistance, Call, Sets

\* What saving and erasing do to the table of time-based sessions
LEMMA SaveTimeBased ==
    ASSUME NEW s \in Session, NEW o \in Options, SaveTrackingSession(s, o)
    PROVE  timeBased' = IF IsDistance(o) THEN timeBased ELSE [timeBased EXCEPT ![s] = o]
  BY DEF SaveTrackingSession

LEMMA EraseFast ==
    ASSUME TablesOK, NEW q \in Seq(LocApiCall), NEW m \in Option \union {None},
           Fast(q, m, timeBased), NEW s \in Session, EraseTrackingSession(s)
    PROVE  Fast(q, m, timeBased')
<1>1. timeBased' = timeBased \/ timeBased' = [timeBased EXCEPT ![s] = None]
  BY DEF EraseTrackingSession
<1>2. Table(timeBased) /\ Table(timeBased')
  BY EraseTables DEF TablesOK
<1>3. \A r \in Held(timeBased') : timeBased'[r] = timeBased[r]
  BY <1>1, <1>2 DEF Held, Table
<1>. QED  BY <1>2, <1>3, RelaxToPart

LEMMA DoStartFast ==
    ASSUME TablesOK, CallsOK, ModemOK, UNCHANGED modem, Fast(calls, modem, timeBased),
           NEW s \in Session, NEW o \in Options, NEW due, DoStart(s, o, due)
    PROVE  Fast(calls', modem', timeBased')
<1>1. CASE UNCHANGED <<sessionVars, calls>>
  BY <1>1, SameFast DEF sessionVars
<1>2. CASE /\ IsDistance(o) /\ SaveTrackingSession(s, o)
           /\ calls' = Append(calls, StartDistance(s, o, "erase"))
  <2>1. timeBased' = timeBased
    BY <1>2, SaveTimeBased
  <2>2. StartDistance(s, o, "erase") \in LocApiCall
    BY CallTypes
  <2>3. Fast(calls', modem, timeBased)
    BY <1>2, <2>2, DistanceCall, DistanceCallsSetNothing
  <2>. QED  BY <2>1, <2>3
<1>3. CASE /\ ~ IsDistance(o) /\ SaveTrackingSession(s, o)
           /\ calls' = calls \o StartMultiplex(s, o)
  <2>1. timeBased' = [timeBased EXCEPT ![s] = o]
    BY <1>3, SaveTimeBased
  <2>2. Fast(calls \o StartMultiplex(s, o), modem, timeBased')
    BY <2>1, StartKeepsFast DEF TablesOK, CallsOK, ModemOK
  <2>. QED  BY <1>3, <2>2
<1>. QED  BY <1>1, <1>2, <1>3 DEF DoStart

LEMMA SwitchToDistanceFast ==
    ASSUME TablesOK, CallsOK, ModemOK, UNCHANGED modem, Fast(calls, modem, timeBased),
           NEW s \in Held(timeBased), NEW o \in Options, NEW due, IsDistance(o),
           SwitchToDistance(s, o, due)
    PROVE  Fast(calls', modem', timeBased')
<1>1. timeBased' = [timeBased EXCEPT ![s] = None]
  BY DEF SwitchToDistance
<1>2. Fast(calls \o StopMultiplex(s), modem, timeBased')
  BY <1>1, StopKeepsFast DEF TablesOK, CallsOK, ModemOK
<1>3. s \in Session
  BY DEF Held
<1>4. calls \o StopMultiplex(s) \in Seq(LocApiCall)
  BY <1>3, MultiplexTypes, CallsConcat DEF CallsOK
<1>5. StartDistance(s, o, "nothing") \in LocApiCall /\ ~ Sets(StartDistance(s, o, "nothing"))
  BY <1>3, CallTypes, DistanceCallsSetNothing
<1>6. calls' = (calls \o StopMultiplex(s)) \o <<StartDistance(s, o, "nothing")>>
  BY DEF SwitchToDistance
<1>7. FastQueue(calls \o StopMultiplex(s), modem, timeBased') => FastQueue(calls', modem, timeBased')
  BY <1>4, <1>5, <1>6, AppendOther, Zenon
<1>. QED  BY <1>2, <1>7 DEF Fast

LEMMA DoUpdateFast ==
    ASSUME TablesOK, CallsOK, ModemOK, UNCHANGED modem, Fast(calls, modem, timeBased), Supported,
           NEW s \in Session, NEW o \in Options, NEW due, DoUpdate(s, o, due)
    PROVE  Fast(calls', modem', timeBased')
<1>1. CASE UNCHANGED <<sessionVars, calls>>
  BY <1>1, SameFast DEF sessionVars
<1>2. CASE s \in Held(timeBased) /\ o.distance /\ SwitchToDistance(s, o, due)
  BY <1>2, SwitchToDistanceFast DEF Supported, IsDistance
<1>3. CASE /\ ~ o.distance /\ EraseTrackingSession(s)
           /\ calls' = Append(calls, StopDistance(s, o, "switch"))
  <2>1. StopDistance(s, o, "switch") \in LocApiCall
    BY <1>3, CallTypes
  <2>2. Fast(calls', modem, timeBased)
    BY <1>3, <2>1, DistanceCall, DistanceCallsSetNothing
  <2>3. calls' \in Seq(LocApiCall)
    BY <1>3, <2>1, CallsAppend
  <2>. QED  BY <1>3, <2>2, <2>3, EraseFast DEF ModemOK
<1>4. CASE /\ s \in Held(timeBased) /\ ~ o.distance /\ SaveTrackingSession(s, o)
           /\ calls' = calls \o UpdateMultiplex(s, o)
  <2>1. timeBased' = [timeBased EXCEPT ![s] = o]
    BY <1>4, SaveTimeBased DEF IsDistance
  <2>2. Fast(calls \o UpdateMultiplex(s, o), modem, timeBased')
    BY <1>4, <2>1, UpdateKeepsFast DEF TablesOK, CallsOK, ModemOK
  <2>. QED  BY <1>4, <2>2
<1>5. CASE /\ o.distance /\ UNCHANGED sessionVars
           /\ calls' = Append(calls, StopDistance(s, o, "restart"))
  <2>1. StopDistance(s, o, "restart") \in LocApiCall
    BY <1>5, CallTypes
  <2>2. Fast(calls', modem, timeBased)
    BY <1>5, <2>1, DistanceCall, DistanceCallsSetNothing
  <2>. QED  BY <1>5, <2>2 DEF sessionVars
<1>. QED  BY <1>1, <1>2, <1>3, <1>4, <1>5 DEF DoUpdate

LEMMA DoStopFast ==
    ASSUME TablesOK, CallsOK, ModemOK, UNCHANGED modem, Fast(calls, modem, timeBased),
           NEW s \in Session, NEW due, DoStop(s, due)
    PROVE  Fast(calls', modem', timeBased')
<1>1. CASE UNCHANGED <<sessionVars, calls>>
  BY <1>1, SameFast DEF sessionVars
<1>2. CASE s \in Held(timeBased) /\ EraseTrackingSession(s) /\ calls' = calls \o StopMultiplex(s)
  <2>1. timeBased' = [timeBased EXCEPT ![s] = None]
    BY <1>2 DEF EraseTrackingSession
  <2>2. Fast(calls \o StopMultiplex(s), modem, timeBased')
    BY <1>2, <2>1, StopKeepsFast DEF TablesOK, CallsOK, ModemOK
  <2>. QED  BY <1>2, <2>2
<1>3. CASE UNCHANGED sessionVars /\ calls' = Append(calls, StopDistance(s, None, "erase"))
  <2>1. StopDistance(s, None, "erase") \in LocApiCall
    BY CallTypes
  <2>2. Fast(calls', modem, timeBased)
    BY <1>3, <2>1, DistanceCall, DistanceCallsSetNothing
  <2>. QED  BY <1>3, <2>2 DEF sessionVars
<1>. QED  BY <1>1, <1>2, <1>3 DEF DoStop

\* The modem carries out a call and its handler runs.  A modem that is up
\* fails only to start what it does not support.
LEMMA AnswerFast ==
    ASSUME Typed, Supported, Fast(calls, modem, timeBased), NEW ok \in BOOLEAN, LocApiAnswers(ok),
           engine = "up", used["failures"] = 0, used'["failures"] = 0
    PROVE  Fast(calls', modem', timeBased')
<1>. DEFINE k == Head(calls)
            rest == Tail(calls)
<1>. USE DEF Typed
<1>1. /\ calls # <<>> /\ k \in LocApiCall /\ rest \in Seq(LocApiCall)
      /\ ModemDoes(k, ok) /\ ModemOK'
  BY HeadCall, ModemTypes DEF LocApiAnswers
<1>2. ok \/ k.op = "startDistance"
  <2>1. \A b \in DOMAIN Limit : Use(b) => used'[b] > 0
    BY UseTypes
  <2>2. "failures" \in DOMAIN Limit
    BY DEF Limit
  <2>. QED  BY <1>1, <2>1, <2>2 DEF ModemDoes
<1>3. modem' = IF Sets(k) THEN k.o ELSE modem
  <2>1. k.op = "startDistance" => ~ Sets(k)
    BY DEF Sets
  <2>. QED  BY <1>1, <1>2, <2>1 DEF ModemDoes, Sets
<1>4. Fast(rest, modem', timeBased)
  <2>. HIDE DEF rest
  <2>1. FastQueue(calls, modem, timeBased) => FastQueue(rest, modem', timeBased)
    BY <1>1, <1>3, PopCall, Zenon DEF CallsOK, rest
  <2>. QED  BY <2>1 DEF Fast
<1>5. modem' \in Option \union {None} /\ Table(timeBased)
  BY <1>1 DEF ModemOK, TablesOK
<1>. HIDE DEF k, rest
<1>6. k.then # "nothing" => k.s \in Session
  BY <1>1, CallFields
<1>7. CASE calls' = rest /\ UNCHANGED sessionVars
  BY <1>4, <1>7 DEF sessionVars
<1>8. CASE calls' = rest /\ k.s \in Session /\ EraseTrackingSession(k.s)
  BY <1>1, <1>4, <1>5, <1>8, EraseFast
<1>9. CASE k.then = "switch" /\ OnSwitch(k)
  <2>1. k.s \in Session /\ k.o \in Options
    BY <1>1, <1>9, CallFields
  <2>2. timeBased' = timeBased \/ timeBased' = [timeBased EXCEPT ![k.s] = k.o]
    BY <1>9, <2>1, SaveTimeBased DEF OnSwitch
  <2>3. Fast(rest \o StartMultiplex(k.s, k.o), modem', timeBased')
    BY <1>1, <1>4, <1>5, <2>1, <2>2, StartKeepsFast
  <2>. QED  BY <1>9, <2>3 DEF OnSwitch, k, rest
<1>10. CASE k.then = "restart" /\ OnRestart(k, ok)
  <2>1. k.s \in Session /\ k.o \in Options /\ k.o.distance
    BY <1>1, <1>10, CallFields
  <2>2. StartDistance(k.s, k.o, "save") \in LocApiCall /\ ~ Sets(StartDistance(k.s, k.o, "save"))
    BY <2>1, CallTypes, DistanceCallsSetNothing
  <2>3. FastQueue(rest, modem', timeBased) =>
          FastQueue(rest \o <<StartDistance(k.s, k.o, "save")>>, modem', timeBased)
    BY <1>1, <2>2, AppendOther, Zenon
  <2>4. Append(rest, StartDistance(k.s, k.o, "save")) = rest \o <<StartDistance(k.s, k.o, "save")>>
    BY <1>1
  <2>5. Fast(calls', modem', timeBased)
    BY <1>4, <1>10, <2>3, <2>4 DEF OnRestart, Fast, k, rest
  <2>. QED  BY <1>10, <2>5 DEF OnRestart, sessionVars
<1>11. CASE k.then = "save" /\ OnSave(k, ok)
  <2>1. k.s \in Session /\ k.o \in Options /\ IsDistance(k.o)
    BY <1>1, <1>11, CallFields DEF Supported, IsDistance
  <2>2. timeBased' = timeBased
    BY <1>11, <2>1, SaveTimeBased DEF OnSave, sessionVars
  <2>. QED  BY <1>4, <1>11, <2>2 DEF OnSave, k, rest
<1>12. CASE k.then = "erase" /\ OnStart(k, ok)
  BY <1>6, <1>7, <1>8, <1>12 DEF OnStart, k, rest
<1>13. CASE k.then = "restore" /\ OnUpdate(k, ok)
  <2>1. k.op = "start"
    BY <1>1, <1>13 DEF LocApiCall
  <2>. QED  BY <1>2, <1>7, <1>13, <2>1 DEF OnUpdate, k, rest
<1>14. CASE k.then \in {"erase", "forget"} /\ OnStopDistance(k, ok)
  BY <1>6, <1>7, <1>8, <1>14 DEF OnStopDistance, k, rest
<1>15. CASE OnOther(k)
  BY <1>7, <1>15 DEF OnOther, k, rest
<1>. QED  BY <1>9, <1>10, <1>11, <1>12, <1>13, <1>14, <1>15 DEF LocApiAnswers, k

\* Nothing of a step of another actor can slow the modem down.
LEMMA FastStep ==
    ASSUME Typed, Supported, FastInv, [Next]_vars
    PROVE  FastInv'
<1>. USE DEF Typed
<1>1. {"updates", "failures", "removals", "restarts"} = DOMAIN Limit
  BY DEF Limit
<1>2. SUFFICES ASSUME Obeyed', engine' = "up"
               PROVE  Fast(calls', modem', timeBased')
  BY DEF FastInv
<1>3. CASE UNCHANGED <<calls, modem, timeBased, engine, used>>
  BY <1>2, <1>3, SameFast DEF FastInv, Obeyed
<1>4. UNCHANGED <<modemVars, used>> => Fast(calls, modem, timeBased)
  BY <1>2 DEF FastInv, Obeyed, modemVars
<1>5. ASSUME NEW s \in Session, NEW o \in Options, StartTrackingCommand(s, o)
      PROVE  Fast(calls', modem', timeBased')
  <2>1. CASE Defer("start", s, o)
    BY <1>3, <1>5, <2>1 DEF Defer, StartTrackingCommand, sessionVars, modemVars
  <2>2. CASE DoStart(s, o, Asked(s))
    BY <1>4, <1>5, <2>2, DoStartFast DEF StartTrackingCommand, modemVars
  <2>. QED  BY <1>5, <2>1, <2>2 DEF StartTrackingCommand
<1>6. ASSUME NEW s \in Session, NEW o \in Options, UpdateTrackingOptionsCommand(s, o)
      PROVE  Fast(calls', modem', timeBased')
  <2>1. \A b \in DOMAIN Limit \ {"updates"} : used'[b] = used[b]
    BY <1>1, <1>6, UseTypes DEF UpdateTrackingOptionsCommand
  <2>2. UNCHANGED modemVars /\ Fast(calls, modem, timeBased)
    BY <1>1, <1>2, <1>6, <2>1 DEF UpdateTrackingOptionsCommand, FastInv, Obeyed, modemVars
  <2>3. CASE Defer("update", s, o)
    BY <2>2, <2>3, SameFast DEF Defer, sessionVars, modemVars
  <2>4. CASE DoUpdate(s, o, Asked(s))
    BY <2>2, <2>4, DoUpdateFast DEF modemVars
  <2>. QED  BY <1>6, <2>3, <2>4 DEF UpdateTrackingOptionsCommand
<1>7. ASSUME NEW s \in Session, StopTrackingCommand(s)
      PROVE  Fast(calls', modem', timeBased')
  BY <1>4, <1>7, DoStopFast DEF StopTrackingCommand, modemVars
<1>8. CASE HandleResent
  <2>1. Head(resent) \in DeferredRequest
    BY <1>8 DEF HandleResent, DeferOK
  <2>2. Head(resent).s \in Session /\ Head(resent).o \in Options
    BY <2>1 DEF DeferredRequest
  <2>. QED  BY <1>4, <1>8, <2>2, DoStartFast, DoUpdateFast DEF HandleResent, modemVars
<1>9. ASSUME NEW c \in Client, RemoveClient(c)
      PROVE  FALSE
  <2>1. used'["removals"] > 0
    BY <1>1, <1>9, UseTypes DEF RemoveClient
  <2>. QED  BY <1>2, <2>1 DEF Obeyed
<1>10. ASSUME NEW ok \in BOOLEAN, LocApiAnswers(ok)
       PROVE  Fast(calls', modem', timeBased')
  <2>1. calls # <<>> /\ Head(calls) \in LocApiCall /\ ModemDoes(Head(calls), ok)
    BY <1>10, HeadCall DEF LocApiAnswers
  <2>2. engine = "up" /\ UNCHANGED used
    <3>1. Use("failures") => used'["failures"] > 0
      BY <1>1, UseTypes
    <3>. QED  BY <1>2, <2>1, <3>1 DEF ModemDoes, Obeyed
  <2>3. Fast(calls, modem, timeBased) /\ used["failures"] = 0 /\ used'["failures"] = 0
    BY <1>2, <2>2 DEF FastInv, Obeyed
  <2>. QED  BY <1>10, <2>2, <2>3, AnswerFast
<1>11. CASE HandleEngineUp
  <2>. DEFINE q == calls \o RestartTimeBased
  <2>1. /\ UNCHANGED <<modem, timeBased>>
        /\ calls' = q \o RestartDistanceBased
    <3>1. calls' = calls \o (RestartTimeBased \o RestartDistanceBased)
      BY <1>11 DEF HandleEngineUp, RestartSessions
    <3>2. /\ calls \in Seq(LocApiCall) /\ RestartTimeBased \in Seq(LocApiCall)
          /\ RestartDistanceBased \in Seq(LocApiCall)
      BY RestartCalls DEF CallsOK
    <3>. QED  BY <1>11, <3>1, <3>2, CallsAssociate DEF HandleEngineUp, sessionVars
  <2>2. q \in Seq(LocApiCall)
    BY RestartCalls, CallsConcat DEF CallsOK
  <2>3. CASE Held(timeBased) = {}
    BY <2>1, <2>3 DEF Fast, Held
  <2>4. CASE Held(timeBased) # {}
    <3>1. PICK x \in Option : /\ RestartTimeBased = <<Call("start", 0, x, "nothing", None)>>
                              /\ FastFor(x, timeBased, Held(timeBased))
      BY <2>4, RestartCalls
    <3>2. FastQueue(q, modem, timeBased)
      <4>1. FastEnough(x, timeBased)
        BY <3>1 DEF FastEnough
      <4>2. /\ Call("start", 0, x, "nothing", None) \in LocApiCall
            /\ Sets(Call("start", 0, x, "nothing", None))
            /\ Call("start", 0, x, "nothing", None).o = x
        BY DEF Call, LocApiCall, Sets
      <4>. QED  BY <3>1, <4>1, <4>2, AppendSetting DEF CallsOK
    <3>3. \A i \in DOMAIN RestartDistanceBased : ~ Sets(RestartDistanceBased[i])
      <4>. DEFINE made == {StartDistance(s, o, "nothing") : s \in Session, o \in Options}
      <4>1. \A k \in made : ~ Sets(k)
        BY DistanceCallsSetNothing
      <4>2. RestartDistanceBased \in Seq(made)
        BY RestartCalls
      <4>. HIDE DEF made
      <4>. QED  BY <4>1, <4>2
    <3>4. RestartDistanceBased \in Seq(LocApiCall)
      BY RestartCalls
    <3>. HIDE DEF q
    <3>5. FastQueue(q \o RestartDistanceBased, modem, timeBased)
      BY <2>2, <3>2, <3>3, <3>4, AppendOthers, Zenon
    <3>. QED  BY <2>1, <3>5 DEF Fast
  <2>. QED  BY <2>3, <2>4
<1>12. CASE ModemRestart
  BY <1>2, <1>12 DEF ModemRestart
<1>13. CASE ModemOpens
  BY <1>2, <1>13 DEF ModemOpens
<1>14. CASE UNCHANGED vars
  BY <1>3, <1>14 DEF vars, sessionVars, modemVars
<1>. QED  BY <1>5, <1>6, <1>7, <1>8, <1>9, <1>10, <1>11, <1>12, <1>13, <1>14 DEF Next

LEMMA InitTyped == Init => Typed
<1>. SUFFICES ASSUME Init  PROVE Typed
  OBVIOUS
<1>1. TablesOK
  BY DEF Init, TablesOK, Table
<1>2. CallsOK /\ DeferOK
  BY DEF Init, CallsOK, DeferOK
<1>3. ModemOK /\ ClientOK
  BY DEF Init, ModemOK, ClientOK
<1>4. UsedOK
  BY DEF Init, UsedOK, Limit
<1>. QED  BY <1>1, <1>2, <1>3, <1>4 DEF Typed

\* At the start no session is held, so the modem need not be fast.
LEMMA InitFast == Init => FastInv
  BY DEF Init, FastInv, Fast, Held

\* startTimeBasedTrackingMultiplex, updateTrackingMultiplex,
\* stopTimeBasedTrackingMultiplex and restartSessions, whatever the order in
\* which requests, answers and a restart of the modem come: when all calls have
\* been answered, the modem's session is at least as fast as each session of
\* mTimeBasedTrackingSessions asked for.
THEOREM TracksFastEnough ==
    ASSUME Supported
    PROVE  Spec => [](Obeyed => ModemFastEnough)
<1>1. Init => Typed /\ FastInv
  BY InitTyped, InitFast
<1>2. Typed /\ FastInv /\ [Next]_vars => (Typed /\ FastInv)'
  BY TypedStep, FastStep
<1>3. Typed /\ FastInv => (Obeyed => ModemFastEnough)
  BY DEF FastInv, ModemFastEnough, Quiet, Fast, FastQueue, FastEnough, FastFor
<1>. QED  BY <1>1, <1>2, <1>3, PTL DEF Spec

-----------------------------------------------------------------------------
(* Responses.  Each request without a response is on its way: it was put    *)
(* off, posted again, or waits for the answer of a call that reports it.    *)

Reporting(s) == {k \in LocApiCall : k.s = s /\ k.then \notin {"nothing", "forget"}}

Of(s) == {m \in DeferredRequest : m.s = s}

Waiting(s) ==
    Count(calls, Reporting(s)) + Count(mPendingMsgs, Of(s)) + Count(resent, Of(s))

\* Two handlers give no response: a start whose client listens to nothing is
\* dropped, and so is an update of a distance-based session whose stop failed.
AllListen == Listening = Client

TimeOnly == \A o \in Options : ~ o.distance

Lossless ==
    AllListen /\ (TimeOnly \/ (used["failures"] = 0 /\ used["restarts"] = 0))

OwedInv ==
    /\ owed \in [Session -> Nat]
    /\ \A s \in Session : ClientOf[s] \in clients =>
          Waiting(s) <= owed[s] /\ (Lossless => Waiting(s) = owed[s])

HasRestart(q) == \E i \in DOMAIN q : q[i].then = "restart"

\* Requests are put off until the engine has been up once.
CapsInv ==
    /\ engine = "up" => capsKnown
    /\ capsKnown => mPendingMsgs = <<>>
    /\ resent # <<>> => capsKnown
    /\ capsKnown /\ used["restarts"] = 0 => engine = "up"
    /\ HasRestart(calls) => capsKnown

LEMMA ReportingCalls ==
    ASSUME TablesOK, NEW s \in Session, NEW t \in Session
    PROVE  /\ \A x \in Option : StartTimeBased(s, x) \in Reporting(t) <=> t = s
           /\ s \in Held(timeBased) =>
                 \A x \in Option : UpdateTracking(s, x) \in Reporting(t) <=> t = s
           /\ StopTracking(s) \in Reporting(t) <=> t = s
           /\ \A o : StartDistance(s, o, "nothing") \notin Reporting(t)
           /\ \A o : StopDistance(s, o, "forget") \notin Reporting(t)
           /\ \A o \in Options : StartDistance(s, o, "erase") \in Reporting(t) <=> t = s
           /\ \A o \in Options : o.distance =>
                 /\ StartDistance(s, o, "save") \in Reporting(t) <=> t = s
                 /\ StopDistance(s, o, "restart") \in Reporting(t) <=> t = s
           /\ StopDistance(s, None, "erase") \in Reporting(t) <=> t = s
           /\ \A o \in Options : ~ o.distance =>
                 (StopDistance(s, o, "switch") \in Reporting(t) <=> t = s)
<1>1. \A k \in LocApiCall : k \in Reporting(t) <=> k.s = t /\ k.then \notin {"nothing", "forget"}
  BY DEF Reporting
<1>2. \A op, o, then, old : /\ Call(op, s, o, then, old).s = s
                           /\ Call(op, s, o, then, old).then = then
  BY DEF Call
<1>3. \A op, o, then, old : then \in {"nothing", "forget"} =>
        Call(op, s, o, then, old) \notin Reporting(t)
  BY <1>2 DEF Reporting
<1>. USE DEF StartTimeBased, UpdateTracking, StopTracking, StartDistance, StopDistance
<1>4. \A x \in Option : StartTimeBased(s, x) \in Reporting(t) <=> t = s
  BY <1>1, <1>2, CallTypes
<1>5. s \in Held(timeBased) =>
        \A x \in Option : UpdateTracking(s, x) \in Reporting(t) <=> t = s
  BY <1>1, <1>2, CallTypes
<1>6. StopTracking(s) \in Reporting(t) <=> t = s
  <2>1. StopTracking(s) \in LocApiCall
    BY CallTypes
  <2>. QED  BY <1>1, <1>2, <2>1
<1>7. \A o \in Options : StartDistance(s, o, "erase") \in Reporting(t) <=> t = s
  BY <1>1, <1>2, CallTypes
<1>8. \A o \in Options : o.distance =>
        /\ StartDistance(s, o, "save") \in Reporting(t) <=> t = s
        /\ StopDistance(s, o, "restart") \in Reporting(t) <=> t = s
  BY <1>1, <1>2, CallTypes
<1>9. StopDistance(s, None, "erase") \in Reporting(t) <=> t = s
  <2>1. StopDistance(s, None, "erase") \in LocApiCall
    BY CallTypes
  <2>. QED  BY <1>1, <1>2, <2>1
<1>10. \A o \in Options : ~ o.distance =>
         (StopDistance(s, o, "switch") \in Reporting(t) <=> t = s)
  BY <1>1, <1>2, CallTypes
<1>. QED  BY <1>3, <1>4, <1>5, <1>6, <1>7, <1>8, <1>9, <1>10

\* A multiplexing function makes a call that reports, or the request is
\* reported at once.
Once(q, s) == \A t \in Session : Count(q, Reporting(t)) = IF t = s /\ q # <<>> THEN 1 ELSE 0

LEMMA MultiplexReports ==
    ASSUME TablesOK, NEW s \in Session, NEW o \in Options
    PROVE  /\ Once(StartMultiplex(s, o), s)
           /\ s \in Held(timeBased) => Once(UpdateMultiplex(s, o), s) /\ Once(StopMultiplex(s), s)
<1>1. Once(<<>>, s)
  BY CountEmpty DEF Once
<1>2. ASSUME NEW k, \A t \in Session : k \in Reporting(t) <=> t = s
      PROVE  Once(<<k>>, s)
  BY <1>2, CountOne DEF Once
<1>3. Once(StartMultiplex(s, o), s)
  BY <1>1, <1>2, ReportingCalls, StartMultiplexCalls DEF TablesOK
<1>4. ASSUME s \in Held(timeBased)  PROVE Once(UpdateMultiplex(s, o), s)
  <2>1. \A x \in Option : Once(<<UpdateTracking(s, x)>>, s)
    BY <1>2, <1>4, ReportingCalls
  <2>. QED  BY <1>1, <1>4, <2>1, UpdateMultiplexCalls DEF TablesOK
<1>5. ASSUME s \in Held(timeBased)  PROVE Once(StopMultiplex(s), s)
  <2>1. Once(<<StopTracking(s)>>, s)
    BY <1>2, ReportingCalls
  <2>2. \A x \in Option : Once(<<StartTimeBased(s, x)>>, s)
    BY <1>2, ReportingCalls
  <2>. QED  BY <1>1, <1>5, <2>1, <2>2, StopMultiplexCalls DEF TablesOK
<1>. QED  BY <1>3, <1>4, <1>5

\* What a handler of a request on s does to what is owed: the request was
\* answered, or a call that reports it was made, or it was dropped.
Handled(s, due) ==
    /\ owed' \in [Session -> Int]
    /\ \A t \in Session :
          LET before == due[t] - Count(calls, Reporting(t)) - IF t = s THEN 1 ELSE 0
              after == owed'[t] - Count(calls', Reporting(t))
          IN  IF ClientOf[t] \in clients
              THEN after >= before /\ (AllListen => after = before)
              ELSE owed'[t] = due[t]

LEMMA ReportTypes ==
    ASSUME NEW due \in [Session -> Int], NEW s \in Session, NEW now \in BOOLEAN
    PROVE  /\ Report(due, s, now) \in [Session -> Int]
           /\ \A t \in Session : Report(due, s, now)[t] =
                 IF t = s /\ now /\ ClientOf[s] \in clients THEN due[t] - 1 ELSE due[t]
<1>1. due[s] \in Int /\ due[s] - 1 \in Int
  OBVIOUS
<1>. QED  BY <1>1 DEF Report

LEMMA OneMore ==
    ASSUME NEW s \in Session, NEW due \in [Session -> Int], owed' = due,
           \A t \in Session : /\ Count(calls, Reporting(t)) \in Nat
                             /\ Count(calls', Reporting(t)) =
                                  Count(calls, Reporting(t)) + IF t = s THEN 1 ELSE 0
    PROVE  Handled(s, due)
<1>1. ASSUME NEW t \in Session
      PROVE  LET before == due[t] - Count(calls, Reporting(t)) - IF t = s THEN 1 ELSE 0
                 after == owed'[t] - Count(calls', Reporting(t))
             IN  after = before /\ after >= before /\ owed'[t] = due[t]
  <2>1. CASE t = s
    BY <2>1
  <2>2. CASE t # s
    BY <2>2
  <2>. QED  BY <2>1, <2>2
<1>. QED  BY <1>1 DEF Handled

LEMMA OneLess ==
    ASSUME NEW s \in Session, NEW due \in [Session -> Int], owed' = Report(due, s, TRUE),
           \A t \in Session : /\ Count(calls, Reporting(t)) \in Nat
                             /\ Count(calls', Reporting(t)) = Count(calls, Reporting(t))
    PROVE  Handled(s, due)
<1>1. /\ owed' \in [Session -> Int]
      /\ \A t \in Session :
            owed'[t] = IF t = s /\ ClientOf[s] \in clients THEN due[t] - 1 ELSE due[t]
  BY ReportTypes
<1>2. ASSUME NEW t \in Session, ClientOf[t] \in clients
      PROVE  LET before == due[t] - Count(calls, Reporting(t)) - IF t = s THEN 1 ELSE 0
                 after == owed'[t] - Count(calls', Reporting(t))
             IN  after = before /\ after >= before
  <2>. DEFINE x == due[t]
              n == Count(calls, Reporting(t))
              y == owed'[t]
              m == Count(calls', Reporting(t))
  <2>1. x \in Int /\ n \in Nat /\ m = n
    OBVIOUS
  <2>2. CASE t = s
    <3>1. y = x - 1
      BY <1>1, <1>2, <2>2
    <3>. HIDE DEF x, n, y, m
    <3>2. y - m = x - n - 1
      BY <2>1, <3>1
    <3>3. y - m >= x - n - 1
      BY <2>1, <3>1
    <3>. QED  BY <2>2, <3>2, <3>3 DEF x, n, y, m
  <2>3. CASE t # s
    <3>1. y = x
      BY <1>1, <2>3
    <3>. HIDE DEF x, n, y, m
    <3>2. y - m = x - n - 0
      BY <2>1, <3>1
    <3>3. y - m >= x - n - 0
      BY <2>1, <3>1
    <3>. QED  BY <2>3, <3>2, <3>3 DEF x, n, y, m
  <2>. QED  BY <2>2, <2>3
<1>3. \A t \in Session : ClientOf[t] \notin clients => owed'[t] = due[t]
  BY <1>1
<1>. QED  BY <1>1, <1>2, <1>3 DEF Handled

\* The two ways a handler deals with a request: it makes calls one of which
\* reports for s, or it reports at once.
LEMMA PassedOn ==
    ASSUME CallsOK, NEW s \in Session, NEW due \in [Session -> Int],
           NEW q \in Seq(LocApiCall), calls' = calls \o q,
           \A t \in Session : Count(q, Reporting(t)) = IF t = s THEN 1 ELSE 0,
           owed' = due
    PROVE  Handled(s, due)
<1>1. \A t \in Session : /\ Count(calls, Reporting(t)) \in Nat
                         /\ Count(calls', Reporting(t)) =
                              Count(calls, Reporting(t)) + IF t = s THEN 1 ELSE 0
  BY PlacesFinite, CountConcat DEF CallsOK
<1>. QED  BY <1>1, OneMore, Zenon

LEMMA Answered ==
    ASSUME CallsOK, NEW s \in Session, NEW due \in [Session -> Int],
           NEW q \in Seq(LocApiCall), calls' = calls \o q,
           \A t \in Session : Count(q, Reporting(t)) = 0,
           owed' = Report(due, s, TRUE)
    PROVE  Handled(s, due)
<1>1. \A t \in Session : /\ Count(calls, Reporting(t)) \in Nat
                         /\ Count(calls', Reporting(t)) = Count(calls, Reporting(t))
  BY PlacesFinite, CountConcat DEF CallsOK
<1>. QED  BY <1>1, OneLess, Zenon

\* A request dropped: only where no one listens
LEMMA Dropped ==
    ASSUME CallsOK, NEW s \in Session, NEW due \in [Session -> Int],
           ~ Listens(s), UNCHANGED calls, owed' = due
    PROVE  Handled(s, due)
<1>1. \A t \in Session : Count(calls, Reporting(t)) \in Nat /\ calls' = calls
  BY PlacesFinite DEF CallsOK
<1>2. ASSUME NEW t \in Session, ClientOf[t] \in clients
      PROVE  LET before == due[t] - Count(calls, Reporting(t)) - IF t = s THEN 1 ELSE 0
                 after == owed'[t] - Count(calls', Reporting(t))
             IN  after >= before /\ (AllListen => after = before)
  <2>. DEFINE x == due[t]
              n == Count(calls, Reporting(t))
  <2>1. x \in Int /\ n \in Nat /\ owed'[t] = x /\ Count(calls', Reporting(t)) = n
    BY <1>1
  <2>2. CASE t = s
    <3>1. ~ AllListen
      BY <1>2, <2>2 DEF AllListen, Listens
    <3>. HIDE DEF x, n
    <3>2. x - n >= x - n - 1
      BY <2>1
    <3>. QED  BY <2>1, <2>2, <3>1, <3>2 DEF x, n
  <2>3. CASE t # s
    <3>. HIDE DEF x, n
    <3>1. x - n >= x - n - 0 /\ x - n = x - n - 0
      BY <2>1
    <3>. QED  BY <2>1, <2>3, <3>1 DEF x, n
  <2>. QED  BY <2>2, <2>3
<1>. QED  BY <1>2 DEF Handled

LEMMA AppendIsConcat ==
    ASSUME CallsOK, NEW k \in LocApiCall
    PROVE  Append(calls, k) = calls \o <<k>>
  BY DEF CallsOK

\* One call that reports for s is appended.
LEMMA OneReportingCall ==
    ASSUME CallsOK, NEW s \in Session, NEW due \in [Session -> Int], NEW k \in LocApiCall,
           \A t \in Session : k \in Reporting(t) <=> t = s,
           calls' = Append(calls, k), owed' = due
    PROVE  Handled(s, due)
<1>1. \A t \in Session : Count(<<k>>, Reporting(t)) = IF t = s THEN 1 ELSE 0
  BY CountOne
<1>2. calls' = calls \o <<k>>
  BY AppendIsConcat
<1>. QED  BY <1>1, <1>2, OneCall, PassedOn, Zenon

\* What a multiplexing function asks for reports for s, or the handler does.
LEMMA Multiplexed ==
    ASSUME CallsOK, NEW s \in Session, NEW due \in [Session -> Int],
           NEW q \in Seq(LocApiCall), NEW r \in Seq(LocApiCall), Once(q, s),
           \A t \in Session : Count(r, Reporting(t)) = 0,
           calls' = calls \o (q \o r), owed' = Report(due, s, q = <<>>)
    PROVE  Handled(s, due)
<1>1. q \o r \in Seq(LocApiCall)
  BY CallsConcat
<1>2. \A t \in Session : Count(q \o r, Reporting(t)) = Count(q, Reporting(t))
  <2>1. \A t \in Session : Count(q, Reporting(t)) \in Nat
    BY PlacesFinite
  <2>2. \A t \in Session :
          Count(q \o r, Reporting(t)) = Count(q, Reporting(t)) + Count(r, Reporting(t))
    BY CountConcat
  <2>. QED  BY <2>1, <2>2
<1>3. CASE q = <<>>
  <2>1. \A t \in Session : Count(q \o r, Reporting(t)) = 0
    BY <1>2, <1>3 DEF Once
  <2>2. owed' = Report(due, s, TRUE)
    BY <1>3 DEF Report
  <2>. QED  BY <1>1, <2>1, <2>2, Answered, Zenon
<1>4. CASE q # <<>>
  <2>1. \A t \in Session : Count(q \o r, Reporting(t)) = IF t = s THEN 1 ELSE 0
    BY <1>2, <1>4 DEF Once
  <2>2. owed' = due
    BY <1>4 DEF Report
  <2>. QED  BY <1>1, <2>1, <2>2, PassedOn, Zenon
<1>. QED  BY <1>3, <1>4

LEMMA MultiplexedAlone ==
    ASSUME CallsOK, NEW s \in Session, NEW due \in [Session -> Int],
           NEW q \in Seq(LocApiCall), Once(q, s),
           calls' = calls \o q, owed' = Report(due, s, q = <<>>)
    PROVE  Handled(s, due)
<1>1. q \o <<>> = q /\ <<>> \in Seq(LocApiCall)
  OBVIOUS
<1>2. \A t \in Session : Count(<<>>, Reporting(t)) = 0
  BY CountEmpty
<1>. QED  BY <1>1, <1>2, Multiplexed

LEMMA AnsweredAtOnce ==
    ASSUME CallsOK, NEW s \in Session, NEW due \in [Session -> Int],
           UNCHANGED calls, owed' = Report(due, s, TRUE)
    PROVE  Handled(s, due)
<1>1. \A t \in Session : /\ Count(calls, Reporting(t)) \in Nat
                         /\ Count(calls', Reporting(t)) = Count(calls, Reporting(t))
  BY PlacesFinite DEF CallsOK
<1>. QED  BY <1>1, OneLess, Zenon

LEMMA DoStartHandled ==
    ASSUME TablesOK, CallsOK, NEW s \in Session, NEW o \in Options,
           NEW due \in [Session -> Int], DoStart(s, o, due)
    PROVE  Handled(s, due)
<1>1. CASE ~ Listens(s) /\ owed' = due /\ UNCHANGED calls
  BY <1>1, Dropped
<1>2. CASE calls' = Append(calls, StartDistance(s, o, "erase")) /\ owed' = due
  <2>1. StartDistance(s, o, "erase") \in LocApiCall
    BY CallTypes
  <2>2. \A t \in Session : StartDistance(s, o, "erase") \in Reporting(t) <=> t = s
    BY ReportingCalls
  <2>. QED  BY <1>2, <2>1, <2>2, OneReportingCall
<1>3. CASE /\ calls' = calls \o StartMultiplex(s, o)
           /\ owed' = Report(due, s, StartMultiplex(s, o) = <<>>)
  BY <1>3, MultiplexedAlone, MultiplexTypes, MultiplexReports
<1>. QED  BY <1>1, <1>2, <1>3 DEF DoStart

LEMMA DoUpdateHandled ==
    ASSUME TablesOK, CallsOK, NEW s \in Session, NEW o \in Options,
           NEW due \in [Session -> Int], DoUpdate(s, o, due)
    PROVE  Handled(s, due)
<1>1. CASE owed' = Report(due, s, TRUE) /\ UNCHANGED calls
  BY <1>1, AnsweredAtOnce
<1>2. CASE s \in Held(timeBased) /\ SwitchToDistance(s, o, due)
  <2>. DEFINE r == <<StartDistance(s, o, "nothing")>>
  <2>1. /\ r \in Seq(LocApiCall) /\ StopMultiplex(s) \in Seq(LocApiCall)
        /\ Once(StopMultiplex(s), s)
    BY <1>2, CallTypes, OneCall, MultiplexTypes, MultiplexReports
  <2>2. \A t \in Session : Count(r, Reporting(t)) = 0
    BY CountOne, ReportingCalls
  <2>3. calls' = (calls \o StopMultiplex(s)) \o r
    BY <1>2 DEF SwitchToDistance
  <2>4. calls' = calls \o (StopMultiplex(s) \o r)
    <3>. HIDE DEF r
    <3>. QED  BY <2>1, <2>3, CallsAssociate DEF CallsOK
  <2>5. owed' = Report(due, s, StopMultiplex(s) = <<>>)
    BY <1>2 DEF SwitchToDistance
  <2>. HIDE DEF r
  <2>. QED  BY <2>1, <2>2, <2>4, <2>5, Multiplexed
<1>3. CASE ~ o.distance /\ calls' = Append(calls, StopDistance(s, o, "switch")) /\ owed' = due
  BY <1>3, OneReportingCall, CallTypes, ReportingCalls
<1>4. CASE /\ s \in Held(timeBased) /\ calls' = calls \o UpdateMultiplex(s, o)
           /\ owed' = Report(due, s, UpdateMultiplex(s, o) = <<>>)
  BY <1>4, MultiplexedAlone, MultiplexTypes, MultiplexReports
<1>5. CASE o.distance /\ calls' = Append(calls, StopDistance(s, o, "restart")) /\ owed' = due
  <2>1. StopDistance(s, o, "restart") \in LocApiCall
    BY <1>5, CallTypes
  <2>2. \A t \in Session : StopDistance(s, o, "restart") \in Reporting(t) <=> t = s
    BY <1>5, ReportingCalls
  <2>. QED  BY <1>5, <2>1, <2>2, OneReportingCall
<1>. QED  BY <1>1, <1>2, <1>3, <1>4, <1>5 DEF DoUpdate

LEMMA DoStopHandled ==
    ASSUME TablesOK, CallsOK, NEW s \in Session, NEW due \in [Session -> Int], DoStop(s, due)
    PROVE  Handled(s, due)
<1>1. CASE owed' = Report(due, s, TRUE) /\ UNCHANGED calls
  BY <1>1, AnsweredAtOnce
<1>2. CASE /\ s \in Held(timeBased) /\ calls' = calls \o StopMultiplex(s)
           /\ owed' = Report(due, s, StopMultiplex(s) = <<>>)
  <2>1. timeBased[s] \in Options
    BY <1>2, HeldOptions DEF TablesOK
  <2>2. StopMultiplex(s) \in Seq(LocApiCall) /\ Once(StopMultiplex(s), s)
    BY <1>2, <2>1, MultiplexTypes, MultiplexReports
  <2>. QED  BY <1>2, <2>2, MultiplexedAlone
<1>3. CASE calls' = Append(calls, StopDistance(s, None, "erase")) /\ owed' = due
  <2>1. StopDistance(s, None, "erase") \in LocApiCall
    BY CallTypes
  <2>. QED  BY <1>3, <2>1, OneReportingCall, ReportingCalls
<1>. QED  BY <1>1, <1>2, <1>3 DEF DoStop

\* The answer to the oldest call reports, or its handler makes a call that
\* will, or a restart is given up.
Settled(k, ok) ==
    /\ owed' \in [Session -> Int]
    /\ \A t \in Session :
          IF ClientOf[t] \in clients
          THEN /\ owed'[t] - Count(calls', Reporting(t)) >= owed[t] - Count(calls, Reporting(t))
               /\ ok \/ k.then # "restart" =>
                    owed'[t] - Count(calls', Reporting(t)) = owed[t] - Count(calls, Reporting(t))
          ELSE owed'[t] = owed[t]

LEMMA Balanced ==
    ASSUME owed \in [Session -> Nat], NEW k, NEW ok, owed' \in [Session -> Int],
           \A t \in Session :
              /\ Count(calls, Reporting(t)) \in Nat /\ Count(calls', Reporting(t)) \in Nat
              /\ ClientOf[t] \in clients =>
                    owed'[t] - Count(calls', Reporting(t)) = owed[t] - Count(calls, Reporting(t))
              /\ ClientOf[t] \notin clients => owed'[t] = owed[t]
    PROVE  Settled(k, ok)
<1>1. ASSUME NEW t \in Session, ClientOf[t] \in clients
      PROVE  /\ owed'[t] - Count(calls', Reporting(t)) >= owed[t] - Count(calls, Reporting(t))
             /\ owed'[t] - Count(calls', Reporting(t)) = owed[t] - Count(calls, Reporting(t))
  <2>. DEFINE x == owed[t]
              n == Count(calls, Reporting(t))
              y == owed'[t]
              m == Count(calls', Reporting(t))
  <2>1. x \in Int /\ y \in Int
    <3>1. x \in Int
      OBVIOUS
    <3>2. y \in Int
      OBVIOUS
    <3>. QED  BY <3>1, <3>2
  <2>3. n \in Nat /\ m \in Nat /\ y - m = x - n
    BY <1>1, Zenon
  <2>. HIDE DEF x, y, n, m
  <2>2. y - m >= x - n
    BY <2>1, <2>3
  <2>. QED  BY <2>3, <2>2 DEF x, y, n, m
<1>. QED  BY <1>1 DEF Settled

LEMMA BalancedAll ==
    ASSUME owed \in [Session -> Nat], NEW k, NEW ok, UNCHANGED owed,
           \A t \in Session : /\ Count(calls, Reporting(t)) \in Nat
                             /\ Count(calls', Reporting(t)) = Count(calls, Reporting(t))
    PROVE  Settled(k, ok)
<1>1. owed' \in [Session -> Int]
  OBVIOUS
<1>. QED  BY <1>1, Balanced

\* The answer reports for s, whose call leaves the queue.
LEMMA BalancedOne ==
    ASSUME owed \in [Session -> Nat], NEW k, NEW ok, NEW s \in Session,
           owed' = Report(owed, s, TRUE),
           \A t \in Session : /\ Count(calls', Reporting(t)) \in Nat
                             /\ Count(calls, Reporting(t)) =
                                  Count(calls', Reporting(t)) + IF t = s THEN 1 ELSE 0
    PROVE  Settled(k, ok)
<1>1. owed \in [Session -> Int]
  OBVIOUS
<1>2. /\ owed' \in [Session -> Int]
      /\ \A t \in Session : owed'[t] =
            IF t = s /\ ClientOf[s] \in clients THEN owed[t] - 1 ELSE owed[t]
  BY <1>1, ReportTypes
<1>3. ASSUME NEW t \in Session
      PROVE  /\ Count(calls, Reporting(t)) \in Nat /\ Count(calls', Reporting(t)) \in Nat
             /\ ClientOf[t] \in clients =>
                   owed'[t] - Count(calls', Reporting(t)) = owed[t] - Count(calls, Reporting(t))
             /\ ClientOf[t] \notin clients => owed'[t] = owed[t]
  <2>. DEFINE x == owed[t]
              n == Count(calls, Reporting(t))
              y == owed'[t]
              m == Count(calls', Reporting(t))
              i == IF t = s THEN 1 ELSE 0
  <2>1. x \in Int /\ m \in Nat /\ n = m + i /\ i \in 0..1
    <3>1. x \in Int
      BY <1>1
    <3>2. m \in Nat /\ n = m + i
      BY Zenon
    <3>3. i \in 0..1
      OBVIOUS
    <3>. QED  BY <3>1, <3>2, <3>3
  <2>2. ClientOf[t] \notin clients => y = x
    BY <1>2
  <2>3. ClientOf[t] \in clients => y = x - i
    <3>1. CASE t = s
      <4>1. ClientOf[t] \in clients => y = x - 1
        BY <1>2, <3>1
      <4>. QED  BY <3>1, <4>1
    <3>2. CASE t # s
      <4>1. y = x
        BY <1>2, <3>2
      <4>2. i = 0
        BY <3>2
      <4>. HIDE DEF x, y, i
      <4>. QED  BY <2>1, <4>1, <4>2
    <3>. QED  BY <3>1, <3>2
  <2>. HIDE DEF x, y, n, m, i
  <2>4. n \in Nat /\ m \in Nat
    BY <2>1
  <2>5. ClientOf[t] \in clients => y - m = x - n
    BY <2>1, <2>3
  <2>. QED  BY <2>2, <2>4, <2>5 DEF x, y, n, m
<1>. QED  BY <1>2, <1>3, Balanced

\* A restart whose stop failed is given up.
LEMMA GivenUp ==
    ASSUME owed \in [Session -> Nat], NEW k, k.then = "restart", NEW ok, ~ ok, UNCHANGED owed,
           \A t \in Session : /\ Count(calls', Reporting(t)) \in Nat
                             /\ Count(calls', Reporting(t)) <= Count(calls, Reporting(t))
                             /\ Count(calls, Reporting(t)) \in Nat
    PROVE  Settled(k, ok)
<1>1. owed' \in [Session -> Int] /\ owed' = owed
  OBVIOUS
<1>2. ASSUME NEW t \in Session
      PROVE  owed'[t] - Count(calls', Reporting(t)) >= owed[t] - Count(calls, Reporting(t))
  <2>. DEFINE x == owed[t]
              n == Count(calls, Reporting(t))
              m == Count(calls', Reporting(t))
  <2>1. x \in Nat /\ owed'[t] = x
    OBVIOUS
  <2>2. n \in Nat /\ m \in Nat /\ m <= n
    BY Zenon
  <2>. HIDE DEF x, n, m
  <2>3. x - m >= x - n
    BY <2>1, <2>2
  <2>. QED  BY <2>1, <2>3 DEF x, n, m
<1>. QED  BY <1>1, <1>2 DEF Settled

LEMMA AnswerSettled ==
    ASSUME TablesOK, CallsOK, owed \in [Session -> Nat], calls # <<>>, NEW ok \in BOOLEAN,
           NEW k, k = Head(calls),
           \/ k.then = "erase" /\ k.op # "stopDistance" /\ OnStart(k, ok)
           \/ k.then = "restore" /\ OnUpdate(k, ok)
           \/ k.then \in {"erase", "forget"} /\ k.op = "stopDistance" /\ OnStopDistance(k, ok)
           \/ k.then = "switch" /\ OnSwitch(k)
           \/ k.then = "restart" /\ OnRestart(k, ok)
           \/ k.then = "save" /\ OnSave(k, ok)
           \/ k.then \in {"report", "nothing"} /\ OnOther(k)
    PROVE  Settled(k, ok)
<1>. DEFINE rest == Tail(calls)
<1>1. k \in LocApiCall /\ rest \in Seq(LocApiCall)
  BY HeadCall
<1>2. \A t \in Session : /\ Count(rest, Reporting(t)) \in Nat
                         /\ Count(calls, Reporting(t)) =
                              Count(rest, Reporting(t)) + IF k \in Reporting(t) THEN 1 ELSE 0
  BY <1>1, PlacesFinite, CountTail DEF CallsOK
<1>3. \A t \in Session : k \in Reporting(t) <=> k.s = t /\ k.then \notin {"nothing", "forget"}
  BY <1>1 DEF Reporting
<1>. HIDE DEF rest
<1>5. ASSUME k.s \in Session, k.then \notin {"nothing", "forget"},
             calls' = rest, owed' = Report(owed, k.s, TRUE)
      PROVE  Settled(k, ok)
  <2>1. \A t \in Session : /\ Count(calls', Reporting(t)) \in Nat
                           /\ Count(calls, Reporting(t)) =
                                Count(calls', Reporting(t)) + IF t = k.s THEN 1 ELSE 0
    BY <1>2, <1>3, <1>5
  <2>. QED  BY <1>5, <2>1, BalancedOne, Zenon
<1>6. ASSUME k.then \in {"nothing", "forget"}, calls' = rest, UNCHANGED owed
      PROVE  Settled(k, ok)
  <2>1. \A t \in Session : /\ Count(calls, Reporting(t)) \in Nat
                           /\ Count(calls', Reporting(t)) = Count(calls, Reporting(t))
    BY <1>2, <1>3, <1>6
  <2>. QED  BY <1>6, <2>1, BalancedAll
<1>7. k.then # "nothing" => k.s \in Session
  BY <1>1, CallFields
<1>8. CASE k.then = "erase" /\ OnStart(k, ok)
  BY <1>5, <1>7, <1>8 DEF OnStart, rest
<1>9. CASE k.then = "restore" /\ OnUpdate(k, ok)
  BY <1>5, <1>7, <1>9 DEF OnUpdate, rest
<1>10. CASE k.then = "erase" /\ OnStopDistance(k, ok)
  BY <1>5, <1>7, <1>10 DEF OnStopDistance, rest
<1>11. CASE k.then = "forget" /\ OnStopDistance(k, ok)
  BY <1>6, <1>11 DEF OnStopDistance, Report, rest
<1>12. CASE k.then = "save" /\ OnSave(k, ok)
  BY <1>5, <1>7, <1>12 DEF OnSave, rest
<1>13. CASE k.then = "report" /\ OnOther(k)
  BY <1>5, <1>7, <1>13 DEF OnOther, rest
<1>14. CASE k.then = "nothing" /\ OnOther(k)
  BY <1>6, <1>14 DEF OnOther, Report, rest
<1>15. CASE k.then = "switch" /\ OnSwitch(k)
  <2>. DEFINE q == StartMultiplex(k.s, k.o)
  <2>1. k.s \in Session /\ k.o \in Options
    BY <1>1, <1>15, CallFields
  <2>2. q \in Seq(LocApiCall) /\ Once(q, k.s)
    BY <2>1, MultiplexTypes, MultiplexReports
  <2>3. calls' = rest \o q /\ owed' = Report(owed, k.s, q = <<>>)
    BY <1>15 DEF OnSwitch, rest
  <2>. HIDE DEF q
  <2>4. \A t \in Session :
          /\ Count(q, Reporting(t)) \in Nat
          /\ Count(calls', Reporting(t)) = Count(rest, Reporting(t)) + Count(q, Reporting(t))
    BY <1>1, <2>2, <2>3, PlacesFinite, CountConcat
  <2>5. \A t \in Session : k \in Reporting(t) <=> t = k.s
    BY <1>3, <1>15
  <2>6. CASE q = <<>>
    <3>1. \A t \in Session : /\ Count(calls', Reporting(t)) \in Nat
                             /\ Count(calls, Reporting(t)) =
                                  Count(calls', Reporting(t)) + IF t = k.s THEN 1 ELSE 0
      BY <1>2, <2>4, <2>5, <2>6, CountEmpty
    <3>2. owed' = Report(owed, k.s, TRUE)
      BY <2>3, <2>6 DEF Report
    <3>. QED  BY <2>1, <3>1, <3>2, BalancedOne, Zenon
  <2>7. CASE q # <<>>
    <3>1. \A t \in Session : Count(q, Reporting(t)) = IF t = k.s THEN 1 ELSE 0
      BY <2>2, <2>7 DEF Once
    <3>2. \A t \in Session : /\ Count(calls, Reporting(t)) \in Nat
                             /\ Count(calls', Reporting(t)) = Count(calls, Reporting(t))
      BY <1>2, <2>4, <2>5, <3>1
    <3>3. UNCHANGED owed
      BY <2>3, <2>7 DEF Report
    <3>. QED  BY <3>2, <3>3, BalancedAll
  <2>. QED  BY <2>6, <2>7
<1>16. CASE k.then = "restart" /\ OnRestart(k, ok)
  <2>. DEFINE c == StartDistance(k.s, k.o, "save")
  <2>1. k.s \in Session /\ k.o \in Options /\ k.o.distance
    BY <1>1, <1>16, CallFields
  <2>2. \A t \in Session : k \in Reporting(t) <=> t = k.s
    BY <1>3, <1>16
  <2>3. UNCHANGED owed /\ calls' = IF ok THEN Append(rest, c) ELSE rest
    BY <1>16 DEF OnRestart, rest
  <2>4. CASE ok
    <3>1. c \in LocApiCall /\ \A t \in Session : c \in Reporting(t) <=> t = k.s
      <4>1. c \in LocApiCall
        BY <2>1, CallTypes
      <4>2. \A t \in Session : c \in Reporting(t) <=> t = k.s
        BY <2>1, ReportingCalls
      <4>. QED  BY <4>1, <4>2
    <3>. HIDE DEF c
    <3>2. calls' = Append(rest, c)
      BY <2>3, <2>4
    <3>3. \A t \in Session : Count(calls', Reporting(t)) =
            IF c \in Reporting(t) THEN Count(rest, Reporting(t)) + 1 ELSE Count(rest, Reporting(t))
      <4>1. \A M : Count(Append(rest, c), M) =
                    IF c \in M THEN Count(rest, M) + 1 ELSE Count(rest, M)
        BY <1>1, <3>1, CountAppend
      <4>. QED  BY <3>2, <4>1
    <3>4. \A t \in Session : /\ Count(calls, Reporting(t)) \in Nat
                             /\ Count(calls', Reporting(t)) = Count(calls, Reporting(t))
      BY <1>2, <2>2, <3>1, <3>3
    <3>. QED  BY <2>3, <3>4, BalancedAll
  <2>5. CASE ~ ok
    <3>1. \A t \in Session : /\ Count(calls', Reporting(t)) \in Nat
                             /\ Count(calls', Reporting(t)) <= Count(calls, Reporting(t))
                             /\ Count(calls, Reporting(t)) \in Nat
      BY <1>2, <2>3, <2>5
    <3>. QED  BY <1>16, <2>3, <2>5, <3>1, GivenUp
  <2>. QED  BY <2>4, <2>5
<1>. QED  BY <1>8, <1>9, <1>10, <1>11, <1>12, <1>13, <1>14, <1>15, <1>16

\* The calls of a client that is removed are about its own sessions.
LEMMA RemovedReports ==
    ASSUME TablesOK, CallsOK, NEW c, StopClientSessions(c), NEW t \in Session, ClientOf[t] # c
    PROVE  Count(calls', Reporting(t)) = Count(calls, Reporting(t))
<1>. DEFINE p == StopsOfTimeBased(c)
            r == StopsOfDistanceBased(c, "forget")
<1>1. p \in Seq(LocApiCall) /\ \A i \in DOMAIN p : p[i] \notin Reporting(t)
  <2>1. \A s \in Session : ClientOf[s] = c =>
          /\ StopTracking(s) \notin Reporting(t)
          /\ \A x \in Option : StartTimeBased(s, x) \notin Reporting(t)
    BY ReportingCalls
  <2>. QED  BY <2>1, StopClientCalls
<1>2. r \in Seq(LocApiCall) /\ \A i \in DOMAIN r : r[i] \notin Reporting(t)
  <2>1. \A s \in Session : StopDistance(s, None, "forget") \notin Reporting(t)
    BY ReportingCalls
  <2>. QED  BY <2>1, StopClientCalls
<1>3. calls' = (calls \o p) \o r
  BY DEF StopClientSessions
<1>. HIDE DEF p, r
<1>4. Count(p, Reporting(t)) = 0 /\ Count(r, Reporting(t)) = 0
  BY <1>1, <1>2, CountNone
<1>5. /\ Count(calls \o p, Reporting(t)) = Count(calls, Reporting(t)) + 0
      /\ calls \o p \in Seq(LocApiCall) /\ Count(calls, Reporting(t)) \in Nat
  BY <1>1, <1>4, CountConcat, CallsConcat, PlacesFinite DEF CallsOK
<1>6. Count(calls', Reporting(t)) = Count(calls \o p, Reporting(t)) + 0
  <2>. DEFINE x == calls \o p
  <2>1. x \in Seq(LocApiCall) /\ calls' = x \o r
    BY <1>3, <1>5
  <2>. HIDE DEF x
  <2>2. Count(x \o r, Reporting(t)) = Count(x, Reporting(t)) + Count(r, Reporting(t))
    BY <1>2, <2>1, CountConcat
  <2>. QED  BY <1>4, <2>1, <2>2 DEF x
<1>. QED  BY <1>5, <1>6

LEMMA RestartReports ==
    ASSUME TablesOK, NEW t \in Session
    PROVE  Count(RestartSessions, Reporting(t)) = 0
<1>1. Count(RestartTimeBased, Reporting(t)) = 0
  <2>1. \A x : Call("start", 0, x, "nothing", None) \notin Reporting(t)
    BY DEF Call, Reporting
  <2>. QED  BY <2>1, RestartCalls, CountEmpty, CountOne
<1>2. Count(RestartDistanceBased, Reporting(t)) = 0
  <2>. DEFINE made == {StartDistance(s, o, "nothing") : s \in Session, o \in Options}
  <2>1. \A k \in made : k \notin Reporting(t)
    BY ReportingCalls
  <2>2. RestartDistanceBased \in Seq(made)
    BY RestartCalls
  <2>. HIDE DEF made
  <2>3. \A i \in DOMAIN RestartDistanceBased : RestartDistanceBased[i] \notin Reporting(t)
    BY <2>1, <2>2
  <2>. QED  BY <2>2, <2>3, CountNone
<1>3. Count(RestartSessions, Reporting(t)) = 0 + 0
  BY <1>1, <1>2, RestartCalls, CountConcat DEF RestartSessions
<1>. QED  BY <1>3

LEMMA WaitingTypes ==
    ASSUME CallsOK, DeferOK, NEW t
    PROVE  /\ Count(calls, Reporting(t)) \in Nat
           /\ Count(mPendingMsgs, Of(t)) \in Nat /\ Count(resent, Of(t)) \in Nat
           /\ Waiting(t) \in Nat
  BY PlacesFinite DEF CallsOK, DeferOK, Waiting

LEMMA WaitingNext ==
    ASSUME NEW t
    PROVE  Waiting(t)' = Count(calls', Reporting(t)) + Count(mPendingMsgs', Of(t))
                         + Count(resent', Of(t))
  BY DEF Waiting, Count, Places, Reporting, Of

\* How much of what is owed is under way
LEMMA KeepsOwed ==
    ASSUME Typed, Typed', OwedInv, owed' \in [Session -> Int],
           clients' \subseteq clients, Lossless' => Lossless,
           \A t \in Session : ClientOf[t] \in clients' =>
              /\ owed'[t] - Waiting(t)' >= owed[t] - Waiting(t)
              /\ Lossless' => owed'[t] - Waiting(t)' = owed[t] - Waiting(t),
           \A t \in Session : ClientOf[t] \notin clients' => owed'[t] >= owed[t]
    PROVE  OwedInv'
<1>1. \A t \in Session : /\ Waiting(t) \in Nat /\ Waiting(t)' \in Nat
                         /\ owed[t] \in Nat /\ owed'[t] \in Int
  <2>1. \A t \in Session : Waiting(t) \in Nat
    BY WaitingTypes DEF Typed
  <2>2. ASSUME NEW t \in Session  PROVE Waiting(t)' \in Nat
    <3>1. /\ Count(calls', Reporting(t)) \in Nat
          /\ Count(mPendingMsgs', Of(t)) \in Nat /\ Count(resent', Of(t)) \in Nat
      BY PlacesFinite DEF Typed, CallsOK, DeferOK
    <3>. QED  BY <3>1, WaitingNext
  <2>. QED  BY <2>1, <2>2 DEF OwedInv
<1>2. ASSUME NEW t \in Session, ClientOf[t] \in clients'
      PROVE  /\ owed'[t] \in Nat /\ Waiting(t)' <= owed'[t]
             /\ Lossless' => Waiting(t)' = owed'[t]
  <2>. DEFINE x == owed[t]
              n == Waiting(t)
              y == owed'[t]
              m == Waiting(t)'
  <2>1. x \in Nat /\ n \in Nat /\ y \in Int /\ m \in Nat
    BY <1>1
  <2>2. n <= x /\ y - m >= x - n
    BY <1>2 DEF OwedInv
  <2>3. Lossless' => n = x /\ y - m = x - n
    BY <1>2 DEF OwedInv
  <2>. HIDE DEF x, n, y, m
  <2>4. y \in Nat /\ m <= y
    BY <2>1, <2>2
  <2>5. Lossless' => m = y
    BY <2>1, <2>3
  <2>. QED  BY <2>4, <2>5 DEF x, n, y, m
<1>3. ASSUME NEW t \in Session, ClientOf[t] \notin clients'
      PROVE  owed'[t] \in Nat
  BY <1>1, <1>3
<1>. QED  BY <1>2, <1>3 DEF OwedInv

-----------------------------------------------------------------------------
(* Requests wait for the capabilities, and an update of a distance-based    *)
(* session is under way only once they are known.                           *)

LEMMA HasConcat ==
    ASSUME NEW p \in Seq(LocApiCall), NEW q \in Seq(LocApiCall), HasRestart(p \o q)
    PROVE  HasRestart(p) \/ HasRestart(q)
<1>1. PICK i \in DOMAIN (p \o q) : (p \o q)[i].then = "restart"
  BY DEF HasRestart
<1>2. CASE i <= Len(p)
  BY <1>1, <1>2 DEF HasRestart
<1>3. CASE i > Len(p)
  <2>1. i - Len(p) \in DOMAIN q /\ (p \o q)[i] = q[i - Len(p)]
    BY <1>1, <1>3
  <2>. QED  BY <1>1, <2>1 DEF HasRestart
<1>. QED  BY <1>1, <1>2, <1>3

LEMMA HasAppend ==
    ASSUME NEW p \in Seq(LocApiCall), NEW k \in LocApiCall, HasRestart(Append(p, k))
    PROVE  HasRestart(p) \/ k.then = "restart"
<1>1. PICK i \in DOMAIN Append(p, k) : Append(p, k)[i].then = "restart"
  BY DEF HasRestart
<1>2. CASE i <= Len(p)
  BY <1>1, <1>2 DEF HasRestart
<1>3. CASE i > Len(p)
  BY <1>1, <1>3
<1>. QED  BY <1>1, <1>2, <1>3

LEMMA HasTail ==
    ASSUME NEW q \in Seq(LocApiCall), q # <<>>, HasRestart(Tail(q))
    PROVE  HasRestart(q)
<1>1. PICK i \in DOMAIN Tail(q) : Tail(q)[i].then = "restart"
  BY DEF HasRestart
<1>2. i + 1 \in DOMAIN q /\ q[i + 1] = Tail(q)[i]
  BY <1>1
<1>. QED  BY <1>1, <1>2 DEF HasRestart

\* Only an update of a distance-based session makes such a call.
LEMMA OtherCalls ==
    ASSUME TablesOK, NEW s \in Session, NEW o \in Options
    PROVE  /\ ~ HasRestart(StartMultiplex(s, o))
           /\ s \in Held(timeBased) =>
                 ~ HasRestart(UpdateMultiplex(s, o)) /\ ~ HasRestart(StopMultiplex(s))
<1>1. ~ HasRestart(<<>>)
  BY DEF HasRestart
<1>2. ASSUME NEW k, k.then # "restart"  PROVE ~ HasRestart(<<k>>)
  BY <1>2 DEF HasRestart
<1>3. /\ \A x \in Option : StartTimeBased(s, x).then # "restart"
      /\ \A x \in Option : UpdateTracking(s, x).then # "restart"
      /\ StopTracking(s).then # "restart"
  BY DEF StartTimeBased, UpdateTracking, StopTracking, Call
<1>4. ~ HasRestart(StartMultiplex(s, o))
  BY <1>1, <1>2, <1>3, StartMultiplexCalls DEF TablesOK
<1>5. ASSUME s \in Held(timeBased)
      PROVE  ~ HasRestart(UpdateMultiplex(s, o)) /\ ~ HasRestart(StopMultiplex(s))
  <2>1. ~ HasRestart(UpdateMultiplex(s, o))
    BY <1>1, <1>2, <1>3, <1>5, UpdateMultiplexCalls DEF TablesOK
  <2>2. ~ HasRestart(StopMultiplex(s))
    BY <1>1, <1>2, <1>3, <1>5, StopMultiplexCalls DEF TablesOK
  <2>. QED  BY <2>1, <2>2
<1>. QED  BY <1>4, <1>5

LEMMA DoStartHas ==
    ASSUME TablesOK, CallsOK, NEW s \in Session, NEW o \in Options, NEW due,
           DoStart(s, o, due), HasRestart(calls')
    PROVE  HasRestart(calls)
<1>1. CASE calls' = calls
  BY <1>1
<1>2. CASE calls' = Append(calls, StartDistance(s, o, "erase"))
  <2>1. StartDistance(s, o, "erase") \in LocApiCall
    BY CallTypes
  <2>2. StartDistance(s, o, "erase").then # "restart"
    BY DEF StartDistance, Call
  <2>. QED  BY <1>2, <2>1, <2>2, HasAppend DEF CallsOK
<1>3. CASE calls' = calls \o StartMultiplex(s, o)
  BY <1>3, HasConcat, MultiplexTypes, OtherCalls DEF CallsOK
<1>. QED  BY <1>1, <1>2, <1>3 DEF DoStart

LEMMA DoUpdateHas ==
    ASSUME TablesOK, CallsOK, NEW s \in Session, NEW o \in Options, NEW due,
           DoUpdate(s, o, due), HasRestart(calls')
    PROVE  HasRestart(calls) \/ o.distance
<1>1. CASE calls' = calls
  BY <1>1
<1>2. CASE s \in Held(timeBased) /\ o.distance
  BY <1>2
<1>3. CASE ~ o.distance /\ calls' = Append(calls, StopDistance(s, o, "switch"))
  <2>1. StopDistance(s, o, "switch") \in LocApiCall
    BY <1>3, CallTypes
  <2>2. StopDistance(s, o, "switch").then # "restart"
    BY DEF StopDistance, Call
  <2>. QED  BY <1>3, <2>1, <2>2, HasAppend DEF CallsOK
<1>4. CASE s \in Held(timeBased) /\ calls' = calls \o UpdateMultiplex(s, o)
  BY <1>4, HasConcat, MultiplexTypes, OtherCalls DEF CallsOK
<1>. QED  BY <1>1, <1>2, <1>3, <1>4 DEF DoUpdate

LEMMA DoStopHas ==
    ASSUME TablesOK, CallsOK, NEW s \in Session, NEW due, DoStop(s, due), HasRestart(calls')
    PROVE  HasRestart(calls)
<1>1. CASE calls' = calls
  BY <1>1
<1>2. CASE s \in Held(timeBased) /\ calls' = calls \o StopMultiplex(s)
  <2>1. timeBased[s] \in Options
    BY <1>2, HeldOptions DEF TablesOK
  <2>. QED  BY <1>2, <2>1, HasConcat, MultiplexTypes, OtherCalls DEF CallsOK
<1>3. CASE calls' = Append(calls, StopDistance(s, None, "erase"))
  <2>1. StopDistance(s, None, "erase") \in LocApiCall
    BY CallTypes
  <2>2. StopDistance(s, None, "erase").then # "restart"
    BY DEF StopDistance, Call
  <2>. QED  BY <1>3, <2>1, <2>2, HasAppend DEF CallsOK
<1>. QED  BY <1>1, <1>2, <1>3 DEF DoStop

LEMMA AnswerHas ==
    ASSUME TablesOK, CallsOK, NEW ok \in BOOLEAN, LocApiAnswers(ok), HasRestart(calls')
    PROVE  HasRestart(calls)
<1>. DEFINE k == Head(calls)
            rest == Tail(calls)
<1>1. k \in LocApiCall /\ rest \in Seq(LocApiCall) /\ (HasRestart(rest) => HasRestart(calls))
  BY HeadCall, HasTail DEF LocApiAnswers, CallsOK
<1>. HIDE DEF k, rest
<1>2. CASE calls' = rest
  BY <1>1, <1>2
<1>3. CASE k.then = "switch" /\ OnSwitch(k)
  <2>1. k.s \in Session /\ k.o \in Options
    BY <1>1, <1>3, CallFields
  <2>2. StartMultiplex(k.s, k.o) \in Seq(LocApiCall) /\ ~ HasRestart(StartMultiplex(k.s, k.o))
    BY <2>1, MultiplexTypes, OtherCalls
  <2>3. calls' = rest \o StartMultiplex(k.s, k.o)
    BY <1>3 DEF OnSwitch, rest
  <2>. QED  BY <1>1, <2>2, <2>3, HasConcat
<1>4. CASE k.then = "restart" /\ OnRestart(k, ok)
  <2>1. k.s \in Session /\ k.o \in Options /\ k.o.distance
    BY <1>1, <1>4, CallFields
  <2>2. StartDistance(k.s, k.o, "save") \in LocApiCall
    BY <2>1, CallTypes
  <2>3. StartDistance(k.s, k.o, "save").then # "restart"
    BY DEF StartDistance, Call
  <2>4. calls' \in {rest, Append(rest, StartDistance(k.s, k.o, "save"))}
    BY <1>4 DEF OnRestart, rest
  <2>. QED  BY <1>1, <2>2, <2>3, <2>4, HasAppend
<1>. QED
  BY <1>2, <1>3, <1>4
  DEF LocApiAnswers, OnStart, OnUpdate, OnStopDistance, OnSave, OnOther, k, rest

LEMMA StopClientHas ==
    ASSUME TablesOK, CallsOK, NEW c, StopClientSessions(c), HasRestart(calls')
    PROVE  HasRestart(calls)
<1>. DEFINE p == StopsOfTimeBased(c)
            r == StopsOfDistanceBased(c, "forget")
<1>1. p \in Seq(LocApiCall) /\ ~ HasRestart(p)
  <2>1. \A s, x : StopTracking(s).then # "restart" /\ StartTimeBased(s, x).then # "restart"
    BY DEF StopTracking, StartTimeBased, Call
  <2>2. \A i \in DOMAIN p : p[i].then # "restart"
    <3>. SUFFICES ASSUME NEW i \in DOMAIN p  PROVE p[i].then # "restart"
      OBVIOUS
    <3>1. PICK s \in Session : p[i] = StopTracking(s) \/ \E x \in Option : p[i] = StartTimeBased(s, x)
      BY StopClientCalls
    <3>. QED  BY <2>1, <3>1
  <2>. QED  BY <2>2, StopClientCalls DEF HasRestart
<1>2. r \in Seq(LocApiCall) /\ ~ HasRestart(r)
  <2>1. \A s : StopDistance(s, None, "forget").then # "restart"
    BY DEF StopDistance, Call
  <2>. QED  BY <2>1, StopClientCalls DEF HasRestart
<1>3. calls' = (calls \o p) \o r
  BY DEF StopClientSessions
<1>. HIDE DEF p, r
<1>4. calls \o p \in Seq(LocApiCall)
  BY <1>1, CallsConcat DEF CallsOK
<1>. QED  BY <1>1, <1>2, <1>3, <1>4, HasConcat DEF CallsOK

LEMMA RestartHas ==
    ASSUME TablesOK
    PROVE  ~ HasRestart(RestartSessions)
<1>1. ~ HasRestart(RestartTimeBased)
  <2>1. \A x : Call("start", 0, x, "nothing", None).then # "restart"
    BY DEF Call
  <2>. QED  BY <2>1, RestartCalls DEF HasRestart
<1>2. ~ HasRestart(RestartDistanceBased)
  <2>. DEFINE made == {StartDistance(s, o, "nothing") : s \in Session, o \in Options}
  <2>1. \A k \in made : k.then # "restart"
    BY DEF StartDistance, Call
  <2>2. RestartDistanceBased \in Seq(made)
    BY RestartCalls
  <2>. HIDE DEF made
  <2>. QED  BY <2>1, <2>2 DEF HasRestart
<1>. QED  BY <1>1, <1>2, RestartCalls, HasConcat DEF RestartSessions

LEMMA CapsStep ==
    ASSUME Typed, CapsInv, [Next]_vars
    PROVE  CapsInv'
<1>. USE DEF Typed
<1>1. {"updates", "failures", "removals", "restarts"} = DOMAIN Limit
  BY DEF Limit
<1>2. HasRestart(calls)' <=> HasRestart(calls')
  BY DEF HasRestart
<1>3. ASSUME UNCHANGED <<deferVars, engine>>, UNCHANGED used \/ used'["restarts"] = used["restarts"],
             HasRestart(calls') => HasRestart(calls) \/ capsKnown
      PROVE  CapsInv'
  BY <1>2, <1>3 DEF CapsInv, deferVars
<1>4. ASSUME NEW kind, NEW s \in Session, NEW o \in Options, Defers(o), Defer(kind, s, o),
             UNCHANGED engine, used'["restarts"] = used["restarts"]
      PROVE  CapsInv'
  BY <1>2, <1>4 DEF CapsInv, Defer, Defers
<1>5. ASSUME NEW s \in Session, NEW o \in Options, StartTrackingCommand(s, o)
      PROVE  CapsInv'
  <2>1. UNCHANGED <<engine, used>>
    BY <1>5 DEF StartTrackingCommand, modemVars
  <2>. QED  BY <1>3, <1>4, <1>5, <2>1, DoStartHas DEF StartTrackingCommand
<1>6. ASSUME NEW s \in Session, NEW o \in Options, UpdateTrackingOptionsCommand(s, o)
      PROVE  CapsInv'
  <2>1. UNCHANGED engine /\ used'["restarts"] = used["restarts"]
    BY <1>1, <1>6, UseTypes DEF UpdateTrackingOptionsCommand, modemVars
  <2>2. CASE Defers(o) /\ Defer("update", s, o)
    BY <1>4, <2>1, <2>2
  <2>3. CASE ~ Defers(o) /\ DoUpdate(s, o, Asked(s)) /\ UNCHANGED deferVars
    BY <1>3, <2>1, <2>3, DoUpdateHas DEF Defers
  <2>. QED  BY <1>6, <2>2, <2>3 DEF UpdateTrackingOptionsCommand
<1>7. ASSUME NEW s \in Session, StopTrackingCommand(s)
      PROVE  CapsInv'
  BY <1>3, <1>7, DoStopHas DEF StopTrackingCommand, modemVars
<1>8. CASE HandleResent
  <2>1. Head(resent) \in DeferredRequest
    BY <1>8 DEF HandleResent, DeferOK
  <2>2. Head(resent).s \in Session /\ Head(resent).o \in Options
    BY <2>1 DEF DeferredRequest
  <2>3. capsKnown /\ UNCHANGED <<capsKnown, mPendingMsgs, engine, used>>
    BY <1>8 DEF HandleResent, CapsInv, modemVars
  <2>. QED  BY <1>2, <2>3 DEF CapsInv
<1>9. ASSUME NEW c \in Client, RemoveClient(c)
      PROVE  CapsInv'
  <2>1. used'["restarts"] = used["restarts"]
    BY <1>1, <1>9, UseTypes DEF RemoveClient
  <2>. QED  BY <1>3, <1>9, <2>1, StopClientHas DEF RemoveClient, modemVars
<1>10. ASSUME NEW ok \in BOOLEAN, LocApiAnswers(ok)
       PROVE  CapsInv'
  <2>1. UNCHANGED engine /\ used'["restarts"] = used["restarts"]
    BY <1>1, <1>10, UseTypes DEF LocApiAnswers, ModemDoes
  <2>. QED  BY <1>3, <1>10, <2>1, AnswerHas DEF LocApiAnswers
<1>11. CASE HandleEngineUp
  BY <1>2, <1>11 DEF HandleEngineUp, CapsInv
<1>12. CASE ModemRestart
  <2>1. used'["restarts"] > 0
    BY <1>1, <1>12, UseTypes DEF ModemRestart
  <2>. QED  BY <1>2, <1>12, <2>1 DEF ModemRestart, CapsInv, deferVars
<1>13. CASE ModemOpens
  BY <1>2, <1>13 DEF ModemOpens, CapsInv, deferVars
<1>14. CASE UNCHANGED vars
  BY <1>3, <1>14 DEF vars, modemVars
<1>. QED  BY <1>5, <1>6, <1>7, <1>8, <1>9, <1>10, <1>11, <1>12, <1>13, <1>14 DEF Next

LEMMA InitCaps == Init => CapsInv
<1>. SUFFICES ASSUME Init  PROVE CapsInv
  OBVIOUS
<1>1. ~ HasRestart(calls)
  BY DEF Init, HasRestart
<1>. QED  BY <1>1 DEF Init, CapsInv

\* A request handled when it is made, or when its turn comes
LEMMA HandledKeepsOwed ==
    ASSUME Typed, Typed', OwedInv, UNCHANGED <<clients, mPendingMsgs>>, Lossless' => Lossless,
           NEW s \in Session, NEW due \in [Session -> Int], Handled(s, due),
           \/ due = Asked(s) /\ UNCHANGED resent
           \/ due = owed /\ resent # <<>> /\ Head(resent).s = s /\ resent' = Tail(resent)
    PROVE  OwedInv'
<1>. USE DEF Typed
<1>1. Lossless' => AllListen
  BY DEF Lossless, AllListen
<1>2. ASSUME NEW t \in Session
      PROVE  due[t] - (IF t = s THEN 1 ELSE 0) - Count(resent', Of(t)) = owed[t] - Count(resent, Of(t))
  <2>0. Count(resent, Of(t)) \in Nat /\ Count(resent', Of(t)) \in Nat /\ owed[t] \in Nat
    BY PlacesFinite DEF DeferOK, OwedInv
  <2>1. CASE due = Asked(s) /\ UNCHANGED resent
    <3>0. owed \in [Session -> Nat] /\ due = [owed EXCEPT ![s] = @ + 1]
      BY <2>1 DEF Asked, OwedInv
    <3>1. due[t] = owed[t] + IF t = s THEN 1 ELSE 0
      <4>. HIDE DEF Typed
      <4>1. CASE t = s
        BY <3>0, <4>1
      <4>2. CASE t # s
        BY <3>0, <4>2
      <4>. QED  BY <4>1, <4>2, <2>0
    <3>. DEFINE x == owed[t]
                i == IF t = s THEN 1 ELSE 0
                r == Count(resent, Of(t))
    <3>2. i \in 0..1 /\ x \in Nat /\ r \in Nat /\ due[t] = x + i /\ resent' = resent
      BY <2>0, <2>1, <3>1
    <3>. HIDE DEF x, i, r
    <3>3. (x + i) - i - r = x - r
      BY <3>2
    <3>. QED  BY <3>2, <3>3 DEF x, i, r
  <2>2. CASE due = owed /\ resent # <<>> /\ Head(resent).s = s /\ resent' = Tail(resent)
    <3>. DEFINE x == owed[t]
                i == IF t = s THEN 1 ELSE 0
                r == Count(resent, Of(t))
                z == Count(Tail(resent), Of(t))
    <3>1. Head(resent) \in DeferredRequest
      BY <2>2 DEF DeferOK
    <3>2. Head(resent) \in Of(t) <=> t = s
      BY <2>2, <3>1 DEF Of
    <3>3. r = z + i
      BY <2>2, <3>2, CountTail DEF DeferOK
    <3>4. i \in 0..1 /\ x \in Nat /\ r \in Nat /\ z \in Nat
      BY <2>0, <2>2
    <3>. HIDE DEF x, i, r, z
    <3>5. x - i - z = x - r
      BY <3>3, <3>4
    <3>. QED  BY <2>2, <3>5 DEF x, i, r, z
  <2>. QED  BY <2>1, <2>2
<1>3. owed' \in [Session -> Int]
  BY DEF Handled
<1>4. ASSUME NEW t \in Session, ClientOf[t] \in clients
      PROVE  /\ owed'[t] - Waiting(t)' >= owed[t] - Waiting(t)
             /\ Lossless' => owed'[t] - Waiting(t)' = owed[t] - Waiting(t)
  <2>. DEFINE a == due[t]
              x == owed[t]
              y == owed'[t]
              i == IF t = s THEN 1 ELSE 0
              n == Count(calls, Reporting(t))
              m == Count(calls', Reporting(t))
              p == Count(mPendingMsgs, Of(t))
              r == Count(resent, Of(t))
              z == Count(resent', Of(t))
  <2>1. a \in Int /\ x \in Nat /\ y \in Int /\ i \in {0, 1}
    <3>1. a \in Int
      OBVIOUS
    <3>2. x \in Nat
      BY DEF OwedInv
    <3>3. y \in Int
      BY <1>3
    <3>. QED  BY <3>1, <3>2, <3>3
  <2>2. n \in Nat /\ m \in Nat /\ p \in Nat /\ r \in Nat /\ z \in Nat
    BY PlacesFinite DEF CallsOK, DeferOK
  <2>3. a - i - z = x - r
    BY <1>2
  <2>4. y - m >= a - n - i /\ (AllListen => y - m = a - n - i)
    BY <1>4 DEF Handled
  <2>5. Waiting(t) = n + p + r
    BY DEF Waiting
  <2>6. Waiting(t)' = m + p + z
    BY WaitingNext
  <2>. HIDE DEF a, x, y, i, n, m, p, r, z
  <2>7. y - (m + p + z) >= x - (n + p + r)
    BY <2>1, <2>2, <2>3, <2>4
  <2>8. AllListen => y - (m + p + z) = x - (n + p + r)
    BY <2>1, <2>2, <2>3, <2>4
  <2>. QED  BY <1>1, <2>5, <2>6, <2>7, <2>8 DEF x, y
<1>5. ASSUME NEW t \in Session, ClientOf[t] \notin clients
      PROVE  owed'[t] >= owed[t]
  <2>1. owed'[t] = due[t]
    BY <1>5 DEF Handled
  <2>2. due[t] = owed[t] \/ due[t] = owed[t] + 1
    BY DEF Asked, OwedInv
  <2>3. owed[t] \in Nat
    BY DEF OwedInv
  <2>. QED  BY <2>1, <2>2, <2>3
<1>. QED  BY <1>3, <1>4, <1>5, KeepsOwed

LEMMA LosslessBefore ==
    ASSUME UsedOK, [Next]_vars
    PROVE  Lossless' => Lossless
<1>1. {"updates", "failures", "removals", "restarts"} = DOMAIN Limit
  BY DEF Limit
<1>2. \A b \in DOMAIN Limit : Use(b) => /\ used[b] \in Nat /\ used'[b] > 0
                                        /\ \A x \in DOMAIN Limit \ {b} : used'[x] = used[x]
  BY UseTypes DEF UsedOK
<1>3. UNCHANGED used \/ \E b \in DOMAIN Limit : Use(b)
  BY <1>1
  DEF Next, StartTrackingCommand, UpdateTrackingOptionsCommand, StopTrackingCommand, RemoveClient,
      LocApiAnswers, ModemDoes, HandleResent, ModemRestart, ModemOpens, HandleEngineUp, vars
<1>4. used'["failures"] = 0 => used["failures"] = 0
  BY <1>1, <1>2, <1>3
<1>5. used'["restarts"] = 0 => used["restarts"] = 0
  BY <1>1, <1>2, <1>3
<1>. QED  BY <1>4, <1>5 DEF Lossless, AllListen, TimeOnly

LEMMA DeferKeepsOwed ==
    ASSUME Typed, Typed', OwedInv, UNCHANGED clients, Lossless' => Lossless,
           NEW kind \in {"start", "update"}, NEW s \in Session, NEW o \in Options, Defer(kind, s, o)
    PROVE  OwedInv'
<1>. USE DEF Typed
<1>. DEFINE msg == [kind |-> kind, s |-> s, o |-> o]
<1>1. msg \in DeferredRequest /\ msg.s = s
  BY DEF DeferredRequest
<1>2. /\ UNCHANGED <<calls, resent>> /\ mPendingMsgs' = Append(mPendingMsgs, msg)
      /\ owed' = Asked(s)
  BY DEF Defer
<1>. HIDE DEF msg
<1>3. owed' \in [Session -> Int] /\ \A t \in Session : owed[t] \in Nat
  <2>1. owed \in [Session -> Nat]
    BY DEF OwedInv
  <2>2. owed' = [owed EXCEPT ![s] = owed[s] + 1]
    BY <1>2 DEF Asked
  <2>3. owed[s] + 1 \in Int
    BY <2>1
  <2>. QED  BY <2>1, <2>2, <2>3
<1>4. ASSUME NEW t \in Session
      PROVE  /\ owed'[t] - Waiting(t)' >= owed[t] - Waiting(t)
             /\ owed'[t] - Waiting(t)' = owed[t] - Waiting(t)
             /\ owed'[t] >= owed[t]
  <2>. DEFINE x == owed[t]
              i == IF t = s THEN 1 ELSE 0
              n == Count(calls, Reporting(t))
              p == Count(mPendingMsgs, Of(t))
              r == Count(resent, Of(t))
  <2>1. x \in Nat /\ n \in Nat /\ p \in Nat /\ r \in Nat /\ i \in 0..1
    <3>1. x \in Nat
      BY <1>3
    <3>2. n \in Nat /\ p \in Nat /\ r \in Nat
      BY PlacesFinite DEF CallsOK, DeferOK
    <3>. QED  BY <3>1, <3>2
  <2>2. Count(mPendingMsgs', Of(t)) = p + i
    <3>1. msg \in Of(t) <=> t = s
      BY <1>1 DEF Of
    <3>2. Count(Append(mPendingMsgs, msg), Of(t)) = IF msg \in Of(t) THEN p + 1 ELSE p
      BY <1>1, CountAppend DEF DeferOK
    <3>. QED  BY <1>2, <2>1, <3>1, <3>2
  <2>3. owed'[t] = x + i
    BY <1>2, <1>3 DEF Asked, OwedInv
  <2>4. Waiting(t)' = n + (p + i) + r
    BY <1>2, <2>2, WaitingNext
  <2>5. Waiting(t) = n + p + r
    BY DEF Waiting
  <2>. HIDE DEF x, i, n, p, r
  <2>6. /\ (x + i) - (n + (p + i) + r) >= x - (n + p + r)
        /\ (x + i) - (n + (p + i) + r) = x - (n + p + r)
        /\ x + i >= x
    BY <2>1
  <2>. QED  BY <2>3, <2>4, <2>5, <2>6 DEF x
<1>. QED  BY <1>3, <1>4, KeepsOwed

\* Steps that leave what is owed alone
LEMMA SameOwed ==
    ASSUME Typed, Typed', OwedInv, UNCHANGED owed, clients' \subseteq clients,
           Lossless' => Lossless,
           \A t \in Session : ClientOf[t] \in clients' => Waiting(t)' = Waiting(t)
    PROVE  OwedInv'
<1>1. owed' \in [Session -> Int] /\ \A t \in Session : owed[t] \in Nat /\ owed'[t] = owed[t]
  BY DEF OwedInv
<1>2. \A t \in Session : Waiting(t) \in Nat
  BY WaitingTypes DEF Typed
<1>3. ASSUME NEW t \in Session, ClientOf[t] \in clients'
      PROVE  /\ owed'[t] - Waiting(t)' = owed[t] - Waiting(t)
             /\ owed'[t] - Waiting(t)' >= owed[t] - Waiting(t)
  <2>. DEFINE x == owed[t]
              n == Waiting(t)
  <2>1. x \in Nat /\ n \in Nat /\ owed'[t] = x /\ Waiting(t)' = n
    BY <1>1, <1>2, <1>3
  <2>. HIDE DEF x, n
  <2>2. x - n >= x - n
    BY <2>1
  <2>. QED  BY <2>1, <2>2 DEF x, n
<1>4. ASSUME NEW t \in Session PROVE owed'[t] >= owed[t]
  <2>. PICK x : x = owed[t]
    OBVIOUS
  <2>1. owed'[t] = x /\ x \in Nat
    BY <1>1
  <2>2. x >= x
    BY <2>1
  <2>. QED  BY <2>1, <2>2
<1>. QED  BY <1>1, <1>3, <1>4, KeepsOwed

\* Under Lossless no restart is given up: the modem is up and obeys.
LEMMA NoneGivenUp ==
    ASSUME Typed, CapsInv, NEW ok \in BOOLEAN, LocApiAnswers(ok), Lossless', Lossless
    PROVE  ok \/ Head(calls).then # "restart"
<1>. USE DEF Typed
<1>. DEFINE k == Head(calls)
<1>. SUFFICES ASSUME k.then = "restart", ~ ok  PROVE FALSE
  OBVIOUS
<1>1. calls # <<>> /\ k \in LocApiCall /\ ModemDoes(k, ok)
  BY HeadCall DEF LocApiAnswers
<1>2. k.o \in Options /\ k.o.distance
  BY <1>1, CallFields
<1>3. used["restarts"] = 0 /\ used'["failures"] = 0
  BY <1>2 DEF Lossless, TimeOnly
<1>4. HasRestart(calls)
  <2>1. 1 \in DOMAIN calls /\ calls[1] = k
    BY <1>1 DEF CallsOK
  <2>. QED  BY <2>1 DEF HasRestart
<1>5. engine = "up"
  BY <1>3, <1>4 DEF CapsInv
<1>6. k.op = "stopDistance"
  BY <1>1 DEF LocApiCall
<1>7. Use("failures") => used'["failures"] > 0
  <2>1. "failures" \in DOMAIN Limit
    BY DEF Limit
  <2>. QED  BY <2>1, UseTypes
<1>. HIDE DEF k
<1>. QED  BY <1>1, <1>3, <1>5, <1>6, <1>7 DEF ModemDoes

LEMMA AnswerKeepsOwed ==
    ASSUME Typed, Typed', CapsInv, OwedInv, Lossless' => Lossless,
           NEW ok \in BOOLEAN, LocApiAnswers(ok)
    PROVE  OwedInv'
<1>. USE DEF Typed
<1>1. Settled(Head(calls), ok)
  BY AnswerSettled DEF LocApiAnswers, OwedInv
<1>2. Lossless' => ok \/ Head(calls).then # "restart"
  BY NoneGivenUp
<1>3. UNCHANGED <<mPendingMsgs, resent, clients>>
  BY DEF LocApiAnswers, deferVars, clientVars
<1>4. ASSUME NEW t \in Session, ClientOf[t] \in clients
      PROVE  /\ owed'[t] - Waiting(t)' >= owed[t] - Waiting(t)
             /\ Lossless' => owed'[t] - Waiting(t)' = owed[t] - Waiting(t)
  <2>. DEFINE x == owed[t]
              y == owed'[t]
              n == Count(calls, Reporting(t))
              m == Count(calls', Reporting(t))
              p == Count(mPendingMsgs, Of(t))
              r == Count(resent, Of(t))
  <2>1. x \in Nat /\ y \in Int
    <3>1. x \in Nat
      BY DEF OwedInv
    <3>2. y \in Int
      BY <1>1 DEF Settled
    <3>. QED  BY <3>1, <3>2
  <2>2. n \in Nat /\ m \in Nat /\ p \in Nat /\ r \in Nat
    BY PlacesFinite DEF CallsOK, DeferOK
  <2>3. y - m >= x - n /\ (Lossless' => y - m = x - n)
    BY <1>1, <1>2, <1>4 DEF Settled
  <2>4. Waiting(t) = n + p + r
    BY DEF Waiting
  <2>5. Waiting(t)' = m + p + r
    BY <1>3, WaitingNext
  <2>. HIDE DEF x, y, n, m, p, r
  <2>6. y - (m + p + r) >= x - (n + p + r)
    BY <2>1, <2>2, <2>3
  <2>7. Lossless' => y - (m + p + r) = x - (n + p + r)
    BY <2>1, <2>2, <2>3
  <2>. QED  BY <2>4, <2>5, <2>6, <2>7 DEF x, y
<1>5. owed' \in [Session -> Int]
  BY <1>1 DEF Settled
<1>6. ASSUME NEW t \in Session, ClientOf[t] \notin clients
      PROVE  owed'[t] >= owed[t]
  <2>1. owed'[t] = owed[t] /\ owed[t] \in Nat
    BY <1>1, <1>6 DEF Settled, OwedInv
  <2>. QED  BY <2>1
<1>. QED  BY <1>3, <1>4, <1>5, <1>6, KeepsOwed

LEMMA OwedStep ==
    ASSUME Typed, Typed', CapsInv, OwedInv, [Next]_vars
    PROVE  OwedInv'
<1>. USE DEF Typed
<1>1. Lossless' => Lossless
  BY LosslessBefore
<1>2. owed \in [Session -> Int] /\ \A s \in Session : Asked(s) \in [Session -> Int]
  <2>1. owed \in [Session -> Nat]
    BY DEF OwedInv
  <2>2. ASSUME NEW s \in Session  PROVE Asked(s) \in [Session -> Int]
    <3>1. owed[s] + 1 \in Int
      BY <2>1
    <3>. QED  BY <2>1, <3>1 DEF Asked
  <2>. QED  BY <2>1, <2>2
<1>3. CASE UNCHANGED <<owed, clients, calls, mPendingMsgs, resent>>
  <2>1. \A t : Waiting(t)' = Waiting(t)
    BY <1>3, WaitingNext DEF Waiting
  <2>. QED  BY <1>1, <1>3, <2>1, SameOwed
<1>4. ASSUME NEW s \in Session, NEW o \in Options, StartTrackingCommand(s, o)
      PROVE  OwedInv'
  <2>1. UNCHANGED clients
    BY <1>4 DEF StartTrackingCommand
  <2>2. CASE Defer("start", s, o)
    BY <1>1, <2>1, <2>2, DeferKeepsOwed
  <2>3. CASE DoStart(s, o, Asked(s)) /\ UNCHANGED deferVars
    <3>1. Handled(s, Asked(s))
      BY <1>2, <2>3, DoStartHandled
    <3>2. UNCHANGED <<mPendingMsgs, resent>>
      BY <2>3 DEF deferVars
    <3>. QED  BY <1>1, <1>2, <2>1, <3>1, <3>2, HandledKeepsOwed
  <2>. QED  BY <1>4, <2>2, <2>3 DEF StartTrackingCommand
<1>5. ASSUME NEW s \in Session, NEW o \in Options, UpdateTrackingOptionsCommand(s, o)
      PROVE  OwedInv'
  <2>1. UNCHANGED clients
    BY <1>5 DEF UpdateTrackingOptionsCommand, clientVars
  <2>2. CASE Defer("update", s, o)
    BY <1>1, <2>1, <2>2, DeferKeepsOwed
  <2>3. CASE DoUpdate(s, o, Asked(s)) /\ UNCHANGED deferVars
    <3>1. Handled(s, Asked(s))
      BY <1>2, <2>3, DoUpdateHandled
    <3>2. UNCHANGED <<mPendingMsgs, resent>>
      BY <2>3 DEF deferVars
    <3>. QED  BY <1>1, <1>2, <2>1, <3>1, <3>2, HandledKeepsOwed
  <2>. QED  BY <1>5, <2>2, <2>3 DEF UpdateTrackingOptionsCommand
<1>6. ASSUME NEW s \in Session, StopTrackingCommand(s)
      PROVE  OwedInv'
  <2>1. UNCHANGED <<clients, mPendingMsgs, resent>>
    BY <1>6 DEF StopTrackingCommand, deferVars
  <2>2. Handled(s, Asked(s))
    BY <1>2, <1>6, DoStopHandled DEF StopTrackingCommand
  <2>. QED  BY <1>1, <1>2, <2>1, <2>2, HandledKeepsOwed
<1>7. CASE HandleResent
  <2>. DEFINE m == Head(resent)
  <2>1. resent # <<>> /\ resent' = Tail(resent) /\ UNCHANGED <<clients, mPendingMsgs>>
    BY <1>7 DEF HandleResent, clientVars
  <2>2. m.s \in Session /\ m.o \in Options
    <3>1. m \in DeferredRequest
      BY <2>1 DEF DeferOK
    <3>. QED  BY <3>1 DEF DeferredRequest
  <2>3. DoStart(m.s, m.o, owed) \/ DoUpdate(m.s, m.o, owed)
    BY <1>7 DEF HandleResent
  <2>. HIDE DEF m
  <2>4. Handled(m.s, owed)
    BY <1>2, <2>2, <2>3, DoStartHandled, DoUpdateHandled
  <2>. QED  BY <1>1, <1>2, <2>1, <2>2, <2>4, HandledKeepsOwed DEF m
<1>8. ASSUME NEW c \in Client, RemoveClient(c)
      PROVE  OwedInv'
  <2>1. /\ UNCHANGED <<owed, mPendingMsgs, resent>> /\ clients' = clients \ {c}
        /\ StopClientSessions(c)
    BY <1>8 DEF RemoveClient, deferVars
  <2>2. ASSUME NEW t \in Session, ClientOf[t] \in clients'
        PROVE  Waiting(t)' = Waiting(t)
    <3>1. Count(calls', Reporting(t)) = Count(calls, Reporting(t))
      BY <2>1, <2>2, RemovedReports
    <3>. QED  BY <2>1, <3>1, WaitingNext DEF Waiting
  <2>. QED  BY <1>1, <2>1, <2>2, SameOwed
<1>9. ASSUME NEW ok \in BOOLEAN, LocApiAnswers(ok)
      PROVE  OwedInv'
  BY <1>1, <1>9, AnswerKeepsOwed
<1>10. CASE HandleEngineUp
  <2>1. /\ UNCHANGED <<owed, clients>> /\ calls' = calls \o RestartSessions
        /\ resent' = resent \o mPendingMsgs /\ mPendingMsgs' = <<>>
    BY <1>10 DEF HandleEngineUp, clientVars
  <2>2. RestartSessions \in Seq(LocApiCall)
    BY RestartCalls, CallsConcat DEF RestartSessions
  <2>3. ASSUME NEW t \in Session
        PROVE  Waiting(t)' = Waiting(t)
    <3>. DEFINE n == Count(calls, Reporting(t))
                p == Count(mPendingMsgs, Of(t))
                r == Count(resent, Of(t))
    <3>1. n \in Nat /\ p \in Nat /\ r \in Nat
      BY PlacesFinite DEF CallsOK, DeferOK
    <3>2. Count(calls', Reporting(t)) = n + 0
      <4>1. Count(calls \o RestartSessions, Reporting(t)) = n + Count(RestartSessions, Reporting(t))
        BY <2>2, CountConcat DEF CallsOK
      <4>. QED  BY <2>1, <4>1, RestartReports
    <3>3. Count(mPendingMsgs', Of(t)) = 0
      BY <2>1, CountEmpty
    <3>4. Count(resent', Of(t)) = r + p
      <4>1. Count(resent \o mPendingMsgs, Of(t)) = r + p
        BY CountConcat DEF DeferOK
      <4>. QED  BY <2>1, <4>1
    <3>5. Waiting(t)' = n + 0 + 0 + (r + p)
      BY <3>1, <3>2, <3>3, <3>4, WaitingNext
    <3>6. Waiting(t) = n + p + r
      BY DEF Waiting
    <3>. HIDE DEF n, p, r
    <3>. QED  BY <3>1, <3>5, <3>6
  <2>. QED  BY <1>1, <2>1, <2>3, SameOwed
<1>11. CASE ModemRestart
  BY <1>3, <1>11 DEF ModemRestart, deferVars, clientVars
<1>12. CASE ModemOpens
  BY <1>3, <1>12 DEF ModemOpens, deferVars, clientVars
<1>13. CASE UNCHANGED vars
  BY <1>3, <1>13 DEF vars, deferVars, clientVars
<1>. QED  BY <1>4, <1>5, <1>6, <1>7, <1>8, <1>9, <1>10, <1>11, <1>12, <1>13 DEF Next

LEMMA InitOwed == Init => OwedInv
<1>. SUFFICES ASSUME Init  PROVE OwedInv
  OBVIOUS
<1>1. owed \in [Session -> Nat] /\ \A t \in Session : owed[t] = 0
  BY DEF Init
<1>2. \A t : Waiting(t) = 0
  BY CountEmpty DEF Init, Waiting
<1>. QED  BY <1>1, <1>2 DEF OwedInv

\* The tables, the queues and the counters keep their types; a session never has
\* fewer requests open than responses on their way.
THEOREM TypeCorrect == Spec => []TypeOK
<1>1. Init => Typed /\ CapsInv /\ OwedInv
  BY InitTyped, InitCaps, InitOwed
<1>2. Typed /\ CapsInv /\ OwedInv /\ [Next]_vars => (Typed /\ CapsInv /\ OwedInv)'
  BY TypedStep, CapsStep, OwedStep
<1>3. Typed /\ OwedInv => TypeOK
  BY DEF Typed, TablesOK, Table, CallsOK, DeferOK, ModemOK, ClientOK, UsedOK, OwedInv, TypeOK
<1>. QED  BY <1>1, <1>2, <1>3, PTL DEF Spec

\* reportResponse: when every client listens, and no update of a distance-based
\* session can fail, each request got exactly one response once nothing is under
\* way, also those put off until the capabilities of the engine were known.
THEOREM AnswersEveryRequest == Spec => [](Lossless => EveryRequestAnswered)
<1>1. Init => Typed /\ CapsInv /\ OwedInv
  BY InitTyped, InitCaps, InitOwed
<1>2. Typed /\ CapsInv /\ OwedInv /\ [Next]_vars => (Typed /\ CapsInv /\ OwedInv)'
  BY TypedStep, CapsStep, OwedStep
<1>3. Typed /\ CapsInv /\ OwedInv => (Lossless => EveryRequestAnswered)
  <2>. SUFFICES ASSUME CapsInv, OwedInv, Lossless, Quiet,
                       NEW s \in Session, ClientOf[s] \in clients
                PROVE  owed[s] = 0
    BY DEF EveryRequestAnswered
  <2>1. calls = <<>> /\ mPendingMsgs = <<>> /\ resent = <<>>
    BY DEF Quiet, CapsInv
  <2>2. Waiting(s) = 0
    BY <2>1, CountEmpty DEF Waiting
  <2>. QED  BY <2>2 DEF OwedInv
<1>. QED  BY <1>1, <1>2, <1>3, PTL DEF Spec

-----------------------------------------------------------------------------
(* What is unused is off, where clients ask for time-based tracking only.   *)
(* Again what counts is the last call in the queue: once no session is held *)
(* it is a call to stop.                                                    *)

OffQueue(q, m) ==
    /\ \A i \in DOMAIN q :
          Sets(q[i]) /\ (\A j \in DOMAIN q : j > i => ~ Sets(q[j])) => q[i].o = None
    /\ (\A i \in DOMAIN q : ~ Sets(q[i])) => m = None

Off(q, m, t) == Held(t) = {} => OffQueue(q, m)

PowerInv == powerOn = (Held(timeBased) \union Held(distanceBased) # {})

\* Without distance-based options nothing is put off, and every call sets the
\* modem's session.
TimeInv ==
    /\ Held(distanceBased) = {} /\ modemDistance = {}
    /\ mPendingMsgs = <<>> /\ resent = <<>>
    /\ \A i \in DOMAIN calls : Sets(calls[i])

OffInv ==
    NothingFailed =>
        /\ engine = "up"
        /\ Off(calls, modem, timeBased)
        /\ \A s \in Held(timeBased) : phase[s] # "stopped"

LEMMA AppendOff ==
    ASSUME NEW q \in Seq(LocApiCall), NEW m, NEW k \in LocApiCall, Sets(k), k.o = None
    PROVE  OffQueue(q \o <<k>>, m)
<1>. DEFINE r == q \o <<k>>
            n == Len(q) + 1
<1>1. /\ n \in DOMAIN r /\ r[n] = k
      /\ \A i \in DOMAIN r : i # n => n > i
  OBVIOUS
<1>. HIDE DEF r, n
<1>2. OffQueue(r, m)
  BY <1>1 DEF OffQueue
<1>. QED  BY <1>2 DEF r

LEMMA PopOff ==
    ASSUME NEW q \in Seq(LocApiCall), q # <<>>, NEW m, OffQueue(q, m),
           NEW n, n = IF Sets(Head(q)) THEN Head(q).o ELSE m
    PROVE  OffQueue(Tail(q), n)
<1>. DEFINE r == Tail(q)
<1>1. /\ \A i \in DOMAIN r : i \in Nat /\ i + 1 \in DOMAIN q /\ r[i] = q[i + 1]
      /\ \A j \in DOMAIN q : j \in Nat /\ (j > 1 => j - 1 \in DOMAIN r /\ r[j - 1] = q[j])
      /\ 1 \in DOMAIN q /\ q[1] = Head(q)
      /\ \A j \in DOMAIN q : j = 1 \/ j > 1
  OBVIOUS
<1>. HIDE DEF r
<1>2. ASSUME NEW i \in DOMAIN r, Sets(r[i]), \A j \in DOMAIN r : j > i => ~ Sets(r[j])
      PROVE  r[i].o = None
  <2>1. ASSUME NEW j \in DOMAIN q, j > i + 1  PROVE ~ Sets(q[j])
    <3>1. j > 1 /\ j - 1 \in DOMAIN r /\ j - 1 > i /\ r[j - 1] = q[j]
      BY <1>1, <2>1
    <3>. QED  BY <1>2, <3>1
  <2>. QED  BY <1>1, <1>2, <2>1 DEF OffQueue
<1>3. ASSUME \A i \in DOMAIN r : ~ Sets(r[i])
      PROVE  n = None
  <2>1. \A j \in DOMAIN q : j > 1 => ~ Sets(q[j])
    BY <1>1, <1>3
  <2>. QED  BY <1>1, <2>1 DEF OffQueue
<1>4. OffQueue(r, n)
  BY <1>2, <1>3 DEF OffQueue
<1>. QED  BY <1>4 DEF r

\* The power state is reported whenever a table changes.
LEMMA PowerStep ==
    ASSUME PowerInv, [Next]_vars
    PROVE  PowerInv'
<1>1. UNCHANGED sessionVars => PowerInv'
  BY DEF PowerInv, sessionVars, Held
<1>2. ReportPowerState => PowerInv'
  BY DEF PowerInv, ReportPowerState, Held
<1>3. ASSUME NEW s, NEW o, NEW due, DoStart(s, o, due)
      PROVE  PowerInv'
  BY <1>1, <1>2, <1>3 DEF DoStart, SaveTrackingSession
<1>4. ASSUME NEW s, NEW o, NEW due, DoUpdate(s, o, due)
      PROVE  PowerInv'
  BY <1>1, <1>2, <1>4 DEF DoUpdate, SwitchToDistance, SaveTrackingSession, EraseTrackingSession
<1>5. ASSUME NEW s, NEW due, DoStop(s, due)
      PROVE  PowerInv'
  BY <1>1, <1>2, <1>5 DEF DoStop, EraseTrackingSession
<1>6. ASSUME NEW ok \in BOOLEAN, LocApiAnswers(ok)
      PROVE  PowerInv'
  BY <1>1, <1>2, <1>6
  DEF LocApiAnswers, OnStart, OnUpdate, OnStopDistance, OnSwitch, OnRestart, OnSave, OnOther,
      SaveTrackingSession, EraseTrackingSession
<1>7. UNCHANGED vars \/ ModemRestart \/ ModemOpens \/ HandleEngineUp => PowerInv'
  BY <1>1 DEF vars, ModemRestart, ModemOpens, HandleEngineUp
<1>8. ASSUME NEW s \in Session, NEW o \in Options,
             StartTrackingCommand(s, o) \/ UpdateTrackingOptionsCommand(s, o)
      PROVE  PowerInv'
  BY <1>1, <1>3, <1>4, <1>8 DEF StartTrackingCommand, UpdateTrackingOptionsCommand, Defer
<1>9. ASSUME NEW s \in Session, StopTrackingCommand(s)
      PROVE  PowerInv'
  BY <1>5, <1>9 DEF StopTrackingCommand
<1>10. HandleResent => PowerInv'
  BY <1>3, <1>4 DEF HandleResent
<1>11. \A c \in Client : RemoveClient(c) => PowerInv'
  BY <1>1 DEF RemoveClient
<1>. QED  BY <1>6, <1>7, <1>8, <1>9, <1>10, <1>11 DEF Next

\* What handling a request for session s does to the queue and the table
KeepsOff(s) ==
    /\ UNCHANGED distanceBased
    /\ \A i \in DOMAIN calls' : Sets(calls'[i])
    /\ Off(calls, modem, timeBased) => Off(calls', modem, timeBased')
    /\ Held(timeBased') \subseteq Held(timeBased) \union {s}

\* At most one call is added, and it stops the modem if no session is left.
LEMMA OneSetting ==
    ASSUME CallsOK, TimeInv, NEW k \in LocApiCall, Sets(k)
    PROVE  \A i \in DOMAIN (calls \o <<k>>) : Sets((calls \o <<k>>)[i])
  BY DEF CallsOK, TimeInv

LEMMA CallAdded ==
    ASSUME CallsOK, TimeInv, UNCHANGED distanceBased, NEW s, NEW q, calls' = calls \o q,
           q = <<>> \/ \E k \in LocApiCall : q = <<k>> /\ Sets(k),
           Held(timeBased') \subseteq Held(timeBased) \union {s},
           Held(timeBased') # {} \/ \E k \in LocApiCall : q = <<k>> /\ Sets(k) /\ k.o = None
    PROVE  KeepsOff(s)
<1>1. CASE q = <<>>
  <2>1. calls' = calls
    BY <1>1 DEF CallsOK
  <2>2. Held(timeBased') # {}
    BY <1>1
  <2>. QED  BY <2>1, <2>2 DEF KeepsOff, TimeInv, Off
<1>2. ASSUME NEW k \in LocApiCall, q = <<k>>, Sets(k)
      PROVE  KeepsOff(s)
  <2>1. \A i \in DOMAIN calls' : Sets(calls'[i])
    BY <1>2, OneSetting
  <2>2. Off(calls', modem, timeBased')
    <3>1. k.o = None => OffQueue(calls', modem)
      BY <1>2, AppendOff DEF CallsOK
    <3>2. Held(timeBased') # {} \/ k.o = None
      BY <1>2
    <3>. QED  BY <3>1, <3>2 DEF Off
  <2>. QED  BY <2>1, <2>2 DEF KeepsOff
<1>. QED  BY <1>1, <1>2

LEMMA SettingCalls ==
    ASSUME TablesOK, NEW s \in Session, NEW o \in Options
    PROVE  /\ \/ StartMultiplex(s, o) = <<>>
              \/ \E k \in LocApiCall : StartMultiplex(s, o) = <<k>> /\ Sets(k)
           /\ s \in Held(timeBased) =>
                 /\ \/ UpdateMultiplex(s, o) = <<>>
                    \/ \E k \in LocApiCall : UpdateMultiplex(s, o) = <<k>> /\ Sets(k)
                 /\ \/ StopMultiplex(s) = <<>> /\ Held(timeBased) # {s}
                    \/ \E k \in LocApiCall :
                          /\ StopMultiplex(s) = <<k>> /\ Sets(k)
                          /\ Held(timeBased) = {s} => k.o = None
<1>1. /\ \A x \in Option : Sets(StartTimeBased(s, x)) /\ Sets(UpdateTracking(s, x))
      /\ Sets(StopTracking(s)) /\ StopTracking(s).o = None
  BY DEF StartTimeBased, UpdateTracking, StopTracking, Call, Sets
<1>2. \/ StartMultiplex(s, o) = <<>>
      \/ \E k \in LocApiCall : StartMultiplex(s, o) = <<k>> /\ Sets(k)
  BY <1>1, StartMultiplexCalls, CallTypes, Zenon DEF TablesOK
<1>3. ASSUME s \in Held(timeBased)
      PROVE  \/ UpdateMultiplex(s, o) = <<>>
             \/ \E k \in LocApiCall : UpdateMultiplex(s, o) = <<k>> /\ Sets(k)
  BY <1>1, <1>3, UpdateMultiplexCalls, CallTypes, Zenon DEF TablesOK
<1>4. ASSUME s \in Held(timeBased)
      PROVE  \/ StopMultiplex(s) = <<>> /\ Held(timeBased) # {s}
             \/ \E k \in LocApiCall :
                   /\ StopMultiplex(s) = <<k>> /\ Sets(k)
                   /\ Held(timeBased) = {s} => k.o = None
  <2>1. \/ StopMultiplex(s) = <<>> /\ Held(timeBased) \ {s} # {}
        \/ StopMultiplex(s) = <<StopTracking(s)>>
        \/ \E x \in Option :
              StopMultiplex(s) = <<StartTimeBased(s, x)>> /\ Held(timeBased) \ {s} # {}
    BY <1>4, StopMultiplexCalls DEF TablesOK
  <2>2. StopTracking(s) \in LocApiCall /\ \A x \in Option : StartTimeBased(s, x) \in LocApiCall
    BY CallTypes
  <2>3. Held(timeBased) \ {s} # {} => Held(timeBased) # {s}
    OBVIOUS
  <2>. QED  BY <1>1, <2>1, <2>2, <2>3, Zenon
<1>. QED  BY <1>2, <1>3, <1>4

LEMMA SavedTime ==
    ASSUME TablesOK, TimeOnly, NEW s \in Session, NEW o \in Options, SaveTrackingSession(s, o)
    PROVE  /\ UNCHANGED distanceBased
           /\ Held(timeBased') # {} /\ Held(timeBased') \subseteq Held(timeBased) \union {s}
<1>1. UNCHANGED distanceBased /\ timeBased' = [timeBased EXCEPT ![s] = o] /\ o # None
  BY DEF SaveTrackingSession, IsDistance, TimeOnly
<1>2. s \in Held(timeBased') /\ Held(timeBased') \subseteq Held(timeBased) \union {s}
  BY <1>1 DEF Held, TablesOK, Table
<1>. QED  BY <1>1, <1>2

LEMMA ErasedTime ==
    ASSUME TablesOK, NEW s \in Held(timeBased), EraseTrackingSession(s)
    PROVE  UNCHANGED distanceBased /\ Held(timeBased') = Held(timeBased) \ {s}
  BY DEF EraseTrackingSession, Held, TablesOK, Table

LEMMA SameOff ==
    ASSUME TimeInv, UNCHANGED <<sessionVars, calls>>, NEW s
    PROVE  KeepsOff(s)
  BY DEF TimeInv, KeepsOff, Off, Held, sessionVars

LEMMA DoStartOff ==
    ASSUME TablesOK, CallsOK, TimeOnly, TimeInv, NEW s \in Session, NEW o \in Options, NEW due,
           DoStart(s, o, due)
    PROVE  KeepsOff(s)
<1>1. CASE UNCHANGED <<sessionVars, calls>>
  BY <1>1, SameOff
<1>2. CASE calls' = calls \o StartMultiplex(s, o) /\ SaveTrackingSession(s, o)
  BY <1>2, SettingCalls, SavedTime, CallAdded
<1>3. ~ IsDistance(o)
  BY DEF IsDistance, TimeOnly
<1>. QED  BY <1>1, <1>2, <1>3 DEF DoStart

LEMMA DoUpdateOff ==
    ASSUME TablesOK, CallsOK, TimeOnly, TimeInv, NEW s \in Session, NEW o \in Options, NEW due,
           DoUpdate(s, o, due)
    PROVE  KeepsOff(s)
<1>1. CASE UNCHANGED <<sessionVars, calls>>
  BY <1>1, SameOff
<1>2. CASE /\ s \in Held(timeBased)
           /\ calls' = calls \o UpdateMultiplex(s, o) /\ SaveTrackingSession(s, o)
  BY <1>2, SettingCalls, SavedTime, CallAdded
<1>3. ~ o.distance /\ s \notin Held(distanceBased)
  BY DEF TimeOnly, TimeInv
<1>. QED  BY <1>1, <1>2, <1>3 DEF DoUpdate

\* A stopped session is gone.
LEMMA DoStopOff ==
    ASSUME TablesOK, CallsOK, TimeInv, NEW s \in Session, NEW due, DoStop(s, due)
    PROVE  KeepsOff(s) /\ Held(timeBased') = Held(timeBased) \ {s}
<1>1. CASE UNCHANGED <<sessionVars, calls>> /\ s \notin Held(timeBased)
  <2>1. Held(timeBased') = Held(timeBased) \ {s}
    BY <1>1 DEF sessionVars, Held
  <2>. QED  BY <1>1, <2>1, SameOff
<1>2. CASE s \in Held(timeBased) /\ calls' = calls \o StopMultiplex(s) /\ EraseTrackingSession(s)
  <2>1. UNCHANGED distanceBased /\ Held(timeBased') = Held(timeBased) \ {s}
    BY <1>2, ErasedTime
  <2>2. timeBased[s] \in Options
    BY <1>2, HeldOptions DEF TablesOK
  <2>3. Held(timeBased) # {s} => Held(timeBased') # {}
    BY <1>2, <2>1
  <2>4. \/ StopMultiplex(s) = <<>> /\ Held(timeBased) # {s}
        \/ \E k \in LocApiCall :
              /\ StopMultiplex(s) = <<k>> /\ Sets(k)
              /\ Held(timeBased) = {s} => k.o = None
    BY <1>2, <2>2, SettingCalls
  <2>5. Held(timeBased') \subseteq Held(timeBased) \union {s}
    BY <2>1
  <2>6. KeepsOff(s)
    BY <1>2, <2>1, <2>3, <2>4, <2>5, CallAdded
  <2>. QED  BY <2>1, <2>6
<1>3. s \notin Held(distanceBased)
  BY DEF TimeInv
<1>. QED  BY <1>1, <1>2, <1>3 DEF DoStop

\* A modem that is up and fails nothing does what it is told.
LEMMA AnswerOff ==
    ASSUME Typed, TimeOnly, TimeInv, NEW ok \in BOOLEAN, LocApiAnswers(ok)
    PROVE  /\ UNCHANGED <<modemDistance, engine>> /\ Held(distanceBased') = {}
           /\ calls # <<>> /\ calls' = Tail(calls) /\ \A i \in DOMAIN calls' : Sets(calls'[i])
           /\ used'["restarts"] = used["restarts"] /\ (used'["failures"] = 0 => used["failures"] = 0)
           /\ engine = "up" /\ used'["failures"] = 0 =>
                 /\ modem' = IF Sets(Head(calls)) THEN Head(calls).o ELSE modem
                 /\ UNCHANGED timeBased
<1>. DEFINE k == Head(calls)
<1>1. /\ calls # <<>> /\ k \in LocApiCall /\ ModemDoes(k, ok) /\ Sets(k)
      /\ \A i \in DOMAIN Tail(calls) : i + 1 \in DOMAIN calls /\ Tail(calls)[i] = calls[i + 1]
  <2>1. calls # <<>> /\ k \in LocApiCall /\ ModemDoes(k, ok)
    BY HeadCall DEF LocApiAnswers, Typed
  <2>2. /\ 1 \in DOMAIN calls /\ k = calls[1]
        /\ \A i \in DOMAIN Tail(calls) : i + 1 \in DOMAIN calls /\ Tail(calls)[i] = calls[i + 1]
    BY <2>1 DEF Typed, CallsOK
  <2>. QED  BY <2>1, <2>2 DEF TimeInv
<1>2. \A i \in DOMAIN Tail(calls) : Sets(Tail(calls)[i])
  BY <1>1 DEF TimeInv
<1>3. /\ "failures" \in DOMAIN Limit /\ "restarts" \in DOMAIN Limit \ {"failures"}
      /\ used["failures"] \in Nat
  BY DEF Limit, Typed, UsedOK
<1>4. Use("failures") => used'["restarts"] = used["restarts"] /\ used'["failures"] # 0
  BY <1>3, UseTypes DEF Typed
<1>. HIDE DEF k
<1>5. /\ UNCHANGED <<modemDistance, engine>>
      /\ used'["restarts"] = used["restarts"] /\ (used'["failures"] = 0 => used["failures"] = 0)
      /\ engine = "up" /\ used'["failures"] = 0 => ok
  BY <1>1, <1>4 DEF ModemDoes, Sets
<1>6. ok => modem' = k.o
  BY <1>1 DEF ModemDoes, Sets
<1>7. k.then \in {"erase", "restore", "report", "nothing"} /\ k.op # "stopDistance"
  BY <1>1 DEF LocApiCall, Sets
<1>8. /\ calls' = Tail(calls)
      /\ \/ UNCHANGED sessionVars
         \/ ~ ok /\ EraseTrackingSession(k.s)
         \/ ~ ok /\ k.then = "restore" /\ SaveTrackingSession(k.s, k.old)
  BY <1>7 DEF LocApiAnswers, OnStart, OnUpdate, OnOther, k
<1>9. Held(distanceBased') = {}
  <2>1. CASE distanceBased' = distanceBased \/ distanceBased' = [distanceBased EXCEPT ![k.s] = None]
    BY <2>1 DEF TimeInv, Held, Typed, TablesOK, Table
  <2>2. k.then = "restore" => ~ IsDistance(k.old)
    BY <1>1, CallFields DEF TimeOnly, IsDistance
  <2>. QED  BY <1>8, <2>1, <2>2 DEF sessionVars, EraseTrackingSession, SaveTrackingSession
<1>10. ok => UNCHANGED timeBased
  BY <1>8 DEF sessionVars
<1>. QED  BY <1>1, <1>2, <1>5, <1>6, <1>8, <1>9, <1>10 DEF k

\* A removed client's sessions are stopped by calls that set the modem.
LEMMA RemovedOff ==
    ASSUME TablesOK, CallsOK, TimeInv, NEW c, StopClientSessions(c)
    PROVE  /\ \A i \in DOMAIN calls' : Sets(calls'[i])
           /\ Held(timeBased) = {} => calls' = calls
<1>. DEFINE p == StopsOfTimeBased(c)
            r == StopsOfDistanceBased(c, "forget")
<1>1. InOrder({}) = <<>>
  BY FS_EmptySet DEF InOrder
<1>2. r = <<>>
  <2>. DEFINE S == {s \in Held(distanceBased) : ClientOf[s] = c}
  <2>1. r = [i \in DOMAIN InOrder(S) |-> StopDistance(InOrder(S)[i], None, "forget")]
    BY DEF StopsOfDistanceBased
  <2>2. S = {}
    BY DEF TimeInv
  <2>. HIDE DEF S
  <2>3. DOMAIN r = {} /\ r \in Seq(LocApiCall)
    BY <1>1, <2>1, <2>2, StopClientCalls
  <2>. HIDE DEF r
  <2>. QED  BY <2>3
<1>3. Held(timeBased) = {} => p = <<>>
  BY <1>1 DEF StopsOfTimeBased
<1>4. p \in Seq(LocApiCall) /\ \A i \in DOMAIN p : Sets(p[i])
  <2>1. \A s, x : Sets(StopTracking(s)) /\ Sets(StartTimeBased(s, x))
    BY DEF StopTracking, StartTimeBased, Call, Sets
  <2>. SUFFICES ASSUME NEW i \in DOMAIN p  PROVE Sets(p[i])
    BY StopClientCalls
  <2>2. PICK s \in Session : p[i] = StopTracking(s) \/ \E x \in Option : p[i] = StartTimeBased(s, x)
    BY StopClientCalls
  <2>. QED  BY <2>1, <2>2
<1>5. calls' = (calls \o p) \o r
  BY DEF StopClientSessions
<1>. HIDE DEF p, r
<1>6. calls' = calls \o p
  <2>1. calls \o p \in Seq(LocApiCall)
    BY <1>4, CallsConcat DEF CallsOK
  <2>. QED  BY <1>2, <1>5, <2>1
<1>7. \A i \in DOMAIN calls' : \/ i \in DOMAIN calls /\ calls'[i] = calls[i]
                               \/ i - Len(calls) \in DOMAIN p /\ calls'[i] = p[i - Len(calls)]
  BY <1>4, <1>6 DEF CallsOK
<1>8. \A i \in DOMAIN calls' : Sets(calls'[i])
  BY <1>4, <1>7 DEF TimeInv
<1>. QED  BY <1>3, <1>6, <1>8 DEF CallsOK

LEMMA RestartedOff ==
    ASSUME TablesOK, CallsOK, TimeInv, HandleEngineUp
    PROVE  \A i \in DOMAIN calls' : Sets(calls'[i])
<1>. DEFINE p == RestartTimeBased
<1>1. RestartDistanceBased = <<>>
  BY FS_EmptySet DEF RestartDistanceBased, InOrder, TimeInv
<1>2. p \in Seq(LocApiCall) /\ \A i \in DOMAIN p : Sets(p[i])
  <2>1. \A x : Sets(Call("start", 0, x, "nothing", None))
    BY DEF Call, Sets
  <2>. QED  BY <2>1, RestartCalls
<1>3. calls' = calls \o p
  <2>1. calls' = calls \o (p \o RestartDistanceBased)
    BY DEF HandleEngineUp, RestartSessions
  <2>2. p \o <<>> = p
    BY <1>2
  <2>. QED  BY <1>1, <2>1, <2>2
<1>. HIDE DEF p
<1>4. \A i \in DOMAIN calls' : \/ i \in DOMAIN calls /\ calls'[i] = calls[i]
                               \/ i - Len(calls) \in DOMAIN p /\ calls'[i] = p[i - Len(calls)]
  BY <1>2, <1>3 DEF CallsOK
<1>. QED  BY <1>2, <1>4 DEF TimeInv

LEMMA TimeStep ==
    ASSUME Typed, TimeOnly, TimeInv, [Next]_vars
    PROVE  TimeInv'
<1>. USE DEF Typed
<1>1. ASSUME UNCHANGED <<modemDistance, distanceBased, mPendingMsgs, resent>>,
             \A i \in DOMAIN calls' : Sets(calls'[i])
      PROVE  TimeInv'
  BY <1>1 DEF TimeInv, Held, Sets
<1>2. calls' = calls => \A i \in DOMAIN calls' : Sets(calls'[i])
  BY DEF TimeInv
<1>3. \A o \in Options : ~ Defers(o)
  BY DEF Defers, TimeOnly
<1>4. ASSUME NEW s \in Session, NEW o \in Options,
             StartTrackingCommand(s, o) \/ UpdateTrackingOptionsCommand(s, o)
      PROVE  TimeInv'
  <2>1. KeepsOff(s)
    BY <1>3, <1>4, DoStartOff, DoUpdateOff DEF StartTrackingCommand, UpdateTrackingOptionsCommand
  <2>2. UNCHANGED <<modemDistance, mPendingMsgs, resent>>
    BY <1>3, <1>4 DEF StartTrackingCommand, UpdateTrackingOptionsCommand, modemVars, deferVars
  <2>. QED  BY <1>1, <2>1, <2>2 DEF KeepsOff
<1>5. ASSUME NEW s \in Session, StopTrackingCommand(s)
      PROVE  TimeInv'
  <2>1. KeepsOff(s)
    BY <1>5, DoStopOff DEF StopTrackingCommand
  <2>. QED  BY <1>1, <1>5, <2>1 DEF StopTrackingCommand, KeepsOff, modemVars, deferVars
<1>6. ~ HandleResent
  BY DEF HandleResent, TimeInv
<1>7. ASSUME NEW c \in Client, RemoveClient(c)
      PROVE  TimeInv'
  <2>1. \A i \in DOMAIN calls' : Sets(calls'[i])
    BY <1>7, RemovedOff DEF RemoveClient
  <2>. QED  BY <1>1, <1>7, <2>1 DEF RemoveClient, modemVars, deferVars, sessionVars
<1>8. ASSUME NEW ok \in BOOLEAN, LocApiAnswers(ok)
      PROVE  TimeInv'
  <2>1. UNCHANGED deferVars
    BY <1>8 DEF LocApiAnswers
  <2>2. /\ UNCHANGED modemDistance /\ Held(distanceBased') = {}
        /\ \A i \in DOMAIN calls' : Sets(calls'[i])
    BY <1>8, AnswerOff
  <2>. QED  BY <2>1, <2>2 DEF TimeInv, Held, Sets, deferVars
<1>9. CASE HandleEngineUp
  <2>1. \A i \in DOMAIN calls' : Sets(calls'[i])
    BY <1>9, RestartedOff
  <2>2. UNCHANGED <<modemDistance, distanceBased>> /\ resent' = <<>> /\ mPendingMsgs' = <<>>
    BY <1>9 DEF HandleEngineUp, TimeInv, sessionVars
  <2>. QED  BY <2>1, <2>2 DEF TimeInv, Held, Sets
<1>10. CASE ModemRestart
  BY <1>2, <1>10 DEF ModemRestart, TimeInv, Held, Sets, sessionVars, deferVars
<1>11. CASE ModemOpens
  BY <1>1, <1>2, <1>11 DEF ModemOpens, sessionVars, deferVars
<1>12. CASE UNCHANGED vars
  BY <1>1, <1>2, <1>12 DEF vars, sessionVars, deferVars, modemVars
<1>. QED  BY <1>4, <1>5, <1>6, <1>7, <1>8, <1>9, <1>10, <1>11, <1>12 DEF Next

LEMMA OffStep ==
    ASSUME Typed, TimeOnly, TimeInv, OffInv, [Next]_vars
    PROVE  OffInv'
<1>. USE DEF Typed
<1>1. {"updates", "failures", "removals", "restarts"} = DOMAIN Limit
  BY DEF Limit
<1>2. SUFFICES ASSUME InitialEngine = "up", used'["restarts"] = 0, used'["failures"] = 0
               PROVE  /\ engine' = "up"
                      /\ Off(calls', modem', timeBased')
                      /\ \A s \in Held(timeBased') : phase'[s] # "stopped"
  BY DEF OffInv, NothingFailed, Off, OffQueue, Held, Sets
<1>. DEFINE Goal == /\ engine' = "up"
                    /\ Off(calls', modem', timeBased')
                    /\ \A s \in Held(timeBased') : phase'[s] # "stopped"
<1>3. ASSUME used["restarts"] = 0, used["failures"] = 0
      PROVE  /\ engine = "up"
             /\ Off(calls, modem, timeBased)
             /\ \A s \in Held(timeBased) : phase[s] # "stopped"
  BY <1>2, <1>3 DEF OffInv, NothingFailed
<1>4. ASSUME UNCHANGED <<modem, engine>>, NEW s \in Session, KeepsOff(s),
             used["restarts"] = 0, used["failures"] = 0,
             \A t \in Session \ {s} : phase'[t] = phase[t],
             s \in Held(timeBased') => phase'[s] # "stopped"
      PROVE  Goal
  <2>1. Held(timeBased) \subseteq Session
    BY DEF Held
  <2>. QED  BY <1>3, <1>4, <2>1 DEF KeepsOff
<1>5. ASSUME UNCHANGED <<modem, engine, timeBased, phase>>, used["restarts"] = 0, used["failures"] = 0,
             calls' = calls \/ Held(timeBased) # {}
      PROVE  Goal
  BY <1>3, <1>5 DEF Off, OffQueue, Held, Sets
<1>6. \A o \in Options : ~ Defers(o)
  BY DEF Defers, TimeOnly
<1>7. ASSUME NEW s \in Session, NEW o \in Options, StartTrackingCommand(s, o)
      PROVE  Goal
  <2>1. KeepsOff(s)
    BY <1>6, <1>7, DoStartOff DEF StartTrackingCommand
  <2>2. /\ UNCHANGED <<modem, engine, used>> /\ phase' = [phase EXCEPT ![s] = "started"]
    BY <1>7 DEF StartTrackingCommand, modemVars
  <2>3. \A t \in Session : phase'[t] = IF t = s THEN "started" ELSE phase[t]
    BY <2>2 DEF ClientOK
  <2>. QED  BY <1>2, <1>4, <2>1, <2>2, <2>3
<1>8. ASSUME NEW s \in Session, NEW o \in Options, UpdateTrackingOptionsCommand(s, o)
      PROVE  Goal
  <2>1. KeepsOff(s)
    BY <1>6, <1>8, DoUpdateOff DEF UpdateTrackingOptionsCommand
  <2>2. UNCHANGED <<modem, engine, phase>> /\ phase[s] = "started"
    BY <1>8 DEF UpdateTrackingOptionsCommand, modemVars, clientVars
  <2>3. used'["restarts"] = used["restarts"] /\ used'["failures"] = used["failures"]
    BY <1>1, <1>8, UseTypes DEF UpdateTrackingOptionsCommand
  <2>. QED  BY <1>2, <1>4, <2>1, <2>2, <2>3
<1>9. ASSUME NEW s \in Session, StopTrackingCommand(s)
      PROVE  Goal
  <2>1. KeepsOff(s) /\ s \notin Held(timeBased')
    BY <1>9, DoStopOff DEF StopTrackingCommand
  <2>2. /\ UNCHANGED <<modem, engine, used>> /\ phase' = [phase EXCEPT ![s] = "stopped"]
    BY <1>9 DEF StopTrackingCommand, modemVars
  <2>3. \A t \in Session \ {s} : phase'[t] = phase[t]
    BY <2>2 DEF ClientOK
  <2>. QED  BY <1>2, <1>4, <2>1, <2>2, <2>3
<1>10. ~ HandleResent
  BY DEF HandleResent, TimeInv
<1>11. ASSUME NEW c \in Client, RemoveClient(c)
       PROVE  Goal
  <2>1. UNCHANGED <<modem, engine, timeBased, phase>>
    BY <1>11 DEF RemoveClient, modemVars, sessionVars
  <2>2. used'["restarts"] = used["restarts"] /\ used'["failures"] = used["failures"]
    BY <1>1, <1>11, UseTypes DEF RemoveClient
  <2>3. calls' = calls \/ Held(timeBased) # {}
    BY <1>11, RemovedOff DEF RemoveClient
  <2>. QED  BY <1>2, <1>5, <2>1, <2>2, <2>3
<1>12. ASSUME NEW ok \in BOOLEAN, LocApiAnswers(ok)
       PROVE  Goal
  <2>1. used["restarts"] = 0 /\ used["failures"] = 0
    BY <1>2, <1>12, AnswerOff
  <2>2. /\ UNCHANGED <<engine, timeBased>> /\ calls # <<>> /\ calls' = Tail(calls)
        /\ modem' = IF Sets(Head(calls)) THEN Head(calls).o ELSE modem
    BY <1>2, <1>3, <1>12, <2>1, AnswerOff
  <2>3. UNCHANGED phase
    BY <1>12 DEF LocApiAnswers, clientVars
  <2>4. OffQueue(calls, modem) => OffQueue(calls', modem')
    BY <2>2, PopOff DEF CallsOK
  <2>. QED  BY <1>3, <2>1, <2>2, <2>3, <2>4 DEF Off, Held
<1>13. ASSUME HandleEngineUp \/ ModemOpens
       PROVE  FALSE
  BY <1>2, <1>3, <1>13 DEF HandleEngineUp, ModemOpens
<1>14. ASSUME ModemRestart
       PROVE  FALSE
  <2>1. used'["restarts"] > 0
    BY <1>1, <1>14, UseTypes DEF ModemRestart
  <2>. QED  BY <1>2, <2>1
<1>15. CASE UNCHANGED vars
  BY <1>2, <1>5, <1>15 DEF vars, modemVars, sessionVars, clientVars
<1>. QED  BY <1>7, <1>8, <1>9, <1>10, <1>11, <1>12, <1>13, <1>14, <1>15 DEF Next

LEMMA InitOff == Init => PowerInv /\ TimeInv /\ OffInv
<1>. SUFFICES ASSUME Init  PROVE PowerInv /\ TimeInv /\ OffInv
  OBVIOUS
<1>1. Held(timeBased) = {} /\ Held(distanceBased) = {} /\ DOMAIN calls = {}
  BY DEF Init, Held
<1>2. PowerInv
  BY <1>1 DEF Init, PowerInv
<1>3. TimeInv
  BY <1>1 DEF Init, TimeInv
<1>4. OffInv
  BY <1>1 DEF Init, OffInv, NothingFailed, Off, OffQueue
<1>. QED  BY <1>2, <1>3, <1>4

\* stopTimeBasedTrackingMultiplex and reportPowerStateIfChanged, where clients ask for
\* time-based tracking only: while the modem does all it is told, a stopped
\* session never comes back, and without sessions the modem does not track.
THEOREM OffWhenTimeOnly ==
    ASSUME TimeOnly
    PROVE  Spec => []OffWhenUnused
<1>1. Init => Typed /\ PowerInv /\ TimeInv /\ OffInv
  BY InitTyped, InitOff
<1>2. Typed /\ PowerInv /\ TimeInv /\ OffInv /\ [Next]_vars
        => (Typed /\ PowerInv /\ TimeInv /\ OffInv)'
  BY TypedStep, PowerStep, TimeStep, OffStep
<1>3. Typed /\ PowerInv /\ TimeInv /\ OffInv => OffWhenUnused
  <2>. SUFFICES ASSUME Typed, PowerInv, TimeInv, OffInv, Quiet, NothingFailed
                PROVE  /\ \A s \in Session : phase[s] = "stopped" =>
                             s \notin Held(timeBased) \union Held(distanceBased)
                       /\ Held(timeBased) = {} => modem = None
                       /\ ~ powerOn => modem = None /\ modemDistance = {}
    BY DEF OffWhenUnused, StoppedStaysStopped
  <2>1. Held(timeBased) = {} => modem = None
    BY DEF OffInv, Off, OffQueue, Quiet
  <2>2. Held(distanceBased) = {} /\ modemDistance = {}
    BY DEF TimeInv
  <2>. QED  BY <2>1, <2>2 DEF OffInv, PowerInv
<1>. QED  BY <1>1, <1>2, <1>3, PTL DEF Spec

-----------------------------------------------------------------------------
(* Odcpi: the types, and two invariants that are inductive once the types   *)
(* are known.                                                               *)

USE OdcpiAssumption DEF OdcpiAssumption

(* Taking a message that is no expiry loses none of the expiries behind it. *)
LEMMA ExpiryBehindHead ==
    ASSUME msgQ \in Seq(Message), msgQ # <<>>, Head(msgQ).type # "expire",
           NEW i \in DOMAIN msgQ, msgQ[i].type = "expire"
    PROVE  \E j \in DOMAIN Tail(msgQ) : Tail(msgQ)[j].type = "expire"
<1>1. i \in 1..Len(msgQ) /\ i # 1
  OBVIOUS
<1>2. i - 1 \in DOMAIN Tail(msgQ) /\ Tail(msgQ)[i - 1] = msgQ[i]
  BY <1>1
<1>. QED  BY <1>2

LEMMA ExpiryBeforeEnd ==
    ASSUME msgQ \in Seq(Message), NEW m \in Message,
           NEW i \in DOMAIN msgQ, msgQ[i].type = "expire"
    PROVE  \E j \in DOMAIN Append(msgQ, m) : Append(msgQ, m)[j].type = "expire"
<1>1. i \in DOMAIN Append(msgQ, m) /\ Append(msgQ, m)[i] = msgQ[i]
  OBVIOUS
<1>. QED  BY <1>1

-----------------------------------------------------------------------------
(* Every variable keeps its type: requestOdcpi, odcpiTimerExpire and the    *)
(* timer's callback as they are called on their threads.                    *)
THEOREM OdcpiTypeCorrect == OdcpiSpec => []OdcpiTypeOK
<1>1. OdcpiInit => OdcpiTypeOK
  <2>1. OdcpiInit => FlagsOK
    BY DEF OdcpiInit, FlagsOK
  <2>2. OdcpiInit => DataOK
    BY DEF OdcpiInit, DataOK
  <2>. QED  BY <2>1, <2>2 DEF OdcpiTypeOK
<1>2. OdcpiTypeOK /\ [OdcpiNext]_odcpiVars => FlagsOK'
  <2> SUFFICES ASSUME OdcpiTypeOK, [OdcpiNext]_odcpiVars PROVE FlagsOK'
    OBVIOUS
  <2> USE DEF OdcpiTypeOK, FlagsOK, timerVars
  <2>1. ASSUME NEW m \in Message, Arrive(m) PROVE FlagsOK'
    BY <2>1 DEF Arrive
  <2>2. CASE Expire \/ TimeOutCallback
    BY <2>2 DEF Expire, TimeOutCallback
  <2>3. CASE InitOdcpi \/ RequestOdcpiStop \/ RequestOdcpiUnsupported \/ OdcpiEngineUp
    BY <2>3 DEF InitOdcpi, RequestOdcpiStop, RequestOdcpiUnsupported, OdcpiEngineUp, AskNothing
  <2>4. CASE RequestOdcpi
    <3>1. Head(msgQ) \in Message /\ Head(msgQ).type = "start"
      BY <2>4 DEF DataOK, RequestOdcpi, Take
    <3>2. Head(msgQ).emergency \in BOOLEAN
      BY <3>1 DEF Message
    <3>. QED  BY <2>4, <3>2 DEF RequestOdcpi, Ask, AskNothing, Start, Restart
  <2>5. CASE OdcpiTimerExpire
    BY <2>5 DEF OdcpiTimerExpire, Ask, AskNothing, Start, Restart, Stop
  <2>6. CASE UNCHANGED odcpiVars
    BY <2>6 DEF odcpiVars
  <2>. QED  BY <2>1, <2>2, <2>3, <2>4, <2>5, <2>6 DEF OdcpiNext, Adapter
<1>3. OdcpiTypeOK /\ [OdcpiNext]_odcpiVars => DataOK'
  <2> SUFFICES ASSUME OdcpiTypeOK, [OdcpiNext]_odcpiVars PROVE DataOK'
    OBVIOUS
  <2> USE DEF OdcpiTypeOK, DataOK
  <2>1. ASSUME NEW m \in Message, Arrive(m) PROVE DataOK'
    BY <2>1 DEF Arrive
  <2>2. CASE Expire \/ TimeOutCallback
    <3>1. [type |-> "expire"] \in Message
      BY DEF Message
    <3>2. msgQ \in Seq(Message) /\ (msgQ' = msgQ \/ msgQ' = Append(msgQ, [type |-> "expire"]))
      BY <2>2 DEF Expire, TimeOutCallback
    <3>3. msgQ' \in Seq(Message)
      BY <3>1, <3>2
    <3>. QED  BY <2>2, <3>3 DEF Expire, TimeOutCallback
  <2>3. ASSUME NEW type, Take(type) PROVE msgQ' \in Seq(Message) /\ events' \in 0..MaxEvents
    BY <2>3 DEF Take
  <2>4. CASE InitOdcpi \/ RequestOdcpiStop \/ RequestOdcpiUnsupported \/ OdcpiEngineUp
    BY <2>4, <2>3 DEF InitOdcpi, RequestOdcpiStop, RequestOdcpiUnsupported, OdcpiEngineUp,
                      AskNothing
  <2>5. CASE RequestOdcpi
    BY <2>5, <2>3 DEF RequestOdcpi, Ask, AskNothing
  <2>6. CASE OdcpiTimerExpire
    BY <2>6, <2>3 DEF OdcpiTimerExpire, Ask, AskNothing
  <2>7. CASE UNCHANGED odcpiVars
    BY <2>7 DEF odcpiVars
  <2>. QED  BY <2>1, <2>2, <2>4, <2>5, <2>6, <2>7 DEF OdcpiNext, Adapter
<1>. QED  BY <1>1, <1>2, <1>3, PTL DEF OdcpiSpec, OdcpiTypeOK

-----------------------------------------------------------------------------
(* While the modem's request is active the timer is marked as running, and  *)
(* a timer marked as running is going to be heard of: no order of requests, *)
(* stops, restarts of the modem and expiries loses the next retry.          *)
THEOREM RetryAlwaysComing == OdcpiSpec => []RetryComing
<1>1. OdcpiInit => RetryComing
  BY DEF OdcpiInit, RetryComing
<1>2. OdcpiTypeOK /\ RetryComing /\ [OdcpiNext]_odcpiVars => RetryComing'
  <2> SUFFICES ASSUME OdcpiTypeOK, RetryComing, [OdcpiNext]_odcpiVars PROVE RetryComing'
    OBVIOUS
  <2> USE DEF OdcpiTypeOK, FlagsOK, DataOK, RetryComing, ExpiryComing, timerVars
  <2>1. ASSUME NEW m \in Message, Arrive(m) PROVE RetryComing'
    BY <2>1, ExpiryBeforeEnd DEF Arrive
  <2>2. CASE Expire
    BY <2>2 DEF Expire
  <2>3. CASE TimeOutCallback
    <3>1. Len(msgQ) + 1 \in DOMAIN msgQ' /\ msgQ'[Len(msgQ) + 1].type = "expire"
      BY <2>3 DEF TimeOutCallback
    <3>. QED  BY <2>3, <3>1 DEF TimeOutCallback
  <2>4. ASSUME NEW type \in {"init", "start", "stop", "engineUp"}, Take(type),
               UNCHANGED timerVars
        PROVE  mActive' => ExpiryComing'
    BY <2>4, ExpiryBehindHead DEF Take
  <2>5. CASE InitOdcpi
    BY <2>5, <2>4 DEF InitOdcpi
  <2>6. CASE RequestOdcpi
    <3>1. CASE UNCHANGED timerVars
      <4>1. mActive
        BY <2>6, <3>1 DEF RequestOdcpi, Start, Restart
      <4>. QED  BY <2>6, <3>1, <4>1, <2>4 DEF RequestOdcpi
    <3>2. CASE Start
      BY <2>6, <3>2 DEF Start
    <3>. QED  BY <2>6, <3>1, <3>2 DEF RequestOdcpi, Restart
  <2>7. CASE RequestOdcpiStop
    BY <2>7, <2>4 DEF RequestOdcpiStop
  <2>8. CASE RequestOdcpiUnsupported
    BY <2>8, <2>4 DEF RequestOdcpiUnsupported
  <2>9. CASE OdcpiEngineUp
    BY <2>9, <2>4 DEF OdcpiEngineUp
  <2>10. CASE OdcpiTimerExpire
    BY <2>10 DEF OdcpiTimerExpire, Start, Restart, Stop
  <2>11. CASE UNCHANGED odcpiVars
    BY <2>11 DEF odcpiVars
  <2>. QED
    BY <2>1, <2>2, <2>3, <2>5, <2>6, <2>7, <2>8, <2>9, <2>10, <2>11 DEF OdcpiNext, Adapter
<1>. QED  BY <1>1, <1>2, OdcpiTypeCorrect, PTL DEF OdcpiSpec

-----------------------------------------------------------------------------
(* An emergency the adapter has taken down is what the framework was last   *)
(* asked for, whatever came before it and whichever timer ran.              *)
THEOREM EmergencyAlwaysReached == OdcpiSpec => []EmergencyReached
<1>1. OdcpiInit => EmergencyReached
  BY DEF OdcpiInit, EmergencyReached
<1>2. OdcpiTypeOK /\ EmergencyReached /\ [OdcpiNext]_odcpiVars => EmergencyReached'
  <2> SUFFICES ASSUME OdcpiTypeOK, EmergencyReached, [OdcpiNext]_odcpiVars PROVE EmergencyReached'
    OBVIOUS
  <2> USE DEF OdcpiTypeOK, FlagsOK, EmergencyReached
  <2>1. ASSUME NEW m \in Message, Arrive(m) PROVE EmergencyReached'
    BY <2>1 DEF Arrive
  <2>2. CASE Expire \/ TimeOutCallback
    BY <2>2 DEF Expire, TimeOutCallback
  <2>3. CASE InitOdcpi \/ RequestOdcpiStop \/ RequestOdcpiUnsupported \/ OdcpiEngineUp
    BY <2>3 DEF InitOdcpi, RequestOdcpiStop, RequestOdcpiUnsupported, OdcpiEngineUp, AskNothing
  <2>4. CASE RequestOdcpi
    BY <2>4 DEF RequestOdcpi, Ask, AskNothing
  <2>5. CASE OdcpiTimerExpire
    BY <2>5 DEF OdcpiTimerExpire, Ask, AskNothing
  <2>6. CASE UNCHANGED odcpiVars
    BY <2>6 DEF odcpiVars
  <2>. QED  BY <2>1, <2>2, <2>3, <2>4, <2>5, <2>6 DEF OdcpiNext, Adapter
<1>. QED  BY <1>1, <1>2, OdcpiTypeCorrect, PTL DEF OdcpiSpec

=============================================================================
