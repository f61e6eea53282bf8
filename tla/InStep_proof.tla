---------------------------- MODULE InStep_proof ----------------------------
(***************************************************************************)
(* A node gets into step with a gateway and stays there: the arithmetic of *)
(* sync_to_gateway is right for every time since the beacon; a scan leaves *)
(* the node in the slots of the strongest gateway that it has heard; and   *)
(* the deadlines of the timer and the correction of the drift are right    *)
(* although the clock wraps.                                               *)
(***************************************************************************)
EXTENDS ScanSync, DriftFix, FiniteSetTheorems, WellFoundedInduction, TLAPS

-----------------------------------------------------------------------------
(* The slots of the gateway. *)

\* Quotient and remainder of a time by the length of a slot.
LEMMA SlotsAndRest ==
    ASSUME NEW e \in Nat
    PROVE  /\ e \div SlotTime \in Nat
           /\ e % SlotTime \in 0 .. SlotTime - 1
           /\ e = SlotTime * (e \div SlotTime) + (e % SlotTime)
BY TimingAssumption

\* The unsigned subtractions of sync_to_gateway do not underflow, and the node has
\* between a part of a slot and two slots to get ready (mac.c).
THEOREM DelayInRange ==
    ASSUME NEW e \in Nat
    PROVE  /\ DispatchDelay(e) \in Nat
           /\ 2 * DispatchDelay(e) >= SlotTime - 2 * Correction
           /\ DispatchDelay(e) < 2 * SlotTime
<1>1. e % SlotTime \in 0 .. SlotTime - 1
  BY SlotsAndRest
<1>2. SlotTime \div 2 \in Nat /\ 2 * (SlotTime \div 2) <= SlotTime
      /\ SlotTime < 2 * (SlotTime \div 2) + 2
  BY TimingAssumption
<1> QED
  BY <1>1, <1>2, TimingAssumption DEF DispatchDelay, Skips

\* The timer fires where a slot of the gateway starts, AsnCount slots after the one of the
\* beacon: `e' is counted from the time stamp of the beacon, Correction into that slot (mac.c).
THEOREM DispatchAtSlotStart ==
    ASSUME NEW e \in Nat
    PROVE  Correction + e + DispatchDelay(e) = SlotTime * AsnCount(e)
<1>1. /\ e \div SlotTime \in Nat /\ e % SlotTime \in Nat
      /\ e = SlotTime * (e \div SlotTime) + (e % SlotTime)
  BY SlotsAndRest
<1>2. CASE Skips(e)
  <2>1. SlotTime * ((e \div SlotTime) + 1 + 1) = SlotTime * (e \div SlotTime) + SlotTime + SlotTime
    BY <1>1, TimingAssumption
  <2> QED
    BY <1>1, <1>2, <2>1, TimingAssumption DEF DispatchDelay, AsnCount
<1>3. CASE ~Skips(e)
  <2>1. SlotTime * ((e \div SlotTime) + 1 + 0) = SlotTime * (e \div SlotTime) + SlotTime
    BY <1>1, TimingAssumption
  <2> QED
    BY <1>1, <1>3, <2>1, TimingAssumption DEF DispatchDelay, AsnCount
<1> QED
  BY <1>2, <1>3

-----------------------------------------------------------------------------
(* The scan list. *)

\* Some reading is recorded at a place.
Filled(i) == scans[i] # NoReading

\* A reading is a beacon that has been received, and the number of the slot after it.
Sound(r) ==
    /\ r \in Reading
    /\ r.at <= time
    /\ BeaconAt(r.gateway, r.at)
    /\ r.asn = SlotAt(r.gateway, r.at) + 1

ScanTypes ==
    /\ time \in Nat /\ started \in Nat
    /\ started <= time
    /\ scanning \in BOOLEAN /\ dated \in BOOLEAN
    /\ scanning => time <= started + ScanMax
    /\ scans \in [Place -> Reading \cup {NoReading}]
    /\ heard \in [Gateway -> Rssi \cup {NoReading}]

AllSound == \A i \in Place : Filled(i) => Sound(scans[i])

\* A gateway has one place.
OnePlaceEach ==
    \A i, j \in Place : Filled(i) /\ Filled(j) /\ scans[i].gateway = scans[j].gateway => i = j

\* A scan whose stamps can be compared: they were in order before it, and the clock has not
\* wrapped since.
Comparable == scanning /\ dated /\ started \div Period = time \div Period

AllInOrder == \A i \in Place : Filled(i) => InOrder(scans[i])

\* The readings of gateways heard in the scan are of this scan, and the latest.
HeardIsFresh ==
    \A i \in Place : Filled(i) /\ scans[i].gateway \in HeardGateways
        => scans[i].at >= started /\ scans[i].rssi = heard[scans[i].gateway]

\* All others are older.
UnheardIsOlder ==
    \A i, j \in Place : /\ Filled(i) /\ scans[i].gateway \notin HeardGateways
                        /\ Filled(j) /\ scans[j].gateway \in HeardGateways
                        => scans[i].at < scans[j].at

\* The gateways heard are listed, as long as there is a place for each.
HeardIsListed ==
    Cardinality(HeardGateways) <= ListSize
        => \A g \in HeardGateways : \E i \in Place : Filled(i) /\ scans[i].gateway = g

ListInv ==
    Comparable => AllInOrder /\ HeardIsFresh /\ UnheardIsOlder /\ HeardIsListed

ScanInv == ScanTypes /\ AllSound /\ OnePlaceEach /\ ListInv

\* Some place has the least of what is measured.
LEMMA LeastExists ==
    ASSUME NEW S, S # {}, NEW f \in [S -> Nat]
    PROVE  \E i \in S : \A j \in S : f[i] <= f[j]
<1> DEFINE values == {f[i] : i \in S}
<1>1. values \subseteq Nat /\ values # {}
  OBVIOUS
<1>2. IsWellFoundedOn(OpToRel(<, Nat), Nat)
  BY NatLessThanWellFounded
<1>3. PICK m \in values : \A k \in values : <<k, m>> \notin OpToRel(<, Nat)
  BY <1>1, <1>2, WFMin
<1>4. \A k \in values : ~(k < m)
  BY <1>1, <1>3 DEF OpToRel
<1>5. PICK i \in S : f[i] = m
  OBVIOUS
<1>6. \A j \in S : f[j] \in Nat /\ f[j] \in values
  OBVIOUS
<1>7. \A j \in S : f[i] <= f[j]
  BY <1>4, <1>5, <1>6
<1> QED
  BY <1>7

LEMMA FirstIsOne ==
    ASSUME NEW S \in SUBSET Place, S # {}
    PROVE  FirstOf(S) \in S
<1> DEFINE f == [i \in S |-> i]
<1>1. f \in [S -> Nat]
  BY ScanAssumption DEF Place
<1>2. PICK i \in S : \A j \in S : f[i] <= f[j]
  BY <1>1, LeastExists, Zenon
<1>3. \E k \in S : \A j \in S : k <= j
  BY <1>2
<1> QED
  BY <1>3 DEF FirstOf

\* The clock shows times of one period in their order.
LEMMA ClockInOrder ==
    ASSUME NEW a \in Nat, NEW b \in Nat, a \div Period = b \div Period
    PROVE  /\ Clock(a) \in Nat /\ Clock(b) \in Nat
           /\ Clock(b) - Clock(a) = b - a
<1>1. /\ a \div Period \in Int /\ a % Period \in 0 .. Period - 1 /\ a = Period * (a \div Period) + (a % Period)
      /\ b % Period \in 0 .. Period - 1 /\ b = Period * (b \div Period) + (b % Period)
  BY ScanAssumption
<1>2. Period * (a \div Period) = Period * (b \div Period) /\ Period * (a \div Period) \in Int
  BY <1>1, ScanAssumption
<1>3. a % Period \in Nat /\ b % Period \in Nat /\ (b % Period) - (a % Period) = b - a
  BY <1>1, <1>2, ScanAssumption
<1> QED
  BY <1>3 DEF Clock

\* The remainder of a number that is so much over a multiple of the period.
LEMMA RestOf ==
    ASSUME NEW q \in Int, NEW s \in 0 .. Period - 1, NEW x \in Int, x = Period * q + s
    PROVE  x % Period = s
<1>1. Period \in Nat \ {0}
  BY ScanAssumption
<1>2. x \div Period \in Int /\ x % Period \in 0 .. Period - 1 /\ x = Period * (x \div Period) + (x % Period)
  BY <1>1
<1> DEFINE n == q - (x \div Period)
<1>3. n \in Int /\ Period * n = (x % Period) - s
  BY <1>1, <1>2
<1>4. \A m \in Int : (m >= 1 => Period * m >= Period) /\ (m <= -1 => Period * m <= -Period)
  BY <1>1
<1>5. n = 0
  <2> HIDE DEF n
  <2> QED
    BY <1>1, <1>2, <1>3, <1>4
<1> QED
  BY <1>1, <1>2, <1>3, <1>5

LEMMA SamePeriod ==
    ASSUME NEW a \in Nat, NEW b \in Nat, NEW c \in Nat, a <= b, b <= c,
           a \div Period = c \div Period
    PROVE  b \div Period = a \div Period
<1>1. Period \in Nat \ {0}
  BY ScanAssumption
<1>2. \A x \in Nat : /\ x \div Period \in Int /\ x % Period \in 0 .. Period - 1
                     /\ x = Period * (x \div Period) + (x % Period)
  BY <1>1
<1> DEFINE n == (b \div Period) - (a \div Period)
<1>3. n \in Int /\ Period * n = (b - (b % Period)) - (a - (a % Period))
  BY <1>1, <1>2
<1>4. Period * n <= (c - (c % Period)) - (a - (a % Period)) + (Period - 1)
  BY <1>1, <1>2, <1>3
<1>5. (c - (c % Period)) - (a - (a % Period)) = 0
  BY <1>1, <1>2
<1>6. Period * n > -Period
  BY <1>1, <1>2, <1>3
<1>7. \A m \in Int : (m >= 1 => Period * m >= Period) /\ (m <= -1 => Period * m <= -Period)
  BY <1>1
<1>8. n = 0
  <2> HIDE DEF n
  <2> QED
    BY <1>1, <1>3, <1>4, <1>5, <1>6, <1>7
<1> QED
  BY <1>2, <1>8

\* What the clock shows between two times less than a period apart.
LEMMA ElapsedShown ==
    ASSUME NEW a \in Nat, NEW b \in Nat, a <= b, b - a < Period
    PROVE  (Clock(b) - Clock(a)) % Period = b - a
<1>1. Period \in Nat \ {0}
  BY ScanAssumption
<1>2. /\ a \div Period \in Int /\ a % Period \in 0 .. Period - 1 /\ a = Period * (a \div Period) + (a % Period)
      /\ b \div Period \in Int /\ b % Period \in 0 .. Period - 1 /\ b = Period * (b \div Period) + (b % Period)
  BY <1>1
<1> DEFINE q == (a \div Period) - (b \div Period)
           d == (b % Period) - (a % Period)
<1>3. q \in Int /\ d \in Int /\ d = Period * q + (b - a) /\ b - a \in 0 .. Period - 1
  BY <1>1, <1>2
<1>4. d % Period = b - a
  <2> HIDE DEF q, d
  <2> QED
    BY <1>3, RestOf
<1> QED
  BY <1>4 DEF Clock

-----------------------------------------------------------------------------
(* What is always true of the scan list. *)

\* A reading takes one place, and its gateway has no other.
LEMMA AddTakesOnePlace ==
    ASSUME ScanTypes, OnePlaceEach, NEW g \in Gateway, NEW rssi \in Rssi, NEW stamp \in Nat,
           BeaconAt(g, time), ScanAdd(g, rssi, stamp)
    PROVE  \E p \in Place, r \in Reading :
              /\ p \in PlaceFor(g, stamp)
              /\ r.gateway = g /\ r.rssi = rssi /\ r.stamp = stamp /\ r.at = time
              /\ r.asn = SlotAt(g, r.at) + 1
              /\ scans' = [scans EXCEPT ![p] = r]
              /\ \A i \in Place \ {p} : Filled(i) => scans[i].gateway # g
<1> DEFINE same == {i \in Place : scans[i] # NoReading /\ scans[i].gateway = g}
           free == {i \in Place : scans[i] = NoReading}
           p == FirstOf(PlaceFor(g, stamp))
           r == [gateway |-> g, rssi |-> rssi, stamp |-> stamp,
                 asn |-> SlotAt(g, time) + 1, at |-> time]
<1>1. PlaceFor(g, stamp) \in SUBSET Place /\ PlaceFor(g, stamp) # {}
  BY ScanAssumption DEF PlaceFor, Place
<1>2. p \in PlaceFor(g, stamp) /\ p \in Place
  BY <1>1, FirstIsOne
<1>3. Phase[g] \in Int /\ time \in Int
  BY ScanAssumption DEF ScanTypes
<1>4. SlotAt(g, time) \in Int
  BY <1>3, TimingAssumption DEF SlotAt
<1>5. r \in Reading
  BY <1>4 DEF Reading, ScanTypes
<1>6. scans' = [scans EXCEPT ![p] = r]
  BY DEF ScanAdd
<1>7. ASSUME NEW i \in Place \ {p}, Filled(i), scans[i].gateway = g
      PROVE  FALSE
  <2>1. i \in same
    BY <1>7 DEF Filled
  <2>2. PlaceFor(g, stamp) = same
    BY <2>1 DEF PlaceFor
  <2>3. p \in same
    BY <1>2, <2>2
  <2> QED
    BY <1>7, <2>3 DEF OnePlaceEach, Filled
<1> HIDE DEF p
<1>8. r.gateway = g /\ r.rssi = rssi /\ r.stamp = stamp /\ r.at = time
      /\ r.asn = SlotAt(g, r.at) + 1
  OBVIOUS
<1> HIDE DEF r
<1> QED
  BY <1>2, <1>5, <1>6, <1>7, <1>8

\* A number of whole slots.
LEMMA SlotRest ==
    ASSUME NEW q \in Int, NEW x \in Int, x = SlotTime * q
    PROVE  x % SlotTime = 0 /\ x \div SlotTime = q
<1>1. x \div SlotTime \in Int /\ x % SlotTime \in 0 .. SlotTime - 1 /\ x = SlotTime * (x \div SlotTime) + (x % SlotTime)
  BY TimingAssumption
<1> DEFINE n == q - (x \div SlotTime)
<1>2. n \in Int /\ SlotTime * n = x % SlotTime
  BY <1>1, TimingAssumption
<1>3. \A m \in Int : (m >= 1 => SlotTime * m >= SlotTime) /\ (m <= -1 => SlotTime * m <= -SlotTime)
  BY TimingAssumption
<1>4. n = 0
  <2> HIDE DEF n
  <2> QED
    BY <1>1, <1>2, <1>3, TimingAssumption
<1> QED
  BY <1>1, <1>2, <1>4, TimingAssumption

LEMMA AddKeepsSound ==
    ASSUME ScanTypes, AllSound, OnePlaceEach, NEW g \in Gateway, NEW rssi \in Rssi,
           NEW stamp \in Nat, BeaconAt(g, time), ScanAdd(g, rssi, stamp),
           UNCHANGED <<time, scanning, started, dated>>
    PROVE  ScanTypes' /\ AllSound' /\ OnePlaceEach'
<1>1. PICK p \in Place, r \in Reading :
              /\ r.gateway = g /\ r.at = time /\ r.asn = SlotAt(g, r.at) + 1
              /\ scans' = [scans EXCEPT ![p] = r]
              /\ \A i \in Place \ {p} : Filled(i) => scans[i].gateway # g
  BY AddTakesOnePlace
<1>2. /\ \A i \in Place : scans'[i] = IF i = p THEN r ELSE scans[i]
      /\ scans' \in [Place -> Reading \cup {NoReading}]
  BY <1>1 DEF ScanTypes
<1>3. ScanTypes'
  BY <1>2 DEF ScanTypes, ScanAdd
<1>4. Sound(r)'
  BY <1>1 DEF Sound, ScanTypes, BeaconAt, SlotAt
<1>5. \A q \in Reading : Sound(q) => Sound(q)'
  BY DEF Sound, BeaconAt, SlotAt
<1>6. AllSound'
  <2>1. \A i \in Place : Filled(i) => Sound(scans[i]) /\ scans[i] \in Reading
    BY DEF AllSound, Sound
  <2> QED
    BY <1>2, <1>4, <1>5, <2>1 DEF AllSound, Filled
<1>7. OnePlaceEach'
  BY <1>1, <1>2 DEF OnePlaceEach, Filled
<1> QED
  BY <1>3, <1>6, <1>7

-----------------------------------------------------------------------------
(* A scan whose stamps can be compared. *)

\* Of readings in order, the one received earlier has the lower stamp.
LEMMA OrderedByStamp ==
    ASSUME ScanTypes, AllSound, AllInOrder, NEW i \in Place, Filled(i)
    PROVE  /\ \A j \in Place : Filled(j)
                => scans[i].stamp - scans[j].stamp = scans[i].at - scans[j].at
           /\ Now - scans[i].stamp = time - scans[i].at
           /\ started \div Period = time \div Period
                => scans[i].stamp - Clock(started) = scans[i].at - started
<1>1. \A k \in Place : Filled(k)
         => /\ scans[k].at \in Nat /\ scans[k].stamp = Clock(scans[k].at)
            /\ scans[k].at \div Period = time \div Period
  BY DEF AllSound, Sound, AllInOrder, InOrder, Reading
<1>2. time \in Nat /\ started \in Nat
  BY DEF ScanTypes
<1>3. ASSUME NEW j \in Place, Filled(j)
      PROVE  scans[i].stamp - scans[j].stamp = scans[i].at - scans[j].at
  <2>1. scans[j].at \div Period = scans[i].at \div Period
    BY <1>1, <1>3
  <2> QED
    BY <1>1, <1>3, <2>1, ClockInOrder
<1>4. Now - scans[i].stamp = time - scans[i].at
  BY <1>1, <1>2, ClockInOrder DEF Now
<1>5. ASSUME started \div Period = time \div Period
      PROVE  scans[i].stamp - Clock(started) = scans[i].at - started
  <2>1. started \div Period = scans[i].at \div Period
    BY <1>1, <1>5
  <2> QED
    BY <1>1, <1>2, <2>1, ClockInOrder
<1> QED
  BY <1>3, <1>4, <1>5

\* The place of a gateway heard in the scan is taken from it only if more have been heard than
\* there are places.
LEMMA HeardKeepsPlace ==
    ASSUME ScanTypes, AllSound, OnePlaceEach, AllInOrder, UnheardIsOlder, ReceiverIsFree,
           NEW g \in Gateway, NEW p \in PlaceFor(g, Now), p \in Place,
           Cardinality(HeardGateways \cup {g}) <= ListSize,
           Filled(p), scans[p].gateway \in HeardGateways
    PROVE  scans[p].gateway = g
<1> SUFFICES ASSUME scans[p].gateway # g
             PROVE  FALSE
  OBVIOUS
<1> DEFINE same == {i \in Place : scans[i] # NoReading /\ scans[i].gateway = g}
           free == {i \in Place : scans[i] = NoReading}
           oldest == {i \in Place : scans[i].stamp < Now
                                     /\ \A j \in Place : scans[i].stamp <= scans[j].stamp}
<1>1. p \notin same /\ p \notin free
  BY DEF Filled
<1>2. same = {} /\ free = {}
  BY <1>1 DEF PlaceFor
<1>3. \A i \in Place : /\ Filled(i) /\ scans[i].gateway # g /\ scans[i].gateway \in Gateway
                       /\ scans[i].stamp \in Nat /\ scans[i].at \in Nat /\ scans[i].at < time
  BY <1>2 DEF Filled, AllSound, Sound, Reading, ReceiverIsFree
<1>4. \A i, j \in Place : scans[i].stamp - scans[j].stamp = scans[i].at - scans[j].at
  BY <1>3, OrderedByStamp
<1>5. \A i \in Place : Now - scans[i].stamp = time - scans[i].at
  BY <1>3, OrderedByStamp
<1>6. Now \in Int /\ time \in Nat
  BY ScanAssumption DEF Now, Clock, ScanTypes
<1>7. oldest # {}
  <2> DEFINE f == [i \in Place |-> scans[i].stamp]
  <2>1. f \in [Place -> Nat] /\ Place # {}
    BY <1>3
  <2>2. PICK i \in Place : \A j \in Place : f[i] <= f[j]
    BY <2>1, LeastExists, Zenon
  <2>3. \A j \in Place : scans[i].stamp <= scans[j].stamp
    BY <2>2
  <2>4. scans[i].stamp < Now
    BY <1>3, <1>5, <1>6
  <2> QED
    BY <2>3, <2>4
<1>8. p \in oldest
  BY <1>2, <1>7 DEF PlaceFor
<1>9. \A i \in Place : scans[i].gateway \in HeardGateways
  <2> SUFFICES ASSUME NEW i \in Place, scans[i].gateway \notin HeardGateways
               PROVE  FALSE
    OBVIOUS
  <2>1. scans[i].at < scans[p].at
    BY <1>3 DEF UnheardIsOlder
  <2>2. scans[p].stamp <= scans[i].stamp
    BY <1>8
  <2> QED
    BY <1>3, <1>4, <2>1, <2>2
<1> DEFINE others == (HeardGateways \cup {g}) \ {g}
           f == [i \in Place |-> scans[i].gateway]
<1>10. f \in [Place -> others]
  BY <1>3, <1>9
<1>11. /\ IsFiniteSet(HeardGateways \cup {g})
       /\ Cardinality(HeardGateways \cup {g}) \in Nat
  <2>1. HeardGateways \cup {g} \in SUBSET Gateway /\ IsFiniteSet(Gateway)
    BY ScanAssumption DEF HeardGateways
  <2>2. IsFiniteSet(HeardGateways \cup {g})
    BY <2>1, FS_Subset
  <2> QED
    BY <2>2, FS_CardinalityType
<1>12. IsFiniteSet(others) /\ Cardinality(others) = Cardinality(HeardGateways \cup {g}) - 1
  BY <1>11, FS_RemoveElement
<1>13. IsFiniteSet(Place) /\ Cardinality(Place) = ListSize
  BY FS_Interval, ScanAssumption DEF Place
<1>14. Cardinality(others) < Cardinality(Place)
  BY <1>11, <1>12, <1>13, ScanAssumption
<1>15. PICK i, j \in Place : i # j /\ f[i] = f[j]
  <2> HIDE DEF others, f
  <2> QED
    BY <1>10, <1>12, <1>13, <1>14, FS_PigeonHole
<1> QED
  BY <1>3, <1>15 DEF OnePlaceEach

LEMMA HearKeepsList ==
    ASSUME ScanInv, NEW g \in Gateway, NEW rssi \in Rssi, HearInScan(g, rssi), Comparable
    PROVE  AllInOrder' /\ HeardIsFresh' /\ UnheardIsOlder' /\ HeardIsListed'
<1>1. ScanTypes /\ AllSound /\ OnePlaceEach /\ AllInOrder /\ HeardIsFresh /\ UnheardIsOlder
      /\ HeardIsListed
  BY DEF ScanInv, ListInv
<1>2. Now \in Nat
  BY <1>1, ScanAssumption DEF Now, Clock, ScanTypes
<1>3. PICK p \in Place, r \in Reading :
              /\ p \in PlaceFor(g, Now)
              /\ r.gateway = g /\ r.rssi = rssi /\ r.stamp = Now /\ r.at = time
              /\ scans' = [scans EXCEPT ![p] = r]
              /\ \A i \in Place \ {p} : Filled(i) => scans[i].gateway # g
  BY <1>1, <1>2, AddTakesOnePlace DEF HearInScan
<1>4. /\ \A i \in Place : scans'[i] = IF i = p THEN r ELSE scans[i]
      /\ Filled(p)' /\ \A i \in Place \ {p} : Filled(i)' <=> Filled(i)
  <2>1. \A i \in Place : scans'[i] = IF i = p THEN r ELSE scans[i]
    BY <1>1, <1>3 DEF ScanTypes
  <2> QED
    BY <2>1, ScanAssumption DEF Filled
<1>5. \A h \in Gateway : heard'[h] = IF h = g THEN rssi ELSE heard[h]
  BY <1>1 DEF HearInScan, ScanAdd, ScanTypes
<1>6. HeardGateways' = HeardGateways \cup {g}
  BY <1>5, ScanAssumption DEF HeardGateways
<1>7. time' = time /\ started' = started /\ time \in Nat /\ started \in Nat /\ started <= time
  BY <1>1 DEF HearInScan, ScanTypes
<1>8. \A i \in Place : Filled(i) => /\ scans[i].at \in Nat /\ scans[i].gateway \in Gateway
                                    /\ scans[i].at < time
  BY <1>1 DEF Filled, AllSound, Sound, Reading, HearInScan, ReceiverIsFree
<1>9. AllInOrder'
  <2>1. InOrder(r)'
    BY <1>3, <1>7 DEF InOrder, Now, Clock
  <2>2. \A q \in Reading : InOrder(q) => InOrder(q)'
    BY <1>7 DEF InOrder, Clock
  <2>3. \A i \in Place : Filled(i) => scans[i] \in Reading /\ InOrder(scans[i])
    BY <1>1 DEF AllSound, Sound, AllInOrder
  <2> QED
    BY <1>4, <2>1, <2>2, <2>3 DEF AllInOrder
<1>10. HeardIsFresh'
  BY <1>1, <1>3, <1>4, <1>5, <1>6, <1>7, <1>8 DEF HeardIsFresh
<1>11. UnheardIsOlder'
  BY <1>1, <1>3, <1>4, <1>6, <1>8 DEF UnheardIsOlder
<1>12. HeardIsListed'
  <2> SUFFICES ASSUME Cardinality(HeardGateways \cup {g}) <= ListSize,
                      NEW h \in HeardGateways \cup {g}
               PROVE  \E i \in Place : Filled(i)' /\ scans'[i].gateway = h
    BY <1>6 DEF HeardIsListed
  <2>1. CASE h = g
    BY <1>3, <1>4, <2>1
  <2>2. CASE h # g
    <3>1. Cardinality(HeardGateways) <= ListSize
      <4>1. HeardGateways \cup {g} \in SUBSET Gateway /\ IsFiniteSet(Gateway)
        BY ScanAssumption DEF HeardGateways
      <4>2. IsFiniteSet(HeardGateways \cup {g}) /\ HeardGateways \in SUBSET (HeardGateways \cup {g})
        BY <4>1, FS_Subset
      <4>3. /\ IsFiniteSet(HeardGateways)
            /\ Cardinality(HeardGateways) <= Cardinality(HeardGateways \cup {g})
        BY <4>2, FS_Subset
      <4>4. Cardinality(HeardGateways) \in Nat /\ Cardinality(HeardGateways \cup {g}) \in Nat
        BY <4>2, <4>3, FS_CardinalityType
      <4> QED
        BY <4>3, <4>4, ScanAssumption
    <3>2. PICK i \in Place : Filled(i) /\ scans[i].gateway = h
      BY <1>1, <2>2, <3>1 DEF HeardIsListed
    <3>3. i # p
      BY <1>1, <1>3, <2>2, <3>2, HeardKeepsPlace DEF HearInScan
    <3> QED
      BY <1>4, <3>2, <3>3
  <2> QED
    BY <2>1, <2>2
<1> QED
  BY <1>9, <1>10, <1>11, <1>12

-----------------------------------------------------------------------------
(* The invariant. *)

LEMMA ScanInitially == ScanInit => ScanInv
<1> SUFFICES ASSUME ScanInit
             PROVE  ScanInv
  OBVIOUS
<1>1. ScanTypes
  <2>1. time \in Nat /\ started \in Nat /\ started <= time
    BY DEF ScanInit
  <2>2. scanning = FALSE /\ dated = FALSE
    BY DEF ScanInit
  <2>3. scans \in [Place -> Reading \cup {NoReading}] /\ heard \in [Gateway -> Rssi \cup {NoReading}]
    BY DEF ScanInit
  <2> QED
    BY <2>1, <2>2, <2>3 DEF ScanTypes
<1>2. \A i \in Place : ~Filled(i)
  BY DEF ScanInit, Filled
<1>3. ~Comparable
  BY DEF ScanInit, Comparable
<1> QED
  BY <1>1, <1>2, <1>3 DEF ScanInv, AllSound, OnePlaceEach, ListInv

LEMMA TickKeeps == ASSUME ScanInv, Tick PROVE ScanInv'
<1>1. ScanTypes /\ AllSound /\ OnePlaceEach /\ ListInv
  BY DEF ScanInv
<1>2. /\ time' = time + 1 /\ time \in Nat /\ started \in Nat /\ started <= time
      /\ UNCHANGED <<scans, scanning, started, heard, dated>>
  BY <1>1 DEF Tick, ScanTypes
<1>3. ScanTypes'
  BY <1>1, <1>2, ScanAssumption DEF Tick, ScanTypes
<1>4. \A q \in Reading : Sound(q) => Sound(q)'
  BY <1>2 DEF Sound, BeaconAt, SlotAt, Reading
<1>5. AllSound'
  BY <1>1, <1>2, <1>4 DEF AllSound, Filled, Sound
<1>6. OnePlaceEach'
  BY <1>1, <1>2 DEF OnePlaceEach, Filled
<1>7. ListInv'
  <2> SUFFICES ASSUME Comparable'
               PROVE  AllInOrder' /\ HeardIsFresh' /\ UnheardIsOlder' /\ HeardIsListed'
    BY DEF ListInv
  <2>1. PICK next \in Nat : time' = next /\ next = time + 1
    BY <1>2
  <2>2. started \div Period = next \div Period
    BY <1>2, <2>1 DEF Comparable
  <2>3. time \div Period = started \div Period
    BY <1>2, <2>1, <2>2, SamePeriod
  <2>4. Comparable
    BY <1>2, <2>3 DEF Comparable
  <2>5. HeardGateways' = HeardGateways
    BY <1>2 DEF HeardGateways
  <2>6. \A q : InOrder(q) => InOrder(q)'
    BY <2>1, <2>2, <2>3 DEF InOrder, Clock
  <2>7. AllInOrder'
    BY <1>1, <1>2, <2>4, <2>6 DEF AllInOrder, ListInv, Filled
  <2>8. HeardIsFresh' /\ UnheardIsOlder' /\ HeardIsListed'
    BY <1>1, <1>2, <2>4, <2>5 DEF HeardIsFresh, UnheardIsOlder, HeardIsListed, ListInv, Filled
  <2> QED
    BY <2>7, <2>8
<1> QED
  BY <1>3, <1>5, <1>6, <1>7 DEF ScanInv

\* A scan that starts has heard nobody yet.
LEMMA BeginKeeps == ASSUME ScanInv, BeginScan, UNCHANGED <<time, scans>> PROVE ScanInv'
<1>1. ScanTypes /\ AllSound /\ OnePlaceEach
  BY DEF ScanInv
<1>2. ScanTypes'
  BY <1>1, ScanAssumption DEF BeginScan, ScanTypes
<1>3. \A q : Sound(q) => Sound(q)'
  BY DEF Sound, BeaconAt, SlotAt
<1>4. AllSound' /\ OnePlaceEach'
  BY <1>1, <1>3 DEF AllSound, OnePlaceEach, Filled
<1>5. HeardGateways' = {}
  BY DEF BeginScan, HeardGateways
<1>6. dated' => AllInOrder'
  <2>1. \A q : InOrder(q) => InOrder(q)'
    BY DEF InOrder, Clock
  <2> QED
    BY <2>1 DEF BeginScan, AllInOrder, Filled
<1>7. ListInv'
  BY <1>5, <1>6 DEF ListInv, Comparable, HeardIsFresh, UnheardIsOlder, HeardIsListed
<1> QED
  BY <1>2, <1>4, <1>7 DEF ScanInv

\* Between scans, the invariant asks nothing of the stamps.
LEMMA NoScanKeeps ==
    ASSUME ScanInv, scanning' = FALSE, UNCHANGED <<time, scans, started, heard, dated>>
    PROVE  ScanInv'
<1>1. ScanTypes'
  BY DEF ScanInv, ScanTypes
<1>2. \A q : Sound(q) => Sound(q)'
  BY DEF Sound, BeaconAt, SlotAt
<1>3. AllSound' /\ OnePlaceEach'
  BY <1>2 DEF ScanInv, AllSound, OnePlaceEach, Filled
<1>4. ListInv'
  BY DEF ListInv, Comparable
<1> QED
  BY <1>1, <1>3, <1>4 DEF ScanInv

LEMMA ScanStep == ScanInv /\ [ScanNext]_scanVars => ScanInv'
<1> SUFFICES ASSUME ScanInv, [ScanNext]_scanVars
             PROVE  ScanInv'
  OBVIOUS
<1>1. CASE Tick
  BY <1>1, TickKeeps
<1>2. CASE StartScan
  BY <1>2, BeginKeeps DEF StartScan
<1>3. ASSUME NEW g \in Gateway, NEW rssi \in Rssi, HearInScan(g, rssi)
      PROVE  ScanInv'
  <2>1. ScanTypes /\ AllSound /\ OnePlaceEach
    BY DEF ScanInv
  <2>2. Now \in Nat
    BY <2>1, ScanAssumption DEF Now, Clock, ScanTypes
  <2>3. ScanTypes' /\ AllSound' /\ OnePlaceEach'
    BY <1>3, <2>1, <2>2, AddKeepsSound DEF HearInScan
  <2>4. Comparable' => Comparable
    BY <1>3, <2>1 DEF HearInScan, Comparable, ScanAdd
  <2>5. ListInv'
    BY <1>3, <2>4, HearKeepsList DEF ListInv
  <2> QED
    BY <2>3, <2>5 DEF ScanInv
<1>4. ASSUME NEW g \in Gateway, NEW rssi \in Rssi, NEW own \in OwnAsn, HearInSlot(g, rssi, own)
      PROVE  ScanInv'
  <2>1. ScanTypes /\ AllSound /\ OnePlaceEach
    BY DEF ScanInv
  <2>2. own \in Nat
    BY ScanAssumption
  <2>3. ScanTypes' /\ AllSound' /\ OnePlaceEach'
    BY <1>4, <2>1, <2>2, AddKeepsSound DEF HearInSlot
  <2>4. ListInv'
    BY <1>4 DEF ListInv, Comparable, HearInSlot
  <2> QED
    BY <2>3, <2>4 DEF ScanInv
<1>5. CASE EndScanSelect
  BY <1>5, NoScanKeeps DEF EndScanSelect
<1>6. CASE EndScanNothing
  BY <1>6, BeginKeeps, NoScanKeeps DEF EndScanNothing
<1>7. CASE UNCHANGED scanVars
  <2>1. \A q : (Sound(q) => Sound(q)') /\ (InOrder(q) => InOrder(q)')
    BY <1>7 DEF Sound, BeaconAt, SlotAt, InOrder, Clock, scanVars
  <2>2. ScanTypes' /\ OnePlaceEach' /\ AllSound'
    BY <1>7, <2>1 DEF ScanInv, ScanTypes, OnePlaceEach, AllSound, Filled, scanVars
  <2>3. HeardGateways' = HeardGateways /\ (Comparable' => Comparable)
    BY <1>7 DEF HeardGateways, Comparable, scanVars
  <2>4. ListInv'
    BY <1>7, <2>1, <2>3 DEF ScanInv, ListInv, AllInOrder, HeardIsFresh, UnheardIsOlder,
                           HeardIsListed, Filled, scanVars
  <2> QED
    BY <2>2, <2>4 DEF ScanInv
<1> QED
  BY <1>1, <1>2, <1>3, <1>4, <1>5, <1>6, <1>7 DEF ScanNext, Hear

LEMMA ScanInvariant == ScanSpec => []ScanInv
BY ScanInitially, ScanStep, PTL DEF ScanSpec

-----------------------------------------------------------------------------
(* The end of a scan. *)

\* A scan that selects does so among the readings it may use, and none is stronger.
LEMMA SelectedIsBest ==
    ASSUME ScanInv, Best # {}
    PROVE  \E i \in Place : /\ i = FirstOf(Best) /\ Usable(scans[i]) /\ Sound(scans[i])
                            /\ \A j \in Place : Usable(scans[j]) => scans[j].rssi <= scans[i].rssi
<1>1. Best \in SUBSET Place
  BY DEF Best
<1>2. FirstOf(Best) \in Best
  BY <1>1, FirstIsOne
<1>3. \A i \in Place : Usable(scans[i]) => Filled(i)
  BY DEF Usable, Filled
<1> QED
  BY <1>1, <1>2, <1>3 DEF Best, ScanInv, AllSound

LEMMA SelectionIsSelect ==
    ASSUME [ScanNext]_scanVars, SelectionStep
    PROVE  EndScanSelect \/ (EndScanNothing /\ selected' = NoReading)
BY DEF ScanNext, SelectionStep, Tick, StartScan, BeginScan, Hear, HearInScan, HearInSlot,
       EndScanNothing, scanVars

\* Where the slots of the selected gateway start and how they are numbered, for a reading with
\* the time stamp of its beacon.
LEMMA SelectionInStep ==
    ASSUME ScanInv, EndScanSelect,
           selected'.stamp = Clock(selected'.at), time - selected'.at < Period
    PROVE  /\ (dispatch' - Phase[selected'.gateway]) % SlotTime = 0
           /\ asn' = SlotAt(selected'.gateway, dispatch' + SlotTime)
<1>1. PICK i \in Place : i = FirstOf(Best) /\ Sound(scans[i])
  BY SelectedIsBest DEF EndScanSelect
<1>2. PICK r \in Reading : selected' = r /\ r = scans[i] /\ Sound(r)
  BY <1>1 DEF EndScanSelect, Sound
<1> DEFINE e == time - r.at
           k == SlotAt(r.gateway, r.at)
           since == r.at - Phase[r.gateway]
<1>3. time \in Nat /\ r.at \in Nat /\ Phase[r.gateway] \in Nat /\ r.at <= time /\ r.asn = k + 1
  BY <1>2, ScanAssumption DEF ScanInv, ScanTypes, Sound, Reading
<1>4. e \in Nat /\ e < Period /\ since \in Int /\ since % SlotTime = Correction
  BY <1>2, <1>3 DEF Sound, BeaconAt
<1>5. (Now - r.stamp) % Period = e
  BY <1>2, <1>3, <1>4, ElapsedShown DEF Now
<1>6. dispatch' = time + DispatchDelay(e) /\ asn' = (k + 1) + AsnCount(e)
  BY <1>1, <1>2, <1>3, <1>5 DEF EndScanSelect
<1>7. k = since \div SlotTime
  BY DEF SlotAt
<1>8. k \in Int /\ since = SlotTime * k + Correction
  <2> HIDE DEF since, k
  <2> QED
    BY <1>4, <1>7, TimingAssumption
<1> DEFINE n == AsnCount(e)
<1>9. Correction + e + DispatchDelay(e) = SlotTime * n
  BY <1>4, DispatchAtSlotStart
<1>10. n \in Int /\ DispatchDelay(e) \in Nat
  <2>1. e \div SlotTime \in Nat
    BY <1>4, SlotsAndRest
  <2> QED
    BY <1>4, <2>1, DelayInRange DEF AsnCount
<1> HIDE DEF n, k
<1>11. PICK fires \in Int : dispatch' = fires /\ fires = time + DispatchDelay(e)
  BY <1>3, <1>6, <1>10
<1> DEFINE x == fires - Phase[r.gateway]
           y == (fires + SlotTime) - Phase[r.gateway]
<1>12. x \in Int /\ x = SlotTime * (k + n)
  <2>1. x = since + e + DispatchDelay(e)
    BY <1>3, <1>10, <1>11
  <2>2. SlotTime * k \in Int /\ SlotTime * n \in Int /\ SlotTime * (k + n) = SlotTime * k + SlotTime * n
    BY <1>8, <1>10, TimingAssumption
  <2> HIDE DEF x, since, e
  <2> QED
    BY <1>4, <1>8, <1>9, <1>10, <2>1, <2>2, TimingAssumption
<1>13. y \in Int /\ y = SlotTime * (k + n + 1)
  <2>1. y = x + SlotTime
    BY <1>3, <1>11, TimingAssumption
  <2> QED
    BY <1>8, <1>10, <1>12, <2>1, TimingAssumption
<1>14. k + n \in Int /\ k + n + 1 \in Int
  BY <1>8, <1>10
<1>15. x % SlotTime = 0 /\ y \div SlotTime = k + n + 1
  <2> HIDE DEF x, y
  <2> QED
    BY <1>12, <1>13, <1>14, SlotRest
<1>16. asn' = k + n + 1
  BY <1>6, <1>8, <1>10 DEF n
<1> QED
  BY <1>2, <1>11, <1>15, <1>16 DEF SlotAt

\* The first slot of a node starts when the selected gateway starts a slot and has the number
\* the gateway gives it, unless the reading has the wrong stamp (sync_to_gateway, mac.c).
THEOREM SelectsInStep == ScanSpec => AsnMatchesUnlessMisdated
<1>1. ScanInv /\ [ScanNext]_scanVars
        => (SelectionStep /\ selected' # NoReading
             => LET r == selected'
                IN  r.stamp = Clock(r.at) /\ time - r.at < Period
                     => /\ (dispatch' - Phase[r.gateway]) % SlotTime = 0
                        /\ asn' = SlotAt(r.gateway, dispatch' + SlotTime))
  BY SelectionIsSelect, SelectionInStep
<1> QED
  BY <1>1, ScanInvariant, PTL DEF ScanSpec, AsnMatchesUnlessMisdated

\* In a calm scan the readings of the gateways heard, and no others, may be selected.
LEMMA HeardIsUsable ==
    ASSUME ScanInv, scanning, Calm
    PROVE  /\ \A g \in HeardGateways : \E i \in Place :
                  Usable(scans[i]) /\ scans[i].gateway = g /\ scans[i].rssi = heard[g]
           /\ \A i \in Place : Usable(scans[i]) => scans[i].at >= started
<1>1. /\ ScanTypes /\ AllSound /\ AllInOrder /\ HeardIsFresh /\ HeardIsListed
      /\ Cardinality(HeardGateways) <= ListSize
  BY DEF ScanInv, ListInv, Comparable, Calm
<1>2. /\ time \in Nat /\ started \in Nat /\ time <= started + ScanMax
      /\ started \div Period = time \div Period
  BY <1>1 DEF ScanTypes, Calm
<1>3. Clock(started) \in Nat /\ Clock(started) > 0 /\ Now \in Nat
  BY <1>2, ScanAssumption DEF Calm, Clock, Now
<1>4. ASSUME NEW i \in Place, Filled(i)
      PROVE  /\ scans[i].at \in Nat /\ scans[i].at <= time /\ scans[i].stamp \in Nat
             /\ Now - scans[i].stamp = time - scans[i].at
             /\ scans[i].stamp - Clock(started) = scans[i].at - started
  <2>1. scans[i].at \in Nat /\ scans[i].at <= time /\ scans[i].stamp \in Nat
    BY <1>1, <1>4 DEF AllSound, Sound, Reading
  <2> QED
    BY <1>1, <1>2, <1>4, <2>1, OrderedByStamp
<1>5. ASSUME NEW i \in Place, Usable(scans[i])
      PROVE  scans[i].at >= started
  <2>1. Filled(i) /\ scans[i].stamp >= Clock(started)
    BY <1>5 DEF Usable, Filled
  <2> QED
    BY <1>2, <1>3, <1>4, <2>1
<1>6. ASSUME NEW g \in HeardGateways
      PROVE  \E i \in Place :
                  Usable(scans[i]) /\ scans[i].gateway = g /\ scans[i].rssi = heard[g]
  <2>1. PICK i \in Place : Filled(i) /\ scans[i].gateway = g
    BY <1>1 DEF HeardIsListed
  <2>2. scans[i].at >= started /\ scans[i].rssi = heard[g]
    BY <1>1, <2>1 DEF HeardIsFresh
  <2> DEFINE d == Now - scans[i].stamp
  <2>3. d \in 0 .. Period - 1 /\ d <= Old
    BY <1>2, <1>4, <2>1, <2>2, ScanAssumption
  <2>4. d % Period = d
    <3> HIDE DEF d
    <3> QED
      BY <2>3, ScanAssumption
  <2>5. scans[i].stamp # 0 /\ scans[i].stamp >= Clock(started)
    BY <1>2, <1>3, <1>4, <2>1, <2>2
  <2>6. Usable(scans[i])
    BY <2>1, <2>3, <2>4, <2>5 DEF Usable, Filled
  <2> QED
    BY <2>1, <2>2, <2>6
<1> QED
  BY <1>5, <1>6

LEMMA RssiIsInt == \A rssi \in Rssi : rssi \in -127 .. 127
BY ScanAssumption

\* A reading that may be used is selected if there is one.
LEMMA StrongestExists ==
    ASSUME ScanInv, NEW i \in Place, Usable(scans[i])
    PROVE  Best # {}
<1> DEFINE usable == {j \in Place : Usable(scans[j])}
           f == [j \in usable |-> 127 - scans[j].rssi]
<1>1. \A j \in usable : scans[j].rssi \in -127 .. 127
  BY ScanAssumption DEF ScanInv, AllSound, Sound, Reading, Usable, Filled
<1>2. f \in [usable -> Nat] /\ usable # {}
  BY <1>1
<1>3. PICK m \in usable : \A j \in usable : f[m] <= f[j]
  <2> HIDE DEF usable, f
  <2> QED
    BY <1>2, LeastExists
<1>4. \A j \in usable : scans[j].rssi <= scans[m].rssi
  <2>1. \A j \in usable : f[j] = 127 - scans[j].rssi /\ scans[j].rssi \in Int
    BY <1>1
  <2> HIDE DEF usable, f
  <2> QED
    BY <1>3, <2>1
<1>5. m \in Best
  BY <1>4 DEF Best
<1> QED
  BY <1>5

LEMMA SelectsHeard ==
    ASSUME ScanInv, [ScanNext]_scanVars, SelectionStep, Calm, HeardGateways # {}
    PROVE  /\ selected' # NoReading /\ selected'.at >= started
           /\ \A g \in HeardGateways : selected'.rssi >= heard[g]
<1>1. scanning
  BY DEF SelectionStep
<1>2. PICK h \in HeardGateways : TRUE
  OBVIOUS
<1>3. \E i \in Place : Usable(scans[i])
  BY <1>1, <1>2, HeardIsUsable
<1>4. Best # {}
  BY <1>3, StrongestExists
<1>5. EndScanSelect
  BY <1>4, SelectionIsSelect DEF EndScanNothing
<1>6. PICK i \in Place : /\ i = FirstOf(Best) /\ Usable(scans[i]) /\ Sound(scans[i])
                         /\ \A j \in Place : Usable(scans[j]) => scans[j].rssi <= scans[i].rssi
  BY <1>4, SelectedIsBest
<1>7. selected' = scans[i]
  BY <1>5, <1>6 DEF EndScanSelect
<1>8. selected' # NoReading /\ selected'.at >= started
  BY <1>1, <1>6, <1>7, HeardIsUsable DEF Usable
<1>9. ASSUME NEW g \in HeardGateways
      PROVE  selected'.rssi >= heard[g]
  <2>1. PICK j \in Place : Usable(scans[j]) /\ scans[j].rssi = heard[g]
    BY <1>1, HeardIsUsable
  <2>2. heard[g] <= scans[i].rssi
    BY <1>6, <2>1
  <2>3. scans[i].rssi \in Int /\ heard[g] \in Int
    <3>1. scans[i].rssi \in Rssi
      BY <1>6 DEF Sound, Reading
    <3>2. heard[g] \in Rssi
      BY DEF HeardGateways, ScanInv, ScanTypes
    <3> QED
      BY <3>1, <3>2, RssiIsInt
  <2> QED
    BY <1>7, <2>2, <2>3
<1> QED
  BY <1>8, <1>9

\* A scan selects a gateway it has heard, and none of those it has heard was stronger, unless
\* the clock wraps in it, stamps were out of order before it, or more gateways were heard than
\* the list has places (mr_scan_add and mr_scan_select, scan.c).
THEOREM SelectsStrongest == ScanSpec => StrongestSelected
<1>1. ScanInv /\ [ScanNext]_scanVars
        => (SelectionStep /\ Calm /\ HeardGateways # {}
             => /\ selected' # NoReading /\ selected'.at >= started
                /\ \A g \in HeardGateways : selected'.rssi >= heard[g])
  BY SelectsHeard
<1> QED
  BY <1>1, ScanInvariant, PTL DEF ScanSpec, StrongestSelected

-----------------------------------------------------------------------------
(* Arithmetic modulo Wrap. *)

LEMMA AtLeastWrap == ASSUME NEW n \in Int, n >= 1 PROVE n * Wrap >= Wrap
BY TimerAssumption

LEMMA SameShown ==
    ASSUME NEW a \in Int, NEW b \in Int, NEW k \in Int, a = b + k * Wrap
    PROVE  Unsigned(a) = Unsigned(b)
<1> DEFINE n == (a \div Wrap) - (b \div Wrap) - k
<1>1. /\ a \div Wrap \in Int /\ a % Wrap \in 0 .. Wrap - 1 /\ a = Wrap * (a \div Wrap) + (a % Wrap)
      /\ b \div Wrap \in Int /\ b % Wrap \in 0 .. Wrap - 1 /\ b = Wrap * (b \div Wrap) + (b % Wrap)
  BY TimerAssumption
<1>2. n \in Int /\ n * Wrap = (b % Wrap) - (a % Wrap)
  BY <1>1, TimerAssumption
<1>3. ~(n >= 1) /\ ~(n <= -1)
  BY <1>1, <1>2, AtLeastWrap, TimerAssumption
<1>4. n = 0
  <2> HIDE DEF n
  <2> QED
    BY <1>2, <1>3
<1> QED
  BY <1>1, <1>2, <1>4, TimerAssumption DEF Unsigned

\* What the clock shows differs from the instant by a number of wraps.
LEMMA Wraps ==
    ASSUME NEW x \in Int
    PROVE  Unsigned(x) \in Count /\ \E k \in Int : Unsigned(x) = x + k * Wrap
<1>1. x \div Wrap \in Int /\ x % Wrap \in 0 .. Wrap - 1 /\ x = Wrap * (x \div Wrap) + (x % Wrap)
  BY TimerAssumption
<1>2. -(x \div Wrap) \in Int /\ x % Wrap = x + (-(x \div Wrap)) * Wrap
  BY <1>1, TimerAssumption
<1> QED
  BY <1>1, <1>2 DEF Unsigned, Count

\* Two sums of what the clock shows and a number show the same if the instants do.
LEMMA SumShown ==
    ASSUME NEW x \in Int, NEW y \in Int
    PROVE  Unsigned(Unsigned(x) + y) = Unsigned(x + y)
<1>1. PICK k \in Int : Unsigned(x) = x + k * Wrap
  BY Wraps
<1>2. Unsigned(x) + y = (x + y) + k * Wrap
  BY <1>1, TimerAssumption
<1>3. Unsigned(x) + y \in Int /\ x + y \in Int
  BY Wraps DEF Count
<1> HIDE DEF Unsigned
<1> QED
  BY <1>2, <1>3, SameShown

LEMMA DifferenceShown ==
    ASSUME NEW x \in Int, NEW y \in Int, NEW z \in Int
    PROVE  Unsigned(Unsigned(x) - (Unsigned(y) + z)) = Unsigned(x - (y + z))
<1>1. PICK k \in Int : Unsigned(x) = x + k * Wrap
  BY Wraps
<1>2. PICK l \in Int : Unsigned(y) = y + l * Wrap
  BY Wraps
<1>3. Unsigned(x) - (Unsigned(y) + z) = (x - (y + z)) + (k - l) * Wrap /\ k - l \in Int
  BY <1>1, <1>2, TimerAssumption
<1>4. Unsigned(x) - (Unsigned(y) + z) \in Int /\ x - (y + z) \in Int
  BY Wraps DEF Count
<1> QED
  BY <1>3, <1>4, SameShown

\* A number that fits in an int32_t is read as what it is.
LEMMA SignedFits ==
    ASSUME NEW x \in Int, -(Wrap \div 2) <= x, x < Wrap \div 2
    PROVE  Signed(x) = x
<1>1. Wrap \div 2 \in Nat /\ 2 * (Wrap \div 2) <= Wrap /\ Wrap < 2 * (Wrap \div 2) + 2
  BY TimerAssumption
<1>2. CASE x >= 0
  BY <1>1, <1>2, TimerAssumption DEF Signed, Unsigned
<1>3. CASE x < 0
  <2>1. x + Wrap \in Int /\ x + Wrap = x + 1 * Wrap
    BY TimerAssumption
  <2>2. Unsigned(x + Wrap) = Unsigned(x)
    BY <2>1, SameShown
  <2>3. Unsigned(x + Wrap) = x + Wrap
    BY <1>1, <1>3, TimerAssumption DEF Unsigned
  <2> QED
    BY <1>1, <2>2, <2>3, <1>3, TimerAssumption DEF Signed
<1> QED
  BY <1>2, <1>3

-----------------------------------------------------------------------------
(* The timer. *)

\* Whatever the callers pass, negative times and times before a wrap included, and whatever
\* the interrupt does: the registers hold what fits in them (mr_timer_hf.c).
THEOREM TimerStaysTyped ==
    ASSUME NEW Callback, NEW t \in Timer(Callback), NEW c \in Channel,
           NEW us \in Int, NEW base \in Int, NEW f \in Callback, NEW once \in BOOLEAN
    PROVE  /\ TimerInit \in Timer(Callback)
           /\ CountUp(t) \in Timer(Callback)
           /\ Arm(t, c, us, once, f) \in Timer(Callback)
           /\ SetOneShotWithRef(t, c, base, us, f) \in Timer(Callback)
           /\ SetOneShotWithRefDiff(t, c, base, us, f) \in Timer(Callback)
           /\ AdjustPeriodic(t, c, us) \in Timer(Callback)
           /\ Cancel(t, c) \in Timer(Callback)
           /\ EndDelay(t) \in Timer(Callback)
           /\ Acknowledge(t, c) \in Timer(Callback)
<1>1. \A x \in Int : x % Wrap \in Count
  BY Wraps DEF Unsigned
<1>2. 0 \in Count /\ Last \in Channel
  BY TimerAssumption DEF Count, Channel
<1>3. t.counter \in Int /\ \A d \in Channel : t.channel[d].cc \in Int /\ t.channel[d].period \in Int
  BY DEF Timer, ChannelType, Count
<1>4. /\ t \in [counter : Count, channel : [Channel -> ChannelType(Callback)]]
      /\ t.channel[c] \in ChannelType(Callback)
  BY DEF Timer
<1>5. \A r \in ChannelType(Callback) : [t EXCEPT !.channel[c] = r] \in Timer(Callback)
  BY <1>4 DEF Timer
<1>6. \A u \in Int, o \in BOOLEAN : Arm(t, c, u, o, f) \in Timer(Callback)
  <2> SUFFICES ASSUME NEW u \in Int, NEW o \in BOOLEAN
               PROVE  Arm(t, c, u, o, f) \in Timer(Callback)
    OBVIOUS
  <2>1. (t.counter + u) % Wrap \in Count /\ u % Wrap \in Count
    BY <1>1, <1>3
  <2>2. [t.channel[c] EXCEPT !.cc = (t.counter + u) % Wrap, !.enabled = TRUE, !.oneShot = o,
                             !.period = u % Wrap, !.callback = f] \in ChannelType(Callback)
    BY <1>4, <2>1 DEF ChannelType
  <2> QED
    BY <1>5, <2>2 DEF Arm
<1>7. us + (t.counter - base) \in Int /\ us - (t.counter - base) \in Int
  BY <1>3
<1>8. TimerInit \in Timer(Callback)
  BY <1>2 DEF TimerInit, Timer, ChannelType
<1>9. CountUp(t) \in Timer(Callback)
  <2> DEFINE now == (t.counter + 1) % Wrap
  <2>1. now \in Count
    BY <1>1, <1>3
  <2>2. [d \in Channel |-> [t.channel[d] EXCEPT !.event = @ \/ t.channel[d].cc = now]]
           \in [Channel -> ChannelType(Callback)]
    BY <1>4 DEF ChannelType
  <2> QED
    BY <1>4, <2>1, <2>2 DEF CountUp, Timer
<1>10. AdjustPeriodic(t, c, us) \in Timer(Callback)
  <2>1. (t.channel[c].cc + us) % Wrap \in Count
    BY <1>1, <1>3
  <2>2. [t.channel[c] EXCEPT !.cc = (@ + us) % Wrap] \in ChannelType(Callback)
    BY <1>4, <2>1 DEF ChannelType
  <2>3. AdjustPeriodic(t, c, us) = [t EXCEPT !.channel[c] = [t.channel[c] EXCEPT !.cc = (@ + us) % Wrap]]
    BY <1>4 DEF AdjustPeriodic, ChannelType
  <2> QED
    BY <1>5, <2>2, <2>3
<1>11. Cancel(t, c) \in Timer(Callback)
  <2>1. [t.channel[c] EXCEPT !.period = 0, !.callback = NoCallback, !.enabled = FALSE,
                             !.event = FALSE, !.cc = 0] \in ChannelType(Callback)
    BY <1>2, <1>4 DEF ChannelType
  <2> QED
    BY <1>5, <2>1 DEF Cancel
<1>12. EndDelay(t) \in Timer(Callback)
  BY <1>2, <1>4 DEF EndDelay, Timer, ChannelType
<1>13. Acknowledge(t, c) \in Timer(Callback)
  <2> DEFINE served == [t.channel[c] EXCEPT !.event = FALSE]
  <2>1. served \in ChannelType(Callback)
    BY <1>4 DEF ChannelType
  <2>2. [served EXCEPT !.enabled = FALSE] \in ChannelType(Callback)
    BY <2>1 DEF ChannelType
  <2>3. (served.cc + served.period) % Wrap \in Count
    BY <1>1, <2>1 DEF ChannelType, Count
  <2>4. [served EXCEPT !.cc = (@ + served.period) % Wrap] \in ChannelType(Callback)
    BY <2>1, <2>3 DEF ChannelType
  <2> QED
    BY <1>5, <2>2, <2>4 DEF Acknowledge
<1> QED
  BY <1>6, <1>7, <1>8, <1>9, <1>10, <1>11, <1>12, <1>13
     DEF SetOneShotWithRef, SetOneShotWithRefDiff, SetOneShot

\* A timer armed with a reference and a difference ends at `base + us', however late after
\* `base' it is armed and even if the clock wraps in between; one armed with a reference
\* ends late, by twice the time since `base' (mr_timer_hf.c:164-190).
THEOREM DeadlineOfReference ==
    ASSUME NEW Callback, NEW t \in Timer(Callback), NEW c \in Channel, NEW f \in Callback,
           NEW base \in Int, NEW since \in Int, NEW us \in Int,
           t.counter = Unsigned(base + since)
    PROVE  /\ SetOneShotWithRefDiff(t, c, Unsigned(base), us, f).channel[c].cc = Unsigned(base + us)
           /\ SetOneShotWithRef(t, c, Unsigned(base), us, f).channel[c].cc
                 = Unsigned(base + us + 2 * since)
<1>1. PICK k \in Int : t.counter = (base + since) + k * Wrap
  BY Wraps
<1>2. PICK l \in Int : Unsigned(base) = base + l * Wrap
  BY Wraps
<1>3. t.counter \in Int /\ Unsigned(base) \in Int
  BY Wraps DEF Count
<1>4. t.counter + (us - (t.counter - Unsigned(base))) = (base + us) + l * Wrap
  BY <1>2, <1>3, TimerAssumption
<1>5. /\ t.counter + (us + (t.counter - Unsigned(base)))
           = (base + us + 2 * since) + (2 * k - l) * Wrap
      /\ 2 * k - l \in Int
  BY <1>1, <1>2, <1>3, TimerAssumption
<1>6. \A u \in Int : SetOneShot(t, c, u, f).channel[c].cc = Unsigned(t.counter + u)
  BY DEF SetOneShot, Arm, Timer, ChannelType, Unsigned
<1>7. Unsigned(t.counter + (us - (t.counter - Unsigned(base)))) = Unsigned(base + us)
  BY <1>3, <1>4, SameShown
<1>8. Unsigned(t.counter + (us + (t.counter - Unsigned(base)))) = Unsigned(base + us + 2 * since)
  BY <1>3, <1>5, SameShown
<1> QED
  BY <1>3, <1>6, <1>7, <1>8 DEF SetOneShotWithRef, SetOneShotWithRefDiff

-----------------------------------------------------------------------------
(* The drift. *)

\* The drift is measured right across a wrap of the clock: a slot of the node starts at `start',
\* by its time stamp, and the frame it hears was sent in a slot that started at `gateway'
\* (mac.c:624-630).
THEOREM DriftIsMeasured ==
    ASSUME NEW start \in Int, NEW gateway \in Int, TxOffset \in Nat, CpuPeriph \in Nat,
           -(Wrap \div 2) <= gateway - start, gateway - start < Wrap \div 2
    PROVE  ClockDrift(Unsigned(start), Unsigned(gateway + TxOffset + CpuPeriph)) = gateway - start
<1> DEFINE stamp == gateway + TxOffset + CpuPeriph
           due == TxOffset + CpuPeriph
<1>1. Unsigned(Unsigned(stamp) - (Unsigned(start) + due)) = Unsigned(stamp - (start + due))
  BY DifferenceShown
<1>2. stamp - (start + due) = gateway - start
  OBVIOUS
<1>3. Unsigned(start) + due = Unsigned(start) + TxOffset + CpuPeriph
  BY Wraps DEF Count
<1>4. ClockDrift(Unsigned(start), Unsigned(stamp)) = Signed(gateway - start)
  BY <1>1, <1>2, <1>3 DEF ClockDrift, Signed, Unsigned
<1> QED
  BY <1>4, SignedFits

\* A node that is not far off starts its next slot when the gateway starts its own, but for the
\* time `lag' from the timer to the time stamp of the slot; one that is, is not corrected at all
\* (mac.c:624-649).  The timer of the slot has fired at `fired', and goes on with period `slot'.
THEOREM NextSlotFollowsGateway ==
    ASSUME NEW Callback, NEW t \in Timer(Callback),
           NEW fired \in Int, NEW lag \in Int, NEW gateway \in Int, NEW slot \in Int,
           TxOffset \in Nat, CpuPeriph \in Nat, InterSlot \in Channel,
           MaxDrift \in Nat, MaxDrift < Wrap \div 2,
           t.channel[InterSlot].cc = Unsigned(fired + slot),
           -(Wrap \div 2) <= gateway - (fired + lag), gateway - (fired + lag) < Wrap \div 2
    PROVE  LET fixed == FixDrift(t, Unsigned(fired + lag), Unsigned(gateway + TxOffset + CpuPeriph))
               drift == gateway - (fired + lag)
           IN  /\ -MaxDrift < drift /\ drift < MaxDrift
                     => fixed.channel[InterSlot].cc = Unsigned((gateway + slot) - lag)
               /\ ~(-MaxDrift < drift /\ drift < MaxDrift) => fixed = t
<1> DEFINE drift == gateway - (fired + lag)
<1>1. ClockDrift(Unsigned(fired + lag), Unsigned(gateway + TxOffset + CpuPeriph)) = drift
  BY DriftIsMeasured
<1>2. drift \in Int /\ (fired + slot) + drift = (gateway + slot) - lag
  OBVIOUS
<1>3. Unsigned(Unsigned(fired + slot) + drift) = Unsigned((gateway + slot) - lag)
  BY <1>2, SumShown
<1>4. AdjustPeriodic(t, InterSlot, drift).channel[InterSlot].cc
         = Unsigned(t.channel[InterSlot].cc + drift)
  BY DEF AdjustPeriodic, Timer, ChannelType, Unsigned
<1> QED
  BY <1>1, <1>2, <1>3, <1>4 DEF FixDrift, Acceptable
=============================================================================
