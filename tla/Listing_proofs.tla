---------------------------- MODULE Listing_proofs -----------------------------
(***************************************************************************)
(* Theorems of Listing, for lists of any length, any page size, cap,       *)
(* limits and number of failures.                                          *)
(***************************************************************************)
EXTENDS Listing, TLAPS

(***************************************************************************)
(* Sequences of positions.                                                 *)
(***************************************************************************)
LEMMA ExtendIncreasing ==
    ASSUME NEW s \in Seq(Positions), NEW t \in Seq(Positions), NEW c \in Keys,
           Increasing(s), Increasing(t),
           \A i \in DOMAIN s : s[i] <= c,
           \A i \in DOMAIN t : c < t[i]
    PROVE  Increasing(s \o t)
<1> SUFFICES ASSUME NEW i \in DOMAIN (s \o t), NEW j \in DOMAIN (s \o t), i < j
             PROVE  (s \o t)[i] < (s \o t)[j]
  BY DEF Increasing
<1>1. /\ i \in 1..(Len(s) + Len(t))
      /\ j \in 1..(Len(s) + Len(t))
  OBVIOUS
<1>2. CASE j <= Len(s)
  BY <1>1, <1>2 DEF Increasing
<1>3. CASE i > Len(s)
  <2>1. /\ (s \o t)[i] = t[i - Len(s)]
        /\ (s \o t)[j] = t[j - Len(s)]
        /\ i - Len(s) \in DOMAIN t
        /\ j - Len(s) \in DOMAIN t
    BY <1>1, <1>3
  <2>2. QED
    BY <2>1 DEF Increasing
<1>4. CASE i <= Len(s) /\ j > Len(s)
  <2>1. /\ (s \o t)[i] = s[i]
        /\ i \in DOMAIN s
        /\ (s \o t)[j] = t[j - Len(s)]
        /\ j - Len(s) \in DOMAIN t
    BY <1>1, <1>4
  <2>2. s[i] \in Positions /\ t[j - Len(s)] \in Positions
    BY <2>1
  <2>3. QED
    BY <2>1, <2>2 DEF Positions, Keys
<1>5. QED
  BY <1>1, <1>2, <1>3, <1>4

LEMMA AppendIncreasing ==
    ASSUME NEW s \in Seq(Positions), NEW p \in Positions, NEW k \in Keys, k < p,
           Increasing(s), \A i \in DOMAIN s : s[i] <= k
    PROVE  Increasing(Append(s, p))
<1> SUFFICES ASSUME NEW i \in DOMAIN Append(s, p), NEW j \in DOMAIN Append(s, p),
                    i < j
             PROVE  Append(s, p)[i] < Append(s, p)[j]
  BY DEF Increasing
<1>1. i \in DOMAIN s /\ Append(s, p)[i] = s[i] /\ s[i] \in Positions
  OBVIOUS
<1>2. CASE j \in DOMAIN s
  BY <1>1, <1>2 DEF Increasing
<1>3. CASE j = Len(s) + 1
  BY <1>1, <1>3, ListingAssumption DEF Positions, Keys
<1>4. QED
  BY <1>2, <1>3

LEMMA HoldsExtend ==
    ASSUME NEW s \in Seq(Positions), NEW t \in Seq(Positions), NEW p
    PROVE  Holds(s \o t, p) <=> Holds(s, p) \/ Holds(t, p)
<1>1. ASSUME NEW i \in DOMAIN s PROVE i \in DOMAIN (s \o t) /\ (s \o t)[i] = s[i]
  OBVIOUS
<1>2. ASSUME NEW i \in DOMAIN t
      PROVE  Len(s) + i \in DOMAIN (s \o t) /\ (s \o t)[Len(s) + i] = t[i]
  OBVIOUS
<1>3. ASSUME NEW i \in DOMAIN (s \o t)
      PROVE  \/ i \in DOMAIN s /\ (s \o t)[i] = s[i]
             \/ i - Len(s) \in DOMAIN t /\ (s \o t)[i] = t[i - Len(s)]
  OBVIOUS
<1>4. QED
  BY <1>1, <1>2, <1>3 DEF Holds

LEMMA HoldsAppend ==
    ASSUME NEW s \in Seq(Positions), NEW p \in Positions, NEW q
    PROVE  Holds(Append(s, p), q) <=> Holds(s, q) \/ q = p
<1>1. ASSUME NEW i \in DOMAIN s
      PROVE  i \in DOMAIN Append(s, p) /\ Append(s, p)[i] = s[i]
  OBVIOUS
<1>2. Len(s) + 1 \in DOMAIN Append(s, p) /\ Append(s, p)[Len(s) + 1] = p
  OBVIOUS
<1>3. ASSUME NEW i \in DOMAIN Append(s, p) PROVE i \in DOMAIN s \/ i = Len(s) + 1
  OBVIOUS
<1>4. QED
  BY <1>1, <1>2, <1>3 DEF Holds

LEMMA IdleType == Idle \in Call
<1>1. <<>> \in Seq(Positions)
  OBVIOUS
<1>2. NoKey \in Keys
  BY ListingAssumption DEF NoKey, Keys
<1>3. QED
  BY <1>1, <1>2 DEF Idle, Call

LEMMA EmptyIncreasing == Increasing(<<>>)
BY DEF Increasing

\* A query asks for at least one item and never for more than is wanted.
LEMMA PageLimitFits ==
    ASSUME NEW limit \in Nat, NEW count \in Nat,
           limit = 0 => count < MAX_ALL_RESULTS
    PROVE  /\ PageLimit(limit, count) \in Nat \ {0}
           /\ limit > 0 => PageLimit(limit, count) = limit
           /\ limit = 0 => count + PageLimit(limit, count) <= MAX_ALL_RESULTS
BY ListingAssumption DEF PageLimit, MinOf

(***************************************************************************)
(* The invariant, one step at a time.                                      *)
(***************************************************************************)
LEMMA InitInvariant == Init => IInv
<1> SUFFICES ASSUME Init PROVE IInv
  OBVIOUS
<1>1. TypeOK
  <2>1. listed \in Seq(Positions)
    BY DEF Init
  <2>2. cursor \in Keys /\ faults \in 0..MaxFaults
    BY ListingAssumption DEF Init, Keys, NoKey
  <2>3. QED
    BY <2>1, <2>2, IdleType DEF Init, TypeOK
<1>2. Between
  BY EmptyIncreasing DEF Init, Between, Idle
<1>3. SoFar
  BY DEF Init, SoFar, Idle, NoKey, Positions
<1>4. Room /\ NothingSkipped
  BY DEF Init, Room, NothingSkipped, Idle
<1>5. QED
  BY <1>1, <1>2, <1>3, <1>4 DEF IInv

LEMMA RequestInvariant ==
    ASSUME IInv, NEW asked \in Limits, Request(asked)
    PROVE  IInv'
<1> DEFINE limit == IF asked > 0 THEN asked ELSE DefaultLimit[route]
<1>1. limit \in Nat
  BY ListingAssumption DEF IInv, TypeOK
<1> HIDE DEF limit
<1>2. /\ call.pc = "idle"
      /\ ~ended
      /\ call' = [pc |-> "query", limit |-> limit, asked |-> PageLimit(limit, 0),
                  left |-> PageLimit(limit, 0), from |-> cursor, items |-> <<>>,
                  next |-> NoKey]
      /\ UNCHANGED <<route, entries, cursor, ended, listed, faults, steady>>
  BY DEF Request, Idle, limit
<1>3. /\ PageLimit(limit, 0) \in Nat \ {0}
      /\ PageLimit(limit, 0) <= IF limit > 0 THEN limit ELSE MAX_ALL_RESULTS
  BY <1>1, PageLimitFits, ListingAssumption
<1>4. TypeOK'
  <2>1. call' \in Call
    BY <1>1, <1>2, <1>3, ListingAssumption DEF IInv, TypeOK, Call, Keys, NoKey
  <2>2. QED
    BY <1>2, <2>1 DEF IInv, TypeOK, Entries
<1>5. Between'
  BY <1>2, <1>3, EmptyIncreasing, ListingAssumption DEF IInv, Between, TypeOK, Keys
<1>6. SoFar'
  <2>1. \A p \in steady : ~(cursor < p /\ p <= cursor)
    BY DEF IInv, TypeOK, Keys, Positions
  <2>2. QED
    BY <1>2, <2>1 DEF IInv, SoFar
<1>7. Room'
  BY <1>1, <1>2, <1>3 DEF Room
<1>8. QED
  BY <1>2, <1>4, <1>5, <1>6, <1>7 DEF IInv, NothingSkipped

LEMMA EvaluateInvariant ==
    ASSUME IInv, NEW p \in Positions, Evaluate(p)
    PROVE  IInv'
<1> DEFINE items == IF entries[p] = "passes" THEN Append(call.items, p) ELSE call.items
<1>1. /\ call.pc = "query"
      /\ call.left > 0
      /\ p > call.from
      /\ call' = [call EXCEPT !.left = @ - 1, !.from = p, !.items = items]
      /\ UNCHANGED <<route, entries, cursor, ended, listed, faults, steady>>
  BY DEF Evaluate
<1>2. /\ call.items \in Seq(Positions)
      /\ call.from \in Keys
      /\ cursor \in Keys
      /\ call.left \in Nat
      /\ call.asked \in Nat
      /\ call.limit \in Nat
      /\ steady \subseteq Positions
  BY DEF IInv, TypeOK, Call
<1>3. /\ items \in Seq(Positions)
      /\ Len(items) <= Len(call.items) + 1
  BY <1>2
<1>4. /\ Increasing(items)
      /\ \A i \in DOMAIN items : cursor < items[i] /\ items[i] <= p
  <2>1. /\ Increasing(call.items)
        /\ cursor <= call.from
        /\ \A i \in DOMAIN call.items :
             cursor < call.items[i] /\ call.items[i] <= call.from
    BY <1>1 DEF IInv, Between
  <2>2. \A i \in DOMAIN call.items : call.items[i] \in Positions
    BY <1>2
  <2>3. \A i \in DOMAIN call.items : cursor < call.items[i] /\ call.items[i] <= p
    BY <1>1, <1>2, <2>1, <2>2 DEF Positions, Keys
  <2>4. cursor < p
    BY <1>1, <1>2, <2>1 DEF Positions, Keys
  <2>5. CASE entries[p] = "passes"
    <3>1. Increasing(Append(call.items, p))
      BY <1>1, <1>2, <2>1, AppendIncreasing
    <3>2. ASSUME NEW i \in DOMAIN Append(call.items, p)
          PROVE  /\ cursor < Append(call.items, p)[i]
                 /\ Append(call.items, p)[i] <= p
      BY <1>2, <2>3, <2>4 DEF Positions
    <3>3. QED
      BY <2>5, <3>1, <3>2
  <2>6. CASE entries[p] # "passes"
    BY <2>1, <2>3, <2>6
  <2>7. QED
    BY <2>5, <2>6
<1>5. \A q \in steady : cursor < q /\ q <= p => Holds(items, q)
  <2> SUFFICES ASSUME NEW q \in steady, cursor < q, q <= p PROVE Holds(items, q)
    OBVIOUS
  <2>1. q \in Positions /\ entries[q] = "passes"
    BY DEF IInv, SoFar, TypeOK
  <2>2. CASE q <= call.from
    <3>1. Holds(call.items, q)
      BY <1>1, <2>2 DEF IInv, SoFar
    <3>2. QED
      BY <1>2, <3>1, HoldsAppend
  <2>3. CASE q > call.from /\ q < p
    BY <2>1, <2>3 DEF Evaluate
  <2>4. CASE q = p
    BY <1>2, <2>1, <2>4, HoldsAppend
  <2>5. QED
    BY <1>2, <2>1, <2>2, <2>3, <2>4 DEF Positions, Keys
<1> HIDE DEF items
<1>6. TypeOK'
  <2>1. p \in Keys /\ call.left - 1 \in Nat
    <3>1. p \in Keys
      BY ListingAssumption DEF Keys, Positions
    <3>2. QED
      BY <1>1, <1>2, <3>1
  <2>2. call' \in Call
    BY <1>1, <1>3, <2>1 DEF IInv, TypeOK, Call
  <2>3. QED
    BY <1>1, <2>2 DEF IInv, TypeOK, Entries
<1>6a. /\ call'.pc = "query"
       /\ call'.left = call.left - 1
       /\ call'.asked = call.asked
       /\ call'.limit = call.limit
       /\ call'.items = items
       /\ call'.from = p
  BY <1>1 DEF IInv, TypeOK, Call
<1>7. Between'
  <2>1. cursor < p /\ cursor <= p
    BY <1>1, <1>2 DEF IInv, Between, Positions, Keys
  <2>2. ~ended /\ Increasing(listed) /\ \A i \in DOMAIN listed : listed[i] <= cursor
    BY <1>1 DEF IInv, Between
  <2>3. QED
    BY <1>1, <1>4, <1>6a, <2>1, <2>2 DEF Between
<1>8. SoFar'
  BY <1>1, <1>5, <1>6a DEF IInv, SoFar
<1>9. Room'
  <2>1. /\ call.left <= call.asked
        /\ call.asked > 0
        /\ Len(call.items) + call.left
             <= IF call.limit > 0 THEN call.limit ELSE MAX_ALL_RESULTS
    BY <1>1 DEF IInv, Room
  <2>2. QED
    BY <1>2, <1>3, <1>6a, <2>1, ListingAssumption DEF Room
<1>10. QED
  BY <1>1, <1>6, <1>7, <1>8, <1>9 DEF IInv, NothingSkipped

\* A key that DynamoDB returns is where the query has got to; without one
\* there is nothing beyond.
LEMMA ReturnedKey ==
    ASSUME IInv, NEW key \in Keys, Returned(key)
    PROVE  /\ call.pc = "query"
           /\ key \in {call.from, NoKey}
           /\ key # NoKey => cursor < key /\ call.left < call.asked
           /\ key = NoKey => \A p \in steady : cursor < p => Holds(call.items, p)
<1>1. call.pc = "query" /\ key \in {call.from, NoKey}
  BY DEF Returned
<1>2. key # NoKey => cursor < key /\ call.left < call.asked
  BY <1>1 DEF Returned, IInv, Between
<1>3. ASSUME key = NoKey, NEW p \in steady, cursor < p
      PROVE  Holds(call.items, p)
  <2>1. p \in Positions /\ entries[p] = "passes" /\ call.from \in Keys /\ cursor \in Keys
    BY DEF IInv, SoFar, TypeOK, Call
  <2>2. cursor <= call.from
    BY <1>1 DEF IInv, Between
  <2>3. call.left < call.asked => call.from # NoKey
    BY <1>1, <2>1 DEF IInv, Between, Keys, NoKey
  <2>4. \A q \in Positions : q > call.from => entries[q] = "absent"
    BY <1>3, <2>3 DEF Returned
  <2>5. p <= call.from
    BY <2>1, <2>4 DEF Positions, Keys
  <2>6. QED
    BY <1>1, <1>3, <2>5 DEF IInv, SoFar
<1>4. QED
  BY <1>1, <1>2, <1>3

\* An answer: what the client will go on from is where the query has got to,
\* or nowhere, and then all there was is in its items.
LEMMA AnswerInvariant ==
    ASSUME IInv, NEW key \in Keys, PageAnswer(key) \/ AllAnswer(key)
    PROVE  IInv'
<1>1. /\ Returned(key)
      /\ call' = [call EXCEPT !.pc = "answered", !.next = key]
      /\ UNCHANGED <<route, entries, cursor, ended, listed, faults, steady>>
  <2>1. CASE PageAnswer(key)
    BY <2>1 DEF PageAnswer
  <2>2. CASE AllAnswer(key)
    <3>1. (IF Len(call.items) >= MAX_ALL_RESULTS THEN key ELSE NoKey) = key
      BY <2>2 DEF AllAnswer
    <3>2. QED
      BY <2>2, <3>1 DEF AllAnswer
  <2>3. QED
    BY <2>1, <2>2
<1>2. /\ call.pc = "query"
      /\ key \in {call.from, NoKey}
      /\ key # NoKey => cursor < key
      /\ key = NoKey => \A p \in steady : cursor < p => Holds(call.items, p)
  BY <1>1, ReturnedKey
<1>3. TypeOK'
  BY <1>1 DEF IInv, TypeOK, Call, Entries
<1>4. Between' /\ SoFar' /\ Room'
  BY <1>1, <1>2 DEF IInv, Between, SoFar, Room, TypeOK, Call
<1>5. QED
  BY <1>1, <1>3, <1>4 DEF IInv, NothingSkipped

LEMMA NextRoundInvariant ==
    ASSUME IInv, NEW key \in Keys, NextRound(key)
    PROVE  IInv'
<1>1. /\ call.pc = "query"
      /\ key = call.from
  BY ReturnedKey DEF NextRound
<1> DEFINE limit == PageLimit(0, Len(call.items))
<1>2. /\ limit \in Nat \ {0}
      /\ Len(call.items) + limit <= MAX_ALL_RESULTS
  BY PageLimitFits DEF NextRound, IInv, TypeOK, Call
<1> HIDE DEF limit
<1>3. /\ call' = [call EXCEPT !.asked = limit, !.left = limit, !.from = key]
      /\ call.limit = 0
      /\ UNCHANGED <<route, entries, cursor, ended, listed, faults, steady>>
  BY DEF NextRound, limit
<1>4. TypeOK'
  BY <1>2, <1>3 DEF IInv, TypeOK, Call, Entries
<1>5. Between'
  <2>1. /\ call'.pc = "query"
        /\ call'.asked = limit /\ call'.left = limit
        /\ call'.from = call.from
        /\ call'.items = call.items
    BY <1>1, <1>3 DEF IInv, TypeOK, Call
  <2>2. QED
    BY <1>1, <1>2, <1>3, <2>1 DEF IInv, Between
<1>6. SoFar'
  BY <1>1, <1>3 DEF IInv, SoFar, TypeOK
<1>7. Room'
  BY <1>1, <1>2, <1>3 DEF IInv, Room, TypeOK, Call
<1>8. QED
  BY <1>3, <1>4, <1>5, <1>6, <1>7 DEF IInv, NothingSkipped

LEMMA FailsInvariant ==
    ASSUME IInv, Fails
    PROVE  IInv'
<1> USE DEF Fails
<1>1. TypeOK'
  BY IdleType, ListingAssumption DEF IInv, TypeOK, Entries
<1>2. Between'
  BY EmptyIncreasing DEF IInv, Between, Idle
<1>3. QED
  BY <1>1, <1>2 DEF IInv, SoFar, Room, NothingSkipped, Idle

LEMMA ReceiveInvariant ==
    ASSUME IInv, Receive
    PROVE  IInv'
<1>1. /\ call.pc = "answered"
      /\ ~ended
      /\ listed' = listed \o call.items
      /\ cursor' = call.next
      /\ ended' = (call.next = NoKey)
      /\ call' = Idle
      /\ UNCHANGED <<route, entries, faults, steady>>
  BY DEF Receive, IInv, Between
<1>2. /\ listed \in Seq(Positions)
      /\ call.items \in Seq(Positions)
      /\ cursor \in Keys /\ call.next \in Keys /\ call.from \in Keys
      /\ steady \subseteq Positions
  BY DEF IInv, TypeOK, Call
<1>3. TypeOK'
  <2>1. listed' \in Seq(Positions)
    BY <1>1, <1>2
  <2>2. QED
    BY <1>1, <1>2, <2>1, IdleType DEF IInv, TypeOK, Entries
<1>4. \A p \in steady : cursor < p /\ p <= call.from => Holds(call.items, p)
  BY <1>1 DEF IInv, SoFar
<1>5. \A p \in steady : p <= cursor => Holds(listed, p)
  BY <1>1 DEF IInv, SoFar
<1>6. Increasing(listed')
  <2>1. /\ Increasing(listed) /\ Increasing(call.items)
        /\ \A i \in DOMAIN listed : listed[i] <= cursor
        /\ \A i \in DOMAIN call.items : cursor < call.items[i]
    BY <1>1 DEF IInv, Between
  <2>2. QED
    BY <1>1, <1>2, <2>1, ExtendIncreasing
<1>7. call.next # NoKey => call.next = call.from
  BY <1>1 DEF IInv, SoFar
<1>8. call.next # NoKey => \A i \in DOMAIN listed' : listed'[i] <= call.next
  <2> SUFFICES ASSUME call.next # NoKey, NEW i \in DOMAIN (listed \o call.items)
               PROVE  (listed \o call.items)[i] <= call.from
    BY <1>1, <1>7
  <2>1. \/ i \in DOMAIN listed /\ (listed \o call.items)[i] = listed[i]
        \/ /\ i - Len(listed) \in DOMAIN call.items
           /\ (listed \o call.items)[i] = call.items[i - Len(listed)]
    BY <1>2
  <2>2. /\ cursor <= call.from
        /\ \A j \in DOMAIN listed : listed[j] <= cursor
        /\ \A j \in DOMAIN call.items : call.items[j] <= call.from
    BY <1>1 DEF IInv, Between
  <2>3. \A j \in DOMAIN listed : listed[j] \in Positions
    BY <1>2
  <2>4. QED
    BY <1>2, <2>1, <2>2, <2>3 DEF Positions, Keys
<1>9. \A p \in steady :
        call.next = NoKey \/ p <= call.next => Holds(listed', p)
  <2> SUFFICES ASSUME NEW p \in steady, call.next = NoKey \/ p <= call.next
               PROVE  Holds(listed, p) \/ Holds(call.items, p)
    BY <1>1, <1>2, HoldsExtend
  <2>1. p \in Positions
    BY <1>2
  <2>2. CASE p <= cursor
    BY <1>5, <2>2
  <2>3. CASE cursor < p /\ call.next # NoKey
    BY <1>4, <1>7, <2>3
  <2>4. CASE cursor < p /\ call.next = NoKey
    BY <1>1, <2>4 DEF IInv, SoFar
  <2>5. QED
    BY <1>2, <2>1, <2>2, <2>3, <2>4 DEF Positions, Keys
<1>10. Between' /\ SoFar'
  BY <1>1, <1>6, <1>8, <1>9, EmptyIncreasing DEF IInv, Between, SoFar, Idle
<1>11. Room'
  BY <1>1 DEF Room, Idle
<1>12. NothingSkipped'
  BY <1>1, <1>9 DEF NothingSkipped
<1>13. QED
  BY <1>3, <1>10, <1>11, <1>12 DEF IInv

LEMMA ChangeInvariant ==
    ASSUME IInv, NEW p \in Positions, NEW e \in Entries, Change(p, e)
    PROVE  IInv'
<1> USE DEF Change
<1>1. TypeOK'
  BY DEF IInv, TypeOK, Entries
<1>2. \A q \in steady' : q \in steady /\ entries'[q] = "passes"
  BY DEF IInv, SoFar, TypeOK
<1>3. SoFar'
  BY <1>2 DEF IInv, SoFar
<1>4. QED
  BY <1>1, <1>2, <1>3 DEF IInv, Between, Room, NothingSkipped

LEMMA NextInvariant == IInv /\ [Next]_vars => IInv'
<1> SUFFICES ASSUME IInv, [Next]_vars PROVE IInv'
  OBVIOUS
<1>1. CASE UNCHANGED vars
  BY <1>1
  DEF vars, IInv, TypeOK, Entries, Between, SoFar, Room, NothingSkipped
<1>2. QED
  BY <1>1, RequestInvariant, EvaluateInvariant, AnswerInvariant,
     NextRoundInvariant, FailsInvariant, ReceiveInvariant, ChangeInvariant
  DEF Next, ServerStep

(***************************************************************************)
(* The invariant behind the listing holds in every reachable state.        *)
(***************************************************************************)
THEOREM Invariance == Spec => []IInv
BY InitInvariant, NextInvariant, PTL DEF Spec

(***************************************************************************)
(* Every reachable state has the declared types.                           *)
(***************************************************************************)
THEOREM TypeCorrect == Spec => []TypeOK
<1>1. IInv => TypeOK
  BY DEF IInv
<1>2. QED
  BY <1>1, Invariance, PTL

(***************************************************************************)
(* Nothing is listed twice or out of order, over all pages together.       *)
(***************************************************************************)
THEOREM InOrderTheorem == Spec => []InOrder
<1>1. IInv => InOrder
  <2> SUFFICES ASSUME IInv PROVE InOrder
    OBVIOUS
  <2>1. listed \in Seq(Positions) /\ call.items \in Seq(Positions) /\ cursor \in Keys
    BY DEF IInv, TypeOK, Call
  <2>2. CASE call.pc = "idle"
    <3>1. call.items = <<>> /\ Increasing(listed)
      BY <2>2 DEF IInv, Between, Room
    <3>2. listed \o <<>> = listed
      BY <2>1
    <3>3. QED
      BY <3>1, <3>2 DEF InOrder
  <2>3. CASE call.pc # "idle"
    <3>1. /\ Increasing(listed) /\ Increasing(call.items)
          /\ \A i \in DOMAIN listed : listed[i] <= cursor
          /\ \A i \in DOMAIN call.items : cursor < call.items[i]
      BY <2>3 DEF IInv, Between
    <3>2. QED
      BY <2>1, <3>1, ExtendIncreasing DEF InOrder
  <2>4. QED
    BY <2>2, <2>3
<1>2. QED
  BY <1>1, Invariance, PTL

(***************************************************************************)
(* A listing that has come to its end has all that was there all along.    *)
(***************************************************************************)
THEOREM NothingSkippedTheorem == Spec => []NothingSkipped
<1>1. IInv => NothingSkipped
  BY DEF IInv
<1>2. QED
  BY <1>1, Invariance, PTL

(***************************************************************************)
(* Answers keep to their limit, queries have a positive Limit.             *)
(***************************************************************************)
THEOREM WithinCapTheorem == Spec => []WithinCap
<1>1. IInv => WithinCap
  <2> SUFFICES ASSUME IInv PROVE WithinCap
    OBVIOUS
  <2>1. call.items \in Seq(Positions) /\ call.left \in Nat /\ call.limit \in Nat
    BY DEF IInv, TypeOK, Call
  <2>2. QED
    BY <2>1, ListingAssumption DEF IInv, Room, WithinCap
<1>2. QED
  BY <1>1, Invariance, PTL

-----------------------------------------------------------------------------
(* The measure of a walk.                                                  *)

\* Where a query stands, with what its request may still do.
LEMMA QueryLeft ==
    ASSUME IInv, call.pc = "query"
    PROVE  /\ call.from \in 0..Last
           /\ call.left \in Nat /\ call.asked \in Nat
           /\ StepsLeft = 2 * (Last - call.from)
                            + (IF call.left < call.asked THEN 2 ELSE 1)
           /\ StepsLeft > 0
BY ListingAssumption DEF IInv, TypeOK, Call, Keys, StepsLeft

LEMMA RequestMoves ==
    ASSUME IInv, NEW asked \in Limits, Request(asked)
    PROVE  UNCHANGED <<faults, cursor>> /\ StepsLeft' < StepsLeft
<1>1. /\ call.pc = "idle"
      /\ call'.pc = "query"
      /\ call'.left = call'.asked
      /\ call'.from = cursor
      /\ UNCHANGED <<faults, cursor>>
  BY DEF Request, Idle
<1>2. cursor \in 0..Last
  BY DEF IInv, TypeOK, Keys
<1>3. IInv'
  BY RequestInvariant
<1>4. StepsLeft = 2 * Last + 2
  BY <1>1 DEF StepsLeft
<1>5. StepsLeft' = 2 * (Last - cursor) + 1
  <2>1. call'.left \in Nat /\ call'.asked \in Nat
    BY <1>3 DEF IInv, TypeOK, Call
  <2>2. ~(call'.left < call'.asked)
    BY <1>1, <2>1
  <2>3. QED
    BY <1>1, <2>2 DEF StepsLeft
<1>6. QED
  BY <1>1, <1>2, <1>4, <1>5, ListingAssumption

LEMMA EvaluateMoves ==
    ASSUME IInv, NEW p \in Positions, Evaluate(p)
    PROVE  UNCHANGED <<faults, cursor>> /\ StepsLeft' < StepsLeft
<1>1. /\ call.pc = "query"
      /\ p > call.from
      /\ call'.pc = "query"
      /\ call'.from = p
      /\ UNCHANGED <<faults, cursor>>
  BY DEF Evaluate, IInv, TypeOK, Call
<1>2. /\ call.from \in 0..Last
      /\ StepsLeft >= 2 * (Last - call.from) + 1
  BY <1>1, QueryLeft, ListingAssumption
<1>3. p \in 1..Last
  BY DEF Positions
<1>4. StepsLeft' <= 2 * (Last - p) + 2
  BY <1>1, <1>3, ListingAssumption DEF StepsLeft
<1>5. StepsLeft' \in Int /\ StepsLeft \in Int
  BY <1>1, <1>2, <1>3, QueryLeft, ListingAssumption DEF StepsLeft
<1>6. QED
  BY <1>1, <1>2, <1>3, <1>4, <1>5, ListingAssumption

LEMMA NextRoundMoves ==
    ASSUME IInv, NEW key \in Keys, NextRound(key)
    PROVE  UNCHANGED <<faults, cursor>> /\ StepsLeft' < StepsLeft
<1>1. /\ call.pc = "query"
      /\ key = call.from
      /\ call.left < call.asked
  BY ReturnedKey DEF NextRound
<1>2. /\ call'.pc = "query"
      /\ call'.from = call.from
      /\ call'.left = call'.asked
      /\ UNCHANGED <<faults, cursor>>
  BY <1>1 DEF NextRound, IInv, TypeOK, Call
<1>3. IInv'
  BY NextRoundInvariant
<1>4. ~(call'.left < call'.asked)
  BY <1>2, <1>3 DEF IInv, TypeOK, Call
<1>5. StepsLeft' = 2 * (Last - call.from) + 1
  BY <1>2, <1>4 DEF StepsLeft
<1>6. QED
  BY <1>1, <1>2, <1>5, QueryLeft, ListingAssumption

LEMMA AnswerMoves ==
    ASSUME IInv, NEW key \in Keys, PageAnswer(key) \/ AllAnswer(key)
    PROVE  UNCHANGED <<faults, cursor>> /\ StepsLeft' < StepsLeft
<1>1. /\ call.pc = "query"
      /\ call'.pc = "answered"
      /\ UNCHANGED <<faults, cursor>>
  BY DEF PageAnswer, AllAnswer, Returned, IInv, TypeOK, Call
<1>2. StepsLeft' = 0
  BY <1>1 DEF StepsLeft
<1>3. QED
  BY <1>1, <1>2, QueryLeft

LEMMA ReceiveMoves ==
    ASSUME IInv, Receive
    PROVE  \/ ~ended /\ ended'
           \/ UNCHANGED faults /\ cursor' > cursor
<1>1. /\ ~ended
      /\ call.next # NoKey => cursor < call.next
  BY DEF Receive, IInv, Between
<1>2. QED
  BY <1>1 DEF Receive, IInv, TypeOK, Call, Keys

(***************************************************************************)
(* No walk goes round in circles: beside changes of the entries, every     *)
(* step ends it, is a failure, moves the cursor on, or brings the request  *)
(* nearer its answer.  With so many positions and failures there are only  *)
(* so many such steps: this is the part of WalkEnds that does not rest on  *)
(* fairness.                                                               *)
(***************************************************************************)
THEOREM WalkMovesOnTheorem == Spec => WalkMovesOn
<1> DEFINE Moves ==
             \/ ~ended /\ ended'
             \/ faults' > faults /\ cursor' = cursor
             \/ UNCHANGED faults /\ cursor' > cursor
             \/ UNCHANGED <<faults, cursor>> /\ StepsLeft' < StepsLeft
             \/ entries' # entries /\ UNCHANGED <<faults, cursor, ended, listed, call>>
<1>1. ASSUME IInv, [Next]_vars PROVE [Moves]_vars
  <2>1. ASSUME NEW asked \in Limits, Request(asked) PROVE Moves
    BY <1>1, <2>1, RequestMoves
  <2>2. ASSUME NEW p \in Positions, Evaluate(p) PROVE Moves
    BY <1>1, <2>2, EvaluateMoves
  <2>3. ASSUME NEW key \in Keys, NextRound(key) PROVE Moves
    BY <1>1, <2>3, NextRoundMoves
  <2>4. ASSUME NEW key \in Keys, PageAnswer(key) \/ AllAnswer(key) PROVE Moves
    BY <1>1, <2>4, AnswerMoves
  <2>5. ASSUME Fails PROVE Moves
    BY <1>1, <2>5 DEF Fails, IInv, TypeOK
  <2>6. ASSUME Receive PROVE Moves
    BY <1>1, <2>6, ReceiveMoves
  <2>7. ASSUME NEW p \in Positions, NEW e \in Entries, Change(p, e) PROVE Moves
    BY <1>1, <2>7 DEF Change, IInv, TypeOK
  <2> HIDE DEF Moves
  <2>8. QED
    BY <1>1, <2>1, <2>2, <2>3, <2>4, <2>5, <2>6, <2>7 DEF Next, ServerStep
<1>2. QED
  BY <1>1, Invariance, PTL DEF Spec, WalkMovesOn
================================================================================
