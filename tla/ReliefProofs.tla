----------------------------- MODULE ReliefProofs -----------------------------
(***************************************************************************)
(* Proofs about Relief: for any number of requests, warehouses, dispatches *)
(* and edits the counters, the stock and the deliveries of a request agree *)
(* with its moves.                                                         *)
(*                                                                         *)
(* Every quantity of the properties adds up some number of each move, so   *)
(* the lemmas are about such tallies: what appending, replacing and        *)
(* removing a move does to them. The inductive invariant adds that a move  *)
(* that is not done has shipped nothing, that a counter that does not      *)
(* match its moves lags behind them unless a demand was lowered, that the  *)
(* counters of a dispatched request cover it, that such a request with a   *)
(* backorder since its last dispatch has nothing pending, and that what is *)
(* delivered was confirmed on some move.                                   *)
(***************************************************************************)
EXTENDS Relief, SumProofs, SequenceTheorems

\* A move that is not done has shipped nothing.
MoveRecord ==
    {m \in [demand : Nat, reserved : Nat, done : BOOLEAN, shipped : Nat,
            confirmed : BOOLEAN] : m.done \/ m.shipped = 0}

AllMoves == [Requests -> [Warehouses -> Seq(MoveRecord)]]
AllAllocations == [Requests -> [Warehouses -> [allocated : Nat, dispatched : Nat]]]

-----------------------------------------------------------------------------
(* Tallies of a sequence of moves *)

\* The number F of each move of ms, added up.
Tally(F, ms) == SumFunction([i \in DOMAIN ms |-> F[ms[i]]])

ShippedOf == [m \in MoveRecord |-> m.shipped]
ReservedOf == [m \in MoveRecord |-> m.reserved]
PendingOf == [m \in MoveRecord |-> IF m.done THEN 0 ELSE m.demand]
CountedOf == [m \in MoveRecord |-> Counted(m)]
ConfirmedOf == [m \in MoveRecord |-> IF m.confirmed THEN m.shipped ELSE 0]

\* A tally is the sum over the positions of its sequence, and a natural.
LEMMA TallySum ==
    ASSUME NEW F \in [MoveRecord -> Nat], NEW ms \in Seq(MoveRecord)
    PROVE  /\ Tally(F, ms) = SumFunctionOnSet([i \in 1 .. Len(ms) |-> F[ms[i]]], 1 .. Len(ms))
           /\ Tally(F, ms) \in Nat
           /\ \A i \in 1 .. Len(ms) : ms[i] \in MoveRecord /\ F[ms[i]] \in Nat
<1> DEFINE S == 1 .. Len(ms)
           f == [i \in S |-> F[ms[i]]]
<1>1. DOMAIN ms = S /\ IsFiniteSet(S)
  BY FS_Interval
<1>2. \A i \in S : ms[i] \in MoveRecord /\ F[ms[i]] \in Nat
  OBVIOUS
<1>3. Tally(F, ms) = SumFunctionOnSet(f, S)
  <2>1. Tally(F, ms) = SumFunction(f)
    BY <1>1 DEF Tally
  <2> DOMAIN f = S
    OBVIOUS
  <2> QED
    BY <2>1, SumOfFunction
<1>4. SumFunctionOnSet(f, S) \in Nat
  <2>1. \A i \in S : f[i] \in Nat
    BY <1>2
  <2> HIDE DEF f, S
  <2> QED
    BY <1>1, <2>1, SumNat
<1> QED
  BY <1>2, <1>3, <1>4

\* Appending a move adds its number.
LEMMA TallyAppend ==
    ASSUME NEW F \in [MoveRecord -> Nat], NEW ms \in Seq(MoveRecord), NEW m \in MoveRecord
    PROVE  /\ Append(ms, m) \in Seq(MoveRecord)
           /\ Tally(F, Append(ms, m)) = Tally(F, ms) + F[m]
<1> DEFINE ns == Append(ms, m)
           n == Len(ms)
           f == [i \in 1 .. n |-> F[ms[i]]]
           g == [i \in 1 .. n + 1 |-> F[ns[i]]]
<1>1. /\ ns \in Seq(MoveRecord) /\ Len(ns) = n + 1 /\ n \in Nat
      /\ \A i \in 1 .. n : ns[i] = ms[i]
      /\ ns[n + 1] = m
  OBVIOUS
<1> HIDE DEF ns
<1>2. /\ Tally(F, ms) = SumFunctionOnSet(f, 1 .. n)
      /\ \A i \in 1 .. n : F[ms[i]] \in Nat
  BY TallySum
<1>3. Tally(F, ns) = SumFunctionOnSet(g, 1 .. n + 1)
  BY <1>1, TallySum
<1>4. /\ AgreeOn(f, g, 1 .. n) /\ IntegerOn(f, 1 .. n)
      /\ g[n + 1] \in Int /\ g[n + 1] = F[m]
  BY <1>1, <1>2 DEF AgreeOn, IntegerOn
<1> HIDE DEF f, g, n
<1>5. SumFunctionOnSet(g, 1 .. n + 1) = SumFunctionOnSet(f, 1 .. n) + g[n + 1]
  BY <1>1, <1>4, SumLast
<1> QED
  BY <1>1, <1>2, <1>3, <1>4, <1>5 DEF ns

\* Replacing a move exchanges its number.
LEMMA TallyReplace ==
    ASSUME NEW F \in [MoveRecord -> Nat], NEW ms \in Seq(MoveRecord),
           NEW k \in 1 .. Len(ms), NEW m \in MoveRecord
    PROVE  /\ [ms EXCEPT ![k] = m] \in Seq(MoveRecord)
           /\ Len([ms EXCEPT ![k] = m]) = Len(ms)
           /\ Tally(F, [ms EXCEPT ![k] = m]) = Tally(F, ms) - F[ms[k]] + F[m]
<1> DEFINE ns == [ms EXCEPT ![k] = m]
           S == 1 .. Len(ms)
           f == [i \in S |-> F[ms[i]]]
           g == [i \in S |-> F[ns[i]]]
<1>1. /\ ns \in Seq(MoveRecord) /\ Len(ns) = Len(ms)
      /\ \A i \in S : ns[i] = IF i = k THEN m ELSE ms[i]
  BY ExceptSeq
<1> HIDE DEF ns
<1>2. /\ Tally(F, ms) = SumFunctionOnSet(f, S)
      /\ \A i \in S : F[ms[i]] \in Nat
  BY TallySum
<1>3. Tally(F, ns) = SumFunctionOnSet(g, S)
  BY <1>1, TallySum
<1>4. IsFiniteSet(S) /\ k \in S
  BY FS_Interval
<1>5. IntegerOn(f, S) /\ IntegerOn(g, S)
  BY <1>1, <1>2 DEF IntegerOn
<1>6. AgreeOn(f, g, Without(S, k))
  BY <1>1 DEF AgreeOn, Without
<1>7. f[k] = F[ms[k]] /\ g[k] = F[m]
  BY <1>1, <1>4
<1> HIDE DEF S, f, g
<1>8. SumFunctionOnSet(g, S) = SumFunctionOnSet(f, S) - f[k] + g[k]
  BY <1>4, <1>5, <1>6, SumChange
<1> QED
  BY <1>1, <1>2, <1>3, <1>7, <1>8 DEF ns

\* RemoveAt takes one element out and moves the later ones up.
LEMMA RemovedSeq ==
    ASSUME NEW S, NEW s \in Seq(S), NEW k \in 1 .. Len(s)
    PROVE  /\ RemoveAt(s, k) \in Seq(S)
           /\ Len(RemoveAt(s, k)) = Len(s) - 1
           /\ \A i \in 1 .. Len(s) - 1 :
                 RemoveAt(s, k)[i] = IF i < k THEN s[i] ELSE s[i + 1]
<1> DEFINE a == SubSeq(s, 1, k - 1)
           b == SubSeq(s, k + 1, Len(s))
<1>1. /\ a \in Seq(S) /\ Len(a) = k - 1
      /\ \A i \in 1 .. k - 1 : a[i] = s[i]
  BY SubSeqProperties
<1>2. /\ b \in Seq(S) /\ Len(b) = Len(s) - k
      /\ \A i \in 1 .. Len(s) - k : b[i] = s[k + i]
  BY SubSeqProperties
<1> HIDE DEF a, b
<1>3. /\ a \o b \in Seq(S)
      /\ Len(a \o b) = Len(s) - 1
      /\ \A i \in 1 .. Len(s) - 1 : (a \o b)[i] = IF i < k THEN s[i] ELSE s[i + 1]
  <2>1. /\ a \o b \in Seq(S) /\ Len(a \o b) = Len(a) + Len(b)
        /\ \A i \in 1 .. Len(a) + Len(b) :
              (a \o b)[i] = IF i <= Len(a) THEN a[i] ELSE b[i - Len(a)]
    BY <1>1, <1>2, ConcatProperties
  <2>2. Len(a) + Len(b) = Len(s) - 1
    BY <1>1, <1>2
  <2>3. ASSUME NEW i \in 1 .. Len(s) - 1
        PROVE  (a \o b)[i] = IF i < k THEN s[i] ELSE s[i + 1]
    <3>1. CASE i < k
      BY <3>1, <2>1, <2>2, <1>1
    <3>2. CASE ~(i < k)
      <4>1. (a \o b)[i] = b[i - (k - 1)]
        BY <3>2, <2>1, <2>2, <1>1
      <4>2. i - (k - 1) \in 1 .. Len(s) - k
        BY <3>2
      <4>3. b[i - (k - 1)] = s[k + (i - (k - 1))]
        BY <4>2, <1>2
      <4>4. k + (i - (k - 1)) = i + 1
        OBVIOUS
      <4> QED
        BY <3>2, <4>1, <4>3, <4>4
    <3> QED
      BY <3>1, <3>2
  <2> QED
    BY <2>1, <2>2, <2>3
<1> QED
  BY <1>3 DEF RemoveAt, a, b

\* Removing a move subtracts its number.
LEMMA TallyRemove ==
    ASSUME NEW F \in [MoveRecord -> Nat], NEW ms \in Seq(MoveRecord), NEW k \in 1 .. Len(ms)
    PROVE  /\ RemoveAt(ms, k) \in Seq(MoveRecord)
           /\ Tally(F, RemoveAt(ms, k)) = Tally(F, ms) - F[ms[k]]
<1> DEFINE ns == RemoveAt(ms, k)
           n == Len(ms) - 1
           f == [i \in 1 .. n + 1 |-> F[ms[i]]]
           g == [i \in 1 .. n |-> F[ns[i]]]
<1>1. /\ ns \in Seq(MoveRecord) /\ Len(ns) = n /\ n \in Nat /\ Len(ms) = n + 1
      /\ \A i \in 1 .. n : ns[i] = IF i < k THEN ms[i] ELSE ms[i + 1]
  <2>1. Len(ms) \in Nat /\ n \in Nat /\ Len(ms) = n + 1
    OBVIOUS
  <2>2. /\ ns \in Seq(MoveRecord) /\ Len(ns) = n
        /\ \A i \in 1 .. n : ns[i] = IF i < k THEN ms[i] ELSE ms[i + 1]
    BY RemovedSeq
  <2> QED
    BY <2>1, <2>2
<1> HIDE DEF ns, n
<1>2. /\ Tally(F, ms) = SumFunctionOnSet(f, 1 .. n + 1)
      /\ \A i \in 1 .. n + 1 : F[ms[i]] \in Nat
  BY <1>1, TallySum
<1>3. Tally(F, ns) = SumFunctionOnSet(g, 1 .. n)
  BY <1>1, TallySum
<1>4. IntegerOn(f, 1 .. n + 1)
  BY <1>2 DEF IntegerOn
<1>5. MovedUp(f, g, n, k)
  BY <1>1 DEF MovedUp
<1>6. f[k] = F[ms[k]] /\ k \in 1 .. n + 1
  BY <1>1
<1>8. n \in Nat /\ k \in 1 .. n + 1
  BY <1>1
<1> HIDE DEF f, g
<1>7. SumFunctionOnSet(g, 1 .. n) = SumFunctionOnSet(f, 1 .. n + 1) - f[k]
  BY <1>4, <1>5, <1>8, SumRemoved
<1> QED
  BY <1>1, <1>2, <1>3, <1>6, <1>7 DEF ns

\* The sums of the model over one sequence of moves are tallies.
LEMMA Tallies ==
    ASSUME NEW ms \in Seq(MoveRecord)
    PROVE  /\ ShippedBy(ms) = Tally(ShippedOf, ms)
           /\ ReservedBy(ms) = Tally(ReservedOf, ms)
           /\ PendingBy(ms) = Tally(PendingOf, ms)
           /\ Dispatched(ms) = Tally(CountedOf, ms)
           /\ {ShippedOf, ReservedOf, PendingOf, CountedOf, ConfirmedOf}
                 \subseteq [MoveRecord -> Nat]
<1> DEFINE S == DOMAIN ms
<1>1. \A i \in S : ms[i] \in MoveRecord
  OBVIOUS
<1> HIDE DEF S
<1>2. [i \in S |-> ms[i].shipped] = [i \in S |-> ShippedOf[ms[i]]]
  BY <1>1 DEF ShippedOf
<1>3. [i \in S |-> ms[i].reserved] = [i \in S |-> ReservedOf[ms[i]]]
  BY <1>1 DEF ReservedOf
<1>4. [i \in S |-> IF ms[i].done THEN 0 ELSE ms[i].demand] = [i \in S |-> PendingOf[ms[i]]]
  BY <1>1 DEF PendingOf
<1>5. [i \in S |-> Counted(ms[i])] = [i \in S |-> CountedOf[ms[i]]]
  BY <1>1 DEF CountedOf
<1>6. /\ ShippedOf \in [MoveRecord -> Nat]
      /\ ReservedOf \in [MoveRecord -> Nat]
      /\ PendingOf \in [MoveRecord -> Nat]
      /\ CountedOf \in [MoveRecord -> Nat]
      /\ ConfirmedOf \in [MoveRecord -> Nat]
  BY DEF ShippedOf, ReservedOf, PendingOf, CountedOf, ConfirmedOf, MoveRecord, Counted
<1>7. ShippedBy(ms) = Tally(ShippedOf, ms)
  BY <1>2 DEF ShippedBy, Tally, S
<1>8. ReservedBy(ms) = Tally(ReservedOf, ms)
  BY <1>3 DEF ReservedBy, Tally, S
<1>9. PendingBy(ms) = Tally(PendingOf, ms)
  BY <1>4 DEF PendingBy, Tally, S
<1>10. Dispatched(ms) = Tally(CountedOf, ms)
  BY <1>5 DEF Dispatched, Tally, S
<1> QED
  BY <1>6, <1>7, <1>8, <1>9, <1>10

\* What moves count for is what they shipped and what is pending.
LEMMA CountedIsShippedOrPending ==
    ASSUME NEW ms \in Seq(MoveRecord)
    PROVE  Dispatched(ms) = ShippedBy(ms) + PendingBy(ms)
<1> DEFINE S == 1 .. Len(ms)
           c == [i \in S |-> CountedOf[ms[i]]]
           s == [i \in S |-> ShippedOf[ms[i]]]
           p == [i \in S |-> PendingOf[ms[i]]]
<1>1. IsFiniteSet(S)
  BY FS_Interval
<1>2. \A i \in S : s[i] \in Int /\ p[i] \in Int /\ c[i] = s[i] + p[i]
  <2>1. ASSUME NEW i \in S
        PROVE  s[i] \in Int /\ p[i] \in Int /\ c[i] = s[i] + p[i]
    <3>1. ms[i] \in MoveRecord
      OBVIOUS
    <3> QED
      BY <3>1 DEF CountedOf, ShippedOf, PendingOf, Counted, MoveRecord
  <2> QED
    BY <2>1
<1>3. /\ Tally(CountedOf, ms) = SumFunctionOnSet(c, S)
      /\ Tally(ShippedOf, ms) = SumFunctionOnSet(s, S)
      /\ Tally(PendingOf, ms) = SumFunctionOnSet(p, S)
  BY TallySum, Tallies
<1> HIDE DEF S, c, s, p
<1>4. SumFunctionOnSet(c, S) = SumFunctionOnSet(s, S) + SumFunctionOnSet(p, S)
  BY <1>1, <1>2, SumPlus
<1> QED
  BY <1>3, <1>4, Tallies

-----------------------------------------------------------------------------
(* Sums over the requests of one warehouse *)

\* What the dispatches ms reserve in warehouse w.
Reserve(ms, w) == SumFunction([r \in Requests |-> ReservedBy(ms[r][w])])

\* What the allocations alloc promise of warehouse w.
Owed(alloc, w) == SumFunction([r \in Requests |-> Remaining(alloc[r][w])])

\* When the moves of one request change, what is reserved does as theirs.
LEMMA ReserveChange ==
    ASSUME NEW ms \in AllMoves, NEW ns \in AllMoves, NEW r \in Requests,
           NEW w \in Warehouses,
           \A s \in Requests : s # r => ns[s][w] = ms[s][w]
    PROVE  /\ Reserve(ms, w) \in Nat
           /\ Reserve(ns, w) = Reserve(ms, w) - ReservedBy(ms[r][w]) + ReservedBy(ns[r][w])
<1> DEFINE f == [s \in Requests |-> ReservedBy(ms[s][w])]
           g == [s \in Requests |-> ReservedBy(ns[s][w])]
<1>1. ASSUME NEW s \in Requests
      PROVE  f[s] \in Nat /\ g[s] \in Nat
  <2>1. ms[s][w] \in Seq(MoveRecord) /\ ns[s][w] \in Seq(MoveRecord)
    BY DEF AllMoves
  <2> QED
    BY <2>1, TallySum, Tallies
<1>2. AgreeOn(f, g, Without(Requests, r))
  BY DEF AgreeOn, Without
<1>3. /\ Reserve(ms, w) = SumFunctionOnSet(f, Requests)
      /\ Reserve(ns, w) = SumFunctionOnSet(g, Requests)
  BY SumOfFunction DEF Reserve
<1>4. f[r] = ReservedBy(ms[r][w]) /\ g[r] = ReservedBy(ns[r][w])
  OBVIOUS
<1>5. IsFiniteSet(Requests)
  BY ReliefAssumption
<1> HIDE DEF f, g
<1>6. IntegerOn(f, Requests) /\ IntegerOn(g, Requests)
  BY <1>1 DEF IntegerOn
<1>7. SumFunctionOnSet(g, Requests) = SumFunctionOnSet(f, Requests) - f[r] + g[r]
  BY <1>2, <1>5, <1>6, SumChange
<1>8. SumFunctionOnSet(f, Requests) \in Nat
  BY <1>1, <1>5, SumNat
<1> QED
  BY <1>3, <1>4, <1>7, <1>8

\* When the allocations of one request change, what is promised does as theirs.
LEMMA OwedChange ==
    ASSUME NEW a \in AllAllocations, NEW b \in AllAllocations, NEW r \in Requests,
           NEW w \in Warehouses,
           \A s \in Requests : s # r => b[s][w] = a[s][w]
    PROVE  /\ Owed(a, w) \in Nat
           /\ Owed(b, w) = Owed(a, w) - Remaining(a[r][w]) + Remaining(b[r][w])
<1> DEFINE f == [s \in Requests |-> Remaining(a[s][w])]
           g == [s \in Requests |-> Remaining(b[s][w])]
<1>1. ASSUME NEW s \in Requests
      PROVE  f[s] \in Nat /\ g[s] \in Nat
  BY DEF AllAllocations, Remaining, AtLeast0
<1>2. AgreeOn(f, g, Without(Requests, r))
  BY DEF AgreeOn, Without
<1>3. /\ Owed(a, w) = SumFunctionOnSet(f, Requests)
      /\ Owed(b, w) = SumFunctionOnSet(g, Requests)
  BY SumOfFunction DEF Owed
<1>4. f[r] = Remaining(a[r][w]) /\ g[r] = Remaining(b[r][w])
  OBVIOUS
<1>5. IsFiniteSet(Requests)
  BY ReliefAssumption
<1> HIDE DEF f, g
<1>6. IntegerOn(f, Requests) /\ IntegerOn(g, Requests)
  BY <1>1 DEF IntegerOn
<1>7. SumFunctionOnSet(g, Requests) = SumFunctionOnSet(f, Requests) - f[r] + g[r]
  BY <1>2, <1>5, <1>6, SumChange
<1>8. SumFunctionOnSet(f, Requests) \in Nat
  BY <1>1, <1>5, SumNat
<1> QED
  BY <1>3, <1>4, <1>7, <1>8

-----------------------------------------------------------------------------
(* The inductive invariant *)

TypeOK ==
    /\ approval \in [Requests -> {"draft", "pending", "approved", "rejected", "revision"}]
    /\ review \in [Requests -> BOOLEAN]
    /\ stage \in [Requests -> {"draft", "submitted", "approved", "rejected", "allocated",
                               "dispatched"}]
    /\ allocation \in AllAllocations
    /\ moves \in AllMoves
    /\ delivered \in [Requests -> Nat]
    /\ onHand \in [Warehouses -> Int]
    /\ blind \subseteq Warehouses
    /\ short \subseteq Requests
    /\ edited \subseteq Requests
    /\ edits \in Nat

\* A counter is what the moves count for, less once a demand was raised, and more
\* only where one was lowered.
CountersLag ==
    \A r \in Requests, w \in Warehouses :
        /\ w \notin blind => allocation[r][w].dispatched <= Dispatched(moves[r][w])
        /\ r \notin edited => allocation[r][w].dispatched = Dispatched(moves[r][w])

\* A request reads dispatched only while its counters cover what it asked for.
CountersCover ==
    \A r \in Requests : stage[r] = "dispatched" => Covered(r, allocation)

\* A dispatched request with a backorder since its last dispatch has nothing pending,
\* so its counters are exact.
ShortIsSettled ==
    \A r \in short : stage[r] = "dispatched" => Settled(r, moves) /\ r \notin edited

\* What the moves ms of a request shipped and somebody confirmed.
Accepted(ms) == SumFunction([w \in Warehouses |-> Tally(ConfirmedOf, ms[w])])

\* No more is delivered than moves that are confirmed shipped.
DeliveredWasConfirmed == \A r \in Requests : delivered[r] <= Accepted(moves[r])

ReliefInv ==
    /\ TypeOK
    /\ CountersLag
    /\ CountersCover
    /\ ShortIsSettled
    /\ PromisedOnce
    /\ DeliveredWasConfirmed

-----------------------------------------------------------------------------
(* What the operations do to moves and allocations *)

\* A new move is well typed, and reserves no more than it demands.
LEMMA MoveFacts ==
    ASSUME NEW n \in Nat, NEW free \in Int
    PROVE  /\ Move(n, free) \in MoveRecord
           /\ ReservedOf[Move(n, free)] <= n
           /\ CountedOf[Move(n, free)] = n
           /\ ShippedOf[Move(n, free)] = 0
           /\ ConfirmedOf[Move(n, free)] = 0
<1>1. Move(n, free) \in MoveRecord
  BY DEF Move, MoveRecord, AtLeast0
<1> QED
  BY <1>1 DEF Move, AtLeast0, ReservedOf, CountedOf, ShippedOf, ConfirmedOf, Counted

\* Move i once it has shipped q.
Finished(m, q) == [m EXCEPT !.done = TRUE, !.shipped = q, !.reserved = 0]

\* A finished move is well typed, reserves nothing and counts what it shipped.
LEMMA FinishedFacts ==
    ASSUME NEW m \in MoveRecord, NEW q \in Nat
    PROVE  /\ Finished(m, q) \in MoveRecord
           /\ ReservedOf[Finished(m, q)] = 0
           /\ CountedOf[Finished(m, q)] = q
           /\ ConfirmedOf[Finished(m, q)] >= 0
<1>1. Finished(m, q) \in MoveRecord
  BY DEF Finished, MoveRecord
<1>2. /\ Finished(m, q).reserved = 0
      /\ Finished(m, q).done
      /\ Finished(m, q).shipped = q
  BY DEF Finished, MoveRecord
<1> QED
  BY <1>1, <1>2 DEF ReservedOf, CountedOf, ConfirmedOf, Counted

\* A shipment exchanges the move for the finished one and adds its backorder.
LEMMA ShipmentTally ==
    ASSUME NEW ms \in Seq(MoveRecord), NEW i \in 1 .. Len(ms), NEW q \in Nat,
           NEW b \in BOOLEAN, NEW free \in Int, b => q < ms[i].demand
    PROVE  /\ Shipment(ms, i, q, b, free) \in Seq(MoveRecord)
           /\ \A F \in [MoveRecord -> Nat] :
                 Tally(F, Shipment(ms, i, q, b, free)) =
                    Tally(F, ms) - F[ms[i]] + F[Finished(ms[i], q)]
                       + (IF b THEN F[Move(ms[i].demand - q, free)] ELSE 0)
<1> DEFINE d == Finished(ms[i], q)
           done == [ms EXCEPT ![i] = d]
           m == Move(ms[i].demand - q, free)
<1>1. ms[i] \in MoveRecord
  OBVIOUS
<1>2. d \in MoveRecord
  BY <1>1, FinishedFacts
<1>3. [ms EXCEPT ![i] = [@ EXCEPT !.done = TRUE, !.shipped = q, !.reserved = 0]] = done
  BY DEF Finished
<1> HIDE DEF d
<1>4. /\ done \in Seq(MoveRecord)
      /\ \A F \in [MoveRecord -> Nat] : Tally(F, done) = Tally(F, ms) - F[ms[i]] + F[d]
  BY <1>2, TallyReplace
<1>5. CASE ~b
  <2>1. Shipment(ms, i, q, b, free) = done
    BY <1>3, <1>5 DEF Shipment
  <2>2. \A F \in [MoveRecord -> Nat] :
           Tally(F, ms) \in Nat /\ F[ms[i]] \in Nat /\ F[d] \in Nat
    BY <1>1, <1>2, TallySum
  <2>3. \A F \in [MoveRecord -> Nat] :
           Tally(F, ms) - F[ms[i]] + F[d] + 0 = Tally(F, ms) - F[ms[i]] + F[d]
    BY <2>2
  <2> HIDE DEF done, m
  <2>4. ASSUME NEW F \in [MoveRecord -> Nat]
        PROVE  Tally(F, Shipment(ms, i, q, b, free)) =
                  Tally(F, ms) - F[ms[i]] + F[d] + (IF b THEN F[m] ELSE 0)
    BY <2>1, <2>3, <1>4, <1>5
  <2> QED
    BY <2>1, <2>4, <1>4 DEF d, m
<1>6. CASE b
  <2>1. Shipment(ms, i, q, b, free) = Append(done, m)
    BY <1>3, <1>6 DEF Shipment
  <2>2. m \in MoveRecord
    <3> ms[i].demand - q \in Nat
      BY <1>1, <1>6 DEF MoveRecord
    <3> QED
      BY MoveFacts
  <2> HIDE DEF done, m
  <2>3. /\ Append(done, m) \in Seq(MoveRecord)
        /\ \A F \in [MoveRecord -> Nat] : Tally(F, Append(done, m)) = Tally(F, done) + F[m]
    BY <1>4, <2>2, TallyAppend
  <2> QED
    BY <2>1, <2>3, <1>4, <1>6 DEF d, m
<1> QED
  BY <1>5, <1>6

\* Recounting sets each counter of r to what its moves count for.
LEMMA RecountFacts ==
    ASSUME allocation \in AllAllocations, NEW r \in Requests, NEW ms \in AllMoves
    PROVE  /\ Recount(r, ms) \in AllAllocations
           /\ \A s \in Requests : s # r => Recount(r, ms)[s] = allocation[s]
           /\ \A w \in Warehouses :
                 /\ Recount(r, ms)[r][w].allocated = allocation[r][w].allocated
                 /\ Recount(r, ms)[r][w].dispatched = Dispatched(ms[r][w])
<1>1. ASSUME NEW w \in Warehouses
      PROVE  Dispatched(ms[r][w]) \in Nat
  <2> ms[r][w] \in Seq(MoveRecord)
    BY DEF AllMoves
  <2> QED
    BY TallySum, Tallies
<1> QED
  BY <1>1 DEF Recount, AllAllocations

\* What _action_done does to moves and allocations.
LEMMA ActionDoneEffect ==
    ASSUME TypeOK, NEW r \in Requests, NEW w \in Warehouses,
           NEW i \in DOMAIN moves[r][w], NEW q \in Nat, NEW b \in BOOLEAN,
           ActionDone(r, w, i, q, b)
    PROVE  LET m == moves[r][w][i]
               free == Free(w) + m.reserved - q
           IN  /\ m \in MoveRecord /\ ~m.done /\ Free(w) \in Int
               /\ b => m.demand - q \in Nat
               /\ moves' \in AllMoves
               /\ \A s \in Requests, v \in Warehouses :
                     s # r \/ v # w => moves'[s][v] = moves[s][v]
               /\ \A F \in [MoveRecord -> Nat] :
                     Tally(F, moves'[r][w]) =
                        Tally(F, moves[r][w]) - F[m] + F[Finished(m, q)]
                           + (IF b THEN F[Move(m.demand - q, free)] ELSE 0)
               /\ allocation' = Recount(r, moves')
<1> DEFINE m == moves[r][w][i]
           free == Free(w) + m.reserved - q
           ms == Shipment(moves[r][w], i, q, b, free)
<1>1. /\ moves \in AllMoves /\ moves[r][w] \in Seq(MoveRecord)
      /\ i \in 1 .. Len(moves[r][w])
  BY DEF TypeOK, AllMoves
<1>2. m \in MoveRecord
  BY <1>1
<1>3. Free(w) \in Int
  <2>1. Reserve(moves, w) \in Nat
    BY <1>1, ReserveChange
  <2>2. Free(w) = onHand[w] - Reserve(moves, w)
    BY DEF Free, Reserve
  <2>3. onHand[w] \in Int
    BY DEF TypeOK
  <2> QED
    BY <2>1, <2>2, <2>3
<1>4. ~m.done /\ (b => q < m.demand)
  BY DEF ActionDone
<1>5. free \in Int /\ (b => m.demand - q \in Nat)
  BY <1>2, <1>3, <1>4 DEF MoveRecord
<1>6. moves' = [moves EXCEPT ![r][w] = ms] /\ allocation' = Recount(r, moves')
  BY DEF ActionDone
<1>7. \A F \in [MoveRecord -> Nat] :
         Tally(F, ms) = Tally(F, moves[r][w]) - F[m] + F[Finished(m, q)]
                           + (IF b THEN F[Move(m.demand - q, free)] ELSE 0)
  BY <1>1, <1>4, <1>5, ShipmentTally
<1>8. ms \in Seq(MoveRecord)
  BY <1>1, <1>4, <1>5, ShipmentTally
<1> HIDE DEF ms
<1>9. /\ moves' \in AllMoves /\ moves'[r][w] = ms
      /\ \A s \in Requests, v \in Warehouses :
            s # r \/ v # w => moves'[s][v] = moves[s][v]
  BY <1>1, <1>6, <1>8 DEF AllMoves
<1> QED
  BY <1>2, <1>3, <1>4, <1>5, <1>6, <1>7, <1>9

\* What _action_cancel does to moves and allocations.
LEMMA CancelEffect ==
    ASSUME TypeOK, NEW r \in Requests, NEW w \in Warehouses,
           NEW i \in DOMAIN moves[r][w], Cancel(r, w, i)
    PROVE  LET m == moves[r][w][i]
           IN  /\ m \in MoveRecord /\ ~m.done
               /\ moves' \in AllMoves
               /\ \A s \in Requests, v \in Warehouses :
                     s # r \/ v # w => moves'[s][v] = moves[s][v]
               /\ \A F \in [MoveRecord -> Nat] :
                     Tally(F, moves'[r][w]) = Tally(F, moves[r][w]) - F[m]
               /\ allocation' = Recount(r, moves')
<1> DEFINE m == moves[r][w][i]
           ms == RemoveAt(moves[r][w], i)
<1>1. /\ moves \in AllMoves /\ moves[r][w] \in Seq(MoveRecord)
      /\ i \in 1 .. Len(moves[r][w])
  BY DEF TypeOK, AllMoves
<1>2. m \in MoveRecord
  BY <1>1
<1>3. moves' = [moves EXCEPT ![r][w] = ms] /\ allocation' = Recount(r, moves') /\ ~m.done
  BY DEF Cancel
<1>4. ms \in Seq(MoveRecord)
  <2> DEFINE all == moves[r][w]
  <2>1. all \in Seq(MoveRecord) /\ i \in 1 .. Len(all)
    BY <1>1
  <2> HIDE DEF all
  <2>2. RemoveAt(all, i) \in Seq(MoveRecord)
    BY <2>1, RemovedSeq
  <2> QED
    BY <2>2 DEF all
<1>5. ASSUME NEW F \in [MoveRecord -> Nat]
      PROVE  Tally(F, ms) = Tally(F, moves[r][w]) - F[m]
  <2> DEFINE all == moves[r][w]
  <2>1. all \in Seq(MoveRecord) /\ i \in 1 .. Len(all)
    BY <1>1
  <2> HIDE DEF all
  <2>2. Tally(F, RemoveAt(all, i)) = Tally(F, all) - F[all[i]]
    BY <2>1, TallyRemove
  <2> QED
    BY <2>2 DEF all
<1> HIDE DEF ms
<1>6. /\ moves' \in AllMoves /\ moves'[r][w] = ms
      /\ \A s \in Requests, v \in Warehouses :
            s # r \/ v # w => moves'[s][v] = moves[s][v]
  BY <1>1, <1>3, <1>4 DEF AllMoves
<1> QED
  BY <1>2, <1>3, <1>5, <1>6

\* Writing one move of an allocation exchanges its numbers.
LEMMA MoveWritten ==
    ASSUME TypeOK, NEW r \in Requests, NEW w \in Warehouses,
           NEW i \in DOMAIN moves[r][w], NEW m \in MoveRecord, NEW ms,
           ms = [moves[r][w] EXCEPT ![i] = m], moves' = [moves EXCEPT ![r][w] = ms]
    PROVE  /\ moves[r][w][i] \in MoveRecord
           /\ moves' \in AllMoves
           /\ \A s \in Requests, v \in Warehouses :
                 s # r \/ v # w => moves'[s][v] = moves[s][v]
           /\ \A F \in [MoveRecord -> Nat] :
                 Tally(F, moves'[r][w]) = Tally(F, moves[r][w]) - F[moves[r][w][i]] + F[m]
<1>1. /\ moves \in AllMoves /\ moves[r][w] \in Seq(MoveRecord)
      /\ i \in 1 .. Len(moves[r][w])
  BY DEF TypeOK, AllMoves
<1>2. ms \in Seq(MoveRecord)
  BY <1>1, ExceptSeq
<1>3. ASSUME NEW F \in [MoveRecord -> Nat]
      PROVE  Tally(F, ms) = Tally(F, moves[r][w]) - F[moves[r][w][i]] + F[m]
  <2> DEFINE all == moves[r][w]
  <2>1. all \in Seq(MoveRecord) /\ i \in 1 .. Len(all)
    BY <1>1
  <2> HIDE DEF all
  <2>2. Tally(F, [all EXCEPT ![i] = m]) = Tally(F, all) - F[all[i]] + F[m]
    BY <2>1, TallyReplace
  <2> QED
    BY <2>2 DEF all
<1>4. /\ moves' \in AllMoves /\ moves'[r][w] = ms
      /\ \A s \in Requests, v \in Warehouses :
            s # r \/ v # w => moves'[s][v] = moves[s][v]
  BY <1>1, <1>2 DEF AllMoves
<1>5. moves[r][w][i] \in MoveRecord
  BY <1>1
<1> QED
  BY <1>3, <1>4, <1>5

\* A write to a move that is done, or to other fields, keeps it well typed.
LEMMA MoveFields ==
    ASSUME TypeOK, NEW r \in Requests, NEW w \in Warehouses, NEW i \in DOMAIN moves[r][w]
    PROVE  /\ moves[r][w][i] \in MoveRecord
           /\ [moves[r][w][i] EXCEPT !.confirmed = TRUE] \in MoveRecord
           /\ \A n, k \in Nat :
                 [moves[r][w][i] EXCEPT !.demand = n, !.reserved = k] \in MoveRecord
<1>1. moves[r][w] \in Seq(MoveRecord)
  BY DEF TypeOK, AllMoves
<1> DEFINE m == moves[r][w][i]
<1>2. m \in MoveRecord
  BY <1>1
<1> HIDE DEF m
<1>3. [m EXCEPT !.confirmed = TRUE] \in MoveRecord
  BY <1>2 DEF MoveRecord
<1>4. \A n, k \in Nat : [m EXCEPT !.demand = n, !.reserved = k] \in MoveRecord
  BY <1>2 DEF MoveRecord
<1> QED
  BY <1>2, <1>3, <1>4 DEF m

\* Free stock is what is on hand and not reserved.
LEMMA FreeFacts ==
    ASSUME TypeOK, NEW w \in Warehouses
    PROVE  /\ Free(w) = onHand[w] - Reserve(moves, w)
           /\ Promised(w) = Owed(allocation, w)
           /\ Free(w) \in Int /\ Promised(w) \in Nat
           /\ onHand[w] \in Int /\ Reserve(moves, w) \in Nat
<1>1. Reserve(moves, w) \in Nat
  <2> DEFINE f == [r \in Requests |-> ReservedBy(moves[r][w])]
  <2>1. ASSUME NEW r \in Requests
        PROVE  f[r] \in Nat
    <3>1. moves[r][w] \in Seq(MoveRecord)
      BY DEF TypeOK, AllMoves
    <3> QED
      BY <3>1, TallySum, Tallies
  <2>2. Reserve(moves, w) = SumFunctionOnSet(f, Requests)
    BY SumOfFunction DEF Reserve
  <2> HIDE DEF f
  <2> QED
    BY <2>1, <2>2, SumNat, ReliefAssumption
<1>2. Owed(allocation, w) \in Nat
  <2> DEFINE f == [r \in Requests |-> Remaining(allocation[r][w])]
  <2>1. \A r \in Requests : f[r] \in Nat
    BY DEF TypeOK, AllAllocations, Remaining, AtLeast0
  <2>2. Owed(allocation, w) = SumFunctionOnSet(f, Requests)
    BY SumOfFunction DEF Owed
  <2> HIDE DEF f
  <2> QED
    BY <2>1, <2>2, SumNat, ReliefAssumption
<1>3. /\ Free(w) = onHand[w] - Reserve(moves, w)
      /\ Promised(w) = Owed(allocation, w)
  BY DEF Free, Promised, Reserve, Owed
<1>4. onHand[w] \in Int
  BY DEF TypeOK
<1> QED
  BY <1>1, <1>2, <1>3, <1>4

\* What an allocation has left is a natural.
LEMMA RemainingFacts ==
    ASSUME NEW a \in [allocated : Nat, dispatched : Nat]
    PROVE  /\ Remaining(a) \in Nat
           /\ Remaining(a) >= a.allocated - a.dispatched
           /\ Remaining(a) > 0 => Remaining(a) = a.allocated - a.dispatched
  BY DEF Remaining, AtLeast0

\* What action_create_dispatch does to moves and allocations.
LEMMA CreateDispatchEffect ==
    ASSUME TypeOK, NEW r \in Requests, CreateDispatch(r)
    PROVE  /\ moves' \in AllMoves /\ allocation' \in AllAllocations
           /\ \A s \in Requests : s # r =>
                 moves'[s] = moves[s] /\ allocation'[s] = allocation[s]
           /\ \A w \in Warehouses : LET n == Remaining(allocation[r][w]) IN
                 /\ allocation'[r][w].allocated = allocation[r][w].allocated
                 /\ allocation'[r][w].dispatched = allocation[r][w].dispatched + n
                 /\ n = 0 => moves'[r][w] = moves[r][w]
                 /\ n > 0 => moves'[r][w] = Append(moves[r][w], Move(n, Free(w)))
<1> DEFINE left == [w \in Warehouses |-> Remaining(allocation[r][w])]
           W == {w \in Warehouses : left[w] > 0}
           row == [w \in Warehouses |->
                     IF w \in W THEN Append(moves[r][w], Move(left[w], Free(w)))
                                ELSE moves[r][w]]
           counters == [w \in Warehouses |->
                           [allocation[r][w] EXCEPT !.dispatched = @ + left[w]]]
<1>1. /\ moves' = [moves EXCEPT ![r] = row]
      /\ allocation' = [allocation EXCEPT ![r] = counters]
  BY DEF CreateDispatch
<1>2. ASSUME NEW w \in Warehouses
      PROVE  /\ left[w] = Remaining(allocation[r][w]) /\ left[w] \in Nat
             /\ row[w] \in Seq(MoveRecord)
             /\ counters[w] \in [allocated : Nat, dispatched : Nat]
             /\ counters[w].allocated = allocation[r][w].allocated
             /\ counters[w].dispatched = allocation[r][w].dispatched + left[w]
             /\ left[w] = 0 => row[w] = moves[r][w]
             /\ left[w] > 0 => row[w] = Append(moves[r][w], Move(left[w], Free(w)))
  <2>1. allocation[r][w] \in [allocated : Nat, dispatched : Nat]
    BY DEF TypeOK, AllAllocations
  <2>2. left[w] = Remaining(allocation[r][w]) /\ left[w] \in Nat
    BY <2>1, RemainingFacts
  <2>3. moves[r][w] \in Seq(MoveRecord)
    BY DEF TypeOK, AllMoves
  <2>4. Move(left[w], Free(w)) \in MoveRecord
    BY <2>2, FreeFacts, MoveFacts
  <2>5. Append(moves[r][w], Move(left[w], Free(w))) \in Seq(MoveRecord)
    BY <2>3, <2>4
  <2>6. counters[w] = [allocation[r][w] EXCEPT !.dispatched = @ + left[w]]
    OBVIOUS
  <2>7. /\ left[w] = 0 => row[w] = moves[r][w]
        /\ left[w] > 0 => row[w] = Append(moves[r][w], Move(left[w], Free(w)))
    BY <2>2
  <2> HIDE DEF left, row, counters
  <2>8. row[w] \in Seq(MoveRecord)
    <3>1. CASE left[w] = 0
      BY <3>1, <2>3, <2>7
    <3>2. CASE left[w] > 0
      BY <3>2, <2>5, <2>7
    <3> QED
      BY <3>1, <3>2, <2>2
  <2>9. /\ counters[w] \in [allocated : Nat, dispatched : Nat]
        /\ counters[w].allocated = allocation[r][w].allocated
        /\ counters[w].dispatched = allocation[r][w].dispatched + left[w]
    BY <2>1, <2>2, <2>6
  <2> QED
    BY <2>2, <2>7, <2>8, <2>9
<1>3. DOMAIN row = Warehouses /\ DOMAIN counters = Warehouses
  OBVIOUS
<1>4. row \in [Warehouses -> Seq(MoveRecord)]
  <2> \A w \in Warehouses : row[w] \in Seq(MoveRecord)
    BY <1>2
  <2> row = [w \in Warehouses |-> row[w]]
    OBVIOUS
  <2> HIDE DEF row
  <2> QED
    OBVIOUS
<1>5. counters \in [Warehouses -> [allocated : Nat, dispatched : Nat]]
  <2> \A w \in Warehouses : counters[w] \in [allocated : Nat, dispatched : Nat]
    BY <1>2
  <2> counters = [w \in Warehouses |-> counters[w]]
    OBVIOUS
  <2> HIDE DEF counters
  <2> QED
    OBVIOUS
<1> HIDE DEF row, counters
<1>6. /\ moves' \in AllMoves /\ moves'[r] = row
      /\ \A s \in Requests : s # r => moves'[s] = moves[s]
  BY <1>1, <1>4 DEF TypeOK, AllMoves
<1>7. /\ allocation' \in AllAllocations /\ allocation'[r] = counters
      /\ \A s \in Requests : s # r => allocation'[s] = allocation[s]
  BY <1>1, <1>5 DEF TypeOK, AllAllocations
<1> HIDE DEF left
<1> QED
  BY <1>2, <1>6, <1>7

\* What _add_allocation does to allocations.
LEMMA AllotEffect ==
    ASSUME TypeOK, NEW r \in Requests, NEW n \in Nat, NEW s \in [Warehouses -> 0 .. n],
           Allot(r, s)
    PROVE  /\ allocation' \in AllAllocations
           /\ \A x \in Requests : x # r => allocation'[x] = allocation[x]
           /\ \A w \in Warehouses :
                 /\ s[w] \in Nat
                 /\ allocation'[r][w].allocated = allocation[r][w].allocated + s[w]
                 /\ allocation'[r][w].dispatched = allocation[r][w].dispatched
                 /\ s[w] > Available(w) => w \in blind'
           /\ blind \subseteq blind' /\ blind' \subseteq Warehouses
           /\ stage' = [stage EXCEPT ![r] = "allocated"]
<1> DEFINE row == [w \in Warehouses |-> [allocation[r][w] EXCEPT !.allocated = @ + s[w]]]
<1>1. allocation' = [allocation EXCEPT ![r] = row]
  BY DEF Allot
<1>2. ASSUME NEW w \in Warehouses
      PROVE  /\ s[w] \in Nat
             /\ row[w] \in [allocated : Nat, dispatched : Nat]
             /\ row[w].allocated = allocation[r][w].allocated + s[w]
             /\ row[w].dispatched = allocation[r][w].dispatched
  <2>1. allocation[r][w] \in [allocated : Nat, dispatched : Nat] /\ s[w] \in Nat
    BY DEF TypeOK, AllAllocations
  <2> QED
    BY <2>1
<1>3. row \in [Warehouses -> [allocated : Nat, dispatched : Nat]]
  <2> \A w \in Warehouses : row[w] \in [allocated : Nat, dispatched : Nat]
    BY <1>2
  <2> row = [w \in Warehouses |-> row[w]]
    OBVIOUS
  <2> HIDE DEF row
  <2> QED
    OBVIOUS
<1> HIDE DEF row
<1>4. /\ allocation' \in AllAllocations /\ allocation'[r] = row
      /\ \A x \in Requests : x # r => allocation'[x] = allocation[x]
  BY <1>1, <1>3 DEF TypeOK, AllAllocations
<1>5. /\ \A w \in Warehouses : s[w] > Available(w) => w \in blind'
      /\ blind \subseteq blind' /\ blind' \subseteq Warehouses
      /\ stage' = [stage EXCEPT ![r] = "allocated"]
  BY DEF Allot, TypeOK
<1> QED
  BY <1>2, <1>4, <1>5

\* Editing the demand of a move that is not done.
LEMMA EditDemandEffect ==
    ASSUME TypeOK, NEW r \in Requests, NEW w \in Warehouses,
           NEW i \in DOMAIN moves[r][w], EditDemand(r, w, i)
    PROVE  /\ moves' \in AllMoves
           /\ \A s \in Requests, v \in Warehouses :
                 s # r \/ v # w => moves'[s][v] = moves[s][v]
           /\ \/ Tally(CountedOf, moves'[r][w]) = Tally(CountedOf, moves[r][w]) + 1
              \/ w \in blind'
           /\ Tally(ReservedOf, moves'[r][w]) <= Tally(ReservedOf, moves[r][w])
           /\ Tally(ReservedOf, moves'[r][w]) \in Nat
           /\ Tally(ConfirmedOf, moves'[r][w]) = Tally(ConfirmedOf, moves[r][w])
           /\ blind \subseteq blind' /\ blind' \subseteq Warehouses
           /\ ~moves[r][w][i].done
<1> DEFINE m == moves[r][w][i]
           n(d) == Demanding(m, d)
           ms(d) == [moves[r][w] EXCEPT ![i] = n(d)]
<1>1. m \in MoveRecord
  BY MoveFields
<1>2. PICK d \in {m.demand - 1, m.demand + 1} \cap Nat :
         /\ moves' = [moves EXCEPT ![r][w] = ms(d)]
         /\ blind' = IF d < m.demand THEN blind \cup {w} ELSE blind
  BY DEF EditDemand, TypeOK, AllMoves
<1>3. ~m.done
  BY DEF EditDemand
<1> DEFINE k == IF m.reserved > d THEN 0 ELSE m.reserved
<1>4. n(d) = [m EXCEPT !.demand = d, !.reserved = k]
  BY DEF Demanding
<1>5. m.reserved \in Nat /\ m.demand \in Nat /\ d \in Nat /\ k \in Nat
  <2> HIDE DEF m
  <2> QED
    BY <1>1, <1>2 DEF MoveRecord
<1>6. n(d) \in MoveRecord
  <2> HIDE DEF k, n
  <2>1. [moves[r][w][i] EXCEPT !.demand = d, !.reserved = k] \in MoveRecord
    BY <1>5, MoveFields
  <2> QED
    BY <2>1, <1>4
<1>7. /\ CountedOf[n(d)] = d /\ CountedOf[m] = m.demand
      /\ ReservedOf[n(d)] <= ReservedOf[m] /\ ReservedOf[n(d)] \in Nat
      /\ ConfirmedOf[n(d)] = ConfirmedOf[m]
  <2>1. /\ n(d).demand = d /\ n(d).reserved = k /\ n(d).done = m.done
        /\ n(d).confirmed = m.confirmed /\ n(d).shipped = m.shipped
    <3> HIDE DEF m, k, n
    <3> QED
      BY <1>1, <1>4 DEF MoveRecord
  <2> HIDE DEF m, n
  <2> QED
    BY <2>1, <1>1, <1>3, <1>5, <1>6 DEF CountedOf, ReservedOf, ConfirmedOf, Counted, MoveRecord
<1>8. ms(d) = [moves[r][w] EXCEPT ![i] = n(d)]
  OBVIOUS
<1> HIDE DEF n, ms, k
<1>9. /\ moves' \in AllMoves
      /\ \A s \in Requests, v \in Warehouses :
            s # r \/ v # w => moves'[s][v] = moves[s][v]
      /\ \A F \in [MoveRecord -> Nat] :
            Tally(F, moves'[r][w]) = Tally(F, moves[r][w]) - F[moves[r][w][i]] + F[n(d)]
  <2> DEFINE e == n(d)
             es == ms(d)
  <2>1. e \in MoveRecord
    BY <1>6
  <2>2. es = [moves[r][w] EXCEPT ![i] = e]
    BY <1>8
  <2>3. moves' = [moves EXCEPT ![r][w] = es]
    BY <1>2
  <2> HIDE DEF m, e, es
  <2>4. /\ moves' \in AllMoves
        /\ \A s \in Requests, v \in Warehouses :
              s # r \/ v # w => moves'[s][v] = moves[s][v]
        /\ \A F \in [MoveRecord -> Nat] :
              Tally(F, moves'[r][w]) = Tally(F, moves[r][w]) - F[moves[r][w][i]] + F[e]
    BY <2>1, <2>2, <2>3, MoveWritten
  <2> QED
    BY <2>4 DEF e
<1>10. \A F \in [MoveRecord -> Nat] :
          /\ Tally(F, moves'[r][w]) = Tally(F, moves[r][w]) - F[m] + F[n(d)]
          /\ F[m] \in Nat /\ Tally(F, moves[r][w]) \in Nat
          /\ Tally(F, moves'[r][w]) \in Nat
  <2> SUFFICES ASSUME NEW F \in [MoveRecord -> Nat]
               PROVE  /\ Tally(F, moves'[r][w]) = Tally(F, moves[r][w]) - F[m] + F[n(d)]
                      /\ F[m] \in Nat /\ Tally(F, moves[r][w]) \in Nat
                      /\ Tally(F, moves'[r][w]) \in Nat
    OBVIOUS
  <2>1. Tally(F, moves'[r][w]) = Tally(F, moves[r][w]) - F[m] + F[n(d)]
    BY <1>9
  <2>2. F[m] \in Nat
    BY <1>1
  <2>3. Tally(F, moves[r][w]) \in Nat
    <3> moves[r][w] \in Seq(MoveRecord)
      BY DEF TypeOK, AllMoves
    <3> QED
      BY TallySum
  <2>4. Tally(F, moves'[r][w]) \in Nat
    <3> DEFINE es == moves'[r][w]
    <3>1. es \in Seq(MoveRecord)
      BY <1>9 DEF AllMoves
    <3> HIDE DEF es
    <3>2. Tally(F, es) \in Nat
      BY <3>1, TallySum
    <3> QED
      BY <3>2 DEF es
  <2> QED
    BY <2>1, <2>2, <2>3, <2>4
<1>11. {CountedOf, ReservedOf, ConfirmedOf} \subseteq [MoveRecord -> Nat]
  BY Tallies, EmptySeq
<1> HIDE DEF m
<1>12. \/ Tally(CountedOf, moves'[r][w]) = Tally(CountedOf, moves[r][w]) + 1
       \/ w \in blind'
  <2>1. /\ Tally(CountedOf, moves'[r][w]) =
              Tally(CountedOf, moves[r][w]) - CountedOf[m] + CountedOf[n(d)]
        /\ CountedOf[m] \in Nat /\ Tally(CountedOf, moves[r][w]) \in Nat
    BY <1>10, <1>11
  <2>2. CASE d = m.demand + 1
    BY <2>1, <2>2, <1>5, <1>7
  <2>3. CASE d = m.demand - 1
    BY <2>3, <1>2, <1>5
  <2> QED
    BY <2>2, <2>3, <1>2
<1>13. /\ Tally(ReservedOf, moves'[r][w]) <= Tally(ReservedOf, moves[r][w])
       /\ Tally(ReservedOf, moves'[r][w]) \in Nat
  <2>1. /\ Tally(ReservedOf, moves'[r][w]) =
              Tally(ReservedOf, moves[r][w]) - ReservedOf[m] + ReservedOf[n(d)]
        /\ ReservedOf[m] \in Nat /\ Tally(ReservedOf, moves[r][w]) \in Nat
        /\ Tally(ReservedOf, moves'[r][w]) \in Nat
    BY <1>10, <1>11
  <2> QED
    BY <2>1, <1>7
<1>14. Tally(ConfirmedOf, moves'[r][w]) = Tally(ConfirmedOf, moves[r][w])
  <2>1. /\ Tally(ConfirmedOf, moves'[r][w]) =
              Tally(ConfirmedOf, moves[r][w]) - ConfirmedOf[m] + ConfirmedOf[n(d)]
        /\ ConfirmedOf[m] \in Nat /\ Tally(ConfirmedOf, moves[r][w]) \in Nat
    BY <1>10, <1>11
  <2> QED
    BY <2>1, <1>7
<1>15. blind \subseteq blind' /\ blind' \subseteq Warehouses
  BY <1>2 DEF TypeOK
<1> QED
  BY <1>3, <1>9, <1>12, <1>13, <1>14, <1>15 DEF m

\* What both ways to confirm a delivery write.
MarkConfirmed(r, w, i) == moves' = [moves EXCEPT ![r][w][i].confirmed = TRUE]

\* Confirming a move, once or again.
LEMMA ConfirmEffect ==
    ASSUME TypeOK, NEW r \in Requests, NEW w \in Warehouses,
           NEW i \in DOMAIN moves[r][w],
           MarkConfirmed(r, w, i)
    PROVE  /\ moves' \in AllMoves
           /\ \A s \in Requests, v \in Warehouses :
                 s # r \/ v # w => moves'[s][v] = moves[s][v]
           /\ Tally(CountedOf, moves'[r][w]) = Tally(CountedOf, moves[r][w])
           /\ Tally(ReservedOf, moves'[r][w]) = Tally(ReservedOf, moves[r][w])
           /\ Tally(ConfirmedOf, moves'[r][w]) =
                 Tally(ConfirmedOf, moves[r][w])
                    + (IF moves[r][w][i].confirmed THEN 0 ELSE moves[r][w][i].shipped)
<1> DEFINE m == moves[r][w][i]
           n == [m EXCEPT !.confirmed = TRUE]
           ms == [moves[r][w] EXCEPT ![i] = n]
           more == IF m.confirmed THEN 0 ELSE m.shipped
<1>1. m \in MoveRecord /\ n \in MoveRecord
  BY MoveFields
<1>2. moves' = [moves EXCEPT ![r][w] = ms]
  BY DEF MarkConfirmed, TypeOK, AllMoves
<1>3. /\ CountedOf[n] = CountedOf[m]
      /\ ReservedOf[n] = ReservedOf[m]
      /\ ConfirmedOf[n] = ConfirmedOf[m] + more
  <2> HIDE DEF m
  <2> QED
    BY <1>1, <1>2 DEF CountedOf, ReservedOf, ConfirmedOf, Counted, MoveRecord
<1>4. ms = [moves[r][w] EXCEPT ![i] = n]
  OBVIOUS
<1> HIDE DEF n, ms
<1>5. /\ moves' \in AllMoves
      /\ \A s \in Requests, v \in Warehouses :
            s # r \/ v # w => moves'[s][v] = moves[s][v]
      /\ \A F \in [MoveRecord -> Nat] :
            Tally(F, moves'[r][w]) = Tally(F, moves[r][w]) - F[moves[r][w][i]] + F[n]
  <2>1. n \in MoveRecord
    BY <1>1
  <2> HIDE DEF m, more
  <2>2. moves' \in AllMoves
    BY <2>1, <1>2, <1>4, MoveWritten
  <2>3. \A s \in Requests, v \in Warehouses :
           s # r \/ v # w => moves'[s][v] = moves[s][v]
    BY <2>1, <1>2, <1>4, MoveWritten
  <2>4. \A F \in [MoveRecord -> Nat] :
           Tally(F, moves'[r][w]) = Tally(F, moves[r][w]) - F[moves[r][w][i]] + F[n]
    <3> DEFINE all == moves[r][w]
    <3>1. all \in Seq(MoveRecord) /\ i \in 1 .. Len(all)
      BY DEF TypeOK, AllMoves
    <3>2. moves'[r][w] = [all EXCEPT ![i] = n]
      BY <1>2, <1>4 DEF TypeOK, AllMoves
    <3> HIDE DEF all
    <3>3. \A F \in [MoveRecord -> Nat] :
             Tally(F, [all EXCEPT ![i] = n]) = Tally(F, all) - F[all[i]] + F[n]
      BY <2>1, <3>1, TallyReplace
    <3> QED
      BY <3>2, <3>3 DEF all
  <2> QED
    BY <2>2, <2>3, <2>4
<1>6. \A F \in [MoveRecord -> Nat] :
         /\ Tally(F, moves'[r][w]) = Tally(F, moves[r][w]) - F[m] + F[n]
         /\ F[m] \in Nat /\ Tally(F, moves[r][w]) \in Nat
  <2> SUFFICES ASSUME NEW F \in [MoveRecord -> Nat]
               PROVE  /\ Tally(F, moves'[r][w]) = Tally(F, moves[r][w]) - F[m] + F[n]
                      /\ F[m] \in Nat /\ Tally(F, moves[r][w]) \in Nat
    OBVIOUS
  <2>1. Tally(F, moves'[r][w]) = Tally(F, moves[r][w]) - F[m] + F[n]
    BY <1>5
  <2>2. F[m] \in Nat
    BY <1>1
  <2>3. Tally(F, moves[r][w]) \in Nat
    <3> moves[r][w] \in Seq(MoveRecord)
      BY DEF TypeOK, AllMoves
    <3> QED
      BY TallySum
  <2> QED
    BY <2>1, <2>2, <2>3
<1>7. {CountedOf, ReservedOf, ConfirmedOf} \subseteq [MoveRecord -> Nat]
  BY Tallies, EmptySeq
<1>8. more \in Nat
  BY <1>1 DEF MoveRecord
<1> HIDE DEF m, more
<1>9. /\ Tally(CountedOf, moves'[r][w]) = Tally(CountedOf, moves[r][w])
      /\ Tally(ReservedOf, moves'[r][w]) = Tally(ReservedOf, moves[r][w])
  <2>1. /\ Tally(CountedOf, moves'[r][w]) =
              Tally(CountedOf, moves[r][w]) - CountedOf[m] + CountedOf[n]
        /\ CountedOf[m] \in Nat /\ Tally(CountedOf, moves[r][w]) \in Nat
    BY <1>6, <1>7
  <2>2. /\ Tally(ReservedOf, moves'[r][w]) =
              Tally(ReservedOf, moves[r][w]) - ReservedOf[m] + ReservedOf[n]
        /\ ReservedOf[m] \in Nat /\ Tally(ReservedOf, moves[r][w]) \in Nat
    BY <1>6, <1>7
  <2> QED
    BY <2>1, <2>2, <1>3
<1>10. Tally(ConfirmedOf, moves'[r][w]) = Tally(ConfirmedOf, moves[r][w]) + more
  <2>1. /\ Tally(ConfirmedOf, moves'[r][w]) =
              Tally(ConfirmedOf, moves[r][w]) - ConfirmedOf[m] + ConfirmedOf[n]
        /\ ConfirmedOf[m] \in Nat /\ Tally(ConfirmedOf, moves[r][w]) \in Nat
    BY <1>6, <1>7
  <2> QED
    BY <2>1, <1>3, <1>8
<1> QED
  BY <1>5, <1>9, <1>10 DEF m, more

\* What a request has allocated is a number.
LEMMA AllocatedInt ==
    ASSUME TypeOK, NEW r \in Requests
    PROVE  Allocated(r) \in Nat
<1> DEFINE f == [w \in Warehouses |-> allocation[r][w].allocated]
<1>1. \A w \in Warehouses : f[w] \in Nat
  BY DEF TypeOK, AllAllocations
<1>2. Allocated(r) = SumFunctionOnSet(f, Warehouses)
  BY SumOfFunction DEF Allocated
<1> HIDE DEF f
<1> QED
  BY <1>1, <1>2, SumNat, ReliefAssumption

\* The steps of Next, with the quantities in the naturals they are taken from.
LEMMA NextCases ==
    ASSUME TypeOK, [Next]_vars
    PROVE  \/ \E r \in Requests :
                 \/ Submit(r) \/ Approve(r) \/ ApproveReview(r) \/ Reject(r)
                 \/ RequestRevision(r) \/ ResetToDraft(r) \/ Resubmit(r)
                 \/ Allocate(r) \/ ConfirmAllocation(r) \/ CreateDispatch(r)
           \/ \E r \in Requests, w \in Warehouses : \E i \in DOMAIN moves[r][w] :
                 \/ \E b \in BOOLEAN, q \in Nat : ActionDone(r, w, i, q, b)
                 \/ Cancel(r, w, i) \/ EditDemand(r, w, i)
                 \/ ConfirmDelivery(r, w, i) \/ ConfirmPod(r, w, i)
           \/ \E w \in Warehouses : CountStock(w)
           \/ UNCHANGED vars
<1>1. \A r \in Requests, w \in Warehouses : \A i \in DOMAIN moves[r][w] :
         moves[r][w][i].demand \in Nat
  BY MoveFields DEF MoveRecord
<1> QED
  BY <1>1 DEF Next, Validate

\* Both ways to allocate add some split of what is requested.
LEMMA AllotCases ==
    ASSUME TypeOK, NEW r \in Requests, Allocate(r) \/ ConfirmAllocation(r)
    PROVE  \E n \in Nat : \E s \in [Warehouses -> 0 .. n] :
              /\ Allot(r, s)
              /\ Allocate(r) => \A w \in Warehouses : s[w] <= Available(w)
<1> DEFINE n == AtLeast0(Requested[r] - Allocated(r))
<1>1. n \in Nat
  <2>1. Allocated(r) \in Int
    BY AllocatedInt
  <2> QED
    BY <2>1, ReliefAssumption DEF AtLeast0
<1>2. CASE Allocate(r)
  <2>1. PICK s \in GreedySplits(n) : Allot(r, s)
    BY <1>2 DEF Allocate
  <2> HIDE DEF n
  <2>2. /\ s \in [Warehouses -> 0 .. n]
        /\ \A w \in Warehouses : s[w] <= Available(w)
    BY <2>1 DEF GreedySplits, Splits
  <2> QED
    BY <2>1, <2>2, <1>1
<1>3. CASE ConfirmAllocation(r) /\ ~Allocate(r)
  <2>1. PICK s \in Splits(n) : Allot(r, s)
    BY <1>3 DEF ConfirmAllocation
  <2> HIDE DEF n
  <2>2. s \in [Warehouses -> 0 .. n]
    BY <2>1 DEF Splits
  <2> QED
    BY <2>1, <2>2, <1>1, <1>3
<1> QED
  BY <1>2, <1>3

\* A warehouse stays blind.
LEMMA BlindGrows ==
    ASSUME TypeOK, [Next]_vars
    PROVE  blind \subseteq blind'
<1>1. ASSUME NEW r \in Requests, Allocate(r) \/ ConfirmAllocation(r)
      PROVE  blind \subseteq blind'
  BY <1>1 DEF Allocate, ConfirmAllocation, Allot
<1>2. ASSUME NEW r \in Requests, NEW w \in Warehouses, NEW i \in DOMAIN moves[r][w],
             EditDemand(r, w, i)
      PROVE  blind \subseteq blind'
  BY <1>2, EditDemandEffect
<1>3. ASSUME NEW r \in Requests, NEW w \in Warehouses, NEW i \in DOMAIN moves[r][w],
             \/ \E q \in Nat, b \in BOOLEAN : ActionDone(r, w, i, q, b)
             \/ Cancel(r, w, i) \/ ConfirmDelivery(r, w, i) \/ ConfirmPod(r, w, i)
      PROVE  blind \subseteq blind'
  BY <1>3 DEF ActionDone, Cancel, ConfirmDelivery, Deliver, ConfirmPod
<1>4. ASSUME \/ \E r \in Requests :
                   \/ Submit(r) \/ Approve(r) \/ ApproveReview(r) \/ Reject(r)
                   \/ RequestRevision(r) \/ ResetToDraft(r) \/ Resubmit(r)
                   \/ CreateDispatch(r)
             \/ \E w \in Warehouses : CountStock(w)
             \/ UNCHANGED vars
      PROVE  blind \subseteq blind'
  BY <1>4 DEF Submit, Approve, ApproveReview, Reject, RequestRevision, ResetToDraft,
              Resubmit, Decide, CreateDispatch, CountStock, vars
<1> QED
  BY <1>1, <1>2, <1>3, <1>4, NextCases

-----------------------------------------------------------------------------
(* Types *)

\* What a warehouse has available for more allocations is a natural.
LEMMA AvailableFacts ==
    ASSUME TypeOK, NEW w \in Warehouses
    PROVE  /\ Available(w) \in Nat
           /\ Promised(w) <= Free(w) => Available(w) = Free(w) - Promised(w)
  BY FreeFacts DEF Available, AtLeast0

\* Every step keeps the state well typed.
LEMMA TypeStep == TypeOK /\ [Next]_vars => TypeOK'
<1> SUFFICES ASSUME TypeOK, [Next]_vars
             PROVE  TypeOK'
  OBVIOUS
<1>1. ASSUME NEW r \in Requests,
             \/ Submit(r) \/ Approve(r) \/ ApproveReview(r) \/ Reject(r)
             \/ RequestRevision(r) \/ ResetToDraft(r) \/ Resubmit(r)
      PROVE  TypeOK'
  BY <1>1 DEF TypeOK, Submit, Approve, ApproveReview, Reject, RequestRevision,
              ResetToDraft, Resubmit, Decide, requestVars, historyVars
<1>2. ASSUME NEW r \in Requests, Allocate(r) \/ ConfirmAllocation(r)
      PROVE  TypeOK'
  <2>1. PICK n \in Nat : \E s \in [Warehouses -> 0 .. n] : Allot(r, s)
    BY <1>2, AllotCases
  <2>2. /\ allocation' \in AllAllocations /\ blind' \subseteq Warehouses
        /\ stage' = [stage EXCEPT ![r] = "allocated"]
    BY <2>1, AllotEffect
  <2>3. UNCHANGED <<requestVars, moves, delivered, onHand, historyVars>>
    BY <1>2 DEF Allocate, ConfirmAllocation
  <2> QED
    BY <2>2, <2>3 DEF TypeOK, requestVars, historyVars
<1>5. ASSUME NEW r \in Requests, CreateDispatch(r)
      PROVE  TypeOK'
  <2>1. moves' \in AllMoves /\ allocation' \in AllAllocations
    BY <1>5, CreateDispatchEffect
  <2>2. \E x \in {"allocated", "dispatched"} : stage' = [stage EXCEPT ![r] = x]
    BY <1>5 DEF CreateDispatch, TypeOK
  <2> QED
    BY <1>5, <2>1, <2>2 DEF TypeOK, CreateDispatch, requestVars, historyVars
<1>6. ASSUME NEW r \in Requests, NEW w \in Warehouses, NEW i \in DOMAIN moves[r][w],
             NEW q \in Nat, NEW b \in BOOLEAN, ActionDone(r, w, i, q, b)
      PROVE  TypeOK'
  <2>1. moves' \in AllMoves /\ allocation' = Recount(r, moves')
    BY <1>6, ActionDoneEffect
  <2>2. allocation' \in AllAllocations
    <3> DEFINE ms == moves'
    <3> allocation \in AllAllocations /\ ms \in AllMoves
      BY <2>1 DEF TypeOK
    <3> HIDE DEF ms
    <3>1. Recount(r, ms) \in AllAllocations
      BY RecountFacts
    <3> QED
      BY <2>1, <3>1 DEF ms
  <2>3. \E x \in {"draft", "submitted", "approved", "rejected", "allocated", "dispatched"} :
           stage' = [stage EXCEPT ![r] = x]
    <3> stage[r] \in {"draft", "submitted", "approved", "rejected", "allocated",
                      "dispatched"}
      BY DEF TypeOK
    <3> QED
      BY <1>6 DEF ActionDone, Synced, Reopened, Backordered
  <2>4. onHand' \in [Warehouses -> Int]
    BY <1>6 DEF ActionDone, TypeOK
  <2>5. /\ blind' \subseteq Warehouses /\ edited' \subseteq Requests
        /\ short' \subseteq Requests
    BY <1>6 DEF ActionDone, TypeOK
  <2>6. UNCHANGED <<requestVars, delivered, edits>>
    BY <1>6 DEF ActionDone
  <2> QED
    BY <2>1, <2>2, <2>3, <2>4, <2>5, <2>6 DEF TypeOK, requestVars
<1>7. ASSUME NEW r \in Requests, NEW w \in Warehouses, NEW i \in DOMAIN moves[r][w],
             Cancel(r, w, i)
      PROVE  TypeOK'
  <2>1. moves' \in AllMoves /\ allocation' = Recount(r, moves')
    BY <1>7, CancelEffect
  <2>2. allocation' \in AllAllocations
    <3> DEFINE ms == moves'
    <3> allocation \in AllAllocations /\ ms \in AllMoves
      BY <2>1 DEF TypeOK
    <3> HIDE DEF ms
    <3>1. Recount(r, ms) \in AllAllocations
      BY RecountFacts
    <3> QED
      BY <2>1, <3>1 DEF ms
  <2>3. \E x \in {"draft", "submitted", "approved", "rejected", "allocated", "dispatched"} :
           stage' = [stage EXCEPT ![r] = x]
    <3> stage[r] \in {"draft", "submitted", "approved", "rejected", "allocated",
                      "dispatched"}
      BY DEF TypeOK
    <3> QED
      BY <1>7 DEF Cancel, Reopened
  <2>4. blind' \subseteq Warehouses /\ edited' \subseteq Requests
    BY <1>7 DEF Cancel, TypeOK
  <2>5. UNCHANGED <<requestVars, delivered, onHand, short, edits>>
    BY <1>7 DEF Cancel
  <2> QED
    BY <2>1, <2>2, <2>3, <2>4, <2>5 DEF TypeOK, requestVars
<1>8. ASSUME NEW r \in Requests, NEW w \in Warehouses, NEW i \in DOMAIN moves[r][w],
             EditDemand(r, w, i)
      PROVE  TypeOK'
  <2>1. moves' \in AllMoves /\ blind' \subseteq Warehouses
    BY <1>8, EditDemandEffect
  <2> QED
    BY <1>8, <2>1 DEF TypeOK, EditDemand, requestVars
<1>9. ASSUME NEW r \in Requests, NEW w \in Warehouses, NEW i \in DOMAIN moves[r][w],
             Deliver(r, w, i)
      PROVE  TypeOK'
  <2>1. moves' \in AllMoves
    BY <1>9, ConfirmEffect DEF Deliver, MarkConfirmed
  <2>2. moves[r][w][i] \in MoveRecord
    BY MoveFields
  <2>3. delivered' \in [Requests -> Nat]
    BY <1>9, <2>2 DEF Deliver, TypeOK, MoveRecord
  <2> QED
    BY <1>9, <2>1, <2>3 DEF TypeOK, Deliver, requestVars, historyVars
<1>10. ASSUME NEW r \in Requests, NEW w \in Warehouses, NEW i \in DOMAIN moves[r][w],
              ConfirmPod(r, w, i)
       PROVE  TypeOK'
  <2>1. moves' \in AllMoves
    BY <1>10, ConfirmEffect DEF ConfirmPod, MarkConfirmed
  <2> QED
    BY <1>10, <2>1 DEF TypeOK, ConfirmPod, requestVars, historyVars
<1>11. ASSUME NEW w \in Warehouses, CountStock(w)
       PROVE  TypeOK'
  <2>1. onHand' \in [Warehouses -> Int] /\ blind' \subseteq Warehouses
    BY <1>11 DEF CountStock, TypeOK
  <2> QED
    BY <1>11, <2>1 DEF TypeOK, CountStock, requestVars
<1>12. CASE UNCHANGED vars
  BY <1>12 DEF TypeOK, vars
<1> QED
  BY <1>1, <1>2, <1>5, <1>6, <1>7, <1>8, <1>9, <1>10, <1>11, <1>12, NextCases
     DEF ConfirmDelivery

-----------------------------------------------------------------------------
(* Counters *)

\* What moves count for is their tally, and a natural.
LEMMA DispatchedIsTally ==
    ASSUME NEW ms \in Seq(MoveRecord)
    PROVE  /\ Dispatched(ms) = Tally(CountedOf, ms)
           /\ Dispatched(ms) \in Nat
  BY Tallies, TallySum

\* The counters run ahead of the moves only where a demand was lowered, and no step
\* but an edited demand lets them lag.
LEMMA CountersStep == TypeOK /\ CountersLag /\ [Next]_vars => CountersLag'
<1> SUFFICES ASSUME TypeOK, CountersLag, [Next]_vars
             PROVE  CountersLag'
  OBVIOUS
<1> DEFINE Lags(s, v) ==
             /\ v \notin blind' =>
                   allocation'[s][v].dispatched <= Dispatched(moves'[s][v])
             /\ s \notin edited' => allocation'[s][v].dispatched = Dispatched(moves'[s][v])
<1>1. SUFFICES ASSUME NEW s \in Requests, NEW v \in Warehouses
               PROVE  Lags(s, v)
  BY DEF CountersLag
<1>2. /\ v \notin blind' => allocation[s][v].dispatched <= Dispatched(moves[s][v])
      /\ s \notin edited => allocation[s][v].dispatched = Dispatched(moves[s][v])
  BY BlindGrows DEF CountersLag
<1>3. /\ moves[s][v] \in Seq(MoveRecord)
      /\ allocation[s][v] \in [allocated : Nat, dispatched : Nat]
  BY DEF TypeOK, AllMoves, AllAllocations
<1>4. CASE UNCHANGED <<allocation, moves, edited>>
  BY <1>2, <1>4
<1>5. ASSUME NEW r \in Requests, NEW n \in Nat, NEW x \in [Warehouses -> 0 .. n],
             Allot(r, x), UNCHANGED <<moves, edited>>
      PROVE  Lags(s, v)
  <2>1. allocation'[s][v].dispatched = allocation[s][v].dispatched
    BY <1>5, AllotEffect
  <2> QED
    BY <2>1, <1>2, <1>5
<1>6. ASSUME NEW r \in Requests, CreateDispatch(r)
      PROVE  Lags(s, v)
  <2>1. edited' = edited
    BY <1>6 DEF CreateDispatch, historyVars
  <2>2. CASE s # r
    <3>1. moves'[s] = moves[s] /\ allocation'[s] = allocation[s]
      BY <1>6, <2>2, CreateDispatchEffect
    <3> QED
      BY <3>1, <2>1, <1>2
  <2>3. CASE s = r
    <3> DEFINE n == Remaining(allocation[s][v])
    <3>1. /\ allocation'[s][v].dispatched = allocation[s][v].dispatched + n
          /\ n = 0 => moves'[s][v] = moves[s][v]
          /\ n > 0 => moves'[s][v] = Append(moves[s][v], Move(n, Free(v)))
          /\ n \in Nat
      BY <1>6, <2>3, <1>3, CreateDispatchEffect, RemainingFacts
    <3> HIDE DEF n
    <3>2. CASE n = 0
      BY <3>1, <3>2, <2>1, <1>2, <1>3
    <3>3. CASE n > 0
      <4> DEFINE m == Move(n, Free(v))
      <4>1. m \in MoveRecord /\ CountedOf[m] = n
        BY <3>1, FreeFacts, MoveFacts
      <4>2. moves'[s][v] = Append(moves[s][v], m)
        BY <3>1, <3>3
      <4> HIDE DEF m
      <4>3. CountedOf \in [MoveRecord -> Nat]
        BY <1>3, Tallies
      <4>4. /\ Append(moves[s][v], m) \in Seq(MoveRecord)
            /\ Tally(CountedOf, Append(moves[s][v], m)) = Tally(CountedOf, moves[s][v]) + n
        BY <1>3, <4>1, <4>3, TallyAppend
      <4>5. /\ Dispatched(moves[s][v]) = Tally(CountedOf, moves[s][v])
            /\ Dispatched(moves[s][v]) \in Nat
            /\ Dispatched(Append(moves[s][v], m)) = Tally(CountedOf, Append(moves[s][v], m))
        BY <1>3, <4>4, DispatchedIsTally
      <4>6. Dispatched(moves'[s][v]) = Dispatched(moves[s][v]) + n
        BY <4>2, <4>4, <4>5
      <4> QED
        BY <3>1, <4>5, <4>6, <2>1, <1>2, <1>3
    <3> QED
      BY <3>1, <3>2, <3>3
  <2> QED
    BY <2>2, <2>3
<1>7. ASSUME NEW r \in Requests, NEW w \in Warehouses, moves' \in AllMoves,
             \A x \in Requests, y \in Warehouses :
                x # r \/ y # w => moves'[x][y] = moves[x][y],
             allocation' = Recount(r, moves'), edited' = edited \ {r}
      PROVE  Lags(s, v)
  <2> DEFINE ms == moves'
  <2>1. ms \in AllMoves /\ allocation \in AllAllocations
    BY <1>7 DEF TypeOK
  <2>2. allocation' = Recount(r, ms)
    BY <1>7
  <2> HIDE DEF ms
  <2>3. CASE s # r
    <3>1. Recount(r, ms)[s] = allocation[s]
      BY <2>1, <2>3, RecountFacts
    <3>2. moves'[s][v] = moves[s][v]
      BY <1>7, <2>3
    <3> QED
      BY <2>2, <2>3, <3>1, <3>2, <1>2, <1>7
  <2>4. CASE s = r
    <3>1. Recount(r, ms)[r][v].dispatched = Dispatched(ms[r][v])
      BY <2>1, RecountFacts
    <3>2. Dispatched(ms[r][v]) \in Nat
      BY <2>1, DispatchedIsTally DEF AllMoves
    <3> QED
      BY <2>2, <2>4, <3>1, <3>2 DEF ms
  <2> QED
    BY <2>3, <2>4
<1>8. ASSUME NEW r \in Requests, NEW w \in Warehouses, NEW i \in DOMAIN moves[r][w],
             EditDemand(r, w, i)
      PROVE  Lags(s, v)
  <2>1. allocation' = allocation /\ edited' = edited \cup {r}
    BY <1>8 DEF EditDemand
  <2>2. moves' \in AllMoves
    BY <1>8, EditDemandEffect
  <2>3. CASE s # r \/ v # w
    <3>1. moves'[s][v] = moves[s][v]
      BY <1>8, <2>3, EditDemandEffect
    <3> QED
      BY <2>1, <3>1, <1>2
  <2>4. CASE s = r /\ v = w
    <3>1. \/ Tally(CountedOf, moves'[s][v]) = Tally(CountedOf, moves[s][v]) + 1
          \/ v \in blind'
      BY <1>8, <2>4, EditDemandEffect
    <3>2. moves'[s][v] \in Seq(MoveRecord)
      BY <2>2 DEF AllMoves
    <3>3. \/ Dispatched(moves'[s][v]) = Dispatched(moves[s][v]) + 1
          \/ v \in blind'
      BY <3>1, <3>2, <1>3, DispatchedIsTally
    <3>4. Dispatched(moves[s][v]) \in Nat
      BY <1>3, DispatchedIsTally
    <3>5. s \in edited'
      BY <2>1, <2>4
    <3>6. v \notin blind' => allocation'[s][v].dispatched <= Dispatched(moves'[s][v])
      BY <2>1, <3>3, <3>4, <1>2, <1>3
    <3> QED
      BY <3>5, <3>6
  <2> QED
    BY <2>3, <2>4
<1>9. ASSUME NEW r \in Requests, NEW w \in Warehouses, NEW i \in DOMAIN moves[r][w],
             MarkConfirmed(r, w, i), UNCHANGED <<allocation, edited>>
      PROVE  Lags(s, v)
  <2>1. moves' \in AllMoves
    BY <1>9, ConfirmEffect
  <2>2. Dispatched(moves'[s][v]) = Dispatched(moves[s][v])
    <3>1. CASE s # r \/ v # w
      BY <1>9, <3>1, ConfirmEffect
    <3>2. CASE s = r /\ v = w
      <4>1. Tally(CountedOf, moves'[s][v]) = Tally(CountedOf, moves[s][v])
        BY <1>9, <3>2, ConfirmEffect
      <4>2. moves'[s][v] \in Seq(MoveRecord)
        BY <2>1 DEF AllMoves
      <4> QED
        BY <4>1, <4>2, <1>3, DispatchedIsTally
    <3> QED
      BY <3>1, <3>2
  <2> QED
    BY <2>2, <1>2, <1>9
<1> HIDE DEF Lags
<1>10. ASSUME NEW r \in Requests, Allocate(r) \/ ConfirmAllocation(r)
       PROVE  Lags(s, v)
  <2>1. \E n \in Nat : \E x \in [Warehouses -> 0 .. n] : Allot(r, x)
    BY <1>10, AllotCases
  <2>2. UNCHANGED <<moves, edited>>
    BY <1>10 DEF Allocate, ConfirmAllocation, historyVars
  <2> QED
    BY <2>1, <2>2, <1>5
<1>11. ASSUME NEW r \in Requests, NEW w \in Warehouses, NEW i \in DOMAIN moves[r][w],
              NEW q \in Nat, NEW b \in BOOLEAN, ActionDone(r, w, i, q, b)
       PROVE  Lags(s, v)
  <2>1. moves' \in AllMoves /\ allocation' = Recount(r, moves')
    BY <1>11, ActionDoneEffect
  <2>2. \A x \in Requests, y \in Warehouses :
           x # r \/ y # w => moves'[x][y] = moves[x][y]
    BY <1>11, ActionDoneEffect
  <2>3. edited' = edited \ {r}
    BY <1>11 DEF ActionDone
  <2> QED
    BY <2>1, <2>2, <2>3, <1>7
<1>12. ASSUME NEW r \in Requests, NEW w \in Warehouses, NEW i \in DOMAIN moves[r][w],
              Cancel(r, w, i)
       PROVE  Lags(s, v)
  <2>1. /\ moves' \in AllMoves /\ allocation' = Recount(r, moves')
        /\ \A x \in Requests, y \in Warehouses :
              x # r \/ y # w => moves'[x][y] = moves[x][y]
    BY <1>12, CancelEffect
  <2>2. edited' = edited \ {r}
    BY <1>12 DEF Cancel
  <2> QED
    BY <2>1, <2>2, <1>7
<1>13. ASSUME NEW r \in Requests, NEW w \in Warehouses, NEW i \in DOMAIN moves[r][w],
              ConfirmDelivery(r, w, i) \/ ConfirmPod(r, w, i)
       PROVE  Lags(s, v)
  <2>1. MarkConfirmed(r, w, i) /\ UNCHANGED <<allocation, edited>>
    BY <1>13 DEF ConfirmDelivery, Deliver, ConfirmPod, MarkConfirmed, historyVars
  <2> QED
    BY <2>1, <1>9
<1>14. ASSUME \/ \E r \in Requests :
                   \/ Submit(r) \/ Approve(r) \/ ApproveReview(r) \/ Reject(r)
                   \/ RequestRevision(r) \/ ResetToDraft(r) \/ Resubmit(r)
              \/ \E w \in Warehouses : CountStock(w)
              \/ UNCHANGED vars
       PROVE  UNCHANGED <<allocation, moves, edited>>
  BY <1>14 DEF Submit, Approve, ApproveReview, Reject, RequestRevision, ResetToDraft,
               Resubmit, Decide, CountStock, vars, historyVars
<1> QED
  BY <1>4, <1>6, <1>8, <1>10, <1>11, <1>12, <1>13, <1>14, NextCases

\* The counters of an allocation are what its moves ship and have pending.
LEMMA LagGivesMatch == TypeOK /\ CountersLag => CountersMatchMoves
<1> SUFFICES ASSUME TypeOK, CountersLag, NEW r \in Requests \ edited, NEW w \in Warehouses
             PROVE  allocation[r][w].dispatched = ShippedBy(moves[r][w]) + PendingBy(moves[r][w])
  BY DEF CountersMatchMoves
<1>1. moves[r][w] \in Seq(MoveRecord)
  BY DEF TypeOK, AllMoves
<1>2. allocation[r][w].dispatched = Dispatched(moves[r][w])
  BY DEF CountersLag
<1> QED
  BY <1>1, <1>2, CountedIsShippedOrPending

-----------------------------------------------------------------------------
(* Coverage *)

\* Whether a request is covered depends on its own allocations.
LEMMA CoveredSame ==
    ASSUME NEW r, NEW a, NEW b, a[r] = b[r]
    PROVE  Covered(r, a) <=> Covered(r, b)
  BY DEF Covered

\* A step that leaves a request's allocations alone and does not mark it dispatched.
LEMMA CoverageKept ==
    ASSUME CountersCover, NEW s \in Requests,
           stage'[s] = "dispatched" => stage[s] = "dispatched",
           allocation'[s] = allocation[s]
    PROVE  stage'[s] = "dispatched" => Covered(s, allocation')
<1> DEFINE a == allocation'
<1>1. a[s] = allocation[s]
  OBVIOUS
<1> HIDE DEF a
<1>2. Covered(s, a) <=> Covered(s, allocation)
  BY <1>1, CoveredSame
<1> QED
  BY <1>2 DEF a, CountersCover

\* A request is marked dispatched, and stays so, only while it is covered.
LEMMA CoverageStep == TypeOK /\ CountersCover /\ [Next]_vars => CountersCover'
<1> SUFFICES ASSUME TypeOK, CountersCover, [Next]_vars
             PROVE  CountersCover'
  OBVIOUS
<1> DEFINE Kept(s) == stage'[s] = "dispatched" => Covered(s, allocation')
<1>1. SUFFICES ASSUME NEW s \in Requests
               PROVE  Kept(s)
  BY DEF CountersCover, Covered
<1> stage \in [Requests -> {"draft", "submitted", "approved", "rejected", "allocated",
                            "dispatched"}]
  BY DEF TypeOK
<1>2. CASE /\ stage'[s] = "dispatched" => stage[s] = "dispatched"
           /\ allocation'[s] = allocation[s]
  BY <1>2, CoverageKept
<1>3. ASSUME NEW r \in Requests, Allocate(r) \/ ConfirmAllocation(r)
      PROVE  Kept(s)
  <2>1. PICK n \in Nat : \E x \in [Warehouses -> 0 .. n] : Allot(r, x)
    BY <1>3, AllotCases
  <2>2. /\ \A x \in Requests : x # r => allocation'[x] = allocation[x]
        /\ stage' = [stage EXCEPT ![r] = "allocated"]
    BY <2>1, AllotEffect
  <2>3. CASE s = r
    BY <2>2, <2>3
  <2>4. CASE s # r
    BY <2>2, <2>4, <1>2
  <2> QED
    BY <2>3, <2>4
<1>4. ASSUME NEW r \in Requests, CreateDispatch(r)
      PROVE  Kept(s)
  <2>1. /\ stage[r] = "allocated"
        /\ stage' = [stage EXCEPT ![r] = IF Covered(r, allocation') THEN "dispatched" ELSE @]
    BY <1>4 DEF CreateDispatch
  <2>2. \A x \in Requests : x # r => allocation'[x] = allocation[x]
    BY <1>4, CreateDispatchEffect
  <2>3. CASE s = r
    BY <2>1, <2>3
  <2>4. CASE s # r
    BY <2>1, <2>2, <2>4, <1>2
  <2> QED
    BY <2>3, <2>4
<1>5. ASSUME NEW r \in Requests, moves' \in AllMoves, allocation' = Recount(r, moves'),
             NEW x, stage' = [stage EXCEPT ![r] = x],
             x = "dispatched" => Covered(r, allocation')
      PROVE  Kept(s)
  <2>1. CASE s = r
    BY <1>5, <2>1
  <2>2. CASE s # r
    <3> DEFINE ms == moves'
    <3>1. ms \in AllMoves /\ allocation \in AllAllocations /\ allocation' = Recount(r, ms)
      BY <1>5 DEF TypeOK
    <3> HIDE DEF ms
    <3>2. allocation'[s] = allocation[s]
      BY <2>2, <3>1, RecountFacts
    <3> QED
      BY <2>2, <3>2, <1>2, <1>5
  <2> QED
    BY <2>1, <2>2
<1>6. ASSUME NEW r \in Requests, NEW w \in Warehouses, NEW i \in DOMAIN moves[r][w],
             NEW q \in Nat, NEW b \in BOOLEAN, ActionDone(r, w, i, q, b)
      PROVE  Kept(s)
  <2>1. moves' \in AllMoves /\ allocation' = Recount(r, moves')
    BY <1>6, ActionDoneEffect
  <2>2. \E y : stage' = [stage EXCEPT ![r] =
                            Synced(r, Reopened(r, y, allocation'), allocation', moves')]
    BY <1>6 DEF ActionDone
  <2>3. PICK x : /\ stage' = [stage EXCEPT ![r] = x]
                 /\ x = "dispatched" => Covered(r, allocation')
    <3> PICK y : stage' = [stage EXCEPT ![r] =
                             Synced(r, Reopened(r, y, allocation'), allocation', moves')]
      BY <2>2
    <3> DEFINE z == Reopened(r, y, allocation')
               x == Synced(r, z, allocation', moves')
    <3>1. z = "dispatched" => Covered(r, allocation')
      BY Zenon DEF Reopened
    <3>2. x = z \/ Covered(r, allocation')
      BY Zenon DEF Synced
    <3>3. stage' = [stage EXCEPT ![r] = x]
      OBVIOUS
    <3> HIDE DEF z, x
    <3> QED
      BY <3>1, <3>2, <3>3
  <2> QED
    BY <2>1, <2>3, <1>5
<1>7. ASSUME NEW r \in Requests, NEW w \in Warehouses, NEW i \in DOMAIN moves[r][w],
             Cancel(r, w, i)
      PROVE  Kept(s)
  <2>1. moves' \in AllMoves /\ allocation' = Recount(r, moves')
    BY <1>7, CancelEffect
  <2>2. \E y : stage' = [stage EXCEPT ![r] = Reopened(r, y, allocation')]
    BY <1>7 DEF Cancel
  <2>3. PICK x : /\ stage' = [stage EXCEPT ![r] = x]
                 /\ x = "dispatched" => Covered(r, allocation')
    <3> PICK y : stage' = [stage EXCEPT ![r] = Reopened(r, y, allocation')]
      BY <2>2
    <3> DEFINE z == Reopened(r, y, allocation')
    <3>1. z = "dispatched" => Covered(r, allocation')
      BY Zenon DEF Reopened
    <3>2. stage' = [stage EXCEPT ![r] = z]
      OBVIOUS
    <3> HIDE DEF z
    <3> QED
      BY <3>1, <3>2
  <2> QED
    BY <2>1, <2>3, <1>5
<1>8. ASSUME NEW r \in Requests,
             \/ Submit(r) \/ Approve(r) \/ ApproveReview(r) \/ Reject(r)
             \/ RequestRevision(r) \/ ResetToDraft(r) \/ Resubmit(r)
      PROVE  Kept(s)
  <2>1. /\ stage'[s] = "dispatched" => stage[s] = "dispatched"
        /\ allocation' = allocation
    BY <1>8 DEF Submit, Approve, ApproveReview, Reject, RequestRevision, ResetToDraft,
                Resubmit, Decide
  <2> QED
    BY <2>1, <1>2
<1>10. ASSUME NEW r \in Requests, NEW w \in Warehouses, NEW i \in DOMAIN moves[r][w],
              \/ EditDemand(r, w, i) \/ ConfirmDelivery(r, w, i) \/ ConfirmPod(r, w, i)
       PROVE  Kept(s)
  BY <1>10, <1>2 DEF EditDemand, ConfirmDelivery, Deliver, ConfirmPod
<1>11. ASSUME NEW w \in Warehouses, CountStock(w)
       PROVE  Kept(s)
  BY <1>11, <1>2 DEF CountStock
<1>12. CASE UNCHANGED vars
  BY <1>12, <1>2 DEF vars
<1> HIDE DEF Kept
<1> QED
  BY <1>3, <1>4, <1>6, <1>7, <1>8, <1>10, <1>11, <1>12, NextCases

\* A backorder takes its request back, and only a dispatch that leaves nothing pending
\* or action_create_dispatch marks the request dispatched again.
LEMMA ShortStep == TypeOK /\ ShortIsSettled /\ [Next]_vars => ShortIsSettled'
<1> SUFFICES ASSUME TypeOK, ShortIsSettled, [Next]_vars
             PROVE  ShortIsSettled'
  OBVIOUS
<1> DEFINE Kept(s) == s \in short' /\ stage'[s] = "dispatched" =>
                         Settled(s, moves') /\ s \notin edited'
<1>1. SUFFICES ASSUME NEW s \in Requests
               PROVE  Kept(s)
  <2> short' \subseteq Requests
    BY TypeStep DEF TypeOK
  <2> QED
    BY DEF ShortIsSettled, Settled
<1> stage \in [Requests -> {"draft", "submitted", "approved", "rejected", "allocated",
                            "dispatched"}]
  BY DEF TypeOK
<1>2. CASE /\ stage'[s] = "dispatched" => stage[s] = "dispatched"
           /\ s \in short' => s \in short
           /\ s \in edited' => s \in edited
           /\ moves'[s] = moves[s]
  BY <1>2 DEF ShortIsSettled, Settled
<1>3. ASSUME NEW r \in Requests, Allocate(r) \/ ConfirmAllocation(r)
      PROVE  Kept(s)
  <2>1. /\ UNCHANGED <<short, edited, moves>>
        /\ stage' = [stage EXCEPT ![r] = "allocated"]
    BY <1>3 DEF Allocate, ConfirmAllocation, Allot, historyVars
  <2> QED
    BY <2>1, <1>2
<1>4. ASSUME NEW r \in Requests, CreateDispatch(r)
      PROVE  Kept(s)
  <2>1. CASE s = r
    BY <1>4, <2>1 DEF CreateDispatch
  <2>2. CASE s # r
    <3>1. moves'[s] = moves[s]
      BY <1>4, <2>2, CreateDispatchEffect
    <3>2. stage'[s] = stage[s] /\ short' = short \ {r} /\ edited' = edited
      BY <1>4, <2>2 DEF CreateDispatch
    <3> QED
      BY <3>1, <3>2, <1>2
  <2> QED
    BY <2>1, <2>2
<1>5. ASSUME NEW r \in Requests, NEW w \in Warehouses, NEW i \in DOMAIN moves[r][w],
             NEW q \in Nat, NEW b \in BOOLEAN, ActionDone(r, w, i, q, b)
      PROVE  Kept(s)
  <2>1. /\ edited' = edited \ {r}
        /\ short' = IF b THEN short \cup {r} ELSE short
        /\ stage' = [stage EXCEPT ![r] =
              Synced(r, Reopened(r, IF b THEN Backordered(stage[r]) ELSE stage[r], allocation'),
                     allocation', moves')]
    BY <1>5 DEF ActionDone
  <2>2. CASE s # r
    <3>1. \A y \in Warehouses : moves'[s][y] = moves[s][y]
      BY <1>5, <2>2, ActionDoneEffect
    <3>2. stage'[s] = stage[s] /\ (s \in short' => s \in short) /\ (s \in edited' => s \in edited)
      BY <2>1, <2>2
    <3> QED
      BY <3>1, <3>2 DEF ShortIsSettled, Settled
  <2>3. CASE s = r
    <3> DEFINE z == IF b THEN Backordered(stage[r]) ELSE stage[r]
               y == Reopened(r, z, allocation')
    <3>1. r \notin edited'
      BY <2>1
    <3>2. stage'[r] = Synced(r, y, allocation', moves')
      BY <2>1
    <3>3. y = "dispatched" => z = "dispatched"
      BY Zenon DEF Reopened
    <3>4. z = "dispatched" => ~b /\ stage[r] = "dispatched"
      BY DEF Backordered
    <3> HIDE DEF z, y
    <3>5. stage'[r] = "dispatched" => Settled(r, moves') \/ y = "dispatched"
      BY <3>2, Zenon DEF Synced
    <3>6. ASSUME r \in short', stage'[r] = "dispatched", ~Settled(r, moves')
          PROVE  FALSE
      <4>1. ~b /\ stage[r] = "dispatched"
        BY <3>3, <3>4, <3>5, <3>6
      <4>2. r \in short
        BY <4>1, <3>6, <2>1
      <4>3. moves[r][w][i].done
        BY <4>1, <4>2 DEF ShortIsSettled, Settled
      <4> QED
        BY <4>3, <1>5 DEF ActionDone
    <3> QED
      BY <3>1, <3>6, <2>3
  <2> QED
    BY <2>2, <2>3
<1>6. ASSUME NEW r \in Requests, NEW w \in Warehouses, NEW i \in DOMAIN moves[r][w],
             \/ Cancel(r, w, i) \/ EditDemand(r, w, i)
      PROVE  Kept(s)
  <2>1. /\ ~moves[r][w][i].done
        /\ stage'[s] = "dispatched" => stage[s] = "dispatched"
        /\ short' = short
        /\ s # r => (s \in edited' <=> s \in edited)
    BY <1>6 DEF Cancel, EditDemand, Reopened
  <2>2. CASE s = r
    <3>1. ~(s \in short /\ stage[s] = "dispatched")
      BY <2>1, <2>2 DEF ShortIsSettled, Settled
    <3> QED
      BY <3>1, <2>1
  <2>3. CASE s # r
    <3>1. \A y \in Warehouses : moves'[s][y] = moves[s][y]
      <4>1. CASE Cancel(r, w, i)
        BY <4>1, <2>3, CancelEffect
      <4>2. CASE EditDemand(r, w, i)
        BY <4>2, <2>3, EditDemandEffect
      <4> QED
        BY <1>6, <4>1, <4>2
    <3> QED
      BY <3>1, <2>1, <2>3 DEF ShortIsSettled, Settled
  <2> QED
    BY <2>2, <2>3
<1>7. ASSUME NEW r \in Requests, NEW w \in Warehouses, NEW i \in DOMAIN moves[r][w],
             \/ ConfirmDelivery(r, w, i) \/ ConfirmPod(r, w, i)
      PROVE  Kept(s)
  <2>1. /\ UNCHANGED <<stage, short, edited>>
        /\ moves' = [moves EXCEPT ![r][w][i].confirmed = TRUE]
    BY <1>7 DEF ConfirmDelivery, Deliver, ConfirmPod, historyVars
  <2>2. moves \in AllMoves
    BY DEF TypeOK
  <2>3. Settled(s, moves) => Settled(s, moves')
    <3> SUFFICES ASSUME Settled(s, moves), NEW y \in Warehouses, NEW k \in DOMAIN moves'[s][y]
                 PROVE  moves'[s][y][k].done
      BY DEF Settled
    <3>1. k \in DOMAIN moves[s][y] /\ moves'[s][y][k].done = moves[s][y][k].done
      <4>1. CASE s = r /\ y = w
        <5> DEFINE old == moves[r][w]
                   new == [old EXCEPT ![i] = [old[i] EXCEPT !.confirmed = TRUE]]
        <5>1. moves'[s][y] = new
          BY <4>1, <2>1, <2>2 DEF AllMoves
        <5>2. old \in Seq(MoveRecord) /\ \A x \in DOMAIN old : old[x] \in MoveRecord
          BY <2>2 DEF AllMoves
        <5>3. DOMAIN new = DOMAIN old /\ \A x \in DOMAIN old : new[x].done = old[x].done
          <6> HIDE DEF old
          <6> QED
            BY <5>2 DEF MoveRecord
        <5> QED
          BY <4>1, <5>1, <5>3
      <4>2. CASE s # r \/ y # w
        <5>1. moves'[s][y] = moves[s][y]
          BY <4>2, <2>1, <2>2 DEF AllMoves
        <5> QED
          BY <5>1
      <4> QED
        BY <4>1, <4>2
    <3> QED
      BY <3>1 DEF Settled
  <2> QED
    BY <2>1, <2>3 DEF ShortIsSettled
<1>8. ASSUME \/ \E r \in Requests :
                  \/ Submit(r) \/ Approve(r) \/ ApproveReview(r) \/ Reject(r)
                  \/ RequestRevision(r) \/ ResetToDraft(r) \/ Resubmit(r)
             \/ \E w \in Warehouses : CountStock(w)
             \/ UNCHANGED vars
      PROVE  Kept(s)
  <2>1. /\ stage'[s] = "dispatched" => stage[s] = "dispatched"
        /\ UNCHANGED <<short, edited, moves>>
    BY <1>8 DEF Submit, Approve, ApproveReview, Reject, RequestRevision, ResetToDraft,
                Resubmit, Decide, CountStock, vars, historyVars
  <2> QED
    BY <2>1, <1>2
<1> HIDE DEF Kept
<1> QED
  BY <1>3, <1>4, <1>5, <1>6, <1>7, <1>8, NextCases

\* The counters that cover a request are exact when nothing of it is edited, and count
\* what it shipped when nothing is pending.
LEMMA CounterGivesMoves ==
    TypeOK /\ CountersLag /\ CountersCover /\ ShortIsSettled => DispatchedIsCovered
<1> SUFFICES ASSUME TypeOK, CountersLag, CountersCover, ShortIsSettled,
                    NEW r \in Requests, stage[r] = "dispatched"
             PROVE  IF r \in short THEN Shipped(r) >= Requested[r]
                    ELSE r \in edited \/ Committed(r) >= Requested[r]
  BY DEF DispatchedIsCovered
<1>1. SumFunction([w \in Warehouses |-> allocation[r][w].dispatched]) >= Requested[r]
  BY DEF CountersCover, Covered
<1>2. ASSUME r \notin edited, NEW w \in Warehouses
      PROVE  allocation[r][w].dispatched = ShippedBy(moves[r][w]) + PendingBy(moves[r][w])
  BY <1>2, LagGivesMatch DEF CountersMatchMoves
<1>3. ASSUME r \notin edited
      PROVE  Committed(r) >= Requested[r]
  <2>1. [w \in Warehouses |-> allocation[r][w].dispatched] =
           [w \in Warehouses |-> ShippedBy(moves[r][w]) + PendingBy(moves[r][w])]
    BY <1>2, <1>3
  <2> QED
    BY <2>1, <1>1 DEF Committed
<1>4. ASSUME r \in short
      PROVE  Shipped(r) >= Requested[r]
  <2>1. Settled(r, moves) /\ r \notin edited
    BY <1>4 DEF ShortIsSettled
  <2>2. ASSUME NEW w \in Warehouses
        PROVE  allocation[r][w].dispatched = ShippedBy(moves[r][w])
    <3> DEFINE ms == moves[r][w]
    <3>1. \A i \in DOMAIN ms : ms[i].done
      BY <2>1 DEF Settled
    <3>2. [i \in DOMAIN ms |-> Counted(ms[i])] = [i \in DOMAIN ms |-> ms[i].shipped]
      BY <3>1 DEF Counted
    <3>3. Dispatched(ms) = ShippedBy(ms)
      BY <3>2 DEF Dispatched, ShippedBy
    <3>4. allocation[r][w].dispatched = Dispatched(ms)
      BY <2>1 DEF CountersLag
    <3> QED
      BY <3>3, <3>4
  <2>3. [w \in Warehouses |-> allocation[r][w].dispatched] =
           [w \in Warehouses |-> ShippedBy(moves[r][w])]
    BY <2>2
  <2> QED
    BY <2>3, <1>1 DEF Shipped
<1> QED
  BY <1>3, <1>4

-----------------------------------------------------------------------------
(* Promises *)

\* Recounting raises what is promised by no more than the moves lost.
LEMMA RecountedOwed ==
    ASSUME TypeOK, CountersLag, NEW r \in Requests, NEW v \in Warehouses, v \notin blind,
           NEW ms \in AllMoves, NEW k \in Nat,
           Dispatched(ms[r][v]) >= Dispatched(moves[r][v]) - k
    PROVE  Owed(Recount(r, ms), v) <= Owed(allocation, v) + k
<1> DEFINE b == Recount(r, ms)
<1>1. allocation \in AllAllocations
  BY DEF TypeOK
<1>2. /\ b \in AllAllocations
      /\ \A s \in Requests : s # r => b[s] = allocation[s]
      /\ b[r][v].allocated = allocation[r][v].allocated
      /\ b[r][v].dispatched = Dispatched(ms[r][v])
  BY <1>1, RecountFacts
<1> HIDE DEF b
<1>3. \A s \in Requests : s # r => b[s][v] = allocation[s][v]
  BY <1>2
<1>4. /\ Owed(allocation, v) \in Nat
      /\ Owed(b, v) = Owed(allocation, v) - Remaining(allocation[r][v]) + Remaining(b[r][v])
  BY <1>1, <1>2, <1>3, OwedChange
<1>5. /\ b[r][v] \in [allocated : Nat, dispatched : Nat]
      /\ allocation[r][v] \in [allocated : Nat, dispatched : Nat]
  BY <1>1, <1>2 DEF AllAllocations
<1>6. /\ allocation[r][v].dispatched <= Dispatched(moves[r][v])
      /\ Dispatched(moves[r][v]) \in Nat
  BY DispatchedIsTally DEF CountersLag, TypeOK, AllMoves
<1>7. Remaining(b[r][v]) <= Remaining(allocation[r][v]) + k
  BY <1>2, <1>5, <1>6 DEF Remaining, AtLeast0
<1>8. Remaining(b[r][v]) \in Nat /\ Remaining(allocation[r][v]) \in Nat
  BY <1>5, RemainingFacts
<1> QED
  BY <1>4, <1>7, <1>8 DEF b

\* What is free and what is promised after a step.
LEMMA StockAfter ==
    ASSUME NEW w
    PROVE  /\ Free(w)' = onHand'[w] - Reserve(moves', w)
           /\ Promised(w)' = Owed(allocation', w)
  BY DEF Free, Promised, Reserve, Owed

\* No step promises stock that is not free, but those that mark the warehouse blind.
LEMMA PromiseStep ==
    TypeOK /\ CountersLag /\ PromisedOnce /\ [Next]_vars => PromisedOnce'
<1> SUFFICES ASSUME TypeOK, CountersLag, PromisedOnce, [Next]_vars
             PROVE  PromisedOnce'
  OBVIOUS
<1> DEFINE Sound(v) == v \notin blind' =>
                          Owed(allocation', v) <= onHand'[v] - Reserve(moves', v)
<1>1. SUFFICES ASSUME NEW v \in Warehouses
               PROVE  Sound(v)
  BY StockAfter DEF PromisedOnce
<1> DEFINE free == Free(v)
           owed == Owed(allocation, v)
           held == Reserve(moves, v)
<1>2. /\ free = onHand[v] - held /\ free \in Int /\ owed \in Nat
      /\ onHand[v] \in Int /\ held \in Nat
      /\ v \notin blind => owed <= free
  BY FreeFacts DEF PromisedOnce
<1>3. allocation \in AllAllocations /\ moves \in AllMoves
  BY DEF TypeOK
<1> HIDE DEF free, owed, held
<1>4. ASSUME NEW r \in Requests, moves' \in AllMoves,
             \A s \in Requests : s # r => moves'[s][v] = moves[s][v]
      PROVE  /\ Reserve(moves', v) = held - ReservedBy(moves[r][v]) + ReservedBy(moves'[r][v])
             /\ moves[r][v] \in Seq(MoveRecord) /\ moves'[r][v] \in Seq(MoveRecord)
             /\ ReservedBy(moves[r][v]) = Tally(ReservedOf, moves[r][v])
             /\ ReservedBy(moves'[r][v]) = Tally(ReservedOf, moves'[r][v])
             /\ Tally(ReservedOf, moves[r][v]) \in Nat
             /\ Tally(CountedOf, moves[r][v]) = Dispatched(moves[r][v])
             /\ Tally(CountedOf, moves'[r][v]) = Dispatched(moves'[r][v])
             /\ Dispatched(moves[r][v]) \in Nat
             /\ ReservedOf \in [MoveRecord -> Nat] /\ CountedOf \in [MoveRecord -> Nat]
  <2> DEFINE ms == moves'
  <2>1. ms \in AllMoves /\ \A s \in Requests : s # r => ms[s][v] = moves[s][v]
    BY <1>4
  <2> HIDE DEF ms
  <2>2. Reserve(ms, v) = held - ReservedBy(moves[r][v]) + ReservedBy(ms[r][v])
    BY <2>1, <1>3, ReserveChange DEF held
  <2>3. moves[r][v] \in Seq(MoveRecord) /\ ms[r][v] \in Seq(MoveRecord)
    BY <2>1, <1>3 DEF AllMoves
  <2>4. /\ ReservedBy(moves[r][v]) = Tally(ReservedOf, moves[r][v])
        /\ ReservedBy(ms[r][v]) = Tally(ReservedOf, ms[r][v])
        /\ Tally(CountedOf, moves[r][v]) = Dispatched(moves[r][v])
        /\ Tally(CountedOf, ms[r][v]) = Dispatched(ms[r][v])
        /\ ReservedOf \in [MoveRecord -> Nat] /\ CountedOf \in [MoveRecord -> Nat]
    BY <2>3, Tallies
  <2>5. Tally(ReservedOf, moves[r][v]) \in Nat /\ Tally(CountedOf, moves[r][v]) \in Nat
    BY <2>3, <2>4, TallySum
  <2> QED
    BY <2>2, <2>3, <2>4, <2>5 DEF ms
<1>5. CASE UNCHANGED <<allocation, moves, onHand, blind>>
  BY <1>2, <1>5 DEF free, owed, held
<1>6. ASSUME NEW r \in Requests, Allocate(r) \/ ConfirmAllocation(r)
      PROVE  Sound(v)
  <2>1. PICK n \in Nat : \E x \in [Warehouses -> 0 .. n] : Allot(r, x)
    BY <1>6, AllotCases
  <2>2. PICK x \in [Warehouses -> 0 .. n] : Allot(r, x)
    BY <2>1
  <2>3. /\ allocation' \in AllAllocations
        /\ \A s \in Requests : s # r => allocation'[s] = allocation[s]
        /\ x[v] \in Nat
        /\ allocation'[r][v].allocated = allocation[r][v].allocated + x[v]
        /\ allocation'[r][v].dispatched = allocation[r][v].dispatched
        /\ x[v] > Available(v) => v \in blind'
        /\ blind \subseteq blind'
    BY <2>2, AllotEffect
  <2>4. UNCHANGED <<moves, onHand>>
    BY <1>6 DEF Allocate, ConfirmAllocation
  <2> DEFINE b == allocation'
  <2>5. /\ b \in AllAllocations
        /\ \A s \in Requests : s # r => b[s][v] = allocation[s][v]
    BY <2>3
  <2>6. /\ b[r][v] \in [allocated : Nat, dispatched : Nat]
        /\ allocation[r][v] \in [allocated : Nat, dispatched : Nat]
    BY <2>5, <1>3 DEF AllAllocations
  <2>7. Remaining(b[r][v]) <= Remaining(allocation[r][v]) + x[v]
    BY <2>3, <2>6 DEF Remaining, AtLeast0
  <2>8. Remaining(b[r][v]) \in Nat /\ Remaining(allocation[r][v]) \in Nat
    BY <2>6, RemainingFacts
  <2> HIDE DEF b
  <2>9. Owed(b, v) = owed - Remaining(allocation[r][v]) + Remaining(b[r][v])
    BY <2>5, <1>3, OwedChange DEF owed
  <2>10. Owed(b, v) <= owed + x[v]
    BY <2>3, <2>7, <2>8, <2>9, <1>2
  <2>11. ASSUME v \notin blind'
         PROVE  Owed(b, v) <= free
    <3>1. v \notin blind /\ ~(x[v] > Available(v))
      BY <2>3, <2>11
    <3>2. Available(v) = free - owed
      BY <3>1, <1>2, AvailableFacts, FreeFacts DEF free, owed
    <3>3. Owed(b, v) \in Int
      BY <2>8, <2>9, <1>2
    <3> QED
      BY <3>1, <3>2, <3>3, <2>3, <2>10, <1>2
  <2> QED
    BY <2>4, <2>11, <1>2 DEF b, held
<1>7. ASSUME NEW r \in Requests, CreateDispatch(r)
      PROVE  Sound(v)
  <2> DEFINE n == Remaining(allocation[r][v])
             m == Move(n, Free(v))
             b == allocation'
  <2>1. /\ moves' \in AllMoves
        /\ \A s \in Requests : s # r => moves'[s][v] = moves[s][v]
        /\ n = 0 => moves'[r][v] = moves[r][v]
        /\ n > 0 => moves'[r][v] = Append(moves[r][v], m)
    BY <1>7, CreateDispatchEffect
  <2>2. /\ b \in AllAllocations
        /\ \A s \in Requests : s # r => b[s][v] = allocation[s][v]
        /\ b[r][v].allocated = allocation[r][v].allocated
        /\ b[r][v].dispatched = allocation[r][v].dispatched + n
    BY <1>7, CreateDispatchEffect
  <2>3. UNCHANGED <<onHand, blind>>
    BY <1>7 DEF CreateDispatch
  <2>4. /\ b[r][v] \in [allocated : Nat, dispatched : Nat]
        /\ allocation[r][v] \in [allocated : Nat, dispatched : Nat]
    BY <2>2, <1>3 DEF AllAllocations
  <2>5. n \in Nat
    BY <2>4, RemainingFacts
  <2>6. Remaining(b[r][v]) = 0
    BY <2>2, <2>4 DEF Remaining, AtLeast0
  <2>7. m \in MoveRecord /\ ReservedOf[m] <= n
    BY <2>5, FreeFacts, MoveFacts
  <2> HIDE DEF b, m
  <2>8. Owed(b, v) = owed - n + Remaining(b[r][v])
    BY <2>2, <1>3, OwedChange DEF owed
  <2> HIDE DEF n
  <2>9. /\ Reserve(moves', v) = held - ReservedBy(moves[r][v]) + ReservedBy(moves'[r][v])
        /\ moves[r][v] \in Seq(MoveRecord)
        /\ ReservedBy(moves[r][v]) = Tally(ReservedOf, moves[r][v])
        /\ ReservedBy(moves'[r][v]) = Tally(ReservedOf, moves'[r][v])
        /\ Tally(ReservedOf, moves[r][v]) \in Nat
        /\ ReservedOf \in [MoveRecord -> Nat]
    BY <2>1, <1>4
  <2>10. /\ Tally(ReservedOf, moves'[r][v]) <= Tally(ReservedOf, moves[r][v]) + n
         /\ Tally(ReservedOf, moves'[r][v]) \in Nat
    <3>1. CASE n = 0
      BY <3>1, <2>1, <2>9
    <3>2. CASE n > 0
      <4>1. Tally(ReservedOf, Append(moves[r][v], m)) =
               Tally(ReservedOf, moves[r][v]) + ReservedOf[m]
        BY <2>7, <2>9, TallyAppend
      <4>2. moves'[r][v] = Append(moves[r][v], m)
        BY <3>2, <2>1
      <4>3. ReservedOf[m] \in Nat
        BY <2>7, <2>9
      <4> QED
        BY <4>1, <4>2, <4>3, <2>5, <2>7, <2>9
    <3> QED
      BY <3>1, <3>2, <2>5
  <2>11. Reserve(moves', v) <= held + n /\ Reserve(moves', v) \in Int
    BY <2>5, <2>9, <2>10, <1>2
  <2>12. Owed(b, v) = owed - n
    BY <2>5, <2>6, <2>8, <1>2
  <2> QED
    BY <2>3, <2>5, <2>11, <2>12, <1>2 DEF b
<1>8. ASSUME NEW r \in Requests, NEW w \in Warehouses, moves' \in AllMoves,
             \A x \in Requests, y \in Warehouses :
                x # r \/ y # w => moves'[x][y] = moves[x][y],
             Tally(ReservedOf, moves'[r][w]) <= Tally(ReservedOf, moves[r][w]),
             Tally(ReservedOf, moves'[r][w]) \in Nat
      PROVE  Reserve(moves', v) <= held /\ Reserve(moves', v) \in Int
  <2>1. \A s \in Requests : s # r => moves'[s][v] = moves[s][v]
    BY <1>8
  <2>2. /\ Reserve(moves', v) = held - ReservedBy(moves[r][v]) + ReservedBy(moves'[r][v])
        /\ ReservedBy(moves[r][v]) = Tally(ReservedOf, moves[r][v])
        /\ ReservedBy(moves'[r][v]) = Tally(ReservedOf, moves'[r][v])
        /\ Tally(ReservedOf, moves[r][v]) \in Nat
    BY <2>1, <1>4, <1>8
  <2>3. /\ Tally(ReservedOf, moves'[r][v]) <= Tally(ReservedOf, moves[r][v])
        /\ Tally(ReservedOf, moves'[r][v]) \in Nat
    <3>1. CASE v = w
      BY <3>1, <1>8
    <3>2. CASE v # w
      <4>1. moves'[r][v] = moves[r][v]
        BY <3>2, <1>8
      <4> QED
        BY <4>1, <2>2
    <3> QED
      BY <3>1, <3>2
  <2> QED
    BY <2>2, <2>3, <1>2
<1>9. ASSUME NEW r \in Requests, NEW w \in Warehouses, NEW i \in DOMAIN moves[r][w],
             \/ EditDemand(r, w, i) \/ ConfirmDelivery(r, w, i) \/ ConfirmPod(r, w, i)
      PROVE  Sound(v)
  <2>1. UNCHANGED <<allocation, onHand>> /\ blind \subseteq blind'
    BY <1>9, BlindGrows DEF EditDemand, ConfirmDelivery, Deliver, ConfirmPod
  <2>2. CASE EditDemand(r, w, i)
    <3>1. /\ moves' \in AllMoves
          /\ Tally(ReservedOf, moves'[r][w]) <= Tally(ReservedOf, moves[r][w])
          /\ Tally(ReservedOf, moves'[r][w]) \in Nat
      BY <2>2, EditDemandEffect
    <3>2. \A x \in Requests, y \in Warehouses :
             x # r \/ y # w => moves'[x][y] = moves[x][y]
      BY <2>2, EditDemandEffect
    <3>3. Reserve(moves', v) <= held /\ Reserve(moves', v) \in Int
      BY <3>1, <3>2, <1>8
    <3> QED
      BY <3>3, <2>1, <1>2 DEF owed
  <2>3. CASE ConfirmDelivery(r, w, i) \/ ConfirmPod(r, w, i)
    <3>1. MarkConfirmed(r, w, i)
      BY <2>3 DEF ConfirmDelivery, Deliver, ConfirmPod, MarkConfirmed
    <3>2. /\ moves' \in AllMoves
          /\ Tally(ReservedOf, moves'[r][w]) <= Tally(ReservedOf, moves[r][w])
          /\ Tally(ReservedOf, moves'[r][w]) \in Nat
      <4>1. /\ moves' \in AllMoves
            /\ Tally(ReservedOf, moves'[r][w]) = Tally(ReservedOf, moves[r][w])
        BY <3>1, ConfirmEffect
      <4>2. Tally(ReservedOf, moves[r][w]) \in Nat
        <5> moves[r][w] \in Seq(MoveRecord)
          BY DEF TypeOK, AllMoves
        <5> QED
          BY TallySum, Tallies
      <4> QED
        BY <4>1, <4>2
    <3>3. \A x \in Requests, y \in Warehouses :
             x # r \/ y # w => moves'[x][y] = moves[x][y]
      BY <3>1, ConfirmEffect
    <3>4. Reserve(moves', v) <= held /\ Reserve(moves', v) \in Int
      BY <3>2, <3>3, <1>8
    <3> QED
      BY <3>4, <2>1, <1>2 DEF owed
  <2> QED
    BY <1>9, <2>2, <2>3
<1>10. ASSUME NEW r \in Requests, moves' \in AllMoves, allocation' = Recount(r, moves'),
              v \notin blind, NEW k \in Nat,
              Dispatched(moves'[r][v]) >= Dispatched(moves[r][v]) - k
       PROVE  Owed(allocation', v) <= owed + k /\ Owed(allocation', v) \in Int
  <2> DEFINE ms == moves'
  <2>1. /\ ms \in AllMoves /\ allocation' = Recount(r, ms)
        /\ Dispatched(ms[r][v]) >= Dispatched(moves[r][v]) - k
    BY <1>10
  <2> HIDE DEF ms
  <2>2. Owed(Recount(r, ms), v) <= owed + k
    BY <2>1, <1>10, RecountedOwed DEF owed
  <2>3. Recount(r, ms) \in AllAllocations
    BY <2>1, <1>3, RecountFacts
  <2>4. Owed(Recount(r, ms), v) \in Nat
    BY <2>3, OwedChange
  <2> QED
    BY <2>1, <2>2, <2>4
<1>11. ASSUME NEW r \in Requests, moves' \in AllMoves, allocation' = Recount(r, moves'),
              \A s \in Requests : moves'[s][v] = moves[s][v],
              onHand'[v] = onHand[v], blind \subseteq blind'
       PROVE  Sound(v)
  <2> SUFFICES ASSUME v \notin blind'
               PROVE  Owed(allocation', v) <= onHand'[v] - Reserve(moves', v)
    OBVIOUS
  <2>0. v \notin blind
    BY <1>11
  <2>1. /\ Reserve(moves', v) = held - ReservedBy(moves[r][v]) + ReservedBy(moves'[r][v])
        /\ ReservedBy(moves[r][v]) = Tally(ReservedOf, moves[r][v])
        /\ Tally(ReservedOf, moves[r][v]) \in Nat
        /\ Dispatched(moves[r][v]) \in Nat
    BY <1>4, <1>11
  <2>2. moves'[r][v] = moves[r][v]
    BY <1>11
  <2>3. Reserve(moves', v) = held
    BY <2>1, <2>2, <1>2
  <2>4. Dispatched(moves'[r][v]) >= Dispatched(moves[r][v]) - 0
    BY <2>1, <2>2
  <2>5. Owed(allocation', v) <= owed + 0 /\ Owed(allocation', v) \in Int
    BY <2>0, <2>4, <1>10, <1>11
  <2> QED
    BY <2>3, <2>5, <1>2, <1>11
<1> HIDE DEF Sound
<1>12. ASSUME NEW r \in Requests, NEW w \in Warehouses, NEW i \in DOMAIN moves[r][w],
              NEW q \in Nat, NEW b \in BOOLEAN, ActionDone(r, w, i, q, b)
       PROVE  Sound(v)
  <2>1. moves' \in AllMoves /\ allocation' = Recount(r, moves')
    BY <1>12, ActionDoneEffect
  <2>2. \A x \in Requests, y \in Warehouses :
           x # r \/ y # w => moves'[x][y] = moves[x][y]
    BY <1>12, ActionDoneEffect
  <2>3. /\ blind \subseteq blind'
        /\ onHand' = [onHand EXCEPT ![w] = @ - q]
        /\ LET m == moves[r][w][i]
           IN  (q > m.demand \/ m.reserved < m.demand) => w \in blind'
    BY <1>12 DEF ActionDone
  <2>4. CASE v # w
    <3>1. \A s \in Requests : moves'[s][v] = moves[s][v]
      BY <2>2, <2>4
    <3>2. onHand'[v] = onHand[v]
      BY <2>3, <2>4 DEF TypeOK
    <3> QED
      BY <3>1, <3>2, <2>1, <2>3, <1>11
  <2>5. CASE v = w /\ v \notin blind'
    <3> DEFINE m == moves[r][v][i]
               back == Move(m.demand - q, Free(v) + m.reserved - q)
    <3>1. m \in MoveRecord /\ ~m.done /\ Free(v) \in Int /\ (b => m.demand - q \in Nat)
      BY <1>12, <2>5, ActionDoneEffect
    <3>2. ~(q > m.demand \/ m.reserved < m.demand) /\ onHand'[v] = onHand[v] - q
      BY <2>3, <2>5 DEF TypeOK
    <3>3. \A F \in [MoveRecord -> Nat] :
             Tally(F, moves'[r][v]) =
                Tally(F, moves[r][v]) - F[m] + F[Finished(m, q)] + (IF b THEN F[back] ELSE 0)
      <4>1. \A F \in [MoveRecord -> Nat] :
               Tally(F, moves'[r][w]) =
                  Tally(F, moves[r][w]) - F[moves[r][w][i]] + F[Finished(moves[r][w][i], q)]
                     + (IF b THEN F[Move(moves[r][w][i].demand - q,
                                         Free(w) + moves[r][w][i].reserved - q)] ELSE 0)
        BY <1>12, ActionDoneEffect
      <4> QED
        BY <4>1, <2>5
    <3>4. /\ Reserve(moves', v) = held - ReservedBy(moves[r][v]) + ReservedBy(moves'[r][v])
          /\ ReservedBy(moves[r][v]) = Tally(ReservedOf, moves[r][v])
          /\ ReservedBy(moves'[r][v]) = Tally(ReservedOf, moves'[r][v])
          /\ Tally(ReservedOf, moves[r][v]) \in Nat
          /\ Tally(CountedOf, moves[r][v]) = Dispatched(moves[r][v])
          /\ Tally(CountedOf, moves'[r][v]) = Dispatched(moves'[r][v])
          /\ Dispatched(moves[r][v]) \in Nat
          /\ ReservedOf \in [MoveRecord -> Nat] /\ CountedOf \in [MoveRecord -> Nat]
      <4>1. \A s \in Requests : s # r => moves'[s][v] = moves[s][v]
        BY <2>2
      <4> QED
        BY <4>1, <2>1, <1>4
    <3>5. /\ ReservedOf[Finished(m, q)] = 0 /\ CountedOf[Finished(m, q)] = q
      BY <3>1, FinishedFacts
    <3> HIDE DEF m
    <3>6. /\ ReservedOf[m] = m.reserved /\ CountedOf[m] = m.demand
          /\ m.reserved \in Nat /\ m.demand \in Nat
      BY <3>1 DEF ReservedOf, CountedOf, Counted, MoveRecord
    <3> DEFINE k == m.demand - q
    <3>7. k \in Nat /\ m.reserved >= m.demand
      BY <3>2, <3>6
    <3>8. /\ back \in MoveRecord /\ ReservedOf[back] <= k /\ CountedOf[back] = k
          /\ ReservedOf[back] \in Nat
      <4>1. Free(v) + m.reserved - q \in Int
        BY <3>1, <3>6
      <4>2. back \in MoveRecord /\ ReservedOf[back] <= k /\ CountedOf[back] = k
        BY <4>1, <3>7, MoveFacts
      <4> QED
        BY <4>2, <3>4
    <3> HIDE DEF back
    <3>9. Tally(ReservedOf, moves'[r][v]) =
             Tally(ReservedOf, moves[r][v]) - m.reserved + (IF b THEN ReservedOf[back] ELSE 0)
      BY <3>3, <3>4, <3>5, <3>6
    <3>10. Dispatched(moves'[r][v]) =
              Dispatched(moves[r][v]) - m.demand + q + (IF b THEN k ELSE 0)
      <4>1. Tally(CountedOf, moves'[r][v]) =
               Tally(CountedOf, moves[r][v]) - CountedOf[m] + CountedOf[Finished(m, q)]
                  + (IF b THEN CountedOf[back] ELSE 0)
        BY <3>3, <3>4
      <4> QED
        BY <4>1, <3>4, <3>5, <3>6, <3>8
    <3>0. v \notin blind
      BY <2>3, <2>5
    <3>11. CASE b
      <4>1. Dispatched(moves'[r][v]) >= Dispatched(moves[r][v]) - 0
        BY <3>4, <3>6, <3>10, <3>11
      <4>2. Owed(allocation', v) <= owed + 0 /\ Owed(allocation', v) \in Int
        BY <4>1, <3>0, <2>1, <1>10
      <4>3. Reserve(moves', v) <= held - q /\ Reserve(moves', v) \in Int
        BY <3>4, <3>6, <3>7, <3>8, <3>9, <3>11, <1>2
      <4> QED
        BY <4>2, <4>3, <3>2, <2>3, <2>5, <1>2 DEF Sound
    <3>12. CASE ~b
      <4>1. Dispatched(moves'[r][v]) >= Dispatched(moves[r][v]) - k
        BY <3>4, <3>6, <3>10, <3>12
      <4>2. Owed(allocation', v) <= owed + k /\ Owed(allocation', v) \in Int
        BY <4>1, <3>0, <3>7, <2>1, <1>10
      <4>3. Reserve(moves', v) <= held - m.demand /\ Reserve(moves', v) \in Int
        BY <3>4, <3>6, <3>7, <3>9, <3>12, <1>2
      <4> QED
        BY <4>2, <4>3, <3>2, <3>6, <2>3, <2>5, <1>2 DEF Sound
    <3> QED
      BY <3>11, <3>12
  <2>6. CASE v \in blind'
    BY <2>6 DEF Sound
  <2> QED
    BY <2>4, <2>5, <2>6
<1>13. ASSUME NEW r \in Requests, NEW w \in Warehouses, NEW i \in DOMAIN moves[r][w],
              Cancel(r, w, i)
       PROVE  Sound(v)
  <2>1. moves' \in AllMoves /\ allocation' = Recount(r, moves')
    BY <1>13, CancelEffect
  <2>2. \A x \in Requests, y \in Warehouses :
           x # r \/ y # w => moves'[x][y] = moves[x][y]
    BY <1>13, CancelEffect
  <2>3. /\ blind \subseteq blind' /\ onHand' = onHand
        /\ LET m == moves[r][w][i] IN m.reserved < m.demand => w \in blind'
    BY <1>13 DEF Cancel
  <2>4. CASE v # w
    <3>1. \A s \in Requests : moves'[s][v] = moves[s][v]
      BY <2>2, <2>4
    <3> QED
      BY <3>1, <2>1, <2>3, <1>11
  <2>5. CASE v = w /\ v \notin blind'
    <3> DEFINE m == moves[r][v][i]
    <3>1. m \in MoveRecord /\ ~m.done
      BY <1>13, <2>5, CancelEffect
    <3>2. ~(m.reserved < m.demand)
      BY <2>3, <2>5
    <3>3. \A F \in [MoveRecord -> Nat] :
             Tally(F, moves'[r][v]) = Tally(F, moves[r][v]) - F[m]
      BY <1>13, <2>5, CancelEffect
    <3>4. /\ Reserve(moves', v) = held - ReservedBy(moves[r][v]) + ReservedBy(moves'[r][v])
          /\ ReservedBy(moves[r][v]) = Tally(ReservedOf, moves[r][v])
          /\ ReservedBy(moves'[r][v]) = Tally(ReservedOf, moves'[r][v])
          /\ Tally(ReservedOf, moves[r][v]) \in Nat
          /\ Tally(CountedOf, moves[r][v]) = Dispatched(moves[r][v])
          /\ Tally(CountedOf, moves'[r][v]) = Dispatched(moves'[r][v])
          /\ Dispatched(moves[r][v]) \in Nat
          /\ ReservedOf \in [MoveRecord -> Nat] /\ CountedOf \in [MoveRecord -> Nat]
      <4>1. \A s \in Requests : s # r => moves'[s][v] = moves[s][v]
        BY <2>2
      <4> QED
        BY <4>1, <2>1, <1>4
    <3> HIDE DEF m
    <3>5. /\ ReservedOf[m] = m.reserved /\ CountedOf[m] = m.demand
          /\ m.reserved \in Nat /\ m.demand \in Nat
      BY <3>1 DEF ReservedOf, CountedOf, Counted, MoveRecord
    <3>6. /\ Tally(ReservedOf, moves'[r][v]) = Tally(ReservedOf, moves[r][v]) - m.reserved
          /\ Dispatched(moves'[r][v]) = Dispatched(moves[r][v]) - m.demand
      BY <3>3, <3>4, <3>5
    <3>7. Dispatched(moves'[r][v]) >= Dispatched(moves[r][v]) - m.demand
      BY <3>4, <3>5, <3>6
    <3>8. Owed(allocation', v) <= owed + m.demand /\ Owed(allocation', v) \in Int
      <4>1. v \notin blind
        BY <2>3, <2>5
      <4> QED
        BY <4>1, <3>5, <3>7, <2>1, <1>10
    <3>9. Reserve(moves', v) <= held - m.demand /\ Reserve(moves', v) \in Int
      BY <3>2, <3>4, <3>5, <3>6, <1>2
    <3> QED
      BY <3>5, <3>8, <3>9, <2>3, <2>5, <1>2 DEF Sound
  <2>6. CASE v \in blind'
    BY <2>6 DEF Sound
  <2> QED
    BY <2>4, <2>5, <2>6
<1>14. ASSUME NEW w \in Warehouses, CountStock(w)
       PROVE  Sound(v)
  <2>1. /\ UNCHANGED <<allocation, moves>>
        /\ \/ onHand' = [onHand EXCEPT ![w] = @ + 1] /\ blind' = blind
           \/ onHand' = [onHand EXCEPT ![w] = @ - 1] /\ blind' = blind \cup {w}
    BY <1>14 DEF CountStock
  <2>2. v \notin blind' => v \notin blind /\ onHand'[v] >= onHand[v] /\ onHand'[v] \in Int
    BY <2>1 DEF TypeOK
  <2>3. Owed(allocation', v) = owed /\ Reserve(moves', v) = held
    BY <2>1 DEF owed, held
  <2> QED
    BY <2>2, <2>3, <1>2 DEF Sound
<1>15. ASSUME \/ \E r \in Requests :
                   \/ Submit(r) \/ Approve(r) \/ ApproveReview(r) \/ Reject(r)
                   \/ RequestRevision(r) \/ ResetToDraft(r) \/ Resubmit(r)
              \/ UNCHANGED vars
       PROVE  UNCHANGED <<allocation, moves, onHand, blind>>
  BY <1>15 DEF Submit, Approve, ApproveReview, Reject, RequestRevision, ResetToDraft,
               Resubmit, Decide, vars
<1> QED
  BY <1>5, <1>6, <1>7, <1>9, <1>12, <1>13, <1>14, <1>15, NextCases

-----------------------------------------------------------------------------
(* Deliveries *)

\* When the moves of one warehouse change, what is accepted does as theirs.
LEMMA AcceptedChange ==
    ASSUME NEW ms \in [Warehouses -> Seq(MoveRecord)],
           NEW ns \in [Warehouses -> Seq(MoveRecord)], NEW w \in Warehouses,
           \A v \in Warehouses : v # w => ns[v] = ms[v]
    PROVE  /\ Accepted(ms) \in Nat
           /\ Accepted(ns) = Accepted(ms) - Tally(ConfirmedOf, ms[w]) + Tally(ConfirmedOf, ns[w])
           /\ Tally(ConfirmedOf, ms[w]) \in Nat /\ Tally(ConfirmedOf, ns[w]) \in Nat
<1> DEFINE f == [v \in Warehouses |-> Tally(ConfirmedOf, ms[v])]
           g == [v \in Warehouses |-> Tally(ConfirmedOf, ns[v])]
<1>1. ASSUME NEW v \in Warehouses
      PROVE  f[v] \in Nat /\ g[v] \in Nat
  BY TallySum, Tallies
<1>2. AgreeOn(f, g, Without(Warehouses, w))
  BY DEF AgreeOn, Without
<1>3. /\ Accepted(ms) = SumFunctionOnSet(f, Warehouses)
      /\ Accepted(ns) = SumFunctionOnSet(g, Warehouses)
  BY SumOfFunction DEF Accepted
<1>4. f[w] = Tally(ConfirmedOf, ms[w]) /\ g[w] = Tally(ConfirmedOf, ns[w])
  OBVIOUS
<1>5. IsFiniteSet(Warehouses)
  BY ReliefAssumption
<1> HIDE DEF f, g
<1>6. IntegerOn(f, Warehouses) /\ IntegerOn(g, Warehouses)
  BY <1>1 DEF IntegerOn
<1>7. SumFunctionOnSet(g, Warehouses) = SumFunctionOnSet(f, Warehouses) - f[w] + g[w]
  BY <1>2, <1>5, <1>6, SumChange
<1>8. SumFunctionOnSet(f, Warehouses) \in Nat
  BY <1>1, <1>5, SumNat
<1> QED
  BY <1>1, <1>3, <1>4, <1>7, <1>8

\* Moves that differ in none of their confirmed numbers have as much accepted.
LEMMA AcceptedSame ==
    ASSUME NEW ms, NEW ns,
           \A v \in Warehouses : Tally(ConfirmedOf, ns[v]) = Tally(ConfirmedOf, ms[v])
    PROVE  Accepted(ns) = Accepted(ms)
  BY DEF Accepted

\* A move that is not done has nothing confirmed.
LEMMA NothingConfirmed ==
    ASSUME NEW m \in MoveRecord, ~m.done
    PROVE  ConfirmedOf[m] = 0
  BY DEF ConfirmedOf, MoveRecord

\* What is delivered stays within what confirmed moves shipped: no step takes a
\* confirmed move away, and a delivery confirms a move that was not.
LEMMA DeliveryStep == TypeOK /\ DeliveredWasConfirmed /\ [Next]_vars => DeliveredWasConfirmed'
<1> SUFFICES ASSUME TypeOK, DeliveredWasConfirmed, [Next]_vars
             PROVE  DeliveredWasConfirmed'
  OBVIOUS
<1> DEFINE Within(s) == delivered'[s] <= Accepted(moves'[s])
<1>1. SUFFICES ASSUME NEW s \in Requests
               PROVE  Within(s)
  BY DEF DeliveredWasConfirmed, Accepted
<1>2. /\ delivered[s] <= Accepted(moves[s])
      /\ delivered[s] \in Nat
      /\ moves[s] \in [Warehouses -> Seq(MoveRecord)]
  BY DEF DeliveredWasConfirmed, TypeOK, AllMoves
<1>3. CASE delivered' = delivered /\ moves'[s] = moves[s]
  BY <1>2, <1>3
<1>4. ASSUME moves' \in AllMoves, NEW w \in Warehouses, NEW k \in Nat,
             \A v \in Warehouses : v # w => moves'[s][v] = moves[s][v],
             Tally(ConfirmedOf, moves'[s][w]) >= Tally(ConfirmedOf, moves[s][w]) + k,
             delivered'[s] <= delivered[s] + k
      PROVE  Within(s)
  <2> DEFINE ms == moves[s]
             ns == moves'[s]
  <2>1. /\ ms \in [Warehouses -> Seq(MoveRecord)]
        /\ ns \in [Warehouses -> Seq(MoveRecord)]
        /\ \A v \in Warehouses : v # w => ns[v] = ms[v]
    BY <1>2, <1>4 DEF AllMoves
  <2>2. /\ Tally(ConfirmedOf, ns[w]) >= Tally(ConfirmedOf, ms[w]) + k
        /\ delivered[s] <= Accepted(ms)
    BY <1>2, <1>4
  <2> HIDE DEF ms, ns
  <2>3. /\ Accepted(ms) \in Nat
        /\ Accepted(ns) = Accepted(ms) - Tally(ConfirmedOf, ms[w]) + Tally(ConfirmedOf, ns[w])
        /\ Tally(ConfirmedOf, ms[w]) \in Nat /\ Tally(ConfirmedOf, ns[w]) \in Nat
    BY <2>1, AcceptedChange
  <2>4. Accepted(ns) >= delivered[s] + k /\ Accepted(ns) \in Int
    BY <2>2, <2>3, <1>2
  <2>5. delivered'[s] \in Nat
    <3>1. TypeOK'
      BY TypeStep
    <3> QED
      BY <3>1 DEF TypeOK
  <2> QED
    BY <2>4, <2>5, <1>2, <1>4 DEF ns
<1> HIDE DEF Within
<1>5. ASSUME NEW r \in Requests, CreateDispatch(r)
      PROVE  Within(s)
  <2>1. delivered' = delivered
    BY <1>5 DEF CreateDispatch
  <2>2. CASE s # r
    BY <1>3, <1>5, <2>1, <2>2, CreateDispatchEffect
  <2>3. CASE s = r
    <3>1. ASSUME NEW v \in Warehouses
          PROVE  Tally(ConfirmedOf, moves'[s][v]) = Tally(ConfirmedOf, moves[s][v])
      <4> DEFINE n == Remaining(allocation[r][v])
                 m == Move(n, Free(v))
      <4>1. /\ n = 0 => moves'[r][v] = moves[r][v]
            /\ n > 0 => moves'[r][v] = Append(moves[r][v], m)
        BY <1>5, CreateDispatchEffect
      <4>2. n \in Nat
        <5> allocation[r][v] \in [allocated : Nat, dispatched : Nat]
          BY DEF TypeOK, AllAllocations
        <5> QED
          BY RemainingFacts
      <4> HIDE DEF n
      <4>3. m \in MoveRecord /\ ConfirmedOf[m] = 0
        BY <4>2, FreeFacts, MoveFacts
      <4> HIDE DEF m
      <4>4. moves[r][v] \in Seq(MoveRecord)
        BY <1>2, <2>3
      <4>5. ConfirmedOf \in [MoveRecord -> Nat]
        BY <4>4, Tallies
      <4>6. Tally(ConfirmedOf, Append(moves[r][v], m)) = Tally(ConfirmedOf, moves[r][v]) + 0
        BY <4>3, <4>4, <4>5, TallyAppend
      <4>7. Tally(ConfirmedOf, moves[r][v]) \in Nat
        BY <4>4, <4>5, TallySum
      <4>8. CASE n = 0
        BY <4>1, <4>8, <2>3
      <4>9. CASE n > 0
        <5>1. moves'[r][v] = Append(moves[r][v], m)
          BY <4>1, <4>9
        <5>2. Tally(ConfirmedOf, moves'[r][v]) = Tally(ConfirmedOf, moves[r][v])
          BY <4>6, <4>7, <5>1
        <5> QED
          BY <5>2, <2>3
      <4> QED
        BY <4>2, <4>8, <4>9
    <3>2. Accepted(moves'[s]) = Accepted(moves[s])
      <4> DEFINE ns == moves'[s]
      <4>1. \A v \in Warehouses : Tally(ConfirmedOf, ns[v]) = Tally(ConfirmedOf, moves[s][v])
        BY <3>1
      <4> HIDE DEF ns
      <4>2. Accepted(ns) = Accepted(moves[s])
        BY <4>1, AcceptedSame
      <4> QED
        BY <4>2 DEF ns
    <3> QED
      BY <3>2, <2>1, <1>2 DEF Within
  <2> QED
    BY <2>2, <2>3
<1>6. ASSUME NEW r \in Requests, NEW w \in Warehouses, NEW k \in Nat, moves' \in AllMoves,
             \A x \in Requests, y \in Warehouses :
                x # r \/ y # w => moves'[x][y] = moves[x][y],
             Tally(ConfirmedOf, moves'[r][w]) >= Tally(ConfirmedOf, moves[r][w]) + k,
             delivered'[r] <= delivered[r] + k,
             \A x \in Requests : x # r => delivered'[x] = delivered[x]
      PROVE  Within(s)
  <2>1. CASE s = r
    <3>1. \A v \in Warehouses : v # w => moves'[s][v] = moves[s][v]
      BY <1>6, <2>1
    <3> QED
      BY <3>1, <2>1, <1>4, <1>6
  <2>2. CASE s # r
    <3>1. \A v \in Warehouses : v # w => moves'[s][v] = moves[s][v]
      BY <1>6, <2>2
    <3>2. moves'[s][w] = moves[s][w]
      BY <1>6, <2>2
    <3>3. Tally(ConfirmedOf, moves[s][w]) \in Nat
      <4>1. moves[s][w] \in Seq(MoveRecord)
        BY <1>2
      <4> QED
        BY <4>1, Tallies, TallySum
    <3>4. Tally(ConfirmedOf, moves'[s][w]) >= Tally(ConfirmedOf, moves[s][w]) + 0
      BY <3>2, <3>3
    <3>5. delivered'[s] <= delivered[s] + 0
      BY <1>2, <1>6, <2>2
    <3> QED
      BY <3>1, <3>4, <3>5, <1>4, <1>6
  <2> QED
    BY <2>1, <2>2
<1>7. ASSUME NEW r \in Requests, NEW w \in Warehouses, moves' \in AllMoves,
             \A x \in Requests, y \in Warehouses :
                x # r \/ y # w => moves'[x][y] = moves[x][y],
             Tally(ConfirmedOf, moves'[r][w]) >= Tally(ConfirmedOf, moves[r][w]),
             delivered' = delivered
      PROVE  Within(s)
  <2>1. /\ Tally(ConfirmedOf, moves[r][w]) \in Nat
        /\ delivered[r] \in Nat
    <3>1. moves[r][w] \in Seq(MoveRecord) /\ delivered[r] \in Nat
      BY DEF TypeOK, AllMoves
    <3> QED
      BY <3>1, Tallies, TallySum
  <2>2. /\ Tally(ConfirmedOf, moves'[r][w]) >= Tally(ConfirmedOf, moves[r][w]) + 0
        /\ delivered'[r] <= delivered[r] + 0
        /\ \A x \in Requests : x # r => delivered'[x] = delivered[x]
    BY <2>1, <1>7
  <2> QED
    BY <2>2, <1>6, <1>7
<1>8. ASSUME NEW r \in Requests, NEW w \in Warehouses
      PROVE  /\ Tally(ConfirmedOf, moves[r][w]) \in Nat
             /\ ConfirmedOf \in [MoveRecord -> Nat]
  <2>1. moves[r][w] \in Seq(MoveRecord)
    BY DEF TypeOK, AllMoves
  <2> QED
    BY <2>1, Tallies, TallySum
<1>9. ASSUME NEW r \in Requests, NEW w \in Warehouses, NEW i \in DOMAIN moves[r][w],
             NEW q \in Nat, NEW b \in BOOLEAN, ActionDone(r, w, i, q, b)
      PROVE  Within(s)
  <2> DEFINE m == moves[r][w][i]
             free == Free(w) + m.reserved - q
             back == Move(m.demand - q, free)
  <2>1. moves' \in AllMoves
    BY <1>9, ActionDoneEffect
  <2>2. \A x \in Requests, y \in Warehouses :
           x # r \/ y # w => moves'[x][y] = moves[x][y]
    BY <1>9, ActionDoneEffect
  <2>3. /\ m \in MoveRecord /\ ~m.done /\ Free(w) \in Int
        /\ b => m.demand - q \in Nat
    BY <1>9, ActionDoneEffect
  <2>4. \A F \in [MoveRecord -> Nat] :
           Tally(F, moves'[r][w]) =
              Tally(F, moves[r][w]) - F[m] + F[Finished(m, q)] + (IF b THEN F[back] ELSE 0)
    BY <1>9, ActionDoneEffect
  <2>5. ConfirmedOf[m] = 0
    BY <2>3, NothingConfirmed
  <2>6. Finished(m, q) \in MoveRecord
    BY <2>3, FinishedFacts
  <2>7. free \in Int
    BY <2>3 DEF MoveRecord
  <2>8. b => ConfirmedOf[back] = 0
    BY <2>3, <2>7, MoveFacts
  <2> HIDE DEF m, back
  <2>9. ConfirmedOf[Finished(m, q)] \in Nat
    BY <2>6, <1>8
  <2>10. Tally(ConfirmedOf, moves'[r][w]) =
            Tally(ConfirmedOf, moves[r][w]) - ConfirmedOf[m] + ConfirmedOf[Finished(m, q)]
               + (IF b THEN ConfirmedOf[back] ELSE 0)
    BY <2>4, <1>8
  <2>11. Tally(ConfirmedOf, moves'[r][w]) >= Tally(ConfirmedOf, moves[r][w])
    BY <2>5, <2>8, <2>9, <2>10, <1>8
  <2>12. delivered' = delivered
    BY <1>9 DEF ActionDone
  <2> QED
    BY <2>1, <2>2, <2>11, <2>12, <1>7
<1>10. ASSUME NEW r \in Requests, NEW w \in Warehouses, NEW i \in DOMAIN moves[r][w],
              Cancel(r, w, i)
       PROVE  Within(s)
  <2> DEFINE m == moves[r][w][i]
  <2>1. moves' \in AllMoves /\ m \in MoveRecord /\ ~m.done
    BY <1>10, CancelEffect
  <2>2. \A x \in Requests, y \in Warehouses :
           x # r \/ y # w => moves'[x][y] = moves[x][y]
    BY <1>10, CancelEffect
  <2>3. \A F \in [MoveRecord -> Nat] :
           Tally(F, moves'[r][w]) = Tally(F, moves[r][w]) - F[m]
    BY <1>10, CancelEffect
  <2>4. ConfirmedOf[m] = 0
    BY <2>1, NothingConfirmed
  <2> HIDE DEF m
  <2>5. Tally(ConfirmedOf, moves'[r][w]) >= Tally(ConfirmedOf, moves[r][w])
    BY <2>3, <2>4, <1>8
  <2>6. delivered' = delivered
    BY <1>10 DEF Cancel
  <2> QED
    BY <2>1, <2>2, <2>5, <2>6, <1>7
<1>11. ASSUME NEW r \in Requests, NEW w \in Warehouses, NEW i \in DOMAIN moves[r][w],
              EditDemand(r, w, i)
       PROVE  Within(s)
  <2>1. moves' \in AllMoves
    BY <1>11, EditDemandEffect
  <2>2. \A x \in Requests, y \in Warehouses :
           x # r \/ y # w => moves'[x][y] = moves[x][y]
    BY <1>11, EditDemandEffect
  <2>3. Tally(ConfirmedOf, moves'[r][w]) >= Tally(ConfirmedOf, moves[r][w])
    BY <1>8, <1>11, EditDemandEffect
  <2>4. delivered' = delivered
    BY <1>11 DEF EditDemand
  <2> QED
    BY <2>1, <2>2, <2>3, <2>4, <1>7
<1>12. ASSUME NEW r \in Requests, NEW w \in Warehouses, NEW i \in DOMAIN moves[r][w],
              ConfirmDelivery(r, w, i) \/ ConfirmPod(r, w, i)
       PROVE  Within(s)
  <2> DEFINE m == moves[r][w][i]
             more == IF m.confirmed THEN 0 ELSE m.shipped
  <2>1. MarkConfirmed(r, w, i)
    BY <1>12 DEF ConfirmDelivery, Deliver, ConfirmPod, MarkConfirmed
  <2>2. moves' \in AllMoves
    BY <2>1, ConfirmEffect
  <2>3. \A x \in Requests, y \in Warehouses :
           x # r \/ y # w => moves'[x][y] = moves[x][y]
    BY <2>1, ConfirmEffect
  <2>4. Tally(ConfirmedOf, moves'[r][w]) = Tally(ConfirmedOf, moves[r][w]) + more
    BY <2>1, ConfirmEffect
  <2>5. more \in Nat
    BY MoveFields DEF MoveRecord
  <2>6. /\ delivered'[r] <= delivered[r] + more
        /\ \A x \in Requests : x # r => delivered'[x] = delivered[x]
    <3> delivered \in [Requests -> Nat]
      BY DEF TypeOK
    <3>1. CASE ConfirmPod(r, w, i)
      <4>1. delivered' = delivered
        BY <3>1 DEF ConfirmPod
      <4> QED
        BY <4>1, <2>5
    <3>2. CASE ConfirmDelivery(r, w, i)
      <4>1. PICK q \in 0 .. m.shipped : delivered' = [delivered EXCEPT ![r] = @ + q]
        BY <3>2 DEF ConfirmDelivery, Deliver
      <4>2. more = m.shipped
        BY <3>2 DEF ConfirmDelivery
      <4>3. m.shipped \in Nat
        BY MoveFields DEF MoveRecord
      <4> HIDE DEF m, more
      <4> QED
        BY <4>1, <4>2, <4>3
    <3> QED
      BY <1>12, <3>1, <3>2
  <2> HIDE DEF more
  <2>7. Tally(ConfirmedOf, moves'[r][w]) >= Tally(ConfirmedOf, moves[r][w]) + more
    BY <2>4, <2>5, <1>8
  <2> QED
    BY <2>2, <2>3, <2>5, <2>6, <2>7, <1>6
<1>13. ASSUME \/ \E r \in Requests :
                   \/ Submit(r) \/ Approve(r) \/ ApproveReview(r) \/ Reject(r)
                   \/ RequestRevision(r) \/ ResetToDraft(r) \/ Resubmit(r)
                   \/ Allocate(r) \/ ConfirmAllocation(r)
              \/ \E w \in Warehouses : CountStock(w)
              \/ UNCHANGED vars
       PROVE  delivered' = delivered /\ moves'[s] = moves[s]
  BY <1>13 DEF Submit, Approve, ApproveReview, Reject, RequestRevision, ResetToDraft,
               Resubmit, Decide, Allocate, ConfirmAllocation, CountStock, vars
<1> QED
  BY <1>3, <1>5, <1>9, <1>10, <1>11, <1>12, <1>13, NextCases

\* What was accepted was shipped.
LEMMA ConfirmedGivesShipped == TypeOK /\ DeliveredWasConfirmed => DeliveredWasShipped
<1> SUFFICES ASSUME TypeOK, DeliveredWasConfirmed, NEW r \in Requests
             PROVE  delivered[r] <= Shipped(r)
  BY DEF DeliveredWasShipped
<1>1. ASSUME NEW ms \in Seq(MoveRecord)
      PROVE  /\ Tally(ConfirmedOf, ms) \in Nat /\ ShippedBy(ms) \in Nat
             /\ Tally(ConfirmedOf, ms) <= ShippedBy(ms)
  <2> DEFINE S == 1 .. Len(ms)
             c == [i \in S |-> ConfirmedOf[ms[i]]]
             h == [i \in S |-> ShippedOf[ms[i]]]
  <2>1. IsFiniteSet(S)
    BY FS_Interval
  <2>2. ASSUME NEW i \in S
        PROVE  c[i] \in Int /\ h[i] \in Int /\ c[i] <= h[i]
    <3>1. ms[i] \in MoveRecord
      OBVIOUS
    <3> QED
      BY <3>1 DEF ConfirmedOf, ShippedOf, MoveRecord
  <2>3. /\ Tally(ConfirmedOf, ms) = SumFunctionOnSet(c, S)
        /\ Tally(ShippedOf, ms) = SumFunctionOnSet(h, S)
        /\ Tally(ConfirmedOf, ms) \in Nat /\ Tally(ShippedOf, ms) \in Nat
        /\ ShippedBy(ms) = Tally(ShippedOf, ms)
    BY TallySum, Tallies
  <2> HIDE DEF S, c, h
  <2>4. SumFunctionOnSet(c, S) <= SumFunctionOnSet(h, S)
    BY <2>1, <2>2, SumAtMost
  <2> QED
    BY <2>3, <2>4
<1> DEFINE f == [w \in Warehouses |-> Tally(ConfirmedOf, moves[r][w])]
           g == [w \in Warehouses |-> ShippedBy(moves[r][w])]
<1>2. \A w \in Warehouses : f[w] \in Int /\ g[w] \in Int /\ f[w] <= g[w]
  <2>1. \A w \in Warehouses : moves[r][w] \in Seq(MoveRecord)
    BY DEF TypeOK, AllMoves
  <2> QED
    BY <1>1, <2>1
<1>3. /\ Accepted(moves[r]) = SumFunctionOnSet(f, Warehouses)
      /\ Shipped(r) = SumFunctionOnSet(g, Warehouses)
  BY SumOfFunction DEF Accepted, Shipped
<1> HIDE DEF f, g
<1>4. SumFunctionOnSet(f, Warehouses) <= SumFunctionOnSet(g, Warehouses)
  BY <1>2, SumAtMost, ReliefAssumption
<1>5. SumFunctionOnSet(f, Warehouses) \in Int /\ SumFunctionOnSet(g, Warehouses) \in Int
  BY <1>2, SumInt, ReliefAssumption
<1>6. delivered[r] <= Accepted(moves[r]) /\ delivered[r] \in Int
  BY DEF DeliveredWasConfirmed, TypeOK
<1> QED
  BY <1>3, <1>4, <1>5, <1>6

-----------------------------------------------------------------------------
(* The invariant *)

\* A sum of zeros.
LEMMA ZeroSum ==
    ASSUME NEW S, IsFiniteSet(S), NEW f, DOMAIN f = S, \A x \in S : f[x] = 0
    PROVE  SumFunction(f) = 0
  BY SumOfFunction, SumZero

\* At first nothing is allocated, moved, delivered or promised.
LEMMA InitInv == Init => ReliefInv
<1> SUFFICES ASSUME Init
             PROVE  ReliefInv
  OBVIOUS
<1> DEFINE none == << >>
<1>1. none \in Seq(MoveRecord) /\ Len(none) = 0 /\ DOMAIN none = {}
  OBVIOUS
<1>2. \A r \in Requests, w \in Warehouses :
         /\ moves[r][w] = none
         /\ allocation[r][w] = [allocated |-> 0, dispatched |-> 0]
  BY DEF Init
<1>3. TypeOK
  BY <1>1, ReliefAssumption DEF Init, TypeOK, AllMoves, AllAllocations
<1> HIDE DEF none
<1>4. \A F : Tally(F, none) = 0
  <2> SUFFICES ASSUME NEW F
               PROVE  Tally(F, none) = 0
    OBVIOUS
  <2> DEFINE f == [i \in DOMAIN none |-> F[none[i]]]
  <2>1. DOMAIN f = {} /\ Tally(F, none) = SumFunction(f)
    BY <1>1 DEF Tally
  <2> HIDE DEF f
  <2> QED
    BY <2>1, SumOfFunction, SumEmpty
<1>5. CountersLag
  <2>1. Dispatched(none) = 0
    BY <1>1, <1>4, Tallies
  <2> QED
    BY <1>2, <2>1 DEF CountersLag
<1>6. CountersCover /\ ShortIsSettled
  BY DEF Init, CountersCover, ShortIsSettled
<1>7. PromisedOnce
  <2> SUFFICES ASSUME NEW w \in Warehouses
               PROVE  Promised(w) <= Free(w)
    BY DEF PromisedOnce
  <2>1. Promised(w) = 0
    <3> DEFINE f == [r \in Requests |-> Remaining(allocation[r][w])]
    <3>1. \A r \in Requests : f[r] = 0
      BY <1>2 DEF Remaining, AtLeast0
    <3>2. DOMAIN f = Requests /\ Promised(w) = SumFunction(f)
      BY DEF Promised
    <3> HIDE DEF f
    <3> QED
      BY <3>1, <3>2, ZeroSum, ReliefAssumption
  <2>2. Reserve(moves, w) = 0
    <3> DEFINE f == [r \in Requests |-> ReservedBy(moves[r][w])]
    <3>1. \A r \in Requests : f[r] = 0
      BY <1>1, <1>2, <1>4, Tallies
    <3>2. DOMAIN f = Requests /\ Reserve(moves, w) = SumFunction(f)
      BY DEF Reserve
    <3> HIDE DEF f
    <3> QED
      BY <3>1, <3>2, ZeroSum, ReliefAssumption
  <2>3. onHand[w] \in Nat
    BY ReliefAssumption DEF Init
  <2> QED
    BY <2>1, <2>2, <2>3, <1>3, FreeFacts
<1>8. DeliveredWasConfirmed
  <2> SUFFICES ASSUME NEW r \in Requests
               PROVE  delivered[r] <= Accepted(moves[r])
    BY DEF DeliveredWasConfirmed
  <2> DEFINE f == [w \in Warehouses |-> Tally(ConfirmedOf, moves[r][w])]
  <2>1. \A w \in Warehouses : f[w] = 0
    BY <1>2, <1>4
  <2>2. DOMAIN f = Warehouses /\ Accepted(moves[r]) = SumFunction(f)
    BY DEF Accepted
  <2> HIDE DEF f
  <2>3. Accepted(moves[r]) = 0
    BY <2>1, <2>2, ZeroSum, ReliefAssumption
  <2>4. delivered[r] = 0
    BY DEF Init
  <2> QED
    BY <2>3, <2>4
<1> QED
  BY <1>3, <1>5, <1>6, <1>7, <1>8 DEF ReliefInv

\* The invariant holds in every reachable state.
THEOREM ReliefInvariant == Spec => []ReliefInv
<1>1. Init => ReliefInv
  BY InitInv
<1>2. ReliefInv /\ [Next]_vars => ReliefInv'
  BY TypeStep, CountersStep, CoverageStep, ShortStep, PromiseStep, DeliveryStep
     DEF ReliefInv
<1> QED
  BY <1>1, <1>2, PTL DEF Spec

\* For any requests, warehouses and bounds the counter of an allocation is what
\* its dispatches shipped and still have to ship, however they were split, cut
\* short, cancelled or made again, unless a demand was edited since.
THEOREM CountersAreTrue == Spec => []CountersMatchMoves
<1>1. ReliefInv => CountersMatchMoves
  BY LagGivesMatch DEF ReliefInv
<1> QED
  BY <1>1, ReliefInvariant, PTL

\* For any requests, warehouses and bounds a request with a backorder since its
\* last dispatch reads dispatched only when all it asked for has shipped, and without
\* one its moves cover what it asked for, unless a demand was edited since.
THEOREM DispatchedMeansCovered == Spec => []DispatchedIsCovered
<1>1. ReliefInv => DispatchedIsCovered
  BY CounterGivesMoves DEF ReliefInv
<1> QED
  BY <1>1, ReliefInvariant, PTL

\* What is allocated of a warehouse and not dispatched is free in it, whatever
\* the requests that draw on it, unless the warehouse was marked blind.
THEOREM StockPromisedOnce == Spec => []PromisedOnce
<1>1. ReliefInv => PromisedOnce
  BY DEF ReliefInv
<1> QED
  BY <1>1, ReliefInvariant, PTL

\* No request has more delivered than its dispatches shipped.
THEOREM DeliveredIsShipped == Spec => []DeliveredWasShipped
<1>1. ReliefInv => DeliveredWasShipped
  BY ConfirmedGivesShipped DEF ReliefInv
<1> QED
  BY <1>1, ReliefInvariant, PTL

=============================================================================
