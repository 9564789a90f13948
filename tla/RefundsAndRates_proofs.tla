----------------------- MODULE RefundsAndRates_proofs ------------------------
(***************************************************************************)
(* The invariants of Refunds hold for any amount and any finite number of  *)
(* concurrent refunds, those of RateLimiter for any rate, any length of a  *)
(* second and any number of replicas.  The total that                      *)
(* get_total_refunded_minor_units sums up is a fold over the table, so the *)
(* first part shows what such a sum does when one row changes.  Induction  *)
(* is on the finite subsets of the table, as a set of subsets closed under *)
(* the induction step.                                                     *)
(***************************************************************************)
EXTENDS Refunds, RateLimiter, FiniteSetTheorems, TLAPS

Picked(s) == CHOOSE x \in s : TRUE

(* g holds the sum of f over every subset of s, by the recursion that      *)
(* SumFunction unfolds to.                                                 *)
Sums(f, s, g) ==
    /\ g \in [SUBSET s -> Int]
    /\ \A t \in SUBSET s :
          g[t] = IF t = {} THEN 0 ELSE f[Picked(t)] + g[t \ {Picked(t)}]

(* A set of subsets of D is all of them if it contains each whose proper   *)
(* subsets it contains.                                                    *)
LEMMA SubsetInduction ==
    ASSUME NEW D, IsFiniteSet(D), NEW Good \in SUBSET (SUBSET D),
           \A s \in SUBSET D : (\A t \in SUBSET s : t # s => t \in Good) => s \in Good
    PROVE  Good = SUBSET D
<1> DEFINE Bad == (SUBSET D) \ Good
           R == StrictSubsetOrdering(D)
<1> SUFFICES ASSUME Bad # {} PROVE FALSE
  OBVIOUS
<1>1. IsWellFoundedOn(R, SUBSET D)
  <2>1. IsWellFoundedOn(StrictSubsetOrdering(D), FiniteSubsetsOf(D))
    BY FS_StrictSubsetOrderingWellFounded
  <2>2. FiniteSubsetsOf(D) = SUBSET D
    BY FS_FiniteSubsetsOfFinite
  <2> QED
    BY <2>1, <2>2
<1>2. Bad \subseteq SUBSET D
  OBVIOUS
<1>3. PICK s \in Bad : \A t \in Bad : ~(<<t, s>> \in R)
  <2> HIDE DEF Bad, R
  <2> QED
    BY <1>1, <1>2, WFMin
<1>4. ASSUME NEW t \in SUBSET s, t # s PROVE t \in Good
  <2>1. t \in SUBSET D /\ s \in SUBSET D
    BY <1>3
  <2>2. <<t, s>> \in R
    BY <1>4, <2>1 DEF StrictSubsetOrdering
  <2> QED
    BY <1>3, <2>1, <2>2
<1> QED
  BY <1>3, <1>4

(* A non-empty set has its picked element, and is larger without it. *)
LEMMA PickedIsIn ==
    ASSUME NEW s, s # {}
    PROVE  Picked(s) \in s /\ s \ {Picked(s)} \in SUBSET s /\ s \ {Picked(s)} # s
BY DEF Picked

(* The recursion determines the sums. *)
LEMMA SumsAgree ==
    ASSUME NEW D, IsFiniteSet(D), NEW f \in [D -> Int],
           NEW a \in SUBSET D, NEW b \in SUBSET D,
           NEW g, Sums(f, a, g), NEW h, Sums(f, b, h)
    PROVE  \A u \in SUBSET (a \intersect b) : g[u] = h[u]
<1> DEFINE Good == {u \in SUBSET D : u \subseteq a \intersect b => g[u] = h[u]}
<1>1. ASSUME NEW s \in SUBSET D, \A t \in SUBSET s : t # s => t \in Good
      PROVE  s \in Good
  <2> SUFFICES ASSUME s \subseteq a \intersect b PROVE g[s] = h[s]
    OBVIOUS
  <2>1. s \in SUBSET a /\ s \in SUBSET b
    OBVIOUS
  <2>2. CASE s = {}
    BY <2>1, <2>2 DEF Sums
  <2>3. CASE s # {}
    <3> DEFINE u == s \ {Picked(s)}
    <3>1. u \in SUBSET s /\ u # s
      BY <2>3, PickedIsIn
    <3>2. g[u] = h[u]
      BY <1>1, <3>1
    <3>3. g[s] = f[Picked(s)] + g[u] /\ h[s] = f[Picked(s)] + h[u]
      BY <2>1, <2>3 DEF Sums
    <3> QED
      BY <3>2, <3>3
  <2> QED
    BY <2>2, <2>3
<1>2. Good = SUBSET D
  <2> HIDE DEF Good
  <2>1. Good \in SUBSET (SUBSET D)
    BY DEF Good
  <2> QED
    BY <1>1, <2>1, SubsetInduction
<1> QED
  BY <1>2

(* The recursion has a solution. *)
LEMMA SumsExist ==
    ASSUME NEW D, IsFiniteSet(D), NEW f \in [D -> Int]
    PROVE  \E g : Sums(f, D, g)
<1> DEFINE Good == {s \in SUBSET D : \E g : Sums(f, s, g)}
<1>1. ASSUME NEW s \in SUBSET D, \A t \in SUBSET s : t # s => t \in Good
      PROVE  \E g : Sums(f, s, g)
  <2> DEFINE G(t) == CHOOSE g : Sums(f, t, g)
             last == f[Picked(s)] + G(s \ {Picked(s)})[s \ {Picked(s)}]
             h == [t \in SUBSET s |-> IF t = {} THEN 0
                                      ELSE IF t = s THEN last ELSE G(t)[t]]
  <2>1. ASSUME NEW t \in SUBSET s, t # s PROVE Sums(f, t, G(t))
    BY <1>1, <2>1
  <2>2. ASSUME NEW t \in SUBSET s, t # s PROVE G(t)[t] \in Int
    BY <2>1, <2>2 DEF Sums
  <2>3. G({}) [{}] = 0 \/ s = {}
    BY <2>1 DEF Sums
  <2> HIDE DEF G
  <2>4. ASSUME s # {} PROVE last \in Int /\ Picked(s) \in D
    <3>1. Picked(s) \in s /\ s \ {Picked(s)} \in SUBSET s /\ s \ {Picked(s)} # s
      BY <2>4, PickedIsIn
    <3> QED
      BY <2>2, <3>1
  <2> HIDE DEF last
  <2>5. h \in [SUBSET s -> Int]
    BY <2>2, <2>4
  <2>6. ASSUME NEW t \in SUBSET s, t # {}
        PROVE  h[t] = f[Picked(t)] + h[t \ {Picked(t)}]
    <3> DEFINE u == t \ {Picked(t)}
    <3>1. u \in SUBSET t /\ u \in SUBSET s /\ u # t /\ u # s
      BY <2>6, PickedIsIn
    <3>2. h[u] = G(u)[u]
      BY <2>3, <3>1
    <3>3. CASE t = s
      BY <2>6, <3>2, <3>3 DEF last
    <3>4. CASE t # s
      <4>1. Sums(f, t, G(t)) /\ Sums(f, u, G(u))
        BY <2>1, <3>1, <3>4
      <4>2. t \in SUBSET D /\ u \in SUBSET D /\ u \in SUBSET (t \intersect u)
        BY <3>1
      <4>3. \A w \in SUBSET (t \intersect u) : G(t)[w] = G(u)[w]
        BY <4>1, <4>2, SumsAgree
      <4>4. G(t)[u] = G(u)[u]
        BY <4>2, <4>3
      <4>5. G(t)[t] = f[Picked(t)] + G(t)[u]
        BY <2>6, <4>1 DEF Sums
      <4> QED
        BY <2>6, <3>2, <3>4, <4>4, <4>5
    <3> QED
      BY <3>3, <3>4
  <2>7. h[{}] = 0
    OBVIOUS
  <2> HIDE DEF h
  <2>8. Sums(f, s, h)
    BY <2>5, <2>6, <2>7 DEF Sums
  <2> QED
    BY <2>8
<1>2. Good = SUBSET D
  <2>1. Good \in SUBSET (SUBSET D) /\ \A s \in SUBSET D :
            (\A t \in SUBSET s : t # s => t \in Good) => s \in Good
    BY <1>1
  <2> HIDE DEF Good
  <2> QED
    BY <2>1, SubsetInduction
<1> QED
  BY <1>2

(* SumFunction is the recursion's value on the whole domain. *)
LEMMA SumUnfolds ==
    ASSUME NEW D, IsFiniteSet(D), NEW f \in [D -> Int]
    PROVE  \E g : Sums(f, D, g) /\ SumFunction(f) = g[D]
<1> DEFINE Step(g) == [s \in SUBSET D |-> IF s = {} THEN 0
                            ELSE LET x == CHOOSE x \in s : TRUE
                                 IN  f[x] + g[s \ {x}]]
           c == CHOOSE g : g = Step(g)
<1>1. DOMAIN f = D
  OBVIOUS
<1>2. SumFunction(f) = c[D]
  BY <1>1 DEF SumFunction, SumFunctionOnSet, FoldFunctionOnSet, MapThenFoldSet
<1>3. PICK g : Sums(f, D, g)
  BY SumsExist
<1>4. g = Step(g)
  BY <1>3 DEF Sums, Picked
<1>5. c = Step(c)
  BY <1>4
<1>6. \A t \in SUBSET D : c[t] = IF t = {} THEN 0 ELSE f[Picked(t)] + c[t \ {Picked(t)}]
  BY <1>5 DEF Picked
<1> DEFINE Good == {s \in SUBSET D : c[s] = g[s]}
<1> HIDE DEF c
<1>7. ASSUME NEW s \in SUBSET D, \A t \in SUBSET s : t # s => t \in Good
      PROVE  s \in Good
  <2>1. CASE s = {}
    BY <1>3, <1>6, <2>1 DEF Sums
  <2>2. CASE s # {}
    <3>1. c[s \ {Picked(s)}] = g[s \ {Picked(s)}]
      BY <1>7, <2>2, PickedIsIn
    <3> QED
      BY <1>3, <1>6, <2>2, <3>1 DEF Sums
  <2> QED
    BY <2>1, <2>2
<1>8. Good = SUBSET D
  <2>1. Good \in SUBSET (SUBSET D)
    OBVIOUS
  <2> HIDE DEF Good
  <2> QED
    BY <1>7, <2>1, SubsetInduction
<1> QED
  BY <1>2, <1>3, <1>8

(* Changing one term changes the sum by the difference. *)
LEMMA SumUpdate ==
    ASSUME NEW D, IsFiniteSet(D), NEW f \in [D -> Int], NEW x \in D, NEW v \in Int,
           NEW f2 \in [D -> Int], f2[x] = v, \A y \in D \ {x} : f2[y] = f[y]
    PROVE  /\ SumFunction(f) \in Int
           /\ SumFunction(f2) = SumFunction(f) + v - f[x]
<1>1. PICK g : Sums(f, D, g) /\ SumFunction(f) = g[D]
  BY SumUnfolds
<1>2. PICK h : Sums(f2, D, h) /\ SumFunction(f2) = h[D]
  BY SumUnfolds
<1> DEFINE Good == {s \in SUBSET D : h[s] = IF x \in s THEN g[s] + v - f[x] ELSE g[s]}
<1>3. ASSUME NEW s \in SUBSET D, \A t \in SUBSET s : t # s => t \in Good
      PROVE  s \in Good
  <2>1. CASE s = {}
    BY <1>1, <1>2, <2>1 DEF Sums
  <2>2. CASE s # {}
    <3> DEFINE y == Picked(s)
               u == s \ {y}
    <3>1. y \in s /\ u \in SUBSET s /\ u # s /\ u \in SUBSET D /\ y \in D
      BY <2>2, PickedIsIn
    <3>2. h[u] = IF x \in u THEN g[u] + v - f[x] ELSE g[u]
      BY <1>3, <3>1
    <3>3. g[s] = f[y] + g[u] /\ h[s] = f2[y] + h[u]
      BY <1>1, <1>2, <2>2 DEF Sums
    <3>4. g[u] \in Int /\ f[y] \in Int /\ f[x] \in Int
      BY <1>1, <3>1 DEF Sums
    <3>5. (x \in u <=> x \in s /\ x # y) /\ (y # x => f2[y] = f[y])
      BY <3>1
    <3> HIDE DEF y, u
    <3>6. CASE x = y
      BY <3>1, <3>2, <3>3, <3>4, <3>5, <3>6
    <3>7. CASE x # y
      BY <3>1, <3>2, <3>3, <3>4, <3>5, <3>7
    <3> QED
      BY <3>6, <3>7
  <2> QED
    BY <2>1, <2>2
<1>4. Good = SUBSET D
  <2>1. Good \in SUBSET (SUBSET D)
    OBVIOUS
  <2> HIDE DEF Good
  <2> QED
    BY <1>3, <2>1, SubsetInduction
<1> QED
  BY <1>1, <1>2, <1>4 DEF Sums

(* A sum of natural numbers is one, and a sum of zeros is zero. *)
LEMMA SumIsNat ==
    ASSUME NEW D, IsFiniteSet(D), NEW f \in [D -> Nat]
    PROVE  /\ SumFunction(f) \in Nat
           /\ (\A x \in D : f[x] = 0) => SumFunction(f) = 0
<1>1. PICK g : Sums(f, D, g) /\ SumFunction(f) = g[D]
  BY SumUnfolds
<1> DEFINE Zero == \A x \in D : f[x] = 0
           Good == {s \in SUBSET D : g[s] \in Nat /\ (Zero => g[s] = 0)}
<1>2. ASSUME NEW s \in SUBSET D, \A t \in SUBSET s : t # s => t \in Good
      PROVE  s \in Good
  <2>1. CASE s = {}
    <3>1. g[s] = 0
      BY <1>1, <2>1 DEF Sums
    <3> QED
      BY <3>1
  <2>2. CASE s # {}
    <3> DEFINE y == Picked(s)
               u == s \ {y}
    <3>1. y \in s /\ u \in SUBSET s /\ u # s /\ y \in D
      BY <2>2, PickedIsIn
    <3>2. g[u] \in Nat /\ (Zero => g[u] = 0)
      BY <1>2, <3>1
    <3>3. g[s] = f[y] + g[u]
      BY <1>1, <2>2 DEF Sums
    <3>4. f[y] \in Nat /\ (Zero => f[y] = 0)
      BY <3>1
    <3> HIDE DEF y, u, Zero
    <3> QED
      BY <3>2, <3>3, <3>4
  <2> QED
    BY <2>1, <2>2
<1>3. Good = SUBSET D
  <2>1. Good \in SUBSET (SUBSET D)
    OBVIOUS
  <2> HIDE DEF Good
  <2> QED
    BY <1>2, <2>1, SubsetInduction
<1> QED
  BY <1>1, <1>3

------------------------------------------------------------------------------
(* Refunds.                                                                *)

(* A call that has not ended has written no row. *)
RowsAreFinal == \A f \in Calls : call[f].at # "done" => refunds[f] = NoRefund

(* From the status check to its end, a call finds the payment paid; so     *)
(* does any money that has flowed back.                                    *)
CallsFindPaid ==
    paid > 0 \/ (\E f \in Calls : call[f].at \in {"read", "calling", "answered"})
        => status \in {"Succeeded", "PartiallyRefunded", "Refunded"}

(* As long as refunds are serial: one call at a time is between the        *)
(* balance check and the record, the total it has read is still current,   *)
(* and the provider has paid what the table and the call's progress say.   *)
OneAtATime ==
    serial =>
        /\ \A f, g \in InFlight : f = g
        /\ InFlight = {} => paid = TotalRefunded(refunds)
        /\ \A f \in InFlight :
              /\ call[f].amount > 0
              /\ call[f].prev = TotalRefunded(refunds)
              /\ call[f].at = "calling" => paid = call[f].prev
              /\ call[f].at = "answered" =>
                    call[f].result = "succeeded" /\ paid = call[f].prev + call[f].amount

(* As long as refunds are serial, the status follows the table's total. *)
StatusFollowsTotal ==
    serial =>
        /\ TotalRefunded(refunds) <= Total
        /\ status = "Refunded" <=> TotalRefunded(refunds) = Total
        /\ status = "PartiallyRefunded" <=> TotalRefunded(refunds) \in 1 .. (Total - 1)

RefundsIInv ==
    /\ TypeOK
    /\ RowsAreFinal
    /\ CallsFindPaid
    /\ StatusHasRefund
    /\ OneAtATime
    /\ StatusFollowsTotal

(* What get_total_refunded_minor_units returns: a natural number, nothing  *)
(* on an empty table, and with the row of one more refund its amount more  *)
(* if it succeeded.                                                        *)
LEMMA TotalIsNat ==
    ASSUME NEW rows \in [Calls -> Refund]
    PROVE  /\ TotalRefunded(rows) \in Nat
           /\ (\A f \in Calls : rows[f] = NoRefund) => TotalRefunded(rows) = 0
<1> DEFINE F == [f \in Calls |-> IF rows[f].status = "succeeded" THEN rows[f].amount ELSE 0]
<1>1. F \in [Calls -> Nat]
  BY RefundsAssumption DEF Refund
<1>2. (\A f \in Calls : rows[f] = NoRefund) => \A f \in Calls : F[f] = 0
  BY DEF NoRefund
<1>3. IsFiniteSet(Calls)
  BY RefundsAssumption
<1>4. TotalRefunded(rows) = SumFunction(F)
  BY DEF TotalRefunded
<1> HIDE DEF F
<1>5. /\ SumFunction(F) \in Nat
      /\ (\A x \in Calls : F[x] = 0) => SumFunction(F) = 0
  BY <1>1, <1>3, SumIsNat
<1> QED
  BY <1>2, <1>4, <1>5

(* A new refund adds its amount to the total if it succeeded, and nothing  *)
(* otherwise.                                                              *)
LEMMA TotalGrows ==
    ASSUME NEW rows \in [Calls -> Refund], NEW f \in Calls, rows[f] = NoRefund,
           NEW r \in Refund
    PROVE  TotalRefunded([rows EXCEPT ![f] = r]) =
              IF r.status = "succeeded" THEN TotalRefunded(rows) + r.amount
              ELSE TotalRefunded(rows)
<1> DEFINE rows2 == [rows EXCEPT ![f] = r]
           F == [h \in Calls |-> IF rows[h].status = "succeeded" THEN rows[h].amount ELSE 0]
           F2 == [h \in Calls |-> IF rows2[h].status = "succeeded" THEN rows2[h].amount ELSE 0]
           v == IF r.status = "succeeded" THEN r.amount ELSE 0
<1>1. F \in [Calls -> Int] /\ F2 \in [Calls -> Int] /\ v \in Int
  BY RefundsAssumption DEF Refund
<1>2. F[f] = 0 /\ F2[f] = v /\ \A y \in Calls \ {f} : F2[y] = F[y]
  BY DEF NoRefund
<1>3. IsFiniteSet(Calls)
  BY RefundsAssumption
<1>4. TotalRefunded(rows) = SumFunction(F) /\ TotalRefunded(rows2) = SumFunction(F2)
  BY DEF TotalRefunded
<1> HIDE DEF F, F2, rows2
<1>5. SumFunction(F) \in Int /\ SumFunction(F2) = SumFunction(F) + v - F[f]
  <2> HIDE DEF v
  <2> QED
    BY <1>1, <1>2, <1>3, SumUpdate
<1>6. r.amount \in Int
  BY RefundsAssumption DEF Refund
<1>7. TotalRefunded(rows2) = TotalRefunded(rows) + v
  BY <1>1, <1>2, <1>4, <1>5
<1> QED
  BY <1>1, <1>4, <1>5, <1>6, <1>7 DEF rows2

(* A payment starts with an empty refunds table. *)
LEMMA RefundsInitInv == Init => RefundsIInv
<1> SUFFICES ASSUME Init PROVE RefundsIInv
  OBVIOUS
<1>1. TypeOK
  BY RefundsAssumption DEF Init, TypeOK, Refund, NoRefund, Call, Results, Statuses
<1>2. refunds \in [Calls -> Refund] /\ \A f \in Calls : refunds[f] = NoRefund
  BY <1>1 DEF Init, TypeOK
<1>3. TotalRefunded(refunds) = 0
  BY <1>2, TotalIsNat
<1>4. InFlight = {}
  BY DEF Init, InFlight
<1>5. RowsAreFinal /\ CallsFindPaid /\ StatusHasRefund
  BY DEF Init, RowsAreFinal, CallsFindPaid, StatusHasRefund
<1>6. OneAtATime /\ StatusFollowsTotal
  BY <1>3, <1>4, RefundsAssumption DEF Init, OneAtATime, StatusFollowsTotal
<1> QED
  BY <1>1, <1>5, <1>6 DEF RefundsIInv

(* Every step keeps the types: a call never reads a total that leaves no   *)
(* room for what it sends.                                                 *)
LEMMA RefundsStepTypes ==
    ASSUME TypeOK, Next
    PROVE  TypeOK'
<1> USE RefundsAssumption DEF TypeOK
<1>1. ASSUME NEW f \in Calls, ReadPayment(f) PROVE TypeOK'
  BY <1>1 DEF ReadPayment, Call
<1>2. ASSUME NEW f \in Calls, NEW amount \in 0 .. Total, CheckBalance(f, amount)
      PROVE  TypeOK'
  <2>1. TotalRefunded(refunds) \in Nat
    BY TotalIsNat
  <2>2. /\ call' = [call EXCEPT ![f] = [at |-> "calling", amount |-> amount,
                            prev |-> TotalRefunded(refunds), result |-> "failed"]]
        /\ amount <= Total - TotalRefunded(refunds)
        /\ serial' = (serial /\ InFlight = {})
        /\ UNCHANGED <<status, refunds, paid>>
    BY <1>2 DEF CheckBalance, Fits
  <2>3. TotalRefunded(refunds) + amount <= Total
    BY <2>1, <2>2
  <2>4. call' \in [Calls -> Call]
    BY <2>1, <2>2 DEF Call, Results
  <2>5. \A g \in Calls : call'[g].prev + call'[g].amount <= Total
    BY <2>2, <2>3 DEF Call
  <2> QED
    BY <2>2, <2>4, <2>5
<1>3. ASSUME NEW f \in Calls, ProviderRefunds(f) PROVE TypeOK'
  <2>1. PICK result \in Results :
          /\ call' = [call EXCEPT ![f].at = "answered", ![f].result = result]
          /\ paid' = IF result = "failed" THEN paid ELSE paid + call[f].amount
          /\ serial' = (serial /\ result = "succeeded")
    BY <1>3 DEF ProviderRefunds
  <2>2. UNCHANGED <<status, refunds>>
    BY <1>3 DEF ProviderRefunds
  <2>3. call' \in [Calls -> Call]
    BY <2>1 DEF Call
  <2>4. \A g \in Calls : call'[g].prev + call'[g].amount <= Total
    BY <2>1 DEF Call
  <2>5. paid' \in Nat
    BY <2>1 DEF Call
  <2>6. serial' \in BOOLEAN
    BY <2>1, Zenon
  <2> QED
    BY <2>2, <2>3, <2>4, <2>5, <2>6
<1>4. ASSUME NEW f \in Calls, InsertRefund(f) PROVE refunds' \in [Calls -> Refund]
  BY <1>4 DEF InsertRefund, Refund, Call
<1>5. ASSUME NEW f \in Calls, Finish(f)
      PROVE  /\ call' \in [Calls -> Call]
             /\ \A g \in Calls : call'[g].prev + call'[g].amount <= Total
  BY <1>5 DEF Finish, Call
<1>6. ASSUME NEW f \in Calls, RecordRefund(f) PROVE TypeOK'
  BY <1>4, <1>5, <1>6 DEF RecordRefund, NewStatus, Statuses
<1>7. ASSUME NEW f \in Calls, RecordTorn(f) PROVE TypeOK'
  BY <1>4, <1>5, <1>7 DEF RecordTorn
<1>8. ASSUME NEW f \in Calls, Abandon(f) PROVE TypeOK'
  <2>1. paid' \in Nat
    BY <1>8 DEF Abandon, Call
  <2> QED
    BY <1>5, <1>8, <2>1 DEF Abandon
<1>9. ASSUME NEW s \in {"Succeeded", "Failed", "Unknown"}, Report(s) PROVE TypeOK'
  BY <1>9 DEF Report, Statuses
<1> QED
  BY <1>1, <1>2, <1>3, <1>6, <1>7, <1>8, <1>9 DEF Next

(* A refund that is recorded leaves a row; nothing removes one. *)
LEMMA RefundsStepRows ==
    ASSUME TypeOK, TypeOK', RowsAreFinal, StatusHasRefund, Next
    PROVE  RowsAreFinal' /\ StatusHasRefund'
<1> USE DEF TypeOK
<1>1. ASSUME NEW f \in Calls, UNCHANGED refunds,
             \A g \in Calls : g # f => call'[g] = call[g],
             call[f].at # "done" \/ call'[f].at = "done"
      PROVE  RowsAreFinal'
  BY <1>1 DEF RowsAreFinal
<1>2. ASSUME NEW f \in Calls, InsertRefund(f), Finish(f), call[f].at = "answered"
      PROVE  RowsAreFinal' /\ \E g \in Calls : refunds'[g].status # "none"
  <2>1. refunds'[f].status \in Results /\ call'[f].at = "done"
    BY <1>2 DEF InsertRefund, Finish, Call
  <2>2. \A g \in Calls : g # f => call'[g] = call[g] /\ refunds'[g] = refunds[g]
    BY <1>2 DEF InsertRefund, Finish
  <2> QED
    BY <2>1, <2>2 DEF RowsAreFinal, Results
<1>3. ASSUME NEW f \in Calls,
             ReadPayment(f) \/ (\E a \in 0 .. Total : CheckBalance(f, a)) \/ ProviderRefunds(f)
               \/ Abandon(f)
      PROVE  RowsAreFinal' /\ StatusHasRefund'
  <2>1. UNCHANGED <<status, refunds>> /\ call[f].at # "done"
    BY <1>3 DEF ReadPayment, CheckBalance, ProviderRefunds, Abandon
  <2>2. \A g \in Calls : g # f => call'[g] = call[g]
    BY <1>3 DEF ReadPayment, CheckBalance, ProviderRefunds, Abandon, Finish
  <2> QED
    BY <1>1, <2>1, <2>2 DEF StatusHasRefund
<1>4. ASSUME NEW f \in Calls, RecordRefund(f) \/ RecordTorn(f)
      PROVE  RowsAreFinal' /\ StatusHasRefund'
  BY <1>2, <1>4 DEF RecordRefund, RecordTorn, StatusHasRefund
<1>5. ASSUME NEW s \in {"Succeeded", "Failed", "Unknown"}, Report(s)
      PROVE  RowsAreFinal' /\ StatusHasRefund'
  BY <1>5 DEF Report, RowsAreFinal, StatusHasRefund
<1> QED
  BY <1>3, <1>4, <1>5 DEF Next

(* No report takes a paid payment back, and no call reaches the provider   *)
(* before the payment was paid.                                            *)
LEMMA RefundsStepPaid ==
    ASSUME TypeOK, TypeOK', CallsFindPaid, Next
    PROVE  CallsFindPaid'
<1> DEFINE Paid == {"Succeeded", "PartiallyRefunded", "Refunded"}
           Busy == {"read", "calling", "answered"}
<1> USE DEF TypeOK
<1>1. ASSUME NEW f \in Calls, ReadPayment(f) PROVE CallsFindPaid'
  BY <1>1 DEF ReadPayment, CallsFindPaid, Refundable
<1>2. ASSUME NEW f \in Calls, call[f].at \in Busy, status' \in Paid
      PROVE  CallsFindPaid'
  BY <1>2 DEF CallsFindPaid
<1>3. ASSUME NEW f \in Calls,
             \/ \E a \in 0 .. Total : CheckBalance(f, a)
             \/ ProviderRefunds(f) \/ RecordTorn(f) \/ Abandon(f)
      PROVE  CallsFindPaid'
  <2>1. call[f].at \in Busy /\ UNCHANGED status
    BY <1>3 DEF CheckBalance, ProviderRefunds, RecordTorn, Abandon
  <2>2. status \in Paid
    BY <2>1 DEF CallsFindPaid
  <2> QED
    BY <1>2, <2>1, <2>2
<1>4. ASSUME NEW f \in Calls, RecordRefund(f) PROVE CallsFindPaid'
  BY <1>2, <1>4 DEF RecordRefund, NewStatus
<1>5. ASSUME NEW s \in {"Succeeded", "Failed", "Unknown"}, Report(s)
      PROVE  CallsFindPaid'
  BY <1>5 DEF Report, ValidTransition, CallsFindPaid
<1> QED
  BY <1>1, <1>3, <1>4, <1>5 DEF Next

(* While refunds are serial, the one call in flight holds the table's      *)
(* current total, so the status it writes is the right one.                *)
LEMMA RefundsStepSerial ==
    ASSUME RefundsIInv, TypeOK', Next
    PROVE  OneAtATime' /\ StatusFollowsTotal'
<1> DEFINE T == TotalRefunded(refunds)
<1> USE DEF RefundsIInv
<1> SUFFICES ASSUME serial' PROVE OneAtATime' /\ StatusFollowsTotal'
  BY DEF OneAtATime, StatusFollowsTotal
<1>1. T \in Nat
  BY TotalIsNat DEF TypeOK
<1>2. \A f \in Calls : call[f].amount \in Nat /\ call[f].prev \in Nat
  BY RefundsAssumption DEF TypeOK, Call
<1>3. paid \in Nat /\ Total \in Nat \ {0}
  BY RefundsAssumption DEF TypeOK
<1>4. ASSUME UNCHANGED <<status, refunds>>, serial
      PROVE  StatusFollowsTotal'
  BY <1>4 DEF StatusFollowsTotal, TotalRefunded
<1>5. ASSUME NEW f \in Calls, ReadPayment(f) PROVE OneAtATime' /\ StatusFollowsTotal'
  <2>1. serial /\ UNCHANGED <<status, refunds, paid>>
    BY <1>5 DEF ReadPayment
  <2>2. /\ InFlight' = InFlight
        /\ \A g \in InFlight : call'[g] = call[g]
    BY <1>5 DEF ReadPayment, InFlight, TypeOK
  <2>3. TotalRefunded(refunds)' = T
    BY <2>1 DEF TotalRefunded
  <2> QED
    BY <1>4, <2>1, <2>2, <2>3 DEF OneAtATime
<1>6. ASSUME NEW f \in Calls, NEW a \in 0 .. Total, CheckBalance(f, a)
      PROVE  OneAtATime' /\ StatusFollowsTotal'
  <2>1. serial /\ InFlight = {} /\ UNCHANGED <<status, refunds, paid>> /\ a > 0
    BY <1>6 DEF CheckBalance, Fits
  <2>2. /\ \A g \in Calls : g # f => call'[g] = call[g]
        /\ call'[f] = [at |-> "calling", amount |-> a, prev |-> T, result |-> "failed"]
    BY <1>6 DEF CheckBalance, TypeOK
  <2>3. InFlight' = {f}
    BY <2>1, <2>2 DEF InFlight
  <2>4. TotalRefunded(refunds)' = T /\ paid = T
    BY <2>1 DEF TotalRefunded, OneAtATime
  <2> QED
    BY <1>4, <2>1, <2>2, <2>3, <2>4 DEF OneAtATime
<1>7. ASSUME NEW f \in Calls, ProviderRefunds(f)
      PROVE  OneAtATime' /\ StatusFollowsTotal'
  <2>1. PICK result \in Results :
          /\ call' = [call EXCEPT ![f].at = "answered", ![f].result = result]
          /\ paid' = IF result = "failed" THEN paid ELSE paid + call[f].amount
          /\ serial' = (serial /\ result = "succeeded")
    BY <1>7 DEF ProviderRefunds
  <2>2. serial /\ result = "succeeded" /\ UNCHANGED <<status, refunds>>
        /\ call[f].at = "calling" /\ f \in InFlight
    BY <1>7, <2>1 DEF ProviderRefunds, InFlight
  <2>3. InFlight = {f}
    BY <2>2 DEF OneAtATime
  <2>4. /\ InFlight' = {f}
        /\ call'[f] = [call[f] EXCEPT !.at = "answered", !.result = result]
    BY <2>1, <2>3 DEF InFlight, TypeOK
  <2>5. /\ call'[f].at = "answered" /\ call'[f].result = "succeeded"
        /\ call'[f].amount = call[f].amount /\ call'[f].prev = call[f].prev
    BY <2>2, <2>4 DEF TypeOK, Call
  <2>6. paid' = call[f].prev + call[f].amount /\ call[f].amount > 0 /\ call[f].prev = T
    BY <2>1, <2>2 DEF OneAtATime
  <2>7. TotalRefunded(refunds)' = T
    BY <2>2 DEF TotalRefunded
  <2> QED
    BY <1>4, <2>2, <2>4, <2>5, <2>6, <2>7 DEF OneAtATime
<1>8. ASSUME NEW f \in Calls, RecordRefund(f)
      PROVE  OneAtATime' /\ StatusFollowsTotal'
  <2> DEFINE amount == call[f].amount
             r == [amount |-> amount, status |-> call[f].result]
  <2>1. /\ serial /\ call[f].at = "answered" /\ f \in InFlight /\ UNCHANGED paid
        /\ refunds' = [refunds EXCEPT ![f] = r]
        /\ status' = NewStatus(call[f].prev + amount)
        /\ call' = [call EXCEPT ![f].at = "done"]
    BY <1>8 DEF RecordRefund, InsertRefund, Finish, InFlight
  <2>2. /\ InFlight = {f} /\ call[f].result = "succeeded" /\ amount > 0
        /\ call[f].prev = T /\ paid = T + amount
    BY <2>1 DEF OneAtATime
  <2>3. InFlight' = {}
    BY <2>1, <2>2 DEF InFlight, TypeOK
  <2>4. refunds[f] = NoRefund /\ refunds \in [Calls -> Refund] /\ r \in Refund
    BY <2>1 DEF RowsAreFinal, TypeOK, Refund, Call
  <2>5. TotalRefunded(refunds') = T + amount
    BY <2>1, <2>2, <2>4, TotalGrows
  <2>6. TotalRefunded(refunds)' = T + amount
    BY <2>5 DEF TotalRefunded
  <2>7. T + amount <= Total
    BY <2>2 DEF TypeOK
  <2>8. OneAtATime'
    BY <2>1, <2>2, <2>3, <2>6 DEF OneAtATime
  <2>9. StatusFollowsTotal'
    BY <1>1, <1>2, <1>3, <2>1, <2>2, <2>6, <2>7 DEF StatusFollowsTotal, NewStatus
  <2> QED
    BY <2>8, <2>9
<1>9. ASSUME NEW f \in Calls, Abandon(f)
      PROVE  OneAtATime' /\ StatusFollowsTotal'
  <2>1. serial /\ call[f].at = "read" /\ UNCHANGED <<status, refunds, paid>>
        /\ call' = [call EXCEPT ![f].at = "done"]
    BY <1>9 DEF Abandon, Finish
  <2>2. /\ InFlight' = InFlight
        /\ \A g \in InFlight : call'[g] = call[g]
    BY <2>1 DEF InFlight, TypeOK
  <2>3. TotalRefunded(refunds)' = T
    BY <2>1 DEF TotalRefunded
  <2> QED
    BY <1>4, <2>1, <2>2, <2>3 DEF OneAtATime
<1>10. ASSUME NEW s \in {"Succeeded", "Failed", "Unknown"}, Report(s)
       PROVE  OneAtATime' /\ StatusFollowsTotal'
  <2>1. serial /\ UNCHANGED <<refunds, call, paid>>
    BY <1>10 DEF Report
  <2>2. InFlight' = InFlight /\ TotalRefunded(refunds)' = T
    BY <2>1 DEF InFlight, TotalRefunded
  <2>3. status \notin {"Refunded", "PartiallyRefunded"}
        /\ status' \notin {"Refunded", "PartiallyRefunded"}
    BY <1>10 DEF Report, ValidTransition
  <2> QED
    BY <2>1, <2>2, <2>3 DEF OneAtATime, StatusFollowsTotal
<1>11. ASSUME NEW f \in Calls, RecordTorn(f) PROVE FALSE
  BY <1>11 DEF RecordTorn
<1> QED
  BY <1>5, <1>6, <1>7, <1>8, <1>9, <1>10, <1>11 DEF Next

(* The invariant holds in every reachable state. *)
LEMMA RefundsAlwaysIInv == Spec => []RefundsIInv
<1>1. ASSUME RefundsIInv, [Next]_vars PROVE RefundsIInv'
  <2>1. CASE Next
    <3>1. TypeOK'
      BY <1>1, <2>1, RefundsStepTypes DEF RefundsIInv
    <3>2. RowsAreFinal' /\ StatusHasRefund'
      BY <1>1, <2>1, <3>1, RefundsStepRows DEF RefundsIInv
    <3>3. CallsFindPaid'
      BY <1>1, <2>1, <3>1, RefundsStepPaid DEF RefundsIInv
    <3>4. OneAtATime' /\ StatusFollowsTotal'
      BY <1>1, <2>1, <3>1, RefundsStepSerial
    <3> QED
      BY <3>1, <3>2, <3>3, <3>4 DEF RefundsIInv
  <2>2. CASE UNCHANGED vars
    <3> USE <1>1, <2>2 DEF RefundsIInv, vars
    <3>1. TypeOK' /\ RowsAreFinal' /\ CallsFindPaid' /\ StatusHasRefund'
      BY DEF TypeOK, RowsAreFinal, CallsFindPaid, StatusHasRefund
    <3>2. InFlight' = InFlight /\ TotalRefunded(refunds)' = TotalRefunded(refunds)
      BY DEF InFlight, TotalRefunded
    <3>3. OneAtATime' /\ StatusFollowsTotal'
      BY <3>2 DEF OneAtATime, StatusFollowsTotal
    <3> QED
      BY <3>1, <3>3
  <2> QED
    BY <1>1, <2>1, <2>2
<1> QED
  BY <1>1, RefundsInitInv, PTL DEF Spec

(* The tables and calls of create_refund keep their types, and every call  *)
(* that has reached the provider asked for no more than the balance it had *)
(* read left.                                                              *)
THEOREM RefundTypes == Spec => []TypeOK
<1>1. RefundsIInv => TypeOK
  BY DEF RefundsIInv
<1> QED
  BY <1>1, RefundsAlwaysIInv, PTL

(* Money flows back only on a payment that was paid, however webhooks and  *)
(* inquiries interleave with create_refund's awaits.                       *)
THEOREM RefundsArePaidFor == Spec => []RefundOnlyPaid
<1>1. RefundsIInv => RefundOnlyPaid
  BY DEF RefundsIInv, CallsFindPaid, RefundOnlyPaid, InFlight
<1> QED
  BY <1>1, RefundsAlwaysIInv, PTL

(* A refunded status is backed by a row, although record_refund's two      *)
(* statements share no transaction in the SQLite store.                    *)
THEOREM RefundedHasRow == Spec => []StatusHasRefund
<1>1. RefundsIInv => StatusHasRefund
  BY DEF RefundsIInv
<1> QED
  BY <1>1, RefundsAlwaysIInv, PTL

(* One at a time, refunds that succeed and are recorded return exactly     *)
(* what the table says, never more than the payment, and the status says   *)
(* whether all of it is back: for any amount and any number of refunds.    *)
THEOREM SerialRefundsAreExact == Spec => []SerialRefundsExact
<1>1. RefundsIInv => SerialRefundsExact
  BY DEF RefundsIInv, OneAtATime, StatusFollowsTotal, SerialRefundsExact
<1> QED
  BY <1>1, RefundsAlwaysIInv, PTL

------------------------------------------------------------------------------
(* The rate limiter.                                                       *)

(* Multiplication and division of natural numbers. *)
LEMMA DivMod ==
    ASSUME NEW n \in Nat, NEW s \in Nat \ {0}
    PROVE  /\ n \div s \in Nat /\ n % s \in 0 .. (s - 1)
           /\ n = s * (n \div s) + (n % s)
OBVIOUS

(* Products grow with their factors. *)
LEMMA TimesMono ==
    ASSUME NEW a \in Nat, NEW b \in Nat, NEW c \in Nat, a <= b
    PROVE  a * c <= b * c /\ c * a <= c * b /\ a * c \in Nat /\ c * a \in Nat
OBVIOUS

(* Products distribute over sums. *)
LEMMA TimesAdds ==
    ASSUME NEW a \in Int, NEW b \in Int, NEW s \in Int
    PROVE  /\ s * (a + b) = s * a + s * b /\ s * (a - b) = s * a - s * b
           /\ (a - b) * s = a * s - b * s /\ (a + 1) * s = a * s + s
OBVIOUS

(* Rounding down loses less than one whole. *)
LEMMA Cancel ==
    ASSUME NEW a \in Int, NEW b \in Int, NEW s \in Nat \ {0}, s * a <= s * b + s - 1
    PROVE  a <= b
<1> SUFFICES ASSUME a >= b + 1 PROVE FALSE
  OBVIOUS
<1>1. (a - (b + 1)) * s >= 0
  OBVIOUS
<1> QED
  BY <1>1

(* Whole parts grow. *)
LEMMA DivMono ==
    ASSUME NEW a \in Nat, NEW b \in Nat, NEW s \in Nat \ {0}, a <= b
    PROVE  a \div s <= b \div s
<1>1. /\ a \div s \in Nat /\ b \div s \in Nat
      /\ s * (a \div s) <= a /\ b <= s * (b \div s) + s - 1
  BY DivMod
<1>2. s * (a \div s) <= s * (b \div s) + s - 1
  BY <1>1
<1> QED
  BY <1>1, <1>2, Cancel

(* What the weighted count of the previous window leaves uncovered: of a   *)
(* requests among the c counted there, at most the share of the time       *)
(* passed since is not weighed, rounded up.                                *)
LEMMA WeightCovers ==
    ASSUME NEW s \in Nat \ {0}, NEW a \in Nat, NEW c \in Nat, NEW rate \in Nat,
           NEW d \in Nat, NEW x \in Nat, a <= c, a <= rate, d <= x, d < s
    PROVE  a - (c * (s - d)) \div s <= (rate * x + s - 1) \div s
<1> DEFINE q == (c * (s - d)) \div s
           o == (rate * x + s - 1) \div s
<1>1. s - d \in Nat /\ c * (s - d) \in Nat /\ a * (s - d) <= c * (s - d)
  BY TimesMono
<1>2. rate * x \in Nat /\ a * d \in Nat /\ a * d <= rate * x
  <2>1. a * d <= rate * d /\ rate * d <= rate * x
    BY TimesMono
  <2> QED
    BY <2>1, TimesMono
<1>3. q \in Nat /\ c * (s - d) <= s * q + s - 1
  <2> DEFINE m == c * (s - d)
  <2> HIDE DEF m
  <2>1. m \in Nat
    BY <1>1 DEF m
  <2>2. /\ m \div s \in Nat /\ m % s \in 0 .. (s - 1)
        /\ m = s * (m \div s) + (m % s)
    BY <2>1, DivMod
  <2>3. s * (m \div s) \in Int
    BY <2>2
  <2>4. m <= s * (m \div s) + s - 1
    BY <2>2, <2>3
  <2> QED
    BY <2>2, <2>4 DEF m
<1>4. o \in Nat /\ rate * x + s - 1 <= s * o + s - 1
  <2>1. rate * x + s - 1 \in Nat
    BY <1>2
  <2> QED
    BY <2>1, DivMod
<1>5. a * (s - d) = s * a - a * d
  OBVIOUS
<1> HIDE DEF q, o
<1>6. s * (a - q) = s * a - s * q
  BY <1>3, TimesAdds
<1>7. s * a \in Int /\ s * q \in Int /\ s * o \in Int
  BY <1>3, <1>4
<1>8. s * (a - q) <= s * o + s - 1
  <2>1. s * a - a * d <= s * q + s - 1
    BY <1>1, <1>3, <1>5, <1>7
  <2>2. s * a - s * q <= rate * x + s - 1
    BY <1>2, <1>7, <2>1
  <2> QED
    BY <1>2, <1>4, <1>6, <1>7, <2>2
<1> QED
  BY <1>3, <1>4, <1>8, Cancel DEF q, o

(* The limiter's state: the clock moves on past every reading of it, and   *)
(* nothing is admitted to the observer before its start.                   *)
LimiterTypes ==
    /\ rlKind \in {"bucket", "window"}
    /\ rlRate \in Nat \ {0}
    /\ rlNow \in RlSecond .. RlMaxTime
    /\ rlTokens \in Nat /\ rlTokens <= Capacity
    /\ rlLast \in Nat /\ rlLast <= rlNow
    /\ rlCount \in [Windows -> Nat]
    /\ rlStamp \in [RlReplicas -> Nat]
    /\ \A p \in RlReplicas : rlStamp[p] # 0 =>
          rlStamp[p] \in RlSecond .. rlNow /\ rlKind = "window"
    /\ rlMark \in RlSecond .. RlMaxTime
    /\ rlSince \in Nat
    /\ rlSlack \in BOOLEAN
    /\ rlNow < rlMark => rlSince = 0

(* At the last refill: what was admitted since the observer's start, with  *)
(* what is left, is a full bucket and the refills of the interval.         *)
BucketBalance ==
    rlKind = "bucket" =>
        IF rlLast < rlMark THEN rlSince = 0
        ELSE rlSince * RlSecond + rlTokens <= Capacity + rlRate * (rlLast - rlMark)

(* The counts of the observer's window and of the next one. *)
CountAt(w) == IF w \in Windows THEN rlCount[w] ELSE 0
MarkWindow == rlMark \div RlSecond

(* Within a second of the observer's start: it saw at most what the two    *)
(* windows counted, of the first one at most the rate, and no more than    *)
(* AdmissionsBounded states.                                               *)
WindowBalance ==
    rlKind = "window" /\ ~rlSlack /\ rlNow >= rlMark /\ Observed < RlSecond =>
        /\ rlSince <= CountAt(MarkWindow) + CountAt(MarkWindow + 1)
        /\ rlSince <= rlRate + CountAt(MarkWindow + 1)
        /\ rlSince <= rlRate + RateOver(Observed)

LimiterIInv == LimiterTypes /\ BucketBalance /\ WindowBalance

(* A clock reading falls into a window that is counted, and so does the    *)
(* window before it.                                                       *)
LEMMA WindowOfStamp ==
    ASSUME NEW t \in RlSecond .. RlMaxTime
    PROVE  /\ t \div RlSecond \in Windows /\ (t \div RlSecond) - 1 \in Windows
           /\ t % RlSecond \in 0 .. (RlSecond - 1)
           /\ t = RlSecond * (t \div RlSecond) + (t % RlSecond)
           /\ t \div RlSecond \in Nat
<1>1. RlSecond \in Nat \ {0} /\ RlMaxTime \in Nat /\ t \in Nat
  BY RateLimiterAssumption
<1>2. /\ t \div RlSecond \in Nat /\ t % RlSecond \in 0 .. (RlSecond - 1)
      /\ t = RlSecond * (t \div RlSecond) + (t % RlSecond)
  BY <1>1, DivMod
<1>3. RlMaxTime \div RlSecond \in Nat /\ t \div RlSecond <= RlMaxTime \div RlSecond
  BY <1>1, DivMod, DivMono
<1>4. 1 <= t \div RlSecond
  <2>1. RlSecond * 1 <= RlSecond * (t \div RlSecond) + RlSecond - 1
    BY <1>1, <1>2
  <2> QED
    BY <1>1, <1>2, <2>1, Cancel
<1> QED
  BY <1>2, <1>3, <1>4 DEF Windows

(* The limiter starts with a full bucket and empty counters. *)
LEMMA LimiterInitInv == LimiterInit => LimiterIInv
<1> SUFFICES ASSUME LimiterInit PROVE LimiterIInv
  OBVIOUS
<1> USE RateLimiterAssumption DEF LimiterInit
<1>1. rlRate \in Nat \ {0}
  BY DEF AtLeastOne
<1>2. Capacity \in Nat
  BY <1>1, TimesMono DEF Capacity
<1>3. LimiterTypes
  <2>1. rlNow \in RlSecond .. RlMaxTime /\ rlLast \in Nat
    OBVIOUS
  <2>2. rlTokens \in Nat /\ rlTokens <= Capacity
    BY <1>2
  <2>3. rlCount \in [Windows -> Nat] /\ rlStamp \in [RlReplicas -> Nat]
    OBVIOUS
  <2>4. \A p \in RlReplicas : rlStamp[p] = 0
    OBVIOUS
  <2>5. rlMark \in RlSecond .. RlMaxTime /\ rlSince \in Nat /\ rlLast <= rlNow
    OBVIOUS
  <2>6. rlSlack \in BOOLEAN /\ rlKind \in {"bucket", "window"} /\ rlSince = 0
    OBVIOUS
  <2> HIDE DEF LimiterInit
  <2> QED
    BY <1>1, <2>1, <2>2, <2>3, <2>4, <2>5, <2>6 DEF LimiterTypes
<1>4. BucketBalance
  <2>1. CASE rlLast < rlMark
    BY <2>1 DEF BucketBalance
  <2>2. CASE ~(rlLast < rlMark)
    <3>1. rlLast = rlMark /\ rlRate * (rlLast - rlMark) = 0 /\ rlSince * RlSecond = 0
      BY <1>1, <2>2
    <3> QED
      BY <1>2, <2>2, <3>1 DEF BucketBalance
  <2> QED
    BY <2>1, <2>2
<1>5. WindowBalance
  <2> SUFFICES ASSUME rlNow >= rlMark, Observed < RlSecond
               PROVE  /\ 0 <= CountAt(MarkWindow) + CountAt(MarkWindow + 1)
                      /\ 0 <= rlRate + CountAt(MarkWindow + 1)
                      /\ 0 <= rlRate + RateOver(Observed)
    BY DEF WindowBalance
  <2>1. CountAt(MarkWindow) = 0 /\ CountAt(MarkWindow + 1) = 0
    BY DEF CountAt
  <2>2. Observed = 0 /\ rlRate * Observed + RlSecond - 1 \in Nat
    BY <1>1 DEF Observed
  <2>3. RateOver(Observed) \in Nat
    BY <2>2, DivMod DEF RateOver
  <2> QED
    BY <1>1, <2>1, <2>3
<1> QED
  BY <1>3, <1>4, <1>5 DEF LimiterIInv

(* A refill keeps the bucket between empty and full. *)
LEMMA RefillFits ==
    ASSUME LimiterTypes
    PROVE  LET tokens == Refilled(rlTokens, rlNow - rlLast) IN
           /\ tokens \in Nat /\ tokens <= Capacity /\ Capacity \in Nat
           /\ rlNow - rlLast \in Nat /\ rlRate * (rlNow - rlLast) \in Nat
           /\ tokens <= rlTokens + rlRate * (rlNow - rlLast)
<1> DEFINE e == rlNow - rlLast
           gain == e * rlRate
<1>1. e \in Nat /\ rlTokens \in Nat /\ rlRate \in Nat /\ rlTokens <= Capacity
  BY RateLimiterAssumption DEF LimiterTypes
<1>2. Capacity \in Nat
  BY <1>1, RateLimiterAssumption, TimesMono DEF Capacity
<1> HIDE DEF e
<1>3. gain \in Nat /\ gain = rlRate * e
  BY <1>1, TimesMono
<1> HIDE DEF gain
<1>4. Refilled(rlTokens, e) = IF rlTokens + gain > Capacity THEN Capacity ELSE rlTokens + gain
  BY DEF Refilled, gain
<1> QED
  BY <1>1, <1>2, <1>3, <1>4 DEF e

(* Every step keeps the types. *)
LEMMA LimiterStepTypes ==
    ASSUME LimiterTypes, LimiterNext
    PROVE  LimiterTypes'
<1> USE RateLimiterAssumption
<1>0. ASSUME NEW stamp \in RlSecond .. rlNow, Admit(stamp), UNCHANGED <<rlNow, rlMark>>
      PROVE  rlSince' \in Nat /\ (rlNow' < rlMark' => rlSince' = 0)
  BY <1>0 DEF Admit, LimiterTypes
<1>1. CASE Tick
  <2>1. rlNow' \in RlSecond .. RlMaxTime /\ rlNow' = rlNow + 1
    BY <1>1 DEF Tick, LimiterTypes
  <2>2. UNCHANGED <<rlKind, rlRate, rlTokens, rlLast, rlCount, rlStamp, rlMark, rlSince,
                    rlSlack, Capacity>>
    BY <1>1 DEF Tick, Capacity
  <2> QED
    BY <2>1, <2>2 DEF LimiterTypes
<1>2. CASE TakeToken
  <2> DEFINE tokens == Refilled(rlTokens, rlNow - rlLast)
  <2>1. tokens \in Nat /\ tokens <= Capacity /\ Capacity \in Nat
    BY RefillFits
  <2>2. /\ UNCHANGED <<rlKind, rlRate, rlNow, rlCount, rlStamp, rlMark, rlSlack>>
        /\ rlLast' = rlNow /\ Capacity' = Capacity
        /\ \/ tokens >= RlSecond /\ rlTokens' = tokens - RlSecond /\ Admit(rlNow)
           \/ rlTokens' = tokens /\ UNCHANGED rlSince
    BY <1>2 DEF TakeToken, Capacity
  <2> HIDE DEF tokens
  <2>3. rlTokens' \in Nat /\ rlTokens' <= Capacity
    BY <2>1, <2>2
  <2>4. rlSince' \in Nat /\ (rlNow' < rlMark' => rlSince' = 0)
    <3>1. rlNow \in RlSecond .. rlNow
      BY DEF LimiterTypes
    <3> QED
      BY <1>0, <2>2, <3>1 DEF LimiterTypes
  <2> QED
    BY <2>2, <2>3, <2>4 DEF LimiterTypes
<1>3. ASSUME NEW p \in RlReplicas, ReadClock(p) PROVE LimiterTypes'
  BY <1>3 DEF ReadClock, LimiterTypes, Capacity
<1>4. ASSUME NEW p \in RlReplicas, rlStamp[p] # 0,
             rlStamp' = [rlStamp EXCEPT ![p] = 0],
             UNCHANGED <<rlKind, rlRate, rlNow, rlTokens, rlLast, rlMark>>,
             rlCount' \in {rlCount, [rlCount EXCEPT
                 ![rlStamp[p] \div RlSecond] = rlCount[rlStamp[p] \div RlSecond] + 1]},
             Admit(rlStamp[p]) \/ UNCHANGED rlSince, rlSlack' \in BOOLEAN
      PROVE  LimiterTypes'
  <2>1. rlStamp[p] \in RlSecond .. rlNow /\ rlStamp[p] \in RlSecond .. RlMaxTime
    BY <1>4 DEF LimiterTypes
  <2>2. rlStamp[p] \div RlSecond \in Windows
    BY <2>1, WindowOfStamp
  <2>3. rlCount' \in [Windows -> Nat]
    BY <1>4, <2>2 DEF LimiterTypes
  <2>4. rlSince' \in Nat /\ (rlNow' < rlMark' => rlSince' = 0)
    BY <1>0, <1>4, <2>1 DEF LimiterTypes
  <2>5. Capacity' = Capacity
    BY <1>4 DEF Capacity
  <2>6. /\ rlStamp' \in [RlReplicas -> Nat]
        /\ \A q \in RlReplicas : rlStamp'[q] # 0 =>
              rlStamp'[q] \in RlSecond .. rlNow' /\ rlKind' = "window"
    BY <1>4 DEF LimiterTypes
  <2> QED
    BY <1>4, <2>3, <2>4, <2>5, <2>6 DEF LimiterTypes
<1>5. ASSUME NEW p \in RlReplicas, CountRequest(p) PROVE LimiterTypes'
  BY <1>4, <1>5 DEF CountRequest
<1>6. ASSUME NEW p \in RlReplicas, CacheFails(p) PROVE LimiterTypes'
  BY <1>4, <1>6 DEF CacheFails
<1> QED
  BY <1>1, <1>2, <1>3, <1>5, <1>6 DEF LimiterNext

(* TokenBucket::try_acquire: what it admits it takes out of the bucket. *)
LEMMA LimiterStepBucket ==
    ASSUME LimiterIInv, LimiterTypes', LimiterNext
    PROVE  BucketBalance'
<1> SUFFICES ASSUME rlKind' = "bucket" PROVE BucketBalance'
  BY DEF BucketBalance
<1> USE RateLimiterAssumption DEF LimiterIInv
<1>1. rlKind = "bucket" /\ UNCHANGED <<rlRate, rlMark, Capacity>>
  BY DEF LimiterNext, Tick, TakeToken, ReadClock, CountRequest, CacheFails, Capacity
<1>2. CASE Tick
  BY <1>1, <1>2 DEF Tick, BucketBalance
<1>3. CASE TakeToken
  <2> DEFINE tokens == Refilled(rlTokens, rlNow - rlLast)
             gain == rlRate * (rlNow - rlLast)
             span == rlRate * (rlNow - rlMark)
             got == rlSince * RlSecond
             got2 == (rlSince + 1) * RlSecond
  <2>1. /\ tokens \in Nat /\ tokens <= Capacity /\ Capacity \in Nat
        /\ tokens <= rlTokens + gain /\ gain \in Nat
    BY RefillFits
  <2>2. /\ rlLast' = rlNow /\ rlNow' = rlNow
        /\ \/ /\ tokens >= RlSecond /\ rlTokens' = tokens - RlSecond
              /\ rlSince' = IF rlNow >= rlMark THEN rlSince + 1 ELSE rlSince
           \/ rlTokens' = tokens /\ rlSince' = rlSince
    BY <1>3 DEF TakeToken, Admit
  <2>3. /\ rlNow \in Nat /\ rlMark \in Nat /\ rlSince \in Nat /\ rlRate \in Nat
        /\ rlLast \in Nat /\ rlTokens \in Nat /\ rlLast <= rlNow
    BY DEF LimiterTypes
  <2>4. got \in Nat /\ got2 = got + RlSecond
    BY <2>3, TimesMono, TimesAdds
  <2>5. CASE rlNow < rlMark
    <3>1. rlSince = 0
      BY <2>5 DEF LimiterTypes
    <3> QED
      BY <1>1, <2>2, <2>3, <2>5, <3>1 DEF BucketBalance
  <2>6. CASE rlNow >= rlMark
    <3>1. rlNow - rlMark \in Nat /\ span \in Nat
      BY <2>3, <2>6, TimesMono
    <3>2. got + tokens <= Capacity + span
      <4>1. CASE rlLast < rlMark
        <5>1. rlSince = 0 /\ got = 0
          BY <1>1, <2>3, <4>1 DEF BucketBalance
        <5> HIDE DEF tokens, got, span
        <5> QED
          BY <2>1, <3>1, <5>1
      <4>2. CASE rlLast >= rlMark
        <5> DEFINE old == rlRate * (rlLast - rlMark)
        <5>1. got + rlTokens <= Capacity + old
          BY <1>1, <2>3, <4>2 DEF BucketBalance
        <5>2. span = old + gain /\ old \in Int
          BY <2>3, TimesAdds
        <5> HIDE DEF tokens, got, span, old, gain
        <5> QED
          BY <2>1, <2>3, <2>4, <3>1, <5>1, <5>2
      <4> QED
        BY <2>3, <4>1, <4>2
    <3>3. rlSince' * RlSecond + rlTokens' = got + tokens
      <4>1. CASE rlSince' = rlSince + 1 /\ rlTokens' = tokens - RlSecond
        <5>1. rlSince' * RlSecond = got + RlSecond
          BY <2>4, <4>1
        <5> HIDE DEF tokens, got
        <5> QED
          BY <2>1, <2>4, <4>1, <5>1
      <4>2. CASE rlSince' = rlSince /\ rlTokens' = tokens
        BY <4>2
      <4> QED
        BY <2>2, <2>6, <4>1, <4>2
    <3>4. Capacity' + rlRate' * (rlLast' - rlMark') = Capacity + span
      BY <1>1, <2>2
    <3> HIDE DEF tokens, got, span
    <3> QED
      BY <1>1, <2>2, <2>3, <2>6, <3>2, <3>3, <3>4 DEF BucketBalance
  <2> QED
    BY <2>3, <2>5, <2>6
<1>4. ASSUME NEW p \in RlReplicas, ReadClock(p) \/ CountRequest(p) \/ CacheFails(p)
      PROVE  FALSE
  BY <1>1, <1>4 DEF ReadClock, CountRequest, CacheFails, LimiterTypes
<1> QED
  BY <1>2, <1>3, <1>4 DEF LimiterNext

(* The bound of AdmissionsBounded is a natural number, and grows with the  *)
(* observed interval.                                                      *)
LEMMA RateOverGrows ==
    ASSUME NEW x \in Nat, NEW y \in Nat, x <= y, rlRate \in Nat
    PROVE  RateOver(x) \in Nat /\ RateOver(y) \in Nat /\ RateOver(x) <= RateOver(y)
<1> DEFINE m == rlRate * x + RlSecond - 1
           n == rlRate * y + RlSecond - 1
<1>1. RlSecond \in Nat \ {0}
  BY RateLimiterAssumption
<1>2. rlRate * x \in Nat /\ rlRate * y \in Nat /\ rlRate * x <= rlRate * y
  BY TimesMono
<1>3. m \in Nat /\ n \in Nat /\ m <= n
  BY <1>1, <1>2
<1>4. RateOver(x) = m \div RlSecond /\ RateOver(y) = n \div RlSecond
  BY DEF RateOver
<1> HIDE DEF m, n
<1>5. m \div RlSecond \in Nat /\ n \div RlSecond \in Nat
  BY <1>1, <1>3, DivMod
<1>6. m \div RlSecond <= n \div RlSecond
  BY <1>1, <1>3, DivMono
<1> QED
  BY <1>4, <1>5, <1>6

(* A request counted on time, and admitted, by a stamp the observer sees.  *)
(* In the observer's own window it is within the rate, and nothing has     *)
(* been admitted in the next; in the next window, its total weighs all     *)
(* that the observer saw in the first but the share WeightCovers bounds.   *)
LEMMA CountKeepsWindow ==
    ASSUME LimiterIInv, LimiterTypes', NEW p \in RlReplicas, CountRequest(p)
    PROVE  WindowBalance'
<1> DEFINE stamp == rlStamp[p]
           b == stamp \div RlSecond
           d == stamp % RlSecond
           W == MarkWindow
           weighed == PrevWeighted(rlCount[b - 1], d)
           total == rlCount[b] + 1 + weighed
<1> USE RateLimiterAssumption
<1> SUFFICES ASSUME ~rlSlack', rlNow' >= rlMark', Observed' < RlSecond
             PROVE  WindowBalance'
  BY DEF WindowBalance
<1>1. /\ stamp # 0
      /\ rlCount' = [rlCount EXCEPT ![b] = rlCount[b] + 1]
      /\ \/ total <= rlRate /\ rlSince' = IF stamp >= rlMark THEN rlSince + 1 ELSE rlSince
         \/ rlSince' = rlSince
      /\ ~rlSlack /\ (\A w \in Windows : w > b => ~(rlCount[w] > 0))
      /\ UNCHANGED <<rlKind, rlRate, rlNow, rlMark>>
  BY DEF CountRequest, Admit
<1>2. /\ stamp \in RlSecond .. rlNow /\ stamp \in RlSecond .. RlMaxTime
      /\ rlKind = "window" /\ rlNow \in Nat /\ rlMark \in RlSecond .. RlMaxTime
      /\ rlSince \in Nat /\ rlRate \in Nat /\ rlCount \in [Windows -> Nat]
      /\ rlMark \in Nat /\ stamp \in Nat
  BY <1>1 DEF LimiterIInv, LimiterTypes
<1>3. /\ b \in Windows /\ b - 1 \in Windows /\ b \in Nat
      /\ d \in 0 .. (RlSecond - 1) /\ stamp = RlSecond * b + d
  BY <1>2, WindowOfStamp
<1>4. /\ W \in Windows /\ W \in Nat
      /\ rlMark >= RlSecond * W /\ rlMark <= RlSecond * W + RlSecond - 1
  <2>1. /\ W \in Windows /\ W \in Nat /\ rlMark % RlSecond \in 0 .. (RlSecond - 1)
        /\ rlMark = RlSecond * W + (rlMark % RlSecond)
    BY <1>2, WindowOfStamp DEF MarkWindow
  <2> HIDE DEF W
  <2> QED
    BY <2>1
<1>5. /\ Observed' = Observed /\ Observed = rlNow - rlMark /\ Observed \in Nat
      /\ Observed < RlSecond /\ MarkWindow' = W /\ RateOver(Observed)' = RateOver(Observed)
  BY <1>1, <1>2 DEF Observed, MarkWindow, RateOver
<1> DEFINE C == rlCount[W]
           E == CountAt(W + 1)
<1>6. /\ rlSince <= C + E /\ rlSince <= rlRate + E
      /\ rlSince <= rlRate + RateOver(Observed)
  BY <1>1, <1>2, <1>4, <1>5 DEF LimiterIInv, WindowBalance, CountAt
<1>7. C \in Nat /\ E \in Nat /\ RateOver(Observed) \in Nat
  BY <1>2, <1>4, <1>5, RateOverGrows DEF CountAt
<1>8. SUFFICES /\ rlSince' <= rlCount'[W] + CountAt(W + 1)'
               /\ rlSince' <= rlRate + CountAt(W + 1)'
               /\ rlSince' <= rlRate + RateOver(Observed)
  <2>1. CountAt(W)' = rlCount'[W]
    BY <1>1, <1>4 DEF CountAt, MarkWindow
  <2>2. CountAt(MarkWindow)' = CountAt(W)' /\ CountAt(MarkWindow + 1)' = CountAt(W + 1)'
    OBVIOUS
  <2> QED
    BY <1>1, <1>5, <2>1, <2>2 DEF WindowBalance
<1>9. W' = W /\ (CountAt(W + 1)' = IF W + 1 \in Windows THEN rlCount'[W + 1] ELSE 0)
  BY <1>5 DEF CountAt
<1>10. weighed \in Nat /\ rlCount[b] \in Nat
  <2> DEFINE m == rlCount[b - 1] * (RlSecond - d)
  <2>1. rlCount[b - 1] \in Nat /\ rlCount[b] \in Nat /\ RlSecond - d \in Nat
    BY <1>2, <1>3
  <2>2. m \in Nat
    BY <2>1, TimesMono
  <2>3. weighed = m \div RlSecond
    BY DEF PrevWeighted
  <2> HIDE DEF m
  <2> QED
    BY <2>1, <2>2, <2>3, DivMod
<1>11. CASE b = W
  <2>1. E = 0
    <3>1. W + 1 \in Windows => ~(rlCount[W + 1] > 0) /\ rlCount[W + 1] \in Nat
      <4> HIDE DEF b, W
      <4> QED
        BY <1>1, <1>2, <1>4, <1>11
    <3> QED
      BY <3>1 DEF CountAt
  <2>2. rlCount'[W] = C + 1 /\ CountAt(W + 1)' = E
    BY <1>1, <1>2, <1>4, <1>9, <1>11 DEF CountAt
  <2>3. rlSince' = rlSince \/ (rlSince' = rlSince + 1 /\ C + 1 + weighed <= rlRate)
    BY <1>1, <1>11
  <2> HIDE DEF weighed, C, E, W
  <2> QED
    BY <1>2, <1>6, <1>7, <1>10, <2>1, <2>2, <2>3
<1>12. CASE b = W + 1
  <2>1. rlCount'[W] = C /\ CountAt(W + 1)' = E + 1 /\ E = rlCount[b] /\ rlCount[b - 1] = C
    BY <1>1, <1>2, <1>3, <1>4, <1>9, <1>12 DEF CountAt
  <2>2. CASE rlSince' = rlSince
    <3> HIDE DEF C, E, W
    <3> QED
      BY <1>2, <1>6, <1>7, <2>1, <2>2
  <2>3. CASE rlSince' = rlSince + 1 /\ E + 1 + weighed <= rlRate
    <3> DEFINE a == IF C <= rlRate THEN C ELSE rlRate
               q == (C * (RlSecond - d)) \div RlSecond
    <3>1. d <= Observed
      <4>1. stamp = RlSecond * W + RlSecond + d
        <5>1. RlSecond * (W + 1) = RlSecond * W + RlSecond
          BY <1>4, TimesAdds
        <5> QED
          BY <1>3, <1>12, <5>1
      <4>2. RlSecond * W \in Nat
        BY <1>4, TimesMono
      <4> HIDE DEF stamp, d, W
      <4> QED
        BY <1>2, <1>3, <1>4, <1>5, <4>1, <4>2
    <3>2. a - q <= RateOver(Observed)
      <4>1. a \in Nat /\ a <= C /\ a <= rlRate /\ d \in Nat /\ d < RlSecond
        BY <1>2, <1>3, <1>7
      <4> HIDE DEF a, C, d
      <4> QED
        BY <1>2, <1>5, <1>7, <3>1, <4>1, WeightCovers DEF RateOver
    <3>3. weighed = q
      BY <2>1 DEF PrevWeighted
    <3>4. rlSince <= a + E /\ a \in Nat
      BY <1>2, <1>6, <1>7
    <3> HIDE DEF C, E, W, weighed, q, a
    <3> QED
      BY <1>2, <1>6, <1>7, <1>10, <2>1, <2>3, <3>2, <3>3, <3>4
  <2> QED
    BY <1>1, <2>1, <2>2, <2>3
<1>13. CASE b < W
  <2>1. rlCount'[W] = C /\ CountAt(W + 1)' = E
    BY <1>1, <1>2, <1>3, <1>4, <1>9, <1>13 DEF CountAt
  <2>2. stamp < rlMark
    <3> SUFFICES ASSUME stamp >= rlMark PROVE FALSE
      BY <1>2
    <3>1. W <= b
      BY <1>2, DivMono DEF MarkWindow
    <3> QED
      BY <1>3, <1>4, <1>13, <3>1
  <2> QED
    BY <1>1, <1>2, <1>6, <2>1, <2>2
<1>14. ASSUME b > W + 1 PROVE FALSE
  <2>1. b >= W + 2
    BY <1>3, <1>4, <1>14
  <2>2. RlSecond * (W + 2) <= RlSecond * b
    BY <1>3, <1>4, <2>1, TimesMono
  <2>3. RlSecond * (W + 2) = RlSecond * W + RlSecond + RlSecond
    BY <1>4
  <2>4. RlSecond * W \in Nat /\ RlSecond * b \in Nat
    BY <1>3, <1>4, TimesMono
  <2> HIDE DEF b, W, stamp, d
  <2> QED
    BY <1>2, <1>3, <1>4, <1>5, <2>2, <2>3, <2>4
<1>15. b = W \/ b = W + 1 \/ b < W \/ b > W + 1
  <2> HIDE DEF b, W
  <2> QED
    BY <1>3, <1>4
<1> QED
  BY <1>11, <1>12, <1>13, <1>14, <1>15

(* Every step keeps the window's balance. *)
LEMMA LimiterStepWindow ==
    ASSUME LimiterIInv, LimiterTypes', LimiterNext
    PROVE  WindowBalance'
<1> USE RateLimiterAssumption
<1>1. CASE Tick
  <2> SUFFICES ASSUME rlKind = "window", ~rlSlack, rlNow' >= rlMark', Observed' < RlSecond
               PROVE  /\ rlSince <= CountAt(MarkWindow) + CountAt(MarkWindow + 1)
                      /\ rlSince <= rlRate + CountAt(MarkWindow + 1)
                      /\ rlSince <= rlRate + RateOver(Observed)'
    BY <1>1 DEF Tick, WindowBalance, CountAt, MarkWindow
  <2>1. /\ rlNow' = rlNow + 1 /\ UNCHANGED <<rlMark, rlRate>>
        /\ rlNow \in Nat /\ rlMark \in Nat /\ rlRate \in Nat /\ rlSince \in Nat
        /\ rlMark \in RlSecond .. RlMaxTime /\ rlCount \in [Windows -> Nat]
    BY <1>1 DEF Tick, LimiterIInv, LimiterTypes
  <2>2. Observed' = Observed + 1 /\ Observed' \in Nat /\ Observed \in Int
    BY <2>1 DEF Observed
  <2>3. RateOver(Observed)' = RateOver(Observed + 1)
    BY <2>1, <2>2 DEF RateOver
  <2>4. CASE rlNow >= rlMark
    <3>1. Observed \in Nat /\ Observed < RlSecond
      BY <2>1, <2>2, <2>4 DEF Observed
    <3>2. /\ RateOver(Observed) \in Nat /\ RateOver(Observed + 1) \in Nat
          /\ RateOver(Observed) <= RateOver(Observed + 1)
      BY <2>1, <3>1, RateOverGrows
    <3> QED
      BY <2>1, <2>3, <2>4, <3>1, <3>2 DEF LimiterIInv, WindowBalance
  <2>5. CASE rlNow < rlMark
    <3>1. rlSince = 0
      BY <2>5 DEF LimiterIInv, LimiterTypes
    <3>2. MarkWindow \in Windows
      BY <2>1, WindowOfStamp DEF MarkWindow
    <3>3. CountAt(MarkWindow) \in Nat /\ CountAt(MarkWindow + 1) \in Nat
      BY <2>1 DEF CountAt
    <3>4. RateOver(Observed + 1) \in Nat
      BY <2>1, <2>2, RateOverGrows
    <3> QED
      BY <2>1, <2>3, <3>1, <3>3, <3>4
  <2> QED
    BY <2>1, <2>4, <2>5
<1>2. CASE TakeToken
  BY <1>2 DEF TakeToken, WindowBalance
<1>3. ASSUME NEW p \in RlReplicas, ReadClock(p) PROVE WindowBalance'
  BY <1>3 DEF ReadClock, LimiterIInv, WindowBalance, CountAt, MarkWindow, Observed, RateOver
<1>4. ASSUME NEW p \in RlReplicas, CacheFails(p) PROVE WindowBalance'
  BY <1>4 DEF CacheFails, WindowBalance
<1> QED
  BY <1>1, <1>2, <1>3, <1>4, CountKeepsWindow DEF LimiterNext

(* The limiter's invariant holds in every reachable state. *)
LEMMA LimiterAlwaysIInv == LimiterSpec => []LimiterIInv
<1>1. ASSUME LimiterIInv, [LimiterNext]_rlVars PROVE LimiterIInv'
  <2>1. CASE LimiterNext
    <3>1. LimiterTypes'
      BY <1>1, <2>1, LimiterStepTypes DEF LimiterIInv
    <3> QED
      BY <1>1, <2>1, <3>1, LimiterStepBucket, LimiterStepWindow DEF LimiterIInv
  <2>2. CASE UNCHANGED rlVars
    BY <1>1, <2>2 DEF rlVars, LimiterIInv, LimiterTypes, BucketBalance, WindowBalance,
                      Capacity, CountAt, MarkWindow, Observed, RateOver
  <2> QED
    BY <1>1, <2>1, <2>2
<1> QED
  BY <1>1, LimiterInitInv, PTL DEF LimiterSpec

(* Whatever moment an observer starts at, the token bucket admits no more  *)
(* than a full bucket and the refills since, and the sliding window, over  *)
(* less than a second, no more than the rate and the interval's share:     *)
(* for any rate, any clock resolution and any number of replicas.          *)
THEOREM RateIsKept == LimiterSpec => []AdmissionsBounded
<1>1. LimiterIInv => AdmissionsBounded
  <2> SUFFICES ASSUME LimiterIInv, rlNow >= rlMark, rlKind = "bucket"
               PROVE  rlSince * RlSecond <= Capacity + rlRate * Observed
    BY DEF LimiterIInv, WindowBalance, AdmissionsBounded
  <2>1. /\ rlNow \in Nat /\ rlMark \in Nat /\ rlRate \in Nat /\ rlSince \in Nat
        /\ rlLast \in Nat /\ rlLast <= rlNow /\ rlTokens \in Nat /\ RlSecond \in Nat
    BY RateLimiterAssumption DEF LimiterIInv, LimiterTypes
  <2>2. Capacity \in Nat /\ rlSince * RlSecond \in Nat
    BY <2>1, TimesMono DEF Capacity
  <2>3. rlNow - rlMark \in Nat /\ rlRate * (rlNow - rlMark) \in Nat
    BY <2>1, TimesMono
  <2>4. CASE rlLast < rlMark
    <3>1. rlSince * RlSecond = 0
      BY <2>1, <2>4 DEF LimiterIInv, BucketBalance
    <3> QED
      BY <2>2, <2>3, <3>1 DEF Observed
  <2>5. CASE rlLast >= rlMark
    <3>1. rlLast - rlMark \in Nat /\ rlLast - rlMark <= rlNow - rlMark
      BY <2>1, <2>5
    <3>2. rlRate * (rlLast - rlMark) <= rlRate * (rlNow - rlMark)
          /\ rlRate * (rlLast - rlMark) \in Nat
      BY <2>1, <2>3, <3>1, TimesMono
    <3>3. rlSince * RlSecond + rlTokens <= Capacity + rlRate * (rlLast - rlMark)
      BY <2>1, <2>5 DEF LimiterIInv, BucketBalance
    <3> QED
      BY <2>1, <2>2, <2>3, <3>2, <3>3 DEF Observed
  <2> QED
    BY <2>1, <2>4, <2>5
<1> QED
  BY <1>1, LimiterAlwaysIInv, PTL

==============================================================================
