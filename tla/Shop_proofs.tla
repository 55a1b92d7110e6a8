----------------------------- MODULE Shop_proofs -----------------------------
(***************************************************************************)
(* What the catalogue, the cache in front of it, the carts and the coupons *)
(* guarantee for any numbers of sizes, keys, carts, coupons and requests,  *)
(* and for any limits.                                                     *)
(***************************************************************************)
EXTENDS Catalogue, PublicReadCache, MCCart, MCOffers, Sums, SequenceTheorems

-----------------------------------------------------------------------------
(* Prices and sums.                                                         *)

\* What a listing asks for a size is a price: the cheapest of those in stock.
LEMMA DerivedIsPrice ==
  ASSUME NEW q, NEW p \in [Sizes -> Pricings], NEW now
  PROVE  Derived(q, p, now) \in Nat
<1> DEFINE prices == {Effective(p[s], now) : s \in Listed(q)}
<1>1. Listed(q) # {} /\ Listed(q) \subseteq Sizes
  BY CatalogueAssumption DEF CatalogueAssumption, Listed
<1>2. \A s \in Sizes : Effective(p[s], now) \in Nat
  BY CatalogueAssumption DEF CatalogueAssumption, Effective
<1>3. prices \subseteq Nat /\ prices # {}
  BY <1>1, <1>2
<1>4. \E x \in prices : \A y \in prices : x <= y
  <2> HIDE DEF prices
  <2> QED BY <1>3, LeastNumber
<1>5. (CHOOSE x \in prices : \A y \in prices : x <= y) \in Nat
  <2> HIDE DEF prices
  <2> QED BY <1>3, <1>4
<1> QED BY <1>5 DEF Derived

\* Numbers of units add up to a number of units.
LEMMA SumOfAmounts ==
  ASSUME NEW q \in Amounts
  PROVE  UnitsOf(q) \in Nat
<1>1. IsFiniteSet(Sizes) /\ \A s \in Sizes : q[s] \in Nat
  BY CatalogueAssumption DEF CatalogueAssumption, Amounts
<1> QED BY <1>1, SumNat DEF UnitsOf

\* One size moves by d, and so does the sum.
LEMMA SumMoves ==
  ASSUME NEW q \in Amounts, NEW s \in Sizes, NEW d \in Int
  PROVE  UnitsOf([q EXCEPT ![s] = @ + d]) = UnitsOf(q) + d
<1> DEFINE r == [q EXCEPT ![s] = @ + d]
<1>1. IsFiniteSet(Sizes) /\ \A t \in Sizes : q[t] \in Int
  BY CatalogueAssumption DEF CatalogueAssumption, Amounts
<1>2. r[s] = q[s] + d /\ r[s] \in Int /\ \A t \in Sizes : t # s => r[t] = q[t]
  BY <1>1 DEF Amounts
<1>3. SumFunctionOnSet(r, Sizes) = SumFunctionOnSet(q, Sizes) + r[s] - q[s]
  <2> HIDE DEF r
  <2> QED BY <1>1, <1>2, SumExcept
<1>4. SumFunctionOnSet(q, Sizes) \in Int
  BY <1>1, SumType
<1>5. SumFunctionOnSet(r, Sizes) = SumFunctionOnSet(q, Sizes) + d
  <2> HIDE DEF r
  <2> QED BY <1>1, <1>2, <1>3, <1>4
<1> QED BY <1>5 DEF UnitsOf

\* Sizes that are empty add up to nothing.
LEMMA SumOfNothing == UnitsOf([s \in Sizes |-> 0]) = 0
<1> DEFINE q == [s \in Sizes |-> 0]
<1>1. IsFiniteSet(Sizes) /\ \A s \in Sizes : q[s] = 0
  BY CatalogueAssumption DEF CatalogueAssumption
<1>2. SumFunctionOnSet(q, Sizes) = 0
  <2> HIDE DEF q
  <2> QED BY <1>1, SumZero
<1> QED BY <1>2 DEF UnitsOf

-----------------------------------------------------------------------------
(* The inductive invariant.                                                 *)

\* Every movement wrote at most one row and brought at most one piece.
CountsFit == notes <= moves /\ received <= moves

\* One form at a time is between writing the Product row and its commit.  What
\* it did not see as legacy is tracked, and it saves the number the size has.
SavingIsCurrent ==
  \A w \in Workers : At(w, "saving") =>
    /\ \A v \in Workers : At(v, "saving") => v = w
    /\ \A s \in Sizes : s \notin req[w].legacy => s \in tracked /\ req[w].form[s] = quantity[s]

\* The inductive invariant.
CatalogueInv == CatalogueTypeOK /\ CountsFit /\ SavingIsCurrent /\ DeletedWasNeverOrdered

\* The fields a request carries are those of its step.
LEMMA FormFields ==
  ASSUME NEW r \in Request
  PROVE  /\ r.at \in {"form", "saving"} => r.form \in Amounts
         /\ r.at = "saving" => r.new \in [Sizes -> Pricings] /\ r.legacy \subseteq Sizes
         /\ r.at = "sync" => r.sum \in Nat
         /\ r.at \in {"labels", "cleaned"} => r.lines \in Nat /\ r.tracked \subseteq Sizes /\ r.kept \in BOOLEAN
  BY DEF Request, Idle

\* A step to a well-formed request leaves every request well-formed, and the
\* requests of others as they were.
LEMMA GotoForm ==
  ASSUME req \in [Workers -> Request], NEW w \in Workers, NEW local \in Request,
         Goto(w, local)
  PROVE  /\ req' \in [Workers -> Request]
         /\ req'[w] = local
         /\ \A v \in Workers : v # w => req'[v] = req[v]
  BY DEF Goto

\* The invariant holds at the start.
LEMMA CatalogueStart == CatalogueInit => CatalogueInv
<1> SUFFICES ASSUME CatalogueInit PROVE CatalogueInv
  OBVIOUS
<1>1. stored \in Nat
  BY DerivedIsPrice DEF CatalogueInit
<1>2. {MaxForms, MaxMoves, MaxLines} \subseteq Nat
  BY CatalogueAssumption DEF CatalogueAssumption
<1>3. CatalogueTypeOK
  <2>1. quantity \in Amounts /\ ledger \in [Sizes -> Int]
    BY DEF CatalogueInit, Amounts
  <2>2. req \in [Workers -> Request] /\ job \in [Jobs -> Nat \cup {None}]
    BY DEF CatalogueInit, Request
  <2>3. exists \in BOOLEAN /\ ordered \in BOOLEAN
    BY Zenon DEF CatalogueInit
  <2>5. /\ tracked \subseteq Sizes /\ pricing \in [Sizes -> Pricings]
        /\ phase \in {"before", "open", "after"} /\ total \in Int
    BY DEF CatalogueInit
  <2>4. /\ notes \in 0 .. MaxMoves /\ received \in 0 .. MaxMoves /\ lines \in 0 .. MaxLines
        /\ forms \in 0 .. MaxForms /\ moves \in 0 .. MaxMoves
    BY <1>2 DEF CatalogueInit
  <2> QED BY <1>1, <2>1, <2>2, <2>3, <2>4, <2>5 DEF CatalogueTypeOK
<1>4. CountsFit /\ SavingIsCurrent /\ DeletedWasNeverOrdered
  BY DEF CatalogueInit, CountsFit, SavingIsCurrent, DeletedWasNeverOrdered, At, Idle
<1> QED BY <1>3, <1>4 DEF CatalogueInv

\* A step that leaves every request where it is, or ends one, changes nothing
\* that a form being saved depends on.
LEMMA SavingStep ==
  ASSUME CatalogueInv, NEW w \in Workers, NEW local \in Request, local.at # "saving",
         Goto(w, local), quantity' = quantity, tracked' = tracked
  PROVE  SavingIsCurrent'
  BY GotoForm DEF CatalogueInv, CatalogueTypeOK, SavingIsCurrent, At

\* A movement of stock.
LEMMA MoveStep ==
  ASSUME CatalogueInv, NEW s \in Sizes, NEW d \in {1, -1}, Move(s, d)
  PROVE  /\ quantity' \in Amounts
         /\ ledger' \in [Sizes -> Int]
         /\ total' \in Int
         /\ notes' \in 0 .. MaxMoves /\ moves' \in 0 .. MaxMoves
         /\ moves' = moves + 1 /\ notes' <= moves' /\ received + 1 <= moves'
         /\ received + 1 \in 0 .. MaxMoves
         /\ SavingIsCurrent'
         /\ \A t \in Sizes : quantity'[t] - quantity[t] = ledger'[t] - ledger[t]
         /\ total' - total = UnitsOf(quantity') - UnitsOf(quantity)
<1> USE DEF CatalogueInv, CatalogueTypeOK, CountsFit
<1>0. MaxMoves \in Nat
  BY CatalogueAssumption DEF CatalogueAssumption
<1>1. quantity' \in Amounts /\ ledger' \in [Sizes -> Int] /\ total' \in Int
  BY DEF Move, Amounts
<1>2. /\ notes' \in 0 .. MaxMoves /\ moves' \in 0 .. MaxMoves
      /\ moves' = moves + 1 /\ notes' <= moves' /\ received + 1 <= moves'
      /\ received + 1 \in 0 .. MaxMoves
  BY <1>0 DEF Move
<1>3. SavingIsCurrent'
  BY DEF Move, Free, SavingIsCurrent, At
<1>4. \A t \in Sizes : quantity'[t] - quantity[t] = ledger'[t] - ledger[t]
  BY DEF Move, Amounts
<1>5. UnitsOf(quantity') = UnitsOf(quantity) + d
  <2>1. quantity' = [quantity EXCEPT ![s] = @ + d] /\ quantity \in Amounts /\ d \in Int
    BY DEF Move
  <2>2. UnitsOf([quantity EXCEPT ![s] = @ + d]) = UnitsOf(quantity) + d
    BY <2>1, SumMoves
  <2> QED BY <2>1, <2>2
<1>6. total' - total = UnitsOf(quantity') - UnitsOf(quantity)
  <2>1. UnitsOf(quantity) \in Nat
    BY SumOfAmounts
  <2> QED BY <1>5, <2>1 DEF Move
<1> QED BY <1>1, <1>2, <1>3, <1>4, <1>6

\* A request that moves on without touching the product keeps the invariant.
LEMMA IdleStep ==
  ASSUME CatalogueInv, NEW w \in Workers, NEW local \in Request, local.at # "saving", Goto(w, local),
         UNCHANGED <<exists, stockVars, pricing, phase, derived, lines, ordered, job, moves>>,
         forms' \in 0 .. MaxForms
  PROVE  CatalogueInv'
<1> USE DEF stockVars, derived
<1>1. SavingIsCurrent'
  BY SavingStep
<1>2. req' \in [Workers -> Request]
  BY GotoForm DEF CatalogueInv, CatalogueTypeOK
<1>3. CatalogueTypeOK'
  BY <1>2 DEF CatalogueInv, CatalogueTypeOK
<1>4. CountsFit' /\ DeletedWasNeverOrdered'
  BY DEF CatalogueInv, CountsFit, DeletedWasNeverOrdered
<1> QED BY <1>1, <1>3, <1>4 DEF CatalogueInv

\* Every step keeps the invariant.
LEMMA StepInv ==
  ASSUME CatalogueInv, [CatalogueNext]_catalogueVars
  PROVE  CatalogueInv'
<1> USE DEF stockVars, derived, bounds
<1>0. CatalogueTypeOK /\ CountsFit /\ SavingIsCurrent /\ DeletedWasNeverOrdered
  BY DEF CatalogueInv
<1>a. Idle \in Request /\ Idle.at = "idle"
  BY DEF Request, Idle
<1>b. req \in [Workers -> Request] /\ forms \in 0 .. MaxForms /\ quantity \in Amounts
  BY <1>0 DEF CatalogueTypeOK
<1>1. ASSUME NEW s \in Sizes, Order(s) PROVE CatalogueInv'
  <2>1. Move(s, -1) /\ exists
    BY <1>1 DEF Order, Move
  <2>2. CatalogueTypeOK'
    BY <1>0, <1>1, <2>1, MoveStep DEF Order, Move, CatalogueTypeOK
  <2>3. CountsFit' /\ SavingIsCurrent'
    <3>1. notes' <= moves' /\ received + 1 <= moves' /\ moves' \in Nat /\ received \in Nat
      BY <1>0, <2>1, MoveStep DEF CatalogueTypeOK
    <3>2. received' = received
      BY <1>1 DEF Order
    <3>3. SavingIsCurrent'
      BY <2>1, MoveStep
    <3> QED BY <3>1, <3>2, <3>3 DEF CountsFit
  <2>4. DeletedWasNeverOrdered'
    BY <2>1 DEF Move, DeletedWasNeverOrdered
  <2> QED BY <2>2, <2>3, <2>4 DEF CatalogueInv
<1>2. ASSUME NEW s \in Sizes, Receive(s) PROVE CatalogueInv'
  <2>1. Move(s, 1)
    BY <1>2 DEF Receive
  <2>2. CatalogueTypeOK'
    BY <1>0, <1>2, <2>1, MoveStep DEF Receive, Move, CatalogueTypeOK
  <2>3. CountsFit' /\ SavingIsCurrent'
    BY <1>2, <2>1, MoveStep DEF Receive, CountsFit
  <2>4. DeletedWasNeverOrdered'
    BY <1>0, <1>2, <2>1 DEF Receive, Move, DeletedWasNeverOrdered
  <2> QED BY <2>2, <2>3, <2>4 DEF CatalogueInv
<1>3. ASSUME NEW s \in Sizes, NEW d \in {1, -1}, Correct(s, d) PROVE CatalogueInv'
  <2>1. Move(s, d)
    BY <1>3 DEF Correct
  <2>2. CatalogueTypeOK'
    BY <1>0, <1>3, <2>1, MoveStep DEF Correct, Move, CatalogueTypeOK
  <2>3. CountsFit' /\ SavingIsCurrent'
    <3>1. notes' <= moves' /\ received + 1 <= moves' /\ moves' \in Nat /\ received \in Nat
      BY <1>0, <2>1, MoveStep DEF CatalogueTypeOK
    <3>2. received' = received
      BY <1>3 DEF Correct
    <3>3. SavingIsCurrent'
      BY <2>1, MoveStep
    <3> QED BY <3>1, <3>2, <3>3 DEF CountsFit
  <2>4. DeletedWasNeverOrdered'
    BY <1>0, <1>3, <2>1 DEF Correct, Move, DeletedWasNeverOrdered
  <2> QED BY <2>2, <2>3, <2>4 DEF CatalogueInv
<1>4. ASSUME NEW s \in Sizes, Generate(s) PROVE CatalogueInv'
  <2>1. CatalogueTypeOK'
    BY <1>0, <1>4 DEF Generate, CatalogueTypeOK
  <2>2. SavingIsCurrent'
    BY <1>0, <1>4 DEF Generate, SavingIsCurrent, At
  <2>3. CountsFit' /\ DeletedWasNeverOrdered'
    BY <1>0, <1>4 DEF Generate, CountsFit, DeletedWasNeverOrdered
  <2> QED BY <2>1, <2>2, <2>3 DEF CatalogueInv
<1>5. ASSUME NEW w \in Workers, OpenForm(w) PROVE CatalogueInv'
  <2>1. [at |-> "form", form |-> quantity] \in Request
    BY <1>b DEF Request
  <2>2. forms' \in 0 .. MaxForms
    BY <1>b, <1>5, CatalogueAssumption DEF OpenForm, CatalogueAssumption
  <2> QED BY <1>5, <2>1, <2>2, IdleStep DEF OpenForm
<1>6. ASSUME NEW w \in Workers, NEW s \in Sizes, NEW q \in 0 .. MaxQuantity, NEW p \in Pricings,
             EditProduct(w, s, q, p)
      PROVE  CatalogueInv'
  <2> DEFINE form == [req[w].form EXCEPT ![s] = q]
  <2> DEFINE save == [at |-> "saving", form |-> form, new |-> [pricing EXCEPT ![s] = p],
                      legacy |-> Sizes \ tracked]
  <2>1. CASE ~exists \/ \E t \in tracked : form[t] # quantity[t]
    <3>1. Goto(w, Idle)
      BY <1>6, <2>1 DEF EditProduct
    <3> QED BY <1>6, <1>a, <1>b, <3>1, IdleStep DEF EditProduct
  <2>2. CASE ~(~exists \/ \E t \in tracked : form[t] # quantity[t])
    <3>1. form \in Amounts
      <4>1. req[w].form \in Amounts
        BY <1>6, <1>b, FormFields DEF EditProduct, At
      <4>2. q \in Nat
        BY CatalogueAssumption DEF CatalogueAssumption
      <4> QED BY <4>1, <4>2 DEF Amounts
    <3>2. save \in Request
      <4>1. [pricing EXCEPT ![s] = p] \in [Sizes -> Pricings]
        BY <1>0 DEF CatalogueTypeOK
      <4> HIDE DEF form
      <4> QED BY <3>1, <4>1 DEF Request
    <3>3. Goto(w, save)
      BY <1>6, <2>2 DEF EditProduct
    <3>4. req' \in [Workers -> Request] /\ req'[w] = save /\ \A v \in Workers : v # w => req'[v] = req[v]
      <4> HIDE DEF save
      <4> QED BY <1>b, <3>2, <3>3, GotoForm
    <3>5. CatalogueTypeOK'
      BY <1>0, <1>6, <3>4 DEF EditProduct, CatalogueTypeOK
    <3>6. SavingIsCurrent'
      <4>1. tracked \subseteq Sizes /\ \A t \in tracked : form[t] = quantity[t]
        BY <1>0, <2>2 DEF CatalogueTypeOK
      <4>2. \A v \in Workers : ~At(v, "saving")
        BY <1>6 DEF EditProduct, Free
      <4>3. \A v \in Workers : At(v, "saving")' => v = w
        BY <3>4, <4>2 DEF At
      <4>4. \A t \in Sizes : t \notin save.legacy => t \in tracked /\ save.form[t] = quantity[t]
        BY <4>1
      <4>5. tracked' = tracked /\ quantity' = quantity
        BY <1>6 DEF EditProduct
      <4> HIDE DEF save
      <4> QED BY <3>4, <4>3, <4>4, <4>5 DEF SavingIsCurrent
    <3>7. CountsFit' /\ DeletedWasNeverOrdered'
      BY <1>0, <1>6 DEF EditProduct, CountsFit, DeletedWasNeverOrdered
    <3> QED BY <3>5, <3>6, <3>7 DEF CatalogueInv
  <2> QED BY <2>1, <2>2
<1>7. ASSUME NEW w \in Workers, EditCommit(w) PROVE CatalogueInv'
  <2> DEFINE r == req[w]
  <2>1. r.form \in Amounts /\ r.new \in [Sizes -> Pricings]
    BY <1>7, <1>b, FormFields DEF EditCommit, At
  <2>2. Derived(r.form, r.new, phase) \in Nat /\ UnitsOf(r.form) \in Nat
    BY <2>1, DerivedIsPrice, SumOfAmounts
  <2>3. Goto(w, Idle)
    BY <1>7 DEF EditCommit
  <2>4. req' \in [Workers -> Request] /\ req'[w] = Idle /\ \A v \in Workers : v # w => req'[v] = req[v]
    BY <1>a, <1>b, <2>3, GotoForm
  <2>5. CatalogueTypeOK'
    BY <1>0, <1>7, <2>1, <2>2, <2>4 DEF EditCommit, CatalogueTypeOK
  <2>6. SavingIsCurrent'
    <3>1. \A v \in Workers : At(v, "saving") => v = w
      BY <1>0, <1>7 DEF EditCommit, SavingIsCurrent
    <3>2. \A v \in Workers : ~At(v, "saving")'
      BY <1>a, <2>4, <3>1 DEF At
    <3> QED BY <3>2 DEF SavingIsCurrent
  <2>7. CountsFit' /\ DeletedWasNeverOrdered'
    BY <1>0, <1>7 DEF EditCommit, CountsFit, DeletedWasNeverOrdered
  <2> QED BY <2>5, <2>6, <2>7 DEF CatalogueInv
<1>8. ASSUME NEW w \in Workers, EditAbort(w) PROVE CatalogueInv'
  BY <1>8, <1>a, <1>b, IdleStep DEF EditAbort
<1>9. ASSUME NEW w \in Workers, NEW p \in Pricings, NEW t \in {{}, Sizes}, Restructure(w, p, t) PROVE CatalogueInv'
  <2>1. CASE ~exists \/ lines > 0 \/ tracked # {} \/ notes > 0
    BY <1>9, <1>a, <1>b, <2>1, IdleStep DEF Restructure
  <2>2. CASE ~(~exists \/ lines > 0 \/ tracked # {} \/ notes > 0)
    <3>1. quantity' \in Amounts /\ pricing' \in [Sizes -> Pricings] /\ tracked' \subseteq Sizes
      BY <1>9, <2>2 DEF Restructure, Amounts
    <3>2. stored' \in Nat /\ total' \in Int
      BY <1>9, <2>2, <3>1, DerivedIsPrice DEF Restructure
    <3>3. req' \in [Workers -> Request] /\ req'[w] = Idle /\ \A v \in Workers : v # w => req'[v] = req[v]
      BY <1>9, <1>a, <1>b, GotoForm DEF Restructure
    <3>4. CatalogueTypeOK'
      BY <1>0, <1>9, <2>2, <3>1, <3>2, <3>3 DEF Restructure, CatalogueTypeOK
    <3>5. SavingIsCurrent'
      <4>1. \A v \in Workers : ~At(v, "saving")'
        BY <1>9, <1>a, <3>3 DEF Restructure, Free, At
      <4> QED BY <4>1 DEF SavingIsCurrent
    <3>6. CountsFit' /\ DeletedWasNeverOrdered'
      BY <1>0, <1>9, <2>2 DEF Restructure, CountsFit, DeletedWasNeverOrdered
    <3> QED BY <3>4, <3>5, <3>6 DEF CatalogueInv
  <2> QED BY <2>1, <2>2
<1>10. ASSUME NEW w \in Workers, DeleteCheck(w) PROVE CatalogueInv'
  <2>1. [at |-> "checked"] \in Request
    BY DEF Request
  <2> QED BY <1>b, <1>10, <2>1, IdleStep DEF DeleteCheck
<1>11. ASSUME NEW w \in Workers, DeleteLabels(w) PROVE CatalogueInv'
  <2>1. [at |-> "labels", lines |-> lines, tracked |-> tracked, kept |-> received > 0] \in Request
    BY <1>0 DEF Request, CatalogueTypeOK
  <2> QED BY <1>b, <1>11, <2>1, IdleStep DEF DeleteLabels
<1>12. ASSUME NEW w \in Workers, DeleteRows(w) PROVE CatalogueInv'
  <2>1. [at |-> "cleaned", lines |-> req[w].lines, tracked |-> req[w].tracked,
         kept |-> req[w].kept, notes |-> notes] \in Request
    <3>1. req[w].lines \in Nat /\ req[w].tracked \subseteq Sizes /\ req[w].kept \in BOOLEAN /\ notes \in Nat
      BY <1>0, <1>12, FormFields DEF DeleteRows, At, CatalogueTypeOK
    <3> QED BY <3>1 DEF Request
  <2> QED BY <1>b, <1>12, <2>1, IdleStep DEF DeleteRows
<1>13. ASSUME NEW w \in Workers, DeleteProduct(w) PROVE CatalogueInv'
  <2>1. req' \in [Workers -> Request]
    BY <1>13, <1>a, <1>b, GotoForm DEF DeleteProduct
  <2>2. lines' \in 0 .. MaxLines
    BY <1>0, <1>13, CatalogueAssumption DEF DeleteProduct, CatalogueTypeOK, CatalogueAssumption
  <2>3. CatalogueTypeOK'
    BY <1>0, <1>13, <2>1, <2>2 DEF DeleteProduct, CatalogueTypeOK
  <2>4. SavingIsCurrent'
    BY <1>13, <1>a, SavingStep DEF DeleteProduct
  <2>5. CountsFit' /\ DeletedWasNeverOrdered'
    BY <1>0, <1>13 DEF DeleteProduct, CountsFit, DeletedWasNeverOrdered
  <2> QED BY <2>3, <2>4, <2>5 DEF CatalogueInv
<1>14. ASSUME NEW w \in Workers, SyncRead(w) PROVE CatalogueInv'
  <2>1. [at |-> "sync", sum |-> UnitsOf(quantity)] \in Request
    BY <1>b, SumOfAmounts DEF Request
  <2> QED BY <1>b, <1>14, <2>1, IdleStep DEF SyncRead
<1>15. ASSUME NEW w \in Workers, SyncWrite(w) PROVE CatalogueInv'
  <2>1. req' \in [Workers -> Request]
    BY <1>15, <1>a, <1>b, GotoForm DEF SyncWrite
  <2>2. total' \in Int
    BY <1>0, <1>15, <1>b, FormFields DEF SyncWrite, At, CatalogueTypeOK
  <2>3. CatalogueTypeOK'
    BY <1>0, <1>15, <2>1, <2>2 DEF SyncWrite, CatalogueTypeOK
  <2>4. SavingIsCurrent'
    BY <1>15, <1>a, SavingStep DEF SyncWrite
  <2>5. CountsFit' /\ DeletedWasNeverOrdered'
    BY <1>0, <1>15 DEF SyncWrite, CountsFit, DeletedWasNeverOrdered
  <2> QED BY <2>3, <2>4, <2>5 DEF CatalogueInv
<1>16. ASSUME NEW j \in Jobs, JobRead(j) PROVE CatalogueInv'
  <2>1. Derived(quantity, pricing, phase) \in Nat
    BY <1>0, DerivedIsPrice DEF CatalogueTypeOK
  <2>2. CatalogueTypeOK'
    BY <1>0, <1>16, <2>1 DEF JobRead, CatalogueTypeOK
  <2>3. SavingIsCurrent' /\ CountsFit' /\ DeletedWasNeverOrdered'
    BY <1>0, <1>16 DEF JobRead, SavingIsCurrent, At, CountsFit, DeletedWasNeverOrdered
  <2> QED BY <2>2, <2>3 DEF CatalogueInv
<1>17. ASSUME NEW j \in Jobs, JobWrite(j) PROVE CatalogueInv'
  <2>1. CatalogueTypeOK'
    BY <1>0, <1>17 DEF JobWrite, CatalogueTypeOK
  <2>2. SavingIsCurrent' /\ CountsFit' /\ DeletedWasNeverOrdered'
    BY <1>0, <1>17 DEF JobWrite, SavingIsCurrent, At, CountsFit, DeletedWasNeverOrdered
  <2> QED BY <2>1, <2>2 DEF CatalogueInv
<1>18. ASSUME AddToCart PROVE CatalogueInv'
  <2>1. CatalogueTypeOK'
    BY <1>0, <1>18, CatalogueAssumption DEF AddToCart, CatalogueTypeOK, CatalogueAssumption
  <2>2. SavingIsCurrent' /\ CountsFit' /\ DeletedWasNeverOrdered'
    BY <1>0, <1>18 DEF AddToCart, SavingIsCurrent, At, CountsFit, DeletedWasNeverOrdered
  <2> QED BY <2>1, <2>2 DEF CatalogueInv
<1>19. ASSUME WindowTurns PROVE CatalogueInv'
  <2>1. CatalogueTypeOK'
    BY <1>0, <1>19 DEF WindowTurns, CatalogueTypeOK
  <2>2. SavingIsCurrent' /\ CountsFit' /\ DeletedWasNeverOrdered'
    BY <1>0, <1>19 DEF WindowTurns, SavingIsCurrent, At, CountsFit, DeletedWasNeverOrdered
  <2> QED BY <2>1, <2>2 DEF CatalogueInv
<1>20. ASSUME UNCHANGED catalogueVars PROVE CatalogueInv'
  BY <1>0, <1>20 DEF catalogueVars, CatalogueInv, CatalogueTypeOK, CountsFit, SavingIsCurrent, At, DeletedWasNeverOrdered
<1> QED
  BY <1>1, <1>2, <1>3, <1>4, <1>5, <1>6, <1>7, <1>8, <1>9, <1>10, <1>11, <1>12, <1>13, <1>14,
     <1>15, <1>16, <1>17, <1>18, <1>19, <1>20
  DEF CatalogueNext, Finish

\* The invariant holds throughout.
LEMMA CatalogueInvariance == CatalogueSpec => []CatalogueInv
<1>1. CatalogueInit => CatalogueInv
  BY CatalogueStart
<1>2. CatalogueInv /\ [CatalogueNext]_catalogueVars => CatalogueInv'
  BY StepInv
<1> QED BY <1>1, <1>2, PTL DEF CatalogueSpec

-----------------------------------------------------------------------------
(* What follows.                                                            *)

\* The variables keep their types, whatever the bounds.
THEOREM CatalogueTypeCorrect == CatalogueSpec => []CatalogueTypeOK
<1>1. CatalogueInv => CatalogueTypeOK
  BY DEF CatalogueInv
<1> QED BY <1>1, CatalogueInvariance, PTL

\* However many requests run beside the permanent delete, a product that some
\* order names is not deleted (deleteProductBySlug).
THEOREM OrderedIsKept == CatalogueSpec => []DeletedWasNeverOrdered
<1>1. CatalogueInv => DeletedWasNeverOrdered
  BY DEF CatalogueInv
<1> QED BY <1>1, CatalogueInvariance, PTL

\* A transaction that changes the quantities changes the total by as much, or
\* counts it again.
LEMMA TotalStep ==
  ASSUME CatalogueInv, [CatalogueNext]_catalogueVars, total = UnitsOf(quantity)
  PROVE  total' = UnitsOf(quantity') \/ \E w \in Workers : SyncWrite(w)
<1> USE DEF stockVars, derived, bounds
<1>0. total \in Int /\ UnitsOf(quantity) \in Nat
  BY SumOfAmounts DEF CatalogueInv, CatalogueTypeOK
<1>1. ASSUME NEW s \in Sizes, NEW d \in {1, -1}, Move(s, d) PROVE total' = UnitsOf(quantity')
  <2>1. quantity' \in Amounts /\ total' \in Int /\ total' - total = UnitsOf(quantity') - UnitsOf(quantity)
    BY <1>1, MoveStep
  <2>2. UnitsOf(quantity') \in Nat
    BY <2>1, SumOfAmounts
  <2> QED BY <1>0, <2>1, <2>2
<1>2. ASSUME NEW s \in Sizes, Order(s) \/ Receive(s) \/ Correct(s, 1) \/ Correct(s, -1)
      PROVE  total' = UnitsOf(quantity')
  BY <1>1, <1>2 DEF Order, Receive, Correct
<1>3. ASSUME NEW w \in Workers, EditCommit(w) PROVE total' = UnitsOf(quantity')
  BY <1>3 DEF EditCommit
<1>4. ASSUME NEW w \in Workers, NEW p \in Pricings, NEW t \in {{}, Sizes}, Restructure(w, p, t)
      PROVE  total' = UnitsOf(quantity')
  <2>1. CASE ~exists \/ lines > 0 \/ tracked # {} \/ notes > 0
    BY <1>4, <2>1 DEF Restructure
  <2>2. CASE ~(~exists \/ lines > 0 \/ tracked # {} \/ notes > 0)
    BY <1>4, <2>2, SumOfNothing DEF Restructure
  <2> QED BY <2>1, <2>2
<1>5. CASE UNCHANGED <<quantity, total>>
  BY <1>5
<1> QED
  BY <1>2, <1>3, <1>4, <1>5
  DEF CatalogueNext, Finish, catalogueVars, Generate, OpenForm, DeleteCheck, SyncRead, EditProduct, EditAbort,
      DeleteLabels, DeleteRows, DeleteProduct, JobRead, JobWrite, AddToCart, WindowTurns

\* A tracked size that no form being saved took for legacy moves as its rows do.
LEMMA TrackedStep ==
  ASSUME CatalogueInv, [CatalogueNext]_catalogueVars, NEW s \in tracked \cap tracked', ~SeenAsLegacy(s)
  PROVE  quantity'[s] - quantity[s] = ledger'[s] - ledger[s]
<1> USE DEF stockVars, derived, bounds
<1>0. s \in Sizes /\ quantity[s] \in Int /\ ledger[s] \in Int
  BY DEF CatalogueInv, CatalogueTypeOK, Amounts
<1>1. ASSUME NEW t \in Sizes, Order(t) \/ Receive(t) \/ Correct(t, 1) \/ Correct(t, -1)
      PROVE  quantity'[s] - quantity[s] = ledger'[s] - ledger[s]
  BY <1>0, <1>1, MoveStep DEF Order, Receive, Correct
<1>2. ASSUME NEW w \in Workers, EditCommit(w)
      PROVE  quantity'[s] - quantity[s] = ledger'[s] - ledger[s]
  <2>1. req[w].form[s] = quantity[s]
    BY <1>0, <1>2 DEF EditCommit, CatalogueInv, SavingIsCurrent, SeenAsLegacy
  <2> QED BY <1>0, <1>2, <2>1 DEF EditCommit
<1>3. ASSUME NEW w \in Workers, NEW p \in Pricings, NEW t \in {{}, Sizes}, Restructure(w, p, t)
      PROVE  UNCHANGED <<quantity, ledger>>
  BY <1>3 DEF Restructure
<1>4. CASE UNCHANGED <<quantity, ledger>>
  BY <1>0, <1>4
<1> QED
  BY <1>1, <1>2, <1>3, <1>4
  DEF CatalogueNext, Finish, catalogueVars, Generate, OpenForm, DeleteCheck, SyncRead, EditProduct, EditAbort, SyncWrite,
      DeleteLabels, DeleteRows, DeleteProduct, JobRead, JobWrite, AddToCart, WindowTurns

\* Whatever interleaves with a form or the ledger, the total follows the sizes
\* and the stock of a tracked size changes only with a StockAdjustment row.
THEOREM StockStaysTogether == CatalogueSpec => StockMovesTogether
<1>1. CatalogueInv /\ [CatalogueNext]_catalogueVars =>
        [total = UnitsOf(quantity) => total' = UnitsOf(quantity)' \/ \E w \in Workers : SyncWrite(w)]_catalogueVars
  BY TotalStep DEF UnitsOf
<1>2. CatalogueInv /\ [CatalogueNext]_catalogueVars =>
        [\A s \in tracked \cap tracked' :
           ~SeenAsLegacy(s) => quantity'[s] - quantity[s] = ledger'[s] - ledger[s]]_catalogueVars
  BY TrackedStep
<1> QED BY <1>1, <1>2, CatalogueInvariance, PTL DEF CatalogueSpec, StockMovesTogether, TotalFollowsSizes, TrackedMovesAreNoted

-----------------------------------------------------------------------------
(* The cache.                                                               *)

\* A load that knows the version it will answer with.
Loaded(l) == load[l].at \in {"loaded", "stored"}

\* Each clear() answers one commit.
Counters == generation + clearing = db /\ cleared <= db

\* A load of the current generation started after the last clear().
LoadsAreFresh ==
  \A l \in Loads : load[l] # Nothing =>
    /\ load[l].generation <= generation
    /\ Current(l) /\ Loaded(l) => load[l].version >= cleared

\* Whoever waits for a load will not be answered with less than was cleared when
\* it asked.
WaitersAreServed ==
  \A r \in Requests : reply[r].at = "waiting" =>
    /\ load[reply[r].load] # Nothing
    /\ reply[r].floor <= cleared
    /\ Loaded(reply[r].load) => load[reply[r].load].version >= reply[r].floor

\* The inductive invariant.
CacheInv ==
  /\ CacheTypeOK
  /\ Counters
  /\ NothingStale
  /\ LoadsAreFresh
  /\ OneLoadPerKey
  /\ WaitersAreServed
  /\ AnswersAreFresh

-----------------------------------------------------------------------------
\* What the entries of a cache may become: every entry was there before.
From(new, old) ==
  /\ new \in Seq(Entry)
  /\ \A i \in DOMAIN new : \E j \in DOMAIN old :
       new[i].version = old[j].version

\* A part of a sequence has its entries from it.
LEMMA SubSeqFrom ==
  ASSUME NEW es \in Seq(Entry), NEW m \in 1 .. Len(es) + 1, NEW n \in 0 .. Len(es)
  PROVE  From(SubSeq(es, m, n), es)
  <1>1. /\ SubSeq(es, m, n) \in Seq(Entry)
        /\ Len(SubSeq(es, m, n)) = IF m <= n THEN n - m + 1 ELSE 0
        /\ \A i \in 1 .. n - m + 1 : SubSeq(es, m, n)[i] = es[m + i - 1]
    BY SubSeqProperties
  <1>2. ASSUME NEW i \in DOMAIN SubSeq(es, m, n)
        PROVE  \E j \in DOMAIN es : SubSeq(es, m, n)[i].version = es[j].version
    <2>1. i \in 1 .. n - m + 1 /\ m <= n
      BY <1>1, <1>2, LenProperties
    <2>2. m + i - 1 \in DOMAIN es /\ SubSeq(es, m, n)[i] = es[m + i - 1]
      BY <1>1, <2>1, LenProperties
    <2> QED BY <2>2
  <1> QED BY <1>1, <1>2 DEF From

\* Removing a key's entry adds none.
LEMMA RemovedFrom ==
  ASSUME entries \in Seq(Entry), NEW k \in Keys
  PROVE  From(Removed(k), entries)
  <1>1. CASE ~HasEntry(k)
    BY <1>1 DEF Removed, From
  <1>2. CASE HasEntry(k)
    <2> DEFINE i == Index(k)
               a == SubSeq(entries, 1, i - 1)
               b == SubSeq(entries, i + 1, Len(entries))
    <2>1. i \in 1 .. Len(entries)
      BY <1>2, LenProperties DEF HasEntry, Index
    <2>2. From(a, entries) /\ From(b, entries)
      BY <2>1, SubSeqFrom, LenProperties
    <2>3. Removed(k) = a \o b
      BY <1>2 DEF Removed, RemoveAt
    <2>4. /\ a \o b \in Seq(Entry)
          /\ Len(a \o b) = Len(a) + Len(b)
          /\ \A j \in 1 .. Len(a) + Len(b) :
               (a \o b)[j] = IF j <= Len(a) THEN a[j] ELSE b[j - Len(a)]
      BY <2>2, ConcatProperties DEF From
    <2> HIDE DEF a, b
    <2>5. ASSUME NEW j \in DOMAIN (a \o b)
          PROVE  \E n \in DOMAIN entries : (a \o b)[j].version = entries[n].version
      <3>1. /\ j \in 1 .. Len(a) + Len(b) /\ Len(a) \in Nat /\ Len(b) \in Nat
            /\ DOMAIN a = 1 .. Len(a) /\ DOMAIN b = 1 .. Len(b)
        BY <2>2, <2>4, LenProperties DEF From
      <3>2. CASE j <= Len(a)
        BY <2>2, <2>4, <3>1, <3>2 DEF From
      <3>3. CASE ~(j <= Len(a))
        <4>1. j - Len(a) \in DOMAIN b /\ (a \o b)[j] = b[j - Len(a)]
          BY <2>4, <3>1, <3>3
        <4> QED BY <2>2, <4>1 DEF From
      <3> QED BY <3>2, <3>3
    <2> QED BY <2>3, <2>4, <2>5 DEF From
  <1> QED BY <1>1, <1>2

\* Entries from entries.
LEMMA FromTrans ==
  ASSUME NEW a, NEW b, NEW c, From(a, b), From(b, c)
  PROVE  From(a, c)
  BY DEF From

\* store() leaves old entries and adds one.
LEMMA PutAdds ==
  ASSUME entries \in Seq(Entry), NEW k \in Keys, NEW v \in Version, NEW bytes \in Nat,
         Put(k, v, bytes)
  PROVE  /\ entries' \in Seq(Entry)
         /\ \A i \in DOMAIN entries' :
              \/ entries'[i].version = v
              \/ \E j \in DOMAIN entries : entries'[i].version = entries[j].version
  <1> DEFINE e == [key |-> k, version |-> v, bytes |-> bytes, expired |-> FALSE]
  <1>1. PICK n \in 0 .. Len(Removed(k)) : entries' = Append(Drop(Removed(k), n), e)
    BY DEF Put
  <1>2. From(Removed(k), entries)
    BY RemovedFrom
  <1>3. From(Drop(Removed(k), n), Removed(k))
    <2>1. /\ Removed(k) \in Seq(Entry) /\ Len(Removed(k)) \in Nat
      BY <1>2, LenProperties DEF From
    <2>2. n + 1 \in 1 .. Len(Removed(k)) + 1 /\ Len(Removed(k)) \in 0 .. Len(Removed(k))
      BY <2>1
    <2> QED BY <2>1, <2>2, SubSeqFrom DEF Drop
  <1> DEFINE es == Drop(Removed(k), n)
  <1>4. From(es, entries)
    BY <1>2, <1>3, FromTrans
  <1>5. e \in Entry /\ es \in Seq(Entry)
    BY <1>4 DEF Entry, From
  <1> HIDE DEF es, e
  <1>6. /\ Append(es, e) \in Seq(Entry)
        /\ Len(Append(es, e)) = Len(es) + 1
        /\ \A i \in 1 .. Len(es) : Append(es, e)[i] = es[i]
        /\ Append(es, e)[Len(es) + 1] = e
    BY <1>5, AppendProperties
  <1>7. entries' = Append(es, e)
    BY <1>1 DEF es, e
  <1>8. ASSUME NEW i \in DOMAIN Append(es, e)
        PROVE  \/ Append(es, e)[i].version = v
               \/ \E j \in DOMAIN entries : Append(es, e)[i].version = entries[j].version
    <2>1. i \in 1 .. Len(es) + 1 /\ Len(es) \in Nat /\ DOMAIN es = 1 .. Len(es)
      BY <1>5, <1>6, LenProperties
    <2>2. CASE i = Len(es) + 1
      BY <1>6, <2>2 DEF e
    <2>3. CASE i # Len(es) + 1
      BY <1>4, <1>6, <2>1, <2>3 DEF From
    <2> QED BY <2>2, <2>3
  <1> QED BY <1>6, <1>7, <1>8

-----------------------------------------------------------------------------
\* The fields a request carries are those of its step.
LEMMA ReplyFields ==
  ASSUME NEW r \in Reply
  PROVE  /\ r.at \in {"idle", "waiting", "answered"}
         /\ r.at = "waiting" => r.load \in Loads /\ r.floor \in Version
         /\ r.at = "answered" => r.version \in Version /\ r.floor \in Version
  BY DEF Reply, Unasked

\* The fields a load carries are those of its step.
LEMMA LoadFields ==
  ASSUME NEW a \in Load
  PROVE  /\ a # Nothing
         /\ a.key \in Keys /\ a.generation \in Version
         /\ a.at \in {"started", "failed", "loaded", "stored"}
         /\ a.at \in {"loaded", "stored"} => a.version \in Version
  BY CacheAssumption DEF Load, CacheAssumption

\* The invariant holds at the start.
LEMMA CacheStart == CacheInit => CacheInv
  <1> SUFFICES ASSUME CacheInit PROVE CacheInv
    OBVIOUS
  <1>1. CacheTypeOK
    <2>1. 0 \in Version
      BY CacheAssumption DEF CacheAssumption, Version
    <2>2. <<>> \in Seq(Entry)
      BY EmptySeq
    <2> QED BY <2>1, <2>2 DEF CacheInit, CacheTypeOK, Reply
  <1>2. Counters /\ LoadsAreFresh /\ OneLoadPerKey /\ WaitersAreServed /\ AnswersAreFresh
    BY DEF CacheInit, Counters, LoadsAreFresh, OneLoadPerKey, WaitersAreServed,
       AnswersAreFresh, Current, Unasked
  <1>3. NothingStale
    BY DEF CacheInit, NothingStale
  <1> QED BY <1>1, <1>2, <1>3 DEF CacheInv

\* Versions can be compared.
LEMMA VersionsAreNumbers == Version \subseteq Nat
  BY CacheAssumption DEF CacheAssumption, Version

\* Entries that come from the old ones are as fresh as those were.
LEMMA FromNotStale ==
  ASSUME NothingStale, From(entries', entries), cleared' = cleared
  PROVE  NothingStale'
  BY DEF NothingStale, From

\* A request that is answered from the cache.
LEMMA HitStep ==
  ASSUME CacheInv, NEW r \in Requests, NEW k \in Keys, AskHit(r, k)
  PROVE  CacheInv'
  <1> DEFINE i == Index(k)
  <1>1. i \in DOMAIN entries /\ entries[i] \in Entry
    <2>1. i \in DOMAIN entries
      BY DEF AskHit, Fresh, Index
    <2> QED BY <2>1, LenProperties DEF CacheInv, CacheTypeOK
  <1>2. entries[i].version \in Version /\ entries[i].version >= cleared
    BY <1>1 DEF Entry, CacheInv, NothingStale
  <1> DEFINE a == AnswerWith(entries[i].version)
  <1>3. /\ a \in Reply /\ a.at = "answered" /\ a.version >= a.floor
    BY <1>2 DEF AnswerWith, Reply, CacheInv, CacheTypeOK
  <1>4. /\ reply' = [reply EXCEPT ![r] = a]
        /\ UNCHANGED <<dbVars, entryVars, inFlight, generation, load>>
    BY DEF AskHit
  <1> HIDE DEF a, i
  <1>5. CacheTypeOK'
    BY <1>3, <1>4 DEF CacheInv, CacheTypeOK, dbVars, entryVars
  <1>6. WaitersAreServed' /\ AnswersAreFresh'
    BY <1>3, <1>4 DEF CacheInv, CacheTypeOK, WaitersAreServed, AnswersAreFresh, Loaded, dbVars
  <1>7. Counters' /\ NothingStale' /\ LoadsAreFresh' /\ OneLoadPerKey'
    BY <1>4 DEF CacheInv, Counters, NothingStale, LoadsAreFresh, OneLoadPerKey, Current,
                Loaded, dbVars, entryVars
  <1> QED BY <1>5, <1>6, <1>7 DEF CacheInv

\* A request that joins a load that is running.
LEMMA JoinStep ==
  ASSUME CacheInv, NEW r \in Requests, NEW k \in Keys, AskJoin(r, k)
  PROVE  CacheInv'
  <1> DEFINE l == inFlight[k]
             a == Await(l)
  <1>1. /\ l \in Loads /\ load[l] # Nothing /\ Current(l)
        /\ Loaded(l) => load[l].version >= cleared
    BY DEF AskJoin, CacheInv, CacheTypeOK, OneLoadPerKey, LoadsAreFresh, Current
  <1>2. /\ a \in Reply /\ a.at = "waiting" /\ a.load = l /\ a.floor = cleared
    BY <1>1 DEF Await, Reply, CacheInv, CacheTypeOK
  <1>3. From(entries', entries) /\ cleared' = cleared
    BY RemovedFrom DEF AskJoin, CacheInv, CacheTypeOK, dbVars
  <1>4. /\ reply' = [reply EXCEPT ![r] = a]
        /\ UNCHANGED <<dbVars, inFlight, generation, load>>
    BY DEF AskJoin
  <1> HIDE DEF a, l
  <1>5. CacheTypeOK'
    BY <1>2, <1>3, <1>4 DEF CacheInv, CacheTypeOK, dbVars, From
  <1>6. WaitersAreServed' /\ AnswersAreFresh'
    <2>1. cleared \in Nat
      BY VersionsAreNumbers DEF CacheInv, CacheTypeOK
    <2> QED
      BY <1>1, <1>2, <1>4, <2>1
      DEF CacheInv, CacheTypeOK, WaitersAreServed, AnswersAreFresh, Loaded, dbVars
  <1>7. NothingStale'
    BY <1>3, FromNotStale DEF CacheInv
  <1>8. Counters' /\ LoadsAreFresh' /\ OneLoadPerKey'
    BY <1>4 DEF CacheInv, Counters, LoadsAreFresh, OneLoadPerKey, Current, Loaded, dbVars
  <1> QED BY <1>5, <1>6, <1>7, <1>8 DEF CacheInv

\* A request that starts a load.
LEMMA StartStep ==
  ASSUME CacheInv, NEW r \in Requests, NEW k \in Keys, NEW l \in Loads, AskLoad(r, k, l)
  PROVE  CacheInv'
  <1> DEFINE a == Await(l)
             b == [key |-> k, generation |-> generation, at |-> "started"]
  <1>1. /\ b \in Load /\ b # Nothing
        /\ b.key = k /\ b.generation = generation /\ b.at = "started"
    <2>1. b \in Load
      BY DEF Load, CacheInv, CacheTypeOK
    <2> QED BY <2>1, LoadFields
  <1>2. /\ a \in Reply /\ a.at = "waiting" /\ a.load = l /\ a.floor = cleared
    BY DEF Await, Reply, CacheInv, CacheTypeOK
  <1>3. From(entries', entries) /\ cleared' = cleared
    BY RemovedFrom DEF AskLoad, CacheInv, CacheTypeOK, dbVars
  <1>4. /\ reply' = [reply EXCEPT ![r] = a]
        /\ load' = [load EXCEPT ![l] = b]
        /\ inFlight' = [inFlight EXCEPT ![k] = l]
        /\ load[l] = Nothing /\ inFlight[k] = Nothing
        /\ UNCHANGED <<dbVars, generation>>
    BY DEF AskLoad
  <1> HIDE DEF a, b
  <1>5. CacheTypeOK'
    BY <1>1, <1>2, <1>3, <1>4 DEF CacheInv, CacheTypeOK, dbVars, From
  <1>6. WaitersAreServed' /\ AnswersAreFresh'
    <2>1. cleared \in Nat
      BY VersionsAreNumbers DEF CacheInv, CacheTypeOK
    <2> QED
      BY <1>1, <1>2, <1>4, <2>1, ReplyFields
      DEF CacheInv, CacheTypeOK, WaitersAreServed, AnswersAreFresh, Loaded, dbVars
  <1>7. NothingStale'
    BY <1>3, FromNotStale DEF CacheInv
  <1>8. Counters' /\ LoadsAreFresh'
    BY <1>1, <1>4, VersionsAreNumbers
    DEF CacheInv, CacheTypeOK, Counters, LoadsAreFresh, Current, Loaded, dbVars
  <1>9. OneLoadPerKey'
    BY <1>1, <1>4, CacheAssumption
    DEF CacheInv, CacheTypeOK, OneLoadPerKey, Current, CacheAssumption
  <1> QED BY <1>5, <1>6, <1>7, <1>8, <1>9 DEF CacheInv

\* What the loader does: the load of l becomes b, which is about the same key and
\* generation, and knows a version only if that is as fresh as its waiters need.
LEMMA ChangeLoad ==
  ASSUME CacheInv, NEW l \in Loads, NEW b \in Load,
         load[l] # Nothing,
         load' = [load EXCEPT ![l] = b],
         b.key = load[l].key, b.generation = load[l].generation,
         b.at \in {"loaded", "stored"} =>
           \/ b.version = db
           \/ Loaded(l) /\ b.version = load[l].version,
         UNCHANGED <<dbVars, inFlight, generation, reply>>
  PROVE  /\ load' \in [Loads -> Load \cup {Nothing}]
         /\ Counters' /\ LoadsAreFresh' /\ OneLoadPerKey'
         /\ WaitersAreServed' /\ AnswersAreFresh'
  <1>1. b # Nothing
    BY LoadFields
  <1>2. cleared \in Nat /\ db \in Nat /\ cleared <= db
    BY VersionsAreNumbers DEF CacheInv, CacheTypeOK, Counters
  <1>3. LoadsAreFresh'
    BY <1>1, <1>2 DEF CacheInv, CacheTypeOK, LoadsAreFresh, Current, Loaded, dbVars
  <1>4. WaitersAreServed'
    <2> SUFFICES ASSUME NEW r \in Requests, reply[r].at = "waiting"
                 PROVE  /\ load'[reply[r].load] # Nothing
                        /\ reply[r].floor <= cleared
                        /\ load'[reply[r].load].at \in {"loaded", "stored"} =>
                             load'[reply[r].load].version >= reply[r].floor
      BY DEF WaitersAreServed, Loaded, dbVars
    <2>1. reply[r].load \in Loads /\ reply[r].floor \in Nat
      BY ReplyFields, VersionsAreNumbers DEF CacheInv, CacheTypeOK
    <2>2. /\ load[reply[r].load] # Nothing /\ reply[r].floor <= cleared
          /\ Loaded(reply[r].load) => load[reply[r].load].version >= reply[r].floor
      BY DEF CacheInv, WaitersAreServed
    <2>3. CASE reply[r].load = l
      BY <1>1, <1>2, <2>1, <2>2, <2>3 DEF CacheInv, CacheTypeOK
    <2>4. CASE reply[r].load # l
      BY <2>1, <2>2, <2>4 DEF CacheInv, CacheTypeOK, Loaded
    <2> QED BY <2>3, <2>4
  <1>5. OneLoadPerKey'
    BY <1>1 DEF CacheInv, CacheTypeOK, OneLoadPerKey, Current
  <1> QED BY <1>3, <1>4, <1>5 DEF CacheInv, CacheTypeOK, Counters, AnswersAreFresh, dbVars

\* A loader's query, answered or thrown, keeps the invariant.
LEMMA LoaderStep ==
  ASSUME CacheInv, NEW l \in Loads, Query(l) \/ Throw(l)
  PROVE  CacheInv'
  <1>1. load[l] \in Load /\ load[l].at = "started" /\ load[l] # Nothing
    BY DEF Query, Throw, CacheInv, CacheTypeOK
  <1>2. UNCHANGED <<dbVars, entryVars, inFlight, generation, reply>>
    BY DEF Query, Throw
  <1>3. PICK b \in Load :
          /\ load' = [load EXCEPT ![l] = b]
          /\ b.key = load[l].key /\ b.generation = load[l].generation
          /\ b.at \in {"loaded", "stored"} => b.version = db
    <2>1. CASE Query(l)
      <3> DEFINE b == [key |-> load[l].key, generation |-> load[l].generation,
                       at |-> "loaded", version |-> db]
      <3>1. b \in Load
        BY <1>1, LoadFields DEF Load, CacheInv, CacheTypeOK
      <3>2. load' = [load EXCEPT ![l] = b]
        BY <2>1 DEF Query
      <3> QED BY <3>1, <3>2
    <2>2. CASE Throw(l)
      <3> DEFINE b == [load[l] EXCEPT !.at = "failed"]
      <3>1. b \in Load /\ b.at = "failed"
                /\ b.key = load[l].key /\ b.generation = load[l].generation
        BY <1>1 DEF Load
      <3>2. load' = [load EXCEPT ![l] = b]
        BY <2>2 DEF Throw
      <3> QED BY <3>1, <3>2
    <2> QED BY <2>1, <2>2
  <1>4. /\ load' \in [Loads -> Load \cup {Nothing}]
        /\ Counters' /\ LoadsAreFresh' /\ OneLoadPerKey'
        /\ WaitersAreServed' /\ AnswersAreFresh'
    BY <1>1, <1>2, <1>3, ChangeLoad
  <1>5. CacheTypeOK' /\ NothingStale'
    BY <1>2, <1>4 DEF CacheInv, CacheTypeOK, NothingStale, dbVars, entryVars
  <1> QED BY <1>4, <1>5 DEF CacheInv

\* Only a value of the current generation is stored, and that is fresh.
LEMMA StoreStep ==
  ASSUME CacheInv, NEW l \in Loads, NEW bytes \in ByteSizes, Store(l, bytes)
  PROVE  CacheInv'
  <1>1. load[l] \in Load /\ load[l].at = "loaded" /\ load[l] # Nothing
    BY DEF Store, CacheInv, CacheTypeOK
  <1>2. UNCHANGED <<dbVars, inFlight, generation, reply>>
    BY DEF Store
  <1> DEFINE b == [load[l] EXCEPT !.at = "stored"]
  <1>3. /\ b \in Load /\ b.key = load[l].key /\ b.generation = load[l].generation
        /\ b.version = load[l].version
    BY <1>1 DEF Load
  <1>4. load' = [load EXCEPT ![l] = b]
    BY DEF Store
  <1> HIDE DEF b
  <1>5. /\ load' \in [Loads -> Load \cup {Nothing}]
        /\ Counters' /\ LoadsAreFresh' /\ OneLoadPerKey'
        /\ WaitersAreServed' /\ AnswersAreFresh'
    BY <1>1, <1>2, <1>3, <1>4, ChangeLoad DEF Loaded
  <1>6. entries' \in Seq(Entry) /\ NothingStale'
    <2>1. CASE Storable(l, bytes)
      <3>1. load[l].version >= cleared
        BY <1>1, <2>1 DEF Storable, CacheInv, LoadsAreFresh, Current, Loaded
      <3>2. Put(load[l].key, load[l].version, bytes)
        BY <2>1 DEF Store
      <3>3. /\ entries \in Seq(Entry) /\ load[l].key \in Keys
            /\ load[l].version \in Version /\ bytes \in Nat
        BY <1>1, LoadFields, CacheAssumption DEF CacheInv, CacheTypeOK, CacheAssumption
      <3>4. /\ entries' \in Seq(Entry)
            /\ \A i \in DOMAIN entries' :
                 \/ entries'[i].version = load[l].version
                 \/ \E j \in DOMAIN entries : entries'[i].version = entries[j].version
        BY <3>2, <3>3, PutAdds
      <3>5. cleared' = cleared
        BY <1>2 DEF dbVars
      <3> QED BY <3>1, <3>4, <3>5 DEF CacheInv, NothingStale
    <2>2. CASE ~Storable(l, bytes)
      BY <1>2, <2>2 DEF Store, CacheInv, CacheTypeOK, NothingStale, entryVars, dbVars
    <2> QED BY <2>1, <2>2
  <1>7. CacheTypeOK'
    BY <1>2, <1>5, <1>6 DEF CacheInv, CacheTypeOK, dbVars
  <1> QED BY <1>5, <1>6, <1>7 DEF CacheInv

\* A load that stores what it read, if no clear came between, keeps it.
LEMMA SettleStep ==
  ASSUME CacheInv, NEW l \in Loads, Settle(l)
  PROVE  CacheInv'
  <1>1. /\ load[l] \in Load /\ load[l].at \in {"stored", "failed"} /\ load[l] # Nothing
        /\ load[l].key \in Keys
    BY LoadFields DEF Settle, CacheInv, CacheTypeOK
  <1>2. /\ UNCHANGED <<dbVars, entryVars, generation>>
        /\ inFlight' = [inFlight EXCEPT ![load[l].key] = IF @ = l THEN Nothing ELSE @]
        /\ load' = [load EXCEPT ![l] = Nothing]
    BY DEF Settle, LeftInFlight
  <1>3. ASSUME NEW r \in Requests
        PROVE  \/ reply'[r] = reply[r] /\ ~(reply[r].at = "waiting" /\ reply[r].load = l)
               \/ reply'[r] = Unasked
               \/ /\ reply'[r] \in Reply /\ reply'[r].at = "answered"
                  /\ reply'[r].version >= reply'[r].floor
    <2> DEFINE a == [at |-> "answered", version |-> load[l].version, floor |-> reply[r].floor]
    <2>1. CASE reply[r].at = "waiting" /\ reply[r].load = l /\ load[l].at = "stored"
      <3>1. reply'[r] = a
        BY <2>1 DEF Settle
      <3>2. load[l].version >= reply[r].floor
        BY <2>1 DEF CacheInv, WaitersAreServed, Loaded
      <3>3. load[l].version \in Version /\ reply[r].floor \in Version
        BY <1>1, <2>1, LoadFields, ReplyFields DEF CacheInv, CacheTypeOK
      <3>4. a \in Reply
        BY <3>3 DEF Reply
      <3> QED BY <3>1, <3>2, <3>4
    <2>2. CASE reply[r].at = "waiting" /\ reply[r].load = l /\ load[l].at = "failed"
      BY <2>2 DEF Settle
    <2>3. CASE ~(reply[r].at = "waiting" /\ reply[r].load = l)
      BY <2>3 DEF Settle
    <2> QED BY <1>1, <2>1, <2>2, <2>3
  <1>4. reply' \in [Requests -> Reply]
    <2>1. reply' = [r \in Requests |-> reply'[r]]
      BY DEF Settle
    <2>2. ASSUME NEW r \in Requests PROVE reply'[r] \in Reply
      BY <1>3 DEF CacheInv, CacheTypeOK, Reply
    <2> QED BY <2>1, <2>2
  <1>5. CacheTypeOK'
    BY <1>1, <1>2, <1>4 DEF CacheInv, CacheTypeOK, dbVars, entryVars
  <1>6. AnswersAreFresh'
    BY <1>3 DEF CacheInv, AnswersAreFresh, Unasked
  <1>7. WaitersAreServed'
    <2> SUFFICES ASSUME NEW r \in Requests, reply'[r].at = "waiting"
                 PROVE  /\ load'[reply'[r].load] # Nothing
                        /\ reply'[r].floor <= cleared'
                        /\ load'[reply'[r].load].at \in {"loaded", "stored"} =>
                             load'[reply'[r].load].version >= reply'[r].floor
      BY DEF WaitersAreServed, Loaded
    <2>1. reply'[r] = reply[r] /\ reply[r].load # l
      BY <1>3 DEF Unasked
    <2>2. reply[r].load \in Loads
      BY <2>1, ReplyFields DEF CacheInv, CacheTypeOK
    <2> QED BY <1>2, <2>1, <2>2 DEF CacheInv, CacheTypeOK, WaitersAreServed, Loaded, dbVars
  <1>8. OneLoadPerKey'
    <2>1. ASSUME NEW m \in Loads, Current(m)' PROVE inFlight'[load'[m].key] = m
      <3>1. m # l /\ load'[m] = load[m] /\ load[m] \in Load /\ Current(m)
        BY <1>2, <2>1 DEF CacheInv, CacheTypeOK, Current
      <3>2. inFlight[load[m].key] = m /\ load[m].key \in Keys
        BY <3>1, LoadFields DEF CacheInv, OneLoadPerKey
      <3> QED BY <1>1, <1>2, <3>1, <3>2 DEF CacheInv, CacheTypeOK
    <2>2. ASSUME NEW k \in Keys, inFlight'[k] # Nothing
          PROVE  Current(inFlight[k])' /\ load'[inFlight'[k]].key = k
                 /\ inFlight'[k] = inFlight[k]
      <3>1. inFlight'[k] = inFlight[k]
        BY <1>1, <1>2, <2>2 DEF CacheInv, CacheTypeOK
      <3>2. /\ inFlight[k] \in Loads /\ Current(inFlight[k])
            /\ load[inFlight[k]].key = k
        BY <2>2, <3>1 DEF CacheInv, CacheTypeOK, OneLoadPerKey
      <3>3. inFlight[k] # l
        BY <1>1, <1>2, <2>2, <3>1, <3>2 DEF CacheInv, CacheTypeOK
      <3> QED BY <1>2, <3>1, <3>2, <3>3 DEF CacheInv, CacheTypeOK, Current
    <2> QED BY <2>1, <2>2 DEF OneLoadPerKey, Current
  <1>9. Counters' /\ NothingStale' /\ LoadsAreFresh'
    BY <1>2 DEF CacheInv, CacheTypeOK, Counters, NothingStale, LoadsAreFresh, Current, Loaded,
                dbVars, entryVars
  <1> QED BY <1>5, <1>6, <1>7, <1>8, <1>9 DEF CacheInv

\* An entry that expires takes nothing else with it.
LEMMA ExpireStep ==
  ASSUME CacheInv, NEW k \in Keys, Expire(k)
  PROVE  CacheInv'
  <1> DEFINE i == Index(k)
             e == [entries[i] EXCEPT !.expired = TRUE]
  <1>1. i \in 1 .. Len(entries) /\ entries[i] \in Entry
    <2>1. i \in DOMAIN entries
      BY DEF Expire, Fresh, Index
    <2> QED BY <2>1, LenProperties DEF CacheInv, CacheTypeOK
  <1>2. e \in Entry /\ e.version = entries[i].version
    BY <1>1 DEF Entry
  <1>3. entries' = [entries EXCEPT ![i] = e]
    BY DEF Expire
  <1> HIDE DEF e, i
  <1>4. From(entries', entries)
    <2>1. /\ entries' \in Seq(Entry) /\ Len(entries') = Len(entries)
          /\ \A j \in 1 .. Len(entries) : entries'[j] = IF j = i THEN e ELSE entries[j]
      BY <1>1, <1>2, <1>3, ExceptSeq DEF CacheInv, CacheTypeOK
    <2> QED BY <1>1, <1>2, <2>1, LenProperties DEF From, CacheInv, CacheTypeOK
  <1>5. UNCHANGED <<dbVars, inFlight, generation, load, reply>>
    BY DEF Expire
  <1>6. CacheTypeOK' /\ NothingStale'
    BY <1>4, <1>5, FromNotStale DEF CacheInv, CacheTypeOK, From, dbVars
  <1>7. Counters' /\ LoadsAreFresh' /\ OneLoadPerKey' /\ WaitersAreServed' /\ AnswersAreFresh'
    BY <1>5 DEF CacheInv, Counters, LoadsAreFresh, OneLoadPerKey, WaitersAreServed,
                AnswersAreFresh, Current, Loaded, dbVars
  <1> QED BY <1>6, <1>7 DEF CacheInv

\* A commit makes older entries stale only until its clear.
LEMMA CommitStep ==
  ASSUME CacheInv, Commit
  PROVE  CacheInv'
  <1>1. db' \in Version /\ clearing' \in Version
    BY CacheAssumption DEF Commit, CacheInv, CacheTypeOK, Counters, Version, CacheAssumption
  <1>2. Counters'
    BY VersionsAreNumbers DEF Commit, CacheInv, CacheTypeOK, Counters
  <1>3. UNCHANGED <<cleared, entryVars, inFlight, generation, load, reply>>
    BY DEF Commit
  <1> QED BY <1>1, <1>2, <1>3
          DEF CacheInv, CacheTypeOK, NothingStale, LoadsAreFresh, OneLoadPerKey,
              WaitersAreServed, AnswersAreFresh, Current, Loaded, entryVars

\* A clear empties the store and outdates the loads under way.
LEMMA ClearStep ==
  ASSUME CacheInv, Clear
  PROVE  CacheInv'
  <1>1. /\ generation' \in Version /\ clearing' \in Version /\ cleared' \in Version
        /\ Counters'
    BY CacheAssumption DEF Clear, CacheInv, CacheTypeOK, Counters, Version, CacheAssumption
  <1>2. entries' = <<>> /\ entries' \in Seq(Entry) /\ NothingStale'
    BY EmptySeq DEF Clear, NothingStale
  <1>3. CacheTypeOK'
    BY <1>1, <1>2 DEF Clear, CacheInv, CacheTypeOK
  <1>4. \A l \in Loads : load[l] # Nothing =>
          load[l].generation \in Nat /\ load[l].generation <= generation
    BY LoadFields, VersionsAreNumbers DEF CacheInv, CacheTypeOK, LoadsAreFresh
  <1>5. generation \in Nat /\ generation' = generation + 1 /\ load' = load
    BY VersionsAreNumbers DEF Clear, CacheInv, CacheTypeOK
  <1>6. LoadsAreFresh' /\ OneLoadPerKey'
    BY <1>4, <1>5 DEF Clear, LoadsAreFresh, OneLoadPerKey, Current
  <1>7. WaitersAreServed' /\ AnswersAreFresh'
    <2>1. cleared \in Nat /\ cleared' \in Nat /\ cleared <= cleared'
      BY VersionsAreNumbers DEF Clear, CacheInv, CacheTypeOK, Counters
    <2>2. \A r \in Requests : reply[r].at = "waiting" => reply[r].floor \in Nat
      BY ReplyFields, VersionsAreNumbers DEF CacheInv, CacheTypeOK
    <2> QED BY <2>1, <2>2 DEF Clear, CacheInv, WaitersAreServed, AnswersAreFresh, Loaded
  <1> QED BY <1>1, <1>2, <1>3, <1>6, <1>7 DEF CacheInv

-----------------------------------------------------------------------------
\* The invariant that everything below rests on: whatever is cached, loading or
\* awaited is tied to the generation it belongs to.
THEOREM CacheInvariance == CacheSpec => []CacheInv
  <1>1. CacheInv /\ [CacheNext]_cacheVars => CacheInv'
    <2> SUFFICES ASSUME CacheInv, [CacheNext]_cacheVars PROVE CacheInv'
      OBVIOUS
    <2>1. CASE CacheNext
      BY <2>1, HitStep, JoinStep, StartStep, LoaderStep, StoreStep, SettleStep,
         ExpireStep, CommitStep, ClearStep DEF CacheNext, LoadStep
    <2>2. CASE UNCHANGED cacheVars
      BY <2>2 DEF cacheVars, CacheInv, CacheTypeOK, Counters, NothingStale, LoadsAreFresh,
                  OneLoadPerKey, WaitersAreServed, AnswersAreFresh, Current, Loaded
    <2> QED BY <2>1, <2>2
  <1> QED BY CacheStart, <1>1, PTL DEF CacheSpec

\* Every variable but the running total keeps its type.
THEOREM CacheTypeCorrect == CacheSpec => []CacheTypeOK
  <1>1. CacheInv => CacheTypeOK
    BY DEF CacheInv
  <1> QED BY CacheInvariance, <1>1, PTL

\* Once clear() has been called, no entry shows data from before it.
THEOREM NoStaleEntry == CacheSpec => []NothingStale
  <1>1. CacheInv => NothingStale
    BY DEF CacheInv
  <1> QED BY CacheInvariance, <1>1, PTL

\* Whoever asks after a clear() is never answered with data from before it.
THEOREM NoStaleAnswer == CacheSpec => []AnswersAreFresh
  <1>1. CacheInv => AnswersAreFresh
    BY DEF CacheInv
  <1> QED BY CacheInvariance, <1>1, PTL

\* Concurrent misses of one key share one loader call.
THEOREM LoadsAreShared == CacheSpec => []OneLoadPerKey
  <1>1. CacheInv => OneLoadPerKey
    BY DEF CacheInv
  <1> QED BY CacheInvariance, <1>1, PTL

-----------------------------------------------------------------------------
(* The bounds of the cache.                                                 *)

\* The sizes of entries, one by one.
BytesOf(es) == [i \in DOMAIN es |-> es[i].bytes]

\* They are numbers that can be added up.
LEMMA BytesAreNumbers ==
  ASSUME NEW es \in Seq(Entry)
  PROVE  /\ DOMAIN es = 1 .. Len(es) /\ Len(es) \in Nat /\ IsFiniteSet(DOMAIN es)
         /\ \A i \in DOMAIN es : es[i] \in Entry /\ BytesOf(es)[i] = es[i].bytes
                                 /\ BytesOf(es)[i] \in Nat
         /\ Bytes(es) = SumFunctionOnSet(BytesOf(es), DOMAIN es)
         /\ Bytes(es) \in Nat
<1>1. DOMAIN es = 1 .. Len(es) /\ Len(es) \in Nat /\ IsFiniteSet(DOMAIN es)
  BY LenProperties, FS_Interval
<1>2. \A i \in DOMAIN es : es[i] \in Entry /\ BytesOf(es)[i] = es[i].bytes /\ BytesOf(es)[i] \in Nat
  <2>1. \A i \in DOMAIN es : es[i] \in Entry
    BY <1>1, ElementOfSeq
  <2>2. \A e \in Entry : e.bytes \in Nat
    BY DEF Entry
  <2> QED BY <2>1, <2>2 DEF BytesOf
<1>3. Bytes(es) = SumFunctionOnSet(BytesOf(es), DOMAIN es)
  <2>1. DOMAIN BytesOf(es) = DOMAIN es
    BY DEF BytesOf
  <2> QED BY <2>1 DEF Bytes, BytesOf, SumFunction
<1>4. Bytes(es) \in Nat
  BY <1>1, <1>2, <1>3, SumNat
<1> QED BY <1>1, <1>2, <1>3, <1>4

\* What two sequences add up to together.
LEMMA BytesConcat ==
  ASSUME NEW s \in Seq(Entry), NEW t \in Seq(Entry)
  PROVE  Bytes(s \o t) = Bytes(s) + Bytes(t)
<1> DEFINE st == s \o t
           m == Len(s)
           n == Len(t)
           q == BytesOf(st)
           h == [x \in 1 .. n |-> m + x]
<1>1. /\ st \in Seq(Entry) /\ Len(st) = m + n
      /\ \A i \in 1 .. m + n : st[i] = IF i <= m THEN s[i] ELSE t[i - m]
  BY ConcatProperties
<1>2. m \in Nat /\ n \in Nat /\ DOMAIN s = 1 .. m /\ DOMAIN t = 1 .. n /\ DOMAIN st = 1 .. m + n
  BY <1>1, LenProperties
<1> HIDE DEF st, m, n
<1>3. \A i \in 1 .. m + n : q[i] = st[i].bytes /\ q[i] \in Nat
  BY <1>1, <1>2, BytesAreNumbers
<1> HIDE DEF q
<1>4. /\ Bytes(st) = SumFunctionOnSet(q, 1 .. m + n)
      /\ Bytes(s) = SumFunctionOnSet(BytesOf(s), 1 .. m)
      /\ Bytes(t) = SumFunctionOnSet(BytesOf(t), 1 .. n)
  BY <1>1, <1>2, BytesAreNumbers DEF q
<1>5. SumFunctionOnSet(BytesOf(s), 1 .. m) = SumFunctionOnSet(q, 1 .. m)
  <2>1. \A i \in 1 .. m : BytesOf(s)[i] = q[i]
    <3>1. \A i \in 1 .. m : BytesOf(s)[i] = s[i].bytes
      BY <1>2 DEF BytesOf
    <3> QED BY <1>1, <1>2, <1>3, <3>1
  <2>2. IsFiniteSet(1 .. m)
    BY <1>2, FS_Interval
  <2> QED BY <2>1, <2>2, SumAgree
<1>6. SumFunctionOnSet(BytesOf(t), 1 .. n) = SumFunctionOnSet(q, m + 1 .. m + n)
  <2>1. \A x \in 1 .. n : BytesOf(t)[x] = q[h[x]] /\ q[h[x]] \in Int
    <3>1. \A x \in 1 .. n : BytesOf(t)[x] = t[x].bytes
      BY <1>2 DEF BytesOf
    <3> QED BY <1>1, <1>2, <1>3, <3>1
  <2>2. \A x, y \in 1 .. n : h[x] = h[y] => x = y
    BY <1>2
  <2>3. IsFiniteSet(1 .. n)
    BY <1>2, FS_Interval
  <2>4. {h[x] : x \in 1 .. n} = m + 1 .. m + n
    <3>1. ASSUME NEW i \in m + 1 .. m + n PROVE i \in {h[x] : x \in 1 .. n}
      <4>1. i - m \in 1 .. n /\ h[i - m] = i
        BY <1>2
      <4> QED BY <4>1
    <3>2. ASSUME NEW x \in 1 .. n PROVE h[x] \in m + 1 .. m + n
      BY <1>2
    <3> QED BY <3>1, <3>2
  <2> HIDE DEF h
  <2>5. Renames(h, 1 .. n, BytesOf(t), m + 1 .. m + n, q)
    BY <2>1, <2>2, <2>4, Zenon DEF Renames
  <2> QED BY <2>3, <2>5, SumRenamed
<1>7. SumFunctionOnSet(q, 1 .. m + n)
        = SumFunctionOnSet(q, 1 .. m) + SumFunctionOnSet(q, m + 1 .. m + n)
  <2>1. 1 .. m + n = (1 .. m) \cup (m + 1 .. m + n) /\ (1 .. m) \cap (m + 1 .. m + n) = {}
    BY <1>2
  <2>2. IsFiniteSet(1 .. m) /\ IsFiniteSet(m + 1 .. m + n)
    BY <1>2, FS_Interval
  <2>3. \A x \in (1 .. m) \cup (m + 1 .. m + n) : q[x] \in Int
    BY <1>3, <2>1
  <2>4. SumFunctionOnSet(q, (1 .. m) \cup (m + 1 .. m + n))
          = SumFunctionOnSet(q, 1 .. m) + SumFunctionOnSet(q, m + 1 .. m + n)
    BY <2>1, <2>2, <2>3, SumUnion
  <2> QED BY <2>1, <2>4
<1> QED BY <1>4, <1>5, <1>6, <1>7 DEF st

\* One entry adds up to its size.
LEMMA BytesOne ==
  ASSUME NEW e \in Entry
  PROVE  Bytes(<<e>>) = e.bytes /\ <<e>> \in Seq(Entry)
<1>1. <<e>> \in Seq(Entry) /\ Len(<<e>>) = 1 /\ <<e>>[1] = e
  OBVIOUS
<1> DEFINE q == BytesOf(<<e>>)
<1>2. DOMAIN <<e>> = {1} /\ q[1] = e.bytes /\ e.bytes \in Int
  <2>1. DOMAIN <<e>> = {1}
    OBVIOUS
  <2>2. e.bytes \in Int
    BY DEF Entry
  <2> QED BY <1>1, <2>1, <2>2 DEF BytesOf
<1>3. Bytes(<<e>>) = SumFunctionOnSet(q, {1})
  BY <1>1, <1>2, BytesAreNumbers
<1> HIDE DEF q
<1>4. SumFunctionOnSet(q, {} \cup {1}) = SumFunctionOnSet(q, {}) + q[1]
  BY <1>2, SumAdd, FS_EmptySet
<1>5. SumFunctionOnSet(q, {}) = 0 /\ {} \cup {1} = {1}
  BY SumEmpty
<1> QED BY <1>1, <1>2, <1>3, <1>4, <1>5

\* An empty cache adds up to nothing.
LEMMA BytesNone == Bytes(<<>>) = 0
<1>1. DOMAIN BytesOf(<<>>) = {}
  BY DEF BytesOf
<1> QED BY <1>1, SumEmpty DEF Bytes, BytesOf, SumFunction

\* A part of a sequence of entries.
LEMMA Part ==
  ASSUME NEW es \in Seq(Entry), NEW m \in 1 .. Len(es) + 1, NEW n \in m - 1 .. Len(es)
  PROVE  /\ SubSeq(es, m, n) \in Seq(Entry) /\ Len(SubSeq(es, m, n)) = n - m + 1
         /\ \A j \in 1 .. n - m + 1 : SubSeq(es, m, n)[j] = es[m + j - 1]
<1>1. Len(es) \in Nat /\ m \in Int /\ n \in Int /\ 1 <= m /\ m - 1 <= n /\ n <= Len(es)
  BY LenProperties
<1>2. \A j \in 1 .. Len(es) : es[j] \in Entry
  BY ElementOfSeq
<1>3. \A j \in m .. n : es[j] \in Entry
  BY <1>1, <1>2
<1>4. /\ SubSeq(es, m, n) \in Seq(Entry)
      /\ Len(SubSeq(es, m, n)) = IF m <= n THEN n - m + 1 ELSE 0
      /\ \A j \in 1 .. n - m + 1 : SubSeq(es, m, n)[j] = es[m + j - 1]
  BY <1>1, <1>3, SubSeqProperties
<1>5. (IF m <= n THEN n - m + 1 ELSE 0) = n - m + 1
  BY <1>1
<1> QED BY <1>4, <1>5

\* A sequence cut in two.
LEMMA BytesCut ==
  ASSUME NEW es \in Seq(Entry), NEW n \in 0 .. Len(es)
  PROVE  /\ SubSeq(es, 1, n) \in Seq(Entry) /\ SubSeq(es, n + 1, Len(es)) \in Seq(Entry)
         /\ Bytes(es) = Bytes(SubSeq(es, 1, n)) + Bytes(SubSeq(es, n + 1, Len(es)))
<1>1. Len(es) \in Nat /\ n \in Nat /\ n <= Len(es)
  BY LenProperties
<1>2. SubSeq(es, 1, n) \in Seq(Entry) /\ SubSeq(es, n + 1, Len(es)) \in Seq(Entry)
  <2>1. \A i \in 1 .. Len(es) : es[i] \in Entry
    BY ElementOfSeq
  <2> QED BY <1>1, <2>1, SubSeqProperties
<1>3. SubSeq(es, 1, n) \o SubSeq(es, n + 1, Len(es)) = SubSeq(es, 1, Len(es))
  <2>1. 1 \in 1 .. Len(es) + 1 /\ n \in 1 - 1 .. Len(es) /\ Len(es) \in n .. Len(es)
    BY <1>1
  <2> QED BY <2>1, ConcatAdjacentSubSeq
<1>4. SubSeq(es, 1, Len(es)) = es
  BY SubSeqFull
<1> QED BY <1>2, <1>3, <1>4, BytesConcat

\* No two entries are of one key.
KeysDiffer(es) == \A i, j \in DOMAIN es : es[i].key = es[j].key => i = j

\* remove(key) takes the key's entry, and its size from the running total.
LEMMA RemovedFits ==
  ASSUME CacheInv, WithinBounds, NEW k \in Keys
  PROVE  /\ Removed(k) \in Seq(Entry) /\ Len(Removed(k)) <= Len(entries)
         /\ RemovedTotal(k) = Bytes(Removed(k)) /\ RemovedTotal(k) <= MaxTotal
         /\ KeysDiffer(Removed(k))
         /\ \A j \in DOMAIN Removed(k) : Removed(k)[j].key # k
<1>0. /\ entries \in Seq(Entry) /\ DOMAIN entries = 1 .. Len(entries) /\ Len(entries) \in Nat
      /\ Bytes(entries) \in Nat /\ totalBytes = Bytes(entries) /\ totalBytes <= MaxTotal /\ KeysDiffer(entries)
  BY BytesAreNumbers DEF CacheInv, CacheTypeOK, WithinBounds, KeysDiffer
<1>1. CASE ~HasEntry(k)
  BY <1>0, <1>1 DEF Removed, RemovedTotal, HasEntry
<1>2. CASE HasEntry(k)
  <2> DEFINE i == Index(k)
             a == SubSeq(entries, 1, i - 1)
             c == SubSeq(entries, i, Len(entries))
             b == SubSeq(entries, i + 1, Len(entries))
             e == entries[i]
  <2>1. i \in 1 .. Len(entries) /\ e.key = k /\ e \in Entry /\ e.bytes \in Nat
    <3>1. i \in 1 .. Len(entries) /\ e.key = k
      BY <1>0, <1>2 DEF HasEntry, Index
    <3>2. e \in Entry
      BY <1>0, <3>1, ElementOfSeq
    <3> QED BY <3>1, <3>2 DEF Entry
  <2>2. Removed(k) = a \o b /\ RemovedTotal(k) = totalBytes - e.bytes
    BY <1>2 DEF Removed, RemovedTotal, RemoveAt
  <2> HIDE DEF i
  <2>3. a \in Seq(Entry) /\ c \in Seq(Entry) /\ Bytes(entries) = Bytes(a) + Bytes(c)
    <3>1. i - 1 \in 0 .. Len(entries) /\ (i - 1) + 1 = i
      BY <1>0, <2>1
    <3> QED BY <1>0, <3>1, BytesCut
  <2>4. c = <<e>> \o b
    <3>1. Len(entries) \in i .. Len(entries)
      BY <1>0, <2>1
    <3> QED BY <1>0, <2>1, <3>1, SubSeqRecursiveFirst
  <2>5. b \in Seq(Entry)
    <3>1. i \in 0 .. Len(entries)
      BY <1>0, <2>1
    <3> QED BY <1>0, <3>1, BytesCut
  <2>6. Bytes(c) = e.bytes + Bytes(b)
    BY <2>1, <2>4, <2>5, BytesOne, BytesConcat
  <2>7. /\ \A j \in 1 .. i - 1 : a[j] = entries[j]
        /\ \A j \in 1 .. Len(entries) - i : b[j] = entries[i + j]
        /\ Len(a) = i - 1 /\ Len(b) = Len(entries) - i
    <3>1. Len(a) = i - 1 - 1 + 1 /\ \A j \in 1 .. i - 1 - 1 + 1 : a[j] = entries[1 + j - 1]
      <4>1. 1 \in 1 .. Len(entries) + 1 /\ i - 1 \in 1 - 1 .. Len(entries)
        BY <1>0, <2>1
      <4> QED BY <1>0, <4>1, Part
    <3>2. /\ Len(b) = Len(entries) - (i + 1) + 1
          /\ \A j \in 1 .. Len(entries) - (i + 1) + 1 : b[j] = entries[i + 1 + j - 1]
      <4>1. i + 1 \in 1 .. Len(entries) + 1 /\ Len(entries) \in i + 1 - 1 .. Len(entries)
        BY <1>0, <2>1
      <4> QED BY <1>0, <4>1, Part
    <3> HIDE DEF a, b
    <3>3. i - 1 - 1 + 1 = i - 1 /\ \A j \in 1 .. i - 1 : 1 + j - 1 = j
      BY <2>1
    <3>4. /\ Len(entries) - (i + 1) + 1 = Len(entries) - i
          /\ \A j \in 1 .. Len(entries) - i : i + 1 + j - 1 = i + j
      BY <1>0, <2>1
    <3> QED BY <3>1, <3>2, <3>3, <3>4
  <2>8. /\ a \o b \in Seq(Entry) /\ Len(a \o b) = Len(a) + Len(b)
        /\ \A j \in 1 .. Len(a) + Len(b) : (a \o b)[j] = IF j <= Len(a) THEN a[j] ELSE b[j - Len(a)]
    BY <2>3, <2>5, ConcatProperties
  <2>9. DOMAIN (a \o b) = 1 .. Len(entries) - 1 /\ Len(a \o b) = Len(entries) - 1
    <3>1. DOMAIN (a \o b) = 1 .. Len(a \o b)
      BY <2>8, LenProperties
    <3>2. Len(a \o b) = Len(entries) - 1
      <4> DEFINE x == Len(a \o b)
                 y == Len(a)
                 z == Len(b)
      <4>1. x = y + z /\ y = i - 1 /\ z = Len(entries) - i
        BY <2>7, <2>8
      <4> HIDE DEF x, y, z
      <4>2. x = Len(entries) - 1
        BY <1>0, <2>1, <4>1
      <4> QED BY <4>2 DEF x
    <3> QED BY <3>1, <3>2
  <2>10. Bytes(a \o b) = Bytes(a) + Bytes(b) /\ Bytes(a) \in Nat /\ Bytes(b) \in Nat
    BY <2>3, <2>5, BytesConcat, BytesAreNumbers
  <2> DEFINE ab == a \o b
  <2> HIDE DEF a, b, c, e, ab
  <2>11. \A j \in 1 .. Len(entries) - 1 : ab[j] = IF j < i THEN entries[j] ELSE entries[j + 1]
    <3> SUFFICES ASSUME NEW j \in 1 .. Len(entries) - 1
                 PROVE  ab[j] = IF j < i THEN entries[j] ELSE entries[j + 1]
      OBVIOUS
    <3>1. Len(a) = i - 1 /\ Len(b) = Len(entries) - i /\ j \in Int /\ i \in Int /\ Len(entries) \in Int
      BY <1>0, <2>1, <2>7
    <3>2. j \in 1 .. Len(a) + Len(b)
      BY <3>1
    <3>3. ab[j] = IF j <= Len(a) THEN a[j] ELSE b[j - Len(a)]
      BY <2>8, <3>2 DEF ab
    <3>4. CASE j < i
      <4>1. j <= Len(a) /\ j \in 1 .. i - 1
        BY <3>1, <3>4
      <4> QED BY <2>7, <3>3, <3>4, <4>1
    <3>5. CASE ~(j < i)
      <4>1. ~(j <= Len(a)) /\ j - Len(a) \in 1 .. Len(entries) - i /\ i + (j - Len(a)) = j + 1
        BY <3>1, <3>5
      <4> QED BY <2>7, <3>3, <3>5, <4>1
    <3> QED BY <3>4, <3>5
  <2>12. KeysDiffer(ab) /\ \A j \in DOMAIN ab : ab[j].key # k
    <3>1. DOMAIN ab = 1 .. Len(entries) - 1
      BY <2>9 DEF ab
    <3>2. \A m, n \in 1 .. Len(entries) : entries[m].key = entries[n].key => m = n
      BY <1>0 DEF KeysDiffer
    <3>3. entries[i].key = k
      BY <2>1 DEF e
    <3> DEFINE was(j) == IF j < i THEN j ELSE j + 1
    <3>4. \A j \in 1 .. Len(entries) - 1 :
            was(j) \in 1 .. Len(entries) /\ was(j) # i /\ ab[j] = entries[was(j)]
      BY <1>0, <2>1, <2>11
    <3>5. \A m, n \in 1 .. Len(entries) - 1 : was(m) = was(n) => m = n
      BY <1>0, <2>1
    <3> HIDE DEF was
    <3>6. KeysDiffer(ab)
      BY <3>1, <3>2, <3>4, <3>5 DEF KeysDiffer
    <3>7. \A j \in DOMAIN ab : ab[j].key # k
      BY <2>1, <3>1, <3>2, <3>3, <3>4
    <3> QED BY <3>6, <3>7
  <2>13. /\ Removed(k) = ab /\ ab \in Seq(Entry) /\ Len(ab) = Len(entries) - 1
         /\ Bytes(ab) = Bytes(a) + Bytes(b)
    BY <2>2, <2>8, <2>9, <2>10 DEF ab
  <2>14. RemovedTotal(k) = Bytes(ab) /\ RemovedTotal(k) <= totalBytes
    <3> DEFINE x == Bytes(a)
               y == Bytes(b)
               z == e.bytes
               t == RemovedTotal(k)
    <3>1. /\ totalBytes = x + (z + y) /\ t = totalBytes - z /\ Bytes(ab) = x + y
          /\ x \in Nat /\ y \in Nat /\ z \in Nat
      BY <1>0, <2>1, <2>2, <2>3, <2>6, <2>10, <2>13
    <3> HIDE DEF x, y, z, t
    <3>2. t = x + y /\ t <= totalBytes
      BY <3>1
    <3> QED BY <3>1, <3>2 DEF t
  <2>15. RemovedTotal(k) <= MaxTotal /\ Len(Removed(k)) <= Len(entries)
    <3>1. RemovedTotal(k) \in Nat /\ totalBytes \in Nat /\ totalBytes <= MaxTotal /\ MaxTotal \in Nat
      BY <1>0, <2>10, <2>13, <2>14, CacheAssumption DEF CacheAssumption
    <3> QED BY <1>0, <2>13, <2>14, <3>1
  <2> QED BY <2>12, <2>13, <2>14, <2>15
<1> QED BY <1>1, <1>2

\* store() leaves the cache within its bounds: the entries that leave are the
\* oldest, and enough of them.
LEMMA PutFits ==
  ASSUME CacheInv, WithinBounds, NEW k \in Keys, NEW v \in Version, NEW bytes \in Nat,
         bytes <= MaxEntry, Put(k, v, bytes)
  PROVE  WithinBounds'
<1> DEFINE e == [key |-> k, version |-> v, bytes |-> bytes, expired |-> FALSE]
           old == Removed(k)
<1>1. PICK n \in 0 .. Len(old) :
        /\ Evicts(old, RemovedTotal(k), bytes, n)
        /\ entries' = Append(Drop(old, n), e)
        /\ totalBytes' = DropTotal(old, RemovedTotal(k), n) + bytes
  BY DEF Put
<1>2. /\ old \in Seq(Entry) /\ RemovedTotal(k) = Bytes(old) /\ KeysDiffer(old)
      /\ \A j \in DOMAIN old : old[j].key # k
  BY RemovedFits
<1>3. e \in Entry /\ e.key = k /\ e.bytes = bytes
  BY DEF Entry
<1> DEFINE es == Drop(old, n)
<1> HIDE DEF e, old
<1>4. Len(old) \in Nat /\ n \in Nat /\ n <= Len(old) /\ DOMAIN old = 1 .. Len(old)
  BY <1>1, <1>2, LenProperties
<1>5. /\ es \in Seq(Entry) /\ Bytes(old) = Bytes(SubSeq(old, 1, n)) + Bytes(es)
      /\ Bytes(SubSeq(old, 1, n)) \in Nat /\ Bytes(es) \in Nat
  BY <1>1, <1>2, BytesCut, BytesAreNumbers DEF Drop
<1>6. DropTotal(old, RemovedTotal(k), n) = Bytes(es)
  BY <1>2, <1>5 DEF DropTotal
<1>7. /\ Len(es) = Len(old) - n
      /\ \A j \in 1 .. Len(old) - n : es[j] = old[n + j]
  <2>1. n + 1 \in 1 .. Len(old) + 1 /\ Len(old) \in n + 1 - 1 .. Len(old)
    BY <1>4
  <2>2. /\ Len(es) = Len(old) - (n + 1) + 1
        /\ \A j \in 1 .. Len(old) - (n + 1) + 1 : es[j] = old[n + 1 + j - 1]
    BY <1>2, <2>1, Part DEF Drop
  <2> HIDE DEF es
  <2>3. /\ Len(old) - (n + 1) + 1 = Len(old) - n
        /\ \A j \in 1 .. Len(old) - n : n + 1 + j - 1 = n + j
    BY <1>4
  <2> QED BY <2>2, <2>3
<1>8. Len(es) = 0 \/ Room(es, Bytes(es), bytes)
  <2>1. n = Len(old) \/ Room(es, DropTotal(old, RemovedTotal(k), n), bytes)
    BY <1>1, Zenon DEF Evicts
  <2>2. n = Len(old) => Len(es) = 0
    <3> HIDE DEF es
    <3> QED BY <1>4, <1>7
  <2>3. Room(es, DropTotal(old, RemovedTotal(k), n), bytes) => Room(es, Bytes(es), bytes)
    BY <1>6
  <2> QED BY <2>1, <2>2, <2>3
<1> HIDE DEF es
<1>9. /\ Append(es, e) \in Seq(Entry) /\ Len(Append(es, e)) = Len(es) + 1
      /\ \A j \in 1 .. Len(es) : Append(es, e)[j] = es[j]
      /\ Append(es, e)[Len(es) + 1] = e
      /\ Append(es, e) = es \o <<e>>
  BY <1>3, <1>5, AppendProperties, AppendIsConcat
<1>10. entries' = Append(es, e) /\ totalBytes' = Bytes(es) + bytes
  BY <1>1, <1>6 DEF es
<1>11. Bytes(entries') = totalBytes'
  BY <1>3, <1>5, <1>9, <1>10, BytesConcat, BytesOne
<1>12. totalBytes' <= MaxTotal /\ Len(entries') <= MaxEntries
  <2>1. CASE Len(es) = 0
    <3>1. Bytes(es) = 0
      <4>1. es = <<>>
        BY <1>5, <2>1, EmptySeq
      <4> QED BY <4>1, BytesNone
    <3> QED BY <1>9, <1>10, <2>1, <3>1, CacheAssumption DEF CacheAssumption
  <2>2. CASE Room(es, Bytes(es), bytes)
    <3>1. Len(es) \in Nat
      BY <1>5, LenProperties
    <3> QED BY <1>9, <1>10, <2>2, <3>1, CacheAssumption DEF Room, CacheAssumption
  <2> QED BY <1>8, <2>1, <2>2
<1>13. KeysDiffer(entries)'
  <2>1. DOMAIN entries' = 1 .. Len(es) + 1 /\ Len(es) \in Nat
    BY <1>5, <1>9, <1>10, LenProperties
  <2>2. \A j \in 1 .. Len(es) : entries'[j] = old[n + j] /\ n + j \in DOMAIN old
    BY <1>4, <1>7, <1>9, <1>10
  <2>3. \A i, j \in 1 .. Len(es) : entries'[i].key = entries'[j].key => i = j
    <3> SUFFICES ASSUME NEW i \in 1 .. Len(es), NEW j \in 1 .. Len(es),
                        entries'[i].key = entries'[j].key
                 PROVE  i = j
      OBVIOUS
    <3>1. n + i = n + j
      BY <1>2, <2>2 DEF KeysDiffer
    <3> QED BY <1>4, <2>1, <3>1
  <2>4. \A j \in 1 .. Len(es) : entries'[j].key # k
    BY <1>2, <2>2
  <2>5. entries'[Len(es) + 1].key = k
    BY <1>3, <1>9, <1>10
  <2> QED BY <2>1, <2>3, <2>4, <2>5 DEF KeysDiffer
<1> QED BY <1>11, <1>12, <1>13 DEF WithinBounds, KeysDiffer

\* Every step keeps the cache within its bounds.
LEMMA BoundsStep ==
  ASSUME CacheInv, WithinBounds, [CacheNext]_cacheVars
  PROVE  WithinBounds'
<1>0. /\ entries \in Seq(Entry) /\ DOMAIN entries = 1 .. Len(entries) /\ Len(entries) \in Nat
  BY LenProperties DEF CacheInv, CacheTypeOK
<1>1. CASE UNCHANGED entryVars
  BY <1>1 DEF entryVars, WithinBounds
<1>2. ASSUME NEW k \in Keys, entries' = Removed(k), totalBytes' = RemovedTotal(k)
      PROVE WithinBounds'
  <2>1. /\ Removed(k) \in Seq(Entry) /\ Len(Removed(k)) <= Len(entries)
        /\ RemovedTotal(k) = Bytes(Removed(k)) /\ RemovedTotal(k) <= MaxTotal
        /\ KeysDiffer(Removed(k))
    BY RemovedFits
  <2>2. Len(Removed(k)) \in Nat
    BY <2>1, LenProperties
  <2> QED BY <1>0, <1>2, <2>1, <2>2, CacheAssumption DEF WithinBounds, KeysDiffer, CacheAssumption
<1>3. ASSUME NEW l \in Loads, NEW bytes \in ByteSizes, Store(l, bytes) PROVE WithinBounds'
  <2>1. CASE Storable(l, bytes)
    <3>1. Put(load[l].key, load[l].version, bytes) /\ bytes <= MaxEntry
      BY <1>3, <2>1 DEF Store, Storable
    <3>2. load[l] \in Load /\ load[l].at = "loaded"
      BY <1>3 DEF Store, CacheInv, CacheTypeOK
    <3>3. load[l].key \in Keys /\ load[l].version \in Version /\ bytes \in Nat
      BY <3>2, LoadFields, CacheAssumption DEF CacheAssumption
    <3> QED BY <3>1, <3>3, PutFits
  <2>2. CASE ~Storable(l, bytes)
    BY <1>1, <1>3, <2>2 DEF Store
  <2> QED BY <2>1, <2>2
<1>4. ASSUME NEW k \in Keys, Expire(k) PROVE WithinBounds'
  <2> DEFINE i == Index(k)
             e == [entries[i] EXCEPT !.expired = TRUE]
  <2>1. i \in 1 .. Len(entries) /\ entries[i] \in Entry
    <3>1. i \in DOMAIN entries
      BY <1>4 DEF Expire, Fresh, Index
    <3> QED BY <1>0, <3>1, ElementOfSeq
  <2>2. e \in Entry /\ e.bytes = entries[i].bytes /\ e.key = entries[i].key
    BY <2>1 DEF Entry
  <2>3. entries' = [entries EXCEPT ![i] = e] /\ totalBytes' = totalBytes
    BY <1>4 DEF Expire
  <2> HIDE DEF e, i
  <2>4. /\ DOMAIN entries' = DOMAIN entries /\ Len(entries') = Len(entries)
        /\ \A j \in DOMAIN entries : /\ entries'[j].key = entries[j].key
                                     /\ entries'[j].bytes = entries[j].bytes
    BY <1>0, <2>1, <2>2, <2>3, ExceptSeq, LenProperties
  <2>5. BytesOf(entries') = BytesOf(entries)
    BY <2>4 DEF BytesOf
  <2>6. Bytes(entries') = Bytes(entries)
    BY <2>5 DEF Bytes, BytesOf
  <2> QED BY <2>3, <2>4, <2>6 DEF WithinBounds
<1>5. CASE Clear
  <2>1. entries' = <<>> /\ totalBytes' = 0 /\ Len(<<>>) = 0 /\ DOMAIN <<>> = {}
    BY <1>5 DEF Clear
  <2> QED BY <2>1, BytesNone, CacheAssumption DEF WithinBounds, CacheAssumption
<1>6. CASE UNCHANGED cacheVars
  BY <1>1, <1>6 DEF cacheVars, entryVars
<1>7. CASE CacheNext
  <2>1. ASSUME NEW r \in Requests, NEW k \in Keys,
               AskHit(r, k) \/ AskJoin(r, k) \/ \E l \in Loads : AskLoad(r, k, l)
        PROVE WithinBounds'
    BY <1>1, <1>2, <2>1 DEF AskHit, AskJoin, AskLoad
  <2>2. ASSUME NEW l \in Loads, LoadStep(l) PROVE WithinBounds'
    BY <1>1, <1>3, <2>2 DEF LoadStep, Query, Throw, Settle
  <2>3. CASE Commit
    BY <1>1, <2>3 DEF Commit
  <2> QED BY <1>4, <1>5, <1>7, <2>1, <2>2, <2>3 DEF CacheNext
<1> QED BY <1>6, <1>7

\* The cache never holds more entries or bytes than its limits, the running
\* total that eviction relies on is what the entries add up to, and a key has
\* one entry (store, remove and clear of public-read-cache.service.ts).
THEOREM BoundsAreKept == CacheSpec => []WithinBounds
<1>1. CacheInit => WithinBounds
  <2> SUFFICES ASSUME CacheInit PROVE WithinBounds
    OBVIOUS
  <2>1. entries = <<>> /\ totalBytes = 0 /\ Len(<<>>) = 0 /\ DOMAIN <<>> = {}
    BY DEF CacheInit
  <2> QED BY <2>1, BytesNone, CacheAssumption DEF WithinBounds, CacheAssumption
<1>2. CacheInv /\ WithinBounds /\ [CacheNext]_cacheVars => WithinBounds'
  BY BoundsStep
<1> QED BY <1>1, <1>2, CacheInvariance, PTL DEF CacheSpec

-----------------------------------------------------------------------------
(* Carts: the inductive invariant of any requests.                          *)

\* What a request carries has the type its step expects.
CartForm(r) ==
  /\ r.at \in {"idle", "create", "look", "put", "drop", "wipe", "sum", "total",
               "refresh", "reprice", "order", "link", "linked", "merge"}
  /\ r.at = "create" => r.who \in Owners /\ r.size \in ProductSizes
  /\ r.at \in {"look", "put", "drop", "wipe", "sum", "total", "refresh", "reprice", "order"} =>
       r.cart \in Carts
  /\ r.at \in {"look", "put"} => r.size \in ProductSizes
  /\ r.at = "put" => r.item \in Items \cup {None} /\ r.qty \in Nat /\ r.price \in Nat
  /\ r.at = "drop" => r.item \in Items
  /\ r.at \in {"total", "refresh"} => r.sum \in Nat
  /\ r.at = "refresh" =>
       /\ DOMAIN r.plan \subseteq Items /\ r.todo \subseteq DOMAIN r.plan
       /\ \A i \in DOMAIN r.plan : r.plan[i] \in Item \cup {None}
  /\ r.at = "reprice" =>
       /\ r.todo \subseteq DOMAIN r.plan
       /\ \A i \in DOMAIN r.plan : r.plan[i] \in Nat
       /\ DOMAIN r.qty = DOMAIN r.plan
  /\ r.at \in {"reprice", "order"} =>
       DOMAIN r.qty \subseteq Items /\ \A i \in DOMAIN r.qty : r.qty[i] \in Nat
  /\ r.at \in {"link", "linked", "merge"} => r.user \in Users /\ r.visitor \in Visitors
  /\ r.at = "merge" =>
       /\ r.guest \in Carts /\ r.cart \in Carts \cup {None}
       /\ DOMAIN r.theirs \subseteq Items /\ \A i \in DOMAIN r.theirs : r.theirs[i] \in Item
       /\ DOMAIN r.mine \subseteq Items /\ \A i \in DOMAIN r.mine : r.mine[i] \in Item
       /\ r.cap \in [ProductSizes -> Nat]

\* A cart that an order or a merge is going to close belongs to somebody.
Held(r) ==
  /\ r.at \in {"reprice", "order"} => owner[r.cart] # None
  /\ r.at = "merge" => owner[r.guest] # None
\* A row that was not made yet was not closed either.
UnmadeIsActive == \A c \in Carts : owner[c] = None => status[c] = "ACTIVE"

\* The rows, and the counts.
RowsTyped ==
  /\ visitor \in [Visitors -> Users \cup {None, Absent}]
  /\ owner \in [Carts -> Owners \cup {None}]
  /\ status \in [Carts -> {"ACTIVE", "ABANDONED", "CHECKED_OUT"}]
  /\ subtotal \in [Carts -> Nat]
  /\ items \in [Items -> Item \cup {None}]
  /\ made \in 0 .. MaxItems
  /\ price \in [ProductSizes -> Prices]
  /\ stock \in [ProductSizes -> 0 .. MaxStock]
  /\ ops \in 0 .. MaxOps /\ changes \in 0 .. MaxChanges

CartInv ==
  /\ RowsTyped
  /\ DOMAIN req = Workers /\ \A w \in Workers : CartForm(req[w]) /\ Held(req[w])
  /\ UnmadeIsActive

-----------------------------------------------------------------------------
(* Carts: the inductive invariant of requests that are served in turn.      *)

Settled(c) == status[c] = "ACTIVE" => subtotal[c] = LinesTotal(c)
SettledBut(c) == \A d \in Carts : d # c => Settled(d)
ShownBut(c) == \A i \in Items : items[i] # None /\ items[i].cart # c => items[i].seen

\* Nothing is under way in any cart.
InOrder ==
  /\ \A c \in Carts : Settled(c)
  /\ \A i \in Items : items[i] # None => items[i].seen

\* A line is worth its price times its quantity, and the numbers that were not
\* given out have no line.
Tidy ==
  /\ \A i \in Items : items[i] # None => items[i].sub = items[i].price * items[i].qty
  /\ \A i \in Items : i > made => items[i] = None

\* A line that is still to be refreshed is there, and one that was refreshed is
\* as planned; the lines that the plan keeps add up to the total it will write.
Keeps(r) == {i \in DOMAIN r.plan : r.plan[i] # None}
RefreshKnows(r) ==
  /\ In(r.cart) \subseteq DOMAIN r.plan
  /\ r.todo \subseteq In(r.cart)
  /\ \A i \in Keeps(r) :
       /\ r.plan[i].sub = r.plan[i].price * r.plan[i].qty
       /\ i \notin r.todo => i \in In(r.cart) /\ items[i].sub = r.plan[i].sub
  /\ \A i \in DOMAIN r.plan : i \notin Keeps(r) /\ i \notin r.todo => items[i] = None
  /\ r.sum = SumFunctionOnSet([i \in Keeps(r) |-> r.plan[i].sub], Keeps(r))

\* A line that was repriced has the price of the plan; before that, it has one
\* that is not lower unless the order is going to be stopped.
RepriceKnows(r) ==
  /\ DOMAIN r.plan = In(r.cart)
  /\ \A i \in In(r.cart) :
       /\ items[i].qty = r.qty[i]
       /\ i \notin r.todo => items[i].price = r.plan[i]
       /\ i \in r.todo => r.raised \/ r.plan[i] <= items[i].price
  /\ r.changed \/ (r.todo = {} /\ Settled(r.cart))
  /\ r.raised \/ \A i \in Items : items[i] # None => items[i].seen
  /\ ~r.blind

\* What a merge read is what there is, and the two carts are different ones.
MergeKnows(r) ==
  /\ owner[r.guest] \in Visitors
  /\ DOMAIN r.theirs = In(r.guest) /\ \A i \in In(r.guest) : r.theirs[i] = items[i]
  /\ r.cart # None =>
       /\ owner[r.cart] \in Users
       /\ DOMAIN r.mine = In(r.cart) /\ \A i \in In(r.cart) : r.mine[i] = items[i]

\* What the request that is being served can rely on.
CartKnows(r) ==
  /\ r.at \in {"create", "look", "put", "drop", "wipe", "link", "linked", "order", "merge"} =>
       InOrder
  /\ r.at \in {"sum", "total"} =>
       SettledBut(r.cart) /\ \A i \in Items : items[i] # None => items[i].seen
  /\ r.at \in {"refresh", "reprice"} => SettledBut(r.cart) /\ ShownBut(r.cart)
  /\ r.at \in {"put", "drop"} /\ r.item # None =>
       items[r.item] = None \/ items[r.item].cart = r.cart
  /\ r.at = "total" => r.sum = LinesTotal(r.cart)
  /\ r.at = "refresh" => RefreshKnows(r)
  /\ r.at = "reprice" => RepriceKnows(r)
  /\ r.at = "order" => ~r.blind
  /\ r.at = "merge" => MergeKnows(r)

CartAloneInv ==
  overlap \/
    /\ InTurn /\ Tidy
    /\ \A w \in Workers : CartKnows(req[w])
    /\ Quiet => InOrder
-----------------------------------------------------------------------------
(* Carts: any requests.                                                     *)

\* What a row is made of; and no value is not a row.
LEMMA ItemFields ==
  ASSUME NEW x \in Item
  PROVE  /\ x.cart \in Carts /\ x.size \in ProductSizes /\ x.qty \in Nat
         /\ x.price \in Nat /\ x.sub \in Nat /\ x.seen \in BOOLEAN /\ x # None
  BY RowAssumption DEF Item

\* There are finitely many lines.
LEMMA LinesFinite ==
  /\ IsFiniteSet(Items)
  /\ \A c : In(c) \subseteq Items /\ IsFiniteSet(In(c))
<1>1. IsFiniteSet(Items)
  BY FS_Interval, CartAssumption DEF CartAssumption, Items
<1>2. \A c : In(c) \subseteq Items
  BY DEF In
<1> QED BY <1>1, <1>2, FS_Subset

\* A line of an amount and a price.
LEMMA LineIsItem ==
  ASSUME NEW c \in Carts, NEW s \in ProductSizes, NEW q \in Nat, NEW p \in Nat, NEW b \in BOOLEAN
  PROVE  /\ Line(c, s, q, p, b) \in Item
         /\ Line(c, s, q, p, b).sub = p * q /\ Line(c, s, q, p, b).cart = c
         /\ Line(c, s, q, p, b).price = p /\ Line(c, s, q, p, b).qty = q
         /\ Line(c, s, q, p, b).seen = b
<1>1. p * q \in Nat
  OBVIOUS
<1> QED BY <1>1 DEF Line, Item

\* The lines of a cart are worth an amount.
LEMMA LinesTotalIsAmount ==
  ASSUME RowsTyped, NEW c
  PROVE  LinesTotal(c) \in Nat
<1> DEFINE q == [i \in In(c) |-> items[i].sub]
<1>1. \A i \in In(c) : q[i] \in Nat
  BY ItemFields DEF RowsTyped, In
<1>2. SumFunctionOnSet(q, In(c)) \in Nat
  <2> HIDE DEF q
  <2> QED BY <1>1, LinesFinite, SumNat
<1> QED BY <1>2 DEF LinesTotal

\* A request goes on to another step.
LEMMA CartStep ==
  ASSUME CartInv, NEW w \in Workers, NEW r, CartForm(r), req' = [req EXCEPT ![w] = r],
         RowsTyped', UnmadeIsActive',
         \A c \in Carts : owner[c] # None => owner'[c] # None,
         r.at \in {"reprice", "order"} => owner'[r.cart] # None,
         r.at = "merge" => owner'[r.guest] # None
  PROVE  CartInv'
<1>1. DOMAIN req' = Workers
  BY DEF CartInv
<1>2. ASSUME NEW v \in Workers PROVE CartForm(req'[v]) /\ Held(req[v])' 
  <2>1. CASE v = w
    <3>1. req'[v] = r
      BY <2>1 DEF CartInv
    <3> QED BY <3>1 DEF Held
  <2>2. CASE v # w
    <3>1. req'[v] = req[v] /\ CartForm(req[v]) /\ Held(req[v])
      BY <2>2 DEF CartInv
    <3> QED BY <3>1 DEF Held, CartForm
  <2> QED BY <2>1, <2>2
<1>3. \A v \in Workers : CartForm(req[v])'
  BY <1>2 DEF CartForm
<1> QED BY <1>1, <1>2, <1>3 DEF CartInv

\* The same, where the rows of carts stay whose they are and as open as they are.
LEMMA CartStepInside ==
  ASSUME CartInv, NEW w \in Workers, NEW r, CartForm(r), req' = [req EXCEPT ![w] = r],
         RowsTyped', UNCHANGED carts,
         r.at \in {"reprice", "order"} => owner[r.cart] # None,
         r.at = "merge" => owner[r.guest] # None
  PROVE  CartInv'
<1>1. UnmadeIsActive'
  BY DEF CartInv, UnmadeIsActive, carts
<1> QED BY <1>1, CartStep DEF carts

\* A request is answered.
LEMMA IdleIsFormed ==
  /\ CartForm(Idle) /\ Idle.at = "idle"
  BY DEF CartForm, Idle

\* What is open to a customer is the customer's.
LEMMA ActiveIsOwned ==
  ASSUME NEW o \in Owners, NEW c \in ActiveOf(o)
  PROVE  c \in Carts /\ owner[c] = o /\ status[c] = "ACTIVE" /\ o # None
  BY CartAssumption DEF ActiveOf, CartAssumption

\* What a customer starts is counted.
LEMMA BeginIsCounted ==
  ASSUME RowsTyped, NEW w, Begin(w), UNCHANGED <<carts, subtotal, lineVars, shop>>,
         visitor' \in [Visitors -> Users \cup {None, Absent}]
  PROVE  RowsTyped'
<1>1. ops' \in 0 .. MaxOps
  BY CartAssumption DEF Begin, RowsTyped, CartAssumption
<1> QED BY <1>1 DEF RowsTyped, carts, lineVars, shop

-----------------------------------------------------------------------------
(* Adding a unit.                                                           *)

LEMMA AddFindStep ==
  ASSUME CartInv, NEW w \in Workers, NEW o \in Owners, NEW s \in ProductSizes, AddFind(w, o, s)
  PROVE  CartInv'
<1>a. visitor' \in [Visitors -> Users \cup {None, Absent}]
  BY DEF AddFind, CartInv, RowsTyped
<1>1. RowsTyped'
  BY <1>a, BeginIsCounted DEF AddFind, CartInv
<1>2. PICK r : CartForm(r) /\ Goto(w, r) /\ r.at \in {"create", "look"}
  <2>1. CASE ActiveOf(o) = {}
    <3> DEFINE r == [at |-> "create", who |-> o, size |-> s]
    <3>1. CartForm(r) /\ r.at = "create"
      BY DEF CartForm
    <3> QED BY <2>1, <3>1 DEF AddFind
  <2>2. CASE ActiveOf(o) # {}
    <3>1. PICK c \in ActiveOf(o) : Goto(w, [at |-> "look", cart |-> c, size |-> s])
      BY <2>2 DEF AddFind
    <3> DEFINE r == [at |-> "look", cart |-> c, size |-> s]
    <3>2. CartForm(r) /\ r.at = "look"
      BY ActiveIsOwned DEF CartForm
    <3> QED BY <3>1, <3>2
  <2> QED BY <2>1, <2>2
<1> QED BY <1>1, <1>2, CartStepInside DEF AddFind, Goto

\* The row that AddCreate makes was nobody's.
LEMMA FirstUnmade ==
  ASSUME \E n \in Carts : owner[n] = None
  PROVE  \E n \in Carts : owner[n] = None /\ \A m \in Carts : m < n => owner[m] # None
<1> DEFINE free == {n \in Carts : owner[n] = None}
<1>1. free \subseteq Nat /\ free # {}
  BY CartAssumption DEF CartAssumption, Carts
<1>2. PICK n \in free : \A m \in free : n <= m
  BY <1>1, LeastNumber, Zenon
<1>3. \A m \in Carts : m < n => m \notin free
  BY <1>1, <1>2 DEF Carts
<1> QED BY <1>2, <1>3

LEMMA AddCreateTakes ==
  ASSUME CartInv, NEW w \in Workers, AddCreate(w)
  PROVE  \E c \in Carts : /\ owner[c] = None
                          /\ owner' = [owner EXCEPT ![c] = req[w].who]
                          /\ Goto(w, [at |-> "look", cart |-> c, size |-> req[w].size])
<1> DEFINE c == CHOOSE n \in Carts : owner[n] = None /\ \A m \in Carts : m < n => owner[m] # None
<1>1. c \in Carts /\ owner[c] = None
  BY FirstUnmade DEF AddCreate
<1> QED BY <1>1 DEF AddCreate

LEMMA AddCreateStep ==
  ASSUME CartInv, NEW w \in Workers, AddCreate(w)
  PROVE  CartInv'
<1>1. PICK c \in Carts : /\ owner[c] = None
                         /\ owner' = [owner EXCEPT ![c] = req[w].who]
                         /\ Goto(w, [at |-> "look", cart |-> c, size |-> req[w].size])
  BY AddCreateTakes
<1>2. req[w].who \in Owners /\ req[w].size \in ProductSizes
  BY DEF AddCreate, At, CartInv, CartForm
<1> DEFINE size == req[w].size
           r == [at |-> "look", cart |-> c, size |-> size]
<1>3. CartForm(r) /\ r.at = "look"
  BY <1>2 DEF CartForm
<1>4. UNCHANGED <<visitor, status, subtotal, lineVars, shop, ops>>
  BY DEF AddCreate
<1>5. RowsTyped'
  BY <1>1, <1>2, <1>4 DEF CartInv, RowsTyped, lineVars, shop
<1>6. UnmadeIsActive' /\ \A d \in Carts : owner[d] # None => owner'[d] # None
  BY <1>1, <1>2, <1>4, CartAssumption DEF CartInv, RowsTyped, UnmadeIsActive, CartAssumption
<1>7. Goto(w, r)
  BY <1>1
<1> HIDE DEF r
<1> QED BY <1>3, <1>5, <1>6, <1>7, CartStep DEF Goto

LEMMA AddLookStep ==
  ASSUME CartInv, NEW w \in Workers, AddLook(w)
  PROVE  CartInv'
<1>1. RowsTyped'
  BY DEF AddLook, CartInv, RowsTyped, carts, lineVars, shop
<1> DEFINE c == req[w].cart
           s == req[w].size
<1>2. c \in Carts /\ s \in ProductSizes
  BY DEF AddLook, At, CartInv, CartForm
<1>3. price[s] \in Nat
  BY <1>2, CartAssumption DEF CartInv, RowsTyped, CartAssumption
<1>4. PICK r : CartForm(r) /\ Goto(w, r) /\ r.at \in {"idle", "put"}
  <2>1. CASE Answer(w)
    BY <2>1, IdleIsFormed DEF Answer, Goto
  <2>2. CASE Goto(w, [at |-> "put", cart |-> c, size |-> s, item |-> None, qty |-> 1, price |-> price[s]])
    <3> DEFINE r == [at |-> "put", cart |-> c, size |-> s, item |-> None, qty |-> 1, price |-> price[s]]
    <3>1. CartForm(r) /\ r.at = "put"
      BY <1>2, <1>3 DEF CartForm
    <3> QED BY <2>2, <3>1
  <2>3. ASSUME NEW i \in OfSize(c, s),
               Goto(w, [at |-> "put", cart |-> c, size |-> s, item |-> i,
                        qty |-> items[i].qty + 1, price |-> price[s]])
        PROVE  \E r : CartForm(r) /\ Goto(w, r) /\ r.at \in {"idle", "put"}
    <3> DEFINE r == [at |-> "put", cart |-> c, size |-> s, item |-> i,
                     qty |-> items[i].qty + 1, price |-> price[s]]
    <3>1. i \in Items /\ items[i].qty + 1 \in Nat
      BY ItemFields DEF CartInv, RowsTyped, OfSize, In
    <3>2. CartForm(r) /\ r.at = "put"
      BY <1>2, <1>3, <3>1 DEF CartForm
    <3> QED BY <2>3, <3>2
  <2> QED BY <2>1, <2>2, <2>3 DEF AddLook
<1> QED BY <1>1, <1>4, CartStepInside DEF AddLook, Goto

LEMMA PutLineStep ==
  ASSUME CartInv, NEW w \in Workers, PutLine(w)
  PROVE  CartInv'
<1> DEFINE r == req[w]
           sums == [at |-> "sum", cart |-> r.cart]
<1>1. /\ r.cart \in Carts /\ r.size \in ProductSizes /\ r.item \in Items \cup {None}
      /\ r.qty \in Nat /\ r.price \in Nat
  BY DEF PutLine, At, CartInv, CartForm
<1>2. CartForm(sums) /\ sums.at = "sum"
  BY <1>1 DEF CartForm
<1>3. UNCHANGED <<visitor, carts, subtotal, shop, ops>>
  BY DEF PutLine
<1>4. items' \in [Items -> Item \cup {None}] /\ made' \in 0 .. MaxItems
  <2>1. CASE r.item # None /\ items[r.item] # None
    <3>1. r.item \in Items /\ items[r.item] \in Item
      BY <1>1, <2>1 DEF CartInv, RowsTyped
    <3>2. Line(items[r.item].cart, r.size, r.qty, r.price, TRUE) \in Item
      BY <1>1, <3>1, ItemFields, LineIsItem
    <3> QED BY <2>1, <3>1, <3>2 DEF PutLine, CartInv, RowsTyped
  <2>2. CASE ~(r.item # None /\ items[r.item] # None) /\ r.item = None /\ OfSize(r.cart, r.size) = {}
    <3>1. /\ made < MaxItems /\ made' = made + 1
          /\ items' = [items EXCEPT ![made'] = Line(r.cart, r.size, r.qty, r.price, TRUE)]
      BY <2>2 DEF PutLine
    <3>2. Line(r.cart, r.size, r.qty, r.price, TRUE) \in Item
      BY <1>1, LineIsItem
    <3>3. made' \in 0 .. MaxItems /\ made' \in Items
      BY <3>1, CartAssumption DEF CartInv, RowsTyped, CartAssumption, Items
    <3> QED BY <3>1, <3>2, <3>3 DEF CartInv, RowsTyped
  <2>3. CASE ~(r.item # None /\ items[r.item] # None) /\ ~(r.item = None /\ OfSize(r.cart, r.size) = {})
    <3>1. UNCHANGED lineVars
      BY <2>3 DEF PutLine
    <3> QED BY <3>1 DEF lineVars, CartInv, RowsTyped
  <2> QED BY <2>1, <2>2, <2>3
<1>5. RowsTyped'
  BY <1>3, <1>4 DEF CartInv, RowsTyped, carts, shop
<1>6. Goto(w, sums) \/ Goto(w, Idle)
  BY DEF PutLine, Goto, Answer
<1>7. PICK x : CartForm(x) /\ Goto(w, x) /\ x.at \in {"idle", "sum"}
  BY <1>2, <1>6, IdleIsFormed
<1> QED BY <1>3, <1>5, <1>7, CartStepInside DEF Goto

LEMMA SumLinesStep ==
  ASSUME CartInv, NEW w \in Workers, SumLines(w)
  PROVE  CartInv'
<1> DEFINE c == req[w].cart
           sum == LinesTotal(c)
           r == [at |-> "total", cart |-> c, sum |-> sum]
<1>1. c \in Carts
  BY DEF SumLines, At, CartInv, CartForm
<1>2. sum \in Nat
  BY LinesTotalIsAmount DEF CartInv
<1>3. RowsTyped'
  BY DEF SumLines, CartInv, RowsTyped, carts, lineVars, shop
<1>4. Goto(w, r)
  BY DEF SumLines
<1> HIDE DEF c, sum
<1>5. CartForm(r) /\ r.at = "total"
  BY <1>1, <1>2 DEF CartForm
<1>6. PICK x : CartForm(x) /\ Goto(w, x) /\ x.at = "total"
  BY <1>4, <1>5
<1> QED BY <1>3, <1>6, CartStepInside DEF SumLines, Goto

LEMMA WriteTotalStep ==
  ASSUME CartInv, NEW w \in Workers, WriteTotal(w)
  PROVE  CartInv'
<1>1. req[w].sum \in Nat /\ req[w].cart \in Carts
  BY DEF WriteTotal, At, CartInv, CartForm
<1>2. RowsTyped'
  BY <1>1 DEF WriteTotal, CartInv, RowsTyped, carts, lineVars, shop
<1>3. Goto(w, Idle)
  BY DEF WriteTotal, Answer, Goto
<1> QED BY <1>2, <1>3, IdleIsFormed, CartStepInside DEF WriteTotal, Goto
-----------------------------------------------------------------------------
(* Changing and reading lines.                                              *)

\* What a customer changes is a line of a cart of the customer's.
LEMMA MineIsThere ==
  ASSUME RowsTyped, NEW o \in Owners, NEW i \in Mine(o)
  PROVE  /\ i \in Items /\ items[i] # None /\ items[i] \in Item
         /\ items[i].cart \in ActiveOf(o) /\ items[i].cart \in Carts
         /\ items[i].size \in ProductSizes
<1>1. /\ i \in Items /\ items[i] # None
      /\ \E c \in ActiveOf(o) : items[i].cart = c
  BY DEF Mine, In
<1> QED BY <1>1, ItemFields DEF RowsTyped

LEMMA ChangeLineStep ==
  ASSUME CartInv, NEW w \in Workers, NEW o \in Owners, NEW i \in Items, NEW q \in Nat,
         SetQuantity(w, o, i, q) \/ RemoveItem(w, o, i)
  PROVE  CartInv'
<1> DEFINE c == items[i].cart
           s == items[i].size
           p == price[s]
<1>1. c \in Carts /\ s \in ProductSizes
  BY MineIsThere DEF SetQuantity, RemoveItem, CartInv
<1>2. p \in Nat
  BY <1>1, CartAssumption DEF CartInv, RowsTyped, CartAssumption
<1>3. RowsTyped'
  BY BeginIsCounted DEF SetQuantity, RemoveItem, CartInv, RowsTyped
<1>4. UNCHANGED carts
  BY DEF SetQuantity, RemoveItem
<1>5. PICK x : CartForm(x) /\ Goto(w, x) /\ x.at \in {"put", "drop"}
  <2>1. CASE SetQuantity(w, o, i, q)
    <3> DEFINE r == [at |-> "put", cart |-> c, size |-> s, item |-> i, qty |-> q, price |-> p]
    <3>1. Goto(w, r)
      BY <2>1 DEF SetQuantity
    <3> HIDE DEF c, s, p
    <3>2. CartForm(r) /\ r.at = "put"
      BY <1>1, <1>2 DEF CartForm
    <3> QED BY <3>1, <3>2
  <2>2. CASE RemoveItem(w, o, i)
    <3> DEFINE r == [at |-> "drop", cart |-> c, item |-> i]
    <3>1. Goto(w, r)
      BY <2>2 DEF RemoveItem
    <3> HIDE DEF c
    <3>2. CartForm(r) /\ r.at = "drop"
      BY <1>1 DEF CartForm
    <3> QED BY <3>1, <3>2
  <2> QED BY <2>1, <2>2
<1> HIDE DEF c, s, p
<1> QED BY <1>3, <1>4, <1>5, CartStepInside DEF Goto

LEMMA DropLineStep ==
  ASSUME CartInv, NEW w \in Workers, DropLine(w)
  PROVE  CartInv'
<1> DEFINE c == req[w].cart
           r == [at |-> "sum", cart |-> c]
<1>1. c \in Carts /\ req[w].item \in Items
  BY DEF DropLine, At, CartInv, CartForm
<1>2. RowsTyped'
  BY <1>1 DEF DropLine, CartInv, RowsTyped, carts, shop
<1>3. Goto(w, r) \/ Goto(w, Idle)
  BY DEF DropLine, Goto, Answer
<1> HIDE DEF c
<1>4. CartForm(r) /\ r.at = "sum"
  BY <1>1 DEF CartForm
<1>5. PICK x : CartForm(x) /\ Goto(w, x) /\ x.at \in {"idle", "sum"}
  BY <1>3, <1>4, IdleIsFormed
<1> QED BY <1>2, <1>5, CartStepInside DEF DropLine, Goto

LEMMA ClearCartStep ==
  ASSUME CartInv, NEW w \in Workers, NEW o \in Owners, ClearCart(w, o)
  PROVE  CartInv'
<1>1. PICK c \in ActiveOf(o) : Goto(w, [at |-> "wipe", cart |-> c])
  BY DEF ClearCart
<1> DEFINE r == [at |-> "wipe", cart |-> c]
<1>2. CartForm(r) /\ r.at = "wipe"
  BY ActiveIsOwned DEF CartForm
<1>3. RowsTyped'
  BY BeginIsCounted DEF ClearCart, CartInv, RowsTyped
<1>4. PICK x : CartForm(x) /\ Goto(w, x) /\ x.at = "wipe"
  BY <1>1, <1>2
<1> QED BY <1>3, <1>4, CartStepInside DEF ClearCart, Goto

LEMMA WipeStep ==
  ASSUME CartInv, NEW w \in Workers, Wipe(w)
  PROVE  CartInv'
<1> DEFINE c == req[w].cart
           r == [at |-> "total", cart |-> c, sum |-> 0]
<1>1. c \in Carts
  BY DEF Wipe, At, CartInv, CartForm
<1>2. RowsTyped'
  BY DEF Wipe, CartInv, RowsTyped, carts, shop
<1>3. Goto(w, r)
  BY DEF Wipe
<1> HIDE DEF c
<1>4. CartForm(r) /\ r.at = "total"
  BY <1>1 DEF CartForm
<1>5. PICK x : CartForm(x) /\ Goto(w, x) /\ x.at = "total"
  BY <1>3, <1>4
<1> QED BY <1>2, <1>5, CartStepInside DEF Wipe, Goto

\* What a line is to become is a line, worth its price times its quantity.
LEMMA RefreshedIsItem ==
  ASSUME RowsTyped, NEW i \in Items, items[i] # None, Refreshed(i) # None
  PROVE  /\ Refreshed(i) \in Item
         /\ Refreshed(i).sub = Refreshed(i).price * Refreshed(i).qty
<1> DEFINE s == items[i].size
           q == Least(items[i].qty, stock[s])
<1>1. items[i] \in Item
  BY DEF RowsTyped
<1>2. s \in ProductSizes /\ items[i].qty \in Nat /\ items[i].cart \in Carts /\ items[i].seen \in BOOLEAN
  BY <1>1, ItemFields
<1>a. stock[s] \in Nat /\ price[s] \in Nat
  <2>1. stock[s] \in 0 .. MaxStock /\ price[s] \in Prices
    BY <1>2 DEF RowsTyped
  <2> HIDE DEF s
  <2>2. MaxStock \in Nat /\ Prices \subseteq Nat
    BY CartAssumption DEF CartAssumption
  <2>3. price[s] \in Nat
    BY <2>1, <2>2
  <2>4. stock[s] \in Nat
    BY <2>1, <2>2
  <2> QED BY <2>3, <2>4
<1>3. q \in Nat /\ price[s] \in Nat
  BY <1>2, <1>a DEF Least
<1>4. Refreshed(i) = Line(items[i].cart, s, q, price[s], items[i].seen)
  BY DEF Refreshed
<1> HIDE DEF s, q
<1> DEFINE x == Line(items[i].cart, s, q, price[s], items[i].seen)
<1>5. /\ x \in Item /\ x.sub = price[s] * q /\ x.price = price[s] /\ x.qty = q
  BY <1>2, <1>3, LineIsItem
<1> HIDE DEF x
<1>6. x.sub = x.price * x.qty
  BY <1>5, Zenon
<1> QED BY <1>4, <1>5, <1>6 DEF x

\* The lines that a plan keeps are worth an amount.
LEMMA PlanIsAmount ==
  ASSUME NEW S, S \subseteq Items, NEW plan, \A i \in S : plan[i] \in Item
  PROVE  SumFunctionOnSet([i \in S |-> plan[i].sub], S) \in Nat
<1> DEFINE q == [i \in S |-> plan[i].sub]
<1>1. IsFiniteSet(S) /\ \A i \in S : q[i] \in Nat
  BY LinesFinite, FS_Subset, ItemFields
<1>2. SumFunctionOnSet(q, S) \in Nat
  <2> HIDE DEF q
  <2> QED BY <1>1, SumNat
<1> QED BY <1>2

LEMMA ReadCartStep ==
  ASSUME CartInv, NEW w \in Workers, NEW o \in Owners, ReadCart(w, o)
  PROVE  CartInv'
<1> DEFINE plan(c) == [i \in In(c) |-> Refreshed(i)]
           kept(c) == {i \in In(c) : plan(c)[i] # None}
           todo(c) == {i \in In(c) : plan(c)[i] # items[i]}
           sum(c) == SumFunctionOnSet([i \in kept(c) |-> plan(c)[i].sub], kept(c))
           r(c) == [at |-> "refresh", cart |-> c, plan |-> plan(c), todo |-> todo(c),
                    sum |-> sum(c)]
<1>1. PICK c \in ActiveOf(o) : Goto(w, r(c))
  BY DEF ReadCart
<1>2. c \in Carts /\ In(c) \subseteq Items
  BY ActiveIsOwned, LinesFinite
<1>3. /\ DOMAIN plan(c) = In(c) /\ todo(c) \subseteq In(c)
      /\ \A i \in In(c) : plan(c)[i] \in Item \cup {None}
  <2>1. \A i \in In(c) : plan(c)[i] = Refreshed(i) /\ i \in Items /\ items[i] # None
    BY <1>2 DEF In
  <2>2. \A i \in In(c) : Refreshed(i) \in Item \cup {None}
    BY <2>1, RefreshedIsItem DEF CartInv
  <2> QED BY <2>1, <2>2
<1>4. sum(c) \in Nat
  <2>1. kept(c) \subseteq Items /\ \A i \in kept(c) : plan(c)[i] \in Item
    BY <1>2, <1>3
  <2> HIDE DEF plan, kept
  <2> QED BY <2>1, PlanIsAmount
<1> HIDE DEF plan, todo, sum
<1>5. CartForm(r(c)) /\ r(c).at = "refresh"
  BY <1>2, <1>3, <1>4 DEF CartForm
<1>6. RowsTyped'
  BY DEF ReadCart, CartInv, RowsTyped, carts, lineVars, shop
<1>7. PICK x : CartForm(x) /\ Goto(w, x) /\ x.at = "refresh"
  BY <1>1, <1>5
<1> QED BY <1>6, <1>7, CartStepInside DEF ReadCart, Goto

\* A line that is rewritten stays where it is, and was shown at a price as high.
IsSeen(line) == line.seen
LEMMA RewrittenIsItem ==
  ASSUME RowsTyped, NEW i \in Items, items[i] # None,
         NEW q \in Nat, NEW p \in Nat, NEW sub \in Nat
  PROVE  /\ Rewritten(i, q, p, sub) \in Item
         /\ Rewritten(i, q, p, sub).cart = items[i].cart
         /\ Rewritten(i, q, p, sub).qty = q /\ Rewritten(i, q, p, sub).price = p
         /\ Rewritten(i, q, p, sub).sub = sub
         /\ IsSeen(Rewritten(i, q, p, sub)) <=> IsSeen(items[i]) /\ p <= items[i].price
<1>1. items[i] \in Item
  BY DEF RowsTyped
<1>2. (items[i].seen /\ p <= items[i].price) \in BOOLEAN
  OBVIOUS
<1> QED BY <1>1, <1>2 DEF Rewritten, Item, IsSeen

\* One line less is to be written.
LEMMA OneLess ==
  ASSUME NEW r, CartForm(r), r.at \in {"refresh", "reprice"}, NEW i \in r.todo
  PROVE  /\ CartForm([r EXCEPT !.todo = @ \ {i}])
         /\ [r EXCEPT !.todo = @ \ {i}].at = r.at
         /\ [r EXCEPT !.todo = @ \ {i}].cart = r.cart
  BY DEF CartForm

LEMMA RefreshLineStep ==
  ASSUME CartInv, NEW w \in Workers, NEW i \in Items, RefreshLine(w, i)
  PROVE  CartInv'
<1> DEFINE r == req[w]
<1>1. CartForm(r) /\ r.at = "refresh" /\ i \in r.todo /\ r.plan[i] \in Item \cup {None}
  BY DEF RefreshLine, At, CartInv, CartForm
<1>2. items' \in [Items -> Item \cup {None}]
  <2>1. CASE items[i] = None \/ r.plan[i] = None
    BY <2>1 DEF RefreshLine, CartInv, RowsTyped
  <2>2. CASE items[i] # None /\ r.plan[i] # None
    <3>1. Rewritten(i, r.plan[i].qty, r.plan[i].price, r.plan[i].sub) \in Item
      BY <1>1, <2>2, ItemFields, RewrittenIsItem DEF CartInv
    <3> QED BY <2>2, <3>1 DEF RefreshLine, CartInv, RowsTyped
  <2> QED BY <2>1, <2>2
<1>3. RowsTyped'
  BY <1>2 DEF RefreshLine, CartInv, RowsTyped, carts, shop
<1>4. Goto(w, [r EXCEPT !.todo = @ \ {i}]) \/ Goto(w, Idle)
  BY DEF RefreshLine, Goto, Answer
<1>5. PICK x : CartForm(x) /\ Goto(w, x) /\ x.at \in {"idle", "refresh"}
  <2> HIDE DEF r
  <2> QED BY <1>1, <1>4, IdleIsFormed, OneLess
<1> QED BY <1>3, <1>5, CartStepInside DEF RefreshLine, Goto

\* The lines of a cart are shown as they are.
LEMMA ShownTyped ==
  ASSUME RowsTyped, NEW c,
         items' = [i \in Items |-> IF i \in In(c) THEN [items[i] EXCEPT !.seen = TRUE] ELSE items[i]]
  PROVE  items' \in [Items -> Item \cup {None}]
<1>1. \A i \in In(c) : i \in Items /\ items[i] \in Item
  BY DEF In, RowsTyped
<1>2. \A i \in In(c) : [items[i] EXCEPT !.seen = TRUE] \in Item
  BY <1>1 DEF Item
<1> QED BY <1>2 DEF RowsTyped

LEMMA RefreshTotalStep ==
  ASSUME CartInv, NEW w \in Workers, RefreshTotal(w)
  PROVE  CartInv'
<1>1. req[w].cart \in Carts /\ req[w].sum \in Nat
  BY DEF RefreshTotal, At, CartInv, CartForm
<1>2. items' \in [Items -> Item \cup {None}]
  BY ShownTyped DEF RefreshTotal, CartInv
<1>3. RowsTyped'
  BY <1>1, <1>2 DEF RefreshTotal, CartInv, RowsTyped, carts, shop
<1>4. Goto(w, Idle)
  BY DEF RefreshTotal, Answer, Goto
<1> QED BY <1>3, <1>4, IdleIsFormed, CartStepInside DEF RefreshTotal, Goto
-----------------------------------------------------------------------------
(* Ordering and signing in.                                                 *)

\* What has no lower bound than 0 is an amount.
LEMMA StockIsAmount ==
  ASSUME RowsTyped, NEW s \in ProductSizes
  PROVE  stock[s] \in Nat /\ price[s] \in Nat /\ MaxStock \in Nat
<1>1. stock[s] \in 0 .. MaxStock /\ price[s] \in Prices
  BY DEF RowsTyped
<1>2. MaxStock \in Nat /\ Prices \subseteq Nat
  BY CartAssumption DEF CartAssumption
<1>3. price[s] \in Nat
  BY <1>1, <1>2
<1>4. stock[s] \in Nat
  BY <1>1, <1>2
<1> QED BY <1>2, <1>3, <1>4

\* What an order submitted for a cart goes on with.
SubmitForm(c) ==
  [at |-> "reprice", cart |-> c, plan |-> [i \in In(c) |-> price[items[i].size]],
   qty |-> [i \in In(c) |-> items[i].qty],
   size |-> [i \in In(c) |-> items[i].size],
   todo |-> {i \in In(c) : price[items[i].size] # items[i].price},
   changed |-> \E i \in In(c) : price[items[i].size] # items[i].price,
   raised |-> \E i \in In(c) : price[items[i].size] > items[i].price,
   blind |-> \E i \in In(c) : ~items[i].seen]

LEMMA SubmitIsFormed ==
  ASSUME RowsTyped, NEW c \in Carts
  PROVE  CartForm(SubmitForm(c)) /\ SubmitForm(c).at = "reprice" /\ SubmitForm(c).cart = c
<1>1. \A i \in In(c) : i \in Items /\ items[i] \in Item
  BY DEF In, RowsTyped
<1>2. \A i \in In(c) : price[items[i].size] \in Nat /\ items[i].qty \in Nat
  BY <1>1, ItemFields, StockIsAmount
<1> QED BY <1>1, <1>2 DEF SubmitForm, CartForm

LEMMA SubmitStep ==
  ASSUME CartInv, NEW w \in Workers, NEW o \in Owners, Submit(w, o)
  PROVE  CartInv'
<1>1. PICK c \in ActiveOf(o) : Goto(w, SubmitForm(c))
  BY DEF Submit, SubmitForm
<1>2. c \in Carts /\ owner[c] # None
  BY ActiveIsOwned
<1>3. PICK x : CartForm(x) /\ Goto(w, x) /\ x.at = "reprice" /\ x.cart = c
  BY <1>1, <1>2, SubmitIsFormed DEF CartInv
<1>4. RowsTyped'
  BY BeginIsCounted DEF Submit, CartInv, RowsTyped
<1> QED BY <1>2, <1>3, <1>4, CartStepInside DEF Submit, Goto

LEMMA RepriceStep ==
  ASSUME CartInv, NEW w \in Workers, NEW i \in Items, Reprice(w, i)
  PROVE  CartInv'
<1> DEFINE r == req[w]
<1>1. /\ CartForm(r) /\ r.at = "reprice" /\ i \in r.todo /\ owner[r.cart] # None
      /\ r.plan[i] \in Nat /\ r.qty[i] \in Nat
  BY DEF Reprice, At, CartInv, CartForm, Held
<1>2. items' \in [Items -> Item \cup {None}]
  <2>1. CASE items[i] = None
    BY <2>1 DEF Reprice, CartInv, RowsTyped
  <2>2. CASE items[i] # None
    <3>1. r.plan[i] * r.qty[i] \in Nat
      <4> DEFINE a == r.plan[i]
                 b == r.qty[i]
      <4> HIDE DEF a, b
      <4>1. a \in Nat /\ b \in Nat
        BY <1>1 DEF a, b
      <4> QED BY <4>1 DEF a, b
    <3>2. items[i].qty \in Nat
      BY <2>2, ItemFields DEF CartInv, RowsTyped
    <3>3. Rewritten(i, items[i].qty, r.plan[i], r.plan[i] * r.qty[i]) \in Item
      BY <1>1, <2>2, <3>1, <3>2, RewrittenIsItem DEF CartInv
    <3> QED BY <2>2, <3>3 DEF Reprice, CartInv, RowsTyped
  <2> QED BY <2>1, <2>2
<1>3. RowsTyped'
  BY <1>2 DEF Reprice, CartInv, RowsTyped, carts, shop
<1>4. Goto(w, [r EXCEPT !.todo = @ \ {i}]) \/ Goto(w, Idle)
  BY DEF Reprice, Goto, Answer
<1>5. PICK x : /\ CartForm(x) /\ Goto(w, x)
               /\ x.at = "idle" \/ (x.at = "reprice" /\ owner[x.cart] # None)
  <2> HIDE DEF r
  <2>1. CASE Goto(w, Idle)
    BY <2>1, IdleIsFormed
  <2>2. CASE Goto(w, [r EXCEPT !.todo = @ \ {i}])
    <3>1. PICK x : x = [r EXCEPT !.todo = @ \ {i}]
      OBVIOUS
    <3>2. CartForm(x) /\ x.at = "reprice" /\ x.cart = r.cart
      BY <1>1, <3>1, OneLess
    <3> QED BY <1>1, <2>2, <3>1, <3>2
  <2> QED BY <1>4, <2>1, <2>2
<1> QED BY <1>3, <1>5, CartStepInside DEF Reprice, Goto

\* What the repriced lines are worth.
LEMMA WorthIsAmount ==
  ASSUME NEW S, S \subseteq Items, NEW p, NEW q, \A i \in S : p[i] \in Nat /\ q[i] \in Nat
  PROVE  SumFunctionOnSet([i \in S |-> p[i] * q[i]], S) \in Nat
<1> DEFINE f == [i \in S |-> p[i] * q[i]]
<1>1. ASSUME NEW i \in S PROVE f[i] \in Nat
  <2>1. \A a, b \in Nat : a * b \in Nat
    OBVIOUS
  <2>2. p[i] * q[i] \in Nat
    BY <2>1, Zenon
  <2> QED BY <2>2
<1>2. IsFiniteSet(S)
  BY LinesFinite, FS_Subset
<1>3. SumFunctionOnSet(f, S) \in Nat
  <2> HIDE DEF f
  <2> QED BY <1>1, <1>2, SumNat
<1> QED BY <1>3

LEMMA DecideStep ==
  ASSUME CartInv, NEW w \in Workers, Decide(w)
  PROVE  CartInv'
<1> DEFINE r == req[w]
           sum == SumFunctionOnSet([i \in DOMAIN r.plan |-> r.plan[i] * r.qty[i]], DOMAIN r.plan)
           c == r.cart
           qty == r.qty
           size == r.size
           blind == r.blind
           o == [at |-> "order", cart |-> c, qty |-> qty, size |-> size, blind |-> blind]
<1>1. CartForm(r) /\ r.at = "reprice" /\ owner[c] # None
  BY DEF Decide, At, CartInv, Held
<1>2. /\ c \in Carts /\ DOMAIN qty \subseteq Items /\ DOMAIN qty = DOMAIN r.plan
      /\ \A i \in DOMAIN qty : qty[i] \in Nat /\ r.plan[i] \in Nat
  BY <1>1 DEF CartForm
<1>3. sum \in Nat
  <2> HIDE DEF r
  <2> QED BY <1>2, WorthIsAmount
<1>4. subtotal' \in [Carts -> Nat]
  <2>1. subtotal' = [subtotal EXCEPT ![c] = sum] \/ subtotal' = subtotal
    BY DEF Decide
  <2> HIDE DEF sum, c
  <2> QED BY <1>2, <1>3, <2>1 DEF CartInv, RowsTyped
<1>5. items' \in [Items -> Item \cup {None}]
  <2>1. CASE r.raised
    BY <2>1, ShownTyped DEF Decide, CartInv
  <2>2. CASE ~r.raised
    BY <2>2 DEF Decide, CartInv, RowsTyped
  <2> QED BY <2>1, <2>2
<1>6. RowsTyped'
  BY <1>4, <1>5 DEF Decide, CartInv, RowsTyped, carts, shop
<1>7. Goto(w, o) \/ Goto(w, Idle)
  BY DEF Decide, Answer, Goto
<1> HIDE DEF r, c, qty, size, blind
<1>8. CartForm(o) /\ o.at = "order" /\ o.cart = c
  BY <1>2 DEF CartForm
<1>9. PICK x : /\ CartForm(x) /\ Goto(w, x)
               /\ x.at = "idle" \/ (x.at = "order" /\ owner[x.cart] # None)
  BY <1>1, <1>7, <1>8, IdleIsFormed
<1> QED BY <1>6, <1>9, CartStepInside DEF Decide, Goto

LEMMA PlaceOrderStep ==
  ASSUME CartInv, NEW w \in Workers, PlaceOrder(w)
  PROVE  CartInv'
<1> DEFINE r == req[w]
<1>1. /\ r.cart \in Carts /\ owner[r.cart] # None
      /\ DOMAIN r.qty \subseteq Items /\ \A i \in DOMAIN r.qty : r.qty[i] \in Nat
  BY DEF PlaceOrder, At, CartInv, CartForm, Held
<1>2. ASSUME NEW s \in ProductSizes PROVE Wanted(r, s) \in Nat
  <2> DEFINE S == {i \in DOMAIN r.qty : r.size[i] = s}
  <2>1. IsFiniteSet(S) /\ \A i \in S : r.qty[i] \in Nat
    BY <1>1, LinesFinite, FS_Subset
  <2>2. SumFunctionOnSet(r.qty, S) \in Nat
    <3> HIDE DEF S, r
    <3> QED BY <2>1, SumNat
  <2> QED BY <2>2 DEF Wanted
<1>3. stock' \in [ProductSizes -> 0 .. MaxStock]
  <2>1. CASE \E s \in ProductSizes : Wanted(r, s) > stock[s]
    BY <2>1 DEF PlaceOrder, CartInv, RowsTyped
  <2>2. CASE ~\E s \in ProductSizes : Wanted(r, s) > stock[s]
    <3>1. ASSUME NEW s \in ProductSizes PROVE stock[s] - Wanted(r, s) \in 0 .. MaxStock
      <4>1. stock[s] \in 0 .. MaxStock /\ stock[s] \in Nat /\ MaxStock \in Nat
        BY StockIsAmount DEF CartInv, RowsTyped
      <4>2. Wanted(r, s) \in Nat /\ ~(Wanted(r, s) > stock[s])
        BY <1>2, <2>2
      <4> QED BY <4>1, <4>2
    <3>2. stock' = [s \in ProductSizes |-> stock[s] - Wanted(r, s)]
      BY <2>2 DEF PlaceOrder
    <3> QED BY <3>1, <3>2
  <2> QED BY <2>1, <2>2
<1>4. status' = status \/ status' = [status EXCEPT ![r.cart] = "CHECKED_OUT"]
  BY DEF PlaceOrder
<1>5. UNCHANGED <<visitor, owner, subtotal, lineVars, price, changes, ops>> /\ Goto(w, Idle)
  BY DEF PlaceOrder, Answer, Goto
<1> HIDE DEF r
<1>6. RowsTyped'
  BY <1>1, <1>3, <1>4, <1>5 DEF CartInv, RowsTyped, lineVars
<1>7. UnmadeIsActive'
  BY <1>1, <1>4, <1>5 DEF CartInv, RowsTyped, UnmadeIsActive
<1> QED BY <1>5, <1>6, <1>7, IdleIsFormed, CartStep DEF Goto

LEMMA MergeLookStep ==
  ASSUME CartInv, NEW w \in Workers, NEW u \in Users, NEW v \in Visitors, MergeLook(w, u, v)
  PROVE  CartInv'
<1> DEFINE r == [at |-> "link", user |-> u, visitor |-> v]
<1>1. CartForm(r) /\ r.at = "link"
  BY DEF CartForm
<1>2. PICK x : CartForm(x) /\ Goto(w, x) /\ x.at = "link"
  BY <1>1 DEF MergeLook
<1>3. RowsTyped'
  BY BeginIsCounted DEF MergeLook, CartInv, RowsTyped
<1> QED BY <1>2, <1>3, CartStepInside DEF MergeLook, Goto

LEMMA MergeLinkStep ==
  ASSUME CartInv, NEW w \in Workers, MergeLink(w)
  PROVE  CartInv'
<1> DEFINE r == [req[w] EXCEPT !.at = "linked"]
<1>1. CartForm(r) /\ r.at = "linked"
  BY DEF CartForm, MergeLink, At, CartInv
<1>2. PICK x : CartForm(x) /\ Goto(w, x) /\ x.at = "linked"
  BY <1>1 DEF MergeLink
<1>3. RowsTyped'
  BY DEF MergeLink, CartInv, RowsTyped, carts, lineVars, shop
<1> QED BY <1>2, <1>3, CartStepInside DEF MergeLink, Goto

\* What a merge goes on with: the guest's cart and the account's, if any.
MergeForm(r, g, c) ==
  [at |-> "merge", user |-> r.user, visitor |-> r.visitor, guest |-> g, cart |-> c,
   theirs |-> [i \in In(g) |-> items[i]],
   mine |-> IF c = None THEN <<>> ELSE [i \in In(c) |-> items[i]], cap |-> stock]

LEMMA MergeIsFormed ==
  ASSUME RowsTyped, NEW r, r.user \in Users, r.visitor \in Visitors,
         NEW g \in Carts, NEW c \in Carts \cup {None}
  PROVE  /\ CartForm(MergeForm(r, g, c))
         /\ MergeForm(r, g, c).at = "merge" /\ MergeForm(r, g, c).guest = g
<1> DEFINE theirs == [i \in In(g) |-> items[i]]
           mine == IF c = None THEN <<>> ELSE [i \in In(c) |-> items[i]]
           user == r.user
           visit == r.visitor
           x == [at |-> "merge", user |-> user, visitor |-> visit, guest |-> g, cart |-> c,
                 theirs |-> theirs, mine |-> mine, cap |-> stock]
<1>1. \A d : \A i \in In(d) : i \in Items /\ items[i] \in Item
  BY DEF In, RowsTyped
<1>2. DOMAIN theirs \subseteq Items /\ \A i \in DOMAIN theirs : theirs[i] \in Item
  BY <1>1
<1>3. DOMAIN mine \subseteq Items /\ \A i \in DOMAIN mine : mine[i] \in Item
  <2>1. CASE c = None
    <3>1. mine = <<>> /\ DOMAIN <<>> = {}
      BY <2>1
    <3> QED BY <3>1
  <2>2. CASE c # None
    BY <1>1, <2>2
  <2> QED BY <2>1, <2>2
<1>4. stock \in [ProductSizes -> Nat]
  <2>1. \A s \in ProductSizes : stock[s] \in Nat
    BY StockIsAmount
  <2> QED BY <2>1 DEF RowsTyped
<1>5. user \in Users /\ visit \in Visitors
  OBVIOUS
<1>6. CartForm(x) /\ x.at = "merge" /\ x.guest = g
  <2> HIDE DEF theirs, mine, user, visit
  <2> QED BY <1>2, <1>3, <1>4, <1>5 DEF CartForm
<1> QED BY <1>6 DEF MergeForm

\* What a merge reads is an open cart of the visitor's, or none.
LEMMA MergeReads ==
  ASSUME CartInv, NEW w \in Workers, MergeRead(w)
  PROVE  /\ req[w].user \in Users /\ req[w].visitor \in Visitors
         /\ UNCHANGED <<carts, subtotal, lineVars, shop, ops>>
         /\ \/ Goto(w, Idle) /\ visitor' = [visitor EXCEPT ![req[w].visitor] = req[w].user]
            \/ /\ UNCHANGED visitor
               /\ \E g \in Carts, c \in Carts \cup {None} :
                    /\ owner[g] = req[w].visitor
                    /\ c # None => owner[c] = req[w].user
                    /\ Goto(w, MergeForm(req[w], g, c))
<1> DEFINE r == req[w]
<1>1. r.user \in Users /\ r.visitor \in Visitors
  BY DEF MergeRead, At, CartInv, CartForm
<1>2. UNCHANGED <<carts, subtotal, lineVars, shop, ops>>
  BY DEF MergeRead
<1>3. CASE ActiveOf(r.visitor) = {}
  BY <1>1, <1>2, <1>3 DEF MergeRead, Answer, Goto
<1>4. CASE ActiveOf(r.visitor) # {}
  <2>1. UNCHANGED visitor
    BY <1>4 DEF MergeRead
  <2>2. PICK g \in ActiveOf(r.visitor) :
          IF ActiveOf(r.user) = {} THEN Goto(w, MergeForm(r, g, None))
          ELSE \E c \in ActiveOf(r.user) : Goto(w, MergeForm(r, g, c))
    BY <1>4 DEF MergeRead, MergeForm
  <2>3. g \in Carts /\ owner[g] = r.visitor
    BY DEF ActiveOf
  <2>4. CASE ActiveOf(r.user) = {}
    <3>1. Goto(w, MergeForm(r, g, None))
      BY <2>2, <2>4
    <3> HIDE DEF r
    <3> QED BY <1>1, <1>2, <2>1, <2>3, <3>1 DEF r
  <2>5. CASE ActiveOf(r.user) # {}
    <3>1. PICK c \in ActiveOf(r.user) : Goto(w, MergeForm(r, g, c))
      BY <2>2, <2>5
    <3>2. c \in Carts /\ owner[c] = r.user
      BY DEF ActiveOf
    <3> HIDE DEF r
    <3> QED BY <1>1, <1>2, <2>1, <2>3, <3>1, <3>2 DEF r
  <2> QED BY <2>4, <2>5
<1> QED BY <1>3, <1>4

LEMMA MergeReadStep ==
  ASSUME CartInv, NEW w \in Workers, MergeRead(w)
  PROVE  CartInv'
<1>1. /\ req[w].user \in Users /\ req[w].visitor \in Visitors
      /\ UNCHANGED <<carts, subtotal, lineVars, shop, ops>>
  BY MergeReads
<1>2. CASE Goto(w, Idle) /\ visitor' = [visitor EXCEPT ![req[w].visitor] = req[w].user]
  <2>1. RowsTyped'
    BY <1>1, <1>2 DEF CartInv, RowsTyped, carts, lineVars, shop
  <2> QED BY <1>1, <1>2, <2>1, IdleIsFormed, CartStepInside DEF Goto
<1>3. CASE /\ UNCHANGED visitor
           /\ \E g \in Carts, c \in Carts \cup {None} :
                /\ owner[g] = req[w].visitor
                /\ c # None => owner[c] = req[w].user
                /\ Goto(w, MergeForm(req[w], g, c))
  <2>1. PICK g \in Carts, c \in Carts \cup {None} :
          owner[g] = req[w].visitor /\ Goto(w, MergeForm(req[w], g, c))
    BY <1>3
  <2>2. owner[g] # None
    BY <1>1, <2>1, CartAssumption DEF CartAssumption, Owners
  <2>3. PICK x : CartForm(x) /\ Goto(w, x) /\ x.at = "merge" /\ x.guest = g
    BY <1>1, <2>1, MergeIsFormed DEF CartInv
  <2>4. RowsTyped'
    BY <1>1, <1>3 DEF CartInv, RowsTyped, carts, lineVars, shop
  <2> QED BY <1>1, <2>2, <2>3, <2>4, CartStepInside DEF Goto
<1> QED BY <1>2, <1>3, MergeReads
-----------------------------------------------------------------------------
(* The commit of a merge.                                                   *)

\* The lines of the account's cart with the size of a guest's line, ...
SameSize(r, i) == {j \in DOMAIN r.mine : r.mine[j].size = r.theirs[i].size}
\* ... and the line whose price the two of them have afterwards.
PricedBy(r, i) == IF SameSize(r, i) = {} THEN r.theirs[i] ELSE r.mine[Target(r, i)]

\* A guest's line goes into one of the account's lines, or stays the line it is.
LEMMA TargetIsLine ==
  ASSUME NEW r, CartForm(r), r.at = "merge", NEW i \in DOMAIN r.theirs
  PROVE  /\ \/ Target(r, i) \in DOMAIN r.mine /\ PricedBy(r, i) = r.mine[Target(r, i)]
            \/ Target(r, i) = i /\ PricedBy(r, i) = r.theirs[i]
         /\ Target(r, i) \in Items
         /\ PricedBy(r, i) \in Item
<1> DEFINE same == SameSize(r, i)
<1>1. /\ i \in Items /\ r.theirs[i] \in Item
      /\ DOMAIN r.mine \subseteq Items /\ \A k \in DOMAIN r.mine : r.mine[k] \in Item
  BY DEF CartForm
<1>2. Target(r, i) = IF same = {} THEN i ELSE CHOOSE k \in same : TRUE
  BY DEF Target, SameSize
<1>3. same # {} => (CHOOSE k \in same : TRUE) \in same
  OBVIOUS
<1>4. same \subseteq DOMAIN r.mine
  BY DEF SameSize
<1> HIDE DEF same
<1> QED BY <1>1, <1>2, <1>3, <1>4 DEF PricedBy, same

\* It is worth that line's price times its quantity.
LEMMA MergedFields ==
  ASSUME NEW r, CartForm(r), r.at = "merge", NEW i \in DOMAIN r.theirs
  PROVE  /\ Merged(r, i).qty \in Nat /\ Merged(r, i).sub \in Nat
         /\ Merged(r, i).sub = PricedBy(r, i).price * Merged(r, i).qty
<1> DEFINE t == r.theirs[i]
           same == SameSize(r, i)
           cap == IF r.cap[t.size] > 1 THEN r.cap[t.size] ELSE 1
           base == PricedBy(r, i)
           qty == Least(IF same = {} THEN t.qty ELSE base.qty + t.qty, cap)
           sub == base.price * qty
<1>1. t \in Item /\ base \in Item
  BY TargetIsLine DEF CartForm
<1>2. /\ t.qty \in Nat /\ t.size \in ProductSizes /\ base.qty \in Nat /\ base.price \in Nat
      /\ base = [cart |-> base.cart, size |-> base.size, qty |-> base.qty,
                 price |-> base.price, sub |-> base.sub, seen |-> base.seen]
  <2> HIDE DEF t, base
  <2> QED BY <1>1 DEF Item
<1>3. cap \in Nat
  <2>1. r.cap[t.size] \in Nat
    BY <1>2 DEF CartForm
  <2> QED BY <2>1
<1>4. qty \in Nat
  <2> HIDE DEF t, base, cap, same
  <2> QED BY <1>2, <1>3 DEF Least
<1>5. sub \in Nat
  <2> HIDE DEF qty, base
  <2> QED BY <1>2, <1>4
<1>6. Merged(r, i) = [base EXCEPT !.cart = r.cart, !.qty = qty, !.sub = sub]
  BY DEF Merged, PricedBy, SameSize, Target
<1> HIDE DEF qty, sub
<1>7. Merged(r, i).qty = qty /\ Merged(r, i).sub = sub
  <2> HIDE DEF base
  <2> QED BY <1>2, <1>6
<1> QED BY <1>4, <1>5, <1>7, Zenon DEF sub

\* The rows that a merge writes: the lines that guest's lines go into, ...
Targets(r) == {Target(r, j) : j \in DOMAIN r.theirs}
\* ... one of the guest's lines that goes into such a line, ...
Source(r, i) == CHOOSE k \in DOMAIN r.theirs : Target(r, k) = i
\* ... and what becomes of every row.
MergedRow(r, i) ==
  [items[i] EXCEPT !.cart = IF i = Source(r, i) THEN r.cart ELSE @,
                   !.qty = Merged(r, Source(r, i)).qty, !.sub = Merged(r, Source(r, i)).sub]
RowsMerged(r) ==
  [i \in Items |-> IF i \in Targets(r) THEN MergedRow(r, i)
                   ELSE IF i \in DOMAIN r.theirs THEN None ELSE items[i]]
\* The lines the account's cart has then.
LinesAfter(r) == {i \in Items : RowsMerged(r)[i] # None /\ RowsMerged(r)[i].cart = r.cart}

LEMMA SourceIsTheirs ==
  ASSUME NEW r, NEW i \in Targets(r)
  PROVE  Source(r, i) \in DOMAIN r.theirs /\ Target(r, Source(r, i)) = i
  BY DEF Source, Targets

LEMMA MergedRowIsItem ==
  ASSUME RowsTyped, NEW r, CartForm(r), r.at = "merge", r.cart # None,
         NEW i \in Targets(r), items[i] # None
  PROVE  /\ i \in Items /\ MergedRow(r, i) \in Item
         /\ MergedRow(r, i).cart = (IF i = Source(r, i) THEN r.cart ELSE items[i].cart)
         /\ MergedRow(r, i).price = items[i].price
         /\ MergedRow(r, i).seen = items[i].seen
         /\ MergedRow(r, i).qty = Merged(r, Source(r, i)).qty
         /\ MergedRow(r, i).sub = Merged(r, Source(r, i)).sub
<1> DEFINE j == Source(r, i)
           cart == IF i = j THEN r.cart ELSE items[i].cart
           qty == Merged(r, j).qty
           sub == Merged(r, j).sub
<1>1. j \in DOMAIN r.theirs /\ Target(r, j) = i
  BY SourceIsTheirs
<1>2. i \in Items /\ qty \in Nat /\ sub \in Nat
  BY <1>1, TargetIsLine, MergedFields
<1>3. items[i] \in Item
  BY <1>2 DEF RowsTyped
<1>4. cart \in Carts
  BY <1>3, ItemFields DEF CartForm
<1>5. MergedRow(r, i) = [items[i] EXCEPT !.cart = cart, !.qty = qty, !.sub = sub]
  BY DEF MergedRow
<1> HIDE DEF cart, qty, sub
<1>6. /\ MergedRow(r, i) \in Item
      /\ MergedRow(r, i).cart = cart /\ MergedRow(r, i).price = items[i].price
      /\ MergedRow(r, i).seen = items[i].seen
      /\ MergedRow(r, i).qty = qty /\ MergedRow(r, i).sub = sub
  BY <1>2, <1>3, <1>4, <1>5 DEF Item
<1> QED BY <1>2, <1>6 DEF cart, qty, sub

\* A merge takes the guest's cart over, moves its lines, or writes no cart.
LEMMA MergeWrites ==
  ASSUME NEW w \in Workers, MergeCommit(w)
  PROVE  /\ visitor' \in {visitor, [visitor EXCEPT ![req[w].visitor] = req[w].user]}
         /\ UNCHANGED <<made, shop, ops>> /\ Goto(w, Idle)
         /\ \/ UNCHANGED <<carts, subtotal, items>>
            \/ /\ status[req[w].guest] = "ACTIVE" /\ owner[req[w].guest] \in Visitors
               /\ owner' = [owner EXCEPT ![req[w].guest] = req[w].user]
               /\ UNCHANGED <<status, subtotal, items>>
            \/ /\ req[w].cart # None
               /\ \A i \in Targets(req[w]) : items[i] # None
               /\ UNCHANGED owner
               /\ status' = [status EXCEPT ![req[w].guest] = "ABANDONED"]
               /\ items' = RowsMerged(req[w])
               /\ subtotal' = [subtotal EXCEPT ![req[w].cart] =
                    SumFunctionOnSet([i \in LinesAfter(req[w]) |-> RowsMerged(req[w])[i].sub],
                                     LinesAfter(req[w]))]
<1> DEFINE r == req[w]
           G == DOMAIN r.theirs
           gone == \E i \in G : items[i] = None \/ items[Target(r, i)] = None
           clash == \E i \in G : Target(r, i) = i /\
                      \E j \in OfSize(r.cart, r.theirs[i].size) : j \notin DOMAIN r.mine
<1>1. UNCHANGED <<made, shop, ops>> /\ Goto(w, Idle)
  BY DEF MergeCommit, Answer, Goto
<1>2. CASE ~Claims(r)
  <2>1. /\ visitor' = [visitor EXCEPT ![r.visitor] = r.user]
        /\ UNCHANGED <<carts, subtotal, items>>
    BY <1>2 DEF MergeCommit
  <2> QED BY <1>1, <2>1
<1>3. CASE Claims(r) /\ r.cart = None
  <2>1. /\ visitor' = [visitor EXCEPT ![r.visitor] = r.user]
        /\ owner' = [owner EXCEPT ![r.guest] = r.user]
        /\ UNCHANGED <<status, subtotal, items>>
    BY <1>3 DEF MergeCommit
  <2>2. status[r.guest] = "ACTIVE" /\ owner[r.guest] \in Visitors
    BY <1>3 DEF Claims
  <2> QED BY <1>1, <2>1, <2>2
<1>4. CASE Claims(r) /\ r.cart # None /\ (gone \/ clash)
  <2>1. UNCHANGED <<visitor, carts, subtotal, items>>
    BY <1>4 DEF MergeCommit
  <2> QED BY <1>1, <2>1
<1>5. CASE Claims(r) /\ r.cart # None /\ ~gone /\ ~clash
  <2>1. /\ visitor' = [visitor EXCEPT ![r.visitor] = r.user]
        /\ status' = [status EXCEPT ![r.guest] = "ABANDONED"]
        /\ items' = RowsMerged(r)
        /\ subtotal' = [subtotal EXCEPT ![r.cart] =
             SumFunctionOnSet([i \in LinesAfter(r) |-> RowsMerged(r)[i].sub], LinesAfter(r))]
        /\ UNCHANGED owner
    BY <1>5 DEF MergeCommit, RowsMerged, LinesAfter, MergedRow, Source, Targets
  <2>2. \A i \in Targets(r) : items[i] # None
    BY <1>5 DEF Targets
  <2> QED BY <1>1, <1>5, <2>1, <2>2
<1> QED BY <1>2, <1>3, <1>4, <1>5

LEMMA MergeCommitStep ==
  ASSUME CartInv, NEW w \in Workers, MergeCommit(w)
  PROVE  CartInv'
<1> DEFINE r == req[w]
<1>1. /\ CartForm(r) /\ r.at = "merge" /\ owner[r.guest] # None
      /\ r.guest \in Carts /\ r.user \in Users /\ r.visitor \in Visitors
  BY DEF MergeCommit, At, CartInv, CartForm, Held
<1>2. /\ visitor' \in {visitor, [visitor EXCEPT ![r.visitor] = r.user]}
      /\ UNCHANGED <<made, shop, ops>> /\ Goto(w, Idle)
  BY MergeWrites
<1>3. visitor' \in [Visitors -> Users \cup {None, Absent}]
  BY <1>1, <1>2 DEF CartInv, RowsTyped
<1>4. CASE UNCHANGED <<carts, subtotal, items>>
  <2>1. RowsTyped'
    BY <1>2, <1>3, <1>4 DEF CartInv, RowsTyped, carts, shop
  <2> QED BY <1>2, <1>4, <2>1, IdleIsFormed, CartStepInside DEF Goto
<1>5. CASE /\ status[r.guest] = "ACTIVE" /\ owner[r.guest] \in Visitors
           /\ owner' = [owner EXCEPT ![r.guest] = r.user]
           /\ UNCHANGED <<status, subtotal, items>>
  <2>1. r.user \in Owners /\ r.user # None
    BY <1>1, CartAssumption DEF CartAssumption, Owners
  <2> HIDE DEF r
  <2>2. RowsTyped'
    BY <1>1, <1>2, <1>3, <1>5, <2>1 DEF CartInv, RowsTyped, shop
  <2>3. UnmadeIsActive' /\ \A d \in Carts : owner[d] # None => owner'[d] # None
    BY <1>1, <1>5, <2>1 DEF CartInv, RowsTyped, UnmadeIsActive
  <2> QED BY <1>2, <2>2, <2>3, IdleIsFormed, CartStep DEF Goto
<1>6. CASE /\ r.cart # None
           /\ \A i \in Targets(r) : items[i] # None
           /\ UNCHANGED owner
           /\ status' = [status EXCEPT ![r.guest] = "ABANDONED"]
           /\ items' = RowsMerged(r)
           /\ subtotal' = [subtotal EXCEPT ![r.cart] =
                SumFunctionOnSet([i \in LinesAfter(r) |-> RowsMerged(r)[i].sub], LinesAfter(r))]
  <2> HIDE DEF r
  <2>1. RowsMerged(r) \in [Items -> Item \cup {None}]
    <3>1. \A i \in Targets(r) : MergedRow(r, i) \in Item
      BY <1>1, <1>6, MergedRowIsItem DEF CartInv
    <3> QED BY <3>1 DEF RowsMerged, CartInv, RowsTyped
  <2>2. SumFunctionOnSet([i \in LinesAfter(r) |-> RowsMerged(r)[i].sub], LinesAfter(r)) \in Nat
    <3>1. LinesAfter(r) \subseteq Items /\ \A i \in LinesAfter(r) : RowsMerged(r)[i] \in Item
      BY <2>1 DEF LinesAfter
    <3> QED BY <3>1, PlanIsAmount
  <2>3. RowsTyped'
    BY <1>1, <1>2, <1>3, <1>6, <2>1, <2>2 DEF CartInv, RowsTyped, shop
  <2>4. UnmadeIsActive'
    BY <1>1, <1>6 DEF CartInv, RowsTyped, UnmadeIsActive
  <2> QED BY <1>2, <1>6, <2>3, <2>4, IdleIsFormed, CartStep DEF Goto
<1> QED BY <1>4, <1>5, <1>6, MergeWrites

-----------------------------------------------------------------------------
(* The rest, and the theorem.                                               *)

LEMMA MigrateVisitorStep ==
  ASSUME CartInv, NEW w \in Workers, NEW v \in Visitors, NEW n \in Visitors,
         MigrateVisitor(w, v, n)
  PROVE  CartInv'
<1>1. n \in Owners /\ n # None
  BY CartAssumption DEF CartAssumption, Owners
<1>2. owner' = [c \in Carts |-> IF c \in ActiveOf(v) THEN n ELSE owner[c]]
  BY DEF MigrateVisitor
<1>3. ops' \in 0 .. MaxOps
  BY CartAssumption DEF MigrateVisitor, Begin, CartInv, RowsTyped, CartAssumption
<1>4. RowsTyped'
  BY <1>1, <1>2, <1>3 DEF MigrateVisitor, CartInv, RowsTyped, lineVars, shop
<1>5. \A c \in Carts : owner[c] # None => owner'[c] # None
  BY <1>1, <1>2
<1>6. UnmadeIsActive'
  BY <1>1, <1>2 DEF MigrateVisitor, CartInv, UnmadeIsActive
<1>7. \A x \in Workers : CartForm(req'[x]) /\ Held(req[x])'
  <2>1. ASSUME NEW x \in Workers PROVE CartForm(req'[x]) /\ Held(req[x])'
    <3>1. req'[x] = req[x] /\ CartForm(req[x]) /\ Held(req[x])
      BY DEF MigrateVisitor, CartInv
    <3> QED BY <1>5, <3>1 DEF Held, CartForm
  <2> QED BY <2>1
<1>8. \A x \in Workers : CartForm(req[x])'
  BY <1>7 DEF CartForm
<1>9. DOMAIN req' = Workers
  BY DEF MigrateVisitor, CartInv
<1> QED BY <1>4, <1>6, <1>7, <1>8, <1>9 DEF CartInv

LEMMA ShopChanges ==
  ASSUME CartInv, Change
  PROVE  CartInv' /\ UNCHANGED <<visitor, carts, subtotal, lineVars, req, ops>>
<1>1. /\ UNCHANGED <<visitor, carts, subtotal, lineVars, req, ops>>
      /\ price' \in [ProductSizes -> Prices] /\ stock' \in [ProductSizes -> 0 .. MaxStock]
  BY DEF Change, ChangePrice, ChangeStock, CartInv, RowsTyped
<1>2. changes' \in 0 .. MaxChanges
  <2>1. changes < MaxChanges /\ changes' = changes + 1
    BY DEF Change, ChangePrice, ChangeStock
  <2> QED BY <2>1, CartAssumption DEF CartAssumption, CartInv, RowsTyped
<1>3. RowsTyped'
  BY <1>1, <1>2 DEF CartInv, RowsTyped, carts, lineVars
<1>4. \A x \in Workers : CartForm(req[x])' /\ Held(req[x])'
  BY <1>1 DEF CartInv, CartForm, Held, carts
<1> QED BY <1>1, <1>3, <1>4 DEF CartInv, UnmadeIsActive, carts

LEMMA AbortStep ==
  ASSUME CartInv, NEW w \in Workers, Abort(w)
  PROVE  CartInv'
<1>1. ops' \in 0 .. MaxOps
  BY CartAssumption DEF Abort, CartInv, RowsTyped, CartAssumption
<1>2. RowsTyped'
  BY <1>1 DEF Abort, CartInv, RowsTyped, carts, lineVars, shop
<1> QED BY <1>2, IdleIsFormed, CartStepInside DEF Abort, Answer

LEMMA CartStart == CartInit => CartInv
<1> SUFFICES ASSUME CartInit PROVE CartInv
  OBVIOUS
<1>1. RowsTyped
  BY CartAssumption DEF CartInit, RowsTyped, CartAssumption
<1>2. \A w \in Workers : CartForm(req[w]) /\ Held(req[w])
  BY IdleIsFormed DEF CartInit, Held
<1> QED BY <1>1, <1>2 DEF CartInit, CartInv, UnmadeIsActive

LEMMA CartNextStep ==
  ASSUME CartInv, CartNext
  PROVE  CartInv'
<1>1. ASSUME NEW w \in Workers, Start(w) PROVE CartInv'
  <2>1. ASSUME NEW o \in Owners, NEW s \in ProductSizes, AddFind(w, o, s) PROVE CartInv'
    BY <2>1, AddFindStep
  <2>2. ASSUME NEW o \in Owners, NEW i \in Items, NEW q \in 1 .. MaxStock, SetQuantity(w, o, i, q)
        PROVE CartInv'
    <3>1. q \in Nat
      OBVIOUS
    <3> QED BY <2>2, <3>1, ChangeLineStep
  <2>3. ASSUME NEW o \in Owners, NEW i \in Items, RemoveItem(w, o, i) PROVE CartInv'
    <3>1. 0 \in Nat
      OBVIOUS
    <3> QED BY <2>3, <3>1, ChangeLineStep
  <2>4. ASSUME NEW o \in Owners, ClearCart(w, o) \/ Submit(w, o) PROVE CartInv'
    BY <2>4, ClearCartStep, SubmitStep
  <2>5. ASSUME NEW u \in Users, NEW v \in Visitors, MergeLook(w, u, v) PROVE CartInv'
    BY <2>5, MergeLookStep
  <2>6. ASSUME NEW v \in Visitors, NEW n \in Visitors, MigrateVisitor(w, v, n) PROVE CartInv'
    BY <2>6, MigrateVisitorStep
  <2> QED BY <1>1, <2>1, <2>2, <2>3, <2>4, <2>5, <2>6 DEF Start
<1>2. ASSUME NEW w \in Workers, Serve(w) PROVE CartInv'
  <2>1. ASSUME NEW i \in Items, RefreshLine(w, i) \/ Reprice(w, i) PROVE CartInv'
    BY <2>1, RefreshLineStep, RepriceStep
  <2> QED BY <1>2, <2>1, AddCreateStep, AddLookStep, PutLineStep, SumLinesStep, WriteTotalStep,
             DropLineStep, WipeStep, RefreshTotalStep, DecideStep, PlaceOrderStep,
             MergeLinkStep, MergeReadStep, MergeCommitStep DEF Serve
<1>3. ASSUME NEW w \in Workers, Abort(w) PROVE CartInv'
  BY <1>3, AbortStep
<1>4. ASSUME NEW w \in Workers, NEW o \in Owners, ReadCart(w, o) PROVE CartInv'
  BY <1>4, ReadCartStep
<1>5. ASSUME Change PROVE CartInv'
  BY <1>5, ShopChanges
<1> QED BY <1>1, <1>2, <1>3, <1>4, <1>5 DEF CartNext

LEMMA CartKept ==
  ASSUME CartInv, [CartNext]_cartVars
  PROVE  CartInv'
<1>1. CASE UNCHANGED cartVars
  <2>1. RowsTyped' /\ \A w \in Workers : CartForm(req[w])' /\ Held(req[w])'
    BY <1>1 DEF cartVars, carts, lineVars, shop, CartInv, RowsTyped, CartForm, Held
  <2> QED BY <1>1, <2>1 DEF cartVars, carts, lineVars, shop, CartInv, UnmadeIsActive
<1> QED BY <1>1, CartNextStep

\* A cart changes hands only from nobody or from a visitor, while it is active.
LEMMA TakenFromGuests ==
  ASSUME CartInv, [CartNext]_cartVars, NEW c \in Carts,
         owner[c] \in Users \/ status[c] # "ACTIVE"
  PROVE  owner'[c] = owner[c]
<1>0. None \notin Users /\ Users \cap Visitors = {} /\ Legacy \subseteq Visitors
  BY CartAssumption DEF CartAssumption, Owners
<1>1. owner[c] # None
  BY <1>0 DEF CartInv, UnmadeIsActive
<1>2. ASSUME NEW w \in Workers, AddCreate(w) PROVE owner'[c] = owner[c]
  <2>1. PICK d \in Carts : owner[d] = None /\ owner' = [owner EXCEPT ![d] = req[w].who]
    BY <1>2, AddCreateTakes
  <2> QED BY <1>1, <2>1
<1>3. ASSUME NEW w \in Workers, MergeCommit(w) PROVE owner'[c] = owner[c]
  <2>1. \/ owner' = owner
        \/ /\ status[req[w].guest] = "ACTIVE" /\ owner[req[w].guest] \in Visitors
           /\ owner' = [owner EXCEPT ![req[w].guest] = req[w].user]
    BY <1>3, MergeWrites DEF carts
  <2> DEFINE g == req[w].guest
  <2>2. CASE owner' = owner
    BY <2>2
  <2>3. CASE status[g] = "ACTIVE" /\ owner[g] \in Visitors /\ owner' = [owner EXCEPT ![g] = req[w].user]
    <3> HIDE DEF g
    <3>1. c # g
      BY <1>0, <2>3
    <3>2. owner \in [Carts -> Owners \cup {None}]
      BY DEF CartInv, RowsTyped
    <3> QED BY <2>3, <3>1, <3>2
  <2> QED BY <2>1, <2>2, <2>3
<1>4. ASSUME NEW w \in Workers, NEW v \in Visitors, NEW n \in Visitors, MigrateVisitor(w, v, n)
      PROVE  owner'[c] = owner[c]
  <2>1. owner'[c] = IF c \in ActiveOf(v) THEN n ELSE owner[c]
    BY <1>4 DEF MigrateVisitor
  <2> QED BY <1>0, <2>1 DEF ActiveOf
<1>5. ASSUME NEW w \in Workers, Start(w) PROVE owner'[c] = owner[c]
  BY <1>4, <1>5 DEF Start, AddFind, SetQuantity, RemoveItem, ClearCart, Submit, MergeLook, carts
<1>6. ASSUME NEW w \in Workers, Serve(w) PROVE owner'[c] = owner[c]
  BY <1>2, <1>3, <1>6
  DEF Serve, AddLook, PutLine, SumLines, WriteTotal, DropLine, Wipe, RefreshLine, Reprice,
      RefreshTotal, Decide, PlaceOrder, MergeLink, MergeRead, carts
<1>7. ASSUME NEW w \in Workers, Abort(w) \/ \E o \in Owners : ReadCart(w, o)
      PROVE  owner'[c] = owner[c]
  BY <1>7 DEF Abort, ReadCart, carts
<1>8. CASE Change
  BY <1>8, ShopChanges DEF carts
<1>9. CASE UNCHANGED cartVars
  BY <1>9 DEF cartVars, carts
<1> QED BY <1>5, <1>6, <1>7, <1>8, <1>9 DEF CartNext

\* In every behaviour a request for a cart has what its step expects.
LEMMA CartInvariance == CartSpec => []CartInv
<1>1. CartInv /\ [CartNext]_cartVars => CartInv'
  BY CartKept
<1> QED BY CartStart, <1>1, PTL DEF CartSpec

\* mergeGuestCart: however many requests there are at once, and wherever they
\* are stopped, a cart that belongs to an account, or that was ordered from or
\* abandoned, never changes hands.
THEOREM CartsChangeHandsOnce == CartSpec => GuestCartTakenOnce
<1>1. ASSUME CartInv, [CartNext]_cartVars
      PROVE  \A c \in Carts : owner[c] \in Users \/ status[c] # "ACTIVE" => owner'[c] = owner[c]
  BY <1>1, TakenFromGuests
<1>2. CartInv /\ [CartNext]_cartVars =>
        [\A c \in Carts : owner[c] \in Users \/ status[c] # "ACTIVE" =>
           owner'[c] = owner[c]]_cartVars
  BY <1>1
<1> QED BY CartInvariance, <1>2, PTL DEF CartSpec, GuestCartTakenOnce
-----------------------------------------------------------------------------
(* Carts: requests that are served in turn.                                 *)

\* Lines change only in the carts of C, and none goes to or comes from another.
OnlyIn(C) ==
  \A i \in Items :
    \/ items'[i] = items[i]
    \/ /\ items[i] # None => items[i].cart \in C
       /\ items'[i] # None => items'[i].cart \in C

\* The lines of any other cart are the same, and are worth the same.
LEMMA OtherCarts ==
  ASSUME NEW C, OnlyIn(C), NEW d, d \notin C
  PROVE  In(d)' = In(d) /\ LinesTotal(d)' = LinesTotal(d)
<1>1. \A i \in Items : (items'[i] # None /\ items'[i].cart = d) \/ (items[i] # None /\ items[i].cart = d)
                          => items'[i] = items[i]
  BY DEF OnlyIn
<1>2. In(d)' = In(d)
  BY <1>1 DEF In
<1> DEFINE S == In(d)
           q == [i \in In(d) |-> items[i].sub]
           p == [i \in In(d) |-> items'[i].sub]
<1>3. LinesTotal(d)' = SumFunctionOnSet(p, In(d)) /\ LinesTotal(d) = SumFunctionOnSet(q, In(d))
  BY <1>2 DEF LinesTotal
<1>4. IsFiniteSet(In(d)) /\ \A i \in In(d) : p[i] = q[i]
  BY <1>1, LinesFinite DEF In
<1>5. SumFunctionOnSet(p, In(d)) = SumFunctionOnSet(q, In(d))
  <2> HIDE DEF p, q
  <2> QED BY <1>4, SumAgree
<1> QED BY <1>2, <1>3, <1>5

\* A cart whose lines keep their worth is worth the same.
LEMMA SameWorth ==
  ASSUME NEW d, In(d)' = In(d), \A i \in In(d) : items'[i].sub = items[i].sub
  PROVE  LinesTotal(d)' = LinesTotal(d)
<1> DEFINE q == [i \in In(d) |-> items[i].sub]
           p == [i \in In(d) |-> items'[i].sub]
<1>1. LinesTotal(d)' = SumFunctionOnSet(p, In(d)) /\ LinesTotal(d) = SumFunctionOnSet(q, In(d))
  BY DEF LinesTotal
<1>2. IsFiniteSet(In(d)) /\ \A i \in In(d) : p[i] = q[i]
  BY LinesFinite
<1>3. SumFunctionOnSet(p, In(d)) = SumFunctionOnSet(q, In(d))
  <2> HIDE DEF p, q
  <2> QED BY <1>2, SumAgree
<1> QED BY <1>1, <1>3

\* Nothing that the totals are about has changed.
LEMMA SameRows ==
  ASSUME UNCHANGED <<status, subtotal, items>>
  PROVE  /\ \A c : In(c)' = In(c) /\ LinesTotal(c)' = LinesTotal(c)
         /\ \A c : Settled(c)' = Settled(c) /\ SettledBut(c)' = SettledBut(c) /\ ShownBut(c)' = ShownBut(c)
         /\ InOrder' = InOrder
<1>1. \A c : In(c)' = In(c)
  BY DEF In
<1>2. ASSUME NEW c PROVE LinesTotal(c)' = LinesTotal(c)
  BY <1>1, SameWorth
<1>3. \A c : Settled(c)' = Settled(c)
  BY <1>2 DEF Settled
<1>4. \A c : SettledBut(c)' = SettledBut(c) /\ ShownBut(c)' = ShownBut(c)
  BY <1>3 DEF SettledBut, ShownBut
<1>5. InOrder' = InOrder
  BY <1>3 DEF InOrder
<1> QED BY <1>1, <1>2, <1>3, <1>4, <1>5

\* Work on one cart leaves the totals of the others as they are.
LEMMA SettledElsewhere ==
  ASSUME NEW c, SettledBut(c), OnlyIn({c}),
         \A d \in Carts : d # c => status'[d] = status[d] /\ subtotal'[d] = subtotal[d]
  PROVE  SettledBut(c)'
<1>1. ASSUME NEW d \in Carts, d # c PROVE Settled(d)'
  <2>1. LinesTotal(d)' = LinesTotal(d)
    BY <1>1, OtherCarts
  <2>2. Settled(d)
    BY <1>1 DEF SettledBut
  <2> QED BY <1>1, <2>1, <2>2 DEF Settled
<1> QED BY <1>1 DEF SettledBut

\* What holds of all carts holds of the others.
LEMMA InOrderBut ==
  ASSUME InOrder, NEW c
  PROVE  SettledBut(c) /\ ShownBut(c) /\ \A i \in Items : items[i] # None => items[i].seen
  BY DEF InOrder, SettledBut, ShownBut

\* And the other way round.
LEMMA ButAndThis ==
  ASSUME NEW c, SettledBut(c), Settled(c), \A i \in Items : items[i] # None => items[i].seen
  PROVE  InOrder
  BY DEF InOrder, SettledBut

\* The request of one worker goes on; the other workers are idle.
LEMMA AloneStep ==
  ASSUME CartInv, CartAloneInv, ~overlap, ~overlap', InTurn',
         NEW w \in Workers, NEW x, Goto(w, x), ~At(w, "idle") \/ x.at # "idle",
         Tidy', x.at = "idle" => InOrder', x.at # "idle" => CartKnows(x)'
  PROVE  CartAloneInv'
<1>1. DOMAIN req = Workers /\ InTurn
  BY DEF CartInv, CartAloneInv
<1>2. req'[w] = x /\ \A v \in Workers : v # w => req'[v] = req[v]
  BY <1>1 DEF Goto
<1>3. ASSUME NEW v \in Workers, v # w PROVE req'[v].at = "idle"
  <2>1. CASE ~At(w, "idle")
    BY <1>1, <1>2, <1>3, <2>1 DEF InTurn, Busy, At
  <2>2. CASE x.at # "idle"
    BY <1>2, <1>3, <2>2 DEF InTurn, Busy, At
  <2> QED BY <2>1, <2>2
<1>4. CartKnows(x)'
  <2>1. CASE x.at = "idle"
    BY <2>1 DEF CartKnows
  <2> QED BY <2>1
<1>5. ASSUME NEW v \in Workers PROVE CartKnows(req[v])'
  <2>1. CASE v = w
    <3>1. req'[v] = x
      BY <1>2, <2>1
    <3> QED BY <1>4, <3>1 DEF CartKnows
  <2>2. CASE v # w
    BY <1>3, <2>2 DEF CartKnows
  <2> QED BY <2>1, <2>2
<1>6. Quiet' => InOrder'
  BY <1>2 DEF Quiet, At
<1> QED BY <1>5, <1>6 DEF CartAloneInv

\* A request can only start while no other is served, so all is in order.
LEMMA StartsInOrder ==
  ASSUME CartInv, CartAloneInv, ~overlap, InTurn',
         NEW w \in Workers, NEW x, Goto(w, x), At(w, "idle"), x.at # "idle"
  PROVE  InOrder /\ Tidy
<1>1. DOMAIN req = Workers
  BY DEF CartInv
<1>2. \A v \in Workers : v # w => At(v, "idle")
  BY <1>1 DEF Goto, InTurn, Busy, At
<1>3. Quiet
  BY <1>2 DEF Quiet
<1> QED BY <1>3 DEF CartAloneInv

\* The steps that only read: the request has not written anything yet.
LEMMA ReadOnly ==
  ASSUME CartInv, CartAloneInv, ~overlap, ~overlap', InTurn',
         NEW w \in Workers, NEW x, Goto(w, x), ~At(w, "idle") \/ x.at # "idle",
         UNCHANGED <<status, subtotal, items, made>>, InOrder,
         x.at \in {"idle", "create", "look", "put", "drop", "wipe", "link", "linked"},
         x.at \in {"put", "drop"} /\ x.item # None =>
           items[x.item] = None \/ items[x.item].cart = x.cart
  PROVE  CartAloneInv'
<1>1. InOrder'
  BY SameRows
<1>2. Tidy'
  BY DEF CartAloneInv, Tidy
<1>3. x.at # "idle" => CartKnows(x)'
  BY <1>1 DEF CartKnows
<1> QED BY <1>1, <1>2, <1>3, AloneStep

\* Those that start so.
LEMMA StartAlone ==
  ASSUME CartInv, CartAloneInv, ~overlap, ~overlap', InTurn',
         NEW w \in Workers, NEW o, NEW s, NEW i, NEW q, NEW u, NEW v,
         \/ AddFind(w, o, s) \/ SetQuantity(w, o, i, q) \/ RemoveItem(w, o, i)
         \/ ClearCart(w, o) \/ MergeLook(w, u, v)
  PROVE  CartAloneInv'
<1>1. At(w, "idle") /\ UNCHANGED <<status, subtotal, items, made>>
  BY DEF AddFind, SetQuantity, RemoveItem, ClearCart, MergeLook, Begin, carts, lineVars
<1>2. PICK x : /\ Goto(w, x) /\ x.at \in {"create", "look", "put", "drop", "wipe", "link"}
               /\ x.at \in {"put", "drop"} => x.item = i /\ x.cart = items[i].cart
  <2>1. CASE AddFind(w, o, s)
    <3>1. \/ Goto(w, [at |-> "create", who |-> o, size |-> s])
          \/ \E c \in ActiveOf(o) : Goto(w, [at |-> "look", cart |-> c, size |-> s])
      BY <2>1 DEF AddFind
    <3>2. CASE Goto(w, [at |-> "create", who |-> o, size |-> s])
      BY <3>2
    <3>3. ASSUME NEW c \in ActiveOf(o), Goto(w, [at |-> "look", cart |-> c, size |-> s])
          PROVE  \E x : Goto(w, x) /\ x.at = "look"
      BY <3>3
    <3> QED BY <3>1, <3>2, <3>3
  <2>2. CASE SetQuantity(w, o, i, q)
    BY <2>2 DEF SetQuantity
  <2>3. CASE RemoveItem(w, o, i)
    BY <2>3 DEF RemoveItem
  <2>4. CASE ClearCart(w, o)
    BY <2>4 DEF ClearCart
  <2>5. CASE MergeLook(w, u, v)
    BY <2>5 DEF MergeLook
  <2> QED BY <2>1, <2>2, <2>3, <2>4, <2>5
<1>3. InOrder
  BY <1>1, <1>2, StartsInOrder
<1> QED BY <1>1, <1>2, <1>3, ReadOnly

LEMMA ReadsAlone ==
  ASSUME CartInv, CartAloneInv, ~overlap, ~overlap', InTurn',
         NEW w \in Workers, AddCreate(w) \/ AddLook(w) \/ MergeLink(w)
  PROVE  CartAloneInv'
<1>1. ~At(w, "idle") /\ InOrder /\ UNCHANGED <<status, subtotal, items, made>>
  BY DEF AddCreate, AddLook, MergeLink, At, CartAloneInv, CartKnows, carts, lineVars
<1>2. PICK x : /\ Goto(w, x) /\ x.at \in {"idle", "look", "put", "linked"}
               /\ x.at = "put" /\ x.item # None =>
                    items[x.item] = None \/ items[x.item].cart = x.cart
  <2>1. CASE AddCreate(w)
    <3>1. PICK c : Goto(w, [at |-> "look", cart |-> c, size |-> req[w].size])
      BY <2>1, AddCreateTakes
    <3> DEFINE x == [at |-> "look", cart |-> c, size |-> req[w].size]
    <3>2. x.at = "look"
      OBVIOUS
    <3> HIDE DEF x
    <3>3. Goto(w, x)
      BY <3>1 DEF x
    <3> QED BY <3>2, <3>3
  <2>2. CASE AddLook(w)
    <3> DEFINE r == req[w]
               put(j, n) == [at |-> "put", cart |-> r.cart, size |-> r.size, item |-> j,
                             qty |-> n, price |-> price[r.size]]
    <3>1. \/ Goto(w, Idle) \/ Goto(w, put(None, 1))
          \/ \E j \in OfSize(r.cart, r.size) : Goto(w, put(j, items[j].qty + 1))
      BY <2>2 DEF AddLook, Answer, Goto
    <3>2. CASE Goto(w, Idle)
      BY <3>2, IdleIsFormed
    <3>3. CASE Goto(w, put(None, 1))
      BY <3>3
    <3>4. ASSUME NEW j \in OfSize(r.cart, r.size), Goto(w, put(j, items[j].qty + 1))
          PROVE  \E x : /\ Goto(w, x) /\ x.at = "put"
                        /\ items[x.item] = None \/ items[x.item].cart = x.cart
      <4>1. items[j].cart = r.cart
        BY DEF OfSize, In
      <4> QED BY <3>4, <4>1
    <3> QED BY <3>1, <3>2, <3>3, <3>4
  <2>3. CASE MergeLink(w)
    <3>1. [req[w] EXCEPT !.at = "linked"].at = "linked"
      BY <2>3 DEF MergeLink, At, CartInv, CartForm
    <3> QED BY <2>3, <3>1 DEF MergeLink
  <2> QED BY <2>1, <2>2, <2>3
<1> QED BY <1>1, <1>2, ReadOnly

\* A line that is put has the price the customer was shown.
PutOne(c, s, q, p) == Line(c, s, q, p, TRUE)

\* It is a line, and is worth its price times its quantity.
LEMMA PutIsItem ==
  ASSUME NEW c \in Carts, NEW s \in ProductSizes, NEW q \in Nat, NEW p \in Nat
  PROVE  \E x \in Item : /\ x = PutOne(c, s, q, p)
                         /\ x.cart = c /\ IsSeen(x) /\ x.sub = x.price * x.qty
<1> DEFINE x == PutOne(c, s, q, p)
<1>1. p * q \in Nat
  OBVIOUS
<1>2. /\ x \in Item /\ x.cart = c /\ IsSeen(x)
      /\ x.price = p /\ x.qty = q /\ x.sub = p * q
  BY <1>1 DEF Line, Item, PutOne, IsSeen
<1>3. x.sub = x.price * x.qty
  <2> HIDE DEF x
  <2> QED BY <1>2, Zenon
<1> QED BY <1>2, <1>3

\* A line is put or dropped: the cart it is in is the one that is added up next.
LEMMA PutAlone ==
  ASSUME CartInv, CartAloneInv, ~overlap, ~overlap', InTurn',
         NEW w \in Workers, PutLine(w)
  PROVE  CartAloneInv'
<1> DEFINE r == req[w]
<1>0. PICK c, s, q, p : c = r.cart /\ s = r.size /\ q = r.qty /\ p = r.price
  OBVIOUS
<1> DEFINE sums == [at |-> "sum", cart |-> c]
<1>1. /\ r.at = "put" /\ ~At(w, "idle") /\ InOrder /\ Tidy
      /\ r.item # None => items[r.item] = None \/ items[r.item].cart = c
      /\ UNCHANGED <<carts, subtotal>>
  BY <1>0 DEF PutLine, At, CartAloneInv, CartKnows
<1>2. /\ c \in Carts /\ s \in ProductSizes /\ r.item \in Items \cup {None}
      /\ q \in Nat /\ p \in Nat /\ items \in [Items -> Item \cup {None}]
      /\ made \in 0 .. MaxItems /\ MaxItems \in Nat
  BY <1>0, <1>1, CartAssumption DEF CartInv, CartForm, RowsTyped, CartAssumption
<1>3. CASE UNCHANGED lineVars /\ Answer(w)
  <2>1. Goto(w, Idle)
    BY <1>3 DEF Answer, Goto
  <2> QED BY <1>1, <1>3, <2>1, IdleIsFormed, ReadOnly DEF lineVars, carts
<1>4. ASSUME NEW i \in Items, NEW line \in Item, items' = [items EXCEPT ![i] = line],
             items[i] # None => items[i].cart = c,
             line.cart = c, line.sub = line.price * line.qty, IsSeen(line),
             \A j \in Items : j > made' => j > made /\ j # i,
             Goto(w, sums)
      PROVE  CartAloneInv'
  <2>1. OnlyIn({c})
    BY <1>2, <1>4 DEF OnlyIn
  <2>2. SettledBut(c)'
    BY <1>1, <2>1, InOrderBut, SettledElsewhere DEF carts
  <2>3. \A j \in Items : items'[j] # None => items'[j].seen
    BY <1>1, <1>2, <1>4 DEF InOrder, IsSeen
  <2>4. Tidy'
    <3>1. ASSUME NEW j \in Items, items'[j] # None
          PROVE  items'[j].sub = items'[j].price * items'[j].qty
      <4>1. CASE j = i
        BY <1>2, <1>4, <4>1
      <4>2. CASE j # i
        <5>1. items'[j] = items[j]
          BY <1>2, <1>4, <4>2
        <5> QED BY <1>1, <3>1, <5>1 DEF Tidy
      <4> QED BY <4>1, <4>2
    <3>2. ASSUME NEW j \in Items, j > made' PROVE items'[j] = None
      <4>1. j > made /\ j # i
        BY <1>4, <3>2
      <4> QED BY <1>1, <1>2, <1>4, <4>1 DEF Tidy
    <3> QED BY <3>1, <3>2 DEF Tidy
  <2>5. PICK x : Goto(w, x) /\ x.at = "sum" /\ x.cart = c
    BY <1>4
  <2>6. CartKnows(x)'
    BY <2>2, <2>3, <2>5 DEF CartKnows
  <2> QED BY <1>1, <2>4, <2>5, <2>6, AloneStep
<1>5. CASE r.item # None /\ items[r.item] # None
  <2>1. PICK line \in Item : /\ line = PutOne(c, s, q, p)
                             /\ line.cart = c /\ IsSeen(line) /\ line.sub = line.price * line.qty
    BY <1>2, PutIsItem
  <2>2. items[r.item].cart = c /\ r.item \in Items
    BY <1>1, <1>2, <1>5
  <2>3. items' = [items EXCEPT ![r.item] = line] /\ made' = made /\ Goto(w, sums)
    BY <1>0, <1>5, <2>1, <2>2 DEF PutLine, PutOne
  <2>4. \A j \in Items : j > made' => j > made /\ j # r.item
    BY <1>1, <1>5, <2>3 DEF Tidy
  <2> HIDE DEF r
  <2> QED BY <1>4, <2>1, <2>2, <2>3, <2>4
<1>6. CASE ~(r.item # None /\ items[r.item] # None) /\ r.item = None /\ OfSize(c, s) = {}
  <2>1. PICK line \in Item : /\ line = PutOne(c, s, q, p)
                             /\ line.cart = c /\ IsSeen(line) /\ line.sub = line.price * line.qty
    BY <1>2, PutIsItem
  <2> DEFINE i == made + 1
  <2>2. made < MaxItems /\ made' = i /\ items' = [items EXCEPT ![i] = line] /\ Goto(w, sums)
    BY <1>0, <1>6, <2>1 DEF PutLine, PutOne
  <2>3. i \in Items /\ items[i] = None
    <3>1. i \in Items /\ i > made
      BY <1>2, <2>2 DEF Items
    <3> QED BY <1>1, <3>1 DEF Tidy
  <2>4. \A j \in Items : j > made' => j > made /\ j # i
    BY <1>2, <2>2 DEF Items
  <2> HIDE DEF i, r
  <2> QED BY <1>4, <2>1, <2>2, <2>3, <2>4
<1>7. CASE ~(r.item # None /\ items[r.item] # None) /\ ~(r.item = None /\ OfSize(c, s) = {})
  <2>1. UNCHANGED lineVars /\ Answer(w)
    BY <1>0, <1>7 DEF PutLine
  <2> QED BY <1>3, <2>1
<1> QED BY <1>5, <1>6, <1>7

\* Lines go, and what is left is as it was.
LEMMA TidyWithout ==
  ASSUME Tidy, made' = made, \A i \in Items : items'[i] = items[i] \/ items'[i] = None
  PROVE  Tidy'
<1>1. ASSUME NEW i \in Items, items'[i] # None PROVE items'[i].sub = items'[i].price * items'[i].qty
  <2>1. items'[i] = items[i]
    BY <1>1
  <2> QED BY <1>1, <2>1 DEF Tidy
<1>2. ASSUME NEW i \in Items, i > made' PROVE items'[i] = None
  BY <1>2 DEF Tidy
<1> QED BY <1>1, <1>2 DEF Tidy

LEMMA DropAlone ==
  ASSUME CartInv, CartAloneInv, ~overlap, ~overlap', InTurn',
         NEW w \in Workers, DropLine(w)
  PROVE  CartAloneInv'
<1> DEFINE r == req[w]
<1>0. PICK c : c = r.cart
  OBVIOUS
<1>1. /\ r.at = "drop" /\ ~At(w, "idle") /\ InOrder /\ Tidy
      /\ r.item # None => items[r.item] = None \/ items[r.item].cart = c
      /\ UNCHANGED <<carts, subtotal, made>>
  BY <1>0 DEF DropLine, At, CartAloneInv, CartKnows
<1>2. r.item \in Items /\ r.item # None /\ items \in [Items -> Item \cup {None}]
  <2>1. r.item \in Items /\ items \in [Items -> Item \cup {None}]
    BY <1>1 DEF CartInv, CartForm, RowsTyped
  <2> QED BY <2>1, CartAssumption DEF CartAssumption
<1>3. CASE items[r.item] = None
  <2>1. Goto(w, Idle) /\ UNCHANGED items
    BY <1>3 DEF DropLine, Answer, Goto
  <2> QED BY <1>1, <2>1, IdleIsFormed, ReadOnly DEF carts
<1>4. CASE items[r.item] # None
  <2> DEFINE i == r.item
             sums == [at |-> "sum", cart |-> c]
  <2>1. items' = [items EXCEPT ![i] = None] /\ Goto(w, sums)
    BY <1>0, <1>4 DEF DropLine
  <2>2. items[i].cart = c
    BY <1>1, <1>2, <1>4
  <2>3. i \in Items
    BY <1>2
  <2> HIDE DEF i
  <2>4. OnlyIn({c})
    BY <1>2, <2>1, <2>2, <2>3 DEF OnlyIn
  <2>5. SettledBut(c)'
    BY <1>1, <2>4, InOrderBut, SettledElsewhere DEF carts
  <2>6. \A j \in Items : items'[j] = items[j] \/ items'[j] = None
    BY <1>2, <2>1, <2>3
  <2>7. \A j \in Items : items'[j] # None => items'[j].seen
    BY <1>1, <2>6 DEF InOrder
  <2>8. Tidy'
    BY <1>1, <2>6, TidyWithout
  <2>9. PICK x : Goto(w, x) /\ x.at = "sum" /\ x.cart = c
    BY <2>1
  <2>10. CartKnows(x)'
    BY <2>5, <2>7, <2>9 DEF CartKnows
  <2> QED BY <1>1, <2>8, <2>9, <2>10, AloneStep
<1> QED BY <1>3, <1>4

LEMMA WipeAlone ==
  ASSUME CartInv, CartAloneInv, ~overlap, ~overlap', InTurn',
         NEW w \in Workers, Wipe(w)
  PROVE  CartAloneInv'
<1>0. PICK c : c = req[w].cart
  OBVIOUS
<1>1. /\ ~At(w, "idle") /\ InOrder /\ Tidy /\ UNCHANGED <<carts, subtotal, made>>
      /\ items' = [i \in Items |-> IF i \in In(c) THEN None ELSE items[i]]
      /\ Goto(w, [at |-> "total", cart |-> c, sum |-> 0])
  BY <1>0 DEF Wipe, At, CartAloneInv, CartKnows
<1>2. \A i \in Items : items'[i] = items[i] \/ items'[i] = None
  BY <1>1
<1>3. OnlyIn({c})
  BY <1>1 DEF OnlyIn, In
<1>4. SettledBut(c)'
  BY <1>1, <1>3, InOrderBut, SettledElsewhere DEF carts
<1>5. \A j \in Items : items'[j] # None => items'[j].seen
  BY <1>1, <1>2 DEF InOrder
<1>6. Tidy'
  BY <1>1, <1>2, TidyWithout
<1>7. LinesTotal(c)' = 0
  <2>1. In(c)' = {}
    BY <1>1 DEF In
  <2>2. LinesTotal(c)' = SumFunctionOnSet([i \in {} |-> items'[i].sub], {})
    BY <2>1 DEF LinesTotal
  <2> QED BY <2>2, SumEmpty
<1>8. PICK x : Goto(w, x) /\ x.at = "total" /\ x.cart = c /\ x.sum = 0
  BY <1>1
<1>9. CartKnows(x)'
  BY <1>4, <1>5, <1>7, <1>8 DEF CartKnows
<1> QED BY <1>1, <1>6, <1>8, <1>9, AloneStep

\* The lines are added up, and the total is written.
LEMMA SumAlone ==
  ASSUME CartInv, CartAloneInv, ~overlap, ~overlap', InTurn',
         NEW w \in Workers, SumLines(w)
  PROVE  CartAloneInv'
<1>0. PICK c, sum : c = req[w].cart /\ sum = LinesTotal(c)
  OBVIOUS
<1>1. /\ ~At(w, "idle") /\ SettledBut(c) /\ \A i \in Items : items[i] # None => items[i].seen
      /\ UNCHANGED <<status, subtotal, items, made>>
      /\ Goto(w, [at |-> "total", cart |-> c, sum |-> sum])
  BY <1>0 DEF SumLines, At, CartAloneInv, CartKnows, carts, lineVars
<1>2. SettledBut(c)' /\ LinesTotal(c)' = sum
  BY <1>0, <1>1, SameRows
<1>3. Tidy'
  BY <1>1 DEF CartAloneInv, Tidy
<1>4. PICK x : Goto(w, x) /\ x.at = "total" /\ x.cart = c /\ x.sum = sum
  BY <1>1
<1>5. CartKnows(x)'
  BY <1>1, <1>2, <1>4 DEF CartKnows
<1> QED BY <1>1, <1>3, <1>4, <1>5, AloneStep

LEMMA TotalAlone ==
  ASSUME CartInv, CartAloneInv, ~overlap, ~overlap', InTurn',
         NEW w \in Workers, WriteTotal(w)
  PROVE  CartAloneInv'
<1>0. PICK c : c = req[w].cart
  OBVIOUS
<1>1. /\ ~At(w, "idle") /\ SettledBut(c) /\ \A i \in Items : items[i] # None => items[i].seen
      /\ UNCHANGED <<status, items, made>>
      /\ subtotal' = [subtotal EXCEPT ![c] = LinesTotal(c)]
      /\ Goto(w, Idle)
  BY <1>0 DEF WriteTotal, At, CartAloneInv, CartKnows, carts, lineVars, Answer, Goto
<1>2. c \in Carts /\ subtotal \in [Carts -> Nat]
  BY <1>0 DEF WriteTotal, At, CartInv, CartForm, RowsTyped
<1>3. OnlyIn({c}) /\ In(c)' = In(c)
  BY <1>1 DEF OnlyIn, In
<1>4. SettledBut(c)'
  BY <1>1, <1>2, <1>3, SettledElsewhere
<1>5. Settled(c)'
  <2>1. LinesTotal(c)' = LinesTotal(c)
    BY <1>1, <1>3, SameWorth
  <2> QED BY <1>1, <1>2, <2>1 DEF Settled
<1>6. InOrder'
  BY <1>1, <1>4, <1>5 DEF InOrder, SettledBut
<1>7. Tidy'
  BY <1>1 DEF CartAloneInv, Tidy
<1> QED BY <1>1, <1>6, <1>7, IdleIsFormed, AloneStep

-----------------------------------------------------------------------------
(* Reading a cart in turn.                                                  *)

\* What a request that reads the lines of a cart goes on with.
ReadForm(c) ==
  LET plan == [i \in In(c) |-> Refreshed(i)]
      kept == {i \in In(c) : plan[i] # None}
  IN [at |-> "refresh", cart |-> c, plan |-> plan,
      todo |-> {i \in In(c) : plan[i] # items[i]},
      sum |-> SumFunctionOnSet([i \in kept |-> plan[i].sub], kept)]

\* It knows what it just read.
LEMMA ReadKnows ==
  ASSUME RowsTyped, NEW c \in Carts, NEW x, x = ReadForm(c)
  PROVE  x.at = "refresh" /\ x.cart = c /\ RefreshKnows(x)
<1> DEFINE plan == [i \in In(c) |-> Refreshed(i)]
           kept == {i \in In(c) : plan[i] # None}
           todo == {i \in In(c) : plan[i] # items[i]}
           sum == SumFunctionOnSet([i \in kept |-> plan[i].sub], kept)
<1>1. /\ x.at = "refresh" /\ x.cart = c /\ x.plan = plan /\ x.todo = todo /\ x.sum = sum
  BY DEF ReadForm
<1>2. /\ DOMAIN plan = In(c) /\ todo \subseteq In(c)
      /\ \A i \in In(c) : plan[i] = Refreshed(i) /\ i \in Items /\ items[i] # None
  BY DEF In
<1>3. Keeps(x) = kept
  BY <1>1, <1>2 DEF Keeps
<1>4. ASSUME NEW i \in Keeps(x)
      PROVE  /\ x.plan[i].sub = x.plan[i].price * x.plan[i].qty
             /\ i \notin x.todo => i \in In(c) /\ items[i].sub = x.plan[i].sub
  <2>1. i \in In(c) /\ x.plan[i] = Refreshed(i) /\ Refreshed(i) # None
    BY <1>1, <1>2, <1>3
  <2>2. Refreshed(i).sub = Refreshed(i).price * Refreshed(i).qty
    BY <1>2, <2>1, RefreshedIsItem
  <2>3. x.plan[i].sub = x.plan[i].price * x.plan[i].qty
    BY <2>1, <2>2, Zenon
  <2>4. i \notin x.todo => items[i].sub = x.plan[i].sub
    BY <1>1, <2>1
  <2> QED BY <2>1, <2>3, <2>4
<1>5. ASSUME NEW i \in DOMAIN x.plan, i \notin Keeps(x), i \notin x.todo
      PROVE  items[i] = None
  BY <1>1, <1>2, <1>3, <1>5
<1>6. x.sum = SumFunctionOnSet([i \in Keeps(x) |-> x.plan[i].sub], Keeps(x))
  BY <1>1, <1>3
<1>7. In(x.cart) \subseteq DOMAIN x.plan /\ x.todo \subseteq In(x.cart)
  BY <1>1, <1>2
<1> QED BY <1>1, <1>4, <1>5, <1>6, <1>7 DEF RefreshKnows

LEMMA ReadAlone ==
  ASSUME CartInv, CartAloneInv, ~overlap, ~overlap', InTurn',
         NEW w \in Workers, NEW o \in Owners, ReadCart(w, o)
  PROVE  CartAloneInv'
<1>1. PICK c \in ActiveOf(o) : Goto(w, ReadForm(c))
  BY DEF ReadCart, ReadForm
<1>2. c \in Carts
  BY ActiveIsOwned
<1>3. PICK x : x = ReadForm(c)
  OBVIOUS
<1>4. Goto(w, x) /\ At(w, "idle") /\ UNCHANGED <<status, subtotal, items, made>>
  BY <1>1, <1>3 DEF ReadCart, carts, lineVars
<1>5. x.at = "refresh" /\ x.cart = c /\ RefreshKnows(x)
  BY <1>2, <1>3, ReadKnows DEF CartInv
<1>6. InOrder /\ Tidy
  BY <1>4, <1>5, StartsInOrder
<1>7. Tidy' /\ SettledBut(c)' /\ ShownBut(c)'
  BY <1>4, <1>6, InOrderBut, SameRows DEF Tidy
<1>8. RefreshKnows(x)'
  <2>1. In(x.cart)' = In(x.cart)
    BY <1>4, SameRows
  <2> QED BY <1>4, <1>5, <2>1 DEF RefreshKnows
<1>9. CartKnows(x)'
  BY <1>5, <1>7, <1>8 DEF CartKnows
<1> QED BY <1>4, <1>5, <1>7, <1>9, AloneStep

\* A row is a line of c, or none.
LineOf(row, c) == row # None => row.cart = c /\ row.sub = row.price * row.qty

\* One line of c is written anew, and stays in c, or is deleted.
LEMMA OneRow ==
  ASSUME RowsTyped, Tidy, NEW c \in Carts, NEW i \in In(c), NEW row,
         items' = [items EXCEPT ![i] = row], UNCHANGED <<status, subtotal, made>>,
         LineOf(row, c), SettledBut(c), ShownBut(c)
  PROVE  /\ SettledBut(c)' /\ ShownBut(c)' /\ Tidy'
         /\ i \in Items /\ items'[i] = row
         /\ \A j \in Items : j # i => items'[j] = items[j]
         /\ In(c)' = IF row = None THEN In(c) \ {i} ELSE In(c)
<1>1. /\ i \in Items /\ items[i] # None /\ items[i].cart = c
      /\ items \in [Items -> Item \cup {None}]
  BY DEF In, RowsTyped
<1>2. items'[i] = row /\ \A j \in Items : j # i => items'[j] = items[j]
  BY <1>1
<1>3. OnlyIn({c})
  BY <1>1, <1>2 DEF OnlyIn, LineOf
<1>4. SettledBut(c)'
  BY <1>3, SettledElsewhere
<1>5. ShownBut(c)'
  BY <1>2 DEF ShownBut, LineOf
<1>6. In(c)' = IF row = None THEN In(c) \ {i} ELSE In(c)
  <2>1. ASSUME NEW j \in Items
        PROVE  (items'[j] # None /\ items'[j].cart = c) <=>
                 ((items[j] # None /\ items[j].cart = c) /\ (j = i => row # None))
    BY <1>1, <1>2 DEF LineOf
  <2> QED BY <2>1 DEF In
<1>7. Tidy'
  <2>1. ASSUME NEW j \in Items, items'[j] # None PROVE items'[j].sub = items'[j].price * items'[j].qty
    <3>1. CASE j = i
      BY <1>2, <2>1, <3>1 DEF LineOf
    <3>2. CASE j # i
      <4>1. items'[j] = items[j]
        BY <1>2, <3>2
      <4> QED BY <2>1, <4>1 DEF Tidy
    <3> QED BY <3>1, <3>2
  <2>2. ASSUME NEW j \in Items, j > made' PROVE items'[j] = None
    <3>1. items[j] = None
      BY <2>2 DEF Tidy
    <3>2. j # i
      BY <1>1, <3>1
    <3> QED BY <1>2, <3>1, <3>2
  <2> QED BY <2>1, <2>2 DEF Tidy
<1> QED BY <1>1, <1>2, <1>4, <1>5, <1>6, <1>7

LEMMA RefreshLineAlone ==
  ASSUME CartInv, CartAloneInv, ~overlap, ~overlap', InTurn',
         NEW w \in Workers, NEW i \in Items, RefreshLine(w, i)
  PROVE  CartAloneInv'
<1>0. PICK r, c : r = req[w] /\ c = r.cart
  OBVIOUS
<1>1. /\ r.at = "refresh" /\ ~At(w, "idle") /\ i \in r.todo /\ CartForm(r)
      /\ SettledBut(c) /\ ShownBut(c) /\ RefreshKnows(r) /\ Tidy
  BY <1>0 DEF RefreshLine, At, CartAloneInv, CartKnows, CartInv
<1>2. /\ c \in Carts /\ i \in In(c) /\ items[i] # None /\ items[i].cart = c
      /\ i \in DOMAIN r.plan /\ r.plan[i] \in Item \cup {None}
  BY <1>0, <1>1 DEF RefreshKnows, In, CartForm
<1>3. PICK x : x = [r EXCEPT !.todo = @ \ {i}]
  OBVIOUS
<1>4. Goto(w, x)
  BY <1>0, <1>2, <1>3 DEF RefreshLine
<1>5. /\ CartForm(x) /\ x.at = "refresh" /\ x.cart = c /\ x.plan = r.plan /\ x.sum = r.sum
      /\ x.todo = r.todo \ {i}
  BY <1>0, <1>1, <1>3 DEF CartForm
<1>6. PICK row : /\ items' = [items EXCEPT ![i] = row]
                 /\ row = IF r.plan[i] = None THEN None
                          ELSE Rewritten(i, r.plan[i].qty, r.plan[i].price, r.plan[i].sub)
  BY <1>0, <1>2 DEF RefreshLine
<1>7. /\ row = None <=> r.plan[i] = None
      /\ LineOf(row, c)
      /\ row # None => row.sub = r.plan[i].sub
  <2>1. CASE r.plan[i] = None
    BY <1>6, <2>1 DEF LineOf
  <2>2. CASE r.plan[i] # None
    <3>a. PICK q, p, sub : q = r.plan[i].qty /\ p = r.plan[i].price /\ sub = r.plan[i].sub
      OBVIOUS
    <3>1. row = Rewritten(i, q, p, sub)
      BY <1>6, <2>2, <3>a
    <3>2. q \in Nat /\ p \in Nat /\ sub \in Nat
      BY <1>2, <2>2, <3>a, ItemFields
    <3>b. row \in Item /\ row.cart = c /\ row.qty = q /\ row.price = p /\ row.sub = sub
      BY <1>2, <3>1, <3>2, RewrittenIsItem DEF CartInv
    <3>3. /\ row \in Item /\ row.cart = c /\ row.qty = r.plan[i].qty
          /\ row.price = r.plan[i].price /\ row.sub = r.plan[i].sub
      BY <3>a, <3>b
    <3>4. r.plan[i].sub = r.plan[i].price * r.plan[i].qty
      BY <1>1, <1>2, <2>2 DEF RefreshKnows, Keeps
    <3>5. row.sub = row.price * row.qty
      BY <3>3, <3>4, Zenon
    <3> QED BY <2>2, <3>3, <3>5, ItemFields DEF LineOf
  <2> QED BY <2>1, <2>2
<1>8. UNCHANGED <<status, subtotal, made>>
  BY DEF RefreshLine, carts
<1>9. /\ SettledBut(c)' /\ ShownBut(c)' /\ Tidy' /\ items'[i] = row
      /\ \A j \in Items : j # i => items'[j] = items[j]
      /\ In(c)' = IF row = None THEN In(c) \ {i} ELSE In(c)
  <2>1. items' = [items EXCEPT ![i] = row] /\ LineOf(row, c) /\ RowsTyped
    BY <1>6, <1>7 DEF CartInv
  <2>2. SettledBut(c) /\ ShownBut(c) /\ Tidy /\ c \in Carts /\ i \in In(c)
    BY <1>1, <1>2
  <2> QED BY <2>1, <2>2, <1>8, OneRow, Zenon
<1>10. RefreshKnows(x)'
  <2>1. Keeps(x) = Keeps(r) /\ DOMAIN x.plan = DOMAIN r.plan /\ DOMAIN r.plan \subseteq Items
    BY <1>1, <1>5 DEF Keeps, CartForm
  <2>2. In(c)' \subseteq DOMAIN x.plan /\ x.todo \subseteq In(c)'
    BY <1>0, <1>1, <1>5, <1>9, <2>1 DEF RefreshKnows
  <2>3. ASSUME NEW j \in Keeps(x)
        PROVE  /\ x.plan[j].sub = x.plan[j].price * x.plan[j].qty
               /\ j \notin x.todo => j \in In(c)' /\ items'[j].sub = x.plan[j].sub
    <3>1. j \in DOMAIN r.plan /\ j \in Items /\ r.plan[j] # None /\ j \in Keeps(r)
      BY <2>1 DEF Keeps
    <3>2. /\ r.plan[j].sub = r.plan[j].price * r.plan[j].qty
          /\ j \notin r.todo => j \in In(c) /\ items[j].sub = r.plan[j].sub
      BY <1>0, <1>1, <3>1 DEF RefreshKnows
    <3>3. CASE j = i
      BY <1>2, <1>5, <1>7, <1>9, <3>1, <3>2, <3>3
    <3>4. CASE j # i
      BY <1>5, <1>9, <3>1, <3>2, <3>4
    <3> QED BY <3>3, <3>4
  <2>4. ASSUME NEW j \in DOMAIN x.plan, j \notin Keeps(x), j \notin x.todo PROVE items'[j] = None
    <3>1. j \in Items /\ j \notin Keeps(r)
      BY <2>1, <2>4
    <3>2. CASE j = i
      BY <1>2, <1>7, <1>9, <3>1, <3>2 DEF Keeps
    <3>3. CASE j # i
      BY <1>1, <1>5, <1>9, <2>1, <2>4, <3>1, <3>3 DEF RefreshKnows
    <3> QED BY <3>2, <3>3
  <2>5. x.sum = SumFunctionOnSet([j \in Keeps(x) |-> x.plan[j].sub], Keeps(x))
    <3>1. r.sum = SumFunctionOnSet([j \in Keeps(r) |-> r.plan[j].sub], Keeps(r))
      BY <1>1 DEF RefreshKnows
    <3> QED BY <1>5, <2>1, <3>1
  <2> QED BY <1>5, <2>2, <2>3, <2>4, <2>5 DEF RefreshKnows
<1>11. CartKnows(x)'
  BY <1>5, <1>9, <1>10 DEF CartKnows
<1> QED BY <1>1, <1>4, <1>5, <1>9, <1>11, AloneStep

\* The lines of a cart are shown: nothing else about them changes.
LEMMA ShowCart ==
  ASSUME RowsTyped, NEW c, made' = made, ShownBut(c), Tidy,
         items' = [i \in Items |-> IF i \in In(c) THEN [items[i] EXCEPT !.seen = TRUE] ELSE items[i]]
  PROVE  /\ OnlyIn({c}) /\ LinesTotal(c)' = LinesTotal(c) /\ Tidy'
         /\ \A i \in Items : items'[i] # None => items'[i].seen
<1>1. ASSUME NEW i \in Items
      PROVE  /\ items'[i] # None <=> items[i] # None
             /\ items'[i] # None => /\ items'[i].cart = items[i].cart /\ items'[i].sub = items[i].sub
                                    /\ items'[i].price = items[i].price
                                    /\ items'[i].qty = items[i].qty
                                    /\ i \in In(c) => items'[i].seen
             /\ i \notin In(c) => items'[i] = items[i]
  <2>1. CASE i \in In(c)
    <3>1. items[i] \in Item /\ items[i] # None
      BY <2>1 DEF In, RowsTyped
    <3>2. items'[i] = [items[i] EXCEPT !.seen = TRUE]
      BY <2>1
    <3>3. [items[i] EXCEPT !.seen = TRUE] \in Item
      BY <3>1 DEF Item
    <3>4. items'[i] # None
      BY <3>2, <3>3, ItemFields
    <3> QED BY <2>1, <3>1, <3>2, <3>4 DEF Item
  <2>2. CASE i \notin In(c)
    BY <2>2
  <2> QED BY <2>1, <2>2
<1>2. OnlyIn({c})
  <2>1. \A i \in In(c) : items[i].cart = c
    BY DEF In
  <2> QED BY <1>1, <2>1 DEF OnlyIn
<1>3. In(c)' = In(c) /\ \A i \in In(c) : items'[i].sub = items[i].sub
  BY <1>1 DEF In
<1>4. LinesTotal(c)' = LinesTotal(c)
  BY <1>3, SameWorth
<1>5. ASSUME NEW i \in Items, items'[i] # None PROVE items'[i].seen
  <2>1. CASE i \in In(c)
    BY <1>1, <1>5, <2>1
  <2>2. CASE i \notin In(c)
    BY <1>1, <1>5, <2>2 DEF ShownBut, In
  <2> QED BY <2>1, <2>2
<1>6. Tidy'
  <2>1. ASSUME NEW i \in Items, items'[i] # None PROVE items'[i].sub = items'[i].price * items'[i].qty
    <3>1. items[i].sub = items[i].price * items[i].qty
      BY <1>1, <2>1 DEF Tidy
    <3>2. /\ items'[i].sub = items[i].sub /\ items'[i].price = items[i].price
          /\ items'[i].qty = items[i].qty
      BY <1>1, <2>1
    <3> QED BY <3>1, <3>2, Zenon
  <2>2. ASSUME NEW i \in Items, i > made' PROVE items'[i] = None
    BY <1>1, <2>2 DEF Tidy
  <2> QED BY <2>1, <2>2 DEF Tidy
<1> QED BY <1>2, <1>4, <1>5, <1>6

\* All lines are as planned, so the total that was planned is right.
LEMMA RefreshTotalAlone ==
  ASSUME CartInv, CartAloneInv, ~overlap, ~overlap', InTurn',
         NEW w \in Workers, RefreshTotal(w)
  PROVE  CartAloneInv'
<1>0. PICK r, c : r = req[w] /\ c = r.cart
  OBVIOUS
<1>1. /\ r.at = "refresh" /\ ~At(w, "idle") /\ r.todo = {} /\ CartForm(r) /\ c \in Carts
      /\ SettledBut(c) /\ ShownBut(c) /\ RefreshKnows(r) /\ Tidy
  BY <1>0 DEF RefreshTotal, At, CartAloneInv, CartKnows, CartInv, CartForm
<1>2. /\ subtotal' = [subtotal EXCEPT ![c] = r.sum] /\ UNCHANGED <<status, made>>
      /\ items' = [i \in Items |-> IF i \in In(c) THEN [items[i] EXCEPT !.seen = TRUE] ELSE items[i]]
      /\ Goto(w, Idle)
  BY <1>0 DEF RefreshTotal, Answer, Goto, carts
<1>3. /\ OnlyIn({c}) /\ LinesTotal(c)' = LinesTotal(c) /\ Tidy'
      /\ \A i \in Items : items'[i] # None => items'[i].seen
  BY <1>1, <1>2, ShowCart DEF CartInv
<1>4. SettledBut(c)'
  BY <1>1, <1>2, <1>3, SettledElsewhere DEF CartInv, RowsTyped
<1>5. LinesTotal(c) = r.sum
  <2>1. In(c) = Keeps(r)
    <3>1. In(c) \subseteq Keeps(r)
      BY <1>0, <1>1 DEF RefreshKnows, In
    <3>2. Keeps(r) \subseteq In(c)
      BY <1>0, <1>1 DEF RefreshKnows
    <3> QED BY <3>1, <3>2
  <2> DEFINE q == [i \in In(c) |-> items[i].sub]
             p == [i \in Keeps(r) |-> r.plan[i].sub]
  <2>2. IsFiniteSet(In(c)) /\ \A i \in In(c) : q[i] = p[i]
    BY <1>1, <2>1, LinesFinite DEF RefreshKnows
  <2>3. LinesTotal(c) = SumFunctionOnSet(q, In(c)) /\ r.sum = SumFunctionOnSet(p, In(c))
    BY <1>1, <2>1 DEF LinesTotal, RefreshKnows
  <2>4. SumFunctionOnSet(q, In(c)) = SumFunctionOnSet(p, In(c))
    <3> HIDE DEF q, p
    <3> QED BY <2>2, SumAgree
  <2> QED BY <2>3, <2>4
<1>6. Settled(c)'
  BY <1>1, <1>2, <1>3, <1>5 DEF Settled, CartInv, RowsTyped
<1>7. InOrder'
  BY <1>3, <1>4, <1>6 DEF InOrder, SettledBut
<1> QED BY <1>1, <1>2, <1>3, <1>7, IdleIsFormed, AloneStep

-----------------------------------------------------------------------------
(* Ordering in turn.                                                        *)

\* The order knows what it just read.
LEMMA SubmitKnows ==
  ASSUME RowsTyped, NEW c \in Carts, InOrder
  PROVE  RepriceKnows(SubmitForm(c))
<1>1. \A i \in In(c) : /\ i \in Items /\ items[i] # None /\ items[i].price \in Nat
                       /\ price[items[i].size] \in Nat
  <2>1. ASSUME NEW i \in In(c) PROVE i \in Items /\ items[i] # None /\ items[i] \in Item
    BY DEF In, RowsTyped
  <2> QED BY <2>1, ItemFields, StockIsAmount
<1>2. ASSUME NEW i \in In(c)
      PROVE  \/ \E j \in In(c) : price[items[j].size] > items[j].price
             \/ price[items[i].size] <= items[i].price
  BY <1>1
<1>3. Settled(c) /\ \A i \in Items : items[i] # None => items[i].seen
  BY DEF InOrder
<1>4. ~\E i \in In(c) : ~items[i].seen
  BY <1>1, <1>3
<1> QED BY <1>1, <1>2, <1>3, <1>4 DEF RepriceKnows, SubmitForm

\* While the lines stay as they are, an order keeps what it knows.
LEMMA RepriceKnowledge ==
  ASSUME NEW x, RepriceKnows(x), UNCHANGED <<status, subtotal, items>>
  PROVE  RepriceKnows(x)'
<1>1. In(x.cart)' = In(x.cart) /\ Settled(x.cart)' = Settled(x.cart)
  BY SameRows
<1> QED BY <1>1 DEF RepriceKnows

LEMMA SubmitAlone ==
  ASSUME CartInv, CartAloneInv, ~overlap, ~overlap', InTurn',
         NEW w \in Workers, NEW o \in Owners, Submit(w, o)
  PROVE  CartAloneInv'
<1>1. PICK c \in ActiveOf(o) : Goto(w, SubmitForm(c))
  BY DEF Submit, SubmitForm
<1>2. PICK x : x = SubmitForm(c)
  OBVIOUS
<1>3. c \in Carts /\ Goto(w, x) /\ At(w, "idle") /\ UNCHANGED <<status, subtotal, items, made>>
  BY <1>1, <1>2, ActiveIsOwned DEF Submit, Begin, carts, lineVars
<1>4. x.at = "reprice" /\ x.cart = c
  BY <1>2 DEF SubmitForm
<1>5. InOrder /\ Tidy
  BY <1>3, <1>4, StartsInOrder
<1>6. RepriceKnows(x)
  BY <1>2, <1>3, <1>5, SubmitKnows DEF CartInv
<1>7. Tidy' /\ SettledBut(c)' /\ ShownBut(c)' /\ RepriceKnows(x)'
  BY <1>3, <1>5, <1>6, InOrderBut, SameRows, RepriceKnowledge DEF Tidy
<1>8. CartKnows(x)'
  BY <1>4, <1>7 DEF CartKnows
<1> QED BY <1>3, <1>4, <1>7, <1>8, AloneStep

LEMMA RepriceAlone ==
  ASSUME CartInv, CartAloneInv, ~overlap, ~overlap', InTurn',
         NEW w \in Workers, NEW i \in Items, Reprice(w, i)
  PROVE  CartAloneInv'
<1>0. PICK r, c, p, q : r = req[w] /\ c = r.cart /\ p = r.plan[i] /\ q = r.qty[i]
  OBVIOUS
<1>1. /\ r.at = "reprice" /\ ~At(w, "idle") /\ i \in r.todo /\ CartForm(r)
      /\ SettledBut(c) /\ ShownBut(c) /\ RepriceKnows(r) /\ Tidy
  BY <1>0 DEF Reprice, At, CartAloneInv, CartKnows, CartInv
<1>2. c \in Carts /\ i \in DOMAIN r.plan /\ p \in Nat /\ q \in Nat /\ i \in In(c)
  BY <1>0, <1>1 DEF CartForm, RepriceKnows
<1>3. items[i] # None /\ items[i].cart = c /\ items[i].qty = q
  BY <1>0, <1>1, <1>2 DEF RepriceKnows, In
<1>4. PICK x : x = [r EXCEPT !.todo = @ \ {i}]
  OBVIOUS
<1>5. Goto(w, x)
  BY <1>0, <1>3, <1>4 DEF Reprice
<1>6. /\ x.at = "reprice" /\ x.cart = c /\ x.plan = r.plan /\ x.qty = r.qty
      /\ x.todo = r.todo \ {i} /\ (x.raised <=> r.raised) /\ (x.changed <=> r.changed)
      /\ (x.blind <=> r.blind)
  BY <1>0, <1>1, <1>4 DEF CartForm
<1>7. PICK row, sub : /\ items' = [items EXCEPT ![i] = row] /\ sub = p * q
                      /\ row = Rewritten(i, q, p, sub)
  BY <1>0, <1>3 DEF Reprice
<1>8. sub \in Nat
  BY <1>2, <1>7
<1>9. /\ row \in Item /\ row.cart = c /\ row.qty = q /\ row.price = p /\ row.sub = sub
      /\ IsSeen(row) <=> IsSeen(items[i]) /\ p <= items[i].price
  BY <1>2, <1>3, <1>7, <1>8, RewrittenIsItem DEF CartInv
<1>10. row # None /\ LineOf(row, c)
  <2>1. row.sub = row.price * row.qty
    BY <1>7, <1>9, Zenon
  <2> QED BY <1>9, <2>1, ItemFields DEF LineOf
<1>11. UNCHANGED <<status, subtotal, made>>
  BY DEF Reprice, carts
<1>12. /\ SettledBut(c)' /\ ShownBut(c)' /\ Tidy' /\ items'[i] = row
       /\ \A j \in Items : j # i => items'[j] = items[j]
       /\ In(c)' = In(c)
  <2>1. items' = [items EXCEPT ![i] = row] /\ RowsTyped
    BY <1>7 DEF CartInv
  <2>2. /\ SettledBut(c)' /\ ShownBut(c)' /\ Tidy' /\ items'[i] = row
        /\ \A j \in Items : j # i => items'[j] = items[j]
        /\ In(c)' = IF row = None THEN In(c) \ {i} ELSE In(c)
    BY <2>1, <1>1, <1>2, <1>10, <1>11, OneRow, Zenon
  <2> QED BY <2>2, <1>10
<1>13. RepriceKnows(x)'
  <2>1. DOMAIN x.plan = In(c)'
    BY <1>0, <1>1, <1>6, <1>12 DEF RepriceKnows
  <2>2. r.changed
    BY <1>1 DEF RepriceKnows
  <2>3. ASSUME NEW j \in In(c)
        PROVE  /\ items'[j].qty = x.qty[j]
               /\ j \notin x.todo => items'[j].price = x.plan[j]
               /\ j \in x.todo => x.raised \/ x.plan[j] <= items'[j].price
    <3>1. /\ items[j].qty = r.qty[j] /\ j \in Items
          /\ j \notin r.todo => items[j].price = r.plan[j]
          /\ j \in r.todo => r.raised \/ r.plan[j] <= items[j].price
      BY <1>0, <1>1, LinesFinite DEF RepriceKnows
    <3>2. CASE j = i
      BY <1>0, <1>6, <1>9, <1>12, <3>2
    <3>3. CASE j # i
      BY <1>6, <1>12, <3>1, <3>3
    <3> QED BY <3>2, <3>3
  <2>4. r.raised \/ \A j \in Items : items'[j] # None => items'[j].seen
    <3> SUFFICES ASSUME ~r.raised, NEW j \in Items, items'[j] # None PROVE items'[j].seen
      OBVIOUS
    <3>1. \A k \in Items : items[k] # None => items[k].seen
      BY <1>1 DEF RepriceKnows
    <3>2. p <= items[i].price
      BY <1>0, <1>1, <1>2 DEF RepriceKnows
    <3>3. CASE j = i
      BY <1>3, <1>9, <1>12, <3>1, <3>2, <3>3 DEF IsSeen
    <3>4. CASE j # i
      BY <1>12, <3>1, <3>4
    <3> QED BY <3>3, <3>4
  <2>5. ~r.blind
    BY <1>1 DEF RepriceKnows
  <2> QED BY <1>6, <1>12, <2>1, <2>2, <2>3, <2>4, <2>5 DEF RepriceKnows
<1>14. CartKnows(x)'
  BY <1>6, <1>12, <1>13 DEF CartKnows
<1> QED BY <1>1, <1>5, <1>6, <1>12, <1>14, AloneStep

\* All lines have the planned prices, so the total that is written is right; if
\* a price went up the lines are shown, else they were shown already.
LEMMA DecideAlone ==
  ASSUME CartInv, CartAloneInv, ~overlap, ~overlap', InTurn',
         NEW w \in Workers, Decide(w)
  PROVE  CartAloneInv'
<1>0. PICK r, c, sum : /\ r = req[w] /\ c = r.cart
                       /\ sum = SumFunctionOnSet([i \in DOMAIN r.plan |-> r.plan[i] * r.qty[i]],
                                                 DOMAIN r.plan)
  OBVIOUS
<1>1. /\ r.at = "reprice" /\ ~At(w, "idle") /\ r.todo = {} /\ CartForm(r) /\ c \in Carts
      /\ SettledBut(c) /\ ShownBut(c) /\ RepriceKnows(r) /\ Tidy
  BY <1>0 DEF Decide, At, CartAloneInv, CartKnows, CartInv, CartForm
<1>2. /\ subtotal' = (IF r.changed THEN [subtotal EXCEPT ![c] = sum] ELSE subtotal)
      /\ UNCHANGED <<status, made>>
  BY <1>0 DEF Decide, carts
<1>3. LinesTotal(c) = sum
  <2> DEFINE q == [i \in In(c) |-> items[i].sub]
             p == [i \in DOMAIN r.plan |-> r.plan[i] * r.qty[i]]
  <2>1. DOMAIN r.plan = In(c) /\ IsFiniteSet(In(c)) /\ In(c) \subseteq Items
    BY <1>0, <1>1, LinesFinite DEF RepriceKnows
  <2>2. ASSUME NEW i \in In(c) PROVE q[i] = p[i]
    <3>1. items[i].qty = r.qty[i] /\ items[i].price = r.plan[i]
      BY <1>0, <1>1 DEF RepriceKnows
    <3>2. items[i].sub = items[i].price * items[i].qty
      BY <1>1, <2>1 DEF Tidy, In
    <3>3. items[i].sub = r.plan[i] * r.qty[i]
      BY <3>1, <3>2, Zenon
    <3> QED BY <2>1, <3>3
  <2>3. LinesTotal(c) = SumFunctionOnSet(q, In(c)) /\ sum = SumFunctionOnSet(p, In(c))
    BY <1>0, <2>1 DEF LinesTotal
  <2>4. SumFunctionOnSet(q, In(c)) = SumFunctionOnSet(p, In(c))
    <3> HIDE DEF q, p
    <3> QED BY <2>1, <2>2, SumAgree
  <2> QED BY <2>3, <2>4
<1>4. ASSUME OnlyIn({c}), LinesTotal(c)' = LinesTotal(c) PROVE SettledBut(c)' /\ Settled(c)'
  <2>0. subtotal \in [Carts -> Nat]
    BY <1>1 DEF CartInv, RowsTyped
  <2>1. \A d \in Carts : d # c => status'[d] = status[d] /\ subtotal'[d] = subtotal[d]
    BY <1>1, <1>2, <2>0
  <2>2. SettledBut(c)'
    BY <1>1, <1>4, <2>1, SettledElsewhere
  <2>3. ASSUME r.changed PROVE Settled(c)'
    <3>1. subtotal'[c] = sum
      BY <1>1, <1>2, <2>0, <2>3
    <3> QED BY <1>3, <1>4, <3>1 DEF Settled
  <2>4. ASSUME ~r.changed PROVE Settled(c)'
    <3>1. Settled(c)
      BY <1>0, <1>1, <2>4 DEF RepriceKnows
    <3> QED BY <1>2, <1>4, <2>4, <3>1 DEF Settled
  <2> QED BY <2>2, <2>3, <2>4
<1>5. CASE r.raised
  <2>1. /\ items' = [i \in Items |-> IF i \in In(c) THEN [items[i] EXCEPT !.seen = TRUE] ELSE items[i]]
        /\ Goto(w, Idle)
    BY <1>0, <1>5 DEF Decide, Answer, Goto
  <2>2. /\ OnlyIn({c}) /\ LinesTotal(c)' = LinesTotal(c) /\ Tidy'
        /\ \A i \in Items : items'[i] # None => items'[i].seen
    BY <1>1, <1>2, <2>1, ShowCart DEF CartInv
  <2>3. InOrder'
    BY <1>4, <2>2 DEF InOrder, SettledBut
  <2> QED BY <1>1, <2>1, <2>2, <2>3, IdleIsFormed, AloneStep
<1>6. CASE ~r.raised
  <2>1. /\ UNCHANGED items
        /\ Goto(w, [at |-> "order", cart |-> c, qty |-> r.qty, size |-> r.size, blind |-> r.blind])
    BY <1>0, <1>6 DEF Decide
  <2>2. OnlyIn({c}) /\ In(c)' = In(c)
    BY <2>1 DEF OnlyIn, In
  <2>3. LinesTotal(c)' = LinesTotal(c)
    BY <2>1, <2>2, SameWorth
  <2>4. \A i \in Items : items'[i] # None => items'[i].seen
    BY <1>1, <1>6, <2>1 DEF RepriceKnows
  <2>5. InOrder' /\ Tidy'
    BY <1>1, <1>2, <1>4, <2>1, <2>2, <2>3, <2>4 DEF InOrder, SettledBut, Tidy
  <2>6. PICK x : Goto(w, x) /\ x.at = "order" /\ ~x.blind
    <3>1. ~r.blind
      BY <1>1 DEF RepriceKnows
    <3> QED BY <2>1, <3>1
  <2>7. CartKnows(x)'
    BY <2>5, <2>6 DEF CartKnows
  <2> QED BY <1>1, <2>5, <2>6, <2>7, AloneStep
<1> QED BY <1>5, <1>6

LEMMA OrderAlone ==
  ASSUME CartInv, CartAloneInv, ~overlap, ~overlap', InTurn',
         NEW w \in Workers, PlaceOrder(w)
  PROVE  CartAloneInv'
<1>0. PICK c : c = req[w].cart
  OBVIOUS
<1>1. /\ ~At(w, "idle") /\ InOrder /\ Tidy /\ c \in Carts
      /\ UNCHANGED <<subtotal, items, made>> /\ Goto(w, Idle)
      /\ status' = status \/ status' = [status EXCEPT ![c] = "CHECKED_OUT"]
  BY <1>0 DEF PlaceOrder, At, CartAloneInv, CartKnows, CartInv, CartForm, lineVars, Answer, Goto
<1>2. ASSUME NEW d \in Carts PROVE Settled(d)'
  <2>1. In(d)' = In(d)
    BY <1>1 DEF In
  <2>2. LinesTotal(d)' = LinesTotal(d)
    BY <1>1, <2>1, SameWorth
  <2>3. status'[d] = "ACTIVE" => status[d] = "ACTIVE"
    BY <1>1 DEF CartInv, RowsTyped
  <2> QED BY <1>1, <2>2, <2>3 DEF InOrder, Settled
<1>3. InOrder' /\ Tidy'
  BY <1>1, <1>2 DEF InOrder, Tidy
<1> QED BY <1>1, <1>3, IdleIsFormed, AloneStep

-----------------------------------------------------------------------------
(* Signing in in turn.                                                      *)

LEMMA MergeReadAlone ==
  ASSUME CartInv, CartAloneInv, ~overlap, ~overlap', InTurn',
         NEW w \in Workers, MergeRead(w)
  PROVE  CartAloneInv'
<1>1. ~At(w, "idle") /\ InOrder /\ Tidy
  BY DEF MergeRead, At, CartAloneInv, CartKnows
<1>2. /\ req[w].user \in Users /\ req[w].visitor \in Visitors
      /\ UNCHANGED <<carts, subtotal, lineVars, shop, ops>>
  BY MergeReads
<1>3. CASE Goto(w, Idle)
  BY <1>1, <1>2, <1>3, IdleIsFormed, ReadOnly DEF carts, lineVars
<1>4. ASSUME NEW g \in Carts, NEW c \in Carts \cup {None},
             owner[g] = req[w].visitor, c # None => owner[c] = req[w].user,
             Goto(w, MergeForm(req[w], g, c))
      PROVE  CartAloneInv'
  <2>1. PICK x : x = MergeForm(req[w], g, c)
    OBVIOUS
  <2>2. /\ Goto(w, x) /\ x.at = "merge" /\ x.guest = g /\ x.cart = c
        /\ x.theirs = [i \in In(g) |-> items[i]]
        /\ c # None => x.mine = [i \in In(c) |-> items[i]]
    BY <1>4, <2>1 DEF MergeForm
  <2>3. UNCHANGED <<status, subtotal, items, made, owner>>
    BY <1>2 DEF carts, lineVars
  <2>4. InOrder' /\ Tidy' /\ In(g)' = In(g) /\ In(c)' = In(c)
    BY <1>1, <2>3, SameRows DEF Tidy
  <2>5. MergeKnows(x)'
    BY <1>2, <1>4, <2>2, <2>3, <2>4 DEF MergeKnows
  <2>6. CartKnows(x)'
    BY <2>2, <2>4, <2>5 DEF CartKnows
  <2> QED BY <1>1, <2>2, <2>4, <2>6, AloneStep
<1> QED BY <1>3, <1>4, MergeReads

\* The guest's lines move, each worth its price times its quantity, and the
\* total of the account's cart is what it has then.
LEMMA MovedAlone ==
  ASSUME CartInv, NEW r, CartForm(r), r.at = "merge", MergeKnows(r), InOrder, Tidy,
         r.cart # None, \A i \in Targets(r) : items[i] # None,
         made' = made, items' = RowsMerged(r),
         status' = [status EXCEPT ![r.guest] = "ABANDONED"],
         subtotal' = [subtotal EXCEPT ![r.cart] =
           SumFunctionOnSet([i \in LinesAfter(r) |-> RowsMerged(r)[i].sub], LinesAfter(r))]
  PROVE  InOrder' /\ Tidy'
<1>0. PICK g, c : g = r.guest /\ c = r.cart
  OBVIOUS
<1>1. /\ g \in Carts /\ c \in Carts /\ g # c
      /\ DOMAIN r.theirs = In(g) /\ DOMAIN r.mine = In(c)
      /\ \A i \in In(g) : r.theirs[i] = items[i] /\ items[i].cart = g
      /\ \A i \in In(c) : r.mine[i] = items[i] /\ items[i].cart = c
  BY <1>0, CartAssumption DEF CartForm, MergeKnows, CartAssumption, In
<1>2. ASSUME NEW i \in Targets(r)
      PROVE  /\ i \in Items /\ items[i].cart \in {g, c}
             /\ items'[i] = MergedRow(r, i) /\ MergedRow(r, i) # None
             /\ items'[i].cart \in {g, c}
             /\ items'[i].seen = items[i].seen
             /\ items'[i].sub = items'[i].price * items'[i].qty
  <2>1. PICK j \in DOMAIN r.theirs : j = Source(r, i) /\ Target(r, j) = i
    BY SourceIsTheirs
  <2>2. /\ i \in Items /\ MergedRow(r, i) \in Item
        /\ MergedRow(r, i).cart = (IF i = j THEN c ELSE items[i].cart)
        /\ MergedRow(r, i).price = items[i].price /\ MergedRow(r, i).seen = items[i].seen
        /\ MergedRow(r, i).qty = Merged(r, j).qty /\ MergedRow(r, i).sub = Merged(r, j).sub
    BY <1>0, <2>1, MergedRowIsItem DEF CartInv
  <2>3. items[i].cart \in {g, c} /\ PricedBy(r, j) = items[i]
    <3>1. \/ i \in In(c) /\ PricedBy(r, j) = r.mine[i]
          \/ i = j /\ i \in In(g) /\ PricedBy(r, j) = r.theirs[i]
      BY <1>1, <2>1, TargetIsLine
    <3> QED BY <1>1, <3>1
  <2>4. Merged(r, j).sub = PricedBy(r, j).price * Merged(r, j).qty
    BY MergedFields
  <2>5. MergedRow(r, i).sub = MergedRow(r, i).price * MergedRow(r, i).qty
    BY <2>2, <2>3, <2>4, Zenon
  <2>6. items'[i] = MergedRow(r, i)
    BY <2>2 DEF RowsMerged
  <2> QED BY <2>2, <2>3, <2>5, <2>6, ItemFields
<1>3. ASSUME NEW i \in Items, i \notin Targets(r)
      PROVE  items'[i] = items[i] \/ (items'[i] = None /\ i \in In(g))
  BY <1>1, <1>3 DEF RowsMerged
<1>4. OnlyIn({g, c})
  BY <1>1, <1>2, <1>3 DEF OnlyIn
<1>5. ASSUME NEW d \in Carts PROVE Settled(d)'
  <2>1. CASE d = g
    BY <1>0, <1>1, <2>1 DEF Settled, CartInv, RowsTyped
  <2>2. CASE d = c
    <3>1. In(c)' = LinesAfter(r)
      BY <1>0 DEF In, LinesAfter
    <3>2. LinesTotal(c)' = SumFunctionOnSet([i \in LinesAfter(r) |-> RowsMerged(r)[i].sub], LinesAfter(r))
      BY <3>1 DEF LinesTotal
    <3>3. subtotal'[c] = SumFunctionOnSet([i \in LinesAfter(r) |-> RowsMerged(r)[i].sub], LinesAfter(r))
      BY <1>0, <1>1 DEF CartInv, RowsTyped
    <3> QED BY <2>2, <3>2, <3>3 DEF Settled
  <2>3. CASE d \notin {g, c}
    <3>1. LinesTotal(d)' = LinesTotal(d)
      BY <1>4, <2>3, OtherCarts
    <3>2. status'[d] = status[d] /\ subtotal'[d] = subtotal[d]
      BY <1>0, <2>3 DEF CartInv, RowsTyped
    <3> QED BY <3>1, <3>2 DEF InOrder, Settled
  <2> QED BY <2>1, <2>2, <2>3
<1>6. ASSUME NEW i \in Items, items'[i] # None
      PROVE  items'[i].seen /\ items'[i].sub = items'[i].price * items'[i].qty
  <2>1. CASE i \in Targets(r)
    BY <1>2, <2>1 DEF InOrder
  <2>2. CASE i \notin Targets(r)
    <3>1. items'[i] = items[i]
      BY <1>3, <1>6, <2>2
    <3> QED BY <1>6, <3>1 DEF InOrder, Tidy
  <2> QED BY <2>1, <2>2
<1>7. ASSUME NEW i \in Items, i > made' PROVE items'[i] = None
  <2>1. items[i] = None
    BY <1>7 DEF Tidy
  <2>2. i \notin Targets(r)
    BY <2>1
  <2> QED BY <1>3, <2>1, <2>2
<1> QED BY <1>5, <1>6, <1>7 DEF InOrder, Tidy

LEMMA MergeCommitAlone ==
  ASSUME CartInv, CartAloneInv, ~overlap, ~overlap', InTurn',
         NEW w \in Workers, MergeCommit(w)
  PROVE  CartAloneInv'
<1>0. PICK r : r = req[w]
  OBVIOUS
<1>1. ~At(w, "idle") /\ InOrder /\ Tidy /\ CartForm(r) /\ r.at = "merge" /\ MergeKnows(r)
  BY <1>0 DEF MergeCommit, At, CartAloneInv, CartKnows, CartInv
<1>2. made' = made /\ Goto(w, Idle)
  BY MergeWrites
<1>3. InOrder' /\ Tidy'
  <2>1. CASE UNCHANGED <<status, subtotal, items>>
    BY <1>1, <1>2, <2>1, SameRows DEF Tidy
  <2>2. CASE /\ r.cart # None /\ \A i \in Targets(r) : items[i] # None
             /\ status' = [status EXCEPT ![r.guest] = "ABANDONED"]
             /\ items' = RowsMerged(r)
             /\ subtotal' = [subtotal EXCEPT ![r.cart] =
                  SumFunctionOnSet([i \in LinesAfter(r) |-> RowsMerged(r)[i].sub], LinesAfter(r))]
    BY <1>1, <1>2, <2>2, MovedAlone
  <2> QED BY <1>0, <2>1, <2>2, MergeWrites DEF carts
<1> QED BY <1>1, <1>2, <1>3, IdleIsFormed, AloneStep

-----------------------------------------------------------------------------
(* The rest in turn, and the theorem.                                       *)

\* What is no request's step: carts change hands among visitors only.
LEMMA BesideAlone ==
  ASSUME CartInv, CartAloneInv, ~overlap, ~overlap',
         UNCHANGED <<status, subtotal, items, made, req>>,
         \A c \in Carts : \/ owner'[c] = owner[c]
                          \/ owner[c] \in Visitors /\ owner'[c] \in Visitors
  PROVE  CartAloneInv'
<1>1. /\ \A c : In(c)' = In(c) /\ LinesTotal(c)' = LinesTotal(c)
      /\ \A c : Settled(c)' = Settled(c) /\ SettledBut(c)' = SettledBut(c) /\ ShownBut(c)' = ShownBut(c)
      /\ InOrder' = InOrder
  BY SameRows
<1>2. Tidy' /\ InTurn' /\ (Quiet' <=> Quiet)
  BY DEF CartAloneInv, Tidy, InTurn, Busy, At, Quiet
<1>3. ASSUME NEW w \in Workers PROVE CartKnows(req[w])'
  <2>1. PICK r : r = req[w]
    OBVIOUS
  <2>2. CartKnows(r) /\ CartForm(r)
    BY <2>1 DEF CartAloneInv, CartInv
  <2>3. r.at = "refresh" => RefreshKnows(r)'
    BY <1>1, <2>2 DEF CartKnows, RefreshKnows
  <2>4. r.at = "reprice" => RepriceKnows(r)'
    BY <2>2, RepriceKnowledge DEF CartKnows
  <2>5. r.at = "merge" => MergeKnows(r)'
    <3> SUFFICES ASSUME r.at = "merge" PROVE MergeKnows(r)'
      OBVIOUS
    <3>1. MergeKnows(r) /\ r.guest \in Carts /\ r.cart \in Carts \cup {None}
      BY <2>2 DEF CartKnows, CartForm
    <3>2. owner'[r.guest] \in Visitors /\ (r.cart # None => owner'[r.cart] \in Users)
      BY <3>1, CartAssumption DEF MergeKnows, CartAssumption
    <3> QED BY <1>1, <3>1, <3>2 DEF MergeKnows
  <2>6. CartKnows(r)'
    BY <1>1, <2>2, <2>3, <2>4, <2>5 DEF CartKnows
  <2>7. req'[w] = r
    BY <2>1
  <2> QED BY <2>6, <2>7 DEF CartKnows
<1> QED BY <1>1, <1>2, <1>3 DEF CartAloneInv

LEMMA MigrateAlone ==
  ASSUME CartInv, CartAloneInv, ~overlap, ~overlap',
         NEW w \in Workers, NEW v \in Visitors, NEW n \in Visitors, MigrateVisitor(w, v, n)
  PROVE  CartAloneInv'
<1>1. /\ UNCHANGED <<status, subtotal, items, made, req>>
      /\ owner' = [c \in Carts |-> IF c \in ActiveOf(v) THEN n ELSE owner[c]]
  BY DEF MigrateVisitor, lineVars
<1>2. \A c \in Carts : \/ owner'[c] = owner[c]
                       \/ owner[c] \in Visitors /\ owner'[c] \in Visitors
  BY <1>1 DEF ActiveOf
<1> QED BY <1>1, <1>2, BesideAlone

LEMMA ServeAlone ==
  ASSUME CartInv, CartAloneInv, ~overlap, ~overlap', InTurn',
         NEW w \in Workers, Serve(w)
  PROVE  CartAloneInv'
<1>1. ASSUME NEW i \in Items, RefreshLine(w, i) \/ Reprice(w, i) PROVE CartAloneInv'
  BY <1>1, RefreshLineAlone, RepriceAlone
<1> QED BY <1>1, ReadsAlone, PutAlone, SumAlone, TotalAlone, DropAlone, WipeAlone,
           RefreshTotalAlone, DecideAlone, OrderAlone, MergeReadAlone, MergeCommitAlone DEF Serve

LEMMA BeginAlone ==
  ASSUME CartInv, CartAloneInv, ~overlap, ~overlap', InTurn',
         NEW w \in Workers, Start(w)
  PROVE  CartAloneInv'
<1>1. ASSUME NEW o \in Owners, NEW s \in ProductSizes, AddFind(w, o, s) PROVE CartAloneInv'
  BY <1>1, StartAlone
<1>2. ASSUME NEW o \in Owners, NEW i \in Items, NEW q, SetQuantity(w, o, i, q) \/ RemoveItem(w, o, i)
      PROVE  CartAloneInv'
  BY <1>2, StartAlone
<1>3. ASSUME NEW o \in Owners, ClearCart(w, o) PROVE CartAloneInv'
  BY <1>3, StartAlone
<1>4. ASSUME NEW o \in Owners, Submit(w, o) PROVE CartAloneInv'
  BY <1>4, SubmitAlone
<1>5. ASSUME NEW u \in Users, NEW v \in Visitors, MergeLook(w, u, v) PROVE CartAloneInv'
  BY <1>5, StartAlone
<1>6. ASSUME NEW v \in Visitors, NEW n \in Visitors, MigrateVisitor(w, v, n) PROVE CartAloneInv'
  BY <1>6, MigrateAlone
<1> QED BY <1>1, <1>2, <1>3, <1>4, <1>5, <1>6 DEF Start

LEMMA CartAloneStart == MCCartInit => CartAloneInv
<1> SUFFICES ASSUME CartInit PROVE CartAloneInv
  BY DEF MCCartInit
<1>1. \A w \in Workers : req[w] = Idle
  BY DEF CartInit
<1>2. InTurn
  BY <1>1 DEF InTurn, Busy, At, Idle
<1>3. \A i \in Items : items[i] = None
  BY DEF CartInit
<1>4. Tidy
  BY <1>3 DEF Tidy
<1>5. ASSUME NEW c \in Carts PROVE Settled(c)
  <2>1. In(c) = {} /\ subtotal[c] = 0
    BY <1>3 DEF In, CartInit
  <2>2. LinesTotal(c) = SumFunctionOnSet([i \in {} |-> items[i].sub], {})
    BY <2>1 DEF LinesTotal
  <2> QED BY <2>1, <2>2, SumEmpty DEF Settled
<1>6. InOrder
  BY <1>3, <1>5 DEF InOrder
<1>7. \A w \in Workers : CartKnows(req[w])
  BY <1>1, IdleIsFormed DEF CartKnows
<1> QED BY <1>2, <1>4, <1>6, <1>7 DEF CartAloneInv

LEMMA CartAloneKept ==
  ASSUME CartInv, CartAloneInv, [MCCartNext]_<<cartVars, overlap>>
  PROVE  CartAloneInv'
<1>1. CASE overlap
  BY <1>1 DEF MCCartNext, CartAloneInv
<1>2. CASE ~overlap /\ UNCHANGED <<cartVars, overlap>>
  BY <1>2, BesideAlone DEF cartVars, carts, lineVars
<1>3. CASE ~overlap /\ MCCartNext
  <2>1. ~overlap' /\ CartNext /\ InTurn' /\ ~\E w \in Workers : Abort(w)
    BY <1>3 DEF MCCartNext
  <2>2. ASSUME NEW w \in Workers, Start(w) \/ Serve(w) PROVE CartAloneInv'
    BY <1>3, <2>1, <2>2, BeginAlone, ServeAlone
  <2>3. ASSUME NEW w \in Workers, NEW o \in Owners, ReadCart(w, o) PROVE CartAloneInv'
    BY <1>3, <2>1, <2>3, ReadAlone
  <2>4. ASSUME Change PROVE CartAloneInv'
    BY <1>3, <2>1, <2>4, ShopChanges, BesideAlone DEF carts, lineVars
  <2> QED BY <2>1, <2>2, <2>3, <2>4 DEF CartNext
<1> QED BY <1>1, <1>2, <1>3

\* createOrder and refreshCart: where requests are served one at a time, each to
\* its end, the stored total of an open cart is the sum of its lines whenever no
\* request is under way, and no order is placed at a price that the customer has
\* not been shown.
THEOREM ShownIsPaid == MCCartSpec => []ShownIsPaidAlone
<1>1. MCCartInit => CartInv /\ CartAloneInv
  BY CartStart, CartAloneStart DEF MCCartInit
<1>2. ASSUME CartInv, CartAloneInv, [MCCartNext]_<<cartVars, overlap>>
      PROVE  CartInv' /\ CartAloneInv'
  <2>1. [CartNext]_cartVars
    BY <1>2 DEF MCCartNext
  <2> QED BY <1>2, <2>1, CartKept, CartAloneKept
<1>3. ASSUME CartAloneInv PROVE ShownIsPaidAlone
  <2>1. ASSUME ~overlap PROVE TotalsMatch /\ PriceSeenBeforePaid
    BY <1>3, <2>1
    DEF CartAloneInv, TotalsMatch, PriceSeenBeforePaid, InOrder, Settled, CartKnows, At
  <2> QED BY <2>1 DEF ShownIsPaidAlone
<1> QED BY <1>1, <1>2, <1>3, PTL DEF MCCartSpec

-----------------------------------------------------------------------------
(* Coupons: the inductive invariant of requests that are served in turn.    *)

OfferRows ==
  /\ coupon \in [Coupons -> Coupon \cup {Unused, Gone}]
  /\ meant \in [Coupons -> SUBSET Categories]
  /\ goods \subseteq Products
  /\ link \in Coupons \cup {None} /\ shown \in Coupons \cup {None}

\* What the customer hoped for is what the order has, or was deleted.
HopeKept(o) == o.hope # None => o.coupon = o.hope \/ coupon[o.hope] = Gone
NotTooMuch(o) == o.coupon # None /\ ~o.widened => o.discount <= o.due

\* The cart's coupon exists and is the one shown, unless that was deleted; no
\* coupon is for more than it was meant for, where it is restricted at all.
OffersInOrder ==
  /\ link # None => Exists(link)
  /\ shown # None => shown = link \/ coupon[shown] = Gone
  /\ \A k \in Coupons : Exists(k) => coupon[k].only \subseteq meant[k]
  /\ \A o \in orders : o.hope \in Coupons \cup {None} /\ HopeKept(o) /\ NotTooMuch(o)

\* What a request carries, and what it can rely on: a cart that is to lose its
\* coupon has a dead one, and the rows that an update has deleted are all.
OfferKnows(r) ==
  /\ r.at \in {"rows", "patch", "toggle", "code", "link", "check"} => r.coupon \in Coupons
  /\ r.at \in {"rows", "patch"} => r.patch \in Patches
  /\ r.at = "rows" => "only" \in DOMAIN r.patch
  /\ r.at = "patch" /\ "only" \in DOMAIN r.patch /\ Exists(r.coupon) =>
       coupon[r.coupon].only \subseteq r.old
  /\ r.at = "toggle" => r.active \in BOOLEAN
  /\ r.at \in {"check", "order"} => r.hope \in Coupons \cup {None} /\ HopeKept(r)
  /\ r.at = "check" => r.coupon = link /\ r.lines \subseteq Products
  /\ r.at = "order" => NotTooMuch(r)
  /\ r.at = "unlink" => link = None \/ ~InWindow(coupon[link])

OffersAloneInv ==
  overlap \/
    /\ InTurn /\ DOMAIN req = Workers
    /\ OfferRows /\ OffersInOrder
    /\ \A w \in Workers : OfferKnows(req[w])

-----------------------------------------------------------------------------
(* What a coupon takes off.                                                 *)

LEMMA WorthGrows ==
  ASSUME NEW bought, bought \subseteq Products, NEW part, part \subseteq bought
  PROVE  /\ Worth(part) \in Nat /\ Worth(bought) \in Nat
         /\ Worth(part) <= Worth(bought)
<1>1. IsFiniteSet(bought)
  BY FS_Subset, OffersAssumption DEF OffersAssumption
<1>2. \A p \in bought : Price[p] \in Nat
  BY OffersAssumption DEF OffersAssumption
<1> QED BY <1>1, <1>2, SumSmaller DEF Worth

LEMMA AtMostIsLess ==
  ASSUME NEW a \in Nat, NEW b \in Nat
  PROVE  AtMost(a, b) \in Nat /\ AtMost(a, b) <= b
BY DEF AtMost

\* No coupon takes off more than what its lines are worth.
LEMMA DiscountIsLess ==
  ASSUME NEW row \in Coupon, NEW worth \in Nat
  PROVE  Discount(row, worth) \in Nat /\ Discount(row, worth) <= worth
<1>1. row.value \in Nat /\ row.type \in {"FIXED_AMOUNT", "PERCENTAGE", "FREE_DELIVERY"}
  BY OffersAssumption DEF OffersAssumption, Coupon
<1>2. row.value * worth \in Nat
  BY <1>1
<1>3. (row.value * worth) \div 100 \in Nat
  <2> SUFFICES ASSUME NEW n \in Nat PROVE n \div 100 \in Nat
    BY <1>2
  <2> QED OBVIOUS
<1>4. CASE row.type = "FIXED_AMOUNT"
  BY <1>1, <1>4, AtMostIsLess DEF Discount
<1>5. CASE row.type = "PERCENTAGE"
  <2>1. Discount(row, worth) = AtMost((row.value * worth) \div 100, worth)
    BY <1>5 DEF Discount
  <2> QED BY <1>3, <2>1, AtMostIsLess
<1>6. CASE row.type = "FREE_DELIVERY"
  BY <1>6 DEF Discount
<1> QED BY <1>1, <1>4, <1>5, <1>6

\* A coupon that is still restricted, to some of what it was meant for, takes
\* off no more than the lines are worth that it was meant for.
LEMMA DiscountIsDue ==
  ASSUME NEW row \in Coupon, NEW bought, bought \subseteq Products, NEW cats, NEW aim,
         row.only \subseteq aim, ~(row.only = {} /\ aim # {})
  PROVE  Discount(row, Worth(Within(bought, cats, row.only))) <= Worth(Within(bought, cats, aim))
<1>1. Within(bought, cats, row.only) \subseteq Within(bought, cats, aim)
  BY DEF Within
<1>2. Within(bought, cats, aim) \subseteq Products
  BY DEF Within
<1>3. PICK a, b : a = Worth(Within(bought, cats, row.only)) /\ b = Worth(Within(bought, cats, aim))
  OBVIOUS
<1>4. a \in Nat /\ b \in Nat /\ a <= b
  BY <1>1, <1>2, <1>3, WorthGrows
<1>5. Discount(row, a) \in Nat /\ Discount(row, a) <= a
  BY <1>4, DiscountIsLess
<1> QED BY <1>3, <1>4, <1>5

-----------------------------------------------------------------------------
(* Coupons: rows that are written.                                          *)

\* What an update makes of a coupon is a coupon.
LEMMA PatchedIsCoupon ==
  ASSUME NEW row \in Coupon, NEW patch \in Patches
  PROVE  /\ Patched(row, patch) \in Coupon
         /\ "only" \notin DOMAIN patch => Patched(row, patch).only = row.only
         /\ "only" \in DOMAIN patch => patch.only \subseteq Categories
<1>1. DOMAIN row = {"active", "phase", "only", "type", "value", "min"}
  BY DEF Coupon
<1>2. /\ "active" \in DOMAIN patch => patch.active \in BOOLEAN
      /\ "phase" \in DOMAIN patch => patch.phase \in Phases
      /\ "only" \in DOMAIN patch => patch.only \in SUBSET Categories
      /\ "type" \in DOMAIN patch => patch.type \in Types
      /\ "value" \in DOMAIN patch => patch.value \in Values
      /\ "min" \notin DOMAIN patch
  BY DEF Patches
<1>3. PICK x : x = Patched(row, patch)
  OBVIOUS
<1>4. /\ x = [f \in {"active", "phase", "only", "type", "value", "min"} |->
                IF f \in DOMAIN patch THEN patch[f] ELSE row[f]]
  BY <1>1, <1>3 DEF Patched
<1>5. /\ x.active \in BOOLEAN /\ x.phase \in Phases /\ x.only \in SUBSET Categories
      /\ x.type \in Types /\ x.value \in Values /\ x.min \in Minima
  BY <1>2, <1>4 DEF Coupon
<1>6. x = [active |-> x.active, phase |-> x.phase, only |-> x.only, type |-> x.type,
           value |-> x.value, min |-> x.min]
  BY <1>4
<1>7. x \in Coupon
  BY <1>5, <1>6 DEF Coupon
<1>8. "only" \notin DOMAIN patch => x.only = row.only
  BY <1>4
<1> QED BY <1>2, <1>3, <1>7, <1>8

\* A deleted coupon stays deleted.
GoneStays == \A k \in Coupons : coupon[k] = Gone => coupon'[k] = Gone

LEMMA OrdersAsBefore ==
  ASSUME OfferRows, OffersInOrder, GoneStays, NEW o \in orders
  PROVE  (o.hope \in Coupons \cup {None} /\ HopeKept(o) /\ NotTooMuch(o))'
<1>1. o.hope \in Coupons \cup {None} /\ HopeKept(o) /\ NotTooMuch(o)
  BY DEF OffersInOrder
<1>2. coupon[o.hope] = Gone /\ o.hope # None => coupon'[o.hope] = Gone
  BY <1>1 DEF GoneStays
<1> QED BY <1>1, <1>2 DEF HopeKept, NotTooMuch

\* One coupon is made or written; what it is for, it is meant for.
LEMMA CouponWritten ==
  ASSUME OfferRows, OffersInOrder, NEW k \in Coupons, coupon[k] # Gone,
         NEW row \in Coupon, coupon' = [coupon EXCEPT ![k] = row],
         NEW aim \in SUBSET Categories, row.only \subseteq aim,
         \/ meant' = [meant EXCEPT ![k] = aim]
         \/ meant' = meant /\ meant[k] = aim,
         UNCHANGED <<goods, link, shown, orders>>
  PROVE  OfferRows' /\ OffersInOrder'
<1>1. /\ coupon'[k] = row /\ \A j \in Coupons : j # k => coupon'[j] = coupon[j]
      /\ meant'[k] = aim /\ \A j \in Coupons : j # k => meant'[j] = meant[j]
      /\ meant' \in [Coupons -> SUBSET Categories]
      /\ coupon' \in [Coupons -> Coupon \cup {Unused, Gone}]
  BY DEF OfferRows
<1>2. OfferRows'
  BY <1>1 DEF OfferRows
<1>3. GoneStays
  BY <1>1 DEF GoneStays
<1>4. row \notin {Unused, Gone}
  BY CouponAssumption DEF CouponAssumption
<1>5. Exists(k)' /\ \A j \in Coupons : j # k => (Exists(j)' <=> Exists(j))
  BY <1>1, <1>4 DEF Exists
<1>6. link' # None => Exists(link)'
  <2> SUFFICES ASSUME link # None PROVE Exists(link)'
    OBVIOUS
  <2>1. link \in Coupons /\ Exists(link)
    BY DEF OfferRows, OffersInOrder
  <2>2. CASE link = k
    BY <1>1, <1>4, <2>2 DEF Exists
  <2>3. CASE link # k
    BY <1>1, <2>1, <2>3 DEF Exists
  <2> QED BY <2>2, <2>3
<1>7. shown' # None => shown' = link' \/ coupon'[shown'] = Gone
  BY <1>3 DEF GoneStays, OfferRows, OffersInOrder
<1>8. ASSUME NEW j \in Coupons, Exists(j)' PROVE coupon'[j].only \subseteq meant'[j]
  <2>1. CASE j = k
    BY <1>1, <2>1
  <2>2. CASE j # k
    BY <1>1, <1>5, <1>8, <2>2 DEF OffersInOrder
  <2> QED BY <2>1, <2>2
<1>9. ASSUME NEW o \in orders PROVE (o.hope \in Coupons \cup {None} /\ HopeKept(o) /\ NotTooMuch(o))'
  BY <1>3, OrdersAsBefore
<1> QED BY <1>2, <1>6, <1>7, <1>8, <1>9 DEF OffersInOrder

\* The coupons stay as they are; the cart keeps its coupon, loses it or gets one
\* that exists, and no other one is shown.
LEMMA CartCoupon ==
  ASSUME OfferRows, OffersInOrder, UNCHANGED <<coupon, meant, orders>>, goods' \subseteq Products,
         \/ link' = link
         \/ link' = None
         \/ link' \in Coupons /\ Exists(link'),
         \/ shown' = shown /\ link' = link
         \/ shown' = link'
         \/ shown' = None
  PROVE  OfferRows' /\ OffersInOrder'
<1>1. OfferRows'
  BY DEF OfferRows
<1>2. (link' # None => Exists(link)') /\ (shown' # None => shown' = link' \/ coupon'[shown'] = Gone)
  BY DEF OffersInOrder, Exists
<1>3. \A j \in Coupons : Exists(j)' => coupon'[j].only \subseteq meant'[j]
  BY DEF OffersInOrder, Exists
<1>4. ASSUME NEW o \in orders PROVE (o.hope \in Coupons \cup {None} /\ HopeKept(o) /\ NotTooMuch(o))'
  BY OrdersAsBefore DEF GoneStays
<1> QED BY <1>1, <1>2, <1>3, <1>4 DEF OffersInOrder

-----------------------------------------------------------------------------
(* Coupons: one request at a time.                                          *)

LEMMA IdleKnowsOffers == ASSUME NEW x, x.at = "idle" PROVE OfferKnows(x)'
BY DEF OfferKnows

\* The request that is served is the only one.
LEMMA OnlyOffer ==
  ASSUME OffersAloneInv, ~overlap, ~overlap', OfferRows', OffersInOrder',
         NEW w \in Workers, NEW x, Goto(w, x), ~At(w, "idle") \/ Busy = {}, OfferKnows(x)'
  PROVE  OffersAloneInv'
<1>1. DOMAIN req = Workers /\ InTurn
  BY DEF OffersAloneInv
<1>2. /\ req'[w] = x /\ DOMAIN req' = Workers
      /\ \A v \in Workers : v # w => req'[v] = req[v]
  BY <1>1 DEF Goto
<1>3. ASSUME NEW v \in Workers, v # w PROVE req'[v].at = "idle"
  <2>1. req[v].at = "idle"
    BY <1>1, <1>3 DEF InTurn, Busy, At
  <2> QED BY <1>2, <1>3, <2>1
<1>4. InTurn'
  BY <1>3 DEF InTurn, Busy, At
<1>5. ASSUME NEW v \in Workers PROVE OfferKnows(req[v])'
  <2>1. CASE v = w
    <3>1. req'[v] = x
      BY <1>2, <2>1
    <3> QED BY <3>1 DEF OfferKnows
  <2>2. CASE v # w
    BY <1>3, <2>2 DEF OfferKnows
  <2> QED BY <2>1, <2>2
<1> QED BY <1>2, <1>4, <1>5 DEF OffersAloneInv

\* No request is started.
LEMMA NoOffer ==
  ASSUME OffersAloneInv, ~overlap, ~overlap', OfferRows', OffersInOrder', UNCHANGED req, Busy = {}
  PROVE  OffersAloneInv'
<1>1. \A w \in Workers : req'[w].at = "idle"
  BY DEF Busy, At
<1>2. InTurn'
  BY <1>1 DEF InTurn, Busy, At
<1>3. \A w \in Workers : OfferKnows(req[w])'
  BY <1>1 DEF OfferKnows
<1> QED BY <1>2, <1>3 DEF OffersAloneInv

-----------------------------------------------------------------------------
(* Coupons: what the admins do, in turn.                                    *)

LEMMA TreeAlone ==
  ASSUME OffersAloneInv, ~overlap, ~overlap', Busy = {},
         NEW n, NEW up, NEW p, NEW subs,
         Create(n, up) \/ MoveUnder(n, up) \/ File(p, subs)
  PROVE  OffersAloneInv'
<1>1. UNCHANGED <<coupon, meant, goods, link, shown, orders, req>>
  BY DEF Create, MoveUnder, File, NotTheCart, rules, cartRow
<1>2. OfferRows /\ OffersInOrder /\ goods' \subseteq Products
  BY <1>1 DEF OffersAloneInv, OfferRows
<1>3. OfferRows' /\ OffersInOrder'
  BY <1>1, <1>2, CartCoupon
<1> QED BY <1>1, <1>3, NoOffer

LEMMA CouponMadeAlone ==
  ASSUME OffersAloneInv, ~overlap, ~overlap', Busy = {},
         NEW k \in Coupons, NEW row \in Coupon, CreateCoupon(k, row)
  PROVE  OffersAloneInv'
<1>1. /\ OfferRows /\ OffersInOrder
      /\ coupon[k] # Gone /\ coupon' = [coupon EXCEPT ![k] = row]
      /\ meant' = [meant EXCEPT ![k] = row.only]
      /\ UNCHANGED <<goods, link, shown, orders, req>>
  BY CouponAssumption DEF CouponAssumption, OffersAloneInv, CreateCoupon, NotTheCart, cartRow
<1>2. row.only \in SUBSET Categories
  BY DEF Coupon
<1>3. OfferRows' /\ OffersInOrder'
  BY <1>1, <1>2, CouponWritten
<1> QED BY <1>1, <1>3, NoOffer

LEMMA TimeAlone ==
  ASSUME OffersAloneInv, ~overlap, ~overlap', Busy = {}, NEW k \in Coupons, Time(k)
  PROVE  OffersAloneInv'
<1>1. PICK row : row = [coupon[k] EXCEPT !.phase = IF @ = "before" THEN "open" ELSE "after"]
  OBVIOUS
<1>2. /\ OfferRows /\ OffersInOrder /\ Exists(k)
      /\ coupon' = [coupon EXCEPT ![k] = row]
      /\ UNCHANGED <<meant, goods, link, shown, orders, req>>
  BY <1>1 DEF OffersAloneInv, Time, cartRow
<1>3. coupon[k] \in Coupon /\ coupon[k] # Gone /\ coupon[k].only \subseteq meant[k]
      /\ meant[k] \in SUBSET Categories
  BY <1>2 DEF OfferRows, OffersInOrder, Exists
<1>4. row \in Coupon /\ row.only = coupon[k].only
  BY <1>1, <1>3 DEF Coupon, Phases
<1>5. OfferRows' /\ OffersInOrder'
  BY <1>2, <1>3, <1>4, CouponWritten
<1> QED BY <1>2, <1>5, NoOffer

LEMMA DeleteCouponAlone ==
  ASSUME OffersAloneInv, ~overlap, ~overlap', Busy = {}, NEW k \in Coupons, DeleteCoupon(k)
  PROVE  OffersAloneInv'
<1>1. /\ OfferRows /\ OffersInOrder
      /\ coupon' = [coupon EXCEPT ![k] = Gone] /\ link' = (IF link = k THEN None ELSE link)
      /\ UNCHANGED <<meant, goods, shown, orders, req>>
  BY DEF OffersAloneInv, DeleteCoupon
<1>2. /\ coupon'[k] = Gone /\ \A j \in Coupons : j # k => coupon'[j] = coupon[j]
      /\ coupon' \in [Coupons -> Coupon \cup {Unused, Gone}]
  BY <1>1 DEF OfferRows
<1>3. OfferRows' /\ GoneStays
  BY <1>1, <1>2 DEF OfferRows, GoneStays
<1>4. link' # None => Exists(link)'
  <2> SUFFICES ASSUME link' # None PROVE Exists(link)'
    OBVIOUS
  <2>1. link' = link /\ link # k /\ link \in Coupons /\ Exists(link)
    BY <1>1 DEF OfferRows, OffersInOrder
  <2> QED BY <1>2, <2>1 DEF Exists
<1>5. shown' # None => shown' = link' \/ coupon'[shown'] = Gone
  <2> SUFFICES ASSUME shown # None PROVE shown = link' \/ coupon'[shown] = Gone
    BY <1>1
  <2>1. shown \in Coupons /\ (shown = link \/ coupon[shown] = Gone)
    BY <1>1 DEF OfferRows, OffersInOrder
  <2>2. CASE shown = k
    BY <1>2, <2>2
  <2>3. CASE shown # k
    BY <1>1, <1>2, <2>1, <2>3
  <2> QED BY <2>2, <2>3
<1>6. \A j \in Coupons : Exists(j)' => coupon'[j].only \subseteq meant'[j]
  <2> TAKE j \in Coupons
  <2>1. CASE j = k
    BY <1>2, <2>1 DEF Exists
  <2>2. CASE j # k
    BY <1>1, <1>2, <2>2 DEF OffersInOrder, Exists
  <2> QED BY <2>1, <2>2
<1>7. ASSUME NEW o \in orders PROVE (o.hope \in Coupons \cup {None} /\ HopeKept(o) /\ NotTooMuch(o))'
  BY <1>1, <1>3, OrdersAsBefore
<1>8. OffersInOrder'
  BY <1>1, <1>4, <1>5, <1>6, <1>7 DEF OffersInOrder
<1> QED BY <1>1, <1>3, <1>8, NoOffer

\* What a request of an admin starts with only reads.
LEMMA AdminLooksAlone ==
  ASSUME OffersAloneInv, ~overlap, ~overlap', Busy = {},
         NEW w \in Workers,
         \/ \E n \in Nodes : DeleteLook(w, n)
         \/ \E k \in Coupons : ToggleLook(w, k) \/ \E patch \in Patches : UpdateLook(w, k, patch)
  PROVE  OffersAloneInv'
<1>1. UNCHANGED <<coupon, meant, goods, link, shown, orders>>
  BY DEF DeleteLook, UpdateLook, ToggleLook, NotTheCart, rules, cartRow
<1>2. OfferRows /\ OffersInOrder /\ goods' \subseteq Products
  BY <1>1 DEF OffersAloneInv, OfferRows
<1>3. OfferRows' /\ OffersInOrder'
  BY <1>1, <1>2, CartCoupon
<1>4. \E x : Goto(w, x) /\ OfferKnows(x)'
  <2>1. ASSUME NEW n \in Nodes, DeleteLook(w, n) PROVE \E x : Goto(w, x) /\ OfferKnows(x)'
    BY <2>1 DEF DeleteLook, OfferKnows
  <2>2. ASSUME NEW k \in Coupons, NEW patch \in Patches, UpdateLook(w, k, patch)
        PROVE  \E x : Goto(w, x) /\ OfferKnows(x)'
    <3>1. CASE "only" \in DOMAIN patch
      BY <2>2, <3>1 DEF UpdateLook, OfferKnows
    <3>2. CASE "only" \notin DOMAIN patch
      BY <2>2, <3>2 DEF UpdateLook, OfferKnows
    <3> QED BY <3>1, <3>2
  <2>3. ASSUME NEW k \in Coupons, ToggleLook(w, k) PROVE \E x : Goto(w, x) /\ OfferKnows(x)'
    <3>1. PICK x : /\ Goto(w, x) /\ x.at = "toggle" /\ x.coupon = k
                   /\ x.active = ~coupon[k].active
      BY <2>3 DEF ToggleLook
    <3>2. (~coupon[k].active) \in BOOLEAN
      OBVIOUS
    <3> QED BY <3>1, <3>2 DEF OfferKnows
  <2> QED BY <2>1, <2>2, <2>3
<1> QED BY <1>3, <1>4, OnlyOffer

\* A category that goes takes itself out of what coupons are for.
LEMMA DeleteAlone ==
  ASSUME OffersAloneInv, ~overlap, ~overlap', NEW w \in Workers, Delete(w)
  PROVE  OffersAloneInv'
<1>1. /\ OfferRows /\ OffersInOrder /\ ~At(w, "idle") /\ Goto(w, Idle)
      /\ UNCHANGED <<meant, goods, link, shown, orders>>
  BY DEF OffersAloneInv, Delete, At, Answer, Goto, NotTheCart, cartRow
<1>2. PICK gone :
        \/ coupon' = [k \in Coupons |-> IF Exists(k) THEN [coupon[k] EXCEPT !.only = @ \ gone]
                                        ELSE coupon[k]]
        \/ coupon' = coupon
  BY DEF Delete
<1>3. ASSUME NEW k \in Coupons
      PROVE  /\ Exists(k)' <=> Exists(k)
             /\ coupon[k] = Gone => coupon'[k] = Gone
             /\ coupon'[k] \in Coupon \cup {Unused, Gone}
             /\ Exists(k) => coupon'[k].only \subseteq coupon[k].only
  <2>1. CASE coupon' = coupon \/ ~Exists(k)
    <3>1. coupon'[k] = coupon[k]
      BY <1>2, <2>1
    <3> QED BY <1>1, <3>1 DEF Exists, OfferRows
  <2>2. CASE coupon' # coupon /\ Exists(k)
    <3>1. coupon'[k] = [coupon[k] EXCEPT !.only = @ \ gone] /\ coupon[k] \in Coupon
      BY <1>1, <1>2, <2>2 DEF OfferRows, Exists
    <3>2. coupon'[k] \in Coupon /\ coupon'[k].only \subseteq coupon[k].only
      BY <3>1 DEF Coupon
    <3>3. coupon'[k] \notin {Unused, Gone} /\ coupon[k] \notin {Unused, Gone}
      BY <2>2, <3>2, CouponAssumption DEF CouponAssumption, Exists
    <3> QED BY <3>2, <3>3 DEF Exists
  <2> QED BY <2>1, <2>2
<1>4. coupon' \in [Coupons -> Coupon \cup {Unused, Gone}]
  <2>1. DOMAIN coupon' = Coupons /\ coupon' = [k \in DOMAIN coupon' |-> coupon'[k]]
    BY <1>1, <1>2 DEF OfferRows
  <2> QED BY <1>3, <2>1
<1>5. OfferRows' /\ GoneStays
  BY <1>1, <1>3, <1>4 DEF OfferRows, GoneStays
<1>6. link' # None => Exists(link)'
  <2> SUFFICES ASSUME link # None PROVE Exists(link)'
    BY <1>1
  <2>1. link \in Coupons /\ Exists(link)
    BY <1>1 DEF OfferRows, OffersInOrder
  <2>2. coupon'[link] \notin {Unused, Gone}
    BY <1>3, <2>1 DEF Exists
  <2> QED BY <1>1, <2>2 DEF Exists
<1>7. shown' # None => shown' = link' \/ coupon'[shown'] = Gone
  BY <1>1, <1>5 DEF GoneStays, OfferRows, OffersInOrder
<1>8. \A j \in Coupons : Exists(j)' => coupon'[j].only \subseteq meant'[j]
  BY <1>1, <1>3 DEF OffersInOrder
<1>9. ASSUME NEW o \in orders PROVE (o.hope \in Coupons \cup {None} /\ HopeKept(o) /\ NotTooMuch(o))'
  BY <1>1, <1>5, OrdersAsBefore
<1>10. OffersInOrder'
  BY <1>1, <1>6, <1>7, <1>8, <1>9 DEF OffersInOrder
<1> QED BY <1>1, <1>5, <1>10, OnlyOffer, IdleKnowsOffers DEF Idle

LEMMA UpdateRowsAlone ==
  ASSUME OffersAloneInv, ~overlap, ~overlap', NEW w \in Workers, UpdateRows(w)
  PROVE  OffersAloneInv'
<1>0. PICK r : r = req[w]
  OBVIOUS
<1>1. /\ OfferRows /\ OffersInOrder /\ ~At(w, "idle") /\ r.at = "rows" /\ OfferKnows(r)
      /\ UNCHANGED <<coupon, meant, goods, link, shown, orders>>
  BY <1>0 DEF OffersAloneInv, UpdateRows, At, NotTheCart, rules, cartRow
<1>2. goods' \subseteq Products
  BY <1>1 DEF OfferRows
<1>3. OfferRows' /\ OffersInOrder'
  BY <1>1, <1>2, CartCoupon
<1>4. PICK x : x = [r EXCEPT !.at = "patch",
                            !.old = IF Exists(r.coupon) THEN coupon[r.coupon].only ELSE {}]
  OBVIOUS
<1>5. Goto(w, x)
  BY <1>0, <1>4 DEF UpdateRows
<1>6. OfferKnows(x)'
  BY <1>1, <1>4 DEF OfferKnows, Exists
<1> QED BY <1>1, <1>3, <1>5, <1>6, OnlyOffer

LEMMA UpdateCommitAlone ==
  ASSUME OffersAloneInv, ~overlap, ~overlap', NEW w \in Workers, UpdateCommit(w)
  PROVE  OffersAloneInv'
<1>0. PICK r, k, row, patch : r = req[w] /\ k = r.coupon /\ row = coupon[k] /\ patch = r.patch
  OBVIOUS
<1>1. /\ OfferRows /\ OffersInOrder /\ ~At(w, "idle") /\ Goto(w, Idle)
      /\ UNCHANGED <<goods, link, shown, orders>>
      /\ k \in Coupons /\ patch \in Patches
      /\ "only" \in DOMAIN patch /\ Exists(k) => row.only \subseteq r.old
  BY <1>0 DEF OffersAloneInv, UpdateCommit, At, Answer, Goto, OfferKnows, NotTheCart, cartRow
<1>2. CASE UNCHANGED rules
  <2>1. UNCHANGED <<coupon, meant>> /\ goods' \subseteq Products
    BY <1>1, <1>2 DEF rules, OfferRows
  <2>2. OfferRows' /\ OffersInOrder'
    BY <1>1, <2>1, CartCoupon
  <2> QED BY <1>1, <2>2, OnlyOffer, IdleKnowsOffers DEF Idle
<1>3. CASE ~UNCHANGED rules
  <2>1. /\ Exists(k) /\ row \in Coupon /\ coupon[k] # Gone
        /\ row.only \subseteq meant[k] /\ meant[k] \in SUBSET Categories
    BY <1>0, <1>1, <1>3 DEF UpdateCommit, OfferRows, OffersInOrder, Exists
  <2>2. /\ Patched(row, patch) \in Coupon
        /\ "only" \notin DOMAIN patch => Patched(row, patch).only = row.only
        /\ "only" \in DOMAIN patch => patch.only \subseteq Categories
    BY <1>1, <2>1, PatchedIsCoupon
  <2>3. CASE "only" \in DOMAIN patch
    <3>1. PICK new : new = [Patched(row, patch) EXCEPT !.only = patch.only]
      OBVIOUS
    <3>2. (row.only \ r.old) \cup patch.only = patch.only
      BY <1>1, <2>1, <2>3
    <3>3. coupon' = [coupon EXCEPT ![k] = new] /\ meant' = [meant EXCEPT ![k] = patch.only]
      BY <1>0, <1>3, <2>3, <3>1, <3>2 DEF UpdateCommit
    <3>4. new \in Coupon /\ new.only = patch.only
      BY <2>2, <2>3, <3>1 DEF Coupon
    <3>5. OfferRows' /\ OffersInOrder'
      BY <1>1, <2>1, <2>2, <2>3, <3>3, <3>4, CouponWritten
    <3> QED BY <1>1, <3>5, OnlyOffer, IdleKnowsOffers DEF Idle
  <2>4. CASE "only" \notin DOMAIN patch
    <3>1. coupon' = [coupon EXCEPT ![k] = Patched(row, patch)] /\ meant' = meant
      BY <1>0, <1>3, <2>4 DEF UpdateCommit
    <3>2. OfferRows' /\ OffersInOrder'
      BY <1>1, <2>1, <2>2, <2>4, <3>1, CouponWritten
    <3> QED BY <1>1, <3>2, OnlyOffer, IdleKnowsOffers DEF Idle
  <2> QED BY <2>3, <2>4
<1> QED BY <1>2, <1>3

LEMMA ToggleAlone ==
  ASSUME OffersAloneInv, ~overlap, ~overlap', NEW w \in Workers, Toggle(w)
  PROVE  OffersAloneInv'
<1>0. PICK k, on : k = req[w].coupon /\ on = req[w].active
  OBVIOUS
<1>1. /\ OfferRows /\ OffersInOrder /\ ~At(w, "idle") /\ Goto(w, Idle)
      /\ UNCHANGED <<meant, goods, link, shown, orders>> /\ k \in Coupons /\ on \in BOOLEAN
  BY <1>0 DEF OffersAloneInv, Toggle, At, Answer, Goto, OfferKnows, NotTheCart, cartRow
<1>2. OfferRows' /\ OffersInOrder'
  <2>1. CASE ~Exists(k)
    <3>1. coupon' = coupon /\ goods' \subseteq Products
      BY <1>0, <1>1, <2>1 DEF Toggle, OfferRows
    <3> QED BY <1>1, <3>1, CartCoupon
  <2>2. CASE Exists(k)
    <3>1. PICK row : row = [coupon[k] EXCEPT !.active = on]
      OBVIOUS
    <3>2. coupon' = [coupon EXCEPT ![k] = row]
      BY <1>0, <2>2, <3>1 DEF Toggle
    <3>3. coupon[k] \in Coupon /\ coupon[k] # Gone /\ coupon[k].only \subseteq meant[k]
          /\ meant[k] \in SUBSET Categories
      BY <1>1, <2>2 DEF OfferRows, OffersInOrder, Exists
    <3>4. row \in Coupon /\ row.only = coupon[k].only
      BY <1>1, <3>1, <3>3 DEF Coupon
    <3> QED BY <1>1, <3>2, <3>3, <3>4, CouponWritten
  <2> QED BY <2>1, <2>2
<1> QED BY <1>1, <1>2, OnlyOffer, IdleKnowsOffers DEF Idle

-----------------------------------------------------------------------------
(* Coupons: what the customer does, in turn, and the theorems.              *)

LEMMA GoodsAlone ==
  ASSUME OffersAloneInv, ~overlap, ~overlap', Busy = {},
         \/ \E p \in Products : PutIn(p) \/ TakeOut(p)
         \/ EmptyCart \/ RemoveCoupon
  PROVE  OffersAloneInv'
<1>1. OfferRows /\ OffersInOrder
  BY DEF OffersAloneInv
<1>2. /\ UNCHANGED <<coupon, meant, orders, req>> /\ goods' \subseteq Products
      /\ (link' = link /\ shown' = shown) \/ (link' = None /\ shown' = None)
  BY <1>1 DEF PutIn, TakeOut, EmptyCart, RemoveCoupon, NotTheShop, rules, OfferRows
<1>3. OfferRows' /\ OffersInOrder'
  BY <1>1, <1>2, CartCoupon
<1> QED BY <1>2, <1>3, NoOffer

LEMMA LooksAtCartAlone ==
  ASSUME OffersAloneInv, ~overlap, ~overlap', Busy = {},
         NEW w \in Workers, GetCartItems(w)
  PROVE  OffersAloneInv'
<1>1. /\ OfferRows /\ OffersInOrder /\ DOMAIN req = Workers
      /\ UNCHANGED <<coupon, meant, goods, link, orders>> /\ goods' \subseteq Products
  BY DEF OffersAloneInv, GetCartItems, NotTheShop, rules, cartRow, OfferRows
<1>2. CASE link # None /\ ~InWindow(coupon[link])
  <2>1. shown' = shown /\ Goto(w, [at |-> "unlink"])
    BY <1>2 DEF GetCartItems
  <2>2. OfferRows' /\ OffersInOrder'
    BY <1>1, <2>1, CartCoupon
  <2>3. PICK x : Goto(w, x) /\ x.at = "unlink"
    BY <2>1
  <2>4. OfferKnows(x)'
    BY <1>1, <1>2, <2>3 DEF OfferKnows, InWindow
  <2> QED BY <2>2, <2>3, <2>4, OnlyOffer
<1>3. CASE ~(link # None /\ ~InWindow(coupon[link]))
  <2>1. shown' = link' /\ req' = req
    BY <1>1, <1>3 DEF GetCartItems
  <2>2. OfferRows' /\ OffersInOrder'
    BY <1>1, <2>1, CartCoupon
  <2> QED BY <2>1, <2>2, NoOffer
<1> QED BY <1>2, <1>3

LEMMA AsksAlone ==
  ASSUME OffersAloneInv, ~overlap, ~overlap', Busy = {},
         NEW w \in Workers, SubmitCart(w) \/ \E k \in Coupons : Apply(w, k)
  PROVE  OffersAloneInv'
<1>1. /\ OfferRows /\ OffersInOrder
      /\ UNCHANGED <<coupon, meant, goods, link, shown, orders>> /\ goods' \subseteq Products
  BY DEF OffersAloneInv, SubmitCart, Apply, NotTheShop, rules, cartRow, OfferRows
<1>2. OfferRows' /\ OffersInOrder'
  BY <1>1, CartCoupon
<1>3. CASE SubmitCart(w)
  <2>1. PICK x : /\ Goto(w, x) /\ x.at = (IF link = None THEN "order" ELSE "check")
                 /\ x.coupon = link /\ x.hope = shown /\ x.lines = goods
    BY <1>3 DEF SubmitCart
  <2>2. shown \in Coupons \cup {None} /\ link \in Coupons \cup {None} /\ HopeKept(x)'
    BY <1>1, <2>1 DEF OfferRows, OffersInOrder, HopeKept
  <2>3. x.at = "order" => NotTooMuch(x)'
    BY <2>1 DEF NotTooMuch
  <2>4. OfferKnows(x)'
    BY <1>1, <2>1, <2>2, <2>3 DEF OfferKnows
  <2> QED BY <1>2, <2>1, <2>4, OnlyOffer
<1>4. ASSUME NEW k \in Coupons, Apply(w, k) PROVE OffersAloneInv'
  <2>1. PICK x : Goto(w, x) /\ x.at = "code" /\ x.coupon = k
    BY <1>4 DEF Apply
  <2>2. OfferKnows(x)'
    BY <2>1 DEF OfferKnows
  <2> QED BY <1>2, <2>1, <2>2, OnlyOffer
<1> QED BY <1>3, <1>4

LEMMA ApplyAlone ==
  ASSUME OffersAloneInv, ~overlap, ~overlap',
         NEW w \in Workers, ApplyCheck(w) \/ ApplyWrite(w) \/ Unlink(w)
  PROVE  OffersAloneInv'
<1>0. PICK k : k = req[w].coupon
  OBVIOUS
<1>1. /\ OfferRows /\ OffersInOrder /\ ~At(w, "idle")
      /\ UNCHANGED <<coupon, meant, goods, orders>> /\ goods' \subseteq Products
      /\ ~At(w, "unlink") => k \in Coupons
  BY <1>0 DEF OffersAloneInv, ApplyCheck, ApplyWrite, Unlink, At, OfferKnows, NotTheShop,
              rules, cartRow, OfferRows
<1>2. \/ link' = link /\ shown' = shown
      \/ link' = None /\ shown' = None
      \/ link' = k /\ shown' = k /\ k \in Coupons /\ Exists(k)
  BY <1>0, <1>1 DEF ApplyCheck, ApplyWrite, Unlink, At, cartRow
<1>3. OfferRows' /\ OffersInOrder'
  BY <1>1, <1>2, CartCoupon
<1>4. \E x : Goto(w, x) /\ OfferKnows(x)'
  <2>1. CASE Goto(w, Idle)
    BY <2>1, IdleKnowsOffers DEF Idle
  <2>2. CASE ~Goto(w, Idle)
    <3>1. PICK x : Goto(w, x) /\ x.at = "link" /\ x.coupon = k
      BY <1>0, <2>2 DEF ApplyCheck, ApplyWrite, Unlink, Answer, Goto
    <3>2. k \in Coupons
      BY <1>1, <2>2 DEF ApplyCheck, ApplyWrite, Unlink, Answer, Goto, At
    <3> QED BY <3>1, <3>2 DEF OfferKnows
  <2> QED BY <2>1, <2>2
<1> QED BY <1>1, <1>3, <1>4, OnlyOffer

\* What a coupon takes off is worked out from the row as it is, and from the
\* lines that were read.
LEMMA SubmitCheckAlone ==
  ASSUME OffersAloneInv, ~overlap, ~overlap', NEW w \in Workers, SubmitCheck(w)
  PROVE  OffersAloneInv'
<1>0. PICK r, k, row, aim : /\ r = req[w] /\ k = r.coupon /\ row = coupon[k] /\ aim = meant[k]
  OBVIOUS
<1>1. /\ OfferRows /\ OffersInOrder /\ ~At(w, "idle")
      /\ UNCHANGED <<coupon, meant, goods, link, shown, orders>> /\ goods' \subseteq Products
      /\ r.at = "check" /\ OfferKnows(r)
  BY <1>0 DEF OffersAloneInv, SubmitCheck, At, NotTheShop, rules, cartRow, OfferRows
<1>2. /\ k \in Coupons /\ k = link /\ r.lines \subseteq Products
      /\ r.hope \in Coupons \cup {None} /\ HopeKept(r)
  BY <1>0, <1>1 DEF OfferKnows
<1>3. OfferRows' /\ OffersInOrder'
  BY <1>1, CartCoupon
<1>4. CASE Goto(w, Idle)
  BY <1>1, <1>3, <1>4, OnlyOffer, IdleKnowsOffers DEF Idle
<1>5. CASE Goto(w, [at |-> "unlink"]) /\ ~InWindow(row)
  <2>1. PICK x : Goto(w, x) /\ x.at = "unlink"
    BY <1>5
  <2>2. OfferKnows(x)'
    BY <1>0, <1>1, <1>2, <1>5, <2>1 DEF OfferKnows, InWindow
  <2> QED BY <1>1, <1>3, <2>1, <2>2, OnlyOffer
<1>6. CASE /\ Exists(k)
           /\ Goto(w, [r EXCEPT !.at = "order",
                   !.discount = Discount(row, Worth(Within(r.lines, r.cats, row.only))),
                   !.due = Worth(Within(r.lines, r.cats, aim)),
                   !.widened = row.only = {} /\ aim # {}])
  <2>1. Exists(k)
    BY <1>6
  <2>2. PICK x : x = [r EXCEPT !.at = "order",
                   !.discount = Discount(row, Worth(Within(r.lines, r.cats, row.only))),
                   !.due = Worth(Within(r.lines, r.cats, aim)),
                   !.widened = row.only = {} /\ aim # {}]
    OBVIOUS
  <2>3. Goto(w, x)
    BY <1>6, <2>2
  <2>4. row \in Coupon /\ row.only \subseteq aim
    BY <1>0, <1>1, <1>2, <2>1 DEF OfferRows, OffersInOrder, Exists
  <2>5. ~(row.only = {} /\ aim # {}) =>
           Discount(row, Worth(Within(r.lines, r.cats, row.only)))
             <= Worth(Within(r.lines, r.cats, aim))
    BY <1>2, <2>4, DiscountIsDue
  <2>6. /\ x.at = "order" /\ x.hope = r.hope /\ x.coupon = r.coupon
    BY <2>2
  <2>7. NotTooMuch(x)
    <3>1. x.widened = (row.only = {} /\ aim # {})
      BY <2>2
    <3>2. /\ x.discount = Discount(row, Worth(Within(r.lines, r.cats, row.only)))
          /\ x.due = Worth(Within(r.lines, r.cats, aim))
      BY <2>2
    <3>3. ~x.widened => x.discount <= x.due
      BY <2>5, <3>1, <3>2, Zenon
    <3> QED BY <3>3 DEF NotTooMuch
  <2>8. HopeKept(x)' /\ NotTooMuch(x)'
    BY <1>1, <1>2, <2>6, <2>7 DEF HopeKept, NotTooMuch
  <2>9. OfferKnows(x)'
    BY <1>2, <2>6, <2>8 DEF OfferKnows
  <2> QED BY <1>1, <1>3, <2>3, <2>9, OnlyOffer
<1>7. CASE ~Exists(k)
  <2>1. Goto(w, Idle)
    BY <1>0, <1>7 DEF SubmitCheck, Answer, Goto
  <2> QED BY <1>4, <2>1
<1>8. CASE Exists(k) /\ ~InWindow(row)
  <2>1. Goto(w, [at |-> "unlink"])
    BY <1>0, <1>8 DEF SubmitCheck
  <2> QED BY <1>5, <1>8, <2>1
<1>9. CASE Exists(k) /\ InWindow(row)
  <2>1. \/ Goto(w, Idle)
        \/ Goto(w, [r EXCEPT !.at = "order",
                   !.discount = Discount(row, Worth(Within(r.lines, r.cats, row.only))),
                   !.due = Worth(Within(r.lines, r.cats, aim)),
                   !.widened = row.only = {} /\ aim # {}])
    BY <1>0, <1>9, Zenon DEF SubmitCheck, Answer, Goto
  <2> QED BY <1>4, <1>6, <1>9, <2>1
<1> QED BY <1>7, <1>8, <1>9

LEMMA OrderGoodsAlone ==
  ASSUME OffersAloneInv, ~overlap, ~overlap', NEW w \in Workers, OrderGoods(w)
  PROVE  OffersAloneInv'
<1>0. PICK r : r = req[w]
  OBVIOUS
<1>1. /\ OfferRows /\ OffersInOrder /\ ~At(w, "idle") /\ Goto(w, Idle)
      /\ UNCHANGED <<coupon, meant, goods, link>>
      /\ shown' = shown \/ shown' = None
      /\ r.at = "order" /\ OfferKnows(r)
  BY <1>0 DEF OffersAloneInv, OrderGoods, At, Answer, Goto, NotTheShop, rules
<1>2. PICK order : /\ order.coupon = r.coupon /\ order.hope = r.hope
                   /\ NotTooMuch(order) <=> NotTooMuch(r)
                   /\ orders' \subseteq orders \cup {order}
  <2>1. PICK order : order = [coupon |-> r.coupon, hope |-> r.hope, discount |-> r.discount,
                              due |-> r.due, widened |-> r.widened]
    OBVIOUS
  <2>2. orders' \subseteq orders \cup {order}
    BY <1>0, <2>1 DEF OrderGoods
  <2>3. NotTooMuch(order) <=> NotTooMuch(r)
    BY <2>1 DEF NotTooMuch
  <2> QED BY <2>1, <2>2, <2>3
<1>3. order.hope \in Coupons \cup {None} /\ HopeKept(order) /\ NotTooMuch(order)
  BY <1>1, <1>2 DEF OfferKnows, HopeKept
<1>4. ASSUME NEW o \in orders'
      PROVE  (o.hope \in Coupons \cup {None} /\ HopeKept(o) /\ NotTooMuch(o))'
  <2>1. o.hope \in Coupons \cup {None} /\ HopeKept(o) /\ NotTooMuch(o)
    BY <1>1, <1>2, <1>3, <1>4 DEF OffersInOrder
  <2> QED BY <1>1, <2>1 DEF HopeKept, NotTooMuch
<1>5. OfferRows' /\ OffersInOrder'
  <2>1. OfferRows'
    BY <1>1 DEF OfferRows
  <2>2. /\ link' # None => Exists(link)'
        /\ shown' # None => shown' = link' \/ coupon'[shown'] = Gone
        /\ \A k \in Coupons : Exists(k)' => coupon'[k].only \subseteq meant'[k]
    BY <1>1 DEF OffersInOrder, Exists
  <2> QED BY <1>4, <2>1, <2>2 DEF OffersInOrder
<1> QED BY <1>1, <1>5, OnlyOffer, IdleKnowsOffers DEF Idle

LEMMA OffersStart == MCOffersInit => OffersAloneInv
<1> SUFFICES ASSUME OffersInit PROVE OffersAloneInv
  BY DEF MCOffersInit
<1>1. \A w \in Workers : req[w].at = "idle"
  BY DEF OffersInit, Idle
<1>2. InTurn /\ DOMAIN req = Workers
  BY <1>1 DEF InTurn, Busy, At, OffersInit
<1>3. \A k \in Coupons : meant[k] \in SUBSET Categories /\ (Exists(k) => coupon[k].only \subseteq meant[k])
  <2> TAKE k \in Coupons
  <2>1. meant[k] = IF Exists(k) THEN coupon[k].only ELSE {}
    BY DEF OffersInit
  <2>2. Exists(k) => coupon[k] \in Coupon
    BY DEF OffersInit, Exists
  <2> QED BY <2>1, <2>2 DEF Coupon
<1>4. meant \in [Coupons -> SUBSET Categories]
  BY <1>3 DEF OffersInit
<1>5. OfferRows /\ OffersInOrder
  BY <1>3, <1>4 DEF OffersInit, OfferRows, OffersInOrder
<1>6. \A w \in Workers : OfferKnows(req[w])
  BY <1>1 DEF OfferKnows
<1> QED BY <1>2, <1>5, <1>6 DEF OffersAloneInv

\* One request at a time, nothing but the served request's own step comes while
\* it is under way.
LEMMA OffersKept ==
  ASSUME OffersAloneInv, [MCOffersNext]_<<offersVars, overlap>>
  PROVE  OffersAloneInv'
<1>1. CASE overlap
  BY <1>1 DEF MCOffersNext, OffersAloneInv
<1>2. CASE ~overlap /\ UNCHANGED <<offersVars, overlap>>
  BY <1>2 DEF offersVars, treeVars, rules, cartRow, OffersAloneInv, OfferRows, OffersInOrder,
              OfferKnows, InTurn, Busy, At, Exists, InWindow, HopeKept, NotTooMuch
<1>3. CASE ~overlap /\ MCOffersNext
  <2>1. ~overlap' /\ OffersNext /\ (Busy = {} \/ \E w \in Workers : ServeOffers(w))
    BY <1>3 DEF MCOffersNext
  <2>2. ASSUME NEW w \in Workers, ServeOffers(w) PROVE OffersAloneInv'
    BY <1>3, <2>1, <2>2, DeleteAlone, UpdateRowsAlone, UpdateCommitAlone, ToggleAlone,
       ApplyAlone, SubmitCheckAlone, OrderGoodsAlone DEF ServeOffers
  <2>3. CASE Busy = {} /\ Admin
    <3>1. ASSUME NEW n, NEW up, Create(n, up) \/ MoveUnder(n, up) PROVE OffersAloneInv'
      BY <1>3, <2>1, <2>3, <3>1, TreeAlone
    <3>2. ASSUME NEW p, NEW subs, File(p, subs) PROVE OffersAloneInv'
      BY <1>3, <2>1, <2>3, <3>2, TreeAlone
    <3>3. ASSUME NEW k \in Coupons, NEW row \in Coupon, CreateCoupon(k, row) PROVE OffersAloneInv'
      BY <1>3, <2>1, <2>3, <3>3, CouponMadeAlone
    <3>4. ASSUME NEW k \in Coupons, DeleteCoupon(k) \/ Time(k) PROVE OffersAloneInv'
      BY <1>3, <2>1, <2>3, <3>4, DeleteCouponAlone, TimeAlone
    <3>5. ASSUME NEW w \in Workers,
                 \/ \E n \in Nodes : DeleteLook(w, n)
                 \/ \E k \in Coupons :
                      ToggleLook(w, k) \/ \E patch \in Patches : UpdateLook(w, k, patch)
          PROVE  OffersAloneInv'
      BY <1>3, <2>1, <2>3, <3>5, AdminLooksAlone
    <3> QED BY <2>3, <3>1, <3>2, <3>3, <3>4, <3>5 DEF Admin
  <2>4. CASE Busy = {} /\ Customer
    BY <1>3, <2>1, <2>4, GoodsAlone, LooksAtCartAlone, AsksAlone DEF Customer
  <2>5. ASSUME NEW w \in Workers, GiveUp(w), Busy = {} PROVE FALSE
    BY <2>5 DEF GiveUp, Busy
  <2> QED BY <2>1, <2>2, <2>3, <2>4, <2>5 DEF OffersNext
<1> QED BY <1>1, <1>2, <1>3

\* createOrder: where requests are served one at a time, an order has the coupon
\* that the customer was shown unless that was deleted, and it takes off no more
\* than the lines are worth that the coupon was meant for.
THEOREM OrdersAreHonoured == MCOffersSpec => []HonouredAlone
<1>1. OffersAloneInv => HonouredAlone
  BY DEF OffersAloneInv, OffersInOrder, HonouredAlone, HopeKept, NotTooMuch, DiscountWithinMeant
<1> QED BY <1>1, OffersStart, OffersKept, PTL DEF MCOffersSpec

\* resolveCartCoupon: where requests are served one at a time, a coupon that is
\* valid leaves a cart only by the customer's hand or with its row.
THEOREM LiveCouponsStay == MCOffersSpec => LiveStaysAlone
<1>1. ASSUME OffersAloneInv, [MCOffersNext]_<<offersVars, overlap>>
      PROVE  [overlap \/ LiveStays]_offersVars
  <2> SUFFICES ASSUME ~overlap, MCOffersNext,
                      link # None, InWindow(coupon[link]), link' = None
               PROVE  RemoveCoupon \/ EmptyCart \/ DeleteCoupon(link)
    BY <1>1 DEF LiveStays
  <2>1. \A w \in Workers : ~Unlink(w)
    BY <1>1 DEF OffersAloneInv, OfferKnows, Unlink, At
  <2>2. \A w \in Workers : ~ApplyWrite(w)
    <3> SUFFICES ASSUME NEW w \in Workers, ApplyWrite(w) PROVE FALSE
      OBVIOUS
    <3>1. req[w].coupon \in Coupons /\ None \notin Coupons
      BY <1>1, OffersAssumption DEF OffersAssumption, OffersAloneInv, OfferKnows, ApplyWrite, At
    <3> QED BY <3>1 DEF ApplyWrite
  <2>3. ASSUME NEW w \in Workers, ServeOffers(w) PROVE FALSE
    BY <2>1, <2>2, <2>3 DEF ServeOffers, Delete, UpdateRows, UpdateCommit, Toggle, ApplyCheck,
       SubmitCheck, OrderGoods, NotTheCart, cartRow
  <2>4. ASSUME NEW w \in Workers, GiveUp(w) PROVE FALSE
    BY <2>4 DEF GiveUp, cartRow
  <2>5. CASE Admin
    BY <2>5 DEF Admin, Create, MoveUnder, File, CreateCoupon, DeleteCoupon, Time, ToggleLook,
       UpdateLook, DeleteLook, NotTheCart, cartRow
  <2>6. CASE Customer
    BY <2>6 DEF Customer, PutIn, TakeOut, GetCartItems, SubmitCart, Apply, cartRow
  <2> QED BY <2>3, <2>4, <2>5, <2>6 DEF MCOffersNext, OffersNext
<1> QED BY <1>1, OffersStart, OffersKept, PTL DEF MCOffersSpec, LiveStaysAlone
=============================================================================
