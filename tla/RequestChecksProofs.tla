-------------------------- MODULE RequestChecksProofs --------------------------
(***************************************************************************)
(* What is handed to Execute is paid for, and the HTTP status is true, for *)
(* every request, every transaction it may point at, every configuration   *)
(* of chains, tokens and buckets, and every step that fails.               *)
(***************************************************************************)
EXTENDS RequestChecks, WellFoundedInduction, TLAPS

-----------------------------------------------------------------------------
(* Arithmetic of amounts.                                                  *)

(* Products of natural numbers grow with their factors.                    *)
LEMMA FactorGrows ==
    ASSUME NEW a \in Nat, NEW b \in Nat, NEW c \in Nat, b <= c
    PROVE  a * b \in Nat /\ a * c \in Nat /\ a * b <= a * c
<1>1. PICK k \in Nat : c = b + k
  <2>1. c - b \in Nat /\ c = b + (c - b)
    OBVIOUS
  <2> QED
    BY <2>1
<1>2. a * c = a * b + a * k /\ a * k \in Nat /\ a * b \in Nat
  BY <1>1
<1> QED
  BY <1>2

(* A quotient rounds down, so that its product with the divisor does not   *)
(* exceed the number, and one more would.                                  *)
LEMMA QuotientRoundsDown ==
    ASSUME NEW a \in Nat, NEW f \in Nat \ {0}
    PROVE  /\ a \div f \in Nat
           /\ f * (a \div f) <= a
           /\ a < f * ((a \div f) + 1)
<1> DEFINE q == a \div f
           r == a % f
<1>1. f \in Nat /\ f > 0
  OBVIOUS
<1>2. q \in Nat /\ r \in Nat /\ r < f /\ a = f * q + r
  BY <1>1
<1> HIDE DEF q, r
<1>3. f * q \in Nat /\ f * (q + 1) = f * q + f
  BY <1>2
<1>4. q \in Nat /\ f * q <= a /\ a < f * (q + 1)
  BY <1>2, <1>3
<1> QED
  BY <1>4 DEF q

(* An amount within the scaled deposit is within it in exact units, too.   *)
LEMMA ScaledIsExact ==
    ASSUME NEW src \in Decimals, NEW dst \in Decimals,
           src \in Nat, dst \in Nat,
           NEW amount \in Nat, NEW borrow \in Nat,
           borrow <= ScaleTokenAmount(amount, src, dst)
    PROVE  borrow * 10 ^ src <= amount * 10 ^ dst
<1>1. CASE src > dst
  <2>1. PICK f \in Nat \ {0}, p \in Nat, d \in Nat :
          f = 10 ^ (src - dst) /\ p = 10 ^ src /\ d = 10 ^ dst /\ p = f * d
    BY <1>1, PowersAssumption
  <2>2. borrow <= amount \div f
    BY <1>1, <2>1 DEF ScaleTokenAmount
  <2>3. amount \div f \in Nat /\ f * (amount \div f) <= amount
    BY QuotientRoundsDown
  <2>4. f * borrow \in Nat /\ f * borrow <= f * (amount \div f)
        /\ f * (amount \div f) \in Nat
    BY <2>2, <2>3, FactorGrows
  <2>5. f * borrow <= amount
    BY <2>3, <2>4
  <2>6. d * (f * borrow) <= d * amount
    BY <2>4, <2>5, FactorGrows
  <2>7. d * (f * borrow) = borrow * (f * d) /\ d * amount = amount * d
    OBVIOUS
  <2>8. borrow * p <= amount * d
    BY <2>1, <2>6, <2>7
  <2> QED
    BY <2>1, <2>8
<1>2. CASE ~(src > dst)
  <2>1. PICK f \in Nat \ {0}, p \in Nat, d \in Nat :
          f = 10 ^ (dst - src) /\ p = 10 ^ src /\ d = 10 ^ dst /\ d = f * p
    BY <1>2, PowersAssumption
  <2>2. borrow <= amount * f
    BY <1>2, <2>1 DEF ScaleTokenAmount
  <2>3. p * borrow <= p * (amount * f)
    <3>1. amount * f \in Nat
      OBVIOUS
    <3> QED
      BY <2>2, <3>1, FactorGrows
  <2>4. p * (amount * f) = amount * (f * p) /\ p * borrow = borrow * p
    OBVIOUS
  <2>5. borrow * p <= amount * d
    BY <2>1, <2>3, <2>4
  <2> QED
    BY <2>1, <2>5
<1> QED
  BY <1>1, <1>2

(* An order below some bucket is below the largest.                        *)
LEMMA BelowTheLargest ==
    ASSUME NEW amount \in Nat, verifyOrderSize(amount)
    PROVE  amount < Max(Buckets) * 10 ^ UsdcDecimals
<1>1. PICK b \in Buckets : amount \div (10 ^ UsdcDecimals) < b
  BY DEF verifyOrderSize
<1>2. Max(Buckets) \in Buckets /\ Max(Buckets) >= b
  BY <1>1, BucketsAssumption DEF Max
<1>3. PICK f \in Nat \ {0} : f = 10 ^ UsdcDecimals
  <2>1. UsdcDecimals \in Decimals /\ UsdcDecimals >= UsdcDecimals
    BY ChecksAssumption DEF Decimals
  <2> QED
    BY <2>1, PowersAssumption
<1>4. PICK m \in Nat : m = Max(Buckets)
  BY <1>2, BucketsAssumption
<1>5. PICK q \in Nat : q = amount \div f
  BY QuotientRoundsDown
<1>6. amount < f * (q + 1) /\ q + 1 <= m
  <2>1. amount < f * ((amount \div f) + 1)
    BY QuotientRoundsDown
  <2>2. q < b /\ b \in Nat /\ b <= m
    BY <1>1, <1>2, <1>3, <1>4, <1>5, BucketsAssumption
  <2> QED
    BY <1>5, <2>1, <2>2
<1>7. f * (q + 1) <= f * m /\ f * (q + 1) \in Nat /\ f * m \in Nat
  BY <1>6, FactorGrows
<1>8. f * m = m * f
  OBVIOUS
<1>9. amount < m * f
  BY <1>6, <1>7, <1>8
<1> QED
  BY <1>3, <1>4, <1>9

-----------------------------------------------------------------------------
(* The programs.                                                           *)

(* The steps that read a deposit, and the checks of what was read.         *)
Reading == {"deposit", "order", "tx"}

Judging == Reading \cup {"sourceToken", "destToken", "amount", "validate", "size"}

(* Steps a and b of program p: a comes before every b, and before its end. *)
Before(p, a, b) ==
    /\ \E j \in 1 .. Len(p) : p[j] = a
    /\ \A k \in 1 .. Len(p) : p[k] = b => \E j \in 1 .. k - 1 : p[j] = a

(* AcrossMessageHandler reads the deposit before it judges it, and judges  *)
(* it before it answers or executes.                                       *)
LEMMA AcrossProgram ==
    /\ Len(AcrossSteps) = 10
    /\ \A j, k \in 1 .. 10 : AcrossSteps[k] \in Reading /\ j < k =>
         AcrossSteps[j] \notin Judging
    /\ \A a \in {"deposit", "sourceToken", "destToken", "amount"} :
         Before(AcrossSteps, a, "answer")
BY DEF AcrossSteps, Reading, Judging, Before

(* So does LifiEscrowMessageHandler with the order.                        *)
LEMMA LifiProgram ==
    /\ Len(LifiSteps) = 13
    /\ \A j, k \in 1 .. 13 : LifiSteps[k] \in Reading /\ j < k =>
         LifiSteps[j] \notin Judging
    /\ \A a \in {"order", "sourceToken", "destToken", "amount"} :
         Before(LifiSteps, a, "answer")
BY DEF LifiSteps, Reading, Judging, Before

(* So does LighterMessageHandler with the transfer.                        *)
LEMMA LighterProgram ==
    /\ Len(LighterSteps) = 7
    /\ \A j, k \in 1 .. 7 : LighterSteps[k] \in Reading /\ j < k =>
         LighterSteps[j] \notin Judging
    /\ \A a \in {"tx", "validate", "size"} : Before(LighterSteps, a, "answer")
BY DEF LighterSteps, Reading, Judging, Before

(* SprinterCreditMessageHandler reads none, and finds the liquidator.      *)
LEMMA SprinterProgram ==
    /\ Len(SprinterSteps) = 5
    /\ \A k \in 1 .. 5 : SprinterSteps[k] \notin Judging
    /\ Before(SprinterSteps, "liquidator", "answer")
BY DEF SprinterSteps, Reading, Judging, Before

(* LifiUnlockHandler has nothing to judge.                                 *)
LEMMA UnlockProgram ==
    /\ Len(UnlockSteps) = 3
    /\ \A k \in 1 .. 3 : UnlockSteps[k] \notin Judging
BY DEF UnlockSteps, Reading, Judging

(* The same for the program of the request, whatever its protocol.         *)
LEMMA Programs ==
    ASSUME request.protocol \in Protocols
    PROVE  /\ Len(Program) \in Nat
           /\ \A j, k \in 1 .. Len(Program) : Program[k] \in Reading /\ j < k =>
                Program[j] \notin Judging
           /\ request.protocol = "across" =>
                \A a \in {"deposit", "sourceToken", "destToken", "amount"} :
                  Before(Program, a, "answer")
           /\ request.protocol = "lifi" =>
                \A a \in {"order", "sourceToken", "destToken", "amount"} :
                  Before(Program, a, "answer")
           /\ request.protocol = "lighter" =>
                \A a \in {"tx", "validate", "size"} : Before(Program, a, "answer")
           /\ request.protocol = "sprinter" =>
                Before(Program, "liquidator", "answer")
<1>1. CASE request.protocol = "across"
  <2>1. Program = AcrossSteps
    BY <1>1 DEF Program
  <2> QED
    BY <1>1, <2>1, AcrossProgram
<1>2. CASE request.protocol = "lifi"
  <2>1. Program = LifiSteps
    BY <1>2 DEF Program
  <2> QED
    BY <1>2, <2>1, LifiProgram
<1>3. CASE request.protocol = "lighter"
  <2>1. Program = LighterSteps
    BY <1>3 DEF Program
  <2> QED
    BY <1>3, <2>1, LighterProgram
<1>4. CASE request.protocol = "sprinter"
  <2>1. Program = SprinterSteps
    BY <1>4 DEF Program
  <2>2. \A k \in 1 .. 5 : SprinterSteps[k] \notin Reading
    BY SprinterProgram DEF Judging
  <2> QED
    BY <1>4, <2>1, <2>2, SprinterProgram
<1>5. CASE request.protocol = "unlock"
  <2>1. Program = UnlockSteps
    BY <1>5 DEF Program
  <2>2. \A k \in 1 .. 3 : UnlockSteps[k] \notin Reading
    BY UnlockProgram DEF Judging
  <2> QED
    BY <1>5, <2>1, <2>2, UnlockProgram
<1> QED
  BY <1>1, <1>2, <1>3, <1>4, <1>5 DEF Protocols

-----------------------------------------------------------------------------
(* The invariant.                                                          *)

(* What a step that is done has established, for good: the deposit is not  *)
(* read again, and a reorganisation is remembered.                         *)
Established(check) ==
    /\ check \in Reading => deposit \in Log
    /\ check \in {"deposit", "order"} =>
         /\ moved \/ \E i \in DOMAIN receipt : receipt[i] = deposit
         /\ Matches(deposit)
    /\ check = "sourceToken" => ConfigByAddress(request.chain, deposit.token)
    /\ check = "destToken" => borrowToken
    /\ check = "amount" => amountCovered
    /\ check = "validate" => deposit.valid
    /\ check = "size" => verifyOrderSize(deposit.amount)
    /\ check = "liquidator" => request.token \in Liquidators[request.chain]

EstablishedInv == \A k \in 1 .. step : Established(Program[k])

(* The handler has come past its answer.                                   *)
Answered == \E k \in 1 .. step : Program[k] = "answer"

(* Answers on their way and given are true.                                *)
AnswerInv ==
    /\ errChn = << "accepted" >> => Answered
    /\ errChn = << "rejected" >> => state = "failed"
    /\ http = "accepted" => Answered \/ request.protocol = "unlock"
    /\ http = "rejected" => state = "failed"
    /\ state = "executed" => step = Len(Program)

(* The inductive invariant of a request's way through a relayer            *)
(* (HandleSigning, HandleMessage).                                         *)
ChecksInv ==
    /\ TypeOK
    /\ EstablishedInv
    /\ AnswerInv

(* The request has one of the protocols, and the deposit's transaction is  *)
(* a sequence of logs.                                                     *)
LEMMA Typed ==
    ASSUME TypeOK
    PROVE  /\ request \in Request /\ request.protocol \in Protocols
           /\ request.chain \in Chains /\ request.borrow \in Nat
           /\ receipt \in Seq(Log)
           /\ step \in Nat /\ step <= Len(Program) /\ Len(Program) \in Nat
<1>1. request \in Request /\ receipt \in Seq(Log)
  BY ChecksAssumption DEF TypeOK
<1>2. request.protocol \in Protocols /\ request.chain \in Chains
      /\ request.borrow \in Nat
  BY <1>1 DEF Request
<1>3. Len(Program) \in Nat
  BY <1>2, Programs
<1> QED
  BY <1>1, <1>2, <1>3 DEF TypeOK

(* When the answer is given or the program at its end, the hash is paid    *)
(* for; for Across the log that was read covers it, whoever emitted it.    *)
LEMMA Paid ==
    ASSUME ChecksInv, Answered \/ step = Len(Program)
    PROVE  PaidFor \/ (Covered /\ EmitterUnchecked)
<1>1. /\ TypeOK /\ EstablishedInv
      /\ request.protocol \in Protocols /\ request.chain \in Chains
      /\ request.borrow \in Nat /\ step \in Nat /\ step <= Len(Program)
      /\ Len(Program) \in Nat
  BY Typed DEF ChecksInv
<1>2. ASSUME NEW a, Before(Program, a, "answer")
      PROVE  Established(a)
  <2>1. \E k \in 1 .. step : Program[k] = a
    <3>1. CASE step = Len(Program)
      BY <1>1, <1>2, <3>1 DEF Before
    <3>2. CASE Answered
      <4>1. PICK k \in 1 .. step : Program[k] = "answer"
        BY <3>2 DEF Answered
      <4>2. k \in 1 .. Len(Program)
        BY <1>1
      <4>3. PICK j \in 1 .. k - 1 : Program[j] = a
        BY <1>2, <4>1, <4>2 DEF Before
      <4>4. j \in 1 .. step
        BY <1>1
      <4> QED
        BY <4>3, <4>4
    <3> QED
      BY <3>1, <3>2
  <2> QED
    BY <1>1, <2>1 DEF EstablishedInv
<1>3. ASSUME request.protocol \in {"across", "lifi"}, deposit \in Log,
             Established("sourceToken"), Established("destToken"),
             Established("amount")
      PROVE  /\ deposit.token \in DOMAIN TokenStore[request.chain]
             /\ deposit.token \in DOMAIN TokenStore[deposit.dest]
             /\ request.borrow * 10 ^ TokenStore[request.chain][deposit.token]
                  <= deposit.amount * 10 ^ TokenStore[deposit.dest][deposit.token]
  <2>1. deposit.dest \in Chains /\ deposit.amount \in Nat
    BY <1>3 DEF Log
  <2>2. /\ deposit.token \in DOMAIN TokenStore[request.chain]
        /\ deposit.token \in DOMAIN TokenStore[deposit.dest]
        /\ amountCovered
    BY <1>3 DEF Established, ConfigByAddress, ConfigBySymbol, borrowToken
  <2>3. PICK src \in Decimals : src = TokenStore[request.chain][deposit.token]
                                /\ src \in Nat
    BY <1>1, <2>2, ChecksAssumption DEF Decimals
  <2>4. PICK dst \in Decimals : dst = TokenStore[deposit.dest][deposit.token]
                                /\ dst \in Nat
    BY <2>1, <2>2, ChecksAssumption DEF Decimals
  <2>5. request.borrow <= ScaleTokenAmount(deposit.amount, src, dst)
    BY <2>2, <2>3, <2>4 DEF amountCovered
  <2>6. request.borrow * 10 ^ src <= deposit.amount * 10 ^ dst
    BY <1>1, <2>1, <2>3, <2>4, <2>5, ScaledIsExact
  <2> QED
    BY <2>2, <2>3, <2>4, <2>6
<1>4. CASE request.protocol = "across"
  <2>1. /\ Established("deposit") /\ Established("sourceToken")
        /\ Established("destToken") /\ Established("amount")
    BY <1>1, <1>2, <1>4, Programs
  <2>2. /\ deposit \in Log
        /\ moved \/ \E i \in DOMAIN receipt : receipt[i] = deposit
        /\ Matches(deposit)
    BY <2>1 DEF Established, Reading
  <2>3. /\ UnlockHash.chain = deposit.dest
        /\ UnlockHash.token = deposit.token \/ UnlockHash.token = deposit.output
        /\ UnlockHash.amount = request.borrow
    BY <1>4 DEF UnlockHash, BorrowUnlockHash
  <2>4. /\ deposit.token \in DOMAIN TokenStore[request.chain]
        /\ deposit.token \in DOMAIN TokenStore[deposit.dest]
        /\ request.borrow * 10 ^ TokenStore[request.chain][deposit.token]
             <= deposit.amount * 10 ^ TokenStore[deposit.dest][deposit.token]
    BY <1>3, <1>4, <2>1, <2>2
  <2> QED
    BY <1>4, <2>2, <2>3, <2>4 DEF PaidFor, Covered, EmitterUnchecked, Matches
<1>5. CASE request.protocol = "lifi"
  <2>1. /\ Established("order") /\ Established("sourceToken")
        /\ Established("destToken") /\ Established("amount")
    BY <1>1, <1>2, <1>5, Programs
  <2>2. /\ deposit \in Log
        /\ moved \/ \E i \in DOMAIN receipt : receipt[i] = deposit
        /\ Matches(deposit)
    BY <2>1 DEF Established, Reading
  <2>3. /\ UnlockHash.chain = deposit.dest /\ UnlockHash.token = deposit.token
        /\ UnlockHash.amount = request.borrow
    BY <1>5 DEF UnlockHash, BorrowUnlockHash
  <2>4. /\ deposit.token \in DOMAIN TokenStore[request.chain]
        /\ deposit.token \in DOMAIN TokenStore[deposit.dest]
        /\ request.borrow * 10 ^ TokenStore[request.chain][deposit.token]
             <= deposit.amount * 10 ^ TokenStore[deposit.dest][deposit.token]
    BY <1>3, <1>5, <2>1, <2>2
  <2> QED
    BY <1>5, <2>2, <2>3, <2>4 DEF PaidFor, Covered, Matches
<1>6. CASE request.protocol = "lighter"
  <2>1. Established("tx") /\ Established("validate") /\ Established("size")
    BY <1>1, <1>2, <1>6, Programs
  <2>2. deposit.amount \in Nat /\ deposit.valid /\ verifyOrderSize(deposit.amount)
    BY <2>1 DEF Established, Reading, Log
  <2>3. UnlockHash.amount = deposit.amount
    BY <1>6 DEF UnlockHash, BorrowUnlockHash
  <2>4. deposit.amount < Max(Buckets) * 10 ^ UsdcDecimals
    BY <2>2, BelowTheLargest
  <2> QED
    BY <1>6, <2>2, <2>3, <2>4 DEF PaidFor, Covered
<1>7. CASE request.protocol = "sprinter"
  <2>1. Established("liquidator")
    BY <1>1, <1>2, <1>7, Programs
  <2>2. UnlockHash.token = request.token
    BY <1>7 DEF UnlockHash, BorrowUnlockHash
  <2> QED
    BY <1>7, <2>1, <2>2 DEF PaidFor, Covered, Established
<1>8. CASE request.protocol = "unlock"
  BY <1>8 DEF PaidFor, Covered
<1> QED
  BY <1>1, <1>4, <1>5, <1>6, <1>7, <1>8 DEF Protocols

(* A non-empty set of natural numbers has a least element, and Min returns *)
(* it.                                                                     *)
LEMMA MinOfNaturals ==
    ASSUME NEW S \in SUBSET Nat, S # {}
    PROVE  Min(S) \in S
<1>1. PICK x \in S : \A y \in S : ~(<< y, x >> \in OpToRel(<, Nat))
  BY NatLessThanWellFounded, WFMin, Zenon
<1>2. ASSUME NEW y \in S PROVE x <= y
  <2>1. x \in Nat /\ y \in Nat
    OBVIOUS
  <2>2. ASSUME y < x PROVE << y, x >> \in OpToRel(<, Nat)
    BY <2>1, <2>2, Zenon DEF OpToRel
  <2>3. ~(y < x)
    BY <1>1, <2>2, Zenon
  <2> QED
    BY <2>1, <2>3
<1> QED
  BY <1>2 DEF Min

(* What is fetched is a log of the transaction, and for Across and LiFi    *)
(* one that was asked for.                                                 *)
LEMMA FetchedIsALog ==
    ASSUME TypeOK, Running, Current \in Reading, Passes(Current)
    PROVE  /\ Fetched \in Log
           /\ Current # "tx" => /\ \E i \in DOMAIN receipt : receipt[i] = Fetched
                                /\ Matches(Fetched)
<1>1. request.protocol \in Protocols /\ receipt \in Seq(Log) /\ step \in Nat
      /\ Len(Program) \in Nat
  BY Typed
<1>2. step + 1 \in 1 .. Len(Program)
  BY <1>1 DEF Running
<1>3. Matching \in SUBSET Nat /\ Matching \subseteq DOMAIN receipt
  BY <1>1 DEF Matching
<1>4. ASSUME Matching # {}
      PROVE  /\ receipt[Min(Matching)] \in Log
             /\ \E i \in DOMAIN receipt : receipt[i] = receipt[Min(Matching)]
             /\ Matches(receipt[Min(Matching)])
  <2>1. PICK m \in Matching : m = Min(Matching)
    BY <1>3, <1>4, MinOfNaturals
  <2>2. m \in DOMAIN receipt
    BY <1>3
  <2>3. receipt[m] \in Log /\ Matches(receipt[m])
    BY <1>1, <2>2 DEF Matching
  <2> QED
    BY <2>1, <2>2, <2>3
<1>5. CASE request.protocol = "lighter"
  <2>1. Program = LighterSteps
    BY <1>5 DEF Program
  <2>2. Current = "tx"
    <3>1. \A k \in 1 .. 7 : LighterSteps[k] \in Reading => LighterSteps[k] = "tx"
      BY DEF LighterSteps, Reading
    <3> QED
      BY <1>2, <2>1, <3>1, LighterProgram DEF Current
  <2>3. receipt # << >>
    BY <2>2 DEF Passes, GetTx
  <2>4. receipt[1] \in Log
    BY <1>1, <2>3
  <2> QED
    BY <1>5, <2>2, <2>4 DEF Fetched
<1>6. CASE request.protocol = "across"
  <2>1. Program = AcrossSteps
    BY <1>6 DEF Program
  <2>2. Current = "deposit"
    <3>1. \A k \in 1 .. 10 : AcrossSteps[k] \in Reading => AcrossSteps[k] = "deposit"
      BY DEF AcrossSteps, Reading
    <3> QED
      BY <1>2, <2>1, <3>1, AcrossProgram DEF Current
  <2>3. Matching # {}
    BY <2>2 DEF Passes
  <2> QED
    BY <1>4, <1>6, <2>3 DEF Fetched
<1>7. CASE request.protocol = "lifi"
  <2>1. Program = LifiSteps
    BY <1>7 DEF Program
  <2>2. Current = "order"
    <3>1. \A k \in 1 .. 13 : LifiSteps[k] \in Reading => LifiSteps[k] = "order"
      BY DEF LifiSteps, Reading
    <3> QED
      BY <1>2, <2>1, <3>1, LifiProgram DEF Current
  <2>3. Matching # {}
    BY <2>2 DEF Passes
  <2> QED
    BY <1>4, <1>7, <2>3 DEF Fetched
<1>8. CASE request.protocol \in {"sprinter", "unlock"}
  <2>1. CASE request.protocol = "sprinter"
    <3>1. Program = SprinterSteps
      BY <2>1 DEF Program
    <3> QED
      BY <1>2, <3>1, SprinterProgram DEF Current, Judging
  <2>2. CASE request.protocol = "unlock"
    <3>1. Program = UnlockSteps
      BY <2>2 DEF Program
    <3> QED
      BY <1>2, <3>1, UnlockProgram DEF Current, Judging
  <2> QED
    BY <1>8, <2>1, <2>2
<1> QED
  BY <1>1, <1>5, <1>6, <1>7, <1>8 DEF Protocols

(* What is established stays so while the deposit is the same, also when   *)
(* its transaction moves.                                                  *)
LEMMA EstablishedStays ==
    ASSUME UNCHANGED << request, deposit >>,
           UNCHANGED << receipt, moved >> \/ moved',
           NEW check, Established(check)
    PROVE  Established(check)'
BY DEF Established, ConfigByAddress, ConfigBySymbol, borrowToken, amountCovered,
   ScaleTokenAmount, verifyOrderSize, Matches, Reading

(* A check that is passed is established.                                  *)
LEMMA PassedIsEstablished ==
    ASSUME TypeOK, Running, NEW check, check = Current, Passes(check),
           check \notin Reading
    PROVE  Established(check)
<1>1. CASE check = "sourceToken"
  BY <1>1 DEF Passes, Established, Reading
<1>2. CASE check = "destToken"
  BY <1>2 DEF Passes, Established, Reading
<1>3. CASE check = "amount"
  BY <1>3 DEF Passes, Established, Reading
<1>4. CASE check = "validate"
  BY <1>4 DEF Passes, Established, Reading
<1>5. CASE check = "size"
  BY <1>5 DEF Passes, Established, Reading
<1>6. CASE check = "liquidator"
  BY <1>6 DEF Passes, Established, Reading
<1>7. CASE check \notin {"sourceToken", "destToken", "amount", "validate", "size",
                         "liquidator"}
  BY <1>7 DEF Established, Reading
<1> QED
  BY <1>1, <1>2, <1>3, <1>4, <1>5, <1>6, <1>7

-----------------------------------------------------------------------------
(* The steps.                                                              *)

(* Initially nothing is checked and nobody answered.                       *)
LEMMA InitChecks == Init => ChecksInv
<1> SUFFICES ASSUME Init PROVE ChecksInv
  OBVIOUS
<1>1. /\ request \in Requests /\ receipt \in Receipts /\ deposit = << >>
      /\ moved = FALSE /\ step = 0 /\ attempt = 0 /\ errChn = << >>
      /\ state \in {"posted", "running"} /\ http \in {"waiting", "none"}
  BY DEF Init
<1>2. request.protocol \in Protocols
  BY <1>1, ChecksAssumption DEF Request
<1>3. Len(Program) \in Nat
  BY <1>2, Programs
<1>4. TypeOK
  <2>1. moved \in BOOLEAN /\ deposit \in Log \cup {<< >>}
    BY <1>1
  <2>2. step \in 0 .. Len(Program) /\ attempt \in 0 .. Retries - 1
    BY <1>1, <1>3, ChecksAssumption
  <2>3. errChn \in {<< >>} \cup { << a >> : a \in {"accepted", "rejected"} }
    BY <1>1
  <2> QED
    BY <1>1, <2>1, <2>2, <2>3 DEF TypeOK
<1>5. EstablishedInv
  BY <1>1 DEF EstablishedInv
<1>6. AnswerInv
  <2>1. << "accepted" >> # << >> /\ << "rejected" >> # << >>
    OBVIOUS
  <2> QED
    BY <1>1, <2>1 DEF AnswerInv
<1> QED
  BY <1>4, <1>5, <1>6 DEF ChecksInv

(* A step that leaves the program where it is keeps what it established.   *)
LEMMA NothingRead ==
    ASSUME ChecksInv, UNCHANGED << request, deposit, step >>,
           UNCHANGED << receipt, moved >> \/ moved'
    PROVE  EstablishedInv' /\ Program' = Program /\ (Answered => Answered')
<1>1. Program' = Program
  BY DEF Program
<1>2. ASSUME NEW k \in 1 .. step PROVE Established(Program[k])'
  <2>1. PICK c : c = Program[k]
    OBVIOUS
  <2>2. Established(c)
    BY <2>1 DEF ChecksInv, EstablishedInv
  <2>3. Established(c)'
    BY <2>2, EstablishedStays
  <2>4. c = Program'[k]
    BY <1>1, <2>1
  <2> QED
    BY <2>3, <2>4
<1>3. EstablishedInv'
  BY <1>2 DEF EstablishedInv
<1> QED
  BY <1>1, <1>3 DEF Answered

(* A step of the program that is passed.                                   *)
LEMMA PassPreserves ==
    ASSUME ChecksInv, Pass
    PROVE  ChecksInv'
<1>1. /\ TypeOK /\ EstablishedInv /\ AnswerInv
      /\ step \in Nat /\ step <= Len(Program) /\ Len(Program) \in Nat
      /\ request.protocol \in Protocols
  BY Typed DEF ChecksInv
<1>2. /\ Running /\ Passes(Current) /\ step' = step + 1 /\ state = "running"
      /\ step < Len(Program)
      /\ deposit' = IF Current \in Reading THEN Fetched ELSE deposit
      /\ UNCHANGED << request, receipt, moved, attempt, state, errChn, http >>
  BY DEF Pass, Running, Reading
<1>3. Program' = Program
  BY <1>2 DEF Program
<1>4. /\ Current \in Reading => deposit' \in Log
      /\ Current \in {"deposit", "order"} =>
           Matches(deposit') /\ \E i \in DOMAIN receipt : receipt[i] = deposit'
  BY <1>1, <1>2, FetchedIsALog DEF Reading
<1>5. TypeOK'
  <2>1. deposit' \in Log \cup {<< >>}
    BY <1>1, <1>2, <1>4 DEF TypeOK
  <2>2. step' \in 0 .. Len(Program')
    BY <1>1, <1>2, <1>3
  <2> QED
    BY <1>1, <1>2, <2>1, <2>2 DEF TypeOK
<1>6. ASSUME NEW k \in 1 .. step' PROVE Established(Program[k])'
  <2>1. CASE k = step + 1
    <3>1. Program[k] = Current
      BY <2>1 DEF Current
    <3>2. CASE Current \in Reading
      <4>1. Matches(deposit') => Matches(deposit)'
        BY <1>2 DEF Matches
      <4>2. ASSUME NEW c, c \in Reading, deposit' \in Log,
                   c # "tx" => /\ Matches(deposit)'
                               /\ \E i \in DOMAIN receipt' : receipt'[i] = deposit'
            PROVE  Established(c)'
        BY <4>2 DEF Established, Reading
      <4>3. Current # "tx" => /\ Matches(deposit)'
                              /\ \E i \in DOMAIN receipt' : receipt'[i] = deposit'
        BY <1>2, <1>4, <3>2, <4>1 DEF Reading
      <4>4. PICK c : c = Current
        OBVIOUS
      <4>5. Established(c)'
        BY <1>4, <3>2, <4>2, <4>3, <4>4
      <4>6. c = Program'[k]
        BY <1>3, <3>1, <4>4
      <4> QED
        BY <4>5, <4>6
    <3>3. CASE Current \notin Reading
      <4>1. PICK c : c = Current
        OBVIOUS
      <4>2. Established(c)
        BY <1>1, <1>2, <3>3, <4>1, PassedIsEstablished
      <4>3. Established(c)'
        BY <1>2, <3>3, <4>2, EstablishedStays
      <4>4. c = Program'[k]
        BY <1>3, <3>1, <4>1
      <4> QED
        BY <4>3, <4>4
    <3> QED
      BY <3>2, <3>3
  <2>2. CASE k \in 1 .. step
    <3>1. PICK c : c = Program[k]
      OBVIOUS
    <3>2. Established(c)
      BY <1>1, <2>2, <3>1 DEF EstablishedInv
    <3>3. c = Program'[k]
      BY <1>3, <3>1
    <3>4. CASE Current \notin Reading
      <4>1. Established(c)'
        BY <1>2, <3>2, <3>4, EstablishedStays
      <4> QED
        BY <3>3, <4>1
    <3>5. CASE Current \in Reading
      <4>1. k \in 1 .. Len(Program) /\ step + 1 \in 1 .. Len(Program) /\ k < step + 1
        BY <1>1, <1>2, <2>2
      <4>2. c \notin Judging
        BY <1>1, <3>1, <3>5, <4>1, Programs DEF Current
      <4>3. Established(c)'
        BY <1>2, <3>2, <4>2 DEF Established, Judging, Reading
      <4> QED
        BY <3>3, <4>3
    <3> QED
      BY <3>4, <3>5
  <2> QED
    BY <1>1, <1>2, <2>1, <2>2
<1>7. EstablishedInv'
  BY <1>6 DEF EstablishedInv
<1>8. Answered => Answered'
  BY <1>1, <1>2, <1>3 DEF Answered
<1>9. AnswerInv'
  BY <1>1, <1>2, <1>3, <1>8 DEF AnswerInv
<1> QED
  BY <1>5, <1>7, <1>9 DEF ChecksInv

(* The buffer is empty or holds one answer.                                *)
LEMMA BufferContents ==
    ASSUME TypeOK
    PROVE  /\ errChn \in {<< >>, << "accepted" >>, << "rejected" >>}
           /\ CanSend => errChn = << >>
<1>1. errChn \in {<< >>, << "accepted" >>, << "rejected" >>}
  BY DEF TypeOK
<1>2. Len(<< "accepted" >>) = 1 /\ Len(<< "rejected" >>) = 1
  OBVIOUS
<1> QED
  BY <1>1, <1>2 DEF CanSend, Buffer

(* The answer is sent: everything before it is established.                *)
LEMMA AnswerPreserves ==
    ASSUME ChecksInv, Answer
    PROVE  ChecksInv'
<1>1. /\ TypeOK /\ EstablishedInv /\ AnswerInv
      /\ step \in Nat /\ step <= Len(Program) /\ Len(Program) \in Nat
  BY Typed DEF ChecksInv
<1>2. /\ state = "running" /\ step < Len(Program) /\ Program[step + 1] = "answer"
      /\ UNCHANGED << request, receipt, deposit, moved, attempt, http >>
  BY DEF Answer, Running, Current
<1>3. Program' = Program
  BY <1>2 DEF Program
<1>4. CASE ~CanSend
  <2>1. state' = "blocked" /\ UNCHANGED << errChn, step >>
    BY <1>4 DEF Answer
  <2>2. EstablishedInv' /\ (Answered => Answered')
    BY <1>2, <2>1, NothingRead
  <2>3. TypeOK'
    BY <1>1, <1>2, <1>3, <2>1 DEF TypeOK
  <2>4. AnswerInv'
    BY <1>1, <1>2, <1>3, <2>1, <2>2 DEF AnswerInv
  <2> QED
    BY <2>2, <2>3, <2>4 DEF ChecksInv
<1>5. CASE CanSend
  <2>1. errChn' = Append(errChn, "accepted") /\ step' = step + 1 /\ state' = state
    BY <1>5 DEF Answer
  <2>2. errChn' = << "accepted" >>
    <3>1. errChn = << >>
      BY <1>1, <1>5, BufferContents
    <3> QED
      BY <2>1, <3>1
  <2>3. TypeOK'
    <3>1. step' \in 0 .. Len(Program')
      BY <1>1, <1>2, <1>3, <2>1
    <3> QED
      BY <1>1, <1>2, <2>1, <2>2, <3>1 DEF TypeOK
  <2>4. ASSUME NEW k \in 1 .. step' PROVE Established(Program[k])'
    <3>1. PICK c : c = Program[k]
      OBVIOUS
    <3>2. Established(c)
      <4>1. CASE k \in 1 .. step
        BY <1>1, <3>1, <4>1 DEF EstablishedInv
      <4>2. CASE k = step + 1
        BY <1>2, <3>1, <4>2 DEF Established, Reading
      <4> QED
        BY <1>1, <2>1, <4>1, <4>2
    <3>3. Established(c)'
      BY <1>2, <3>2, EstablishedStays
    <3>4. c = Program'[k]
      BY <1>3, <3>1
    <3> QED
      BY <3>3, <3>4
  <2>5. EstablishedInv'
    BY <2>4 DEF EstablishedInv
  <2>6. Answered'
    <3>1. step + 1 \in 1 .. step' /\ Program'[step + 1] = "answer"
      BY <1>1, <1>2, <1>3, <2>1
    <3> QED
      BY <3>1 DEF Answered
  <2>7. AnswerInv'
    <3>1. << "accepted" >> # << "rejected" >>
      OBVIOUS
    <3> QED
      BY <1>1, <1>2, <2>1, <2>2, <2>6, <3>1 DEF AnswerInv
  <2> QED
    BY <2>3, <2>5, <2>7 DEF ChecksInv
<1> QED
  BY <1>4, <1>5

(* A step fails: the error is reported, or waits for the buffer.           *)
LEMMA FailPreserves ==
    ASSUME ChecksInv, Fail
    PROVE  ChecksInv'
<1>1. TypeOK /\ AnswerInv
  BY DEF ChecksInv
<1>2. /\ state = "running"
      /\ UNCHANGED << request, receipt, deposit, moved, step, attempt, http >>
  BY DEF Fail, Running
<1>3. EstablishedInv' /\ Program' = Program /\ (Answered => Answered')
  BY <1>2, NothingRead
<1>4. \/ state' = "failed" /\ errChn' = << "rejected" >>
      \/ state' \in {"blocked", "failed"} /\ errChn' = errChn
  <2>1. CASE Reports /\ CanSend
    <3>1. errChn = << >>
      BY <1>1, <2>1, BufferContents
    <3>2. state' = "failed" /\ errChn' = Append(errChn, "rejected")
      BY <2>1 DEF Fail
    <3> QED
      BY <3>1, <3>2
  <2>2. CASE ~(Reports /\ CanSend)
    BY <2>2 DEF Fail
  <2> QED
    BY <2>1, <2>2
<1>5. TypeOK'
  <2>1. errChn' \in {<< >>} \cup { << a >> : a \in {"accepted", "rejected"} }
    BY <1>1, <1>4 DEF TypeOK
  <2>2. state' \in {"posted", "queued", "running", "blocked"} \cup Final
    BY <1>4 DEF Final
  <2> QED
    BY <1>1, <1>2, <1>3, <2>1, <2>2 DEF TypeOK
<1>6. AnswerInv'
  <2>1. << "accepted" >> # << "rejected" >>
    OBVIOUS
  <2>2. state' # "executed"
    BY <1>4
  <2>3. http' # "rejected"
    BY <1>1, <1>2 DEF AnswerInv
  <2>4. http' = "accepted" => Answered' \/ request'.protocol = "unlock"
    BY <1>1, <1>2, <1>3 DEF AnswerInv
  <2>5. errChn # << "rejected" >>
    BY <1>1, <1>2 DEF AnswerInv
  <2>6. errChn' = << "accepted" >> => Answered'
    BY <1>1, <1>3, <1>4, <2>1 DEF AnswerInv
  <2>7. errChn' = << "rejected" >> => state' = "failed"
    BY <1>4, <2>5
  <2> QED
    BY <2>2, <2>3, <2>4, <2>6, <2>7 DEF AnswerInv
<1> QED
  BY <1>3, <1>5, <1>6 DEF ChecksInv

(* The HTTP call takes an answer, and a send that waited goes through.     *)
LEMMA TakeAnswerPreserves ==
    ASSUME ChecksInv, TakeAnswer
    PROVE  ChecksInv'
<1>1. TypeOK /\ AnswerInv
  BY DEF ChecksInv
<1>2. /\ errChn # << >> /\ http' = Head(errChn)
      /\ errChn' = Tail(errChn) \o
           (IF state = "blocked" THEN << "rejected" >> ELSE << >>)
      /\ state' = IF state = "blocked" THEN "failed" ELSE state
      /\ UNCHANGED << request, receipt, deposit, moved, step, attempt >>
  BY DEF TakeAnswer
<1>3. EstablishedInv' /\ Program' = Program /\ (Answered => Answered')
  BY <1>2, NothingRead
<1>4. PICK a \in {"accepted", "rejected"} : errChn = << a >>
  BY <1>1, <1>2 DEF TypeOK
<1>5. /\ http' = a
      /\ errChn' = IF state = "blocked" THEN << "rejected" >> ELSE << >>
  <2>1. Head(<< a >>) = a /\ Tail(<< a >>) = << >>
    OBVIOUS
  <2>2. << >> \o << "rejected" >> = << "rejected" >> /\ << >> \o << >> = << >>
    OBVIOUS
  <2> QED
    BY <1>2, <1>4, <2>1, <2>2
<1>6. /\ a = "accepted" => Answered
      /\ a = "rejected" => state = "failed"
  BY <1>1, <1>4 DEF AnswerInv
<1>7. TypeOK'
  <2>1. errChn' \in {<< >>} \cup { << b >> : b \in {"accepted", "rejected"} }
    BY <1>5
  <2>2. state' \in {"posted", "queued", "running", "blocked"} \cup Final
    BY <1>1, <1>2 DEF TypeOK, Final
  <2> QED
    BY <1>1, <1>2, <1>3, <1>5, <2>1, <2>2 DEF TypeOK
<1>8. AnswerInv'
  <2>1. << "accepted" >> # << "rejected" >> /\ << >> # << "rejected" >>
        /\ << >> # << "accepted" >>
    OBVIOUS
  <2>2. state' = "executed" => step' = Len(Program')
    BY <1>1, <1>2, <1>3 DEF AnswerInv
  <2> QED
    BY <1>2, <1>3, <1>5, <1>6, <2>1, <2>2 DEF AnswerInv
<1> QED
  BY <1>3, <1>7, <1>8 DEF ChecksInv

(* The steps that touch neither the checks nor the buffer.                 *)
LEMMA OtherStepsPreserve ==
    ASSUME ChecksInv,
           \/ HandleSigning \/ ReceiveMessage \/ RetryGetTx \/ Panic
           \/ Execute \/ UnlockReply \/ Reorg \/ UNCHANGED vars
    PROVE  ChecksInv'
<1>1. TypeOK /\ AnswerInv
  BY DEF ChecksInv
<1>2. /\ UNCHANGED << request, deposit, step, errChn >>
      /\ (UNCHANGED << receipt, moved >> \/ moved')
  BY DEF HandleSigning, ReceiveMessage, RetryGetTx, Panic, Execute, UnlockReply, Reorg,
     vars
<1>3. EstablishedInv' /\ Program' = Program /\ (Answered => Answered')
  BY <1>2, NothingRead
<1>4. TypeOK'
  <2>1. receipt' \in Receipts \cup Rewrites /\ moved' \in BOOLEAN
    BY <1>1 DEF TypeOK, HandleSigning, ReceiveMessage, RetryGetTx, Panic, Execute,
       UnlockReply, Reorg, vars
  <2>2. attempt' \in 0 .. Retries - 1
    BY <1>1, ChecksAssumption DEF TypeOK, HandleSigning, ReceiveMessage,
       RetryGetTx, Panic, Execute, UnlockReply, Reorg, vars
  <2>3. state' \in {"posted", "queued", "running", "blocked"} \cup Final
    BY <1>1 DEF TypeOK, HandleSigning, ReceiveMessage, RetryGetTx, Panic, Execute,
       UnlockReply, Reorg, vars, Final
  <2>4. http' \in {"none", "waiting", "refused", "dropped", "timeout",
                   "accepted", "rejected"}
    BY <1>1 DEF TypeOK, HandleSigning, ReceiveMessage, RetryGetTx, Panic, Execute,
       UnlockReply, Reorg, vars
  <2>5. /\ request' \in Requests /\ deposit' \in Log \cup {<< >>}
        /\ step' \in 0 .. Len(Program')
        /\ errChn' \in {<< >>} \cup { << a >> : a \in {"accepted", "rejected"} }
    BY <1>1, <1>2, <1>3 DEF TypeOK
  <2> QED
    BY <2>1, <2>2, <2>3, <2>4, <2>5 DEF TypeOK
<1>5. AnswerInv'
  <2>1. state = "failed" => state' = "failed"
    BY DEF HandleSigning, ReceiveMessage, RetryGetTx, Panic, Execute, UnlockReply,
       Reorg, Running, vars
  <2>2. state' = "executed" => step = Len(Program)
    BY <1>1 DEF AnswerInv, HandleSigning, ReceiveMessage, RetryGetTx, Panic, Execute,
       UnlockReply, Reorg, Running, vars
  <2>3. /\ http' = "accepted" => http = "accepted" \/ request.protocol = "unlock"
        /\ http' = "rejected" => http = "rejected"
    BY DEF HandleSigning, ReceiveMessage, RetryGetTx, Panic, Execute, UnlockReply,
       Reorg, vars
  <2> QED
    BY <1>1, <1>2, <1>3, <2>1, <2>2, <2>3 DEF AnswerInv
<1> QED
  BY <1>3, <1>4, <1>5 DEF ChecksInv

-----------------------------------------------------------------------------
(* The theorems.                                                           *)

(* The invariant holds on the whole way of a request, whatever fails       *)
(* (HandleSigning, HandleMessage).                                         *)
THEOREM ChecksInvariant == Spec => []ChecksInv
<1>1. ChecksInv /\ [Next]_vars => ChecksInv'
  BY PassPreserves, AnswerPreserves, FailPreserves, TakeAnswerPreserves,
     OtherStepsPreserve DEF Next, Call, Handler
<1> QED
  BY InitChecks, <1>1, PTL DEF Spec

(* Whatever is handed to Execute is paid for, in exact units, on every     *)
(* configuration of chains, tokens, decimals and buckets; an Across hash   *)
(* is covered by the log that was read, which need not be one of the pool  *)
(* (HandleMessage, ScaleTokenAmount, fetchDepositByHash, fetchOpenEvent).  *)
THEOREM ExecutedIsPaidFor == Spec => []SignedIsPaidFor
<1>1. ChecksInv => SignedIsPaidFor
  BY Paid DEF ChecksInv, AnswerInv, SignedIsPaidFor
<1> QED
  BY ChecksInvariant, <1>1, PTL

(* 202 is answered only for a request that is paid for, with the same      *)
(* exception, and an error only when nothing is executed (HandleSigning,   *)
(* HandleMessage).                                                         *)
THEOREM AnswersAreTrue == Spec => []StatusIsTrue
<1>1. ChecksInv /\ request.protocol = "unlock" => PaidFor
  BY DEF PaidFor, Covered
<1>2. ChecksInv => StatusIsTrue
  BY <1>1, Paid DEF ChecksInv, AnswerInv, StatusIsTrue
<1> QED
  BY ChecksInvariant, <1>2, PTL

================================================================================
