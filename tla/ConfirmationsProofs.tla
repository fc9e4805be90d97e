------------------------- MODULE ConfirmationsProofs -------------------------
(***************************************************************************)
(* No deposit passes for confirmed too early: for every table of buckets,  *)
(* every order value, every lag and every depth of reorganisation.         *)
(***************************************************************************)
EXTENDS Confirmations, WellFoundedInduction, TLAPS

(* A non-empty set of natural numbers has a minimum, and Min returns it.   *)
LEMMA MinIsLeast ==
    ASSUME NEW S \in SUBSET Nat, S # {}
    PROVE  Min(S) \in S /\ \A y \in S : Min(S) <= y
<1>1. PICK x \in S : \A y \in S : ~(<< y, x >> \in OpToRel(<, Nat))
  BY NatLessThanWellFounded, WFMin, Zenon
<1>2. ASSUME NEW y \in S PROVE x <= y
  <2>1. ~(y < x)
    <3>1. x \in Nat /\ y \in Nat
      OBVIOUS
    <3>2. ASSUME y < x PROVE << y, x >> \in OpToRel(<, Nat)
      BY <3>1, <3>2, Zenon DEF OpToRel
    <3> QED
      BY <1>1, <3>2, Zenon
  <2> QED
    BY <2>1
<1> QED
  BY <1>2 DEF Min

(* Truncation to whole dollars does not move an order to another bucket.   *)
LEMMA TruncationKeepsBucket ==
    ASSUME NEW cents \in Nat, NEW b \in Nat
    PROVE  orderValue(cents) < b <=> cents < b * Cent
<1> DEFINE q == cents \div Cent
           r == cents % Cent
<1>1. Cent \in Nat /\ Cent > 0
  BY BucketsAssumption
<1>2. /\ q \in Nat /\ r \in Nat /\ r < Cent
      /\ cents = Cent * q + r
  BY <1>1
<1> HIDE DEF q, r
<1>3. ASSUME q < b PROVE cents < b * Cent
  <2>1. PICK k \in Nat : b = q + 1 + k
    <3>1. b - q - 1 \in Nat /\ b = q + 1 + (b - q - 1)
      BY <1>2, <1>3
    <3> QED
      BY <3>1
  <2>2. b * Cent = Cent * q + Cent + k * Cent /\ k * Cent >= 0
    BY <1>1, <1>2, <2>1
  <2>3. b * Cent \in Int /\ Cent * q \in Int /\ k * Cent \in Int
    BY <1>1, <1>2, <2>1
  <2> QED
    BY <1>1, <1>2, <2>2, <2>3
<1>4. ASSUME ~(q < b) PROVE ~(cents < b * Cent)
  <2>1. PICK k \in Nat : q = b + k
    <3>1. q - b \in Nat /\ q = b + (q - b)
      BY <1>2, <1>4
    <3> QED
      BY <3>1
  <2>2. Cent * q = b * Cent + k * Cent /\ k * Cent >= 0
    BY <1>1, <2>1
  <2>3. b * Cent \in Int /\ Cent * q \in Int /\ k * Cent \in Int
    BY <1>1, <1>2, <2>1
  <2> QED
    BY <1>2, <2>2, <2>3
<1> QED
  BY <1>3, <1>4 DEF q, orderValue

(* The bucket the sorted search finds is the one of the order's value.     *)
LEMMA BucketIsRight ==
    ASSUME NEW cents \in Nat,
           NEW depth \in minimalConfirmations(orderValue(cents))
    PROVE  \E b \in BucketOf(cents) : depth = BucketDepth[b]
<1> DEFINE larger == { b \in Buckets : orderValue(cents) < b }
<1>1. larger \in SUBSET Nat /\ larger # {} /\ depth = BucketDepth[Min(larger)]
  BY BucketsAssumption DEF minimalConfirmations
<1>2. Min(larger) \in larger /\ \A a \in larger : Min(larger) <= a
  BY <1>1, MinIsLeast
<1>3. \A b \in Buckets : b \in larger <=> cents < b * Cent
  BY BucketsAssumption, TruncationKeepsBucket
<1>4. Min(larger) \in BucketOf(cents)
  BY <1>2, <1>3 DEF BucketOf
<1> QED
  BY <1>1, <1>4

(* What the call knows of the chain: the depth of the receipt's block, the *)
(* transaction may have left it.                                           *)
DepthInv ==
    /\ TypeOK
    /\ mined <= head
    /\ pc \notin {"start", "failed"} =>
         \E b \in BucketOf(value) : required = BucketDepth[b]
    /\ pc = "block" => receipt > 0
    /\ pc = "confirmed" => receipt > 0 /\ head - receipt >= required

(* The invariant in the first states.                                      *)
LEMMA InitDepth == Init => DepthInv
BY BucketsAssumption, ChainAssumption DEF Init, DepthInv, TypeOK, Returned

(* A sleep is a natural number of units, however the product wraps.        *)
LEMMA DurationType ==
    ASSUME TypeOK, NEW n \in Int
    PROVE  duration(n) \in Nat
<1>1. Word \in Nat /\ Word > 0 /\ Blocktime \in Nat /\ required \in Nat
  BY TimeAssumption DEF TypeOK
<1>2. Uint64(n) \in Nat
  BY <1>1 DEF Uint64
<1>3. (required - Uint64(n)) % Word \in Nat
  BY <1>1, <1>2
<1>4. Blocktime * ((required - Uint64(n)) % Word) \in Nat
  BY <1>1, <1>3
<1>5. (Blocktime * ((required - Uint64(n)) % Word)) % Word \in Nat
  BY <1>1, <1>4
<1> QED
  BY <1>5 DEF duration

(* Every step keeps the invariant.                                         *)
LEMMA NextDepth ==
    ASSUME DepthInv, [Next]_vars
    PROVE  DepthInv'
<1> USE DEF DepthInv, TypeOK, Returned
<1>1. CASE WaitForConfirmations
  <2>1. CASE pc' = "failed" /\ UNCHANGED required
    BY <1>1, <2>1 DEF WaitForConfirmations
  <2>2. CASE required' \in minimalConfirmations(orderValue(value)) /\ pc' = "loop"
    <3>1. PICK b \in BucketOf(value) : required' = BucketDepth[b]
      BY <2>2, BucketIsRight
    <3>2. b \in Buckets /\ required' \in Nat
      BY <3>1, BucketsAssumption DEF BucketOf
    <3>3. UNCHANGED << head, mined, elapsed, value, receipt, sleep >>
      BY <1>1 DEF WaitForConfirmations
    <3>4. \E a \in BucketOf(value') : required' = BucketDepth[a]
      BY <3>1, <3>3
    <3> QED
      BY <2>2, <3>2, <3>3, <3>4
  <2> QED
    BY <1>1, <2>1, <2>2 DEF WaitForConfirmations
<1>2. CASE TimedOut
  BY <1>2 DEF TimedOut
<1>3. CASE TransactionReceipt
  <2>1. UNCHANGED << head, mined, elapsed, value, required >> /\ pc = "loop"
    BY <1>3 DEF TransactionReceipt
  <2>2. CASE Sleep(Blocktime) /\ UNCHANGED receipt
    BY <2>1, <2>2, TimeAssumption DEF Sleep
  <2>3. CASE mined > 0 /\ pc' = "block" /\ receipt' = mined /\ UNCHANGED sleep
    BY <2>1, <2>3
  <2> QED
    BY <1>3, <2>2, <2>3 DEF TransactionReceipt
<1>4. CASE LatestBlock
  <2>1. /\ pc = "block"
        /\ UNCHANGED << head, mined, elapsed, value, required, receipt >>
    BY <1>4 DEF LatestBlock
  <2>2. CASE Sleep(Blocktime)
    BY <2>1, <2>2, TimeAssumption DEF Sleep
  <2>3. ASSUME NEW lag \in 0 .. MaxLag,
               (head - lag) - receipt >= required,
               pc' = "confirmed", UNCHANGED sleep
        PROVE  DepthInv'
    BY <2>1, <2>3, ChainAssumption
  <2>4. ASSUME NEW lag \in 0 .. MaxLag, Sleep(duration((head - lag) - receipt))
        PROVE  DepthInv'
    <3>1. (head - lag) - receipt \in Int
      BY ChainAssumption
    <3>2. sleep' \in Nat /\ pc' = "sleep"
      BY <2>4, <3>1, DurationType DEF Sleep
    <3> QED
      BY <2>1, <3>2
  <2> QED
    BY <1>4, <2>2, <2>3, <2>4 DEF LatestBlock
<1>5. CASE Wake
  BY <1>5 DEF Wake
<1>6. CASE NewBlock
  <2>1. /\ head' = head + 1 /\ pc \notin Returned
        /\ UNCHANGED << elapsed, pc, value, required, receipt, sleep >>
    BY <1>6 DEF NewBlock
  <2>2. mined' = mined \/ (mined = 0 /\ mined' = head + 1)
    BY <1>6 DEF NewBlock
  <2>3. CASE mined' = mined
    BY <2>1, <2>3
  <2>4. CASE mined = 0 /\ mined' = head + 1
    BY <2>1, <2>4
  <2> QED
    BY <2>2, <2>3, <2>4
<1>7. CASE Reorg
  <2>1. PICK depth \in 1 .. MaxReorg :
          depth <= head /\ mined' \in {0} \cup (head - depth + 1 .. head + 1)
    BY <1>7 DEF Reorg
  <2>2. mined' \in Nat /\ mined' <= head + 1
    BY <2>1, ChainAssumption
  <2>3. /\ head' = head + 1 /\ pc \notin Returned
        /\ UNCHANGED << elapsed, pc, value, required, receipt, sleep >>
    BY <1>7 DEF Reorg
  <2> QED
    BY <2>2, <2>3
<1>8. CASE Tick
  BY <1>8, TimeAssumption DEF Tick
<1>9. CASE UNCHANGED vars
  BY <1>9 DEF vars
<1> QED
  BY <1>1, <1>2, <1>3, <1>4, <1>5, <1>6, <1>7, <1>8, <1>9 DEF Next, Watcher

(* The wait succeeds only for a transaction under as many blocks as the    *)
(* bucket of its order asks for, unless it has left the block of its       *)
(* receipt, however far nodes lag, whichever calls fail and whatever       *)
(* blocks are replaced (wait, minimalConfirmations).                       *)
THEOREM ConfirmationsAreDeep == Spec => []ConfirmedIsDeep
<1>1. Init => DepthInv
  BY InitDepth
<1>2. DepthInv /\ [Next]_vars => DepthInv'
  BY NextDepth
<1>3. DepthInv => ConfirmedIsDeep
  BY DEF DepthInv, ConfirmedIsDeep
<1> QED
  BY <1>1, <1>2, <1>3, PTL DEF Spec

-----------------------------------------------------------------------------
(* How long the watcher sleeps, with arithmetic that wraps.                *)

(* Products grow with their factors.                                       *)
LEMMA ProductGrows ==
    ASSUME NEW a \in Nat, NEW b \in Int, NEW c \in Int, b <= c
    PROVE  /\ a * b \in Int /\ a * c \in Int /\ a * b <= a * c
           /\ b \in Nat => a * b \in Nat /\ a * c \in Nat
<1>1. PICK k \in Nat : c = b + k
  <2>1. c - b \in Nat /\ c = b + (c - b)
    OBVIOUS
  <2> QED
    BY <2>1
<1>2. a * c = a * b + a * k /\ a * k \in Nat /\ a * b \in Int
  BY <1>1
<1>3. b \in Nat => a * b \in Nat
  OBVIOUS
<1> QED
  BY <1>2, <1>3

(* A remainder is what is left once whole multiples are taken away.        *)
LEMMA RemainderIsUnique ==
    ASSUME NEW w \in Nat \ {0}, NEW q \in Int, NEW r \in Nat, r < w
    PROVE  (w * q + r) % w = r
<1> DEFINE x == w * q + r
           d == x \div w
           m == x % w
<1>1. x \in Int /\ w \in Nat /\ w > 0
  OBVIOUS
<1>2. d \in Int /\ m \in Nat /\ m < w /\ x = w * d + m
  BY <1>1
<1>3. w * d \in Int /\ w * q \in Int /\ x = w * q + r
  BY <1>2
<1> HIDE DEF x, d, m
<1>4. ~(d >= q + 1)
  <2>1. ASSUME d >= q + 1 PROVE FALSE
    <3>1. w * (q + 1) <= w * d
      BY <1>2, <2>1, ProductGrows
    <3>2. w * (q + 1) = w * q + w
      OBVIOUS
    <3> QED
      BY <1>2, <1>3, <3>1, <3>2
  <2> QED
    BY <2>1
<1>5. ~(q >= d + 1)
  <2>1. ASSUME q >= d + 1 PROVE FALSE
    <3>1. w * (d + 1) <= w * q
      BY <1>2, <2>1, ProductGrows
    <3>2. w * (d + 1) = w * d + w
      BY <1>2
    <3> QED
      BY <1>2, <1>3, <3>1, <3>2
  <2> QED
    BY <2>1
<1>6. d = q
  BY <1>2, <1>4, <1>5
<1>7. m = r
  BY <1>2, <1>3, <1>6
<1> QED
  BY <1>7 DEF m, x

(* A remainder is never larger than the number.                            *)
LEMMA RemainderShrinks ==
    ASSUME NEW w \in Nat \ {0}, NEW x \in Nat
    PROVE  x % w \in Nat /\ x % w <= x /\ x % w < w
<1> DEFINE d == x \div w
           m == x % w
<1>1. w \in Nat /\ w > 0
  OBVIOUS
<1>2. d \in Nat /\ m \in Nat /\ m < w /\ x = w * d + m
  BY <1>1
<1> HIDE DEF d, m
<1>3. w * d \in Nat
  BY <1>2
<1>4. m \in Nat /\ m <= x /\ m < w
  BY <1>2, <1>3
<1> QED
  BY <1>4 DEF m

(* While confirmations are missing, the watcher sleeps for what they take  *)
(* at most; if so few are found that the unsigned difference wraps, the    *)
(* signed duration is negative and it does not sleep at all.               *)
LEMMA DurationIsBounded ==
    ASSUME TypeOK, NEW n \in Int, n < required, -n <= MaxLag
    PROVE  /\ duration(n) \in Nat
           /\ duration(n) <= Blocktime * required
<1>1. /\ Word \in Nat \ {0} /\ Blocktime \in Nat \ {0} /\ required \in Nat
      /\ MaxLag \in Nat
  BY TimeAssumption, ChainAssumption DEF TypeOK
<1> DEFINE u == Uint64(n)
           missing == (required - u) % Word
           product == (Blocktime * missing) % Word
<1>2. duration(n) = IF 2 * product >= Word THEN 0 ELSE product
  BY DEF duration
<1>3. /\ u \in Nat
      /\ n >= 0 => u <= n
      /\ n < 0 => u <= -n
  <2>1. CASE n >= 0
    BY <1>1, <2>1, RemainderShrinks DEF Uint64
  <2>2. CASE n < 0
    <3>1. -n \in Nat /\ ~(n >= 0)
      BY <2>2
    <3> QED
      BY <1>1, <2>2, <3>1, RemainderShrinks DEF Uint64
  <2> QED
    BY <2>1, <2>2
<1> HIDE DEF u
<1>4. CASE u <= required
  <2>1. required - u \in Nat
    BY <1>1, <1>3, <1>4
  <2>2. missing \in Nat /\ missing <= required
    BY <1>1, <1>3, <2>1, RemainderShrinks
  <2> HIDE DEF missing
  <2>3. Blocktime * missing \in Nat /\ Blocktime * missing <= Blocktime * required
    BY <1>1, <2>2, ProductGrows
  <2>4. product \in Nat /\ product <= Blocktime * missing
    BY <1>1, <2>3, RemainderShrinks
  <2>5. Blocktime * required \in Nat
    BY <1>1
  <2> HIDE DEF product
  <2> QED
    BY <1>2, <2>3, <2>4, <2>5
<1>5. CASE u > required
  <2>1. PICK k \in Nat : k = u - required
    BY <1>1, <1>3, <1>5
  <2>2. k >= 1 /\ k <= MaxLag
    BY <1>1, <1>3, <1>5, <2>1
  <2>3. /\ Blocktime * k \in Nat /\ 2 * (Blocktime * k) <= Word
        /\ k <= Blocktime * k
    <3>1. Blocktime * k \in Nat /\ Blocktime * MaxLag \in Nat
          /\ Blocktime * k <= Blocktime * MaxLag
      BY <1>1, <2>2, ProductGrows
    <3>2. k * 1 <= k * Blocktime
      BY <1>1, ProductGrows
    <3>3. k * 1 = k /\ k * Blocktime = Blocktime * k
      BY <1>1
    <3> QED
      BY <1>1, <3>1, <3>2, <3>3, LagAssumption
  <2>4. k < Word
    BY <1>1, <2>2, <2>3
  <2>5. missing = Word - k
    <3>1. Word - k \in Nat /\ Word - k < Word
      BY <1>1, <2>2, <2>4
    <3>2. Word * (-1) + (Word - k) = required - u
      BY <1>1, <1>3, <2>1
    <3>3. (Word * (-1) + (Word - k)) % Word = Word - k
      BY <1>1, <3>1, RemainderIsUnique
    <3> QED
      BY <3>2, <3>3
  <2>6. product = Word - Blocktime * k
    <3>1. PICK c \in Nat : c = Blocktime - 1
      BY <1>1
    <3>2. PICK r \in Nat : r = Word - Blocktime * k /\ r < Word
      BY <1>1, <2>2, <2>3
    <3>3. Blocktime * missing = Word * c + r
      <4>1. Blocktime * (Word - k) = Blocktime * Word - Blocktime * k
        BY <1>1
      <4>2. Blocktime * Word = Word * c + Word
        BY <1>1, <3>1
      <4>3. Word * c \in Nat
        BY <1>1
      <4> QED
        BY <1>1, <2>3, <2>5, <3>2, <4>1, <4>2, <4>3
    <3>4. (Word * c + r) % Word = r
      BY <1>1, <3>2, RemainderIsUnique
    <3> HIDE DEF missing
    <3> QED
      BY <3>2, <3>3, <3>4
  <2>7. 2 * product >= Word
    BY <1>1, <2>3, <2>6
  <2>8. Blocktime * required \in Nat
    BY <1>1
  <2> QED
    BY <1>2, <2>7, <2>8
<1> QED
  BY <1>1, <1>3, <1>4, <1>5

(* One block is within the bound, and so is no sleep at all.               *)
LEMMA BoundIsABlock ==
    ASSUME NEW n \in Nat
    PROVE  /\ Blocktime * (IF n = 0 THEN 1 ELSE n) \in Nat
           /\ Blocktime <= Blocktime * (IF n = 0 THEN 1 ELSE n)
           /\ Blocktime * n <= Blocktime * (IF n = 0 THEN 1 ELSE n)
<1>1. Blocktime \in Nat
  BY TimeAssumption
<1>2. PICK b \in Nat : b = (IF n = 0 THEN 1 ELSE n) /\ 1 <= b /\ n <= b
  OBVIOUS
<1>3. /\ Blocktime * b \in Nat
      /\ Blocktime * 1 <= Blocktime * b /\ Blocktime * n <= Blocktime * b
  BY <1>1, <1>2, ProductGrows
<1>4. Blocktime * 1 = Blocktime
  BY <1>1
<1> QED
  BY <1>2, <1>3, <1>4

(* The receipt's block is not after the latest one, nobody sleeps before   *)
(* the required confirmations are known, and no sleep is too long.         *)
SleepInv ==
    /\ DepthInv
    /\ receipt <= head
    /\ pc = "start" => sleep = 0
    /\ SleepIsBounded

(* Initially nobody sleeps.                                                *)
LEMMA InitSleep == Init => SleepInv
<1> SUFFICES ASSUME Init PROVE SleepInv
  OBVIOUS
<1>1. DepthInv
  BY InitDepth
<1>2. required \in Nat /\ sleep = 0 /\ receipt <= head
  BY <1>1 DEF Init, DepthInv, TypeOK
<1>3. SleepIsBounded
  <2>1. Blocktime * (IF required = 0 THEN 1 ELSE required) \in Nat
    BY <1>2, BoundIsABlock
  <2> QED
    BY <1>2, <2>1 DEF SleepIsBounded
<1> QED
  BY <1>1, <1>2, <1>3 DEF SleepInv

(* Every step keeps it.                                                    *)
LEMMA NextSleep ==
    ASSUME SleepInv, [Next]_vars
    PROVE  SleepInv'
<1>1. DepthInv /\ TypeOK /\ receipt <= head /\ (pc = "start" => sleep = 0)
      /\ SleepIsBounded
  BY DEF SleepInv, DepthInv
<1>2. DepthInv' /\ TypeOK'
  BY <1>1, NextDepth DEF DepthInv
<1>3. /\ head \in Nat /\ receipt \in Nat /\ mined \in Nat /\ mined <= head
      /\ sleep \in Nat /\ required \in Nat /\ required' \in Nat
      /\ Blocktime \in Nat
  BY <1>1, <1>2, TimeAssumption DEF DepthInv, TypeOK
<1> DEFINE Bound == Blocktime * (IF required = 0 THEN 1 ELSE required)
<1>4. Bound \in Nat /\ Blocktime <= Bound /\ Blocktime * required <= Bound
  BY <1>3, BoundIsABlock
<1>5. Bound' \in Nat
  BY <1>3, BoundIsABlock
<1>6. sleep <= Bound
  BY <1>1 DEF SleepIsBounded
<1>7. SUFFICES receipt' <= head' /\ (pc' = "start" => sleep' = 0) /\ sleep' <= Bound'
  BY <1>2 DEF SleepInv, SleepIsBounded
<1> HIDE DEF Bound
<1>8. required' = required => Bound' = Bound
  BY DEF Bound
<1>9. CASE WaitForConfirmations
  BY <1>1, <1>3, <1>5, <1>9 DEF WaitForConfirmations
<1>10. CASE TimedOut \/ Wake
  BY <1>1, <1>3, <1>6, <1>8, <1>10 DEF TimedOut, Wake
<1>11. CASE TransactionReceipt
  BY <1>1, <1>3, <1>4, <1>6, <1>8, <1>11 DEF TransactionReceipt, Sleep
<1>12. CASE LatestBlock
  <2>1. /\ pc = "block"
        /\ UNCHANGED << head, mined, elapsed, value, required, receipt >>
    BY <1>12 DEF LatestBlock
  <2>2. CASE Sleep(Blocktime)
    BY <1>1, <1>3, <1>4, <1>8, <2>1, <2>2 DEF Sleep
  <2>3. CASE pc' = "confirmed" /\ UNCHANGED sleep
    BY <1>1, <1>6, <1>8, <2>1, <2>3
  <2>4. ASSUME NEW lag \in 0 .. MaxLag, ~((head - lag) - receipt >= required),
               Sleep(duration((head - lag) - receipt))
        PROVE  sleep' <= Bound /\ pc' = "sleep"
    <3>1. PICK n \in Int : n = (head - lag) - receipt
      BY <1>3, ChainAssumption
    <3>2. n < required /\ -n <= MaxLag
      BY <1>1, <1>3, <2>4, <3>1, ChainAssumption
    <3>3. duration(n) \in Nat /\ duration(n) <= Blocktime * required
      BY <1>1, <3>2, DurationIsBounded
    <3>4. Blocktime * required \in Nat
      BY <1>3
    <3> QED
      BY <1>4, <2>4, <3>1, <3>3, <3>4 DEF Sleep
  <2> QED
    BY <1>1, <1>8, <1>12, <2>1, <2>2, <2>3, <2>4 DEF LatestBlock
<1>13. CASE NewBlock
  BY <1>1, <1>3, <1>6, <1>8, <1>13 DEF NewBlock
<1>14. CASE Reorg
  BY <1>1, <1>3, <1>6, <1>8, <1>14 DEF Reorg
<1>15. CASE Tick
  BY <1>1, <1>3, <1>4, <1>6, <1>8, <1>15 DEF Tick
<1>16. CASE UNCHANGED vars
  BY <1>1, <1>6, <1>8, <1>16 DEF vars
<1> QED
  BY <1>9, <1>10, <1>11, <1>12, <1>13, <1>14, <1>15, <1>16 DEF Next, Watcher

(* No sleep is longer than the required confirmations take, however the    *)
(* unsigned arithmetic wraps when two nodes disagree (wait).               *)
THEOREM SleepsAreShort == Spec => []SleepIsBounded
<1>1. Init => SleepInv
  BY InitSleep
<1>2. SleepInv /\ [Next]_vars => SleepInv'
  BY NextSleep
<1>3. SleepInv => SleepIsBounded
  BY DEF SleepInv
<1> QED
  BY <1>1, <1>2, <1>3, PTL DEF Spec

==============================================================================
