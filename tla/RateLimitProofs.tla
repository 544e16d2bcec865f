--------------------------- MODULE RateLimitProofs ---------------------------
(***************************************************************************)
(* Proofs about RateLimit, for any number of callers, whichever of their   *)
(* clocks run ahead, any burst, refill, length of an hour and clock bound. *)
(***************************************************************************)
EXTENDS RateLimit, TLAPS

(* Arithmetic *)

LEMMA DivisionBelow ==
    ASSUME NEW a \in Nat, NEW b \in Nat \ {0}
    PROVE  /\ a \div b \in Nat
           /\ a < b * (a \div b) + b
  OBVIOUS

LEMMA ProductsOfNats ==
    ASSUME NEW a \in Nat, NEW b \in Nat
    PROVE  a * b \in Nat
  OBVIOUS

LEMMA Distribute ==
    ASSUME NEW r \in Nat, NEW a \in Int, NEW b \in Int
    PROVE  /\ r * (a + b) = r * a + r * b
           /\ r * (a - b) = r * a - r * b
  OBVIOUS

LEMMA ProductsGrow ==
    ASSUME NEW r \in Nat, NEW a \in Int, NEW b \in Int, a <= b
    PROVE  r * a <= r * b
<1>1. b - a \in Nat
  OBVIOUS
<1>2. r * (b - a) \in Nat
  BY <1>1, ProductsOfNats
<1>3. r * (b - a) = r * b - r * a
  BY Distribute
<1> QED BY <1>2, <1>3

LEMMA BucketSizes ==
    /\ Token \in Nat \ {0}
    /\ Full \in Nat
    /\ Token <= Full
    /\ TTL \in Nat
<1> USE RateAssumption DEF Token, Full
<1>1. Hour <= Capacity * Hour
  BY ProductsGrow
<1>2. Capacity * Hour \in Nat
  BY ProductsOfNats
<1>3. (Capacity * Hour) \div Max2(RefillPerHour, 1) \in Nat
  BY <1>2, DivisionBelow DEF Max2
<1> QED BY <1>1, <1>2, <1>3 DEF TTL, Max2

\* _ttl_seconds is long enough: what is evicted had refilled.
LEMMA EvictedIsFull == Full <= RefillPerHour * TTL
<1> DEFINE q == Full \div RefillPerHour
<1> USE RateAssumption
<1>1. Full \in Nat /\ q \in Nat /\ Full < RefillPerHour * q + RefillPerHour
  BY BucketSizes, DivisionBelow
<1>2. Max2(RefillPerHour, 1) = RefillPerHour
  BY DEF Max2
<1>3. TTL \in Nat /\ TTL >= Hour /\ TTL >= 2 * q
  <2>1. TTL = Max2(Hour, 2 * q)
    BY <1>2 DEF TTL, Full, Token
  <2> HIDE DEF q
  <2> QED BY <2>1, <1>1 DEF Max2
<1>4. CASE q = 0
  <2>1. RefillPerHour <= RefillPerHour * TTL
    BY <1>3, ProductsGrow
  <2>2. RefillPerHour * 0 = 0
    OBVIOUS
  <2>3. RefillPerHour * TTL \in Nat
    BY <1>3, ProductsOfNats
  <2> QED BY <1>1, <1>4, <2>1, <2>2, <2>3
<1>5. CASE q >= 1
  <2>1. TTL >= q + 1
    BY <1>1, <1>3, <1>5
  <2>2. RefillPerHour * (q + 1) <= RefillPerHour * TTL
    BY <1>1, <1>3, <2>1, ProductsGrow
  <2>3. RefillPerHour * (q + 1) = RefillPerHour * q + RefillPerHour
    BY <1>1, Distribute
  <2> QED BY <1>1, <1>3, <2>2, <2>3
<1> QED BY <1>1, <1>4, <1>5
-----------------------------------------------------------------------------
(* Types *)

LEMMA ClockType ==
    ASSUME TypeOK, NEW c \in Callers
    PROVE  Clock(c) \in Times
  BY RateAssumption DEF TypeOK, Clock, Times

LEMMA BalanceType ==
    ASSUME NEW b \in Buckets, NEW time \in Times
    PROVE  /\ Balance(b, time) \in 0 .. Full
           /\ b.present => Balance(b, time) >= b.tokens
<1> DEFINE grown == Max2(0, time - b.last)
<1>1. grown \in Nat
  BY RateAssumption DEF Max2, Buckets, Times
<1>2. grown * RefillPerHour \in Nat
  BY <1>1, RateAssumption, ProductsOfNats
<1>3. b.tokens \in 0 .. Full
  BY DEF Buckets
<1> QED BY <1>2, <1>3, BucketSizes DEF Balance, Min2

LEMMA BucketType ==
    ASSUME NEW tokens \in 0 .. Full, NEW time \in Times
    PROVE  Bucket(tokens, time) \in Buckets
  BY DEF Bucket, Buckets

LEMMA NoBucketType == NoBucket \in Buckets /\ NoWrite.to \in Buckets
  BY BucketSizes, RateAssumption DEF NoBucket, NoWrite, Buckets, Times

LEMMA TypesInitially == Init => TypeOK
<1>1. NoWrite \in [allowed : BOOLEAN, to : Buckets]
  BY NoBucketType DEF NoWrite
<1> SUFFICES ASSUME Init PROVE TypeOK
  OBVIOUS
<1>2. /\ 0 \in 0 .. MaxTime + TTL
      /\ 0 \in 0 .. MaxTime
      /\ 0 \in 0 .. MaxCalls
  BY BucketSizes, RateAssumption
<1>3. write \in [Callers -> [allowed : BOOLEAN, to : Buckets]]
  BY <1>1 DEF Init
<1>4. raw \in [Callers -> Buckets] /\ bucket \in Buckets
  BY NoBucketType DEF Init
<1>5. /\ pc \in [Callers -> {"idle", "watch", "hmget", "compute", "execute"}]
      /\ op \in [Callers -> {"acquire", "refund"}]
  BY DEF Init
<1>6. /\ expires \in 0 .. MaxTime + TTL
      /\ now \in 0 .. MaxTime
      /\ calls \in 0 .. MaxCalls
      /\ since \in 0 .. now
  BY <1>2 DEF Init
<1>7. /\ granted \in Nat /\ refunded \in Nat /\ hasty \in Nat /\ spent \in Nat
      /\ refused \in BOOLEAN
      /\ dirty \subseteq Callers
  BY DEF Init
<1> QED BY <1>3, <1>4, <1>5, <1>6, <1>7 DEF TypeOK

LEMMA FinishTypes ==
    ASSUME TypeOK, NEW c \in Callers, Finish(c)
    PROVE  /\ pc' \in [Callers -> {"idle", "watch", "hmget", "compute", "execute"}]
           /\ op' \in [Callers -> {"acquire", "refund"}]
           /\ raw' \in [Callers -> Buckets]
           /\ write' \in [Callers -> [allowed : BOOLEAN, to : Buckets]]
  BY NoBucketType DEF TypeOK, Finish, Goto, NoWrite

LEMMA StoreTypes ==
    ASSUME TypeOK, NEW c \in Callers, Store(c)
    PROVE  /\ bucket' \in Buckets
           /\ expires' \in 0 .. MaxTime + TTL
           /\ dirty' \subseteq Callers
           /\ spent' \in Nat
           /\ refunded' \in Nat
           /\ hasty' \in Nat
  BY BucketSizes, RateAssumption DEF TypeOK, Store

LEMMA TypesStep == TypeOK /\ [Next]_vars => TypeOK'
<1> SUFFICES ASSUME TypeOK, [Next]_vars PROVE TypeOK'
  OBVIOUS
<1> USE DEF callVars, histVars
<1>1. ASSUME NEW c \in Callers, Call(c) PROVE TypeOK'
  BY <1>1, RateAssumption DEF TypeOK, Call, Goto
<1>2. ASSUME NEW c \in Callers, Watch(c) PROVE TypeOK'
  BY <1>2 DEF TypeOK, Watch, Goto
<1>3. ASSUME NEW c \in Callers, Hmget(c) PROVE TypeOK'
  BY <1>3 DEF TypeOK, Hmget, Goto
<1>4. ASSUME NEW c \in Callers, ComputeAcquire(c) PROVE TypeOK'
  <2> DEFINE tokens == Balance(raw[c], Clock(c))
             allowed == tokens >= Token
             left == IF allowed THEN tokens - Token ELSE tokens
  <2>1. tokens \in 0 .. Full
    BY ClockType, BalanceType DEF TypeOK
  <2>2. left \in 0 .. Full
    BY <2>1, BucketSizes
  <2>3. Bucket(left, Clock(c)) \in Buckets
    BY <2>2, ClockType, BucketType
  <2>4. [allowed |-> allowed, to |-> Bucket(left, Clock(c))]
            \in [allowed : BOOLEAN, to : Buckets]
    BY <2>3
  <2>5. write' \in [Callers -> [allowed : BOOLEAN, to : Buckets]]
    BY <1>4, <2>4 DEF ComputeAcquire, TypeOK
  <2> QED BY <1>4, <2>5 DEF TypeOK, ComputeAcquire, Goto
<1>5. ASSUME NEW c \in Callers, ComputeRefund(c) PROVE TypeOK'
  <2> DEFINE tokens == RefundedBalance(Balance(raw[c], Clock(c)))
  <2>1. Balance(raw[c], Clock(c)) \in 0 .. Full
    BY ClockType, BalanceType DEF TypeOK
  <2>2. tokens \in 0 .. Full
    BY <2>1, BucketSizes DEF RefundedBalance, Min2
  <2>3. Bucket(tokens, Clock(c)) \in Buckets
    BY <2>2, ClockType, BucketType
  <2>4. write' \in [Callers -> [allowed : BOOLEAN, to : Buckets]]
    BY <1>5, <2>3 DEF ComputeRefund, TypeOK
  <2> QED BY <1>5, <2>4 DEF TypeOK, ComputeRefund, Goto
<1>6. ASSUME NEW c \in Callers, RefundNothing(c) PROVE TypeOK'
  BY <1>6, FinishTypes DEF TypeOK, RefundNothing
<1>7. ASSUME NEW c \in Callers, Execute(c) PROVE TypeOK'
  BY <1>7, FinishTypes, StoreTypes DEF TypeOK, Execute
<1>8. ASSUME NEW c \in Callers, WatchError(c) PROVE TypeOK'
  BY <1>8, NoBucketType DEF TypeOK, WatchError, AfterWatchError, Goto, NoWrite
<1>9. ASSUME NEW c \in Callers, Disconnect(c) PROVE TypeOK'
  BY <1>9, FinishTypes DEF TypeOK, Disconnect
<1>10. ASSUME NEW c \in Callers, ReplyLost(c) PROVE TypeOK'
  BY <1>10, FinishTypes, StoreTypes DEF TypeOK, ReplyLost
<1>11. CASE Tick
  <2>1. /\ now' \in 0 .. MaxTime
        /\ since' \in 0 .. now'
    BY <1>11, RateAssumption DEF Tick, TypeOK
  <2> QED BY <1>11, <2>1, NoBucketType, BucketSizes, RateAssumption
       DEF TypeOK, Tick
<1>12. CASE OpenWindow
  BY <1>12 DEF TypeOK, OpenWindow
<1>13. CASE UNCHANGED vars
  BY <1>13 DEF TypeOK, vars
<1> QED BY <1>1, <1>2, <1>3, <1>4, <1>5, <1>6, <1>7, <1>8, <1>9, <1>10,
           <1>11, <1>12, <1>13 DEF Next, Advance

\* Buckets hold between nothing and the burst, whatever interleaves, breaks or
\* is evicted, and no call stores or reads anything else.
THEOREM BucketsInRange == Spec => []TypeOK
<1>1. Init => TypeOK
  BY TypesInitially
<1>2. TypeOK /\ [Next]_vars => TypeOK'
  BY TypesStep
<1> QED BY <1>1, <1>2, PTL DEF Spec
-----------------------------------------------------------------------------
(* Refusals *)

\* What a bucket read or held lacks of the burst was taken out of it.
Backed(b) == b.present => b.tokens >= Full - Token * spent

\* What caller c is about to store lacks no more than that and its own token,
\* and a refusal is due to less than a token.
BackedWrite(c) ==
    LET taken == IF write[c].allowed THEN Token ELSE 0
    IN  /\ write[c].to.tokens + taken >= Full - Token * spent
        /\ op[c] = "acquire" /\ ~write[c].allowed => write[c].to.tokens < Token

SpentInv ==
    /\ Backed(bucket)
    /\ \A c \in Callers : /\ Backed(raw[c])
                          /\ pc[c] = "execute" => BackedWrite(c)
    /\ RefusalJustified

LEMMA SpentInitially == Init => SpentInv
<1>1. Token * 0 = 0
  BY BucketSizes
<1> QED BY <1>1 DEF Init, SpentInv, Backed, NoBucket, RefusalJustified

\* Spending more only makes it easier.
LEMMA BackedLater ==
    ASSUME spent \in Nat, NEW n \in {spent, spent + 1}, spent' = n
    PROVE  /\ Full - Token * n <= Full - Token * spent
           /\ Full - Token * n \in Int
           /\ Full - Token * spent \in Int
           /\ \A b \in Buckets : Backed(b) => Backed(b)'
<1>1. Token * spent \in Nat /\ Token * n \in Nat
  BY BucketSizes, ProductsOfNats
<1>2. Token * spent <= Token * n
  BY BucketSizes, ProductsGrow
<1>3. Full - Token * n <= Full - Token * spent
  BY <1>1, <1>2, BucketSizes
<1>4. \A b \in Buckets : b.tokens \in Int
  BY BucketSizes DEF Buckets
<1> QED BY <1>1, <1>3, <1>4, BucketSizes DEF Backed

LEMMA BalanceBacked ==
    ASSUME TypeOK, NEW c \in Callers, Backed(raw[c])
    PROVE  /\ Balance(raw[c], Clock(c)) \in 0 .. Full
           /\ Balance(raw[c], Clock(c)) >= Full - Token * spent
<1>1. raw[c] \in Buckets /\ spent \in Nat
  BY DEF TypeOK
<1>2. Token * spent \in Nat
  BY <1>1, BucketSizes, ProductsOfNats
<1>3. raw[c].tokens \in 0 .. Full
  BY <1>1 DEF Buckets
<1> QED BY <1>1, <1>2, <1>3, BucketSizes, ClockType, BalanceType
     DEF Backed, Balance

\* Less than a token is left only when a whole burst was taken.
LEMMA RefusedMeansSpent ==
    ASSUME spent \in Nat, NEW left \in Nat, left < Token,
           left >= Full - Token * spent
    PROVE  spent >= Capacity
<1> SUFFICES ASSUME spent + 1 <= Capacity PROVE FALSE
  BY RateAssumption
<1>1. Token * (spent + 1) <= Token * Capacity
  BY RateAssumption, BucketSizes, ProductsGrow
<1>2. Token * (spent + 1) = Token * spent + Token
  BY BucketSizes, Distribute
<1>3. Token * spent \in Nat /\ Full = Token * Capacity
  BY BucketSizes, RateAssumption, ProductsOfNats DEF Full, Token
<1> QED BY <1>1, <1>2, <1>3, BucketSizes

\* A caller whose locals did not change, or who has no write pending, is backed
\* as before.
LEMMA SpentFrame ==
    ASSUME TypeOK, SpentInv, NEW n \in {spent, spent + 1}, spent' = n,
           NEW c \in Callers,
           raw'[c] \in {raw[c], NoBucket, bucket},
           pc'[c] = "execute" =>
               pc[c] = "execute" /\ write'[c] = write[c] /\ op'[c] = op[c]
    PROVE  /\ Backed(raw[c])'
           /\ (pc[c] = "execute" => BackedWrite(c))'
<1>1. Backed(raw'[c])
  BY DEF SpentInv, Backed, NoBucket
<1>2. raw'[c] \in Buckets /\ write[c].to.tokens \in Int
  BY NoBucketType, BucketSizes DEF TypeOK, Buckets
<1>3. Backed(raw[c])'
  BY <1>1, <1>2, BackedLater DEF TypeOK, Backed
<1>4. ASSUME pc'[c] = "execute" PROVE BackedWrite(c)'
  <2>1. BackedWrite(c)
    BY <1>4 DEF SpentInv
  <2>2. /\ Full - Token * n <= Full - Token * spent
        /\ Full - Token * n \in Int
        /\ Full - Token * spent \in Int
    BY BackedLater DEF TypeOK
  <2> QED BY <1>2, <1>4, <2>1, <2>2, BucketSizes DEF BackedWrite
<1> QED BY <1>3, <1>4

\* Storing a write that is backed.
LEMMA SpentStore ==
    ASSUME TypeOK, SpentInv, NEW c \in Callers, pc[c] = "execute", Store(c)
    PROVE  /\ spent' \in {spent, spent + 1}
           /\ Backed(bucket)'
           /\ op[c] = "acquire" /\ ~write[c].allowed => spent >= Capacity
<1>1. /\ write[c].to \in Buckets
      /\ write[c].to.tokens \in 0 .. Full
  BY DEF TypeOK, Buckets
<1>2. Token * spent \in Nat /\ Token * (spent + 1) = Token * spent + Token
  BY BucketSizes, ProductsOfNats, Distribute DEF TypeOK
<1>3. BackedWrite(c)
  BY DEF SpentInv
<1>4. CASE write[c].allowed
  <2>1. spent' = spent + 1 /\ bucket' = write[c].to
    BY <1>4 DEF Store
  <2>2. write[c].to.tokens >= Full - Token * (spent + 1)
    BY <1>1, <1>2, <1>3, <1>4, BucketSizes DEF BackedWrite
  <2> QED BY <1>4, <2>1, <2>2 DEF Backed
<1>5. CASE ~write[c].allowed
  <2>1. spent' = spent /\ bucket' = write[c].to
    BY <1>5 DEF Store
  <2>2. write[c].to.tokens >= Full - Token * spent
    BY <1>1, <1>2, <1>3, <1>5, BucketSizes DEF BackedWrite
  <2>3. op[c] = "acquire" => spent >= Capacity
    BY <1>1, <1>3, <1>5, <2>2, RefusedMeansSpent DEF BackedWrite, TypeOK
  <2> QED BY <2>1, <2>2, <2>3 DEF Backed
<1> QED BY <1>4, <1>5

LEMMA SpentStep == TypeOK /\ SpentInv /\ [Next]_vars => SpentInv'
<1> SUFFICES ASSUME TypeOK, SpentInv, [Next]_vars PROVE SpentInv'
  OBVIOUS
<1> USE DEF callVars, histVars
<1>1. ASSUME UNCHANGED <<bucket, spent, refused>>, NEW c \in Callers,
             /\ raw'[c] \in {raw[c], NoBucket, bucket}
             /\ pc'[c] = "execute" =>
                    pc[c] = "execute" /\ write'[c] = write[c] /\ op'[c] = op[c],
             \A d \in Callers \ {c} :
                 /\ pc'[d] = pc[d] /\ op'[d] = op[d]
                 /\ raw'[d] = raw[d] /\ write'[d] = write[d]
      PROVE  SpentInv'
  <2>1. \A d \in Callers : /\ Backed(raw[d])'
                           /\ (pc[d] = "execute" => BackedWrite(d))'
    BY <1>1, SpentFrame
  <2> QED BY <1>1, <2>1 DEF SpentInv, Backed, RefusalJustified
<1>2. ASSUME NEW c \in Callers,
             \/ Call(c) \/ Watch(c) \/ Hmget(c) \/ RefundNothing(c)
             \/ WatchError(c) \/ Disconnect(c)
      PROVE  SpentInv'
  <2>1. UNCHANGED <<bucket, spent, refused>>
    BY <1>2 DEF Call, Watch, Hmget, RefundNothing, WatchError, Disconnect
  <2>2. /\ raw'[c] \in {raw[c], NoBucket, bucket}
        /\ pc'[c] # "execute"
    BY <1>2 DEF Call, Watch, Hmget, RefundNothing, WatchError, Disconnect,
                Finish, Goto, AfterWatchError, TypeOK
  <2>3. \A d \in Callers \ {c} : /\ pc'[d] = pc[d] /\ op'[d] = op[d]
                                 /\ raw'[d] = raw[d] /\ write'[d] = write[d]
    BY <1>2 DEF Call, Watch, Hmget, RefundNothing, WatchError, Disconnect,
                Finish, Goto, TypeOK
  <2> QED BY <1>1, <2>1, <2>2, <2>3
<1>3. ASSUME NEW c \in Callers, ComputeAcquire(c) PROVE SpentInv'
  <2> DEFINE tokens == Balance(raw[c], Clock(c))
             left == IF tokens >= Token THEN tokens - Token ELSE tokens
  <2>1. UNCHANGED <<bucket, spent, refused, raw, op>>
    BY <1>3 DEF ComputeAcquire
  <2>2. tokens \in 0 .. Full /\ tokens >= Full - Token * spent
    BY BalanceBacked DEF SpentInv
  <2>3. write'[c] = [allowed |-> tokens >= Token,
                     to |-> Bucket(left, Clock(c))]
    BY <1>3 DEF ComputeAcquire, TypeOK
  <2>4. /\ write'[c].allowed = (tokens >= Token)
        /\ write'[c].to.tokens = left
    BY <2>3 DEF Bucket
  <2>5. BackedWrite(c)'
    <3> HIDE DEF tokens
    <3>1. CASE tokens >= Token
      <4>1. left + Token = tokens
        BY <2>2, <3>1, BucketSizes
      <4> HIDE DEF left
      <4> QED BY <2>1, <2>2, <2>4, <3>1, <4>1 DEF BackedWrite
    <3>2. CASE ~(tokens >= Token)
      <4>1. left = tokens /\ left + 0 = left /\ left < Token
        BY <2>2, <3>2, BucketSizes
      <4> HIDE DEF left
      <4> QED BY <2>1, <2>2, <2>4, <3>2, <4>1 DEF BackedWrite
    <3> QED BY <3>1, <3>2
  <2>6. \A d \in Callers \ {c} :
            pc'[d] = pc[d] /\ op'[d] = op[d] /\ write'[d] = write[d]
    BY <1>3 DEF ComputeAcquire, Goto, TypeOK
  <2> QED BY <2>1, <2>5, <2>6 DEF SpentInv, Backed, BackedWrite,
                                  RefusalJustified
<1>4. ASSUME NEW c \in Callers, ComputeRefund(c) PROVE SpentInv'
  <2> DEFINE tokens == Balance(raw[c], Clock(c))
             more == RefundedBalance(tokens)
  <2>1. UNCHANGED <<bucket, spent, refused, raw, op>> /\ op[c] = "refund"
    BY <1>4 DEF ComputeRefund
  <2>2. tokens \in 0 .. Full /\ tokens >= Full - Token * spent
    BY BalanceBacked DEF SpentInv
  <2>3. Token * spent \in Nat
    BY BucketSizes, ProductsOfNats DEF TypeOK
  <2>4. more \in Nat /\ more >= Full - Token * spent
    <3> HIDE DEF tokens
    <3> QED BY <2>2, <2>3, BucketSizes DEF RefundedBalance, Min2
  <2>5. /\ ~write'[c].allowed
        /\ write'[c].to.tokens = more
    BY <1>4 DEF ComputeRefund, TypeOK, Bucket
  <2>6. BackedWrite(c)'
    <3> HIDE DEF more
    <3>1. more + 0 = more
      BY <2>4
    <3> QED BY <2>1, <2>4, <2>5, <3>1 DEF BackedWrite
  <2>7. \A d \in Callers \ {c} :
            pc'[d] = pc[d] /\ op'[d] = op[d] /\ write'[d] = write[d]
    BY <1>4 DEF ComputeRefund, Goto, TypeOK
  <2> QED BY <2>1, <2>6, <2>7 DEF SpentInv, Backed, BackedWrite,
                                  RefusalJustified
<1>5. ASSUME NEW c \in Callers, Execute(c) \/ ReplyLost(c) PROVE SpentInv'
  <2>1. pc[c] = "execute" /\ Store(c) /\ Finish(c)
    BY <1>5 DEF Execute, ReplyLost
  <2>2. /\ spent' \in {spent, spent + 1}
        /\ Backed(bucket)'
        /\ op[c] = "acquire" /\ ~write[c].allowed => spent >= Capacity
    BY <2>1, SpentStore
  <2>3. \A d \in Callers : /\ raw'[d] \in {raw[d], NoBucket}
                           /\ pc'[d] = "execute" =>
                                  /\ pc[d] = "execute"
                                  /\ write'[d] = write[d]
                                  /\ op'[d] = op[d]
    BY <2>1 DEF Finish, Goto, TypeOK
  <2>4. \A d \in Callers : /\ Backed(raw[d])'
                           /\ (pc[d] = "execute" => BackedWrite(d))'
    BY <2>2, <2>3, SpentFrame
  <2>5. RefusalJustified'
    <3>1. refused' => spent >= Capacity
      BY <1>5, <2>2 DEF Execute, ReplyLost, SpentInv, RefusalJustified
    <3>2. CASE spent' = spent
      BY <3>1, <3>2 DEF RefusalJustified
    <3>3. CASE spent' = spent + 1
      BY <3>1, <3>3, RateAssumption DEF RefusalJustified, TypeOK
    <3> QED BY <2>2, <3>2, <3>3
  <2> QED BY <2>2, <2>4, <2>5 DEF SpentInv
<1>6. CASE Tick
  <2>1. bucket' \in {bucket, NoBucket} /\ UNCHANGED <<callVars, spent, refused>>
    BY <1>6 DEF Tick
  <2> QED BY <2>1 DEF SpentInv, Backed, BackedWrite, NoBucket, RefusalJustified
<1>7. CASE OpenWindow \/ UNCHANGED vars
  BY <1>7 DEF OpenWindow, vars, SpentInv, Backed, BackedWrite, RefusalJustified
<1> QED BY <1>2, <1>3, <1>4, <1>5, <1>6, <1>7 DEF Next, Advance

\* Whatever interleaves, /download turns nobody away unless a burst of tokens
\* has been taken: no refill, refund or eviction is lost on a refused caller,
\* and no call's read of a stale bucket is stored.
THEOREM RefusalsHaveACause == Spec => []RefusalJustified
<1>1. Init => SpentInv
  BY SpentInitially
<1>2. TypeOK /\ SpentInv /\ [Next]_vars => SpentInv'
  BY SpentStep
<1>3. SpentInv => RefusalJustified
  BY DEF SpentInv
<1> QED BY <1>1, <1>2, <1>3, BucketsInRange, PTL DEF Spec
-----------------------------------------------------------------------------
(* The bound of a window *)

\* What granting g tokens and holding `held' since instant w may add up to, in
\* a window that began at s, with r refunds and h writes of fast clocks.
Account(held, w, s, g, r, h) ==
    LET start == Max2(w, s)
    IN  Token * g + Min2(Full, held + RefillPerHour * (start - w))
            <= Full + RefillPerHour * (start - s) + Token * r
                    + RefillPerHour * Skew * h

One(b) == IF b THEN 1 ELSE 0

\* No bucket is as good as a full one.
Held == IF bucket.present THEN bucket.tokens ELSE Full
Lead(c) == Skew * One(c \in Ahead)

\* True time of the computation whose result c is about to store.
Computed(c) == write[c].to.last - Lead(c)
Offered(c) == write[c].to.tokens + Token * One(write[c].allowed)

\* c is about to store what it may, if the bucket was written at w.
Due(c, w) ==
    /\ write[c].to.present
    /\ Computed(c) \in w .. now
    /\ Computed(c) < since => granted = 0
    /\ Offered(c) <= Full
    /\ Offered(c) <= Held + RefillPerHour * (Computed(c) - w)
                          + RefillPerHour * Skew * One(c \in Ahead)
                          + Token * One(op[c] = "refund")

\* The bucket is as of w, in true time, whatever clock its writer had.
AsOf(w) ==
    /\ bucket.present => bucket.last >= w /\ expires >= w + TTL
    /\ Account(Held, w, since, granted, refunded, hasty)
    /\ \A c \in Callers \ dirty :
           /\ pc[c] = "compute" => raw[c] = bucket
           /\ pc[c] = "execute" => Due(c, w)

WindowInv == \E w \in 0 .. now : AsOf(w)

LEMMA Steady ==
    /\ RefillPerHour \in Nat
    /\ Skew \in Nat
    /\ RefillPerHour * Skew \in Nat
  BY RateAssumption, ProductsOfNats

\* A write at t with an offer that is due keeps the account, granted or not.
LEMMA AccountWrite ==
    ASSUME NEW held \in 0 .. Full, NEW left \in 0 .. Full,
           NEW w \in Nat, NEW t \in Nat, NEW s \in Nat, w <= t, s <= t,
           NEW g \in Nat, NEW r \in Nat, NEW h \in Nat,
           NEW k \in {0, 1}, NEW a \in {0, 1}, NEW b \in {0, 1},
           left + Token * k <= Full,
           left + Token * k <= held + RefillPerHour * (t - w)
                                    + RefillPerHour * Skew * a + Token * b,
           Account(held, w, s, g, r, h)
    PROVE  Account(left, t, s, g + k, r + b, h + a)
<1> DEFINE start == Max2(w, s)
           RS == RefillPerHour * Skew
<1>1. start \in Nat /\ w <= start /\ s <= start /\ start <= t
  BY DEF Max2
<1>2. Max2(t, s) = t
  BY DEF Max2
<1>3. /\ RefillPerHour * (t - w) =
             RefillPerHour * (t - start) + RefillPerHour * (start - w)
      /\ RefillPerHour * (t - s) =
             RefillPerHour * (t - start) + RefillPerHour * (start - s)
      /\ RefillPerHour * (t - t) = 0
  <2>1. t - w = (t - start) + (start - w) /\ t - s = (t - start) + (start - s)
    BY <1>1
  <2>2. t - start \in Int /\ start - w \in Int /\ start - s \in Int /\ t - t = 0
    BY <1>1
  <2> HIDE DEF start
  <2> QED BY <2>1, <2>2, Steady, Distribute
<1>4. /\ RefillPerHour * (t - start) \in Nat
      /\ RefillPerHour * (start - w) \in Nat
      /\ RefillPerHour * (start - s) \in Nat
  <2>1. t - start \in Nat /\ start - w \in Nat /\ start - s \in Nat
    BY <1>1
  <2> HIDE DEF start
  <2> QED BY <2>1, Steady, ProductsOfNats
<1>5. /\ Token * (g + k) = Token * g + Token * k
      /\ Token * (r + b) = Token * r + Token * b
      /\ RS * (h + a) = RS * h + RS * a
  BY BucketSizes, Steady, Distribute
<1>6. /\ Token * g \in Nat /\ Token * r \in Nat /\ Token * k \in Nat
      /\ Token * b \in Nat /\ RS * h \in Nat /\ RS * a \in Nat
  BY BucketSizes, Steady, ProductsOfNats
<1>7. Min2(Full, left + RefillPerHour * (t - t)) = left
  BY <1>3, BucketSizes DEF Min2
<1>8. Token * g + Min2(Full, held + RefillPerHour * (start - w))
          <= Full + RefillPerHour * (start - s) + Token * r + RS * h
  BY DEF Account
<1>9. SUFFICES Token * (g + k) + left
          <= Full + RefillPerHour * (t - s) + Token * (r + b) + RS * (h + a)
  BY <1>2, <1>7 DEF Account
<1> HIDE DEF start, RS
<1>10. \/ Token * g + Full
              <= Full + RefillPerHour * (start - s) + Token * r + RS * h
       \/ Token * g + (held + RefillPerHour * (start - w))
              <= Full + RefillPerHour * (start - s) + Token * r + RS * h
  BY <1>8 DEF Min2
<1>11. left + Token * k <= held + RefillPerHour * (t - w) + RS * a + Token * b
  BY DEF RS
<1> QED BY <1>3, <1>4, <1>5, <1>6, <1>10, <1>11, BucketSizes

\* A write computed before the window counts in it only by a fast clock, which
\* the bound forgives.
LEMMA AccountEarlyWrite ==
    ASSUME NEW left \in 0 .. Full, NEW t \in Nat, NEW s \in Nat, t < s,
           NEW k \in {0, 1}, NEW a \in {0, 1}, NEW r \in Nat, NEW h \in Nat,
           left + Token * k <= Full,
           k = 1 => t + Skew * a >= s
    PROVE  Account(left, t, s, k, r, h + a)
<1> DEFINE RS == RefillPerHour * Skew
<1>1. Max2(t, s) = s /\ s - s = 0 /\ s - t \in Nat
  BY DEF Max2
<1>2. /\ RefillPerHour * 0 = 0
      /\ RefillPerHour * (s - t) \in Nat
      /\ Token * r \in Nat /\ RS * h \in Nat /\ RS * a \in Nat
      /\ RS * (h + a) = RS * h + RS * a
  BY <1>1, BucketSizes, Steady, ProductsOfNats, Distribute
<1>3. SUFFICES Token * k + Min2(Full, left + RefillPerHour * (s - t))
                   <= Full + 0 + Token * r + RS * (h + a)
  BY <1>1, <1>2 DEF Account
<1>4. CASE k = 0
  <2>1. Token * k = 0
    BY <1>4, BucketSizes
  <2>2. Min2(Full, left + RefillPerHour * (s - t)) <= Full
    BY <1>2, BucketSizes DEF Min2
  <2>3. Min2(Full, left + RefillPerHour * (s - t)) \in Int
    BY <1>2, BucketSizes DEF Min2
  <2> HIDE DEF RS
  <2> QED BY <1>2, <2>1, <2>2, <2>3, BucketSizes
<1>5. CASE k = 1
  <2>1. Skew * 0 = 0 /\ Skew * 1 = Skew
    BY Steady
  <2>2. a = 1 /\ s - t <= Skew
    BY <1>5, <2>1, Steady
  <2>3. RefillPerHour * (s - t) <= RS
    BY <1>1, <2>2, Steady, ProductsGrow
  <2>4. Token * k = Token /\ RS * a = RS /\ RS \in Nat
    BY <1>5, <2>2, BucketSizes, Steady
  <2> HIDE DEF RS
  <2> QED BY <1>2, <1>5, <2>3, <2>4, BucketSizes DEF Min2
<1> QED BY <1>4, <1>5

\* A bucket evicted at e was written a TTL before, and has refilled since.
LEMMA AccountEviction ==
    ASSUME NEW held \in 0 .. Full, NEW w \in Nat, NEW e \in Nat, NEW s \in Nat,
           w + TTL <= e, s <= e,
           NEW g \in Nat, NEW r \in Nat, NEW h \in Nat,
           Account(held, w, s, g, r, h)
    PROVE  Account(Full, e, s, g, r, h)
<1>1. TTL \in Nat /\ Full \in Nat /\ Token \in Nat
  BY BucketSizes
<1>2. w <= e
  BY <1>1
<1>3. RefillPerHour * TTL <= RefillPerHour * (e - w)
  BY <1>1, Steady, ProductsGrow
<1>4. RefillPerHour * TTL \in Nat /\ RefillPerHour * (e - w) \in Nat
  BY <1>1, <1>2, Steady, ProductsOfNats
<1>5. RefillPerHour * Skew * 0 = 0 /\ Token * 0 = 0
  BY <1>1, Steady
<1>6. Full + Token * 0 <= held + RefillPerHour * (e - w)
                         + RefillPerHour * Skew * 0 + Token * 0
  BY <1>1, <1>3, <1>4, <1>5, EvictedIsFull
<1>7. Full + Token * 0 <= Full
  BY <1>1, <1>5
<1>8. Full \in 0 .. Full
  BY <1>1
<1>9. \A z \in {0, 1} : z = 0 => Account(Full, e, s, g + z, r + z, h + z)
  BY <1>2, <1>6, <1>7, <1>8, AccountWrite
<1> QED BY <1>9

LEMMA LeadClock ==
    ASSUME TypeOK, NEW c \in Callers
    PROVE  /\ Lead(c) \in Nat
           /\ Clock(c) = now + Lead(c)
           /\ RefillPerHour * Lead(c) = RefillPerHour * Skew * One(c \in Ahead)
<1>1. Skew * 0 = 0 /\ Skew * 1 = Skew
  BY Steady
<1>2. /\ RefillPerHour * Skew * 0 = 0
      /\ RefillPerHour * 0 = 0
      /\ RefillPerHour * Skew * 1 = RefillPerHour * Skew
  BY Steady
<1>3. CASE c \in Ahead
  BY <1>1, <1>2, <1>3, Steady DEF Lead, Clock, One, TypeOK
<1>4. CASE c \notin Ahead
  BY <1>1, <1>2, <1>4, Steady DEF Lead, Clock, One, TypeOK
<1> QED BY <1>3, <1>4

\* What a caller reads off the bucket by its own clock.
LEMMA BalanceBound ==
    ASSUME TypeOK, NEW c \in Callers, NEW w \in 0 .. now,
           bucket.present => bucket.last >= w
    PROVE  /\ Balance(bucket, Clock(c)) \in 0 .. Full
           /\ Balance(bucket, Clock(c))
                  <= Held + RefillPerHour * (now - w)
                          + RefillPerHour * Skew * One(c \in Ahead)
<1>1. bucket \in Buckets /\ now \in Nat
  BY DEF TypeOK
<1>2. Balance(bucket, Clock(c)) \in 0 .. Full
  BY <1>1, ClockType, BalanceType
<1>3. now - w \in Nat /\ RefillPerHour * (now - w) \in Nat
  BY <1>1, Steady, ProductsOfNats
<1>4. RefillPerHour * Lead(c) \in Nat
  BY LeadClock, Steady, ProductsOfNats
<1>5. CASE bucket.present
  <2> DEFINE grown == Max2(0, Clock(c) - bucket.last)
  <2>1. bucket.tokens \in 0 .. Full /\ bucket.last \in Nat
    BY <1>1, RateAssumption DEF Buckets, Times
  <2>2. grown \in Nat /\ grown <= (now - w) + Lead(c)
    BY <1>1, <1>3, <1>5, <2>1, LeadClock DEF Max2
  <2>3. Balance(bucket, Clock(c)) = Min2(Full, bucket.tokens + grown * RefillPerHour)
    BY <1>5 DEF Balance
  <2> HIDE DEF grown
  <2>4. RefillPerHour * grown <= RefillPerHour * ((now - w) + Lead(c))
    BY <1>3, <2>2, LeadClock, Steady, ProductsGrow
  <2>5. RefillPerHour * ((now - w) + Lead(c))
            = RefillPerHour * (now - w) + RefillPerHour * Lead(c)
    BY <1>3, LeadClock, Steady, Distribute
  <2>6. RefillPerHour * grown = grown * RefillPerHour
        /\ RefillPerHour * grown \in Nat
    BY <2>2, Steady, ProductsOfNats
  <2>7. Balance(bucket, Clock(c)) <= bucket.tokens + RefillPerHour * grown
    BY <2>1, <2>3, <2>6, BucketSizes DEF Min2
  <2>8. Held = bucket.tokens
    BY <1>5 DEF Held
  <2>9. Balance(bucket, Clock(c))
            <= Held + RefillPerHour * (now - w) + RefillPerHour * Lead(c)
    BY <1>2, <1>3, <1>4, <2>1, <2>4, <2>5, <2>6, <2>7, <2>8
  <2> QED BY <1>2, <2>9, LeadClock
<1>6. CASE ~bucket.present
  <2>1. Held = Full
    BY <1>6 DEF Held
  <2>2. Balance(bucket, Clock(c))
            <= Held + RefillPerHour * (now - w) + RefillPerHour * Lead(c)
    BY <1>2, <1>3, <1>4, <2>1, BucketSizes
  <2> QED BY <1>2, <2>2, LeadClock
<1> QED BY <1>5, <1>6

LEMMA WindowInitially == TypeOK /\ Init => WindowInv
<1> SUFFICES ASSUME TypeOK, Init PROVE WindowInv
  OBVIOUS
<1>1. /\ Max2(0, 0) = 0 /\ 0 - 0 = 0 /\ RefillPerHour * 0 = 0
      /\ Token * 0 = 0 /\ RefillPerHour * Skew * 0 = 0
  BY BucketSizes, Steady DEF Max2
<1>2. Account(Full, 0, 0, 0, 0, 0)
  BY <1>1, BucketSizes DEF Account, Min2
<1>3. AsOf(0)
  BY <1>2 DEF Init, AsOf, Held, NoBucket
<1>4. 0 \in 0 .. now
  BY DEF Init
<1> QED BY <1>3, <1>4 DEF WindowInv

\* Steps that leave the bucket, the clock and the counts alone.
LEMMA WindowFrame ==
    ASSUME NEW w, AsOf(w),
           UNCHANGED <<bucket, expires, now, since, granted, refunded, hasty>>,
           \A d \in Callers \ dirty' :
               /\ pc'[d] = "compute" => raw'[d] = bucket
               /\ pc'[d] = "execute" =>
                      \/ Due(d, w)'
                      \/ /\ d \notin dirty /\ pc[d] = "execute"
                         /\ write'[d] = write[d] /\ op'[d] = op[d]
    PROVE  AsOf(w)'
<1>1. Held' = Held
  BY DEF Held
<1>2. ASSUME NEW d \in Callers, d \notin dirty, pc[d] = "execute",
             write'[d] = write[d], op'[d] = op[d]
      PROVE  Due(d, w)'
  <2>1. Due(d, w)
    BY <1>2 DEF AsOf
  <2>2. Computed(d)' = Computed(d) /\ Offered(d)' = Offered(d)
    BY <1>2 DEF Computed, Offered, Lead
  <2> QED BY <1>1, <1>2, <2>1, <2>2 DEF Due
<1> QED BY <1>1, <1>2 DEF AsOf

LEMMA ComputedWrite ==
    ASSUME TypeOK, NEW c \in Callers, NEW left \in Int, NEW allowed \in BOOLEAN,
           write'[c] = [allowed |-> allowed, to |-> Bucket(left, Clock(c))]
    PROVE  /\ write'[c].to.present
           /\ Computed(c)' = now
           /\ Offered(c)' = left + Token * One(allowed)
<1>1. /\ write'[c].to.present
      /\ write'[c].to.last = Clock(c)
      /\ write'[c].to.tokens = left
      /\ write'[c].allowed = allowed
  BY DEF Bucket
<1>2. Clock(c) - Lead(c) = now
  BY LeadClock DEF TypeOK
<1>3. Lead(c)' = Lead(c)
  BY DEF Lead
<1> QED BY <1>1, <1>2, <1>3 DEF Computed, Offered

LEMMA DueAcquire ==
    ASSUME TypeOK, NEW w \in 0 .. now, AsOf(w), NEW c \in Callers,
           c \notin dirty, ComputeAcquire(c)
    PROVE  Due(c, w)'
<1> DEFINE tokens == Balance(bucket, Clock(c))
           allowed == tokens >= Token
           left == IF allowed THEN tokens - Token ELSE tokens
           fast == RefillPerHour * Skew * One(c \in Ahead)
<1>1. raw[c] = bucket
  BY DEF AsOf, ComputeAcquire
<1>2. UNCHANGED <<bucket, now, since, granted, op>> /\ op[c] = "acquire"
  BY DEF ComputeAcquire, histVars
<1>3. tokens \in 0 .. Full
      /\ tokens <= Held + RefillPerHour * (now - w) + fast
  BY BalanceBound DEF AsOf
<1>4. write'[c] = [allowed |-> allowed,
                   to |-> Bucket(left, Clock(c))]
  BY <1>1 DEF ComputeAcquire, TypeOK
<1> HIDE DEF tokens
<1>5. allowed \in BOOLEAN
      /\ left \in Int /\ left + Token * One(allowed) = tokens
  BY <1>3, BucketSizes DEF One
<1> HIDE DEF left, allowed
<1>6. /\ write'[c].to.present
      /\ Computed(c)' = now
      /\ Offered(c)' = tokens
  BY <1>4, <1>5, ComputedWrite
<1>7. now \in Nat /\ since \in Nat /\ ~(now < since)
  BY DEF TypeOK
<1>8. Held' = Held /\ One(op[c] = "refund")' = 0 /\ Token * 0 = 0
  BY <1>2, BucketSizes DEF Held, One
<1>9. Held \in Int /\ fast \in Int /\ RefillPerHour * (now - w) \in Int
  BY <1>7, BucketSizes, Steady DEF TypeOK, Buckets, Held, One
<1> HIDE DEF fast
<1>10. tokens <= Held + RefillPerHour * (now - w) + fast + Token * 0
  BY <1>3, <1>8, <1>9
<1>11. tokens <= Full
  BY <1>3, BucketSizes
<1> QED BY <1>2, <1>6, <1>7, <1>8, <1>10, <1>11 DEF Due, fast

LEMMA DueRefund ==
    ASSUME TypeOK, NEW w \in 0 .. now, AsOf(w), NEW c \in Callers,
           c \notin dirty, ComputeRefund(c)
    PROVE  Due(c, w)'
<1> DEFINE tokens == Balance(bucket, Clock(c))
           left == RefundedBalance(tokens)
           fast == RefillPerHour * Skew * One(c \in Ahead)
<1>1. raw[c] = bucket
  BY DEF AsOf, ComputeRefund
<1>2. UNCHANGED <<bucket, now, since, granted, op>> /\ op[c] = "refund"
  BY DEF ComputeRefund, histVars
<1>3. tokens \in 0 .. Full
      /\ tokens <= Held + RefillPerHour * (now - w) + fast
  BY BalanceBound DEF AsOf
<1>4. write'[c] = [allowed |-> FALSE, to |-> Bucket(left, Clock(c))]
  BY <1>1 DEF ComputeRefund, TypeOK
<1> HIDE DEF tokens
<1>5. left \in Int /\ left <= Full /\ left <= tokens + Token
      /\ left + Token * One(FALSE) = left
  BY <1>3, BucketSizes DEF One, RefundedBalance, Min2
<1> HIDE DEF left
<1>6. /\ write'[c].to.present
      /\ Computed(c)' = now
      /\ Offered(c)' = left
  BY <1>4, <1>5, ComputedWrite
<1>7. now \in Nat /\ since \in Nat /\ ~(now < since)
  BY DEF TypeOK
<1>8. Held' = Held /\ One(op[c] = "refund")' = 1 /\ Token * 1 = Token
  BY <1>2, BucketSizes DEF Held, One
<1>9. Held \in Int /\ fast \in Int /\ RefillPerHour * (now - w) \in Int
  BY <1>7, BucketSizes, Steady DEF TypeOK, Buckets, Held, One
<1> HIDE DEF fast
<1>10. left <= Held + RefillPerHour * (now - w) + fast + Token * 1
  BY <1>3, <1>5, <1>8, <1>9, BucketSizes
<1> QED BY <1>2, <1>5, <1>6, <1>7, <1>8, <1>10 DEF Due, fast

\* What a commit stores is as of its computation.
LEMMA WindowStore ==
    ASSUME TypeOK, NEW w \in 0 .. now, AsOf(w), NEW c \in Callers,
           pc[c] = "execute", Commits(c), Store(c),
           UNCHANGED <<now, since>>,
           granted' \in {granted, IF write[c].allowed /\ write[c].to.last >= since
                                  THEN granted + 1 ELSE granted}
    PROVE  WindowInv'
<1> DEFINE t == Computed(c)
           left == write[c].to.tokens
           k == One(write[c].allowed)
           a == One(c \in Ahead)
           b == One(op[c] = "refund")
<1>1. c \notin dirty /\ Due(c, w)
  BY DEF Commits, AsOf
<1>2. t \in Nat /\ t \in w .. now /\ t <= now
  BY <1>1 DEF Due, TypeOK
<1>3. k \in {0, 1} /\ a \in {0, 1} /\ b \in {0, 1}
  BY DEF One
<1>4. /\ left \in 0 .. Full
      /\ Held \in 0 .. Full
  BY BucketSizes DEF TypeOK, Buckets, Held
<1>5. write[c].to.last = t + Skew * a
  <2>1. write[c].to.last \in Int /\ Lead(c) \in Nat
    BY LeadClock, RateAssumption DEF TypeOK, Buckets, Times
  <2> QED BY <2>1 DEF Computed, Lead
<1>6. /\ left + Token * k <= Full
      /\ left + Token * k <= Held + RefillPerHour * (t - w)
                             + RefillPerHour * Skew * a + Token * b
      /\ t < since => granted = 0
  BY <1>1 DEF Due, Offered
<1>7. /\ bucket' = write[c].to
      /\ expires' = now + TTL
      /\ dirty' = Callers
      /\ refunded' = refunded + b
      /\ hasty' = hasty + a
  BY DEF Store, One, TypeOK
<1>8. Held' = left
  BY <1>1, <1>7 DEF Held, Due
<1>9. PICK m \in {0, 1} : /\ granted' = granted + m
                          /\ m = 1 => k = 1 /\ write[c].to.last >= since
  <2>1. CASE granted' = granted
    BY <2>1 DEF TypeOK
  <2>2. CASE granted' # granted
    BY <2>2 DEF One
  <2> QED BY <2>1, <2>2
<1>10. w \in Nat /\ since \in Nat /\ granted \in Nat /\ refunded \in Nat
       /\ hasty \in Nat /\ refunded + b \in Nat
  BY <1>3 DEF TypeOK
<1>11. Account(Held, w, since, granted, refunded, hasty)
  BY DEF AsOf
<1> HIDE DEF t, left, k, a, b
<1>12. /\ Token * m <= Token * k
       /\ Token * m \in Nat /\ Token * k \in Nat
       /\ RefillPerHour * (t - w) \in Int
       /\ RefillPerHour * Skew * a \in Int /\ Token * b \in Int
  <2>1. m <= k
    BY <1>3, <1>9
  <2> QED BY <1>2, <1>3, <1>10, <2>1, BucketSizes, Steady, ProductsGrow,
             ProductsOfNats
<1>13. /\ left + Token * m <= Full
       /\ left + Token * m <= Held + RefillPerHour * (t - w)
                              + RefillPerHour * Skew * a + Token * b
  BY <1>4, <1>6, <1>12, BucketSizes
<1>14. Account(left, t, since, granted + m, refunded + b, hasty + a)
  <2>1. CASE since <= t
    <3>1. w <= t
      BY <1>2, <1>10
    <3> QED BY <1>2, <1>3, <1>4, <1>10, <1>11, <1>13, <2>1, <3>1, AccountWrite
  <2>2. CASE ~(since <= t)
    <3>1. granted + m = m
      BY <1>2, <1>6, <1>10, <2>2
    <3>2. m = 1 => t + Skew * a >= since
      BY <1>5, <1>9
    <3>3. t < since
      BY <1>2, <1>10, <2>2
    <3>4. \A r, h \in Nat : Account(left, t, since, m, r, h + a)
      <4>1. t \in Nat /\ since \in Nat /\ left \in 0 .. Full /\ a \in {0, 1}
        BY <1>2, <1>3, <1>4, <1>10
      <4>2. left + Token * m <= Full
        BY <1>13
      <4> QED BY <4>1, <4>2, <3>2, <3>3, AccountEarlyWrite
    <3> QED BY <1>10, <3>1, <3>4
  <2> QED BY <2>1, <2>2
<1>15. bucket'.last >= t
  <2>1. Skew * a \in Nat
    BY <1>3, Steady, ProductsOfNats
  <2>2. t + Skew * a >= t
    BY <1>2, <2>1
  <2> QED BY <1>5, <1>7, <2>2
<1>16. now + TTL >= t + TTL
  BY <1>2, BucketSizes DEF TypeOK
<1>17. PICK v : v = t
  OBVIOUS
<1>18. AsOf(v)'
  BY <1>7, <1>8, <1>9, <1>14, <1>15, <1>16, <1>17 DEF AsOf
<1>19. v \in 0 .. now'
  BY <1>2, <1>10, <1>17
<1> QED BY <1>18, <1>19 DEF WindowInv

LEMMA WindowTick ==
    ASSUME TypeOK, NEW w \in 0 .. now, AsOf(w), Tick
    PROVE  WindowInv'
<1>1. /\ now' = now + 1 /\ now + 1 \in Nat /\ now \in Nat /\ since \in 0 .. now
      /\ w \in Nat
      /\ granted \in Nat /\ refunded \in Nat /\ hasty \in Nat
  BY DEF Tick, TypeOK
<1>2. UNCHANGED <<pc, op, raw, write, since, granted, refunded, hasty>>
  BY DEF Tick, callVars, histVars
<1>3. Held \in 0 .. Full
  BY BucketSizes DEF TypeOK, Buckets, Held
<1>4. CASE bucket.present /\ expires <= now + 1
  <2>1. bucket' = NoBucket /\ dirty' = Callers
    BY <1>4 DEF Tick
  <2>2. w + TTL <= now + 1 /\ since <= now + 1
    BY <1>1, <1>4, BucketSizes DEF AsOf, TypeOK
  <2>3. Account(Full, now + 1, since, granted, refunded, hasty)
    BY <1>1, <1>3, <2>2, AccountEviction DEF AsOf
  <2>4. PICK v : v = now + 1
    OBVIOUS
  <2>5. AsOf(v)'
    BY <1>2, <2>1, <2>3, <2>4 DEF AsOf, Held, NoBucket
  <2>6. v \in 0 .. now'
    BY <1>1, <2>4
  <2> QED BY <2>5, <2>6 DEF WindowInv
<1>5. CASE ~(bucket.present /\ expires <= now + 1)
  <2>1. UNCHANGED <<bucket, expires, dirty>>
    BY <1>5 DEF Tick
  <2>2. ASSUME NEW c \in Callers, Due(c, w) PROVE Due(c, w)'
    <3>1. /\ Computed(c)' = Computed(c) /\ Offered(c)' = Offered(c)
          /\ Held' = Held
      BY <1>2, <2>1 DEF Computed, Offered, Held, Lead
    <3>2. Computed(c) \in w .. (now + 1)
      BY <1>1, <2>2 DEF Due
    <3> QED BY <1>1, <1>2, <2>2, <3>1, <3>2 DEF Due
  <2>3. AsOf(w)'
    BY <1>2, <2>1, <2>2 DEF AsOf, Held
  <2>4. w \in 0 .. now'
    BY <1>1
  <2> QED BY <2>3, <2>4 DEF WindowInv
<1> QED BY <1>4, <1>5

\* A new window begins with nothing in it.
LEMMA WindowOpens ==
    ASSUME TypeOK, NEW w \in 0 .. now, AsOf(w), OpenWindow
    PROVE  WindowInv'
<1>1. /\ now \in Nat /\ w \in Nat /\ w <= now
      /\ Held \in 0 .. Full
  BY BucketSizes DEF TypeOK, Buckets, Held
<1>2. Max2(w, now) = now /\ now - now = 0 /\ now - w \in Nat
  BY <1>1 DEF Max2
<1>3. /\ RefillPerHour * (now - w) \in Nat
      /\ RefillPerHour * 0 = 0 /\ Token * 0 = 0 /\ RefillPerHour * Skew * 0 = 0
  BY <1>2, BucketSizes, Steady, ProductsOfNats
<1>4. Min2(Full, Held + RefillPerHour * (now - w)) <= Full
  BY <1>1, <1>3, BucketSizes DEF Min2
<1>5. Min2(Full, Held + RefillPerHour * (now - w)) \in Int
  BY <1>1, <1>3, BucketSizes DEF Min2
<1>6. Account(Held, w, now, 0, 0, 0)
  BY <1>2, <1>3, <1>4, <1>5, BucketSizes DEF Account
<1>7. /\ UNCHANGED <<bucket, expires, dirty, pc, op, raw, write, now>>
      /\ since' = now /\ granted' = 0 /\ refunded' = 0 /\ hasty' = 0
  BY DEF OpenWindow, callVars
<1>8. ASSUME NEW c \in Callers, Due(c, w) PROVE Due(c, w)'
  BY <1>7, <1>8 DEF Due, Computed, Offered, Held, Lead
<1>9. AsOf(w)'
  BY <1>6, <1>7, <1>8 DEF AsOf, Held
<1> QED BY <1>7, <1>9 DEF WindowInv

LEMMA WindowStep == TypeOK /\ WindowInv /\ [Next]_vars => WindowInv'
<1> SUFFICES ASSUME TypeOK, WindowInv, [Next]_vars PROVE WindowInv'
  OBVIOUS
<1>1. PICK w \in 0 .. now : AsOf(w)
  BY DEF WindowInv
<1>2. ASSUME NEW c \in Callers,
             \/ Call(c) \/ Watch(c) \/ Hmget(c) \/ RefundNothing(c)
             \/ WatchError(c) \/ Disconnect(c)
             \/ ComputeAcquire(c) \/ ComputeRefund(c)
      PROVE  WindowInv'
  <2> USE DEF Call, Watch, Hmget, RefundNothing, WatchError, Disconnect,
              ComputeAcquire, ComputeRefund, Goto, Finish
  <2>1. UNCHANGED <<bucket, expires, now, since, granted, refunded, hasty>>
    BY <1>2 DEF histVars
  <2>2. \A d \in Callers \ {c} : /\ pc'[d] = pc[d] /\ op'[d] = op[d]
                                 /\ raw'[d] = raw[d] /\ write'[d] = write[d]
                                 /\ d \in dirty <=> d \in dirty'
    BY <1>2 DEF TypeOK
  <2>3. c \notin dirty' =>
            /\ pc'[c] = "compute" => raw'[c] = bucket
            /\ pc'[c] = "execute" => /\ c \notin dirty
                                     /\ ComputeAcquire(c) \/ ComputeRefund(c)
    BY <1>2 DEF TypeOK, AfterWatchError
  <2>4. c \notin dirty' /\ pc'[c] = "execute" => Due(c, w)'
    BY <1>1, <2>3, DueAcquire, DueRefund
  <2>5. \A d \in Callers \ dirty' : pc'[d] = "compute" => raw'[d] = bucket
    BY <1>1, <2>2, <2>3 DEF AsOf
  <2>6. AsOf(w)'
    BY <1>1, <2>1, <2>2, <2>4, <2>5, WindowFrame
  <2> QED BY <1>1, <2>1, <2>6 DEF WindowInv
<1>3. ASSUME NEW c \in Callers, Execute(c) \/ ReplyLost(c) PROVE WindowInv'
  <2>1. /\ pc[c] = "execute" /\ Commits(c) /\ Store(c)
        /\ UNCHANGED <<now, since>>
        /\ granted' \in {granted,
                         IF write[c].allowed /\ write[c].to.last >= since
                         THEN granted + 1 ELSE granted}
    BY <1>3 DEF Execute, ReplyLost
  <2> QED BY <1>1, <2>1, WindowStore
<1>4. CASE Tick
  BY <1>1, <1>4, WindowTick
<1>5. CASE OpenWindow
  BY <1>1, <1>5, WindowOpens
<1>6. CASE UNCHANGED vars
  BY <1>6 DEF vars, callVars, histVars, WindowInv, AsOf, Due, Computed, Offered,
              Held, Lead
<1> QED BY <1>2, <1>3, <1>4, <1>5, <1>6 DEF Next, Advance

LEMMA WindowInvBounds == TypeOK /\ WindowInv => WindowBound
<1> SUFFICES ASSUME TypeOK, NEW w \in 0 .. now, AsOf(w) PROVE WindowBound
  BY DEF WindowInv
<1> DEFINE start == Max2(w, since)
           rest == Min2(Full, Held + RefillPerHour * (start - w))
<1>1. /\ now \in Nat /\ w \in Nat /\ since \in Nat /\ start \in Nat
      /\ w <= start /\ since <= start /\ start <= now
  BY DEF TypeOK, Max2
<1>2. Held \in 0 .. Full
  BY BucketSizes DEF TypeOK, Buckets, Held
<1>3. Token * granted + rest
          <= Full + RefillPerHour * (start - since) + Token * refunded
                  + RefillPerHour * Skew * hasty
  BY DEF AsOf, Account
<1> HIDE DEF start
<1>4. start - w \in Nat /\ start - since \in Nat /\ now - since \in Nat
      /\ start - since <= now - since
  BY <1>1
<1>5. RefillPerHour * (start - w) \in Nat
  BY <1>4, Steady, ProductsOfNats
<1>6. rest \in Nat
  BY <1>2, <1>5, BucketSizes DEF Min2
<1>7. RefillPerHour * (start - since) <= RefillPerHour * (now - since)
      /\ RefillPerHour * (start - since) \in Nat
      /\ RefillPerHour * (now - since) \in Nat
  BY <1>4, Steady, ProductsGrow, ProductsOfNats
<1>8. /\ Token * granted \in Nat /\ Token * refunded \in Nat
      /\ RefillPerHour * Skew * hasty \in Nat
  BY BucketSizes, Steady, ProductsOfNats DEF TypeOK
<1> HIDE DEF rest
<1> QED BY <1>3, <1>6, <1>7, <1>8, BucketSizes DEF WindowBound

\* No interleaving of any number of calls, no lost reply, no eviction and no
\* set of clocks ahead lets a guild have more than the bound in any window.
THEOREM WindowsAreBounded == Spec => []WindowBound
<1>1. TypeOK /\ Init => WindowInv
  BY WindowInitially
<1>2. TypeOK /\ WindowInv /\ [Next]_vars => WindowInv'
  BY WindowStep
<1>3. TypeOK /\ WindowInv => WindowBound
  BY WindowInvBounds
<1> QED BY <1>1, <1>2, <1>3, BucketsInRange, PTL DEF Spec
=============================================================================
