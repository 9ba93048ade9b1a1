--------------------------- MODULE BandwidthProofs ---------------------------
(***************************************************************************)
(* The quota theorems of Bandwidth, for every rate, time resolution, set of *)
(* streams and choice of frames.  IntervalBound rests on a trade-off: what  *)
(* an address could take now and what it took beyond the rate never exceed  *)
(* the capacity together (Account).                                         *)
(***************************************************************************)
EXTENDS Bandwidth, TLAPS

Account ==
  \A i \in IPs :
    /\ i \in DOMAIN buckets => Refilled(buckets[i]) + excess[i] <= Capacity
    /\ i \notin DOMAIN buckets => excess[i] = 0

(* A pipe that asks the limiter asks for something. *)
Loaded == \A s \in Pipes : phase[s] = "throttle" => pending[s] > 0

Inv == TypeOK /\ Account /\ Loaded

-----------------------------------------------------------------------------
(* The constants of a bucket: a bucket of age Full has gained its capacity. *)
LEMMA Constants ==
  /\ Rate \in Nat /\ Capacity \in Nat /\ Full \in Nat
  /\ Full * PerTick = Capacity
<1>1. PerTick * TicksPerSecond \in Nat /\ PerTick * TicksPerSecond = TicksPerSecond * PerTick
  BY BandwidthAssumption
<1>2. (2 * TicksPerSecond) * PerTick = 2 * (TicksPerSecond * PerTick)
  BY BandwidthAssumption
<1> QED
  BY <1>1, <1>2, BandwidthAssumption DEF Rate, Capacity, Full

(* What a bucket holds once it is refilled. *)
LEMMA RefilledType ==
  ASSUME NEW b \in TokenBucket
  PROVE  Refilled(b) \in 0..Capacity
<1>1. b.tokens \in Nat /\ b.age \in Nat /\ b.age * PerTick \in Nat
  BY Constants, BandwidthAssumption DEF TokenBucket
<1> QED
  BY <1>1, Constants DEF Refilled

(* A bucket just filled holds its tokens. *)
LEMMA RefilledNew ==
  ASSUME NEW t \in 0..Capacity
  PROVE  /\ [tokens |-> t, age |-> 0] \in TokenBucket
         /\ Refilled([tokens |-> t, age |-> 0]) = t
<1>1. 0 * PerTick = 0
  BY BandwidthAssumption
<1> QED
  BY <1>1, Constants DEF TokenBucket, Refilled

(* One tick more: the rate more, up to the capacity. *)
LEMMA RefilledTick ==
  ASSUME NEW b \in TokenBucket
  PROVE  LET c == [b EXCEPT !.age = IF @ < Full THEN @ + 1 ELSE @]
         IN  c \in TokenBucket /\ Refilled(c) = Ideal!Fill(Refilled(b))
<1> DEFINE c == [b EXCEPT !.age = IF @ < Full THEN @ + 1 ELSE @]
<1>1. /\ b.tokens \in Nat /\ b.age \in 0..Full /\ b.age * PerTick \in Nat
      /\ PerTick \in Nat /\ Capacity \in Nat /\ Full \in Nat
  BY Constants, BandwidthAssumption DEF TokenBucket
<1>2. c \in TokenBucket /\ c.tokens = b.tokens
  BY <1>1 DEF TokenBucket
<1>3. b.age < Full => c.age * PerTick = b.age * PerTick + PerTick
  <2> SUFFICES ASSUME b.age < Full PROVE c.age * PerTick = b.age * PerTick + PerTick
    OBVIOUS
  <2>1. c.age = b.age + 1
    BY <1>1 DEF TokenBucket
  <2>2. (b.age + 1) * PerTick = b.age * PerTick + PerTick
    BY <1>1
  <2> QED
    BY <2>1, <2>2
<1>4. b.age = Full => c.age * PerTick = Capacity /\ b.age * PerTick = Capacity
  BY <1>1, Constants DEF TokenBucket
<1> DEFINE u == b.age * PerTick
           w == c.age * PerTick
<1>5. /\ u \in Nat /\ b.tokens \in Nat /\ PerTick \in Nat /\ Capacity \in Nat
      /\ w = u + PerTick \/ (w = Capacity /\ u = Capacity)
  BY <1>1, <1>3, <1>4
<1>6. /\ Refilled(b) = IF b.tokens + u > Capacity THEN Capacity ELSE b.tokens + u
      /\ Refilled(c) = IF b.tokens + w > Capacity THEN Capacity ELSE b.tokens + w
  BY <1>2 DEF Refilled
<1> HIDE DEF u, w, c
<1>7. Refilled(c) = Ideal!Fill(Refilled(b))
  BY <1>5, <1>6 DEF Ideal!Fill
<1> QED
  BY <1>2, <1>7 DEF c

(* The bucket of an address, existing or new. *)
LEMMA BucketType ==
  ASSUME TypeOK, NEW i \in IPs
  PROVE  /\ Bucket(i) \in TokenBucket
         /\ Refilled(Bucket(i)) \in 0..Capacity
         /\ i \notin DOMAIN buckets => Refilled(Bucket(i)) = 0
<1>1. CASE i \in DOMAIN buckets
  BY <1>1, RefilledType DEF TypeOK, Bucket
<1>2. CASE i \notin DOMAIN buckets
  <2>1. 0 \in 0..Capacity
    BY Constants
  <2> QED
    BY <1>2, <2>1, RefilledNew DEF Bucket
<1> QED
  BY <1>1, <1>2

-----------------------------------------------------------------------------
(* A granted amount: the account is kept and the ideal bucket takes a step. *)
LEMMA ConsumedKeeps ==
  ASSUME Inv, NEW i \in IPs, NEW n \in Nat \ {0}, Consumed(i, n)
  PROVE  /\ DOMAIN buckets' \subseteq IPs /\ buckets' \in [DOMAIN buckets' -> TokenBucket]
         /\ excess' \in [IPs -> Nat]
         /\ Account'
         /\ Ideal!Take(i, n) /\ n \in 1..Capacity
<1> DEFINE lv == Refilled(Bucket(i))
           nb == [tokens |-> lv - n, age |-> 0]
<1>1. lv \in 0..Capacity /\ Capacity \in Nat /\ lv >= n
      /\ (i \notin DOMAIN buckets => lv = 0)
  BY BucketType, Constants DEF Inv, Consumed
<1>2. i \in DOMAIN buckets /\ lv = Refilled(buckets[i]) /\ lv - n \in 0..Capacity
  BY <1>1 DEF Bucket
<1>3. /\ buckets' = [j \in DOMAIN buckets \cup {i} |-> IF j = i THEN nb ELSE buckets[j]]
      /\ excess' = [excess EXCEPT ![i] = @ + n]
  BY DEF Consumed, Put
<1>4. nb \in TokenBucket /\ Refilled(nb) = lv - n
  BY <1>2, RefilledNew
<1> HIDE DEF nb, lv
<1>5. /\ DOMAIN buckets' = DOMAIN buckets
      /\ buckets' \in [DOMAIN buckets -> TokenBucket]
      /\ buckets'[i] = nb
      /\ \A j \in DOMAIN buckets : j # i => buckets'[j] = buckets[j]
  BY <1>2, <1>3, <1>4 DEF Inv, TypeOK
<1>6. /\ excess' \in [IPs -> Nat] /\ excess'[i] = excess[i] + n /\ excess[i] \in Nat
      /\ \A j \in IPs : j # i => excess'[j] = excess[j]
  BY <1>3 DEF Inv, TypeOK
<1>7. Account'
  <2> SUFFICES ASSUME NEW j \in IPs
               PROVE  /\ j \in DOMAIN buckets => Refilled(buckets'[j]) + excess'[j] <= Capacity
                      /\ j \notin DOMAIN buckets => excess'[j] = 0
    BY <1>5 DEF Account, Refilled
  <2>1. CASE j = i
    BY <2>1, <1>1, <1>2, <1>4, <1>5, <1>6 DEF Inv, Account
  <2>2. CASE j # i
    BY <2>2, <1>2, <1>5, <1>6 DEF Inv, Account
  <2> QED
    BY <2>1, <2>2
<1>8. Ideal!Take(i, n)
  <2>1. Avail' = [j \in DOMAIN buckets |-> Refilled(buckets'[j])]
    BY <1>5 DEF Avail, Refilled
  <2>2. Avail' = [Avail EXCEPT ![i] = @ - n]
    BY <2>1, <1>2, <1>4, <1>5 DEF Avail
  <2> QED
    BY <2>2, <1>1, <1>2 DEF Ideal!Take, Avail
<1> QED
  BY <1>1, <1>5, <1>6, <1>7, <1>8 DEF Inv, TypeOK

(* A refused amount: the account is kept and the ideal bucket stands still. *)
LEMMA RefusedKeeps ==
  ASSUME Inv, NEW i \in IPs, NEW n \in Nat, Refused(i, n)
  PROVE  /\ DOMAIN buckets' \subseteq IPs /\ buckets' \in [DOMAIN buckets' -> TokenBucket]
         /\ excess' \in [IPs -> Nat]
         /\ Account'
         /\ Ideal!Create(i) \/ UNCHANGED Avail
<1> DEFINE lv == Refilled(Bucket(i))
           nb == [tokens |-> lv, age |-> 0]
<1>1. lv \in 0..Capacity /\ Capacity \in Nat /\ (i \notin DOMAIN buckets => lv = 0)
  BY BucketType, Constants DEF Inv
<1>2. i \in DOMAIN buckets => lv = Refilled(buckets[i])
  BY DEF Bucket
<1>3. /\ buckets' = [j \in DOMAIN buckets \cup {i} |-> IF j = i THEN nb ELSE buckets[j]]
      /\ excess' = excess
  BY DEF Refused, Put
<1>4. nb \in TokenBucket /\ Refilled(nb) = lv
  BY <1>1, RefilledNew
<1> HIDE DEF nb, lv
<1>5. /\ DOMAIN buckets' = DOMAIN buckets \cup {i}
      /\ buckets' \in [DOMAIN buckets' -> TokenBucket]
      /\ buckets'[i] = nb
      /\ \A j \in DOMAIN buckets : j # i => buckets'[j] = buckets[j]
  BY <1>3, <1>4 DEF Inv, TypeOK
<1>6. Account'
  <2> SUFFICES ASSUME NEW j \in IPs
               PROVE  /\ j \in DOMAIN buckets' => Refilled(buckets'[j]) + excess[j] <= Capacity
                      /\ j \notin DOMAIN buckets' => excess[j] = 0
    BY <1>3 DEF Account, Refilled
  <2>1. CASE j = i
    <3>1. CASE i \in DOMAIN buckets
      BY <3>1, <2>1, <1>2, <1>4, <1>5 DEF Inv, Account
    <3>2. CASE i \notin DOMAIN buckets
      BY <3>2, <2>1, <1>1, <1>4, <1>5 DEF Inv, Account
    <3> QED
      BY <3>1, <3>2
  <2>2. CASE j # i
    BY <2>2, <1>5 DEF Inv, Account
  <2> QED
    BY <2>1, <2>2
<1>7. Avail' = [j \in DOMAIN buckets \cup {i} |-> Refilled(buckets'[j])]
  BY <1>5 DEF Avail, Refilled
<1>8. CASE i \in DOMAIN buckets
  <2>1. Avail' = [j \in DOMAIN buckets |-> Refilled(buckets[j])]
    BY <1>7, <1>8, <1>2, <1>4, <1>5
  <2> QED
    BY <2>1, <1>3, <1>5, <1>6 DEF Avail, Inv, TypeOK
<1>9. CASE i \notin DOMAIN buckets
  <2>1. DOMAIN Avail = DOMAIN buckets /\ \A j \in DOMAIN buckets : Avail[j] = Refilled(buckets[j])
    BY DEF Avail
  <2>2. Avail' = [j \in DOMAIN Avail \cup {i} |-> IF j = i THEN 0 ELSE Avail[j]]
    BY <2>1, <1>1, <1>4, <1>5, <1>7, <1>9
  <2>3. Ideal!Create(i)
    BY <2>1, <2>2, <1>9 DEF Ideal!Create
  <2> QED
    BY <2>3, <1>3, <1>5, <1>6 DEF Inv, TypeOK
<1> QED
  BY <1>8, <1>9

(* Time: the account is kept, and every ideal bucket fills. *)
LEMMA TickKeeps ==
  ASSUME Inv, Tick
  PROVE  Inv' /\ Ideal!Elapse
<1> DEFINE Older(b) == [b EXCEPT !.age = IF @ < Full THEN @ + 1 ELSE @]
<1>1. /\ buckets' = [i \in DOMAIN buckets |-> Older(buckets[i])]
      /\ excess' = [i \in IPs |-> IF excess[i] > PerTick THEN excess[i] - PerTick ELSE 0]
      /\ UNCHANGED <<load, next, pending, phase, out>>
  BY DEF Tick
<1>2. \A b \in TokenBucket :
        Older(b) \in TokenBucket /\ Refilled(Older(b)) = Ideal!Fill(Refilled(b))
  BY RefilledTick
<1> HIDE DEF Older
<1>3. /\ DOMAIN buckets' = DOMAIN buckets
      /\ buckets' \in [DOMAIN buckets -> TokenBucket]
      /\ \A i \in DOMAIN buckets :
           buckets[i] \in TokenBucket /\ Refilled(buckets'[i]) = Ideal!Fill(Refilled(buckets[i]))
  BY <1>1, <1>2 DEF Inv, TypeOK
<1>4. /\ excess' \in [IPs -> Nat] /\ PerTick \in Nat /\ Capacity \in Nat
      /\ \A i \in IPs : excess[i] \in Nat
      /\ \A i \in IPs : excess'[i] = IF excess[i] > PerTick THEN excess[i] - PerTick ELSE 0
  BY <1>1, BandwidthAssumption, Constants DEF Inv, TypeOK
<1>5. TypeOK'
  BY <1>1, <1>3, <1>4 DEF Inv, TypeOK
<1>6. Account'
  <2> SUFFICES ASSUME NEW i \in IPs
               PROVE  /\ i \in DOMAIN buckets => Refilled(buckets'[i]) + excess'[i] <= Capacity
                      /\ i \notin DOMAIN buckets => excess'[i] = 0
    BY <1>3 DEF Account, Refilled
  <2>1. CASE i \in DOMAIN buckets
    <3> DEFINE lv == Refilled(buckets[i])
    <3>1. lv \in 0..Capacity /\ lv + excess[i] <= Capacity
          /\ Refilled(buckets'[i]) = Ideal!Fill(lv)
      BY <2>1, <1>3, RefilledType DEF Inv, Account
    <3> HIDE DEF lv
    <3> QED
      BY <2>1, <3>1, <1>4 DEF Ideal!Fill
  <2>2. CASE i \notin DOMAIN buckets
    BY <2>2, <1>4 DEF Inv, Account
  <2> QED
    BY <2>1, <2>2
<1>7. Loaded'
  BY <1>1 DEF Inv, Loaded
<1>8. Ideal!Elapse
  <2>1. Avail' = [i \in DOMAIN buckets |-> Refilled(buckets'[i])]
    BY <1>3 DEF Avail, Refilled
  <2>2. DOMAIN Avail = DOMAIN buckets /\ \A i \in DOMAIN buckets : Avail[i] = Refilled(buckets[i])
    BY DEF Avail
  <2> QED
    BY <2>1, <2>2, <1>3 DEF Ideal!Elapse
<1> QED
  BY <1>5, <1>6, <1>7, <1>8 DEF Inv

(* What a step means to the ideal bucket. *)
IdealStep == Ideal!Next \/ UNCHANGED Avail

(* The steps that do not touch a bucket. *)
LEMMA QuietKeeps ==
  ASSUME Inv, UNCHANGED <<buckets, excess>>, TypeOK', Loaded'
  PROVE  Inv' /\ IdealStep
<1>1. Account'
  BY DEF Inv, Account, Refilled
<1>2. UNCHANGED Avail
  BY DEF Avail, Refilled
<1> QED
  BY <1>1, <1>2 DEF Inv, IdealStep

(* The steps that ask the limiter for something. *)
LEMMA AskKeeps ==
  ASSUME Inv, NEW i \in IPs, NEW n \in Nat \ {0}, Consumed(i, n) \/ Refused(i, n),
         load' = load, next' \in [Streams -> Nat \ {0}], pending' \in [Streams -> Nat],
         phase' \in [Streams -> {"read", "throttle", "write", "done"}],
         out' \in [Streams -> Seq(Nat)], Loaded'
  PROVE  Inv' /\ IdealStep
<1>1. CASE Consumed(i, n)
  <2>1. /\ DOMAIN buckets' \subseteq IPs /\ buckets' \in [DOMAIN buckets' -> TokenBucket]
        /\ excess' \in [IPs -> Nat] /\ Account' /\ Ideal!Take(i, n) /\ n \in 1..Capacity
    BY <1>1, ConsumedKeeps
  <2> QED
    BY <2>1 DEF Inv, TypeOK, IdealStep, Ideal!Next
<1>2. CASE Refused(i, n)
  <2>1. /\ DOMAIN buckets' \subseteq IPs /\ buckets' \in [DOMAIN buckets' -> TokenBucket]
        /\ excess' \in [IPs -> Nat] /\ Account' /\ (Ideal!Create(i) \/ UNCHANGED Avail)
    BY <1>2, RefusedKeeps
  <2> QED
    BY <2>1 DEF Inv, TypeOK, IdealStep, Ideal!Next
<1> QED
  BY <1>1, <1>2

-----------------------------------------------------------------------------
(* The frames of a stream are numbers of bytes. *)
LEMMA FrameType ==
  ASSUME TypeOK, NEW s \in Streams, More(s)
  PROVE  Frame(s) \in Nat
<1>1. load[s] \in Seq(Nat) /\ next[s] \in Nat \ {0}
  BY BandwidthAssumption DEF TypeOK
<1> QED
  BY <1>1 DEF More, Frame

(* Appending a position to what a stream passed on. *)
LEMMA PassType ==
  ASSUME TypeOK, NEW s \in Streams, NEW k \in Nat, Pass(s, k)
  PROVE  out' \in [Streams -> Seq(Nat)]
<1>1. Append(out[s], k) \in Seq(Nat)
  BY DEF TypeOK
<1> QED
  BY <1>1 DEF TypeOK, Pass

(* Every step of a body keeps the invariant and is a step of the ideal bucket. *)
LEMMA BodyKeeps ==
  ASSUME Inv, NEW s \in Bodies, BodyStep(s)
  PROVE  Inv' /\ IdealStep
<1>0. s \in Streams /\ s \notin Pipes /\ Owner[s] \in IPs /\ Pipes \subseteq Streams
  BY BandwidthAssumption DEF Streams
<1>1. CASE PollPending(s)
  <2>1. pending[s] \in Nat \ {0}
    BY <1>0, <1>1 DEF PollPending, Inv, TypeOK
  <2>2. /\ Consumed(Owner[s], pending[s]) \/ Refused(Owner[s], pending[s])
        /\ pending' = [pending EXCEPT ![s] = 0] \/ pending' = pending
        /\ UNCHANGED <<load, next, phase, out>>
    BY <1>1 DEF PollPending, Pending
  <2>3. pending' \in [Streams -> Nat]
    <3>1. pending \in [Streams -> Nat]
      BY DEF Inv, TypeOK
    <3>2. [pending EXCEPT ![s] = 0] \in [Streams -> Nat]
      BY <3>1
    <3>3. pending' = [pending EXCEPT ![s] = 0] \/ pending' = pending
      BY <2>2
    <3> QED
      BY <3>1, <3>2, <3>3
  <2>4. \A p \in Pipes : pending'[p] = pending[p]
    BY <1>0, <2>2 DEF Inv, TypeOK
  <2>5. Loaded'
    BY <2>2, <2>4 DEF Inv, Loaded
  <2> QED
    BY <1>0, <2>1, <2>2, <2>3, <2>5, AskKeeps DEF Inv, TypeOK
<1>2. CASE PollFree(s)
  <2>1. next[s] \in Nat
    BY <1>0 DEF Inv, TypeOK
  <2>2. out' \in [Streams -> Seq(Nat)]
    BY <1>0, <1>2, <2>1, PassType DEF PollFree, Inv
  <2>5. next' \in [Streams -> Nat \ {0}]
    BY <1>0, <1>2 DEF PollFree, Inv, TypeOK, Take
  <2>6. UNCHANGED <<buckets, load, pending, phase, excess>>
    BY <1>2 DEF PollFree
  <2>3. TypeOK' /\ UNCHANGED <<buckets, excess>>
    BY <2>2, <2>5, <2>6 DEF Inv, TypeOK
  <2>4. Loaded'
    BY <1>2 DEF PollFree, Inv, Loaded
  <2> QED
    BY <2>3, <2>4, QuietKeeps
<1>3. CASE PollData(s)
  <2>1. Frame(s) \in Nat \ {0} /\ next[s] \in Nat
    BY <1>0, <1>3, FrameType DEF PollData, Inv, TypeOK
  <2>2. /\ Consumed(Owner[s], Frame(s)) \/ Refused(Owner[s], Frame(s))
        /\ pending' = [pending EXCEPT ![s] = Frame(s)] \/ pending' = pending
        /\ Pass(s, next[s]) \/ out' = out
        /\ next' = [next EXCEPT ![s] = @ + 1]
        /\ UNCHANGED <<load, phase>>
    BY <1>3 DEF PollData, Pending, Take
  <2>3. out' \in [Streams -> Seq(Nat)]
    BY <1>0, <2>1, <2>2, PassType DEF Inv, TypeOK
  <2>4. /\ next' \in [Streams -> Nat \ {0}] /\ pending' \in [Streams -> Nat]
        /\ phase' \in [Streams -> {"read", "throttle", "write", "done"}]
    BY <1>0, <2>1, <2>2 DEF Inv, TypeOK
  <2>5. \A p \in Pipes : pending'[p] = pending[p]
    BY <1>0, <2>2 DEF Inv, TypeOK
  <2>6. Loaded'
    BY <2>2, <2>5 DEF Inv, Loaded
  <2> QED
    BY <1>0, <2>1, <2>2, <2>3, <2>4, <2>6, AskKeeps
<1>4. CASE BodyEnd(s) \/ BodyAbort(s)
  <2>1. TypeOK' /\ Loaded' /\ UNCHANGED <<buckets, excess>>
    BY <1>0, <1>4 DEF BodyEnd, BodyAbort, Phase, Inv, TypeOK, Loaded
  <2> QED
    BY <2>1, QuietKeeps
<1> QED
  BY <1>1, <1>2, <1>3, <1>4 DEF BodyStep

(* So is every step of a pipe. *)
LEMMA PipeKeeps ==
  ASSUME Inv, NEW s \in Pipes, PipeStep(s)
  PROVE  Inv' /\ IdealStep
<1>0. s \in Streams /\ Owner[s] \in IPs /\ Pipes \subseteq Streams
  BY BandwidthAssumption DEF Streams
<1>1. CASE PipeRead(s)
  <2>1. Frame(s) \in Nat \ {0}
    BY <1>0, <1>1, FrameType DEF PipeRead, Inv, TypeOK
  <2>2. TypeOK' /\ Loaded' /\ UNCHANGED <<buckets, excess>>
    BY <1>0, <1>1, <2>1 DEF PipeRead, Pending, Phase, Take, Inv, TypeOK, Loaded
  <2> QED
    BY <2>2, QuietKeeps
<1>2. CASE PipeEnd(s)
  <2>1. TypeOK' /\ Loaded' /\ UNCHANGED <<buckets, excess>>
    BY <1>0, <1>2 DEF PipeEnd, Phase, Inv, TypeOK, Loaded
  <2> QED
    BY <2>1, QuietKeeps
<1>3. CASE PipeThrottle(s)
  <2>1. pending[s] \in Nat \ {0}
    BY <1>0, <1>3 DEF PipeThrottle, Paid, Inv, TypeOK, Loaded
  <2>2. /\ UNCHANGED <<load, next, pending, out>>
        /\ phase' = [phase EXCEPT ![s] = "write"] \/ phase' = phase
        /\ \/ UNCHANGED <<buckets, excess>>
           \/ Consumed(Owner[s], pending[s]) \/ Refused(Owner[s], pending[s])
    BY <1>3 DEF PipeThrottle, Paid, Phase
  <2>3. /\ phase' \in [Streams -> {"read", "throttle", "write", "done"}]
        /\ \A p \in Streams : phase'[p] = "throttle" => phase[p] = "throttle"
    BY <1>0, <2>2 DEF Inv, TypeOK
  <2>6. Loaded'
    BY <1>0, <2>2, <2>3 DEF Inv, Loaded
  <2>4. CASE UNCHANGED <<buckets, excess>>
    BY <2>2, <2>3, <2>4, <2>6, QuietKeeps DEF Inv, TypeOK
  <2>5. CASE Consumed(Owner[s], pending[s]) \/ Refused(Owner[s], pending[s])
    BY <1>0, <2>1, <2>2, <2>3, <2>5, <2>6, AskKeeps DEF Inv, TypeOK
  <2> QED
    BY <2>2, <2>4, <2>5
<1>4. CASE PipeWrite(s)
  <2>1. next[s] - 1 \in Nat
    BY <1>0 DEF Inv, TypeOK
  <2>2. out' \in [Streams -> Seq(Nat)]
    BY <1>0, <1>4, <2>1, PassType DEF PipeWrite, Inv
  <2>3. TypeOK' /\ UNCHANGED <<buckets, excess>>
    BY <1>0, <1>4, <2>2 DEF PipeWrite, Pending, Phase, Inv, TypeOK
  <2>4. Loaded'
    BY <1>0, <1>4 DEF PipeWrite, Pending, Phase, Inv, TypeOK, Loaded
  <2> QED
    BY <2>3, <2>4, QuietKeeps
<1> QED
  BY <1>1, <1>2, <1>3, <1>4 DEF PipeStep

(* Every step keeps the invariant and is a step of the ideal bucket. *)
LEMMA StepKeeps ==
  ASSUME Inv, [Next]_vars
  PROVE  Inv' /\ IdealStep
<1>1. ASSUME NEW s \in Streams, NEW l \in Loads, Start(s, l)
      PROVE  Inv' /\ IdealStep
  <2>2. out' \in [Streams -> Seq(Nat)]
    <3>1. <<>> \in Seq(Nat)
      OBVIOUS
    <3> QED
      BY <1>1, <3>1 DEF Start, Inv, TypeOK
  <2>3. TypeOK'
    BY <1>1, <2>2 DEF Start, Pending, Phase, Inv, TypeOK
  <2>4. Loaded'
    BY <1>1 DEF Start, Pending, Phase, Inv, TypeOK, Loaded, Streams
  <2>1. TypeOK' /\ Loaded' /\ UNCHANGED <<buckets, excess>>
    BY <1>1, <2>3, <2>4 DEF Start
  <2> QED
    BY <2>1, QuietKeeps
<1>2. CASE UNCHANGED vars
  <2>1. TypeOK' /\ Loaded' /\ UNCHANGED <<buckets, excess>>
    BY <1>2 DEF vars, Inv, TypeOK, Loaded
  <2> QED
    BY <2>1, QuietKeeps
<1>3. CASE Tick
  BY <1>3, TickKeeps DEF IdealStep, Ideal!Next
<1> QED
  BY <1>1, <1>2, <1>3, BodyKeeps, PipeKeeps DEF Next

(* Inv is an inductive invariant of the limiter and its streams. *)
LEMMA Invariance == Spec => []Inv
<1>1. Init => Inv
  <2> SUFFICES ASSUME Init PROVE Inv
    OBVIOUS
  <2>1. TypeOK
    <3>1. DOMAIN buckets = {} /\ buckets \in [DOMAIN buckets -> TokenBucket]
      BY DEF Init
    <3>2. <<>> \in Seq(Nat)
      OBVIOUS
    <3>3. out \in [Streams -> Seq(Nat)]
      BY <3>2 DEF Init
    <3>4. /\ next \in [Streams -> Nat \ {0}] /\ pending \in [Streams -> Nat]
          /\ phase \in [Streams -> {"read", "throttle", "write", "done"}]
          /\ excess \in [IPs -> Nat] /\ load \in [Streams -> Loads]
      BY DEF Init
    <3> QED
      BY <3>1, <3>3, <3>4 DEF TypeOK
  <2>2. Account /\ Loaded
    BY DEF Init, Account, Loaded, Streams
  <2> QED
    BY <2>1, <2>2 DEF Inv
<1>2. Inv /\ [Next]_vars => Inv'
  BY StepKeeps
<1> QED
  BY <1>1, <1>2, PTL DEF Spec

-----------------------------------------------------------------------------
(* Buckets, streams and their amounts keep their types (bandwidth.rs). *)
THEOREM BandwidthTypeCorrect == Spec => []TypeOK
BY Invariance, PTL DEF Inv

(***************************************************************************)
(* Over no interval is an address granted more than two seconds' worth plus *)
(* the rate times the interval's length (bandwidth.rs: consume).            *)
(***************************************************************************)
THEOREM QuotaOverEveryInterval == Spec => []IntervalBound
<1>1. Inv => IntervalBound
  <2> SUFFICES ASSUME Inv, NEW i \in IPs PROVE excess[i] <= Capacity
    BY DEF IntervalBound
  <2>1. excess[i] \in Nat /\ Capacity \in Nat
    BY Constants DEF Inv, TypeOK
  <2>2. CASE i \in DOMAIN buckets
    <3>1. Refilled(buckets[i]) \in 0..Capacity
      BY <2>2, RefilledType DEF Inv, TypeOK
    <3> QED
      BY <2>1, <2>2, <3>1 DEF Inv, Account
  <2>3. CASE i \notin DOMAIN buckets
    BY <2>1, <2>3 DEF Inv, Account
  <2> QED
    BY <2>2, <2>3
<1> QED
  BY Invariance, <1>1, PTL

(***************************************************************************)
(* The token buckets of bandwidth.rs implement the ideal bucket, which      *)
(* fills continuously.                                                      *)
(***************************************************************************)
THEOREM LazyRefill == Spec => LazyIsIdeal
<1>1. Init => Ideal!Init
  BY DEF Init, Ideal!Init, Avail
<1>2. Inv /\ [Next]_vars => [Ideal!Next]_Avail
  BY StepKeeps DEF IdealStep
<1> QED
  BY Invariance, <1>1, <1>2, PTL DEF Spec, LazyIsIdeal, Ideal!Spec

-----------------------------------------------------------------------------
(***************************************************************************)
(* What a WebSocket direction has done, from its phase p, the number n of   *)
(* the next chunk, the size q of the one in its buffer and its output o:    *)
(* there is a chunk in the buffer exactly while it is throttled or written, *)
(* and all those before it are out.                                         *)
(***************************************************************************)
PipeAt(p, n, q, o) ==
  /\ p = "read" => q = 0
  /\ p \in {"throttle", "write"} => q > 0
  /\ q > 0 => n > 1
  /\ o = UpTo(IF q > 0 THEN n - 2 ELSE n - 1)

(* What a body has done with its frames l. *)
BodyAt(n, o, l) ==
  /\ \A j, k \in DOMAIN o : j < k => o[j] < o[k]
  /\ \A j \in DOMAIN o : o[j] \in 1..(n - 1)
  /\ \A k \in 1..(n - 1) : l[k] = 0 => \E j \in DOMAIN o : o[j] = k

StreamsInv ==
  /\ \A s \in Pipes : PipeAt(phase[s], next[s], pending[s], out[s])
  /\ \A s \in Bodies : BodyAt(next[s], out[s], load[s])

(* One frame more. *)
LEMMA UpToAppend ==
  ASSUME NEW n \in Nat
  PROVE  Append(UpTo(n), n + 1) = UpTo(n + 1)
<1>1. UpTo(n) \in Seq(Nat) /\ Len(UpTo(n)) = n
  BY DEF UpTo
<1>2. UpTo(n + 1) \in Seq(Nat) /\ Len(UpTo(n + 1)) = n + 1
  BY DEF UpTo
<1>3. /\ Append(UpTo(n), n + 1) \in Seq(Nat) /\ Len(Append(UpTo(n), n + 1)) = n + 1
      /\ \A k \in 1..(n + 1) : Append(UpTo(n), n + 1)[k] = IF k <= n THEN UpTo(n)[k] ELSE n + 1
  BY <1>1
<1>4. \A k \in 1..(n + 1) : Append(UpTo(n), n + 1)[k] = UpTo(n + 1)[k]
  BY <1>3 DEF UpTo
<1> QED
  BY <1>2, <1>3, <1>4

(* A body passes on the frame it takes ... *)
LEMMA BodyPasses ==
  ASSUME NEW n \in Nat \ {0}, NEW o \in Seq(Nat), NEW l, BodyAt(n, o, l)
  PROVE  BodyAt(n + 1, Append(o, n), l)
<1> DEFINE oo == Append(o, n)
<1>1. /\ DOMAIN oo = 1..(Len(o) + 1) /\ DOMAIN o = 1..Len(o) /\ Len(o) \in Nat
      /\ \A j \in 1..Len(o) : oo[j] = o[j]
      /\ oo[Len(o) + 1] = n
  OBVIOUS
<1>2. \A j \in 1..Len(o) : oo[j] \in 1..(n - 1)
  BY <1>1 DEF BodyAt
<1>3. \A j \in 1..(Len(o) + 1) : j \in 1..Len(o) \/ j = Len(o) + 1
  BY <1>1
<1> HIDE DEF oo
<1>4. \A j, k \in DOMAIN oo : j < k => oo[j] < oo[k]
  <2> SUFFICES ASSUME NEW j \in DOMAIN oo, NEW k \in DOMAIN oo, j < k
               PROVE  oo[j] < oo[k]
    OBVIOUS
  <2>1. j \in 1..Len(o)
    BY <1>1
  <2>2. CASE k \in 1..Len(o)
    BY <1>1, <2>1, <2>2 DEF BodyAt
  <2>3. CASE k = Len(o) + 1
    BY <1>1, <1>2, <2>1, <2>3
  <2> QED
    BY <1>1, <1>3, <2>2, <2>3
<1>5. \A j \in DOMAIN oo : oo[j] \in 1..(n + 1 - 1)
  BY <1>1, <1>2, <1>3
<1>6. ASSUME NEW k \in 1..(n + 1 - 1), l[k] = 0
      PROVE  \E j \in DOMAIN oo : oo[j] = k
  <2>1. CASE k = n
    BY <1>1, <2>1
  <2>2. CASE k \in 1..(n - 1)
    <3>1. PICK j \in DOMAIN o : o[j] = k
      BY <1>6, <2>2 DEF BodyAt
    <3> QED
      BY <1>1, <3>1
  <2> QED
    BY <2>1, <2>2
<1>7. BodyAt(n + 1, oo, l)
  BY <1>4, <1>5, <1>6 DEF BodyAt
<1> QED
  BY <1>7 DEF oo

(* ... or drops it, but only a frame with data. *)
LEMMA BodyDrops ==
  ASSUME NEW n \in Nat \ {0}, NEW o \in Seq(Nat), NEW l, BodyAt(n, o, l), l[n] # 0
  PROVE  BodyAt(n + 1, o, l)
<1>1. \A j \in DOMAIN o : o[j] \in 1..(n + 1 - 1)
  BY DEF BodyAt
<1>2. \A k \in 1..(n + 1 - 1) : k = n \/ k \in 1..(n - 1)
  OBVIOUS
<1> QED
  BY <1>1, <1>2 DEF BodyAt

(* A stream moves alone. *)
Alone(s) ==
  \A u \in Streams : u # s =>
    phase'[u] = phase[u] /\ next'[u] = next[u] /\ pending'[u] = pending[u] /\ out'[u] = out[u]

(* A step of one stream concerns no other. *)
LEMMA AloneKeeps ==
  ASSUME StreamsInv, NEW s \in Streams, Alone(s), UNCHANGED load,
         s \in Pipes => PipeAt(phase'[s], next'[s], pending'[s], out'[s]),
         s \in Bodies => BodyAt(next'[s], out'[s], load[s])
  PROVE  StreamsInv'
BY DEF StreamsInv, Alone, Streams

(* What a stream is made of. *)
LEMMA StreamType ==
  ASSUME TypeOK, NEW s \in Streams
  PROVE  /\ next[s] \in Nat \ {0} /\ pending[s] \in Nat /\ out[s] \in Seq(Nat)
         /\ phase[s] \in {"read", "throttle", "write", "done"}
BY DEF TypeOK

(* A body keeps its frames in order. *)
LEMMA BodyOrder ==
  ASSUME TypeOK, StreamsInv, NEW s \in Bodies, BodyStep(s)
  PROVE  StreamsInv'
<1>0. s \in Streams /\ s \notin Pipes
  BY BandwidthAssumption DEF Streams
<1>1. /\ next[s] \in Nat \ {0} /\ pending[s] \in Nat /\ out[s] \in Seq(Nat)
  BY <1>0, StreamType
<1>2. BodyAt(next[s], out[s], load[s])
  BY DEF StreamsInv
<1> USE DEF Take, Pass, Pending, Phase
<1>3. CASE PollPending(s)
  BY <1>0, <1>2, <1>3, AloneKeeps DEF PollPending, Alone, TypeOK
<1>4. CASE PollFree(s)
  <2>1. /\ next'[s] = next[s] + 1 /\ out'[s] = Append(out[s], next[s])
        /\ Alone(s) /\ UNCHANGED load
    BY <1>0, <1>4 DEF PollFree, Alone, TypeOK
  <2>2. BodyAt(next[s] + 1, Append(out[s], next[s]), load[s])
    BY <1>1, <1>2, BodyPasses
  <2> QED
    BY <1>0, <2>1, <2>2, AloneKeeps
<1>5. CASE PollData(s)
  <2>1. /\ next'[s] = next[s] + 1 /\ Alone(s) /\ UNCHANGED load
        /\ load[s][next[s]] # 0
        /\ out'[s] = Append(out[s], next[s]) \/ out'[s] = out[s]
    <3>1. Frame(s) > 0 => Frame(s) # 0
      OBVIOUS
    <3> QED
      BY <1>0, <1>5, <3>1 DEF PollData, Alone, TypeOK, Frame
  <2>2. /\ BodyAt(next[s] + 1, Append(out[s], next[s]), load[s])
        /\ BodyAt(next[s] + 1, out[s], load[s])
    BY <1>1, <1>2, <2>1, BodyPasses, BodyDrops
  <2> QED
    BY <1>0, <2>1, <2>2, AloneKeeps
<1>6. CASE BodyEnd(s) \/ BodyAbort(s)
  BY <1>0, <1>2, <1>6, AloneKeeps DEF BodyEnd, BodyAbort, Alone, TypeOK
<1> QED
  BY <1>3, <1>4, <1>5, <1>6 DEF BodyStep

(* A WebSocket direction keeps its chunks. *)
LEMMA PipeOrder ==
  ASSUME TypeOK, StreamsInv, NEW s \in Pipes, PipeStep(s)
  PROVE  StreamsInv'
<1>0. s \in Streams /\ s \notin Bodies
  BY BandwidthAssumption DEF Streams
<1>1. /\ next[s] \in Nat \ {0} /\ pending[s] \in Nat /\ out[s] \in Seq(Nat)
  BY <1>0, StreamType
<1>2. PipeAt(phase[s], next[s], pending[s], out[s])
  BY DEF StreamsInv
<1> USE DEF Take, Pass, Pending, Phase
<1>3. CASE PipeRead(s)
  <2>1. /\ next'[s] = next[s] + 1 /\ out'[s] = out[s] /\ phase'[s] = "throttle"
        /\ pending'[s] = Frame(s) /\ Frame(s) > 0 /\ phase[s] = "read"
        /\ Alone(s) /\ UNCHANGED load
    BY <1>0, <1>3 DEF PipeRead, Alone, TypeOK
  <2>2. (next[s] + 1) - 2 = next[s] - 1 /\ next[s] + 1 > 1 /\ ~(0 > 0)
    BY <1>1
  <2>3. PipeAt("throttle", next[s] + 1, Frame(s), out[s])
    BY <1>2, <2>1, <2>2 DEF PipeAt
  <2> QED
    BY <1>0, <2>1, <2>3, AloneKeeps
<1>4. CASE PipeEnd(s)
  <2>1. /\ next'[s] = next[s] /\ out'[s] = out[s] /\ phase'[s] = "done"
        /\ pending'[s] = pending[s] /\ Alone(s) /\ UNCHANGED load
    BY <1>0, <1>4 DEF PipeEnd, Alone, TypeOK
  <2>2. PipeAt("done", next[s], pending[s], out[s])
    BY <1>2 DEF PipeAt
  <2> QED
    BY <1>0, <2>1, <2>2, AloneKeeps
<1>5. CASE PipeThrottle(s)
  <2>1. /\ next'[s] = next[s] /\ out'[s] = out[s] /\ phase[s] = "throttle"
        /\ phase'[s] \in {"throttle", "write"}
        /\ pending'[s] = pending[s] /\ Alone(s) /\ UNCHANGED load
    BY <1>0, <1>5 DEF PipeThrottle, Alone, TypeOK
  <2>2. PipeAt(phase'[s], next[s], pending[s], out[s])
    BY <1>2, <2>1 DEF PipeAt
  <2> QED
    BY <1>0, <2>1, <2>2, AloneKeeps
<1>6. CASE PipeWrite(s)
  <2>1. /\ next'[s] = next[s] /\ out'[s] = Append(out[s], next[s] - 1)
        /\ phase[s] = "write" /\ phase'[s] = "read"
        /\ pending'[s] = 0 /\ Alone(s) /\ UNCHANGED load
    BY <1>0, <1>6 DEF PipeWrite, Alone, TypeOK
  <2>2. next[s] > 1 /\ out[s] = UpTo(next[s] - 2)
    BY <1>2, <2>1 DEF PipeAt
  <2>3. next[s] - 2 \in Nat /\ next[s] - 2 + 1 = next[s] - 1
    BY <1>1, <2>2
  <2>4. Append(out[s], next[s] - 1) = UpTo(next[s] - 1)
    BY <2>2, <2>3, UpToAppend
  <2>5. PipeAt("read", next[s], 0, UpTo(next[s] - 1))
    <3>1. ~(0 > 0)
      OBVIOUS
    <3> QED
      BY <3>1 DEF PipeAt
  <2> QED
    BY <1>0, <2>1, <2>4, <2>5, AloneKeeps
<1> QED
  BY <1>3, <1>4, <1>5, <1>6 DEF PipeStep

(* A stream that has done nothing yet. *)
LEMMA NewStream == PipeAt("read", 1, 0, <<>>) /\ \A l : BodyAt(1, <<>>, l)
<1>1. PipeAt("read", 1, 0, <<>>)
  <2>1. ~(0 > 0) /\ 1 - 1 = 0
    OBVIOUS
  <2>2. UpTo(0) = <<>>
    BY DEF UpTo
  <2> QED
    BY <2>1, <2>2 DEF PipeAt
<1>2. \A l : BodyAt(1, <<>>, l)
  BY DEF BodyAt
<1> QED
  BY <1>1, <1>2

(* The streams' invariant. *)
LEMMA StreamsInvariance == Spec => []StreamsInv
<1>1. Init => StreamsInv
  <2> SUFFICES ASSUME Init PROVE StreamsInv
    OBVIOUS
  <2>1. \A s \in Streams : /\ next[s] = 1 /\ pending[s] = 0 /\ phase[s] = "read"
                           /\ out[s] = <<>>
    BY DEF Init
  <2> QED
    BY <2>1, NewStream DEF StreamsInv, Streams
<1>2. TypeOK /\ StreamsInv /\ [Next]_vars => StreamsInv'
  <2> SUFFICES ASSUME TypeOK, StreamsInv, [Next]_vars PROVE StreamsInv'
    OBVIOUS
  <2>1. ASSUME NEW s \in Bodies, BodyStep(s) PROVE StreamsInv'
    BY <2>1, BodyOrder
  <2>2. ASSUME NEW s \in Pipes, PipeStep(s) PROVE StreamsInv'
    BY <2>2, PipeOrder
  <2>3. ASSUME NEW s \in Streams, NEW l \in Loads, Start(s, l) PROVE StreamsInv'
    <3>1. /\ next'[s] = 1 /\ out'[s] = <<>> /\ phase'[s] = "read" /\ pending'[s] = 0
          /\ Alone(s) /\ \A u \in Streams : u # s => load'[u] = load[u]
      BY <2>3 DEF Start, Alone, TypeOK, Phase, Pending
    <3>2. \A u \in Pipes : PipeAt(phase'[u], next'[u], pending'[u], out'[u])
      BY <3>1, NewStream DEF StreamsInv, Alone, Streams
    <3>3. \A u \in Bodies : BodyAt(next'[u], out'[u], load'[u])
      BY <3>1, NewStream DEF StreamsInv, Alone, Streams
    <3> QED
      BY <3>2, <3>3 DEF StreamsInv
  <2>4. CASE Tick
    BY <2>4 DEF Tick, StreamsInv
  <2>5. CASE UNCHANGED vars
    BY <2>5 DEF vars, StreamsInv
  <2> QED
    BY <2>1, <2>2, <2>3, <2>4, <2>5 DEF Next
<1> QED
  BY <1>1, <1>2, BandwidthTypeCorrect, PTL DEF Spec

(***************************************************************************)
(* No WebSocket direction loses, repeats or reorders a chunk, whatever the  *)
(* limiter answers and however many streams share the bucket (proxy.rs: the *)
(* c2b and b2c loops).                                                      *)
(***************************************************************************)
THEOREM PipesKeepChunks == Spec => []PipeIntact
<1>1. StreamsInv => PipeIntact
  BY DEF StreamsInv, PipeAt, PipeIntact
<1> QED
  BY <1>1, StreamsInvariance, PTL

(***************************************************************************)
(* A throttled body passes frames on in order and drops none that it does   *)
(* not charge (bandwidth.rs: poll_frame).                                   *)
(***************************************************************************)
THEOREM BodiesKeepOrder == Spec => []BodyInOrder
<1>1. StreamsInv => BodyInOrder
  BY DEF StreamsInv, BodyAt, BodyInOrder, Taken
<1> QED
  BY <1>1, StreamsInvariance, PTL
=============================================================================
