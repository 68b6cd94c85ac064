----------------------------- MODULE DeviceProofs -----------------------------
(***************************************************************************)
(* The disk driver for any number of processes, any ring size that divides  *)
(* the modulus of the indices, and a device that serves in any order: each  *)
(* request has its own chain of descriptors, the disk owns a buffer exactly *)
(* while its request is in a queue, and every caller gets its own answer    *)
(* (DiskRequests).                                                          *)
(*                                                                         *)
(* The lemmas on the rings are about indices that wrap at IdxMod and slots  *)
(* that wrap at NUM.  The invariant's Queues says that no entry is in two   *)
(* queues or twice in one, and that all are heads of different chains;      *)
(* since a chain has descriptors beside its head a ring is never full, and  *)
(* a new entry overwrites none.                                             *)
(*                                                                         *)
(* That the console keeps lines (LinesKept) holds for a ring of any size   *)
(* and indices of any width that it divides.  The indices are compared by  *)
(* subtraction, modulo Wrap: Distance counts the characters from one to    *)
(* another, and Line lists them.  What is complete and what is edited fit  *)
(* together in the ring (Fitting), so the slot behind the last character   *)
(* is none of those in front of it: this makes every step of the console   *)
(* one of LineInput.  That no reader is left asleep over a line needs to   *)
(* know who has cons.lock (Holding).                                       *)
(*                                                                         *)
(* From the ring of uart.c to the line a writer's characters are one       *)
(* stream, into which echoes are put and which is otherwise the same until *)
(* its next character is appended (Sequenced).  The hand of uartstart is   *)
(* part of it, and one process has it, who holds the lock (Starting).      *)
(***************************************************************************)
EXTENDS Virtio, Terminal, FiniteSetTheorems, SequenceTheorems, WellFoundedInduction, TLAPS

(* Division with remainder, and its uniqueness.                             *)
LEMMA Division ==
    ASSUME NEW a \in Int, NEW n \in Nat, n > 0
    PROVE  \E q \in Int, r \in 0..n - 1 : a = q * n + r /\ r = a % n
<1>1. PICK q \in Int : q = a \div n
  OBVIOUS
<1>2. PICK r \in 0..n - 1 : r = a % n
  OBVIOUS
<1>3. a = n * q + r
  BY <1>1, <1>2
<1>4. a = q * n + r
  BY <1>3
<1> QED
  BY <1>2, <1>4

LEMMA Remainder ==
    ASSUME NEW a \in Int, NEW n \in Nat, n > 0, NEW q \in Int, NEW r \in 0..n - 1,
           a = q * n + r
    PROVE  a % n = r
  OBVIOUS

(* Adding a multiple of the modulus.                                        *)
LEMMA Congruent ==
    ASSUME NEW a \in Int, NEW n \in Nat, n > 0, NEW m \in Int
    PROVE  (a + m * n) % n = a % n
<1>1. PICK q \in Int, r \in 0..n - 1 : a = q * n + r /\ r = a % n
  BY Division
<1>3. a + m * n = (q + m) * n + r /\ q + m \in Int
  <2>1. (q + m) * n = q * n + m * n
    OBVIOUS
  <2>2. q * n \in Int /\ m * n \in Int
    OBVIOUS
  <2> QED
    BY <1>1, <2>1, <2>2
<1> QED
  BY <1>1, <1>3, Remainder

LEMMA Bigger == ASSUME NEW n \in Nat, NEW d \in Int, d >= 1 PROVE d * n >= n
  OBVIOUS

-----------------------------------------------------------------------------
(* The rings.  Slot is the entry of index a + k, Gap the entries between    *)
(* two indices.                                                             *)
At(b) == b % NUM
Slot(a, k) == (a + k) % NUM
Gap(a, b) == (b - a) % IdxMod

LEMMA Moduli ==
    /\ NUM \in Nat /\ NUM >= 3 /\ IdxMod \in Nat /\ IdxMod >= NUM
    /\ \E m \in Int : IdxMod = m * NUM
<1>0. IdxMod \in Int /\ NUM \in Nat /\ NUM > 0
  BY VirtioAssumption
<1>1. PICK m \in Int, r \in 0..NUM - 1 : IdxMod = m * NUM + r /\ r = IdxMod % NUM
  BY <1>0, Division
<1>2. IdxMod = m * NUM
  BY <1>1, VirtioAssumption
<1>3. m >= 1
  BY <1>2, VirtioAssumption
<1> QED
  BY <1>2, <1>3, VirtioAssumption, Bigger

LEMMA BumpIs ==
    ASSUME NEW a \in Idx
    PROVE  /\ Bump(a) = IF a + 1 = IdxMod THEN 0 ELSE a + 1
           /\ Bump(a) \in Idx
<1>1. CASE a + 1 = IdxMod
  BY <1>1, Remainder, Moduli DEF Bump, Idx
<1>2. CASE a + 1 # IdxMod
  BY <1>2, Remainder, Moduli DEF Bump, Idx
<1> QED
  BY <1>1, <1>2

LEMMA GapIs ==
    ASSUME NEW a \in Idx, NEW b \in Idx
    PROVE  /\ Gap(a, b) = IF a <= b THEN b - a ELSE b - a + IdxMod
           /\ Gap(a, b) \in 0..IdxMod - 1
<1>1. CASE a <= b
  <2>1. b - a \in 0..IdxMod - 1 /\ b - a = 0 * IdxMod + (b - a)
    BY <1>1, Moduli DEF Idx
  <2> QED
    BY <1>1, <2>1, Remainder, Moduli DEF Gap, Idx
<1>2. CASE a > b
  <2>1. b - a + IdxMod \in 0..IdxMod - 1 /\ b - a = (-1) * IdxMod + (b - a + IdxMod)
    BY <1>2, Moduli DEF Idx
  <2> QED
    BY <1>2, <2>1, Remainder, Moduli DEF Gap, Idx
<1> QED
  BY <1>1, <1>2 DEF Idx

LEMMA GapSteps ==
    ASSUME NEW a \in Idx, NEW b \in Idx
    PROVE  /\ Gap(a, a) = 0
           /\ a # b => Gap(a, b) > 0
           /\ Gap(a, b) + 1 < IdxMod => Gap(a, Bump(b)) = Gap(a, b) + 1
           /\ a # b => Gap(Bump(a), b) = Gap(a, b) - 1
<1>1. IdxMod \in Nat /\ IdxMod > 0 /\ a \in 0..IdxMod - 1 /\ b \in 0..IdxMod - 1
  BY Moduli DEF Idx
<1>2. Gap(a, a) = 0
  BY GapIs, <1>1
<1>3. Gap(a, b) \in Int /\ Gap(a, b) = IF a <= b THEN b - a ELSE b - a + IdxMod
  BY <1>1, GapIs
<1>4. a # b => Gap(a, b) > 0
  BY <1>1, <1>3
<1>5. ASSUME Gap(a, b) + 1 < IdxMod PROVE Gap(a, Bump(b)) = Gap(a, b) + 1
  <2>1. Bump(b) \in Idx
    BY BumpIs
  <2>2. Gap(a, Bump(b)) = IF a <= Bump(b) THEN Bump(b) - a ELSE Bump(b) - a + IdxMod
    BY <2>1, GapIs
  <2>3. CASE b + 1 = IdxMod
    <3>1. Bump(b) = 0
      BY <2>3, BumpIs
    <3> QED
      BY <1>1, <1>3, <1>5, <2>2, <2>3, <3>1
  <2>4. CASE b + 1 # IdxMod
    <3>1. Bump(b) = b + 1
      BY <2>4, BumpIs
    <3> QED
      BY <1>1, <1>3, <1>5, <2>2, <2>4, <3>1
  <2> QED
    BY <2>3, <2>4
<1>6. ASSUME a # b PROVE Gap(Bump(a), b) = Gap(a, b) - 1
  <2>1. Bump(a) \in Idx
    BY BumpIs
  <2>2. Gap(Bump(a), b) = IF Bump(a) <= b THEN b - Bump(a) ELSE b - Bump(a) + IdxMod
    BY <2>1, GapIs
  <2>3. CASE a + 1 = IdxMod
    <3>1. Bump(a) = 0
      BY <2>3, BumpIs
    <3> QED
      BY <1>1, <1>3, <1>6, <2>2, <2>3, <3>1
  <2>4. CASE a + 1 # IdxMod
    <3>1. Bump(a) = a + 1
      BY <2>4, BumpIs
    <3> QED
      BY <1>1, <1>3, <1>6, <2>2, <2>4, <3>1
  <2> QED
    BY <2>3, <2>4
<1> QED
  BY <1>2, <1>4, <1>5, <1>6

LEMMA SlotType ==
    ASSUME NEW a \in Int, NEW k \in Int
    PROVE  Slot(a, k) \in Desc
  BY Moduli, Division DEF Slot, Desc

LEMMA SlotBump ==
    ASSUME NEW a \in Idx, NEW k \in Int
    PROVE  Slot(Bump(a), k) = Slot(a, k + 1)
<1>1. CASE a + 1 # IdxMod
  BY <1>1, BumpIs DEF Slot, Idx
<1>2. CASE a + 1 = IdxMod
  <2>1. PICK m \in Int : IdxMod = m * NUM
    BY Moduli
  <2>2. a + (k + 1) = k + m * NUM
    BY <1>2, <2>1 DEF Idx
  <2>3. (k + m * NUM) % NUM = k % NUM
    <3>1. NUM \in Nat /\ NUM > 0
      BY Moduli
    <3> QED
      BY <3>1, Congruent
  <2> QED
    BY <1>2, <2>2, <2>3, BumpIs DEF Slot, Idx
<1> QED
  BY <1>1, <1>2

LEMMA SlotEnd ==
    ASSUME NEW a \in Idx, NEW b \in Idx
    PROVE  Slot(a, Gap(a, b)) = b % NUM
<1>1. CASE a <= b
  BY <1>1, GapIs DEF Slot, Idx
<1>2. CASE a > b
  <2>1. PICK m \in Int : IdxMod = m * NUM
    BY Moduli
  <2>2. a + Gap(a, b) = b + m * NUM
    BY <1>2, <2>1, GapIs DEF Idx
  <2>3. (b + m * NUM) % NUM = b % NUM
    <3>1. NUM \in Nat /\ NUM > 0 /\ b \in Int
      BY Moduli DEF Idx
    <3> QED
      BY <3>1, Congruent
  <2> QED
    BY <2>2, <2>3 DEF Slot, Idx
<1> QED
  BY <1>1, <1>2 DEF Idx

LEMMA SlotInjective ==
    ASSUME NEW a \in Int, NEW k \in 0..NUM - 1, NEW l \in 0..NUM - 1,
           Slot(a, k) = Slot(a, l)
    PROVE  k = l
<1>0. NUM \in Nat /\ NUM > 0 /\ a + k \in Int /\ a + l \in Int
  BY Moduli
<1>1. PICK q \in Int, s \in 0..NUM - 1 : a + k = q * NUM + s /\ s = Slot(a, k)
  BY <1>0, Division DEF Slot
<1>2. PICK r \in Int, t \in 0..NUM - 1 : a + l = r * NUM + t /\ t = Slot(a, l)
  BY <1>0, Division DEF Slot
<1>3. Slot(a, k) \in Int
  BY SlotType, Moduli DEF Desc
<1>4. k - l = (q - r) * NUM
  BY <1>1, <1>2, <1>3, Moduli
<1>5. k - l < NUM /\ l - k < NUM
  BY Moduli
<1>6. ~(q - r >= 1)
  BY <1>4, <1>5, Bigger, Moduli
<1>7. ~(r - q >= 1)
  <2>1. l - k = (r - q) * NUM
    BY <1>1, <1>2, <1>3, Moduli
  <2> QED
    BY <1>5, <2>1, Bigger, Moduli
<1>8. q = r
  BY <1>6, <1>7
<1> QED
  BY <1>4, <1>8, Moduli

-----------------------------------------------------------------------------
(* The window between two indices of a ring.  Once says that no entry of it *)
(* is there twice.                                                          *)
Once(a, b, ring) ==
    \A k, l \in 0..Gap(a, b) - 1 : ring[Slot(a, k)] = ring[Slot(a, l)] => k = l

LEMMA AheadIs ==
    ASSUME NEW a, NEW b, NEW ring
    PROVE  Ahead(a, b, ring) = {ring[Slot(a, k)] : k \in 0..Gap(a, b) - 1}
  BY DEF Ahead, Slot, Gap

LEMMA AheadType ==
    ASSUME NEW a \in Idx, NEW b \in Idx, NEW ring \in [Desc -> Desc]
    PROVE  Ahead(a, b, ring) \subseteq Desc
<1>1. ASSUME NEW k \in 0..Gap(a, b) - 1 PROVE ring[Slot(a, k)] \in Desc
  <2>1. a \in Int /\ k \in Int
    BY Moduli, GapIs DEF Idx
  <2> QED
    BY <2>1, SlotType
<1> QED
  BY <1>1, AheadIs

(* A window of different entries is no longer than the set they are from.   *)
LEMMA WindowFits ==
    ASSUME NEW a \in Idx, NEW b \in Idx, NEW ring \in [Desc -> Desc],
           Once(a, b, ring),
           NEW S, IsFiniteSet(S), Ahead(a, b, ring) \subseteq S
    PROVE  Gap(a, b) <= Cardinality(S)
<1> DEFINE I == 0..Gap(a, b) - 1
           f == [k \in I |-> ring[Slot(a, k)]]
<1>1. Gap(a, b) \in Nat
  BY GapIs, Moduli
<1>2. f \in [I -> S]
  BY AheadIs
<1>3. \A k, l \in I : f[k] = f[l] => k = l
  BY DEF Once
<1>4. f \in Injection(I, S)
  <2> HIDE DEF f, I
  <2> QED
    BY <1>2, <1>3 DEF Injection, IsInjective
<1>5. Cardinality(I) <= Cardinality(S)
  BY <1>4, FS_Injection
<1>6. Cardinality(I) = Gap(a, b)
  BY <1>1, FS_Interval
<1> QED
  BY <1>5, <1>6

(* Writing an entry at the end of a window.                                 *)
LEMMA Push ==
    ASSUME NEW a \in Idx, NEW b \in Idx, NEW ring \in [Desc -> Desc], NEW h \in Desc,
           Gap(a, b) + 1 < NUM, Once(a, b, ring), h \notin Ahead(a, b, ring)
    PROVE  LET new == [ring EXCEPT ![At(b)] = h] IN
           /\ Ahead(a, Bump(b), new) = Ahead(a, b, ring) \cup {h}
           /\ Once(a, Bump(b), new)
<1> DEFINE n == Gap(a, b)
           new == [ring EXCEPT ![At(b)] = h]
<1>1. n \in Nat /\ n + 1 < NUM /\ NUM \in Nat /\ a \in Int
  BY GapIs, Moduli DEF Idx
<1>2. Gap(a, Bump(b)) = n + 1
  BY <1>1, GapSteps, Moduli
<1>3. At(b) = Slot(a, n)
  BY SlotEnd DEF At
<1>4. ASSUME NEW k \in 0..n PROVE Slot(a, k) \in Desc /\ (k # n => Slot(a, k) # Slot(a, n))
  BY <1>1, SlotType, SlotInjective
<1>5. ASSUME NEW k \in 0..n PROVE new[Slot(a, k)] = IF k = n THEN h ELSE ring[Slot(a, k)]
  BY <1>1, <1>3, <1>4
<1>6. n \in 0..n /\ 0..(n + 1) - 1 = 0..n /\ 0..n = (0..n - 1) \cup {n}
  BY <1>1
<1> HIDE DEF n, new
<1>7. Ahead(a, Bump(b), new) = {new[Slot(a, k)] : k \in 0..n}
  BY <1>2, <1>6, AheadIs
<1>8. Ahead(a, b, ring) = {ring[Slot(a, k)] : k \in 0..n - 1}
  BY AheadIs DEF n
<1>9. ASSUME NEW k \in 0..n - 1 PROVE k \in 0..n /\ k # n
  BY <1>1
<1>10. Ahead(a, Bump(b), new) = Ahead(a, b, ring) \cup {h}
  <2>1. new[Slot(a, n)] = h
    BY <1>5, <1>6
  <2>2. ASSUME NEW k \in 0..n - 1 PROVE new[Slot(a, k)] = ring[Slot(a, k)]
    BY <1>5, <1>9
  <2>3. Ahead(a, Bump(b), new) = {new[Slot(a, k)] : k \in 0..n - 1} \cup {new[Slot(a, n)]}
    BY <1>6, <1>7
  <2> QED
    BY <1>8, <2>1, <2>2, <2>3
<1>11. ASSUME NEW k \in 0..n, NEW l \in 0..n, new[Slot(a, k)] = new[Slot(a, l)]
       PROVE  k = l
  <2>1. CASE k # n /\ l # n
    <3>1. k \in 0..n - 1 /\ l \in 0..n - 1
      BY <1>6, <2>1
    <3> QED
      BY <1>5, <1>11, <2>1, <3>1 DEF Once, n
  <2>2. CASE (k = n) # (l = n)
    <3>1. \A j \in 0..n - 1 : ring[Slot(a, j)] # h
      BY <1>8
    <3> QED
      BY <1>5, <1>6, <1>11, <2>2, <3>1
  <2> QED
    BY <2>1, <2>2
<1>12. Once(a, Bump(b), new)
  BY <1>2, <1>6, <1>11 DEF Once
<1> QED
  BY <1>10, <1>12 DEF new

(* Taking the first entry of a window.                                      *)
LEMMA Pop ==
    ASSUME NEW a \in Idx, NEW b \in Idx, NEW ring \in [Desc -> Desc],
           a # b, Once(a, b, ring)
    PROVE  /\ ring[a % NUM] \in Ahead(a, b, ring)
           /\ Ahead(Bump(a), b, ring) = Ahead(a, b, ring) \ {ring[a % NUM]}
           /\ Once(Bump(a), b, ring)
<1> DEFINE n == Gap(a, b) - 1
<1>1. n \in Nat /\ Gap(Bump(a), b) = n /\ Gap(a, b) - 1 = n /\ a \in Int
  BY GapIs, GapSteps, Moduli DEF Idx
<1> HIDE DEF n
<1>2. Slot(a, 0) = a % NUM
  BY <1>1 DEF Slot
<1>3. 0 \in 0..n
  BY <1>1
<1>4. ASSUME NEW k \in Int PROVE Slot(Bump(a), k) = Slot(a, k + 1)
  BY SlotBump
<1>5. ASSUME NEW k \in 0..n - 1 PROVE k \in Int /\ k + 1 \in 0..n /\ k + 1 # 0
  BY <1>1
<1>6. ASSUME NEW k \in 0..n, k # 0 PROVE k - 1 \in 0..n - 1 /\ (k - 1) + 1 = k
  BY <1>1, <1>6
<1>7. Ahead(a, b, ring) = {ring[Slot(a, k)] : k \in 0..n}
  BY <1>1, AheadIs
<1>8. Ahead(Bump(a), b, ring) = {ring[Slot(Bump(a), k)] : k \in 0..n - 1}
  BY <1>1, AheadIs
<1>9. \A k, l \in 0..n : ring[Slot(a, k)] = ring[Slot(a, l)] => k = l
  BY <1>1 DEF Once
<1>10. ring[a % NUM] \in Ahead(a, b, ring)
  BY <1>2, <1>3, <1>7
<1>11. ASSUME NEW x \in Ahead(Bump(a), b, ring)
       PROVE  x \in Ahead(a, b, ring) \ {ring[a % NUM]}
  <2>1. PICK k \in 0..n - 1 : x = ring[Slot(Bump(a), k)]
    BY <1>8
  <2>2. x = ring[Slot(a, k + 1)] /\ k + 1 \in 0..n /\ k + 1 # 0
    BY <1>4, <1>5, <2>1
  <2> QED
    BY <1>2, <1>3, <1>7, <1>9, <2>2
<1>12. ASSUME NEW x \in Ahead(a, b, ring), x # ring[a % NUM]
       PROVE  x \in Ahead(Bump(a), b, ring)
  <2>1. PICK k \in 0..n : x = ring[Slot(a, k)]
    BY <1>7
  <2>2. k # 0
    BY <1>2, <1>12, <2>1
  <2>3. k - 1 \in 0..n - 1 /\ Slot(Bump(a), k - 1) = Slot(a, k)
    BY <1>4, <1>5, <1>6, <2>2
  <2> QED
    BY <1>8, <2>1, <2>3
<1>13. Ahead(Bump(a), b, ring) = Ahead(a, b, ring) \ {ring[a % NUM]}
  BY <1>11, <1>12
<1>14. Once(Bump(a), b, ring)
  <2>1. ASSUME NEW k \in 0..n - 1, NEW l \in 0..n - 1,
               ring[Slot(Bump(a), k)] = ring[Slot(Bump(a), l)]
        PROVE  k = l
    <3>1. k + 1 = l + 1
      BY <1>4, <1>5, <1>9, <2>1
    <3> QED
      BY <1>5, <3>1
  <2> QED
    BY <1>1, <2>1 DEF Once
<1> QED
  BY <1>10, <1>13, <1>14

-----------------------------------------------------------------------------
PC == {"idle", "alloc", "nodesc", "asleep", "wait"}

DescOK == /\ free \in [Desc -> BOOLEAN]
          /\ addr \in [Desc -> Proc \cup {None}]
          /\ next \in [Desc -> Desc \cup {None}]
          /\ info \in [Desc -> Proc \cup {None}]
RingOK == /\ avail \in [Desc -> Desc] /\ used \in [Desc -> Desc]
          /\ availIdx \in Idx /\ usedIdx \in Idx /\ used_idx \in Idx /\ devIdx \in Idx
          /\ taken \subseteq Desc
RestOK == /\ raising \in BOOLEAN /\ irq \in BOOLEAN /\ handler \in BOOLEAN
          /\ diskOwns \in [Proc -> BOOLEAN]
          /\ pc \in [Proc -> PC]
          /\ head \in [Proc -> Desc \cup {None}]
TypeOK == DescOK /\ RingOK /\ RestOK

Places == \A p \in Proc : head[p] # None <=> pc[p] \in {"asleep", "wait"}

(* ChainsIntact, with the chain's three descriptors named.                  *)
Chains ==
    /\ \A p \in Waiting : /\ info[head[p]] = p /\ addr[next[head[p]]] = p
                          /\ next[head[p]] \in Desc /\ next[next[head[p]]] \in Desc
                          /\ head[p] # next[head[p]] /\ head[p] # next[next[head[p]]]
                          /\ next[head[p]] # next[next[head[p]]]
    /\ \A p, q \in Waiting : p # q => Chain(head[p]) \cap Chain(head[q]) = {}
    /\ \A i \in Desc : free[i] <=> \A p \in Waiting : i \notin Chain(head[p])

(* What the queues hold: heads of chains whose buffer the disk owns, each   *)
(* of them once.                                                            *)
InFlight == Offered \cup taken \cup Returned
Queues ==
    /\ Once(devIdx, availIdx, avail) /\ Once(used_idx, usedIdx, used)
    /\ Offered \cap taken = {} /\ (Offered \cup taken) \cap Returned = {}
    /\ \A h \in InFlight : \E p \in Waiting : head[p] = h /\ diskOwns[p]
    /\ \A p \in Waiting : diskOwns[p] => head[p] \in InFlight

IInv == TypeOK /\ Places /\ Chains /\ Queues

-----------------------------------------------------------------------------
(* alloc3_desc finds three different free descriptors.                      *)
LEMMA LeastIn ==
    ASSUME NEW S \in SUBSET Desc, S # {}
    PROVE  Lowest(S) \in S
<1> DEFINE T == {0..k : k \in S}
           R == StrictSubsetOrdering(Desc)
           F == FiniteSubsetsOf(Desc)
<1>1. IsFiniteSet(Desc) /\ NUM \in Nat
  BY FS_Interval, Moduli DEF Desc
<1>2. IsWellFoundedOn(R, F)
  BY <1>1, FS_StrictSubsetOrderingWellFounded
<1>3. T \subseteq F
  <2>1. ASSUME NEW k \in S PROVE 0..k \in F
    <3>1. k \in Int /\ 0..k \subseteq Desc
      BY <1>1 DEF Desc
    <3> QED
      BY <3>1, FS_Interval DEF FiniteSubsetsOf
  <2> QED
    BY <2>1
<1>4. T # {}
  OBVIOUS
<1>5. PICK s \in T : \A t \in T : ~(<<t, s>> \in R)
  <2> HIDE DEF T, R, F
  <2> QED
    BY <1>2, <1>3, <1>4, WFMin
<1>6. PICK k \in S : s = 0..k
  OBVIOUS
<1>7. ASSUME NEW j \in S, j < k PROVE FALSE
  <2>1. 0..j \subseteq 0..k /\ 0..j # 0..k /\ 0..j \subseteq Desc /\ 0..k \subseteq Desc
    BY <1>1, <1>7 DEF Desc
  <2>2. <<0..j, 0..k>> \in R
    BY <2>1 DEF StrictSubsetOrdering
  <2> QED
    BY <1>5, <1>6, <2>2
<1>8. k \in S /\ \A j \in S : k <= j
  BY <1>1, <1>7 DEF Desc
<1> QED
  BY <1>8 DEF Lowest

LEMMA ThreeFree ==
    ASSUME free \in [Desc -> BOOLEAN], Cardinality(FreeDescs) >= 3,
           NEW d, d = ThreeOf(FreeDescs)
    PROVE  /\ d[1] \in Desc /\ d[2] \in Desc /\ d[3] \in Desc
           /\ free[d[1]] /\ free[d[2]] /\ free[d[3]]
           /\ d[1] # d[2] /\ d[1] # d[3] /\ d[2] # d[3]
<1> DEFINE F == FreeDescs
           i == Lowest(F)
           j == Lowest(F \ {i})
           k == Lowest(F \ {i, j})
<1>1. IsFiniteSet(F) /\ F \subseteq Desc /\ Cardinality(F) \in Nat
  <2>1. IsFiniteSet(Desc)
    BY FS_Interval, Moduli DEF Desc
  <2> QED
    BY <2>1, FS_Subset, FS_CardinalityType DEF FreeDescs
<1>2. F # {}
  BY FS_EmptySet
<1>3. i \in F
  BY <1>1, <1>2, LeastIn
<1>4. IsFiniteSet(F \ {i}) /\ Cardinality(F \ {i}) = Cardinality(F) - 1
  BY <1>1, <1>3, FS_RemoveElement
<1>5. F \ {i} # {}
  BY <1>1, <1>4, FS_EmptySet
<1>6. j \in F \ {i}
  BY <1>1, <1>5, LeastIn
<1>7. Cardinality((F \ {i}) \ {j}) = Cardinality(F) - 2
  <2>1. Cardinality((F \ {i}) \ {j}) = Cardinality(F \ {i}) - 1
    BY <1>4, <1>6, FS_RemoveElement
  <2> QED
    BY <1>1, <1>4, <2>1
<1>8. (F \ {i}) \ {j} = F \ {i, j}
  OBVIOUS
<1>9. F \ {i, j} # {}
  <2>1. Cardinality(F \ {i, j}) # 0
    <3>1. Cardinality(F) >= 3
      OBVIOUS
    <3> HIDE DEF F, i, j
    <3> QED
      BY <1>1, <1>7, <1>8, <3>1
  <2> QED
    BY <2>1, FS_EmptySet
<1>10. k \in F \ {i, j}
  BY <1>1, <1>9, LeastIn
<1>11. d[1] = i /\ d[2] = j /\ d[3] = k
  BY DEF ThreeOf
<1> QED
  BY <1>1, <1>3, <1>6, <1>10, <1>11 DEF FreeDescs

LEMMA TwoShort ==
    ASSUME NEW i \in Desc, NEW j \in Desc, i # j
    PROVE  IsFiniteSet(Desc \ {i, j}) /\ Cardinality(Desc \ {i, j}) = NUM - 2
<1>1. IsFiniteSet(Desc) /\ Cardinality(Desc) = NUM /\ NUM \in Nat
  BY FS_Interval, Moduli DEF Desc
<1>2. IsFiniteSet(Desc \ {i}) /\ Cardinality(Desc \ {i}) = NUM - 1
  BY <1>1, FS_RemoveElement
<1>3. IsFiniteSet((Desc \ {i}) \ {j}) /\ Cardinality((Desc \ {i}) \ {j}) = (NUM - 1) - 1
  BY <1>2, FS_RemoveElement
<1>4. (Desc \ {i}) \ {j} = Desc \ {i, j} /\ (NUM - 1) - 1 = NUM - 2
  BY <1>1
<1> QED
  BY <1>3, <1>4

(* virtio_disk_rw's request, with the three descriptors it got.             *)
Chained(p, i, j, k) ==
    /\ i \in Desc /\ j \in Desc /\ k \in Desc
    /\ free[i] /\ free[j] /\ free[k] /\ i # j /\ i # k /\ j # k
    /\ free' = [x \in Desc |-> free[x] /\ x \notin {i, j, k}]
    /\ addr' = [addr EXCEPT ![j] = p]
    /\ next' = [next EXCEPT ![i] = j, ![j] = k, ![k] = None]
    /\ info' = [info EXCEPT ![i] = p]
    /\ avail' = [avail EXCEPT ![availIdx % NUM] = i]
    /\ head' = [head EXCEPT ![p] = i]

LEMMA SubmitChained ==
    ASSUME TypeOK, NEW p \in Proc, Submit(p)
    PROVE  \E i, j, k : Chained(p, i, j, k)
<1> DEFINE d == ThreeOf(FreeDescs)
<1>1. /\ d[1] \in Desc /\ d[2] \in Desc /\ d[3] \in Desc
      /\ free[d[1]] /\ free[d[2]] /\ free[d[3]]
      /\ d[1] # d[2] /\ d[1] # d[3] /\ d[2] # d[3]
  <2>1. free \in [Desc -> BOOLEAN] /\ Cardinality(FreeDescs) >= 3
    BY DEF TypeOK, DescOK, Submit
  <2> HIDE DEF d
  <2>2. d = ThreeOf(FreeDescs)
    BY DEF d
  <2> QED
    BY <2>1, <2>2, ThreeFree
<1> QED
  BY <1>1 DEF Submit, Chained

LEMMA SlotIdx == ASSUME NEW i \in Idx PROVE i % NUM \in Desc
<1>1. i \in Int /\ NUM \in Nat /\ NUM > 0
  BY Moduli DEF Idx
<1> QED
  BY <1>1, Division DEF Desc

LEMMA NoneNew == None \notin Desc
  BY VirtioAssumption DEF Desc

LEMMA BumpType == \A i \in Idx : Bump(i) \in Idx
  BY BumpIs

LEMMA TypeOKStep == IInv /\ Next => TypeOK'
<1> SUFFICES ASSUME IInv, Next PROVE TypeOK'
  OBVIOUS
<1> USE NoneNew, BumpType DEF TypeOK, DescOK, RingOK, RestOK, PC, Goto, rings, descs, device, IInv
<1>1. ASSUME NEW p \in Proc, Call(p) PROVE TypeOK'
  BY <1>1 DEF Call
<1>2. ASSUME NEW p \in Proc, AllocFails(p) PROVE TypeOK'
  BY <1>2 DEF AllocFails, Woken
<1>3. ASSUME NEW p \in Proc, Submit(p) PROVE TypeOK'
  <2>1. PICK i, j, k : Chained(p, i, j, k)
    BY <1>3, SubmitChained
  <2>2. DescOK'
    BY <2>1 DEF Chained
  <2>3. avail' \in [Desc -> Desc] /\ head' \in [Proc -> Desc \cup {None}]
    BY <2>1 DEF Chained
  <2> QED
    BY <1>3, <2>2, <2>3 DEF Submit
<1>4. ASSUME NEW p \in Proc, SleepAgain(p) PROVE TypeOK'
  BY <1>4 DEF SleepAgain
<1>5. ASSUME NEW p \in Proc, Finish(p) PROVE TypeOK'
  BY <1>5 DEF Finish, Woken
<1>6. ASSUME NEW p \in Proc, Rouse(p) PROVE TypeOK'
  BY <1>6 DEF Rouse
<1>7. CASE DevTake
  <2>1. avail[devIdx % NUM] \in Desc
    BY SlotIdx
  <2> QED
    BY <1>7, <2>1 DEF DevTake
<1>8. ASSUME NEW h \in Desc, DevServe(h) PROVE TypeOK'
  BY <1>8 DEF DevServe
<1>9. CASE DevInterrupt
  BY <1>9 DEF DevInterrupt
<1>10. CASE IntrBegin
  BY <1>10 DEF IntrBegin
<1>11. CASE IntrEntry
  BY <1>11 DEF IntrEntry
<1>12. CASE IntrEnd
  BY <1>12 DEF IntrEnd
<1> QED
  BY <1>1, <1>2, <1>3, <1>4, <1>5, <1>6, <1>7, <1>8, <1>9, <1>10, <1>11,
     <1>12 DEF Next, Rw, Device, Intr

LEMMA PlacesStep == IInv /\ Next => Places'
<1> SUFFICES ASSUME IInv, Next PROVE Places'
  OBVIOUS
<1> USE NoneNew DEF Places, TypeOK, RestOK, PC, Goto, rings, descs, device, IInv
<1>1. ASSUME NEW p \in Proc, Call(p) PROVE Places'
  BY <1>1 DEF Call
<1>2. ASSUME NEW p \in Proc, AllocFails(p) PROVE Places'
  BY <1>2 DEF AllocFails, Woken
<1>3. ASSUME NEW p \in Proc, Submit(p) PROVE Places'
  <2>1. PICK i, j, k : Chained(p, i, j, k)
    BY <1>3, SubmitChained DEF TypeOK
  <2> QED
    BY <1>3, <2>1 DEF Submit, Chained
<1>4. ASSUME NEW p \in Proc, SleepAgain(p) PROVE Places'
  BY <1>4 DEF SleepAgain
<1>5. ASSUME NEW p \in Proc, Finish(p) PROVE Places'
  BY <1>5 DEF Finish, Woken
<1>6. ASSUME NEW p \in Proc, Rouse(p) PROVE Places'
  BY <1>6 DEF Rouse
<1>7. CASE DevTake
  BY <1>7 DEF DevTake
<1>8. ASSUME NEW h \in Desc, DevServe(h) PROVE Places'
  BY <1>8 DEF DevServe
<1>9. CASE DevInterrupt
  BY <1>9 DEF DevInterrupt
<1>10. CASE IntrBegin
  BY <1>10 DEF IntrBegin
<1>11. CASE IntrEntry
  BY <1>11 DEF IntrEntry
<1>12. CASE IntrEnd
  BY <1>12 DEF IntrEnd
<1> QED
  BY <1>1, <1>2, <1>3, <1>4, <1>5, <1>6, <1>7, <1>8, <1>9, <1>10, <1>11,
     <1>12 DEF Next, Rw, Device, Intr

LEMMA ChainsStep == IInv /\ Next => Chains'
<1> SUFFICES ASSUME IInv, Next PROVE Chains'
  OBVIOUS
<1> USE NoneNew DEF Chains, Waiting, Chain, Goto, rings, descs, device, IInv
<1>1. ASSUME NEW p \in Proc, Call(p) PROVE Chains'
  BY <1>1 DEF Call
<1>2. ASSUME NEW p \in Proc, AllocFails(p) PROVE Chains'
  BY <1>2 DEF AllocFails, Woken
<1>3. ASSUME NEW p \in Proc, Submit(p) PROVE Chains'
  <2>1. PICK i, j, k : Chained(p, i, j, k)
    BY <1>3, SubmitChained
  <2>2. head[p] = None
    BY <1>3 DEF Places, Submit
  <2>3. Waiting' = Waiting \cup {p} /\ head'[p] = i
        /\ \A q \in Proc : q # p => head'[q] = head[q]
    BY <2>1 DEF Chained, TypeOK, RestOK
  <2>4. next'[i] = j /\ next'[j] = k /\ info'[i] = p /\ addr'[j] = p
        /\ \A x \in Desc \ {i, j, k} : /\ next'[x] = next[x] /\ info'[x] = info[x]
                                       /\ addr'[x] = addr[x]
    BY <2>1 DEF Chained, TypeOK, DescOK
  <2>5. i \in Desc /\ j \in Desc /\ k \in Desc /\ i # j /\ i # k /\ j # k
        /\ free[i] /\ free[j] /\ free[k]
        /\ \A x \in Desc : free'[x] <=> free[x] /\ x \notin {i, j, k}
    BY <2>1 DEF Chained
  <2>6. ASSUME NEW q \in Waiting
        PROVE  /\ head[q] \in Desc \ {i, j, k} /\ next[head[q]] \in Desc \ {i, j, k}
               /\ next[next[head[q]]] \in Desc \ {i, j, k}
               /\ q # p /\ q \in Proc
    BY <2>2, <2>5 DEF TypeOK, RestOK
  <2>7. Chain(head[p])' = {i, j, k}
    BY <2>3, <2>4
  <2>8. ASSUME NEW q \in Waiting
        PROVE  Chain(head[q])' = Chain(head[q]) /\ Chain(head[q]) \cap {i, j, k} = {}
    BY <2>3, <2>4, <2>6
  <2>9. \A q \in Waiting' : /\ info'[head'[q]] = q /\ addr'[next'[head'[q]]] = q
                            /\ next'[head'[q]] \in Desc /\ next'[next'[head'[q]]] \in Desc
                            /\ head'[q] # next'[head'[q]]
                            /\ head'[q] # next'[next'[head'[q]]]
                            /\ next'[head'[q]] # next'[next'[head'[q]]]
    BY <2>3, <2>4, <2>5, <2>6
  <2>10. \A q, r \in Waiting' : q # r => Chain(head[q])' \cap Chain(head[r])' = {}
    <3> HIDE DEF Chain
    <3> QED
      BY <2>3, <2>7, <2>8
  <2>11. \A x \in Desc : free'[x] <=> \A q \in Waiting' : x \notin Chain(head[q])'
    <3> HIDE DEF Chain
    <3> QED
      BY <2>3, <2>5, <2>7, <2>8
  <2> QED
    BY <2>9, <2>10, <2>11
<1>4. ASSUME NEW p \in Proc, SleepAgain(p) PROVE Chains'
  BY <1>4 DEF SleepAgain
<1>5. ASSUME NEW p \in Proc, Finish(p) PROVE Chains'
  <2> DEFINE c == Chain(head[p])
  <2>1. p \in Waiting /\ Waiting' = Waiting \ {p}
        /\ \A q \in Proc : q # p => head'[q] = head[q]
    BY <1>5 DEF Finish, Places, TypeOK, RestOK
  <2>2. ASSUME NEW q \in Waiting'
        PROVE  q \in Waiting /\ q # p /\ head'[q] = head[q] /\ Chain(head[q]) \cap c = {}
    <3> HIDE DEF Chain
    <3> QED
      BY <2>1
  <2>3. /\ \A x \in Desc \ c : /\ next'[x] = next[x] /\ info'[x] = info[x]
                               /\ addr'[x] = addr[x]
        /\ \A x \in Desc : free'[x] <=> free[x] \/ x \in c
    <3>1. head[p] \in c
      OBVIOUS
    <3>2. /\ free' = [i \in Desc |-> free[i] \/ i \in c]
          /\ addr' = [i \in Desc |-> IF i \in c THEN None ELSE addr[i]]
          /\ next' = [i \in Desc |-> IF i \in c THEN None ELSE next[i]]
          /\ info' = [info EXCEPT ![head[p]] = None]
      BY <1>5 DEF Finish
    <3> HIDE DEF c
    <3>3. \A x \in Desc \ c : x # head[p]
      BY <3>1
    <3>4. \A x \in Desc \ c : next'[x] = next[x] /\ addr'[x] = addr[x]
      BY <3>2
    <3>5. \A x \in Desc \ c : info'[x] = info[x]
      BY <3>2, <3>3 DEF TypeOK, DescOK
    <3> QED
      BY <3>2, <3>4, <3>5
  <2>4. ASSUME NEW q \in Waiting
        PROVE  /\ head[q] \in Desc /\ next[head[q]] \in Desc
               /\ next[next[head[q]]] \in Desc
    BY DEF TypeOK, RestOK
  <2>5. ASSUME NEW q \in Waiting'
        PROVE  /\ head'[q] \in Desc /\ next'[head'[q]] = next[head[q]]
               /\ next'[next'[head'[q]]] = next[next[head[q]]]
               /\ info'[head'[q]] = info[head[q]]
               /\ addr'[next'[head'[q]]] = addr[next[head[q]]]
    <3> HIDE DEF c
    <3>1. head[q] \notin c /\ next[head[q]] \notin c
      BY <2>2
    <3> QED
      BY <2>2, <2>3, <2>4, <3>1
  <2>6. ASSUME NEW q \in Waiting' PROVE Chain(head[q])' = Chain(head[q])
    BY <2>2, <2>5
  <2>7. \A q \in Waiting' : /\ info'[head'[q]] = q /\ addr'[next'[head'[q]]] = q
                            /\ next'[head'[q]] \in Desc /\ next'[next'[head'[q]]] \in Desc
                            /\ head'[q] # next'[head'[q]]
                            /\ head'[q] # next'[next'[head'[q]]]
                            /\ next'[head'[q]] # next'[next'[head'[q]]]
    BY <2>2, <2>5
  <2>8. \A q, r \in Waiting' : q # r => Chain(head[q])' \cap Chain(head[r])' = {}
    <3> HIDE DEF Chain
    <3> QED
      BY <2>2, <2>6
  <2>9. \A x \in Desc : free'[x] <=> \A q \in Waiting' : x \notin Chain(head[q])'
    <3> HIDE DEF Chain
    <3> QED
      BY <2>1, <2>2, <2>3, <2>6
  <2> QED
    BY <2>7, <2>8, <2>9
<1>6. ASSUME NEW p \in Proc, Rouse(p) PROVE Chains'
  BY <1>6 DEF Rouse
<1>7. CASE DevTake
  BY <1>7 DEF DevTake
<1>8. ASSUME NEW h \in Desc, DevServe(h) PROVE Chains'
  BY <1>8 DEF DevServe
<1>9. CASE DevInterrupt
  BY <1>9 DEF DevInterrupt
<1>10. CASE IntrBegin
  BY <1>10 DEF IntrBegin
<1>11. CASE IntrEntry
  BY <1>11 DEF IntrEntry
<1>12. CASE IntrEnd
  BY <1>12 DEF IntrEnd
<1> QED
  BY <1>1, <1>2, <1>3, <1>4, <1>5, <1>6, <1>7, <1>8, <1>9, <1>10, <1>11,
     <1>12 DEF Next, Rw, Device, Intr

(* What avail offers after a request, and used returns after a service.     *)
LEMMA Offering ==
    ASSUME IInv, NEW p \in Proc, Submit(p)
    PROVE  \E i \in Desc : /\ free[i] /\ i \notin InFlight /\ head' = [head EXCEPT ![p] = i]
                           /\ Offered' = Offered \cup {i}
                           /\ Once(devIdx', availIdx', avail')
<1> USE DEF Queues, InFlight, Offered, Returned, Waiting, IInv
<1>1. PICK i, j, k : Chained(p, i, j, k)
  BY SubmitChained
<1>3. i \in Desc /\ free[i] /\ head' = [head EXCEPT ![p] = i]
  BY <1>1 DEF Chained
<1>5. i \notin InFlight /\ j \notin InFlight /\ k \notin InFlight
  BY <1>1 DEF Chained, Chains, Chain
<1>6. Gap(devIdx, availIdx) <= NUM - 2
  <2>1. Offered \subseteq Desc \ {i, j}
    BY <1>5, AheadType DEF TypeOK, RingOK
  <2> DEFINE S == Desc \ {i, j}
  <2>2. IsFiniteSet(S) /\ Cardinality(S) = NUM - 2
    BY <1>1, TwoShort DEF Chained
  <2>3. devIdx \in Idx /\ availIdx \in Idx /\ avail \in [Desc -> Desc]
        /\ Once(devIdx, availIdx, avail) /\ Ahead(devIdx, availIdx, avail) \subseteq S
    BY <2>1 DEF TypeOK, RingOK
  <2> HIDE DEF S
  <2>4. Gap(devIdx, availIdx) <= Cardinality(S)
    BY <2>2, <2>3, WindowFits
  <2> QED
    BY <2>2, <2>4
<1>8. Offered' = Offered \cup {i} /\ Once(devIdx', availIdx', avail')
  <2>1. Gap(devIdx, availIdx) + 1 < NUM
    BY <1>6, GapIs, Moduli DEF TypeOK, RingOK
  <2>2. i \notin Ahead(devIdx, availIdx, avail)
    BY <1>5
  <2>3. avail' = [avail EXCEPT ![At(availIdx)] = i]
    BY <1>1 DEF Chained, At
  <2>4. devIdx \in Idx /\ availIdx \in Idx /\ avail \in [Desc -> Desc] /\ i \in Desc
        /\ Once(devIdx, availIdx, avail)
    BY <1>3 DEF TypeOK, RingOK
  <2>5. LET new == [avail EXCEPT ![At(availIdx)] = i] IN
        /\ Ahead(devIdx, Bump(availIdx), new) = Ahead(devIdx, availIdx, avail) \cup {i}
        /\ Once(devIdx, Bump(availIdx), new)
    BY <2>1, <2>2, <2>4, Push
  <2>6. availIdx' = Bump(availIdx) /\ devIdx' = devIdx
    BY DEF Submit, device
  <2> QED
    BY <2>3, <2>5, <2>6
<1> QED
  BY <1>3, <1>5, <1>8

LEMMA Serving ==
    ASSUME IInv, NEW h \in Desc, DevServe(h)
    PROVE  h \notin Returned /\ Returned' = Returned \cup {h}
           /\ Once(used_idx', usedIdx', used')
<1> USE DEF Queues, InFlight, Offered, Returned, Waiting, IInv
<1>1. PICK p \in Waiting : head[p] = h
  BY DEF DevServe
<1>2. next[h] \in Desc /\ next[h] # h /\ next[h] \notin InFlight
  <2>1. next[h] \in Desc /\ next[h] # h
    BY <1>1 DEF Chains
  <2>2. ASSUME NEW q \in Waiting, head[q] = next[h] PROVE FALSE
    <3>1. q # p
      BY <1>1, <2>1, <2>2
    <3>2. next[h] \in Chain(head[p]) /\ next[h] \in Chain(head[q])
      BY <1>1, <2>2 DEF Chain
    <3> QED
      BY <3>1, <3>2 DEF Chains
  <2> QED
    BY <2>1, <2>2
<1>3. h \notin Returned
  BY DEF DevServe
<1>4. Gap(used_idx, usedIdx) <= NUM - 2
  <2>1. Returned \subseteq Desc \ {h, next[h]}
    BY <1>2, <1>3, AheadType DEF TypeOK, RingOK
  <2> DEFINE S == Desc \ {h, next[h]}
  <2>2. IsFiniteSet(S) /\ Cardinality(S) = NUM - 2
    BY <1>2, TwoShort
  <2>3. used_idx \in Idx /\ usedIdx \in Idx /\ used \in [Desc -> Desc]
        /\ Once(used_idx, usedIdx, used) /\ Ahead(used_idx, usedIdx, used) \subseteq S
    BY <2>1 DEF TypeOK, RingOK
  <2> HIDE DEF S
  <2>4. Gap(used_idx, usedIdx) <= Cardinality(S)
    BY <2>2, <2>3, WindowFits
  <2> QED
    BY <2>2, <2>4
<1>6. Returned' = Returned \cup {h} /\ Once(used_idx', usedIdx', used')
  <2>1. Gap(used_idx, usedIdx) + 1 < NUM
    BY <1>4, GapIs, Moduli DEF TypeOK, RingOK
  <2>2. h \notin Ahead(used_idx, usedIdx, used)
    BY <1>3
  <2>3. used' = [used EXCEPT ![At(usedIdx)] = h]
    BY DEF DevServe, At
  <2>4. used_idx \in Idx /\ usedIdx \in Idx /\ used \in [Desc -> Desc] /\ h \in Desc
        /\ Once(used_idx, usedIdx, used)
    BY DEF TypeOK, RingOK
  <2>5. LET new == [used EXCEPT ![At(usedIdx)] = h] IN
        /\ Ahead(used_idx, Bump(usedIdx), new) = Ahead(used_idx, usedIdx, used) \cup {h}
        /\ Once(used_idx, Bump(usedIdx), new)
    BY <2>1, <2>2, <2>4, Push
  <2>6. usedIdx' = Bump(usedIdx) /\ used_idx' = used_idx
    BY DEF DevServe
  <2> QED
    BY <2>3, <2>5, <2>6
<1> QED
  BY <1>3, <1>6

LEMMA QueuesStep == IInv /\ Next => Queues'
<1> SUFFICES ASSUME IInv, Next PROVE Queues'
  OBVIOUS
<1> USE NoneNew DEF Queues, InFlight, Offered, Returned, Waiting, Goto, rings, descs, device, IInv
<1>1. ASSUME NEW p \in Proc, Call(p) PROVE Queues'
  BY <1>1 DEF Call
<1>2. ASSUME NEW p \in Proc, AllocFails(p) PROVE Queues'
  BY <1>2 DEF AllocFails, Woken
<1>3. ASSUME NEW p \in Proc, Submit(p) PROVE Queues'
  <2>1. PICK i \in Desc :
            /\ i \notin InFlight /\ head' = [head EXCEPT ![p] = i]
            /\ Offered' = Offered \cup {i} /\ Once(devIdx', availIdx', avail')
    BY <1>3, Offering DEF IInv
  <2>2. head[p] = None
    BY <1>3 DEF Places, Submit
  <2>3. head'[p] = i
        /\ \A q \in Proc : q # p => head'[q] = head[q] /\ diskOwns'[q] = diskOwns[q]
    BY <1>3, <2>1 DEF Submit, TypeOK, RestOK
  <2>4. Waiting' = Waiting \cup {p} /\ diskOwns'[p]
    BY <1>3, <2>3, <2>1 DEF Submit, TypeOK, RestOK
  <2>9. Returned' = Returned /\ taken' = taken
    BY <1>3 DEF Submit
  <2>10. Once(used_idx', usedIdx', used')
    BY <1>3 DEF Submit
  <2> HIDE DEF Offered, Returned
  <2> QED
    BY <2>1, <2>2, <2>3, <2>4, <2>9, <2>10
<1>4. ASSUME NEW p \in Proc, SleepAgain(p) PROVE Queues'
  BY <1>4 DEF SleepAgain
<1>5. ASSUME NEW p \in Proc, Finish(p) PROVE Queues'
  <2>1. ~diskOwns[p] /\ p \in Waiting /\ Waiting' = Waiting \ {p}
        /\ \A q \in Proc : q # p => head'[q] = head[q]
    BY <1>5 DEF Finish, IsDone, Places, TypeOK, RestOK
  <2>2. Offered' = Offered /\ Returned' = Returned /\ taken' = taken
        /\ diskOwns' = diskOwns
    BY <1>5 DEF Finish
  <2>3. Once(devIdx', availIdx', avail') /\ Once(used_idx', usedIdx', used')
    BY <1>5 DEF Finish
  <2> HIDE DEF Offered, Returned
  <2> QED
    BY <2>1, <2>2, <2>3
<1>6. ASSUME NEW p \in Proc, Rouse(p) PROVE Queues'
  BY <1>6 DEF Rouse
<1>7. CASE DevTake
  <2> DEFINE h == avail[devIdx % NUM]
  <2>1. h \in Offered /\ Offered' = Offered \ {h} /\ Once(devIdx', availIdx', avail')
    BY <1>7, Pop DEF DevTake, TypeOK, RingOK
  <2>2. taken' = taken \cup {h} /\ Returned' = Returned
        /\ Once(used_idx', usedIdx', used')
    BY <1>7 DEF DevTake
  <2>3. head' = head /\ diskOwns' = diskOwns
    BY <1>7 DEF DevTake
  <2> HIDE DEF h, Offered, Returned
  <2> QED
    BY <2>1, <2>2, <2>3
<1>8. ASSUME NEW h \in Desc, DevServe(h) PROVE Queues'
  <2>6. h \notin Returned /\ Returned' = Returned \cup {h}
        /\ Once(used_idx', usedIdx', used')
    BY <1>8, Serving DEF IInv
  <2>7. Offered' = Offered /\ taken' = taken \ {h} /\ h \in taken
        /\ Once(devIdx', availIdx', avail')
    BY <1>8 DEF DevServe
  <2>8. head' = head /\ diskOwns' = diskOwns
    BY <1>8 DEF DevServe
  <2> HIDE DEF Offered, Returned
  <2> QED
    BY <2>6, <2>7, <2>8
<1>9. CASE DevInterrupt
  BY <1>9 DEF DevInterrupt
<1>10. CASE IntrBegin
  BY <1>10 DEF IntrBegin
<1>11. CASE IntrEntry
  <2> DEFINE h == used[used_idx % NUM]
  <2>1. h \in Returned /\ Returned' = Returned \ {h} /\ Once(used_idx', usedIdx', used')
    BY <1>11, Pop DEF IntrEntry, TypeOK, RingOK
  <2>2. PICK p \in Waiting : head[p] = h
    BY <2>1
  <2>3. info[h] = p
    BY <2>2 DEF Chains
  <2>4. diskOwns' = [diskOwns EXCEPT ![p] = FALSE] /\ head' = head
    BY <1>11, <2>3 DEF IntrEntry
  <2>5. Offered' = Offered /\ taken' = taken /\ Once(devIdx', availIdx', avail')
    BY <1>11 DEF IntrEntry
  <2>6. ASSUME NEW q \in Waiting, q # p PROVE head[q] # h
    BY <2>2, <2>6 DEF Chains, Chain
  <2>7. ASSUME NEW q \in Proc PROVE diskOwns'[q] <=> q # p /\ diskOwns[q]
    BY <2>4 DEF TypeOK, RestOK
  <2> HIDE DEF h, Offered, Returned
  <2> QED
    BY <2>1, <2>2, <2>4, <2>5, <2>6, <2>7
<1>12. CASE IntrEnd
  BY <1>12 DEF IntrEnd
<1> QED
  BY <1>1, <1>2, <1>3, <1>4, <1>5, <1>6, <1>7, <1>8, <1>9, <1>10, <1>11,
     <1>12 DEF Next, Rw, Device, Intr

LEMMA InitInv == Init => IInv
<1> SUFFICES ASSUME Init PROVE IInv
  OBVIOUS
<1> USE DEF Init
<1>1. 0 \in Desc /\ 0 \in Idx
  <2>1. NUM \in Nat /\ NUM > 0 /\ IdxMod \in Nat /\ IdxMod > 0
    BY Moduli
  <2> QED
    BY <2>1 DEF Desc, Idx
<1>2. TypeOK
  BY <1>1 DEF TypeOK, DescOK, RingOK, RestOK, PC
<1>3. Places
  BY DEF Places
<1>4. Waiting = {}
  BY DEF Waiting
<1>5. Chains
  BY <1>4 DEF Chains
<1>6. Gap(devIdx, availIdx) = 0 /\ Gap(used_idx, usedIdx) = 0
  BY <1>1, GapSteps
<1>7. Offered = {} /\ Returned = {}
  BY <1>6, AheadIs DEF Offered, Returned
<1>8. Once(devIdx, availIdx, avail) /\ Once(used_idx, usedIdx, used)
  BY <1>6 DEF Once
<1>9. Queues
  BY <1>4, <1>7, <1>8 DEF Queues, InFlight
<1> QED
  BY <1>2, <1>3, <1>5, <1>9 DEF IInv

LEMMA Invariance == IInv /\ [Next]_vars => IInv'
<1>1. IInv /\ Next => IInv'
  BY TypeOKStep, PlacesStep, ChainsStep, QueuesStep DEF IInv
<1>2. ASSUME IInv, UNCHANGED vars PROVE IInv'
  <2> USE DEF vars, descs, rings, device
  <2>1. TypeOK' /\ Places'
    BY <1>2 DEF IInv, TypeOK, DescOK, RingOK, RestOK, Places
  <2>2. Chains'
    BY <1>2 DEF IInv, Chains, Waiting, Chain
  <2>3. Queues'
    BY <1>2 DEF IInv, Queues, InFlight, Offered, Returned, Waiting
  <2> QED
    BY <2>1, <2>2, <2>3 DEF IInv
<1> QED
  BY <1>1, <1>2

THEOREM Invariant == Spec => []IInv
<1> QED
  BY InitInv, Invariance, PTL DEF Spec

(* Descriptors, ring entries and indices are what struct disk says.         *)
THEOREM TypeCorrect == Spec => []TypeOK
<1>1. IInv => TypeOK
  BY DEF IInv
<1> QED
  BY <1>1, Invariant, PTL

(* virtio_disk_rw and virtio_disk_intr: each request has its own three      *)
(* descriptors until it frees them, none is lost, and the disk owns a       *)
(* buffer exactly while its request is in one queue (RequestsOwned).        *)
THEOREM EachItsOwn == Spec => []RequestsOwned
<1>1. IInv => RequestsOwned
  <2> SUFFICES ASSUME IInv PROVE RequestsOwned
    OBVIOUS
  <2> USE DEF IInv
  <2>1. ASSUME NEW p \in Waiting PROVE Cardinality(Chain(head[p])) = 3
    <3> DEFINE i == head[p]
               j == next[i]
               k == next[j]
    <3>1. i # j /\ i # k /\ j # k
      BY DEF Chains
    <3>2. Chain(head[p]) = {i, j, k}
      BY DEF Chain
    <3> HIDE DEF i, j, k
    <3>3. IsFiniteSet({i, j}) /\ Cardinality({i, j}) = 2
      <4>1. IsFiniteSet({i}) /\ Cardinality({i}) = 1
        BY FS_Singleton
      <4>2. IsFiniteSet({i} \cup {j}) /\ Cardinality({i} \cup {j}) = 1 + 1
        BY <3>1, <4>1, FS_AddElement
      <4>3. {i} \cup {j} = {i, j}
        OBVIOUS
      <4> QED
        BY <4>2, <4>3
    <3>4. Cardinality({i, j} \cup {k}) = 2 + 1
      BY <3>1, <3>3, FS_AddElement
    <3>5. {i, j} \cup {k} = {i, j, k}
      OBVIOUS
    <3> QED
      BY <3>2, <3>4, <3>5
  <2>2. FreeDescs = Desc \ UNION {Chain(head[p]) : p \in Waiting}
    BY DEF Chains, FreeDescs
  <2>3. ChainsIntact
    BY <2>1, <2>2 DEF Chains, ChainsIntact
  <2>4. ASSUME NEW p \in Waiting, head[p] \in InFlight PROVE diskOwns[p]
    <3>1. PICK q \in Waiting : head[q] = head[p] /\ diskOwns[q]
      BY <2>4 DEF Queues
    <3>2. q = p
      BY <3>1 DEF Chains, Chain
    <3> QED
      BY <3>1, <3>2
  <2>5. OwnedInFlight
    BY <2>4 DEF Queues, OwnedInFlight, InFlight
  <2> QED
    BY <2>3, <2>5 DEF RequestsOwned
<1> QED
  BY <1>1, Invariant, PTL

-----------------------------------------------------------------------------
(* The driver and its device implement DiskRequests.                        *)
LEMMA Unmoved ==
    ASSUME IInv, head' = head, Offered' \cup taken' = Offered \cup taken
    PROVE  Status' = Status
  BY DEF Status

LEMMA RefinesInit == Init => Requests!Init
<1> SUFFICES ASSUME Init PROVE Requests!Init
  OBVIOUS
<1> QED
  BY DEF Init, Requests!Init, Status

LEMMA RefinesStep == IInv /\ Next => [Requests!Next]_Status
<1> SUFFICES ASSUME IInv, Next PROVE [Requests!Next]_Status
  OBVIOUS
<1> USE DEF rings, descs, device, IInv
<1>1. ASSUME NEW p \in Proc, Call(p) \/ AllocFails(p) \/ SleepAgain(p) \/ Rouse(p)
      PROVE  UNCHANGED Status
  <2>1. head' = head /\ Offered' \cup taken' = Offered \cup taken
    BY <1>1 DEF Call, AllocFails, SleepAgain, Rouse, Offered
  <2> QED
    BY <2>1, Unmoved
<1>2. ASSUME DevInterrupt \/ Intr PROVE UNCHANGED Status
  <2>1. head' = head /\ Offered' \cup taken' = Offered \cup taken
    BY <1>2 DEF DevInterrupt, Intr, IntrBegin, IntrEntry, IntrEnd, Offered
  <2> QED
    BY <2>1, Unmoved
<1>3. ASSUME NEW p \in Proc, Submit(p) PROVE Requests!Request(p)
  <2>1. PICK i \in Desc : /\ free[i] /\ i \notin InFlight /\ head' = [head EXCEPT ![p] = i]
                          /\ Offered' = Offered \cup {i}
    BY <1>3, Offering
  <2>2. head[p] = None /\ taken' = taken
    BY <1>3 DEF Places, Submit
  <2>3. ASSUME NEW q \in Proc, q # p
        PROVE  head'[q] = head[q] /\ (head[q] # None => head[q] # i)
    BY <2>1, <2>3 DEF TypeOK, RestOK, Chains, Chain, Waiting
  <2>4. head'[p] = i /\ i # None
    BY <2>1, NoneNew DEF TypeOK, RestOK
  <2>5. Status[p] = "none" /\ Status'[p] = "requested"
    BY <2>1, <2>2, <2>4 DEF Status
  <2>6. ASSUME NEW q \in Proc, q # p PROVE Status'[q] = Status[q]
    BY <2>1, <2>2, <2>3, <2>6 DEF Status
  <2>7. Status' = [Status EXCEPT ![p] = "requested"]
    BY <2>5, <2>6 DEF Status
  <2> QED
    BY <2>5, <2>7 DEF Requests!Request, Requests!Move
<1>4. CASE DevTake
  <2>1. avail[devIdx % NUM] \in Offered /\ Offered' = Offered \ {avail[devIdx % NUM]}
    BY <1>4, Pop DEF DevTake, TypeOK, RingOK, Queues, Offered
  <2>2. head' = head /\ taken' = taken \cup {avail[devIdx % NUM]}
    BY <1>4 DEF DevTake
  <2> QED
    BY <2>1, <2>2, Unmoved
<1>5. ASSUME NEW h \in Desc, DevServe(h) PROVE \E p \in Proc : Requests!Serve(p)
  <2>1. h \in taken /\ taken' = taken \ {h} /\ Offered' = Offered /\ head' = head
    BY <1>5 DEF DevServe, Offered
  <2>2. PICK p \in Waiting : head[p] = h
    BY <2>1 DEF Queues, InFlight
  <2>3. p \in Proc /\ \A q \in Proc : q # p => head[q] # h
    BY <2>2, NoneNew DEF Chains, Chain, Waiting
  <2>4. h \notin Offered
    BY <2>1 DEF Queues
  <2> QED
    BY <2>1, <2>2, <2>3, <2>4, NoneNew DEF Status, Requests!Serve, Requests!Move
<1>6. ASSUME NEW p \in Proc, Finish(p) PROVE Requests!Return(p)
  <2>1. head' = [head EXCEPT ![p] = None] /\ Offered' = Offered /\ taken' = taken
        /\ ~diskOwns[p] /\ p \in Waiting
    BY <1>6 DEF Finish, IsDone, Offered, Places, Waiting
  <2>2. head[p] \notin InFlight
    <3>1. ASSUME NEW q \in Waiting, head[q] = head[p] PROVE q = p
      BY <2>1, <3>1 DEF Chains, Chain
    <3> QED
      BY <2>1, <3>1 DEF Queues
  <2> QED
    BY <2>1, <2>2 DEF Status, Requests!Return, Requests!Move, InFlight, Waiting,
                      TypeOK, RestOK
<1> QED
  BY <1>1, <1>2, <1>3, <1>4, <1>5, <1>6 DEF Next, Rw, Device, Requests!Next

(* virtio_disk_rw returns to a process when the device has served its own   *)
(* request, and every request is served once (Refines).                     *)
THEOREM DiskIsRequests == Spec => Refines
<1>1. IInv /\ UNCHANGED vars => UNCHANGED Status
  BY DEF vars, descs, rings, device, Status, Offered
<1>2. IInv /\ [Next]_vars => [Requests!Next]_Status
  BY <1>1, RefinesStep
<1> QED
  BY <1>2, RefinesInit, Invariant, PTL DEF Spec, Refines, Requests!Spec

-----------------------------------------------------------------------------
(* The console's ring: indices wrap at Wrap, slots at Size, which divides it. *)

Index == 0 .. Wrap - 1
Distance(a, b) == (b - a) % Wrap
Chars == Plain \cup {"nl", "eof", "nul"}
Bufs  == [0 .. Size - 1 -> Chars]
\* The characters from index a to before b.
Line(d, a, b) == [i \in 1 .. Distance(a, b) |-> d[(a + i - 1) % Size]]

LEMMA Apart ==
    ASSUME NEW a \in Int, NEW n \in Nat, n > 0, NEW k \in 1..n - 1
    PROVE  (a + k) % n # a % n
<1>1. PICK q \in Int, r \in 0..n - 1 : a = q * n + r /\ r = a % n
  BY Division
<1>2. CASE r + k < n
  <2>1. a + k = q * n + (r + k) /\ r + k \in 0..n - 1
    BY <1>1, <1>2
  <2> QED
    BY <1>1, <2>1, Remainder
<1>3. CASE r + k >= n
  <2>1. (q + 1) * n = q * n + n
    OBVIOUS
  <2>2. a + k = (q + 1) * n + (r + k - n) /\ r + k - n \in 0..n - 1
    BY <1>1, <1>3, <2>1
  <2>3. q + 1 \in Int /\ a + k \in Int
    BY <1>1
  <2>4. (a + k) % n = r + k - n
    BY <2>2, <2>3, Remainder
  <2> QED
    BY <1>1, <2>4
<1> QED
  BY <1>2, <1>3

LEMMA RingModuli ==
    ASSUME Con!ConsoleConstants
    PROVE  /\ Size \in Nat /\ Size > 0 /\ Wrap \in Nat /\ Wrap > Size
           /\ \E m \in Int : Wrap = m * Size
<1>1. Size \in Nat /\ Size > 0 /\ Wrap \in Nat /\ Wrap > Size /\ Wrap % Size = 0
  BY DEF Con!ConsoleConstants
<1>2. PICK m \in Int, k \in 0 .. Size - 1 : Wrap = m * Size + k /\ k = Wrap % Size
  BY <1>1, Division
<1>3. Wrap = m * Size
  BY <1>1, <1>2
<1> QED  BY <1>1, <1>3

LEMMA SlotIs == ASSUME Con!ConsoleConstants, NEW k \in Int PROVE k % Size \in 0 .. Size - 1
  BY DEF Con!ConsoleConstants

LEMMA NextIndex ==
    ASSUME Con!ConsoleConstants, NEW a \in Index
    PROVE  (a + 1) % Wrap = (IF a + 1 = Wrap THEN 0 ELSE a + 1) /\ (a + 1) % Wrap \in Index
<1>1. CASE a + 1 = Wrap
  BY <1>1, Remainder, RingModuli DEF Index
<1>2. CASE a + 1 # Wrap
  BY <1>2, Remainder, RingModuli DEF Index
<1> QED  BY <1>1, <1>2

LEMMA LastIndex ==
    ASSUME Con!ConsoleConstants, NEW a \in Index
    PROVE  (a - 1) % Wrap = (IF a = 0 THEN Wrap - 1 ELSE a - 1) /\ (a - 1) % Wrap \in Index
<1>1. CASE a = 0
  <2>1. a - 1 \in Int /\ a - 1 = (-1) * Wrap + (Wrap - 1) /\ Wrap - 1 \in 0 .. Wrap - 1
    BY <1>1, RingModuli
  <2> DEFINE g == a - 1
             h == Wrap - 1
  <2>2. g \in Int /\ -1 \in Int /\ g = (-1) * Wrap + h /\ h \in 0 .. Wrap - 1
    BY <2>1
  <2> HIDE DEF g, h
  <2>3. g % Wrap = h
    BY <2>2, Remainder, RingModuli
  <2> QED  BY <1>1, <2>1, <2>3 DEF Index, g, h
<1>2. CASE a # 0
  <2>1. a - 1 \in 0 .. Wrap - 1 /\ a - 1 \in Int /\ a - 1 = 0 * Wrap + (a - 1)
    BY <1>2, RingModuli DEF Index
  <2>2. (a - 1) % Wrap = a - 1
    BY <2>1, Remainder, RingModuli
  <2> QED  BY <1>2, <2>1, <2>2 DEF Index
<1> QED  BY <1>1, <1>2

LEMMA SlotWraps == ASSUME Con!ConsoleConstants, NEW k \in Int PROVE (k + Wrap) % Size = k % Size
<1>1. PICK m \in Int : Wrap = m * Size
  BY RingModuli
<1>2. PICK j \in Int, k0 \in 0 .. Size - 1 : k = j * Size + k0 /\ k0 = k % Size
  BY RingModuli, Division
<1>3. (j + m) * Size = j * Size + m * Size
  BY RingModuli
<1>4. k + Wrap = (j + m) * Size + k0 /\ j + m \in Int /\ k + Wrap \in Int
  BY <1>1, <1>2, <1>3, RingModuli
<1>5. (k + Wrap) % Size = k0
  <2> DEFINE h == j + m
             g == k + Wrap
  <2>1. g \in Int /\ h \in Int /\ g = h * Size + k0
    BY <1>4
  <2> HIDE DEF g, h
  <2>2. g % Size = k0
    BY <2>1, RingModuli, Remainder
  <2> QED  BY <2>2 DEF g
<1> QED  BY <1>2, <1>5

LEMMA DistanceIs ==
    ASSUME Con!ConsoleConstants, NEW a \in Index, NEW b \in Index
    PROVE  /\ Distance(a, b) = IF a <= b THEN b - a ELSE b - a + Wrap
           /\ Distance(a, b) \in Index
<1>1. CASE a <= b
  <2>1. b - a \in 0 .. Wrap - 1 /\ b - a = 0 * Wrap + (b - a)
    BY <1>1, RingModuli DEF Index
  <2> QED  BY <1>1, <2>1, Remainder, RingModuli DEF Distance, Index
<1>2. CASE a > b
  <2>1. b - a + Wrap \in 0 .. Wrap - 1 /\ b - a = (-1) * Wrap + (b - a + Wrap)
    BY <1>2, RingModuli DEF Index
  <2> QED  BY <1>2, <2>1, Remainder, RingModuli DEF Distance, Index
<1> QED  BY <1>1, <1>2 DEF Index

LEMMA GapNumbers ==
    ASSUME Con!ConsoleConstants, NEW a \in Index, NEW b \in Index
    PROVE  a \in Int /\ b \in Int /\ Distance(a, b) \in Nat /\ (Distance(a, b) = 0 <=> a = b) /\ Distance(a, a) = 0
<1>1. Distance(a, b) = (IF a <= b THEN b - a ELSE b - a + Wrap) /\ Distance(a, b) \in Index /\ Distance(a, a) = a - a
  BY DistanceIs DEF Index
<1> QED  BY <1>1, RingModuli DEF Index

LEMMA GapsAdd ==
    ASSUME Con!ConsoleConstants, NEW a \in Index, NEW b \in Index, NEW c \in Index,
           Distance(a, b) + Distance(b, c) <= Size
    PROVE  Distance(a, c) = Distance(a, b) + Distance(b, c)
<1>1. /\ Distance(a, b) = IF a <= b THEN b - a ELSE b - a + Wrap
      /\ Distance(b, c) = IF b <= c THEN c - b ELSE c - b + Wrap
      /\ Distance(a, c) = IF a <= c THEN c - a ELSE c - a + Wrap
  BY DistanceIs
<1>2. a \in 0 .. Wrap - 1 /\ b \in 0 .. Wrap - 1 /\ c \in 0 .. Wrap - 1
  BY DEF Index
<1> QED  BY <1>1, <1>2, RingModuli

LEMMA GapGrows ==
    ASSUME Con!ConsoleConstants, NEW a \in Index, NEW b \in Index, Distance(a, b) < Size
    PROVE  Distance(a, (b + 1) % Wrap) = Distance(a, b) + 1
<1> DEFINE c == (b + 1) % Wrap
<1>1. c \in Index /\ c = IF b + 1 = Wrap THEN 0 ELSE b + 1
  BY NextIndex
<1>2. /\ Distance(a, b) = IF a <= b THEN b - a ELSE b - a + Wrap
      /\ Distance(a, c) = IF a <= c THEN c - a ELSE c - a + Wrap
  BY <1>1, DistanceIs
<1>3. a \in 0 .. Wrap - 1 /\ b \in 0 .. Wrap - 1
  BY DEF Index
<1> HIDE DEF c
<1>4. Distance(a, c) = Distance(a, b) + 1
  BY <1>1, <1>2, <1>3, RingModuli
<1> QED  BY <1>4 DEF c

LEMMA GapShrinks ==
    ASSUME Con!ConsoleConstants, NEW a \in Index, NEW b \in Index, a # b
    PROVE  /\ Distance((a + 1) % Wrap, b) = Distance(a, b) - 1
           /\ Distance(a, (b - 1) % Wrap) = Distance(a, b) - 1
<1> DEFINE c == (a + 1) % Wrap
           d == (b - 1) % Wrap
<1>1. c \in Index /\ c = IF a + 1 = Wrap THEN 0 ELSE a + 1
  BY NextIndex
<1>2. d \in Index /\ d = IF b = 0 THEN Wrap - 1 ELSE b - 1
  BY LastIndex
<1>3. /\ Distance(a, b) = IF a <= b THEN b - a ELSE b - a + Wrap
      /\ Distance(c, b) = IF c <= b THEN b - c ELSE b - c + Wrap
      /\ Distance(a, d) = IF a <= d THEN d - a ELSE d - a + Wrap
  BY <1>1, <1>2, DistanceIs
<1>4. a \in 0 .. Wrap - 1 /\ b \in 0 .. Wrap - 1
  BY DEF Index
<1> HIDE DEF c, d
<1>5. Distance(c, b) = Distance(a, b) - 1 /\ Distance(a, d) = Distance(a, b) - 1
  BY <1>1, <1>2, <1>3, <1>4, RingModuli
<1> QED  BY <1>5 DEF c, d

LEMMA SlotAfter ==
    ASSUME Con!ConsoleConstants, NEW a \in Index, NEW b \in Index, NEW k \in Int
    PROVE  (a + Distance(a, b) + k) % Size = (b + k) % Size
<1>1. CASE a <= b
  BY <1>1, DistanceIs DEF Index
<1>2. CASE a > b
  <2>1. a + Distance(a, b) + k = (b + k) + Wrap
    BY <1>2, DistanceIs, RingModuli DEF Index
  <2>2. b + k \in Int
    BY DEF Index
  <2> QED  BY <2>1, <2>2, SlotWraps
<1> QED  BY <1>1, <1>2 DEF Index

LEMMA SlotOfNext ==
    ASSUME Con!ConsoleConstants, NEW a \in Index, NEW k \in Int
    PROVE  (((a + 1) % Wrap) + k) % Size = (a + 1 + k) % Size
<1>1. CASE a + 1 # Wrap
  BY <1>1, NextIndex DEF Index
<1>2. CASE a + 1 = Wrap
  <2>1. ((a + 1) % Wrap) + k = k /\ a + 1 + k = k + Wrap
    BY <1>2, NextIndex, RingModuli DEF Index
  <2> QED  BY <2>1, SlotWraps
<1> QED  BY <1>1, <1>2

LEMMA LineIs ==
    ASSUME Con!ConsoleConstants, NEW d \in Bufs, NEW a \in Index, NEW b \in Index
    PROVE  Line(d, a, b) \in Seq(Chars) /\ Len(Line(d, a, b)) = Distance(a, b)
<1>1. Distance(a, b) \in Nat
  BY GapNumbers
<1>2. ASSUME NEW i \in 1 .. Distance(a, b)
      PROVE  d[(a + i - 1) % Size] \in Chars
  <2>1. a + i - 1 \in Int
    BY <1>1 DEF Index
  <2>2. (a + i - 1) % Size \in 0 .. Size - 1
    BY <2>1, SlotIs
  <2> QED  BY <2>2 DEF Bufs
<1> QED  BY <1>1, <1>2 DEF Line

\* A character in a free slot is none of those in front of it.
LEMMA LineStays ==
    ASSUME Con!ConsoleConstants, NEW d \in Bufs, NEW x \in Chars,
           NEW a \in Index, NEW b \in Index, NEW c \in Index, Distance(a, b) + Distance(b, c) < Size
    PROVE  LET f == [d EXCEPT ![c % Size] = x] IN
           /\ f \in Bufs /\ f[c % Size] = x
           /\ Line(f, a, b) = Line(d, a, b)
<1> DEFINE f == [d EXCEPT ![c % Size] = x]
<1>1. /\ a \in Int /\ c \in Int /\ Distance(a, b) \in Nat /\ Distance(b, c) \in Nat
      /\ Distance(a, c) = Distance(a, b) + Distance(b, c) /\ Distance(a, c) < Size
  BY GapNumbers, GapsAdd, RingModuli
<1>2. c % Size \in 0 .. Size - 1
  BY <1>1, SlotIs
<1>3. f \in Bufs /\ f[c % Size] = x
  BY <1>2 DEF Bufs
<1>4. ASSUME NEW i \in 1 .. Distance(a, b)
      PROVE  f[(a + i - 1) % Size] = d[(a + i - 1) % Size]
  <2>1. a + i - 1 \in Int /\ Distance(a, c) - i + 1 \in 1 .. Size - 1
    BY <1>1, RingModuli
  <2>2. (a + i - 1 + (Distance(a, c) - i + 1)) % Size # (a + i - 1) % Size
    BY <2>1, Apart, RingModuli
  <2>3. a + i - 1 + (Distance(a, c) - i + 1) = a + Distance(a, c) + 0 /\ c + 0 = c
    BY <1>1
  <2>4. (a + i - 1) % Size # c % Size
    BY <2>2, <2>3, SlotAfter
  <2> QED  BY <2>4 DEF Bufs
<1>5. Line(f, a, b) = Line(d, a, b)
  BY <1>4 DEF Line
<1> QED  BY <1>3, <1>5

LEMMA LineGrows ==
    ASSUME Con!ConsoleConstants, NEW d \in Bufs, NEW x \in Chars,
           NEW a \in Index, NEW b \in Index, Distance(a, b) < Size
    PROVE  Line([d EXCEPT ![b % Size] = x], a, (b + 1) % Wrap) = Append(Line(d, a, b), x)
<1> DEFINE n == Distance(a, b)
           f == [d EXCEPT ![b % Size] = x]
           c == (b + 1) % Wrap
           s == Line(d, a, b)
           t == Line(f, a, c)
<1>1. c \in Index /\ n \in Nat /\ a \in Int /\ b \in Int /\ Distance(b, b) = 0 /\ n + 0 = n
  BY NextIndex, GapNumbers
<1>2. Distance(a, c) = n + 1
  BY GapGrows
<1>3. f \in Bufs /\ f[b % Size] = x /\ Line(f, a, b) = s
  BY <1>1, LineStays
<1>4. s \in Seq(Chars) /\ Len(s) = n /\ t \in Seq(Chars) /\ Len(t) = n + 1
  BY <1>1, <1>2, <1>3, LineIs
<1>5. ASSUME NEW i \in 1 .. n PROVE t[i] = s[i]
  <2>1. i \in 1 .. n + 1
    BY <1>1
  <2>2. t[i] = f[(a + i - 1) % Size]
    BY <1>2, <2>1 DEF Line
  <2>3. Line(f, a, b)[i] = f[(a + i - 1) % Size]
    BY DEF Line
  <2> QED  BY <1>3, <2>2, <2>3
<1>6. t[n + 1] = x
  <2>1. a + (n + 1) - 1 = a + n + 0 /\ b + 0 = b /\ n + 1 \in 1 .. n + 1
    BY <1>1
  <2>2. t[n + 1] = f[(a + n + 0) % Size]
    BY <1>2, <2>1 DEF Line
  <2>3. (a + n + 0) % Size = b % Size
    BY <2>1, SlotAfter
  <2> QED  BY <1>3, <2>2, <2>3
<1> HIDE DEF n, s, t
<1>7. /\ Append(s, x) \in Seq(Chars) /\ Len(Append(s, x)) = n + 1
      /\ \A i \in 1 .. n : Append(s, x)[i] = s[i]
      /\ Append(s, x)[n + 1] = x
  BY <1>1, <1>4
<1>8. \A i \in 1 .. n + 1 : t[i] = Append(s, x)[i]
  BY <1>1, <1>5, <1>6, <1>7
<1>9. t = Append(s, x)
  BY <1>4, <1>7, <1>8, SeqEqual
<1> QED  BY <1>9 DEF s, t

LEMMA LineTaken ==
    ASSUME Con!ConsoleConstants, NEW d \in Bufs, NEW a \in Index, NEW b \in Index, a # b
    PROVE  Line(d, (a + 1) % Wrap, b) = Tail(Line(d, a, b)) /\ Line(d, a, b) # <<>>
<1> DEFINE n == Distance(a, b)
           c == (a + 1) % Wrap
           s == Line(d, a, b)
           t == Line(d, c, b)
<1>1. c \in Index /\ n \in Nat /\ n # 0 /\ a \in Int /\ b \in Int
  BY NextIndex, GapNumbers
<1>2. c \in Int
  BY <1>1 DEF Index
<1>3. Distance(c, b) = n - 1
  BY GapShrinks
<1>4. s \in Seq(Chars) /\ Len(s) = n /\ t \in Seq(Chars) /\ Len(t) = n - 1
  BY <1>1, <1>3, LineIs
<1>5. ASSUME NEW i \in 1 .. n - 1 PROVE t[i] = s[i + 1]
  <2>1. i - 1 \in Int /\ i + 1 \in 1 .. n
    BY <1>1
  <2>2. (c + (i - 1)) % Size = (a + 1 + (i - 1)) % Size
    BY <2>1, SlotOfNext
  <2>3. c + i - 1 = c + (i - 1) /\ a + 1 + (i - 1) = a + (i + 1) - 1
    BY <1>1, <1>2, <2>1
  <2>4. t[i] = d[(c + i - 1) % Size]
    BY <1>3 DEF Line
  <2>5. s[i + 1] = d[(a + (i + 1) - 1) % Size]
    BY <2>1 DEF Line
  <2> QED  BY <2>2, <2>3, <2>4, <2>5
<1> HIDE DEF n, c, s, t
<1>6. s # <<>>
  BY <1>1, <1>4
<1>7. /\ Tail(s) \in Seq(Chars) /\ Len(Tail(s)) = n - 1
      /\ \A i \in 1 .. n - 1 : Tail(s)[i] = s[i + 1]
  BY <1>1, <1>4, <1>6, HeadTailProperties
<1>8. \A i \in 1 .. n - 1 : t[i] = Tail(s)[i]
  BY <1>5, <1>7
<1>9. t = Tail(s)
  BY <1>4, <1>7, <1>8, SeqEqual
<1> QED  BY <1>6, <1>9 DEF c, s, t

LEMMA LineErased ==
    ASSUME Con!ConsoleConstants, NEW d \in Bufs, NEW a \in Index, NEW b \in Index, a # b
    PROVE  LET s == Line(d, a, b) IN
           s # <<>> /\ Line(d, a, (b - 1) % Wrap) = SubSeq(s, 1, Len(s) - 1)
<1> DEFINE n == Distance(a, b)
           c == (b - 1) % Wrap
           s == Line(d, a, b)
           t == Line(d, a, c)
<1>1. c \in Index /\ n \in Nat /\ n # 0 /\ Distance(a, c) = n - 1
  BY LastIndex, GapNumbers, GapShrinks
<1>2. s \in Seq(Chars) /\ Len(s) = n /\ t \in Seq(Chars) /\ Len(t) = n - 1
  BY <1>1, LineIs
<1>3. ASSUME NEW i \in 1 .. n - 1 PROVE t[i] = s[i]
  <2>1. i \in 1 .. n
    BY <1>1
  <2> QED  BY <1>1, <2>1 DEF Line
<1> HIDE DEF n, c, s, t
<1>4. /\ SubSeq(s, 1, n - 1) \in Seq(Chars) /\ Len(SubSeq(s, 1, n - 1)) = n - 1
      /\ \A i \in 1 .. n - 1 : SubSeq(s, 1, n - 1)[i] = s[i]
  BY <1>1, <1>2
<1>5. \A i \in 1 .. n - 1 : t[i] = SubSeq(s, 1, n - 1)[i]
  BY <1>3, <1>4
<1>6. t = SubSeq(s, 1, n - 1)
  BY <1>2, <1>4, <1>5, SeqEqual
<1>7. s # <<>>
  BY <1>1, <1>2
<1> QED  BY <1>2, <1>6, <1>7 DEF c, s, t

LEMMA LinesJoin ==
    ASSUME Con!ConsoleConstants, NEW d \in Bufs, NEW a \in Index, NEW b \in Index, NEW c \in Index,
           Distance(a, b) + Distance(b, c) <= Size
    PROVE  Line(d, a, c) = Line(d, a, b) \o Line(d, b, c)
<1> DEFINE m == Distance(a, b)
           n == Distance(b, c)
           s == Line(d, a, b)
           t == Line(d, b, c)
           u == Line(d, a, c)
<1>1. m \in Nat /\ n \in Nat /\ a \in Int /\ b \in Int /\ Distance(a, c) = m + n
  BY GapNumbers, GapsAdd
<1>2. /\ s \in Seq(Chars) /\ Len(s) = m /\ t \in Seq(Chars) /\ Len(t) = n
      /\ u \in Seq(Chars) /\ Len(u) = m + n
  BY <1>1, LineIs
<1>3. ASSUME NEW i \in 1 .. m PROVE u[i] = s[i]
  <2>1. i \in 1 .. m + n
    BY <1>1
  <2> QED  BY <1>1, <2>1 DEF Line
<1>4. ASSUME NEW i \in 1 .. n PROVE u[m + i] = t[i]
  <2>1. m + i \in 1 .. m + n /\ i - 1 \in Int /\ a + (m + i) - 1 = a + m + (i - 1) /\ b + i - 1 = b + (i - 1)
    BY <1>1
  <2>2. u[m + i] = d[(a + m + (i - 1)) % Size]
    BY <1>1, <2>1 DEF Line
  <2>3. t[i] = d[(b + (i - 1)) % Size]
    BY <2>1 DEF Line
  <2> QED  BY <2>1, <2>2, <2>3, SlotAfter
<1> HIDE DEF m, n, s, t, u
<1>5. /\ s \o t \in Seq(Chars) /\ Len(s \o t) = m + n
      /\ \A i \in 1 .. m + n : (s \o t)[i] = IF i <= m THEN s[i] ELSE t[i - m]
  BY <1>1, <1>2, ConcatProperties
<1>6. ASSUME NEW i \in 1 .. m + n PROVE u[i] = (s \o t)[i]
  <2>1. CASE i \in 1 .. m
    BY <2>1, <1>3, <1>5
  <2>2. CASE i \notin 1 .. m
    <3>1. i - m \in 1 .. n /\ m + (i - m) = i /\ ~ (i <= m)
      BY <1>1, <2>2
    <3>2. u[m + (i - m)] = t[i - m]
      BY <3>1, <1>4
    <3> QED  BY <3>1, <3>2, <1>5
  <2> QED  BY <2>1, <2>2
<1>7. u = s \o t
  BY <1>2, <1>5, <1>6, SeqEqual
<1> QED  BY <1>7 DEF s, t, u

\* What is put in the ring, and where its end is, before the index wraps.
LEMMA GapUnwrapped ==
    ASSUME Con!ConsoleConstants, NEW a \in Index, NEW b \in Index, Distance(a, b) < Size
    PROVE  ((b + 1) - a) % Wrap = Distance(a, b) + 1
<1> DEFINE g == (b + 1) - a
           h == Distance(a, b) + 1
<1>1. h \in 0 .. Wrap - 1 /\ g \in Int /\ a \in Int /\ b \in Int
  BY GapNumbers, RingModuli
<1>2. g = (IF a <= b THEN 0 ELSE -1) * Wrap + h
  BY <1>1, DistanceIs, RingModuli
<1> HIDE DEF g, h
<1>3. g % Wrap = h
  BY <1>1, <1>2, Remainder, RingModuli
<1> QED  BY <1>3 DEF g, h

-----------------------------------------------------------------------------
(* The console. *)

ReaderPc == {"user", "enter", "loop", "doze", "sleep", "done"}

ConsoleTypeOK ==
    /\ buf \in Bufs /\ cons_r \in Index /\ cons_w \in Index /\ cons_e \in Index
    /\ conslock \in Readers \cup {Con!Nobody}
    /\ reader \in [Readers -> [pc : ReaderPc, n : Int, target : Int]]

\* What is complete and what is edited fit together in the ring.
Fitting == Distance(cons_r, cons_w) + Distance(cons_w, cons_e) <= Size

\* Who has cons.lock.
Holding == \A p \in Readers : reader[p].pc \in {"loop", "doze", "done"} <=> conslock = p

ConsoleInv == ConsoleTypeOK /\ Fitting /\ Holding /\ Con!NoLostWakeup

Ready == Line(buf, cons_r, cons_w)
Edit  == Line(buf, cons_w, cons_e)

LEMMA InputIs ==
    ASSUME Con!ConsoleConstants, ConsoleInv
    PROVE  /\ Ready \in Seq(Chars) /\ Len(Ready) = Distance(cons_r, cons_w)
           /\ Edit \in Seq(Chars) /\ Len(Edit) = Distance(cons_w, cons_e)
           /\ Distance(cons_r, cons_w) \in Nat /\ Distance(cons_w, cons_e) \in Nat
           /\ Distance(cons_r, cons_e) = Distance(cons_r, cons_w) + Distance(cons_w, cons_e)
           /\ Distance(cons_r, cons_w) + Distance(cons_w, cons_e) <= Size
  BY LineIs, GapNumbers, GapsAdd DEF Ready, Edit, ConsoleInv, ConsoleTypeOK, Fitting

\* The steps of LineInput, in these words.
LEMMA InputSteps ==
    /\ Ready # <<>> /\ Ready' = Tail(Ready) /\ Edit' = Edit => Con!Lines!Take
    /\ Edit # <<>> /\ Edit' = SubSeq(Edit, 1, Len(Edit) - 1) /\ Ready' = Ready => Con!Lines!Erase
    /\ Edit' = <<>> /\ Ready' = Ready => Con!Lines!KillLine
    /\ Ready' = Ready /\ Edit' = Edit => UNCHANGED Con!Lines!lvars
<1> USE DEF Ready, Edit, Line, Distance, Con!Sub
<1>1. Ready # <<>> /\ Ready' = Tail(Ready) /\ Edit' = Edit => Con!Lines!Take
  BY DEF Con!Lines!Take
<1>2. Edit # <<>> /\ Edit' = SubSeq(Edit, 1, Len(Edit) - 1) /\ Ready' = Ready => Con!Lines!Erase
  BY DEF Con!Lines!Erase, Con!Lines!Front
<1>3. Edit' = <<>> /\ Ready' = Ready => Con!Lines!KillLine
  BY DEF Con!Lines!KillLine
<1>4. Ready' = Ready /\ Edit' = Edit => UNCHANGED Con!Lines!lvars
  BY DEF Con!Lines!lvars
<1> QED  BY <1>1, <1>2, <1>3, <1>4

LEMMA InputAccepts ==
    ASSUME NEW c, Len(Ready) + Len(Edit) < Size,
           IF c \in {"nl", "eof"} \/ Len(Ready) + Len(Append(Edit, c)) = Size
           THEN Ready' = Ready \o Append(Edit, c) /\ Edit' = <<>>
           ELSE Edit' = Append(Edit, c) /\ Ready' = Ready
    PROVE  Con!Lines!Accept(c)
  BY DEF Ready, Edit, Line, Distance, Con!Sub, Con!Lines!Accept

-----------------------------------------------------------------------------
(* The steps that change the ring. *)

LEMMA TypeStep ==
    ASSUME Con!ConsoleConstants, ConsoleInv, NEW c \in Plain \cup {"nl", "eof"}, Con!Type(c)
    PROVE  /\ Con!Lines!Accept(c) /\ Fitting'
           /\ buf' \in Bufs /\ cons_w' \in Index /\ cons_e' \in Index
<1> DEFINE f == [buf EXCEPT ![cons_e % Size] = c]
           k == (cons_e + 1) % Wrap
<1>1. c \in Chars /\ buf \in Bufs /\ cons_r \in Index /\ cons_w \in Index /\ cons_e \in Index
  BY DEF Chars, ConsoleInv, ConsoleTypeOK
<1>2. /\ buf' = f /\ cons_e' = k /\ cons_r' = cons_r
      /\ cons_w' = IF Con!Completes(c) THEN k ELSE cons_w
      /\ Distance(cons_r, cons_e) < Size
  BY DEF Con!Type, Con!Room, Con!Sub, Distance
<1>3. Distance(cons_r, cons_w) + Distance(cons_w, cons_e) < Size /\ Distance(cons_w, cons_e) < Size
  BY <1>2, InputIs, RingModuli
<1>4. f \in Bufs /\ k \in Index /\ Distance(k, k) = 0
  BY <1>1, <1>3, LineStays, NextIndex, GapNumbers
<1>5. Line(f, cons_r, cons_w) = Ready /\ Line(f, cons_w, k) = Append(Edit, c)
  <2>1. Line(f, cons_r, cons_w) = Line(buf, cons_r, cons_w)
    BY <1>1, <1>3, LineStays
  <2>2. Line(f, cons_w, k) = Append(Line(buf, cons_w, cons_e), c)
    BY <1>1, <1>3, LineGrows
  <2> QED  BY <2>1, <2>2 DEF Ready, Edit
<1>6. Line(f, cons_r, k) = Ready \o Append(Edit, c)
  <2>1. Line(f, cons_r, k) = Append(Line(buf, cons_r, cons_e), c)
    BY <1>1, <1>2, LineGrows
  <2>2. Line(buf, cons_r, cons_e) = Ready \o Edit
    BY <1>1, LinesJoin, InputIs DEF Ready, Edit
  <2>3. Append(Ready \o Edit, c) = Ready \o Append(Edit, c)
    BY <1>1, InputIs
  <2> QED  BY <2>1, <2>2, <2>3
<1>7. Line(f, k, k) = <<>>
  BY <1>4, LineIs, EmptySeq
<1>8. Con!Completes(c) <=> c \in {"nl", "eof"} \/ Len(Ready) + Len(Append(Edit, c)) = Size
  <2>1. Len(Append(Edit, c)) = Distance(cons_w, cons_e) + 1
    BY <1>1, InputIs
  <2>2. Con!Sub(cons_e + 1, cons_r) = Distance(cons_r, cons_e) + 1
    BY <1>1, <1>2, GapUnwrapped DEF Con!Sub
  <2>3. Con!Completes(c) <=> c \in {"nl", "eof"} \/ Con!Sub(cons_e + 1, cons_r) = Size
    BY DEF Con!Completes
  <2>4. Len(Ready) + (Distance(cons_w, cons_e) + 1) = Distance(cons_r, cons_e) + 1
    BY InputIs
  <2> QED  BY <2>1, <2>2, <2>3, <2>4
<1>9. /\ Distance(cons_r, k) = Distance(cons_r, cons_e) + 1 /\ Distance(cons_w, k) = Distance(cons_w, cons_e) + 1
      /\ Distance(cons_r, cons_e) + 1 <= Size
  BY <1>1, <1>2, <1>3, GapGrows, InputIs, RingModuli
<1> HIDE DEF f, k
<1>10. CASE Con!Completes(c)
  <2>1. cons_w' = k /\ Ready' = Ready \o Append(Edit, c) /\ Edit' = <<>>
    BY <1>2, <1>6, <1>7, <1>10 DEF Ready, Edit
  <2>2. Con!Lines!Accept(c)
    BY <1>3, <1>8, <1>10, <2>1, InputIs, InputAccepts
  <2>3. Fitting'
    BY <1>2, <1>4, <1>9, <2>1, InputIs, RingModuli DEF Fitting
  <2> QED  BY <1>2, <1>4, <2>1, <2>2, <2>3
<1>11. CASE ~ Con!Completes(c)
  <2>1. cons_w' = cons_w /\ Ready' = Ready /\ Edit' = Append(Edit, c)
    BY <1>2, <1>5, <1>11 DEF Ready, Edit
  <2>2. Con!Lines!Accept(c)
    BY <1>3, <1>8, <1>11, <2>1, InputIs, InputAccepts
  <2>3. Fitting'
    BY <1>2, <1>9, <2>1, InputIs, RingModuli DEF Fitting
  <2> QED  BY <1>1, <1>2, <1>4, <2>1, <2>2, <2>3
<1> QED  BY <1>10, <1>11

LEMMA EraseStep ==
    ASSUME Con!ConsoleConstants, ConsoleInv, NEW kill \in BOOLEAN, Con!Erase(kill)
    PROVE  Con!Lines!Next /\ Fitting' /\ cons_e' \in Index
<1>1. buf \in Bufs /\ cons_r \in Index /\ cons_w \in Index /\ cons_e \in Index
  BY DEF ConsoleInv, ConsoleTypeOK
<1>2. cons_e # cons_w /\ buf' = buf /\ cons_r' = cons_r /\ cons_w' = cons_w
  BY DEF Con!Erase
<1>3. Ready' = Ready
  BY <1>2 DEF Ready
<1>4. CASE kill
  <2>1. cons_e' = cons_w /\ Distance(cons_w, cons_w) = 0
    BY <1>1, <1>4, GapNumbers DEF Con!Erase
  <2>2. Line(buf, cons_w, cons_w) = <<>>
    BY <1>1, <2>1, LineIs, EmptySeq
  <2>3. Edit' = <<>>
    BY <1>2, <2>1, <2>2 DEF Edit
  <2>4. Distance(cons_r, cons_w) + 0 <= Size
    BY InputIs, RingModuli
  <2>5. Fitting'
    BY <1>2, <2>1, <2>4 DEF Fitting
  <2> QED  BY <1>1, <1>3, <2>1, <2>3, <2>5, InputSteps DEF Con!Lines!Next
<1>5. CASE ~ kill
  <2>1. cons_e' = (cons_e - 1) % Wrap /\ cons_e' \in Index
    BY <1>1, <1>5, LastIndex DEF Con!Erase, Con!Sub
  <2>2. Distance(cons_w, cons_e') = Distance(cons_w, cons_e) - 1
    BY <1>1, <1>2, <2>1, GapShrinks
  <2>3. Edit # <<>> /\ Edit' = SubSeq(Edit, 1, Len(Edit) - 1)
    BY <1>1, <1>2, <2>1, LineErased DEF Edit
  <2>4. Fitting'
    BY <1>2, <2>2, InputIs, RingModuli DEF Fitting
  <2> QED  BY <1>3, <2>1, <2>3, <2>4, InputSteps DEF Con!Lines!Next
<1> QED  BY <1>4, <1>5

LEMMA TakeStep ==
    ASSUME Con!ConsoleConstants, ConsoleInv, cons_r # cons_w,
           cons_r' = (cons_r + 1) % Wrap, UNCHANGED <<buf, cons_w, cons_e>>
    PROVE  Con!Lines!Next /\ Fitting' /\ cons_r' \in Index
<1>1. buf \in Bufs /\ cons_r \in Index /\ cons_w \in Index
  BY DEF ConsoleInv, ConsoleTypeOK
<1>2. Distance(cons_r', cons_w) = Distance(cons_r, cons_w) - 1 /\ cons_r' \in Index
  BY <1>1, GapShrinks, NextIndex
<1>3. Ready # <<>> /\ Ready' = Tail(Ready) /\ Edit' = Edit
  BY <1>1, LineTaken DEF Ready, Edit
<1>4. Fitting'
  BY <1>2, InputIs, RingModuli DEF Fitting
<1> QED  BY <1>2, <1>3, <1>4, InputSteps DEF Con!Lines!Next

LEMMA RingStays ==
    ASSUME ConsoleInv, UNCHANGED <<buf, cons_r, cons_w, cons_e>>
    PROVE  UNCHANGED Con!Lines!lvars /\ Fitting' /\ buf' \in Bufs
           /\ cons_r' \in Index /\ cons_w' \in Index /\ cons_e' \in Index
<1>1. Ready' = Ready /\ Edit' = Edit
  BY DEF Ready, Edit
<1> QED  BY <1>1, InputSteps DEF ConsoleInv, ConsoleTypeOK, Fitting


-----------------------------------------------------------------------------
(* Every step of the console. *)

Acts(p) == (\E n \in Counts : Con!CallRead(p, n)) \/ Con!Reads(p) \/ Con!Kill(p)

LEMMA ConsoleInitInv ==
    ASSUME Con!ConsoleConstants, Con!Init
    PROVE  ConsoleInv /\ Con!Lines!Init
<1>1. /\ buf = [i \in 0 .. Size - 1 |-> "nul"] /\ cons_r = 0 /\ cons_w = 0 /\ cons_e = 0
      /\ conslock = Con!Nobody
      /\ reader = [p \in Readers |-> [pc |-> "user", n |-> 0, target |-> 0]]
  BY DEF Con!Init
<1>2. ConsoleTypeOK
  BY <1>1, RingModuli DEF ConsoleTypeOK, Bufs, Chars, Index, ReaderPc
<1>3. buf \in Bufs /\ 0 \in Index /\ Distance(0, 0) = 0 /\ 0 <= Size
  BY <1>2, GapNumbers, RingModuli DEF ConsoleTypeOK, Index
<1>4. Fitting
  BY <1>1, <1>3 DEF Fitting
<1>5. Holding /\ Con!NoLostWakeup
  BY <1>1 DEF Holding, Con!NoLostWakeup, Con!Nobody, Con!ConsoleConstants
<1>6. Line(buf, 0, 0) = <<>>
  BY <1>3, LineIs, EmptySeq
<1>7. Con!Lines!Init
  BY <1>1, <1>6 DEF Con!Lines!Init, Line, Distance, Con!Sub
<1> QED  BY <1>2, <1>4, <1>5, <1>7 DEF ConsoleInv

\* Only p moves: it has the lock, if it says so, and nobody dozes in front of input.
LEMMA OneReader ==
    ASSUME Con!ConsoleConstants, ConsoleInv, NEW p \in Readers,
           NEW s \in [pc : ReaderPc, n : Int, target : Int],
           reader' = [reader EXCEPT ![p] = s],
           conslock \in {p, Con!Nobody}, conslock' \in {p, Con!Nobody},
           s.pc \in {"loop", "doze", "done"} <=> conslock' = p
    PROVE  /\ reader' \in [Readers -> [pc : ReaderPc, n : Int, target : Int]]
           /\ conslock' \in Readers \cup {Con!Nobody} /\ Holding'
<1>1. reader \in [Readers -> [pc : ReaderPc, n : Int, target : Int]] /\ Holding
  BY DEF ConsoleInv, ConsoleTypeOK
<1>2. p # Con!Nobody
  BY DEF Con!Nobody, Con!ConsoleConstants
<1>3. ASSUME NEW q \in Readers
      PROVE  reader'[q].pc \in {"loop", "doze", "done"} <=> conslock' = q
  <2>1. CASE q = p
    BY <1>1, <2>1
  <2>2. CASE q # p
    <3>1. reader'[q] = reader[q] /\ (reader[q].pc \in {"loop", "doze", "done"} <=> conslock = q)
      BY <1>1, <2>2 DEF Holding
    <3>2. q # Con!Nobody
      BY DEF Con!Nobody, Con!ConsoleConstants
    <3> QED  BY <1>2, <2>2, <3>1, <3>2
  <2> QED  BY <2>1, <2>2
<1>4. Holding'
  BY <1>3 DEF Holding
<1> QED  BY <1>1, <1>4

LEMMA ReaderInv ==
    ASSUME Con!ConsoleConstants, ConsoleInv, NEW p \in Readers, Acts(p)
    PROVE  /\ reader' \in [Readers -> [pc : ReaderPc, n : Int, target : Int]]
           /\ conslock' \in Readers \cup {Con!Nobody} /\ Holding'
<1> DEFINE Calls == [pc : ReaderPc, n : Int, target : Int]
<1>1. /\ reader \in [Readers -> Calls] /\ reader[p] \in Calls /\ Holding
      /\ conslock \in Readers \cup {Con!Nobody} /\ p # Con!Nobody
      /\ (reader[p].pc \in {"loop", "doze", "done"} <=> conslock = p)
  BY DEF ConsoleInv, ConsoleTypeOK, Holding, Con!Nobody, Con!ConsoleConstants
<1> SUFFICES \/ /\ conslock' = conslock
                /\ \E s \in Calls : /\ reader' = [reader EXCEPT ![p] = s]
                                    /\ s.pc \in {"loop", "doze", "done"} <=> conslock = p
             \/ /\ conslock \in {p, Con!Nobody} /\ conslock' \in {p, Con!Nobody}
                /\ \E s \in Calls : /\ reader' = [reader EXCEPT ![p] = s]
                                    /\ s.pc \in {"loop", "doze", "done"} <=> conslock' = p
  <2>1. CASE /\ conslock' = conslock
             /\ \E s \in Calls : /\ reader' = [reader EXCEPT ![p] = s]
                                 /\ s.pc \in {"loop", "doze", "done"} <=> conslock = p
    <3>1. PICK s \in Calls : /\ reader' = [reader EXCEPT ![p] = s]
                             /\ s.pc \in {"loop", "doze", "done"} <=> conslock = p
      BY <2>1
    <3>2. ASSUME NEW q \in Readers
          PROVE  reader'[q].pc \in {"loop", "doze", "done"} <=> conslock' = q
      BY <1>1, <2>1, <3>1 DEF Holding
    <3>3. Holding' /\ reader' \in [Readers -> Calls]
      BY <1>1, <3>1, <3>2 DEF Holding
    <3> QED  BY <1>1, <2>1, <3>3
  <2>2. CASE /\ conslock \in {p, Con!Nobody} /\ conslock' \in {p, Con!Nobody}
             /\ \E s \in Calls : /\ reader' = [reader EXCEPT ![p] = s]
                                 /\ s.pc \in {"loop", "doze", "done"} <=> conslock' = p
    <3>1. PICK s \in Calls : /\ reader' = [reader EXCEPT ![p] = s]
                             /\ s.pc \in {"loop", "doze", "done"} <=> conslock' = p
      BY <2>2
    <3> QED  BY <2>2, <3>1, OneReader
  <2> QED  BY <2>1, <2>2
<1>2. CASE \E n \in Counts : Con!CallRead(p, n)
  <2>1. PICK n \in Counts : Con!CallRead(p, n)
    BY <1>2
  <2> DEFINE s == [pc |-> "enter", n |-> n, target |-> n]
  <2>2. s \in Calls /\ s.pc = "enter"
    BY DEF ReaderPc, Con!ConsoleConstants
  <2>3. reader' = [reader EXCEPT ![p] = s] /\ conslock' = conslock /\ reader[p].pc = "user"
    BY <2>1 DEF Con!CallRead
  <2> QED  BY <1>1, <2>2, <2>3
<1>3. CASE Con!ReadLock(p)
  <2> DEFINE s == [reader[p] EXCEPT !.pc = "loop"]
  <2>1. s \in Calls /\ s.pc = "loop"
    BY <1>1 DEF ReaderPc
  <2>2. reader' = [reader EXCEPT ![p] = s] /\ conslock = Con!Nobody /\ conslock' = p
    BY <1>3 DEF Con!ReadLock, Con!Goto
  <2> QED  BY <2>1, <2>2
<1>4. CASE Con!ReadWait(p)
  <2>1. CASE p \in dying
    <3> DEFINE s == [reader[p] EXCEPT !.pc = "user"]
    <3>1. s \in Calls /\ s.pc = "user"
      BY <1>1 DEF ReaderPc
    <3>2. reader' = [reader EXCEPT ![p] = s] /\ conslock = p /\ conslock' = Con!Nobody
      BY <1>1, <1>4, <2>1 DEF Con!ReadWait, Con!Goto, Con!Looping
    <3> QED  BY <1>1, <3>1, <3>2
  <2>2. CASE p \notin dying
    <3> DEFINE s == [reader[p] EXCEPT !.pc = "doze"]
    <3>1. s \in Calls /\ s.pc = "doze"
      BY <1>1 DEF ReaderPc
    <3>2. reader' = [reader EXCEPT ![p] = s] /\ conslock = p /\ conslock' = conslock
      BY <1>1, <1>4, <2>2 DEF Con!ReadWait, Con!Goto, Con!Looping
    <3> QED  BY <3>1, <3>2
  <2> QED  BY <2>1, <2>2
<1>5. CASE Con!ReadSleep(p)
  <2> DEFINE s == [reader[p] EXCEPT !.pc = "sleep"]
  <2>1. s \in Calls /\ s.pc = "sleep"
    BY <1>1 DEF ReaderPc
  <2>2. reader' = [reader EXCEPT ![p] = s] /\ conslock = p /\ conslock' = Con!Nobody
    BY <1>1, <1>5 DEF Con!ReadSleep, Con!Goto
  <2> QED  BY <1>1, <2>1, <2>2
<1>6. CASE Con!ReadEof(p) \/ Con!ReadFault(p)
  <2> DEFINE s == [reader[p] EXCEPT !.pc = "done"]
  <2>1. s \in Calls /\ s.pc = "done"
    BY <1>1 DEF ReaderPc
  <2>2. reader' = [reader EXCEPT ![p] = s] /\ conslock = p /\ conslock' = conslock
    BY <1>1, <1>6 DEF Con!ReadEof, Con!ReadFault, Con!Goto, Con!Looping
  <2> QED  BY <2>1, <2>2
<1>7. CASE Con!ReadChar(p)
  <2>1. PICK c \in {"done", "loop"} : reader' = [reader EXCEPT ![p].n = @ - 1, ![p].pc = c]
    BY <1>7 DEF Con!ReadChar
  <2> DEFINE s == [reader[p] EXCEPT !.n = @ - 1, !.pc = c]
  <2>2. s \in Calls /\ s.pc = c
    <3>1. reader[p].n - 1 \in Int /\ c \in ReaderPc
      BY <1>1, <2>1 DEF ReaderPc
    <3> QED  BY <1>1, <3>1
  <2>3. reader' = [reader EXCEPT ![p] = s]
    BY <1>1, <2>1
  <2>4. conslock = p /\ conslock' = conslock
    BY <1>1, <1>7 DEF Con!ReadChar, Con!Looping
  <2> QED  BY <2>2, <2>3, <2>4
<1>8. CASE Con!ReadReturn(p)
  <2> DEFINE s == [pc |-> "user", n |-> 0, target |-> 0]
  <2>1. s \in Calls /\ s.pc = "user"
    BY DEF ReaderPc
  <2>2. reader' = [reader EXCEPT ![p] = s] /\ conslock = p /\ conslock' = Con!Nobody
    BY <1>1, <1>8 DEF Con!ReadReturn
  <2> QED  BY <1>1, <2>1, <2>2
<1>9. CASE Con!Kill(p)
  <2>1. PICK c \in {"enter", reader[p].pc} :
            /\ reader' = [reader EXCEPT ![p].pc = c] /\ conslock' = conslock
            /\ (c = "enter" => reader[p].pc \in {"sleep", "enter"})
    BY <1>9 DEF Con!Kill, Con!Goto
  <2> DEFINE s == [reader[p] EXCEPT !.pc = c]
  <2>2. c \in ReaderPc
    BY <1>1, <2>1 DEF ReaderPc
  <2>3. s \in Calls /\ s.pc = c
    BY <1>1, <2>2
  <2>4. s.pc \in {"loop", "doze", "done"} <=> conslock = p
    BY <1>1, <2>1, <2>3
  <2> QED  BY <2>1, <2>3, <2>4
<1> QED  BY <1>2, <1>3, <1>4, <1>5, <1>6, <1>7, <1>8, <1>9 DEF Acts, Con!Reads

\* A reader takes a character, or leaves the ring alone.
LEMMA ReaderRing ==
    ASSUME NEW p \in Readers, Acts(p)
    PROVE  \/ UNCHANGED <<buf, cons_r, cons_w, cons_e>>
           \/ /\ cons_r # cons_w /\ cons_r' = (cons_r + 1) % Wrap
              /\ UNCHANGED <<buf, cons_w, cons_e>>
              /\ conslock' = conslock /\ Con!Looping(p)
<1>1. ASSUME NEW n \in Counts, Con!CallRead(p, n)
      PROVE  UNCHANGED <<buf, cons_r, cons_w, cons_e>>
  BY <1>1 DEF Con!CallRead
<1>2. CASE Con!Kill(p) \/ Con!ReadLock(p) \/ Con!ReadWait(p) \/ Con!ReadSleep(p) \/ Con!ReadReturn(p)
  BY <1>2 DEF Con!Kill, Con!ReadLock, Con!ReadWait, Con!ReadSleep, Con!ReadReturn
<1>3. CASE Con!ReadEof(p)
  BY <1>3 DEF Con!ReadEof, Con!NoInput
<1>4. CASE Con!ReadChar(p)
  BY <1>4 DEF Con!ReadChar, Con!NoInput
<1>5. CASE Con!ReadFault(p)
  BY <1>5 DEF Con!ReadFault, Con!NoInput
<1> QED  BY <1>1, <1>2, <1>3, <1>4, <1>5 DEF Acts, Con!Reads

\* While one reader takes the last character, another sleeps over nothing
\* but an empty ring: it went to sleep with the lock, and is woken by every line.
LEMMA ReaderWakeups ==
    ASSUME Con!ConsoleConstants, ConsoleInv, NEW p \in Readers, Acts(p)
    PROVE  Con!NoLostWakeup'
<1>1. reader \in [Readers -> [pc : ReaderPc, n : Int, target : Int]] /\ Holding
      /\ \A q \in Readers : reader[q].pc \in {"doze", "sleep"} => cons_r = cons_w
  BY DEF ConsoleInv, ConsoleTypeOK, Con!NoLostWakeup, Con!NoInput
<1>2. \A q \in Readers \ {p} : reader'[q] = reader[q]
  BY <1>1 DEF Acts, Con!CallRead, Con!Kill, Con!Reads, Con!ReadLock, Con!ReadWait, Con!ReadSleep,
              Con!ReadEof, Con!ReadChar, Con!ReadFault, Con!ReadReturn, Con!Goto
<1>3. reader'[p].pc \in {"doze", "sleep"} => cons_r = cons_w /\ cons_r' = cons_r /\ cons_w' = cons_w
  <2>1. CASE Con!ReadWait(p)
    BY <2>1 DEF Con!ReadWait, Con!NoInput
  <2>2. CASE Con!ReadSleep(p)
    BY <1>1, <2>2 DEF Con!ReadSleep
  <2>3. CASE Con!Kill(p)
    BY <1>1, <2>3 DEF Con!Kill, Con!Goto
  <2>4. CASE \E n \in Counts : Con!CallRead(p, n)
    BY <1>1, <2>4 DEF Con!CallRead
  <2>5. CASE Con!ReadLock(p) \/ Con!ReadEof(p) \/ Con!ReadFault(p) \/ Con!ReadReturn(p)
    BY <1>1, <2>5 DEF Con!ReadLock, Con!ReadEof, Con!ReadFault, Con!ReadReturn, Con!Goto
  <2>6. CASE Con!ReadChar(p)
    <3>1. PICK c \in {"done", "loop"} : reader' = [reader EXCEPT ![p].n = @ - 1, ![p].pc = c]
      BY <2>6 DEF Con!ReadChar
    <3>2. reader'[p].pc = c
      BY <1>1, <3>1
    <3> QED  BY <3>2
  <2> QED  BY <2>1, <2>2, <2>3, <2>4, <2>5, <2>6 DEF Acts, Con!Reads
<1>4. ASSUME NEW q \in Readers \ {p}, reader'[q].pc \in {"doze", "sleep"}
      PROVE  cons_r' = cons_w'
  <2>1. cons_r = cons_w
    BY <1>1, <1>2, <1>4
  <2> QED  BY <2>1, ReaderRing
<1> QED  BY <1>3, <1>4 DEF Con!NoLostWakeup, Con!NoInput

LEMMA ConsoleStep ==
    ASSUME Con!ConsoleConstants, ConsoleInv, [Con!Next]_(Con!cvars)
    PROVE  ConsoleInv' /\ [Con!Lines!Next]_(Con!Lines!lvars)
<1>1. /\ ConsoleTypeOK /\ Holding /\ Con!NoLostWakeup
      /\ reader \in [Readers -> [pc : ReaderPc, n : Int, target : Int]]
      /\ conslock \in Readers \cup {Con!Nobody}
  BY DEF ConsoleInv, ConsoleTypeOK
<1>2. ASSUME NEW p \in Readers, Acts(p)
      PROVE  ConsoleInv' /\ [Con!Lines!Next]_(Con!Lines!lvars)
  <2>1. /\ reader' \in [Readers -> [pc : ReaderPc, n : Int, target : Int]]
        /\ conslock' \in Readers \cup {Con!Nobody} /\ Holding' /\ Con!NoLostWakeup'
    BY <1>2, ReaderInv, ReaderWakeups
  <2>2. CASE UNCHANGED <<buf, cons_r, cons_w, cons_e>>
    BY <2>1, <2>2, RingStays DEF ConsoleInv, ConsoleTypeOK
  <2>3. CASE /\ cons_r # cons_w /\ cons_r' = (cons_r + 1) % Wrap
             /\ UNCHANGED <<buf, cons_w, cons_e>>
    <3>1. Con!Lines!Next /\ Fitting' /\ cons_r' \in Index
      BY <2>3, TakeStep
    <3>2. buf' \in Bufs /\ cons_w' \in Index /\ cons_e' \in Index
      BY <1>1, <2>3 DEF ConsoleTypeOK
    <3> QED  BY <2>1, <3>1, <3>2 DEF ConsoleInv, ConsoleTypeOK
  <2> QED  BY <1>2, <2>2, <2>3, ReaderRing
<1>3. ASSUME NEW c \in Plain \cup {"nl", "eof"}, Con!Type(c)
      PROVE  ConsoleInv' /\ Con!Lines!Next
  <2>1. /\ Con!Lines!Accept(c) /\ Fitting'
        /\ buf' \in Bufs /\ cons_w' \in Index /\ cons_e' \in Index
    BY <1>3, TypeStep
  <2>2. cons_r' = cons_r /\ conslock' = conslock
    BY <1>3 DEF Con!Type
  <2>3. CASE Con!Completes(c)
    <3>1. reader' = [q \in Readers |->
                       IF Con!Woken(q) THEN [reader[q] EXCEPT !.pc = "enter"] ELSE reader[q]]
      BY <1>3, <2>3 DEF Con!Type, Con!WakeReaders
    <3>2. ASSUME NEW q \in Readers
          PROVE  /\ reader'[q] \in [pc : ReaderPc, n : Int, target : Int]
                 /\ reader'[q].pc \in {"loop", "doze", "done"} <=> reader[q].pc \in {"loop", "doze", "done"}
                 /\ reader'[q].pc # "sleep"
                 /\ (reader'[q].pc = "doze" => conslock = q)
      BY <1>1, <3>1 DEF Con!Woken, ReaderPc, Holding
    <3>3. conslock = Con!Nobody /\ \A q \in Readers : q # Con!Nobody
      BY <1>3 DEF Con!Type, Con!Nobody, Con!ConsoleConstants
    <3>4. reader' \in [Readers -> [pc : ReaderPc, n : Int, target : Int]]
      BY <3>1, <3>2
    <3>5. Holding' /\ Con!NoLostWakeup'
      BY <1>1, <2>2, <3>2, <3>3 DEF Holding, Con!NoLostWakeup
    <3> QED  BY <1>1, <2>1, <2>2, <3>4, <3>5 DEF ConsoleInv, ConsoleTypeOK, Con!Lines!Next
  <2>4. CASE ~ Con!Completes(c)
    <3>1. reader' = reader /\ cons_w' = cons_w
      BY <1>3, <2>4 DEF Con!Type
    <3>2. Holding' /\ Con!NoLostWakeup'
      BY <1>1, <2>2, <3>1 DEF Holding, Con!NoLostWakeup, Con!NoInput
    <3> QED  BY <1>1, <2>1, <2>2, <3>1, <3>2 DEF ConsoleInv, ConsoleTypeOK, Con!Lines!Next
  <2> QED  BY <2>3, <2>4
<1>4. ASSUME NEW kill \in BOOLEAN, Con!Erase(kill)
      PROVE  ConsoleInv' /\ Con!Lines!Next
  <2>1. Con!Lines!Next /\ Fitting' /\ cons_e' \in Index
    BY <1>4, EraseStep
  <2>2. UNCHANGED <<buf, cons_r, cons_w, conslock, reader>>
    BY <1>4 DEF Con!Erase
  <2>3. Holding' /\ Con!NoLostWakeup'
    BY <1>1, <2>2 DEF Holding, Con!NoLostWakeup, Con!NoInput
  <2> QED  BY <1>1, <2>1, <2>2, <2>3 DEF ConsoleInv, ConsoleTypeOK
<1>5. CASE UNCHANGED Con!cvars
  <2>1. UNCHANGED <<buf, cons_r, cons_w, cons_e, conslock, reader>>
    BY <1>5 DEF Con!cvars
  <2>2. Holding' /\ Con!NoLostWakeup'
    BY <1>1, <2>1 DEF Holding, Con!NoLostWakeup, Con!NoInput
  <2> QED  BY <1>1, <2>1, <2>2, RingStays DEF ConsoleInv, ConsoleTypeOK
<1> QED  BY <1>2, <1>3, <1>4, <1>5 DEF Con!Next, Con!Handler, Acts

\* In every state the indices and locks are as the invariant says.
THEOREM ConsoleInvariant == ASSUME Con!ConsoleConstants PROVE Con!Spec => []ConsoleInv
<1>1. Con!Init => ConsoleInv
  BY ConsoleInitInv
<1>2. ConsoleInv /\ [Con!Next]_(Con!cvars) => ConsoleInv'
  BY ConsoleStep
<1> QED  BY <1>1, <1>2, PTL DEF Con!Spec

\* consoleread and consoleintr implement LineInput: what is typed is edited until
\* its line is complete and then read once, in order; a character that does not
\* fit is dropped and overwrites nothing, although r, w and e wrap.
THEOREM ConsoleKeepsLines == ASSUME Con!ConsoleConstants PROVE Con!Spec => LinesKept
<1>1. Con!Init => Con!Lines!Init
  BY ConsoleInitInv
<1>2. ConsoleInv /\ [Con!Next]_(Con!cvars) => [Con!Lines!Next]_(Con!Lines!lvars)
  BY ConsoleStep
<1> QED  BY <1>1, <1>2, ConsoleInvariant, PTL DEF Con!Spec, LinesKept, Con!Refines, Con!Lines!Spec

\* A reader that sleeps, or is about to, has nothing to read: consoleread keeps
\* cons.lock from its look at the indices until it sleeps, and consoleintr wakes
\* all readers with the lock held.
THEOREM ReadersAreWoken == ASSUME Con!ConsoleConstants PROVE Con!Spec => []ReadersWoken
<1>1. ConsoleInv => ReadersWoken
  BY DEF ConsoleInv, ReadersWoken
<1> QED  BY <1>1, ConsoleInvariant, PTL

-----------------------------------------------------------------------------
(* The transmitter: the characters of a writer in a stream. *)

WriterChars == Writers \X Nat
TxChars     == (Writers \cup Echoers) \X Nat

\* A character of somebody else, anywhere in the stream, makes no difference.
LEMMA OrderAround ==
    ASSUME NEW a \in Seq(TxChars), NEW b \in Seq(TxChars), NEW c \in TxChars,
           NEW p, NEW n \in Int, c[1] # p
    PROVE  Tx!InOrder(a \o b, p, n) <=> Tx!InOrder((a \o <<c>>) \o b, p, n)
<1> DEFINE m == Len(a)
           s == a \o b
           t == (a \o <<c>>) \o b
           k(i) == IF i <= m THEN i ELSE i + 1
<1>1. /\ s \in Seq(TxChars) /\ Len(s) = m + Len(b) /\ t \in Seq(TxChars) /\ Len(t) = Len(s) + 1
      /\ m \in Nat /\ Len(b) \in Nat /\ Len(s) \in Nat /\ m <= Len(s)
      /\ \A i \in 1 .. Len(s) : s[i] = IF i <= m THEN a[i] ELSE b[i - m]
  BY ConcatProperties
<1>2. /\ a \o <<c>> \in Seq(TxChars) /\ Len(a \o <<c>>) = m + 1
      /\ \A i \in 1 .. m + 1 : (a \o <<c>>)[i] = IF i <= m THEN a[i] ELSE c
  BY <1>1
<1>3. \A j \in 1 .. Len(t) : t[j] = IF j <= m + 1 THEN (a \o <<c>>)[j] ELSE b[j - (m + 1)]
  BY <1>1, <1>2, ConcatProperties
<1>4. t[m + 1] = c /\ m + 1 \in 1 .. Len(t)
  BY <1>1, <1>2, <1>3
<1>5. ASSUME NEW i \in 1 .. Len(s)
      PROVE  k(i) \in 1 .. Len(t) /\ t[k(i)] = s[i]
  <2>1. CASE i <= m
    <3>1. i \in 1 .. m + 1 /\ i \in 1 .. Len(t) /\ i <= m + 1
      BY <1>1, <2>1
    <3> QED  BY <1>1, <1>2, <1>3, <2>1, <3>1
  <2>2. CASE i > m
    <3>1. i + 1 \in 1 .. Len(t) /\ ~ (i + 1 <= m + 1) /\ i + 1 - (m + 1) = i - m /\ ~ (i <= m)
      BY <1>1, <2>2
    <3> QED  BY <1>1, <1>3, <3>1
  <2> QED  BY <1>1, <2>1, <2>2
<1>6. ASSUME NEW j \in 1 .. Len(t), t[j][1] = p
      PROVE  \E i \in 1 .. Len(s) : j = k(i)
  <2>1. j # m + 1
    BY <1>4, <1>6
  <2>2. CASE j <= m
    BY <1>1, <2>2
  <2>3. CASE j > m + 1
    <3>1. j - 1 \in 1 .. Len(s) /\ ~ (j - 1 <= m) /\ (j - 1) + 1 = j
      BY <1>1, <2>3
    <3> QED  BY <3>1
  <2> QED  BY <1>1, <2>1, <2>2, <2>3
<1>7. \A i, j \in 1 .. Len(s) : i < j <=> k(i) < k(j)
  BY <1>1
<1> DEFINE S == {i \in 1 .. Len(s) : s[i][1] = p}
           T == {j \in 1 .. Len(t) : t[j][1] = p}
<1> HIDE DEF m, s, t, k
<1>8. (\A i \in S : k(i) \in T /\ t[k(i)] = s[i]) /\ \A j \in T : \E i \in S : j = k(i)
  BY <1>5, <1>6
<1>9. S \subseteq 1 .. Len(s)
  OBVIOUS
<1> HIDE DEF S, T
<1>10. {s[i][2] : i \in S} = {t[j][2] : j \in T}
  BY <1>8
<1>11. ASSUME \A i, j \in S : i < j => s[i][2] < s[j][2], NEW g \in T, NEW h \in T, g < h
       PROVE  t[g][2] < t[h][2]
  <2>1. PICK i \in S, j \in S : g = k(i) /\ h = k(j)
    BY <1>8
  <2>2. i < j
    BY <1>7, <1>9, <1>11, <2>1
  <2> QED  BY <1>8, <1>11, <2>1, <2>2
<1>12. ASSUME \A g, h \in T : g < h => t[g][2] < t[h][2], NEW i \in S, NEW j \in S, i < j
       PROVE  s[i][2] < s[j][2]
  <2>1. k(i) < k(j) /\ k(i) \in T /\ k(j) \in T
    BY <1>7, <1>8, <1>9, <1>12
  <2>2. t[k(i)][2] < t[k(j)][2]
    BY <1>12, <2>1
  <2> QED  BY <1>8, <2>2
<1>13. Tx!InOrder(s, p, n) <=> {s[i][2] : i \in S} = 1 .. n /\ \A i, j \in S : i < j => s[i][2] < s[j][2]
  BY DEF Tx!InOrder, S
<1>14. Tx!InOrder(t, p, n) <=> {t[i][2] : i \in T} = 1 .. n /\ \A i, j \in T : i < j => t[i][2] < t[j][2]
  BY DEF Tx!InOrder, T
<1>15. Tx!InOrder(s, p, n) <=> Tx!InOrder(t, p, n)
  BY <1>10, <1>11, <1>12, <1>13, <1>14
<1> QED  BY <1>15 DEF s, t

\* A writer's next character, at the end of the stream.
LEMMA OrderAppend ==
    ASSUME NEW s \in Seq(TxChars), NEW p, NEW n \in Nat, Tx!InOrder(s, p, n)
    PROVE  Tx!InOrder(Append(s, <<p, n + 1>>), p, n + 1)
<1> DEFINE t == Append(s, <<p, n + 1>>)
           l == Len(s)
           S == {i \in 1 .. l : s[i][1] = p}
           T == {i \in 1 .. Len(t) : t[i][1] = p}
<1>1. /\ l \in Nat /\ Len(t) = l + 1 /\ t[l + 1] = <<p, n + 1>>
      /\ \A i \in 1 .. l : t[i] = s[i]
  OBVIOUS
<1>2. t[l + 1][1] = p /\ t[l + 1][2] = n + 1
  BY <1>1
<1>3. 1 .. l + 1 = (1 .. l) \cup {l + 1}
  BY <1>1
<1>4. {s[i][2] : i \in S} = 1 .. n /\ \A i, j \in S : i < j => s[i][2] < s[j][2]
  BY DEF Tx!InOrder
<1> HIDE DEF t, l
<1>5. T = S \cup {l + 1}
  BY <1>1, <1>2, <1>3
<1>6. \A i \in S : t[i] = s[i] /\ i < l + 1
  BY <1>1
<1> HIDE DEF S, T
<1>7. {t[i][2] : i \in T} = {s[i][2] : i \in S} \cup {n + 1}
  BY <1>2, <1>5, <1>6
<1>8. (1 .. n) \cup {n + 1} = 1 .. n + 1
  OBVIOUS
<1>9. ASSUME NEW i \in T, NEW j \in T, i < j PROVE t[i][2] < t[j][2]
  <2>1. i \in S
    <3> SUFFICES ASSUME i = l + 1 PROVE FALSE
      BY <1>5
    <3>1. j \in S \/ j = l + 1
      BY <1>5
    <3>2. S \subseteq Int
      BY <1>1 DEF S
    <3> QED  BY <1>1, <1>6, <1>9, <3>1, <3>2
  <2>2. CASE j \in S
    BY <1>4, <1>6, <1>9, <2>1, <2>2
  <2>3. CASE j = l + 1
    <3>1. s[i][2] \in 1 .. n
      BY <1>4, <2>1
    <3> QED  BY <1>2, <1>6, <2>1, <2>3, <3>1
  <2> QED  BY <1>5, <2>2, <2>3
<1>10. Tx!InOrder(t, p, n + 1)
  BY <1>4, <1>7, <1>8, <1>9 DEF Tx!InOrder, T
<1> QED  BY <1>10 DEF t

\* The parts of the stream, taken together in other ways.
LEMMA PartsAppend ==
    ASSUME NEW s \in Seq(TxChars), NEW f \in Seq(TxChars), NEW c \in TxChars
    PROVE  s \o Append(f, c) = (s \o f) \o <<c>> /\ <<c>> \in Seq(TxChars) /\ Append(f, c) = f \o <<c>>
<1>1. <<c>> \in Seq(TxChars) /\ Append(f, c) = f \o <<c>>
  OBVIOUS
<1> QED  BY <1>1, ConcatAssociative

LEMMA PartsHead ==
    ASSUME NEW s \in Seq(TxChars), NEW f \in Seq(TxChars), NEW b \in Seq(TxChars), f # <<>>
    PROVE  /\ (s \o f) \o b = (s \o <<Head(f)>>) \o (Tail(f) \o b)
           /\ Append(s, Head(f)) = s \o <<Head(f)>> /\ s \o <<Head(f)>> \in Seq(TxChars)
<1>1. /\ <<Head(f)>> \in Seq(TxChars) /\ Tail(f) \in Seq(TxChars) /\ <<Head(f)>> \o Tail(f) = f
      /\ Append(s, Head(f)) = s \o <<Head(f)>>
  OBVIOUS
<1>2. s \o <<Head(f)>> \in Seq(TxChars)
  BY <1>1, ConcatProperties
<1>3. s \o f = (s \o <<Head(f)>>) \o Tail(f)
  <2>1. (s \o <<Head(f)>>) \o Tail(f) = s \o (<<Head(f)>> \o Tail(f))
    BY <1>1, ConcatAssociative
  <2> QED  BY <1>1, <2>1
<1>4. \A u \in Seq(TxChars) : (u \o Tail(f)) \o b = u \o (Tail(f) \o b)
  BY <1>1, ConcatAssociative
<1> QED  BY <1>1, <1>2, <1>3, <1>4

LEMMA OrderOther ==
    ASSUME NEW s \in Seq(TxChars), NEW c \in TxChars, NEW p, NEW n \in Int, c[1] # p,
           Tx!InOrder(s, p, n)
    PROVE  Tx!InOrder(Append(s, c), p, n)
<1>1. <<>> \in Seq(TxChars) /\ s \o <<>> = s /\ (s \o <<c>>) \o <<>> = Append(s, c)
  <2>1. s \o <<c>> = Append(s, c) /\ Append(s, c) \in Seq(TxChars)
    OBVIOUS
  <2>2. \A t \in Seq(TxChars) : t \o <<>> = t
    OBVIOUS
  <2> QED  BY <2>1, <2>2
<1>2. Tx!InOrder(s \o <<>>, p, n) <=> Tx!InOrder((s \o <<c>>) \o <<>>, p, n)
  BY <1>1, OrderAround
<1> QED  BY <1>1, <1>2

-----------------------------------------------------------------------------
(* The transmitter. *)

UartTypeOK ==
    /\ txbuf \in [0 .. TxSize - 1 -> WriterChars \cup {<<>>}]
    /\ tx_r \in Nat /\ tx_w \in Nat /\ tx_r <= tx_w /\ tx_w <= tx_r + TxSize
    /\ txlock \in Writers \cup {Tx!Nobody, Tx!Intr}
    /\ writer \in [Writers -> [pc : {"user", "enter", "sleep", "start", "send"}, k : Nat]]
    /\ \A p \in Writers : writer[p].pc \in {"enter", "sleep"} => writer[p].k > 0
    /\ uartintr \in {"off", "enter", "start", "send"}
    /\ echo \in [Echoers -> [pc : {"off", "send"}, k : Nat]]
    /\ fifo \in Seq(TxChars) /\ sent \in Seq(WriterChars)

\* Who has uart_tx_lock.
Starting == /\ \A p \in Writers : writer[p].pc \in {"start", "send"} <=> txlock = p
            /\ uartintr \in {"start", "send"} <=> txlock = Tx!Intr

\* Only written slots are on their way.
Stored == Tx!Pending \in Seq(WriterChars) /\ Tx!InHand \in Seq(WriterChars)

Sequenced == \A p \in Writers : Tx!InOrder(Tx!Stream, p, Tx!Taken(p))

\* uartstart has a character in hand.
Sends == \E x \in Writers \cup {Tx!Intr} : Tx!At(x, "send")

\* Whoever is about to send has seen the UART idle, and no more than all do so at once.
Echoing == {x \in Echoers : echo[x].pc = "send"}
Fitted  == Len(fifo) + Cardinality(Echoing) + (IF Sends THEN 1 ELSE 0) <= Cardinality(Echoers) + 1

\* What is in the ring is somebody's to go on with.
Continued == tx_w # tx_r => txlock # Tx!Nobody \/ fifo # <<>> \/ uartirq \/ uartintr # "off"

\* Who sleeps has found the ring full, and it still is.
Awaiting == \A p \in Writers : writer[p].pc = "sleep" => tx_w = tx_r + TxSize

UartInv == UartTypeOK /\ Starting /\ Stored /\ Sequenced /\ Fitted /\ Continued /\ Awaiting

LEMMA TxNames == ASSUME Tx!UartConstants
                 PROVE  /\ TxSize \in Nat /\ TxSize > 0
                        /\ Tx!Nobody \notin Writers /\ Tx!Intr \notin Writers /\ Tx!Nobody # Tx!Intr
                        /\ \A p \in Writers : p # Tx!Nobody /\ p # Tx!Intr
  BY DEF Tx!UartConstants, Tx!Nobody, Tx!Intr

LEMMA EchoersFinite ==
    ASSUME Tx!UartConstants
    PROVE  /\ IsFiniteSet(Echoers) /\ Cardinality(Echoers) \in Nat
           /\ Cardinality(Echoers) + 1 <= FifoDepth
           /\ Echoing \subseteq Echoers /\ IsFiniteSet(Echoing) /\ Cardinality(Echoing) \in Nat
           /\ Cardinality(Echoing) <= Cardinality(Echoers)
<1>1. IsFiniteSet(Echoers)
  BY DEF Tx!UartConstants, Tx!IsFiniteSet, IsFiniteSet, Tx!Cardinality, Cardinality
<1>2. Cardinality(Echoers) \in Nat
  BY <1>1, FS_CardinalityType
<1>3. Cardinality(Echoers) + 1 <= FifoDepth
  <2>1. FifoDepth \in Nat /\ Cardinality(Echoers) < FifoDepth
    BY DEF Tx!UartConstants, Tx!IsFiniteSet, IsFiniteSet, Tx!Cardinality, Cardinality
  <2> QED  BY <1>2, <2>1
<1>4. Echoing \subseteq Echoers
  BY DEF Echoing
<1>5. IsFiniteSet(Echoing) /\ Cardinality(Echoing) <= Cardinality(Echoers)
  BY <1>1, <1>4, FS_Subset
<1>6. Cardinality(Echoing) \in Nat
  BY <1>5, FS_CardinalityType
<1> QED  BY <1>1, <1>2, <1>3, <1>4, <1>5, <1>6

\* Whoever is in uartstart is so alone.
LEMMA OneStarts ==
    ASSUME Tx!UartConstants, UartInv
    PROVE  /\ \A x \in Writers \cup {Tx!Intr} : Tx!At(x, "start") \/ Tx!At(x, "send") <=> txlock = x
           /\ txlock = Tx!Nobody => ~ Sends
           /\ \A x \in Writers \cup {Tx!Intr} : Tx!At(x, "start") => ~ Sends
           /\ \A x \in Writers \cup {Tx!Intr} : Tx!At(x, "send") => Sends
<1>1. \A x \in Writers \cup {Tx!Intr} : Tx!At(x, "start") \/ Tx!At(x, "send") <=> txlock = x
  BY TxNames DEF Tx!At, UartInv, Starting
<1>2. \A x : ~ (Tx!At(x, "start") /\ Tx!At(x, "send"))
  BY DEF Tx!At
<1>3. txlock = Tx!Nobody => ~ Sends
  BY <1>1, TxNames DEF Sends
<1>4. \A x \in Writers \cup {Tx!Intr} : Tx!At(x, "start") => ~ Sends
  BY <1>1, <1>2 DEF Sends
<1> QED  BY <1>1, <1>3, <1>4 DEF Sends

LEMMA TxInitInv == ASSUME Tx!UartConstants, Tx!Init PROVE UartInv
<1>1. /\ txbuf = [i \in 0 .. TxSize - 1 |-> <<>>] /\ tx_r = 0 /\ tx_w = 0
      /\ txlock = Tx!Nobody
      /\ writer = [p \in Writers |-> [pc |-> "user", k |-> 0]]
      /\ uartintr = "off"
      /\ echo = [x \in Echoers |-> [pc |-> "off", k |-> 0]]
      /\ fifo = <<>> /\ uartirq = FALSE /\ sent = <<>>
  BY DEF Tx!Init
<1>2. UartTypeOK
  <2>1. fifo \in Seq(TxChars) /\ sent \in Seq(WriterChars)
    BY <1>1
  <2> QED  BY <1>1, <2>1, TxNames DEF UartTypeOK
<1>3. Starting /\ Continued /\ Awaiting
  BY <1>1, TxNames DEF Starting, Continued, Awaiting
<1>4. ~ Sends /\ Tx!InHand = <<>>
  BY <1>1, TxNames DEF Sends, Tx!At, Tx!InHand
<1>5. Tx!Pending = <<>>
  <2>1. tx_w - tx_r = 0
    BY <1>1
  <2>2. Tx!Pending \in Seq(WriterChars) /\ Len(Tx!Pending) = 0
    BY <2>1 DEF Tx!Pending
  <2> QED  BY <2>2, EmptySeq
<1>6. Stored
  BY <1>4, <1>5 DEF Stored
<1>7. Tx!Stream = <<>>
  BY <1>1, <1>4, <1>5 DEF Tx!Stream
<1>8. Sequenced
  <2> SUFFICES ASSUME NEW p \in Writers PROVE Tx!InOrder(<<>>, p, 0)
    BY <1>1, <1>7 DEF Sequenced, Tx!Taken
  <2>1. Len(<<>>) = 0 /\ 1 .. 0 = {}
    OBVIOUS
  <2> QED  BY <2>1 DEF Tx!InOrder
<1>9. Fitted
  <2>1. Echoing = {}
    BY <1>1 DEF Echoing
  <2>2. Cardinality(Echoing) = 0
    BY <2>1, FS_EmptySet
  <2>3. Cardinality(Echoers) \in Nat
    BY EchoersFinite
  <2>4. Len(fifo) = 0
    BY <1>1
  <2> QED  BY <1>4, <2>2, <2>3, <2>4 DEF Fitted
<1> QED  BY <1>2, <1>3, <1>6, <1>8, <1>9 DEF UartInv

LEMMA StreamIs ==
    ASSUME UartTypeOK, Stored
    PROVE  /\ sent \in Seq(TxChars) /\ fifo \in Seq(TxChars)
           /\ Tx!InHand \in Seq(TxChars) /\ Tx!Pending \in Seq(TxChars)
           /\ Tx!Stream \in Seq(TxChars) /\ WriterChars \subseteq TxChars
           /\ Len(Tx!Pending) = tx_w - tx_r
           /\ sent \o fifo \in Seq(TxChars) /\ Tx!InHand \o Tx!Pending \in Seq(TxChars)
<1>1. WriterChars \subseteq TxChars
  BY DEF WriterChars, TxChars
<1>2. \A s \in Seq(WriterChars) : s \in Seq(TxChars)
  <2> SUFFICES ASSUME NEW s \in Seq(WriterChars) PROVE s \in Seq(TxChars)
    OBVIOUS
  <2>1. \A i \in 1 .. Len(s) : s[i] \in TxChars
    BY <1>1, ElementOfSeq
  <2> QED  BY <2>1
<1>3. /\ sent \in Seq(TxChars) /\ fifo \in Seq(TxChars)
      /\ Tx!InHand \in Seq(TxChars) /\ Tx!Pending \in Seq(TxChars)
  BY <1>2 DEF UartTypeOK, Stored
<1>4. Tx!Stream \in Seq(TxChars)
  BY <1>3, ConcatProperties DEF Tx!Stream
<1>5. Len(Tx!Pending) = tx_w - tx_r
  <2>1. tx_w - tx_r \in Nat
    BY DEF UartTypeOK
  <2>2. DOMAIN Tx!Pending = 1 .. tx_w - tx_r
    BY DEF Tx!Pending
  <2>3. Tx!Pending \in Seq(WriterChars)
    BY DEF Stored
  <2> QED  BY <2>1, <2>2, <2>3, LenProperties
<1>6. sent \o fifo \in Seq(TxChars) /\ Tx!InHand \o Tx!Pending \in Seq(TxChars)
  BY <1>3, ConcatProperties
<1> QED  BY <1>1, <1>3, <1>4, <1>5, <1>6

-----------------------------------------------------------------------------
(* What a step does to a writer, and to uartstart. *)

WriterPc == {"user", "enter", "sleep", "start", "send"}

LEMMA WriterFields ==
    ASSUME UartInv, NEW p \in Writers
    PROVE  /\ writer \in [Writers -> [pc : WriterPc, k : Nat]]
           /\ writer[p].pc \in WriterPc /\ writer[p].k \in Nat /\ Tx!Taken(p) \in Int
           /\ writer[p].pc \in {"enter", "sleep"} => writer[p].k > 0 /\ Tx!Taken(p) = writer[p].k - 1
           /\ writer[p].pc \notin {"enter", "sleep"} => Tx!Taken(p) = writer[p].k
           /\ \A c : [writer EXCEPT ![p].pc = c] = [writer EXCEPT ![p] = [pc |-> c, k |-> writer[p].k]]
<1>1. writer \in [Writers -> [pc : WriterPc, k : Nat]] /\ (writer[p].pc \in {"enter", "sleep"} => writer[p].k > 0)
  BY DEF UartInv, UartTypeOK, WriterPc
<1>2. writer[p] \in [pc : WriterPc, k : Nat]
  BY <1>1
<1>3. writer[p].pc \in WriterPc /\ writer[p].k \in Nat
  BY <1>2
<1>4. \A c : [writer[p] EXCEPT !.pc = c] = [pc |-> c, k |-> writer[p].k]
  BY <1>2
<1>5. \A c : [writer EXCEPT ![p].pc = c] = [writer EXCEPT ![p] = [pc |-> c, k |-> writer[p].k]]
  BY <1>1, <1>4
<1>6. CASE writer[p].pc \in {"enter", "sleep"}
  BY <1>1, <1>3, <1>5, <1>6 DEF Tx!Taken
<1>7. CASE writer[p].pc \notin {"enter", "sleep"}
  BY <1>1, <1>3, <1>5, <1>7 DEF Tx!Taken
<1> QED  BY <1>6, <1>7

WritersTyped == /\ writer \in [Writers -> [pc : WriterPc, k : Nat]]
                /\ \A p \in Writers : writer[p].pc \in {"enter", "sleep"} => writer[p].k > 0

LEMMA WriterGoes ==
    ASSUME Tx!UartConstants, UartInv, NEW p \in Writers, NEW c \in WriterPc, NEW n \in Nat,
           c \in {"enter", "sleep"} => n > 0,
           writer' = [writer EXCEPT ![p] = [pc |-> c, k |-> n]], uartintr' = uartintr
    PROVE  /\ WritersTyped'
           /\ writer'[p].pc = c /\ writer'[p].k = n
           /\ \A q \in Writers \ {p} : writer'[q] = writer[q] /\ Tx!Taken(q)' = Tx!Taken(q)
           /\ \A d : Tx!At(p, d)' <=> c = d
           /\ \A x \in (Writers \cup {Tx!Intr}) \ {p} : \A d : Tx!At(x, d)' <=> Tx!At(x, d)
<1>1. writer \in [Writers -> [pc : WriterPc, k : Nat]]
  BY WriterFields
<1>2. \A q \in Writers : writer'[q] = IF q = p THEN [pc |-> c, k |-> n] ELSE writer[q]
  BY <1>1
<1>3. writer' \in [Writers -> [pc : WriterPc, k : Nat]]
  BY <1>1
<1>4. WritersTyped'
  BY <1>2, <1>3, WriterFields DEF WritersTyped
<1>5. \A q \in Writers \ {p} : writer'[q] = writer[q] /\ Tx!Taken(q)' = Tx!Taken(q)
  BY <1>2 DEF Tx!Taken
<1>6. \A d : Tx!At(p, d)' <=> c = d
  BY <1>2, TxNames DEF Tx!At
<1>7. \A x \in (Writers \cup {Tx!Intr}) \ {p} : \A d : Tx!At(x, d)' <=> Tx!At(x, d)
  BY <1>2, TxNames DEF Tx!At
<1> QED  BY <1>2, <1>4, <1>5, <1>6, <1>7

LEMMA HandlerGoes ==
    ASSUME Tx!UartConstants, UartInv, writer' = writer
    PROVE  /\ WritersTyped'
           /\ \A q \in Writers : writer'[q] = writer[q] /\ Tx!Taken(q)' = Tx!Taken(q)
           /\ \A d : Tx!At(Tx!Intr, d)' <=> uartintr' = d
           /\ \A x \in Writers : \A d : Tx!At(x, d)' <=> Tx!At(x, d)
<1>1. \A q \in Writers : writer'[q] = writer[q] /\ Tx!Taken(q)' = Tx!Taken(q)
  BY DEF Tx!Taken
<1>2. WritersTyped'
  BY DEF WritersTyped, WriterPc, UartInv, UartTypeOK
<1>3. (\A d : Tx!At(Tx!Intr, d)' <=> uartintr' = d) /\ \A x \in Writers : \A d : Tx!At(x, d)' <=> Tx!At(x, d)
  BY TxNames DEF Tx!At
<1> QED  BY <1>1, <1>2, <1>3

\* uartstart's next place, for whoever runs it.
LEMMA StartGoes ==
    ASSUME Tx!UartConstants, UartInv, NEW x \in Writers \cup {Tx!Intr}, NEW c \in {"off", "user", "start", "send"},
           Tx!At(x, "start") \/ Tx!At(x, "send"), Tx!Goto(x, c),
           IF x = Tx!Intr THEN c # "user" ELSE c # "off"
    PROVE  /\ WritersTyped' /\ uartintr' \in {"off", "enter", "start", "send"}
           /\ \A q \in Writers : /\ Tx!Taken(q)' = Tx!Taken(q)
                                 /\ writer'[q].pc = "sleep" <=> writer[q].pc = "sleep"
           /\ \A d : Tx!At(x, d)' <=> c = d
           /\ \A y \in (Writers \cup {Tx!Intr}) \ {x} : \A d : Tx!At(y, d)' <=> Tx!At(y, d)
           /\ x # Tx!Intr => uartintr' = uartintr
<1>1. CASE x = Tx!Intr
  <2>1. uartintr' = c /\ writer' = writer
    BY <1>1 DEF Tx!Goto
  <2> QED  BY <1>1, <2>1, HandlerGoes
<1>2. CASE x # Tx!Intr
  <2>1. x \in Writers /\ writer[x].pc \in {"start", "send"}
    BY <1>2 DEF Tx!At
  <2>2. writer' = [writer EXCEPT ![x] = [pc |-> c, k |-> writer[x].k]] /\ uartintr' = uartintr
    BY <1>2, <2>1, WriterFields DEF Tx!Goto
  <2>3. c \in WriterPc /\ c \notin {"enter", "sleep"} /\ writer[x].k \in Nat
    BY <1>2, <2>1, WriterFields DEF WriterPc
  <2>4. /\ WritersTyped' /\ writer'[x].pc = c /\ writer'[x].k = writer[x].k
        /\ \A q \in Writers \ {x} : writer'[q] = writer[q] /\ Tx!Taken(q)' = Tx!Taken(q)
        /\ \A d : Tx!At(x, d)' <=> c = d
        /\ \A y \in (Writers \cup {Tx!Intr}) \ {x} : \A d : Tx!At(y, d)' <=> Tx!At(y, d)
    BY <2>1, <2>2, <2>3, WriterGoes
  <2>5. Tx!Taken(x)' = Tx!Taken(x)
    BY <2>1, <2>3, <2>4, WriterFields DEF Tx!Taken
  <2>6. uartintr' \in {"off", "enter", "start", "send"}
    BY <2>2 DEF UartInv, UartTypeOK
  <2> QED  BY <1>2, <2>1, <2>2, <2>3, <2>4, <2>5, <2>6
<1> QED  BY <1>1, <1>2

LEMMA UartTyped ==
    ASSUME WritersTyped
    PROVE  /\ \A p \in Writers : writer[p].pc \in {"enter", "sleep"} => writer[p].k > 0
           /\ writer \in [Writers -> [pc : {"user", "enter", "sleep", "start", "send"}, k : Nat]]
  BY DEF WritersTyped, WriterPc

\* The lock, by the places of those who have it.
LEMMA StartingNext ==
    ASSUME Tx!UartConstants,
           \A x \in Writers \cup {Tx!Intr} : Tx!At(x, "start")' \/ Tx!At(x, "send")' <=> txlock' = x
    PROVE  Starting'
<1>1. /\ \A p \in Writers : \A d : Tx!At(p, d)' <=> writer'[p].pc = d
      /\ \A d : Tx!At(Tx!Intr, d)' <=> uartintr' = d
  BY TxNames DEF Tx!At
<1> QED  BY <1>1 DEF Starting

\* A step that leaves the stream alone.
LEMMA StreamStays ==
    ASSUME UartInv, UNCHANGED <<txbuf, tx_r, tx_w, fifo, sent>>, Sends' <=> Sends,
           \A p \in Writers : Tx!Taken(p)' = Tx!Taken(p)
    PROVE  Stored' /\ Sequenced'
<1>1. Tx!Pending' = Tx!Pending
  BY DEF Tx!Pending
<1>2. Tx!InHand' = Tx!InHand
  BY DEF Tx!InHand, Sends
<1>3. Tx!Stream' = Tx!Stream
  BY <1>1, <1>2 DEF Tx!Stream
<1>4. Stored'
  BY <1>1, <1>2 DEF UartInv, Stored
<1>5. Sequenced'
  BY <1>3 DEF UartInv, Sequenced, Tx!InOrder
<1> QED  BY <1>4, <1>5

LEMMA FittedStays ==
    ASSUME UartInv, UNCHANGED <<fifo, echo>>, Sends' <=> Sends
    PROVE  Fitted'
<1>1. Echoing' = Echoing
  BY DEF Echoing
<1> QED  BY <1>1 DEF UartInv, Fitted

-----------------------------------------------------------------------------
(* The steps. *)

LEMMA CallPutStep ==
    ASSUME Tx!UartConstants, UartInv, NEW p \in Writers, Tx!CallPut(p)
    PROVE  UartInv'
<1> DEFINE n == writer[p].k + 1
<1>1. /\ writer[p].pc = "user" /\ writer' = [writer EXCEPT ![p] = [pc |-> "enter", k |-> n]]
      /\ UNCHANGED <<txbuf, tx_r, tx_w, txlock, uartintr, echo, fifo, uartirq, sent>>
  BY DEF Tx!CallPut
<1>2. writer[p].k \in Nat /\ n \in Nat /\ n > 0 /\ "enter" \in WriterPc
  BY WriterFields DEF WriterPc
<1>3. /\ WritersTyped' /\ writer'[p].pc = "enter" /\ writer'[p].k = n
      /\ \A q \in Writers \ {p} : writer'[q] = writer[q] /\ Tx!Taken(q)' = Tx!Taken(q)
      /\ \A d : Tx!At(p, d)' <=> "enter" = d
      /\ \A x \in (Writers \cup {Tx!Intr}) \ {p} : \A d : Tx!At(x, d)' <=> Tx!At(x, d)
  <2>1. "enter" \in {"enter", "sleep"} => n > 0
    BY <1>2
  <2>2. writer' = [writer EXCEPT ![p] = [pc |-> "enter", k |-> n]] /\ uartintr' = uartintr
    BY <1>1
  <2> HIDE DEF n
  <2> QED  BY <1>2, <2>1, <2>2, WriterGoes
<1>4. ~ Tx!At(p, "start") /\ ~ Tx!At(p, "send") /\ Tx!Taken(p)' = Tx!Taken(p)
  BY <1>1, <1>2, <1>3, WriterFields, TxNames DEF Tx!At, Tx!Taken
<1>5. Starting' /\ (Sends' <=> Sends)
  <2>1. \A x \in Writers \cup {Tx!Intr} : /\ Tx!At(x, "start")' <=> Tx!At(x, "start")
                                          /\ Tx!At(x, "send")' <=> Tx!At(x, "send")
    BY <1>3, <1>4
  <2> QED  BY <1>1, <2>1, OneStarts, StartingNext DEF Sends
<1>6. UartTypeOK'
  BY <1>1, <1>3 DEF UartInv, UartTypeOK, WritersTyped, WriterPc
<1>7. Stored' /\ Sequenced' /\ Fitted'
  BY <1>1, <1>3, <1>4, <1>5, StreamStays, FittedStays
<1>8. Continued' /\ Awaiting'
  BY <1>1, <1>3 DEF UartInv, Continued, Awaiting
<1> QED  BY <1>5, <1>6, <1>7, <1>8 DEF UartInv

LEMMA PutWaitStep ==
    ASSUME Tx!UartConstants, UartInv, NEW p \in Writers, Tx!PutWait(p)
    PROVE  UartInv'
<1> DEFINE n == writer[p].k
<1>1. /\ writer[p].pc = "enter" /\ writer' = [writer EXCEPT ![p] = [pc |-> "sleep", k |-> n]]
      /\ tx_w = tx_r + TxSize
      /\ UNCHANGED <<txbuf, tx_r, tx_w, txlock, uartintr, echo, fifo, uartirq, sent>>
  BY WriterFields DEF Tx!PutWait, Tx!TxFull
<1>2. n \in Nat /\ n > 0 /\ "sleep" \in WriterPc
  BY <1>1, WriterFields DEF WriterPc
<1>3. /\ WritersTyped' /\ writer'[p].pc = "sleep" /\ writer'[p].k = n
      /\ \A q \in Writers \ {p} : writer'[q] = writer[q] /\ Tx!Taken(q)' = Tx!Taken(q)
      /\ \A d : Tx!At(p, d)' <=> "sleep" = d
      /\ \A x \in (Writers \cup {Tx!Intr}) \ {p} : \A d : Tx!At(x, d)' <=> Tx!At(x, d)
  <2>1. "sleep" \in {"enter", "sleep"} => n > 0
    BY <1>2
  <2>2. writer' = [writer EXCEPT ![p] = [pc |-> "sleep", k |-> n]] /\ uartintr' = uartintr
    BY <1>1
  <2> HIDE DEF n
  <2> QED  BY <1>2, <2>1, <2>2, WriterGoes
<1>4. ~ Tx!At(p, "start") /\ ~ Tx!At(p, "send") /\ Tx!Taken(p)' = Tx!Taken(p)
  BY <1>1, <1>2, <1>3, WriterFields, TxNames DEF Tx!At, Tx!Taken
<1>5. Starting' /\ (Sends' <=> Sends)
  <2>1. \A x \in Writers \cup {Tx!Intr} : /\ Tx!At(x, "start")' <=> Tx!At(x, "start")
                                          /\ Tx!At(x, "send")' <=> Tx!At(x, "send")
    BY <1>3, <1>4
  <2> QED  BY <1>1, <2>1, OneStarts, StartingNext DEF Sends
<1>6. UartTypeOK'
  BY <1>1, <1>3 DEF UartInv, UartTypeOK, WritersTyped, WriterPc
<1>7. Stored' /\ Sequenced' /\ Fitted'
  BY <1>1, <1>3, <1>4, <1>5, StreamStays, FittedStays
<1>8. Continued' /\ Awaiting'
  BY <1>1, <1>3 DEF UartInv, Continued, Awaiting
<1> QED  BY <1>5, <1>6, <1>7, <1>8 DEF UartInv

\* A character in a slot that none of the pending ones has.
LEMMA PendingGrows ==
    ASSUME Tx!UartConstants, UartInv, NEW c \in WriterChars, tx_w # tx_r + TxSize,
           txbuf' = [txbuf EXCEPT ![tx_w % TxSize] = c], tx_w' = tx_w + 1, tx_r' = tx_r
    PROVE  /\ Tx!Pending' = Append(Tx!Pending, c)
           /\ txbuf' \in [0 .. TxSize - 1 -> WriterChars \cup {<<>>}]
           /\ tx_w' \in Nat /\ tx_r' <= tx_w' /\ tx_w' <= tx_r' + TxSize
<1> DEFINE n == tx_w - tx_r
           s == Tx!Pending
           t == Tx!Pending'
<1>1. /\ TxSize \in Nat /\ TxSize > 0 /\ tx_r \in Nat /\ tx_w \in Nat /\ n \in Nat /\ n < TxSize
      /\ txbuf \in [0 .. TxSize - 1 -> WriterChars \cup {<<>>}] /\ tx_w' - tx_r' = n + 1
      /\ tx_w' \in Nat /\ tx_r' <= tx_w' /\ tx_w' <= tx_r' + TxSize
  <2>1. /\ TxSize \in Nat /\ TxSize > 0 /\ tx_r \in Nat /\ tx_w \in Nat /\ tx_r <= tx_w
        /\ tx_w <= tx_r + TxSize /\ txbuf \in [0 .. TxSize - 1 -> WriterChars \cup {<<>>}]
    BY TxNames DEF UartInv, UartTypeOK
  <2> QED  BY <2>1
<1>2. tx_w % TxSize \in 0 .. TxSize - 1
  BY <1>1
<1>3. /\ txbuf'[tx_w % TxSize] = c
      /\ txbuf' \in [0 .. TxSize - 1 -> WriterChars \cup {<<>>}]
  BY <1>1, <1>2
<1>4. s \in Seq(WriterChars) /\ Len(s) = n
  BY StreamIs DEF UartInv, Stored
<1>5. t = [i \in 1 .. n + 1 |-> txbuf'[(tx_r + i - 1) % TxSize]]
  BY <1>1 DEF Tx!Pending
<1>6. ASSUME NEW i \in 1 .. n PROVE t[i] = s[i]
  <2>1. i \in 1 .. n + 1 /\ tx_r + i - 1 \in Int /\ n + 1 - i \in 1 .. TxSize - 1
        /\ (tx_r + i - 1) + (n + 1 - i) = tx_w
    BY <1>1
  <2>2. (tx_r + i - 1) % TxSize # tx_w % TxSize
    BY <1>1, <2>1, Apart
  <2>3. (tx_r + i - 1) % TxSize \in 0 .. TxSize - 1
    BY <1>1, <2>1
  <2>4. txbuf'[(tx_r + i - 1) % TxSize] = txbuf[(tx_r + i - 1) % TxSize]
    BY <1>1, <2>2, <2>3
  <2>5. s[i] = txbuf[(tx_r + i - 1) % TxSize]
    BY DEF Tx!Pending
  <2> QED  BY <1>5, <2>1, <2>4, <2>5
<1>7. t[n + 1] = c
  <2>1. n + 1 \in 1 .. n + 1 /\ tx_r + (n + 1) - 1 = tx_w
    BY <1>1
  <2> QED  BY <1>3, <1>5, <2>1
<1> HIDE DEF n, s, t
<1>8. \A i \in 1 .. n + 1 : t[i] \in WriterChars
  <2> SUFFICES ASSUME NEW i \in 1 .. n + 1 PROVE t[i] \in WriterChars
    OBVIOUS
  <2>1. CASE i \in 1 .. n
    BY <1>4, <1>6, <2>1
  <2>2. CASE i \notin 1 .. n
    BY <1>1, <1>7, <2>2
  <2> QED  BY <2>1, <2>2
<1>9. t \in Seq(WriterChars) /\ Len(t) = n + 1
  <2>1. DOMAIN t = 1 .. n + 1
    BY <1>5
  <2> QED  BY <1>1, <1>5, <1>8, <2>1
<1>10. /\ Append(s, c) \in Seq(WriterChars) /\ Len(Append(s, c)) = n + 1
       /\ \A i \in 1 .. n : Append(s, c)[i] = s[i]
       /\ Append(s, c)[n + 1] = c
  BY <1>4
<1>11. \A i \in 1 .. n + 1 : t[i] = Append(s, c)[i]
  BY <1>1, <1>6, <1>7, <1>10
<1>12. t = Append(s, c)
  BY <1>9, <1>10, <1>11, SeqEqual
<1> QED  BY <1>1, <1>3, <1>12 DEF s, t

LEMMA PutStep ==
    ASSUME Tx!UartConstants, UartInv, NEW p \in Writers, Tx!Put(p)
    PROVE  UartInv'
<1> DEFINE n == writer[p].k
           c == <<p, n>>
<1>1. /\ writer[p].pc = "enter" /\ writer' = [writer EXCEPT ![p] = [pc |-> "start", k |-> n]]
      /\ txlock = Tx!Nobody /\ tx_w # tx_r + TxSize
      /\ txbuf' = [txbuf EXCEPT ![tx_w % TxSize] = c] /\ tx_w' = tx_w + 1 /\ txlock' = p
      /\ UNCHANGED <<tx_r, uartintr, echo, fifo, uartirq, sent>>
  BY WriterFields DEF Tx!Put, Tx!TxFull
<1>2. n \in Nat /\ n > 0 /\ "start" \in WriterPc /\ Tx!Taken(p) = n - 1
  BY <1>1, WriterFields DEF WriterPc
<1>3. /\ WritersTyped' /\ writer'[p].pc = "start" /\ writer'[p].k = n
      /\ \A q \in Writers \ {p} : writer'[q] = writer[q] /\ Tx!Taken(q)' = Tx!Taken(q)
      /\ \A d : Tx!At(p, d)' <=> "start" = d
      /\ \A x \in (Writers \cup {Tx!Intr}) \ {p} : \A d : Tx!At(x, d)' <=> Tx!At(x, d)
  BY <1>1, <1>2, WriterGoes
<1>4. Tx!Taken(p)' = n
  BY <1>2, <1>3 DEF Tx!Taken
<1>5. c \in WriterChars /\ c \in TxChars /\ c[1] = p
  BY <1>2 DEF WriterChars, TxChars
<1>6. /\ Tx!Pending' = Append(Tx!Pending, c)
      /\ txbuf' \in [0 .. TxSize - 1 -> WriterChars \cup {<<>>}]
      /\ tx_w' \in Nat /\ tx_r' <= tx_w' /\ tx_w' <= tx_r' + TxSize
  BY <1>1, <1>5, PendingGrows
<1>7. ~ Sends /\ ~ Sends' /\ Starting'
  <2>1. \A x \in Writers \cup {Tx!Intr} : ~ Tx!At(x, "start") /\ ~ Tx!At(x, "send")
    BY <1>1, OneStarts, TxNames
  <2>2. \A x \in Writers \cup {Tx!Intr} : /\ Tx!At(x, "start")' <=> x = p
                                          /\ ~ Tx!At(x, "send")'
    BY <1>3, <2>1
  <2> QED  BY <1>1, <2>1, <2>2, StartingNext DEF Sends
<1>8. UartTypeOK'
  BY <1>1, <1>3, <1>6 DEF UartInv, UartTypeOK, WritersTyped, WriterPc
<1>9. Tx!InHand = <<>> /\ Tx!InHand' = <<>>
  BY <1>7 DEF Tx!InHand, Sends
<1>10. Stored'
  BY <1>5, <1>6, <1>9 DEF UartInv, Stored
<1>11. Tx!Stream' = Append(Tx!Stream, c) /\ Tx!Stream \in Seq(TxChars)
  <2>1. \A a \in Seq(TxChars), b \in Seq(TxChars) : a \o (<<>> \o Append(b, c)) = Append(a \o (<<>> \o b), c)
    BY <1>5
  <2>2. sent \o fifo \in Seq(TxChars) /\ Tx!Pending \in Seq(TxChars) /\ Tx!Stream \in Seq(TxChars)
    BY StreamIs DEF UartInv
  <2>3. Tx!Stream' = (sent \o fifo) \o (<<>> \o Append(Tx!Pending, c))
    BY <1>1, <1>6, <1>9 DEF Tx!Stream
  <2>4. Tx!Stream = (sent \o fifo) \o (<<>> \o Tx!Pending)
    BY <1>9 DEF Tx!Stream
  <2> QED  BY <2>1, <2>2, <2>3, <2>4
<1>12. Sequenced'
  <2> SUFFICES ASSUME NEW q \in Writers PROVE Tx!InOrder(Append(Tx!Stream, c), q, Tx!Taken(q)')
    BY <1>11 DEF Sequenced, Tx!InOrder
  <2>1. Tx!InOrder(Tx!Stream, q, Tx!Taken(q))
    BY DEF UartInv, Sequenced
  <2>2. CASE q = p
    <3>1. Tx!InOrder(Append(Tx!Stream, <<p, (n - 1) + 1>>), p, (n - 1) + 1)
      BY <1>2, <1>11, <2>1, <2>2, OrderAppend
    <3> QED  BY <1>2, <1>4, <2>2, <3>1
  <2>3. CASE q # p
    <3>1. Tx!Taken(q)' = Tx!Taken(q) /\ Tx!Taken(q) \in Int
      BY <1>3, <2>3, WriterFields
    <3> QED  BY <1>5, <1>11, <2>1, <2>3, <3>1, OrderOther
  <2> QED  BY <2>2, <2>3
<1>13. Fitted'
  BY <1>1, <1>7, FittedStays
<1>14. Continued'
  BY <1>1, TxNames DEF Continued
<1>15. Awaiting'
  <2> SUFFICES ASSUME NEW q \in Writers PROVE writer'[q].pc # "sleep"
    BY DEF Awaiting
  <2> QED  BY <1>1, <1>3 DEF UartInv, Awaiting
<1> QED  BY <1>7, <1>8, <1>10, <1>12, <1>13, <1>14, <1>15 DEF UartInv

LEMMA StartEndsStep ==
    ASSUME Tx!UartConstants, UartInv, NEW x \in Writers \cup {Tx!Intr}, Tx!StartEnds(x)
    PROVE  UartInv'
<1> DEFINE c == IF x = Tx!Intr THEN "off" ELSE "user"
<1>1. /\ Tx!At(x, "start") /\ (tx_w = tx_r \/ fifo # <<>>)
      /\ txlock' = Tx!Nobody /\ Tx!Goto(x, c)
      /\ UNCHANGED <<txbuf, tx_r, tx_w, echo, fifo, uartirq, sent>>
  BY DEF Tx!StartEnds, Tx!TxIdle
<1>2. c \in {"off", "user", "start", "send"} /\ IF x = Tx!Intr THEN c # "user" ELSE c # "off"
  OBVIOUS
<1>3. /\ WritersTyped' /\ uartintr' \in {"off", "enter", "start", "send"}
      /\ \A q \in Writers : /\ Tx!Taken(q)' = Tx!Taken(q)
                            /\ writer'[q].pc = "sleep" <=> writer[q].pc = "sleep"
      /\ \A d : Tx!At(x, d)' <=> c = d
      /\ \A y \in (Writers \cup {Tx!Intr}) \ {x} : \A d : Tx!At(y, d)' <=> Tx!At(y, d)
  <2> HIDE DEF c
  <2> QED  BY <1>1, <1>2, StartGoes
<1>4. ~ Sends /\ ~ Sends' /\ Starting'
  <2>1. ~ Sends /\ txlock = x
    BY <1>1, OneStarts
  <2>2. \A y \in Writers \cup {Tx!Intr} : ~ Tx!At(y, "start")' /\ ~ Tx!At(y, "send")'
    BY <1>3, <2>1, OneStarts
  <2> QED  BY <1>1, <2>1, <2>2, StartingNext, TxNames DEF Sends
<1>5. UartTypeOK'
  BY <1>1, <1>3 DEF UartInv, UartTypeOK, WritersTyped, WriterPc
<1>6. Stored' /\ Sequenced' /\ Fitted'
  BY <1>1, <1>3, <1>4, StreamStays, FittedStays
<1>7. Continued' /\ Awaiting'
  BY <1>1, <1>3 DEF UartInv, Continued, Awaiting
<1> QED  BY <1>4, <1>5, <1>6, <1>7 DEF UartInv

\* The first pending character goes to uartstart's hand.
LEMMA StartTakesStep ==
    ASSUME Tx!UartConstants, UartInv, NEW x \in Writers \cup {Tx!Intr}, Tx!StartTakes(x)
    PROVE  UartInv'
<1> DEFINE place(p) == IF p = x THEN "send" ELSE IF Tx!Roused(p) THEN "enter" ELSE writer[p].pc
<1>1. /\ Tx!At(x, "start") /\ tx_w # tx_r /\ fifo = <<>> /\ tx_r' = tx_r + 1
      /\ writer' = [p \in Writers |-> [writer[p] EXCEPT !.pc = place(p)]]
      /\ uartintr' = IF x = Tx!Intr THEN "send" ELSE uartintr
      /\ UNCHANGED <<txbuf, tx_w, txlock, echo, fifo, uartirq, sent>>
  BY DEF Tx!StartTakes, Tx!TxIdle
<1>2. txlock = x /\ ~ Sends
  BY <1>1, OneStarts
<1>3. ASSUME NEW q \in Writers
      PROVE  /\ writer'[q] \in [pc : WriterPc, k : Nat] /\ writer'[q].pc = place(q) /\ writer'[q].k = writer[q].k
             /\ (writer'[q].pc \in {"enter", "sleep"} => writer'[q].k > 0)
             /\ Tx!Taken(q)' = Tx!Taken(q) /\ writer'[q].pc # "sleep"
  <2>1. writer[q] \in [pc : WriterPc, k : Nat]
    BY WriterFields
  <2>2. place(q) \in WriterPc /\ place(q) # "sleep"
    BY <2>1 DEF WriterPc, Tx!Roused
  <2>3. writer'[q] = [writer[q] EXCEPT !.pc = place(q)]
    BY <1>1
  <2> HIDE DEF place
  <2>4. writer'[q] \in [pc : WriterPc, k : Nat] /\ writer'[q].pc = place(q) /\ writer'[q].k = writer[q].k
    BY <2>1, <2>2, <2>3
  <2>5. place(q) \in {"enter", "sleep"} <=> writer[q].pc \in {"enter", "sleep"}
    <3>1. q = x => writer[q].pc = "start" /\ place(q) = "send"
      BY <1>1, TxNames DEF Tx!At, place
    <3>2. q # x => place(q) = IF writer[q].pc = "sleep" THEN "enter" ELSE writer[q].pc
      BY DEF place, Tx!Roused
    <3> QED  BY <3>1, <3>2
  <2>6. writer'[q].pc \in {"enter", "sleep"} => writer'[q].k > 0
    BY <2>4, <2>5, WriterFields
  <2>7. Tx!Taken(q)' = Tx!Taken(q)
    BY <2>4, <2>5 DEF Tx!Taken
  <2> QED  BY <2>2, <2>4, <2>6, <2>7
<1>4. WritersTyped'
  <2>1. writer' \in [Writers -> [pc : WriterPc, k : Nat]]
    BY <1>1, <1>3
  <2> QED  BY <1>3, <2>1 DEF WritersTyped
<1>5. /\ Starting'
      /\ Sends'
  <2>1. Tx!At(x, "send")'
    BY <1>1, <1>3, TxNames DEF Tx!At
  <2>2. ASSUME NEW y \in (Writers \cup {Tx!Intr}) \ {x}
        PROVE  ~ Tx!At(y, "start")' /\ ~ Tx!At(y, "send")'
    <3>1. ~ Tx!At(y, "start") /\ ~ Tx!At(y, "send")
      BY <1>2, OneStarts
    <3>2. CASE y = Tx!Intr
      BY <1>1, <3>1, <3>2 DEF Tx!At
    <3>3. CASE y # Tx!Intr
      <4>1. writer'[y].pc = IF Tx!Roused(y) THEN "enter" ELSE writer[y].pc
        BY <1>3, <3>3
      <4> QED  BY <3>1, <3>3, <4>1 DEF Tx!At
    <3> QED  BY <3>2, <3>3
  <2> QED  BY <1>1, <1>2, <2>1, <2>2, StartingNext DEF Sends
<1>6. tx_r \in Nat /\ tx_w \in Nat /\ tx_r < tx_w /\ tx_w <= tx_r + TxSize /\ TxSize \in Nat
  <2>1. tx_r \in Nat /\ tx_w \in Nat /\ tx_r <= tx_w /\ tx_w <= tx_r + TxSize /\ TxSize \in Nat
    BY TxNames DEF UartInv, UartTypeOK
  <2> QED  BY <1>1, <2>1
<1>7. tx_r' \in Nat /\ tx_r' <= tx_w' /\ tx_w' <= tx_r' + TxSize
  BY <1>1, <1>6
<1>8. UartTypeOK'
  BY <1>1, <1>4, <1>7 DEF UartInv, UartTypeOK, WritersTyped, WriterPc
<1> DEFINE s == Tx!Pending
           t == Tx!Pending'
           n == tx_w - tx_r
<1>9. s \in Seq(WriterChars) /\ Len(s) = n /\ n \in Nat /\ n # 0 /\ n - 1 \in Nat /\ tx_w' - tx_r' = n - 1
  BY <1>1, <1>6, StreamIs DEF UartInv, Stored
<1>10. t = [i \in 1 .. n - 1 |-> txbuf[(tx_r + 1 + i - 1) % TxSize]]
  BY <1>1, <1>9 DEF Tx!Pending
<1>11. ASSUME NEW i \in 1 .. n - 1 PROVE t[i] = s[i + 1]
  <2>1. i + 1 \in 1 .. n /\ tx_r + (i + 1) - 1 = tx_r + 1 + i - 1
    BY <1>6, <1>9
  <2>2. s[i + 1] = txbuf[(tx_r + (i + 1) - 1) % TxSize]
    BY <2>1 DEF Tx!Pending
  <2> QED  BY <1>10, <2>1, <2>2
<1>12. s # <<>> /\ Head(s) \in WriterChars /\ s[1] = Head(s)
  BY <1>9
<1>13. Tx!InHand = <<>> /\ Tx!InHand' = <<Head(s)>>
  <2>1. Tx!InHand' = <<txbuf'[(tx_r' - 1) % TxSize]>>
    BY <1>5 DEF Tx!InHand, Sends
  <2>2. tx_r' - 1 = tx_r /\ tx_r + 1 - 1 = tx_r
    BY <1>1, <1>6
  <2>3. 1 \in 1 .. n
    BY <1>9
  <2>4. s[1] = txbuf[(tx_r + 1 - 1) % TxSize]
    BY <2>3 DEF Tx!Pending
  <2> QED  BY <1>1, <1>2, <1>12, <2>1, <2>2, <2>4 DEF Tx!InHand, Sends
<1>14. t = Tail(s) /\ t \in Seq(WriterChars)
  <2> HIDE DEF n, s, t
  <2>1. /\ Tail(s) \in Seq(WriterChars) /\ Len(Tail(s)) = n - 1
        /\ \A i \in 1 .. n - 1 : Tail(s)[i] = s[i + 1]
    BY <1>9, <1>12, HeadTailProperties
  <2>2. t \in Seq(WriterChars) /\ Len(t) = n - 1
    <3>1. \A i \in 1 .. n - 1 : t[i] \in WriterChars
      BY <1>9, <1>11, <2>1
    <3>2. DOMAIN t = 1 .. n - 1
      BY <1>10
    <3> QED  BY <1>9, <1>10, <3>1, <3>2
  <2>3. \A i \in 1 .. n - 1 : t[i] = Tail(s)[i]
    BY <1>11, <2>1
  <2> QED  BY <2>1, <2>2, <2>3, SeqEqual
<1>15. Stored'
  BY <1>12, <1>13, <1>14 DEF Stored
<1>16. Tx!Stream' = Tx!Stream
  <2>1. s \in Seq(TxChars)
    BY StreamIs DEF UartInv
  <2> HIDE DEF s, t
  <2>2. <<Head(s)>> \o Tail(s) = <<>> \o s
    BY <1>12, <2>1
  <2>3. Tx!Stream' = (sent \o fifo) \o (<<Head(s)>> \o Tail(s))
    BY <1>1, <1>13, <1>14 DEF Tx!Stream, t
  <2>4. Tx!Stream = (sent \o fifo) \o (<<>> \o s)
    BY <1>13 DEF Tx!Stream, s
  <2> QED  BY <2>2, <2>3, <2>4
<1>17. Sequenced'
  BY <1>3, <1>16 DEF UartInv, Sequenced, Tx!InOrder
<1>18. Fitted'
  <2>1. Echoing' = Echoing
    BY <1>1 DEF Echoing
  <2>2. Len(fifo) = 0
    BY <1>1
  <2> QED  BY <1>1, <1>5, <2>1, <2>2, EchoersFinite DEF Fitted
<1>19. Continued' /\ Awaiting'
  BY <1>1, <1>2, <1>3, TxNames DEF Continued, Awaiting
<1> QED  BY <1>5, <1>8, <1>15, <1>17, <1>18, <1>19 DEF UartInv

\* The character in hand goes to the UART.
LEMMA StartSendsStep ==
    ASSUME Tx!UartConstants, UartInv, NEW x \in Writers \cup {Tx!Intr}, Tx!StartSends(x)
    PROVE  UartInv'
<1> DEFINE c == txbuf[(tx_r - 1) % TxSize]
<1>1. /\ Tx!At(x, "send") /\ fifo' = Append(fifo, c) /\ Tx!Goto(x, "start")
      /\ UNCHANGED <<txbuf, tx_r, tx_w, txlock, echo, uartirq, sent>>
  BY DEF Tx!StartSends
<1>2. Sends /\ txlock = x
  BY <1>1, OneStarts
<1>3. /\ WritersTyped' /\ uartintr' \in {"off", "enter", "start", "send"}
      /\ \A q \in Writers : /\ Tx!Taken(q)' = Tx!Taken(q)
                            /\ writer'[q].pc = "sleep" <=> writer[q].pc = "sleep"
      /\ \A d : Tx!At(x, d)' <=> "start" = d
      /\ \A y \in (Writers \cup {Tx!Intr}) \ {x} : \A d : Tx!At(y, d)' <=> Tx!At(y, d)
  <2>1. "start" \in {"off", "user", "start", "send"} /\ IF x = Tx!Intr THEN "start" # "user" ELSE "start" # "off"
    OBVIOUS
  <2> QED  BY <1>1, <2>1, StartGoes
<1>4. Starting' /\ ~ Sends'
  <2>1. \A y \in (Writers \cup {Tx!Intr}) \ {x} : ~ Tx!At(y, "start")' /\ ~ Tx!At(y, "send")'
    BY <1>2, <1>3, OneStarts
  <2> QED  BY <1>1, <1>2, <1>3, <2>1, StartingNext DEF Sends
<1>5. Tx!InHand = <<c>> /\ Tx!InHand' = <<>> /\ Tx!Pending' = Tx!Pending
  BY <1>1, <1>2, <1>4 DEF Tx!InHand, Sends, Tx!Pending
<1>6. c \in TxChars
  <2>1. <<c>> \in Seq(TxChars) /\ Len(<<c>>) = 1
    BY <1>5, StreamIs DEF UartInv
  <2>2. <<c>>[1] \in TxChars
    BY <2>1, ElementOfSeq
  <2> QED  BY <2>2
<1>7. fifo \in Seq(TxChars) /\ fifo' \in Seq(TxChars) /\ Len(fifo') = Len(fifo) + 1 /\ Len(fifo) \in Nat
  BY <1>1, <1>6 DEF UartInv, UartTypeOK
<1>8. UartTypeOK'
  BY <1>1, <1>3, <1>7 DEF UartInv, UartTypeOK, WritersTyped, WriterPc
<1>9. Stored'
  BY <1>5 DEF UartInv, Stored
<1>10. Tx!Stream' = Tx!Stream
  <2> DEFINE q == Tx!Pending
             a == sent \o fifo
  <2>1. sent \in Seq(TxChars) /\ fifo \in Seq(TxChars) /\ q \in Seq(TxChars) /\ a \in Seq(TxChars)
    BY StreamIs DEF UartInv
  <2>2. Tx!Stream = a \o (<<c>> \o q) /\ Tx!Stream' = (sent \o Append(fifo, c)) \o (<<>> \o q)
    BY <1>1, <1>5 DEF Tx!Stream
  <2> HIDE DEF c, q
  <2>3. sent \o Append(fifo, c) = a \o <<c>> /\ <<c>> \in Seq(TxChars)
    BY <1>6, <2>1, PartsAppend
  <2> HIDE DEF a
  <2>4. <<>> \o q = q /\ (a \o <<c>>) \o q = a \o (<<c>> \o q)
    BY <2>1, <2>3, ConcatAssociative
  <2> QED  BY <2>2, <2>3, <2>4
<1>11. Sequenced'
  BY <1>3, <1>10 DEF UartInv, Sequenced, Tx!InOrder
<1>12. Fitted'
  <2>1. Echoing' = Echoing
    BY <1>1 DEF Echoing
  <2> QED  BY <1>2, <1>4, <1>7, <2>1, EchoersFinite DEF UartInv, Fitted
<1>13. Continued' /\ Awaiting'
  BY <1>1, <1>2, <1>3, TxNames DEF UartInv, Continued, Awaiting
<1> QED  BY <1>4, <1>8, <1>9, <1>11, <1>12, <1>13 DEF UartInv

\* A step of neither writers nor the uartintr.
LEMMA OthersStay ==
    ASSUME UartInv, UNCHANGED <<txbuf, tx_r, tx_w, txlock, writer, uartintr>>
    PROVE  /\ Starting' /\ Awaiting' /\ (Sends' <=> Sends)
           /\ \A p \in Writers : Tx!Taken(p)' = Tx!Taken(p)
           /\ Tx!Pending' = Tx!Pending /\ Tx!InHand' = Tx!InHand /\ Stored'
<1>1. Starting' /\ Awaiting'
  BY DEF UartInv, Starting, Awaiting
<1>2. Sends' <=> Sends
  BY DEF Sends, Tx!At
<1>3. \A p \in Writers : Tx!Taken(p)' = Tx!Taken(p)
  BY DEF Tx!Taken
<1>4. Tx!Pending' = Tx!Pending /\ Tx!InHand' = Tx!InHand
  BY <1>2 DEF Tx!Pending, Tx!InHand, Sends
<1> QED  BY <1>1, <1>2, <1>3, <1>4 DEF UartInv, Stored

LEMMA EchoFields ==
    ASSUME UartInv, NEW x \in Echoers, NEW c \in {"off", "send"}, NEW n \in Nat,
           echo' = [echo EXCEPT ![x] = [pc |-> c, k |-> n]]
    PROVE  /\ echo' \in [Echoers -> [pc : {"off", "send"}, k : Nat]]
           /\ Echoing' = IF c = "send" THEN Echoing \cup {x} ELSE Echoing \ {x}
<1>1. echo \in [Echoers -> [pc : {"off", "send"}, k : Nat]]
  BY DEF UartInv, UartTypeOK
<1>2. \A y \in Echoers : echo'[y] = IF y = x THEN [pc |-> c, k |-> n] ELSE echo[y]
  BY <1>1
<1>3. \A y \in Echoers : y \in Echoing' <=> IF y = x THEN c = "send" ELSE y \in Echoing
  BY <1>2 DEF Echoing
<1>4. Echoing \subseteq Echoers /\ Echoing' \subseteq Echoers
  BY DEF Echoing
<1> QED  BY <1>1, <1>3, <1>4

LEMMA EchoReadyStep ==
    ASSUME Tx!UartConstants, UartInv, NEW x \in Echoers, Tx!EchoReady(x)
    PROVE  UartInv'
<1>1. /\ fifo = <<>> /\ echo' = [echo EXCEPT ![x] = [pc |-> "send", k |-> echo[x].k + 1]]
      /\ UNCHANGED <<txbuf, tx_r, tx_w, txlock, writer, uartintr, fifo, uartirq, sent>>
  BY DEF Tx!EchoReady, Tx!TxIdle
<1>2. echo[x].k + 1 \in Nat
  BY DEF UartInv, UartTypeOK
<1>3. echo' \in [Echoers -> [pc : {"off", "send"}, k : Nat]]
  BY <1>1, <1>2, EchoFields
<1>4. /\ Starting' /\ Awaiting' /\ (Sends' <=> Sends)
      /\ \A p \in Writers : Tx!Taken(p)' = Tx!Taken(p)
  BY <1>1, OthersStay
<1>5. Stored' /\ Sequenced'
  BY <1>1, <1>4, StreamStays
<1>6. UartTypeOK'
  BY <1>1, <1>3 DEF UartInv, UartTypeOK
<1>7. Fitted'
  <2>1. IsFiniteSet(Echoers) /\ Echoing' \subseteq Echoers
    BY EchoersFinite DEF Echoing
  <2>2. IsFiniteSet(Echoing') /\ Cardinality(Echoing') <= Cardinality(Echoers)
    BY <2>1, FS_Subset
  <2>3. Cardinality(Echoing') \in Nat /\ Cardinality(Echoers) \in Nat /\ Len(fifo') = 0
    BY <1>1, <2>1, <2>2, FS_CardinalityType
  <2> QED  BY <2>2, <2>3 DEF Fitted
<1>8. Continued'
  BY <1>1 DEF UartInv, Continued
<1> QED  BY <1>4, <1>5, <1>6, <1>7, <1>8 DEF UartInv

LEMMA EchoSendStep ==
    ASSUME Tx!UartConstants, UartInv, NEW x \in Echoers, Tx!EchoSend(x)
    PROVE  UartInv'
<1> DEFINE c == <<x, echo[x].k>>
<1>1. /\ echo[x].pc = "send" /\ fifo' = Append(fifo, c)
      /\ UNCHANGED <<txbuf, tx_r, tx_w, txlock, writer, uartintr, uartirq, sent>>
  BY DEF Tx!EchoSend
<1>2. echo[x].k \in Nat /\ echo' = [echo EXCEPT ![x] = [pc |-> "off", k |-> echo[x].k]]
  <2>1. echo \in [Echoers -> [pc : {"off", "send"}, k : Nat]]
    BY DEF UartInv, UartTypeOK
  <2>2. echo[x] \in [pc : {"off", "send"}, k : Nat]
    BY <2>1
  <2>3. [echo[x] EXCEPT !.pc = "off"] = [pc |-> "off", k |-> echo[x].k]
    BY <2>2
  <2>4. echo' = [echo EXCEPT ![x].pc = "off"]
    BY DEF Tx!EchoSend
  <2> QED  BY <2>1, <2>2, <2>3, <2>4
<1>3. /\ echo' \in [Echoers -> [pc : {"off", "send"}, k : Nat]]
      /\ Echoing' = Echoing \ {x}
  BY <1>2, EchoFields
<1>4. /\ Starting' /\ Awaiting' /\ (Sends' <=> Sends)
      /\ \A p \in Writers : Tx!Taken(p)' = Tx!Taken(p)
      /\ Tx!Pending' = Tx!Pending /\ Tx!InHand' = Tx!InHand /\ Stored'
  BY <1>1, OthersStay
<1>5. c \in TxChars /\ c[1] = x /\ \A p \in Writers : p # x
  BY <1>2 DEF TxChars, Tx!UartConstants
<1>6. fifo \in Seq(TxChars) /\ fifo' \in Seq(TxChars) /\ Len(fifo') = Len(fifo) + 1 /\ Len(fifo) \in Nat
  BY <1>1, <1>5 DEF UartInv, UartTypeOK
<1>7. UartTypeOK'
  BY <1>1, <1>3, <1>6 DEF UartInv, UartTypeOK
<1>8. Sequenced'
  <2> DEFINE a == sent \o fifo
             b == Tx!InHand \o Tx!Pending
  <2>1. a \in Seq(TxChars) /\ b \in Seq(TxChars) /\ Tx!Stream = a \o b /\ sent \in Seq(TxChars)
    BY StreamIs DEF UartInv, Tx!Stream
  <2>2. sent' \o fifo' = a \o <<c>>
    BY <1>1, <1>5, <1>6, <2>1, PartsAppend
  <2>3. Tx!Stream' = (sent' \o fifo') \o b
    BY <1>4 DEF Tx!Stream
  <2>4. Tx!Stream' = (a \o <<c>>) \o b
    BY <2>2, <2>3
  <2> HIDE DEF a, b, c
  <2> SUFFICES ASSUME NEW p \in Writers PROVE Tx!InOrder((a \o <<c>>) \o b, p, Tx!Taken(p))
    BY <1>4, <2>4 DEF Sequenced, Tx!InOrder
  <2>6. Tx!InOrder(a \o b, p, Tx!Taken(p)) /\ Tx!Taken(p) \in Int /\ c[1] # p
    BY <1>5, <2>1, WriterFields DEF UartInv, Sequenced
  <2> QED  BY <1>5, <2>1, <2>6, OrderAround
<1>9. Fitted'
  <2>1. x \in Echoing /\ IsFiniteSet(Echoing)
    BY <1>1, EchoersFinite DEF Echoing
  <2>2. Cardinality(Echoing') = Cardinality(Echoing) - 1
    BY <1>3, <2>1, FS_RemoveElement
  <2> QED  BY <1>4, <1>6, <2>2, EchoersFinite DEF UartInv, Fitted
<1>10. Continued'
  <2>1. fifo' # <<>>
    BY <1>1, <1>6
  <2> QED  BY <2>1 DEF Continued
<1> QED  BY <1>4, <1>7, <1>8, <1>9, <1>10 DEF UartInv

LEMMA TransmitStep ==
    ASSUME Tx!UartConstants, UartInv, Tx!Transmit
    PROVE  UartInv'
<1> DEFINE c == Head(fifo)
<1>1. /\ fifo # <<>> /\ fifo' = Tail(fifo) /\ sent' = IF c[1] \in Writers THEN Append(sent, c) ELSE sent
      /\ uartirq' = (uartirq \/ Len(fifo) = 1)
      /\ UNCHANGED <<txbuf, tx_r, tx_w, txlock, writer, uartintr, echo>>
  BY DEF Tx!Transmit
<1>2. /\ fifo \in Seq(TxChars) /\ c \in TxChars /\ fifo' \in Seq(TxChars) /\ Len(fifo') = Len(fifo) - 1
      /\ Len(fifo) \in Nat /\ <<c>> \o fifo' = fifo /\ <<c>> \in Seq(TxChars)
  BY <1>1 DEF UartInv, UartTypeOK
<1>3. sent \in Seq(WriterChars) /\ sent' \in Seq(WriterChars)
  <2>1. c[1] \in Writers => c \in WriterChars
    BY <1>2 DEF TxChars, WriterChars
  <2> QED  BY <1>1, <2>1 DEF UartInv, UartTypeOK
<1>4. /\ Starting' /\ Awaiting' /\ (Sends' <=> Sends)
      /\ \A p \in Writers : Tx!Taken(p)' = Tx!Taken(p)
      /\ Tx!Pending' = Tx!Pending /\ Tx!InHand' = Tx!InHand /\ Stored'
  BY <1>1, OthersStay
<1>5. UartTypeOK'
  BY <1>1, <1>2, <1>3 DEF UartInv, UartTypeOK
<1> DEFINE a == fifo' \o (Tx!InHand \o Tx!Pending)
<1>6. /\ sent \in Seq(TxChars) /\ a \in Seq(TxChars) /\ sent \o <<c>> \in Seq(TxChars)
      /\ Append(sent, c) = sent \o <<c>> /\ Tx!Stream = (sent \o <<c>>) \o a
  <2>1. /\ sent \in Seq(TxChars) /\ Tx!InHand \o Tx!Pending \in Seq(TxChars)
        /\ Tx!Stream = (sent \o fifo) \o (Tx!InHand \o Tx!Pending)
    BY StreamIs DEF UartInv, Tx!Stream
  <2>2. a \in Seq(TxChars)
    BY <1>2, <2>1, ConcatProperties
  <2>3. fifo # <<>> /\ fifo \in Seq(TxChars) /\ fifo' = Tail(fifo)
    BY <1>1, <1>2
  <2> DEFINE b == Tx!InHand \o Tx!Pending
  <2>4. b \in Seq(TxChars)
    BY <2>1
  <2>5. a = Tail(fifo) \o b
    BY <2>3
  <2> HIDE DEF b
  <2>6. /\ (sent \o fifo) \o b = (sent \o <<c>>) \o (Tail(fifo) \o b)
        /\ Append(sent, c) = sent \o <<c>> /\ sent \o <<c>> \in Seq(TxChars)
    BY <2>1, <2>3, <2>4, PartsHead
  <2> HIDE DEF a, c
  <2>7. Tx!Stream = (sent \o fifo) \o b
    BY <2>1 DEF b
  <2> QED  BY <2>1, <2>2, <2>5, <2>6, <2>7
<1>7. Tx!Stream' = sent' \o a
  <2>1. Tx!Stream' = (sent' \o fifo') \o (Tx!InHand \o Tx!Pending)
    BY <1>4 DEF Tx!Stream
  <2>2. sent' \in Seq(TxChars)
    BY <1>1, <1>6
  <2>3. Tx!InHand \o Tx!Pending \in Seq(TxChars) /\ fifo' \in Seq(TxChars)
    BY <1>2, StreamIs DEF UartInv
  <2> DEFINE s == sent'
             f == fifo'
             b == Tx!InHand \o Tx!Pending
  <2>4. s \in Seq(TxChars) /\ f \in Seq(TxChars) /\ b \in Seq(TxChars)
    BY <2>2, <2>3
  <2> HIDE DEF s, f, b
  <2>5. (s \o f) \o b = s \o (f \o b)
    BY <2>4, ConcatAssociative
  <2> QED  BY <2>1, <2>5 DEF s, f, b
<1>9. Sequenced'
  <2> HIDE DEF a, c
  <2>1. CASE c[1] \in Writers
    <3>1. sent' = sent \o <<c>>
      BY <1>1, <1>6, <2>1
    <3>2. Tx!Stream' = Tx!Stream
      BY <1>6, <1>7, <3>1
    <3> QED  BY <1>4, <3>2 DEF UartInv, Sequenced, Tx!InOrder
  <2>2. CASE c[1] \notin Writers
    <3>1. Tx!Stream' = sent \o a
      BY <1>1, <1>7, <2>2
    <3> SUFFICES ASSUME NEW p \in Writers PROVE Tx!InOrder(sent \o a, p, Tx!Taken(p))
      BY <1>4, <3>1 DEF Sequenced, Tx!InOrder
    <3>2. Tx!InOrder((sent \o <<c>>) \o a, p, Tx!Taken(p)) /\ Tx!Taken(p) \in Int /\ c[1] # p
      BY <1>6, <2>2, WriterFields DEF UartInv, Sequenced
    <3> QED  BY <1>2, <1>6, <3>2, OrderAround
  <2> QED  BY <2>1, <2>2
<1>10. Fitted'
  <2>1. Echoing' = Echoing
    BY <1>1 DEF Echoing
  <2> QED  BY <1>2, <1>4, <2>1, EchoersFinite DEF UartInv, Fitted
<1>11. Continued'
  <2>1. fifo' = <<>> => Len(fifo) = 1
    BY <1>2
  <2>2. fifo' = <<>> => uartirq'
    BY <1>1, <2>1, Zenon
  <2> QED  BY <2>2 DEF Continued
<1> QED  BY <1>4, <1>5, <1>9, <1>10, <1>11 DEF UartInv

LEMMA HandlerStep ==
    ASSUME Tx!UartConstants, UartInv, Tx!Interrupt \/ Tx!IntrLock
    PROVE  UartInv'
<1>1. /\ writer' = writer /\ UNCHANGED <<txbuf, tx_r, tx_w, echo, fifo, sent>>
      /\ \/ uartintr = "off" /\ uartintr' = "enter" /\ txlock' = txlock
         \/ uartintr = "enter" /\ uartintr' = "start" /\ txlock = Tx!Nobody /\ txlock' = Tx!Intr
  BY DEF Tx!Interrupt, Tx!IntrLock
<1>2. /\ WritersTyped'
      /\ \A q \in Writers : writer'[q] = writer[q] /\ Tx!Taken(q)' = Tx!Taken(q)
      /\ \A d : Tx!At(Tx!Intr, d)' <=> uartintr' = d
      /\ \A x \in Writers : \A d : Tx!At(x, d)' <=> Tx!At(x, d)
  BY <1>1, HandlerGoes
<1>3. Tx!At(Tx!Intr, uartintr) /\ \A d : Tx!At(Tx!Intr, d) <=> uartintr = d
  BY DEF Tx!At
<1>4. Sends' <=> Sends
  BY <1>1, <1>2, <1>3 DEF Sends
<1>5. Starting'
  <2>1. uartintr' \in {"start", "send"} <=> txlock' = Tx!Intr
    BY <1>1, TxNames DEF UartInv, Starting
  <2>2. \A p \in Writers : writer'[p].pc \in {"start", "send"} <=> txlock' = p
    BY <1>1, TxNames DEF UartInv, Starting
  <2> QED  BY <2>1, <2>2 DEF Starting
<1>6. UartTypeOK'
  BY <1>1 DEF UartInv, UartTypeOK
<1>7. Stored' /\ Sequenced' /\ Fitted'
  BY <1>1, <1>2, <1>4, StreamStays, FittedStays
<1>8. Continued' /\ Awaiting'
  BY <1>1 DEF UartInv, Continued, Awaiting
<1> QED  BY <1>4, <1>5, <1>6, <1>7, <1>8 DEF UartInv

LEMMA UartStep ==
    ASSUME Tx!UartConstants, UartInv, [Tx!Next]_(Tx!uvars)
    PROVE  UartInv'
<1>1. ASSUME NEW p \in Writers, Tx!CallPut(p) \/ Tx!Putting(p)
      PROVE  UartInv'
  BY <1>1, CallPutStep, PutWaitStep, PutStep DEF Tx!Putting
<1>2. ASSUME NEW x \in Writers \cup {Tx!Intr}, Tx!Starts(x)
      PROVE  UartInv'
  BY <1>2, StartEndsStep, StartTakesStep, StartSendsStep DEF Tx!Starts
<1>3. ASSUME NEW x \in Echoers, Tx!EchoReady(x) \/ Tx!EchoSend(x)
      PROVE  UartInv'
  BY <1>3, EchoReadyStep, EchoSendStep
<1>4. CASE UNCHANGED Tx!uvars
  <2>1. UNCHANGED <<txbuf, tx_r, tx_w, txlock, writer, uartintr, echo, fifo, uartirq, sent>>
    BY <1>4 DEF Tx!uvars
  <2>2. /\ Starting' /\ Awaiting' /\ (Sends' <=> Sends)
        /\ \A p \in Writers : Tx!Taken(p)' = Tx!Taken(p)
    BY <2>1, OthersStay
  <2>3. Stored' /\ Sequenced' /\ Fitted'
    BY <2>1, <2>2, StreamStays, FittedStays
  <2>4. UartTypeOK' /\ Continued'
    BY <2>1 DEF UartInv, UartTypeOK, Continued
  <2> QED  BY <2>2, <2>3, <2>4 DEF UartInv
<1> QED  BY <1>1, <1>2, <1>3, <1>4, TransmitStep, HandlerStep DEF Tx!Next

LEMMA OutputIs ==
    ASSUME Tx!UartConstants, UartInv
    PROVE  OutputExact /\ NothingLeft
<1>1. Len(fifo) <= FifoDepth
  <2>1. fifo \in Seq(TxChars) /\ Len(fifo) \in Nat
    BY DEF UartInv, UartTypeOK
  <2>2. FifoDepth \in Nat
    BY DEF Tx!UartConstants
  <2> QED  BY <2>1, <2>2, EchoersFinite DEF UartInv, Fitted
<1>2. OutputExact
  BY <1>1 DEF OutputExact, Tx!OutputExact, UartInv, Sequenced
<1>3. ASSUME fifo = <<>>, ~ uartirq, uartintr = "off", txlock = Tx!Nobody
      PROVE  tx_w = tx_r /\ \A p \in Writers : writer[p].pc # "sleep"
  <2>1. tx_w = tx_r
    BY <1>3 DEF UartInv, Continued
  <2>2. tx_r \in Nat /\ TxSize \in Nat /\ TxSize > 0
    BY TxNames DEF UartInv, UartTypeOK
  <2>3. tx_w # tx_r + TxSize
    BY <2>1, <2>2
  <2> QED  BY <2>1, <2>3 DEF UartInv, Awaiting
<1> QED  BY <1>2, <1>3 DEF NothingLeft, Tx!NothingLeft

\* In every state ring, lock and stream are as the invariant says.
THEOREM UartInvariant == ASSUME Tx!UartConstants PROVE Tx!Spec => []UartInv
<1>1. Tx!Init => UartInv
  BY TxInitInv
<1>2. UartInv /\ [Tx!Next]_(Tx!uvars) => UartInv'
  BY UartStep
<1> QED  BY <1>1, <1>2, PTL DEF Tx!Spec

\* Every writer's characters are on the line, in the FIFO, in hand or in the
\* ring, in the order of its calls of uartputc and none twice; and with a FIFO
\* longer than there are echoes the UART is never given too much.
THEOREM OutputIsExact == ASSUME Tx!UartConstants PROVE Tx!Spec => []OutputExact
<1>1. UartInv => OutputExact
  BY OutputIs
<1> QED  BY <1>1, UartInvariant, PTL

\* When the UART is idle, its interrupt dealt with and the lock free, the ring
\* is empty and no writer sleeps in uartputc.
THEOREM NothingIsLeft == ASSUME Tx!UartConstants PROVE Tx!Spec => []NothingLeft
<1>1. UartInv => NothingLeft
  BY OutputIs
<1> QED  BY <1>1, UartInvariant, PTL

\* What the run checks of both halves, each of its behaviours being one of one
\* half: no reader or writer of the terminal is forgotten, and nothing sent is
\* lost, repeated or out of order.
THEOREM TerminalIsExact ==
    ASSUME Con!ConsoleConstants, Tx!UartConstants
    PROVE  Con!Spec /\ Tx!Spec => []TerminalExact
<1>1. ReadersWoken /\ OutputExact /\ NothingLeft <=> TerminalExact
  BY DEF TerminalExact
<1> QED  BY <1>1, ReadersAreWoken, OutputIsExact, NothingIsLeft, PTL
===============================================================================
