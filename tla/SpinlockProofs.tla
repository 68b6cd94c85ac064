--------------------------- MODULE SpinlockProofs ---------------------------
(***************************************************************************)
(* The safety properties of Spinlock for any CPUs, locks and handlers.      *)
(*                                                                         *)
(* Mutual exclusion needs only that the winning amoswap finds the lock      *)
(* free.  That interrupts stay off and that no panic is reached needs to    *)
(* know what noff counts (Counted), which context may run (InThread,        *)
(* InHandler) and what lk->cpu says (Owned).                                *)
(***************************************************************************)
EXTENDS Spinlock, FiniteSetTheorems, TLAPS

Th(c) == <<c, "thread">>
Hd(c) == <<c, "handler">>

Begun(t) == pc[t] \in {"check", "spin", "setcpu", "pop"}
Leaving(t) == pc[t] \in {"release", "clear", "unlock"}

(* What t has added to its CPU's noff.                                      *)
Depth(t) == Cardinality(holds[t]) + (IF Begun(t) THEN 1 ELSE 0)

Counted == \A c \in CPU : noff[c] = Depth(Th(c)) + Depth(Hd(c))

Masked == \A t \in Context :
              holds[t] # {} \/ Begun(t) => ~sie[t[1]]

Held == \A t \in Context : Leaving(t) => arg[t] \in holds[t]

Fresh == \A t \in Context :
             pc[t] \in {"push", "off", "check", "spin", "setcpu"} =>
                 arg[t] \notin holds[t]

InThread == \A c \in CPU : run[c] = "thread" =>
                /\ pc[Hd(c)] = "idle" /\ holds[Hd(c)] = {}
                /\ pc[Th(c)] # "idle"
                /\ noff[c] = 0 => sie[c]
                /\ noff[c] > 0 => intena[c]

InHandler == \A c \in CPU : run[c] = "handler" =>
                 /\ ~sie[c]
                 /\ holds[Th(c)] = {}
                 /\ pc[Th(c)] \in {"run", "push", "off"}
                 /\ noff[c] > 0 => ~intena[c]

Saved == \A t \in Context : pc[t] = "off" /\ holds[t] = {} =>
             (old[t] <=> t[2] = "thread")

Taken == \A t \in Context, l \in Lock : Inside(t, l) => locked[l]

Owned == /\ \A t \in Context, l \in Lock : l \in holds[t] =>
                owner[l] = t[1] \/ (pc[t] = "unlock" /\ arg[t] = l)
         /\ \A l \in Lock : owner[l] # NoCpu =>
                \E t \in Context : /\ t[1] = owner[l] /\ l \in holds[t]
                                   /\ ~(pc[t] = "unlock" /\ arg[t] = l)

Local == Counted /\ Masked /\ Held /\ Fresh /\ InThread /\ InHandler /\ Saved

IInv == TypeOK /\ NoPanic /\ Local /\ Taken /\ Owned /\ MutualExclusion

-----------------------------------------------------------------------------
(* A context is a CPU and one of its two kinds.                             *)
LEMMA ContextFacts ==
    /\ \A c \in CPU : Th(c) \in Context /\ Hd(c) \in Context
    /\ \A t \in Context : /\ t[1] \in CPU
                          /\ \/ t = Th(t[1]) /\ t[2] = "thread"
                             \/ t = Hd(t[1]) /\ t[2] = "handler"
    /\ \A c \in CPU : /\ Th(c)[1] = c /\ Th(c)[2] = "thread"
                      /\ Hd(c)[1] = c /\ Hd(c)[2] = "handler"
    /\ \A c, d \in CPU : Th(c) # Hd(d)
  BY DEF Context, Th, Hd

(* The locks a context holds are finitely many, none exactly if their       *)
(* number is zero.                                                          *)
LEMMA LocksFinite ==
    ASSUME NEW S \in SUBSET Lock
    PROVE  /\ Cardinality(S) \in Nat
           /\ Cardinality(S) = 0 <=> S = {}
<1>1. IsFiniteSet(S)
  BY LockAssumption, FS_Subset
<1> QED
  BY <1>1, FS_CardinalityType, FS_EmptySet

(* One lock more or less.                                                   *)
LEMMA LocksCount ==
    ASSUME NEW S \in SUBSET Lock, NEW l \in Lock
    PROVE  /\ l \notin S => Cardinality(S \cup {l}) = Cardinality(S) + 1
           /\ l \in S => Cardinality(S \ {l}) = Cardinality(S) - 1
<1>1. IsFiniteSet(S)
  BY LockAssumption, FS_Subset
<1> QED
  BY <1>1, FS_AddElement, FS_RemoveElement

(* Every variable keeps its type: Spinlock's state stays well formed.       *)
THEOREM TypeCorrect == Spec => []TypeOK
<1>1. Init => TypeOK
  BY LockAssumption DEF Init, TypeOK, Context, PC
<1>2. TypeOK /\ [Next]_vars => TypeOK'
  <2> SUFFICES ASSUME TypeOK, [Next]_vars PROVE TypeOK'
    OBVIOUS
  <2> USE LockAssumption, ContextFacts DEF TypeOK, At, Goto, PC
  <2>1. ASSUME NEW t \in Context, NEW l \in Lock, CallAcquire(t, l)
        PROVE  TypeOK'
    BY <2>1 DEF CallAcquire
  <2>2. ASSUME NEW t \in Context, NEW l \in Lock, CallRelease(t, l)
        PROVE  TypeOK'
    BY <2>2 DEF CallRelease
  <2>3. ASSUME NEW t \in Context, PushRead(t) PROVE TypeOK'
    BY <2>3 DEF PushRead
  <2>4. ASSUME NEW t \in Context, PushOff(t) PROVE TypeOK'
    BY <2>4 DEF PushOff, SavedIntena
  <2>5. ASSUME NEW t \in Context, Check(t) PROVE TypeOK'
    BY <2>5 DEF Check
  <2>6. ASSUME NEW t \in Context, TestAndSet(t) PROVE TypeOK'
    BY <2>6 DEF TestAndSet
  <2>7. ASSUME NEW t \in Context, SetCpu(t) PROVE TypeOK'
    BY <2>7 DEF SetCpu
  <2>8. ASSUME NEW t \in Context, ReleaseCheck(t) PROVE TypeOK'
    BY <2>8 DEF ReleaseCheck
  <2>9. ASSUME NEW t \in Context, ClearCpu(t) PROVE TypeOK'
    BY <2>9 DEF ClearCpu, Cleared
  <2>10. ASSUME NEW t \in Context, Unlock(t) PROVE TypeOK'
    BY <2>10 DEF Unlock
  <2>11. ASSUME NEW t \in Context, PopOff(t) PROVE TypeOK'
    <3>1. CASE sie[t[1]] \/ noff[t[1]] < 1
      BY <2>11, <3>1 DEF PopOff
    <3>2. CASE ~(sie[t[1]] \/ noff[t[1]] < 1)
      <4>1. noff[t[1]] - 1 \in Nat
        <5>1. ~(noff[t[1]] < 1) /\ noff[t[1]] \in Nat
          BY <3>2
        <5> QED
          BY <5>1
      <4>2. noff' = [noff EXCEPT ![t[1]] = noff[t[1]] - 1]
        BY <2>11, <3>2 DEF PopOff, PopOne
      <4>3. noff' \in [CPU -> Nat]
        BY <4>1, <4>2
      <4>4. sie' \in [CPU -> BOOLEAN]
        BY <2>11, <3>2 DEF PopOff
      <4> QED
        BY <2>11, <3>2, <4>3, <4>4 DEF PopOff
    <3> QED
      BY <3>1, <3>2
  <2>12. ASSUME NEW c \in CPU, Interrupt(c) PROVE TypeOK'
    BY <2>12 DEF Interrupt, Hd
  <2>13. ASSUME NEW c \in CPU, ReturnFromTrap(c) PROVE TypeOK'
    BY <2>13 DEF ReturnFromTrap, Hd
  <2>14. CASE UNCHANGED vars
    BY <2>14 DEF vars
  <2> QED
    BY <2>1, <2>2, <2>3, <2>4, <2>5, <2>6, <2>7, <2>8, <2>9, <2>10, <2>11, <2>12, <2>13, <2>14 DEF Next, Step
<1> QED
  BY <1>1, <1>2, PTL DEF Spec

-----------------------------------------------------------------------------
(* Counted survives a step in which noff and one context's depth move       *)
(* together.                                                                *)
LEMMA CountStep ==
    ASSUME TypeOK, TypeOK', Counted, NEW t \in Context,
           NEW k \in Int,
           \A u \in Context : Depth(u) \in Nat /\ Depth(u)' \in Nat,
           \A u \in Context \ {t} : Depth(u)' = Depth(u),
           Depth(t)' = Depth(t) + k,
           noff'[t[1]] = noff[t[1]] + k,
           \A c \in CPU \ {t[1]} : noff'[c] = noff[c]
    PROVE  Counted'
<1> SUFFICES ASSUME NEW c \in CPU PROVE noff'[c] = Depth(Th(c))' + Depth(Hd(c))'
  BY DEF Counted, Th, Hd
<1> Th(c) \in Context /\ Hd(c) \in Context /\ Th(c) # Hd(c)
  BY ContextFacts
<1>1. CASE c = t[1]
  <2>1. t = Th(c) \/ t = Hd(c)
    BY <1>1, ContextFacts
  <2> QED
    BY <1>1, <2>1 DEF Counted, TypeOK
<1>2. CASE c # t[1]
  <2>1. t # Th(c) /\ t # Hd(c)
    BY <1>2, ContextFacts
  <2>2. noff'[c] = noff[c] /\ noff[c] = Depth(Th(c)) + Depth(Hd(c))
    BY <1>2 DEF Counted
  <2> QED
    BY <2>1, <2>2
<1> QED
  BY <1>1, <1>2




-----------------------------------------------------------------------------
(* What happens to noff, the interrupt flag and the locks held, action by   *)
(* action.                                                                  *)
LEMMA LocalStep ==
    ASSUME TypeOK, TypeOK', Local, NoPanic, Owned, Taken, Next
    PROVE  Local' /\ NoPanic'
<1> USE LockAssumption, ContextFacts DEF TypeOK, PC, At, Goto, Begun, Leaving
<1>1a. \A u \in Context : holds[u] \in SUBSET Lock /\ holds'[u] \in SUBSET Lock
  OBVIOUS
<1>a. /\ \A u \in Context : Depth(u) \in Nat
      /\ \A u \in Context : Depth(u)' \in Nat
  <2> SUFFICES ASSUME NEW u \in Context
               PROVE  Depth(u) \in Nat /\ Depth(u)' \in Nat
    OBVIOUS
  <2>1. Cardinality(holds[u]) \in Nat /\ Cardinality(holds'[u]) \in Nat
    BY <1>1a, LocksFinite
  <2> QED
    BY <2>1 DEF Depth
<1>b. \A c \in CPU : noff[c] = 0 <=>
          /\ holds[Th(c)] = {} /\ ~Begun(Th(c))
          /\ holds[Hd(c)] = {} /\ ~Begun(Hd(c))
  <2> SUFFICES ASSUME NEW c \in CPU
               PROVE  noff[c] = 0 <=>
                          /\ holds[Th(c)] = {} /\ ~Begun(Th(c))
                          /\ holds[Hd(c)] = {} /\ ~Begun(Hd(c))
    OBVIOUS
  <2>1. noff[c] = 0 <=> Depth(Th(c)) = 0 /\ Depth(Hd(c)) = 0
    BY <1>a DEF Local, Counted
  <2>2. ASSUME NEW u \in Context
        PROVE  Depth(u) = 0 <=> holds[u] = {} /\ ~Begun(u)
    <3>1. Cardinality(holds[u]) \in Nat
          /\ (Cardinality(holds[u]) = 0 <=> holds[u] = {})
      BY <1>1a, LocksFinite
    <3> QED
      BY <3>1 DEF Depth
  <2> QED
    BY <2>1, <2>2
<1>1. ASSUME NEW t \in Context, NEW l \in Lock, CallAcquire(t, l)
      PROVE  Local' /\ NoPanic'
  <2>1. NoPanic'
    BY <1>1 DEF CallAcquire, NoPanic
  <2>2. Counted'
    <3>1. \A u \in Context : Depth(u)' = Depth(u)
      BY <1>1 DEF CallAcquire, Depth
    <3> QED
      BY <3>1, <1>1 DEF CallAcquire, Local, Counted
  <2>3. Masked'
    BY <1>1 DEF CallAcquire, Local, Masked
  <2>4. Held'
    BY <1>1 DEF CallAcquire, Local, Held
  <2>5. Fresh'
    BY <1>1 DEF CallAcquire, Local, Fresh
  <2>6. InThread'
    BY <1>1 DEF CallAcquire, Local, InThread
  <2>7. InHandler'
    BY <1>1 DEF CallAcquire, Local, InHandler
  <2>8. Saved'
    BY <1>1 DEF CallAcquire, Local, Saved
  <2> QED
    BY <2>1, <2>2, <2>3, <2>4, <2>5, <2>6, <2>7, <2>8 DEF Local
<1>2. ASSUME NEW t \in Context, NEW l \in Lock, CallRelease(t, l)
      PROVE  Local' /\ NoPanic'
  <2>1. NoPanic'
    BY <1>2 DEF CallRelease, NoPanic
  <2>2. Counted'
    <3>1. \A u \in Context : Depth(u)' = Depth(u)
      BY <1>2 DEF CallRelease, Depth
    <3> QED
      BY <3>1, <1>2 DEF CallRelease, Local, Counted
  <2>3. Masked'
    BY <1>2 DEF CallRelease, Local, Masked
  <2>4. Held'
    BY <1>2 DEF CallRelease, Local, Held
  <2>5. Fresh'
    BY <1>2 DEF CallRelease, Local, Fresh
  <2>6. InThread'
    BY <1>2 DEF CallRelease, Local, InThread
  <2>7. InHandler'
    BY <1>2 DEF CallRelease, Local, InHandler
  <2>8. Saved'
    BY <1>2 DEF CallRelease, Local, Saved
  <2> QED
    BY <2>1, <2>2, <2>3, <2>4, <2>5, <2>6, <2>7, <2>8 DEF Local
<1>3. ASSUME NEW t \in Context, PushRead(t)
      PROVE  Local' /\ NoPanic'
  <2>1. NoPanic'
    BY <1>3 DEF PushRead, NoPanic
  <2>2. Counted'
    <3>1. \A u \in Context : Depth(u)' = Depth(u)
      BY <1>3 DEF PushRead, Depth
    <3> QED
      BY <3>1, <1>3 DEF PushRead, Local, Counted
  <2>3. Masked'
    BY <1>3 DEF PushRead, Local, Masked
  <2>4. Held'
    BY <1>3 DEF PushRead, Local, Held
  <2>5. Fresh'
    BY <1>3 DEF PushRead, Local, Fresh
  <2>6. InThread'
    BY <1>3 DEF PushRead, Local, InThread
  <2>7. InHandler'
    BY <1>3 DEF PushRead, Local, InHandler
  <2>8. Saved'
    <3>1. holds[t] = {} => (sie[t[1]] <=> t[2] = "thread")
      <4>1. CASE t[2] = "thread"
        <5>1. t = Th(t[1]) /\ run[t[1]] = "thread" /\ pc[t] = "push"
          BY <4>1, <1>3, ContextFacts DEF PushRead, At
        <5>2. /\ pc[Hd(t[1])] = "idle" /\ holds[Hd(t[1])] = {}
              /\ noff[t[1]] = 0 => sie[t[1]]
          BY <5>1, ContextFacts DEF Local, InThread
        <5>3. ~Begun(t) /\ ~Begun(Hd(t[1]))
          BY <5>1, <5>2 DEF Begun
        <5>4. holds[t] = {} => noff[t[1]] = 0
          <6> DEFINE c == t[1]
          <6>1. c \in CPU
            BY ContextFacts
          <6>2. noff[c] = 0 <=> /\ holds[Th(c)] = {} /\ ~Begun(Th(c))
                                /\ holds[Hd(c)] = {} /\ ~Begun(Hd(c))
            BY <6>1, <1>b
          <6>3. holds[t] = holds[Th(c)] /\ (Begun(t) <=> Begun(Th(c)))
            BY <5>1
          <6> QED
            BY <6>2, <6>3, <5>2, <5>3
        <5> QED
          BY <4>1, <5>2, <5>4
      <4>2. CASE t[2] = "handler"
        BY <4>2, <1>3 DEF PushRead, At, Local, InHandler
      <4> QED
        BY <4>1, <4>2 DEF Context
    <3> QED
      BY <3>1, <1>3 DEF PushRead, At, Goto, Local, Saved, TypeOK
  <2> QED
    BY <2>1, <2>2, <2>3, <2>4, <2>5, <2>6, <2>7, <2>8 DEF Local
<1>4. ASSUME NEW t \in Context, PushOff(t)
      PROVE  Local' /\ NoPanic'
  <2>1. NoPanic'
    BY <1>4 DEF PushOff, NoPanic
  <2>2. Counted'
    <3>1. \A u \in Context \ {t} : Depth(u)' = Depth(u)
      BY <1>4 DEF PushOff, Depth
    <3>3. Depth(t)' = Depth(t) + 1
      BY LocksFinite, <1>1a, <1>4 DEF PushOff, Depth
    <3> QED
      BY <1>a, <3>1, <3>3, <1>4, CountStep DEF PushOff, Local
  <2>3. Masked'
    BY <1>4 DEF PushOff, Local, Masked
  <2>4. Held'
    BY <1>4 DEF PushOff, Local, Held
  <2>5. Fresh'
    BY <1>4 DEF PushOff, Local, Fresh
  <2>6. InThread'
    BY <1>b, <1>4 DEF PushOff, SavedIntena, Local, InThread, Saved
  <2>7. InHandler'
    BY <1>b, <1>4 DEF PushOff, SavedIntena, Local, InHandler, Saved
  <2>8. Saved'
    BY <1>4 DEF PushOff, Local, Saved
  <2> QED
    BY <2>1, <2>2, <2>3, <2>4, <2>5, <2>6, <2>7, <2>8 DEF Local
<1>5. ASSUME NEW t \in Context, Check(t)
      PROVE  Local' /\ NoPanic'
  <2>1. NoPanic'
    <3>1. ASSUME Holding(t[1], arg[t]) PROVE FALSE
      <4>0. owner[arg[t]] = t[1] /\ owner[arg[t]] # NoCpu /\ arg[t] \in Lock
        BY <3>1 DEF Holding
      <4>1. PICK u \in Context : u[1] = t[1] /\ arg[t] \in holds[u]
        BY <4>0 DEF Owned
      <4>2. u # t
        BY <4>1, <1>5 DEF Check, Local, Fresh
      <4> QED
        BY <4>1, <4>2, <1>5 DEF Check, Local, InThread, InHandler
    <3> QED
      BY <3>1, <1>5 DEF Check, NoPanic
  <2>2. Counted'
    <3>1. \A u \in Context : Depth(u)' = Depth(u)
      BY <2>1, <1>5 DEF Check, Depth, NoPanic
    <3> QED
      BY <3>1, <1>5 DEF Check, Local, Counted
  <2>3. Masked'
    BY <1>5 DEF Check, Local, Masked
  <2>4. Held'
    BY <1>5 DEF Check, Local, Held
  <2>5. Fresh'
    BY <1>5 DEF Check, Local, Fresh
  <2>6. InThread'
    BY <1>5 DEF Check, Local, InThread
  <2>7. InHandler'
    BY <1>5 DEF Check, Local, InHandler
  <2>8. Saved'
    BY <1>5 DEF Check, Local, Saved
  <2> QED
    BY <2>1, <2>2, <2>3, <2>4, <2>5, <2>6, <2>7, <2>8 DEF Local
<1>6. ASSUME NEW t \in Context, TestAndSet(t)
      PROVE  Local' /\ NoPanic'
  <2>1. NoPanic'
    BY <1>6 DEF TestAndSet, NoPanic
  <2>2. Counted'
    <3>1. \A u \in Context : Depth(u)' = Depth(u)
      BY <1>6 DEF TestAndSet, Depth
    <3> QED
      BY <3>1, <1>6 DEF TestAndSet, Local, Counted
  <2>3. Masked'
    BY <1>6 DEF TestAndSet, Local, Masked
  <2>4. Held'
    BY <1>6 DEF TestAndSet, Local, Held
  <2>5. Fresh'
    BY <1>6 DEF TestAndSet, Local, Fresh
  <2>6. InThread'
    BY <1>6 DEF TestAndSet, Local, InThread
  <2>7. InHandler'
    BY <1>6 DEF TestAndSet, Local, InHandler
  <2>8. Saved'
    BY <1>6 DEF TestAndSet, Local, Saved
  <2> QED
    BY <2>1, <2>2, <2>3, <2>4, <2>5, <2>6, <2>7, <2>8 DEF Local
<1>7. ASSUME NEW t \in Context, SetCpu(t)
      PROVE  Local' /\ NoPanic'
  <2>1. NoPanic'
    BY <1>7 DEF SetCpu, NoPanic
  <2>2. Counted'
    <3>1. \A u \in Context \ {t} : Depth(u)' = Depth(u)
      BY <1>7 DEF SetCpu, Depth
    <3>2. Cardinality(holds[t] \cup {arg[t]}) = Cardinality(holds[t]) + 1
      BY LocksCount, <1>7 DEF SetCpu, Local, Fresh
    <3>3. Depth(t)' = Depth(t) + 0
      BY <3>2, <1>7 DEF SetCpu, Depth
    <3> QED
      BY <1>a, <3>1, <3>3, <1>7, CountStep DEF SetCpu, Local
  <2>3. Masked'
    BY <1>7 DEF SetCpu, Local, Masked
  <2>4. Held'
    BY <1>7 DEF SetCpu, Local, Held
  <2>5. Fresh'
    BY <1>7 DEF SetCpu, Local, Fresh
  <2>6. InThread'
    BY <1>7 DEF SetCpu, Local, InThread
  <2>7. InHandler'
    BY <1>7 DEF SetCpu, Local, InHandler
  <2>8. Saved'
    BY <1>7 DEF SetCpu, Local, Saved
  <2> QED
    BY <2>1, <2>2, <2>3, <2>4, <2>5, <2>6, <2>7, <2>8 DEF Local
<1>8. ASSUME NEW t \in Context, ReleaseCheck(t)
      PROVE  Local' /\ NoPanic'
  <2>1. NoPanic'
    <3>1. Holding(t[1], arg[t])
      BY <1>8 DEF ReleaseCheck, Holding, Owned, Taken, Inside, Local, Held
    <3> QED
      BY <3>1, <1>8 DEF ReleaseCheck, NoPanic
  <2>2. Counted'
    <3>1. \A u \in Context : Depth(u)' = Depth(u)
      BY <1>8 DEF ReleaseCheck, Depth
    <3> QED
      BY <3>1, <1>8 DEF ReleaseCheck, Local, Counted
  <2>3. Masked'
    BY <1>8 DEF ReleaseCheck, Local, Masked
  <2>4. Held'
    BY <1>8 DEF ReleaseCheck, Local, Held
  <2>5. Fresh'
    BY <1>8 DEF ReleaseCheck, Local, Fresh
  <2>6. InThread'
    BY <1>8 DEF ReleaseCheck, Local, InThread
  <2>7. InHandler'
    BY <1>8 DEF ReleaseCheck, Local, InHandler
  <2>8. Saved'
    BY <1>8 DEF ReleaseCheck, Local, Saved
  <2> QED
    BY <2>1, <2>2, <2>3, <2>4, <2>5, <2>6, <2>7, <2>8 DEF Local
<1>9. ASSUME NEW t \in Context, ClearCpu(t)
      PROVE  Local' /\ NoPanic'
  <2>1. NoPanic'
    BY <1>9 DEF ClearCpu, NoPanic
  <2>2. Counted'
    <3>1. \A u \in Context : Depth(u)' = Depth(u)
      BY <1>9 DEF ClearCpu, Depth
    <3> QED
      BY <3>1, <1>9 DEF ClearCpu, Local, Counted
  <2>3. Masked'
    BY <1>9 DEF ClearCpu, Local, Masked
  <2>4. Held'
    BY <1>9 DEF ClearCpu, Local, Held
  <2>5. Fresh'
    BY <1>9 DEF ClearCpu, Local, Fresh
  <2>6. InThread'
    BY <1>9 DEF ClearCpu, Local, InThread
  <2>7. InHandler'
    BY <1>9 DEF ClearCpu, Local, InHandler
  <2>8. Saved'
    BY <1>9 DEF ClearCpu, Local, Saved
  <2> QED
    BY <2>1, <2>2, <2>3, <2>4, <2>5, <2>6, <2>7, <2>8 DEF Local
<1>10. ASSUME NEW t \in Context, Unlock(t)
      PROVE  Local' /\ NoPanic'
  <2>1. NoPanic'
    BY <1>10 DEF Unlock, NoPanic
  <2>2. Counted'
    <3>1. \A u \in Context \ {t} : Depth(u)' = Depth(u)
      BY <1>10 DEF Unlock, Depth
    <3>2. Cardinality(holds[t] \ {arg[t]}) = Cardinality(holds[t]) - 1
      BY LocksCount, <1>10 DEF Unlock, Local, Held
    <3>3. Depth(t)' = Depth(t) + 0
      BY <3>2, LocksFinite, <1>10 DEF Unlock, Depth
    <3> QED
      BY <1>a, <3>1, <3>3, <1>10, CountStep DEF Unlock, Local
  <2>3. Masked'
    BY <1>10 DEF Unlock, Local, Masked, Held
  <2>4. Held'
    BY <1>10 DEF Unlock, Local, Held
  <2>5. Fresh'
    BY <1>10 DEF Unlock, Local, Fresh
  <2>6. InThread'
    BY <1>10 DEF Unlock, Local, InThread
  <2>7. InHandler'
    BY <1>10 DEF Unlock, Local, InHandler
  <2>8. Saved'
    BY <1>10 DEF Unlock, Local, Saved
  <2> QED
    BY <2>1, <2>2, <2>3, <2>4, <2>5, <2>6, <2>7, <2>8 DEF Local
<1>11. ASSUME NEW t \in Context, PopOff(t)
      PROVE  Local' /\ NoPanic'
  <2>a. ~sie[t[1]]
    BY <1>11 DEF PopOff, Local, Masked
  <2>b. noff[t[1]] # 0
    BY <1>b, <1>11 DEF PopOff
  <2>c. ~(noff[t[1]] < 1)
    BY <2>b
  <2>0. /\ pc[t] = "pop" /\ run[t[1]] = t[2]
        /\ noff' = [noff EXCEPT ![t[1]] = noff[t[1]] - 1]
        /\ sie' = IF noff[t[1]] = 1 /\ intena[t[1]]
                  THEN [sie EXCEPT ![t[1]] = TRUE] ELSE sie
        /\ pc' = [pc EXCEPT ![t] = "run"]
        /\ UNCHANGED <<locked, owner, intena, run, arg, old, holds>>
    BY <2>a, <2>c, <1>11 DEF PopOff, PopOne, LastPop
  <2>1. NoPanic'
    BY <2>0 DEF NoPanic
  <2>2. Counted'
    <3>1. \A u \in Context \ {t} : Depth(u)' = Depth(u)
      BY <2>0 DEF Depth
    <3>3. Depth(t)' = Depth(t) + (-1)
      BY LocksFinite, <1>1a, <2>0 DEF Depth
    <3> QED
      BY <1>a, <3>1, <3>3, <2>0, CountStep, -1 \in Int DEF Local
  <2>z. \A c \in CPU : noff'[c] = 0 <=>
            /\ holds'[Th(c)] = {} /\ ~Begun(Th(c))'
            /\ holds'[Hd(c)] = {} /\ ~Begun(Hd(c))'
    <3> SUFFICES ASSUME NEW c \in CPU
                 PROVE  noff'[c] = 0 <=>
                            /\ holds'[Th(c)] = {} /\ ~Begun(Th(c))'
                            /\ holds'[Hd(c)] = {} /\ ~Begun(Hd(c))'
      OBVIOUS
    <3>1. ASSUME NEW u \in Context
          PROVE  Depth(u)' = 0 <=> holds'[u] = {} /\ ~Begun(u)'
      <4>1. Cardinality(holds'[u]) \in Nat
            /\ (Cardinality(holds'[u]) = 0 <=> holds'[u] = {})
        BY <1>1a, LocksFinite
      <4> QED
        BY <4>1 DEF Depth
    <3>2. noff'[c] = Depth(Th(c))' + Depth(Hd(c))'
      BY <2>2 DEF Counted, Th, Hd
    <3>3. Depth(Th(c))' \in Nat /\ Depth(Hd(c))' \in Nat
      BY <1>a DEF Th, Hd
    <3>4. noff'[c] = 0 <=> Depth(Th(c))' = 0 /\ Depth(Hd(c))' = 0
      BY <3>2, <3>3
    <3> QED
      BY <3>1, <3>4 DEF Th, Hd
  <2>3. Masked'
    BY <2>z, <2>0 DEF Local, Masked
  <2>4. Held'
    BY <2>0 DEF Local, Held
  <2>5. Fresh'
    BY <2>0 DEF Local, Fresh
  <2>6. InThread'
    BY <2>0 DEF Local, InThread
  <2>7. InHandler'
    BY <2>0 DEF Local, InHandler
  <2>8. Saved'
    BY <2>0 DEF Local, Saved
  <2> QED
    BY <2>1, <2>2, <2>3, <2>4, <2>5, <2>6, <2>7, <2>8 DEF Local
<1>12. ASSUME NEW c \in CPU, Interrupt(c)
      PROVE  Local' /\ NoPanic'
  <2>1. NoPanic'
    BY <1>12 DEF Interrupt, NoPanic
  <2>2. Counted'
    <3>1. \A u \in Context : Depth(u)' = Depth(u)
      BY <1>12 DEF Interrupt, Depth, Local, InThread
    <3> QED
      BY <3>1, <1>12 DEF Interrupt, Local, Counted
  <2>3. Masked'
    BY <1>12 DEF Interrupt, Local, Masked
  <2>4. Held'
    BY <1>12 DEF Interrupt, Local, Held
  <2>5. Fresh'
    BY <1>12 DEF Interrupt, Local, Fresh
  <2>6. InThread'
    BY <1>12 DEF Interrupt, Local, InThread
  <2>7. InHandler'
    BY <1>b, <1>12 DEF Interrupt, Local, Masked, Held, Fresh, InThread, InHandler, NoPanic
  <2>8. Saved'
    BY <1>12 DEF Interrupt, Local, Saved
  <2> QED
    BY <2>1, <2>2, <2>3, <2>4, <2>5, <2>6, <2>7, <2>8 DEF Local
<1>13. ASSUME NEW c \in CPU, ReturnFromTrap(c)
      PROVE  Local' /\ NoPanic'
  <2>1. NoPanic'
    BY <1>13 DEF ReturnFromTrap, NoPanic
  <2>2. Counted'
    <3>1. \A u \in Context : Depth(u)' = Depth(u)
      BY <1>13 DEF ReturnFromTrap, Depth
    <3> QED
      BY <3>1, <1>13 DEF ReturnFromTrap, Local, Counted
  <2>3. Masked'
    <3>1. \A u \in Context : u[1] = c => holds[u] = {} /\ ~Begun(u)'
      BY <1>13 DEF ReturnFromTrap, Local, InHandler, Hd
    <3>2. \A u \in Context : u[1] # c => (Begun(u)' <=> Begun(u))
      BY <1>13 DEF ReturnFromTrap, Hd
    <3> QED
      BY <3>1, <1>13 DEF ReturnFromTrap, Local, Masked
  <2>4. Held'
    BY <1>13 DEF ReturnFromTrap, Local, Held
  <2>5. Fresh'
    BY <1>13 DEF ReturnFromTrap, Local, Fresh
  <2>6. InThread'
    BY <1>b, <2>1, <1>13 DEF ReturnFromTrap, Local, Counted, Masked, Held, Fresh, InThread, InHandler, Saved, NoPanic
  <2>7. InHandler'
    BY <1>13 DEF ReturnFromTrap, Local, InHandler
  <2>8. Saved'
    BY <1>13 DEF ReturnFromTrap, Local, Saved
  <2> QED
    BY <2>1, <2>2, <2>3, <2>4, <2>5, <2>6, <2>7, <2>8 DEF Local
<1> QED
  BY <1>1, <1>2, <1>3, <1>4, <1>5, <1>6, <1>7, <1>8, <1>9, <1>10, <1>11, <1>12, <1>13 DEF Next, Step

-----------------------------------------------------------------------------
(* Only the winning amoswap and the store that frees the lock change who is *)
(* inside.                                                                  *)
LEMMA TakeStep ==
    ASSUME TypeOK, Taken, NEW t \in Context, TestAndSet(t)
    PROVE  \A u \in Context, l \in Lock :
               /\ Inside(u, l)' <=> Inside(u, l) \/ (u = t /\ l = arg[t])
               /\ Inside(u, l) => l # arg[t]
  BY DEF TypeOK, PC, Taken, TestAndSet, FoundFree, At, Goto, Inside

LEMMA DropStep ==
    ASSUME TypeOK, Held, NEW t \in Context, Unlock(t)
    PROVE  /\ \A u \in Context, l \in Lock :
                   Inside(u, l)' <=> Inside(u, l) /\ ~(u = t /\ l = arg[t])
           /\ Inside(t, arg[t])
  BY DEF TypeOK, PC, Held, Leaving, Unlock, At, Goto, Inside

LEMMA InsideStep ==
    ASSUME TypeOK, InThread, NoPanic', Next
    PROVE  \/ \E t \in Context : TestAndSet(t) \/ Unlock(t)
           \/ /\ locked' = locked
              /\ \A t \in Context, l \in Lock : Inside(t, l)' <=> Inside(t, l)
<1> DEFINE Same == /\ locked' = locked
                   /\ \A t \in Context, l \in Lock : Inside(t, l)' <=> Inside(t, l)
<1> USE ContextFacts DEF TypeOK, PC, At, Goto, Inside
<1>1. ASSUME NEW t \in Context, NEW l \in Lock, CallAcquire(t, l) PROVE Same
  BY <1>1 DEF CallAcquire
<1>2. ASSUME NEW t \in Context, NEW l \in Lock, CallRelease(t, l) PROVE Same
  BY <1>2 DEF CallRelease
<1>3. ASSUME NEW t \in Context, PushRead(t) PROVE Same
  BY <1>3 DEF PushRead
<1>4. ASSUME NEW t \in Context, PushOff(t) PROVE Same
  BY <1>4 DEF PushOff
<1>5. ASSUME NEW t \in Context, Check(t) PROVE Same
  BY <1>5 DEF Check, NoPanic
<1>6. ASSUME NEW t \in Context, SetCpu(t) PROVE Same
  BY <1>6 DEF SetCpu
<1>7. ASSUME NEW t \in Context, ReleaseCheck(t) PROVE Same
  BY <1>7 DEF ReleaseCheck
<1>8. ASSUME NEW t \in Context, ClearCpu(t) PROVE Same
  BY <1>8 DEF ClearCpu
<1>9. ASSUME NEW t \in Context, PopOff(t) PROVE Same
  BY <1>9 DEF PopOff
<1>10. ASSUME NEW c \in CPU, Interrupt(c) PROVE Same
  BY <1>10 DEF Interrupt, Hd, InThread
<1>11. ASSUME NEW c \in CPU, ReturnFromTrap(c) PROVE Same
  BY <1>11 DEF ReturnFromTrap, Hd
<1> QED
  BY <1>1, <1>2, <1>3, <1>4, <1>5, <1>6, <1>7, <1>8, <1>9, <1>10, <1>11 DEF Next, Step

(* What lk->locked and lk->cpu say of who is inside.                        *)
LEMMA OwnStep ==
    ASSUME TypeOK, TypeOK', Local, NoPanic', Taken, Owned, MutualExclusion, Next
    PROVE  Taken' /\ Owned' /\ MutualExclusion'
<1>1. Taken' /\ MutualExclusion'
  <2>1. ASSUME NEW t \in Context, TestAndSet(t)
        PROVE  Taken' /\ MutualExclusion'
    <3>1. locked' = [locked EXCEPT ![arg[t]] = TRUE]
      BY <2>1 DEF TestAndSet
    <3> QED
      BY <2>1, <3>1, TakeStep DEF Taken, MutualExclusion, TypeOK
  <2>2. ASSUME NEW t \in Context, Unlock(t)
        PROVE  Taken' /\ MutualExclusion'
    <3>1. locked' = [locked EXCEPT ![arg[t]] = FALSE]
      BY <2>2 DEF Unlock
    <3> QED
      BY <2>2, <3>1, DropStep DEF Local, Taken, MutualExclusion
  <2>3. ASSUME locked' = locked,
               \A t \in Context, l \in Lock : Inside(t, l)' <=> Inside(t, l)
        PROVE  Taken' /\ MutualExclusion'
    BY <2>3 DEF Taken, MutualExclusion
  <2> QED
    BY <2>1, <2>2, <2>3, InsideStep DEF Local
<1>2. Owned'
  <2> USE LockAssumption, ContextFacts DEF TypeOK, PC, At, Goto, Owned
  <2>1. ASSUME NEW t \in Context, NEW l \in Lock, CallAcquire(t, l) PROVE Owned'
    BY <2>1 DEF CallAcquire
  <2>2. ASSUME NEW t \in Context, NEW l \in Lock, CallRelease(t, l) PROVE Owned'
    BY <2>2 DEF CallRelease
  <2>3. ASSUME NEW t \in Context, PushRead(t) PROVE Owned'
    BY <2>3 DEF PushRead
  <2>4. ASSUME NEW t \in Context, PushOff(t) PROVE Owned'
    BY <2>4 DEF PushOff
  <2>5. ASSUME NEW t \in Context, Check(t) PROVE Owned'
    BY <2>5 DEF Check
  <2>6. ASSUME NEW t \in Context, TestAndSet(t) PROVE Owned'
    BY <2>6 DEF TestAndSet
  <2>7. ASSUME NEW t \in Context, SetCpu(t) PROVE Owned'
    <3>1. \A u \in Context : arg[t] \notin holds[u]
      <4>1. Inside(t, arg[t]) /\ arg[t] \notin holds[t] /\ arg[t] \in Lock
        BY <2>7 DEF SetCpu, Inside, Local, Fresh
      <4> QED
        BY <4>1 DEF MutualExclusion, Inside
    <3>2. /\ pc[t] = "setcpu" /\ pc' = [pc EXCEPT ![t] = "run"]
          /\ owner' = [owner EXCEPT ![arg[t]] = t[1]]
          /\ holds' = [holds EXCEPT ![t] = @ \cup {arg[t]}]
          /\ arg' = arg
      BY <2>7 DEF SetCpu
    <3>3. ASSUME NEW u \in Context, NEW l \in holds'[u]
          PROVE  owner'[l] = u[1] \/ (pc'[u] = "unlock" /\ arg'[u] = l)
      BY <3>1, <3>2, <3>3
    <3>4. ASSUME NEW l \in Lock, owner'[l] # NoCpu
          PROVE  \E u \in Context : /\ u[1] = owner'[l] /\ l \in holds'[u]
                                    /\ ~(pc'[u] = "unlock" /\ arg'[u] = l)
      <4>1. CASE l = arg[t]
        BY <3>2, <4>1
      <4>2. CASE l # arg[t]
        BY <3>2, <3>4, <4>2
      <4> QED
        BY <4>1, <4>2
    <3> QED
      BY <3>3, <3>4
  <2>8. ASSUME NEW t \in Context, ReleaseCheck(t) PROVE Owned'
    BY <2>8 DEF ReleaseCheck
  <2>9. ASSUME NEW t \in Context, ClearCpu(t) PROVE Owned'
    BY <2>9 DEF ClearCpu, Cleared, MutualExclusion, Inside, Local, Held, Leaving
  <2>10. ASSUME NEW t \in Context, Unlock(t) PROVE Owned'
    <3>1. Inside(t, arg[t]) /\ arg[t] \in Lock /\ pc[t] = "unlock"
      BY <2>10, DropStep DEF Unlock, Local
    <3>2. ASSUME owner[arg[t]] # NoCpu PROVE FALSE
      <4>1. PICK u \in Context : /\ arg[t] \in holds[u]
                                /\ ~(pc[u] = "unlock" /\ arg[u] = arg[t])
        BY <3>1, <3>2
      <4> QED
        BY <3>1, <4>1 DEF MutualExclusion, Inside
    <3> QED
      BY <2>10, <3>2 DEF Unlock
  <2>11. ASSUME NEW t \in Context, PopOff(t) PROVE Owned'
    BY <2>11 DEF PopOff
  <2>12. ASSUME NEW c \in CPU, Interrupt(c) PROVE Owned'
    BY <2>12 DEF Interrupt, Hd, Local, InThread
  <2>13. ASSUME NEW c \in CPU, ReturnFromTrap(c) PROVE Owned'
    BY <2>13 DEF ReturnFromTrap, Hd
  <2> QED
    BY <2>1, <2>2, <2>3, <2>4, <2>5, <2>6, <2>7, <2>8, <2>9, <2>10, <2>11, <2>12, <2>13 DEF Next, Step
<1> QED
  BY <1>1, <1>2

-----------------------------------------------------------------------------
LEMMA Invariance == Spec => []IInv
<1>1. Init => IInv
  <2> SUFFICES ASSUME Init PROVE IInv
    OBVIOUS
  <2>1. TypeOK
    BY LockAssumption DEF Init, TypeOK, Context, PC
  <2>2. Counted
    <3>1. \A t \in Context : Depth(t) = 0
      BY FS_EmptySet DEF Init, Depth, Begun
    <3> QED
      BY <3>1, ContextFacts DEF Init, Counted
  <2>3. Masked /\ Held /\ Fresh /\ InHandler /\ Saved
    BY DEF Init, Masked, Held, Fresh, InHandler, Saved, Begun, Leaving
  <2>4. InThread
    BY ContextFacts DEF Init, InThread
  <2>5. NoPanic /\ Taken /\ Owned /\ MutualExclusion
    BY DEF Init, NoPanic, Taken, Owned, MutualExclusion, Inside
  <2> QED
    BY <2>1, <2>2, <2>3, <2>4, <2>5 DEF IInv, Local
<1>2. IInv /\ TypeOK' /\ [Next]_vars => IInv'
  <2>1. CASE Next
    BY <2>1, LocalStep, OwnStep DEF IInv
  <2>2. CASE UNCHANGED vars
    BY <2>2 DEF vars, IInv, TypeOK, NoPanic, Local, Counted, Depth, Begun,
                Masked, Held, Leaving, Fresh, InThread, InHandler, Saved,
                Taken, Inside, Owned, MutualExclusion
  <2> QED
    BY <2>1, <2>2
<1> QED
  BY <1>1, <1>2, TypeCorrect, PTL DEF Spec

(* acquire admits one context at a time, whatever the number of CPUs and    *)
(* however handlers interrupt.                                              *)
THEOREM MutexCorrect == Spec => []MutualExclusion
  BY Invariance, PTL DEF IInv

(* The panics of acquire, release and pop_off are unreachable.              *)
THEOREM PanicFree == Spec => []NoPanic
  BY Invariance, PTL DEF IInv

(* No interrupt is taken on a CPU whose code holds a lock.                  *)
THEOREM MaskedWhileHolding == Spec => []InterruptsOff
<1>1. IInv => InterruptsOff
  BY DEF IInv, Local, Masked, InterruptsOff, Inside, Begun
<1> QED
  BY <1>1, Invariance, PTL

(* The last release of a thread gives back the interrupt state its first    *)
(* acquire found.                                                           *)
THEOREM RestoreCorrect == Spec => []IntenaRestored
<1>1. IInv => IntenaRestored
  <2> SUFFICES ASSUME IInv, NEW c \in CPU, pc[Th(c)] = "run", run[c] = "thread"
               PROVE  sie[c] <=> holds[Th(c)] = {}
    BY DEF IntenaRestored, Th
  <2>1. holds[Th(c)] # {} => ~sie[c]
    BY ContextFacts DEF IInv, Local, Masked
  <2>2. ASSUME holds[Th(c)] = {} PROVE sie[c]
    <3>1. Depth(Th(c)) = 0 /\ Depth(Hd(c)) = 0
      BY <2>2, FS_EmptySet DEF IInv, Local, InThread, Depth, Begun
    <3> QED
      BY <3>1 DEF IInv, Local, Counted, InThread
  <2> QED
    BY <2>1, <2>2
<1> QED
  BY <1>1, Invariance, PTL

(* A user of the locks may reason as if each were taken and dropped in one  *)
(* step.                                                                    *)
THEOREM Refinement == Spec => Refines
<1> DEFINE H == [l \in Lock |-> {t \in Context : Inside(t, l)}]
<1>1. Init => Abstract!Init
  BY DEF Init, Abstract!Init, Inside
<1>2. IInv /\ IInv' /\ [Next]_vars => [Abstract!Next]_H
  <2> SUFFICES ASSUME IInv, IInv', [Next]_vars
               PROVE  [Abstract!Next]_H
    OBVIOUS
  <2>1. ASSUME NEW t \in Context, TestAndSet(t)
        PROVE  Abstract!Take(t, arg[t]) /\ arg[t] \in Lock
    <3>1. arg[t] \in Lock
      BY DEF IInv, TypeOK
    <3>3. H[arg[t]] = {}
      BY <2>1, <3>1, TakeStep DEF IInv
    <3>4. H' = [H EXCEPT ![arg[t]] = {t}]
      <4>1. ASSUME NEW l \in Lock
            PROVE  {u \in Context : Inside(u, l)'} =
                       IF l = arg[t] THEN {t} ELSE {u \in Context : Inside(u, l)}
        BY <2>1, <3>1, TakeStep DEF IInv
      <4> QED
        BY <4>1
    <3> QED
      BY <3>1, <3>3, <3>4 DEF Abstract!Take
  <2>2. ASSUME NEW t \in Context, Unlock(t)
        PROVE  Abstract!Drop(t, arg[t]) /\ arg[t] \in Lock
    <3>1. arg[t] \in Lock
      BY DEF IInv, TypeOK
    <3>3. H[arg[t]] = {t}
      BY <2>2, <3>1, DropStep DEF IInv, Local, MutualExclusion
    <3>4. H' = [H EXCEPT ![arg[t]] = {}]
      <4>1. ASSUME NEW l \in Lock
            PROVE  {u \in Context : Inside(u, l)'} =
                       IF l = arg[t] THEN {} ELSE {u \in Context : Inside(u, l)}
        BY <2>2, DropStep DEF IInv, Local, MutualExclusion
      <4> QED
        BY <4>1
    <3> QED
      BY <3>1, <3>3, <3>4 DEF Abstract!Drop
  <2>3. ASSUME \A t \in Context, l \in Lock : Inside(t, l)' <=> Inside(t, l)
        PROVE  H' = H
    BY <2>3
  <2>4. CASE Next
    BY <2>1, <2>2, <2>4, InsideStep DEF Abstract!Next, IInv, Local
  <2>5. CASE UNCHANGED vars
    BY <2>3, <2>5 DEF vars, Inside
  <2> QED
    BY <2>4, <2>5
<1> QED
  BY <1>1, <1>2, Invariance, PTL DEF Spec, Refines, Abstract!Spec
===============================================================================
