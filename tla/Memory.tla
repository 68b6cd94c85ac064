------------------------------- MODULE Memory --------------------------------
(***************************************************************************)
(* User memory: the page allocator (kalloc.c), page tables (vm.c), and the *)
(* calls that build them up and tear them down: fork, exec, sbrk, exit and *)
(* wait (proc.c, exec.c, sysproc.c).                                       *)
(*                                                                         *)
(* A physical page is counted, not named: what matters is that each page   *)
(* taken from the free list is held in one place and comes back once.      *)
(* A page table is the set of its own pages (nodes) and the protection of  *)
(* each page it maps (leaf); it has the three levels of Sv39 with Fan      *)
(* entries a page.  Sizes are in units, Unit of them to a page.            *)
(*                                                                         *)
(* A step is one call of kalloc, so that processes compete for the last    *)
(* pages at every point where the code can find none left; the pages that  *)
(* a call gives back together come back in one step.                       *)
(***************************************************************************)
EXTENDS Integers, Sequences, FiniteSetsExt, Functions

CONSTANTS Slots,      \* the process table, 1 .. NPROC
          NPages,     \* pages on the free list after kinit and the boot
          Fan,        \* entries of a page-table page (512)
          Unit,       \* units of size to a page (PGSIZE)
          Wrap,       \* sizes are modulo this (2^64)
          Deltas,     \* the arguments of sbrk
          Programs    \* what exec is called with: [args, segs], the number of arguments
                      \* and the segments of the program: [va (a page), end (units)]

MemoryConstants ==
    /\ Fan \in Nat \ {0, 1} /\ Unit \in Nat \ {0} /\ NPages \in Nat /\ 1 \in Slots
    /\ Slots \subseteq Nat /\ Wrap > Fan * Fan * Fan * Unit

VARIABLES free,       \* kmem.freelist: how many pages it has
          state,      \* p->state
          sz,         \* p->sz
          trapframe,  \* does the slot hold a trapframe page
          tab,        \* tab[<<p, "own">>] is p->pagetable, <<p, "new">> exec's
          job,        \* the call that p is in and how far it is
          panicked

vars == <<free, state, sz, trapframe, tab, job, panicked>>

First      == 1
Trampoline == Fan * Fan * Fan - 1
Trapframe  == Trampoline - 1
Kernel     == {Trampoline, Trapframe}
NoTable    == [nodes |-> {}, leaf |-> <<>>]
Idle       == [call |-> "none"]

-----------------------------------------------------------------------------
(* Page tables. *)

\* PGROUNDUP, as a number of pages.
Up(x) == (x + Unit - 1) \div Unit

Below(x) == 0 .. Up(x) - 1

\* walk: the pages of the table on the way to page v.
Path(v) == {<<1, v \div (Fan * Fan)>>, <<0, v \div Fan>>}

Walked(t, v) == Path(v) \subseteq t.nodes

\* walk allocates from the root down.
NextNode(t, v) == IF <<1, v \div (Fan * Fan)>> \in t.nodes
                  THEN <<0, v \div Fan>> ELSE <<1, v \div (Fan * Fan)>>

\* mappages for one page
Mapped(t, v, perm) ==
    [t EXCEPT !.leaf = [w \in DOMAIN t.leaf \cup {v} |-> IF w = v THEN perm ELSE t.leaf[w]]]

\* uvmunmap
Unmapped(t, pages) == [t EXCEPT !.leaf = Restrict(@, DOMAIN @ \ pages)]

\* proc_freepagetable: how many pages it gives back, and whether
\* it panics because a page to unmap is not there, or freewalk
\* because one is left.
Released(t, size) == Cardinality(Below(size)) + Cardinality(t.nodes)

BadRelease(t, size) == DOMAIN t.leaf # Kernel \cup Below(size)

-----------------------------------------------------------------------------
(* The state after userinit. *)

FirstTable == [nodes |-> {<<2, 0>>} \cup UNION {Path(v) : v \in Kernel \cup {0}},
               leaf  |-> [v \in Kernel \cup {0} |-> IF v = 0 THEN "user" ELSE "kernel"]]

Init ==
    /\ free = NPages - Cardinality(FirstTable.nodes) - 2
    /\ state = [p \in Slots |-> IF p = First THEN "RUNNABLE" ELSE "UNUSED"]
    /\ sz = [p \in Slots |-> IF p = First THEN Unit ELSE 0]
    /\ trapframe = [p \in Slots |-> p = First]
    /\ tab = [x \in Slots \X {"own", "new"} |-> IF x = <<First, "own">> THEN FirstTable ELSE NoTable]
    /\ job = [p \in Slots |-> Idle]
    /\ panicked = FALSE

Ready(p) == state[p] = "RUNNABLE" /\ job[p] = Idle

PanicIf(c) == panicked' = (panicked \/ c)

-----------------------------------------------------------------------------
(* The calls begin. *)

\* allocproc takes the first free slot.
Fork(p, q) ==
    /\ Ready(p) /\ state[q] = "UNUSED"
    /\ \A r \in Slots : r < q => state[r] # "UNUSED"
    /\ state' = [state EXCEPT ![q] = "USED"]
    /\ job' = [job EXCEPT ![p] = [call |-> "fork", stage |-> "trapframe", child |-> q,
                  tab |-> <<q, "own">>, size |-> 0, to |-> sz[p], a |-> 0, mem |-> FALSE, args |-> 0, segs |-> <<>>]]
    /\ UNCHANGED <<free, sz, trapframe, tab, panicked>>

\* sys_exec: to is the number of arguments to copy to a page each.
Exec(p, prog) ==
    /\ Ready(p)
    /\ job' = [job EXCEPT ![p] = [call |-> "exec", stage |-> "args", child |-> p, tab |-> <<p, "new">>,
                  size |-> 0, to |-> prog.args, a |-> 0, mem |-> FALSE, args |-> 0, segs |-> prog.segs]]
    /\ UNCHANGED <<free, state, sz, trapframe, tab, panicked>>

\* Mutant: the new size is computed with a sign.
SignedSize(p, n) == sz[p] + n

\* growproc: sz + n is unsigned, so a large negative n makes it large.
NewSize(p, n) == (sz[p] + n) % Wrap

SbrkGrow(p, n) ==
    /\ Ready(p) /\ n > 0 /\ Up(sz[p] + n) <= Trapframe
    /\ job' = [job EXCEPT ![p] = [call |-> "sbrk", stage |-> "grow", child |-> p, tab |-> <<p, "own">>,
                  size |-> sz[p], to |-> NewSize(p, n), a |-> Up(sz[p]), mem |-> FALSE,
                  args |-> 0, segs |-> <<>>]]
    /\ UNCHANGED <<free, state, sz, trapframe, tab, panicked>>

\* uvmdealloc from oldsz to newsz: the pages it unmaps and frees.
Dealloc(oldsz, newsz) == IF newsz >= oldsz THEN {} ELSE Below(oldsz) \ Below(newsz)

SbrkShrink(p, n) ==
    LET newsz == NewSize(p, n)
        gone  == Dealloc(sz[p], newsz)
    IN  /\ Ready(p) /\ n < 0
        /\ free' = free + Cardinality(gone)
        /\ tab' = [tab EXCEPT ![<<p, "own">>] = Unmapped(@, gone)]
        /\ sz' = [sz EXCEPT ![p] = IF newsz >= sz[p] THEN sz[p] ELSE newsz]
        /\ PanicIf(~ (gone \subseteq DOMAIN tab[<<p, "own">>].leaf))
        /\ UNCHANGED <<state, trapframe, job>>

Exit(p) == /\ Ready(p) /\ p # First
           /\ state' = [state EXCEPT ![p] = "ZOMBIE"]
           /\ UNCHANGED <<free, sz, trapframe, tab, job, panicked>>

\* wait: freeproc of a zombie (who waits for whom is Proc's).
Wait(q) ==
    /\ state[q] = "ZOMBIE"
    /\ free' = free + 1 + Released(tab[<<q, "own">>], sz[q])
    /\ PanicIf(BadRelease(tab[<<q, "own">>], sz[q]))
    /\ state' = [state EXCEPT ![q] = "UNUSED"]
    /\ sz' = [sz EXCEPT ![q] = 0]
    /\ trapframe' = [trapframe EXCEPT ![q] = FALSE]
    /\ tab' = [tab EXCEPT ![<<q, "own">>] = NoTable]
    /\ UNCHANGED job

-----------------------------------------------------------------------------
(* The loops of uvmalloc and uvmcopy, and proc_pagetable before them. *)

Table(p)  == tab[job[p].tab]
Stage(p)  == IF job[p] = Idle THEN "none" ELSE job[p].stage
Making(p) == Stage(p) = "pagetable"
Looping(p) == Stage(p) \in {"copy", "grow", "stack"} /\ job[p].a * Unit < job[p].to
LoopOver(p, stages) == Stage(p) \in stages /\ ~ Looping(p)

\* What the next call of kalloc is for.
WantsFrame(p) == Stage(p) = "trapframe"
WantsArg(p)   == Stage(p) = "args" /\ job[p].args < job[p].to
WantsRoot(p)  == Making(p) /\ Table(p) = NoTable
WantsPage(p)  == Looping(p) /\ ~ job[p].mem
Walking(p)    == (Making(p) /\ Table(p) # NoTable) \/ (Looping(p) /\ job[p].mem)
WantsNode(p)  == Walking(p) /\ ~ Walked(Table(p), job[p].a)

Kalloc == free > 0 /\ free' = free - 1

AllocTrapframe(p) ==
    /\ WantsFrame(p) /\ Kalloc
    /\ trapframe' = [trapframe EXCEPT ![job[p].child] = TRUE]
    /\ job' = [job EXCEPT ![p].stage = "pagetable", ![p].a = Trampoline]
    /\ UNCHANGED <<state, sz, tab, panicked>>

\* fetchstr of an argument to its page.
AllocArg(p) ==
    /\ WantsArg(p) /\ Kalloc
    /\ job' = [job EXCEPT ![p].args = @ + 1]
    /\ UNCHANGED <<state, sz, trapframe, tab, panicked>>

\* uvmcreate
AllocRoot(p) ==
    /\ WantsRoot(p) /\ Kalloc
    /\ tab' = [tab EXCEPT ![job[p].tab] = [nodes |-> {<<2, 0>>}, leaf |-> <<>>]]
    /\ UNCHANGED <<state, sz, trapframe, job, panicked>>

AllocPage(p) ==
    /\ WantsPage(p) /\ Kalloc
    /\ job' = [job EXCEPT ![p].mem = TRUE]
    /\ UNCHANGED <<state, sz, trapframe, tab, panicked>>

AllocNode(p) ==
    /\ WantsNode(p) /\ Kalloc
    /\ tab' = [tab EXCEPT ![job[p].tab].nodes = @ \cup {NextNode(Table(p), job[p].a)}]
    /\ UNCHANGED <<state, sz, trapframe, job, panicked>>

\* The protection of the page: uvmcopy takes the parent's.
Parents(p) == tab[<<p, "own">>].leaf
Perm(p) == IF Making(p) THEN "kernel"
           ELSE IF Stage(p) = "copy" /\ job[p].a \in DOMAIN Parents(p) THEN Parents(p)[job[p].a]
           ELSE "user"

\* proc_pagetable maps two pages and is done.
AfterMap(j) ==
    IF j.stage # "pagetable" THEN [j EXCEPT !.a = @ + 1, !.mem = FALSE]
    ELSE IF j.a = Trampoline THEN [j EXCEPT !.a = Trapframe]
    ELSE [j EXCEPT !.a = 0, !.stage = IF j.call = "fork" THEN "copy" ELSE "segment"]

MapPage(p) ==
    /\ Walking(p) /\ Walked(Table(p), job[p].a)
    /\ tab' = [tab EXCEPT ![job[p].tab] = Mapped(@, job[p].a, Perm(p))]
    /\ job' = [job EXCEPT ![p] = AfterMap(@)]
    /\ PanicIf(\/ job[p].a \in DOMAIN Table(p).leaf
               \/ Stage(p) = "copy" /\ job[p].a \notin DOMAIN Parents(p))
    /\ UNCHANGED <<free, state, sz, trapframe>>

-----------------------------------------------------------------------------
(* Error paths. *)

\* Mutant: the page in hand is forgotten.
HeldNothing(j) == 0

Held(j) == IF j.mem THEN 1 ELSE 0

\* The pages that the loop has mapped so far: what uvmalloc gives back
\* with uvmdealloc, uvmcopy at err, and proc_pagetable by hand.
Done(j) == IF j.stage = "args" THEN {}
           ELSE IF j.stage = "pagetable" THEN Kernel \ (0 .. j.a)
           ELSE IF j.stage = "copy" THEN 0 .. j.a - 1
           ELSE Up(j.size) .. j.a - 1

\* The pages of user memory among them are freed; and sys_exec frees the
\* arguments whatever exec returns.
FreedPages(j) == Cardinality(Done(j) \ Kernel) + Held(j) + j.args

\* What is left of a new table is given back by freewalk alone while
\* proc_pagetable is at work, with proc_freepagetable afterwards.
Rest(j) == IF j.stage \in {"args", "pagetable"} THEN Cardinality(tab[j.tab].nodes)
           ELSE Released(tab[j.tab], j.size)

BadRest(j) == LET left == Unmapped(tab[j.tab], Done(j))
              IN  IF j.stage \in {"args", "pagetable"} THEN DOMAIN left.leaf # {} ELSE BadRelease(left, j.size)

SbrkFails(p) ==
    LET j == job[p] IN
    /\ j.call = "sbrk"
    /\ free' = free + FreedPages(j)
    /\ tab' = [tab EXCEPT ![j.tab] = Unmapped(@, Done(j))]
    /\ PanicIf(~ (Done(j) \subseteq DOMAIN tab[j.tab].leaf))
    /\ UNCHANGED <<state, trapframe>>

\* freeproc of the child; its sz is still 0.
ForkFails(p) ==
    LET j == job[p] IN
    /\ j.call = "fork"
    /\ free' = free + IF j.stage = "trapframe" THEN 0 ELSE FreedPages(j) + Rest(j) + 1
    /\ PanicIf(j.stage # "trapframe" /\ BadRest(j))
    /\ tab' = [tab EXCEPT ![j.tab] = NoTable]
    /\ state' = [state EXCEPT ![j.child] = "UNUSED"]
    /\ trapframe' = [trapframe EXCEPT ![j.child] = FALSE]

ExecFails(p) ==
    LET j == job[p] IN
    /\ j.call = "exec"
    /\ free' = free + FreedPages(j) + Rest(j)
    /\ PanicIf(BadRest(j))
    /\ tab' = [tab EXCEPT ![j.tab] = NoTable]
    /\ UNCHANGED <<state, trapframe>>

\* kalloc returns 0.
OutOfMemory(p) ==
    /\ free = 0
    /\ WantsFrame(p) \/ WantsArg(p) \/ WantsRoot(p) \/ WantsPage(p) \/ WantsNode(p)
    /\ SbrkFails(p) \/ ForkFails(p) \/ ExecFails(p)
    /\ job' = [job EXCEPT ![p] = Idle]
    /\ UNCHANGED sz

-----------------------------------------------------------------------------
(* The calls end. *)

SbrkDone(p) ==
    /\ LoopOver(p, {"grow"}) /\ job[p].call = "sbrk"
    /\ sz' = [sz EXCEPT ![p] = job[p].to]
    /\ job' = [job EXCEPT ![p] = Idle]
    /\ UNCHANGED <<free, state, trapframe, tab, panicked>>

ForkDone(p) ==
    /\ LoopOver(p, {"copy"})
    /\ sz' = [sz EXCEPT ![job[p].child] = sz[p]]
    /\ state' = [state EXCEPT ![job[p].child] = "RUNNABLE"]
    /\ job' = [job EXCEPT ![p] = Idle]
    /\ UNCHANGED <<free, trapframe, tab, panicked>>

\* exec goes to bad with pages of size `size' in the new table.
Bad(p, size) ==
    LET t == tab[<<p, "new">>] IN
    /\ free' = free + Released(t, size) + job[p].args
    /\ PanicIf(BadRelease(t, size))
    /\ tab' = [tab EXCEPT ![<<p, "new">>] = NoTable]
    /\ job' = [job EXCEPT ![p] = Idle]
    /\ UNCHANGED <<state, sz, trapframe>>

ArgsDone(p) ==
    /\ Stage(p) = "args" /\ ~ WantsArg(p)
    /\ job' = [job EXCEPT ![p].stage = "pagetable", ![p].to = 0, ![p].a = Trampoline]
    /\ UNCHANGED <<free, state, sz, trapframe, tab, panicked>>

\* fetchaddr or fetchstr fails: bad of sys_exec.
ArgFault(p) ==
    /\ Stage(p) = "args" /\ job[p].args > 0
    /\ free' = free + job[p].args
    /\ job' = [job EXCEPT ![p] = Idle]
    /\ UNCHANGED <<state, sz, trapframe, tab, panicked>>

\* uvmalloc from size to end: nothing to do if end is below it, but 0,
\* which stands for failure, if both are 0.
StartLoop(p, stage, from, to) ==
    /\ job' = [job EXCEPT ![p].stage = stage, ![p].size = from, ![p].to = to, ![p].a = Up(from)]
    /\ UNCHANGED <<free, state, sz, trapframe, tab, panicked>>

LargerOf(a, b) == IF a < b THEN b ELSE a

Segment(p) ==
    /\ Stage(p) = "segment" /\ job[p].segs # <<>>
    /\ LET to == LargerOf(job[p].size, Head(job[p].segs).end)
       IN  IF to = 0 THEN Bad(p, 0) ELSE StartLoop(p, "grow", job[p].size, to)

\* loadseg: the file may be too short; each page must be there.
LoadSeg(p) ==
    /\ LoopOver(p, {"grow"}) /\ job[p].call = "exec"
    /\ \/ Bad(p, job[p].to)
       \/ /\ job' = [job EXCEPT ![p].stage = "segment", ![p].size = job[p].to, ![p].segs = Tail(@)]
          /\ PanicIf(LET s == Head(job[p].segs)
                     IN  ~ (s.va .. Up(s.end) - 1 \subseteq DOMAIN tab[<<p, "new">>].leaf))
          /\ UNCHANGED <<free, state, sz, trapframe, tab>>

Stack(p) ==
    /\ Stage(p) = "segment" /\ job[p].segs = <<>>
    /\ LET base == Up(job[p].size) * Unit IN StartLoop(p, "stack", base, base + 2 * Unit)

\* uvmclear of the guard page; then the arguments may not fit, or exec
\* commits to the new table and frees the old one with the old size.
ExecEnds(p) ==
    /\ LoopOver(p, {"stack"})
    /\ \/ Bad(p, job[p].to)
       \/ LET old == tab[<<p, "own">>]
              new == Mapped(tab[<<p, "new">>], Up(job[p].to) - 2, "guard")
          IN  /\ free' = free + Released(old, sz[p]) + job[p].args
              /\ PanicIf(BadRelease(old, sz[p]))
              /\ tab' = [tab EXCEPT ![<<p, "own">>] = new, ![<<p, "new">>] = NoTable]
              /\ sz' = [sz EXCEPT ![p] = job[p].to]
              /\ job' = [job EXCEPT ![p] = Idle]
              /\ UNCHANGED <<state, trapframe>>

-----------------------------------------------------------------------------
Next ==
    \E p \in Slots :
        \/ \E q \in Slots : Fork(p, q)
        \/ \E prog \in Programs : Exec(p, prog)
        \/ \E n \in Deltas : SbrkGrow(p, n) \/ SbrkShrink(p, n)
        \/ Exit(p) \/ Wait(p)
        \/ AllocTrapframe(p) \/ AllocArg(p) \/ AllocRoot(p) \/ AllocPage(p) \/ AllocNode(p) \/ MapPage(p)
        \/ OutOfMemory(p)
        \/ SbrkDone(p) \/ ForkDone(p)
        \/ ArgsDone(p) \/ ArgFault(p) \/ Segment(p) \/ LoadSeg(p) \/ Stack(p) \/ ExecEnds(p)

Spec == Init /\ [][Next]_vars

-----------------------------------------------------------------------------
(* Copies between user memory and the kernel, page by page: a function of  *)
(* the page table and of an address and a length in units.                 *)

\* walkaddr: only pages a user may touch.
Walkaddr(t, v) == v \in DOMAIN t.leaf /\ t.leaf[v] = "user"

\* The part of a copy that lies in the first page.
InPage(va, len) == LET n == Unit - (va % Unit) IN IF n > len THEN len ELSE n

\* copyin, copyout: the units copied, and whether all were.
Copy(t, va0, len0) ==
    LET copy[va \in Nat, len \in 0 .. len0] ==
            IF len = 0 THEN [ok |-> TRUE, units |-> {}]
            ELSE IF ~ Walkaddr(t, va \div Unit) THEN [ok |-> FALSE, units |-> {}]
            ELSE LET n    == InPage(va, len)
                     rest == copy[(va \div Unit + 1) * Unit, len - n]
                 IN  [rest EXCEPT !.units = @ \cup (va .. va + n - 1)]
    IN  copy[va0, len0]

\* copyinstr of a string that ends at nul: does it succeed, and which
\* units has it copied (the nul included)?
CopyStr(t, va0, max0, nul) ==
    LET copy[va \in Nat, max \in 0 .. max0] ==
            IF max = 0 \/ ~ Walkaddr(t, va \div Unit) THEN [ok |-> FALSE, units |-> {}]
            ELSE LET n == InPage(va, max)
                 IN  IF nul \in va .. va + n - 1 THEN [ok |-> TRUE, units |-> va .. nul]
                     ELSE LET rest == copy[(va \div Unit + 1) * Unit, max - n]
                          IN  [rest EXCEPT !.units = @ \cup (va .. va + n - 1)]
    IN  copy[va0, max0]

-----------------------------------------------------------------------------
(* Properties. *)

\* Every page is in one place: on the free list, a page of a table, a page of
\* user memory in a table, a trapframe, an argument of exec, or in the hands of a
\* loop that has not mapped it yet.  No error path of fork, exec or sbrk loses one or frees one
\* twice.
Conserved ==
    LET frames(x) == Cardinality(tab[x].nodes) + Cardinality(DOMAIN tab[x].leaf \ Kernel)
    IN  NPages = free + MapThenSumSet(frames, DOMAIN tab)
                 + Cardinality({p \in Slots : trapframe[p]})
                 + MapThenSumSet(LAMBDA p : job[p].args + Held(job[p]), {p \in Slots : job[p] # Idle})

\* The panics of mappages (remap), uvmunmap (not mapped), uvmcopy (page not
\* present), freewalk (leaf) and loadseg are unreachable: each call leaves
\* the table with the pages below p->sz and no other, which is what the next
\* one counts on.
NoPanic == ~ panicked

\* Fork, exec, sbrk and wait change user memory at once or not at all,
\* whatever runs out of memory in between.
Space == [p \in Slots |->
    IF state[p] \in {"RUNNABLE", "ZOMBIE"}
    THEN [sz |-> sz[p],
          prot |-> Restrict(tab[<<p, "own">>].leaf, Below(sz[p]) \cap DOMAIN tab[<<p, "own">>].leaf)]
    ELSE [sz |-> -1, prot |-> <<>>]]

Spaces == INSTANCE AddressSpaces WITH space <- Space

Refines == Spaces!Spec

\* A copy between kernel and user memory touches the bytes from va on, up to
\* its length or to the first page that the user may not touch, and succeeds
\* if that is all of them; a string is copied up to its end, if that comes
\* within max bytes and before such a page.  Looked at when nothing else
\* goes on: the copy depends on the table alone.
CopyExact ==
    (\A p \in Slots : (p # First => state[p] = "UNUSED") /\ job[p] = Idle) =>
        LET t == tab[<<First, "own">>]
            Good(u) == Walkaddr(t, u \div Unit)
            Run(va, len) == {u \in va .. va + len - 1 : \A w \in va .. u : Good(w)}
            Addresses == 0 .. (Trapframe + 1) * Unit
        IN  \A va \in Addresses : \A len \in 0 .. 2 * Unit + 1 :
            /\ Copy(t, va, len) = [ok |-> \A u \in va .. va + len - 1 : Good(u), units |-> Run(va, len)]
            /\ \A nul \in va .. va + len :
                  CopyStr(t, va, len, nul) =
                      [ok |-> nul \in Run(va, len), units |-> Run(va, len) \cap (va .. nul)]
==============================================================================
