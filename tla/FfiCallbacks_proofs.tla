-------------------------- MODULE FfiCallbacks_proofs --------------------------
(***************************************************************************)
(* Proofs about FFI callbacks, for every number of threads, slots,         *)
(* closures and runtimes: the runtime of an invocation is open, and every  *)
(* closure has the references that it is used by.                          *)
(***************************************************************************)
EXTENDS FfiCallbacks, SetLemmas

ScriptLabels == {"idle", "alloc", "ensure", "install", "set", "count", "undo",
                 "return", "free", "uncount", "shutdown", "close"}
NativeLabels == {"idle", "retain", "enter", "refused", "run", "drop", "leave", "shutdown", "close"}

\* Where a call holds a closure, a slot, a runtime.
WithObj  == {"alloc", "ensure", "install", "set", "count", "undo", "return",
             "enter", "refused", "run", "drop"}
WithSlot == {"ensure", "install", "set", "count", "undo", "free", "uncount", "retain"}
WithRt   == {"run", "leave", "close"}

Labels ==
  /\ pc \in [Threads -> ScriptLabels \union NativeLabels]
  /\ \A t \in Scripts : pc[t] \in ScriptLabels
  /\ \A n \in Natives : pc[n] \in NativeLabels

Locals ==
  /\ obj \in [Threads -> Closures \union {None}]
  /\ slot \in [Threads -> Slots \union {None}]
  /\ rt \in [Threads -> Runtimes \union {None}]
  /\ \A t \in Threads :
       /\ obj[t] # None <=> pc[t] \in WithObj
       /\ slot[t] # None <=> pc[t] \in WithSlot
       /\ rt[t] # None <=> pc[t] \in WithRt

CountsType ==
  /\ rc \in [Closures -> Int] /\ lost \in BOOLEAN
  /\ half \in {NoLoad} \union [by : Threads, obj : Closures, read : Int]

Table ==
  /\ used \in [Slots -> BOOLEAN]
  /\ closure \in [Slots -> Closures \union {None}]
  /\ dispatch \in BOOLEAN /\ disturbed \in BOOLEAN
  /\ held \in [Scripts -> SUBSET Closures]
  /\ CountsType

\* An invocation that runs is counted and has the current runtime; a thread
\* that closes a runtime has taken it from there.
Active == {n \in Natives : pc[n] \in {"run", "leave"}}

RuntimeInv ==
  /\ current \in Runtimes \union {None} /\ open \subseteq Runtimes
  /\ registered \in Nat
  /\ active = Cardinality(Active)
  /\ current # None => current \in open
  /\ \A n \in Active : rt[n] = current
  /\ \A t \in Threads : pc[t] = "close" => rt[t] \in open /\ rt[t] # current
  /\ \A t, u \in Threads : pc[t] = "close" /\ pc[u] = "close" /\ rt[t] = rt[u] => t = u

\* A registration that has not been disturbed owns a slot, which has no
\* closure before it is set.
Owns == {"ensure", "install", "set", "count", "undo"}

SlotInv ==
  ~ disturbed =>
    /\ \A s \in Slots : ~ used[s] => closure[s] = None
    /\ \A t \in Scripts : pc[t] \in Owns => used[slot[t]] /\ (closure[slot[t]] # None <=> pc[t] = "count")
    /\ \A t, u \in Scripts : pc[t] \in Owns /\ pc[u] \in Owns /\ slot[t] = slot[u] => t = u
    /\ \A t \in Scripts : Registering(t) => current # None

IInv ==
  /\ Labels /\ Locals /\ Table
  /\ RuntimeInv
  /\ ClosureCountsExact
  /\ SlotInv
  /\ RegisteredCanRun
------------------------------------------------------------------------------
(***************************************************************************)
(* What a step of one thread leaves alone.                                 *)
(***************************************************************************)

\* The threads are finitely many, and None is nothing else.
LEMMA Constants ==
  /\ Threads = Scripts \union Natives /\ Scripts \intersect Natives = {}
  /\ IsFiniteSet(Scripts) /\ IsFiniteSet(Natives) /\ IsFiniteSet(Threads)
  /\ IsFiniteSet(Slots) /\ Slots \subseteq Nat
  /\ None \notin Slots /\ None \notin Closures /\ None \notin Runtimes
  BY FfiAssumption, FS_Union DEF Threads

\* A thread that takes no runtime and gives none back.
LEMMA KeepRuntime ==
  ASSUME RuntimeInv, NEW t \in Threads, NEW l,
         pc \in [Threads -> ScriptLabels \union NativeLabels],
         pc[t] \notin WithRt, l \notin WithRt, Goto(t, l),
         UNCHANGED <<rt, current, active, open>>, registered' \in Nat
  PROVE  RuntimeInv'
<1>1. \A u \in Threads : pc[u] \in WithRt \/ pc'[u] \in WithRt => pc'[u] = pc[u]
  BY DEF Goto
<1>2. Active' = Active
  BY <1>1, Constants DEF Active, WithRt
<1> QED
  BY <1>1, <1>2 DEF RuntimeInv, WithRt

\* The users of a closure, counted.
BySlots(k) == Cardinality(Places(Slots, closure, k))
ByCalls(k) == Cardinality(Places(Threads, obj, k))
Holders(k) == {t \in Scripts : k \in held[t]}
ByScripts(k) == Cardinality(Holders(k))

LEMMA CountsMean ==
  /\ ClosureCountsExact <=>
       (~lost => \A k \in Closures : rc[k] = BySlots(k) + ByCalls(k) + ByScripts(k))
  /\ ClosureCountsExact' <=>
       (~lost' => \A k \in Closures : rc'[k] = BySlots(k)' + ByCalls(k)' + ByScripts(k)')
  BY DEF ClosureCountsExact, BySlots, ByCalls, ByScripts, Holders, Places

LEMMA SlotsCounted ==
  ASSUME NEW k
  PROVE  BySlots(k) \in Nat
<1>1. Places(Slots, closure, k) \in SUBSET Slots
  BY DEF Places
<1> QED
  BY <1>1, Constants, FS_Subset, FS_CardinalityType DEF BySlots

LEMMA CallsCounted ==
  ASSUME NEW k
  PROVE  ByCalls(k) \in Nat
<1>1. Places(Threads, obj, k) \in SUBSET Threads
  BY DEF Places
<1> QED
  BY <1>1, Constants, FS_Subset, FS_CardinalityType DEF ByCalls

LEMMA HoldersCounted ==
  ASSUME NEW k
  PROVE  ByScripts(k) \in Nat
<1>1. Holders(k) \in SUBSET Scripts
  BY DEF Holders
<1> QED
  BY <1>1, Constants, FS_Subset, FS_CardinalityType DEF ByScripts

\* An update that is not lost, and with which none has been lost, changes
\* the count by the reference that is added and the one that is given up.
LEMMA UpdateMeans ==
  ASSUME CountsType, NEW t, NEW up, NEW down, Update(t, up, down)
  PROVE  /\ CountsType'
         /\ \/ lost'
            \/ /\ ~lost
               /\ \A k \in Closures :
                    rc'[k] = rc[k] + (IF k = up THEN 1 ELSE 0) - (IF k = down THEN 1 ELSE 0)
<1>1. lost' \in BOOLEAN /\ (~lost' => ~lost)
  BY DEF CountsType, Update, Stale
<1>2. half' \in {NoLoad} \union [by : Threads, obj : Closures, read : Int]
  BY DEF CountsType, Update
<1>3. \A k \in Closures :
        /\ rc'[k] \in Int
        /\ ~lost' => rc'[k] = rc[k] + (IF k = up THEN 1 ELSE 0) - (IF k = down THEN 1 ELSE 0)
  BY DEF CountsType, Update
<1>4. rc' \in [Closures -> Int]
  BY <1>3 DEF Update
<1> QED
  BY <1>1, <1>2, <1>3, <1>4 DEF CountsType

LEMMA SlotChanges ==
  ASSUME NEW s \in Slots, \A r \in Slots : r # s => closure'[r] = closure[r], NEW k
  PROVE  /\ BySlots(k) \in Nat /\ BySlots(k)' \in Nat
         /\ BySlots(k)' = BySlots(k) + (IF closure'[s] = k THEN 1 ELSE 0)
                                     - (IF closure[s] = k THEN 1 ELSE 0)
<1>1. IsFiniteSet(Slots)
  BY Constants
<1>2. CountMoves(Slots, closure, closure', s, k)
  BY <1>1, CountOfValue, Zenon
<1> QED
  BY <1>2 DEF CountMoves, BySlots

LEMMA CallChanges ==
  ASSUME NEW t \in Threads, \A u \in Threads : u # t => obj'[u] = obj[u], NEW k
  PROVE  /\ ByCalls(k) \in Nat /\ ByCalls(k)' \in Nat
         /\ ByCalls(k)' = ByCalls(k) + (IF obj'[t] = k THEN 1 ELSE 0)
                                     - (IF obj[t] = k THEN 1 ELSE 0)
<1>1. IsFiniteSet(Threads)
  BY Constants
<1>2. CountMoves(Threads, obj, obj', t, k)
  BY <1>1, CountOfValue, Zenon
<1> QED
  BY <1>2 DEF CountMoves, ByCalls

\* A slot takes or loses a closure, and the count follows.
LEMMA UpdateSlot ==
  ASSUME ClosureCountsExact, CountsType, UNCHANGED <<held, obj>>,
         NEW s \in Slots, \A r \in Slots : r # s => closure'[r] = closure[r],
         NEW t, NEW up, NEW down, Update(t, up, down),
         \A k \in Closures : (closure'[s] = k <=> k = up) /\ (closure[s] = k <=> k = down)
  PROVE  CountsType' /\ ClosureCountsExact'
<1>1. CountsType'
  BY UpdateMeans
<1> SUFFICES ASSUME ~lost', NEW k \in Closures
             PROVE  rc'[k] = BySlots(k)' + ByCalls(k)' + ByScripts(k)'
  BY <1>1, CountsMean
<1> DEFINE a == IF k = up THEN 1 ELSE 0
           b == IF k = down THEN 1 ELSE 0
<1>2. a \in Int /\ b \in Int
  OBVIOUS
<1>3. ~lost /\ rc'[k] = rc[k] + a - b
  BY UpdateMeans
<1>4. rc[k] = BySlots(k) + ByCalls(k) + ByScripts(k)
  BY <1>3, CountsMean
<1>5. BySlots(k) \in Nat /\ BySlots(k)' = BySlots(k) + a - b
  BY SlotChanges
<1>6. ByCalls(k) \in Nat /\ ByCalls(k)' = ByCalls(k)
  BY CallsCounted DEF ByCalls
<1>7. ByScripts(k) \in Nat /\ ByScripts(k)' = ByScripts(k)
  BY HoldersCounted DEF ByScripts, Holders
<1> HIDE DEF a, b
<1> QED
  BY <1>2, <1>3, <1>4, <1>5, <1>6, <1>7

\* A call takes a closure or gives its own up, and the count follows.
LEMMA UpdateCall ==
  ASSUME ClosureCountsExact, CountsType, UNCHANGED <<held, closure>>,
         NEW t \in Threads, \A u \in Threads : u # t => obj'[u] = obj[u],
         NEW up, NEW down, Update(t, up, down),
         \A k \in Closures : (obj'[t] = k <=> k = up) /\ (obj[t] = k <=> k = down)
  PROVE  CountsType' /\ ClosureCountsExact'
<1>1. CountsType'
  BY UpdateMeans
<1> SUFFICES ASSUME ~lost', NEW k \in Closures
             PROVE  rc'[k] = BySlots(k)' + ByCalls(k)' + ByScripts(k)'
  BY <1>1, CountsMean
<1> DEFINE a == IF k = up THEN 1 ELSE 0
           b == IF k = down THEN 1 ELSE 0
<1>2. a \in Int /\ b \in Int
  OBVIOUS
<1>3. ~lost /\ rc'[k] = rc[k] + a - b
  BY UpdateMeans
<1>4. rc[k] = BySlots(k) + ByCalls(k) + ByScripts(k)
  BY <1>3, CountsMean
<1>5. BySlots(k) \in Nat /\ BySlots(k)' = BySlots(k)
  BY SlotsCounted DEF BySlots
<1>6. ByCalls(k) \in Nat /\ ByCalls(k)' = ByCalls(k) + a - b
  BY CallChanges
<1>7. ByScripts(k) \in Nat /\ ByScripts(k)' = ByScripts(k)
  BY HoldersCounted DEF ByScripts, Holders
<1> HIDE DEF a, b
<1> QED
  BY <1>2, <1>3, <1>4, <1>5, <1>6, <1>7

\* Nothing about closures changes.
LEMMA CountsStay ==
  ASSUME ClosureCountsExact, UNCHANGED <<held, closure, counts, obj>>
  PROVE  ClosureCountsExact'
  BY DEF ClosureCountsExact, counts

\* The slots that have a closure, and the calls at a place, counted.
WithClosure == {s \in Slots : closure[s] # None}
ScriptsAt(l) == Cardinality(Places(Scripts, pc, l))

LEMMA CanRunMeans ==
  /\ RegisteredCanRun <=>
       (~disturbed => /\ WithClosure # {} => current # None
                      /\ registered + ScriptsAt("count")
                           = Cardinality(WithClosure) + ScriptsAt("uncount"))
  /\ RegisteredCanRun' <=>
       (~disturbed' => /\ WithClosure' # {} => current' # None
                       /\ registered' + ScriptsAt("count")'
                            = Cardinality(WithClosure') + ScriptsAt("uncount")')
<1>1. /\ WithClosure # {} <=> \E s \in Slots : closure[s] # None
      /\ WithClosure' # {} <=> \E s \in Slots : closure'[s] # None
  BY DEF WithClosure
<1> QED
  BY <1>1 DEF RegisteredCanRun, WithClosure, ScriptsAt, Places

LEMMA ScriptMoves ==
  ASSUME NEW t \in Scripts, NEW l, Goto(t, l), NEW q,
         pc \in [Threads -> ScriptLabels \union NativeLabels]
  PROVE  /\ ScriptsAt(q) \in Nat /\ ScriptsAt(q)' \in Nat
         /\ ScriptsAt(q)' = ScriptsAt(q) + (IF l = q THEN 1 ELSE 0)
                                         - (IF pc[t] = q THEN 1 ELSE 0)
<1>1. \A u \in Scripts : u # t => pc'[u] = pc[u]
  BY Constants DEF Goto
<1>2. IsFiniteSet(Scripts) /\ pc'[t] = l
  BY Constants DEF Goto
<1>3. CountMoves(Scripts, pc, pc', t, q)
  BY <1>1, <1>2, CountOfValue, Zenon
<1> QED
  BY <1>2, <1>3 DEF CountMoves, ScriptsAt

LEMMA ClosureMoves ==
  ASSUME NEW s \in Slots, \A r \in Slots : r # s => closure'[r] = closure[r]
  PROVE  /\ Cardinality(WithClosure) \in Nat /\ Cardinality(WithClosure') \in Nat
         /\ Cardinality(WithClosure') = Cardinality(WithClosure)
              + (IF closure'[s] # None THEN 1 ELSE 0) - (IF closure[s] # None THEN 1 ELSE 0)
<1>1. /\ WithClosure \in SUBSET Slots /\ WithClosure' \in SUBSET Slots
      /\ \A r \in Slots : r # s => (r \in WithClosure' <=> r \in WithClosure)
      /\ s \in WithClosure <=> closure[s] # None
      /\ s \in WithClosure' <=> closure'[s] # None
  BY DEF WithClosure
<1>2. IsFiniteSet(Slots)
  BY Constants
<1>3. MemberMoves(WithClosure, WithClosure', s)
  BY <1>1, <1>2, CountOfMembers, Zenon
<1> QED
  BY <1>1, <1>3 DEF MemberMoves

\* A thread that neither registers nor is about to uncount.
LEMMA KeepSlots ==
  ASSUME SlotInv, RegisteredCanRun, NEW t \in Threads, NEW l,
         pc \in [Threads -> ScriptLabels \union NativeLabels],
         t \in Natives \/ (pc[t] \notin Owns \union {"uncount"} /\ l \notin Owns \union {"uncount"}),
         Goto(t, l), \A u \in Threads : u # t => slot'[u] = slot[u],
         UNCHANGED <<used, closure, registered, disturbed>>,
         current' = None => current = None
  PROVE  SlotInv' /\ RegisteredCanRun'
<1>1. \A u \in Scripts : pc[u] \in Owns \union {"uncount"} \/ pc'[u] \in Owns \union {"uncount"}
                           => pc'[u] = pc[u] /\ slot'[u] = slot[u]
  BY Constants DEF Goto
<1>2. /\ {u \in Scripts : pc'[u] = "count"} = {u \in Scripts : pc[u] = "count"}
      /\ {u \in Scripts : pc'[u] = "uncount"} = {u \in Scripts : pc[u] = "uncount"}
  BY <1>1 DEF Owns
<1>3. SlotInv'
  BY <1>1 DEF SlotInv, Owns, Registering
<1>4. RegisteredCanRun'
  BY <1>2 DEF RegisteredCanRun
<1> QED
  BY <1>3, <1>4
------------------------------------------------------------------------------
(***************************************************************************)
(* Every step preserves the invariant.                                     *)
(***************************************************************************)

LEMMA ScriptIsThread ==
  ASSUME NEW t \in Scripts
  PROVE  t \in Threads /\ t \notin Natives
  BY Constants

LEMMA CallRegisterKeeps ==
  ASSUME IInv, NEW t \in Scripts, NEW k \in Closures, CallRegister(t, k)
  PROVE  IInv'
<1>1. t \in Threads /\ t \notin Natives
  BY ScriptIsThread
<1>2. CountsType' /\ ClosureCountsExact'
  <2>1. obj[t] = None /\ obj' = [obj EXCEPT ![t] = k] /\ Update(t, k, None)
    BY <1>1 DEF IInv, CallRegister, Locals, WithObj
  <2>2. UNCHANGED <<held, closure>>
    BY DEF CallRegister, table
  <2> QED
    BY <1>1, <2>1, <2>2, Constants, UpdateCall DEF IInv, Table, Locals
<1>3. Labels' /\ Locals' /\ Table'
  <2>1. Labels'
    BY <1>1 DEF IInv, CallRegister, Labels, Goto, ScriptLabels, NativeLabels
  <2>2. Locals'
    BY <1>1, Constants DEF IInv, CallRegister, Labels, Locals, Goto, WithObj, WithSlot, WithRt
  <2>3. Table'
    BY <1>2 DEF IInv, CallRegister, Table, table
  <2> QED
    BY <2>1, <2>2, <2>3
<1>4. RuntimeInv'
  BY <1>1, KeepRuntime DEF IInv, CallRegister, runtimes, WithRt, Labels, RuntimeInv
<1>5. SlotInv' /\ RegisteredCanRun'
  BY <1>1, KeepSlots DEF IInv, CallRegister, table, runtimes, Labels, Owns
<1> QED
  BY <1>2, <1>3, <1>4, <1>5 DEF IInv

LEMMA CallFreeKeeps ==
  ASSUME IInv, NEW t \in Scripts, NEW s \in Slots, CallFree(t, s)
  PROVE  IInv'
<1>1. t \in Threads /\ t \notin Natives
  BY ScriptIsThread
<1>2. Labels' /\ Locals' /\ Table'
  <2>1. Labels'
    BY <1>1 DEF IInv, CallFree, Labels, Goto, ScriptLabels, NativeLabels
  <2>2. Locals'
    BY <1>1, Constants DEF IInv, CallFree, Labels, Locals, Goto, WithObj, WithSlot, WithRt
  <2>3. Table'
    BY DEF IInv, CallFree, Table, table, counts, CountsType
  <2> QED
    BY <2>1, <2>2, <2>3
<1>3. RuntimeInv'
  BY <1>1, KeepRuntime DEF IInv, CallFree, runtimes, WithRt, Labels, RuntimeInv
<1>4. ClosureCountsExact'
  BY CountsStay DEF IInv, CallFree, table
<1>5. SlotInv' /\ RegisteredCanRun'
  BY <1>1, KeepSlots DEF IInv, CallFree, table, runtimes, Labels, Owns, Locals
<1> QED
  BY <1>2, <1>3, <1>4, <1>5 DEF IInv

LEMMA MinIsIn ==
  ASSUME NEW S, S \subseteq Nat, S # {}
  PROVE  Min(S) \in S
  BY SmallestOf DEF Min

LEMMA AllocSlotKeeps ==
  ASSUME IInv, NEW t \in Scripts, AllocSlot(t)
  PROVE  IInv'
<1> DEFINE free == {s \in Slots : ~used[s]}
<1>1. t \in Threads /\ t \notin Natives /\ pc[t] = "alloc" /\ obj[t] \in Closures
  BY ScriptIsThread DEF AllocSlot, IInv, Locals, WithObj
<1>2. CASE free = {}
  <2>1. /\ Goto(t, "return")
        /\ UNCHANGED <<used, slot, closure, dispatch, runtimes, counts, held, obj, rt, disturbed>>
    BY <1>2 DEF AllocSlot
  <2>2. Labels'
    BY <1>1, <2>1 DEF IInv, Labels, Goto, ScriptLabels, NativeLabels
  <2>3. Locals'
    BY <1>1, <2>1, Constants DEF IInv, Labels, Locals, Goto, WithObj, WithSlot, WithRt
  <2>4. Table'
    BY <2>1 DEF IInv, Table, counts, CountsType
  <2>5. RuntimeInv'
    BY <1>1, <2>1, KeepRuntime DEF IInv, runtimes, WithRt, Labels, RuntimeInv
  <2>6. ClosureCountsExact'
    BY <2>1, CountsStay DEF IInv
  <2>7. SlotInv' /\ RegisteredCanRun'
    BY <1>1, <2>1, KeepSlots DEF IInv, runtimes, Labels, Locals, Owns
  <2> QED
    BY <2>2, <2>3, <2>4, <2>5, <2>6, <2>7 DEF IInv
<1>3. CASE free # {}
  <2>1. PICK m : m = Min(free)
    OBVIOUS
  <2>2. m \in Slots /\ ~used[m]
    BY <1>3, <2>1, MinIsIn, Constants
  <2>3. /\ used' = [used EXCEPT ![m] = TRUE]
        /\ slot' = [slot EXCEPT ![t] = m]
        /\ Goto(t, "ensure")
        /\ UNCHANGED <<obj, counts, closure, dispatch, runtimes, held, rt, disturbed>>
    BY <1>3, <2>1 DEF AllocSlot
  <2> HIDE DEF free
  <2>4. Labels'
    BY <1>1, <2>3 DEF IInv, Labels, Goto, ScriptLabels, NativeLabels
  <2>5. Locals'
    BY <1>1, <2>2, <2>3, Constants DEF IInv, Labels, Locals, Goto, WithObj, WithSlot, WithRt
  <2>6. Table'
    BY <2>2, <2>3 DEF IInv, Table, counts, CountsType
  <2>7. RuntimeInv'
    BY <1>1, <2>3, KeepRuntime DEF IInv, runtimes, WithRt, Labels, RuntimeInv
  <2>8. ClosureCountsExact'
    BY <2>3, CountsStay DEF IInv
  <2>9. SlotInv'
    BY <1>1, <2>2, <2>3, ScriptIsThread
    DEF IInv, Labels, Locals, SlotInv, Table, Goto, Owns, Registering, runtimes
  <2>10. RegisteredCanRun'
    <3>1. ScriptsAt("count")' = ScriptsAt("count") /\ ScriptsAt("uncount")' = ScriptsAt("uncount")
      BY <1>1, <2>3, ScriptMoves DEF IInv, Labels
    <3>2. WithClosure' = WithClosure
      BY <2>3 DEF WithClosure
    <3> QED
      BY <2>3, <3>1, <3>2, CanRunMeans DEF IInv, runtimes
  <2> QED
    BY <2>4, <2>5, <2>6, <2>7, <2>8, <2>9, <2>10 DEF IInv
<1> QED
  BY <1>2, <1>3

LEMMA EnsureRuntimeKeeps ==
  ASSUME IInv, NEW t \in Scripts, EnsureRuntime(t)
  PROVE  IInv'
<1>1. t \in Threads /\ t \notin Natives /\ pc[t] = "ensure"
  BY ScriptIsThread DEF EnsureRuntime
<1>2. PICK l \in {"set", "install", "undo"} :
        /\ Goto(t, l)
        /\ UNCHANGED <<table, registered, active, counts, held, slot, obj, rt, disturbed>>
        /\ \/ l = "set" /\ current # None /\ UNCHANGED <<current, open>>
           \/ l = "undo" /\ UNCHANGED <<current, open>>
           \/ /\ l = "install" /\ current = None
              /\ current' \in Runtimes \ open /\ open' = open \union {current'}
  BY DEF EnsureRuntime
<1>3. Labels'
  BY <1>1, <1>2 DEF IInv, Labels, Goto, ScriptLabels, NativeLabels
<1>4. Locals'
  BY <1>1, <1>2, Constants DEF IInv, Labels, Locals, Goto, WithObj, WithSlot, WithRt
<1>5. Table'
  BY <1>2 DEF IInv, Table, table, counts, CountsType
<1>6. RuntimeInv'
  <2>1. CASE UNCHANGED <<current, open>>
    BY <1>1, <1>2, <2>1, KeepRuntime DEF IInv, WithRt, Labels, RuntimeInv
  <2>2. CASE current = None /\ current' \in Runtimes \ open /\ open' = open \union {current'}
    <3>1. Active' = Active
      BY <1>1, <1>2 DEF IInv, Labels, Goto, Active
    <3>2. Active = {}
      BY <2>2, Constants DEF IInv, RuntimeInv, Locals, Active, WithRt
    <3>3. \A u \in Threads : pc'[u] = "close" => pc[u] = "close"
      BY <1>1, <1>2 DEF IInv, Labels, Goto
    <3> QED
      BY <1>2, <2>2, <3>1, <3>2, <3>3 DEF IInv, RuntimeInv
  <2> QED
    BY <1>2, <2>1, <2>2
<1>7. ClosureCountsExact'
  BY <1>2, CountsStay DEF IInv, table
<1>8. current' = None => current = None
  BY <1>2, Constants
<1>9. SlotInv'
  BY <1>1, <1>2, <1>8, Constants, ScriptIsThread
  DEF IInv, Labels, SlotInv, Goto, Owns, Registering, table
<1>10. RegisteredCanRun'
  <2>1. ScriptsAt("count")' = ScriptsAt("count") /\ ScriptsAt("uncount")' = ScriptsAt("uncount")
    BY <1>1, <1>2, ScriptMoves DEF IInv, Labels
  <2>2. WithClosure' = WithClosure
    BY <1>2 DEF WithClosure, table
  <2> QED
    BY <1>2, <1>8, <2>1, <2>2, CanRunMeans DEF IInv
<1> QED
  BY <1>3, <1>4, <1>5, <1>6, <1>7, <1>9, <1>10 DEF IInv

LEMMA InstallDispatchKeeps ==
  ASSUME IInv, NEW t \in Scripts, InstallDispatch(t)
  PROVE  IInv'
<1>1. t \in Threads /\ t \notin Natives /\ pc[t] = "install" /\ Goto(t, "set")
  BY ScriptIsThread DEF InstallDispatch
<1>2. UNCHANGED <<used, closure, runtimes, counts, held, slot, obj, rt, disturbed>> /\ dispatch' = TRUE
  BY DEF InstallDispatch
<1>3. Labels'
  BY <1>1 DEF IInv, Labels, Goto, ScriptLabels, NativeLabels
<1>4. Locals'
  BY <1>1, <1>2, Constants DEF IInv, Labels, Locals, Goto, WithObj, WithSlot, WithRt
<1>5. Table'
  BY <1>2 DEF IInv, Table, counts, CountsType
<1>6. RuntimeInv'
  BY <1>1, <1>2, KeepRuntime DEF IInv, runtimes, WithRt, Labels, RuntimeInv
<1>7. ClosureCountsExact'
  BY <1>2, CountsStay DEF IInv
<1>8. SlotInv'
  BY <1>1, <1>2, ScriptIsThread DEF IInv, Labels, SlotInv, Goto, Owns, Registering, runtimes
<1>9. RegisteredCanRun'
  <2>1. ScriptsAt("count")' = ScriptsAt("count") /\ ScriptsAt("uncount")' = ScriptsAt("uncount")
    BY <1>1, ScriptMoves DEF IInv, Labels
  <2>2. WithClosure' = WithClosure
    BY <1>2 DEF WithClosure
  <2> QED
    BY <1>2, <2>1, <2>2, CanRunMeans DEF IInv, runtimes
<1> QED
  BY <1>3, <1>4, <1>5, <1>6, <1>7, <1>8, <1>9 DEF IInv

LEMMA SetClosureKeeps ==
  ASSUME IInv, NEW t \in Scripts, SetClosure(t)
  PROVE  IInv'
<1>1. /\ t \in Threads /\ t \notin Natives /\ pc[t] = "set" /\ Goto(t, "count")
      /\ slot[t] \in Slots /\ obj[t] \in Closures
  BY ScriptIsThread DEF SetClosure, IInv, Locals, WithSlot, WithObj
<1>2. PICK s \in Slots : s = slot[t]
  BY <1>1
<1>3. /\ closure' = [closure EXCEPT ![s] = obj[t]]
      /\ Update(t, obj[t], closure[s])
      /\ UNCHANGED <<used, dispatch, runtimes, held, slot, obj, rt, disturbed>>
  BY <1>2 DEF SetClosure
<1>4. /\ closure'[s] = obj[t] /\ obj[t] # None
      /\ \A r \in Slots : r # s => closure'[r] = closure[r]
  BY <1>1, <1>3, Constants DEF IInv, Table
<1>5. Labels'
  BY <1>1 DEF IInv, Labels, Goto, ScriptLabels, NativeLabels
<1>6. Locals'
  BY <1>1, <1>3, Constants DEF IInv, Labels, Locals, Goto, WithObj, WithSlot, WithRt
<1>7. CountsType' /\ ClosureCountsExact'
  BY <1>3, <1>4, UpdateSlot DEF IInv, Table
<1>8. Table'
  BY <1>1, <1>3, <1>7 DEF IInv, Table
<1>9. RuntimeInv'
  BY <1>1, <1>3, KeepRuntime DEF IInv, runtimes, WithRt, Labels, RuntimeInv
<1>10. SlotInv'
  BY <1>1, <1>2, <1>3, <1>4, ScriptIsThread
  DEF IInv, Labels, Locals, SlotInv, Goto, Owns, WithSlot, Registering, runtimes
<1>11. RegisteredCanRun'
  <2> SUFFICES ASSUME ~disturbed
               PROVE  /\ current # None
                      /\ registered + ScriptsAt("count")'
                           = Cardinality(WithClosure') + ScriptsAt("uncount")'
    BY <1>3, CanRunMeans DEF runtimes
  <2>1. current # None /\ closure[s] = None
    BY <1>1, <1>2 DEF IInv, SlotInv, Owns, Registering
  <2>2. /\ ScriptsAt("count") \in Nat /\ ScriptsAt("count")' = ScriptsAt("count") + 1
        /\ ScriptsAt("uncount") \in Nat /\ ScriptsAt("uncount")' = ScriptsAt("uncount")
    BY <1>1, ScriptMoves DEF IInv, Labels
  <2>3. Cardinality(WithClosure) \in Nat /\ Cardinality(WithClosure') = Cardinality(WithClosure) + 1
    BY <1>4, <2>1, ClosureMoves
  <2>4. registered \in Nat /\ registered + ScriptsAt("count") = Cardinality(WithClosure) + ScriptsAt("uncount")
    BY CanRunMeans DEF IInv, RuntimeInv
  <2> QED
    BY <2>1, <2>2, <2>3, <2>4
<1> QED
  BY <1>5, <1>6, <1>8, <1>9, <1>7, <1>10, <1>11 DEF IInv

LEMMA CountRegisteredKeeps ==
  ASSUME IInv, NEW t \in Scripts, CountRegistered(t)
  PROVE  IInv'
<1>1. t \in Threads /\ t \notin Natives /\ pc[t] = "count" /\ Goto(t, "return")
  BY ScriptIsThread DEF CountRegistered
<1>2. /\ registered' = registered + 1
      /\ slot' = [slot EXCEPT ![t] = None]
      /\ UNCHANGED <<table, current, active, open, counts, held, obj, rt, disturbed>>
  BY DEF CountRegistered
<1>3. Labels'
  BY <1>1 DEF IInv, Labels, Goto, ScriptLabels, NativeLabels
<1>4. Locals'
  BY <1>1, <1>2, Constants DEF IInv, Labels, Locals, Goto, WithObj, WithSlot, WithRt
<1>5. Table'
  BY <1>1, <1>2 DEF IInv, Table, table, counts, CountsType
<1>6. RuntimeInv'
  <2>1. registered' \in Nat
    BY <1>2 DEF IInv, RuntimeInv
  <2> QED
    BY <1>1, <1>2, <2>1, KeepRuntime DEF IInv, WithRt, Labels
<1>7. ClosureCountsExact'
  BY <1>2, CountsStay DEF IInv, table
<1>8. SlotInv'
  BY <1>1, <1>2, ScriptIsThread DEF IInv, Labels, Locals, SlotInv, Goto, Owns, Registering, table
<1>9. RegisteredCanRun'
  <2> SUFFICES ASSUME ~disturbed
               PROVE  /\ WithClosure' # {} => current # None
                      /\ registered' + ScriptsAt("count")'
                           = Cardinality(WithClosure') + ScriptsAt("uncount")'
    BY <1>2, CanRunMeans
  <2>1. WithClosure' = WithClosure
    BY <1>2 DEF WithClosure, table
  <2>2. /\ ScriptsAt("count") \in Nat /\ ScriptsAt("count")' = ScriptsAt("count") - 1
        /\ ScriptsAt("uncount") \in Nat /\ ScriptsAt("uncount")' = ScriptsAt("uncount")
    BY <1>1, ScriptMoves DEF IInv, Labels
  <2>3. /\ WithClosure # {} => current # None
        /\ registered \in Nat
        /\ registered + ScriptsAt("count") = Cardinality(WithClosure) + ScriptsAt("uncount")
    BY CanRunMeans DEF IInv, RuntimeInv
  <2> QED
    BY <1>2, <2>1, <2>2, <2>3
<1> QED
  BY <1>3, <1>4, <1>5, <1>6, <1>7, <1>8, <1>9 DEF IInv

LEMMA UndoRegisterKeeps ==
  ASSUME IInv, NEW t \in Scripts, UndoRegister(t)
  PROVE  IInv'
<1>1. /\ t \in Threads /\ t \notin Natives /\ pc[t] = "undo" /\ Goto(t, "return") /\ slot[t] \in Slots
  BY ScriptIsThread DEF UndoRegister, IInv, Locals, WithSlot
<1>2. PICK s \in Slots : s = slot[t]
  BY <1>1
<1>3. /\ used' = [used EXCEPT ![s] = FALSE]
      /\ closure' = [closure EXCEPT ![s] = None]
      /\ slot' = [slot EXCEPT ![t] = None]
      /\ Update(t, None, closure[s])
      /\ UNCHANGED <<dispatch, runtimes, held, obj, rt, disturbed>>
  BY <1>2 DEF UndoRegister, ClearSlot
<1>4. /\ closure'[s] = None /\ used'[s] = FALSE
      /\ \A r \in Slots : r # s => closure'[r] = closure[r] /\ used'[r] = used[r]
  BY <1>3 DEF IInv, Table
<1>5. Labels'
  BY <1>1 DEF IInv, Labels, Goto, ScriptLabels, NativeLabels
<1>6. Locals'
  BY <1>1, <1>3, Constants DEF IInv, Labels, Locals, Goto, WithObj, WithSlot, WithRt
<1>7. CountsType' /\ ClosureCountsExact'
  <2>1. \A k \in Closures : closure'[s] # k /\ k # None
    BY <1>4, Constants
  <2> QED
    BY <1>3, <1>4, <2>1, UpdateSlot DEF IInv, Table
<1>8. Table'
  BY <1>1, <1>3, <1>7 DEF IInv, Table
<1>9. RuntimeInv'
  BY <1>1, <1>3, KeepRuntime DEF IInv, runtimes, WithRt, Labels, RuntimeInv
<1>10. SlotInv'
  BY <1>1, <1>2, <1>3, <1>4, ScriptIsThread
  DEF IInv, Labels, Locals, SlotInv, Goto, Owns, WithSlot, Registering, runtimes
<1>11. RegisteredCanRun'
  <2> SUFFICES ASSUME ~disturbed
               PROVE  /\ WithClosure' # {} => current # None
                      /\ registered + ScriptsAt("count")'
                           = Cardinality(WithClosure') + ScriptsAt("uncount")'
    BY <1>3, CanRunMeans DEF runtimes
  <2>1. closure[s] = None
    BY <1>1, <1>2 DEF IInv, SlotInv, Owns
  <2>2. WithClosure' = WithClosure
    BY <1>4, <2>1 DEF WithClosure
  <2>3. ScriptsAt("count")' = ScriptsAt("count") /\ ScriptsAt("uncount")' = ScriptsAt("uncount")
    BY <1>1, ScriptMoves DEF IInv, Labels
  <2> QED
    BY <2>2, <2>3, CanRunMeans DEF IInv
<1> QED
  BY <1>5, <1>6, <1>8, <1>9, <1>7, <1>10, <1>11 DEF IInv

LEMMA FreeSlotKeeps ==
  ASSUME IInv, NEW t \in Scripts, FreeSlot(t)
  PROVE  IInv'
<1>1. /\ t \in Threads /\ t \notin Natives /\ pc[t] = "free" /\ Goto(t, "uncount") /\ slot[t] \in Slots
  BY ScriptIsThread DEF FreeSlot, IInv, Locals, WithSlot
<1>2. PICK s \in Slots : s = slot[t]
  BY <1>1
<1>3. /\ used' = [used EXCEPT ![s] = FALSE]
      /\ closure' = [closure EXCEPT ![s] = None]
      /\ Update(t, None, closure[s])
      /\ disturbed' = (disturbed \/ closure[s] = None
                         \/ \E u \in Scripts \ {t} : slot[u] = s /\ pc[u] # "free")
      /\ UNCHANGED <<dispatch, runtimes, held, slot, obj, rt>>
  BY <1>2 DEF FreeSlot, ClearSlot
<1>4. /\ closure'[s] = None /\ used'[s] = FALSE
      /\ \A r \in Slots : r # s => closure'[r] = closure[r] /\ used'[r] = used[r]
  BY <1>3 DEF IInv, Table
<1>5. Labels'
  BY <1>1 DEF IInv, Labels, Goto, ScriptLabels, NativeLabels
<1>6. Locals'
  BY <1>1, <1>3, Constants DEF IInv, Labels, Locals, Goto, WithObj, WithSlot, WithRt
<1>7. CountsType' /\ ClosureCountsExact'
  <2>1. \A k \in Closures : closure'[s] # k /\ k # None
    BY <1>4, Constants
  <2> QED
    BY <1>3, <1>4, <2>1, UpdateSlot DEF IInv, Table
<1>8. Table'
  BY <1>1, <1>3, <1>7 DEF IInv, Table
<1>9. RuntimeInv'
  BY <1>1, <1>3, KeepRuntime DEF IInv, runtimes, WithRt, Labels, RuntimeInv
<1>10. SlotInv'
  <2> SUFFICES ASSUME ~disturbed'
               PROVE  SlotInv'
    BY DEF SlotInv
  <2>1. ~disturbed /\ \A u \in Scripts : slot[u] = s => u = t \/ pc[u] = "free"
    BY <1>3
  <2>2. \A u \in Scripts : u # t => pc'[u] = pc[u]
    BY <1>1, ScriptIsThread DEF IInv, Labels, Goto
  <2>3. pc'[t] = "uncount"
    BY <1>1 DEF IInv, Labels, Goto
  <2>4. \A u \in Scripts : pc'[u] \in Owns => pc'[u] = pc[u] /\ slot[u] \in Slots /\ slot[u] # s
    BY <2>1, <2>2, <2>3, ScriptIsThread DEF IInv, Locals, Owns, WithSlot
  <2>5. current' = current /\ slot' = slot
    BY <1>3 DEF runtimes
  <2>6. \A u \in Scripts : Registering(u)' => Registering(u)
    BY <2>2, <2>3 DEF Registering
  <2> QED
    BY <1>4, <2>1, <2>4, <2>5, <2>6 DEF IInv, SlotInv
<1>11. RegisteredCanRun'
  <2> SUFFICES ASSUME ~disturbed'
               PROVE  /\ WithClosure' # {} => current # None
                      /\ registered + ScriptsAt("count")'
                           = Cardinality(WithClosure') + ScriptsAt("uncount")'
    BY <1>3, CanRunMeans DEF runtimes
  <2>1. ~disturbed /\ closure[s] # None
    BY <1>3
  <2>2. /\ ScriptsAt("count") \in Nat /\ ScriptsAt("count")' = ScriptsAt("count")
        /\ ScriptsAt("uncount") \in Nat /\ ScriptsAt("uncount")' = ScriptsAt("uncount") + 1
    BY <1>1, ScriptMoves DEF IInv, Labels
  <2>3. Cardinality(WithClosure) \in Nat /\ Cardinality(WithClosure') = Cardinality(WithClosure) - 1
    BY <1>4, <2>1, ClosureMoves
  <2>4. WithClosure # {}
    BY <2>1 DEF WithClosure
  <2>5. /\ current # None
        /\ registered \in Nat
        /\ registered + ScriptsAt("count") = Cardinality(WithClosure) + ScriptsAt("uncount")
    BY <2>1, <2>4, CanRunMeans DEF IInv, RuntimeInv
  <2> QED
    BY <2>2, <2>3, <2>5
<1> QED
  BY <1>5, <1>6, <1>8, <1>9, <1>7, <1>10, <1>11 DEF IInv

\* Registrations that are not yet counted have slots of their own.
LEMMA UncountedHaveSlots ==
  ASSUME Labels, Locals, SlotInv, ~disturbed
  PROVE  ScriptsAt("count") <= Cardinality(WithClosure)
<1> DEFINE A == Places(Scripts, pc, "count")
           f == [u \in A |-> slot[u]]
<1>1. IsFiniteSet(A) /\ IsFiniteSet(WithClosure)
  <2>1. A \in SUBSET Scripts /\ WithClosure \in SUBSET Slots
    BY DEF Places, WithClosure
  <2> QED
    BY <2>1, Constants, FS_Subset
<1>2. Cardinality(A) \in Nat /\ Cardinality(WithClosure) \in Nat
  BY <1>1, FS_CardinalityType
<1>3. \A u \in A : u \in Scripts /\ pc[u] = "count"
  BY DEF Places
<1>4. \A u \in A : slot[u] \in WithClosure
  BY <1>3, ScriptIsThread DEF Locals, SlotInv, Owns, WithSlot, WithClosure
<1>5. \A u, v \in A : slot[u] = slot[v] => u = v
  BY <1>3 DEF SlotInv, Owns
<1> HIDE DEF A
<1>6. f \in [A -> WithClosure]
  BY <1>4
<1>7. \A u, v \in A : f[u] = f[v] => u = v
  BY <1>5
<1> HIDE DEF f
<1>8. ~ (Cardinality(WithClosure) < Cardinality(A))
  <2> SUFFICES ASSUME Cardinality(WithClosure) < Cardinality(A)
               PROVE  FALSE
    OBVIOUS
  <2>1. PICK B : B = WithClosure
    OBVIOUS
  <2>2. IsFiniteSet(B) /\ Cardinality(B) < Cardinality(A) /\ f \in [A -> B]
    BY <1>1, <1>6, <2>1
  <2>3. \E u, v \in A : u # v /\ f[u] = f[v]
    BY <1>1, <2>2, FS_PigeonHole
  <2> QED
    BY <1>7, <2>3
<1> QED
  BY <1>2, <1>8 DEF A, ScriptsAt

LEMMA UncountKeeps ==
  ASSUME IInv, NEW t \in Scripts, Uncount(t)
  PROVE  IInv'
<1>1. t \in Threads /\ t \notin Natives /\ pc[t] = "uncount" /\ Goto(t, "shutdown")
  BY ScriptIsThread DEF Uncount
<1>2. /\ registered' = IF registered > 0 THEN registered - 1 ELSE 0
      /\ slot' = [slot EXCEPT ![t] = None]
      /\ UNCHANGED <<table, current, active, open, counts, held, obj, rt, disturbed>>
  BY DEF Uncount
<1>3. Labels'
  BY <1>1 DEF IInv, Labels, Goto, ScriptLabels, NativeLabels
<1>4. Locals'
  BY <1>1, <1>2, Constants DEF IInv, Labels, Locals, Goto, WithObj, WithSlot, WithRt
<1>5. Table'
  BY <1>1, <1>2 DEF IInv, Table, table, counts, CountsType
<1>6. RuntimeInv'
  <2>1. registered' \in Nat
    BY <1>2 DEF IInv, RuntimeInv
  <2> QED
    BY <1>1, <1>2, <2>1, KeepRuntime DEF IInv, WithRt, Labels
<1>7. ClosureCountsExact'
  BY <1>2, CountsStay DEF IInv, table
<1>8. SlotInv'
  BY <1>1, <1>2, ScriptIsThread DEF IInv, Labels, Locals, SlotInv, Goto, Owns, Registering, table
<1>9. RegisteredCanRun'
  <2> SUFFICES ASSUME ~disturbed
               PROVE  /\ WithClosure' # {} => current # None
                      /\ registered' + ScriptsAt("count")'
                           = Cardinality(WithClosure') + ScriptsAt("uncount")'
    BY <1>2, CanRunMeans
  <2>1. WithClosure' = WithClosure
    BY <1>2 DEF WithClosure, table
  <2>2. /\ ScriptsAt("count") \in Nat /\ ScriptsAt("count")' = ScriptsAt("count")
        /\ ScriptsAt("uncount") \in Nat /\ ScriptsAt("uncount")' = ScriptsAt("uncount") - 1
        /\ ScriptsAt("uncount")' \in Nat
    BY <1>1, ScriptMoves DEF IInv, Labels
  <2>3. /\ WithClosure # {} => current # None
        /\ registered \in Nat
        /\ registered + ScriptsAt("count") = Cardinality(WithClosure) + ScriptsAt("uncount")
    BY CanRunMeans DEF IInv, RuntimeInv
  <2>4. Cardinality(WithClosure) \in Nat
    <3>1. WithClosure \in SUBSET Slots
      BY DEF WithClosure
    <3> QED
      BY <3>1, Constants, FS_Subset, FS_CardinalityType
  <2>5. registered > 0
    BY <2>2, <2>3, <2>4, UncountedHaveSlots DEF IInv
  <2>6. registered' = registered - 1
    BY <1>2, <2>5
  <2>7. registered' + ScriptsAt("count")' = Cardinality(WithClosure) + ScriptsAt("uncount")'
    BY <2>2, <2>3, <2>4, <2>6
  <2>8. Cardinality(WithClosure') = Cardinality(WithClosure)
    BY <2>1
  <2> QED
    BY <2>1, <2>3, <2>7, <2>8
<1> QED
  BY <1>3, <1>4, <1>5, <1>6, <1>7, <1>8, <1>9 DEF IInv

LEMMA TakeRuntimeKeeps ==
  ASSUME IInv, NEW t \in Threads, TakeRuntime(t)
  PROVE  IInv'
<1>1. pc[t] = "shutdown" /\ UNCHANGED <<table, registered, active, open, counts, held, slot, obj>>
  BY DEF TakeRuntime
<1>2. ClosureCountsExact'
  BY <1>1, CountsStay DEF IInv, table
<1>3. CASE registered = 0 /\ active = 0 /\ current # None
  <2>1. /\ rt' = [rt EXCEPT ![t] = current]
        /\ current' = None
        /\ disturbed' = (disturbed \/ \E u \in Scripts \ {t} : Registering(u))
        /\ Goto(t, "close")
    BY <1>3 DEF TakeRuntime
  <2>2. Labels'
    BY <1>1, <2>1 DEF IInv, Labels, Goto, ScriptLabels, NativeLabels
  <2>3. Locals'
    BY <1>1, <1>3, <2>1, Constants
    DEF IInv, RuntimeInv, Labels, Locals, Goto, WithObj, WithSlot, WithRt
  <2>4. Table'
    BY <1>1, <2>1 DEF IInv, Table, table, counts, CountsType
  <2>5. RuntimeInv'
    <3>1. Active = {}
      <4>1. Active \in SUBSET Natives
        BY DEF Active
      <4>2. IsFiniteSet(Active)
        BY <4>1, Constants, FS_Subset
      <4> QED
        BY <1>3, <4>2, FS_EmptySet DEF IInv, RuntimeInv
    <3>2. Active' = Active
      BY <1>1, <2>1 DEF IInv, Labels, Goto, Active
    <3>3. pc'[t] = "close" /\ rt'[t] = current /\ current \in open
      BY <1>3, <2>1 DEF IInv, Labels, Locals, RuntimeInv, Goto
    <3>4. \A u \in Threads : u # t => pc'[u] = pc[u] /\ rt'[u] = rt[u]
      BY <2>1 DEF IInv, Labels, Locals, Goto
    <3>5. \A u \in Threads : u # t /\ pc'[u] = "close" => rt[u] \in open /\ rt[u] # current
      BY <3>4 DEF IInv, RuntimeInv
    <3>6. None \notin open
      BY Constants DEF IInv, RuntimeInv
    <3> QED
      BY <1>1, <2>1, <3>1, <3>2, <3>3, <3>4, <3>5, <3>6 DEF IInv, RuntimeInv
  <2>6. ~disturbed' => ~disturbed /\ \A u \in Scripts : ~Registering(u) /\ ~Registering(u)'
    BY <1>1, <2>1, ScriptIsThread DEF IInv, Labels, Goto, Registering
  <2>7. \A u \in Scripts : pc'[u] \in Owns \/ pc[u] \in Owns => pc'[u] = pc[u]
    BY <1>1, <2>1, ScriptIsThread DEF IInv, Labels, Goto, Owns
  <2>8. SlotInv'
    BY <1>1, <2>6, <2>7 DEF IInv, SlotInv, table
  <2>9. RegisteredCanRun'
    <3> SUFFICES ASSUME ~disturbed'
                 PROVE  /\ WithClosure' = {}
                        /\ registered + ScriptsAt("count")'
                             = Cardinality(WithClosure') + ScriptsAt("uncount")'
      BY <1>1, CanRunMeans
    <3>1. /\ Places(Scripts, pc, "count") = {}
          /\ Places(Scripts, pc', "count") = {}
          /\ Places(Scripts, pc', "uncount") = Places(Scripts, pc, "uncount")
      BY <1>1, <2>1, <2>6, ScriptIsThread DEF Places, Registering, IInv, Labels, Goto
    <3>2. WithClosure \in SUBSET Slots /\ Places(Scripts, pc, "uncount") \in SUBSET Scripts
      BY DEF WithClosure, Places
    <3>3. IsFiniteSet(WithClosure) /\ IsFiniteSet(Places(Scripts, pc, "uncount"))
      BY <3>2, Constants, FS_Subset
    <3>4. Cardinality(WithClosure) \in Nat /\ ScriptsAt("uncount") \in Nat
      BY <3>3, FS_CardinalityType DEF ScriptsAt
    <3>5. ScriptsAt("count") = 0 /\ ScriptsAt("count")' = 0 /\ ScriptsAt("uncount")' = ScriptsAt("uncount")
      BY <3>1, FS_EmptySet DEF ScriptsAt
    <3>6. registered + ScriptsAt("count") = Cardinality(WithClosure) + ScriptsAt("uncount")
      BY <2>6, CanRunMeans DEF IInv
    <3>7. Cardinality(WithClosure) = 0 /\ ScriptsAt("uncount") = 0
      BY <1>3, <3>4, <3>5, <3>6
    <3>8. WithClosure = {} /\ WithClosure' = WithClosure
      BY <1>1, <3>3, <3>7, FS_EmptySet DEF WithClosure, table
    <3> QED
      BY <1>3, <3>5, <3>7, <3>8
  <2> QED
    BY <1>2, <2>2, <2>3, <2>4, <2>5, <2>8, <2>9 DEF IInv
<1>4. CASE ~ (registered = 0 /\ active = 0 /\ current # None)
  <2>1. Goto(t, "idle") /\ UNCHANGED <<rt, current, disturbed>>
    BY <1>4 DEF TakeRuntime
  <2>2. Labels'
    BY <1>1, <2>1 DEF IInv, Labels, Goto, ScriptLabels, NativeLabels
  <2>3. Locals'
    BY <1>1, <2>1, Constants DEF IInv, Labels, Locals, Goto, WithObj, WithSlot, WithRt
  <2>4. Table'
    BY <1>1, <2>1 DEF IInv, Table, table, counts, CountsType
  <2>5. RuntimeInv'
    BY <1>1, <2>1, KeepRuntime DEF IInv, WithRt, Labels, RuntimeInv
  <2>6. SlotInv' /\ RegisteredCanRun'
    BY <1>1, <2>1, KeepSlots DEF IInv, table, Labels, Owns
  <2> QED
    BY <1>2, <2>2, <2>3, <2>4, <2>5, <2>6 DEF IInv
<1> QED
  BY <1>3, <1>4

LEMMA CloseRuntimeKeeps ==
  ASSUME IInv, NEW t \in Threads, CloseRuntime(t)
  PROVE  IInv'
<1>1. /\ pc[t] = "close" /\ Goto(t, "idle")
      /\ open' = open \ {rt[t]} /\ rt' = [rt EXCEPT ![t] = None]
      /\ UNCHANGED <<table, current, registered, active, counts, held, slot, obj, disturbed>>
  BY DEF CloseRuntime
<1>2. Labels'
  BY <1>1 DEF IInv, Labels, Goto, ScriptLabels, NativeLabels
<1>3. Locals'
  BY <1>1, Constants DEF IInv, Labels, Locals, Goto, WithObj, WithSlot, WithRt
<1>4. Table'
  BY <1>1 DEF IInv, Table, table, counts, CountsType
<1>5. RuntimeInv'
  <2>1. Active' = Active /\ \A n \in Active : rt'[n] = rt[n]
    BY <1>1 DEF IInv, Labels, Locals, Goto, Active
  <2>2. \A u \in Threads : pc'[u] = "close" => u # t /\ pc[u] = "close" /\ rt'[u] = rt[u]
    BY <1>1 DEF IInv, Labels, Locals, Goto
  <2>3. /\ rt[t] # current
        /\ \A u \in Threads : pc[u] = "close" => rt[u] \in open /\ rt[u] # current
        /\ \A u, v \in Threads : pc[u] = "close" /\ pc[v] = "close" /\ rt[u] = rt[v] => u = v
    BY <1>1 DEF IInv, RuntimeInv
  <2>4. \A u \in Threads : pc'[u] = "close" => rt'[u] \in open' /\ rt'[u] # current
    BY <1>1, <2>2, <2>3
  <2>5. \A u, v \in Threads : pc'[u] = "close" /\ pc'[v] = "close" /\ rt'[u] = rt'[v] => u = v
    BY <2>2, <2>3
  <2>6. /\ current \in Runtimes \union {None} /\ open' \subseteq Runtimes
        /\ current # None => current \in open'
    BY <1>1, <2>3 DEF IInv, RuntimeInv
  <2> QED
    BY <1>1, <2>1, <2>4, <2>5, <2>6 DEF IInv, RuntimeInv
<1>6. ClosureCountsExact'
  BY <1>1, CountsStay DEF IInv, table
<1>7. SlotInv' /\ RegisteredCanRun'
  BY <1>1, KeepSlots DEF IInv, table, Labels, Owns
<1> QED
  BY <1>2, <1>3, <1>4, <1>5, <1>6, <1>7 DEF IInv

LEMMA NativeIsThread ==
  ASSUME NEW n \in Natives
  PROVE  n \in Threads /\ n \notin Scripts
  BY Constants

LEMMA InvokeKeeps ==
  ASSUME IInv, NEW n \in Natives, NEW s \in Slots, Invoke(n, s)
  PROVE  IInv'
<1>1. /\ n \in Threads /\ n \notin Scripts /\ pc[n] = "idle" /\ Goto(n, "retain")
      /\ slot' = [slot EXCEPT ![n] = s]
      /\ UNCHANGED <<table, runtimes, counts, held, obj, rt, disturbed>>
  BY NativeIsThread DEF Invoke
<1>2. Labels'
  BY <1>1 DEF IInv, Labels, Goto, ScriptLabels, NativeLabels
<1>3. Locals'
  BY <1>1, Constants DEF IInv, Labels, Locals, Goto, WithObj, WithSlot, WithRt
<1>4. Table'
  BY <1>1 DEF IInv, Table, table, counts, CountsType
<1>5. RuntimeInv'
  BY <1>1, KeepRuntime DEF IInv, runtimes, WithRt, Labels, RuntimeInv
<1>6. ClosureCountsExact'
  BY <1>1, CountsStay DEF IInv, table
<1>7. SlotInv' /\ RegisteredCanRun'
  BY <1>1, KeepSlots DEF IInv, table, runtimes, Labels, Locals
<1> QED
  BY <1>2, <1>3, <1>4, <1>5, <1>6, <1>7 DEF IInv

LEMMA RetainClosureKeeps ==
  ASSUME IInv, NEW n \in Natives, RetainClosure(n)
  PROVE  IInv'
<1>1. /\ n \in Threads /\ n \notin Scripts /\ pc[n] = "retain"
      /\ slot[n] \in Slots /\ obj[n] = None
      /\ slot' = [slot EXCEPT ![n] = None]
      /\ UNCHANGED <<table, runtimes, held, rt, disturbed>>
  BY NativeIsThread DEF RetainClosure, IInv, Locals, WithSlot, WithObj
<1>2. PICK k : k = closure[slot[n]]
  OBVIOUS
<1>3. \/ k = None /\ Goto(n, "idle") /\ UNCHANGED <<obj, counts>>
      \/ /\ k \in Closures
         /\ obj' = [obj EXCEPT ![n] = k]
         /\ Update(n, k, None)
         /\ Goto(n, "enter")
  BY <1>1, <1>2 DEF RetainClosure, IInv, Table
<1>4. Labels'
  <2>1. PICK l \in {"idle", "enter"} : Goto(n, l)
    BY <1>3
  <2> QED
    BY <1>1, <2>1 DEF IInv, Labels, Goto, ScriptLabels, NativeLabels
<1>5. Locals'
  BY <1>1, <1>3, Constants DEF IInv, Labels, Locals, Goto, WithObj, WithSlot, WithRt
<1>6. CountsType' /\ ClosureCountsExact'
  <2>1. CASE UNCHANGED <<obj, counts>>
    BY <1>1, <2>1, CountsStay DEF IInv, table, Table, CountsType, counts
  <2>2. CASE k \in Closures /\ obj' = [obj EXCEPT ![n] = k] /\ Update(n, k, None)
    <3>1. UNCHANGED <<held, closure>>
      BY <1>1 DEF table
    <3> QED
      BY <1>1, <2>2, <3>1, Constants, UpdateCall DEF IInv, Table, Locals
  <2> QED
    BY <1>3, <2>1, <2>2
<1>7. Table'
  BY <1>1, <1>6 DEF IInv, Table, table
<1>8. RuntimeInv'
  BY <1>1, <1>3, KeepRuntime DEF IInv, runtimes, WithRt, Labels, RuntimeInv
<1>9. SlotInv' /\ RegisteredCanRun'
  BY <1>1, <1>3, KeepSlots DEF IInv, table, runtimes, Labels, Locals
<1> QED
  BY <1>4, <1>5, <1>7, <1>8, <1>6, <1>9 DEF IInv

\* The count of the invocations follows the invocation that starts or ends.
LEMMA ActiveMoves ==
  ASSUME NEW n \in Natives, NEW l, Goto(n, l),
         pc \in [Threads -> ScriptLabels \union NativeLabels]
  PROVE  /\ Cardinality(Active) \in Nat /\ Cardinality(Active') \in Nat
         /\ Cardinality(Active') = Cardinality(Active)
              + (IF l \in {"run", "leave"} THEN 1 ELSE 0)
              - (IF pc[n] \in {"run", "leave"} THEN 1 ELSE 0)
         /\ \A m \in Active' : m # n => m \in Active
<1>1. /\ Active \in SUBSET Natives /\ Active' \in SUBSET Natives
      /\ \A m \in Natives : m # n => (m \in Active' <=> m \in Active)
      /\ n \in Active <=> pc[n] \in {"run", "leave"}
      /\ n \in Active' <=> l \in {"run", "leave"}
  BY NativeIsThread DEF Active, Goto
<1>2. IsFiniteSet(Natives)
  BY Constants
<1>3. MemberMoves(Active, Active', n)
  BY <1>1, <1>2, CountOfMembers, Zenon
<1>4. /\ Cardinality(Active) \in Nat /\ Cardinality(Active') \in Nat
      /\ Cardinality(Active') = Cardinality(Active)
           + (IF l \in {"run", "leave"} THEN 1 ELSE 0)
           - (IF pc[n] \in {"run", "leave"} THEN 1 ELSE 0)
  BY <1>1, <1>3 DEF MemberMoves
<1> QED
  BY <1>1, <1>4

LEMMA EnterRuntimeKeeps ==
  ASSUME IInv, NEW n \in Natives, EnterRuntime(n)
  PROVE  IInv'
<1>1. /\ n \in Threads /\ n \notin Scripts /\ pc[n] = "enter"
      /\ UNCHANGED <<table, current, registered, open, counts, held, slot, obj, disturbed>>
  BY NativeIsThread DEF EnterRuntime
<1>2. CASE current = None
  <2>1. Goto(n, "refused") /\ UNCHANGED <<active, rt>>
    BY <1>2 DEF EnterRuntime
  <2>2. Labels'
    BY <1>1, <2>1 DEF IInv, Labels, Goto, ScriptLabels, NativeLabels
  <2>3. Locals'
    BY <1>1, <2>1, Constants DEF IInv, Labels, Locals, Goto, WithObj, WithSlot, WithRt
  <2>4. Table'
    BY <1>1 DEF IInv, Table, table, counts, CountsType
  <2>5. RuntimeInv'
    BY <1>1, <2>1, KeepRuntime DEF IInv, WithRt, Labels, RuntimeInv
  <2>6. ClosureCountsExact'
    BY <1>1, CountsStay DEF IInv, table
  <2>7. SlotInv' /\ RegisteredCanRun'
    BY <1>1, <2>1, KeepSlots DEF IInv, table, Labels
  <2> QED
    BY <2>2, <2>3, <2>4, <2>5, <2>6, <2>7 DEF IInv
<1>3. CASE current # None
  <2>1. /\ rt' = [rt EXCEPT ![n] = current]
        /\ active' = active + 1
        /\ Goto(n, "run")
    BY <1>3 DEF EnterRuntime
  <2>2. Labels'
    BY <1>1, <2>1 DEF IInv, Labels, Goto, ScriptLabels, NativeLabels
  <2>3. Locals'
    BY <1>1, <1>3, <2>1, Constants
    DEF IInv, RuntimeInv, Labels, Locals, Goto, WithObj, WithSlot, WithRt
  <2>4. Table'
    BY <1>1 DEF IInv, Table, table, counts, CountsType
  <2>5. RuntimeInv'
    <3>1. active' = Cardinality(Active')
      <4>1. Cardinality(Active) \in Nat /\ Cardinality(Active') = Cardinality(Active) + 1
        BY <1>1, <2>1, ActiveMoves DEF IInv, Labels
      <4> QED
        BY <2>1, <4>1 DEF IInv, RuntimeInv
    <3>2. \A m \in Active' : rt'[m] = current
      BY <1>1, <2>1, ActiveMoves, NativeIsThread DEF IInv, Labels, Locals, RuntimeInv, Active
    <3>3. \A u \in Threads : pc'[u] = "close" => pc[u] = "close" /\ rt'[u] = rt[u]
      BY <1>1, <2>1 DEF IInv, Labels, Locals, Goto
    <3> QED
      BY <1>1, <3>1, <3>2, <3>3 DEF IInv, RuntimeInv
  <2>6. ClosureCountsExact'
    BY <1>1, CountsStay DEF IInv, table
  <2>7. SlotInv' /\ RegisteredCanRun'
    BY <1>1, <2>1, KeepSlots DEF IInv, table, Labels
  <2> QED
    BY <2>2, <2>3, <2>4, <2>5, <2>6, <2>7 DEF IInv
<1> QED
  BY <1>2, <1>3

\* A call or an invocation releases its closure.
LEMMA GiveUpClosure ==
  ASSUME IInv, NEW t \in Threads, NEW l,
         \/ t \in Scripts /\ pc[t] = "return" /\ l = "idle"
         \/ t \in Natives /\ pc[t] = "refused" /\ l = "idle"
         \/ t \in Natives /\ pc[t] = "run" /\ l = "leave"
         \/ t \in Natives /\ pc[t] = "drop" /\ l = "shutdown",
         Goto(t, l), obj' = [obj EXCEPT ![t] = None], Update(t, None, obj[t]),
         UNCHANGED <<table, runtimes, held, slot, rt, disturbed>>
  PROVE  IInv'
<1>1. /\ pc[t] \in {"return", "refused", "run", "drop"} /\ obj[t] \in Closures
      /\ UNCHANGED <<used, closure, dispatch, held, slot, rt, disturbed>>
  BY DEF IInv, Locals, WithObj, table
<1>2. Labels'
  BY Constants DEF IInv, Labels, Goto, ScriptLabels, NativeLabels
<1>3. Locals'
  BY Constants DEF IInv, Labels, Locals, Goto, WithObj, WithSlot, WithRt
<1>4. CountsType' /\ ClosureCountsExact'
  <2>1. \A k \in Closures : obj'[t] # k /\ k # None
    BY Constants DEF IInv, Locals
  <2>2. \A u \in Threads : u # t => obj'[u] = obj[u]
    OBVIOUS
  <2> QED
    BY <1>1, <2>1, <2>2, UpdateCall DEF IInv, Table
<1>5. Table'
  BY <1>1, <1>4 DEF IInv, Table
<1>6. RuntimeInv'
  <2>1. Active' = Active
    BY Constants DEF IInv, Labels, Goto, Active
  <2>2. \A u \in Threads : pc'[u] = "close" => pc[u] = "close"
    BY DEF IInv, Labels, Goto
  <2> QED
    BY <1>1, <2>1, <2>2 DEF IInv, RuntimeInv, runtimes
<1>7. SlotInv' /\ RegisteredCanRun'
  BY <1>1, KeepSlots DEF IInv, runtimes, Labels, Owns
<1> QED
  BY <1>2, <1>3, <1>4, <1>5, <1>6, <1>7 DEF IInv

LEMMA RunClosureKeeps ==
  ASSUME IInv, NEW n \in Natives, RunClosure(n)
  PROVE  IInv'
  BY NativeIsThread, GiveUpClosure DEF RunClosure, ReleaseClosure

LEMMA RefuseCallKeeps ==
  ASSUME IInv, NEW n \in Natives, RefuseCall(n)
  PROVE  IInv'
  BY NativeIsThread, GiveUpClosure DEF RefuseCall, ReleaseClosure

LEMMA RegisterReturnsKeeps ==
  ASSUME IInv, NEW t \in Scripts, RegisterReturns(t)
  PROVE  IInv'
  BY ScriptIsThread, GiveUpClosure DEF RegisterReturns

\* An invocation is uncounted, after it has run or because it cannot.
LEMMA UncountInvocation ==
  ASSUME IInv, NEW n \in Natives, NEW l \in {"drop", "shutdown"},
         pc[n] = IF l = "drop" THEN "run" ELSE "leave",
         Goto(n, l), active' = active - 1, rt' = [rt EXCEPT ![n] = None],
         UNCHANGED <<table, current, registered, open, counts, held, slot, obj, disturbed>>
  PROVE  IInv'
<1>1. n \in Threads /\ n \notin Scripts
  BY NativeIsThread
<1>2. Labels'
  BY <1>1 DEF IInv, Labels, Goto, ScriptLabels, NativeLabels
<1>3. Locals'
  BY <1>1, Constants DEF IInv, Labels, Locals, Goto, WithObj, WithSlot, WithRt
<1>4. Table'
  BY DEF IInv, Table, table, counts, CountsType
<1>5. RuntimeInv'
  <2>1. active' = Cardinality(Active')
    <3>1. Cardinality(Active) \in Nat /\ Cardinality(Active') = Cardinality(Active) - 1
      BY ActiveMoves DEF IInv, Labels
    <3> QED
      BY <3>1 DEF IInv, RuntimeInv
  <2>2. \A m \in Active' : m # n /\ m \in Active
    BY <1>1, NativeIsThread DEF IInv, Labels, Goto, Active
  <2>3. \A m \in Active' : rt'[m] = current
    BY <2>2, NativeIsThread DEF IInv, Locals, RuntimeInv, Active
  <2>4. \A u \in Threads : pc'[u] = "close" => pc[u] = "close" /\ rt'[u] = rt[u]
    BY <1>1 DEF IInv, Labels, Locals, Goto
  <2> QED
    BY <2>1, <2>3, <2>4 DEF IInv, RuntimeInv
<1>6. ClosureCountsExact'
  BY CountsStay DEF IInv, table
<1>7. SlotInv' /\ RegisteredCanRun'
  BY <1>1, KeepSlots DEF IInv, table, Labels
<1> QED
  BY <1>2, <1>3, <1>4, <1>5, <1>6, <1>7 DEF IInv

LEMMA OpenFailsKeeps ==
  ASSUME IInv, NEW n \in Natives, OpenFails(n)
  PROVE  IInv'
  BY UncountInvocation DEF OpenFails

LEMMA LeaveRuntimeKeeps ==
  ASSUME IInv, NEW n \in Natives, LeaveRuntime(n)
  PROVE  IInv'
  BY UncountInvocation DEF LeaveRuntime

LEMMA DropClosureKeeps ==
  ASSUME IInv, NEW n \in Natives, DropClosure(n)
  PROVE  IInv'
  BY NativeIsThread, GiveUpClosure DEF DropClosure, ReleaseClosure

LEMMA ForgetKeeps ==
  ASSUME IInv, NEW t \in Scripts, NEW k \in Closures, Forget(t, k)
  PROVE  IInv'
<1>1. /\ k \in held[t] /\ held' = [held EXCEPT ![t] = @ \ {k}]
      /\ Update(t, None, k)
      /\ UNCHANGED <<table, runtimes, pc, slot, obj, rt, disturbed>>
  BY DEF Forget
<1>2. CountsType'
  BY <1>1, UpdateMeans DEF IInv, Table
<1>3. Labels' /\ Locals' /\ Table'
  BY <1>1, <1>2 DEF IInv, Labels, Locals, Table, table
<1>4. RuntimeInv'
  <2>1. Active' = Active
    BY <1>1 DEF Active
  <2> QED
    BY <1>1, <2>1 DEF IInv, RuntimeInv, runtimes
<1>5. ClosureCountsExact'
  <2> SUFFICES ASSUME ~lost', NEW j \in Closures
               PROVE  rc'[j] = BySlots(j)' + ByCalls(j)' + ByScripts(j)'
    BY <1>2, CountsMean
  <2>1. BySlots(j)' = BySlots(j) /\ ByCalls(j)' = ByCalls(j)
    BY <1>1 DEF BySlots, ByCalls, table
  <2>2. BySlots(j) \in Nat /\ ByCalls(j) \in Nat
    BY SlotsCounted, CallsCounted
  <2>3. ~lost /\ rc'[j] = IF j = k THEN rc[j] - 1 ELSE rc[j]
    <3>1. /\ ~lost /\ j # None /\ rc[j] \in Int
          /\ rc'[j] = rc[j] + (IF j = None THEN 1 ELSE 0) - (IF j = k THEN 1 ELSE 0)
      BY <1>1, UpdateMeans, Constants DEF IInv, Table, CountsType
    <3> QED
      BY <3>1
  <2>4. rc[j] = BySlots(j) + ByCalls(j) + ByScripts(j)
    BY <2>3, CountsMean DEF IInv
  <2>5. ByScripts(j) \in Nat /\ ByScripts(j)' = IF j = k THEN ByScripts(j) - 1 ELSE ByScripts(j)
    <3>1. /\ Holders(j) \in SUBSET Scripts /\ Holders(j)' \in SUBSET Scripts
          /\ \A u \in Scripts : u # t => (u \in Holders(j)' <=> u \in Holders(j))
          /\ t \in Holders(j)' <=> t \in Holders(j) /\ j # k
          /\ t \in Holders(k)
      BY <1>1 DEF Holders, IInv, Table
    <3>2. IsFiniteSet(Scripts)
      BY Constants
    <3>3. MemberMoves(Holders(j), Holders(j)', t)
      BY <3>1, <3>2, CountOfMembers, Zenon
    <3> QED
      BY <3>1, <3>3 DEF MemberMoves, ByScripts
  <2> QED
    BY <2>1, <2>2, <2>3, <2>4, <2>5
<1>6. SlotInv' /\ RegisteredCanRun'
  BY <1>1 DEF IInv, SlotInv, RegisteredCanRun, Registering, table, runtimes
<1> QED
  BY <1>3, <1>4, <1>5, <1>6 DEF IInv

LEMMA LoadKeeps ==
  ASSUME IInv, NEW t \in Threads, Load(t)
  PROVE  IInv'
<1>1. UNCHANGED <<used, closure, dispatch, current, registered, active, open>>
  BY DEF Load, table, runtimes
<1>2. UNCHANGED <<rc, lost, held, pc, slot, obj, rt, disturbed>>
  BY DEF Load
<1>3. CountsType'
  <2>1. PICK k \in ToUpdate(t) : half' = [by |-> t, obj |-> k, read |-> rc[k]]
    BY DEF Load
  <2>2. k \in Closures
    BY <2>1 DEF ToUpdate
  <2> QED
    BY <1>2, <2>1, <2>2 DEF IInv, Table, CountsType
<1>4. Labels' /\ Locals' /\ Table' /\ RuntimeInv'
  BY <1>1, <1>2, <1>3 DEF IInv, Labels, Locals, Table, RuntimeInv, Active
<1>5. ClosureCountsExact' /\ SlotInv' /\ RegisteredCanRun'
  BY <1>1, <1>2 DEF IInv, ClosureCountsExact, SlotInv, RegisteredCanRun, Registering
<1> QED
  BY <1>4, <1>5 DEF IInv

LEMMA InitIInv ==
  ASSUME Init
  PROVE  IInv
<1>1. Labels /\ Locals /\ Table
  <2>1. Labels
    BY Constants DEF Init, Labels, ScriptLabels, NativeLabels
  <2>2. Locals
    BY Constants DEF Init, Locals, WithObj, WithSlot, WithRt
  <2>3. Table
    <3>1. used \in [Slots -> BOOLEAN] /\ dispatch \in BOOLEAN /\ disturbed \in BOOLEAN
      BY DEF Init
    <3>2. closure \in [Slots -> Closures \union {None}]
      BY DEF Init
    <3>3. CountsType /\ held \in [Scripts -> SUBSET Closures]
      <4>1. PICK n \in Nat : n = Cardinality(Scripts)
        BY Constants, FS_CardinalityType
      <4>2. rc = [k \in Closures |-> n]
        BY <4>1 DEF Init
      <4>3. lost = FALSE /\ half = NoLoad /\ held = [t \in Scripts |-> Closures]
        BY DEF Init
      <4>4. Closures \in SUBSET Closures
        OBVIOUS
      <4>5. held \in [Scripts -> SUBSET Closures]
        BY <4>3, <4>4
      <4>6. CountsType
        <5>1. rc \in [Closures -> Int]
          BY <4>2
        <5>2. half \in {NoLoad} \union [by : Threads, obj : Closures, read : Int]
          BY <4>3
        <5>3. lost \in BOOLEAN
          BY <4>3
        <5> QED
          BY <5>1, <5>2, <5>3 DEF CountsType
      <4> QED
        BY <4>5, <4>6
    <3> QED
      BY <3>1, <3>2, <3>3 DEF Table
  <2> QED
    BY <2>1, <2>2, <2>3
<1>2. RuntimeInv
  <2>1. Active = {}
    BY Constants DEF Init, Active
  <2> QED
    BY <2>1, FS_EmptySet, Constants DEF Init, RuntimeInv
<1>3. ClosureCountsExact
  <2>1. \A k \in Closures : Places(Slots, closure, k) = {} /\ Places(Threads, obj, k) = {}
    BY Constants DEF Init, Places
  <2>2. \A k \in Closures : BySlots(k) = 0 /\ ByCalls(k) = 0
    BY <2>1, FS_EmptySet DEF BySlots, ByCalls
  <2>3. \A k \in Closures : Holders(k) = Scripts
    BY DEF Init, Holders
  <2>4. Cardinality(Scripts) \in Nat
    BY Constants, FS_CardinalityType
  <2> QED
    BY <2>2, <2>3, <2>4, CountsMean DEF Init, ByScripts
<1>4. SlotInv
  BY Constants DEF Init, SlotInv, Owns, Registering
<1>5. RegisteredCanRun
  <2>1. WithClosure = {} /\ Places(Scripts, pc, "count") = {} /\ Places(Scripts, pc, "uncount") = {}
    BY Constants DEF Init, WithClosure, Places
  <2> QED
    BY <2>1, FS_EmptySet, CanRunMeans DEF Init, ScriptsAt
<1> QED
  BY <1>1, <1>2, <1>3, <1>4, <1>5 DEF IInv

LEMMA NextIInv ==
  ASSUME IInv, [Next]_vars
  PROVE  IInv'
<1>1. CASE UNCHANGED vars
  <2>1. /\ UNCHANGED <<used, closure, dispatch, current, registered, active, open>>
        /\ UNCHANGED <<rc, half, lost, held, pc, slot, obj, rt, disturbed>>
    BY <1>1 DEF vars, table, runtimes, counts
  <2>2. Labels' /\ Locals' /\ Table' /\ RuntimeInv'
    BY <2>1 DEF IInv, Labels, Locals, Table, CountsType, RuntimeInv, Active
  <2>3. ClosureCountsExact' /\ SlotInv' /\ RegisteredCanRun'
    BY <2>1 DEF IInv, ClosureCountsExact, SlotInv, RegisteredCanRun, Registering
  <2> QED
    BY <2>2, <2>3 DEF IInv
<1>2. ASSUME NEW t \in Scripts, ScriptStep(t)
      PROVE  IInv'
  BY <1>2, AllocSlotKeeps, EnsureRuntimeKeeps, InstallDispatchKeeps, SetClosureKeeps,
     CountRegisteredKeeps, UndoRegisterKeeps, RegisterReturnsKeeps, FreeSlotKeeps, UncountKeeps DEF ScriptStep
<1>3. ASSUME NEW n \in Natives, NativeStep(n)
      PROVE  IInv'
  BY <1>3, RetainClosureKeeps, EnterRuntimeKeeps, RefuseCallKeeps, RunClosureKeeps,
     OpenFailsKeeps, DropClosureKeeps, LeaveRuntimeKeeps DEF NativeStep
<1> QED
  BY <1>1, <1>2, <1>3, CallRegisterKeeps, CallFreeKeeps, InvokeKeeps, TakeRuntimeKeeps,
     CloseRuntimeKeeps, ForgetKeeps, LoadKeeps DEF Next, ShutdownStep
------------------------------------------------------------------------------
\* The invariant holds in every state of the pool and its runtime.
THEOREM FfiInvariance == Spec => []IInv
<1> QED
  BY InitIInv, NextIInv, PTL DEF Spec

\* The state keeps its types; the counts of callbacks and of invocations
\* never fall below 0.
THEOREM FfiTypeCorrect == Spec => []TypeOK
<1>1. ASSUME IInv PROVE TypeOK
  <2>1. active \in Nat
    <3>1. Active \in SUBSET Natives
      BY DEF Active
    <3> QED
      BY <1>1, <3>1, Constants, FS_Subset, FS_CardinalityType DEF IInv, RuntimeInv
  <2>2. pc \in [Threads -> {"idle", "alloc", "ensure", "install", "set", "count", "undo",
                            "return", "free", "uncount", "shutdown", "close",
                            "retain", "enter", "refused", "run", "drop", "leave"}]
    BY <1>1 DEF IInv, Labels, ScriptLabels, NativeLabels
  <2> QED
    BY <1>1, <2>1, <2>2 DEF IInv, Locals, Table, CountsType, RuntimeInv, TypeOK
<1> QED
  BY <1>1, FfiInvariance, PTL

\* The runtime an invocation has entered stays open until the invocation is
\* uncounted, however many threads register, free and invoke
\* (ffi.c:766, ffi.c:797).
THEOREM RuntimeOpenAlways == Spec => []RuntimeOpenWhileRunning
<1>1. ASSUME IInv PROVE RuntimeOpenWhileRunning
  BY <1>1, Constants
  DEF IInv, RuntimeInv, Locals, Active, WithRt, RuntimeOpenWhileRunning
<1> QED
  BY <1>1, FfiInvariance, PTL

\* Until an update of a count is lost, a closure has a reference for every
\* slot, call, invocation and script that uses it, and no more
\* (ffi_callback.c:47, ffi_callback.c:85).
THEOREM ClosureCountsAlways == Spec => []ClosureCountsExact
<1>1. IInv => ClosureCountsExact
  BY DEF IInv
<1> QED
  BY <1>1, FfiInvariance, PTL

\* A registered callback can be invoked, unless a free has met a
\* registration or another free half way (ffi.c:847).
THEOREM RegisteredCanRunAlways == Spec => []RegisteredCanRun
<1>1. IInv => RegisteredCanRun
  BY DEF IInv
<1> QED
  BY <1>1, FfiInvariance, PTL
==============================================================================
