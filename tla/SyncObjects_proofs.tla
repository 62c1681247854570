------------------------- MODULE SyncObjects_proofs -------------------------
(***************************************************************************)
(* Proofs about the synchronisation objects, for every set of threads and  *)
(* every number of handles: type correctness and the invariants of any     *)
(* script, and the safety of memory under a careful one.                   *)
(***************************************************************************)
EXTENDS SyncObjects, TLAPS

\* Where an actor is, what its call does, and what it is about.
PhaseInv ==
  \A a \in Actors :
    /\ pc[a] = "idle" => op[a] = "none" /\ about[a] = {}
    /\ pc[a] \in {"ensure", "init", "alloc", "create", "store"} =>
         op[a] \in Kinds /\ pending[a] = {}
    /\ pc[a] \in {"lookup", "inside"} => op[a] \in {"use", "wait", "destroy"}
    /\ pc[a] = "clear" => op[a] = "destroy"
    /\ op[a] = "destroy" => \E s \in Slots : about[a] = {s}
    /\ pending[a] \subseteq about[a]
    /\ pc[a] = "lookup" /\ got[a] = {} => pending[a] # {}

\* The set-up is one actor's, and until it is done there is nothing.
SetUpInv ==
  /\ initAt # "mutex" => "mutex" \in ready
  /\ initAt \in {"rwlock", "done"} => "cond" \in ready
  /\ initAt = "done" => "rwlock" \in ready
  /\ registriesState = 2 => initAt = "done"
  /\ \A a \in Actors : pc[a] = "init" =>
       registriesState = 1 /\ \A b \in Actors : pc[b] = "init" => a = b
  /\ \A a \in Actors : pc[a] \in {"alloc", "create", "store"} => registriesState = 2
  /\ registriesState # 2 =>
       /\ \A k \in Kinds : count[k] = 0
       /\ \A s \in Slots : item[s] = None
       /\ live = {} /\ published = {}

Reserved(s) == s[2] < count[s[1]]

\* The entries of the registries.
SlotInv ==
  /\ \A s \in published : Reserved(s)
  /\ \A s \in Slots : item[s] # None => s \in published \ retired /\ item[s] < created
  /\ \A s, t \in Slots : item[s] = item[t] /\ item[s] # None => s = t
  /\ retired \subseteq published
  /\ \A o \in live : o < created

\* A create that has its handle.
CreateInv ==
  \A a \in Actors : Creating(a) =>
    /\ \E s \in Slots : about[a] = {s}
    /\ \A s \in about[a] :
         /\ Reserved(s) /\ s \notin published
         /\ \A b \in Actors : Creating(b) /\ s \in about[b] => a = b

\* The object a create is about to store is known to no one else.
NewInv ==
  \A a \in Actors : pc[a] = "store" =>
    \E o \in live :
      /\ got[a] = {o}
      /\ \A s \in Slots : item[s] # o
      /\ \A b \in Actors : pc[b] = "store" /\ o \in got[b] => a = b

\* The pointers of a call come from its slots, which hold them still, or a
\* destroy has freed the object since.
TakeInv ==
  \A a \in Actors :
    /\ pc[a] \in {"lookup", "inside", "clear"} =>
         \A o \in got[a] \ {None} :
           o < created /\ \E s \in about[a] : s \in published /\ item[s] \in {o, None}
                                              /\ (item[s] = None => o \notin live)
    /\ pc[a] = "clear" => got[a] # {} /\ None \notin got[a] /\ got[a] \cap live = {}

KeepInv ==
  \A s \in published \ retired :
    item[s] \in live \/ \E a \in Actors : s \in about[a] /\ pc[a] = "clear"

LostInv ==
  \A o \in live :
    \/ \E s \in Slots : item[s] = o
    \/ \E a \in Actors : pc[a] = "store" /\ o \in got[a]

IInv ==
  /\ TypeOK
  /\ PhaseInv
  /\ SetUpInv
  /\ SlotInv
  /\ CreateInv
  /\ NewInv
  /\ TakeInv
  /\ KeepInv
  /\ LostInv
  /\ fault = "null lock" => published = {}

\* Until a script disturbs itself: no destroy shares its handle with another
\* call, and what a call has looked up is allocated.
Concerns(a, s)   == s \in about[a] /\ op[a] \in {"use", "wait", "destroy"}
Destroying(a, s) == s \in about[a] /\ op[a] = "destroy"

NoOverlap ==
  \A a, b \in Actors, s \in Slots :
    Destroying(a, s) /\ Concerns(b, s) => a = b

GotLive ==
  \A a \in Actors : pc[a] \in {"lookup", "inside"} => got[a] \ {None} \subseteq live

CarefulInv == IInv /\ NoOverlap /\ GotLive /\ fault # "freed object"

SafeInv == IInv /\ (disturbed = FALSE => CarefulInv)
------------------------------------------------------------------------------
\* A slot is a kind and a handle.
LEMMA SlotFacts ==
  /\ \A s \in Slots : s[1] \in Kinds /\ s[2] \in Handles /\ s = <<s[1], s[2]>>
  /\ \A k \in Kinds, h \in Handles :
       <<k, h>> \in Slots /\ <<k, h>>[1] = k /\ <<k, h>>[2] = h
  /\ Handles \subseteq Nat
BY SyncAssumption DEF Slots, Kinds, Handles

LEMMA InitInv == Init => IInv
<1> SUFFICES ASSUME Init PROVE IInv
  OBVIOUS
<1>1. TypeOK
  <2>1. disturbed \in BOOLEAN
    BY Zenon DEF Init
  <2>2. 0 \in 0 .. MaxInitFailures /\ 0 \in 0 .. MaxHandles
    BY SyncAssumption
  <2> QED
    BY <2>1, <2>2 DEF Init, TypeOK, Kinds
<1> USE SyncAssumption DEF Init
<1>2. PhaseInv
  BY DEF PhaseInv
<1>3. SetUpInv
  BY DEF SetUpInv
<1>4. SlotInv
  BY DEF SlotInv
<1>5. CreateInv /\ NewInv /\ TakeInv
  BY DEF CreateInv, NewInv, TakeInv, Creating
<1>6. KeepInv /\ LostInv
  BY DEF KeepInv, LostInv
<1> QED
  BY <1>1, <1>2, <1>3, <1>4, <1>5, <1>6 DEF IInv

\* The steps of one actor.
StepOf(a) ==
  \/ Step(a) \/ Return(a)
  \/ \E k \in Kinds : CallCreate(a, k)
  \/ \E s \in Slots : CallUse(a, s) \/ CallDestroy(a, s)
  \/ \E c \in OfKind("cond"), m \in OfKind("mutex") : CallWait(a, c, m)

\* The steps that change no registry and no object.
QuietStep(a) ==
  \/ \E k \in Kinds : CallCreate(a, k)
  \/ EnsureReady(a) \/ EnsureClaim(a) \/ InitDone(a) \/ CreateFails(a)
  \/ \E s \in Slots :
       CallUse(a, s) \/ CallDestroy(a, s) \/ Lookup(a, s) \/ LookupFaults(a, s)
  \/ \E c \in OfKind("cond"), m \in OfKind("mutex") : CallWait(a, c, m)
  \/ Reject(a) \/ Enter(a) \/ Return(a) \/ TouchFreed(a)

\* They take no actor into, and no actor that has a new object or a freed one
\* out of, the phases in which a slot is filled or emptied.
Frame ==
  /\ UNCHANGED <<count, item, live, created, published, retired>>
  /\ \A b \in Actors :
       pc'[b] \in {"create", "store", "clear"} \/ pc[b] \in {"store", "clear"}
         => pc'[b] = pc[b] /\ about'[b] = about[b] /\ got'[b] = got[b]

LEMMA QuietFrame ==
  ASSUME TypeOK, NEW a \in Actors, QuietStep(a)
  PROVE  Frame
<1> USE DEF TypeOK, At, Go, Running, setup, entries, objects, history, Frame
<1>1. ASSUME NEW k \in Kinds, CallCreate(a, k)
       PROVE  Frame
  BY <1>1 DEF CallCreate, Begin, Goes
<1>2. CASE EnsureReady(a)
  BY <1>2 DEF EnsureReady
<1>3. CASE EnsureClaim(a)
  BY <1>3 DEF EnsureClaim
<1>4. CASE InitDone(a)
  BY <1>4 DEF InitDone
<1>5. CASE CreateFails(a)
  BY <1>5 DEF CreateFails, Finish, Goes
<1>6. ASSUME NEW s \in Slots, CallUse(a, s)
       PROVE  Frame
  BY <1>6 DEF CallUse, Begin, Goes
<1>7. ASSUME NEW c \in OfKind("cond"), NEW m \in OfKind("mutex"), CallWait(a, c, m)
       PROVE  Frame
  BY <1>7 DEF CallWait, Begin, Goes, OfKind
<1>8. ASSUME NEW s \in Slots, CallDestroy(a, s)
       PROVE  Frame
  BY <1>8 DEF CallDestroy, Begin, Goes
<1>9. ASSUME NEW s \in Slots, Lookup(a, s)
       PROVE  Frame
  BY <1>9 DEF Lookup, NextLookup, Named
<1>10. ASSUME NEW s \in Slots, LookupFaults(a, s)
       PROVE  Frame
  BY <1>10 DEF LookupFaults, NextLookup
<1>11. CASE Reject(a)
  BY <1>11 DEF Reject, LookedUp, Finish, Goes
<1>12. CASE Enter(a)
  BY <1>12 DEF Enter, LookedUp
<1>13. CASE Return(a)
  BY <1>13 DEF Return, Finish, Goes
<1>14. CASE TouchFreed(a)
  BY <1>14 DEF TouchFreed, Works
<1> QED
  BY <1>1, <1>2, <1>3, <1>4, <1>5, <1>6, <1>7, <1>8, <1>9, <1>10, <1>11, <1>12, <1>13,
     <1>14 DEF QuietStep

LEMMA TypeOKStep ==
  ASSUME IInv, NEW a \in Actors, StepOf(a)
  PROVE  TypeOK'
<1> USE DEF At, Go, Running, setup, entries, objects, history
<1>1. CASE EnsureClaim(a)
  BY <1>1 DEF EnsureClaim, Kinds, IInv, TypeOK
<1>2. CASE InitRegistry(a)
  <2>1. 0 \in 0 .. MaxHandles
    BY SyncAssumption
  <2> QED
    BY <1>2, <2>1 DEF InitRegistry, Emptied, Kinds, Following, IInv, TypeOK
<1>3. CASE Alloc(a)
  <2>1. op[a] \in Kinds /\ count[op[a]] \in 0 .. MaxHandles /\ count[op[a]] < MaxHandles
    BY <1>3 DEF Alloc, PhaseInv, IInv, TypeOK
  <2>2. count[op[a]] \in Handles /\ count[op[a]] + 1 \in 0 .. MaxHandles
    BY <2>1, SyncAssumption DEF Handles
  <2>3. <<op[a], count[op[a]]>> \in Slots
    BY <2>1, <2>2, SlotFacts
  <2> QED
    BY <1>3, <2>1, <2>2, <2>3 DEF Alloc, IInv, TypeOK
<1> USE SyncAssumption DEF IInv, PhaseInv, TypeOK
<1>4. ASSUME NEW k \in Kinds, CallCreate(a, k)
       PROVE  TypeOK'
  BY <1>4 DEF CallCreate, Begin, Goes
<1>5. CASE EnsureReady(a)
  BY <1>5 DEF EnsureReady
<1>6. CASE InitFails(a)
  BY <1>6 DEF InitFails, Emptied, Finish, Goes
<1>7. CASE InitDone(a)
  BY <1>7 DEF InitDone
<1>8. CASE CreateFails(a)
  BY <1>8 DEF CreateFails, Finish, Goes
<1>9. CASE CreateObject(a)
  BY <1>9 DEF CreateObject
<1>10. CASE Store(a)
  BY <1>10 DEF Store, Finish, Goes
<1>11. ASSUME NEW s \in Slots, CallUse(a, s)
       PROVE  TypeOK'
  <2>1. disturbed' \in BOOLEAN
    BY <1>11 DEF CallUse
  <2> QED
    BY <1>11, <2>1 DEF CallUse, Begin, Goes
<1>12. ASSUME NEW c \in OfKind("cond"), NEW m \in OfKind("mutex"), CallWait(a, c, m)
       PROVE  TypeOK'
  <2>1. disturbed' \in BOOLEAN
    BY <1>12 DEF CallWait
  <2> QED
    BY <1>12, <2>1 DEF CallWait, Begin, Goes, OfKind
<1>13. ASSUME NEW s \in Slots, CallDestroy(a, s)
       PROVE  TypeOK'
  <2>1. disturbed' \in BOOLEAN
    BY <1>13 DEF CallDestroy
  <2> QED
    BY <1>13, <2>1 DEF CallDestroy, Begin, Goes
<1>14. ASSUME NEW s \in Slots, Lookup(a, s)
       PROVE  TypeOK'
  BY <1>14 DEF Lookup, NextLookup, Named
<1>15. ASSUME NEW s \in Slots, LookupFaults(a, s)
       PROVE  TypeOK'
  BY <1>15 DEF LookupFaults, NextLookup
<1>16. CASE Reject(a)
  BY <1>16 DEF Reject, LookedUp, Finish, Goes
<1>17. CASE Enter(a)
  BY <1>17 DEF Enter, LookedUp
<1>18. CASE Return(a)
  BY <1>18 DEF Return, Finish, Goes
<1>19. CASE FreeObject(a)
  BY <1>19 DEF FreeObject, LookedUp
<1>20. CASE Clear(a)
  BY <1>20 DEF Clear, Finish, Goes
<1>21. CASE TouchFreed(a)
  BY <1>21 DEF TouchFreed, Works
<1> QED
  BY <1>1, <1>2, <1>3, <1>4, <1>5, <1>6, <1>7, <1>8, <1>9, <1>10, <1>11, <1>12, <1>13,
     <1>14, <1>15, <1>16, <1>17, <1>18, <1>19, <1>20, <1>21 DEF StepOf, Step

LEMMA PhaseInvStep ==
  ASSUME IInv, NEW a \in Actors, StepOf(a)
  PROVE  PhaseInv'
<1> USE DEF At, Go, Running, setup, entries, objects, history
<1>1. ASSUME NEW k \in Kinds, CallCreate(a, k)
       PROVE  PhaseInv'
  BY <1>1 DEF CallCreate, Begin, Goes, Kinds, IInv, TypeOK, PhaseInv
<1>2. CASE Alloc(a)
  <2>1. op[a] \in Kinds /\ op[a] # "destroy"
    BY <1>2 DEF Alloc, Kinds, IInv, PhaseInv
  <2> QED
    BY <1>2, <2>1 DEF Alloc, IInv, TypeOK, PhaseInv
<1>3. ASSUME NEW o \in {"use", "wait", "destroy"}, NEW slots \in SUBSET Slots, slots # {},
              o = "destroy" => \E s \in Slots : slots = {s}, Begin(a, "lookup", o,
     slots)
       PROVE  PhaseInv'
  <2>1. /\ pc'[a] = "lookup" /\ op'[a] = o /\ about'[a] = slots
        /\ pending'[a] = slots /\ got'[a] = {}
        /\ \A b \in Actors : b # a =>
             /\ pc'[b] = pc[b] /\ op'[b] = op[b] /\ about'[b] = about[b]
             /\ pending'[b] = pending[b] /\ got'[b] = got[b]
    BY <1>3 DEF Begin, Goes, IInv, TypeOK
  <2>2. PhaseInv
    BY DEF IInv
  <2> QED
    BY <1>3, <2>1, <2>2 DEF PhaseInv
<1>4. ASSUME NEW s \in Slots, CallUse(a, s) \/ CallDestroy(a, s)
       PROVE  PhaseInv'
  <2>1. {s} \in SUBSET Slots /\ {s} # {}
    OBVIOUS
  <2> QED
    BY <1>3, <1>4, <2>1 DEF CallUse, CallDestroy
<1>5. ASSUME NEW c \in OfKind("cond"), NEW m \in OfKind("mutex"), CallWait(a, c, m)
       PROVE  PhaseInv'
  <2>1. {c, m} \in SUBSET Slots /\ {c, m} # {}
    BY DEF OfKind
  <2> QED
    BY <1>3, <1>5, <2>1 DEF CallWait
<1>6. CASE InitFails(a) \/ CreateFails(a) \/ Store(a) \/ Reject(a) \/ Return(a) \/ Clear(a)
  <2>1. Finish(a)
    BY <1>6 DEF InitFails, CreateFails, Store, Reject, Return, Clear
  <2>2. /\ pc'[a] = "idle" /\ op'[a] = "none" /\ about'[a] = {}
        /\ pending'[a] = {} /\ got'[a] = {}
        /\ \A b \in Actors : b # a =>
             /\ pc'[b] = pc[b] /\ op'[b] = op[b] /\ about'[b] = about[b]
             /\ pending'[b] = pending[b] /\ got'[b] = got[b]
    BY <2>1 DEF Finish, Goes, IInv, TypeOK
  <2>3. PhaseInv
    BY DEF IInv
  <2> QED
    BY <2>2, <2>3 DEF PhaseInv
<1>7. ASSUME NEW s \in Slots, Lookup(a, s)
       PROVE  PhaseInv'
  <2>1. /\ UNCHANGED <<pc, op, about>>
        /\ pending'[a] \subseteq pending[a] /\ got'[a] # {}
        /\ \A b \in Actors : b # a => pending'[b] = pending[b] /\ got'[b] = got[b]
    BY <1>7 DEF Lookup, NextLookup, IInv, TypeOK
  <2>2. PhaseInv
    BY DEF IInv
  <2> QED
    BY <2>1, <2>2 DEF PhaseInv
<1> USE SyncAssumption DEF IInv, PhaseInv, TypeOK
<1>8. CASE EnsureReady(a)
  BY <1>8 DEF EnsureReady
<1>9. CASE EnsureClaim(a)
  BY <1>9 DEF EnsureClaim
<1>10. CASE InitRegistry(a)
  BY <1>10 DEF InitRegistry, Emptied
<1>11. CASE InitDone(a)
  BY <1>11 DEF InitDone
<1>12. CASE CreateObject(a)
  BY <1>12 DEF CreateObject
<1>13. ASSUME NEW s \in Slots, LookupFaults(a, s)
       PROVE  PhaseInv'
  BY <1>13 DEF LookupFaults, NextLookup
<1>14. CASE Enter(a)
  BY <1>14 DEF Enter, LookedUp
<1>15. CASE FreeObject(a)
  BY <1>15 DEF FreeObject, LookedUp
<1>16. CASE TouchFreed(a)
  BY <1>16 DEF TouchFreed, Works
<1> QED
  BY <1>1, <1>2, <1>3, <1>4, <1>5, <1>6, <1>7, <1>8, <1>9, <1>10, <1>11, <1>12, <1>13,
     <1>14, <1>15, <1>16 DEF StepOf, Step

LEMMA SetUpInvStep ==
  ASSUME IInv, NEW a \in Actors, StepOf(a)
  PROVE  SetUpInv'
<1> USE DEF At, Go, Running, setup, entries, objects, history
<1>1. CASE InitRegistry(a)
  <2>1. initAt' = Following[initAt] /\ ready' = ready \cup {initAt} /\ initAt \in Kinds
    BY <1>1 DEF InitRegistry
  <2>2. /\ initAt = "mutex" => initAt' = "cond"
        /\ initAt = "cond" => initAt' = "rwlock"
        /\ initAt = "rwlock" => initAt' = "done"
        /\ initAt \in {"mutex", "cond", "rwlock"}
    BY <2>1 DEF Kinds, Following
  <2>3. /\ initAt' # "mutex" => "mutex" \in ready'
        /\ initAt' \in {"rwlock", "done"} => "cond" \in ready'
        /\ initAt' = "done" => "rwlock" \in ready'
    BY <2>1, <2>2 DEF IInv, SetUpInv
  <2>4. pc' = pc /\ registriesState' = 1 /\ registriesState = 1 /\ UNCHANGED <<live,
     published>>
    BY <1>1 DEF InitRegistry, IInv, SetUpInv
  <2> SetUpInv
    BY DEF IInv
  <2>5. /\ \A k \in Kinds : count[k] = 0
        /\ \A s \in Slots : item[s] = None
        /\ live = {} /\ published = {}
    BY <2>4 DEF SetUpInv
  <2>6. /\ \A k \in Kinds : count'[k] = 0
        /\ \A s \in Slots : item'[s] = None
    BY <1>1, <2>5 DEF InitRegistry, Emptied, IInv, TypeOK
  <2>7. registriesState' # 2
    BY <2>4
  <2> QED
    BY <2>3, <2>4, <2>5, <2>6, <2>7 DEF SetUpInv
<1>2. ASSUME NEW s \in Slots, LookupFaults(a, s)
       PROVE  SetUpInv'
  <2>1. UNCHANGED <<registriesState, initAt, ready, count, item, live, published>>
    BY <1>2 DEF LookupFaults
  <2>2. \A b \in Actors : pc'[b] # "dead" => pc'[b] = pc[b]
    BY <1>2 DEF LookupFaults, IInv, TypeOK
  <2> QED
    BY <2>1, <2>2 DEF IInv, SetUpInv
<1>3. CASE FreeObject(a)
  <2>1. got[a] # {} /\ got[a] \subseteq live
    BY <1>3 DEF FreeObject, LookedUp, IInv, PhaseInv
  <2>2. registriesState = 2
    BY <2>1 DEF IInv, SetUpInv
  <2>3. UNCHANGED <<registriesState, initAt, ready>>
    BY <1>3 DEF FreeObject
  <2>4. \A b \in Actors : pc'[b] # "clear" => pc'[b] = pc[b]
    BY <1>3 DEF FreeObject, IInv, TypeOK
  <2> QED
    BY <2>2, <2>3, <2>4 DEF IInv, SetUpInv
<1>4. CASE TouchFreed(a)
  <2>1. UNCHANGED <<registriesState, initAt, ready, count, item, live, published>>
    BY <1>4 DEF TouchFreed
  <2>2. \A b \in Actors : pc'[b] # "dead" => pc'[b] = pc[b]
    BY <1>4 DEF TouchFreed, IInv, TypeOK
  <2> QED
    BY <2>1, <2>2 DEF IInv, SetUpInv
<1>5. CASE CreateFails(a) \/ Reject(a) \/ Return(a)
  <2>1. UNCHANGED <<registriesState, initAt, ready, count, item, live, published>>
    BY <1>5 DEF CreateFails, Reject, Return
  <2>2. \A b \in Actors : pc'[b] # "idle" => pc'[b] = pc[b]
    BY <1>5 DEF CreateFails, Reject, Return, Finish, Goes, IInv, TypeOK
  <2> QED
    BY <2>1, <2>2 DEF IInv, SetUpInv
<1> USE SyncAssumption DEF IInv, PhaseInv, SetUpInv, TakeInv, TypeOK
<1>6. ASSUME NEW k \in Kinds, CallCreate(a, k)
       PROVE  SetUpInv'
  BY <1>6 DEF CallCreate, Begin, Goes
<1>7. CASE EnsureReady(a)
  BY <1>7 DEF EnsureReady
<1>8. CASE EnsureClaim(a)
  BY <1>8 DEF EnsureClaim
<1>9. CASE InitFails(a)
  BY <1>9, SlotFacts DEF InitFails, Emptied, Finish, Goes
<1>10. CASE InitDone(a)
  BY <1>10 DEF InitDone
<1>11. CASE Alloc(a)
  BY <1>11 DEF Alloc
<1>12. CASE CreateObject(a)
  BY <1>12 DEF CreateObject
<1>13. CASE Store(a)
  BY <1>13 DEF Store, Finish, Goes
<1>14. ASSUME NEW s \in Slots, CallUse(a, s)
       PROVE  SetUpInv'
  BY <1>14 DEF CallUse, Begin, Goes
<1>15. ASSUME NEW c \in OfKind("cond"), NEW m \in OfKind("mutex"), CallWait(a, c, m)
       PROVE  SetUpInv'
  BY <1>15 DEF CallWait, Begin, Goes, OfKind
<1>16. ASSUME NEW s \in Slots, CallDestroy(a, s)
       PROVE  SetUpInv'
  BY <1>16 DEF CallDestroy, Begin, Goes
<1>17. ASSUME NEW s \in Slots, Lookup(a, s)
       PROVE  SetUpInv'
  BY <1>17 DEF Lookup, NextLookup, Named
<1>18. CASE Enter(a)
  BY <1>18 DEF Enter, LookedUp
<1>19. CASE Clear(a)
  BY <1>19 DEF Clear, Finish, Goes
<1> QED
  BY <1>1, <1>2, <1>3, <1>4, <1>5, <1>6, <1>7, <1>8, <1>9, <1>10, <1>11, <1>12, <1>13,
     <1>14, <1>15, <1>16, <1>17, <1>18, <1>19 DEF StepOf, Step

LEMMA SlotInvStep ==
  ASSUME IInv, NEW a \in Actors, StepOf(a)
  PROVE  SlotInv'
<1> USE DEF At, Go, Running, setup, entries, objects, history
<1>1. CASE QuietStep(a)
  <2>1. SlotInv /\ Frame
    BY <1>1, QuietFrame DEF IInv
  <2> QED
    BY <2>1 DEF SlotInv, Frame, Reserved, Creating
<1>2. CASE Clear(a)
  <2>1. PICK t \in Slots : about[a] = {t}
    BY <1>2 DEF Clear, IInv, PhaseInv
  <2>2. /\ item' = [s \in Slots |-> IF s = t THEN None ELSE item[s]]
        /\ retired' = retired \cup {t}
        /\ UNCHANGED <<count, live, created, published>>
    BY <1>2, <2>1 DEF Clear
  <2>3. pc[a] = "clear" /\ got[a] # {} /\ None \notin got[a] /\ got[a] \cap live = {}
    BY <1>2 DEF Clear, IInv, TakeInv
  <2>4. t \in published /\ \E o \in got[a] : item[t] \in {o, None}
    <3>1. PICK x \in got[a] \ {None} : TRUE
      BY <2>3
    <3>2. \E s \in about[a] : s \in published /\ item[s] \in {x, None}
      BY <2>3, <3>1 DEF IInv, TakeInv
    <3> QED
      BY <2>1, <3>1, <3>2
  <2>5. t \in published /\ item[t] \notin live
    BY <2>3, <2>4, SyncAssumption DEF IInv, TypeOK

  <2> QED
    BY <2>2, <2>5 DEF IInv, SlotInv, Reserved
<1> USE SyncAssumption DEF IInv, CreateInv, Creating, NewInv, Reserved, SetUpInv, SlotInv, TakeInv, TypeOK
<1>3. CASE InitRegistry(a)
  BY <1>3, SlotFacts DEF InitRegistry, Emptied
<1>4. CASE InitFails(a)
  BY <1>4, SlotFacts DEF InitFails, Emptied, Finish, Goes
<1>5. CASE Alloc(a)
  BY <1>5, SlotFacts DEF Alloc
<1>6. CASE CreateObject(a)
  BY <1>6 DEF CreateObject
<1>7. CASE Store(a)
  BY <1>7 DEF Store, Finish, Goes
<1>8. CASE FreeObject(a)
  BY <1>8 DEF FreeObject, LookedUp
<1> QED
  BY <1>1, <1>2, <1>3, <1>4, <1>5, <1>6, <1>7, <1>8 DEF StepOf, Step, QuietStep

LEMMA CreateInvStep ==
  ASSUME IInv, NEW a \in Actors, StepOf(a)
  PROVE  CreateInv'
<1> USE DEF At, Go, Running, setup, entries, objects, history
<1>1. CASE QuietStep(a)
  <2>1. CreateInv /\ Frame
    BY <1>1, QuietFrame DEF IInv
  <2> QED
    BY <2>1 DEF CreateInv, Frame, Reserved, Creating
<1>2. CASE Alloc(a)
  <2>1. op[a] \in Kinds /\ count[op[a]] \in Handles
    BY <1>2, SyncAssumption DEF Alloc, IInv, TypeOK, PhaseInv, Handles
  <2>2. PICK t \in Slots : t = <<op[a],
     count[op[a]]>> /\ t[1] = op[a] /\ t[2] = count[op[a]]
    BY <2>1, SlotFacts
  <2>3. ~ Reserved(t)
    BY <2>1, <2>2 DEF Reserved, Handles
  <2>4. t \notin published /\ \A b \in Actors : Creating(b) => t \notin about[b]
    BY <2>3 DEF IInv, SlotInv, CreateInv
  <2>5. /\ about'[a] = {t} /\ pc'[a] = "create" /\ published' = published
        /\ \A b \in Actors : b # a => about'[b] = about[b] /\ pc'[b] = pc[b]
    BY <1>2, <2>2 DEF Alloc, IInv, TypeOK
  <2>6. \A k \in Kinds : count[k] \in Nat /\
          count'[k] = IF k = op[a] THEN count[k] + 1 ELSE count[k]
    BY <1>2, <2>1 DEF Alloc, IInv, TypeOK
  <2>7. \A s \in Slots : s[1] \in Kinds /\ s[2] \in Nat
    BY SlotFacts
  <2>8. \A s \in Slots : Reserved(s) => Reserved(s)'
    BY <2>6, <2>7 DEF Reserved
  <2>9. Reserved(t)'
    BY <2>1, <2>2, <2>6 DEF Reserved
  <2>10. \A b \in Actors : about[b] \subseteq Slots
    BY DEF IInv, TypeOK
  <2>11. \A b \in Actors : Creating(b)' => b = a \/ Creating(b)
    BY <2>5 DEF Creating
  <2>12. SUFFICES ASSUME NEW b \in Actors, Creating(b)'
         PROVE  /\ \E s \in Slots : about'[b] = {s}
                /\ \A s \in about'[b] :
                     /\ Reserved(s)' /\ s \notin published'
                     /\ \A d \in Actors : Creating(d)' /\ s \in about'[d] => b = d
    BY DEF CreateInv
  <2>13. CASE b = a
    <3>1. \A d \in Actors : Creating(d)' /\ t \in about'[d] => d = a
      BY <2>4, <2>5, <2>11
    <3> QED
      BY <2>4, <2>5, <2>9, <2>13, <3>1
  <2>14. CASE b # a
    <3>1. Creating(b) /\ about'[b] = about[b]
      BY <2>5, <2>11, <2>12, <2>14
    <3>2. /\ \E s \in Slots : about[b] = {s}
          /\ \A s \in about[b] :
               /\ Reserved(s) /\ s \notin published
               /\ \A d \in Actors : Creating(d) /\ s \in about[d] => b = d
      BY <3>1 DEF IInv, CreateInv
    <3>3. ASSUME NEW d \in Actors, NEW s \in about[b], Creating(d)', s \in about'[d]
          PROVE  b = d
      BY <3>1, <3>2, <3>3, <2>4, <2>5, <2>11
    <3> QED
      BY <3>1, <3>2, <3>3, <2>5, <2>8
  <2> QED
    BY <2>13, <2>14
<1> USE SyncAssumption DEF IInv, CreateInv, Creating, PhaseInv, Reserved, SetUpInv, SlotInv, TypeOK
<1>3. CASE InitRegistry(a)
  BY <1>3 DEF InitRegistry, Emptied
<1>4. CASE InitFails(a)
  BY <1>4 DEF InitFails, Emptied, Finish, Goes
<1>5. CASE CreateObject(a)
  BY <1>5 DEF CreateObject
<1>6. CASE Store(a)
  BY <1>6 DEF Store, Finish, Goes
<1>7. CASE FreeObject(a)
  BY <1>7 DEF FreeObject, LookedUp
<1>8. CASE Clear(a)
  BY <1>8 DEF Clear, Finish, Goes
<1> QED
  BY <1>1, <1>2, <1>3, <1>4, <1>5, <1>6, <1>7, <1>8 DEF StepOf, Step, QuietStep

LEMMA NewInvStep ==
  ASSUME IInv, NEW a \in Actors, StepOf(a)
  PROVE  NewInv'
<1> USE DEF At, Go, Running, setup, entries, objects, history
<1>1. CASE QuietStep(a)
  <2>1. NewInv /\ Frame
    BY <1>1, QuietFrame DEF IInv
  <2> QED
    BY <2>1 DEF NewInv, Frame, Creating
<1> USE SyncAssumption DEF IInv, NewInv, SetUpInv, SlotInv, TakeInv, TypeOK
<1>2. CASE InitRegistry(a)
  BY <1>2 DEF InitRegistry, Emptied
<1>3. CASE InitFails(a)
  BY <1>3 DEF InitFails, Emptied, Finish, Goes
<1>4. CASE Alloc(a)
  BY <1>4 DEF Alloc
<1>5. CASE CreateObject(a)
  BY <1>5 DEF CreateObject
<1>6. CASE Store(a)
  BY <1>6 DEF Store, Finish, Goes
<1>7. CASE FreeObject(a)
  BY <1>7 DEF FreeObject, LookedUp
<1>8. CASE Clear(a)
  BY <1>8 DEF Clear, Finish, Goes
<1> QED
  BY <1>1, <1>2, <1>3, <1>4, <1>5, <1>6, <1>7, <1>8 DEF StepOf, Step, QuietStep

LEMMA TakeInvStep ==
  ASSUME IInv, NEW a \in Actors, StepOf(a)
  PROVE  TakeInv'
<1> USE DEF At, Go, Running, setup, entries, objects, history
<1>1. CASE CreateFails(a)
  <2>1. UNCHANGED <<item, live, created, published>>
    BY <1>1 DEF CreateFails
  <2>2. \A b \in Actors : pc'[b] # "idle" =>
          pc'[b] = pc[b] /\ about'[b] = about[b] /\ got'[b] = got[b]
    BY <1>1 DEF CreateFails, Finish, Goes, IInv, TypeOK
  <2> QED
    BY <2>1, <2>2 DEF IInv, TakeInv
<1>2. ASSUME NEW s \in Slots, Lookup(a, s)
       PROVE  TakeInv'
  <2>1. UNCHANGED <<item, live, created, published, pc, about>>
    BY <1>2 DEF Lookup
  <2>2. got'[a] = got[a] \cup {Named(s)} /\ \A b \in Actors : b # a => got'[b] = got[b]
    BY <1>2 DEF Lookup, IInv, TypeOK
  <2>3. pc[a] = "lookup" /\ s \in about[a]
    BY <1>2 DEF Lookup, NextLookup, IInv, PhaseInv
  <2>4. Named(s) # None => Named(s) = item[s] /\ s \in published /\ item[s] < created
    BY DEF Named, IInv, SlotInv
  <2>5. \A b \in Actors : \A o \in got'[b] : o \in got[b] \/ (b = a /\ o = Named(s))
    BY <2>2
  <2>6. \A b \in Actors : pc[b] = "clear" => got'[b] = got[b]
    BY <2>2, <2>3
  <2>7. ASSUME NEW b \in Actors, pc[b] \in {"lookup", "inside", "clear"}, NEW o \in got'[b], o # None
        PROVE  o < created /\ \E t \in about[b] : t \in published /\ item[t] \in {o, None}
                                              /\ (item[t] = None => o \notin live)
    <3>1. CASE o \in got[b]
      BY <2>7, <3>1 DEF IInv, TakeInv
    <3>2. CASE b = a /\ o = Named(s)
      BY <2>3, <2>4, <2>7, <3>2
    <3> QED
      BY <2>5, <2>7, <3>1, <3>2
  <2> QED
    BY <2>1, <2>6, <2>7 DEF IInv, TakeInv
<1>3. ASSUME NEW s \in Slots, LookupFaults(a, s)
       PROVE  TakeInv'
  <2>1. UNCHANGED <<item, live, created, about, got, published>>
    BY <1>3 DEF LookupFaults
  <2>2. \A b \in Actors : pc'[b] # "dead" => pc'[b] = pc[b]
    BY <1>3 DEF LookupFaults, IInv, TypeOK
  <2> QED
    BY <2>1, <2>2 DEF IInv, TakeInv
<1>4. CASE FreeObject(a)
  <2>1. UNCHANGED <<item, created, about, got, published>> /\ live' = live \ got[a]
    BY <1>4 DEF FreeObject
  <2>2. pc'[a] = "clear" /\ \A b \in Actors : b # a => pc'[b] = pc[b]
    BY <1>4 DEF FreeObject, IInv, TypeOK
  <2>3. pc[a] = "lookup" /\ got[a] # {} /\ got[a] \subseteq live
    BY <1>4 DEF FreeObject, LookedUp, IInv, PhaseInv
  <2>4. None \notin got[a]
    BY <2>3, SyncAssumption DEF IInv, TypeOK
  <2> QED
    BY <2>1, <2>2, <2>3, <2>4 DEF IInv, TakeInv
<1>5. CASE Clear(a)
  <2>1. PICK t \in Slots : about[a] = {t}
    BY <1>5 DEF Clear, IInv, PhaseInv
  <2>2. /\ item' = [s \in Slots |-> IF s = t THEN None ELSE item[s]]
        /\ retired' = retired \cup {t}
        /\ UNCHANGED <<count, live, created, published>>
    BY <1>5, <2>1 DEF Clear
  <2>3. pc[a] = "clear" /\ got[a] # {} /\ None \notin got[a] /\ got[a] \cap live = {}
    BY <1>5 DEF Clear, IInv, TakeInv
  <2>4. t \in published /\ \E o \in got[a] : item[t] \in {o, None}
    <3>1. PICK x \in got[a] \ {None} : TRUE
      BY <2>3
    <3>2. \E s \in about[a] : s \in published /\ item[s] \in {x, None}
      BY <2>3, <3>1 DEF IInv, TakeInv
    <3> QED
      BY <2>1, <3>1, <3>2
  <2>5. t \in published /\ item[t] \notin live
    BY <2>3, <2>4, SyncAssumption DEF IInv, TypeOK

  <2>6. /\ pc'[a] = "idle"
        /\ \A b \in Actors : b # a =>
             pc'[b] = pc[b] /\ about'[b] = about[b] /\ got'[b] = got[b]
    BY <1>5 DEF Clear, Finish, Goes, IInv, TypeOK
  <2>7. \A b \in Actors : about[b] \subseteq Slots
    BY DEF IInv, TypeOK
  <2>8. /\ \A s \in Slots : item'[s] = IF s = t THEN None ELSE item[s]
        /\ item[t] \notin live
    BY <2>2, <2>5
  <2>9. ASSUME NEW b \in Actors, b # a, pc[b] \in {"lookup", "inside", "clear"},
               NEW o \in got[b] \ {None}
        PROVE  o < created /\ \E s \in about[b] : s \in published /\ item'[s] \in {o, None}
                                              /\ (item'[s] = None => o \notin live)
    <3>1. PICK s \in about[b] : /\ s \in published /\ item[s] \in {o, None}
                                /\ (item[s] = None => o \notin live)
      BY <2>9 DEF IInv, TakeInv
    <3>2. o < created
      BY <2>9 DEF IInv, TakeInv
    <3>3. CASE s = t
      BY <2>7, <2>8, <2>9, <3>1, <3>2, <3>3
    <3>4. CASE s # t
      BY <2>7, <2>8, <2>9, <3>1, <3>2, <3>4
    <3> QED
      BY <3>3, <3>4
  <2>10. ASSUME NEW b \in Actors, pc'[b] = "clear"
         PROVE  got'[b] # {} /\ None \notin got'[b] /\ got'[b] \cap live' = {}
    BY <2>2, <2>6, <2>10 DEF IInv, TakeInv
  <2>11. ASSUME NEW b \in Actors, pc'[b] \in {"lookup", "inside", "clear"}
         PROVE  b # a /\ pc[b] = pc'[b] /\ about'[b] = about[b] /\ got'[b] = got[b]
    BY <2>6, <2>11
  <2> QED
    BY <2>2, <2>9, <2>10, <2>11 DEF TakeInv
<1>6. CASE TouchFreed(a)
  <2>1. UNCHANGED <<item, live, created, about, got, published>>
    BY <1>6 DEF TouchFreed
  <2>2. \A b \in Actors : pc'[b] # "dead" => pc'[b] = pc[b]
    BY <1>6 DEF TouchFreed, IInv, TypeOK
  <2> QED
    BY <2>1, <2>2 DEF IInv, TakeInv
<1> USE SyncAssumption DEF IInv, CreateInv, Creating, NewInv, PhaseInv, SetUpInv, SlotInv, TakeInv, TypeOK
<1>7. ASSUME NEW k \in Kinds, CallCreate(a, k)
       PROVE  TakeInv'
  BY <1>7 DEF CallCreate, Begin, Goes
<1>8. CASE EnsureReady(a)
  BY <1>8 DEF EnsureReady
<1>9. CASE EnsureClaim(a)
  BY <1>9 DEF EnsureClaim
<1>10. CASE InitRegistry(a)
  BY <1>10 DEF InitRegistry, Emptied
<1>11. CASE InitFails(a)
  BY <1>11 DEF InitFails, Emptied, Finish, Goes
<1>12. CASE InitDone(a)
  BY <1>12 DEF InitDone
<1>13. CASE Alloc(a)
  BY <1>13 DEF Alloc
<1>14. CASE CreateObject(a)
  BY <1>14 DEF CreateObject
<1>15. CASE Store(a)
  BY <1>15 DEF Store, Finish, Goes
<1>16. ASSUME NEW s \in Slots, CallUse(a, s)
       PROVE  TakeInv'
  BY <1>16 DEF CallUse, Begin, Goes
<1>17. ASSUME NEW c \in OfKind("cond"), NEW m \in OfKind("mutex"), CallWait(a, c, m)
       PROVE  TakeInv'
  BY <1>17 DEF CallWait, Begin, Goes, OfKind
<1>18. ASSUME NEW s \in Slots, CallDestroy(a, s)
       PROVE  TakeInv'
  BY <1>18 DEF CallDestroy, Begin, Goes
<1>19. CASE Reject(a)
  BY <1>19 DEF Reject, LookedUp, Finish, Goes
<1>20. CASE Enter(a)
  BY <1>20 DEF Enter, LookedUp
<1>21. CASE Return(a)
  BY <1>21 DEF Return, Finish, Goes
<1> QED
  BY <1>1, <1>2, <1>3, <1>4, <1>5, <1>6, <1>7, <1>8, <1>9, <1>10, <1>11, <1>12, <1>13,
     <1>14, <1>15, <1>16, <1>17, <1>18, <1>19, <1>20, <1>21 DEF StepOf, Step

LEMMA KeepInvStep ==
  ASSUME IInv, NEW a \in Actors, StepOf(a)
  PROVE  KeepInv'
<1> USE DEF At, Go, Running, setup, entries, objects, history
<1>1. CASE QuietStep(a)
  <2>1. KeepInv /\ Frame
    BY <1>1, QuietFrame DEF IInv
  <2> QED
    BY <2>1 DEF KeepInv, Frame, Creating
<1>2. CASE FreeObject(a)
  <2>1. PICK t \in Slots : about[a] = {t}
    BY <1>2 DEF FreeObject, IInv, PhaseInv
  <2>2. pc[a] = "lookup" /\ got[a] \subseteq live /\ None \notin live
    BY <1>2, SyncAssumption DEF FreeObject, LookedUp, IInv, TypeOK
  <2>3. \A o \in got[a] : o = item[t]
    <3>1. SUFFICES ASSUME NEW o \in got[a] PROVE o = item[t]
      OBVIOUS
    <3>2. PICK s \in about[a] : item[s] \in {o, None} /\ (item[s] = None => o \notin live)
      BY <2>2 DEF IInv, TakeInv
    <3> QED
      BY <2>1, <2>2, <3>2
  <2>4. UNCHANGED <<item, published, retired, about>> /\ live' = live \ got[a]
    BY <1>2 DEF FreeObject
  <2>5. pc'[a] = "clear" /\ \A b \in Actors : pc[b] = "clear" => pc'[b] = "clear"
    BY <1>2, <2>2 DEF FreeObject, IInv, TypeOK
  <2>6. \A s \in Slots : item[s] \in got[a] => s = t
    BY <2>2, <2>3 DEF IInv, SlotInv
  <2>7. published \subseteq Slots
    BY DEF IInv, TypeOK
  <2> QED
    BY <2>1, <2>4, <2>5, <2>6, <2>7 DEF IInv, KeepInv
<1> USE SyncAssumption DEF IInv, CreateInv, Creating, KeepInv, NewInv, PhaseInv, SetUpInv, SlotInv, TakeInv, TypeOK
<1>3. CASE InitRegistry(a)
  BY <1>3 DEF InitRegistry, Emptied
<1>4. CASE InitFails(a)
  BY <1>4 DEF InitFails, Emptied, Finish, Goes
<1>5. CASE Alloc(a)
  BY <1>5 DEF Alloc
<1>6. CASE CreateObject(a)
  BY <1>6 DEF CreateObject
<1>7. CASE Store(a)
  BY <1>7 DEF Store, Finish, Goes
<1>8. CASE Clear(a)
  BY <1>8 DEF Clear, Finish, Goes
<1> QED
  BY <1>1, <1>2, <1>3, <1>4, <1>5, <1>6, <1>7, <1>8 DEF StepOf, Step, QuietStep

LEMMA LostInvStep ==
  ASSUME IInv, NEW a \in Actors, StepOf(a)
  PROVE  LostInv'
<1> USE DEF At, Go, Running, setup, entries, objects, history
<1>1. CASE QuietStep(a)
  <2>1. LostInv /\ Frame
    BY <1>1, QuietFrame DEF IInv
  <2> QED
    BY <2>1 DEF LostInv, Frame, Creating
<1>2. CASE Store(a)
  <2>1. PICK t \in Slots, o \in live : about[a] = {t} /\ got[a] = {o}
    BY <1>2 DEF Store, Creating, IInv, CreateInv, NewInv
  <2>2. item[t] = None
    BY <1>2, <2>1 DEF Store, Creating, IInv, CreateInv, SlotInv
  <2>3. item' = [item EXCEPT ![t] = o] /\ live' = live
    BY <1>2, <2>1 DEF Store
  <2>4. \A b \in Actors : b # a => pc'[b] = pc[b] /\ got'[b] = got[b]
    BY <1>2 DEF Store, Finish, Goes, IInv, TypeOK
  <2>5. item'[t] = o /\ \A s \in Slots : s # t => item'[s] = item[s]
    BY <2>3 DEF IInv, TypeOK
  <2>6. None \notin live
    BY SyncAssumption DEF IInv, TypeOK
  <2>7. ASSUME NEW p \in live, p # o
        PROVE  \/ \E s \in Slots : item'[s] = p
               \/ \E b \in Actors : pc'[b] = "store" /\ p \in got'[b]
    <3>1. CASE \E s \in Slots : item[s] = p
      BY <2>2, <2>5, <2>6, <2>7, <3>1
    <3>2. CASE \E b \in Actors : pc[b] = "store" /\ p \in got[b]
      BY <2>1, <2>4, <2>7, <3>2
    <3> QED
      BY <3>1, <3>2 DEF IInv, LostInv
  <2> QED
    BY <2>1, <2>3, <2>5, <2>7 DEF LostInv
<1> USE SyncAssumption DEF IInv, CreateInv, Creating, LostInv, NewInv, PhaseInv, SetUpInv, SlotInv, TakeInv, TypeOK
<1>3. CASE InitRegistry(a)
  BY <1>3 DEF InitRegistry, Emptied
<1>4. CASE InitFails(a)
  BY <1>4 DEF InitFails, Emptied, Finish, Goes
<1>5. CASE Alloc(a)
  BY <1>5 DEF Alloc
<1>6. CASE CreateObject(a)
  BY <1>6 DEF CreateObject
<1>7. CASE FreeObject(a)
  BY <1>7 DEF FreeObject, LookedUp
<1>8. CASE Clear(a)
  BY <1>8 DEF Clear, Finish, Goes
<1> QED
  BY <1>1, <1>2, <1>3, <1>4, <1>5, <1>6, <1>7, <1>8 DEF StepOf, Step, QuietStep

LEMMA FaultStep ==
  ASSUME IInv, NEW a \in Actors, StepOf(a)
  PROVE  fault' = "null lock" => published' = {}
<1> USE DEF At, Go, Running, setup, entries, objects, history
<1>1. Running /\ fault # "null lock"
  BY DEF StepOf, Step, CallCreate, EnsureReady, EnsureClaim, InitRegistry,
         InitFails, InitDone, Alloc, CreateFails, CreateObject, Store, CallUse,
         CallWait, CallDestroy, Lookup, LookupFaults, NextLookup, Reject, Enter,
         Return, FreeObject, Clear, TouchFreed, LookedUp, Begin
<1>2. ASSUME NEW s \in Slots, LookupFaults(a, s)
      PROVE  published' = {}
  <2>1. s[1] \in Kinds /\ s[1] \notin ready
    BY <1>2, SlotFacts DEF LookupFaults
  <2>2. registriesState # 2
    BY <2>1 DEF IInv, SetUpInv, Kinds
  <2> QED
    BY <1>2, <2>2 DEF LookupFaults, IInv, SetUpInv
<1>3. TouchFreed(a) => fault' = "freed object"
  BY DEF TouchFreed
<1>4. (~ \E s \in Slots : LookupFaults(a, s)) /\ ~ TouchFreed(a) => fault' = fault
  BY DEF StepOf, Step, CallCreate, EnsureReady, EnsureClaim, InitRegistry,
         InitFails, InitDone, Alloc, CreateFails, CreateObject, Store, CallUse,
         CallWait, CallDestroy, Lookup, Reject, Enter,
         Return, FreeObject, Clear, Begin
<1> QED
  BY <1>1, <1>2, <1>3, <1>4

LEMMA Stutter ==
  ASSUME IInv, UNCHANGED vars
  PROVE  IInv'
<1> USE DEF vars, IInv, Creating, Reserved
<1>1. TypeOK' /\ PhaseInv' /\ SetUpInv' /\ SlotInv'
  BY DEF TypeOK, PhaseInv, SetUpInv, SlotInv
<1>2. CreateInv' /\ KeepInv' /\ LostInv'
  BY DEF CreateInv, KeepInv, LostInv
<1>3. NewInv'
  BY DEF NewInv
<1>4. TakeInv'
  BY DEF TakeInv
<1> QED
  BY <1>1, <1>2, <1>3, <1>4

LEMMA NextKeeps == IInv /\ [Next]_vars => IInv'
<1>1. ASSUME IInv, NEW a \in Actors, StepOf(a)
      PROVE  IInv'
  BY <1>1, TypeOKStep, PhaseInvStep, SetUpInvStep, SlotInvStep, CreateInvStep,
     NewInvStep, TakeInvStep, KeepInvStep, LostInvStep, FaultStep DEF IInv
<1>2. Next => \E a \in Actors : StepOf(a)
  BY DEF Next, StepOf
<1> QED
  BY <1>1, <1>2, Stutter

\* The invariant that every theorem below about any script follows from.
THEOREM SyncInvariance == Spec => []IInv
  BY InitInv, NextKeeps, PTL DEF Spec

\* Any script: what IInv says of the properties.
LEMMA Implied ==
  ASSUME IInv
  PROVE  HandleGivenOnce /\ HandleKeepsObject /\ NoLostObject /\ RetiredStaysEmpty
<1>1. \A s \in Slots : Named(s) = item[s]
  <2>1. \A s \in Slots : item[s] # None => Reserved(s)
    BY DEF IInv, SlotInv
  <2> QED
    BY <2>1 DEF Named, Reserved
<1>2. HandleGivenOnce
  BY DEF HandleGivenOnce, IInv, CreateInv, SlotInv
<1>3. HandleKeepsObject
  <2>1. published \subseteq Slots
    BY DEF IInv, TypeOK
  <2>2. \A a \in Actors : pc[a] = "clear" => op[a] = "destroy"
    BY DEF IInv, PhaseInv
  <2> QED
    BY <1>1, <2>1, <2>2 DEF HandleKeepsObject, IInv, KeepInv
<1>4. NoLostObject
  BY <1>1 DEF NoLostObject, IInv, LostInv
<1>5. RetiredStaysEmpty
  BY DEF RetiredStaysEmpty, IInv, SlotInv, TypeOK
<1> QED
  BY <1>2, <1>3, <1>4, <1>5

\* Every variable keeps its type, for any script.
THEOREM SyncTypeCorrect == Spec => []TypeOK
<1>1. IInv => TypeOK
  BY DEF IInv
<1> QED
  BY <1>1, SyncInvariance, PTL

\* No handle is given out twice.
THEOREM HandleGivenOnceAlways == Spec => []HandleGivenOnce
<1>1. IInv => HandleGivenOnce
  BY Implied
<1> QED
  BY <1>1, SyncInvariance, PTL

\* A handle works until it is destroyed.
THEOREM HandleKeepsObjectAlways == Spec => []HandleKeepsObject
<1>1. IInv => HandleKeepsObject
  BY Implied
<1> QED
  BY <1>1, SyncInvariance, PTL

\* No object is lost.
THEOREM NoLostObjectAlways == Spec => []NoLostObject
<1>1. IInv => NoLostObject
  BY Implied
<1> QED
  BY <1>1, SyncInvariance, PTL

\* An old handle never names a new object.
THEOREM RetiredStaysEmptyAlways == Spec => []RetiredStaysEmpty
<1>1. IInv => RetiredStaysEmpty
  BY Implied
<1> QED
  BY <1>1, SyncInvariance, PTL

\* Once a handle was given out, no call can find a registry without a lock.
THEOREM NullLockOnlyBefore == Spec => []NullLockOnlyBeforeReady
<1>1. IInv => NullLockOnlyBeforeReady
  BY DEF IInv, NullLockOnlyBeforeReady
<1> QED
  BY <1>1, SyncInvariance, PTL
------------------------------------------------------------------------------
(***************************************************************************)
(* A script that does not destroy a handle under another call.             *)
(***************************************************************************)
CarefulStep(a) ==
  \/ Step(a) \/ Return(a)
  \/ \E k \in Kinds : CallCreate(a, k)
  \/ \E s \in Slots :
       \/ ~ BeingDestroyed(s) /\ CallUse(a, s)
       \/ ~ InCall(s) /\ CallDestroy(a, s)
  \/ \E c \in OfKind("cond"), m \in OfKind("mutex") :
       ~ BeingDestroyed(c) /\ ~ BeingDestroyed(m) /\ CallWait(a, c, m)

\* disturbed stays as it is inside the calls.
LEMMA StepUndisturbed ==
  ASSUME NEW a \in Actors, Step(a) \/ Return(a) \/ \E k \in Kinds : CallCreate(a, k)
  PROVE  disturbed' = disturbed
<1> USE DEF history
<1>1. CASE \E k \in Kinds : CallCreate(a, k)
  BY <1>1 DEF CallCreate
<1>2. CASE \E s \in Slots : Lookup(a, s) \/ LookupFaults(a, s)
  BY <1>2 DEF Lookup, LookupFaults
<1>3. CASE EnsureReady(a) \/ EnsureClaim(a) \/ InitRegistry(a) \/ InitFails(a) \/ InitDone(a)
           \/ Alloc(a) \/ CreateFails(a) \/ CreateObject(a) \/ Store(a)
  BY <1>3 DEF EnsureReady, EnsureClaim, InitRegistry, InitFails, InitDone,
         Alloc, CreateFails, CreateObject, Store
<1>4. CASE Reject(a) \/ Enter(a) \/ FreeObject(a) \/ Clear(a) \/ TouchFreed(a) \/ Return(a)
  BY <1>4 DEF Reject, Enter, FreeObject, Clear, TouchFreed, Return
<1> QED
  BY <1>1, <1>2, <1>3, <1>4 DEF Step

\* A step after which the script is not disturbed is a careful one.
LEMMA UndisturbedStep ==
  ASSUME TypeOK, NEW a \in Actors, StepOf(a), disturbed' = FALSE
  PROVE  disturbed = FALSE /\ CarefulStep(a)
<1>1. CASE Step(a) \/ Return(a) \/ \E k \in Kinds : CallCreate(a, k)
  BY <1>1, StepUndisturbed DEF CarefulStep
<1>2. ASSUME NEW s \in Slots, CallUse(a, s)
      PROVE  disturbed = FALSE /\ CarefulStep(a)
  <2>1. disturbed = FALSE /\ ~ BeingDestroyed(s)
    BY <1>2 DEF CallUse, TypeOK
  <2> QED
    BY <1>2, <2>1 DEF CarefulStep
<1>3. ASSUME NEW s \in Slots, CallDestroy(a, s)
      PROVE  disturbed = FALSE /\ CarefulStep(a)
  <2>1. disturbed = FALSE /\ ~ InCall(s)
    BY <1>3 DEF CallDestroy, TypeOK
  <2> QED
    BY <1>3, <2>1 DEF CarefulStep
<1>4. ASSUME NEW c \in OfKind("cond"), NEW m \in OfKind("mutex"), CallWait(a, c, m)
      PROVE  disturbed = FALSE /\ CarefulStep(a)
  <2>1. disturbed = FALSE /\ ~ BeingDestroyed(c) /\ ~ BeingDestroyed(m)
    BY <1>4 DEF CallWait, TypeOK
  <2> QED
    BY <1>4, <2>1 DEF CarefulStep
<1> QED
  BY <1>1, <1>2, <1>3, <1>4 DEF StepOf

\* Only the start of a call makes an actor concerned with a slot.
NoNewConcern(a) ==
  \A b \in Actors, s \in Slots :
    /\ Concerns(b, s)' => Concerns(b, s)
    /\ Destroying(b, s)' => Destroying(b, s)

LEMMA StepConcern ==
  ASSUME IInv, NEW a \in Actors, Step(a) \/ Return(a)
  PROVE  NoNewConcern(a)
<1> USE DEF At, Go, NoNewConcern, Concerns, Destroying, IInv, TypeOK
<1>1. CASE Alloc(a)
  <2>1. op' = op /\ op[a] \in Kinds /\ \A b \in Actors : b # a => about'[b] = about[b]
    BY <1>1 DEF Alloc, PhaseInv
  <2>2. op[a] \notin {"use", "wait", "destroy"}
    BY <2>1 DEF Kinds
  <2> QED
    BY <2>1, <2>2
<1>2. CASE EnsureReady(a) \/ EnsureClaim(a) \/ InitRegistry(a) \/ InitDone(a)
           \/ CreateObject(a) \/ (\E s \in Slots : Lookup(a, s) \/ LookupFaults(a, s))
           \/ Enter(a) \/ FreeObject(a) \/ TouchFreed(a)
  <2>1. UNCHANGED <<op, about>>
    BY <1>2 DEF EnsureReady, EnsureClaim, InitRegistry, InitDone, CreateObject,
         Lookup, LookupFaults, Enter, FreeObject, TouchFreed
  <2> QED
    BY <2>1
<1>3. CASE InitFails(a) \/ CreateFails(a) \/ Store(a) \/ Reject(a) \/ Clear(a) \/ Return(a)
  <2>1. Finish(a)
    BY <1>3 DEF InitFails, CreateFails, Store, Reject, Clear, Return
  <2>2. about'[a] = {} /\ \A b \in Actors : b # a =>
          about'[b] = about[b] /\ op'[b] = op[b]
    BY <2>1 DEF Finish, Goes
  <2> QED
    BY <2>2
<1> QED
  BY <1>1, <1>2, <1>3 DEF Step

LEMMA NoOverlapStep ==
  ASSUME IInv, NoOverlap, NEW a \in Actors, CarefulStep(a)
  PROVE  NoOverlap'
<1>1. CASE Step(a) \/ Return(a)
  BY <1>1, StepConcern DEF NoOverlap, NoNewConcern
<1> USE DEF Begin, Goes, At, Go, Concerns, Destroying, IInv, TypeOK
<1>2. ASSUME NEW k \in Kinds, CallCreate(a, k)
      PROVE  NoOverlap'
  BY <1>2 DEF CallCreate, NoOverlap
<1>3. ASSUME NEW s \in Slots, ~ BeingDestroyed(s), CallUse(a, s)
      PROVE  NoOverlap'
  BY <1>3 DEF CallUse, BeingDestroyed, NoOverlap
<1>4. ASSUME NEW s \in Slots, ~ InCall(s), CallDestroy(a, s)
      PROVE  NoOverlap'
  BY <1>4 DEF CallDestroy, InCall, NoOverlap
<1>5. ASSUME NEW c \in OfKind("cond"), NEW m \in OfKind("mutex"),
             ~ BeingDestroyed(c), ~ BeingDestroyed(m), CallWait(a, c, m)
      PROVE  NoOverlap'
  <2>1. /\ op'[a] = "wait" /\ about'[a] = {c, m}
        /\ \A b \in Actors : b # a => op'[b] = op[b] /\ about'[b] = about[b]
    BY <1>5 DEF CallWait
  <2>2. \A b \in Actors : ~ Destroying(b, c) /\ ~ Destroying(b, m)
    BY <1>5 DEF BeingDestroyed
  <2>3. ASSUME NEW b \in Actors, NEW d \in Actors, NEW s \in Slots,
               Destroying(b, s)', Concerns(d, s)'
        PROVE  b = d
    <3>1. b # a /\ Destroying(b, s)
      BY <2>1, <2>3
    <3>2. CASE d = a
      BY <2>1, <2>2, <2>3, <3>1, <3>2
    <3>3. CASE d # a
      BY <2>1, <2>3, <3>1, <3>3 DEF NoOverlap
    <3> QED
      BY <3>2, <3>3
  <2> QED
    BY <2>3 DEF NoOverlap
<1> QED
  BY <1>1, <1>2, <1>3, <1>4, <1>5 DEF CarefulStep

\* A careful call works on what is allocated.
LEMMA NeverFreed ==
  ASSUME IInv, GotLive, NEW a \in Actors, Works(a)
  PROVE  got[a] \subseteq live
  BY DEF Works, GotLive

\* The steps that free nothing and take no pointer.
LEMMA GotLiveFrame ==
  ASSUME GotLive, live \subseteq live',
         \A b \in Actors : pc'[b] \in {"lookup", "inside"} =>
           got'[b] = {} \/ (got'[b] = got[b] /\ pc[b] \in {"lookup", "inside"})
  PROVE  GotLive'
  BY DEF GotLive

LEMMA GotLiveStep ==
  ASSUME CarefulInv, NEW a \in Actors, CarefulStep(a)
  PROVE  GotLive'
<1> USE DEF At, Go, objects
<1>1. CASE FreeObject(a)
  <2>1. /\ pc[a] = "lookup" /\ pc'[a] = "clear" /\ op[a] = "destroy"
        /\ live' = live \ got[a] /\ got' = got
        /\ \A b \in Actors : b # a => pc'[b] = pc[b]
    BY <1>1 DEF FreeObject, LookedUp, CarefulInv, IInv, TypeOK
  <2>2. ASSUME NEW b \in Actors, b # a, pc[b] \in {"lookup", "inside"},
               NEW o \in got[b] \ {None}, o \in got[a]
        PROVE  FALSE
    <3>1. o \in live
      BY <2>2 DEF CarefulInv, GotLive
    <3>2. PICK s \in about[b] : item[s] \in {o, None} /\ (item[s] = None => o \notin live)
      BY <2>2 DEF CarefulInv, IInv, TakeInv
    <3>3. PICK t \in about[a] : item[t] \in {o, None} /\ (item[t] = None => o \notin live)
      BY <2>1, <2>2 DEF CarefulInv, IInv, TakeInv
    <3>4. s \in Slots /\ t \in Slots
      BY DEF CarefulInv, IInv, TypeOK
    <3>5. s = t
      BY <3>1, <3>2, <3>3, <3>4, <2>2 DEF CarefulInv, IInv, SlotInv
    <3>6. Destroying(a, s) /\ Concerns(b, s)
      BY <2>1, <2>2, <3>3, <3>5 DEF Destroying, Concerns, CarefulInv, IInv, PhaseInv
    <3> QED
      BY <2>2, <3>4, <3>6 DEF CarefulInv, NoOverlap
  <2> QED
    BY <2>1, <2>2 DEF CarefulInv, GotLive
<1>2. ASSUME NEW s \in Slots, Lookup(a, s)
      PROVE  GotLive'
  <2>1. /\ pc[a] = "lookup" /\ s \in about[a] /\ UNCHANGED <<pc, live>>
        /\ got'[a] = got[a] \cup {Named(s)}
        /\ \A b \in Actors : b # a => got'[b] = got[b]
    BY <1>2 DEF Lookup, NextLookup, CarefulInv, IInv, TypeOK, PhaseInv
  <2>2. ASSUME Named(s) # None
        PROVE  Named(s) \in live
    <3>1. Named(s) = item[s] /\ s \in published \ retired
      BY <2>2 DEF Named, CarefulInv, IInv, SlotInv
    <3>2. ASSUME NEW b \in Actors, s \in about[b], pc[b] = "clear"
          PROVE  FALSE
      <4>1. Destroying(b, s) /\ Concerns(a, s)
        BY <2>1, <3>2 DEF Destroying, Concerns, CarefulInv, IInv, PhaseInv
      <4> QED
        BY <2>1, <3>2, <4>1 DEF CarefulInv, NoOverlap
    <3> QED
      BY <3>1, <3>2 DEF CarefulInv, IInv, KeepInv
  <2> QED
    BY <2>1, <2>2 DEF CarefulInv, GotLive
<1> SUFFICES ASSUME ~ FreeObject(a), \A s \in Slots : ~ Lookup(a, s)
             PROVE  /\ live \subseteq live'
                    /\ \A b \in Actors : pc'[b] \in {"lookup", "inside"} =>
                         \/ got'[b] = {}
                         \/ got'[b] = got[b] /\ pc[b] \in {"lookup", "inside"}
  BY <1>1, <1>2, GotLiveFrame DEF CarefulInv
<1> USE DEF CarefulInv, IInv, TypeOK
<1>3. CASE Enter(a)
  BY <1>3 DEF Enter, LookedUp
<1>4. CASE EnsureReady(a) \/ EnsureClaim(a) \/ InitDone(a) \/ Alloc(a) \/ CreateObject(a)
  BY <1>4 DEF EnsureReady, EnsureClaim, InitDone, Alloc, CreateObject
<1>5. CASE InitRegistry(a)
  BY <1>5 DEF InitRegistry
<1>6. CASE InitFails(a) \/ CreateFails(a) \/ Store(a) \/ Reject(a) \/ Clear(a) \/ Return(a)
  BY <1>6 DEF InitFails, CreateFails, Store, Reject, Clear, Return, Finish, Goes
<1>7. CASE TouchFreed(a) \/ \E s \in Slots : LookupFaults(a, s)
  BY <1>7 DEF TouchFreed, LookupFaults
<1>8. ASSUME NEW o, NEW slots, NEW label, Begin(a, label, o, slots)
      PROVE  /\ live \subseteq live'
             /\ \A b \in Actors : pc'[b] \in {"lookup", "inside"} =>
                  \/ got'[b] = {}
                  \/ got'[b] = got[b] /\ pc[b] \in {"lookup", "inside"}
  BY <1>8 DEF Begin, Goes
<1> QED
  BY <1>3, <1>4, <1>5, <1>6, <1>7, <1>8
  DEF CarefulStep, Step, CallCreate, CallUse, CallDestroy, CallWait

LEMMA CarefulFaultStep ==
  ASSUME CarefulInv, NEW a \in Actors, CarefulStep(a)
  PROVE  fault' # "freed object"
<1>1. ~ TouchFreed(a)
  BY NeverFreed DEF TouchFreed, CarefulInv
<1>2. CASE \E s \in Slots : LookupFaults(a, s)
  BY <1>2 DEF LookupFaults
<1>3. CASE ~ \E s \in Slots : LookupFaults(a, s)
  BY <1>1, <1>3 DEF CarefulInv, CarefulStep, Step, CallCreate, EnsureReady, EnsureClaim,
         InitRegistry, InitFails, InitDone, Alloc, CreateFails, CreateObject, Store,
         CallUse, CallWait, CallDestroy, Lookup, Reject, Enter, Return, FreeObject, Clear,
         Begin, history
<1> QED
  BY <1>2, <1>3

LEMMA SafeKeeps == SafeInv /\ [Next]_vars => SafeInv'
<1>1. ASSUME SafeInv, NEW a \in Actors, StepOf(a)
      PROVE  SafeInv'
  <2>1. IInv'
    BY <1>1, TypeOKStep, PhaseInvStep, SetUpInvStep, SlotInvStep, CreateInvStep,
       NewInvStep, TakeInvStep, KeepInvStep, LostInvStep, FaultStep DEF IInv, SafeInv
  <2>2. ASSUME disturbed' = FALSE
        PROVE  CarefulInv'
    <3>1. CarefulInv /\ CarefulStep(a)
      BY <1>1, <2>2, UndisturbedStep DEF SafeInv, IInv
    <3>2. NoOverlap'
      BY <3>1, NoOverlapStep DEF CarefulInv
    <3>3. GotLive' /\ fault' # "freed object"
      BY <3>1, GotLiveStep, CarefulFaultStep
    <3> QED
      BY <2>1, <3>2, <3>3 DEF CarefulInv
  <2> QED
    BY <2>1, <2>2 DEF SafeInv
<1>2. Next => \E a \in Actors : StepOf(a)
  BY DEF Next, StepOf
<1>3. ASSUME SafeInv, UNCHANGED vars
      PROVE  SafeInv'
  <2>1. IInv' /\ disturbed' = disturbed
    BY <1>3, Stutter DEF SafeInv, vars
  <2>2. CarefulInv => NoOverlap' /\ GotLive' /\ fault' # "freed object"
    BY <1>3 DEF CarefulInv, NoOverlap, GotLive, Destroying, Concerns, vars
  <2> QED
    BY <1>3, <2>1, <2>2 DEF SafeInv, CarefulInv
<1> QED
  BY <1>1, <1>2, <1>3

\* Unless a script destroys a handle while another call is about it, no call
\* touches freed memory, whichever old or wrong handles it passes.
THEOREM NoUseAfterFreeAlways == Spec => []NoUseAfterFree
<1>1. Init => SafeInv
  <2>1. Init => IInv
    BY InitInv
  <2>2. Init => NoOverlap /\ GotLive /\ fault # "freed object"
    BY DEF Init, NoOverlap, GotLive, Destroying, Concerns
  <2> QED
    BY <2>1, <2>2 DEF SafeInv, CarefulInv
<1>2. SafeInv => NoUseAfterFree
  <2>1. CarefulInv => fault # "freed object" /\ \A a \in Actors : Works(a) => got[a] \subseteq live
    BY NeverFreed DEF CarefulInv
  <2>2. SafeInv => disturbed \in BOOLEAN
    BY DEF SafeInv, IInv, TypeOK
  <2> QED
    BY <2>1, <2>2 DEF SafeInv, NoUseAfterFree
<1> QED
  BY <1>1, <1>2, SafeKeeps, PTL DEF Spec
=============================================================================
