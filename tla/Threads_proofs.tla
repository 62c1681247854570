--------------------------- MODULE Threads_proofs ---------------------------
(***************************************************************************)
(* Proofs about the thread table, for every number of threads: type        *)
(* correctness and the safety invariants of Threads.  The invariants are   *)
(* not inductive; IInv adds what a slot looks like while a spawn is        *)
(* building it, after it was published, and when its thread has ended.     *)
(***************************************************************************)
EXTENDS Threads, TLAPS

Spawning(a, h) == pc[a] \in {"prepare", "create", "publish"} /\ arg[a] = h

\* An actor inside a call about a handle has one; an actor whose thread does
\* not run is between calls.
CallsWellFormed ==
  \A a \in Actors :
    /\ pc[a] \in {"prepare", "create", "publish", "joining", "detaching",
                  "marking"} => arg[a] \in Handles
    /\ a \in Handles /\ os[a] # "running" => pc[a] = "idle"

\* A slot no spawn has taken yet is untouched.
Untouched(h) ==
  /\ inUse[h] = 0 /\ os[h] = "none"
  /\ h \notin published /\ consumed[h] = 0
  /\ \A a \in Actors : ~ Spawning(a, h) /\ ~ Holds(a, h)

UnusedSlots == \A h \in Handles : h >= threadCount => Untouched(h)

\* A slot under construction belongs to one spawn.
SpawnPhase(a, h) ==
  /\ h \notin published /\ consumed[h] = 0
  /\ \A b \in Actors : Spawning(b, h) => a = b
  /\ pc[a] # "publish" => os[h] = "none"
  /\ pc[a] = "publish" => os[h] # "none" /\ desc[h] = "live"
  /\ pc[a] = "prepare" => inUse[h] = 0 /\ \A b \in Actors : ~ Holds(b, h)
  /\ pc[a] # "prepare" => inUse[h] = 1 \/ \E b \in Actors : Holds(b, h)
  /\ pc[a] = "create" => function[h]

SpawnPhases ==
  \A a \in Actors, h \in Handles : Spawning(a, h) => SpawnPhase(a, h)

\* slot->thread is there from the return of spawn to the end of the join or
\* detach that succeeds; only the latter lets the descriptor go.
Descriptors ==
  \A h \in Handles :
    /\ thread[h] <=> h \in published /\ consumed[h] = 0
    /\ thread[h] => desc[h] = "live" /\ os[h] # "none"
    /\ detached[h] => consumed[h] = 1
    /\ os[h] = "none" => consumed[h] = 0
    /\ inUse[h] = 1 => consumed[h] = 0
    /\ \A a \in Actors : Holds(a, h) /\ pc[a] = "marking" => thread[h]

\* What slot->result holds at each stage of the thread.
ResultStages ==
  \A h \in Handles :
    /\ os[h] \in {"none", "running"} => result[h] = Zero
    /\ os[h] \in {"returned", "ended"} =>
         result[h] = IF outcome[h] = NonInteger THEN Zero ELSE Decode(outcome[h])
    /\ delivered[h] # None => os[h] = "ended" /\ delivered[h] = result[h]

IInv ==
  /\ TypeOK
  /\ CallsWellFormed
  /\ UnusedSlots
  /\ SpawnPhases
  /\ Descriptors
  /\ OneOwner
  /\ StillJoinable
  /\ DescriptorAlive
  /\ CrashOnlyBeforePublish
  /\ ResultStages
------------------------------------------------------------------------------
USE DEF Handles, Actors, Results, Alive, At, Go, GoWith, Finish, table, history
USE ThreadsAssumption

\* The invariant holds in the initial state.
LEMMA InitIInv == Init => IInv
  BY DEF Init, IInv, TypeOK, CallsWellFormed, UnusedSlots, Untouched,
         SpawnPhases, Spawning, Holds, Descriptors, OneOwner, StillJoinable,
         DescriptorAlive, CrashOnlyBeforePublish, ResultStages

\* The points of the code where an actor owns no slot.
Slotless == {"idle", "ensure", "init", "alloc"}

\* A step that only moves actors between calls and the first phases of a
\* spawn, where they own no slot, keeps the invariant.
LEMMA SlotlessStep ==
  ASSUME IInv, TypeOK',
         UNCHANGED <<threadCount, inUse, thread, result, function, os, desc,
                     detached, published, history, crash>>,
         \A a \in Actors :
           \/ pc'[a] = pc[a] /\ arg'[a] = arg[a]
           \/ /\ pc[a] \in Slotless /\ pc'[a] \in Slotless
              /\ os[a] = "running" \/ a \notin Handles
  PROVE  IInv'
  <1>1. \A a \in Actors, h \in Handles :
          /\ Holds(a, h)' <=> Holds(a, h)
          /\ Spawning(a, h)' <=> Spawning(a, h)
          /\ Holds(a, h) \/ Spawning(a, h) => pc'[a] = pc[a]
    BY DEF Holds, Spawning, Slotless
  <1>2. CallsWellFormed'
    BY DEF IInv, CallsWellFormed, Slotless
  <1>3. UnusedSlots'
    BY <1>1 DEF IInv, UnusedSlots, Untouched
  <1>4. SpawnPhases'
    <2> SUFFICES ASSUME NEW a \in Actors, NEW h \in Handles, Spawning(a, h)'
                 PROVE  SpawnPhase(a, h)'
      BY DEF SpawnPhases
    <2>1. Spawning(a, h) /\ SpawnPhase(a, h) /\ pc'[a] = pc[a]
      BY <1>1 DEF IInv, SpawnPhases
    <2> QED BY <1>1, <2>1 DEF SpawnPhase
  <1>5. Descriptors'
    BY <1>1 DEF IInv, Descriptors
  <1>6. OneOwner'
    BY <1>1 DEF IInv, OneOwner
  <1>7. StillJoinable'
    BY <1>1 DEF IInv, TypeOK, StillJoinable
  <1>8. DescriptorAlive'
    BY DEF IInv, DescriptorAlive, Slotless
  <1>9. CrashOnlyBeforePublish' /\ ResultStages'
    BY DEF IInv, CrashOnlyBeforePublish, ResultStages
  <1> QED BY <1>2, <1>3, <1>4, <1>5, <1>6, <1>7, <1>8, <1>9 DEF IInv

\* An actor that enters thread.spawn owns no slot.
LEMMA CallSpawnKeeps ==
  ASSUME NEW a \in Actors, IInv, CallSpawn(a)
  PROVE  IInv'
  <1>1. TypeOK'
    BY DEF CallSpawn, IInv, TypeOK
  <1>2. \A b \in Actors :
          \/ pc'[b] = pc[b] /\ arg'[b] = arg[b]
          \/ /\ pc[b] \in Slotless /\ pc'[b] \in Slotless
             /\ os[b] = "running" \/ b \notin Handles
    BY DEF CallSpawn, IInv, TypeOK, Slotless
  <1> QED BY <1>1, <1>2, SlotlessStep DEF CallSpawn

\* An actor that finds the table ready owns no slot.
LEMMA EnsureReadyKeeps ==
  ASSUME NEW a \in Actors, IInv, EnsureReady(a)
  PROVE  IInv'
  <1>1. TypeOK'
    BY DEF EnsureReady, IInv, TypeOK
  <1>2. \A b \in Actors :
          \/ pc'[b] = pc[b] /\ arg'[b] = arg[b]
          \/ /\ pc[b] \in Slotless /\ pc'[b] \in Slotless
             /\ os[b] = "running" \/ b \notin Handles
    BY DEF EnsureReady, IInv, TypeOK, Slotless
  <1> QED BY <1>1, <1>2, SlotlessStep DEF EnsureReady

\* An actor that starts the set-up owns no slot.
LEMMA EnsureClaimKeeps ==
  ASSUME NEW a \in Actors, IInv, EnsureClaim(a)
  PROVE  IInv'
  <1>1. TypeOK'
    BY DEF EnsureClaim, IInv, TypeOK
  <1>2. \A b \in Actors :
          \/ pc'[b] = pc[b] /\ arg'[b] = arg[b]
          \/ /\ pc[b] \in Slotless /\ pc'[b] \in Slotless
             /\ os[b] = "running" \/ b \notin Handles
    BY DEF EnsureClaim, IInv, TypeOK, Slotless
  <1> QED BY <1>1, <1>2, SlotlessStep DEF EnsureClaim

\* An actor that finishes the set-up owns no slot.
LEMMA InitSucceedsKeeps ==
  ASSUME NEW a \in Actors, IInv, InitSucceeds(a)
  PROVE  IInv'
  <1>1. TypeOK'
    BY DEF InitSucceeds, IInv, TypeOK
  <1>2. \A b \in Actors :
          \/ pc'[b] = pc[b] /\ arg'[b] = arg[b]
          \/ /\ pc[b] \in Slotless /\ pc'[b] \in Slotless
             /\ os[b] = "running" \/ b \notin Handles
    BY DEF InitSucceeds, IInv, TypeOK, Slotless
  <1> QED BY <1>1, <1>2, SlotlessStep DEF InitSucceeds

\* An actor whose set-up fails owns no slot.
LEMMA InitFailsKeeps ==
  ASSUME NEW a \in Actors, IInv, InitFails(a)
  PROVE  IInv'
  <1>1. TypeOK'
    BY DEF InitFails, IInv, TypeOK
  <1>2. \A b \in Actors :
          \/ pc'[b] = pc[b] /\ arg'[b] = arg[b]
          \/ /\ pc[b] \in Slotless /\ pc'[b] \in Slotless
             /\ os[b] = "running" \/ b \notin Handles
    BY DEF InitFails, IInv, TypeOK, Slotless
  <1> QED BY <1>1, <1>2, SlotlessStep DEF InitFails

\* An actor whose spawn is rejected owns no slot.
LEMMA SpawnRejectedKeeps ==
  ASSUME NEW a \in Actors, IInv, SpawnRejected(a)
  PROVE  IInv'
  <1>1. TypeOK'
    BY DEF SpawnRejected, IInv, TypeOK
  <1>2. \A b \in Actors :
          \/ pc'[b] = pc[b] /\ arg'[b] = arg[b]
          \/ /\ pc[b] \in Slotless /\ pc'[b] \in Slotless
             /\ os[b] = "running" \/ b \notin Handles
    BY DEF SpawnRejected, IInv, TypeOK, Slotless
  <1> QED BY <1>1, <1>2, SlotlessStep DEF SpawnRejected

\* alloc_thread_slot: the new slot is owned by this spawn.
LEMMA AllocSlotKeeps ==
  ASSUME NEW a \in Actors,
         IInv, AllocSlot(a)
  PROVE  IInv'
  <1>1. \A b \in Actors, h \in Handles :
          /\ (Holds(b, h))' <=> Holds(b, h)
          /\ (Spawning(b, h))' <=> Spawning(b, h) \/ (b = a /\ h = threadCount)
    BY DEF AllocSlot, Spawning, Holds, IInv, TypeOK, CallsWellFormed
  <1>2. TypeOK'
    BY DEF AllocSlot, IInv, TypeOK
  <1>3. CallsWellFormed'
    BY DEF AllocSlot, IInv, TypeOK, CallsWellFormed
  <1>4. UnusedSlots'
    BY <1>1 DEF AllocSlot, IInv, TypeOK, UnusedSlots, Untouched
  <1>5. SpawnPhases'
    BY <1>1 DEF AllocSlot, IInv, UnusedSlots, Untouched, SpawnPhases,
                SpawnPhase, Spawning
  <1>6. Descriptors'
    BY <1>1 DEF AllocSlot, IInv, Descriptors
  <1>7. OneOwner'
    BY <1>1 DEF AllocSlot, IInv, OneOwner
  <1>8. StillJoinable'
    BY DEF AllocSlot, IInv, StillJoinable, Holds
  <1>9. DescriptorAlive'
    BY DEF AllocSlot, IInv, DescriptorAlive
  <1>10. CrashOnlyBeforePublish'
    BY DEF AllocSlot, IInv, CrashOnlyBeforePublish
  <1>11. ResultStages'
    BY DEF AllocSlot, IInv, ResultStages
  <1> QED BY <1>2, <1>3, <1>4, <1>5, <1>6, <1>7, <1>8, <1>9, <1>10, <1>11
         DEF IInv

\* The stores that open the slot to a guessed handle.
LEMMA PrepareKeeps ==
  ASSUME NEW a \in Actors,
         IInv, Prepare(a)
  PROVE  IInv'
  <1>1. \A b \in Actors, h \in Handles :
          /\ (Holds(b, h))' <=> Holds(b, h)
          /\ (Spawning(b, h))' <=> Spawning(b, h)
    BY DEF Prepare, Spawning, Holds, IInv, TypeOK, CallsWellFormed
  <1>2. TypeOK'
    BY DEF Prepare, IInv, TypeOK
  <1>3. CallsWellFormed'
    BY DEF Prepare, IInv, CallsWellFormed
  <1>4. UnusedSlots'
    BY <1>1 DEF Prepare, IInv, UnusedSlots, Untouched, Spawning
  <1>5. SpawnPhases'
    BY DEF Prepare, IInv, TypeOK, SpawnPhases, SpawnPhase, ResultStages,
           Spawning, Holds
  <1>6. Descriptors'
    BY <1>1 DEF Prepare, IInv, SpawnPhases, SpawnPhase, Descriptors, Spawning
  <1>7. OneOwner'
    <2> SUFFICES ASSUME NEW g \in Handles
                 PROVE  /\ consumed'[g] <= 1
                        /\ \A b \in Actors : Holds(b, g)' =>
                             inUse'[g] = 0 /\ consumed'[g] = 0
                        /\ \A b, c \in Actors :
                             Holds(b, g)' /\ Holds(c, g)' => b = c
      BY DEF OneOwner
    <2>1. /\ consumed[g] <= 1
          /\ \A b \in Actors : Holds(b, g) => inUse[g] = 0 /\ consumed[g] = 0
          /\ \A b, c \in Actors : Holds(b, g) /\ Holds(c, g) => b = c
      BY DEF IInv, OneOwner
    <2>2. consumed' = consumed
      BY DEF Prepare, history
    <2>3. ASSUME NEW b \in Actors, Holds(b, g) PROVE inUse'[g] = 0
      <3>1. g # arg[a]
        BY <2>3 DEF Prepare, IInv, SpawnPhases, SpawnPhase, Spawning
      <3> QED BY <2>1, <2>3, <3>1 DEF Prepare, IInv, TypeOK
    <2> QED BY <1>1, <2>1, <2>2, <2>3
  <1>8. StillJoinable'
    BY DEF Prepare, IInv, StillJoinable, Holds
  <1>9. DescriptorAlive'
    BY DEF Prepare, IInv, DescriptorAlive
  <1>10. CrashOnlyBeforePublish'
    BY DEF Prepare, IInv, CrashOnlyBeforePublish
  <1>11. ResultStages'
    <2>1. arg[a] \in Handles /\ os[arg[a]] = "none"
      BY DEF Prepare, IInv, CallsWellFormed, SpawnPhases, SpawnPhase, Spawning
    <2> QED BY <2>1 DEF Prepare, IInv, TypeOK, ResultStages
  <1> QED BY <1>2, <1>3, <1>4, <1>5, <1>6, <1>7, <1>8, <1>9, <1>10, <1>11
         DEF IInv

\* A slot whose thread was not created can never be claimed again.
LEMMA CreateFailsKeeps ==
  ASSUME NEW a \in Actors,
         IInv, CreateFails(a)
  PROVE  IInv'
  <1>1. \A b \in Actors, h \in Handles :
          /\ (Holds(b, h))' <=> Holds(b, h)
          /\ (Spawning(b, h))' <=> Spawning(b, h) /\ b # a
    BY DEF CreateFails, Spawning, Holds, IInv, TypeOK, CallsWellFormed
  <1>2. TypeOK'
    BY DEF CreateFails, IInv, TypeOK
  <1>3. CallsWellFormed'
    BY DEF CreateFails, IInv, TypeOK, CallsWellFormed
  <1>4. UnusedSlots'
    BY <1>1 DEF CreateFails, IInv, UnusedSlots, Untouched
  <1>5. SpawnPhases'
    BY <1>1 DEF CreateFails, IInv, SpawnPhases, SpawnPhase, Spawning
  <1>6. Descriptors'
    BY <1>1 DEF CreateFails, IInv, Descriptors
  <1>7. OneOwner'
    <2> SUFFICES ASSUME NEW g \in Handles
                 PROVE  /\ consumed'[g] <= 1
                        /\ \A b \in Actors : Holds(b, g)' =>
                             inUse'[g] = 0 /\ consumed'[g] = 0
                        /\ \A b, c \in Actors :
                             Holds(b, g)' /\ Holds(c, g)' => b = c
      BY DEF OneOwner
    <2>1. /\ consumed[g] <= 1
          /\ \A b \in Actors : Holds(b, g) => inUse[g] = 0 /\ consumed[g] = 0
          /\ \A b, c \in Actors : Holds(b, g) /\ Holds(c, g) => b = c
      BY DEF IInv, OneOwner
    <2>2. consumed' = consumed
      BY DEF CreateFails, history
    <2>3. ASSUME NEW b \in Actors, Holds(b, g) PROVE inUse'[g] = 0
      BY <2>1, <2>3 DEF CreateFails, IInv, TypeOK
    <2> QED BY <1>1, <2>1, <2>2, <2>3
  <1>8. StillJoinable'
    BY DEF CreateFails, IInv, TypeOK, SpawnPhases, SpawnPhase, StillJoinable,
           Spawning, Holds
  <1>9. DescriptorAlive'
    <2>1. arg[a] \in Handles /\ os[arg[a]] = "none"
      BY DEF CreateFails, IInv, CallsWellFormed, SpawnPhases, SpawnPhase, Spawning
    <2> QED BY <2>1 DEF CreateFails, IInv, TypeOK, DescriptorAlive
  <1>10. CrashOnlyBeforePublish'
    BY DEF CreateFails, IInv, CrashOnlyBeforePublish
  <1>11. ResultStages'
    BY DEF CreateFails, IInv, ResultStages
  <1> QED BY <1>2, <1>3, <1>4, <1>5, <1>6, <1>7, <1>8, <1>9, <1>10, <1>11
         DEF IInv

\* The thread exists; its descriptor is not in the slot yet.
LEMMA CreateKeeps ==
  ASSUME NEW a \in Actors,
         IInv, Create(a)
  PROVE  IInv'
  <1>1. \A b \in Actors, h \in Handles :
          /\ (Holds(b, h))' <=> Holds(b, h)
          /\ (Spawning(b, h))' <=> Spawning(b, h)
    BY DEF Create, Spawning, Holds, IInv, TypeOK, CallsWellFormed
  <1>2. TypeOK'
    BY DEF Create, IInv, TypeOK
  <1>3. CallsWellFormed'
    BY DEF Create, IInv, CallsWellFormed
  <1>4. UnusedSlots'
    BY <1>1 DEF Create, IInv, UnusedSlots, Untouched, Spawning
  <1>5. SpawnPhases'
    BY <1>1 DEF Create, IInv, TypeOK, SpawnPhases, SpawnPhase, Spawning, Holds
  <1>6. Descriptors'
    BY <1>1 DEF Create, IInv, Descriptors
  <1>7. OneOwner'
    BY <1>1 DEF Create, IInv, OneOwner
  <1>8. StillJoinable'
    BY DEF Create, IInv, StillJoinable, Holds
  <1>9. DescriptorAlive'
    <2>1. arg[a] \in Handles /\ os[arg[a]] = "none" /\ function[arg[a]]
      BY DEF Create, IInv, CallsWellFormed, SpawnPhases, SpawnPhase, Spawning
    <2> QED BY <2>1 DEF Create, IInv, TypeOK, DescriptorAlive
  <1>10. CrashOnlyBeforePublish'
    BY DEF Create, IInv, CrashOnlyBeforePublish
  <1>11. ResultStages'
    <2>1. arg[a] \in Handles /\ os[arg[a]] = "none"
      BY DEF Create, IInv, CallsWellFormed, SpawnPhases, SpawnPhase, Spawning
    <2> QED BY <2>1 DEF Create, IInv, TypeOK, ResultStages
  <1> QED BY <1>2, <1>3, <1>4, <1>5, <1>6, <1>7, <1>8, <1>9, <1>10, <1>11
         DEF IInv

\* The descriptor is in the slot, and spawn returns the handle.
LEMMA PublishKeeps ==
  ASSUME NEW a \in Actors,
         IInv, Publish(a)
  PROVE  IInv'
  <1>1. \A b \in Actors, h \in Handles :
          /\ (Holds(b, h))' <=> Holds(b, h)
          /\ (Spawning(b, h))' <=> Spawning(b, h) /\ b # a
    BY DEF Publish, Spawning, Holds, IInv, TypeOK, CallsWellFormed
  <1>2. TypeOK'
    <2>1. arg[a] \in Handles
      BY DEF Publish, IInv, CallsWellFormed
    <2> QED BY <2>1 DEF Publish, IInv, TypeOK
  <1>3. CallsWellFormed'
    BY DEF Publish, IInv, TypeOK, CallsWellFormed
  <1>4. UnusedSlots'
    <2> SUFFICES ASSUME NEW g \in Handles, (g >= threadCount)'
                 PROVE  Untouched(g)'
      BY DEF UnusedSlots
    <2>1. g >= threadCount /\ Untouched(g)
      BY DEF Publish, IInv, UnusedSlots
    <2>2. g # arg[a]
      BY <2>1 DEF Publish, Untouched, IInv, CallsWellFormed, Spawning
    <2> QED BY <1>1, <2>1, <2>2 DEF Publish, Untouched, IInv, TypeOK
  <1>5. SpawnPhases'
    <2> SUFFICES ASSUME NEW b \in Actors, NEW g \in Handles, Spawning(b, g)'
                 PROVE  SpawnPhase(b, g)'
      BY DEF SpawnPhases
    <2>1. Spawning(b, g) /\ SpawnPhase(b, g) /\ b # a
      BY <1>1 DEF IInv, SpawnPhases
    <2>2. pc'[b] = pc[b] /\ g # arg[a]
      BY <2>1 DEF Publish, Spawning, SpawnPhase, IInv, TypeOK
    <2> QED BY <1>1, <2>1, <2>2 DEF Publish, SpawnPhase
  <1>6. Descriptors'
    BY <1>1 DEF Publish, IInv, TypeOK, SpawnPhases, SpawnPhase, Descriptors,
                Spawning
  <1>7. OneOwner'
    BY <1>1 DEF Publish, IInv, OneOwner
  <1>8. StillJoinable'
    BY DEF Publish, IInv, CallsWellFormed, UnusedSlots, Untouched,
           SpawnPhases, SpawnPhase, StillJoinable, DescriptorAlive,
           ResultStages, Spawning, Holds
  <1>9. DescriptorAlive'
    BY DEF Publish, IInv, CallsWellFormed, SpawnPhases, SpawnPhase,
           DescriptorAlive, Spawning
  <1>10. CrashOnlyBeforePublish'
    BY DEF Publish, IInv, CrashOnlyBeforePublish
  <1>11. ResultStages'
    BY DEF Publish, IInv, ResultStages
  <1> QED BY <1>2, <1>3, <1>4, <1>5, <1>6, <1>7, <1>8, <1>9, <1>10, <1>11
         DEF IInv

\* The thread's function has returned and its result is stored.
LEMMA EntryReturnsKeeps ==
  ASSUME NEW h \in Handles, NEW v \in Inline \cup Boxed \cup {NonInteger},
         IInv, EntryReturns(h, v)
  PROVE  IInv'
  <1>1. \A b \in Actors, g \in Handles :
          /\ (Holds(b, g))' <=> Holds(b, g)
          /\ (Spawning(b, g))' <=> Spawning(b, g)
    BY DEF EntryReturns, Spawning, Holds, IInv, TypeOK, CallsWellFormed
  <1>2. TypeOK'
    <2>1. v # NonInteger => Decode(v) \in Results
      BY DEF Decode
    <2> QED BY <2>1 DEF EntryReturns, IInv, TypeOK
  <1>3. CallsWellFormed'
    BY DEF EntryReturns, IInv, CallsWellFormed
  <1>4. UnusedSlots'
    <2> SUFFICES ASSUME NEW g \in Handles, (g >= threadCount)'
                 PROVE  Untouched(g)'
      BY DEF UnusedSlots
    <2>1. g >= threadCount /\ Untouched(g)
      BY DEF EntryReturns, IInv, UnusedSlots
    <2>2. g # h
      BY <2>1 DEF EntryReturns, Untouched, IInv, CallsWellFormed
    <2> QED BY <1>1, <2>1, <2>2 DEF EntryReturns, Untouched, IInv, TypeOK
  <1>5. SpawnPhases'
    BY <1>1 DEF EntryReturns, IInv, SpawnPhases, SpawnPhase
  <1>6. Descriptors'
    BY <1>1 DEF EntryReturns, IInv, Descriptors
  <1>7. OneOwner'
    BY <1>1 DEF EntryReturns, IInv, OneOwner
  <1>8. StillJoinable'
    BY DEF EntryReturns, IInv, StillJoinable, Holds
  <1>9. DescriptorAlive'
    BY DEF EntryReturns, IInv, TypeOK, DescriptorAlive
  <1>10. CrashOnlyBeforePublish'
    BY DEF EntryReturns, IInv, CrashOnlyBeforePublish
  <1>11. ResultStages'
    BY DEF EntryReturns, IInv, TypeOK, ResultStages
  <1> QED BY <1>2, <1>3, <1>4, <1>5, <1>6, <1>7, <1>8, <1>9, <1>10, <1>11
         DEF IInv

\* The OS thread ends; a detached one frees its descriptor.
LEMMA WrapperExitsKeeps ==
  ASSUME NEW h \in Handles,
         IInv, WrapperExits(h)
  PROVE  IInv'
  <1>1. \A b \in Actors, g \in Handles :
          /\ (Holds(b, g))' <=> Holds(b, g)
          /\ (Spawning(b, g))' <=> Spawning(b, g)
    BY DEF WrapperExits, Spawning, Holds, IInv, TypeOK, CallsWellFormed
  <1>2. TypeOK'
    BY DEF WrapperExits, IInv, TypeOK
  <1>3. CallsWellFormed'
    BY DEF WrapperExits, IInv, CallsWellFormed
  <1>4. UnusedSlots'
    BY <1>1 DEF WrapperExits, IInv, UnusedSlots, Untouched, Descriptors
  <1>5. SpawnPhases'
    BY <1>1 DEF WrapperExits, IInv, SpawnPhases, SpawnPhase, Descriptors
  <1>6. Descriptors'
    BY <1>1 DEF WrapperExits, IInv, Descriptors
  <1>7. OneOwner'
    BY <1>1 DEF WrapperExits, IInv, OneOwner
  <1>8. StillJoinable'
    BY DEF WrapperExits, IInv, StillJoinable, Holds
  <1>9. DescriptorAlive'
    BY DEF WrapperExits, IInv, Descriptors, DescriptorAlive
  <1>10. CrashOnlyBeforePublish'
    BY DEF WrapperExits, IInv, CrashOnlyBeforePublish
  <1>11. ResultStages'
    BY DEF WrapperExits, IInv, ResultStages
  <1> QED BY <1>2, <1>3, <1>4, <1>5, <1>6, <1>7, <1>8, <1>9, <1>10, <1>11
         DEF IInv

\* The compare-and-swap of join and detach.
LEMMA ClaimKeeps ==
  ASSUME NEW a \in Actors, NEW h \in Handles,
         NEW l \in {"joining", "detaching"},
         IInv, Claim(a, h, l)
  PROVE  IInv'
  <1>1. \A b \in Actors, g \in Handles :
          /\ (Holds(b, g))' <=> Holds(b, g) \/ (b = a /\ g = h)
          /\ (Spawning(b, g))' <=> Spawning(b, g)
    BY DEF Claim, Spawning, Holds, IInv, TypeOK, CallsWellFormed
  <1>2. TypeOK'
    BY DEF Claim, IInv, TypeOK
  <1>3. CallsWellFormed'
    BY DEF Claim, IInv, TypeOK, CallsWellFormed
  <1>4. UnusedSlots'
    <2> SUFFICES ASSUME NEW g \in Handles, (g >= threadCount)'
                 PROVE  Untouched(g)'
      BY DEF UnusedSlots
    <2>1. g >= threadCount /\ Untouched(g)
      BY DEF Claim, IInv, UnusedSlots
    <2>2. g # h
      BY <2>1 DEF Claim, Untouched, IInv, CallsWellFormed, TypeOK, Claimable
    <2> QED BY <1>1, <2>1, <2>2 DEF Claim, Untouched, IInv, TypeOK
  <1>5. SpawnPhases'
    <2> SUFFICES ASSUME NEW b \in Actors, NEW g \in Handles, Spawning(b, g)'
                 PROVE  SpawnPhase(b, g)'
      BY DEF SpawnPhases
    <2>1. Spawning(b, g) /\ SpawnPhase(b, g)
      BY <1>1 DEF IInv, SpawnPhases
    <2>2. pc'[b] = pc[b]
      BY <2>1 DEF Claim, Spawning, IInv, TypeOK
    <2> QED BY <1>1, <2>1, <2>2 DEF Claim, SpawnPhase, Claimable, IInv, TypeOK
  <1>6. Descriptors'
    BY <1>1 DEF Claim, IInv, Descriptors
  <1>7. OneOwner'
    <2>1. inUse[h] = 1 /\ consumed[h] = 0 /\ \A b \in Actors : ~ Holds(b, h)
      BY DEF Claim, Claimable, IInv, OneOwner, Descriptors
    <2> QED BY <1>1, <2>1 DEF Claim, IInv, TypeOK, OneOwner
  <1>8. StillJoinable'
    BY <1>1 DEF Claim, IInv, StillJoinable, Holds
  <1>9. DescriptorAlive'
    BY <1>1 DEF Claim, IInv, Descriptors, DescriptorAlive, Holds
  <1>10. CrashOnlyBeforePublish'
    BY DEF Claim, IInv, CrashOnlyBeforePublish
  <1>11. ResultStages'
    BY DEF Claim, IInv, ResultStages
  <1> QED BY <1>2, <1>3, <1>4, <1>5, <1>6, <1>7, <1>8, <1>9, <1>10, <1>11
         DEF IInv

\* A claimed handle without a descriptor.
LEMMA NullThreadKeeps ==
  ASSUME NEW a \in Actors,
         IInv, NullThread(a)
  PROVE  IInv'
  <1>1. \A b \in Actors, h \in Handles :
          /\ (Holds(b, h))' <=> Holds(b, h)
          /\ (Spawning(b, h))' <=> Spawning(b, h)
    BY DEF NullThread, Spawning, Holds, IInv, TypeOK, CallsWellFormed
  <1>2. TypeOK'
    BY DEF NullThread, IInv, TypeOK
  <1>3. CallsWellFormed'
    BY DEF NullThread, IInv, CallsWellFormed
  <1>4. UnusedSlots'
    BY <1>1 DEF NullThread, IInv, UnusedSlots, Untouched
  <1>5. SpawnPhases'
    <2> SUFFICES ASSUME NEW b \in Actors, NEW g \in Handles, Spawning(b, g)'
                 PROVE  SpawnPhase(b, g)'
      BY DEF SpawnPhases
    <2>1. Spawning(b, g) /\ SpawnPhase(b, g)
      BY <1>1 DEF IInv, SpawnPhases
    <2>2. pc'[b] = pc[b]
      BY <2>1 DEF NullThread, Spawning, IInv, TypeOK
    <2> QED BY <1>1, <2>1, <2>2 DEF NullThread, SpawnPhase
  <1>6. Descriptors'
    BY <1>1 DEF NullThread, IInv, Descriptors
  <1>7. OneOwner'
    BY <1>1 DEF NullThread, IInv, OneOwner
  <1>8. StillJoinable'
    BY DEF NullThread, IInv, StillJoinable, Holds
  <1>9. DescriptorAlive'
    BY DEF NullThread, IInv, DescriptorAlive
  <1>10. CrashOnlyBeforePublish'
    BY DEF NullThread, IInv, TypeOK, Descriptors, OneOwner,
           CrashOnlyBeforePublish, Holds
  <1>11. ResultStages'
    BY DEF NullThread, IInv, ResultStages
  <1> QED BY <1>2, <1>3, <1>4, <1>5, <1>6, <1>7, <1>8, <1>9, <1>10, <1>11
         DEF IInv

\* A failed join or detach gives the handle back.
LEMMA OsCallFailsKeeps ==
  ASSUME NEW a \in Actors,
         IInv, OsCallFails(a)
  PROVE  IInv'
  <1>1. \A b \in Actors, h \in Handles :
          /\ (Holds(b, h))' <=> Holds(b, h) /\ b # a
          /\ (Spawning(b, h))' <=> Spawning(b, h)
    BY DEF OsCallFails, Spawning, Holds, IInv, TypeOK, CallsWellFormed
  <1>2. TypeOK'
    BY DEF OsCallFails, IInv, TypeOK
  <1>3. CallsWellFormed'
    BY DEF OsCallFails, IInv, TypeOK, CallsWellFormed
  <1>4. UnusedSlots'
    <2> SUFFICES ASSUME NEW g \in Handles, (g >= threadCount)'
                 PROVE  Untouched(g)'
      BY DEF UnusedSlots
    <2>1. g >= threadCount /\ Untouched(g)
      BY DEF OsCallFails, IInv, UnusedSlots
    <2>2. g # arg[a]
      BY <2>1 DEF OsCallFails, Untouched, IInv, CallsWellFormed, Holds
    <2> QED BY <1>1, <2>1, <2>2 DEF OsCallFails, Untouched, IInv, TypeOK
  <1>5. SpawnPhases'
    BY <1>1 DEF OsCallFails, IInv, TypeOK, SpawnPhases, SpawnPhase, Holds
  <1>6. Descriptors'
    BY <1>1 DEF OsCallFails, IInv, Descriptors
  <1>7. OneOwner'
    BY DEF OsCallFails, IInv, TypeOK, OneOwner, Holds
  <1>8. StillJoinable'
    BY DEF OsCallFails, IInv, TypeOK, StillJoinable, Holds
  <1>9. DescriptorAlive'
    BY DEF OsCallFails, IInv, TypeOK, DescriptorAlive
  <1>10. CrashOnlyBeforePublish'
    BY DEF OsCallFails, IInv, CrashOnlyBeforePublish
  <1>11. ResultStages'
    BY DEF OsCallFails, IInv, ResultStages
  <1> QED BY <1>2, <1>3, <1>4, <1>5, <1>6, <1>7, <1>8, <1>9, <1>10, <1>11
         DEF IInv

\* A join that succeeds.
LEMMA OsJoinKeeps ==
  ASSUME NEW a \in Actors,
         IInv, OsJoin(a)
  PROVE  IInv'
  <1>1. \A b \in Actors, h \in Handles :
          /\ (Holds(b, h))' <=> Holds(b, h) /\ b # a
          /\ (Spawning(b, h))' <=> Spawning(b, h)
    BY DEF OsJoin, Spawning, Holds, IInv, TypeOK, CallsWellFormed
  <1>2. TypeOK'
    <2>1. arg[a] \in Handles /\ result[arg[a]] \in Results
      BY DEF OsJoin, IInv, TypeOK, CallsWellFormed
    <2> QED BY <2>1 DEF OsJoin, IInv, TypeOK
  <1>3. CallsWellFormed'
    BY DEF OsJoin, IInv, TypeOK, CallsWellFormed
  <1>4. UnusedSlots'
    <2> SUFFICES ASSUME NEW g \in Handles, (g >= threadCount)'
                 PROVE  Untouched(g)'
      BY DEF UnusedSlots
    <2>1. g >= threadCount /\ Untouched(g)
      BY DEF OsJoin, IInv, UnusedSlots
    <2>2. g # arg[a]
      BY <2>1 DEF OsJoin, Untouched, IInv, CallsWellFormed, Holds
    <2> QED BY <1>1, <2>1, <2>2 DEF OsJoin, Untouched, IInv, TypeOK
  <1>5. SpawnPhases'
    BY <1>1 DEF OsJoin, IInv, SpawnPhases, SpawnPhase, Descriptors, Holds
  <1>6. Descriptors'
    BY DEF OsJoin, IInv, TypeOK, Descriptors, OneOwner, Holds
  <1>7. OneOwner'
    <2> SUFFICES ASSUME NEW g \in Handles
                 PROVE  /\ consumed'[g] <= 1
                        /\ \A b \in Actors : Holds(b, g)' =>
                             inUse'[g] = 0 /\ consumed'[g] = 0
                        /\ \A b, c \in Actors :
                             Holds(b, g)' /\ Holds(c, g)' => b = c
      BY DEF OneOwner
    <2>1. arg[a] \in Handles /\ Holds(a, arg[a])
      BY DEF OsJoin, Holds, IInv, CallsWellFormed
    <2>2. CASE g = arg[a]
      BY <1>1, <2>1, <2>2 DEF OsJoin, IInv, TypeOK, OneOwner
    <2>3. CASE g # arg[a]
      BY <1>1, <2>3 DEF OsJoin, IInv, TypeOK, OneOwner
    <2> QED BY <2>2, <2>3
  <1>8. StillJoinable'
    BY DEF OsJoin, IInv, TypeOK, Descriptors, StillJoinable, Holds
  <1>9. DescriptorAlive'
    BY DEF OsJoin, IInv, TypeOK, CallsWellFormed, DescriptorAlive
  <1>10. CrashOnlyBeforePublish'
    BY DEF OsJoin, IInv, CrashOnlyBeforePublish
  <1>11. ResultStages'
    BY DEF OsJoin, IInv, ResultStages
  <1> QED BY <1>2, <1>3, <1>4, <1>5, <1>6, <1>7, <1>8, <1>9, <1>10, <1>11
         DEF IInv

\* pthread_detach has succeeded.
LEMMA OsDetachKeeps ==
  ASSUME NEW a \in Actors,
         IInv, OsDetach(a)
  PROVE  IInv'
  <1>1. \A b \in Actors, h \in Handles :
          /\ (Holds(b, h))' <=> Holds(b, h)
          /\ (Spawning(b, h))' <=> Spawning(b, h)
    BY DEF OsDetach, Spawning, Holds, IInv, TypeOK, CallsWellFormed
  <1>2. TypeOK'
    BY DEF OsDetach, IInv, TypeOK
  <1>3. CallsWellFormed'
    BY DEF OsDetach, IInv, CallsWellFormed
  <1>4. UnusedSlots'
    BY <1>1 DEF OsDetach, IInv, UnusedSlots, Untouched
  <1>5. SpawnPhases'
    BY <1>1 DEF OsDetach, IInv, SpawnPhases, SpawnPhase
  <1>6. Descriptors'
    BY DEF OsDetach, IInv, Descriptors, Holds
  <1>7. OneOwner'
    BY <1>1 DEF OsDetach, IInv, OneOwner
  <1>8. StillJoinable'
    BY DEF OsDetach, IInv, StillJoinable, Holds
  <1>9. DescriptorAlive'
    BY DEF OsDetach, IInv, DescriptorAlive
  <1>10. CrashOnlyBeforePublish'
    BY DEF OsDetach, IInv, CrashOnlyBeforePublish
  <1>11. ResultStages'
    BY DEF OsDetach, IInv, ResultStages
  <1> QED BY <1>2, <1>3, <1>4, <1>5, <1>6, <1>7, <1>8, <1>9, <1>10, <1>11
         DEF IInv

\* The end of a detach.
LEMMA MarkDetachedKeeps ==
  ASSUME NEW a \in Actors,
         IInv, MarkDetached(a)
  PROVE  IInv'
  <1>1. \A b \in Actors, h \in Handles :
          /\ (Holds(b, h))' <=> Holds(b, h) /\ b # a
          /\ (Spawning(b, h))' <=> Spawning(b, h)
    BY DEF MarkDetached, Spawning, Holds, IInv, TypeOK, CallsWellFormed
  <1>2. TypeOK'
    <2>1. TypeOK /\ arg[a] \in Handles
      BY DEF MarkDetached, IInv, CallsWellFormed
    <2>2. consumed' \in [Handles -> Nat]
      BY <2>1 DEF MarkDetached, TypeOK
    <2>3. pc' \in [Actors -> {"idle", "ensure", "init", "alloc", "prepare", "create",
                             "publish", "joining", "detaching", "marking"}]
          /\ arg' \in [Actors -> Handles \cup {None}]
      BY <2>1 DEF MarkDetached, Finish, TypeOK
    <2> QED BY <2>1, <2>2, <2>3 DEF MarkDetached, TypeOK
  <1>3. CallsWellFormed'
    BY DEF MarkDetached, IInv, TypeOK, CallsWellFormed
  <1>4. UnusedSlots'
    <2> SUFFICES ASSUME NEW g \in Handles, (g >= threadCount)'
                 PROVE  Untouched(g)'
      BY DEF UnusedSlots
    <2>1. g >= threadCount /\ Untouched(g)
      BY DEF MarkDetached, IInv, UnusedSlots
    <2>2. g # arg[a]
      BY <2>1 DEF MarkDetached, Untouched, IInv, CallsWellFormed, Holds
    <2> QED BY <1>1, <2>1, <2>2 DEF MarkDetached, Untouched, IInv, TypeOK
  <1>5. SpawnPhases'
    BY <1>1 DEF MarkDetached, IInv, SpawnPhases, SpawnPhase, Descriptors,
                Holds
  <1>6. Descriptors'
    BY DEF MarkDetached, IInv, TypeOK, Descriptors, OneOwner, Holds
  <1>7. OneOwner'
    <2> SUFFICES ASSUME NEW g \in Handles
                 PROVE  /\ consumed'[g] <= 1
                        /\ \A b \in Actors : Holds(b, g)' =>
                             inUse'[g] = 0 /\ consumed'[g] = 0
                        /\ \A b, c \in Actors :
                             Holds(b, g)' /\ Holds(c, g)' => b = c
      BY DEF OneOwner
    <2>1. arg[a] \in Handles /\ Holds(a, arg[a])
      BY DEF MarkDetached, Holds, IInv, CallsWellFormed
    <2>4. /\ \A h \in Handles : consumed[h] \in Nat /\ consumed[h] <= 1
          /\ \A b \in Actors, h \in Handles : Holds(b, h) => inUse[h] = 0 /\ consumed[h] = 0
          /\ \A b, c \in Actors, h \in Handles : Holds(b, h) /\ Holds(c, h) => b = c
      BY DEF IInv, TypeOK, OneOwner
    <2>5. inUse' = inUse /\ consumed'[g] = IF g = arg[a] THEN consumed[g] + 1 ELSE consumed[g]
      BY DEF MarkDetached, IInv, TypeOK
    <2>2. CASE g = arg[a]
      BY <1>1, <2>1, <2>2, <2>4, <2>5
    <2>3. CASE g # arg[a]
      BY <1>1, <2>3, <2>4, <2>5
    <2> QED BY <2>2, <2>3
  <1>8. StillJoinable'
    BY DEF MarkDetached, IInv, TypeOK, Descriptors, StillJoinable, Holds
  <1>9. DescriptorAlive'
    BY DEF MarkDetached, IInv, TypeOK, CallsWellFormed, StillJoinable,
           DescriptorAlive
  <1>10. CrashOnlyBeforePublish'
    BY DEF MarkDetached, IInv, CrashOnlyBeforePublish
  <1>11. ResultStages'
    BY DEF MarkDetached, IInv, ResultStages
  <1> QED BY <1>2, <1>3, <1>4, <1>5, <1>6, <1>7, <1>8, <1>9, <1>10, <1>11
         DEF IInv

\* A rejected call, and a stuttering step.
LEMMA StutterKeeps ==
  ASSUME IInv, UNCHANGED vars
  PROVE  IInv'
  BY DEF vars, IInv, TypeOK, CallsWellFormed, UnusedSlots, Untouched,
         SpawnPhases, SpawnPhase, Spawning, Holds, Descriptors, OneOwner,
         StillJoinable, DescriptorAlive, CrashOnlyBeforePublish, ResultStages

\* Every step keeps the invariant.
LEMMA NextIInv == IInv /\ [Next]_vars => IInv'
  <1> SUFFICES ASSUME IInv, [Next]_vars
               PROVE  IInv'
    OBVIOUS
  <1>1. ASSUME NEW a \in Actors, CallSpawn(a) \/ Step(a)
        PROVE  IInv'
    BY <1>1, CallSpawnKeeps, EnsureReadyKeeps, EnsureClaimKeeps,
       InitSucceedsKeeps, InitFailsKeeps, SpawnRejectedKeeps, AllocSlotKeeps,
       PrepareKeeps, CreateFailsKeeps, CreateKeeps, PublishKeeps,
       NullThreadKeeps, OsCallFailsKeeps, OsJoinKeeps, OsDetachKeeps,
       MarkDetachedKeeps DEF Step
  <1>2. ASSUME NEW a \in Actors, NEW h \in Handles,
               CallJoin(a, h) \/ CallDetach(a, h)
        PROVE  IInv'
    BY <1>2, ClaimKeeps DEF CallJoin, CallDetach
  <1>3. ASSUME NEW a \in Actors, NEW h \in Handles, CallRejected(a, h)
        PROVE  IInv'
    BY <1>3, StutterKeeps DEF CallRejected
  <1>4. ASSUME NEW h \in Handles, WrapperExits(h)
        PROVE  IInv'
    BY <1>4, WrapperExitsKeeps
  <1>5. ASSUME NEW h \in Handles,
               NEW v \in Inline \cup Boxed \cup {NonInteger},
               EntryReturns(h, v)
        PROVE  IInv'
    BY <1>5, EntryReturnsKeeps
  <1> QED BY <1>1, <1>2, <1>3, <1>4, <1>5, StutterKeeps DEF Next

\* The inductive invariant, from which the theorems below follow.
THEOREM Invariance == Spec => []IInv
  BY InitIInv, NextIInv, PTL DEF Spec

\* Type correctness of the thread table.
THEOREM TypeCorrect == Spec => []TypeOK
  <1>1. IInv => TypeOK
    BY DEF IInv
  <1> QED BY <1>1, Invariance, PTL

\* The compare-and-swap of in_use gives each thread to one join or detach.
THEOREM OneOwnerAlways == Spec => []OneOwner
  <1>1. IInv => OneOwner
    BY DEF IInv
  <1> QED BY <1>1, Invariance, PTL

\* No published thread is lost to every caller.
THEOREM StillJoinableAlways == Spec => []StillJoinable
  <1>1. IInv => StillJoinable
    BY DEF IInv
  <1> QED BY <1>1, Invariance, PTL

\* No join or detach works on a freed descriptor.
THEOREM DescriptorAliveAlways == Spec => []DescriptorAlive
  <1>1. IInv => DescriptorAlive
    BY DEF IInv
  <1> QED BY <1>1, Invariance, PTL

\* A handle that spawn has returned never leads to a NULL descriptor.
THEOREM NullOnlyBeforePublish == Spec => []CrashOnlyBeforePublish
  <1>1. IInv => CrashOnlyBeforePublish
    BY DEF IInv
  <1> QED BY <1>1, Invariance, PTL

\* A join returns the inline integer the thread's function returned, and 0
\* when it returned no integer.
THEOREM JoinSeesResultAlways == Spec => []JoinSeesResult
  <1>1. IInv => JoinSeesResult
    BY DEF IInv, TypeOK, ResultStages, JoinSeesResult, Decode
  <1> QED BY <1>1, Invariance, PTL
==============================================================================
