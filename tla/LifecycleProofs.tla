-------------------------- MODULE LifecycleProofs --------------------------
(***************************************************************************)
(* The registry and the life of the resamplers, for every number of        *)
(* channels and every size of the registry: with any number of threads the *)
(* registry holds what exists; with one application thread no resampler is *)
(* used after it was freed, and none is left behind.  At the end the same  *)
(* with bass_sox_asio beside bass_sox: what ASIO plays exists while it is  *)
(* played, and ASIO is given no more than it asked for.                    *)
(***************************************************************************)
EXTENDS AsioBridge, TLAPS

\* A thread is inside BASS_SOX_StreamCreate, inside the callback by which BASS
\* tells it that a channel was freed, or inside a call that takes a handle.
Unstored == {"stream", "settings", "scan", "store"}
Creating == Unstored \union {"sync", "discard"}
Making == Creating \union {"stream_null"}
Found == {"callback", "callback_join", "unregister", "release"}
CallingBack == {"callback_look"} \union Found
Using == {"look", "use", "stop", "join"}

\* Where a thread can be in resampler_registry_get, "set_look" in the bridge.
LookingUp == {"look", "callback_look", "set_look", "crashed"}

Registered(h) == \E i \in Slots : registry[i] = h

(***************************************************************************)
(* The invariant for any number of threads.  It leaves open at which other *)
(* labels a thread may be and which other names a call may take, since     *)
(* module AsioBridge adds some.                                            *)
(***************************************************************************)
TypesWith(labels, names) ==
    /\ registry \in [Slots -> Handles \union {Null}]
    /\ memory \in [Handles -> {"none", "allocated", "freed"}]
    /\ whole \subseteq Handles /\ thread \subseteq Handles
    /\ shutdown \subseteq Handles /\ updaters \subseteq Handles
    /\ streams \subseteq Handles /\ returned \subseteq Handles
    /\ unsynced \subseteq returned
    /\ unloaded \in BOOLEAN /\ clashed \in BOOLEAN
    /\ pc \in [Threads -> labels]
    /\ target \in [Threads -> names]
    /\ slot \in [Threads -> 1 .. MAX_RESAMPLERS + 1]
    /\ stage \in [Threads -> Stages]
    /\ pointer \in [Threads -> Handles \union {Null}]
    /\ todo \in [Threads -> SUBSET Handles]

\* What a thread is at is a channel, and a slot that it is about to load or store
\* is one.
Named ==
    \A t \in Threads :
        /\ pc[t] \in Making \union CallingBack \union Using => target[t] \in Handles
        /\ pc[t] = "store" \/ stage[t] # "test" => slot[t] \in Slots
        /\ stage[t] # "test" => pc[t] \in LookingUp

\* A channel is made by one thread, and nobody else knows it before Store: neither
\* the registry nor a pointer that was loaded from it.
MadeOnce ==
    /\ \A t \in Threads : pc[t] \in Making =>
           memory[target[t]] # "none" /\ target[t] \notin returned
    /\ \A t, u \in Threads :
           pc[t] \in Making /\ pc[u] \in Making /\ target[t] = target[u] => t = u
    /\ \A t \in Threads : pc[t] \in Unstored =>
           memory[target[t]] = "allocated" /\ ~ Registered(target[t])
    /\ \A t, u \in Threads : pc[t] \in Unstored => pointer[u] # target[t]

\* What was loaded from the registry or handed out was made, and what is about to
\* be freed is in no slot.
WasMade ==
    /\ \A h \in returned : memory[h] # "none"
    /\ \A t \in Threads : pointer[t] # Null => memory[pointer[t]] # "none"
    /\ \A t \in Threads : pc[t] \in {"unregister", "release"} => pointer[t] # Null
    /\ \A t \in Threads : pc[t] = "release" => ~ Registered(pointer[t])

Unlocked == MadeOnce /\ WasMade /\ RegistryIsLive

(***************************************************************************)
(* As long as no two resamplers were stored in one slot, who has which     *)
(* resampler.                                                              *)
(***************************************************************************)
\* What a thread makes nobody frees before it is done.
KeptWhileMade ==
    \A t \in Threads :
        /\ pc[t] \in Creating => memory[target[t]] = "allocated"
        /\ pc[t] = "sync" => target[t] \in whole

\* BASS calls back once for a channel, on the thread that took it from BASS, and
\* that thread finds the resampler of this channel.
FreedOnce ==
    /\ \A t \in Threads : pc[t] \in CallingBack =>
           /\ memory[target[t]] = "allocated"
           /\ target[t] \in returned /\ target[t] \notin streams
    /\ \A t, u \in Threads :
           pc[t] \in CallingBack /\ pc[u] \in CallingBack /\ target[t] = target[u]
               => t = u
    /\ \A t \in Threads : pc[t] \in Found => pointer[t] = target[t]
    /\ \A t \in Threads : pc[t] = "callback_look" =>
           /\ stage[t] = "follow" /\ pointer[t] = target[t] => registry[slot[t]] = target[t]
           /\ stage[t] = "take" => registry[slot[t]] = target[t]

\* A channel that BASS_SOX_StreamCreate has returned has all of its resampler
\* until it is freed.
ReturnedAreWhole ==
    \A h \in returned \intersect streams : h \in whole /\ memory[h] = "allocated"

Owned == KeptWhileMade /\ FreedOnce /\ ReturnedAreWhole

Accounted == Unlocked /\ (~ clashed => Owned)

LifeInv(labels, names) == TypesWith(labels, names) /\ Named /\ Accounted

(***************************************************************************)
(* What one application thread adds: nothing comes between its steps but   *)
(* the end of an updater.                                                  *)
(***************************************************************************)
OneThread == \E t : Threads = {t}

NothingBetween ==
    \A t \in Threads :
        /\ pc[t] \in Using => target[t] \in returned
        /\ stage[t] \in {"load", "follow"} => registry[slot[t]] # Null
        /\ stage[t] = "follow" => pointer[t] = registry[slot[t]]
        /\ stage[t] = "take" => registry[slot[t]] = target[t]
        /\ pc[t] \in {"use", "stop", "join"} =>
              pointer[t] = target[t] /\ memory[target[t]] = "allocated"
        /\ pc[t] \in {"unregister", "release"} => target[t] \notin thread
        /\ pc[t] = "store" => registry[slot[t]] = Null
        /\ pc[t] = "sync" => Registered(target[t])
        /\ pc[t] \in {"stream_null", "crashed"} => "calloc" \in MayFail

OneThreadInv ==
    /\ NothingBetween
    /\ ~ clashed
    /\ thread \subseteq returned
    /\ UpdatersHaveResamplers /\ StreamsAreRegistered

\* Who has a slot of the registry: a channel that was handed out, until BASS has freed
\* it and the callback is done with it, and one whose creation is not over.  The
\* callback has not passed the slot it looks for.
SlotsKept ==
    \A t \in Threads :
        /\ pc[t] \in Creating \ {"stream"} => target[t] \in streams
        /\ pc[t] = "callback_look" =>
              \E i \in slot[t] .. MAX_RESAMPLERS : registry[i] = target[t]
        /\ \A h \in Handles : Registered(h) =>
              \/ h \in returned /\ h \in streams \union unsynced
              \/ target[t] = h /\ pc[t] \in CallingBack \ {"release"}
              \/ target[t] = h /\ pc[t] \in {"sync", "discard"}

\* And what the creation of every stream adds: a resampler exists while its
\* channel does, but for the steps of the call that makes or frees both, and
\* BASS calls back for all of them.
KeptTogether ==
    /\ unsynced = {}
    /\ \A t \in Threads, h \in Handles :
        /\ memory[h] = "allocated" <=>
              \/ h \in streams
              \/ target[t] = h /\ pc[t] \in {"stream"} \union CallingBack
        /\ h \in streams =>
              \/ h \in returned
              \/ target[t] = h /\ pc[t] \in Creating \ {"stream"}

\* What is left to free is what was returned, and once the library is unloaded
\* nothing else is left.
AllToBeFreed ==
    \A t \in Threads :
        /\ todo[t] \subseteq returned
        /\ pc[t] \notin {"free"} \union CallingBack => todo[t] = {}
        /\ unloaded =>
              /\ pc[t] \in {"idle", "free"} \union CallingBack
              /\ \A h \in Handles : memory[h] = "allocated" =>
                    \/ h \in todo[t]
                    \/ target[t] = h /\ pc[t] \in CallingBack

CleanInv == KeptTogether /\ AllToBeFreed
-----------------------------------------------------------------------------
(***************************************************************************)
(* The types.                                                              *)
(***************************************************************************)
\* What a module that adds labels and names may add to.
Adds(labels, names) ==
    Labels \subseteq labels /\ Handles \union {Null} \subseteq names

\* Looking a channel up changes where a thread is, its slot and its pointer, all of
\* them to what they may be.
LEMMA GetTypes ==
    ASSUME NEW CONSTANT labels, NEW CONSTANT names, Adds(labels, names),
           TypesWith(labels, names), Named, NEW t \in Threads,
           NEW at, NEW label \in labels, NEW missed \in labels,
           resampler_registry_get(t, at, label, missed)
    PROVE  TypesWith(labels, names)'
<1>1. "crashed" \in labels
    BY DEF Adds, Labels
<1>2. slot[t] \in 1 .. MAX_RESAMPLERS + 1 /\ pc \in [Threads -> labels]
    BY DEF TypesWith
<1>3. UNCHANGED <<registry, objects, updating, bass, clashed, target, todo>>
    BY DEF resampler_registry_get
<1>4. pc' \in [Threads -> labels]
    BY <1>1, <1>2 DEF resampler_registry_get, TestSlot, LoadSlot, CompareChannel,
                      TakeSlot, Goto
<1>5. slot' \in [Threads -> 1 .. MAX_RESAMPLERS + 1]
  <2>1. CASE UNCHANGED slot
    BY <2>1 DEF TypesWith
  <2>2. CASE slot' = [slot EXCEPT ![t] = @ + 1] /\ slot[t] \in Slots
    BY <2>2, LifecycleAssumption DEF TypesWith, Slots
  <2>3. stage[t] = "follow" => slot[t] \in Slots
    BY DEF Named
  <2> QED
    BY <1>2, <2>1, <2>2, <2>3, LifecycleAssumption
       DEF resampler_registry_get, TestSlot, LoadSlot, CompareChannel, TakeSlot, Slots
<1>6. stage' \in [Threads -> Stages]
    BY DEF resampler_registry_get, TestSlot, LoadSlot, CompareChannel, TakeSlot,
           TypesWith, Stages
<1>7. pointer' \in [Threads -> Handles \union {Null}]
  <2>1. stage[t] \in {"load", "take"} => slot[t] \in Slots
    BY DEF Named
  <2>2. \/ UNCHANGED pointer
        \/ slot[t] \in Slots /\ pointer' = [pointer EXCEPT ![t] = registry[slot[t]]]
    BY <2>1 DEF resampler_registry_get, TestSlot, LoadSlot, CompareChannel, TakeSlot
  <2> QED
    BY <2>2 DEF TypesWith
<1> QED
    BY <1>3, <1>4, <1>5, <1>6, <1>7 DEF TypesWith, objects, updating, bass

\* So does stopping an updater.
LEMMA StopTypes ==
    ASSUME NEW CONSTANT labels, NEW CONSTANT names, Adds(labels, names),
           TypesWith(labels, names), NEW t \in Threads, NEW from,
           NEW joining \in labels, NEW label \in labels,
           resampler_updater_stop(t, from, joining, label)
    PROVE  TypesWith(labels, names)'
<1>1. "crashed" \in labels
    BY DEF Adds, Labels
<1>2. pc' \in [Threads -> labels]
    BY <1>1 DEF resampler_updater_stop, TypesWith, Goto
<1>3. thread' \subseteq Handles /\ shutdown' \subseteq Handles
    BY DEF resampler_updater_stop, TypesWith, Live
<1>4. UNCHANGED <<registry, objects, updaters, bass, clashed, target, slot, found, todo>>
    BY DEF resampler_updater_stop
<1> QED
    BY <1>2, <1>3, <1>4 DEF TypesWith, objects, bass, found

\* Every step of bass_sox keeps the types.
LEMMA TypesStep ==
    ASSUME NEW CONSTANT labels, NEW CONSTANT names, Adds(labels, names),
           TypesWith(labels, names), Named, [Next]_vars
    PROVE  TypesWith(labels, names)'
<1> USE DEF TypesWith, objects, updating, bass, found, Goto, At
<1>0. /\ Labels \subseteq labels /\ Handles \subseteq names
      /\ \A l \in Labels : l \in labels
    BY DEF Adds
<1>1. ASSUME NEW t \in Threads, BASS_SOX_StreamCreate(t)
      PROVE  TypesWith(labels, names)'
  <2>1. CASE resampler_create(t)
    <3>1. UNCHANGED <<registry, whole, updating, bass, clashed, slot, found, todo>>
      BY <2>1 DEF resampler_create
    <3>2. memory' \in [Handles -> {"none", "allocated", "freed"}]
      BY <2>1 DEF resampler_create
    <3>3. pc' \in [Threads -> labels] /\ target' \in [Threads -> names]
      BY <1>0, <2>1 DEF resampler_create, Labels
    <3> QED
      BY <3>1, <3>2, <3>3
  <2>2. CASE CreateStream(t)
    BY <1>0, <2>2 DEF CreateStream, Labels, Named, Making, Creating, Unstored
  <2>3. CASE CreateSettings(t)
    <3>1. UNCHANGED <<registry, memory, updating, bass, clashed, target, found, todo>>
      BY <2>3 DEF CreateSettings
    <3>2. whole' \subseteq Handles
      BY <2>3 DEF CreateSettings, Named, Making, Creating, Unstored
    <3>3. pc' \in [Threads -> labels] /\ slot' \in [Threads -> 1 .. MAX_RESAMPLERS + 1]
      BY <1>0, <2>3, LifecycleAssumption DEF CreateSettings, Labels
    <3> QED
      BY <3>1, <3>2, <3>3
  <2>4. CASE Scan(t)
    <3>1. UNCHANGED <<registry, objects, updating, bass, clashed, target, found, todo>>
      BY <2>4 DEF Scan
    <3>2. pc' \in [Threads -> labels]
      BY <1>0, <2>4 DEF Scan, Labels
    <3>3. slot' \in [Threads -> 1 .. MAX_RESAMPLERS + 1]
      BY <2>4, LifecycleAssumption DEF Scan
    <3> QED
      BY <3>1, <3>2, <3>3
  <2>5. CASE Store(t)
    BY <1>0, <2>5 DEF Store, Labels, Named, Making, Creating, Unstored, Slots
  <2>6. CASE SetSync(t)
    BY <1>0, <2>6 DEF SetSync, Labels, Named, Making, Creating, Unstored
  <2>7. CASE Discard(t)
    BY <1>0, <2>7 DEF Discard, resampler_registry_remove, resampler_free, Labels,
                      Named, Making, Creating, Unstored, Slots
  <2> QED
    BY <1>1, <2>1, <2>2, <2>3, <2>4, <2>5, <2>6, <2>7 DEF BASS_SOX_StreamCreate
<1>2. ASSUME NEW t \in Threads, UseHandle(t)
      PROVE  TypesWith(labels, names)'
  <2>1. CASE Called(t)
    <3>1. UNCHANGED <<registry, objects, updating, bass, clashed, found, todo>>
      BY <2>1 DEF Called
    <3>2. pc' \in [Threads -> labels] /\ target' \in [Threads -> names]
      BY <1>0, <2>1 DEF Called, Labels
    <3>3. slot' \in [Threads -> 1 .. MAX_RESAMPLERS + 1]
      BY <2>1, LifecycleAssumption DEF Called
    <3> QED
      BY <3>1, <3>2, <3>3
  <2>2. CASE resampler_registry_get(t, "look", "use", "idle")
    BY <1>0, <2>2, GetTypes DEF Labels
  <2>3. CASE StartUpdater(t)
    BY <1>0, <2>3 DEF StartUpdater, Labels, Live
  <2>4. CASE StopUpdater(t)
    BY <1>0, <2>4 DEF StopUpdater, Labels
  <2>5. CASE AnyOtherUse(t)
    BY <1>0, <2>5 DEF AnyOtherUse, Labels
  <2>6. CASE resampler_updater_stop(t, "stop", "join", "idle")
    <3>1. "join" \in labels /\ "idle" \in labels
      BY <1>0 DEF Labels
    <3> QED
      BY <2>6, <3>1, StopTypes
  <2> QED
    BY <1>2, <2>1, <2>2, <2>3, <2>4, <2>5, <2>6 DEF UseHandle, LookUp
<1>3. ASSUME NEW t \in Threads, Free(t)
      PROVE  TypesWith(labels, names)'
  <2>1. UNCHANGED <<registry, objects, updating, bass, clashed, target, slot, found>>
    BY <1>3 DEF Free
  <2>2. pc' \in [Threads -> labels] /\ todo' \in [Threads -> SUBSET Handles]
    BY <1>0, <1>3 DEF Free, Labels
  <2> QED
    BY <2>1, <2>2
<1>4. ASSUME NEW t \in Threads, Detach(t)
      PROVE  TypesWith(labels, names)'
  <2>1. resampler_registry_get_all \subseteq Handles
    BY DEF resampler_registry_get_all
  <2> QED
    BY <1>0, <1>4, <2>1 DEF Detach, Labels
<1>5. ASSUME NEW t \in Threads, BASS_StreamFree(t)
      PROVE  TypesWith(labels, names)'
  <2>1. UNCHANGED <<registry, objects, updating, returned, unsynced, unloaded, clashed,
                    found>>
    BY <1>5 DEF BASS_StreamFree
  <2>2. pc' \in [Threads -> labels] /\ target' \in [Threads -> names]
    BY <1>0, <1>5 DEF BASS_StreamFree, Labels
  <2>3. slot' \in [Threads -> 1 .. MAX_RESAMPLERS + 1] /\ streams' \subseteq Handles
    BY <1>5, LifecycleAssumption DEF BASS_StreamFree
  <2>4. todo' \in [Threads -> SUBSET Handles]
    BY <1>5 DEF BASS_StreamFree
  <2> QED
    BY <2>1, <2>2, <2>3, <2>4
<1>6. ASSUME NEW t \in Threads, BASS_SOX_StreamFree(t)
      PROVE  TypesWith(labels, names)'
  <2>1. CASE resampler_registry_get(t, "callback_look", "callback", "free")
    BY <1>0, <2>1, GetTypes DEF Labels
  <2>2. CASE resampler_updater_stop(t, "callback", "callback_join", "unregister")
    <3>1. "callback_join" \in labels /\ "unregister" \in labels
      BY <1>0 DEF Labels
    <3> QED
      BY <2>2, <3>1, StopTypes
  <2>3. CASE Unregister(t)
    BY <1>0, <2>3 DEF Unregister, resampler_registry_remove, Labels, Slots
  <2>4. CASE Release(t)
    <3>1. UNCHANGED <<registry, updating, bass, clashed, target, slot, found, todo>>
      BY <2>4 DEF Release
    <3>2. memory' \in [Handles -> {"none", "allocated", "freed"}] /\ whole' \subseteq Handles
      BY <2>4 DEF Release, resampler_free, Live
    <3>3. pc' \in [Threads -> labels]
      BY <1>0, <2>4 DEF Release, Labels
    <3> QED
      BY <3>1, <3>2, <3>3
  <2> QED
    BY <1>6, <2>1, <2>2, <2>3, <2>4 DEF BASS_SOX_StreamFree
<1>7. ASSUME NEW h \in Handles, background_update(h)
      PROVE  TypesWith(labels, names)'
    BY <1>7 DEF background_update
<1>8. CASE UNCHANGED vars
    BY <1>8 DEF vars
<1> QED
    BY <1>1, <1>2, <1>3, <1>4, <1>5, <1>6, <1>7, <1>8 DEF Next
-----------------------------------------------------------------------------
(***************************************************************************)
(* Named, action by action.                                                *)
(***************************************************************************)
\* What happens to one thread leaves the others where they are.
OnlyMoves(t) ==
    \A u \in Threads \ {t} :
        /\ pc'[u] = pc[u] /\ target'[u] = target[u] /\ slot'[u] = slot[u]
        /\ stage'[u] = stage[u] /\ pointer'[u] = pointer[u]

\* Named is kept if the thread that moves is at a channel.
NamedFor(t) ==
    /\ pc'[t] \in Making \union CallingBack \union Using => target'[t] \in Handles
    /\ pc'[t] = "store" \/ stage'[t] # "test" => slot'[t] \in Slots
    /\ stage'[t] # "test" => pc'[t] \in LookingUp

\* A step of one thread that leaves it at a channel keeps Named.
LEMMA NamedStep ==
    ASSUME Named, NEW t \in Threads, OnlyMoves(t), NamedFor(t)
    PROVE  Named'
BY DEF Named, OnlyMoves, NamedFor

\* Looking a channel up goes on at that channel, to a slot that is one.
LEMMA GetIsNamed ==
    ASSUME NEW CONSTANT labels, NEW CONSTANT names, TypesWith(labels, names),
           Named, NEW t \in Threads, NEW at \in LookingUp,
           NEW label, NEW missed,
           label \in Using \union CallingBack => target[t] \in Handles,
           label # "store", label \notin Making,
           missed \notin Making \union CallingBack \union Using,
           resampler_registry_get(t, at, label, missed)
    PROVE  NamedFor(t)
<1>1. UNCHANGED target /\ pc[t] = at
    BY DEF resampler_registry_get, At
<1>2. pc'[t] \in {at, label, missed, "crashed"}
    BY DEF resampler_registry_get, TestSlot, LoadSlot, CompareChannel, TakeSlot,
           Goto, At, TypesWith
<1>3. pc'[t] \in Making \union CallingBack \union Using => target'[t] \in Handles
  <2>1. at \in Making \union CallingBack \union Using => target[t] \in Handles
    BY <1>1 DEF Named
  <2>2. "crashed" \notin Making \union CallingBack \union Using
    BY DEF Making, Creating, Unstored, CallingBack, Found, Using
  <2> QED
    BY <1>1, <1>2, <2>1, <2>2
<1>4. pc'[t] # "store"
    BY <1>2 DEF LookingUp, Making, Creating, Unstored
<1>5. stage'[t] # "test" => slot'[t] \in Slots /\ pc'[t] \in LookingUp
  <2>1. stage[t] # "test" => slot[t] \in Slots
    BY DEF Named
  <2>2. slot[t] \in 1 .. MAX_RESAMPLERS + 1
    BY DEF TypesWith
  <2>3. slot[t] <= MAX_RESAMPLERS => slot[t] \in Slots
    BY <2>2, LifecycleAssumption DEF Slots
  <2>4. CASE TestSlot(t, missed)
    BY <1>1, <2>3, <2>4, LifecycleAssumption DEF TestSlot, TypesWith
  <2>5. CASE LoadSlot(t)
    BY <1>1, <2>1, <2>5 DEF LoadSlot, TypesWith
  <2>6. CASE CompareChannel(t)
    BY <1>1, <2>1, <2>6 DEF CompareChannel, TypesWith, Goto, LookingUp
  <2>7. CASE TakeSlot(t, label)
    BY <2>7 DEF TakeSlot, TypesWith
  <2> QED
    BY <2>4, <2>5, <2>6, <2>7 DEF resampler_registry_get
<1> QED
    BY <1>3, <1>4, <1>5 DEF NamedFor

\* Every step moves one thread, or none at all.
LEMMA OneMoves ==
    ASSUME NEW CONSTANT labels, NEW CONSTANT names, TypesWith(labels, names),
           NEW t \in Threads,
           \/ BASS_SOX_StreamCreate(t) \/ UseHandle(t) \/ Free(t) \/ Detach(t)
           \/ BASS_StreamFree(t) \/ BASS_SOX_StreamFree(t)
    PROVE  OnlyMoves(t)
<1> USE DEF OnlyMoves, TypesWith, Goto, found
<1>1. CASE BASS_SOX_StreamCreate(t)
    BY <1>1 DEF BASS_SOX_StreamCreate, resampler_create, CreateStream, CreateSettings,
                Scan, Store, SetSync, Discard
<1>2. CASE UseHandle(t)
  <2>1. CASE LookUp(t)
    BY <2>1 DEF LookUp, Called, resampler_registry_get, TestSlot, LoadSlot,
                CompareChannel, TakeSlot
  <2>2. CASE \/ StartUpdater(t) \/ StopUpdater(t) \/ AnyOtherUse(t)
             \/ resampler_updater_stop(t, "stop", "join", "idle")
    BY <2>2 DEF StartUpdater, StopUpdater, AnyOtherUse, resampler_updater_stop
  <2> QED
    BY <1>2, <2>1, <2>2 DEF UseHandle
<1>3. CASE Free(t) \/ Detach(t) \/ BASS_StreamFree(t)
    BY <1>3 DEF Free, Detach, BASS_StreamFree
<1>4. CASE BASS_SOX_StreamFree(t)
  <2>1. CASE resampler_registry_get(t, "callback_look", "callback", "free")
    BY <2>1 DEF resampler_registry_get, TestSlot, LoadSlot, CompareChannel, TakeSlot
  <2>2. CASE \/ resampler_updater_stop(t, "callback", "callback_join", "unregister")
             \/ Unregister(t) \/ Release(t)
    BY <2>2 DEF resampler_updater_stop, Unregister, Release
  <2> QED
    BY <1>4, <2>1, <2>2 DEF BASS_SOX_StreamFree
<1> QED
    BY <1>1, <1>2, <1>3, <1>4

\* Every step of bass_sox keeps Named.
LEMMA NamedKept ==
    ASSUME NEW CONSTANT labels, NEW CONSTANT names, TypesWith(labels, names),
           Named, [Next]_vars
    PROVE  Named'
<1> USE DEF TypesWith, At, Goto, found
<1> USE DEF Making, Creating, Unstored, CallingBack, Found, Using
<1>1. ASSUME NEW t \in Threads, BASS_SOX_StreamCreate(t)
      PROVE  NamedFor(t)
  <2>0. pc[t] \in Making \union {"idle"} => stage[t] = "test"
    BY DEF Named, LookingUp
  <2>1. CASE resampler_create(t)
    <3>1. pc[t] = "idle" /\ UNCHANGED <<slot, stage>>
      BY <2>1 DEF resampler_create
    <3>2. pc'[t] \in {"stream", "stream_null"} /\ target'[t] \in Handles
      BY <2>1 DEF resampler_create
    <3> QED
      BY <2>0, <3>1, <3>2 DEF NamedFor
  <2>2. CASE CreateStream(t) \/ CreateSettings(t) \/ SetSync(t) \/ Discard(t)
    BY <2>0, <2>2 DEF CreateStream, CreateSettings, SetSync, Discard, NamedFor, Named
  <2>3. CASE Scan(t)
    <3>1. pc[t] = "scan" /\ UNCHANGED <<target, stage>> /\ target[t] \in Handles
      BY <2>3 DEF Scan, Named
    <3>2. pc'[t] = "store" => slot[t] <= MAX_RESAMPLERS /\ slot' = slot
      BY <2>3 DEF Scan
    <3>3. slot[t] \in 1 .. MAX_RESAMPLERS + 1
      OBVIOUS
    <3> QED
      BY <2>0, <3>1, <3>2, <3>3, LifecycleAssumption DEF NamedFor, Slots
  <2>4. CASE Store(t)
    BY <2>0, <2>4 DEF Store, NamedFor, Named
  <2> QED
    BY <1>1, <2>1, <2>2, <2>3, <2>4 DEF BASS_SOX_StreamCreate
<1>2. ASSUME NEW t \in Threads, UseHandle(t)
      PROVE  NamedFor(t)
  <2>0. pc[t] \in (Using \union {"idle"}) \ {"look"} => stage[t] = "test"
    BY DEF Named, LookingUp
  <2>1. CASE Called(t)
    BY <2>0, <2>1 DEF Called, NamedFor
  <2>2. CASE resampler_registry_get(t, "look", "use", "idle")
    <3>1. pc[t] = "look"
      BY <2>2 DEF resampler_registry_get
    <3>2. target[t] \in Handles
      BY <3>1 DEF Named
    <3> HIDE DEF TypesWith, At, Goto
    <3> QED
      BY <2>2, <3>2, GetIsNamed DEF LookingUp
  <2>3. CASE StartUpdater(t) \/ StopUpdater(t) \/ AnyOtherUse(t)
    BY <2>0, <2>3 DEF StartUpdater, StopUpdater, AnyOtherUse, NamedFor, Named
  <2>4. CASE resampler_updater_stop(t, "stop", "join", "idle")
    BY <2>0, <2>4 DEF resampler_updater_stop, NamedFor, Named
  <2> QED
    BY <1>2, <2>1, <2>2, <2>3, <2>4 DEF UseHandle, LookUp
<1>3. ASSUME NEW t \in Threads, Free(t) \/ Detach(t) \/ BASS_StreamFree(t)
      PROVE  NamedFor(t)
  <2>1. pc[t] \in {"idle", "free"} => stage[t] = "test"
    BY DEF Named, LookingUp
  <2>2. pc[t] \in {"idle", "free"} /\ UNCHANGED stage
    BY <1>3 DEF Free, Detach, BASS_StreamFree
  <2>3. /\ pc'[t] \in {"idle", "free", "callback_look"}
        /\ pc'[t] = "callback_look" => target'[t] \in Handles
    BY <1>3 DEF Free, Detach, BASS_StreamFree
  <2> QED
    BY <2>1, <2>2, <2>3 DEF NamedFor
<1>4. ASSUME NEW t \in Threads, BASS_SOX_StreamFree(t)
      PROVE  NamedFor(t)
  <2>0. pc[t] \in Found => stage[t] = "test"
    BY DEF Named, LookingUp
  <2>1. CASE resampler_registry_get(t, "callback_look", "callback", "free")
    <3>1. pc[t] = "callback_look"
      BY <2>1 DEF resampler_registry_get
    <3>2. target[t] \in Handles
      BY <3>1 DEF Named
    <3> HIDE DEF TypesWith, At, Goto
    <3> QED
      BY <2>1, <3>2, GetIsNamed DEF LookingUp
  <2>2. CASE resampler_updater_stop(t, "callback", "callback_join", "unregister")
    BY <2>0, <2>2 DEF resampler_updater_stop, NamedFor, Named
  <2>3. CASE Unregister(t) \/ Release(t)
    BY <2>0, <2>3 DEF Unregister, Release, NamedFor, Named
  <2> QED
    BY <1>4, <2>1, <2>2, <2>3 DEF BASS_SOX_StreamFree
<1>5. CASE (\E h \in Handles : background_update(h)) \/ UNCHANGED vars
    BY <1>5 DEF background_update, vars, Named
<1> HIDE DEF TypesWith, At, Goto, Making, Creating, Unstored, CallingBack, Found, Using
<1> QED
    BY <1>1, <1>2, <1>3, <1>4, <1>5, OneMoves, NamedStep DEF Next
-----------------------------------------------------------------------------
(***************************************************************************)
(* The rest of the invariant, which is about who has which resampler.      *)
(***************************************************************************)
\* What the account is about stays as it is for every thread but one.
Same(t) ==
    /\ OnlyMoves(t)
    /\ UNCHANGED <<registry, memory, streams, returned, clashed>> /\ whole \subseteq whole'

\* A step that makes, frees, loads and registers nothing, and by which no thread
\* starts to do so.
Quiet(t) ==
    /\ Same(t)
    /\ pc'[t] \in Making \union CallingBack => target'[t] = target[t]
    /\ pc'[t] \in Making => pc[t] \in Unstored /\ pc'[t] \in Creating \ {"sync"}
    /\ pc'[t] \in CallingBack =>
          pc[t] \in Found /\ pc'[t] \in Found \ {"release"}
    /\ pc'[t] = "unregister" => pointer[t] # Null
    /\ pointer'[t] = pointer[t]

\* Such a step keeps all of it.
LEMMA QuietStep ==
    ASSUME Accounted, NEW t \in Threads, Quiet(t)
    PROVE  Accounted'
<1> USE DEF Quiet, Same, OnlyMoves
<1>1. MadeOnce'
  <2>1. \A u \in Threads : pc'[u] \in Making => pc[u] \in Making /\ target'[u] = target[u]
    BY DEF Making, Creating
  <2>2. \A u \in Threads : pc'[u] \in Unstored => pc[u] \in Unstored /\ target'[u] = target[u]
    BY DEF Making, Creating, Unstored
  <2> QED
    BY <2>1, <2>2 DEF Accounted, Unlocked, MadeOnce, Registered
<1>2. WasMade' /\ RegistryIsLive'
    BY DEF Accounted, Unlocked, WasMade, RegistryIsLive, CallingBack, Found, Registered
<1>3. ASSUME ~ clashed'
      PROVE  Owned'
  <2>1. KeptWhileMade /\ FreedOnce /\ ReturnedAreWhole
    BY <1>3 DEF Accounted, Owned
  <2>2. KeptWhileMade'
    BY <2>1 DEF KeptWhileMade, Making, Creating
  <2>3. FreedOnce'
    BY <2>1 DEF FreedOnce, CallingBack, Found
  <2> QED
    BY <2>1, <2>2, <2>3 DEF Owned, ReturnedAreWhole
<1> QED
    BY <1>1, <1>2, <1>3 DEF Accounted, Unlocked

\* Looking a channel up: what is loaded from the registry was made, and the callback
\* of a channel finds the resampler of this channel.
LEMMA GetKeepsAccount ==
    ASSUME NEW CONSTANT labels, NEW CONSTANT names, LifeInv(labels, names),
           NEW t \in Threads, NEW at \in LookingUp, NEW label, NEW missed,
           \/ at = "callback_look" /\ label = "callback"
           \/ at # "callback_look" /\ label \notin CallingBack,
           label \notin Making, missed \notin Making \union CallingBack,
           resampler_registry_get(t, at, label, missed)
    PROVE  Accounted'
<1> USE DEF LifeInv, TypesWith, Accounted, Unlocked
<1>1. /\ pc[t] = at
      /\ UNCHANGED <<registry, memory, whole, streams, returned, clashed, target>>
    BY DEF resampler_registry_get, At, objects, bass
<1>2. /\ OnlyMoves(t)
      /\ pc' = [pc EXCEPT ![t] = pc'[t]]
      /\ pc'[t] \in {at, label, missed, "crashed"}
    BY <1>1 DEF resampler_registry_get, TestSlot, LoadSlot, CompareChannel, TakeSlot,
                Goto, OnlyMoves
<1>3. /\ pc'[t] \notin Making \union {"unregister", "release"}
      /\ pc'[t] \in CallingBack => at = "callback_look"
    BY <1>1, <1>2 DEF LookingUp, Making, Creating, Unstored, CallingBack, Found
<1>4. \/ pointer'[t] = pointer[t]
      \/ /\ slot[t] \in Slots /\ pointer'[t] = registry[slot[t]]
         /\ stage[t] \in {"load", "take"}
    BY DEF resampler_registry_get, TestSlot, LoadSlot, CompareChannel, TakeSlot, Named
<1>5. pointer'[t] # Null /\ pointer'[t] # pointer[t] =>
          memory[pointer'[t]] = "allocated" /\ Registered(pointer'[t])
    BY <1>4 DEF RegistryIsLive, Registered
<1>6. MadeOnce'
  <2>1. \A u \in Threads : pc'[u] \in Making => u # t /\ pc[u] \in Making
    BY <1>2, <1>3 DEF OnlyMoves
  <2>2. \A u \in Threads : pc'[u] \in Unstored => u # t /\ pc[u] \in Unstored
    BY <1>2, <1>3 DEF OnlyMoves, Making, Creating
  <2>3. \A u, v \in Threads : pc'[u] \in Unstored => pointer'[v] # target[u]
    <3> SUFFICES ASSUME NEW u \in Threads, NEW v \in Threads, pc'[u] \in Unstored
                 PROVE  pointer'[v] # target[u]
      OBVIOUS
    <3>1. pointer[v] # target[u] /\ ~ Registered(target[u]) /\ target[u] \in Handles
      BY <2>2 DEF MadeOnce, Named, Making, Creating
    <3>2. CASE v = t
      BY <1>5, <3>1, <3>2, LifecycleAssumption
    <3>3. CASE v # t
      BY <1>2, <3>1, <3>3 DEF OnlyMoves
    <3> QED
      BY <3>2, <3>3
  <2> QED
    BY <1>1, <2>1, <2>2, <2>3 DEF MadeOnce, Registered
<1>7. WasMade' /\ RegistryIsLive'
  <2>1. \A u \in Threads : pointer'[u] # Null => memory[pointer'[u]] # "none"
    BY <1>2, <1>5 DEF WasMade, OnlyMoves
  <2>2. \A u \in Threads : pc'[u] \in {"unregister", "release"} =>
            u # t /\ pc'[u] = pc[u] /\ pointer'[u] = pointer[u]
    BY <1>2, <1>3 DEF OnlyMoves
  <2> QED
    BY <1>1, <2>1, <2>2 DEF WasMade, RegistryIsLive, Registered
<1>8. ASSUME ~ clashed'
      PROVE  Owned'
  <2>1. KeptWhileMade /\ FreedOnce /\ ReturnedAreWhole
    BY <1>1, <1>8 DEF Owned
  <2>2. KeptWhileMade' /\ ReturnedAreWhole'
    <3>1. \A u \in Threads : pc'[u] \in Creating => pc'[u] = pc[u]
      BY <1>2, <1>3 DEF OnlyMoves, Making
    <3> QED
      BY <1>1, <2>1, <3>1 DEF KeptWhileMade, ReturnedAreWhole, Creating
  <2>3. \A u \in Threads : pc'[u] \in CallingBack => pc[u] \in CallingBack
    BY <1>1, <1>2, <1>3 DEF OnlyMoves, CallingBack
  <2>4. pc'[t] \in Found => pc[t] = "callback_look" /\ stage[t] = "take"
                            /\ pointer'[t] = registry[slot[t]]
    BY <1>1 DEF resampler_registry_get, TestSlot, LoadSlot, CompareChannel, TakeSlot,
                Goto, Found, CallingBack, LookingUp
  <2>5. ASSUME pc'[t] = "callback_look"
        PROVE  /\ stage'[t] = "follow" /\ pointer'[t] = target[t] =>
                      registry[slot'[t]] = target[t]
               /\ stage'[t] = "take" => registry[slot'[t]] = target[t]
    <3>1. pc[t] = "callback_look"
      BY <1>1, <1>3, <2>5 DEF CallingBack
    <3>2. CASE TestSlot(t, missed)
      BY <3>2 DEF TestSlot, Stages
    <3>3. CASE LoadSlot(t)
      BY <3>3 DEF LoadSlot
    <3>4. CASE CompareChannel(t)
      BY <2>1, <3>1, <3>4 DEF CompareChannel, FreedOnce, CallingBack
    <3>5. CASE TakeSlot(t, label)
      BY <3>5 DEF TakeSlot
    <3> QED
      BY <3>2, <3>3, <3>4, <3>5 DEF resampler_registry_get
  <2>6. FreedOnce'
    <3>1. \A u \in Threads : pc'[u] \in Found => pointer'[u] = target[u]
      BY <1>2, <2>1, <2>4 DEF FreedOnce, OnlyMoves, CallingBack
    <3>2. \A u \in Threads : pc'[u] = "callback_look" =>
            /\ stage'[u] = "follow" /\ pointer'[u] = target[u] =>
                  registry[slot'[u]] = target[u]
            /\ stage'[u] = "take" => registry[slot'[u]] = target[u]
      BY <1>2, <2>1, <2>5 DEF FreedOnce, OnlyMoves
    <3> QED
      BY <1>1, <2>1, <2>3, <3>1, <3>2 DEF FreedOnce
  <2> QED
    BY <2>2, <2>6 DEF Owned
<1> QED
    BY <1>6, <1>7, <1>8

\* A resampler is made of memory that was nobody's.
LEMMA CreateKeepsAccount ==
    ASSUME NEW CONSTANT labels, NEW CONSTANT names, LifeInv(labels, names),
           NEW t \in Threads, resampler_create(t)
    PROVE  Accounted'
<1> USE DEF LifeInv, TypesWith, Accounted, Unlocked
<1>1. PICK h \in Handles, l \in {"stream", "stream_null"}, m \in {"allocated", "freed"} :
          /\ memory[h] = "none" /\ memory' = [memory EXCEPT ![h] = m]
          /\ target' = [target EXCEPT ![t] = h]
          /\ pc' = [pc EXCEPT ![t] = l] /\ (l = "stream" => m = "allocated")
    BY DEF resampler_create, Goto
<1>2. /\ pc[t] = "idle"
      /\ UNCHANGED <<registry, streams, returned, whole, clashed, slot, stage, pointer>>
    BY DEF resampler_create, At, bass, found
<1>3. /\ h \notin returned /\ ~ Registered(h) /\ h # Null
      /\ \A u \in Threads : pointer[u] # h
    BY <1>1, LifecycleAssumption DEF WasMade, RegistryIsLive, Registered
<1>4. \A u \in Threads : pc[u] \in Making => target[u] # h
    BY <1>1 DEF MadeOnce
<1>5. MadeOnce'
    BY <1>1, <1>2, <1>3, <1>4 DEF MadeOnce, Making, Creating, Unstored, Registered
<1>6. WasMade' /\ RegistryIsLive'
    BY <1>1, <1>2, <1>3 DEF WasMade, RegistryIsLive, Registered
<1>7. ASSUME ~ clashed'
      PROVE  Owned'
  <2>1. KeptWhileMade /\ FreedOnce /\ ReturnedAreWhole
    BY <1>2, <1>7 DEF Owned
  <2>2. KeptWhileMade'
    BY <1>1, <1>2, <1>4, <2>1 DEF KeptWhileMade, Making, Creating, Unstored
  <2>3. \A u \in Threads : pc'[u] \in CallingBack =>
            u # t /\ pc[u] \in CallingBack /\ target[u] # h
    BY <1>1, <2>1 DEF FreedOnce, CallingBack, Found
  <2>4. FreedOnce'
    BY <1>1, <1>2, <2>1, <2>3 DEF FreedOnce, CallingBack, Found
  <2>5. ReturnedAreWhole'
    BY <1>1, <1>2, <1>3, <2>1 DEF ReturnedAreWhole
  <2> QED
    BY <2>2, <2>4, <2>5 DEF Owned
<1> QED
    BY <1>5, <1>6, <1>7

\* BASS creates the channel, which nobody else is at.
LEMMA StreamKeepsAccount ==
    ASSUME NEW CONSTANT labels, NEW CONSTANT names, LifeInv(labels, names),
           NEW t \in Threads, CreateStream(t)
    PROVE  Accounted'
<1> USE DEF LifeInv, TypesWith, Accounted, Unlocked
<1>1. /\ pc[t] \in {"stream", "stream_null"}
      /\ UNCHANGED <<registry, memory, whole, returned, clashed, target, slot, stage, pointer>>
      /\ \E l \in {"settings", "idle", "crashed"} :
            pc' = [pc EXCEPT ![t] = l] /\ (l = "settings" => pc[t] = "stream")
      /\ streams' \in {streams, streams \union {target[t]}}
    BY DEF CreateStream, Goto, At, objects, found
<1>2. target[t] \notin returned
    BY <1>1 DEF MadeOnce, Making, Creating, Unstored
<1>3. MadeOnce'
    BY <1>1 DEF MadeOnce, Making, Creating, Unstored, Registered
<1>4. WasMade' /\ RegistryIsLive'
    BY <1>1 DEF WasMade, RegistryIsLive, Registered
<1>5. ASSUME ~ clashed'
      PROVE  Owned'
  <2>1. KeptWhileMade /\ FreedOnce /\ ReturnedAreWhole
    BY <1>1, <1>5 DEF Owned
  <2>2. KeptWhileMade'
    BY <1>1, <2>1 DEF KeptWhileMade, Creating, Unstored
  <2>3. FreedOnce'
    BY <1>1, <1>2, <2>1 DEF FreedOnce, CallingBack, Found
  <2>4. ReturnedAreWhole'
    BY <1>1, <1>2, <2>1 DEF ReturnedAreWhole
  <2> QED
    BY <2>2, <2>3, <2>4 DEF Owned
<1> QED
    BY <1>3, <1>4, <1>5

\* A resampler that is not registered yet is.
LEMMA StoreKeepsAccount ==
    ASSUME NEW CONSTANT labels, NEW CONSTANT names, LifeInv(labels, names),
           NEW t \in Threads, Store(t)
    PROVE  Accounted'
<1> USE DEF LifeInv, TypesWith, Accounted, Unlocked
<1>1. /\ pc[t] = "store"
      /\ UNCHANGED <<memory, whole, returned, streams, target, slot, stage, pointer>>
      /\ pc' = [pc EXCEPT ![t] = IF target[t] \in whole THEN "sync" ELSE "discard"]
      /\ registry' = [registry EXCEPT ![slot[t]] = target[t]]
      /\ ~ clashed' => ~ clashed /\ registry[slot[t]] = Null
    BY DEF Store, Goto, At, objects, bass, found
<1>2. /\ slot[t] \in Slots /\ target[t] \in Handles /\ ~ Registered(target[t])
      /\ memory[target[t]] = "allocated" /\ target[t] \notin returned
      /\ \A u \in Threads : pointer[u] # target[t]
    BY <1>1 DEF Named, MadeOnce, Making, Creating, Unstored
<1>3. \A h \in names : h # target[t] /\ Registered(h)' => Registered(h)
    BY <1>1, <1>2 DEF Registered
<1>4. \A h \in Handles : h # target[t] /\ Registered(h)' => Registered(h)
    BY <1>1, <1>2 DEF Registered
<1>5. MadeOnce'
  <2>1. \A u \in Threads : pc'[u] \in Making => pc[u] \in Making
    BY <1>1 DEF Making, Creating, Unstored
  <2>2. \A u \in Threads : pc'[u] \in Unstored =>
            u # t /\ pc[u] \in Unstored /\ target[u] # target[t]
    BY <1>1 DEF MadeOnce, Making, Creating, Unstored
  <2>3. \A u \in Threads : pc'[u] \in Unstored => ~ Registered(target[u])'
    BY <1>1, <1>3, <2>2 DEF MadeOnce
  <2> QED
    BY <1>1, <2>1, <2>2, <2>3 DEF MadeOnce
<1>6. WasMade'
  <2>1. \A u \in Threads : pc'[u] \in {"unregister", "release"} => pc'[u] = pc[u]
    BY <1>1
  <2>2. \A u \in Threads : pc[u] = "release" => pointer[u] \in Handles
    BY DEF WasMade
  <2> QED
    BY <1>1, <1>2, <1>4, <2>1, <2>2 DEF WasMade
<1>7. RegistryIsLive'
    BY <1>1, <1>2, LifecycleAssumption DEF RegistryIsLive, Registered
<1>8. ASSUME ~ clashed'
      PROVE  Owned'
  <2>1. KeptWhileMade /\ FreedOnce /\ ReturnedAreWhole /\ registry[slot[t]] = Null
    BY <1>1, <1>8 DEF Owned
  <2>2. KeptWhileMade'
    BY <1>1, <1>2, <2>1 DEF KeptWhileMade, Creating, Unstored
  <2>3. \A u \in Threads : pc'[u] \in CallingBack => u # t /\ pc'[u] = pc[u]
    BY <1>1 DEF CallingBack, Found
  <2>4. \A u \in Threads : pc[u] = "callback_look" /\ registry[slot[u]] = target[u] =>
            registry'[slot[u]] = target[u]
    <3> SUFFICES ASSUME NEW u \in Threads, pc[u] = "callback_look",
                        registry[slot[u]] = target[u]
                 PROVE  registry'[slot[u]] = target[u]
      OBVIOUS
    <3>1. target[u] # Null
      BY LifecycleAssumption DEF Named, CallingBack
    <3> QED
      BY <1>1, <2>1, <3>1
  <2>5. FreedOnce'
    BY <1>1, <2>1, <2>3, <2>4 DEF FreedOnce, CallingBack, Found
  <2> QED
    BY <1>1, <2>1, <2>2, <2>5 DEF Owned, ReturnedAreWhole
<1> QED
    BY <1>5, <1>6, <1>7, <1>8

\* A channel that has all of its resampler is handed out.
LEMMA SyncKeepsAccount ==
    ASSUME NEW CONSTANT labels, NEW CONSTANT names, LifeInv(labels, names),
           NEW t \in Threads, SetSync(t)
    PROVE  Accounted'
<1> USE DEF LifeInv, TypesWith, Accounted, Unlocked
<1>1. /\ pc[t] = "sync" /\ returned' = returned \union {target[t]}
      /\ pc' = [pc EXCEPT ![t] = "idle"]
      /\ UNCHANGED <<registry, memory, whole, streams, clashed, target, slot, stage, pointer>>
    BY DEF SetSync, Goto, At, objects, found
<1>2. /\ memory[target[t]] # "none"
      /\ \A u \in Threads : u # t /\ pc[u] \in Making => target[u] # target[t]
    BY <1>1 DEF MadeOnce, Making, Creating
<1>3. MadeOnce'
    BY <1>1, <1>2 DEF MadeOnce, Making, Creating, Unstored, Registered
<1>4. WasMade' /\ RegistryIsLive'
    BY <1>1, <1>2 DEF WasMade, RegistryIsLive, Registered
<1>5. ASSUME ~ clashed'
      PROVE  Owned'
  <2>1. KeptWhileMade /\ FreedOnce /\ ReturnedAreWhole
    BY <1>1, <1>5 DEF Owned
  <2>2. target[t] \in whole /\ memory[target[t]] = "allocated"
    BY <1>1, <2>1 DEF KeptWhileMade, Creating
  <2>3. KeptWhileMade'
    BY <1>1, <2>1 DEF KeptWhileMade, Creating, Unstored
  <2>4. FreedOnce'
    BY <1>1, <2>1 DEF FreedOnce, CallingBack, Found
  <2>5. ReturnedAreWhole'
    BY <1>1, <2>1, <2>2 DEF ReturnedAreWhole
  <2> QED
    BY <2>3, <2>4, <2>5 DEF Owned
<1> QED
    BY <1>3, <1>4, <1>5

\* What could not be completed is freed, and nobody else is at it.
LEMMA DiscardKeepsAccount ==
    ASSUME NEW CONSTANT labels, NEW CONSTANT names, LifeInv(labels, names),
           NEW t \in Threads, Discard(t)
    PROVE  Accounted'
<1> USE DEF LifeInv, TypesWith, Accounted, Unlocked
<1> DEFINE h == target[t]
<1>1. /\ pc[t] = "discard"
      /\ UNCHANGED <<returned, clashed, target, slot, stage, pointer>>
      /\ pc' = [pc EXCEPT ![t] = "idle"] /\ streams' = streams \ {h}
      /\ memory' = [memory EXCEPT ![h] = "freed"] /\ whole' = whole \ {h}
      /\ registry' = [i \in Slots |-> IF registry[i] = h THEN Null ELSE registry[i]]
    BY DEF Discard, resampler_registry_remove, resampler_free, Goto, At, found
<1>2. h \in Handles /\ h \notin returned /\ h # Null
    BY <1>1, LifecycleAssumption DEF Named, MadeOnce, Making, Creating
<1>3. \A u \in Threads : pc'[u] \in Making => u # t /\ pc'[u] = pc[u] /\ target[u] # h
    BY <1>1 DEF MadeOnce, Making, Creating, Unstored
<1>4. \A g : g # Null /\ Registered(g)' => Registered(g)
    BY <1>1 DEF Registered
<1>5. MadeOnce'
  <2>1. \A u \in Threads : pc'[u] \in Unstored => target[u] # Null
    BY <1>3, LifecycleAssumption DEF Named, Making, Creating
  <2>2. \A u \in Threads : pc'[u] \in Unstored => pc'[u] \in Making
    BY DEF Making, Creating
  <2>3. \A u \in Threads : pc'[u] \in Making =>
            memory'[target[u]] = memory[target[u]]
    BY <1>1, <1>3
  <2>4. \A u \in Threads : pc'[u] \in Unstored => ~ Registered(target[u])'
    <3> SUFFICES ASSUME NEW u \in Threads, pc'[u] \in Unstored
                 PROVE  ~ Registered(target[u])'
      OBVIOUS
    <3>1. ~ Registered(target[u]) /\ target[u] # Null /\ target'[u] = target[u]
      BY <1>1, <1>3, <2>1, <2>2 DEF MadeOnce
    <3> QED
      BY <1>1, <3>1 DEF Registered
  <2> QED
    BY <1>1, <1>3, <2>2, <2>3, <2>4 DEF MadeOnce
<1>6. WasMade'
  <2>1. \A g \in Handles : memory[g] # "none" => memory'[g] # "none"
    BY <1>1
  <2>2. \A u \in Threads : pc'[u] \in {"unregister", "release"} => pc'[u] = pc[u]
    BY <1>1
  <2> QED
    BY <1>1, <1>4, <2>1, <2>2 DEF WasMade
<1>7. RegistryIsLive'
    BY <1>1, <1>2 DEF RegistryIsLive
<1>8. ASSUME ~ clashed'
      PROVE  Owned'
  <2>1. KeptWhileMade /\ FreedOnce /\ ReturnedAreWhole
    BY <1>1, <1>8 DEF Owned
  <2>2. KeptWhileMade'
    <3>1. \A u \in Threads : pc'[u] \in Creating => pc'[u] \in Making
      BY DEF Making
    <3> QED
      BY <1>1, <1>3, <2>1, <3>1 DEF KeptWhileMade, Creating
  <2>3. \A u \in Threads : pc'[u] \in CallingBack =>
            pc'[u] = pc[u] /\ u # t /\ target[u] # h
    BY <1>1, <1>2, <2>1 DEF FreedOnce, CallingBack, Found
  <2>4. \A u \in Threads : pc'[u] = "callback_look" /\ registry[slot[u]] = target[u]
            /\ slot[u] \in Slots => registry'[slot[u]] = target[u]
    BY <1>1, <2>3 DEF CallingBack
  <2>5. \A u \in Threads : stage[u] # "test" => slot[u] \in Slots
    BY DEF Named
  <2>6. FreedOnce'
    BY <1>1, <2>1, <2>3, <2>4, <2>5 DEF FreedOnce, CallingBack, Found
  <2>7. ReturnedAreWhole'
    BY <1>1, <1>2, <2>1 DEF ReturnedAreWhole
  <2> QED
    BY <2>2, <2>6, <2>7 DEF Owned
<1> QED
    BY <1>5, <1>6, <1>7, <1>8

\* BASS frees a channel, and calls back if it was handed out.
LEMMA StreamFreeKeepsAccount ==
    ASSUME NEW CONSTANT labels, NEW CONSTANT names, LifeInv(labels, names),
           NEW t \in Threads, BASS_StreamFree(t)
    PROVE  Accounted'
<1> USE DEF LifeInv, TypesWith, Accounted, Unlocked
<1>1. /\ pc[t] = "free"
      /\ UNCHANGED <<registry, memory, whole, returned, clashed, stage, pointer>>
      /\ stage[t] = "test"
    BY DEF BASS_StreamFree, At, objects, found, Named, LookingUp
<1>2. PICK h \in Handles \union {Null}, l \in {"idle", "free", "callback_look"} :
          /\ pc' = [pc EXCEPT ![t] = l] /\ streams' = streams \ {h}
          /\ l = "callback_look" => h \in streams \intersect returned /\ target'[t] = h
    <2>1. CASE pc' = [pc EXCEPT ![t] = "idle"] /\ UNCHANGED streams
      BY <2>1, LifecycleAssumption
    <2>2. ASSUME NEW h \in todo[t],
                 /\ target' = [target EXCEPT ![t] = h] /\ streams' = streams \ {h}
                 /\ pc' = [pc EXCEPT ![t] =
                              IF h \in (streams \intersect returned) \ unsynced
                              THEN "callback_look" ELSE "free"]
          PROVE  \E g \in Handles \union {Null}, l \in {"idle", "free", "callback_look"} :
                    /\ pc' = [pc EXCEPT ![t] = l] /\ streams' = streams \ {g}
                    /\ l = "callback_look" => g \in streams \intersect returned
                                              /\ target'[t] = g
      <3>1. h \in Handles
        OBVIOUS
      <3>2. CASE h \in (streams \intersect returned) \ unsynced
        BY <2>2, <3>1, <3>2
      <3>3. CASE h \notin (streams \intersect returned) \ unsynced
        BY <2>2, <3>1, <3>3
      <3> QED
        BY <3>2, <3>3
    <2> QED
      BY <2>1, <2>2 DEF BASS_StreamFree, Goto
<1>3. \A u \in Threads \ {t} : target'[u] = target[u] /\ slot'[u] = slot[u]
    BY DEF BASS_StreamFree
<1>4. MadeOnce'
    BY <1>1, <1>2, <1>3 DEF MadeOnce, Making, Creating, Unstored, Registered
<1>5. WasMade' /\ RegistryIsLive'
    BY <1>1, <1>2 DEF WasMade, RegistryIsLive, Registered
<1>6. ASSUME ~ clashed'
      PROVE  Owned'
  <2>1. KeptWhileMade /\ FreedOnce /\ ReturnedAreWhole
    BY <1>1, <1>6 DEF Owned
  <2>2. KeptWhileMade'
    BY <1>1, <1>2, <1>3, <2>1 DEF KeptWhileMade, Creating, Unstored
  <2>3. \A u \in Threads : pc'[u] \in CallingBack =>
            \/ u = t /\ pc'[u] = "callback_look" /\ target'[t] \in streams \intersect returned
               /\ target'[t] \notin streams'
            \/ u # t /\ pc'[u] = pc[u] /\ target'[u] = target[u] /\ slot'[u] = slot[u]
    BY <1>1, <1>2, <1>3 DEF CallingBack, Found
  <2>4. \A u \in Threads : pc'[u] \in Found =>
            u # t /\ pc'[u] = pc[u] /\ target'[u] = target[u]
    BY <1>1, <1>2, <1>3 DEF Found
  <2>5. FreedOnce'
    <3>1. \A u \in Threads : pc'[u] \in CallingBack =>
              /\ memory[target'[u]] = "allocated"
              /\ target'[u] \in returned /\ target'[u] \notin streams'
      BY <1>2, <2>1, <2>3 DEF FreedOnce, ReturnedAreWhole
    <3>2. \A u, v \in Threads :
              pc'[u] \in CallingBack /\ pc'[v] \in CallingBack /\ target'[u] = target'[v]
                  => u = v
      BY <2>1, <2>3 DEF FreedOnce
    <3>3. \A u \in Threads : pc'[u] \in Found => pointer[u] = target'[u]
      BY <2>1, <2>4 DEF FreedOnce
    <3>4. \A u \in Threads : pc'[u] = "callback_look" =>
              /\ stage[u] = "follow" /\ pointer[u] = target'[u] =>
                    registry[slot'[u]] = target'[u]
              /\ stage[u] = "take" => registry[slot'[u]] = target'[u]
      BY <1>1, <2>1, <2>3 DEF FreedOnce, CallingBack
    <3> QED
      BY <1>1, <3>1, <3>2, <3>3, <3>4 DEF FreedOnce
  <2>6. ReturnedAreWhole'
    BY <1>1, <1>2, <2>1 DEF ReturnedAreWhole
  <2> QED
    BY <2>2, <2>5, <2>6 DEF Owned
<1> QED
    BY <1>4, <1>5, <1>6

\* The callback takes what it found out of the registry.
LEMMA UnregisterKeepsAccount ==
    ASSUME NEW CONSTANT labels, NEW CONSTANT names, LifeInv(labels, names),
           NEW t \in Threads, Unregister(t)
    PROVE  Accounted'
<1> USE DEF LifeInv, TypesWith, Accounted, Unlocked
<1>1. /\ pc[t] = "unregister"
      /\ UNCHANGED <<memory, whole, returned, streams, clashed, target, slot, stage, pointer>>
      /\ pc' = [pc EXCEPT ![t] = "release"]
      /\ registry' = [i \in Slots |->
                         IF registry[i] = pointer[t] THEN Null ELSE registry[i]]
    BY DEF Unregister, resampler_registry_remove, Goto, At, objects, bass, found
<1>2. pointer[t] # Null
    BY <1>1 DEF WasMade
<1>3. ~ Registered(pointer[t])' /\ \A g : g # Null /\ Registered(g)' => Registered(g)
    BY <1>1, <1>2 DEF Registered
<1>4. \A u \in Threads : pc[u] \in Making \union CallingBack => target[u] # Null
    BY LifecycleAssumption DEF Named
<1>5. MadeOnce'
    BY <1>1, <1>3, <1>4 DEF MadeOnce, Making, Creating, Unstored
<1>6. WasMade' /\ RegistryIsLive'
  <2>1. \A u \in Threads : pc'[u] = "release" => pointer[u] # Null
    BY <1>1 DEF WasMade
  <2>2. \A u \in Threads : pc'[u] = "release" => ~ Registered(pointer[u])'
    BY <1>1, <1>3, <2>1 DEF WasMade
  <2> QED
    BY <1>1, <2>1, <2>2 DEF WasMade, RegistryIsLive
<1>7. ASSUME ~ clashed'
      PROVE  Owned'
  <2>1. KeptWhileMade /\ FreedOnce /\ ReturnedAreWhole
    BY <1>1, <1>7 DEF Owned
  <2>2. KeptWhileMade' /\ ReturnedAreWhole'
    BY <1>1, <2>1 DEF KeptWhileMade, ReturnedAreWhole, Creating, Unstored
  <2>3. pointer[t] = target[t]
    BY <1>1, <2>1 DEF FreedOnce, Found
  <2>4. \A u \in Threads : pc'[u] = "callback_look" => u # t /\ target[u] # target[t]
    BY <1>1, <2>1 DEF FreedOnce, CallingBack, Found
  <2>5. \A u \in Threads : stage[u] # "test" => slot[u] \in Slots
    BY DEF Named
  <2>6. \A u \in Threads : pc'[u] = "callback_look" /\ registry[slot[u]] = target[u]
            /\ slot[u] \in Slots => registry'[slot[u]] = target[u]
    BY <1>1, <2>3, <2>4
  <2>7. FreedOnce'
    BY <1>1, <2>1, <2>4, <2>5, <2>6 DEF FreedOnce, CallingBack, Found
  <2> QED
    BY <2>2, <2>7 DEF Owned
<1> QED
    BY <1>5, <1>6, <1>7

\* And frees the resampler, which is not registered any more.
LEMMA ReleaseKeepsAccount ==
    ASSUME NEW CONSTANT labels, NEW CONSTANT names, LifeInv(labels, names),
           NEW t \in Threads, Release(t), Live(pointer[t])
    PROVE  Accounted'
<1> USE DEF LifeInv, TypesWith, Accounted, Unlocked
<1> DEFINE h == pointer[t]
<1>1. /\ pc[t] = "release"
      /\ UNCHANGED <<registry, returned, streams, clashed, target, slot, stage, pointer>>
      /\ pc' = [pc EXCEPT ![t] = "free"]
      /\ memory' = [memory EXCEPT ![h] = "freed"] /\ whole' = whole \ {h}
    BY DEF Release, resampler_free, Goto, At, bass, found
<1>2. h \in Handles /\ ~ Registered(h)
    BY <1>1 DEF WasMade
<1>3. MadeOnce'
  <2>1. \A u \in Threads : pc'[u] \in Making => pc[u] \in Making
    BY <1>1 DEF Making, Creating, Unstored
  <2>2. \A u \in Threads : pc'[u] \in Unstored => pc[u] \in Unstored /\ target[u] # h
    BY <1>1 DEF MadeOnce, Unstored
  <2> QED
    BY <1>1, <1>2, <2>1, <2>2 DEF MadeOnce, Registered
<1>4. WasMade' /\ RegistryIsLive'
    BY <1>1, <1>2 DEF WasMade, RegistryIsLive, Registered
<1>5. ASSUME ~ clashed'
      PROVE  Owned'
  <2>1. KeptWhileMade /\ FreedOnce /\ ReturnedAreWhole
    BY <1>1, <1>5 DEF Owned
  <2>2. h = target[t] /\ h \in returned /\ h \notin streams
    BY <1>1, <2>1 DEF FreedOnce, Found, CallingBack
  <2>3. \A u \in Threads : pc'[u] \in Creating =>
            pc'[u] = pc[u] /\ target[u] # h /\ target[u] \in Handles
    BY <1>1, <2>2 DEF MadeOnce, Named, Making, Creating, Unstored
  <2>4. \A u \in Threads : pc'[u] \in CallingBack =>
            pc'[u] = pc[u] /\ u # t /\ target[u] # h /\ target[u] \in Handles
    BY <1>1, <2>1, <2>2 DEF FreedOnce, Named, CallingBack, Found
  <2>5. KeptWhileMade'
    BY <1>1, <2>1, <2>3 DEF KeptWhileMade, Creating
  <2>6. FreedOnce'
    BY <1>1, <2>1, <2>4 DEF FreedOnce, CallingBack, Found
  <2>7. ReturnedAreWhole'
    BY <1>1, <2>1, <2>2 DEF ReturnedAreWhole
  <2> QED
    BY <2>5, <2>6, <2>7 DEF Owned
<1> QED
    BY <1>3, <1>4, <1>5

\* The steps that only ask for a channel, use a resampler or go on.
LEMMA QuietSteps ==
    ASSUME NEW CONSTANT labels, NEW CONSTANT names, TypesWith(labels, names),
           Named, NEW t \in Threads, OnlyMoves(t),
           \/ CreateSettings(t) \/ Scan(t) \/ Called(t) \/ StartUpdater(t)
           \/ StopUpdater(t) \/ AnyOtherUse(t) \/ Free(t) \/ Detach(t)
           \/ resampler_updater_stop(t, "stop", "join", "idle")
           \/ resampler_updater_stop(t, "callback", "callback_join", "unregister")
           \/ Release(t) /\ ~ Live(pointer[t])
    PROVE  Quiet(t)
<1> USE DEF TypesWith, Quiet, Same, Making, Creating, Unstored, CallingBack, Found, At, Goto,
            objects, updating, bass, found
<1>1. CASE CreateSettings(t) \/ Scan(t)
    BY <1>1 DEF CreateSettings, Scan
<1>2. CASE Called(t)
    BY <1>2 DEF Called
<1>3. CASE StartUpdater(t) \/ StopUpdater(t) \/ AnyOtherUse(t)
    BY <1>3 DEF StartUpdater, StopUpdater, AnyOtherUse
<1>4. CASE resampler_updater_stop(t, "stop", "join", "idle")
    BY <1>4 DEF resampler_updater_stop
<1>5. CASE Free(t) \/ Detach(t)
    BY <1>5 DEF Free, Detach
<1>6. CASE resampler_updater_stop(t, "callback", "callback_join", "unregister")
    BY <1>6 DEF resampler_updater_stop, Live
<1>7. CASE Release(t) /\ ~ Live(pointer[t])
    BY <1>7 DEF Release
<1> QED
    BY <1>1, <1>2, <1>3, <1>4, <1>5, <1>6, <1>7

\* Every step of bass_sox keeps the whole invariant.
LEMMA LifeStep ==
    ASSUME NEW CONSTANT labels, NEW CONSTANT names, Adds(labels, names),
           LifeInv(labels, names), [Next]_vars
    PROVE  LifeInv(labels, names)'
<1>1. TypesWith(labels, names)' /\ Named'
    BY TypesStep, NamedKept DEF LifeInv
<1>2. ASSUME NEW t \in Threads, BASS_SOX_StreamCreate(t)
      PROVE  Accounted'
    BY <1>2, CreateKeepsAccount, StreamKeepsAccount, StoreKeepsAccount,
       SyncKeepsAccount, DiscardKeepsAccount, OneMoves, QuietSteps, QuietStep
       DEF BASS_SOX_StreamCreate, LifeInv
<1>3. ASSUME NEW t \in Threads, UseHandle(t)
      PROVE  Accounted'
  <2>1. CASE resampler_registry_get(t, "look", "use", "idle")
    BY <2>1, GetKeepsAccount
       DEF LookingUp, Making, Creating, Unstored, CallingBack, Found
  <2>2. CASE ~ resampler_registry_get(t, "look", "use", "idle")
    BY <1>3, <2>2, OneMoves, QuietSteps, QuietStep DEF UseHandle, LookUp, LifeInv
  <2> QED
    BY <2>1, <2>2
<1>4. ASSUME NEW t \in Threads, Free(t) \/ Detach(t) \/ BASS_StreamFree(t)
      PROVE  Accounted'
    BY <1>4, StreamFreeKeepsAccount, OneMoves, QuietSteps, QuietStep DEF LifeInv
<1>5. ASSUME NEW t \in Threads, BASS_SOX_StreamFree(t)
      PROVE  Accounted'
  <2>1. CASE resampler_registry_get(t, "callback_look", "callback", "free")
    BY <2>1, GetKeepsAccount
       DEF LookingUp, Making, Creating, Unstored, CallingBack, Found
  <2>2. CASE Unregister(t) \/ (Release(t) /\ Live(pointer[t]))
    BY <2>2, UnregisterKeepsAccount, ReleaseKeepsAccount
  <2>3. CASE \/ resampler_updater_stop(t, "callback", "callback_join", "unregister")
             \/ Release(t) /\ ~ Live(pointer[t])
    BY <1>5, <2>3, OneMoves, QuietSteps, QuietStep DEF LifeInv
  <2> QED
    BY <1>5, <2>1, <2>2, <2>3 DEF BASS_SOX_StreamFree
<1>6. ASSUME (\E h \in Handles : background_update(h)) \/ UNCHANGED vars
      PROVE  Accounted'
  <2>1. UNCHANGED <<registry, memory, whole, streams, returned, clashed, pc, target,
                    slot, stage, pointer>>
    BY <1>6 DEF background_update, vars, objects, bass, found
  <2>2. MadeOnce' /\ WasMade' /\ RegistryIsLive'
    BY <2>1 DEF LifeInv, Accounted, Unlocked, MadeOnce, WasMade, RegistryIsLive, Registered
  <2>3. ~ clashed' => KeptWhileMade' /\ FreedOnce' /\ ReturnedAreWhole'
    BY <2>1 DEF LifeInv, Accounted, Owned, KeptWhileMade, FreedOnce, ReturnedAreWhole
  <2> QED
    BY <2>2, <2>3 DEF Accounted, Unlocked, Owned
<1>7. Accounted'
    BY <1>2, <1>3, <1>4, <1>5, <1>6 DEF Next
<1> QED
    BY <1>1, <1>7 DEF LifeInv

\* It holds before the first call.
LEMMA LifeInit ==
    ASSUME NEW CONSTANT labels, NEW CONSTANT names, Adds(labels, names), Init
    PROVE  LifeInv(labels, names)
<1>1. TypesWith(labels, names)
  <2>1. "idle" \in labels /\ Null \in names /\ 1 \in 1 .. MAX_RESAMPLERS + 1
    BY LifecycleAssumption DEF Adds, Labels
  <2> QED
    BY <2>1 DEF Init, TypesWith, Stages
<1>2. Named /\ MadeOnce /\ WasMade /\ FreedOnce /\ KeptWhileMade
    BY DEF Init, Named, MadeOnce, WasMade, FreedOnce, KeptWhileMade, Making, Creating,
           Unstored, CallingBack, Found, Using
<1>3. ReturnedAreWhole /\ RegistryIsLive
    BY DEF Init, ReturnedAreWhole, RegistryIsLive
<1> QED
    BY <1>1, <1>2, <1>3 DEF LifeInv, Accounted, Unlocked, Owned

Inv == LifeInv(Labels, Handles \union {Null})

\* The invariant of the library by itself.
LEMMA LifeInvariant == Spec => []Inv
<1>1. Adds(Labels, Handles \union {Null})
    BY DEF Adds
<1>2. Init => Inv
    BY <1>1, LifeInit DEF Inv
<1>3. Inv /\ [Next]_vars => Inv'
    BY <1>1, LifeStep DEF Inv
<1> QED
    BY <1>2, <1>3, PTL DEF Spec

\* The fields of the registry, of the resamplers and of BASS keep their types, for
\* any number of threads and whatever fails.
THEOREM LifecycleTypeCorrect == Spec => []TypeOK
<1>1. Inv => TypeOK
    BY DEF Inv, LifeInv, TypesWith, TypeOK
<1> QED
    BY <1>1, LifeInvariant, PTL

\* The registry holds nothing that was freed and nothing twice, for any number of
\* threads that create, free and look up at once, and whatever fails, also when two
\* of them take one slot: a slot is only taken for a resampler that nobody but its
\* creator has had, and whatever a callback found it takes out before it frees it.
THEOREM RegistryStaysLive == Spec => []RegistryIsLive
<1>1. Inv => RegistryIsLive
    BY DEF Inv, LifeInv, Accounted, Unlocked
<1> QED
    BY <1>1, LifeInvariant, PTL
-----------------------------------------------------------------------------
(***************************************************************************)
(* One application thread.                                                 *)
(***************************************************************************)
\* Looking a channel up, one thread follows no pointer but to a live resampler, and
\* what it takes is the resampler of the channel.
LEMMA GetAlone ==
    ASSUME NEW t, Threads = {t}, Inv, OneThreadInv, NEW at, NEW label, NEW missed,
           \/ at = "look" /\ label = "use"
           \/ at = "callback_look" /\ label = "callback",
           missed \in {"idle", "free"},
           resampler_registry_get(t, at, label, missed)
    PROVE  OneThreadInv'
<1> USE DEF Inv, LifeInv, TypesWith, OneThreadInv
<1>1. /\ pc[t] = at
      /\ UNCHANGED <<registry, memory, thread, updaters, streams, returned, clashed, target>>
    BY DEF resampler_registry_get, At, objects, updating, bass
<1>2. stage[t] # "test" => slot[t] \in Slots
    BY DEF Named
<1>3. \A i \in Slots : registry[i] # Null => Live(registry[i])
    BY DEF Accounted, Unlocked, RegistryIsLive, Live
<1>4. target[t] \in Handles
    BY <1>1 DEF Named, Using, CallingBack
<1>5. NothingBetween'
  <2> USE DEF NothingBetween, Using, Goto
  <2>1. CASE TestSlot(t, missed)
    BY <1>1, <2>1 DEF TestSlot
  <2>2. CASE LoadSlot(t)
    BY <1>1, <1>2, <2>2 DEF LoadSlot
  <2>3. CASE CompareChannel(t)
    BY <1>1, <1>2, <1>3, <2>3 DEF CompareChannel, Live
  <2>4. CASE TakeSlot(t, label)
    <3>1. pointer'[t] = target[t] /\ Live(target[t])
      BY <1>1, <1>2, <1>3, <1>4, <2>4, LifecycleAssumption DEF TakeSlot
    <3> QED
      BY <1>1, <2>4, <3>1 DEF TakeSlot, Live
  <2> QED
    BY <2>1, <2>2, <2>3, <2>4 DEF resampler_registry_get
<1> QED
    BY <1>1, <1>5 DEF UpdatersHaveResamplers, StreamsAreRegistered

\* What the creation of a channel does to the invariant.
LEMMA CreateAlone ==
    ASSUME NEW t, Threads = {t}, Inv, OneThreadInv, BASS_SOX_StreamCreate(t)
    PROVE  OneThreadInv'
<1> USE DEF Inv, LifeInv, TypesWith, Accounted, Unlocked, At, Goto, OneThreadInv,
            objects, updating, bass, found
<1> USE DEF NothingBetween, UpdatersHaveResamplers, StreamsAreRegistered
<1>0. pc[t] \in Making \union {"idle"} => stage[t] = "test"
    BY DEF Named, LookingUp, Making, Creating, Unstored
<1>1. CASE resampler_create(t)
    BY <1>0, <1>1 DEF resampler_create, Using, WasMade
<1>2. CASE CreateStream(t)
    BY <1>0, <1>2 DEF CreateStream, MadeOnce, Making, Creating, Unstored, Using
<1>3. CASE CreateSettings(t)
    BY <1>0, <1>3 DEF CreateSettings, Making, Creating, Unstored, Using
<1>4. CASE Scan(t)
    BY <1>0, <1>4 DEF Scan, Making, Creating, Unstored, Using
<1>5. CASE Store(t)
    BY <1>0, <1>5, LifecycleAssumption
       DEF Store, Named, Making, Creating, Unstored, Using, Registered
<1>6. CASE SetSync(t)
    BY <1>0, <1>6 DEF SetSync, Making, Creating, Unstored, Using, Registered
<1>7. CASE Discard(t)
    BY <1>0, <1>7 DEF Discard, resampler_registry_remove, resampler_free, Named, MadeOnce,
                Making, Creating, Unstored, Using
<1> QED
    BY <1>1, <1>2, <1>3, <1>4, <1>5, <1>6, <1>7 DEF BASS_SOX_StreamCreate

\* What the calls that take a handle do to it.
LEMMA UseAlone ==
    ASSUME NEW t, Threads = {t}, Inv, OneThreadInv, UseHandle(t)
    PROVE  OneThreadInv'
<1>1. CASE resampler_registry_get(t, "look", "use", "idle")
    BY <1>1, GetAlone
<1> USE DEF Inv, LifeInv, TypesWith, Accounted, At, Goto, OneThreadInv,
            objects, updating, bass, found
<1> USE DEF NothingBetween, UpdatersHaveResamplers, StreamsAreRegistered, Live
<1>0. pc[t] \in {"idle", "use", "stop", "join"} => stage[t] = "test"
    BY DEF Named, LookingUp
<1>2. CASE Called(t)
    BY <1>0, <1>2 DEF Called, Using
<1>3. CASE StartUpdater(t)
    BY <1>0, <1>3 DEF StartUpdater, Named, Using
<1>4. CASE StopUpdater(t)
    BY <1>0, <1>4 DEF StopUpdater, Using
<1>5. CASE AnyOtherUse(t)
    BY <1>0, <1>5, LifecycleAssumption DEF AnyOtherUse, Named, Using
<1>6. CASE resampler_updater_stop(t, "stop", "join", "idle")
  <2>1. pc[t] \in {"stop", "join"} => Live(pointer[t])
    BY LifecycleAssumption DEF Named, Using
  <2> QED
    BY <1>0, <1>6, <2>1 DEF resampler_updater_stop, Using
<1> QED
    BY <1>1, <1>2, <1>3, <1>4, <1>5, <1>6 DEF UseHandle, LookUp

\* What freeing does to it.
LEMMA FreeAlone ==
    ASSUME NEW t, Threads = {t}, Inv, OneThreadInv,
           \/ Free(t) \/ Detach(t) \/ BASS_StreamFree(t) \/ BASS_SOX_StreamFree(t)
    PROVE  OneThreadInv'
<1>4. CASE resampler_registry_get(t, "callback_look", "callback", "free")
    BY <1>4, GetAlone
<1> USE DEF Inv, LifeInv, TypesWith, Accounted, At, Goto, OneThreadInv,
            objects, updating, bass, found
<1> USE DEF NothingBetween, UpdatersHaveResamplers, StreamsAreRegistered, Live
<1>0. /\ pc[t] \in {"idle", "free"} \union Found => stage[t] = "test"
      /\ pc[t] \in Found => pointer[t] = target[t] /\ target[t] # Null
      /\ pc[t] \in Found => memory[target[t]] = "allocated" /\ target[t] \notin streams
    BY LifecycleAssumption DEF Named, LookingUp, Found, Owned, FreedOnce, CallingBack
<1>1. CASE Free(t)
    BY <1>0, <1>1 DEF Free, Using
<1>2. CASE Detach(t)
    BY <1>0, <1>2 DEF Detach, Using
<1>3. CASE BASS_StreamFree(t)
    BY <1>0, <1>3 DEF BASS_StreamFree, Using
<1>5. CASE resampler_updater_stop(t, "callback", "callback_join", "unregister")
    BY <1>0, <1>5 DEF resampler_updater_stop, Found, Using
<1>6. CASE Unregister(t)
    BY <1>0, <1>6 DEF Unregister, resampler_registry_remove, Found, Using
<1>7. CASE Release(t)
    BY <1>0, <1>7 DEF Release, resampler_free, Found, Using
<1> QED
    BY <1>1, <1>2, <1>3, <1>4, <1>5, <1>6, <1>7 DEF BASS_SOX_StreamFree

\* One thread keeps the invariant, and so does an updater that ends.
LEMMA AloneStep ==
    ASSUME OneThread, Inv, OneThreadInv, [Next]_vars
    PROVE  OneThreadInv'
<1>1. PICK t : Threads = {t}
    BY DEF OneThread
<1>2. CASE (\E h \in Handles : background_update(h)) \/ UNCHANGED vars
  <2>1. /\ UNCHANGED <<registry, memory, thread, streams, returned, clashed, pc, target,
                       slot, stage, pointer>>
        /\ updaters' \subseteq updaters
    BY <1>2 DEF background_update, vars, objects, bass, found
  <2>2. NothingBetween'
    BY <2>1 DEF OneThreadInv, NothingBetween, Registered
  <2> QED
    BY <2>1, <2>2 DEF OneThreadInv, UpdatersHaveResamplers, StreamsAreRegistered
<1> QED
    BY <1>1, <1>2, CreateAlone, UseAlone, FreeAlone DEF Next

\* What one thread never does.
LEMMA AloneInvariant ==
    ASSUME OneThread
    PROVE  Spec => [](Inv /\ OneThreadInv)
<1>1. Init => OneThreadInv
    BY DEF Init, OneThreadInv, NothingBetween, UpdatersHaveResamplers,
           StreamsAreRegistered, Using
<1>2. Inv /\ OneThreadInv /\ [Next]_vars => OneThreadInv'
    BY AloneStep
<1> QED
    BY <1>1, <1>2, LifeInvariant, PTL DEF Spec

\* A resampler's updater is gone before the resampler is freed, and its handle is
\* given up no earlier: the callback waits for it, and what cannot be completed
\* was never given one.
THEOREM UpdatersAreJoined ==
    ASSUME OneThread
    PROVE  Spec => []UpdatersHaveResamplers
<1>1. OneThreadInv => UpdatersHaveResamplers
    BY DEF OneThreadInv
<1> QED
    BY <1>1, AloneInvariant, PTL

\* One thread never uses a resampler that was freed, whatever handles it passes,
\* freed ones too, and whatever fails but calloc: the registry has what exists, and
\* nothing changes it between the loads of a look-up and the use of what it found.
THEOREM NothingIsUsedAfterFree ==
    ASSUME OneThread, "calloc" \notin MayFail
    PROVE  Spec => []NoCrash
<1>1. OneThreadInv => NoCrash
    BY DEF OneThreadInv, NothingBetween, NoCrash
<1> QED
    BY <1>1, AloneInvariant, PTL

\* Every channel that BASS_SOX_StreamCreate has returned can be looked up until it
\* is freed: a slot that is taken is never overwritten, and the one thing that
\* empties a slot follows the freeing.
THEOREM StreamsStayRegistered ==
    ASSUME OneThread
    PROVE  Spec => []StreamsAreRegistered
<1>1. OneThreadInv => StreamsAreRegistered
    BY DEF OneThreadInv
<1> QED
    BY <1>1, AloneInvariant, PTL

\* What the callback does keeps the account of the slots.
LEMMA CallbackSlots ==
    ASSUME NEW t, Threads = {t}, Inv, OneThreadInv, SlotsKept, BASS_SOX_StreamFree(t)
    PROVE  SlotsKept'
<1> USE DEF Inv, LifeInv, TypesWith, At, Goto, OneThreadInv, SlotsKept, Registered,
            objects, updating, bass, found, Creating, Unstored, CallingBack, Found
<1>0. /\ pc[t] \in Found => pointer[t] = target[t] /\ target[t] # Null
      /\ pc[t] \in Found => memory[target[t]] = "allocated" /\ target[t] \notin streams
    BY LifecycleAssumption DEF Accounted, Named, Owned, FreedOnce
<1>1. CASE resampler_registry_get(t, "callback_look", "callback", "free")
  <2>1. pc[t] = "callback_look" /\ target[t] \in Handles
        /\ UNCHANGED <<registry, streams, returned, unsynced, target>>
    BY <1>1 DEF resampler_registry_get, Named
  <2>2. \E i \in slot[t] .. MAX_RESAMPLERS : registry[i] = target[t]
    BY <2>1
  <2>3. slot[t] \in 1 .. MAX_RESAMPLERS + 1 /\ slot[t] <= MAX_RESAMPLERS
        /\ (registry[slot[t]] # target[t] =>
               \E i \in slot[t] + 1 .. MAX_RESAMPLERS : registry[i] = target[t])
    BY <2>2, LifecycleAssumption
  <2>4. /\ stage[t] = "follow" => Live(pointer[t]) /\ pointer[t] = registry[slot[t]]
        /\ target[t] # Null
    BY <2>1, LifecycleAssumption
       DEF NothingBetween, Accounted, Named, Unlocked, RegistryIsLive, Live
  <2>5. /\ pc'[t] \in {"callback_look", "callback"}
        /\ pc'[t] = "callback_look" =>
              \E i \in slot'[t] .. MAX_RESAMPLERS : registry[i] = target[t]
    <3>1. CASE TestSlot(t, "free")
      BY <2>1, <2>2, <2>3, <2>4, <3>1, LifecycleAssumption DEF TestSlot
    <3>2. CASE LoadSlot(t)
      BY <2>1, <2>2, <3>2 DEF LoadSlot
    <3>3. CASE CompareChannel(t)
      BY <2>1, <2>2, <2>3, <2>4, <3>3 DEF CompareChannel
    <3>4. CASE TakeSlot(t, "callback")
      BY <2>1, <3>4 DEF TakeSlot
    <3> QED
      BY <1>1, <3>1, <3>2, <3>3, <3>4 DEF resampler_registry_get
  <2> QED
    BY <2>1, <2>5
<1>2. CASE resampler_updater_stop(t, "callback", "callback_join", "unregister")
    BY <1>0, <1>2 DEF resampler_updater_stop, Live
<1>3. CASE Unregister(t)
    BY <1>0, <1>3, LifecycleAssumption DEF Unregister, resampler_registry_remove
<1>4. CASE Release(t)
    BY <1>0, <1>4 DEF Release, resampler_free, Live
<1> QED
    BY <1>1, <1>2, <1>3, <1>4 DEF BASS_SOX_StreamFree

\* So does every other step.
LEMMA SlotsStep ==
    ASSUME OneThread, Inv, OneThreadInv, SlotsKept, [Next]_vars
    PROVE  SlotsKept'
<1>1. PICK t : Threads = {t}
    BY DEF OneThread
<1> USE DEF Inv, LifeInv, TypesWith, At, Goto, OneThreadInv, SlotsKept, Registered,
            objects, updating, bass, found, Creating, Unstored, CallingBack, Found
<1>2. CASE BASS_SOX_StreamCreate(t)
  <2>1. CASE resampler_create(t)
    BY <1>1, <2>1 DEF resampler_create
  <2>2. CASE CreateStream(t)
    BY <1>1, <2>2 DEF CreateStream, Named, Making
  <2>3. CASE CreateSettings(t)
    BY <1>1, <2>3 DEF CreateSettings
  <2>4. CASE Scan(t)
    BY <1>1, <2>4 DEF Scan
  <2>5. CASE Store(t)
    BY <1>1, <2>5, LifecycleAssumption DEF Store, Named, Making
  <2>6. CASE SetSync(t)
    BY <1>1, <2>6 DEF SetSync
  <2>7. CASE Discard(t)
    BY <1>1, <2>7, LifecycleAssumption
       DEF Discard, resampler_registry_remove, resampler_free, Named, Making
  <2> QED
    BY <1>2, <2>1, <2>2, <2>3, <2>4, <2>5, <2>6, <2>7 DEF BASS_SOX_StreamCreate
<1>3. CASE UseHandle(t)
  <2>1. CASE LookUp(t)
    BY <1>1, <2>1 DEF LookUp, Called, resampler_registry_get, TestSlot, LoadSlot,
                      CompareChannel, TakeSlot
  <2>2. CASE \/ StartUpdater(t) \/ StopUpdater(t) \/ AnyOtherUse(t)
             \/ resampler_updater_stop(t, "stop", "join", "idle")
    BY <1>1, <2>2 DEF StartUpdater, StopUpdater, AnyOtherUse, resampler_updater_stop
  <2> QED
    BY <1>3, <2>1, <2>2 DEF UseHandle
<1>4. CASE Free(t) \/ Detach(t)
    BY <1>1, <1>4 DEF Free, Detach
<1>5. CASE BASS_StreamFree(t)
    BY <1>1, <1>5, LifecycleAssumption DEF BASS_StreamFree, StreamsAreRegistered, Slots
<1>6. CASE (\E h \in Handles : background_update(h)) \/ UNCHANGED vars
    BY <1>1, <1>6 DEF background_update, vars
<1> QED
    BY <1>1, <1>2, <1>3, <1>4, <1>5, <1>6, CallbackSlots DEF Next

\* The account of the slots, whatever fails.
LEMMA SlotsInvariant ==
    ASSUME OneThread
    PROVE  Spec => [](Inv /\ OneThreadInv /\ SlotsKept)
<1>1. Init => SlotsKept
    BY LifecycleAssumption DEF Init, SlotsKept, Creating, Unstored, Registered
<1>2. Inv /\ OneThreadInv /\ SlotsKept /\ [Next]_vars => SlotsKept'
    BY SlotsStep
<1> QED
    BY <1>1, <1>2, AloneInvariant, PTL DEF Spec

\* Whatever failed in the calls of one thread, no slot of the registry is lost by it:
\* what is registered between calls was handed out, and BASS still has the channel
\* unless it refused the sync that would have told of its end.
THEOREM NoSlotIsLost ==
    ASSUME OneThread
    PROVE  Spec => []SlotsAreGivenBack
<1>1. Inv /\ SlotsKept => SlotsAreGivenBack
  <2> SUFFICES ASSUME SlotsKept, \A t \in Threads : pc[t] = "idle",
                      NEW i \in Slots, registry[i] # Null, registry[i] \in Handles
               PROVE  registry[i] \in returned /\ registry[i] \in streams \union unsynced
    BY DEF SlotsAreGivenBack, Inv, LifeInv, TypesWith
  <2> QED
    BY DEF OneThread, SlotsKept, Registered, CallingBack, Found
<1> QED
    BY <1>1, SlotsInvariant, PTL
-----------------------------------------------------------------------------
(***************************************************************************)
(* And of one thread for which BASS creates every channel it is asked for, *)
(* tells of it and takes its sync: what may fail is the registration and   *)
(* the memory of the settings and of the semaphore.                        *)
(***************************************************************************)
StreamsAreCreated == MayFail \intersect {"stream", "info", "calloc", "sync"} = {}

Kept == Inv /\ OneThreadInv /\ SlotsKept /\ CleanInv

\* What the creation of a channel does to the invariant.
LEMMA CreateClean ==
    ASSUME NEW t, Threads = {t}, StreamsAreCreated, Kept, BASS_SOX_StreamCreate(t)
    PROVE  CleanInv'
<1> USE DEF Kept, Inv, LifeInv, TypesWith, Accounted, Unlocked, At, Goto, OneThreadInv,
            CleanInv, objects, updating, bass, found
<1> USE DEF KeptTogether, AllToBeFreed
<1>1. CASE resampler_create(t)
    BY <1>1 DEF resampler_create, Creating, Unstored, CallingBack, Found, Registered,
                StreamsAreCreated
<1>2. CASE CreateStream(t)
    BY <1>2 DEF CreateStream, Named, Making, Creating, Unstored, CallingBack, Found,
                Registered, StreamsAreCreated, NothingBetween
<1>3. CASE CreateSettings(t)
    BY <1>3 DEF CreateSettings, Creating, Unstored, CallingBack, Found, Registered
<1>4. CASE Scan(t)
    BY <1>4 DEF Scan, Creating, Unstored, CallingBack, Found, Registered
<1>5. CASE Store(t)
    BY <1>5, LifecycleAssumption
       DEF Store, Named, Making, Creating, Unstored, CallingBack, Found, Registered
<1>6. CASE SetSync(t)
    BY <1>6 DEF SetSync, Creating, Unstored, CallingBack, Found, Registered,
                StreamsAreCreated
<1>7. CASE Discard(t)
    BY <1>7, LifecycleAssumption
       DEF Discard, resampler_registry_remove, resampler_free, Named, MadeOnce,
           Making, Creating, Unstored, CallingBack, Found, Registered
<1> QED
    BY <1>1, <1>2, <1>3, <1>4, <1>5, <1>6, <1>7 DEF BASS_SOX_StreamCreate

\* What the calls that take a handle do to it.
LEMMA UseClean ==
    ASSUME NEW t, Threads = {t}, Kept, UseHandle(t)
    PROVE  CleanInv'
<1> USE DEF Kept, Inv, LifeInv, TypesWith, Accounted, At, Goto, OneThreadInv, CleanInv,
            objects, updating, bass, found
<1> USE DEF KeptTogether, AllToBeFreed, Creating, Unstored, CallingBack, Found, Registered
<1>1. CASE Called(t)
    BY <1>1 DEF Called
<1>2. CASE resampler_registry_get(t, "look", "use", "idle")
    BY <1>2 DEF resampler_registry_get, TestSlot, LoadSlot, CompareChannel, TakeSlot,
                NothingBetween
<1>3. CASE StartUpdater(t)
    BY <1>3 DEF StartUpdater
<1>4. CASE StopUpdater(t)
    BY <1>4 DEF StopUpdater
<1>5. CASE AnyOtherUse(t)
    BY <1>5 DEF AnyOtherUse
<1>6. CASE resampler_updater_stop(t, "stop", "join", "idle")
    BY <1>6 DEF resampler_updater_stop
<1> QED
    BY <1>1, <1>2, <1>3, <1>4, <1>5, <1>6 DEF UseHandle, LookUp

\* What freeing does to it.
LEMMA FreeClean ==
    ASSUME NEW t, Threads = {t}, Kept,
           \/ Free(t) \/ Detach(t) \/ BASS_StreamFree(t) \/ BASS_SOX_StreamFree(t)
    PROVE  CleanInv'
<1> USE DEF Kept, Inv, LifeInv, TypesWith, Accounted, At, Goto, OneThreadInv, CleanInv,
            objects, updating, bass, found
<1> USE DEF KeptTogether, AllToBeFreed, Creating, Unstored, CallingBack, Found
<1>1. CASE Free(t)
    BY <1>1 DEF Free, Registered
<1>2. CASE Detach(t)
    BY <1>2, LifecycleAssumption
       DEF Detach, resampler_registry_get_all, StreamsAreRegistered, Registered, SlotsKept
<1>3. CASE BASS_StreamFree(t)
    BY <1>3, LifecycleAssumption DEF BASS_StreamFree, StreamsAreRegistered, Registered, Slots
<1>0. /\ pc[t] \in Found => pointer[t] = target[t] /\ target[t] # Null
      /\ pc[t] \in Found => memory[target[t]] = "allocated" /\ target[t] \notin streams
    BY LifecycleAssumption DEF Named, Owned, FreedOnce
<1>4. CASE resampler_registry_get(t, "callback_look", "callback", "free")
  <2>1. pc'[t] \in {"callback_look", "callback"}
    BY <1>4, LifecycleAssumption
       DEF resampler_registry_get, TestSlot, LoadSlot, CompareChannel, TakeSlot,
           NothingBetween, Named, Unlocked, RegistryIsLive, Live, SlotsKept
  <2> QED
    BY <1>4, <2>1 DEF resampler_registry_get
<1>5. CASE resampler_updater_stop(t, "callback", "callback_join", "unregister")
    BY <1>0, <1>5 DEF resampler_updater_stop, Registered, Live
<1>6. CASE Unregister(t)
    BY <1>6, LifecycleAssumption DEF Unregister, resampler_registry_remove, Registered
<1>7. CASE Release(t)
    BY <1>0, <1>7 DEF Release, resampler_free, Registered, Live
<1> QED
    BY <1>1, <1>2, <1>3, <1>4, <1>5, <1>6, <1>7 DEF BASS_SOX_StreamFree

\* Every step keeps it.
LEMMA CleanStep ==
    ASSUME OneThread, StreamsAreCreated, Kept, [Next]_vars
    PROVE  CleanInv'
<1>1. PICK t : Threads = {t}
    BY DEF OneThread
<1>2. CASE (\E h \in Handles : background_update(h)) \/ UNCHANGED vars
  <2>1. UNCHANGED <<registry, memory, streams, returned, unsynced, unloaded, pc, target,
                    slot, todo>>
    BY <1>2 DEF background_update, vars, objects, bass
  <2>2. KeptTogether'
    BY <2>1 DEF Kept, CleanInv, KeptTogether, Registered
  <2>3. AllToBeFreed'
    BY <2>1 DEF Kept, CleanInv, AllToBeFreed
  <2> QED
    BY <2>2, <2>3 DEF CleanInv
<1> QED
    BY <1>1, <1>2, CreateClean, UseClean, FreeClean DEF Next

\* The invariant of that thread.
LEMMA CleanInvariant ==
    ASSUME OneThread, StreamsAreCreated
    PROVE  Spec => []Kept
<1>1. Init => CleanInv
    BY LifecycleAssumption
       DEF Init, CleanInv, KeptTogether, AllToBeFreed, CallingBack, Found, Registered
<1>2. Inv /\ OneThreadInv /\ SlotsKept /\ CleanInv /\ [Next]_vars => CleanInv'
    BY CleanStep DEF Kept
<1>3. Kept <=> Inv /\ OneThreadInv /\ SlotsKept /\ CleanInv
    BY DEF Kept
<1> QED
    BY <1>1, <1>2, <1>3, SlotsInvariant, PTL DEF Spec

\* If DllMain has freed every channel it found in the registry and returns, no
\* updater runs code that is about to be unloaded, and no resampler is left.
THEOREM UnloadingLeavesNothing ==
    ASSUME OneThread, StreamsAreCreated
    PROVE  Spec => []UnloadedIsClean
<1>1. Kept => UnloadedIsClean
  <2> SUFFICES ASSUME Kept, unloaded, \A t \in Threads : pc[t] = "idle"
               PROVE  updaters = {} /\ \A h \in Handles : memory[h] # "allocated"
    BY DEF UnloadedIsClean
  <2>1. PICK t \in Threads : pc[t] = "idle"
    BY DEF OneThread
  <2>2. \A h \in Handles : memory[h] # "allocated"
    BY <2>1 DEF Kept, CleanInv, AllToBeFreed, CallingBack, Found
  <2>3. updaters \subseteq {h \in Handles : memory[h] = "allocated"}
    BY DEF Kept, OneThreadInv, UpdatersHaveResamplers
  <2> QED
    BY <2>2, <2>3
<1> QED
    BY <1>1, CleanInvariant, PTL

\* Between calls a resampler exists exactly while its channel does, also when the
\* registry was full or memory was short for the settings: what could not be
\* completed BASS_SOX_StreamCreate has freed, and the callback frees what it finds.
\* Once the library is unloaded there is none.
\* That a call to BASS or the first calloc fails is excluded: then nothing is freed.
THEOREM ChannelsAndResamplersGoTogether ==
    ASSUME OneThread, StreamsAreCreated
    PROVE  Spec => []NothingLeftBehind
<1>1. Kept => ((\A t \in Threads : pc[t] = "idle") =>
                    streams = {h \in Handles : memory[h] = "allocated"})
  <2> SUFFICES ASSUME Kept, \A t \in Threads : pc[t] = "idle"
               PROVE  streams = {h \in Handles : memory[h] = "allocated"}
    OBVIOUS
  <2>1. PICK t \in Threads : pc[t] = "idle"
    BY DEF OneThread
  <2>2. \A h \in Handles : memory[h] = "allocated" <=> h \in streams
    BY <2>1 DEF Kept, CleanInv, KeptTogether, CallingBack, Found
  <2>3. streams \subseteq Handles
    BY DEF Kept, Inv, LifeInv, TypesWith
  <2> QED
    BY <2>2, <2>3
<1>2. Kept /\ UnloadedIsClean => NothingLeftBehind
    BY <1>1 DEF NothingLeftBehind
<1> QED
    BY <1>2, CleanInvariant, UnloadingLeavesNothing, PTL

\* DllMain called by FreeLibrary while an updater runs never returns: as long as it
\* runs it keeps from the updater the lock that the updater needs to end, and it
\* returns only when no updater is left.
THEOREM DetachingNeverEnds ==
    ASSUME OneThread, StreamsAreCreated
    PROVE  Spec => DetachWaitsForEver
<1> DEFINE Caught == unloaded /\ updaters # {}
           Waiting == \E t \in Threads : pc[t] # "idle"
<1>1. UnloadedIsClean /\ Caught => Waiting
  BY DEF UnloadedIsClean
<1>2. UnloadedIsClean /\ Caught /\ [Next]_vars => Caught'
  <2> SUFFICES ASSUME unloaded, updaters # {}, Detaching, [Next]_vars
               PROVE  unloaded' /\ updaters \subseteq updaters'
    BY <1>1 DEF Detaching, At
  <2>1. CASE UNCHANGED vars
    BY <2>1 DEF vars, bass, updating
  <2>2. CASE \E t \in Threads : BASS_SOX_StreamCreate(t)
    BY <2>2 DEF BASS_SOX_StreamCreate, resampler_create, CreateStream, CreateSettings,
                Scan, Store, SetSync, Discard, updating, bass
  <2>3. CASE \E t \in Threads : UseHandle(t)
    <3>1. PICK t \in Threads : UseHandle(t)
      BY <2>3
    <3>2. CASE LookUp(t)
      BY <3>2 DEF LookUp, Called, resampler_registry_get, updating, bass
    <3>3. CASE StartUpdater(t)
      BY <3>3 DEF StartUpdater, bass
    <3>4. CASE StopUpdater(t) \/ AnyOtherUse(t)
      BY <3>4 DEF StopUpdater, AnyOtherUse, updating, bass
    <3>5. CASE resampler_updater_stop(t, "stop", "join", "idle")
      BY <3>5 DEF resampler_updater_stop, bass
    <3> QED
      BY <3>1, <3>2, <3>3, <3>4, <3>5 DEF UseHandle
  <2>4. CASE \E t \in Threads : Free(t) \/ BASS_StreamFree(t)
    BY <2>4 DEF Free, BASS_StreamFree, updating, bass
  <2>5. CASE \E t \in Threads : BASS_SOX_StreamFree(t)
    BY <2>5 DEF BASS_SOX_StreamFree, resampler_registry_get, resampler_updater_stop,
                Unregister, Release, updating, bass
  <2>6. CASE \E t \in Threads : Detach(t)
    BY <2>6 DEF Detach
  <2>7. CASE \E h \in Handles : background_update(h)
    BY <2>7 DEF background_update
  <2> QED
    BY <2>1, <2>2, <2>3, <2>4, <2>5, <2>6, <2>7 DEF Next
<1>3. Spec => [](Caught => []Waiting)
  <2>1. Spec => []UnloadedIsClean
    BY UnloadingLeavesNothing
  <2> QED
    BY <1>1, <1>2, <2>1, PTL DEF Spec
<1> QED
  BY <1>3 DEF DetachWaitsForEver
-----------------------------------------------------------------------------
(***************************************************************************)
(* The bridge to ASIO, for any number of threads, channels and slots.  The *)
(* registry that names the channels keeps its invariant, with the labels   *)
(* and names of the bridge added.                                          *)
(***************************************************************************)
Setting == {"set_look", "set"}
BridgeLabels == Labels \union Setting
Names == Handles \union {Null} \union Others

\* Who asks for a channel to be played was given it, and a channel that is about
\* to be played was found in the registry, where no channel of BASS's own is.
NamesWhatWasGiven ==
    \A t \in Threads :
        /\ pc[t] \in Setting => target[t] \in returned \union Others
        /\ pc[t] = "set" => target[t] \in returned
        /\ pc[t] = "set_look" /\ stage[t] = "take" => target[t] \in returned

BridgeInv ==
    /\ LifeInv(BridgeLabels, Names)
    /\ NamesWhatWasGiven
    /\ channel_handle \in returned \union {Null}
    /\ playing # Null => playing \in returned \intersect streams
    /\ result \in 0 .. LENGTH
-----------------------------------------------------------------------------
\* What bass_sox does keeps what was handed out, and leads no thread into the
\* bridge.
LEMMA StaysOutside ==
    ASSUME LifeInv(BridgeLabels, Names), NEW t \in Threads,
           \/ BASS_SOX_StreamCreate(t) \/ UseHandle(t) \/ Free(t) \/ Detach(t)
           \/ BASS_StreamFree(t) \/ BASS_SOX_StreamFree(t)
    PROVE  /\ returned \subseteq returned'
           /\ pc'[t] \notin Setting \/ UNCHANGED <<pc, target, stage>>
<1> USE DEF LifeInv, TypesWith, Goto, At, Setting, bass, found
<1>1. CASE BASS_SOX_StreamCreate(t)
    BY <1>1 DEF BASS_SOX_StreamCreate, resampler_create, CreateStream, CreateSettings,
                Scan, Store, SetSync, Discard
<1>2. CASE UseHandle(t)
    BY <1>2 DEF UseHandle, LookUp, Called, resampler_registry_get, TestSlot, LoadSlot,
                CompareChannel, TakeSlot, StartUpdater, StopUpdater, AnyOtherUse,
                resampler_updater_stop
<1>3. CASE Free(t) \/ Detach(t) \/ BASS_StreamFree(t)
    BY <1>3 DEF Free, Detach, BASS_StreamFree
<1>4. CASE BASS_SOX_StreamFree(t)
    BY <1>4 DEF BASS_SOX_StreamFree, resampler_registry_get, TestSlot, LoadSlot,
                CompareChannel, TakeSlot, resampler_updater_stop, Unregister, Release
<1> QED
    BY <1>1, <1>2, <1>3, <1>4

\* The labels and names of the bridge are added to those of bass_sox.
LEMMA BridgeAdds == Adds(BridgeLabels, Names)
BY DEF Adds, BridgeLabels, Names

\* What the other threads do with bass_sox keeps the invariant: BASS frees no
\* channel whose procedure runs.
LEMMA WithoutBridgeStep ==
    ASSUME BridgeInv, WithoutBridge \/ UNCHANGED everything
    PROVE  BridgeInv'
<1>1. [Next]_vars /\ UNCHANGED <<channel_handle, playing, result>>
    BY DEF WithoutBridge, everything, bridge
<1>2. playing \in streams => playing \in streams'
    BY DEF WithoutBridge, everything, vars, bass
<1>3. LifeInv(BridgeLabels, Names)'
    BY <1>1, BridgeAdds, LifeStep DEF BridgeInv
<1>4. returned \subseteq returned' /\ NamesWhatWasGiven'
  <2>1. ASSUME NEW t \in Threads,
               \/ BASS_SOX_StreamCreate(t) \/ UseHandle(t) \/ Free(t) \/ Detach(t)
               \/ BASS_StreamFree(t) \/ BASS_SOX_StreamFree(t)
        PROVE  returned \subseteq returned' /\ NamesWhatWasGiven'
    <3>1. OnlyMoves(t)
      BY <2>1, OneMoves DEF BridgeInv, LifeInv
    <3>2. /\ returned \subseteq returned'
          /\ pc'[t] \notin Setting \/ UNCHANGED <<pc, target, stage>>
      BY <2>1, StaysOutside DEF BridgeInv
    <3> QED
      BY <3>1, <3>2 DEF BridgeInv, NamesWhatWasGiven, OnlyMoves, Setting
  <2>2. CASE (\E h \in Handles : background_update(h)) \/ UNCHANGED vars
    <3>1. UNCHANGED <<returned, pc, target, stage>>
      BY <2>2 DEF background_update, vars, bass, found
    <3> QED
      BY <3>1 DEF BridgeInv, NamesWhatWasGiven
  <2> QED
    BY <1>1, <2>1, <2>2 DEF Next
<1> QED
    BY <1>1, <1>2, <1>3, <1>4 DEF BridgeInv

\* Looking a channel up in the bridge is looking it up in the registry.
LEMMA SetLookUpStep ==
    ASSUME BridgeInv, NEW t \in Threads, SetLookUp(t)
    PROVE  LifeInv(BridgeLabels, Names)' /\ NamesWhatWasGiven'
<1>1. Adds(BridgeLabels, Names) /\ LifeInv(BridgeLabels, Names)
    BY BridgeAdds DEF BridgeInv
<1>2. resampler_registry_get(t, "set_look", "set", "idle")
    BY DEF SetLookUp
<1>3. "set" \in BridgeLabels /\ "idle" \in BridgeLabels
    BY DEF BridgeLabels, Labels, Setting
<1>4. TypesWith(BridgeLabels, Names)'
    BY <1>1, <1>2, <1>3, GetTypes DEF LifeInv
<1>5. NamedFor(t)
    BY <1>1, <1>2, GetIsNamed
       DEF LifeInv, LookingUp, Making, Creating, Unstored, CallingBack, Found, Using
<1>6. Accounted'
    BY <1>1, <1>2, GetKeepsAccount
       DEF LookingUp, Making, Creating, Unstored, CallingBack, Found
<1> USE DEF BridgeInv, LifeInv, TypesWith, NamesWhatWasGiven
<1>7. /\ pc[t] = "set_look" /\ target[t] \in returned \union Others
      /\ UNCHANGED <<registry, returned, target>>
    BY <1>2 DEF resampler_registry_get, At, Setting, bass
<1>8. OnlyMoves(t)
    BY <1>2 DEF resampler_registry_get, TestSlot, LoadSlot, CompareChannel, TakeSlot,
                OnlyMoves, Goto
<1>9. pc'[t] = "set" \/ (pc'[t] = "set_look" /\ stage'[t] = "take") => target[t] \in returned
  <2>1. CASE TestSlot(t, "idle")
    BY <1>7, <2>1 DEF TestSlot, Goto
  <2>2. CASE LoadSlot(t)
    BY <1>7, <2>2 DEF LoadSlot
  <2>3. CASE CompareChannel(t)
    <3>1. pointer[t] = target[t] => target[t] \in returned
      BY <1>7, LifecycleAssumption, AsioAssumption
    <3> QED
      BY <1>7, <2>3, <3>1 DEF CompareChannel, Goto
  <2>4. CASE TakeSlot(t, "set")
    BY <1>7, <2>4 DEF TakeSlot
  <2> QED
    BY <1>2, <2>1, <2>2, <2>3, <2>4 DEF resampler_registry_get
<1>10. NamesWhatWasGiven'
    BY <1>7, <1>8, <1>9 DEF OnlyMoves
<1> QED
    BY <1>4, <1>5, <1>6, <1>8, <1>10, NamedStep

\* Neither does a call of BASS_SOX_ASIO_StreamSet break it.
LEMMA SetStep ==
    ASSUME BridgeInv, NEW t \in Threads, BASS_SOX_ASIO_StreamSet(t)
    PROVE  BridgeInv'
<1> USE DEF BridgeInv
<1>1. CASE SetLookUp(t)
    BY <1>1, SetLookUpStep DEF SetLookUp, resampler_registry_get, bridge, bass
<1>2. CASE SetCalled(t) \/ SetHandle(t)
  <2> USE DEF LifeInv, TypesWith, At, Goto
  <2>1. /\ UNCHANGED <<registry, memory, whole, streams, returned, unsynced, clashed>>
        /\ UNCHANGED <<thread, shutdown, updaters, unloaded, todo>>
        /\ UNCHANGED <<stage, pointer, playing, result>>
    BY <1>2 DEF SetCalled, SetHandle, objects, updating, bass, found, bridge, callback
  <2>2. OnlyMoves(t)
    BY <1>2, <2>1 DEF SetCalled, SetHandle, OnlyMoves
  <2>3. pc[t] \in {"idle", "set"} /\ pc'[t] \in {"idle", "set_look"} /\ stage[t] = "test"
    BY <1>2 DEF SetCalled, SetHandle, Named, LookingUp
  <2>4. Quiet(t)
    BY <2>1, <2>2, <2>3 DEF Quiet, Same, Making, Creating, Unstored, CallingBack, Found
  <2>5. Accounted'
    BY <2>4, QuietStep
  <2>6. NamedFor(t)
    BY <2>1, <2>3 DEF NamedFor, Making, Creating, Unstored, CallingBack, Found, Using
  <2>7. Named'
    BY <2>2, <2>6, NamedStep
  <2>8. TypesWith(BridgeLabels, Names)'
    BY <1>2, <2>1, LifecycleAssumption
       DEF SetCalled, SetHandle, BridgeLabels, Labels, Setting, Names
  <2>9. NamesWhatWasGiven'
    BY <1>2, <2>1, <2>2, <2>3 DEF SetCalled, SetHandle, NamesWhatWasGiven, OnlyMoves, Setting
  <2>10. channel_handle' \in returned \union {Null}
    BY <1>2 DEF SetCalled, SetHandle, bridge, NamesWhatWasGiven
  <2> QED
    BY <2>1, <2>5, <2>7, <2>8, <2>9, <2>10
<1> QED
    BY <1>1, <1>2 DEF BASS_SOX_ASIO_StreamSet

\* A length that is no error is what BASS gave, and an error is given as 0.
LEMMA ReturnedFits ==
    ASSUME NEW r \in 0 .. LENGTH \union {BASS_STREAMPROC_END, BASS_ERROR_UNKNOWN}
    PROVE  Returned(r) \in 0 .. LENGTH
<1>1. 0 \in 0 .. LENGTH
    BY AsioAssumption
<1> QED
    BY <1>1 DEF Returned

\* Nor does what the application asks of ASIO, nor ASIO's own calls.
LEMMA AsioStep ==
    ASSUME BridgeInv,
           BASS_SOX_ASIO_ChannelEnable \/ StopAsio \/ DllMain \/ asio_sox_stream_proc
    PROVE  BridgeInv'
<1>1. UNCHANGED vars
    BY DEF BASS_SOX_ASIO_ChannelEnable, StopAsio, DllMain, asio_sox_stream_proc,
           CallbackStarts, BASS_ChannelGetData, CallbackReturns
<1>2. LifeInv(BridgeLabels, Names)'
    BY <1>1, BridgeAdds, LifeStep DEF BridgeInv
<1>3. UNCHANGED <<pc, target, stage, returned, streams>>
    BY <1>1 DEF vars, bass, found
<1>4. NamesWhatWasGiven'
    BY <1>3 DEF BridgeInv, NamesWhatWasGiven
<1>5. channel_handle' \in returned \union {Null}
    BY DEF BASS_SOX_ASIO_ChannelEnable, StopAsio, DllMain, asio_sox_stream_proc,
           CallbackStarts, BASS_ChannelGetData, CallbackReturns, BridgeInv
<1>6. playing' # Null => playing' \in returned \intersect streams
  <2>1. Null \notin streams \union Others /\ returned \intersect Others = {}
    BY LifecycleAssumption, AsioAssumption DEF BridgeInv, LifeInv, TypesWith
  <2> QED
    BY <2>1 DEF BASS_SOX_ASIO_ChannelEnable, StopAsio, DllMain, asio_sox_stream_proc,
                CallbackStarts, BASS_ChannelGetData, CallbackReturns, BridgeInv, callback
<1>7. result' \in 0 .. LENGTH
  <2>1. 0 \in 0 .. LENGTH
    BY AsioAssumption
  <2> QED
    BY <2>1, ReturnedFits
       DEF BASS_SOX_ASIO_ChannelEnable, StopAsio, DllMain, asio_sox_stream_proc,
           CallbackStarts, BASS_ChannelGetData, CallbackReturns, BridgeInv, callback
<1> QED
    BY <1>2, <1>3, <1>4, <1>5, <1>6, <1>7 DEF BridgeInv

\* The invariant of the two libraries.
LEMMA BridgeInvariant == BridgeSpec => []BridgeInv
<1>1. BridgeInit => BridgeInv
  <2> SUFFICES ASSUME BridgeInit PROVE BridgeInv
    OBVIOUS
  <2>1. LifeInv(BridgeLabels, Names)
    BY BridgeAdds, LifeInit DEF BridgeInit
  <2>2. NamesWhatWasGiven
    BY DEF BridgeInit, Init, NamesWhatWasGiven, Setting
  <2> QED
    BY <2>1, <2>2, AsioAssumption DEF BridgeInit, BridgeInv
<1>2. BridgeInv /\ [BridgeNext]_everything => BridgeInv'
    BY WithoutBridgeStep, SetStep, AsioStep DEF BridgeNext
<1> QED
    BY <1>1, <1>2, PTL DEF BridgeSpec

\* Whatever other threads create, free or name meanwhile, and whatever fails, ASIO
\* runs the procedure of a resampler that exists and is complete, as long as no two
\* resamplers were stored in one slot: the channel it plays was handed out, what was
\* handed out keeps its resampler while BASS knows the channel, and BASS waits for a
\* procedure before it forgets one.
THEOREM AsioPlaysLiveResamplers == BridgeSpec => []PlaysLiveResamplers
<1>1. BridgeInv => PlaysLiveResamplers
    BY DEF BridgeInv, LifeInv, Accounted, Owned, ReturnedAreWhole, PlaysLiveResamplers
<1> QED
    BY <1>1, BridgeInvariant, PTL

\* The bridge never tells ASIO of more than it asked for, also when BASS answers
\* with an error, which as a DWORD is the greatest of lengths.
THEOREM AsioIsNotOverrun == BridgeSpec => []NeverOverruns
<1>1. BridgeInv => NeverOverruns
    BY AsioAssumption DEF BridgeInv, NeverOverruns
<1> QED
    BY <1>1, BridgeInvariant, PTL

\* The registry holds what exists, with the bridge beside it too.
THEOREM RegistryStaysLiveBeside == BridgeSpec => []RegistryIsLive
<1>1. BridgeInv => RegistryIsLive
    BY DEF BridgeInv, LifeInv, Accounted, Unlocked
<1> QED
    BY <1>1, BridgeInvariant, PTL
=============================================================================
