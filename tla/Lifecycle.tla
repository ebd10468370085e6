----------------------------- MODULE Lifecycle -----------------------------
(***************************************************************************)
(* The life of the resamplers: BASS_SOX_StreamCreate, the registry that    *)
(* finds a resampler by its channel, the callback by which BASS tells that *)
(* a channel was freed, and DllMain when the library is unloaded.          *)
(*                                                                         *)
(* A channel and the resampler made for it have one name, a member of      *)
(* Handles, and BASS does not use a handle twice.  Each thread of Threads  *)
(* is one of the application's, and the callback runs on the thread that   *)
(* freed the channel.  What an updater does with its resampler is module   *)
(* Resampler; here it only uses it, until it is told to stop.              *)
(*                                                                         *)
(* External, and assumed: Windows calls DllMain with the lock of its       *)
(* loader held, and a thread takes that lock to end.                       *)
(***************************************************************************)
EXTENDS Integers, FiniteSets

CONSTANTS Threads,        \* the threads of the application
          Handles,        \* the channels BASS may create
          MAX_RESAMPLERS, \* the number of slots in the registry
          Null,           \* an empty slot, no handle
          MayFail         \* what may fail, among "calloc", "stream", "info",
                          \* "memory" and "sync"

ASSUME LifecycleAssumption ==
    /\ MAX_RESAMPLERS \in Nat \ {0}
    /\ Null \notin Handles

VARIABLES
    registry, \* resamplers, by slot
    memory,   \* by resampler: "none", "allocated" or "freed"
    whole,    \* the resamplers that have their settings and their semaphore
    thread,   \* the resamplers whose updater handle is not NULL
    shutdown, \* the resamplers whose updater is told to stop
    updaters, \* the resamplers whose updater thread runs
    streams,  \* the channels that exist in BASS
    returned, \* the channels that BASS_SOX_StreamCreate has returned
    unsynced, \* those of them whose freeing calls nothing back
    unloaded, \* TRUE when DllMain was told to detach
    clashed,  \* TRUE once a resampler was stored in a slot that was not empty
    pc, target, slot, \* by thread: where it is, the channel, the slot it is at
    stage,    \* by thread: what resampler_registry_get does next with the slot
    pointer,  \* by thread: the resampler it loaded from the registry, or Null
    todo      \* by thread: the channels it has yet to free

vars == <<registry, memory, whole, thread, shutdown, updaters, streams, returned,
          unsynced, unloaded, clashed, pc, target, slot, stage, pointer, todo>>

objects == <<memory, whole>>
updating == <<thread, shutdown, updaters>>
bass == <<streams, returned, unsynced, unloaded>>
found == <<stage, pointer>>

Slots == 1 .. MAX_RESAMPLERS

At(t, label) == pc[t] = label
Goto(t, label) == pc' = [pc EXCEPT ![t] = label]

\* A thread that follows NULL or a pointer to what was freed may crash, and where
\* it uses such a resampler what it does then is not modelled.
Live(resampler) == resampler # Null /\ memory[resampler] = "allocated"
-----------------------------------------------------------------------------
(***************************************************************************)
(* BASS_SOX_StreamCreate.  A channel that BASS knows nothing of, or that   *)
(* has the wanted rate already, changes nothing and is left out.           *)
(***************************************************************************)
\* Nobody looks whether calloc has failed; there is then nothing to be freed.
resampler_create(t) ==
    \E h \in Handles :
        /\ ~ unloaded
        /\ At(t, "idle")
        /\ memory[h] = "none"
        /\ \/ /\ memory' = [memory EXCEPT ![h] = "allocated"]
              /\ Goto(t, "stream")
           \/ /\ "calloc" \in MayFail
              /\ memory' = [memory EXCEPT ![h] = "freed"]
              /\ Goto(t, "stream_null")
        /\ target' = [target EXCEPT ![t] = h]
        /\ UNCHANGED <<registry, whole, updating, bass, clashed, slot, found, todo>>

\* The two early returns release nothing, and what comes after them is a field of
\* the resampler.
CreateStream(t) ==
    /\ pc[t] \in {"stream", "stream_null"}
    /\ \/ /\ streams' = streams \union {target[t]}
          /\ Goto(t, IF At(t, "stream") THEN "settings" ELSE "crashed")
       \/ /\ "stream" \in MayFail
          /\ UNCHANGED streams
          /\ Goto(t, "idle")
       \/ /\ "info" \in MayFail
          /\ streams' = streams \union {target[t]}
          /\ Goto(t, "idle")
    /\ UNCHANGED <<registry, objects, updating, returned, unsynced, unloaded, clashed,
                   target, slot, found, todo>>

\* resampler_settings_create and resampler_lock_create.  What comes next is
\* done whether they succeed or not.
CreateSettings(t) ==
    /\ At(t, "settings")
    /\ \/ whole' = whole \union {target[t]}
       \/ /\ "memory" \in MayFail
          /\ UNCHANGED whole
    /\ slot' = [slot EXCEPT ![t] = 1]
    /\ Goto(t, "scan")
    /\ UNCHANGED <<registry, memory, updating, bass, clashed, target, found, todo>>

\* Two faults to detect: the first slot is always taken, and the search goes one
\* slot too far.
Scan_first_slot(t) ==
    /\ At(t, "scan")
    /\ Goto(t, "store")
    /\ UNCHANGED <<registry, objects, updating, bass, clashed, target, slot, found, todo>>

Scan_too_far(t) ==
    /\ At(t, "scan")
    /\ \/ /\ slot[t] <= MAX_RESAMPLERS
          /\ registry[slot[t]] = Null
          /\ Goto(t, "store")
          /\ UNCHANGED slot
       \/ /\ slot[t] > MAX_RESAMPLERS \/ registry[slot[t]] # Null
          /\ slot' = [slot EXCEPT ![t] = @ + 1]
          /\ Goto(t, IF slot[t] > MAX_RESAMPLERS THEN "discard" ELSE "scan")
    /\ UNCHANGED <<registry, objects, updating, bass, clashed, target, found, todo>>

\* resampler_registry_add looks for an empty slot ...
Scan(t) ==
    /\ At(t, "scan")
    /\ \/ /\ slot[t] > MAX_RESAMPLERS
          /\ Goto(t, "discard")
          /\ UNCHANGED slot
       \/ /\ slot[t] <= MAX_RESAMPLERS
          /\ registry[slot[t]] # Null
          /\ slot' = [slot EXCEPT ![t] = @ + 1]
          /\ UNCHANGED pc
       \/ /\ slot[t] <= MAX_RESAMPLERS
          /\ registry[slot[t]] = Null
          /\ Goto(t, "store")
          /\ UNCHANGED slot
    /\ UNCHANGED <<registry, objects, updating, bass, clashed, target, found, todo>>

\* ... and takes it.
Store(t) ==
    /\ At(t, "store")
    /\ registry' = [registry EXCEPT ![slot[t]] = target[t]]
    /\ clashed' = (clashed \/ registry[slot[t]] # Null)
    /\ Goto(t, IF target[t] \in whole THEN "sync" ELSE "discard")
    /\ UNCHANGED <<objects, updating, bass, target, slot, found, todo>>

\* Nobody looks whether BASS_ChannelSetSync has failed.
SetSync(t) ==
    /\ At(t, "sync")
    /\ returned' = returned \union {target[t]}
    /\ \/ UNCHANGED unsynced
       \/ /\ "sync" \in MayFail
          /\ unsynced' = unsynced \union {target[t]}
    /\ Goto(t, "idle")
    /\ UNCHANGED <<registry, objects, updating, streams, unloaded, clashed, target,
                   slot, found, todo>>

\* A fault to detect: the slot is not given back.
resampler_registry_remove_nothing(h) == UNCHANGED registry

resampler_registry_remove(h) ==
    registry' = [i \in Slots |-> IF registry[i] = h THEN Null ELSE registry[i]]

resampler_free(h) ==
    /\ memory' = [memory EXCEPT ![h] = "freed"]
    /\ whole' = whole \ {h}

\* Something failed: the stream, the registration and the resampler go.
Discard(t) ==
    /\ At(t, "discard")
    /\ streams' = streams \ {target[t]}
    /\ resampler_registry_remove(target[t])
    /\ resampler_free(target[t])
    /\ Goto(t, "idle")
    /\ UNCHANGED <<updating, returned, unsynced, unloaded, clashed, target, slot,
                   found, todo>>

BASS_SOX_StreamCreate(t) ==
    \/ resampler_create(t) \/ CreateStream(t) \/ CreateSettings(t)
    \/ Scan(t) \/ Store(t) \/ SetSync(t) \/ Discard(t)
-----------------------------------------------------------------------------
(***************************************************************************)
(* Any of the calls that take a handle: the resampler is looked up and its *)
(* fields are used, and BACKGROUND starts and stops its updater.           *)
(***************************************************************************)
\* resampler_registry_get loads a slot to test it for NULL, ...
TestSlot(t, missed) ==
    /\ stage[t] = "test"
    /\ \/ /\ slot[t] > MAX_RESAMPLERS
          /\ Goto(t, missed)
          /\ UNCHANGED <<slot, stage>>
       \/ /\ slot[t] <= MAX_RESAMPLERS
          /\ registry[slot[t]] = Null
          /\ slot' = [slot EXCEPT ![t] = @ + 1]
          /\ UNCHANGED <<pc, stage>>
       \/ /\ slot[t] <= MAX_RESAMPLERS
          /\ registry[slot[t]] # Null
          /\ stage' = [stage EXCEPT ![t] = "load"]
          /\ UNCHANGED <<pc, slot>>
    /\ UNCHANGED pointer

\* ... again to follow it, ...
LoadSlot(t) ==
    /\ stage[t] = "load"
    /\ pointer' = [pointer EXCEPT ![t] = registry[slot[t]]]
    /\ stage' = [stage EXCEPT ![t] = "follow"]
    /\ UNCHANGED <<pc, slot>>

\* ... compares the channel it finds there, where memory that was freed meanwhile
\* may still have the channel it had, ...
CompareChannel(t) ==
    /\ stage[t] = "follow"
    /\ \/ /\ ~ Live(pointer[t])
          /\ Goto(t, "crashed")
          /\ UNCHANGED <<slot, stage>>
       \/ /\ pointer[t] = target[t]
          /\ stage' = [stage EXCEPT ![t] = "take"]
          /\ UNCHANGED <<pc, slot>>
       \/ /\ pointer[t] # Null
          /\ Live(pointer[t]) => pointer[t] # target[t]
          /\ slot' = [slot EXCEPT ![t] = @ + 1]
          /\ stage' = [stage EXCEPT ![t] = "test"]
          /\ UNCHANGED pc
    /\ UNCHANGED pointer

\* ... and loads the slot once more to return it.
TakeSlot(t, label) ==
    /\ stage[t] = "take"
    /\ pointer' = [pointer EXCEPT ![t] = registry[slot[t]]]
    /\ stage' = [stage EXCEPT ![t] = "test"]
    /\ Goto(t, label)
    /\ UNCHANGED slot

resampler_registry_get(t, at, label, missed) ==
    /\ At(t, at)
    /\ TestSlot(t, missed) \/ LoadSlot(t) \/ CompareChannel(t) \/ TakeSlot(t, label)
    /\ UNCHANGED <<registry, objects, updating, bass, clashed, target, todo>>

\* Any handle that the application was given, freed since or not.
Called(t) ==
    \E h \in returned :
        /\ ~ unloaded
        /\ At(t, "idle")
        /\ target' = [target EXCEPT ![t] = h]
        /\ slot' = [slot EXCEPT ![t] = 1]
        /\ Goto(t, "look")
        /\ UNCHANGED <<registry, objects, updating, bass, clashed, found, todo>>

LookUp(t) == Called(t) \/ resampler_registry_get(t, "look", "use", "idle")

StartUpdater(t) ==
    /\ At(t, "use")
    /\ Live(pointer[t])
    /\ pointer[t] \notin thread
    /\ thread' = thread \union {pointer[t]}
    /\ shutdown' = shutdown \ {pointer[t]}
    /\ updaters' = updaters \union {pointer[t]}
    /\ Goto(t, "idle")
    /\ UNCHANGED <<registry, objects, bass, clashed, target, slot, found, todo>>

StopUpdater(t) ==
    /\ At(t, "use")
    /\ Live(pointer[t])
    /\ Goto(t, "stop")
    /\ UNCHANGED <<registry, objects, updating, bass, clashed, target, slot, found, todo>>

\* Whatever else is done with a resampler, also with one that was freed meanwhile.
AnyOtherUse(t) ==
    /\ At(t, "use")
    /\ Goto(t, IF Live(pointer[t]) THEN "idle" ELSE "crashed")
    /\ UNCHANGED <<registry, objects, updating, bass, clashed, target, slot, found, todo>>

\* A fault to detect: the updater is told to stop and not waited for.
resampler_updater_stop_at_once(t, from, joining, label) ==
    /\ At(t, from)
    /\ shutdown' = shutdown \union ({pointer[t]} \intersect thread)
    /\ thread' = thread \ {pointer[t]}
    /\ Goto(t, label)
    /\ UNCHANGED <<registry, objects, updaters, bass, clashed, target, slot, found, todo>>

resampler_updater_stop(t, from, joining, label) ==
    /\ \/ /\ At(t, from) \/ (At(t, joining) /\ pointer[t] \notin updaters)
          /\ ~ Live(pointer[t])
          /\ Goto(t, "crashed")
          /\ UNCHANGED <<thread, shutdown>>
       \/ /\ At(t, from)
          /\ Live(pointer[t])
          /\ pointer[t] \notin thread
          /\ Goto(t, label)
          /\ UNCHANGED <<thread, shutdown>>
       \/ /\ At(t, from)
          /\ Live(pointer[t])
          /\ pointer[t] \in thread
          /\ shutdown' = shutdown \union {pointer[t]}
          /\ Goto(t, joining)
          /\ UNCHANGED thread
       \/ /\ At(t, joining)
          /\ pointer[t] \notin updaters
          /\ Live(pointer[t])
          /\ thread' = thread \ {pointer[t]}
          /\ Goto(t, label)
          /\ UNCHANGED shutdown
    /\ UNCHANGED <<registry, objects, updaters, bass, clashed, target, slot, found, todo>>

UseHandle(t) ==
    \/ LookUp(t) \/ StartUpdater(t) \/ StopUpdater(t)
    \/ AnyOtherUse(t) \/ resampler_updater_stop(t, "stop", "join", "idle")

\* A fault to detect: an updater never looks at its shutdown flag.
background_update_forever(h) == FALSE

\* Another: it ends without the lock of the loader.
background_update_at_once(h) ==
    /\ h \in updaters
    /\ h \in shutdown
    /\ updaters' = updaters \ {h}
    /\ UNCHANGED <<registry, objects, thread, shutdown, bass, clashed, pc, target,
                   slot, found, todo>>

\* DllMain runs, and the lock of the loader is held for it.
Detaching == unloaded /\ \E t \in Threads : ~ At(t, "idle")

\* The updater leaves its loop, and its thread ends.
background_update(h) ==
    /\ h \in updaters
    /\ h \in shutdown
    /\ ~ Detaching
    /\ updaters' = updaters \ {h}
    /\ UNCHANGED <<registry, objects, thread, shutdown, bass, clashed, pc, target,
                   slot, found, todo>>
-----------------------------------------------------------------------------
(***************************************************************************)
(* BASS_StreamFree called by the application, and DllMain, which calls it  *)
(* for every resampler; each call runs the callback BASS_SOX_StreamFree.   *)
(***************************************************************************)
Free(t) ==
    \E h \in returned \intersect streams :
        /\ ~ unloaded
        /\ At(t, "idle")
        /\ todo' = [todo EXCEPT ![t] = {h}]
        /\ Goto(t, "free")
        /\ UNCHANGED <<registry, objects, updating, bass, clashed, target, slot, found>>

resampler_registry_get_all == {registry[i] : i \in Slots} \ {Null}

Detach(t) ==
    /\ ~ unloaded
    /\ \A u \in Threads : At(u, "idle")
    /\ unloaded' = TRUE
    /\ todo' = [todo EXCEPT ![t] = resampler_registry_get_all]
    /\ Goto(t, "free")
    /\ UNCHANGED <<registry, objects, updating, streams, returned, unsynced, clashed,
                   target, slot, found>>

\* A channel that is gone already, or that has no sync, calls nothing back.
BASS_StreamFree(t) ==
    /\ At(t, "free")
    /\ \/ /\ todo[t] = {}
          /\ Goto(t, "idle")
          /\ UNCHANGED <<streams, target, slot, todo>>
       \/ \E h \in todo[t] :
             /\ todo' = [todo EXCEPT ![t] = @ \ {h}]
             /\ target' = [target EXCEPT ![t] = h]
             /\ streams' = streams \ {h}
             /\ slot' = [slot EXCEPT ![t] = 1]
             /\ Goto(t, IF h \in (streams \intersect returned) \ unsynced
                        THEN "callback_look" ELSE "free")
    /\ UNCHANGED <<registry, objects, updating, returned, unsynced, unloaded, clashed,
                   found>>

Unregister(t) ==
    /\ At(t, "unregister")
    /\ resampler_registry_remove(pointer[t])
    /\ Goto(t, "release")
    /\ UNCHANGED <<objects, updating, bass, clashed, target, slot, found, todo>>

\* A fault to detect: the callback leaves the resampler allocated.
Release_nothing(t) ==
    /\ At(t, "release")
    /\ Goto(t, "free")
    /\ UNCHANGED <<registry, objects, updating, bass, clashed, target, slot, found, todo>>

Release(t) ==
    /\ At(t, "release")
    /\ \/ /\ Live(pointer[t])
          /\ resampler_free(pointer[t])
          /\ Goto(t, "free")
       \/ /\ ~ Live(pointer[t])
          /\ Goto(t, "crashed")
          /\ UNCHANGED objects
    /\ UNCHANGED <<registry, updating, bass, clashed, target, slot, found, todo>>

BASS_SOX_StreamFree(t) ==
    \/ resampler_registry_get(t, "callback_look", "callback", "free")
    \/ resampler_updater_stop(t, "callback", "callback_join", "unregister")
    \/ Unregister(t) \/ Release(t)
-----------------------------------------------------------------------------
Init == /\ registry = [i \in Slots |-> Null]
        /\ memory = [h \in Handles |-> "none"]
        /\ whole = {} /\ thread = {} /\ shutdown = {} /\ updaters = {}
        /\ streams = {} /\ returned = {} /\ unsynced = {} /\ unloaded = FALSE
        /\ clashed = FALSE
        /\ pc = [t \in Threads |-> "idle"]
        /\ target = [t \in Threads |-> Null]
        /\ slot = [t \in Threads |-> 1]
        /\ stage = [t \in Threads |-> "test"]
        /\ pointer = [t \in Threads |-> Null]
        /\ todo = [t \in Threads |-> {}]

GoesOn(t) ==
    \/ CreateStream(t) \/ CreateSettings(t) \/ Scan(t) \/ Store(t) \/ SetSync(t)
    \/ Discard(t) \/ AnyOtherUse(t)
    \/ resampler_registry_get(t, "look", "use", "idle")
    \/ resampler_updater_stop(t, "stop", "join", "idle")
    \/ BASS_StreamFree(t) \/ BASS_SOX_StreamFree(t)

Next == \/ \E t \in Threads : \/ BASS_SOX_StreamCreate(t) \/ UseHandle(t)
                              \/ Free(t) \/ Detach(t)
                              \/ BASS_StreamFree(t) \/ BASS_SOX_StreamFree(t)
        \/ \E h \in Handles : background_update(h)

Spec == Init /\ [][Next]_vars

\* The updaters run, and a call that was made goes on.
FairSpec == /\ Spec
            /\ \A t \in Threads : WF_vars(GoesOn(t))
            /\ \A h \in Handles : WF_vars(background_update(h))
-----------------------------------------------------------------------------
Labels == {"idle", "stream", "stream_null", "settings", "scan", "store", "sync",
           "discard", "look", "use", "stop", "join", "free", "callback_look",
           "callback", "callback_join", "unregister", "release", "crashed"}

Stages == {"test", "load", "follow", "take"}

TypeOK == /\ registry \in [Slots -> Handles \union {Null}]
          /\ memory \in [Handles -> {"none", "allocated", "freed"}]
          /\ whole \subseteq Handles /\ thread \subseteq Handles
          /\ shutdown \subseteq Handles /\ updaters \subseteq Handles
          /\ streams \subseteq Handles /\ returned \subseteq Handles
          /\ unsynced \subseteq returned
          /\ unloaded \in BOOLEAN /\ clashed \in BOOLEAN
          /\ pc \in [Threads -> Labels]
          /\ target \in [Threads -> Handles \union {Null}]
          /\ slot \in [Threads -> 1 .. MAX_RESAMPLERS + 1]
          /\ stage \in [Threads -> Stages]
          /\ pointer \in [Threads -> Handles \union {Null}]
          /\ todo \in [Threads -> SUBSET Handles]

\* The registry holds no resampler that was freed and none twice: whoever finds
\* one there finds one that exists.
RegistryIsLive ==
    /\ \A i \in Slots : registry[i] # Null => memory[registry[i]] = "allocated"
    /\ \A i, j \in Slots : registry[i] = registry[j] /\ registry[i] # Null => i = j

\* No updater runs on a resampler that was freed, nor on one whose thread handle
\* was given up.
UpdatersHaveResamplers ==
    updaters \subseteq thread \intersect {h \in Handles : memory[h] = "allocated"}

\* No thread uses a resampler after it was freed.
NoCrash == \A t \in Threads : pc[t] # "crashed"

\* Every channel that BASS_SOX_StreamCreate has returned can be looked up until
\* it is freed.
StreamsAreRegistered ==
    \A h \in returned \intersect streams : \E i \in Slots : registry[i] = h

\* Once DllMain has returned no thread runs the code that is unloaded, and no
\* memory is kept.
UnloadedIsClean ==
    unloaded /\ (\A t \in Threads : pc[t] = "idle") =>
        updaters = {} /\ \A h \in Handles : memory[h] # "allocated"

\* Between calls nothing is left behind: a resampler exists exactly while its
\* channel does, also when its creation failed half-way, and once the library is
\* unloaded there is none.
NothingLeftBehind ==
    /\ (\A t \in Threads : pc[t] = "idle") =>
           streams = {h \in Handles : memory[h] = "allocated"}
    /\ UnloadedIsClean

\* No creation that failed, wherever it failed, keeps a slot of the registry, and
\* no channel keeps one after it was freed, unless BASS never tells of that: between
\* calls every resampler in the registry is one that the application was given, as
\* long as no two were stored in one slot.
SlotsAreGivenBack ==
    ~ clashed /\ (\A t \in Threads : pc[t] = "idle") =>
        \A i \in Slots : registry[i] # Null =>
            registry[i] \in returned /\ registry[i] \in streams \union unsynced

\* Every call returns, those that wait for an updater too; but DllMain, which waits
\* with the lock of the loader, only if no updater is left to wait for.
CallsReturn ==
    \A t \in Threads :
        pc[t] # "idle" ~> pc[t] = "idle" \/ (unloaded /\ updaters # {})

\* And if one is left, it never does: the updater cannot end before DllMain
\* returns, nor DllMain before the updater has ended.
DetachWaitsForEver ==
    [](unloaded /\ updaters # {} => [](\E t \in Threads : pc[t] # "idle"))
=============================================================================
