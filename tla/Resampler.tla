----------------------------- MODULE Resampler -----------------------------
(***************************************************************************)
(* One resampler of bass_sox and the threads that share it:                *)
(*                                                                         *)
(*   "pull"     the thread on which BASS calls resampler_proc for data;    *)
(*   "updater"  the background thread of resampler_updater.c;              *)
(*   "app"      the thread on which the application calls the BASS_SOX_    *)
(*              functions.                                                 *)
(*                                                                         *)
(* Each of them may populate the resampler, under a semaphore that is      *)
(* almost always only tried: read the source, convert, and write what came *)
(* out to the playback buffer.  resampler_proc reads that buffer, and the  *)
(* flags that tell the end of the stream, without the semaphore.           *)
(*                                                                         *)
(* The sound is a sequence of numbered frames.  The converter hands them   *)
(* on one for one, Latency frames late, and the playback buffer is the     *)
(* queue that module RingBuffer implements, its operations atomic.         *)
(***************************************************************************)
EXTENDS Integers, Sequences

CONSTANTS
    Null,           \* a pointer that is NULL
    NoRing,         \* buffers whose pointer to the ring is NULL
    Frames,         \* the most frames the source will ever have
    FirstFrames,    \* the frames it has at the start
    Qualities,      \* values of a setting that resampler_soxr_create reads
    DefaultQuality,
    Lengths,        \* playback buffer lengths, in frames
    DefaultLength,
    InputLength,    \* frames that the input and resampler buffers can hold
    Latency,        \* frames that the converter holds back
    Request,        \* frames that BASS asks resampler_proc for
    Calls,          \* the kinds of call the application makes
    MaxCalls,       \* the bound on their number
    MaxStalls,      \* the bound on the reads that find the source stalled, or fail
    MayFail         \* what may fail, among "source", "soxr", "buffers", "ring",
                    \* "process" and "updater"

ASSUME ResamplerAssumption ==
    /\ Null \notin Qualities
    /\ Null \notin Nat
    /\ NoRing \notin Nat /\ NoRing # Null
    /\ Frames \in Nat /\ FirstFrames \in 0 .. Frames
    /\ DefaultQuality \in Qualities
    /\ Lengths \subseteq Nat /\ DefaultLength \in Lengths
    /\ InputLength \in Nat \ {0}
    /\ Latency \in Nat /\ Request \in Nat \ {0}
    /\ MaxCalls \in Nat /\ MaxStalls \in Nat

VARIABLES
    lock,        \* the count of the semaphore
    settings,    \* BASS_SOX_RESAMPLER_SETTINGS
    reload, ready, shutdown,  \* the flags of BASS_SOX_RESAMPLER
    thread,      \* TRUE when the handle of the updater is not NULL
    soxr,        \* NULL, or the quality the converter was created with
    held,        \* the frames inside the converter
    soxr_delay, soxr_end,
    buffer,      \* NULL, or the size of the playback buffer if there is one
    input, resampled, playback, \* what is in the three buffers
    position,    \* the frames read from the source so far
    supply,      \* the frames the source has so far
    source_end,
    delivered,   \* history: the frames handed to BASS
    lost,        \* history: the frames that were freed unplayed
    ring,        \* what resampler_proc's pointer to the ring points to
    pc,          \* where each thread is
    calls, stalls

converter == <<soxr, held, soxr_delay, soxr_end>>
buffers == <<buffer, input, resampled, playback>>
source == <<position, supply, source_end, stalls>>
api == <<settings, shutdown, thread, calls>>
listener == <<delivered, ring>>

vars == <<lock, reload, ready, converter, buffers, source, api, listener,
          lost, pc>>

Threads == {"pull", "updater", "app"}

\* The program counters at which a thread owns the semaphore.
Populating == {"ensure", "release", "reloaded", "create", "allocate", "input",
               "process", "write", "succeeded", "nothing", "failed",
               "crashed_inside"}
Locked == Populating \union {"clearing", "cleared", "measuring"}

\* Those of BASS_SOX_ChannelSetAttribute between the new value of a setting
\* and the request for a reload.
Setting == {"start", "stop", "join", "request_reload"}

Counters == Locked \union Setting \union
    {"idle", "enter", "ready", "load", "read", "eof", "drained", "ended",
     "crashed", "loop", "off", "clear"}

Lesser(a, b) == IF a < b THEN a ELSE b
Greater(a, b) == IF a > b THEN a ELSE b

\* Everything that has been read and not yet played, oldest first.
Pipeline == playback \o resampled \o held \o input

FramesOf(s) == {s[i] : i \in DOMAIN s}

Goto(t, label) == pc' = [pc EXCEPT ![t] = label]
At(t, label) == pc[t] = label
-----------------------------------------------------------------------------
(***************************************************************************)
(* resampler_lock.c, and resampler_populate step by step on thread t.      *)
(***************************************************************************)
\* A fault to detect: the result of the wait is not looked at.
resampler_lock_enter_anyway(t, entered, refused) ==
    /\ lock' = lock - 1
    /\ Goto(t, entered)

\* WaitForSingleObject with the timeout IGNORE, that is 0.
resampler_lock_enter(t, entered, refused) ==
    \/ /\ lock > 0
       /\ lock' = lock - 1
       /\ Goto(t, entered)
    \/ /\ lock = 0
       /\ UNCHANGED lock
       /\ Goto(t, refused)

\* ReleaseSemaphore fails, and is ignored, when the count is at its maximum.
resampler_lock_exit == lock' = Lesser(lock + 1, 1)

\* Where a thread goes on once resampler_populate has returned.
AfterPopulate(t, success) ==
    CASE t = "pull"    -> "ready"
      [] t = "updater" -> IF success THEN "enter" ELSE "loop"
      [] t = "app"     -> IF success THEN "enter" ELSE "idle"

Enter(t) ==
    /\ At(t, "enter")
    /\ resampler_lock_enter(t, "ensure", AfterPopulate(t, FALSE))
    /\ UNCHANGED <<reload, ready, converter, buffers, source, api, listener, lost>>

ensure_resampler(t) ==
    /\ At(t, "ensure")
    /\ \/ /\ reload
          /\ ready' = FALSE
          /\ Goto(t, "release")
       \/ /\ ~ reload
          /\ soxr = Null
          /\ Goto(t, "create")
          /\ UNCHANGED ready
       \/ /\ ~ reload
          /\ soxr # Null
          /\ Goto(t, "input")
          /\ UNCHANGED ready
    /\ UNCHANGED <<lock, reload, converter, buffers, source, api, listener, lost>>

\* resampler_soxr_free and resampler_buffer_free.  Whoever still points to the
\* ring now points to freed memory.
Release(t) ==
    /\ At(t, "release")
    /\ soxr' = Null
    /\ buffer' = Null
    /\ held' = <<>> /\ input' = <<>> /\ resampled' = <<>> /\ playback' = <<>>
    /\ lost' = lost \union FramesOf(Pipeline)
    /\ ring' = IF ring = "live" THEN "freed" ELSE ring
    /\ Goto(t, "reloaded")
    /\ UNCHANGED <<lock, reload, ready, soxr_delay, soxr_end, source, api, delivered>>

Reloaded(t) ==
    /\ At(t, "reloaded")
    /\ reload' = FALSE
    /\ Goto(t, "create")
    /\ UNCHANGED <<lock, ready, converter, buffers, source, api, listener, lost>>

resampler_soxr_create(t) ==
    /\ At(t, "create")
    /\ \/ /\ soxr' = settings.quality
          /\ Goto(t, "allocate")
       \/ /\ "soxr" \in MayFail
          /\ UNCHANGED soxr
          /\ Goto(t, "failed")
    /\ UNCHANGED <<lock, reload, ready, held, soxr_delay, soxr_end, buffers,
                   source, api, listener, lost>>

\* A fault to detect: the playback buffer is as short as the setting says.
playback_length_as_set == settings.playback_buffer_length

\* The playback buffer is never smaller than the resampler buffer.
playback_length == Greater(settings.playback_buffer_length, InputLength)

\* A fault to detect: the request is forgotten once the reload is done.
resampler_buffer_create_forgetting(t) ==
    /\ At(t, "allocate")
    /\ buffer' = playback_length
    /\ ready' = TRUE
    /\ reload' = FALSE
    /\ Goto(t, "input")
    /\ UNCHANGED <<lock, converter, input, resampled, playback, source,
                   api, listener, lost>>

\* Only this thread can tell the new buffer from the flag that announces it.
\* Whether ring_buffer_create succeeds is not looked at.
resampler_buffer_create(t) ==
    /\ At(t, "allocate")
    /\ \/ /\ \/ buffer' = playback_length
             \/ "ring" \in MayFail /\ buffer' = NoRing
          /\ ready' = TRUE
          /\ Goto(t, "input")
       \/ /\ "buffers" \in MayFail
          /\ UNCHANGED <<buffer, ready>>
          /\ Goto(t, "failed")
    /\ UNCHANGED <<lock, reload, converter, input, resampled, playback, source,
                   api, listener, lost>>

\* BASS_ChannelGetData finds data, the last of it perhaps marked as such, or
\* nothing for now, or fails, which is taken for the end, or is at the end.
BASS_ChannelGetData ==
    \/ \E n \in 1 .. Lesser(InputLength, supply - position) :
          /\ input' = [i \in 1 .. n |-> position + i]
          /\ position' = position + n
          /\ source_end' \in {FALSE, position + n = supply}
          /\ UNCHANGED stalls
    \/ /\ stalls < MaxStalls
       /\ stalls' = stalls + 1
       /\ source_end' \in {FALSE, "source" \in MayFail}
       /\ UNCHANGED <<input, position>>
    \/ /\ position = supply
       /\ source_end' = TRUE
       /\ UNCHANGED <<input, position, stalls>>

\* The two tests on the lengths of the buffers, and read_input_data.
read_input_data(t) ==
    /\ At(t, "input")
    /\ \/ /\ buffer = Null
          /\ Goto(t, "crashed_inside")
          /\ UNCHANGED <<input, source>>
       \/ /\ buffer # Null
          /\ resampled # <<>>
          /\ Goto(t, "write")
          /\ UNCHANGED <<input, source>>
       \/ /\ buffer # Null
          /\ resampled = <<>> /\ input # <<>>
          /\ Goto(t, "process")
          /\ UNCHANGED <<input, source>>
       \/ /\ buffer # Null
          /\ resampled = <<>> /\ input = <<>>
          /\ BASS_ChannelGetData
          /\ Goto(t, "process")
          /\ UNCHANGED supply
    /\ UNCHANGED <<lock, reload, ready, converter, buffer, resampled, playback,
                   api, listener, lost>>

\* A fault to detect: the delay is asked for before the frames are processed.
read_resampled_data_early_delay(t) ==
    LET all  == held \o input
        last == Greater(Len(all) - Latency, 0)
    IN  /\ At(t, "process")
        /\ resampled' = SubSeq(all, 1, last)
        /\ held' = SubSeq(all, last + 1, Len(all))
        /\ soxr_delay' = Len(held)
        /\ input' = <<>>
        /\ soxr_end' = (input = <<>> /\ last = 0)
        /\ Goto(t, IF input = <<>> /\ last = 0 THEN "nothing" ELSE "write")
        /\ UNCHANGED <<lock, reload, ready, soxr, buffer, playback, source, api,
                       listener, lost>>

\* A fault to detect: the end is when the converter is empty, which it never is.
read_resampled_data_never_ends(t) ==
    LET all  == held \o input
        last == Greater(Len(all) - Latency, 0)
    IN  /\ At(t, "process")
        /\ resampled' = SubSeq(all, 1, last)
        /\ held' = SubSeq(all, last + 1, Len(all))
        /\ soxr_delay' = Len(all) - last
        /\ input' = <<>>
        /\ soxr_end' = (all = <<>>)
        /\ Goto(t, IF input = <<>> /\ last = 0 THEN "nothing" ELSE "write")
        /\ UNCHANGED <<lock, reload, ready, soxr, buffer, playback, source, api,
                       listener, lost>>

\* soxr_process takes all of the input and gives what exceeds its latency.
read_resampled_data(t) ==
    LET all  == held \o input
        last == Greater(Len(all) - Latency, 0)
    IN  /\ At(t, "process")
        /\ \/ /\ resampled' = SubSeq(all, 1, last)
              /\ held' = SubSeq(all, last + 1, Len(all))
              /\ soxr_delay' = Len(all) - last
              /\ input' = <<>>
              /\ soxr_end' = (input = <<>> /\ last = 0)
              /\ Goto(t, IF input = <<>> /\ last = 0 THEN "nothing" ELSE "write")
           \/ /\ "process" \in MayFail
              /\ Goto(t, "failed")
              /\ UNCHANGED <<resampled, held, soxr_delay, input, soxr_end>>
        /\ UNCHANGED <<lock, reload, ready, soxr, buffer, playback, source, api,
                       listener, lost>>

\* A fault to detect: resampler_buffer_length is not reset after the write.
read_playback_data_again(t) ==
    /\ At(t, "write")
    /\ buffer # NoRing
    /\ \/ /\ Len(resampled) > buffer - Len(playback)
          /\ Goto(t, "nothing")
          /\ UNCHANGED playback
       \/ /\ Len(resampled) <= buffer - Len(playback)
          /\ playback' = playback \o resampled
          /\ Goto(t, "succeeded")
    /\ UNCHANGED <<lock, reload, ready, converter, buffer, input, resampled,
                   source, api, listener, lost>>

read_playback_data(t) ==
    /\ At(t, "write")
    /\ \/ /\ buffer = NoRing
          /\ Goto(t, "crashed_inside")
          /\ UNCHANGED <<playback, resampled>>
       \/ /\ buffer # NoRing
          /\ Len(resampled) > buffer - Len(playback)
          /\ Goto(t, "nothing")
          /\ UNCHANGED <<playback, resampled>>
       \/ /\ buffer # NoRing
          /\ Len(resampled) <= buffer - Len(playback)
          /\ playback' = playback \o resampled
          /\ resampled' = <<>>
          /\ Goto(t, "succeeded")
    /\ UNCHANGED <<lock, reload, ready, converter, buffer, input, source, api,
                   listener, lost>>

\* A fault to detect: the semaphore is kept when nothing could be read.
Exit_keeping(t) ==
    /\ pc[t] \in {"succeeded", "nothing", "failed"}
    /\ lock' = IF pc[t] = "succeeded" THEN Lesser(lock + 1, 1) ELSE lock
    /\ Goto(t, AfterPopulate(t, pc[t] = "succeeded"))
    /\ UNCHANGED <<reload, ready, converter, buffers, source, api, listener, lost>>

Exit(t) ==
    /\ pc[t] \in {"succeeded", "nothing", "failed"}
    /\ resampler_lock_exit
    /\ Goto(t, AfterPopulate(t, pc[t] = "succeeded"))
    /\ UNCHANGED <<reload, ready, converter, buffers, source, api, listener, lost>>

resampler_populate(t) ==
    \/ Enter(t) \/ ensure_resampler(t) \/ Release(t) \/ Reloaded(t)
    \/ resampler_soxr_create(t) \/ resampler_buffer_create(t)
    \/ read_input_data(t) \/ read_resampled_data(t) \/ read_playback_data(t)
    \/ Exit(t)
-----------------------------------------------------------------------------
(***************************************************************************)
(* resampler_proc, and the loop of background_update.                      *)
(***************************************************************************)
Proc == /\ At("pull", "idle")
        /\ Goto("pull", IF settings.background THEN "ready" ELSE "enter")
        /\ UNCHANGED <<lock, reload, ready, converter, buffers, source, api,
                       listener, lost>>

\* A fault to detect: resampler_proc takes it that the resampler is ready.
ProcReady_assumed ==
    /\ At("pull", "ready")
    /\ Goto("pull", "load")
    /\ UNCHANGED <<lock, reload, ready, converter, buffers, source, api,
                   listener, lost>>

ProcReady == /\ At("pull", "ready")
             /\ Goto("pull", IF ready THEN "load" ELSE "idle")
             /\ UNCHANGED <<lock, reload, ready, converter, buffers, source, api,
                            listener, lost>>

ProcLoad == /\ At("pull", "load")
            /\ \/ /\ buffer \in {Null, NoRing}
                  /\ Goto("pull", "crashed")
                  /\ UNCHANGED ring
               \/ /\ buffer \notin {Null, NoRing}
                  /\ Goto("pull", "read")
                  /\ ring' = "live"
            /\ UNCHANGED <<lock, reload, ready, converter, buffers, source, api,
                           delivered, lost>>

\* What a read of freed memory does is undefined: the program crashes, at best.
ProcRead ==
    LET n == Lesser(Request, Len(playback))
    IN  /\ At("pull", "read")
        /\ \/ /\ ring = "freed"
              /\ Goto("pull", "crashed")
              /\ UNCHANGED <<playback, listener>>
           \/ /\ ring = "live"
              /\ delivered' = delivered \o SubSeq(playback, 1, n)
              /\ playback' = SubSeq(playback, n + 1, Len(playback))
              /\ ring' = "none"
              /\ Goto("pull", IF n = 0 THEN "eof" ELSE "idle")
        /\ UNCHANGED <<lock, reload, ready, converter, buffer, input, resampled,
                       source, api, lost>>

\* A fault to detect: only the converter is asked whether it has ended.
ProcEof_converter_only ==
    /\ At("pull", "eof")
    /\ Goto("pull", "drained")
    /\ UNCHANGED <<lock, reload, ready, converter, buffers, source, api,
                   listener, lost>>

\* resampler_eof reads one flag after the other.
ProcEof == /\ At("pull", "eof")
           /\ Goto("pull", IF source_end THEN "drained" ELSE "idle")
           /\ UNCHANGED <<lock, reload, ready, converter, buffers, source, api,
                          listener, lost>>

ProcEnd == /\ At("pull", "drained")
           /\ Goto("pull", IF soxr_end /\ ~ settings.keep_alive THEN "ended"
                                                               ELSE "idle")
           /\ UNCHANGED <<lock, reload, ready, converter, buffers, source, api,
                          listener, lost>>

resampler_proc ==
    Proc \/ ProcReady \/ ProcLoad \/ ProcRead \/ ProcEof \/ ProcEnd

background_update ==
    /\ At("updater", "loop")
    /\ Goto("updater", IF shutdown THEN "off" ELSE "enter")
    /\ UNCHANGED <<lock, reload, ready, converter, buffers, source, api,
                   listener, lost>>
-----------------------------------------------------------------------------
(***************************************************************************)
(* The functions of bass_sox.c that the application calls.                 *)
(***************************************************************************)
Call(kind, label) ==
    /\ kind \in Calls
    /\ calls < MaxCalls
    /\ At("app", "idle")
    /\ calls' = calls + 1
    /\ Goto("app", label)

BASS_SOX_StreamBuffer ==
    /\ Call("buffer", "enter")
    /\ UNCHANGED <<lock, reload, ready, converter, buffers, source, settings,
                   shutdown, thread, listener, lost>>

BASS_SOX_StreamBufferClear ==
    /\ Call("clear", "clear")
    /\ UNCHANGED <<lock, reload, ready, converter, buffers, source, settings,
                   shutdown, thread, listener, lost>>

\* With BUFFER_CLEAR_TIMEOUT the call waits for the semaphore, or gives up.
ClearEnter ==
    /\ At("app", "clear")
    /\ resampler_lock_enter("app", "clearing", "idle")
    /\ UNCHANGED <<reload, ready, converter, buffers, source, api, listener, lost>>

\* It tries for the semaphore again, which its caller owns.
resampler_buffer_clear ==
    LET entered == lock > 0
        Cleared(s) == IF entered THEN <<>> ELSE s
    IN  /\ At("app", "clearing")
        /\ input' = Cleared(input)
        /\ resampled' = Cleared(resampled)
        /\ playback' = Cleared(playback)
        /\ lost' = lost \union
              (IF entered THEN FramesOf(playback \o resampled \o input) ELSE {})
        /\ Goto("app", "cleared")
        /\ UNCHANGED <<lock, reload, ready, converter, buffer, source, api,
                       listener>>

ClearExit ==
    /\ At("app", "cleared")
    /\ resampler_lock_exit
    /\ Goto("app", "idle")
    /\ UNCHANGED <<reload, ready, converter, buffers, source, api, listener, lost>>

\* The length that resampler_buffer_length reports, in frames.
resampler_buffer_length ==
    soxr_delay + IF buffer = Null THEN 0
                 ELSE Len(input) + Len(resampled) + Len(playback)

BASS_SOX_StreamBufferLength ==
    /\ "length" \in Calls
    /\ calls < MaxCalls
    /\ At("app", "idle")
    /\ calls' = calls + 1
    /\ resampler_lock_enter("app", "measuring", "idle")
    /\ UNCHANGED <<reload, ready, converter, buffers, source, settings, shutdown,
                   thread, listener, lost>>

LengthExit ==
    /\ At("app", "measuring")
    /\ \/ /\ buffer = NoRing
          /\ Goto("app", "crashed_inside")
          /\ UNCHANGED lock
       \/ /\ buffer # NoRing
          /\ resampler_lock_exit
          /\ Goto("app", "idle")
    /\ UNCHANGED <<reload, ready, converter, buffers, source, api, listener, lost>>

SetTo(attribute, value, label) ==
    /\ Call(attribute, label)
    /\ settings' = [settings EXCEPT ![attribute] = value]
    /\ UNCHANGED <<lock, reload, ready, converter, buffers, source, shutdown,
                   thread, listener, lost>>

\* A length outside its limits is refused and changes nothing.
BASS_SOX_ChannelSetAttribute ==
    \/ \E value \in Qualities : SetTo("quality", value, "request_reload")
    \/ \E value \in Lengths :
          SetTo("playback_buffer_length", value, "request_reload")
    \/ \E value \in BOOLEAN : SetTo("keep_alive", value, "request_reload")
    \/ \E value \in BOOLEAN :
          SetTo("background", value, IF value THEN "start" ELSE "stop")

\* A fault to detect: the flag of the last shutdown stays raised.
resampler_updater_start_shut_down ==
    /\ At("app", "start")
    /\ thread' = TRUE
    /\ pc' = IF thread THEN [pc EXCEPT !["app"] = "request_reload"]
             ELSE [pc EXCEPT !["app"] = "request_reload", !["updater"] = "loop"]
    /\ UNCHANGED <<lock, reload, ready, converter, buffers, source, settings,
                   shutdown, calls, listener, lost>>

resampler_updater_start ==
    /\ At("app", "start")
    /\ \/ /\ thread
          /\ Goto("app", "request_reload")
          /\ UNCHANGED <<shutdown, thread>>
       \/ /\ ~ thread
          /\ shutdown' = FALSE
          /\ thread' = TRUE
          /\ pc' = [pc EXCEPT !["app"] = "request_reload", !["updater"] = "loop"]
       \/ /\ ~ thread
          /\ "updater" \in MayFail
          /\ shutdown' = FALSE
          /\ Goto("app", "request_reload")
          /\ UNCHANGED thread
    /\ UNCHANGED <<lock, reload, ready, converter, buffers, source, settings,
                   calls, listener, lost>>

\* A fault to detect: the updater is waited for and not told to stop.
resampler_updater_stop_silent ==
    /\ At("app", "stop")
    /\ Goto("app", IF thread THEN "join" ELSE "request_reload")
    /\ UNCHANGED <<lock, reload, ready, converter, buffers, source, settings,
                   shutdown, thread, calls, listener, lost>>

resampler_updater_stop ==
    /\ At("app", "stop")
    /\ \/ /\ ~ thread
          /\ Goto("app", "request_reload")
          /\ UNCHANGED shutdown
       \/ /\ thread
          /\ shutdown' = TRUE
          /\ Goto("app", "join")
    /\ UNCHANGED <<lock, reload, ready, converter, buffers, source, settings,
                   thread, calls, listener, lost>>

\* A fault to detect: the handle is dropped before the updater has stopped.
UpdaterJoined_at_once ==
    /\ At("app", "join")
    /\ thread' = FALSE
    /\ Goto("app", "request_reload")
    /\ UNCHANGED <<lock, reload, ready, converter, buffers, source, settings,
                   shutdown, calls, listener, lost>>

UpdaterJoined ==
    /\ At("app", "join")
    /\ At("updater", "off")
    /\ thread' = FALSE
    /\ Goto("app", "request_reload")
    /\ UNCHANGED <<lock, reload, ready, converter, buffers, source, settings,
                   shutdown, calls, listener, lost>>

RequestReload ==
    /\ At("app", "request_reload")
    /\ reload' = TRUE
    /\ Goto("app", "idle")
    /\ UNCHANGED <<lock, ready, converter, buffers, source, api, listener, lost>>

\* The application gives its source more to play.
Enqueue ==
    /\ Call("enqueue", "idle")
    /\ supply < Frames
    /\ supply' = supply + 1
    /\ UNCHANGED <<lock, reload, ready, converter, buffers, position, source_end,
                   stalls, settings, shutdown, thread, listener, lost>>

\* What the application decides to do, and what a call it made goes on to do.
AppCalls == \/ BASS_SOX_StreamBuffer \/ BASS_SOX_StreamBufferClear
            \/ BASS_SOX_StreamBufferLength \/ BASS_SOX_ChannelSetAttribute
            \/ Enqueue

AppSteps == \/ ClearEnter \/ resampler_buffer_clear \/ ClearExit \/ LengthExit
            \/ resampler_updater_start \/ resampler_updater_stop
            \/ UpdaterJoined \/ RequestReload
-----------------------------------------------------------------------------
Init ==
    /\ lock = 1
    /\ settings = [quality |-> DefaultQuality,
                   playback_buffer_length |-> DefaultLength,
                   background |-> FALSE, keep_alive |-> FALSE]
    /\ reload = FALSE /\ ready = FALSE /\ shutdown = FALSE /\ thread = FALSE
    /\ soxr = Null /\ buffer = Null
    /\ held = <<>> /\ input = <<>> /\ resampled = <<>> /\ playback = <<>>
    /\ soxr_delay = 0 /\ soxr_end = FALSE /\ source_end = FALSE
    /\ position = 0 /\ supply = FirstFrames
    /\ delivered = <<>> /\ lost = {}
    /\ ring = "none"
    /\ pc = [t \in Threads |-> IF t = "updater" THEN "off" ELSE "idle"]
    /\ calls = 0 /\ stalls = 0

Next == \/ resampler_proc \/ resampler_populate("pull")
        \/ background_update \/ resampler_populate("updater")
        \/ AppCalls \/ AppSteps \/ resampler_populate("app")

Spec == Init /\ [][Next]_vars

\* BASS goes on asking for data, the updater goes on running, and a call that
\* the application made goes on; it need not make any.
FairSpec == /\ Spec
            /\ WF_vars(resampler_proc \/ resampler_populate("pull"))
            /\ WF_vars(background_update \/ resampler_populate("updater"))
            /\ WF_vars(AppSteps \/ resampler_populate("app"))
-----------------------------------------------------------------------------
ConverterTypes ==
    /\ soxr \in Qualities \union {Null}
    /\ held \in Seq(1 .. Frames)
    /\ soxr_delay \in Nat
    /\ soxr_end \in BOOLEAN

BufferTypes ==
    /\ buffer \in Nat \union {Null, NoRing}
    /\ input \in Seq(1 .. Frames)
    /\ resampled \in Seq(1 .. Frames)
    /\ playback \in Seq(1 .. Frames)

SourceTypes ==
    /\ position \in 0 .. supply
    /\ supply \in 0 .. Frames
    /\ source_end \in BOOLEAN
    /\ stalls \in 0 .. MaxStalls

ApiTypes ==
    /\ settings \in [quality : Qualities, playback_buffer_length : Lengths,
                     background : BOOLEAN, keep_alive : BOOLEAN]
    /\ shutdown \in BOOLEAN /\ thread \in BOOLEAN
    /\ calls \in 0 .. MaxCalls

ListenerTypes ==
    /\ delivered \in Seq(1 .. Frames)
    /\ ring \in {"none", "live", "freed"}

TypeOK ==
    /\ lock \in 0 .. 1
    /\ pc \in [Threads -> Counters]
    /\ reload \in BOOLEAN /\ ready \in BOOLEAN
    /\ lost \subseteq 1 .. Frames
    /\ ConverterTypes /\ BufferTypes /\ SourceTypes /\ ApiTypes /\ ListenerTypes

\* The semaphore is released by the thread that took it and by no other, on
\* every way out of every function: no two threads are ever inside, and it is
\* free whenever nobody is.
LockHeldByOne ==
    /\ \A t, u \in Threads : pc[t] \in Locked /\ pc[u] \in Locked => t = u
    /\ lock = IF \E t \in Threads : pc[t] \in Locked THEN 0 ELSE 1

\* BASS_SOX_ChannelSetAttribute writes a setting and then the reload flag, both
\* without the semaphore, while another thread may be anywhere in a reload
\* ("Does this need to be synchronized?").  No setting is ever forgotten: a
\* converter or a buffer made with an older value is due to be replaced.
SettingsApplied ==
    ~ reload /\ pc["app"] \notin Setting =>
        /\ soxr \in {Null, settings.quality}
        /\ buffer \in {Null, NoRing, playback_length}

\* The updater runs only while its handle is kept, so that there is never a
\* second one, and shutting it down is not forgotten before it has stopped.
UpdaterOwned ==
    /\ pc["updater"] # "off" => thread
    /\ pc["app"] = "join" => shutdown
    /\ thread /\ shutdown => pc["app"] = "join"

\* Every frame read from the source is in one place, in the order of reading:
\* played, waiting in one of the buffers, or given up by a reload.  None is
\* played twice, none overtakes another, none vanishes.
EveryFrameOnce ==
    LET all == delivered \o Pipeline
    IN  /\ \A i, j \in DOMAIN all : i < j => all[i] < all[j]
        /\ FramesOf(all) \intersect lost = {}
        /\ FramesOf(all) \union lost = 1 .. position

\* The resampler is the stream that PlaybackStream promises: no step of any
\* thread does anything else to a frame, not even BASS_SOX_StreamBufferClear.
Stream == INSTANCE PlaybackStream
          WITH queue <- Pipeline, played <- delivered, dropped <- lost
ImplementsPlaybackStream == Stream!Spec

\* No thread follows a NULL pointer or one to memory that was freed.
NoCrash == \A t \in Threads : pc[t] \notin {"crashed", "crashed_inside"}

\* BASS is told that the stream has ended only when nothing is left that will
\* ever come out: no frame in any buffer, no unread source but what came after
\* the source had ended or failed.  (What the converter holds back is never
\* flushed.)
EndMeansDrained ==
    pc["pull"] = "ended" =>
        /\ position = supply \/ source_end
        /\ playback = <<>> /\ resampled = <<>> /\ input = <<>>

\* What BASS_SOX_StreamBufferLength reports is what was read and is neither
\* played nor given up, whatever the other threads did before.
LengthAccurate ==
    pc["app"] = "measuring" =>
        resampler_buffer_length = Len(Pipeline)

\* After BASS_SOX_StreamBufferClear did its work the buffers are empty.
ClearClears ==
    pc["app"] = "cleared" =>
        playback = <<>> /\ resampled = <<>> /\ input = <<>>

\* The stream does not get stuck: in the end everything the source has is
\* played or given up, up to the latency of the converter, unless the program
\* crashed or BASS was told that the stream has ended.
PlaysToTheEnd ==
    <>( \/ pc["pull"] \in {"ended", "crashed"}
        \/ [](/\ position = supply
               /\ playback = <<>> /\ resampled = <<>> /\ input = <<>>) )

\* Failures that come to an end leave a stream that plays on: each of them is
\* tried again by the next call.  The exceptions are the failures that the code
\* does not look at: a NULL buffer or ring that is followed, and an updater
\* that could not be started while resampler_proc relies on it.
RecoversFromFailures ==
    <>[](\A t \in Threads : pc[t] # "failed") =>
        <>( \/ pc["pull"] = "ended"
            \/ ~ NoCrash
            \/ [](settings.background /\ ~ thread)
            \/ [](/\ position = supply
                  /\ playback = <<>> /\ resampled = <<>> /\ input = <<>>) )

\* BASS is told in the end that the stream has ended, unless the application
\* keeps it alive or the program crashed: whatever reload or clear came between,
\* the two end flags, which a reload does not reset, are raised once more.
EndIsReported ==
    <>[](~ settings.keep_alive) => <>(pc["pull"] \in {"ended", "crashed"})

\* BASS_SOX_ChannelSetAttribute(BACKGROUND, FALSE) waits for the updater without
\* a limit, and the inner loop of the updater does not look at the shutdown
\* flag; the wait ends all the same, unless the program crashed.
StopReturns == pc["app"] = "join" ~> pc["app"] # "join" \/ ~ NoCrash
=============================================================================
