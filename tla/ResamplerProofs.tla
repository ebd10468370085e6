-------------------------- MODULE ResamplerProofs --------------------------
(***************************************************************************)
(* One resampler, for every number of frames, every length of its buffers  *)
(* and every set of calls: the variables keep their types, the semaphore   *)
(* is held by at most one thread, a new setting is never forgotten, and    *)
(* there is at most one updater.                                           *)
(***************************************************************************)
EXTENDS Resampler, SequenceTheorems, TLAPS

\* What ensure_resampler leaves at each of its steps: the buffers go with the
\* converter, and a thread that is about to create one finds none.
Created ==
    /\ soxr = Null => buffer = Null
    /\ \A t \in Threads : pc[t] \in {"reloaded", "create"} => soxr = Null
    /\ \A t \in Threads : pc[t] = "allocate" => soxr # Null /\ buffer = Null

\* SettingsApplied needs Created, because the reload flag is lowered between
\* the release of the old converter and the creation of the new one, and
\* Created needs LockHeldByOne, because another thread could create one too.
ResamplerInv ==
    TypeOK /\ LockHeldByOne /\ Created /\ SettingsApplied /\ UpdaterOwned

\* A thread moves from one program counter to another.
LEMMA GotoKeepsType ==
    ASSUME pc \in [Threads -> Counters], NEW t \in Threads,
           NEW label \in Counters, Goto(t, label)
    PROVE  pc' \in [Threads -> Counters]
BY DEF Goto

\* The parts of a sequence of frames are sequences of frames.
LEMMA SplitFrames ==
    ASSUME NEW s \in Seq(1 .. Frames), NEW n \in 0 .. Len(s)
    PROVE  /\ SubSeq(s, 1, n) \in Seq(1 .. Frames)
           /\ SubSeq(s, n + 1, Len(s)) \in Seq(1 .. Frames)
<1>1. \A i \in 1 .. Len(s) : s[i] \in 1 .. Frames
  BY ElementOfSeq
<1>2. Len(s) \in Nat /\ n \in Nat /\ n <= Len(s)
  BY LenProperties
<1>3. SubSeq(s, 1, n) \in Seq(1 .. Frames)
  BY <1>1, <1>2, SubSeqProperties
<1>4. SubSeq(s, n + 1, Len(s)) \in Seq(1 .. Frames)
  BY <1>1, <1>2, SubSeqProperties
<1>5. QED
  BY <1>3, <1>4

\* Variables that a step leaves alone keep their types.
LEMMA UnchangedTypes ==
    /\ ConverterTypes /\ UNCHANGED converter => ConverterTypes'
    /\ BufferTypes /\ UNCHANGED buffers => BufferTypes'
    /\ SourceTypes /\ UNCHANGED source => SourceTypes'
    /\ ApiTypes /\ UNCHANGED api => ApiTypes'
    /\ ListenerTypes /\ UNCHANGED listener => ListenerTypes'
<1>1. ConverterTypes /\ UNCHANGED converter => ConverterTypes'
  BY DEF ConverterTypes, converter
<1>2. BufferTypes /\ UNCHANGED buffers => BufferTypes'
  BY DEF BufferTypes, buffers
<1>3. SourceTypes /\ UNCHANGED source => SourceTypes'
  BY DEF SourceTypes, source
<1>4. ApiTypes /\ UNCHANGED api => ApiTypes'
  BY DEF ApiTypes, api
<1>5. ListenerTypes /\ UNCHANGED listener => ListenerTypes'
  BY DEF ListenerTypes, listener
<1>6. QED
  BY <1>1, <1>2, <1>3, <1>4, <1>5

\* resampler_populate, run by any of the threads, keeps the types.
LEMMA PopulateKeepsType ==
    ASSUME TypeOK, NEW t \in Threads, resampler_populate(t)
    PROVE  TypeOK'
<1> USE UnchangedTypes
<1>1. CASE Enter(t)
  <2>1. pc' \in [Threads -> Counters]
    BY <1>1 DEF Enter, resampler_lock_enter, AfterPopulate, TypeOK,
       Counters, Locked, Populating, Setting, Threads, Goto
  <2>2. lock' \in 0 .. 1
    <3>1. lock \in 0 .. 1
      BY DEF TypeOK
    <3>2. \/ lock' = lock
          \/ lock > 0 /\ lock' = lock - 1
      BY <1>1 DEF Enter, resampler_lock_enter
    <3>3. QED
      BY <3>1, <3>2
  <2>3. QED
    BY <1>1, <2>1, <2>2 DEF Enter, TypeOK
<1>2. CASE ensure_resampler(t)
  <2>1. pc' \in [Threads -> Counters]
    BY <1>2 DEF ensure_resampler, TypeOK, Goto, Counters, Locked, Populating
  <2>2. ready' \in BOOLEAN
    BY <1>2 DEF ensure_resampler, TypeOK
  <2>3. QED
    BY <1>2, <2>1, <2>2 DEF ensure_resampler, TypeOK
<1>3. CASE Release(t)
  <2>1. pc' \in [Threads -> Counters]
    BY <1>3 DEF Release, TypeOK, Goto, Counters, Locked, Populating
  <2>2. Pipeline \in Seq(1 .. Frames)
    BY ConcatProperties DEF TypeOK, ConverterTypes, BufferTypes, Pipeline
  <2>3. FramesOf(Pipeline) \subseteq 1 .. Frames
    <3>1. \A i \in DOMAIN Pipeline : Pipeline[i] \in 1 .. Frames
      BY <2>2, ElementOfSeq, LenProperties
    <3>2. QED
      BY <3>1 DEF FramesOf
  <2>4. lost' \subseteq 1 .. Frames
    BY <1>3, <2>3 DEF Release, TypeOK
  <2>5. ConverterTypes' /\ BufferTypes' /\ ListenerTypes'
    BY <1>3 DEF Release, TypeOK, ConverterTypes, BufferTypes, ListenerTypes
  <2>6. QED
    BY <1>3, <2>1, <2>4, <2>5 DEF Release, TypeOK
<1>4. CASE Reloaded(t)
  <2>1. pc' \in [Threads -> Counters]
    BY <1>4 DEF Reloaded, TypeOK, Goto, Counters, Locked, Populating
  <2>2. QED
    BY <1>4, <2>1 DEF Reloaded, TypeOK
<1>5. CASE resampler_soxr_create(t)
  <2>1. pc' \in [Threads -> Counters]
    BY <1>5 DEF resampler_soxr_create, TypeOK, Goto, Counters, Locked, Populating
  <2>2. ConverterTypes'
    BY <1>5 DEF resampler_soxr_create, TypeOK, ConverterTypes, ApiTypes
  <2>3. QED
    BY <1>5, <2>1, <2>2 DEF resampler_soxr_create, TypeOK
<1>6. CASE resampler_buffer_create(t)
  <2>1. pc' \in [Threads -> Counters]
    BY <1>6 DEF resampler_buffer_create, TypeOK, Goto, Counters, Locked, Populating
  <2>2. playback_length \in Nat
    BY ResamplerAssumption DEF playback_length, Greater, TypeOK, ApiTypes
  <2>3. BufferTypes' /\ ready' \in BOOLEAN
    BY <1>6, <2>2 DEF resampler_buffer_create, TypeOK, BufferTypes
  <2>4. QED
    BY <1>6, <2>1, <2>3 DEF resampler_buffer_create, TypeOK
<1>7. CASE read_input_data(t)
  <2>1. pc' \in [Threads -> Counters]
    BY <1>7 DEF read_input_data, TypeOK, Goto, Counters, Locked, Populating
  <2>2. input' \in Seq(1 .. Frames) /\ SourceTypes'
    <3>1. CASE BASS_ChannelGetData /\ UNCHANGED supply
      <4>1. /\ position \in Nat /\ supply \in Nat /\ position <= supply
            /\ supply <= Frames /\ Frames \in Nat
        BY ResamplerAssumption DEF TypeOK, SourceTypes
      <4>2. CASE \E n \in 1 .. Lesser(InputLength, supply - position) :
                    /\ input' = [i \in 1 .. n |-> position + i]
                    /\ position' = position + n
                    /\ source_end' \in {FALSE, position + n = supply}
                    /\ UNCHANGED stalls
        <5>1. PICK n \in 1 .. Lesser(InputLength, supply - position) :
                    /\ input' = [i \in 1 .. n |-> position + i]
                    /\ position' = position + n
                    /\ source_end' \in {FALSE, position + n = supply}
                    /\ UNCHANGED stalls
          BY <4>2
        <5>2. n \in Nat /\ n >= 1 /\ position + n <= supply
          BY <4>1, ResamplerAssumption DEF Lesser
        <5>3. \A i \in 1 .. n : position + i \in 1 .. Frames
          BY <4>1, <5>2
        <5>4. input' \in Seq(1 .. Frames)
          BY <5>1, <5>2, <5>3
        <5>5. position' = position + n /\ position' \in 0 .. supply
          BY <4>1, <5>1, <5>2
        <5>6. source_end' \in BOOLEAN
          BY <5>1, Zenon
        <5>7. QED
          BY <3>1, <5>1, <5>4, <5>5, <5>6 DEF TypeOK, SourceTypes
      <4>3. CASE /\ stalls < MaxStalls
                 /\ stalls' = stalls + 1
                 /\ source_end' \in {FALSE, "source" \in MayFail}
                 /\ UNCHANGED <<input, position>>
        <5>1. stalls \in 0 .. MaxStalls /\ MaxStalls \in Nat
          BY ResamplerAssumption DEF TypeOK, SourceTypes
        <5>2. stalls' \in 0 .. MaxStalls
          BY <4>3, <5>1
        <5>3. source_end' \in BOOLEAN
          <6>1. CASE "source" \in MayFail
            BY <4>3, <6>1, ("source" \in MayFail) = TRUE
          <6>2. CASE "source" \notin MayFail
            BY <4>3, <6>2, ("source" \in MayFail) = FALSE
          <6>3. QED
            BY <6>1, <6>2
        <5>4. QED
          BY <3>1, <4>3, <5>2, <5>3 DEF TypeOK, SourceTypes, BufferTypes
      <4>4. CASE /\ source_end' = TRUE
                 /\ UNCHANGED <<input, position, stalls>>
        BY <3>1, <4>4 DEF TypeOK, SourceTypes, BufferTypes
      <4>5. QED
        BY <3>1, <4>2, <4>3, <4>4 DEF BASS_ChannelGetData
    <3>2. CASE UNCHANGED <<input, source>>
      BY <3>2 DEF TypeOK, BufferTypes
    <3>3. QED
      BY <1>7, <3>1, <3>2 DEF read_input_data
  <2>3. BufferTypes'
    BY <1>7, <2>2 DEF read_input_data, TypeOK, BufferTypes
  <2>4. QED
    BY <1>7, <2>1, <2>2, <2>3 DEF read_input_data, TypeOK
<1>8. CASE read_resampled_data(t)
  <2> DEFINE all == held \o input
             last == Greater(Len(all) - Latency, 0)
  <2>1. pc' \in [Threads -> Counters]
    BY <1>8 DEF read_resampled_data, TypeOK, Goto, Counters, Locked, Populating
  <2>2. \/ /\ resampled' = SubSeq(all, 1, last)
           /\ held' = SubSeq(all, last + 1, Len(all))
           /\ soxr_delay' = Len(all) - last
           /\ input' = <<>>
           /\ soxr_end' = (input = <<>> /\ last = 0)
        \/ UNCHANGED <<resampled, held, soxr_delay, input, soxr_end>>
    BY <1>8 DEF read_resampled_data
  <2>3. all \in Seq(1 .. Frames)
    BY ConcatProperties DEF TypeOK, ConverterTypes, BufferTypes
  <2> HIDE DEF all
  <2>4. Len(all) \in Nat
    BY <2>3, LenProperties
  <2>5. last \in 0 .. Len(all) /\ Len(all) - last \in Nat
    BY <2>4, ResamplerAssumption DEF Greater
  <2> HIDE DEF last
  <2>6. /\ SubSeq(all, 1, last) \in Seq(1 .. Frames)
        /\ SubSeq(all, last + 1, Len(all)) \in Seq(1 .. Frames)
    BY <2>3, <2>5, SplitFrames
  <2>7. <<>> \in Seq(1 .. Frames)
    BY EmptySeq
  <2>8. /\ resampled' \in Seq(1 .. Frames) /\ held' \in Seq(1 .. Frames)
        /\ soxr_delay' \in Nat /\ input' \in Seq(1 .. Frames)
        /\ soxr_end' \in BOOLEAN
    <3>1. CASE UNCHANGED <<resampled, held, soxr_delay, input, soxr_end>>
      BY <3>1 DEF TypeOK, ConverterTypes, BufferTypes
    <3>2. CASE ~ UNCHANGED <<resampled, held, soxr_delay, input, soxr_end>>
      BY <2>2, <2>5, <2>6, <2>7, <3>2
    <3>3. QED
      BY <3>1, <3>2
  <2>9. ConverterTypes' /\ BufferTypes'
    BY <1>8, <2>8 DEF read_resampled_data, TypeOK, ConverterTypes, BufferTypes
  <2>10. QED
    BY <1>8, <2>1, <2>9 DEF read_resampled_data, TypeOK
<1>9. CASE read_playback_data(t)
  <2>1. pc' \in [Threads -> Counters]
    BY <1>9 DEF read_playback_data, TypeOK, Goto, Counters, Locked, Populating
  <2>2. playback \o resampled \in Seq(1 .. Frames) /\ <<>> \in Seq(1 .. Frames)
    BY ConcatProperties, EmptySeq DEF TypeOK, BufferTypes
  <2>3. \/ UNCHANGED <<buffer, input, playback, resampled>>
        \/ /\ playback' = playback \o resampled
           /\ resampled' = <<>>
           /\ UNCHANGED <<buffer, input>>
    BY <1>9 DEF read_playback_data
  <2>4. BufferTypes'
    BY <2>2, <2>3 DEF TypeOK, BufferTypes
  <2>5. QED
    BY <1>9, <2>1, <2>4 DEF read_playback_data, TypeOK
<1>10. CASE Exit(t)
  <2>1. pc' \in [Threads -> Counters]
    BY <1>10 DEF Exit, AfterPopulate, TypeOK, Goto, Threads,
       Counters, Locked, Populating
  <2>2. lock' \in 0 .. 1
    <3>1. lock \in 0 .. 1 /\ lock' = Lesser(lock + 1, 1)
      BY <1>10 DEF Exit, resampler_lock_exit, TypeOK
    <3>2. QED
      BY <3>1 DEF Lesser
  <2>3. QED
    BY <1>10, <2>1, <2>2 DEF Exit, TypeOK
<1>11. QED
  BY <1>1, <1>2, <1>3, <1>4, <1>5, <1>6, <1>7, <1>8, <1>9, <1>10
     DEF resampler_populate

\* The rest of resampler_proc, and the updater's loop, keep the types.
LEMMA ProcKeepsType ==
    ASSUME TypeOK, resampler_proc
    PROVE  TypeOK'
<1> USE UnchangedTypes
<1>1. pc' \in [Threads -> Counters]
  BY DEF resampler_proc, Proc, ProcReady, ProcLoad, ProcRead, ProcEof, ProcEnd,
     TypeOK, Goto, Counters, Locked, Populating, Threads
<1>2. CASE Proc \/ ProcReady \/ ProcEof \/ ProcEnd
  BY <1>1, <1>2 DEF Proc, ProcReady, ProcEof, ProcEnd, TypeOK
<1>3. CASE ProcLoad
  <2>1. ListenerTypes'
    BY <1>3 DEF ProcLoad, TypeOK, ListenerTypes
  <2>2. QED
    BY <1>1, <1>3, <2>1 DEF ProcLoad, TypeOK
<1>4. CASE ProcRead
  <2> DEFINE n == Lesser(Request, Len(playback))
  <2>1. playback \in Seq(1 .. Frames) /\ delivered \in Seq(1 .. Frames)
    BY DEF TypeOK, BufferTypes, ListenerTypes
  <2>2. n \in 0 .. Len(playback)
    BY <2>1, LenProperties, ResamplerAssumption DEF Lesser
  <2>3. \/ UNCHANGED <<playback, delivered, ring>>
        \/ /\ delivered' = delivered \o SubSeq(playback, 1, n)
           /\ playback' = SubSeq(playback, n + 1, Len(playback))
           /\ ring' = "none"
    BY <1>4 DEF ProcRead, listener
  <2> HIDE DEF n
  <2>4. /\ SubSeq(playback, 1, n) \in Seq(1 .. Frames)
        /\ SubSeq(playback, n + 1, Len(playback)) \in Seq(1 .. Frames)
    BY <2>1, <2>2, SplitFrames
  <2>5. delivered \o SubSeq(playback, 1, n) \in Seq(1 .. Frames)
    BY <2>1, <2>4, ConcatProperties
  <2>6. BufferTypes' /\ ListenerTypes'
    BY <1>4, <2>3, <2>4, <2>5 DEF ProcRead, TypeOK, BufferTypes, ListenerTypes
  <2>7. QED
    BY <1>1, <1>4, <2>6 DEF ProcRead, TypeOK
<1>5. QED
  BY <1>2, <1>3, <1>4 DEF resampler_proc

\* The loop of the updater keeps the types.
LEMMA UpdateKeepsType ==
    ASSUME TypeOK, background_update
    PROVE  TypeOK'
<1>1. pc' \in [Threads -> Counters]
  BY DEF background_update, TypeOK, Goto, Counters, Locked, Populating, Threads
<1>2. QED
  BY <1>1, UnchangedTypes DEF background_update, TypeOK

\* The calls of the application keep the types.
LEMMA CallsKeepType ==
    ASSUME TypeOK, AppCalls
    PROVE  TypeOK'
<1> USE UnchangedTypes
<1>1. pc' \in [Threads -> Counters]
  BY DEF AppCalls, BASS_SOX_StreamBuffer, BASS_SOX_StreamBufferClear,
     BASS_SOX_StreamBufferLength, BASS_SOX_ChannelSetAttribute, Enqueue, SetTo, Call,
     resampler_lock_enter, TypeOK, Goto, Counters, Locked, Populating, Setting, Threads
<1>2. calls' \in 0 .. MaxCalls
  <2>1. calls < MaxCalls /\ calls' = calls + 1
    BY DEF AppCalls, BASS_SOX_StreamBuffer, BASS_SOX_StreamBufferClear,
       BASS_SOX_StreamBufferLength, BASS_SOX_ChannelSetAttribute, Enqueue, SetTo, Call
  <2>2. calls \in 0 .. MaxCalls /\ MaxCalls \in Nat
    BY ResamplerAssumption DEF TypeOK, ApiTypes
  <2>3. QED
    BY <2>1, <2>2
<1>3. CASE BASS_SOX_StreamBuffer \/ BASS_SOX_StreamBufferClear
  <2>1. ApiTypes'
    BY <1>2, <1>3 DEF BASS_SOX_StreamBuffer, BASS_SOX_StreamBufferClear, TypeOK, ApiTypes
  <2>2. QED
    BY <1>1, <1>3, <2>1 DEF BASS_SOX_StreamBuffer, BASS_SOX_StreamBufferClear, TypeOK
<1>4. CASE BASS_SOX_StreamBufferLength
  <2>1. ApiTypes'
    BY <1>2, <1>4 DEF BASS_SOX_StreamBufferLength, TypeOK, ApiTypes
  <2>2. lock' \in 0 .. 1
    <3>1. lock \in 0 .. 1
      BY DEF TypeOK
    <3>2. \/ lock' = lock
          \/ lock > 0 /\ lock' = lock - 1
      BY <1>4 DEF BASS_SOX_StreamBufferLength, resampler_lock_enter
    <3>3. QED
      BY <3>1, <3>2
  <2>3. QED
    BY <1>1, <1>4, <2>1, <2>2 DEF BASS_SOX_StreamBufferLength, TypeOK
<1>5. CASE BASS_SOX_ChannelSetAttribute
  <2>1. settings' \in [quality : Qualities, playback_buffer_length : Lengths,
                       background : BOOLEAN, keep_alive : BOOLEAN]
    BY <1>5 DEF BASS_SOX_ChannelSetAttribute, SetTo, TypeOK, ApiTypes
  <2>2. ApiTypes'
    BY <1>2, <1>5, <2>1 DEF BASS_SOX_ChannelSetAttribute, SetTo, TypeOK, ApiTypes
  <2>3. QED
    BY <1>1, <1>5, <2>2 DEF BASS_SOX_ChannelSetAttribute, SetTo, TypeOK
<1>6. CASE Enqueue
  <2>1. ApiTypes'
    BY <1>2, <1>6 DEF Enqueue, TypeOK, ApiTypes
  <2>2. SourceTypes'
    <3>1. /\ position \in 0 .. supply /\ supply \in 0 .. Frames
          /\ supply < Frames /\ supply' = supply + 1 /\ position' = position
          /\ Frames \in Nat
      BY <1>6, ResamplerAssumption DEF Enqueue, TypeOK, SourceTypes
    <3>2. position' \in 0 .. supply' /\ supply' \in 0 .. Frames
      BY <3>1
    <3>3. QED
      BY <1>6, <3>2 DEF Enqueue, TypeOK, SourceTypes
  <2>3. QED
    BY <1>1, <1>6, <2>1, <2>2 DEF Enqueue, TypeOK
<1>7. QED
  BY <1>3, <1>4, <1>5, <1>6 DEF AppCalls

\* What a call goes on to do keeps the types.
LEMMA StepsKeepType ==
    ASSUME TypeOK, AppSteps
    PROVE  TypeOK'
<1> USE UnchangedTypes
<1>1. pc' \in [Threads -> Counters]
  BY DEF AppSteps, ClearEnter, resampler_buffer_clear, ClearExit, LengthExit,
     resampler_updater_start, resampler_updater_stop, UpdaterJoined, RequestReload,
     resampler_lock_enter, TypeOK, Goto, Counters, Locked, Populating, Setting, Threads
<1>2. CASE ClearEnter
  <2>1. lock' \in 0 .. 1
    <3>1. lock \in 0 .. 1
      BY DEF TypeOK
    <3>2. \/ lock' = lock
          \/ lock > 0 /\ lock' = lock - 1
      BY <1>2 DEF ClearEnter, resampler_lock_enter
    <3>3. QED
      BY <3>1, <3>2
  <2>2. QED
    BY <1>1, <1>2, <2>1 DEF ClearEnter, TypeOK
<1>3. CASE resampler_buffer_clear
  <2>1. /\ input' \in {input, <<>>} /\ resampled' \in {resampled, <<>>}
        /\ playback' \in {playback, <<>>}
    BY <1>3 DEF resampler_buffer_clear
  <2>2. BufferTypes'
    BY <1>3, <2>1, EmptySeq DEF resampler_buffer_clear, TypeOK, BufferTypes
  <2>3. FramesOf(playback \o resampled \o input) \subseteq 1 .. Frames
    <3>1. playback \o resampled \o input \in Seq(1 .. Frames)
      BY ConcatProperties DEF TypeOK, BufferTypes
    <3>2. \A i \in DOMAIN (playback \o resampled \o input) :
              (playback \o resampled \o input)[i] \in 1 .. Frames
      BY <3>1, ElementOfSeq, LenProperties
    <3>3. QED
      BY <3>2 DEF FramesOf
  <2>4. lost' \subseteq 1 .. Frames
    BY <1>3, <2>3 DEF resampler_buffer_clear, TypeOK
  <2>5. QED
    BY <1>1, <1>3, <2>2, <2>4 DEF resampler_buffer_clear, TypeOK
<1>4. CASE ClearExit \/ LengthExit
  <2>1. lock' \in 0 .. 1
    <3>1. lock \in 0 .. 1 /\ lock' \in {lock, Lesser(lock + 1, 1)}
      BY <1>4 DEF ClearExit, LengthExit, resampler_lock_exit, TypeOK
    <3>2. QED
      BY <3>1 DEF Lesser
  <2>2. QED
    BY <1>1, <1>4, <2>1 DEF ClearExit, LengthExit, TypeOK
<1>5. CASE resampler_updater_start \/ resampler_updater_stop \/ UpdaterJoined
  <2>1. ApiTypes'
    BY <1>5 DEF resampler_updater_start, resampler_updater_stop, UpdaterJoined,
       TypeOK, ApiTypes
  <2>2. QED
    BY <1>1, <1>5, <2>1 DEF resampler_updater_start, resampler_updater_stop,
       UpdaterJoined, TypeOK
<1>6. CASE RequestReload
  BY <1>1, <1>6 DEF RequestReload, TypeOK
<1>7. QED
  BY <1>2, <1>3, <1>4, <1>5, <1>6 DEF AppSteps

\* No step of any thread breaks a type.
LEMMA NextKeepsType == TypeOK /\ [Next]_vars => TypeOK'
<1> SUFFICES ASSUME TypeOK, [Next]_vars
             PROVE  TypeOK'
  OBVIOUS
<1>1. CASE \/ resampler_populate("pull") \/ resampler_populate("updater")
           \/ resampler_populate("app")
  BY <1>1, PopulateKeepsType DEF Threads
<1>2. CASE resampler_proc \/ background_update \/ AppCalls \/ AppSteps
  BY <1>2, ProcKeepsType, UpdateKeepsType, CallsKeepType, StepsKeepType
<1>3. CASE UNCHANGED vars
  BY <1>3, UnchangedTypes DEF vars, TypeOK
<1>4. QED
  BY <1>1, <1>2, <1>3 DEF Next

\* calloc and resampler_settings_create give every variable a value of its type.
LEMMA InitHasType == Init => TypeOK
<1> SUFFICES ASSUME Init
             PROVE  TypeOK
  OBVIOUS
<1>1. lock \in 0 .. 1 /\ pc \in [Threads -> Counters]
  BY DEF Init, Counters, Locked, Populating
<1>2. ConverterTypes /\ BufferTypes
  BY EmptySeq DEF Init, ConverterTypes, BufferTypes
<1>3. SourceTypes
  <2>1. /\ FirstFrames \in Nat /\ FirstFrames \in 0 .. Frames
        /\ MaxStalls \in Nat
    BY ResamplerAssumption
  <2>2. 0 \in 0 .. FirstFrames /\ 0 \in 0 .. MaxStalls
    BY <2>1
  <2>3. position = 0 /\ supply = FirstFrames /\ stalls = 0 /\ source_end = FALSE
    BY DEF Init
  <2>4. QED
    BY <2>1, <2>2, <2>3 DEF SourceTypes
<1>4. ApiTypes
  <2>1. MaxCalls \in Nat
    BY ResamplerAssumption
  <2>2. 0 \in 0 .. MaxCalls
    BY <2>1
  <2>3. DefaultQuality \in Qualities /\ DefaultLength \in Lengths
    BY ResamplerAssumption
  <2>4. settings \in [quality : Qualities, playback_buffer_length : Lengths,
                      background : BOOLEAN, keep_alive : BOOLEAN]
    BY <2>3 DEF Init
  <2>5. calls = 0 /\ shutdown = FALSE /\ thread = FALSE
    BY DEF Init
  <2>6. QED
    BY <2>2, <2>4, <2>5 DEF ApiTypes
<1>5. ListenerTypes /\ lost \subseteq 1 .. Frames
  BY EmptySeq DEF Init, ListenerTypes
<1>6. QED
  BY <1>1, <1>2, <1>3, <1>4, <1>5 DEF Init, TypeOK

\* The variables of one resampler keep their types, for every number of frames,
\* every size of the buffers and every set of calls of the application.
THEOREM ResamplerTypeCorrect == Spec => []TypeOK
BY InitHasType, NextKeepsType, PTL DEF Spec

(***************************************************************************)
(* The semaphore, the reload and the updater.                              *)
(***************************************************************************)
\* A step of resampler_populate moves its own thread and no other, from a step
\* of it to another or to where its caller goes on; it changes no setting.
LEMMA PopulateMoves ==
    ASSUME TypeOK, NEW t \in Threads, resampler_populate(t)
    PROVE  /\ \A u \in Threads \ {t} : pc'[u] = pc[u]
           /\ pc[t] \in Populating \union {"enter"}
           /\ pc'[t] \in Populating \union {"enter", "idle", "ready", "loop"}
           /\ t # "updater" => pc'[t] # "loop"
           /\ UNCHANGED <<settings, thread, shutdown>>
<1> USE DEF TypeOK, Goto, At, Populating, Threads
<1>1. CASE Enter(t)
  BY <1>1 DEF Enter, resampler_lock_enter, AfterPopulate, api
<1>2. CASE ensure_resampler(t)
  BY <1>2 DEF ensure_resampler, api
<1>3. CASE Release(t)
  BY <1>3 DEF Release, api
<1>4. CASE Reloaded(t)
  BY <1>4 DEF Reloaded, api
<1>5. CASE resampler_soxr_create(t)
  BY <1>5 DEF resampler_soxr_create, api
<1>6. CASE resampler_buffer_create(t)
  BY <1>6 DEF resampler_buffer_create, api
<1>7. CASE read_input_data(t)
  BY <1>7 DEF read_input_data, api
<1>8. CASE read_resampled_data(t)
  BY <1>8 DEF read_resampled_data, api
<1>9. CASE read_playback_data(t)
  BY <1>9 DEF read_playback_data, api
<1>10. CASE Exit(t)
  BY <1>10 DEF Exit, AfterPopulate, api
<1>11. QED
  BY <1>1, <1>2, <1>3, <1>4, <1>5, <1>6, <1>7, <1>8, <1>9, <1>10
     DEF resampler_populate

\* A step of thread t that takes the semaphore as t goes in, gives it back as
\* t comes out, or does neither, leaves it with one owner or none.
LEMMA OneOwner ==
    ASSUME TypeOK, LockHeldByOne, NEW t \in Threads,
           \A u \in Threads \ {t} : pc'[u] \in Locked <=> pc[u] \in Locked,
           \/ /\ pc'[t] \in Locked <=> pc[t] \in Locked
              /\ lock' = lock
           \/ /\ lock > 0 /\ lock' = lock - 1
              /\ pc'[t] \in Locked
           \/ /\ pc[t] \in Locked /\ pc'[t] \notin Locked
              /\ lock' = Lesser(lock + 1, 1)
    PROVE  LockHeldByOne'
<1>1. CASE /\ pc'[t] \in Locked <=> pc[t] \in Locked
           /\ lock' = lock
  BY <1>1 DEF LockHeldByOne
<1>2. CASE lock > 0 /\ lock' = lock - 1 /\ pc'[t] \in Locked
  <2>1. lock = 1 /\ lock' = 0
    BY <1>2 DEF TypeOK
  <2>2. \A u \in Threads : pc[u] \notin Locked
    BY <2>1 DEF LockHeldByOne
  <2>3. \A u \in Threads \ {t} : pc'[u] \notin Locked
    BY <2>2
  <2>4. QED
    BY <1>2, <2>1, <2>3 DEF LockHeldByOne
<1>3. CASE /\ pc[t] \in Locked /\ pc'[t] \notin Locked
           /\ lock' = Lesser(lock + 1, 1)
  <2>1. lock = 0
    BY <1>3 DEF LockHeldByOne
  <2>2. lock' = 1
    BY <1>3, <2>1 DEF Lesser
  <2>3. \A u \in Threads : pc'[u] \notin Locked
    BY <1>3 DEF LockHeldByOne
  <2>4. QED
    BY <2>2, <2>3 DEF LockHeldByOne
<1>4. QED
  BY <1>1, <1>2, <1>3

\* resampler_populate leaves the semaphore with one owner or none: every way
\* out of it goes through resampler_lock_exit.
LEMMA PopulateKeepsLock ==
    ASSUME TypeOK, LockHeldByOne, NEW t \in Threads, resampler_populate(t)
    PROVE  LockHeldByOne'
<1>1. \A u \in Threads \ {t} : pc'[u] \in Locked <=> pc[u] \in Locked
  BY PopulateMoves
<1>2. CASE Enter(t)
  <2>1. \/ lock > 0 /\ lock' = lock - 1 /\ pc'[t] = "ensure"
        \/ lock' = lock /\ pc'[t] = AfterPopulate(t, FALSE)
    BY <1>2 DEF Enter, resampler_lock_enter, Goto, TypeOK
  <2>2. pc[t] = "enter" /\ AfterPopulate(t, FALSE) \in {"ready", "loop", "idle"}
    BY <1>2 DEF Enter, At, AfterPopulate, Threads
  <2>3. QED
    BY <1>1, <2>1, <2>2, OneOwner DEF Locked, Populating
<1>3. CASE Exit(t)
  <2>1. /\ pc[t] \in {"succeeded", "nothing", "failed"}
        /\ lock' = Lesser(lock + 1, 1)
        /\ pc'[t] \in {"ready", "loop", "idle", "enter"}
    BY <1>3 DEF Exit, resampler_lock_exit, AfterPopulate, Goto, TypeOK, Threads
  <2>2. QED
    BY <1>1, <2>1, OneOwner DEF Locked, Populating
<1>4. CASE \/ ensure_resampler(t) \/ Release(t) \/ Reloaded(t)
           \/ resampler_soxr_create(t) \/ resampler_buffer_create(t)
           \/ read_input_data(t) \/ read_resampled_data(t) \/ read_playback_data(t)
  <2>1. pc[t] \in Locked /\ pc'[t] \in Locked /\ lock' = lock
    BY <1>4 DEF ensure_resampler, Release, Reloaded, resampler_soxr_create,
       resampler_buffer_create, read_input_data, read_resampled_data,
       read_playback_data, Goto, At, TypeOK, Locked, Populating
  <2>2. QED
    BY <1>1, <2>1, OneOwner
<1>5. QED
  BY <1>2, <1>3, <1>4 DEF resampler_populate

\* Neither do the other steps of the three threads; that the application starts
\* an updater moves two of them, and UpdaterOwned says that the other was off.
LEMMA OthersKeepLock ==
    ASSUME TypeOK, LockHeldByOne, UpdaterOwned,
           resampler_proc \/ background_update \/ AppCalls \/ AppSteps
    PROVE  LockHeldByOne'
<1> USE DEF Goto, At, TypeOK, Threads
<1>1. CASE resampler_proc
  <2>1. /\ pc["pull"] \notin Locked /\ pc'["pull"] \notin Locked /\ lock' = lock
        /\ \A u \in Threads \ {"pull"} : pc'[u] = pc[u]
    BY <1>1 DEF resampler_proc, Proc, ProcReady, ProcLoad, ProcRead, ProcEof, ProcEnd,
       Locked, Populating
  <2>2. QED
    BY <2>1, OneOwner
<1>2. CASE background_update
  <2>1. /\ pc["updater"] \notin Locked /\ pc'["updater"] \notin Locked /\ lock' = lock
        /\ \A u \in Threads \ {"updater"} : pc'[u] = pc[u]
    BY <1>2 DEF background_update, Locked, Populating
  <2>2. QED
    BY <2>1, OneOwner
<1>3. CASE \/ BASS_SOX_StreamBuffer \/ BASS_SOX_StreamBufferClear
           \/ BASS_SOX_ChannelSetAttribute \/ Enqueue
  <2>1. /\ pc["app"] \notin Locked /\ pc'["app"] \notin Locked /\ lock' = lock
        /\ \A u \in Threads \ {"app"} : pc'[u] = pc[u]
    BY <1>3 DEF BASS_SOX_StreamBuffer, BASS_SOX_StreamBufferClear,
       BASS_SOX_ChannelSetAttribute, Enqueue, SetTo, Call, Locked, Populating
  <2>2. QED
    BY <2>1, OneOwner
<1>4. CASE BASS_SOX_StreamBufferLength \/ ClearEnter
  <2>1. /\ pc["app"] \notin Locked
        /\ \A u \in Threads \ {"app"} : pc'[u] = pc[u]
        /\ \/ lock > 0 /\ lock' = lock - 1 /\ pc'["app"] \in Locked
           \/ lock' = lock /\ pc'["app"] \notin Locked
    BY <1>4 DEF BASS_SOX_StreamBufferLength, ClearEnter, resampler_lock_enter,
       Locked, Populating
  <2>2. QED
    BY <2>1, OneOwner
<1>5. CASE resampler_buffer_clear
  <2>1. /\ pc["app"] \in Locked /\ pc'["app"] \in Locked /\ lock' = lock
        /\ \A u \in Threads \ {"app"} : pc'[u] = pc[u]
    BY <1>5 DEF resampler_buffer_clear, Locked, Populating
  <2>2. QED
    BY <2>1, OneOwner
<1>6. CASE ClearExit \/ LengthExit
  <2>1. /\ pc["app"] \in Locked
        /\ \/ pc'["app"] \in Locked /\ lock' = lock
           \/ pc'["app"] \notin Locked /\ lock' = Lesser(lock + 1, 1)
        /\ \A u \in Threads \ {"app"} : pc'[u] = pc[u]
    BY <1>6 DEF ClearExit, LengthExit, resampler_lock_exit, Locked, Populating
  <2>2. QED
    BY <2>1, OneOwner
<1>7. CASE \/ resampler_updater_start \/ resampler_updater_stop
           \/ UpdaterJoined \/ RequestReload
  <2>1. /\ pc["app"] \notin Locked /\ pc'["app"] \notin Locked /\ lock' = lock
        /\ pc'["pull"] = pc["pull"]
        /\ \/ pc'["updater"] = pc["updater"]
           \/ ~ thread /\ pc'["updater"] = "loop"
    BY <1>7 DEF resampler_updater_start, resampler_updater_stop, UpdaterJoined,
       RequestReload, Locked, Populating
  <2>2. pc'["updater"] \in Locked <=> pc["updater"] \in Locked
    BY <2>1 DEF UpdaterOwned, Locked, Populating
  <2>3. QED
    BY <2>1, <2>2, OneOwner
<1>8. QED
  BY <1>1, <1>2, <1>3, <1>4, <1>5, <1>6, <1>7 DEF AppCalls, AppSteps

\* What ensure_resampler leaves at each of its steps is left there until its
\* next step: nobody else creates or frees a converter meanwhile.
LEMMA PopulateKeepsCreated ==
    ASSUME TypeOK, LockHeldByOne, Created, NEW t \in Threads,
           resampler_populate(t)
    PROVE  Created'
<1>1. \A u \in Threads \ {t} : pc'[u] = pc[u]
  BY PopulateMoves
<1>2. pc[t] \in Locked => \A u \in Threads \ {t} :
          pc[u] \notin {"reloaded", "create", "allocate"}
  BY DEF LockHeldByOne, Locked, Populating
<1>3. CASE Enter(t) \/ Exit(t)
  <2>1. pc'[t] \in {"ensure", "ready", "loop", "idle", "enter"}
    BY <1>3 DEF Enter, Exit, resampler_lock_enter, AfterPopulate, Goto, TypeOK, Threads
  <2>2. UNCHANGED <<soxr, buffer>>
    BY <1>3 DEF Enter, Exit, converter, buffers
  <2>3. QED
    BY <1>1, <2>1, <2>2 DEF Created
<1>4. CASE ensure_resampler(t)
  <2>1. /\ pc'[t] \in {"release", "create", "input"}
        /\ pc'[t] = "create" => soxr = Null
        /\ UNCHANGED <<soxr, buffer>>
    BY <1>4 DEF ensure_resampler, converter, buffers, Goto, TypeOK
  <2>2. QED
    BY <1>1, <2>1 DEF Created
<1>5. CASE Release(t)
  <2>1. pc[t] \in Locked /\ pc'[t] = "reloaded" /\ soxr' = Null /\ buffer' = Null
    BY <1>5 DEF Release, At, Goto, TypeOK, Locked, Populating
  <2>2. QED
    BY <1>1, <1>2, <2>1 DEF Created
<1>6. CASE Reloaded(t)
  <2>1. /\ pc[t] = "reloaded" /\ pc'[t] = "create"
        /\ UNCHANGED <<soxr, buffer>>
    BY <1>6 DEF Reloaded, converter, buffers, At, Goto, TypeOK
  <2>2. QED
    BY <1>1, <2>1 DEF Created
<1>7. CASE resampler_soxr_create(t)
  <2>1. /\ pc[t] = "create" /\ pc[t] \in Locked /\ buffer' = buffer
        /\ \/ soxr' = settings.quality /\ pc'[t] = "allocate"
           \/ soxr' = soxr /\ pc'[t] = "failed"
    BY <1>7 DEF resampler_soxr_create, buffers, At, Goto, TypeOK, Locked, Populating
  <2>2. soxr = Null /\ buffer = Null
    BY <2>1 DEF Created
  <2>3. settings.quality # Null
    BY ResamplerAssumption DEF TypeOK, ApiTypes
  <2>4. QED
    BY <1>1, <1>2, <2>1, <2>2, <2>3 DEF Created
<1>8. CASE resampler_buffer_create(t)
  <2>1. /\ pc[t] = "allocate" /\ pc[t] \in Locked /\ soxr' = soxr
        /\ pc'[t] \in {"input", "failed"}
    BY <1>8 DEF resampler_buffer_create, converter, At, Goto, TypeOK, Locked, Populating
  <2>2. soxr # Null
    BY <2>1 DEF Created
  <2>3. QED
    BY <1>1, <1>2, <2>1, <2>2 DEF Created
<1>9. CASE read_input_data(t) \/ read_resampled_data(t) \/ read_playback_data(t)
  <2>1. /\ pc'[t] \in {"crashed_inside", "process", "write", "nothing", "failed", "succeeded"}
        /\ UNCHANGED <<soxr, buffer>>
    BY <1>9 DEF read_input_data, read_resampled_data, read_playback_data,
       converter, Goto, TypeOK
  <2>2. QED
    BY <1>1, <2>1 DEF Created
<1>10. QED
  BY <1>3, <1>4, <1>5, <1>6, <1>7, <1>8, <1>9 DEF resampler_populate

\* No step outside of resampler_populate touches the converter or the size of
\* the playback buffer, or enters the middle of ensure_resampler.
LEMMA OthersKeepCreated ==
    ASSUME TypeOK, Created,
           resampler_proc \/ background_update \/ AppCalls \/ AppSteps
    PROVE  Created'
<1>1. UNCHANGED <<soxr, buffer>>
  BY DEF resampler_proc, Proc, ProcReady, ProcLoad, ProcRead, ProcEof, ProcEnd,
     background_update, AppCalls, AppSteps, BASS_SOX_StreamBuffer,
     BASS_SOX_StreamBufferClear, BASS_SOX_ChannelSetAttribute, Enqueue, SetTo,
     BASS_SOX_StreamBufferLength, ClearEnter, resampler_buffer_clear, ClearExit,
     LengthExit, resampler_updater_start, resampler_updater_stop, UpdaterJoined,
     RequestReload, converter, buffers
<1>2. \A u \in Threads : \/ pc'[u] = pc[u]
                         \/ pc'[u] \notin {"reloaded", "create", "allocate"}
  BY DEF resampler_proc, Proc, ProcReady, ProcLoad, ProcRead, ProcEof, ProcEnd,
     background_update, AppCalls, AppSteps, BASS_SOX_StreamBuffer,
     BASS_SOX_StreamBufferClear, BASS_SOX_ChannelSetAttribute, Enqueue, SetTo, Call,
     BASS_SOX_StreamBufferLength, ClearEnter, resampler_buffer_clear, ClearExit,
     LengthExit, resampler_updater_start, resampler_updater_stop, UpdaterJoined,
     RequestReload, resampler_lock_enter, Goto, TypeOK, Threads
<1>3. QED
  BY <1>1, <1>2 DEF Created

\* The reload flag is lowered only where Created says that nothing is left of
\* the old settings, and what is created then is made with the new ones.
LEMMA PopulateKeepsSettings ==
    ASSUME TypeOK, Created, SettingsApplied, NEW t \in Threads,
           resampler_populate(t)
    PROVE  SettingsApplied'
<1>1. settings' = settings
  BY PopulateMoves
<1>2. playback_length' = playback_length
  BY <1>1 DEF playback_length
<1>3. pc'["app"] \notin Setting => pc["app"] \notin Setting
  BY PopulateMoves DEF Setting, Populating, Threads
<1>4. CASE Release(t)
  <2>1. soxr' = Null /\ buffer' = Null
    BY <1>4 DEF Release
  <2>2. QED
    BY <2>1 DEF SettingsApplied
<1>5. CASE Reloaded(t)
  <2>1. soxr = Null /\ buffer = Null
    BY <1>5 DEF Reloaded, At, Created
  <2>2. soxr' = soxr /\ buffer' = buffer
    BY <1>5 DEF Reloaded, converter, buffers
  <2>3. QED
    BY <2>1, <2>2 DEF SettingsApplied
<1>6. CASE resampler_soxr_create(t)
  <2>1. /\ soxr' \in {soxr, settings.quality}
        /\ UNCHANGED <<reload, buffer>>
    BY <1>6 DEF resampler_soxr_create, buffers
  <2>2. QED
    BY <1>1, <1>2, <1>3, <2>1 DEF SettingsApplied
<1>7. CASE resampler_buffer_create(t)
  <2>1. /\ buffer' \in {buffer, NoRing, playback_length}
        /\ UNCHANGED <<reload, soxr>>
    BY <1>7 DEF resampler_buffer_create, converter
  <2>2. QED
    BY <1>1, <1>2, <1>3, <2>1 DEF SettingsApplied
<1>8. CASE \/ Enter(t) \/ ensure_resampler(t) \/ read_input_data(t)
           \/ read_resampled_data(t) \/ read_playback_data(t) \/ Exit(t)
  <2>1. UNCHANGED <<reload, soxr, buffer>>
    BY <1>8 DEF Enter, ensure_resampler, read_input_data, read_resampled_data,
       read_playback_data, Exit, converter, buffers
  <2>2. QED
    BY <1>1, <1>2, <1>3, <2>1 DEF SettingsApplied
<1>9. QED
  BY <1>4, <1>5, <1>6, <1>7, <1>8 DEF resampler_populate

\* Whoever changes a setting asks for a reload before anything else.
LEMMA OthersKeepSettings ==
    ASSUME TypeOK, SettingsApplied,
           resampler_proc \/ background_update \/ AppCalls \/ AppSteps
    PROVE  SettingsApplied'
<1> USE DEF converter, buffers, api, Goto, At, Threads, Setting
<1>1. CASE BASS_SOX_ChannelSetAttribute
  <2>1. pc'["app"] \in Setting
    BY <1>1 DEF BASS_SOX_ChannelSetAttribute, SetTo, Call, TypeOK
  <2>2. QED
    BY <2>1 DEF SettingsApplied
<1>2. CASE RequestReload
  BY <1>2 DEF RequestReload, SettingsApplied
<1>3. CASE resampler_updater_start \/ resampler_updater_stop \/ UpdaterJoined
  <2>1. pc'["app"] \in Setting
    BY <1>3 DEF resampler_updater_start, resampler_updater_stop, UpdaterJoined, TypeOK
  <2>2. QED
    BY <2>1 DEF SettingsApplied
<1>4. CASE \/ resampler_proc \/ background_update
           \/ BASS_SOX_StreamBuffer \/ BASS_SOX_StreamBufferClear
           \/ BASS_SOX_StreamBufferLength \/ Enqueue \/ ClearEnter
           \/ resampler_buffer_clear \/ ClearExit \/ LengthExit
  <2>1. UNCHANGED <<reload, soxr, buffer, settings>>
    BY <1>4 DEF resampler_proc, Proc, ProcReady, ProcLoad, ProcRead, ProcEof,
       ProcEnd, background_update, BASS_SOX_StreamBuffer, BASS_SOX_StreamBufferClear,
       BASS_SOX_StreamBufferLength, Enqueue, ClearEnter, resampler_buffer_clear,
       ClearExit, LengthExit
  <2>2. pc'["app"] \notin Setting => pc["app"] \notin Setting
    BY <1>4 DEF resampler_proc, Proc, ProcReady, ProcLoad, ProcRead, ProcEof,
       ProcEnd, background_update, BASS_SOX_StreamBuffer, BASS_SOX_StreamBufferClear,
       BASS_SOX_StreamBufferLength, Enqueue, Call, ClearEnter, resampler_buffer_clear,
       ClearExit, LengthExit, TypeOK
  <2>3. playback_length' = playback_length
    BY <2>1 DEF playback_length
  <2>4. QED
    BY <2>1, <2>2, <2>3 DEF SettingsApplied
<1>5. QED
  BY <1>1, <1>2, <1>3, <1>4 DEF AppCalls, AppSteps

\* Only the thread that stops the updater drops its handle, once it is off.
LEMMA NextKeepsUpdater == TypeOK /\ UpdaterOwned /\ [Next]_vars => UpdaterOwned'
<1> SUFFICES ASSUME TypeOK, UpdaterOwned, [Next]_vars
             PROVE  UpdaterOwned'
  OBVIOUS
<1>1. ASSUME NEW t \in Threads, resampler_populate(t)
      PROVE  UpdaterOwned'
  <2>1. /\ \A u \in Threads \ {t} : pc'[u] = pc[u]
        /\ pc[t] \notin {"off", "join"} /\ pc'[t] \notin {"off", "join"}
        /\ UNCHANGED <<thread, shutdown>>
    BY <1>1, PopulateMoves DEF Populating
  <2>2. QED
    BY <2>1 DEF UpdaterOwned, Threads
<1>2. CASE resampler_proc
  BY <1>2 DEF resampler_proc, Proc, ProcReady, ProcLoad, ProcRead, ProcEof, ProcEnd,
     UpdaterOwned, TypeOK, Goto, Threads, api
<1>3. CASE background_update
  BY <1>3 DEF background_update, UpdaterOwned, TypeOK, Goto, At, Threads, api
<1>4. CASE AppCalls
  BY <1>4 DEF AppCalls, BASS_SOX_StreamBuffer, BASS_SOX_StreamBufferClear,
     BASS_SOX_ChannelSetAttribute, BASS_SOX_StreamBufferLength, Enqueue, SetTo, Call,
     resampler_lock_enter, UpdaterOwned, TypeOK, Goto, At, Threads
<1>5. CASE AppSteps
  <2>1. CASE ClearEnter \/ resampler_buffer_clear \/ ClearExit \/ LengthExit
             \/ RequestReload
    BY <2>1 DEF ClearEnter, resampler_buffer_clear, ClearExit, LengthExit,
       RequestReload, resampler_lock_enter, UpdaterOwned, TypeOK, Goto, At, Threads, api
  <2>2. CASE resampler_updater_start
    BY <2>2 DEF resampler_updater_start, UpdaterOwned, TypeOK, Goto, At, Threads
  <2>3. CASE resampler_updater_stop \/ UpdaterJoined
    BY <2>3 DEF resampler_updater_stop, UpdaterJoined, UpdaterOwned, TypeOK, Goto,
       At, Threads
  <2>4. QED
    BY <1>5, <2>1, <2>2, <2>3 DEF AppSteps
<1>6. CASE UNCHANGED vars
  BY <1>6 DEF vars, api, UpdaterOwned
<1>7. QED
  BY <1>1, <1>2, <1>3, <1>4, <1>5, <1>6 DEF Next, Threads

\* The invariant holds of a new resampler and every step keeps it.
LEMMA InvariantInductive ==
    /\ Init => ResamplerInv
    /\ ResamplerInv /\ [Next]_vars => ResamplerInv'
<1>1. Init => ResamplerInv
  <2> SUFFICES ASSUME Init
               PROVE  ResamplerInv
    OBVIOUS
  <2>1. TypeOK
    BY InitHasType
  <2>2. \A t \in Threads : pc[t] \in {"off", "idle"}
    BY DEF Init
  <2>3. LockHeldByOne
    BY <2>2 DEF Init, LockHeldByOne, Locked, Populating
  <2>4. Created /\ SettingsApplied
    BY <2>2 DEF Init, Created, SettingsApplied
  <2>5. UpdaterOwned
    BY DEF Init, UpdaterOwned, Threads
  <2>6. QED
    BY <2>1, <2>3, <2>4, <2>5 DEF ResamplerInv
<1>2. ResamplerInv /\ [Next]_vars => ResamplerInv'
  <2> SUFFICES ASSUME ResamplerInv, [Next]_vars
               PROVE  ResamplerInv'
    OBVIOUS
  <2>1. TypeOK /\ LockHeldByOne /\ Created /\ SettingsApplied /\ UpdaterOwned
    BY DEF ResamplerInv
  <2>2. TypeOK' /\ UpdaterOwned'
    BY <2>1, NextKeepsType, NextKeepsUpdater
  <2>3. CASE \E t \in Threads : resampler_populate(t)
    BY <2>1, <2>2, <2>3, PopulateKeepsLock, PopulateKeepsCreated,
       PopulateKeepsSettings DEF ResamplerInv
  <2>4. CASE resampler_proc \/ background_update \/ AppCalls \/ AppSteps
    BY <2>1, <2>2, <2>4, OthersKeepLock, OthersKeepCreated, OthersKeepSettings
       DEF ResamplerInv
  <2>5. CASE UNCHANGED vars
    <3>1. UNCHANGED <<lock, pc, reload, soxr, buffer, settings>>
      BY <2>5 DEF vars, converter, buffers, api
    <3>2. playback_length' = playback_length
      BY <3>1 DEF playback_length
    <3>3. LockHeldByOne' /\ Created' /\ SettingsApplied'
      BY <2>1, <3>1, <3>2 DEF LockHeldByOne, Created, SettingsApplied
    <3>4. QED
      BY <2>2, <3>3 DEF ResamplerInv
  <2>6. QED
    BY <2>3, <2>4, <2>5 DEF Next, Threads
<1>3. QED
  BY <1>1, <1>2

\* The invariant that the next three theorems are parts of.
THEOREM ResamplerInvariant == Spec => []ResamplerInv
BY InvariantInductive, PTL DEF Spec

\* The semaphore never has two owners and is never leaked, however calls,
\* reloads, failures and refusals of the three threads are interleaved.
THEOREM ResamplerLockHeldByOne == Spec => []LockHeldByOne
<1>1. ResamplerInv => LockHeldByOne
  BY DEF ResamplerInv
<1>2. QED
  BY <1>1, ResamplerInvariant, PTL

\* A setting written without the semaphore, at any step of another thread's
\* reload, is in use or due to be: the converter and the playback buffer that
\* were made with an older value are about to be replaced.
THEOREM ResamplerSettingsApplied == Spec => []SettingsApplied
<1>1. ResamplerInv => SettingsApplied
  BY DEF ResamplerInv
<1>2. QED
  BY <1>1, ResamplerInvariant, PTL

\* There is never a second updater, and none is left running or told to stop
\* without being waited for.
THEOREM ResamplerUpdaterOwned == Spec => []UpdaterOwned
<1>1. ResamplerInv => UpdaterOwned
  BY DEF ResamplerInv
<1>2. QED
  BY <1>1, ResamplerInvariant, PTL
=============================================================================
