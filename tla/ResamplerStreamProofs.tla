----------------------- MODULE ResamplerStreamProofs -----------------------
(***************************************************************************)
(* The resampler implements the stream of PlaybackStream, for every number *)
(* of frames, every length of its buffers, every set of calls and whatever *)
(* fails; so it plays every frame once and in order.                       *)
(*                                                                         *)
(* What is proved of the stream is cited with the pipeline of the          *)
(* resampler in the place of the stream's queue.                           *)
(*                                                                         *)
(* And what the application is told is true: the length that is reported,  *)
(* whichever threads convert, and the end of the stream, when only the     *)
(* thread of BASS converts.  Then that thread does not crash either.  Each *)
(* of these theorems names the failures that it excludes: with any of them *)
(* the code does otherwise.                                                *)
(***************************************************************************)
EXTENDS ResamplerProofs

Streamed == INSTANCE PlaybackStreamProofs
            WITH queue <- Pipeline, played <- delivered, dropped <- lost

\* soxr_process overwrites the resampler buffer: nothing may be left there.
NothingOverwritten ==
    \A t \in Threads : pc[t] = "process" => resampled = <<>>

StreamInv == ResamplerInv /\ NothingOverwritten

(***************************************************************************)
(* How the parts of the pipeline hang together.                            *)
(***************************************************************************)
\* Where a sequence is split into two does not matter.  (The equation has a name
\* so that the provers do not go on regrouping.)
Regroup(s, t, u) == (s \o t) \o u = s \o (t \o u)

\* Sequences can be regrouped.
LEMMA Regrouped == \A S : \A s, t, u \in Seq(S) : Regroup(s, t, u)
<1> TAKE S
<1> SUFFICES ASSUME NEW s \in Seq(S), NEW t \in Seq(S), NEW u \in Seq(S)
             PROVE  (s \o t) \o u = s \o (t \o u)
  BY DEF Regroup
<1> QED
  BY Streamed!Reassociate

\* The four parts of the pipeline are sequences of frames, and so is the whole.
LEMMA PipelineParts ==
    ASSUME TypeOK
    PROVE  /\ playback \in Seq(1 .. Frames) /\ resampled \in Seq(1 .. Frames)
           /\ held \in Seq(1 .. Frames) /\ input \in Seq(1 .. Frames)
           /\ delivered \in Seq(1 .. Frames)
           /\ Pipeline \in Seq(1 .. Frames)
BY ConcatProperties
   DEF TypeOK, ConverterTypes, BufferTypes, ListenerTypes, Pipeline

\* What is taken from the front of the first of four sequences is taken from
\* the front of all of them.
FrontOfAll(p, r, h, i, n) ==
    LET all == p \o r \o h \o i
    IN  /\ n \in 1 .. Len(all)
        /\ SubSeq(all, 1, n) = SubSeq(p, 1, n)
        /\ SubSeq(all, n + 1, Len(all)) = SubSeq(p, n + 1, Len(p)) \o r \o h \o i

\* That holds of any four sequences.
LEMMA TakenFromTheFront ==
    ASSUME NEW S, NEW p \in Seq(S), NEW r \in Seq(S), NEW h \in Seq(S),
           NEW i \in Seq(S), NEW n \in 1 .. Len(p)
    PROVE  FrontOfAll(p, r, h, i, n)
<1> DEFINE front == SubSeq(p, 1, n)
           rest == SubSeq(p, n + 1, Len(p))
           all == p \o r \o h \o i
           back == rest \o r \o h \o i
<1>1. Len(p) \in Nat /\ n \in Nat /\ 1 <= n /\ n <= Len(p)
  BY LenProperties
<1>2. \A k \in 1 .. Len(p) : p[k] \in S
  BY ElementOfSeq
<1>3. front \in Seq(S) /\ Len(front) = n
  BY <1>1, <1>2, SubSeqProperties
<1>4. rest \in Seq(S)
  BY <1>1, <1>2, SubSeqProperties
<1>5. front \o rest = p
  <2>1. 1 \in 1 .. Len(p) + 1 /\ n \in 1 - 1 .. Len(p) /\ Len(p) \in n .. Len(p)
    BY <1>1
  <2>2. front \o rest = SubSeq(p, 1, Len(p))
    BY <2>1, ConcatAdjacentSubSeq
  <2>3. QED
    BY <2>2, SubSeqFull
<1> HIDE DEF front, rest
<1>6. all = front \o back
  <2>1. rest \o r \in Seq(S)
    BY <1>4, ConcatProperties
  <2>2. (rest \o r) \o h \in Seq(S)
    BY <2>1, ConcatProperties
  <2>3. /\ Regroup(front, rest, r)
        /\ Regroup(front, rest \o r, h)
        /\ Regroup(front, (rest \o r) \o h, i)
    BY <1>3, <1>4, <2>1, <2>2, Regrouped
  <2>4. QED
    BY <1>5, <2>3 DEF Regroup
<1>7. back \in Seq(S) /\ all \in Seq(S)
  BY <1>4, ConcatProperties
<1> HIDE DEF all, back
<1>8. Len(all) = n + Len(back) /\ Len(back) \in Nat
  BY <1>3, <1>6, <1>7, ConcatProperties, LenProperties
<1>9. SubSeq(all, 1, n) = front
  <2>1. SubSeq(front \o back, 1, n) = SubSeq(front, 1, n)
    BY <1>1, <1>3, <1>7, SubSeqOfConcat1
  <2>2. QED
    BY <1>3, <1>6, <2>1, SubSeqFull
<1>10. SubSeq(all, n + 1, Len(all)) = back
  <2> DEFINE tail == SubSeq(all, n + 1, Len(all))
  <2>1. \A k \in 1 .. Len(all) : all[k] \in S
    BY <1>7, ElementOfSeq
  <2>2. tail \in Seq(S) /\ Len(tail) = Len(back)
    BY <1>1, <1>8, <2>1, SubSeqProperties
  <2>3. \A k \in 1 .. Len(back) : tail[k] = all[n + k]
    BY <1>1, <1>8, <2>1, SubSeqProperties
  <2>4. \A k \in 1 .. Len(back) : all[n + k] = back[k]
    BY <1>1, <1>3, <1>6, <1>7, <1>8, ConcatProperties
  <2> HIDE DEF tail
  <2>5. tail = back
    BY <1>7, <2>2, <2>3, <2>4, SeqEqual
  <2>6. QED
    BY <2>5 DEF tail
<1>11. n \in 1 .. Len(all)
  BY <1>1, <1>8
<1>12. QED
  BY <1>9, <1>10, <1>11, Zenon DEF front, rest, all, back, FrontOfAll

(***************************************************************************)
(* The steps that touch a buffer, one by one, as steps of the stream.      *)
(***************************************************************************)
\* Stream!Next or a stutter: what a step may do to the frames.
StreamStep == [Stream!Next]_(Stream!vars)

\* The buffers, the source and the history stay as they are.
FramesUntouched ==
    UNCHANGED <<playback, resampled, held, input, position, delivered, lost>>

\* A step that touches no frame is a stutter of the stream.
LEMMA UntouchedStutters == FramesUntouched => StreamStep
BY DEF FramesUntouched, StreamStep, Stream!vars, Pipeline

\* What BASS_ChannelGetData finds goes to the empty input buffer, the last of
\* the pipeline.
LEMMA InputReads ==
    ASSUME TypeOK, NEW t \in Threads, read_input_data(t)
    PROVE  StreamStep
<1>1. CASE FramesUntouched
  BY <1>1, UntouchedStutters
<1>2. CASE ~ FramesUntouched
  <2>1. /\ UNCHANGED <<playback, resampled, held, delivered, lost>>
        /\ input = <<>> /\ BASS_ChannelGetData
    BY <1>2 DEF read_input_data, FramesUntouched, converter, source, listener
  <2>2. PICK n \in 1 .. Lesser(InputLength, supply - position) :
            /\ input' = [i \in 1 .. n |-> position + i]
            /\ position' = position + n
    BY <1>2, <2>1 DEF BASS_ChannelGetData, FramesUntouched
  <2>3. n \in 1 .. Frames - position
    BY <2>2, ResamplerAssumption DEF Lesser, TypeOK, SourceTypes
  <2> DEFINE before == playback \o resampled \o held
             new == [i \in 1 .. n |-> position + i]
  <2>4. before \in Seq(1 .. Frames)
    BY PipelineParts, ConcatProperties
  <2>5. Pipeline = before \o input /\ Pipeline' = before \o new
    BY <2>1, <2>2 DEF Pipeline
  <2> HIDE DEF before, new
  <2>6. Pipeline = before
    BY <2>1, <2>4, <2>5, ConcatEmptySeq
  <2>7. /\ position' = position + n
        /\ Pipeline' = Pipeline \o [i \in 1 .. n |-> position + i]
        /\ UNCHANGED <<delivered, lost>>
    BY <2>1, <2>2, <2>5, <2>6 DEF new
  <2>8. Stream!Read
    BY <2>3, <2>7 DEF Stream!Read
  <2>9. QED
    BY <2>8 DEF StreamStep, Stream!Next
<1>3. QED
  BY <1>1, <1>2

\* soxr_process moves frames from the input to the converter, and from the
\* converter to the resampler buffer, which lies before it and is empty.
LEMMA ConversionStutters ==
    ASSUME TypeOK, NothingOverwritten, NEW t \in Threads, read_resampled_data(t)
    PROVE  StreamStep
<1> DEFINE all == held \o input
           last == Greater(Len(all) - Latency, 0)
<1>1. UNCHANGED <<playback, position, delivered, lost>>
  BY DEF read_resampled_data, source, listener
<1>2. resampled = <<>>
  BY DEF read_resampled_data, At, NothingOverwritten
<1>3. \/ UNCHANGED <<resampled, held, input>>
      \/ /\ resampled' = SubSeq(all, 1, last)
         /\ held' = SubSeq(all, last + 1, Len(all))
         /\ input' = <<>>
  BY DEF read_resampled_data
<1>4. CASE UNCHANGED <<resampled, held, input>>
  BY <1>1, <1>4, UntouchedStutters DEF FramesUntouched
<1>5. CASE /\ resampled' = SubSeq(all, 1, last)
           /\ held' = SubSeq(all, last + 1, Len(all))
           /\ input' = <<>>
  <2>1. /\ playback \in Seq(1 .. Frames) /\ held \in Seq(1 .. Frames)
        /\ input \in Seq(1 .. Frames)
    BY PipelineParts
  <2>2. all \in Seq(1 .. Frames)
    BY <2>1, ConcatProperties
  <2> HIDE DEF all
  <2>3. Len(all) \in Nat
    BY <2>2, LenProperties
  <2>4. last \in 0 .. Len(all)
    BY <2>3, ResamplerAssumption DEF Greater
  <2> HIDE DEF last
  <2>5. resampled' \in Seq(1 .. Frames) /\ held' \in Seq(1 .. Frames)
    BY <1>5, <2>2, <2>4, SplitFrames
  <2>6. resampled' \o held' = all
    <3>1. 1 \in 1 .. Len(all) + 1 /\ last \in 1 - 1 .. Len(all)
          /\ Len(all) \in last .. Len(all)
      BY <2>3, <2>4
    <3>2. resampled' \o held' = SubSeq(all, 1, Len(all))
      BY <1>5, <2>2, <3>1, ConcatAdjacentSubSeq
    <3>3. QED
      BY <2>2, <3>2, SubSeqFull
  <2>7. Pipeline = playback \o all
    <3>1. Pipeline = (playback \o held) \o input
      BY <1>2, <2>1, ConcatEmptySeq DEF Pipeline
    <3>2. Regroup(playback, held, input)
      BY <2>1, Regrouped
    <3>3. QED
      BY <3>1, <3>2 DEF Regroup, all
  <2>8. Pipeline' = playback \o (resampled' \o held')
    <3>1. (playback \o resampled') \o held' \in Seq(1 .. Frames)
      BY <2>1, <2>5, ConcatProperties
    <3>2. Pipeline' = (playback \o resampled') \o held'
      BY <1>1, <1>5, <3>1, ConcatEmptySeq DEF Pipeline
    <3>3. Regroup(playback, resampled', held')
      BY <2>1, <2>5, Regrouped
    <3>4. QED
      BY <3>2, <3>3 DEF Regroup
  <2>9. QED
    BY <1>1, <2>6, <2>7, <2>8 DEF StreamStep, Stream!vars
<1>6. QED
  BY <1>3, <1>4, <1>5

\* read_playback_data moves what was converted to the end of the playback buffer.
LEMMA WriteStutters ==
    ASSUME TypeOK, NEW t \in Threads, read_playback_data(t)
    PROVE  StreamStep
<1>1. /\ UNCHANGED <<held, input, position, delivered, lost>>
      /\ \/ UNCHANGED <<playback, resampled>>
         \/ playback' = playback \o resampled /\ resampled' = <<>>
  BY DEF read_playback_data, converter, source, listener
<1>2. CASE UNCHANGED <<playback, resampled>>
  BY <1>1, <1>2, UntouchedStutters DEF FramesUntouched
<1>3. CASE playback' = playback \o resampled /\ resampled' = <<>>
  <2>1. playback' \in Seq(1 .. Frames)
    BY <1>3, PipelineParts, ConcatProperties
  <2>2. playback' \o resampled' = playback'
    BY <1>3, <2>1, ConcatEmptySeq
  <2>3. Pipeline' = Pipeline
    BY <1>1, <1>3, <2>2 DEF Pipeline
  <2>4. QED
    BY <1>1, <2>3 DEF StreamStep, Stream!vars
<1>4. QED
  BY <1>1, <1>2, <1>3

\* The release of the converter and the buffers gives up all that waits.
LEMMA ReleaseGivesUp ==
    ASSUME TypeOK, NEW t \in Threads, Release(t)
    PROVE  StreamStep
<1>1. /\ UNCHANGED <<position, delivered>>
      /\ lost' = lost \union FramesOf(Pipeline)
      /\ playback' = <<>> /\ resampled' = <<>> /\ held' = <<>> /\ input' = <<>>
  BY DEF Release, source
<1>2. Pipeline' = <<>>
  BY <1>1, ConcatEmptySeq, EmptySeq DEF Pipeline
<1>3. Stream!GiveUp
  BY <1>1, <1>2 DEF Stream!GiveUp, FramesOf
<1>4. QED
  BY <1>3 DEF StreamStep, Stream!Next

\* resampler_proc takes what it delivers from the front of the pipeline.
LEMMA ReadPlays ==
    ASSUME TypeOK, ProcRead
    PROVE  StreamStep
<1> DEFINE n == Lesser(Request, Len(playback))
<1>1. /\ UNCHANGED <<resampled, held, input, position, lost>>
      /\ \/ UNCHANGED <<playback, delivered>>
         \/ /\ delivered' = delivered \o SubSeq(playback, 1, n)
            /\ playback' = SubSeq(playback, n + 1, Len(playback))
  BY DEF ProcRead, converter, source, listener
<1>2. CASE UNCHANGED <<playback, delivered>>
  BY <1>1, <1>2, UntouchedStutters DEF FramesUntouched
<1>3. CASE /\ delivered' = delivered \o SubSeq(playback, 1, n)
           /\ playback' = SubSeq(playback, n + 1, Len(playback))
  <2>1. /\ playback \in Seq(1 .. Frames) /\ resampled \in Seq(1 .. Frames)
        /\ held \in Seq(1 .. Frames) /\ input \in Seq(1 .. Frames)
        /\ delivered \in Seq(1 .. Frames)
    BY PipelineParts
  <2>2. n \in 0 .. Len(playback)
    BY <2>1, LenProperties, ResamplerAssumption DEF Lesser
  <2> HIDE DEF n
  <2>3. CASE n = 0
    <3>1. SubSeq(playback, 1, n) = <<>> /\ playback' = playback
      BY <1>3, <2>1, <2>3, SubSeqEmpty, SubSeqFull
    <3>2. delivered' = delivered
      BY <1>3, <2>1, <3>1, ConcatEmptySeq
    <3>3. QED
      BY <1>1, <3>1, <3>2, UntouchedStutters DEF FramesUntouched
  <2>4. CASE n # 0
    <3>1. n \in 1 .. Len(playback)
      BY <2>1, <2>2, <2>4, LenProperties
    <3>2. Pipeline' = SubSeq(playback, n + 1, Len(playback)) \o resampled
                          \o held \o input
      BY <1>1, <1>3 DEF Pipeline
    <3>3. /\ n \in 1 .. Len(Pipeline)
          /\ SubSeq(Pipeline, 1, n) = SubSeq(playback, 1, n)
          /\ SubSeq(Pipeline, n + 1, Len(Pipeline)) = Pipeline'
      <4>1. FrontOfAll(playback, resampled, held, input, n)
        BY <2>1, <3>1, TakenFromTheFront
      <4>2. QED
        BY <3>2, <4>1, Zenon DEF FrontOfAll, Pipeline
    <3>4. Stream!Play
      BY <1>1, <1>3, <3>3 DEF Stream!Play
    <3>5. QED
      BY <3>4 DEF StreamStep, Stream!Next
  <2>5. QED
    BY <2>3, <2>4
<1>4. QED
  BY <1>1, <1>2, <1>3

\* BASS_SOX_StreamBufferClear owns the semaphore that resampler_buffer_clear
\* tries for, and so clears nothing.
LEMMA ClearIsRefused ==
    ASSUME LockHeldByOne, resampler_buffer_clear
    PROVE  FramesUntouched
<1>1. pc["app"] \in Locked
  BY DEF resampler_buffer_clear, At, Locked
<1>2. ~ (lock > 0)
  BY <1>1 DEF LockHeldByOne, Threads
<1>3. QED
  BY <1>2 DEF resampler_buffer_clear, FramesUntouched, converter, source, listener

\* No other step touches a frame.
LEMMA OthersTouchNoFrame ==
    ASSUME NEW t \in Threads,
           \/ Enter(t) \/ ensure_resampler(t) \/ Reloaded(t)
           \/ resampler_soxr_create(t) \/ resampler_buffer_create(t) \/ Exit(t)
           \/ Proc \/ ProcReady \/ ProcLoad \/ ProcEof \/ ProcEnd
           \/ background_update \/ AppCalls
           \/ ClearEnter \/ ClearExit \/ LengthExit
           \/ resampler_updater_start \/ resampler_updater_stop
           \/ UpdaterJoined \/ RequestReload
           \/ UNCHANGED vars
    PROVE  FramesUntouched
<1> USE DEF FramesUntouched, converter, buffers, source, listener
<1>1. CASE \/ Enter(t) \/ ensure_resampler(t) \/ Reloaded(t)
           \/ resampler_soxr_create(t) \/ resampler_buffer_create(t) \/ Exit(t)
  BY <1>1 DEF Enter, ensure_resampler, Reloaded, resampler_soxr_create,
     resampler_buffer_create, Exit
<1>2. CASE Proc \/ ProcReady \/ ProcLoad \/ ProcEof \/ ProcEnd \/ background_update
  BY <1>2 DEF Proc, ProcReady, ProcLoad, ProcEof, ProcEnd, background_update
<1>3. CASE AppCalls
  BY <1>3 DEF AppCalls, BASS_SOX_StreamBuffer, BASS_SOX_StreamBufferClear,
     BASS_SOX_StreamBufferLength, BASS_SOX_ChannelSetAttribute, Enqueue, SetTo
<1>4. CASE \/ ClearEnter \/ ClearExit \/ LengthExit
           \/ resampler_updater_start \/ resampler_updater_stop
           \/ UpdaterJoined \/ RequestReload
  BY <1>4 DEF ClearEnter, ClearExit, LengthExit, resampler_updater_start,
     resampler_updater_stop, UpdaterJoined, RequestReload
<1>5. CASE UNCHANGED vars
  BY <1>5 DEF vars
<1>6. QED
  BY <1>1, <1>2, <1>3, <1>4, <1>5

(***************************************************************************)
(* The invariant, and the refinement.                                      *)
(***************************************************************************)
\* A thread that is about to convert has found the resampler buffer empty, and
\* nobody else fills it meanwhile: that takes the semaphore.
LEMMA NextOverwritesNothing ==
    ASSUME ResamplerInv, NothingOverwritten, [Next]_vars
    PROVE  NothingOverwritten'
<1> USE DEF NothingOverwritten
<1>1. TypeOK /\ LockHeldByOne
  BY DEF ResamplerInv
<1>2. ASSUME NEW t \in Threads, resampler_populate(t)
      PROVE  NothingOverwritten'
  <2>1. \A u \in Threads \ {t} : pc'[u] = pc[u]
    BY <1>1, <1>2, PopulateMoves
  <2>2. CASE read_input_data(t)
    <3>1. /\ resampled' = resampled
          /\ pc'[t] = "process" => resampled = <<>>
      BY <1>1, <2>2 DEF read_input_data, Goto, TypeOK
    <3>2. QED
      BY <2>1, <3>1
  <2>3. CASE Enter(t) \/ Exit(t)
    <3>1. resampled' = resampled /\ pc'[t] # "process"
      BY <1>1, <2>3 DEF Enter, Exit, resampler_lock_enter, AfterPopulate, Goto,
         TypeOK, Threads, buffers
    <3>2. QED
      BY <2>1, <3>1
  <2>4. CASE \/ ensure_resampler(t) \/ Release(t) \/ Reloaded(t)
             \/ resampler_soxr_create(t) \/ resampler_buffer_create(t)
             \/ read_resampled_data(t) \/ read_playback_data(t)
    <3>1. pc[t] \in Locked /\ pc'[t] # "process"
      BY <1>1, <2>4 DEF ensure_resampler, Release, Reloaded, resampler_soxr_create,
         resampler_buffer_create, read_resampled_data, read_playback_data, Goto,
         At, TypeOK, Locked, Populating
    <3>2. \A u \in Threads \ {t} : pc[u] # "process"
      BY <1>1, <3>1 DEF LockHeldByOne, Locked, Populating
    <3>3. QED
      BY <2>1, <3>1, <3>2
  <2>5. QED
    BY <1>2, <2>2, <2>3, <2>4 DEF resampler_populate
<1>3. CASE resampler_proc \/ background_update \/ AppCalls \/ AppSteps
           \/ UNCHANGED vars
  <2>1. resampled' = resampled
    BY <1>1, <1>3, ClearIsRefused, OthersTouchNoFrame
       DEF resampler_proc, ProcRead, AppSteps, FramesUntouched, Threads
  <2>2. \A u \in Threads : pc'[u] = "process" => pc[u] = "process"
    BY <1>1, <1>3 DEF resampler_proc, Proc, ProcReady, ProcLoad, ProcRead, ProcEof,
       ProcEnd, background_update, AppCalls, AppSteps, BASS_SOX_StreamBuffer,
       BASS_SOX_StreamBufferClear, BASS_SOX_ChannelSetAttribute, Enqueue, SetTo,
       Call, BASS_SOX_StreamBufferLength, ClearEnter, resampler_buffer_clear,
       ClearExit, LengthExit, resampler_updater_start, resampler_updater_stop,
       UpdaterJoined, RequestReload, resampler_lock_enter, Goto, TypeOK, Threads,
       vars
  <2>3. QED
    BY <2>1, <2>2
<1>4. QED
  BY <1>2, <1>3 DEF Next, Threads

\* Every step of every thread is a step of the stream or a stutter.
LEMMA NextStreams ==
    ASSUME ResamplerInv, NothingOverwritten, [Next]_vars
    PROVE  StreamStep
<1>1. TypeOK /\ LockHeldByOne
  BY DEF ResamplerInv
<1>2. ASSUME NEW t \in Threads, resampler_populate(t)
      PROVE  StreamStep
  BY <1>1, <1>2, InputReads, ConversionStutters, WriteStutters, ReleaseGivesUp,
     OthersTouchNoFrame, UntouchedStutters DEF resampler_populate
<1>3. CASE resampler_proc \/ background_update \/ AppCalls \/ AppSteps
           \/ UNCHANGED vars
  BY <1>1, <1>3, ReadPlays, ClearIsRefused, OthersTouchNoFrame, UntouchedStutters
     DEF resampler_proc, AppSteps, Threads
<1>4. QED
  BY <1>2, <1>3 DEF Next, Threads

\* The invariant of the resampler, with what the refinement needs.
LEMMA StreamInvariant == Spec => []StreamInv
<1>1. Init => StreamInv
  <2>1. Init => NothingOverwritten
    BY DEF Init, NothingOverwritten
  <2>2. QED
    BY <2>1, InvariantInductive DEF StreamInv
<1>2. StreamInv /\ [Next]_vars => StreamInv'
  BY InvariantInductive, NextOverwritesNothing DEF StreamInv
<1>3. QED
  BY <1>1, <1>2, PTL DEF Spec

\* One resampler with its three threads is the stream of PlaybackStream: no
\* interleaving of reads, conversions, reloads, clears and failures does anything
\* else to a frame than read it, play it in turn, or give up all that waits.
THEOREM ResamplerImplementsStream == Spec => ImplementsPlaybackStream
<1>1. Init => Stream!Init
  BY ConcatEmptySeq, EmptySeq DEF Init, Stream!Init, Pipeline
<1>2. StreamInv /\ [Next]_vars => [Stream!Next]_(Stream!vars)
  BY NextStreams DEF StreamInv, StreamStep
<1>3. QED
  BY <1>1, <1>2, StreamInvariant, PTL DEF Spec, ImplementsPlaybackStream, Stream!Spec

\* No frame is played twice, none overtakes another and none vanishes, whatever
\* the threads do meanwhile.
THEOREM ResamplerPlaysEachFrameOnce == Spec => []EveryFrameOnce
<1>1. ImplementsPlaybackStream => Streamed!Spec
  <2>1. Stream!Init => Streamed!Init
    BY DEF Stream!Init, Streamed!Init
  <2>2. [Stream!Next]_(Stream!vars) => [Streamed!Next]_(Streamed!vars)
    BY DEF Stream!Next, Streamed!Next, Stream!vars, Streamed!vars, Stream!Read,
       Streamed!Read, Stream!Play, Streamed!Play, Stream!GiveUp, Streamed!GiveUp
  <2>3. QED
    BY <2>1, <2>2, PTL DEF ImplementsPlaybackStream, Stream!Spec, Streamed!Spec
<1>2. Streamed!Spec => []Streamed!EachFrameOnce
  BY Streamed!StreamKeepsFrames, ResamplerAssumption
<1>3. Streamed!EachFrameOnce => EveryFrameOnce
  BY DEF Streamed!EachFrameOnce, EveryFrameOnce, FramesOf
<1>4. QED
  BY <1>1, <1>2, <1>3, ResamplerImplementsStream, PTL
-----------------------------------------------------------------------------
(***************************************************************************)
(* The length that is reported.                                            *)
(***************************************************************************)
\* The steps between the release of a converter and the first delay that the
\* next one reports.
Reconverting == {"reloaded", "create", "allocate", "input", "process"}

\* The delay that was read from the converter is that of another one only while
\* a thread is about to convert, with the semaphore and nothing left to write.
DelayKnown ==
    soxr_delay # Len(held) =>
        \E t \in Threads : \/ pc[t] \in Reconverting /\ resampled = <<>>
                           \/ pc[t] = "crashed_inside"

\* Frames wait in buffers that exist.
BuffersHoldFrames ==
    /\ buffer = Null => playback = <<>> /\ resampled = <<>> /\ input = <<>>
    /\ \A t \in Threads : pc[t] \in {"process", "write"} => buffer # Null

LengthInv == ResamplerInv /\ BuffersHoldFrames /\ DelayKnown

\* A step of resampler_populate needs the semaphore, but for the first.
LEMMA PopulatesAlone ==
    ASSUME ResamplerInv, NEW t \in Threads, resampler_populate(t)
    PROVE  \/ Enter(t)
           \/ /\ pc[t] \in Locked
              /\ \A u \in Threads \ {t} : pc[u] \notin Locked
<1>1. TypeOK /\ LockHeldByOne
  BY DEF ResamplerInv
<1>2. CASE Enter(t)
  BY <1>2
<1>3. CASE ~ Enter(t)
  <2>1. pc[t] \in Locked
    BY <1>3 DEF resampler_populate, ensure_resampler, Release, Reloaded,
       resampler_soxr_create, resampler_buffer_create, read_input_data,
       read_resampled_data, read_playback_data, Exit, At, Locked, Populating
  <2>2. QED
    BY <1>1, <2>1 DEF LockHeldByOne
<1>4. QED
  BY <1>2, <1>3

\* Nothing is read, converted or written without buffers.
LEMMA PopulateKeepsFramesHeld ==
    ASSUME ResamplerInv, BuffersHoldFrames, NEW t \in Threads, resampler_populate(t)
    PROVE  BuffersHoldFrames'
<1> USE DEF BuffersHoldFrames
<1>1. TypeOK /\ LockHeldByOne
  BY DEF ResamplerInv
<1>2. \A u \in Threads \ {t} : pc'[u] = pc[u]
  BY <1>1, PopulateMoves
<1>3. CASE Enter(t) \/ Exit(t)
  <2>1. UNCHANGED buffers /\ pc'[t] \notin {"process", "write"}
    BY <1>1, <1>3 DEF Enter, Exit, resampler_lock_enter, AfterPopulate, Goto,
       TypeOK, Threads
  <2>2. QED
    BY <1>2, <2>1 DEF buffers
<1>4. CASE \/ ensure_resampler(t) \/ Release(t) \/ Reloaded(t)
           \/ resampler_soxr_create(t) \/ resampler_buffer_create(t)
  <2>1. \A u \in Threads : pc'[u] \notin {"process", "write"}
    <3>1. pc[t] \in Locked /\ pc'[t] \notin {"process", "write"}
      BY <1>1, <1>4 DEF ensure_resampler, Release, Reloaded, resampler_soxr_create,
         resampler_buffer_create, At, Goto, TypeOK, Locked, Populating
    <3>2. QED
      BY <1>1, <1>2, <3>1 DEF LockHeldByOne, Locked, Populating
  <2>2. \/ playback' = <<>> /\ resampled' = <<>> /\ input' = <<>>
        \/ /\ buffer' = Null => buffer = Null
           /\ UNCHANGED <<playback, resampled, input>>
    <3>1. CASE Release(t)
      BY <3>1 DEF Release
    <3>2. CASE resampler_buffer_create(t)
      <4>1. playback_length \in Nat
        BY <1>1, ResamplerAssumption DEF playback_length, Greater, TypeOK, ApiTypes
      <4>2. QED
        BY <3>2, <4>1, ResamplerAssumption DEF resampler_buffer_create
    <3>3. CASE ensure_resampler(t) \/ Reloaded(t) \/ resampler_soxr_create(t)
      BY <3>3 DEF ensure_resampler, Reloaded, resampler_soxr_create, buffers
    <3>4. QED
      BY <1>4, <3>1, <3>2, <3>3
  <2>3. QED
    BY <2>1, <2>2
<1>5. CASE read_input_data(t) \/ read_resampled_data(t) \/ read_playback_data(t)
  <2>1. /\ pc[t] \in {"input", "process", "write"} /\ buffer' = buffer
        /\ pc'[t] \in {"crashed_inside", "process", "write", "nothing",
                       "succeeded", "failed"}
    BY <1>1, <1>5 DEF read_input_data, read_resampled_data, read_playback_data,
       At, Goto, TypeOK
  <2>2. CASE buffer # Null
    <3>1. buffer' # Null
      BY <2>1, <2>2
    <3>2. QED
      BY <3>1
  <2>3. CASE buffer = Null
    <3>1. pc[t] = "input" /\ read_input_data(t)
      BY <1>5, <2>1, <2>3 DEF read_resampled_data, read_playback_data, At
    <3>2. pc'[t] = "crashed_inside" /\ UNCHANGED buffers
      BY <1>1, <2>3, <3>1 DEF read_input_data, buffers, Goto, TypeOK
    <3>3. QED
      BY <1>2, <3>2 DEF buffers
  <2>4. QED
    BY <2>2, <2>3
<1>6. QED
  BY <1>3, <1>4, <1>5 DEF resampler_populate

\* soxr_delay is read wherever the converter has changed, unless a failure ends
\* the attempt before.
LEMMA PopulateKeepsDelay ==
    ASSUME MayFail \intersect {"soxr", "buffers", "process"} = {},
           LengthInv, NEW t \in Threads, resampler_populate(t)
    PROVE  DelayKnown'
<1> USE DEF DelayKnown
<1>1. TypeOK /\ LockHeldByOne /\ ResamplerInv /\ DelayKnown
  BY DEF LengthInv, ResamplerInv
<1>2. \A u \in Threads \ {t} : pc'[u] = pc[u]
  BY <1>1, PopulateMoves
<1>3. CASE Enter(t)
  <2>1. UNCHANGED <<soxr_delay, held, resampled>> /\ pc[t] = "enter"
    BY <1>3 DEF Enter, converter, buffers, At
  <2>2. QED
    BY <1>1, <1>2, <2>1 DEF Reconverting
<1>4. CASE ~ Enter(t)
  <2>1. pc[t] \in Locked /\ \A u \in Threads \ {t} : pc[u] \notin Locked
    BY <1>1, <1>4, PopulatesAlone
  <2>2. soxr_delay # Len(held) =>
            \/ pc[t] \in Reconverting /\ resampled = <<>>
            \/ pc[t] = "crashed_inside"
    BY <1>1, <2>1 DEF Reconverting, Locked, Populating
  <2>3. CASE ensure_resampler(t) \/ Exit(t) \/ read_playback_data(t)
    <3>1. soxr_delay = Len(held)
      BY <2>2, <2>3 DEF ensure_resampler, Exit, read_playback_data, At, Reconverting
    <3>2. UNCHANGED <<soxr_delay, held>>
      BY <2>3 DEF ensure_resampler, Exit, read_playback_data, converter
    <3>3. QED
      BY <3>1, <3>2
  <2>4. CASE Release(t)
    <3>1. pc'[t] = "reloaded" /\ resampled' = <<>>
      BY <1>1, <2>4 DEF Release, Goto, TypeOK
    <3>2. QED
      BY <3>1 DEF Reconverting
  <2>5. CASE Reloaded(t) \/ resampler_soxr_create(t) \/ resampler_buffer_create(t)
    <3>1. /\ UNCHANGED <<soxr_delay, held, resampled>>
          /\ pc'[t] \in Reconverting /\ pc[t] # "crashed_inside"
      BY <1>1, <2>5 DEF Reloaded, resampler_soxr_create, resampler_buffer_create,
         converter, buffers, At, Goto, TypeOK, Reconverting
    <3>2. QED
      BY <2>2, <3>1
  <2>6. CASE read_input_data(t)
    <3>1. /\ UNCHANGED <<soxr_delay, held, resampled>> /\ pc[t] = "input"
          /\ \/ pc'[t] \in {"crashed_inside", "process"}
             \/ resampled # <<>>
      BY <1>1, <2>6 DEF read_input_data, converter, At, Goto, TypeOK
    <3>2. QED
      BY <2>2, <3>1 DEF Reconverting
  <2>7. CASE read_resampled_data(t)
    <3> DEFINE all == held \o input
               last == Greater(Len(all) - Latency, 0)
    <3>1. /\ held' = SubSeq(all, last + 1, Len(all))
          /\ soxr_delay' = Len(all) - last
      BY <2>7 DEF read_resampled_data
    <3>2. all \in Seq(1 .. Frames)
      BY <1>1, PipelineParts, ConcatProperties
    <3> HIDE DEF all
    <3>3. Len(all) \in Nat
      BY <3>2, LenProperties
    <3>4. last \in 0 .. Len(all)
      BY <3>3, ResamplerAssumption DEF Greater
    <3> HIDE DEF last
    <3>5. \A i \in 1 .. Len(all) : all[i] \in 1 .. Frames
      BY <3>2, ElementOfSeq
    <3>6. Len(SubSeq(all, last + 1, Len(all))) = Len(all) - last
      BY <3>3, <3>4, <3>5, SubSeqProperties
    <3>7. QED
      BY <3>1, <3>6
  <2>8. QED
    BY <1>4, <2>3, <2>4, <2>5, <2>6, <2>7 DEF resampler_populate
<1>5. QED
  BY <1>3, <1>4

\* The steps outside of resampler_populate take frames from the playback buffer
\* at most, and none of them enters the middle of it.
LEMMA OthersKeepLength ==
    ASSUME LengthInv,
           \/ resampler_proc \/ background_update \/ AppCalls \/ AppSteps
           \/ UNCHANGED vars
    PROVE  BuffersHoldFrames' /\ DelayKnown'
<1>1. TypeOK /\ LockHeldByOne /\ BuffersHoldFrames /\ DelayKnown
  BY DEF LengthInv, ResamplerInv
<1>2. /\ UNCHANGED <<soxr_delay, held, resampled, input, buffer>>
      /\ \/ playback' = playback
         \/ ProcRead
  <2>1. CASE FramesUntouched
    <3>1. UNCHANGED <<soxr_delay, buffer>>
      BY DEF resampler_proc, Proc, ProcReady, ProcLoad, ProcRead, ProcEof,
         ProcEnd, background_update, AppCalls, AppSteps, BASS_SOX_StreamBuffer,
         BASS_SOX_StreamBufferClear, BASS_SOX_ChannelSetAttribute, Enqueue, SetTo,
         BASS_SOX_StreamBufferLength, ClearEnter, resampler_buffer_clear, ClearExit,
         LengthExit, resampler_updater_start, resampler_updater_stop, UpdaterJoined,
         RequestReload, vars, converter, buffers
    <3>2. QED
      BY <2>1, <3>1 DEF FramesUntouched
  <2>2. CASE ProcRead
    BY <2>2 DEF ProcRead, converter
  <2>3. QED
    BY <1>1, <2>1, <2>2, ClearIsRefused, OthersTouchNoFrame
       DEF resampler_proc, AppSteps, Threads
<1>3. ProcRead /\ playback = <<>> => playback' = <<>>
  <2> SUFFICES ASSUME ProcRead, playback = <<>>
               PROVE  playback' = <<>>
    OBVIOUS
  <2>1. \/ playback' = playback
        \/ playback' = SubSeq(playback, Lesser(Request, 0) + 1, 0)
    BY DEF ProcRead
  <2>2. Lesser(Request, 0) = 0
    BY ResamplerAssumption DEF Lesser
  <2>3. QED
    BY <2>1, <2>2, SubSeqEmpty
<1>4. \A u \in Threads :
          /\ pc'[u] \in {"process", "write"} => pc[u] \in {"process", "write"}
          /\ pc[u] \in Reconverting \union {"crashed_inside"} => pc'[u] = pc[u]
  <2> USE DEF TypeOK, Goto, At, Threads, Reconverting
  <2>1. CASE resampler_proc \/ background_update \/ UNCHANGED vars
    BY <1>1, <2>1 DEF resampler_proc, Proc, ProcReady, ProcLoad, ProcRead, ProcEof,
       ProcEnd, background_update, vars
  <2>2. CASE AppCalls
    BY <1>1, <2>2 DEF AppCalls, BASS_SOX_StreamBuffer,
       BASS_SOX_StreamBufferClear, BASS_SOX_ChannelSetAttribute, Enqueue, SetTo,
       Call, BASS_SOX_StreamBufferLength, resampler_lock_enter
  <2>3. CASE AppSteps
    <3>1. CASE resampler_updater_start
      <4>1. ~ thread => pc["updater"] = "off"
        BY DEF LengthInv, ResamplerInv, UpdaterOwned
      <4>2. QED
        BY <1>1, <3>1, <4>1 DEF resampler_updater_start
    <3>2. CASE ~ resampler_updater_start
      BY <1>1, <2>3, <3>2 DEF AppSteps, ClearEnter, resampler_buffer_clear,
         ClearExit, LengthExit, resampler_updater_stop, UpdaterJoined,
         RequestReload, resampler_lock_enter
    <3>3. QED
      BY <3>1, <3>2
  <2>4. QED
    BY <2>1, <2>2, <2>3
<1>5. BuffersHoldFrames'
  BY <1>1, <1>2, <1>3, <1>4 DEF BuffersHoldFrames
<1>6. DelayKnown'
  BY <1>1, <1>2, <1>4 DEF DelayKnown
<1>7. QED
  BY <1>5, <1>6

\* What BASS_SOX_StreamBufferLength reports is all that was read and is neither
\* played nor given up, whichever threads convert and whatever is called, unless
\* a converter or its buffers cannot be created or a conversion fails: then the
\* delay of a converter that is gone goes on being counted.
THEOREM ReportedLengthIsAccurate ==
    ASSUME MayFail \intersect {"soxr", "buffers", "process"} = {}
    PROVE  Spec => []LengthAccurate
<1>1. Init => LengthInv
  <2>1. Init => BuffersHoldFrames /\ DelayKnown
    BY EmptySeq DEF Init, BuffersHoldFrames, DelayKnown
  <2>2. QED
    BY <2>1, InvariantInductive DEF LengthInv
<1>2. LengthInv /\ [Next]_vars => LengthInv'
  <2> SUFFICES ASSUME LengthInv, [Next]_vars
               PROVE  LengthInv'
    OBVIOUS
  <2>1. ResamplerInv'
    BY InvariantInductive DEF LengthInv
  <2>2. CASE \E t \in Threads : resampler_populate(t)
    BY <2>1, <2>2, PopulateKeepsFramesHeld, PopulateKeepsDelay DEF LengthInv
  <2>3. CASE \/ resampler_proc \/ background_update \/ AppCalls \/ AppSteps
             \/ UNCHANGED vars
    BY <2>1, <2>3, OthersKeepLength DEF LengthInv
  <2>4. QED
    BY <2>2, <2>3 DEF Next, Threads
<1>3. LengthInv => LengthAccurate
  <2> SUFFICES ASSUME LengthInv, pc["app"] = "measuring"
               PROVE  resampler_buffer_length = Len(Pipeline)
    BY DEF LengthAccurate
  <2>1. TypeOK /\ LockHeldByOne /\ BuffersHoldFrames /\ DelayKnown
    BY DEF LengthInv, ResamplerInv
  <2>2. \A t \in Threads : pc[t] \notin Reconverting \union {"crashed_inside"}
    BY <2>1 DEF LockHeldByOne, Locked, Populating, Reconverting, Threads
  <2>3. soxr_delay = Len(held)
    BY <2>1, <2>2 DEF DelayKnown
  <2>4. Len(Pipeline) = Len(playback) + Len(resampled) + Len(held) + Len(input)
    <3>1. playback \o resampled \in Seq(1 .. Frames)
          /\ Len(playback \o resampled) = Len(playback) + Len(resampled)
      BY <2>1, PipelineParts, ConcatProperties
    <3>2. /\ (playback \o resampled) \o held \in Seq(1 .. Frames)
          /\ Len((playback \o resampled) \o held)
                 = Len(playback) + Len(resampled) + Len(held)
      BY <2>1, <3>1, PipelineParts, ConcatProperties
    <3>3. QED
      BY <2>1, <3>2, PipelineParts, ConcatProperties DEF Pipeline
  <2>5. /\ Len(playback) \in Nat /\ Len(resampled) \in Nat
        /\ Len(held) \in Nat /\ Len(input) \in Nat
    BY <2>1, PipelineParts, LenProperties
  <2>6. buffer = Null =>
            Len(playback) = 0 /\ Len(resampled) = 0 /\ Len(input) = 0
    BY <2>1 DEF BuffersHoldFrames
  <2>7. QED
    BY <2>3, <2>4, <2>5, <2>6 DEF resampler_buffer_length
<1>4. QED
  BY <1>1, <1>2, <1>3, PTL DEF Spec

(***************************************************************************)
(* The end of the stream, and crashes, when BASS alone converts.           *)
(***************************************************************************)
\* The application neither starts an updater nor fills the buffers itself.
Foreground == Calls \intersect {"background", "buffer"} = {}

\* Then the thread of BASS is the only one that populates the resampler.
PullAlone ==
    /\ ~ settings.background
    /\ pc["updater"] = "off"
    /\ pc["app"] \in {"idle", "clear", "clearing", "cleared", "measuring",
                      "request_reload", "crashed_inside"}

\* What the other threads do then: nothing that resampler_proc would see.
OthersDo ==
    /\ FramesUntouched
    /\ UNCHANGED <<ready, soxr, soxr_end, source_end, buffer, ring>>
    /\ pc'["pull"] = pc["pull"]
    /\ pc'["app"] = "crashed_inside" =>
           pc["app"] = "crashed_inside" \/ buffer = NoRing

\* No call but those two makes another thread populate.
LEMMA ForegroundStep ==
    ASSUME Foreground, ResamplerInv, PullAlone, [Next]_vars
    PROVE  /\ PullAlone'
           /\ \/ (resampler_populate("pull") \/ resampler_proc)
                   /\ pc'["app"] = pc["app"]
              \/ OthersDo
<1>1. TypeOK /\ LockHeldByOne
  BY DEF ResamplerInv
<1>2. CASE resampler_populate("pull")
  BY <1>1, <1>2, PopulateMoves DEF PullAlone, Threads
<1>3. CASE resampler_proc
  <2>1. settings' = settings /\ \A u \in {"app", "updater"} : pc'[u] = pc[u]
    BY <1>1, <1>3 DEF resampler_proc, Proc, ProcReady, ProcLoad, ProcRead, ProcEof,
       ProcEnd, Goto, TypeOK, Threads, api
  <2>2. QED
    BY <1>3, <2>1 DEF PullAlone
<1>4. CASE resampler_populate("updater") \/ background_update
  BY <1>1, <1>4, PopulateMoves DEF background_update, At, PullAlone, Threads, Populating
<1>5. CASE resampler_populate("app")
  BY <1>5 DEF PullAlone, resampler_populate, Enter, ensure_resampler, Release,
     Reloaded, resampler_soxr_create, resampler_buffer_create, read_input_data,
     read_resampled_data, read_playback_data, Exit, At
<1>6. CASE AppCalls
  <2>1. CASE BASS_SOX_StreamBuffer
    BY <2>1 DEF BASS_SOX_StreamBuffer, Call, Foreground
  <2>2. CASE \/ BASS_SOX_StreamBufferClear \/ BASS_SOX_StreamBufferLength
             \/ Enqueue
    <3>1. OthersDo
      BY <1>1, <1>6, <2>2, OthersTouchNoFrame DEF OthersDo, Threads, Goto, TypeOK,
         BASS_SOX_StreamBufferClear, BASS_SOX_StreamBufferLength, Enqueue, Call,
         resampler_lock_enter, converter, buffers, source, listener
    <3>2. PullAlone'
      BY <1>1, <2>2 DEF PullAlone, Threads, Goto, TypeOK,
         BASS_SOX_StreamBufferClear, BASS_SOX_StreamBufferLength, Enqueue, Call,
         resampler_lock_enter, api
    <3>3. QED
      BY <3>1, <3>2
  <2>3. CASE BASS_SOX_ChannelSetAttribute
    <3>1. PICK attribute \in {"quality", "playback_buffer_length", "keep_alive"} :
            /\ \E value : settings' = [settings EXCEPT ![attribute] = value]
            /\ Goto("app", "request_reload")
            /\ UNCHANGED <<ready, converter, buffers, source, listener>>
      BY <2>3 DEF BASS_SOX_ChannelSetAttribute, SetTo, Call, Foreground
    <3>2. settings'.background = settings.background
      BY <1>1, <3>1 DEF TypeOK, ApiTypes
    <3>3. OthersDo
      BY <1>1, <1>6, <3>1, OthersTouchNoFrame DEF OthersDo, Threads, Goto, TypeOK,
         converter, buffers, source, listener
    <3>4. PullAlone'
      BY <1>1, <3>1, <3>2 DEF PullAlone, Threads, Goto, TypeOK
    <3>5. QED
      BY <3>3, <3>4
  <2>4. QED
    BY <1>6, <2>1, <2>2, <2>3 DEF AppCalls
<1>7. CASE AppSteps
  <2>1. CASE \/ resampler_updater_start \/ resampler_updater_stop \/ UpdaterJoined
    BY <2>1 DEF PullAlone, resampler_updater_start, resampler_updater_stop,
       UpdaterJoined, At
  <2>2. CASE \/ ClearEnter \/ resampler_buffer_clear \/ ClearExit \/ LengthExit
             \/ RequestReload
    <3>1. FramesUntouched
      BY <1>1, <2>2, ClearIsRefused, OthersTouchNoFrame DEF Threads
    <3>2. OthersDo
      BY <1>1, <2>2, <3>1 DEF OthersDo, Threads, Goto, TypeOK, ClearEnter,
         resampler_buffer_clear, ClearExit, LengthExit, RequestReload,
         resampler_lock_enter, converter, buffers, source, listener
    <3>3. PullAlone'
      BY <1>1, <2>2 DEF PullAlone, Threads, Goto, TypeOK, ClearEnter,
         resampler_buffer_clear, ClearExit, LengthExit, RequestReload,
         resampler_lock_enter, api
    <3>4. QED
      BY <3>2, <3>3
  <2>3. QED
    BY <1>7, <2>1, <2>2 DEF AppSteps
<1>8. CASE UNCHANGED vars
  <2>1. FramesUntouched
    BY <1>8, OthersTouchNoFrame DEF Threads
  <2>2. QED
    BY <1>8, <2>1 DEF PullAlone, OthersDo, vars, api, converter, buffers, source,
       listener
<1>9. QED
  BY <1>2, <1>3, <1>4, <1>5, <1>6, <1>7, <1>8 DEF Next

\* Where the thread of BASS has come with nothing left to play, and what the
\* flags that it reads there say of the buffers.
DrainedInv ==
    /\ soxr_end => resampled = <<>>
    /\ input # <<>> => pc["pull"] = "process"
    /\ pc["pull"] \in {"eof", "drained", "ended"} => playback = <<>>
    /\ pc["pull"] \in {"drained", "ended"} => source_end
    /\ pc["pull"] = "ended" => soxr_end

\* A conversion that gives nothing although all of the input was taken raises
\* soxr_end; whatever is read or converted after that lowers it.
LEMMA PullKeepsDrained ==
    ASSUME "process" \notin MayFail, TypeOK, DrainedInv,
           resampler_populate("pull") \/ resampler_proc
    PROVE  DrainedInv'
<1> USE DEF DrainedInv, At, Goto, TypeOK, Threads
<1>1. CASE \/ Enter("pull") \/ ensure_resampler("pull") \/ Reloaded("pull")
           \/ resampler_soxr_create("pull") \/ resampler_buffer_create("pull")
           \/ Exit("pull")
  <2>1. /\ UNCHANGED <<soxr_end, source_end, input, resampled, playback>>
        /\ pc["pull"] # "process"
        /\ pc'["pull"] \notin {"eof", "drained", "ended"}
    BY <1>1 DEF Enter, ensure_resampler, Reloaded, resampler_soxr_create,
       resampler_buffer_create, Exit, resampler_lock_enter, AfterPopulate,
       converter, buffers, source
  <2>2. QED
    BY <2>1
<1>2. CASE Release("pull")
  BY <1>2 DEF Release
<1>3. CASE read_input_data("pull")
  <2>1. /\ UNCHANGED <<soxr_end, resampled, playback>>
        /\ pc["pull"] = "input"
        /\ \/ pc'["pull"] = "process"
           \/ input' = input /\ pc'["pull"] \in {"crashed_inside", "write"}
    BY <1>3 DEF read_input_data, converter
  <2>2. QED
    BY <2>1
<1>4. CASE read_resampled_data("pull")
  <2> DEFINE last == Greater(Len(held \o input) - Latency, 0)
  <2>1. /\ resampled' = SubSeq(held \o input, 1, last)
        /\ input' = <<>> /\ playback' = playback
        /\ soxr_end' = (input = <<>> /\ last = 0)
        /\ pc'["pull"] \in {"nothing", "write"}
    BY <1>4 DEF read_resampled_data
  <2> HIDE DEF last
  <2>2. soxr_end' => resampled' = <<>>
    <3>1. SubSeq(held \o input, 1, 0) = <<>>
      BY SubSeqEmpty
    <3>2. soxr_end' => last = 0
      BY <2>1, Zenon
    <3>3. QED
      BY <2>1, <3>1, <3>2
  <2>3. QED
    BY <2>1, <2>2
<1>5. CASE read_playback_data("pull")
  <2>1. /\ UNCHANGED <<soxr_end, source_end, input>>
        /\ resampled' \in {resampled, <<>>}
        /\ pc["pull"] = "write"
        /\ pc'["pull"] \in {"crashed_inside", "nothing", "succeeded"}
    BY <1>5 DEF read_playback_data, converter, source
  <2>2. QED
    BY <2>1
<1>6. CASE Proc \/ ProcReady \/ ProcLoad
  <2>1. /\ UNCHANGED <<soxr_end, source_end, input, resampled, playback>>
        /\ pc["pull"] # "process"
        /\ pc'["pull"] \notin {"eof", "drained", "ended"}
    BY <1>6 DEF Proc, ProcReady, ProcLoad, converter, buffers, source
  <2>2. QED
    BY <2>1
<1>7. CASE ProcRead
  <2> DEFINE n == Lesser(Request, Len(playback))
  <2>1. /\ UNCHANGED <<soxr_end, source_end, input, resampled>>
        /\ pc["pull"] = "read"
        /\ \/ pc'["pull"] \in {"crashed", "idle"}
           \/ /\ pc'["pull"] = "eof" /\ n = 0
              /\ playback' = SubSeq(playback, n + 1, Len(playback))
    BY <1>7 DEF ProcRead, converter, source
  <2>2. Len(playback) \in Nat
    BY LenProperties DEF BufferTypes
  <2>3. n = 0 => Len(playback) = 0
    BY <2>2, ResamplerAssumption DEF Lesser
  <2> HIDE DEF n
  <2>4. pc'["pull"] = "eof" => playback' = <<>>
    BY <2>1, <2>3, SubSeqEmpty
  <2>5. QED
    BY <2>1, <2>4
<1>8. CASE ProcEof \/ ProcEnd
  BY <1>8 DEF ProcEof, ProcEnd, converter, buffers, source
<1>9. QED
  BY <1>1, <1>2, <1>3, <1>4, <1>5, <1>6, <1>7, <1>8
     DEF resampler_populate, resampler_proc

\* BASS is told that the stream has ended only when no frame is left that will
\* ever be played, although the two flags for it are set long before they are
\* read, and no reload resets them.  A conversion that fails keeps its input and
\* leaves the flag of an earlier one: with such failures this does not hold.
THEOREM EndOfStreamIsReal ==
    ASSUME Foreground, "process" \notin MayFail
    PROVE  Spec => []EndMeansDrained
<1> DEFINE Inv == ResamplerInv /\ PullAlone /\ DrainedInv
<1>1. Init => Inv
  <2>1. Init => PullAlone /\ DrainedInv
    BY DEF Init, PullAlone, DrainedInv, Threads
  <2>2. QED
    BY <2>1, InvariantInductive
<1>2. Inv /\ [Next]_vars => Inv'
  <2> SUFFICES ASSUME ResamplerInv, PullAlone, DrainedInv, [Next]_vars
               PROVE  Inv'
    OBVIOUS
  <2>1. ResamplerInv' /\ PullAlone'
    BY InvariantInductive, ForegroundStep
  <2>2. CASE resampler_populate("pull") \/ resampler_proc
    BY <2>1, <2>2, PullKeepsDrained DEF ResamplerInv
  <2>3. CASE OthersDo
    BY <2>1, <2>3 DEF OthersDo, FramesUntouched, DrainedInv
  <2>4. QED
    BY <2>2, <2>3, ForegroundStep
<1>3. Inv => EndMeansDrained
  BY DEF DrainedInv, EndMeansDrained
<1> HIDE DEF Inv
<1>4. QED
  BY <1>1, <1>2, <1>3, PTL DEF Spec

\* Where the thread of BASS follows a pointer, it is not NULL and what it points
\* to is not freed.
PointersLive ==
    /\ buffer # NoRing
    /\ ready => buffer # Null
    /\ soxr # Null /\ pc["pull"] # "allocate" => buffer # Null
    /\ pc["pull"] \in {"load", "input"} => buffer # Null
    /\ pc["pull"] = "release" => ~ ready
    /\ ring = IF pc["pull"] = "read" THEN "live" ELSE "none"
    /\ NoCrash

\* The ready flag goes down before the buffers do, on the only thread that
\* follows it, and up after there are new ones.
LEMMA PullKeepsPointers ==
    ASSUME MayFail \intersect {"buffers", "ring"} = {},
           ResamplerInv, PullAlone, PointersLive,
           resampler_populate("pull") \/ resampler_proc,
           pc'["app"] = pc["app"], PullAlone'
    PROVE  PointersLive'
<1>1. TypeOK /\ Created
  BY DEF ResamplerInv
<1>2. NoCrash' <=> pc'["pull"] \notin {"crashed", "crashed_inside"}
  BY <1>1 DEF PullAlone, PointersLive, NoCrash, Threads
<1> USE DEF PointersLive, At, Goto, TypeOK, Threads
<1>3. CASE Enter("pull") \/ Exit("pull")
  <2>1. /\ UNCHANGED <<ready, soxr, buffer, ring>>
        /\ pc["pull"] \in {"enter", "succeeded", "nothing", "failed"}
        /\ pc'["pull"] \in {"ensure", "ready"}
    BY <1>1, <1>3 DEF Enter, Exit, resampler_lock_enter, AfterPopulate, converter,
       buffers, listener
  <2>2. QED
    BY <1>2, <2>1
<1>4. CASE ensure_resampler("pull")
  BY <1>1, <1>2, <1>4 DEF ensure_resampler, converter, buffers, listener
<1>5. CASE Release("pull")
  BY <1>1, <1>2, <1>5, ResamplerAssumption DEF Release
<1>6. CASE Reloaded("pull")
  BY <1>1, <1>2, <1>6 DEF Reloaded, Created, converter, buffers, listener
<1>7. CASE resampler_soxr_create("pull")
  <2>1. /\ UNCHANGED <<ready, buffer, ring>> /\ pc["pull"] = "create"
        /\ \/ pc'["pull"] = "allocate"
           \/ pc'["pull"] = "failed" /\ soxr' = soxr
    BY <1>1, <1>7 DEF resampler_soxr_create, buffers, listener
  <2>2. QED
    BY <1>1, <1>2, <2>1
<1>8. CASE resampler_buffer_create("pull")
  <2>1. playback_length \in Nat
    BY <1>1, ResamplerAssumption DEF playback_length, Greater, ApiTypes
  <2>2. /\ buffer' = playback_length /\ UNCHANGED ring
        /\ pc["pull"] = "allocate" /\ pc'["pull"] = "input"
    BY <1>1, <1>8 DEF resampler_buffer_create, listener
  <2>3. buffer' # Null /\ buffer' # NoRing
    BY <2>1, <2>2, ResamplerAssumption
  <2>4. QED
    BY <1>2, <2>2, <2>3
<1>9. CASE \/ read_input_data("pull") \/ read_resampled_data("pull")
           \/ read_playback_data("pull")
  <2>1. /\ UNCHANGED <<ready, soxr, buffer, ring>>
        /\ pc["pull"] \in {"input", "process", "write"}
        /\ pc'["pull"] \in {"process", "write", "nothing", "succeeded", "failed"}
    BY <1>1, <1>9 DEF read_input_data, read_resampled_data, read_playback_data,
       converter, listener
  <2>2. QED
    BY <1>2, <2>1
<1>10. CASE Proc \/ ProcReady \/ ProcEof \/ ProcEnd
  <2>1. /\ UNCHANGED <<ready, soxr, buffer, ring>>
        /\ pc["pull"] \in {"idle", "ready", "eof", "drained"}
        /\ pc'["pull"] \in {"idle", "enter", "ready", "load", "drained", "ended"}
        /\ pc'["pull"] = "load" => ready
    BY <1>1, <1>10 DEF Proc, ProcReady, ProcEof, ProcEnd, converter, buffers,
       listener
  <2>2. QED
    BY <1>2, <2>1
<1>11. CASE ProcLoad
  BY <1>1, <1>2, <1>11 DEF ProcLoad, converter, buffers
<1>12. CASE ProcRead
  <2>1. /\ UNCHANGED <<ready, soxr, buffer>> /\ ring' = "none"
        /\ pc'["pull"] \in {"eof", "idle"}
    BY <1>1, <1>12 DEF ProcRead, converter
  <2>2. pc["pull"] = "read"
    BY <1>12 DEF ProcRead
  <2>3. QED
    BY <1>2, <2>1, <2>2
<1>13. QED
  BY <1>3, <1>4, <1>5, <1>6, <1>7, <1>8, <1>9, <1>10, <1>11, <1>12
     DEF resampler_populate, resampler_proc

\* No pointer that is NULL or to freed memory is followed, across any number of
\* reloads and failures of the converter.  The two failures that are excluded are
\* those that resampler_populate does not look at.
THEOREM ForegroundDoesNotCrash ==
    ASSUME Foreground, MayFail \intersect {"buffers", "ring"} = {}
    PROVE  Spec => []NoCrash
<1> DEFINE Inv == ResamplerInv /\ PullAlone /\ PointersLive
<1>1. Init => Inv
  <2>1. Init => PullAlone
    BY DEF Init, PullAlone, Threads
  <2>2. Init => PointersLive
    BY ResamplerAssumption DEF Init, PointersLive, NoCrash, Threads
  <2>3. QED
    BY <2>1, <2>2, InvariantInductive
<1>2. Inv /\ [Next]_vars => Inv'
  <2> SUFFICES ASSUME ResamplerInv, PullAlone, PointersLive, [Next]_vars
               PROVE  Inv'
    OBVIOUS
  <2>1. ResamplerInv' /\ PullAlone'
    BY InvariantInductive, ForegroundStep
  <2>2. CASE /\ resampler_populate("pull") \/ resampler_proc
             /\ pc'["app"] = pc["app"]
    BY <2>1, <2>2, PullKeepsPointers
  <2>3. CASE OthersDo
    BY <2>1, <2>3 DEF OthersDo, PointersLive, PullAlone, NoCrash, Threads
  <2>4. QED
    BY <2>2, <2>3, ForegroundStep
<1>3. Inv => NoCrash
  BY DEF PointersLive
<1> HIDE DEF Inv
<1>4. QED
  BY <1>1, <1>2, <1>3, PTL DEF Spec
=============================================================================
