---------------------------- MODULE Conversion -----------------------------
(***************************************************************************)
(* The numbers that module Resampler abstracts from: how many frames of    *)
(* one rate become how many of the other between the source and BASS.  The *)
(* lengths of the buffers come from the settings, in milliseconds; the     *)
(* converter is module Converter; resampler_populate is what passes frames *)
(* on, one conversion a call, under the semaphore and so undisturbed.      *)
(* Lengths are in frames but where BASS_SOX_StreamBufferLength gives bytes.*)
(* A converter comes with the source it is for: conv.frames frames, given   *)
(* in one of conv.portions at a time.                                      *)
(***************************************************************************)
EXTENDS Converter

CONSTANTS
    Second,   \* the units of time in a second, 1000 in the code
    Rates,    \* the rates for which plans are looked at
    Request   \* the frames that BASS asks resampler_proc for

\* Rates, lengths and frames are what their names say; BASS_SOX_StreamCreate makes
\* no resampler when the rate is to stay what it is.
ASSUME ConversionAssumption ==
    /\ Second \in Nat \ {0} /\ Request \in Nat /\ Rates \subseteq Nat \ {0}
    /\ \A c \in Converters :
          /\ c.input_rate \in Nat \ {0} /\ c.output_rate \in Nat \ {0}
          /\ c.input_rate # c.output_rate
          /\ c.input_buffer_length \in Nat /\ c.playback_buffer_length \in Nat
          /\ c.input_frame_size \in Nat /\ c.output_frame_size \in Nat
          /\ c.frames \in Nat /\ c.portions \subseteq Nat

VARIABLES
    input, resampled, playback, \* the frames in the three buffers
    soxr_delay,                 \* as _soxr_delay: times the rate of the input
    source_end, soxr_end,
    position,                   \* the frames read from the source
    played,                     \* the frames handed to BASS
    pc

client == <<input, resampled, playback, soxr_delay, source_end, soxr_end,
            position, played, pc>>
vars == <<conv, rate, client>>

\* The frames that fit in a buffer of some milliseconds.  What is left of a
\* frame, and the rounding of single precision, is lost.
get_buffer_length(length, frequency) == (length * frequency) \div Second

input_capacity ==
    get_buffer_length(conv.input_buffer_length, conv.input_rate)
resampler_capacity ==
    get_buffer_length(conv.input_buffer_length, conv.output_rate)

\* A fault to detect: the playback buffer is as short as the setting says.
playback_capacity_as_set ==
    get_buffer_length(conv.playback_buffer_length, conv.output_rate)

\* The playback buffer is never smaller than the resampler buffer.
playback_capacity ==
    Larger(get_buffer_length(conv.playback_buffer_length, conv.output_rate),
           resampler_capacity)
-----------------------------------------------------------------------------
\* resampler_populate finds an empty resampler buffer, and BASS_ChannelGetData
\* gives what there is, or nothing for now, or the end.
read_input_data ==
    /\ pc = "idle" /\ resampled = 0
    /\ \/ \E n \in conv.portions :
             /\ position < conv.frames
             /\ n <= Smaller(input_capacity, conv.frames - position)
             /\ input' = n
             /\ position' = position + n
             /\ source_end' \in {FALSE, n > 0 /\ position + n = conv.frames}
       \/ /\ position = conv.frames
          /\ source_end' = TRUE
          /\ UNCHANGED <<input, position>>
    /\ pc' = "process"
    /\ UNCHANGED <<conv, rate, resampled, playback, soxr_delay, soxr_end, played>>

Process ==
    /\ pc = "process"
    /\ soxr_process(input, resampler_capacity)
    /\ pc' = "convert"
    /\ UNCHANGED <<input, resampled, playback, soxr_delay, source_end, soxr_end,
                   position, played>>

Convert_on ==
    /\ pc = "convert"
    /\ Converting
    /\ UNCHANGED client

\* What read_resampled_data makes of the results.  All of the input is taken
\* for used, whatever soxr_process says.
read_resampled_data ==
    /\ pc = "convert" /\ depth = 0
    /\ soxr_delay' = _soxr_delay
    /\ input' = 0
    /\ resampled' = odone
    /\ soxr_end' = (idone = 0 /\ odone = 0)
    /\ pc' = IF soxr_end' THEN "idle" ELSE "write"
    /\ UNCHANGED <<conv, rate, playback, source_end, position, played>>

\* Either at once or, when they did not fit, in a later call of
\* resampler_populate the frames go to the playback buffer.
read_playback_data ==
    /\ pc = "write" \/ (pc = "idle" /\ resampled > 0)
    /\ IF resampled > playback_capacity - playback
       THEN UNCHANGED <<resampled, playback>>
       ELSE /\ playback' = playback + resampled
            /\ resampled' = 0
    /\ pc' = "idle"
    /\ UNCHANGED <<conv, rate, input, soxr_delay, source_end, soxr_end, position,
                   played>>

\* One request of BASS, after it has populated.  The end of the stream is the
\* business of module Resampler.
resampler_proc ==
    LET n == Smaller(Request, playback)
    IN  /\ pc = "idle"
        /\ playback' = playback - n
        /\ played' = played + n
        /\ UNCHANGED <<conv, rate, input, resampled, soxr_delay, source_end,
                       soxr_end, position, pc>>
-----------------------------------------------------------------------------
Init ==
    /\ InitRate
    /\ input = 0 /\ resampled = 0 /\ playback = 0
    /\ soxr_delay = 0 /\ source_end = FALSE /\ soxr_end = FALSE
    /\ position = 0 /\ played = 0
    /\ pc = "idle"

resampler_populate == \/ read_input_data \/ Process \/ Convert_on
                      \/ read_resampled_data \/ read_playback_data

Next == resampler_populate \/ resampler_proc

Spec == Init /\ [][Next]_vars

\* BASS keeps asking, each time after it has populated, and is not shut out for
\* ever by an application that calls BASS_SOX_StreamBuffer again and again.
FairSpec == Spec /\ WF_vars(resampler_populate) /\ SF_vars(resampler_proc)
-----------------------------------------------------------------------------
\* Bytes of the output as bytes of the source.
ToInput(frames) ==
    CeilDiv(frames * conv.output_frame_size * conv.input_rate, conv.output_rate)

\* A fault to detect: what the converter holds is not counted.
resampler_buffer_length_without_delay ==
    input * conv.input_frame_size + ToInput(resampled) + ToInput(playback)

\* What resampler_buffer_length reports: bytes of the source.  It is negative when
\* nothing waits and the converter is ahead; the code makes a DWORD of it.
resampler_buffer_length ==
    input * conv.input_frame_size + ToInput(resampled) + ToInput(playback)
      + CeilDiv(soxr_delay * conv.output_frame_size, conv.output_rate)
-----------------------------------------------------------------------------
Magnitude(x) == IF x < 0 THEN - x ELSE x

\* How many of its input samples, not counting the zeros it starts with, a stage
\* cannot use: not as many as it looks ahead, and one more perhaps because it starts
\* between two.
Unusable(d) ==
    IF d.kind = "dft" THEN CeilDiv(d.dft_length - 1 - d.post_peak, d.L)
    ELSE pre_post(d) + One_if(first_at(d) > 0) - preload(d)

\* How many it may have left: a stage behind another also fewer than it takes at once,
\* see NothingHeldBack.
Left(s) ==
    LET d == conv.stages[s]
    IN  Unusable(d) + (IF s = 1 \/ d.kind = "dft" THEN 0
                       ELSE InputSize - 1 - pre_post(d))

\* How many samples a stage makes of how many.
Gain(d) ==
    CASE d.kind = "half" -> <<1, 2>>
      [] d.kind = "poly" -> <<d.L, d.step>>
      [] d.kind \in {"interp", "cubic"} -> <<One, d.step>>
      [] d.kind = "dft" /\ d.step > 0 -> <<d.L, d.step>>
      [] d.kind = "dft" /\ d.step < 0 -> <<d.L, DividedBy(d.step)>>

\* How many samples the first s stages make of how many.
Made[s \in 0 .. Len(conv.stages)] ==
    IF s = 0 THEN Fraction(1, 1)
    ELSE Times(Made[s - 1], Gain(conv.stages[s])[1], Gain(conv.stages[s])[2])

\* The samples that the first s stages may hold, as samples of their output.
Holding[s \in 0 .. Len(conv.stages)] ==
    IF s = 0 THEN 0
    ELSE LET d == conv.stages[s]
         IN  CeilDiv((Holding[s - 1] + Left(s)) * Gain(d)[1], Gain(d)[2])

\* A plan for any two of many rates.
PlansKeepRatio ==
    \A i, o \in Rates, quality \in {"QQ", "LQ", "HQ"} :
        LET p == Planned(Fraction(i, o), quality)
        IN  i # o => ~ p.again /\ RatioOf(p) = Fraction(i, o)

TypeOK ==
    /\ fifo \in [Levels -> FifoType]
    /\ stage \in [Stages -> [at : Nat, remM : Nat, input_size : Nat]]
    /\ depth \in Levels \union {0}
    /\ done \in [Levels -> BOOLEAN]
    /\ olen \in 0 .. resampler_capacity /\ odone \in 0 .. olen
    /\ idone \in 0 .. input_capacity
    /\ samples_in \in 0 .. position /\ samples_out \in Nat
    /\ input \in 0 .. input_capacity
    /\ resampled \in 0 .. resampler_capacity
    /\ playback \in 0 .. playback_capacity
    /\ soxr_delay \in Int
    /\ source_end \in BOOLEAN /\ soxr_end \in BOOLEAN
    /\ position \in 0 .. conv.frames /\ played \in Nat
    /\ pc \in {"idle", "process", "convert", "write"}

\* No stage moves its read position beyond the samples that it has, which
\* fifo_read would refuse in silence, and none writes beyond what it reserved.
StagesInBounds ==
    \A s \in Stages :
        /\ Convert(s).used \in 0 .. Occupancy(s)
        /\ Convert(s).made \in 0 .. Convert(s).reserved

\* Whichever stages _soxr_init plans, for any two rates and whatever quality,
\* and then makes of the plan, change the rate by the ratio that was asked for;
\* and the plan is made in two turns of its loop.
RatioKept ==
    /\ Made[Len(conv.stages)] = Fraction(conv.output_rate, conv.input_rate)
    /\ PlansKeepRatio

\* A call that returns less than it was asked for has gone on until every stage
\* had less left than it takes at once.
LessThanATurnLeft ==
    depth = 0 /\ odone < olen =>
        \A s \in Stages : Occupancy(s) < stage[s].input_size

\* And when nothing went in and nothing came out, nothing is left that could be
\* converted, in any stage.  That is the end, as read_resampled_data takes it to be.
NothingHeldBack ==
    /\ LessThanATurnLeft
    /\ depth = 0 /\ olen > 0 /\ idone = 0 /\ odone = 0 =>
          \A s \in Stages : Convert(s).used = 0

\* The converter never holds more than what its filters need to look ahead and its
\* stages may have left, and is never ahead of its input by two samples: rounded to
\* samples, a cubic stage that looks for less than it steps is, by less.
DelayBounded ==
    depth = 0 =>
        /\ - 2 * conv.output_rate < _soxr_delay
        /\ _soxr_delay <= Holding[Len(conv.stages)] * conv.input_rate

\* The queues of the converter do not grow with what passes through them.
MemoryBounded == \A s \in Levels : FifoBounded(fifo[s])

\* BASS_SOX_StreamBufferLength "can be used to calculate the stream position":
\* it is the position of the source less what was played, within the ten bytes
\* that the test BufferLength allows, if it is read as an int as the test does.
LengthFollowsSource ==
    pc = "idle" =>
        Magnitude(resampler_buffer_length * conv.output_rate
                    - position * conv.input_frame_size * conv.output_rate
                    + played * conv.output_frame_size * conv.input_rate)
          <= 10 * conv.output_rate

\* The stages call each other until there is enough or nothing more to come, and
\* that is soon.
ConversionReturns == depth > 0 ~> depth = 0

\* Once the source has been read everything is played and the end is noticed.
EndIsFound ==
    position = conv.frames ~> /\ source_end /\ soxr_end
                         /\ resampled = 0 /\ playback = 0
-----------------------------------------------------------------------------
(***************************************************************************)
(* What is supposed of a converter where the exact ratio is the point.     *)
(***************************************************************************)
\* The step of a stage that interpolates is a fixed-point number, rounded.  A ratio
\* that has one with nothing lost:
Exact(d, ratio) == d.kind \in {"interp", "cubic"} => d.step * ratio.den = One * ratio.num

\* Where this does not hold the code is off the ratio by its rounding, less than
\* 2^-33 of a sample a step.  It holds wherever no stage interpolates, as between
\* 44100 and 48000.
StepsAreExact ==
    \A c \in Converters :
        LET p == Planned(Fraction(c.input_rate, c.output_rate), c.quality)
        IN  \A s \in 1 .. Len(c.stages) :
               Exact(c.stages[s], Times(p.arbM, 1, p.arbL))

\* All that the input buffer can hold is converted in one call: rounding the two
\* buffers to frames did not cost the second one more.  Where it did, what is not
\* converted stays behind, more with every call.
AllIsConverted ==
    \A c \in Converters :
        get_buffer_length(c.input_buffer_length, c.input_rate) * c.output_rate
          <= get_buffer_length(c.input_buffer_length, c.output_rate) * c.input_rate

\* An arbitrary filter looks as far ahead as it steps, and a dft filter reaches a step
\* beyond its peak; the blocks of a dft are whole numbers of steps where it has no
\* position of its own, as lsx_design_lpf is asked for when the phase is linear.
Regular(d) ==
    CASE d.kind \in {"half", "cubic"} -> TRUE
      [] d.kind \in {"poly", "interp"} ->
             d.step <= (d.num_coefs \div 2) * (IF d.kind = "poly" THEN d.L ELSE One)
                         + first_at(d) + 1
      [] d.kind = "dft" ->
             /\ d.post_peak + Larger(d.step, 1) <= d.num_taps
             /\ d.L \in Powers => (d.dft_length - d.num_taps + 1) % d.L = 0
             /\ d.step < 0 =>
                  (d.dft_length - d.num_taps + 1) % DividedBy(d.step) = 0

FiltersAreRegular ==
    \A c \in Converters : \A s \in 1 .. Len(c.stages) : Regular(c.stages[s])

\* What a stage between others makes of a turn is not all swallowed by the stages
\* behind it: need[s] samples in front of stage s are more than it and they may keep,
\* and a turn makes as many.  A turn is 8192 samples and the block of a dft some four
\* to seven times as long as its filter, 1024 at least: so it is where the filters are
\* not very steep.
NeedOf(stages, need) ==
    LET N == Len(stages)
    IN  /\ need \in [1 .. N + 1 -> Nat] /\ need[N + 1] = 1
        /\ \A s \in 2 .. N :
              LET d == stages[s]
                  one_less == (need[s + 1] - 1) * Gain(d)[2]
              IN  /\ (need[s] - Unusable(d)) * Gain(d)[1] > one_less
                  /\ s < N /\ d.kind # "dft" =>
                        (InputSize - pre_post(d)) * Gain(d)[1] >= one_less

TurnsAreFelt == \E need : \A c \in Converters : NeedOf(c.stages, need[c])
=============================================================================
