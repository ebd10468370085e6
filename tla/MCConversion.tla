---------------------------- MODULE MCConversion ----------------------------
(***************************************************************************)
(* Rates small enough for TLC.  Between them the plans have every kind of  *)
(* stage, alone and before and behind others; the filters are as short as  *)
(* their design allows.                                                    *)
(***************************************************************************)
EXTENDS Conversion

MCDftFilter ==
    [L \in 1 .. 4 |->
        IF L = 4
        THEN [num_taps |-> 9, dft_length |-> 16, post_peak |-> 4]
        ELSE IF L = 1
        THEN [num_taps |-> 3, dft_length |-> 8, post_peak |-> 1]
        ELSE [num_taps |-> 5, dft_length |-> 8, post_peak |-> 2]]

\* Lengths are in units of time of which there are Second in a second.
Resampler(input_rate, output_rate, quality, length, frames, portions) ==
    [frames |-> frames, portions |-> portions,
     input_rate |-> input_rate, output_rate |-> output_rate, quality |-> quality,
     input_buffer_length |-> length, playback_buffer_length |-> length - 1,
     input_frame_size |-> 8, output_frame_size |-> 8,
     stages |-> _soxr_init(input_rate, output_rate, quality)]

MCConverters ==
  { Resampler(4, 1, "HQ", 4, 10, 0 .. 10),  \* half, dft 1/2
    Resampler(5, 3, "HQ", 8, 10, 0 .. 10),  \* poly 6/5, dft 1/2
    Resampler(5, 1, "HQ", 4, 10, 0 .. 10),  \* half, dft 1/1, poly 2/5
    Resampler(3, 5, "HQ", 4, 10, 0 .. 10),  \* dft 2/1, interp 5/6
    Resampler(4, 3, "HQ", 4, 10, 0 .. 10),  \* dft 3/4
    Resampler(3, 2, "HQ", 4, 10, 0 .. 10),  \* dft 2/3
    Resampler(3, 5, "LQ", 4, 10, 0 .. 10),  \* poly 10/6
    Resampler(1, 3, "HQ", 8, 10, 0 .. 10),  \* dft 3/1
    Resampler(1, 6, "HQ", 4, 10, 0 .. 10),  \* dft 3/2, dft 4/1
    Resampler(1, 7, "HQ", 8, 10, 0 .. 10),  \* dft 2/1, interp 7/8, dft 4/1
    Resampler(3, 2, "QQ", 4, 10, 0 .. 10),  \* cubic
    Resampler(5, 1, "QQ", 4, 10, 0 .. 10), \* cubic
    Resampler(8, 3, "QQ", 4, 10, 0 .. 10), \* cubic, ahead of its input at times
    Resampler(9, 2, "HQ", 12, 30, {0, 3, 27}) } \* half, dft 1/1, poly 4/9, a turn left

\* 4 to 1, with a buffer of one frame and a quarter.
DropConverters == {Resampler(4, 1, "HQ", 5, 16, 0 .. 16)}

\* Rates that are in use, some that are not, and small ones.
MCRates == {8000, 11025, 16000, 22050, 32000, 44100, 44101, 47999, 48000, 88200,
            96000, 176400, 192000} \union 1 .. 40

\* The samples of NeedOf, counted from the end of the chain.
MCNeed(stages) ==
    LET N == Len(stages)
        from_end[k \in 0 .. N] ==
            IF k = 0 THEN 1
            ELSE LET d == stages[N + 1 - k]
                 IN  Unusable(d) + 1
                       + ((from_end[k - 1] - 1) * Gain(d)[2]) \div Gain(d)[1]
    IN  [s \in 1 .. N + 1 |-> from_end[N + 1 - s]]

\* What the theorems on the ratio, on the delay and on what is held back suppose
\* holds of all of these.
ASSUME MCAssumption ==
    Converters = MCConverters =>
        /\ StepsAreExact /\ AllIsConverted /\ FiltersAreRegular
        /\ \A c \in Converters : NeedOf(c.stages, MCNeed(c.stages))
=============================================================================
