----------------------------- MODULE Converter ------------------------------
(***************************************************************************)
(* The converter of libsoxr as bass_sox uses it: a chain of stages, each   *)
(* with a queue of samples in front of it, and a last queue behind them.   *)
(* One channel is modelled; all do the same.  What a stage does to the     *)
(* sound is left out, what it takes and makes is not: how many samples it  *)
(* needs beyond the one it is at, how many it reads, how many it writes.   *)
(*                                                                         *)
(* stage_process calls itself for the stage before until there is enough   *)
(* to work on.  Here the call is a level: depth is the stage that is being *)
(* processed, one more than their number in _soxr_process, 0 outside.      *)
(*                                                                         *)
(* Flushing is left out: bass_sox never announces the end of the input.    *)
(***************************************************************************)
EXTENDS Fifo, StagePlan

CONSTANTS
    Converters, \* the converters that a resampler may create
    InputSize   \* the samples that a stage other than a dft takes at once

VARIABLES
    conv,        \* the converter, fixed when it is created
    fifo,        \* the queue in front of each stage, and the last one
    stage,       \* what each stage keeps: at, remM and input_size
    depth,       \* the level that is running
    done,        \* the variable of that name at each level
    olen,        \* the samples that the caller asked for
    idone, odone,\* what soxr_process returns
    samples_in, samples_out

rate == <<fifo, stage, depth, done, olen, idone, odone, samples_in, samples_out>>

Stages == 1 .. Len(conv.stages)
Levels == 1 .. Len(conv.stages) + 1
Last == Len(conv.stages) + 1

Occupancy(s) == fifo_occupancy(fifo[s])

CeilDiv(a, b) == (a + b - 1) \div b
-----------------------------------------------------------------------------
(***************************************************************************)
(* The stages of module StagePlan, by kind:                                *)
(*   "half"    halves the rate, with n coefficients on each side of a pair;*)
(*   "poly"    L/step, from num_coefs samples, with an integer phase;      *)
(*   "interp"  the same with a phase in fixed point;                       *)
(*   "cubic"   the same from four samples;                                 *)
(*   "dft"     blocks of dft_length, L/step, or L/2^-step if step < 0.     *)
(***************************************************************************)
\* A fault to detect: a step of more than three samples is not thought of.
pre_post_of_four(d) ==
    CASE d.kind = "half" -> 4 * d.n
      [] d.kind \in {"poly", "interp"} -> d.num_coefs4 - 1
      [] d.kind = "cubic" -> 3
      [] d.kind = "dft" -> 0

pre_post(d) ==
    CASE d.kind = "half" -> 4 * d.n
      [] d.kind \in {"poly", "interp"} -> d.num_coefs4 - 1
      [] d.kind = "cubic" -> Larger(3, d.step \div One)
      [] d.kind = "dft" -> 0

\* What the design of the filters gives.  A step is less than the samples that an
\* arbitrary filter looks ahead: the rate is halved until the ratio is below four,
\* and the shortest of these filters has ten coefficients.
Designed(d) ==
    CASE d.kind = "half" -> d.n \in Nat \ {0}
      [] d.kind \in {"poly", "interp"} ->
             /\ d.num_coefs \in Nat \ {0} /\ d.num_coefs4 \in Nat
             /\ d.num_coefs <= d.num_coefs4
             /\ d.step \in Nat \ {0}
             /\ d.kind = "poly" => d.L \in Nat \ {0}
             /\ d.step <= (d.num_coefs4 - 1) *
                            (IF d.kind = "poly" THEN d.L ELSE One)
      [] d.kind = "cubic" -> d.step \in Nat \ {0}
      [] d.kind = "dft" ->
             /\ d.L \in Nat \ {0}
             /\ d.step \in Nat \ {0} \/ d.step \in {-1, -2}
             /\ d.dft_length \in Nat /\ d.num_taps \in 1 .. d.dft_length
             /\ d.post_peak \in Nat /\ d.post_peak < d.num_taps
      [] OTHER -> FALSE

\* A stage that needs as many samples around the one it is at as it takes at
\* once would never see that it has too few; 8192 is more than any filter has.
ASSUME ConverterAssumption ==
    /\ One \in Nat \ {0} /\ InputSize \in Nat
    /\ \A c \in Converters :
          /\ c.stages = _soxr_init(c.input_rate, c.output_rate, c.quality)
          /\ Len(c.stages) \in Nat
          /\ \A s \in 1 .. Len(c.stages) :
                /\ Designed(c.stages[s])
                /\ c.stages[s].kind # "dft" => pre_post(c.stages[s]) < InputSize

preload(d) ==
    CASE d.kind = "half" -> 2 * d.n
      [] d.kind \in {"poly", "interp"} ->
             (d.num_coefs - 1) \div 2 + d.num_coefs4 - d.num_coefs
      [] d.kind = "cubic" -> 1
      [] d.kind = "dft" -> d.post_peak \div d.L

first_at(d) ==
    CASE d.kind \in {"half", "cubic"} -> 0
      [] d.kind = "poly" -> (d.L * (d.num_coefs % 2)) \div 2
      [] d.kind = "interp" -> (One * (d.num_coefs % 2)) \div 2
      [] d.kind = "dft" -> d.post_peak % d.L

InputSizeOf(d, at) ==
    IF d.kind = "dft" THEN CeilDiv(d.dft_length - at, d.L) ELSE InputSize

stage_occupancy(s) == Larger(0, Occupancy(s) - pre_post(conv.stages[s]))

\* A walk through num_in samples in steps of step / one, from at / one on.
Walk(num_in, at, step, one) ==
    LET made == IF num_in * one > at THEN CeilDiv(num_in * one - at, step) ELSE 0
        end  == at + made * step
    IN  [used |-> end \div one, made |-> made, at |-> end % one]

\* What the functions of the stages do: the samples read from the queue before,
\* written to and kept in the queue behind, and the next position.
FUNCTION_H(s, num_in) ==
    LET num_out == (num_in + 1) \div 2
    IN  [used |-> 2 * num_out, made |-> num_out, reserved |-> num_out,
         at |-> 0, remM |-> 0]

poly_fir0(s, num_in) ==
    LET d == conv.stages[s]
        w == Walk(num_in, stage[s].at, d.step, d.L)
    IN  [used |-> w.used, made |-> w.made, reserved |-> w.made, at |-> w.at,
         remM |-> 0]

cubic_stage_fn(s, num_in) ==
    LET d == conv.stages[s]
        w == Walk(num_in, stage[s].at, d.step, One)
    IN  [used |-> w.used, made |-> w.made,
         reserved |-> 1 + (num_in * One) \div d.step, at |-> w.at, remM |-> 0]

\* The walk of an interpolated filter is the same.
poly_fir(s, num_in) == cubic_stage_fn(s, num_in)

\* The step that dft_stage_init gives a division by 2 or 4 is -1 or -2.
DividedBy(step) == IF step = -1 THEN 2 ELSE 4

Powers == {2 ^ k : k \in 0 .. 8}

dft_stage_fn(s) ==
    LET d == conv.stages[s]
        at == stage[s].at
        overlap == d.num_taps - 1
        block == d.dft_length - overlap
        span == block - at + d.L - 1
        rem == stage[s].remM
        m == DividedBy(d.step)
        kept == IF block > rem THEN CeilDiv(block - rem, d.step) ELSE 0
    IN  IF at + d.L * Occupancy(s) < d.dft_length
        THEN [used |-> 0, made |-> 0, reserved |-> 0, at |-> at, remM |-> rem]
        ELSE [used |-> span \div d.L,
              reserved |-> d.dft_length,
              made |-> IF d.step > 0 THEN kept
                       ELSE d.dft_length -
                              (((m - 1) * d.dft_length + overlap) \div m),
              at |-> IF d.L \in Powers THEN at ELSE d.L - 1 - (span % d.L),
              remM |-> IF d.step > 0 THEN rem + kept * d.step - block ELSE rem]

Convert(s) ==
    LET num_in == Smaller(stage_occupancy(s), stage[s].input_size)
    IN  CASE conv.stages[s].kind = "half" -> FUNCTION_H(s, num_in)
          [] conv.stages[s].kind = "poly" -> poly_fir0(s, num_in)
          [] conv.stages[s].kind = "interp" -> poly_fir(s, num_in)
          [] conv.stages[s].kind = "cubic" -> cubic_stage_fn(s, num_in)
          [] conv.stages[s].kind = "dft" -> dft_stage_fn(s)
-----------------------------------------------------------------------------
\* A fault to detect: more is taken than there is.
soxr_i_for_o_regardless(len, ilen) ==
    CeilDiv(len * conv.input_rate, conv.output_rate)

\* The input that makes len samples of output, if there is as much.  The code has
\* the quotient in double precision, where it may exceed a whole number by its last
\* bit and be rounded up to one frame more; here it is exact.
soxr_i_for_o(len, ilen) ==
    Smaller(CeilDiv(len * conv.input_rate, conv.output_rate), ilen)

\* soxr_process up to the first queue: the call of _soxr_process begins.
soxr_process(ilen0, len) ==
    LET ilen == soxr_i_for_o(len, ilen0)
    IN  /\ depth = 0
        /\ depth' = Last
        /\ done' = [d \in Levels |-> FALSE]
        /\ olen' = len
        /\ idone' = ilen
        /\ odone' = 0
        /\ samples_in' = samples_in + ilen
        /\ fifo' = IF ilen = 0 THEN fifo
                   ELSE [fifo EXCEPT ![1] = fifo_reserve(@, ilen)]
        /\ UNCHANGED <<conv, stage, samples_out>>

\* What a level still wants to find in its queue.
want(d) == (IF d = Last THEN olen ELSE stage[d].input_size) - Occupancy(d)

\* A fault to detect: the first stage waits for input that is not there.
Pull_waiting ==
    /\ depth > 0 /\ ~ done[depth] /\ want(depth) > 0
    /\ IF depth = 1
       THEN UNCHANGED <<depth, done>>
       ELSE /\ depth' = depth - 1
            /\ done' = [done EXCEPT ![depth - 1] = FALSE]
    /\ UNCHANGED <<conv, fifo, stage, olen, idone, odone, samples_in, samples_out>>

\* One turn of the loop of stage_process, or of _soxr_process: a stage that has
\* too little calls the one before, and the first one has to do with what it has.
Pull ==
    /\ depth > 0 /\ ~ done[depth] /\ want(depth) > 0
    /\ IF depth = 1
       THEN /\ done' = [done EXCEPT ![1] = TRUE]
            /\ UNCHANGED depth
       ELSE /\ depth' = depth - 1
            /\ done' = [done EXCEPT ![depth - 1] = FALSE]
    /\ UNCHANGED <<conv, fifo, stage, olen, idone, odone, samples_in, samples_out>>

\* Whether the stage gets as far as to reserve room in the queue behind it.
Works(s) ==
    CASE conv.stages[s].kind = "poly" -> stage_occupancy(s) > 0
      [] conv.stages[s].kind = "dft" -> Convert(s).reserved > 0
      [] OTHER -> TRUE

\* One call of the function of a stage.
Work(s) ==
    LET c == Convert(s)
        Written(f) == fifo_trim_by(fifo_reserve(f, c.reserved),
                                   c.reserved - c.made)
    IN  /\ fifo' = [fifo EXCEPT ![s] = fifo_read(@, c.used),
                               ![s + 1] = IF Works(s) THEN Written(@) ELSE @]
        /\ stage' = [stage EXCEPT ![s] =
                        [at |-> c.at, remM |-> c.remM,
                         input_size |-> InputSizeOf(conv.stages[s], c.at)]]

\* A fault to detect: a stage is done when the one before is, whatever is left.
stage_process_once ==
    /\ depth \in Stages /\ (done[depth] \/ want(depth) <= 0)
    /\ Work(depth)
    /\ done' = [done EXCEPT ![depth + 1] = done[depth]]
    /\ depth' = depth + 1
    /\ UNCHANGED <<conv, olen, idone, odone, samples_in, samples_out>>

\* The end of stage_process: the stage does its work, and the level above learns
\* whether to call again.
stage_process ==
    /\ depth \in Stages /\ (done[depth] \/ want(depth) <= 0)
    /\ Work(depth)
    /\ done' = [done EXCEPT ![depth + 1] =
                   done[depth] /\ fifo_occupancy(fifo'[depth])
                                    < stage'[depth].input_size]
    /\ depth' = depth + 1
    /\ UNCHANGED <<conv, olen, idone, odone, samples_in, samples_out>>

\* A fault to detect: one sample of every full buffer stays behind.
soxr_output_short ==
    LET n == Smaller(Larger(olen - 1, 0), Occupancy(Last))
    IN  /\ depth = Last /\ (done[Last] \/ want(Last) <= 0)
        /\ fifo' = [fifo EXCEPT ![Last] = fifo_read(@, n)]
        /\ odone' = n
        /\ samples_out' = samples_out + n
        /\ depth' = 0
        /\ UNCHANGED <<conv, stage, done, olen, idone, samples_in>>

\* _soxr_process ends, and _soxr_output hands over what the caller has room for.
soxr_output ==
    LET n == Smaller(olen, Occupancy(Last))
    IN  /\ depth = Last /\ (done[Last] \/ want(Last) <= 0)
        /\ fifo' = [fifo EXCEPT ![Last] = fifo_read(@, n)]
        /\ odone' = n
        /\ samples_out' = samples_out + n
        /\ depth' = 0
        /\ UNCHANGED <<conv, stage, done, olen, idone, samples_in>>

Converting == Pull \/ stage_process \/ soxr_output

\* _soxr_init and _soxr_delay; the delay is in samples of the output, here
\* times the rate of the input.
InitRate ==
    /\ conv \in Converters
    /\ fifo = [s \in Levels |->
                  IF s = Last THEN fifo_create
                  ELSE fifo_reserve(fifo_create, preload(conv.stages[s]))]
    /\ stage = [s \in Stages |->
                  [at |-> first_at(conv.stages[s]), remM |-> 0,
                   input_size |-> InputSizeOf(conv.stages[s],
                                              first_at(conv.stages[s]))]]
    /\ depth = 0
    /\ done = [d \in Levels |-> FALSE]
    /\ olen = 0 /\ idone = 0 /\ odone = 0
    /\ samples_in = 0 /\ samples_out = 0

_soxr_delay == samples_in * conv.output_rate - samples_out * conv.input_rate
=============================================================================
