----------------------------- MODULE StagePlan ------------------------------
(***************************************************************************)
(* How _soxr_init chooses the stages of a converter for two rates: first   *)
(* it halves the rate as often as it can, then a dft filter before, an     *)
(* arbitrary ratio arbL / arbM, and a dft filter after it share what is    *)
(* left, each of them there only if its ratio is not 1.                    *)
(*                                                                         *)
(* Ratios are exact fractions.  The code computes in double precision and  *)
(* takes a fraction for rational within some 2^-32; the rates are whole,   *)
(* so that for rates below 2^16 this makes no difference.  What the design *)
(* of the filters gives, how long they are, is a parameter.                *)
(***************************************************************************)
EXTENDS Integers, Sequences

CONSTANTS
    One,        \* MULT32: the fixed-point number 1
    HalfCoefs,  \* the coefficients on each side of a halving filter
    PolyCoefs,  \* the coefficients of a phase of the arbitrary filter
    CoefGroup,  \* they are stored in groups of 4 with SIMD, of 1 without
    CoefSize,   \* the most coefficients that are stored without interpolation
    DftFilter   \* by L: the num_taps, dft_length and post_peak of a dft filter

gcd[p \in Nat \X Nat] == IF p[2] = 0 THEN p[1] ELSE gcd[<<p[2], p[1] % p[2]>>]

Fraction(a, b) == [num |-> a \div gcd[<<a, b>>], den |-> b \div gcd[<<a, b>>]]
Times(x, a, b) == Fraction(x.num * a, x.den * b)
Above(x, a, b) == x.num * b > a * x.den
Below(x, a, b) == x.num * b < a * x.den

\* How often i >>= 1 leaves something.
Shifts[i \in Nat] == IF i < 2 THEN 0 ELSE 1 + Shifts[i \div 2]

TwoTo[n \in Nat] == IF n = 0 THEN 1 ELSE 2 * TwoTo[n - 1]

One_if(condition) == IF condition THEN 1 ELSE 0
-----------------------------------------------------------------------------
\* The quality LQ is simpler when the rate goes up; the others do not differ in
\* what matters here.
Mode(ratio, quality) == IF quality = "LQ" /\ ~ Above(ratio, 1, 1) THEN 0 ELSE 1

maxL(mode) == IF mode = 0 THEN 2381 ELSE 2048

\* One turn of the loop is what these do, one after the other.  The rate is halved
\* as often as it can be.
Halved(p) ==
    LET shr == Shifts[p.arbM.num \div (2 * p.arbM.den)]
    IN  [p EXCEPT !.again = FALSE, !.upsample = Below(p.arbM, 1, 1), !.shr = shr,
                  !.arbM = Times(@, 1, TwoTo[shr])]

\* A fault to detect: the stage after halves the rate once more than planned.
AfterPost_unchanged(p) ==
    LET preM == p.upsample \/ (Above(p.arbM, 3, 2) /\ Below(p.arbM, 2, 1))
    IN  [p EXCEPT !.preM = One_if(preM),
                  !.postM = 1 + One_if(Above(p.arbM, 1, 1) /\ preM)]

\* The stage before leaves some of the work to the stage after, or does not.
AfterPost(p) ==
    LET preM == p.upsample \/ (Above(p.arbM, 3, 2) /\ Below(p.arbM, 2, 1))
        postM == 1 + One_if(Above(p.arbM, 1, 1) /\ preM)
    IN  [p EXCEPT !.preM = One_if(preM), !.postM = postM,
                  !.arbM = Times(@, 1, postM)]

BeforePre(p) ==
    LET preL == 1 + One_if(p.preM = 0 /\ Below(p.arbM, 2, 1))
                  + One_if(p.upsample /\ p.mode > 0)
    IN  [p EXCEPT !.preL = preL, !.arbM = Times(@, preL, 1)]

\* The ratio is taken for rational when its denominator is small enough.
Rational(p) ==
    IF p.arbM.den <= maxL(p.mode)
    THEN [p EXCEPT !.rational = TRUE, !.arbL = p.arbM.den,
                   !.arbM = Fraction(p.arbM.num, 1)]
    ELSE [p EXCEPT !.rational = FALSE, !.arbL = 1]

\* A ratio of large integers is shared by four or more in the last stage.
Optimised(p, d) ==
    LET shifts == Shifts[d.num \div (16 * d.den)]
        postL == 4 * TwoTo[IF shifts > 6 THEN 6 ELSE shifts]
    IN  [p EXCEPT !.postL = postL, !.arbL = 1, !.again = TRUE,
                  !.arbM = Times(@, postL, p.arbL * p.preL)]

\* Few enough coefficients for one dft filter that does it all.
Small(whole) ==
    \/ whole.num < 5 /\ whole.den < 5
    \/ whole.num * whole.den < 6

Combined(p, whole) ==
    [p EXCEPT !.preL = whole.den, !.preM = whole.num, !.postM = 1, !.arbL = 1,
              !.arbM = Fraction(1, 1)]

\* d is the ratio before the last stage, whole the one before it is divided up.
Reduced(p, d, whole) ==
    IF p.postL = 1 /\ Above(d, 4, 1) /\ d # Fraction(5, 1) THEN Optimised(p, d)
    ELSE IF p.rational /\ Small(whole) THEN Combined(p, whole)
    ELSE p

\* The simple mode is given up if it did not lead to an end.
Decided(p) ==
    IF p.mode = 0 /\ (~ p.rational \/ p.again)
    THEN [p EXCEPT !.mode = 1, !.again = TRUE]
    ELSE p

Shared(p) ==
    Reduced(p, Fraction(p.preL * p.arbL * p.arbM.den, p.arbM.num),
               Times(p.arbM, p.postM, p.preL * p.arbL))

Pass(p) == Decided(Shared(Rational(BeforePre(AfterPost(Halved(p))))))

Turn(p) == IF p.again THEN Pass(p) ELSE p

\* Two turns are enough; the quality QQ does without.
Planned(ratio, quality) ==
    Turn(Turn([arbM |-> ratio, arbL |-> 1, preL |-> 1, preM |-> 1, postL |-> 1,
               postM |-> 1, shr |-> 0, rational |-> FALSE, upsample |-> FALSE,
               mode |-> Mode(ratio, quality), again |-> quality # "QQ"]))
-----------------------------------------------------------------------------
Half == [kind |-> "half", n |-> HalfCoefs]

\* dft_stage_init: division by 2 or 4 is done in the domain of frequencies.
Dft(L, M) ==
    [kind |-> "dft", L |-> L, step |-> IF M \in {2, 4} THEN - (M \div 2) ELSE M,
     num_taps |-> DftFilter[L].num_taps, dft_length |-> DftFilter[L].dft_length,
     post_peak |-> DftFilter[L].post_peak]

\* A ratio as a fixed-point number.
Fixed(ratio) == (2 * ratio.num * One + ratio.den) \div (2 * ratio.den)

Cubic(ratio) == [kind |-> "cubic", step |-> Fixed(ratio)]

\* The simple mode has no interpolated filter for a rate that goes up.
OnlyPhases(p) == p.upsample /\ p.mode = 0

\* The arbitrary stage, with a phase for each of arbL, twice as many if all else
\* is odd, or, when those are too many and there is one, with an interpolated one.
Poly(p) ==
    LET num_coefs == PolyCoefs + One_if(PolyCoefs % 2 = 1 /\ p.preM = 0)
        num_coefs4 == CoefGroup * ((num_coefs + CoefGroup - 1) \div CoefGroup)
        twice == 1 + One_if(num_coefs % 2 = 1 /\ p.arbL % 2 = 1)
    IN  IF p.rational /\ (twice * p.arbL * num_coefs4 <= CoefSize \/ OnlyPhases(p))
        THEN [kind |-> "poly", num_coefs |-> num_coefs, num_coefs4 |-> num_coefs4,
              L |-> twice * p.arbL, step |-> twice * p.arbM.num]
        ELSE [kind |-> "interp", num_coefs |-> num_coefs,
              num_coefs4 |-> num_coefs4, step |-> Fixed(Times(p.arbM, 1, p.arbL))]

\* The stages of a plan.
StagesOf(p, quality) ==
    LET arb == p.arbM # Fraction(1, 1) \/ p.arbL # 1
        If(condition, stage) == IF condition THEN <<stage>> ELSE <<>>
    IN  [i \in 1 .. p.shr |-> Half]
          \o If(p.preM * p.preL # 1,
                Dft(p.preL, IF p.preM > 1 THEN p.preM ELSE 1))
          \o If(arb, IF quality = "QQ" THEN Cubic(p.arbM) ELSE Poly(p))
          \o If(p.postM * p.postL # 1, Dft(p.postL, p.postM))

_soxr_init(input_rate, output_rate, quality) ==
    StagesOf(Planned(Fraction(input_rate, output_rate), quality), quality)

\* The ratio of the rates that the stages of a plan make together.
RatioOf(p) ==
    Times(Times(p.arbM, TwoTo[p.shr], p.arbL),
          (IF p.preM > 1 THEN p.preM ELSE 1) * p.postM, p.preL * p.postL)
=============================================================================
