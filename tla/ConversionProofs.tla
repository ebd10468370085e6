-------------------------- MODULE ConversionProofs --------------------------
(***************************************************************************)
(* Whatever the rates, the filters and the lengths of the buffers, and     *)
(* however much the source gives at a time: no stage of the converter      *)
(* leaves its queues, the queues do not grow with what passes through      *)
(* them, a conversion goes on as long as a stage has a full turn, and the  *)
(* length that is reported tells the position of the source.  The stages   *)
(* make together the ratio of the rates, the converter never holds more    *)
(* than they may have left, and when it makes nothing nothing is left.     *)
(***************************************************************************)
EXTENDS Conversion, StagePlanProofs

(***************************************************************************)
(* Whole numbers.                                                          *)
(***************************************************************************)
LEMMA Ceiling ==
    ASSUME NEW a \in Int, NEW b \in Nat \ {0}
    PROVE  /\ CeilDiv(a, b) \in Int
           /\ a <= CeilDiv(a, b) * b /\ CeilDiv(a, b) * b < a + b
           /\ a \in Nat => CeilDiv(a, b) \in Nat
  <1> DEFINE q == (a + b - 1) \div b
  <1>1. a + b - 1 \in Int /\ (a \in Nat => a + b - 1 \in Nat)
    OBVIOUS
  <1>2. /\ q \in Int /\ q * b <= a + b - 1 /\ a + b - 1 < q * b + b
        /\ a \in Nat => q \in Nat
    BY <1>1, Quotient
  <1>3. q * b \in Int
    BY <1>2, SMT
  <1> HIDE DEF q
  <1>4. a <= q * b /\ q * b < a + b
    BY <1>2, <1>3
  <1> QED
    BY <1>2, <1>4 DEF CeilDiv, q

\* Rounding up, a whole number that is large enough is not passed.
LEMMA CeilingWithin ==
    ASSUME NEW a \in Int, NEW b \in Nat \ {0}, NEW n \in Int, a <= n * b
    PROVE  CeilDiv(a, b) <= n
  <1> DEFINE c == CeilDiv(a, b)
  <1>1. c \in Int /\ c * b < a + b
    BY Ceiling
  <1> HIDE DEF c
  <1>2. c * b < (n + 1) * b
    BY <1>1, SMT
  <1>3. c < n + 1
    BY <1>1, <1>2, Cancel
  <1> QED
    BY <1>1, <1>3 DEF c
-----------------------------------------------------------------------------
(***************************************************************************)
(* The queue.                                                              *)
(***************************************************************************)
Sound(f) == f \in FifoType /\ FifoBounded(f)

LEMMA ReserveKeeps ==
    ASSUME NEW f, Sound(f), NEW n \in Nat
    PROVE  /\ Sound(fifo_reserve(f, n))
           /\ fifo_occupancy(fifo_reserve(f, n)) = fifo_occupancy(f) + n
  <1> DEFINE g == Restarted(f)
             h == Moved(g, n)
  <1>1. /\ g \in FifoType /\ g.begin <= g.end /\ g.end <= g.allocation
        /\ g.allocation = f.allocation /\ g.peak = f.peak
        /\ fifo_occupancy(g) = fifo_occupancy(f)
    <2>1. CASE f.begin = f.end
      <3>1. g = [f EXCEPT !.begin = 0, !.end = 0]
        BY <2>1 DEF Restarted
      <3> QED
        <4> HIDE DEF g
        <4>1. f \in FifoType
          BY DEF Sound
        <4>2. /\ g \in FifoType /\ g.begin = 0 /\ g.end = 0
              /\ g.allocation = f.allocation /\ g.peak = f.peak
          BY <3>1, <4>1 DEF FifoType
        <4> QED
          BY <2>1, <4>1, <4>2 DEF FifoType, fifo_occupancy
    <2>2. CASE f.begin # f.end
      BY <2>2 DEF Sound, FifoType, FifoBounded, Restarted, fifo_occupancy
    <2> QED
      BY <2>1, <2>2
  <1> HIDE DEF g
  <1>2. /\ h \in FifoType /\ h.begin <= h.end /\ h.end <= h.allocation
        /\ h.allocation = g.allocation /\ h.peak = g.peak
        /\ fifo_occupancy(h) = fifo_occupancy(g)
        /\ Fits(h, n) \/ h.begin <= FIFO_MIN
    <2>1. CASE ~ Fits(g, n) /\ g.begin > FIFO_MIN
      <3>1. h = [g EXCEPT !.begin = 0, !.end = g.end - g.begin]
        BY <2>1 DEF Moved
      <3> QED
        <4> HIDE DEF h
        <4>1. /\ g.end - g.begin \in Nat /\ g.end \in Nat /\ g.begin \in Nat
              /\ g.allocation \in Nat
          BY <1>1 DEF FifoType
        <4>2. /\ h \in FifoType /\ h.begin = 0 /\ h.end = g.end - g.begin
              /\ h.allocation = g.allocation /\ h.peak = g.peak
          BY <1>1, <3>1, <4>1 DEF FifoType
        <4> QED
          BY <1>1, <4>1, <4>2, FifoAssumption DEF fifo_occupancy
    <2>2. CASE ~ (~ Fits(g, n) /\ g.begin > FIFO_MIN)
      <3>1. h = g
        BY <2>2 DEF Moved
      <3> QED
        BY <1>1, <2>2, <3>1, FifoAssumption DEF FifoType, fifo_occupancy
    <2> QED
      BY <2>1, <2>2
  <1> HIDE DEF h
  <1> DEFINE r == [h EXCEPT !.end = @ + n,
                            !.allocation = IF Fits(h, n) THEN @ ELSE @ + n,
                            !.peak = Larger(@, fifo_occupancy(f) + n)]
  <1>3. r \in FifoType
    <2> DEFINE a == IF Fits(h, n) THEN h.allocation ELSE h.allocation + n
               o == fifo_occupancy(f) + n
               m == Larger(h.peak, o)
    <2>1. o \in Nat
      BY DEF Sound, FifoType, FifoBounded, fifo_occupancy
    <2> HIDE DEF o
    <2>2. a \in Nat /\ m \in Nat /\ h.end + n \in Nat
      BY <1>2, <2>1 DEF FifoType, Larger
    <2>3. r = [h EXCEPT !.end = h.end + n, !.allocation = a, !.peak = m]
      BY <1>2 DEF FifoType, o
    <2> HIDE DEF r, a, m
    <2> QED
      BY <1>2, <2>2, <2>3 DEF FifoType
  <1>4. /\ r.begin = h.begin /\ r.end = h.end + n
        /\ r.allocation = IF Fits(h, n) THEN h.allocation ELSE h.allocation + n
        /\ r.peak = Larger(h.peak, fifo_occupancy(f) + n)
    BY <1>2 DEF FifoType
  <1>5. r = fifo_reserve(f, n)
    BY DEF fifo_reserve, g, h
  <1> HIDE DEF r
  <1>6. fifo_occupancy(r) = fifo_occupancy(f) + n
    BY <1>1, <1>2, <1>4 DEF FifoType, fifo_occupancy
  <1>7. FifoBounded(r)
    BY <1>1, <1>2, <1>3, <1>4, FifoAssumption
       DEF Sound, FifoType, FifoBounded, Larger, Fits, fifo_occupancy
  <1> QED
    BY <1>3, <1>5, <1>6, <1>7 DEF Sound

LEMMA TrimKeeps ==
    ASSUME NEW f, Sound(f), NEW n \in Nat, n <= fifo_occupancy(f)
    PROVE  Sound(fifo_trim_by(f, n))
    BY FifoAssumption DEF Sound, FifoType, FifoBounded, fifo_trim_by, fifo_occupancy

LEMMA ReadKeeps ==
    ASSUME NEW f, Sound(f), NEW n \in Nat
    PROVE  Sound(fifo_read(f, n))
    BY FifoAssumption DEF Sound, FifoType, FifoBounded, fifo_read, fifo_occupancy

LEMMA CreateIsSound == Sound(fifo_create)
    BY FifoAssumption DEF Sound, FifoType, FifoBounded, fifo_create, fifo_occupancy

LEMMA OccupancyIsNat ==
    ASSUME NEW f, Sound(f)
    PROVE  fifo_occupancy(f) \in Nat
    BY DEF Sound, FifoType, FifoBounded, fifo_occupancy
-----------------------------------------------------------------------------
(***************************************************************************)
(* What a stage takes and makes, kind by kind.                             *)
(***************************************************************************)
LEMMA WalkOfNothing ==
    ASSUME NEW at \in Nat, NEW step \in Nat \ {0}, NEW one \in Nat \ {0},
           at < one
    PROVE  Walk(0, at, step, one).used = 0
  <1>1. at \div one = 0
    <2> DEFINE q == at \div one
    <2>1. q \in Nat /\ q * one <= at
      BY Quotient
    <2>2. q * one < 1 * one
      BY <2>1
    <2> HIDE DEF q
    <2>3. q < 1
      BY <2>1, <2>2, Cancel
    <2> QED
      BY <2>1, <2>3 DEF q
  <1>2. ~ (0 * one > at) /\ at + 0 * step = at
    BY SMT
  <1> QED
    BY <1>1, <1>2 DEF Walk

\* A walk takes no more than its input and what its last step reaches beyond it,
\* and makes no more than there are steps in it, and one.
LEMMA WalkStays ==
    ASSUME NEW n \in Nat, NEW at \in Nat, NEW step \in Nat \ {0},
           NEW one \in Nat \ {0}, at < one,
           NEW ahead \in Nat, step < (ahead + 1) * one
    PROVE  /\ Walk(n, at, step, one).used \in Nat
           /\ Walk(n, at, step, one).made \in Nat
           /\ Walk(n, at, step, one).at \in 0 .. one - 1
           /\ Walk(n, at, step, one).used <= n + ahead
           /\ Walk(n, at, step, one).made <= 1 + ((n * one) \div step)
  <1> DEFINE all == n * one
             made == IF all > at THEN CeilDiv(all - at, step) ELSE 0
             end == at + made * step
             used == end \div one
             turns == all \div step
  <1>1. all \in Nat
    BY Product
  <1>2. /\ made \in Nat /\ end \in Nat
        /\ all > at => made * step < all - at + step /\ end < all + step
        /\ all <= at => made = 0 /\ end = at
    <2>1. CASE all > at
      <3>1. all - at \in Nat
        BY <1>1, <2>1
      <3>2. made = CeilDiv(all - at, step)
        BY <2>1
      <3> HIDE DEF made, all
      <3>3. made \in Nat /\ made * step < all - at + step
        BY <3>1, <3>2, Ceiling
      <3>4. made * step \in Nat
        BY <3>3, Product
      <3> QED
        BY <1>1, <2>1, <3>3, <3>4
    <2>2. CASE ~ (all > at)
      BY <1>1, <2>2
    <2> QED
      BY <2>1, <2>2
  <1>3. used \in Nat /\ used * one <= end /\ end % one \in 0 .. one - 1
    <2> HIDE DEF end
    <2>1. end \in Int
      BY <1>2
    <2> QED
      BY <1>2, <2>1, Quotient, Division
  <1>4. Walk(n, at, step, one) = [used |-> used, made |-> made, at |-> end % one]
    BY DEF Walk
  <1>5. used * one \in Nat
    BY <1>3, Product
  <1> HIDE DEF used, end, made
  <1>6. all <= at => used = 0
    <2> SUFFICES ASSUME all <= at
                 PROVE  used = 0
      OBVIOUS
    <2>1. used * one < 1 * one
      BY <1>2, <1>3, <1>5
    <2>2. used < 1
      BY <2>1, <1>3, Cancel
    <2> QED
      BY <2>2, <1>3
  <1>8. used <= n + ahead
    <2>1. CASE all <= at
      BY <1>6, <2>1
    <2>2. CASE all > at
      <3>1. (ahead + 1) * one \in Nat
        BY Product
      <3>2. (n + ahead + 1) * one = all + (ahead + 1) * one
        BY SMT
      <3>3. used * one < (n + ahead + 1) * one
        BY <1>1, <1>2, <1>3, <1>5, <2>2, <3>1, <3>2
      <3>4. used < n + ahead + 1
        BY <3>3, <1>3, Cancel
      <3> QED
        BY <3>4, <1>3
    <2> QED
      BY <2>1, <2>2, <1>1
  <1>9. made <= 1 + turns
    <2>1. turns \in Nat /\ all < turns * step + step
      BY <1>1, Quotient
    <2>2. turns * step \in Nat /\ (turns + 2) * step = turns * step + step + step
      BY <2>1, Product, SMT
    <2> HIDE DEF turns, all
    <2>3. CASE all <= at
      BY <1>2, <2>1, <2>3
    <2>4. CASE all > at
      <3>1. made * step \in Nat
        BY <1>2, Product
      <3>2. made * step < (turns + 2) * step
        BY <1>1, <1>2, <2>1, <2>2, <2>4, <3>1
      <3>3. made < turns + 2
        BY <3>2, <1>2, <2>1, Cancel
      <3> QED
        BY <3>3, <1>2, <2>1
    <2> QED
      BY <2>3, <2>4, <1>1
  <1> QED
    BY <1>2, <1>3, <1>4, <1>8, <1>9

LEMMA OneIsPositive == One \in Nat \ {0}
    BY ConverterAssumption

\* What a stage is at is less than this.
Phases(d) ==
    CASE d.kind = "half" -> 1
      [] d.kind = "poly" -> d.L
      [] d.kind \in {"interp", "cubic"} -> One
      [] d.kind = "dft" -> d.L

\* What a stage does with a queue of o samples.
Stays(c, o, below) ==
    /\ c.used \in 0 .. o
    /\ c.made \in Nat /\ c.reserved \in Nat /\ c.made <= c.reserved
    /\ c.at \in Nat /\ c.at < below /\ c.remM \in Nat

LEMMA HalfStays ==
    ASSUME NEW s, NEW n \in Nat, NEW o \in Nat, n = 0 \/ n + 1 <= o
    PROVE  Stays(FUNCTION_H(s, n), o, 1)
  <1> DEFINE m == (n + 1) \div 2
  <1>1. m \in Nat /\ 2 * m <= n + 1 /\ (n = 0 => m = 0)
    OBVIOUS
  <1>2. FUNCTION_H(s, n) = [used |-> 2 * m, made |-> m, reserved |-> m,
                            at |-> 0, remM |-> 0]
    BY DEF FUNCTION_H
  <1> HIDE DEF m
  <1> QED
    BY <1>1, <1>2 DEF Stays

\* The stages that walk, when they look ahead at least as far as they step.
LEMMA PolyStays ==
    ASSUME NEW s, NEW n \in Nat, NEW o \in Nat, NEW ahead \in Nat,
           n = 0 \/ n + ahead <= o,
           conv.stages[s].step \in Nat \ {0}, conv.stages[s].L \in Nat \ {0},
           conv.stages[s].step < (ahead + 1) * conv.stages[s].L,
           stage[s].at \in Nat, stage[s].at < conv.stages[s].L
    PROVE  Stays(poly_fir0(s, n), o, conv.stages[s].L)
  <1> DEFINE step == conv.stages[s].step
             one == conv.stages[s].L
             at == stage[s].at
             w == Walk(n, at, step, one)
  <1>1. /\ w.used \in Nat /\ w.made \in Nat /\ w.at \in 0 .. one - 1
        /\ w.used = 0 \/ n > 0
        /\ w.used <= n + ahead
    <2>1. /\ step \in Nat \ {0} /\ one \in Nat \ {0} /\ step < (ahead + 1) * one
          /\ at \in Nat /\ at < one
      OBVIOUS
    <2> HIDE DEF step, one, at
    <2>2. w.used \in Nat /\ w.made \in Nat /\ w.used <= n + ahead
      BY <2>1, WalkStays
    <2>3. w.at \in 0 .. one - 1
      BY <2>1, WalkStays
    <2>4. Walk(0, at, step, one).used = 0
      BY <2>1, WalkOfNothing
    <2>5. w.used = 0 \/ n > 0
      BY <2>4
    <2> HIDE DEF w
    <2> QED
      BY <2>1, <2>2, <2>3, <2>5
  <1>2. poly_fir0(s, n) = [used |-> w.used, made |-> w.made, reserved |-> w.made,
                           at |-> w.at, remM |-> 0]
    BY DEF poly_fir0
  <1> HIDE DEF w
  <1> QED
    BY <1>1, <1>2 DEF Stays

LEMMA CubicStays ==
    ASSUME NEW s, NEW n \in Nat, NEW o \in Nat, NEW ahead \in Nat,
           n = 0 \/ n + ahead <= o,
           conv.stages[s].step \in Nat \ {0},
           conv.stages[s].step < (ahead + 1) * One,
           stage[s].at \in Nat, stage[s].at < One
    PROVE  Stays(cubic_stage_fn(s, n), o, One)
  <1> DEFINE step == conv.stages[s].step
             at == stage[s].at
             w == Walk(n, at, step, One)
             r == 1 + ((n * One) \div step)
  <1>1. /\ w.used \in Nat /\ w.made \in Nat /\ w.at \in 0 .. One - 1
        /\ w.used = 0 \/ n > 0
        /\ w.used <= n + ahead
        /\ w.made <= r
    <2>1. /\ step \in Nat \ {0} /\ One \in Nat \ {0} /\ step < (ahead + 1) * One
          /\ at \in Nat /\ at < One
      BY OneIsPositive
    <2> HIDE DEF step, at
    <2>2. /\ w.used \in Nat /\ w.made \in Nat /\ w.at \in 0 .. One - 1
          /\ w.used <= n + ahead
          /\ w.made <= r
      BY <2>1, WalkStays
    <2>3. Walk(0, at, step, One).used = 0
      BY <2>1, WalkOfNothing
    <2>4. w.used = 0 \/ n > 0
      BY <2>3
    <2> HIDE DEF w, r
    <2> QED
      BY <2>1, <2>2, <2>4
  <1>2. r \in Nat
    <2>1. n * One \in Nat
      BY Product, OneIsPositive
    <2>2. conv.stages[s].step \in Nat \ {0}
      OBVIOUS
    <2> QED
      BY <2>1, <2>2, Quotient
  <1>3. cubic_stage_fn(s, n) = [used |-> w.used, made |-> w.made, reserved |-> r,
                                at |-> w.at, remM |-> 0]
    BY DEF cubic_stage_fn
  <1> HIDE DEF w, r
  <1> QED
    BY <1>1, <1>2, <1>3, OneIsPositive DEF Stays

\* A block of a dft: what it reads and keeps.
LEMMA DftReads ==
    ASSUME NEW o \in Nat, NEW L \in Nat \ {0}, NEW at \in Nat, at < L,
           NEW length \in Nat, NEW num_taps \in 1 .. length, at + L * o >= length
    PROVE  /\ (length - (num_taps - 1) - at + L - 1) \in Nat
           /\ (length - (num_taps - 1) - at + L - 1) \div L \in 0 .. o
  <1> DEFINE span == length - (num_taps - 1) - at + L - 1
             used == span \div L
  <1>1. span \in Nat
    OBVIOUS
  <1>2. used \in Nat /\ used * L <= span
    BY <1>1, Quotient
  <1>3. used * L < (o + 1) * L
    <2>1. (o + 1) * L = L * o + L /\ L * o \in Nat /\ used * L \in Nat
      BY <1>2, SMT
    <2> HIDE DEF used
    <2> QED
      BY <1>1, <1>2, <2>1
  <1> HIDE DEF used
  <1>4. used < o + 1
    BY <1>2, <1>3, Cancel
  <1> QED
    BY <1>1, <1>2, <1>4 DEF used

LEMMA DftDecimates ==
    ASSUME NEW block \in Nat, NEW rem \in Nat, NEW step \in Nat \ {0}, block > rem
    PROVE  /\ CeilDiv(block - rem, step) \in 0 .. block
           /\ rem + CeilDiv(block - rem, step) * step - block \in Nat
  <1> DEFINE kept == CeilDiv(block - rem, step)
  <1>1. block - rem \in Nat /\ block - rem \in Int
    OBVIOUS
  <1>2. kept \in Nat /\ block - rem <= kept * step
    BY <1>1, Ceiling
  <1>3. block - rem <= block * step
    <2>1. block * 1 <= block * step
      BY SMT
    <2> QED
      BY <2>1, SMT
  <1>4. kept <= block
    BY <1>1, <1>3, CeilingWithin
  <1>5. kept * step \in Nat
    BY <1>2, Product
  <1> HIDE DEF kept
  <1>6. kept \in 0 .. block /\ rem + kept * step - block \in Nat
    BY <1>2, <1>4, <1>5
  <1> QED
    BY <1>6 DEF kept

LEMMA DftHalves ==
    ASSUME NEW length \in Nat, NEW overlap \in Nat, overlap < length,
           NEW m \in Nat \ {0}
    PROVE  length - (((m - 1) * length + overlap) \div m) \in 0 .. length
  <1> DEFINE x == (m - 1) * length + overlap
             q == x \div m
  <1>1. x \in Nat /\ x < length * m
    <2>1. (m - 1) * length \in Nat /\ (m - 1) * length = length * m - length
      BY SMT
    <2>2. length * m \in Nat
      BY Product
    <2> QED
      BY <2>1, <2>2
  <1> HIDE DEF x
  <1>2. q \in Nat /\ q * m <= x
    BY <1>1, Quotient
  <1>3. q * m \in Nat /\ length * m \in Nat
    BY <1>2, Product
  <1> HIDE DEF q
  <1>4. q < length
    BY <1>1, <1>2, <1>3, Cancel
  <1> QED
    BY <1>2, <1>4 DEF q, x

LEMMA DftStays ==
    ASSUME NEW s, conv.stages[s].kind = "dft", Designed(conv.stages[s]),
           Occupancy(s) \in Nat,
           stage[s].at \in Nat, stage[s].at < conv.stages[s].L, stage[s].remM \in Nat
    PROVE  Stays(dft_stage_fn(s), Occupancy(s), conv.stages[s].L)
  <1> DEFINE d == conv.stages[s]
             L == d.L
             step == d.step
             length == d.dft_length
             num_taps == d.num_taps
             overlap == num_taps - 1
             block == length - overlap
             at == stage[s].at
             rem == stage[s].remM
             o == Occupancy(s)
             span == block - at + L - 1
             m == DividedBy(step)
             kept == IF block > rem THEN CeilDiv(block - rem, step) ELSE 0
             made == IF step > 0 THEN kept
                     ELSE length - (((m - 1) * length + overlap) \div m)
             next == IF L \in Powers THEN at ELSE L - 1 - (span % L)
             left == IF step > 0 THEN rem + kept * step - block ELSE rem
  <1>1. /\ L \in Nat \ {0} /\ (step \in Nat \ {0} \/ step \in {-1, -2})
        /\ length \in Nat /\ num_taps \in 1 .. length
        /\ at \in Nat /\ at < L /\ rem \in Nat /\ o \in Nat
    BY DEF Designed
  <1>2. dft_stage_fn(s) =
          IF at + L * o < length
          THEN [used |-> 0, made |-> 0, reserved |-> 0, at |-> at, remM |-> rem]
          ELSE [used |-> span \div L, reserved |-> length, made |-> made,
                at |-> next, remM |-> left]
    BY DEF dft_stage_fn
  <1> HIDE DEF d, L, step, length, num_taps, at, rem, o
  <1>3. CASE at + L * o < length
    <2>1. dft_stage_fn(s) =
            [used |-> 0, made |-> 0, reserved |-> 0, at |-> at, remM |-> rem]
      BY <1>2, <1>3
    <2>2. Stays(dft_stage_fn(s), o, L)
      BY <1>1, <2>1 DEF Stays
    <2> QED
      BY <2>2 DEF o, L, d
  <1>4. CASE ~ (at + L * o < length)
    <2>1. overlap \in Nat /\ overlap < length /\ block \in 1 .. length
      BY <1>1
    <2>2. span \in Nat /\ span \div L \in 0 .. o
      <3>1. L * o \in Nat
        BY <1>1, Product
      <3>2. at + L * o >= length
        BY <1>1, <1>4, <3>1
      <3> QED
        BY <1>1, <3>2, DftReads
    <2>3. made \in 0 .. length /\ left \in Nat
      <3>1. CASE step > 0 /\ block > rem
        <4>1. step \in Nat \ {0} /\ block \in Nat
          BY <1>1, <2>1, <3>1
        <4> HIDE DEF block
        <4>2. /\ CeilDiv(block - rem, step) \in 0 .. block
              /\ rem + CeilDiv(block - rem, step) * step - block \in Nat
          BY <1>1, <3>1, <4>1, DftDecimates
        <4> QED
          BY <1>1, <2>1, <3>1, <4>2
      <3>2. CASE step > 0 /\ ~ (block > rem)
        <4>1. kept = 0 /\ made = 0 /\ left = rem + 0 * step - block
          BY <3>2
        <4>2. 0 * step = 0
          BY <1>1, SMT
        <4> QED
          BY <1>1, <2>1, <3>2, <4>1, <4>2
      <3>3. CASE ~ (step > 0)
        <4>1. m \in Nat \ {0}
          BY DEF DividedBy
        <4> HIDE DEF m
        <4>2. length - (((m - 1) * length + overlap) \div m) \in 0 .. length
          BY <1>1, <2>1, <4>1, DftHalves
        <4> QED
          BY <1>1, <3>3, <4>2
      <3> QED
        BY <3>1, <3>2, <3>3
    <2>4. next \in Nat /\ next < L
      <3>1. span % L \in 0 .. L - 1
        BY <1>1, <2>2, Division
      <3> HIDE DEF span
      <3> QED
        BY <1>1, <3>1
    <2> HIDE DEF span, made, next, left
    <2>5. dft_stage_fn(s) = [used |-> span \div L, reserved |-> length,
                             made |-> made, at |-> next, remM |-> left]
      BY <1>2, <1>4
    <2>6. Stays(dft_stage_fn(s), o, L)
      BY <1>1, <2>2, <2>3, <2>4, <2>5 DEF Stays
    <2> QED
      BY <2>6 DEF o, L, d
  <1> QED
    BY <1>3, <1>4

\* The stages of the converter are designed.
StageSound(s) ==
    /\ stage[s].at \in Nat /\ stage[s].at < Phases(conv.stages[s])
    /\ stage[s].remM \in Nat /\ stage[s].input_size \in Nat

LEMMA LooksAhead ==
    ASSUME NEW d, Designed(d), d.kind \in {"poly", "interp", "cubic"}
    PROVE  LET one == IF d.kind = "poly" THEN d.L ELSE One
           IN  /\ pre_post(d) \in Nat /\ d.step \in Nat \ {0}
               /\ one \in Nat \ {0} /\ one = Phases(d)
               /\ d.step < (pre_post(d) + 1) * one
  <1> DEFINE one == IF d.kind = "poly" THEN d.L ELSE One
             step == d.step
  <1>1. step \in Nat \ {0} /\ one \in Nat \ {0} /\ one = Phases(d)
    BY OneIsPositive DEF Designed, Phases
  <1>2. CASE d.kind \in {"poly", "interp"}
    <2> DEFINE ahead == d.num_coefs4 - 1
    <2>1. /\ d.num_coefs \in Nat \ {0} /\ d.num_coefs4 \in Nat
          /\ d.num_coefs <= d.num_coefs4
          /\ step <= ahead * one /\ pre_post(d) = ahead
      <3>1. CASE d.kind = "poly"
        BY <3>1 DEF Designed, pre_post
      <3>2. CASE d.kind = "interp"
        BY <3>2 DEF Designed, pre_post
      <3> QED
        BY <1>2, <3>1, <3>2
    <2>2. ahead \in Nat
      BY <2>1
    <2> HIDE DEF step, one, ahead
    <2>3. (ahead + 1) * one = ahead * one + one /\ ahead * one \in Nat
      BY <1>1, <2>2, SMT
    <2>4. step < (ahead + 1) * one
      BY <1>1, <2>1, <2>2, <2>3
    <2> QED
      BY <1>1, <2>1, <2>2, <2>4 DEF step, one
  <1>3. CASE d.kind = "cubic"
    <2> DEFINE turns == step \div One
               ahead == Larger(3, turns)
    <2>1. turns \in Nat /\ step < turns * One + One
      <3> HIDE DEF step
      <3>1. step \in Int /\ step \in Nat
        BY <1>1
      <3> QED
        BY <3>1, Quotient, OneIsPositive
    <2>2. pre_post(d) = ahead /\ one = One
      BY <1>3 DEF pre_post
    <2> HIDE DEF step, turns, one
    <2>3. ahead \in Nat /\ turns <= ahead
      BY <2>1 DEF Larger
    <2> HIDE DEF ahead
    <2>4. turns * One <= ahead * One
      BY <2>1, <2>3, Scale, OneIsPositive
    <2>5. (ahead + 1) * One = ahead * One + One
      BY <2>3, OneIsPositive, SMT
    <2>6. turns * One \in Nat /\ ahead * One \in Nat
      BY <2>1, <2>3, Product, OneIsPositive
    <2>7. step < (ahead + 1) * One
      BY <1>1, <2>1, <2>4, <2>5, <2>6, OneIsPositive
    <2> QED
      BY <1>1, <2>2, <2>3, <2>7 DEF step, one
  <1> QED
    BY <1>2, <1>3

\* A stage reads no more than there is and writes no more than it reserved.
LEMMA ConvertStays ==
    ASSUME NEW s, Designed(conv.stages[s]), StageSound(s), Occupancy(s) \in Nat
    PROVE  Stays(Convert(s), Occupancy(s), Phases(conv.stages[s]))
  <1> DEFINE d == conv.stages[s]
             o == Occupancy(s)
             n == Smaller(stage_occupancy(s), stage[s].input_size)
  <1>1. CASE d.kind = "dft"
    <2>1. Convert(s) = dft_stage_fn(s) /\ Phases(d) = d.L
      BY <1>1 DEF Convert, Phases
    <2> QED
      BY <1>1, <2>1, DftStays DEF StageSound
  <1>2. ASSUME pre_post(d) \in Nat
        PROVE  n \in Nat /\ (n = 0 \/ n + pre_post(d) <= o)
    BY <1>2 DEF StageSound, stage_occupancy, Larger, Smaller
  <1>3. CASE d.kind = "half"
    <2>1. /\ Convert(s) = FUNCTION_H(s, n) /\ Phases(d) = 1
          /\ pre_post(d) \in Nat /\ pre_post(d) >= 1
      BY <1>3 DEF Convert, Phases, pre_post, Designed
    <2> HIDE DEF n, o, d
    <2>2. n \in Nat /\ o \in Nat /\ (n = 0 \/ n + 1 <= o)
      BY <1>2, <2>1 DEF o
    <2>3. Stays(FUNCTION_H(s, n), o, 1)
      BY <2>2, HalfStays
    <2> QED
      BY <2>1, <2>3 DEF o, d
  <1>4. CASE d.kind = "poly"
    <2>1. /\ Convert(s) = poly_fir0(s, n) /\ Phases(d) = d.L
          /\ pre_post(d) \in Nat /\ d.step \in Nat \ {0} /\ d.L \in Nat \ {0}
          /\ d.step < (pre_post(d) + 1) * d.L
      BY <1>4, LooksAhead DEF Convert, Phases
    <2>2. stage[s].at \in Nat /\ stage[s].at < d.L
      BY <2>1 DEF StageSound
    <2>3. n \in Nat /\ (n = 0 \/ n + pre_post(d) <= o)
      BY <1>2, <2>1
    <2> HIDE DEF n
    <2>4. Stays(poly_fir0(s, n), o, d.L)
      BY <2>1, <2>2, <2>3, PolyStays
    <2> QED
      BY <2>1, <2>4
  <1>5. CASE d.kind \in {"interp", "cubic"}
    <2>1. /\ Convert(s) = cubic_stage_fn(s, n) /\ Phases(d) = One
          /\ pre_post(d) \in Nat /\ d.step \in Nat \ {0}
          /\ d.step < (pre_post(d) + 1) * One
      BY <1>5, LooksAhead DEF Convert, Phases, poly_fir
    <2>2. stage[s].at \in Nat /\ stage[s].at < One
      BY <2>1 DEF StageSound
    <2>3. n \in Nat /\ (n = 0 \/ n + pre_post(d) <= o)
      BY <1>2, <2>1
    <2> HIDE DEF n
    <2>4. Stays(cubic_stage_fn(s, n), o, One)
      BY <2>1, <2>2, <2>3, CubicStays
    <2> QED
      BY <2>1, <2>4
  <1> QED
    BY <1>1, <1>3, <1>4, <1>5 DEF Designed

LEMMA InputSizeIsNat ==
    ASSUME NEW d, Designed(d), NEW at \in Nat, at < Phases(d)
    PROVE  InputSizeOf(d, at) \in Nat
  <1>1. CASE d.kind = "dft"
    <2>1. d.L \in Nat \ {0} /\ d.dft_length \in Nat /\ at < d.L
      BY <1>1 DEF Designed, Phases
    <2>2. d.dft_length - at + d.L - 1 \in Nat
      BY <2>1
    <2>3. (d.dft_length - at + d.L - 1) \div d.L \in Nat
      BY <2>1, <2>2, Quotient
    <2> QED
      BY <1>1, <2>3 DEF InputSizeOf, CeilDiv
  <1>2. CASE d.kind # "dft"
    BY <1>2, ConverterAssumption DEF InputSizeOf
  <1> QED
    BY <1>1, <1>2
-----------------------------------------------------------------------------
(***************************************************************************)
(* The converter.                                                          *)
(***************************************************************************)
Queues ==
    /\ fifo \in [Levels -> FifoType]
    /\ \A s \in Levels : FifoBounded(fifo[s])

StagesSound ==
    /\ stage \in [Stages -> [at : Nat, remM : Nat, input_size : Nat]]
    /\ \A s \in Stages : stage[s].at < Phases(conv.stages[s])

Calls ==
    /\ depth \in Levels \union {0} /\ done \in [Levels -> BOOLEAN]
    /\ olen \in Nat /\ odone \in 0 .. olen /\ idone \in Nat
    /\ samples_in \in Nat /\ samples_out \in Nat

RateInv == conv \in Converters /\ Queues /\ StagesSound /\ Calls

\* What is known of the stages of a converter.
LEMMA Shape ==
    ASSUME conv \in Converters
    PROVE  /\ Len(conv.stages) \in Nat
           /\ Stages = 1 .. Len(conv.stages) /\ Last = Len(conv.stages) + 1
           /\ Levels = 1 .. Last
           /\ Stages \subseteq Levels /\ Last \in Levels
           /\ \A s \in Stages : s + 1 \in Levels /\ Designed(conv.stages[s])
    BY ConverterAssumption DEF Stages, Levels, Last

LEMMA StageStays ==
    ASSUME RateInv, NEW s \in Stages
    PROVE  Stays(Convert(s), Occupancy(s), Phases(conv.stages[s]))
  <1>1. s \in Levels /\ Designed(conv.stages[s])
    BY Shape DEF RateInv
  <1>2. Sound(fifo[s])
    BY <1>1 DEF RateInv, Queues, Sound
  <1>3. Occupancy(s) \in Nat
    BY <1>2, OccupancyIsNat DEF Occupancy
  <1>4. StageSound(s)
    BY DEF RateInv, StagesSound, StageSound
  <1> QED
    BY <1>1, <1>3, <1>4, ConvertStays

\* One call of the function of a stage.
LEMMA WorkKeeps ==
    ASSUME RateInv, NEW s \in Stages, Work(s), UNCHANGED conv
    PROVE  Queues' /\ StagesSound'
  <1> DEFINE c == Convert(s)
             Written(f) == fifo_trim_by(fifo_reserve(f, c.reserved),
                                        c.reserved - c.made)
             behind == IF Works(s) THEN Written(fifo[s + 1]) ELSE fifo[s + 1]
             read == fifo_read(fifo[s], c.used)
             now == [at |-> c.at, remM |-> c.remM,
                     input_size |-> InputSizeOf(conv.stages[s], c.at)]
  <1>1. /\ s \in Levels /\ s + 1 \in Levels /\ s # s + 1
        /\ Designed(conv.stages[s])
    BY Shape DEF RateInv, Stages
  <1>2. Stays(c, Occupancy(s), Phases(conv.stages[s]))
    BY StageStays
  <1>3. Sound(fifo[s]) /\ Sound(fifo[s + 1])
    BY <1>1 DEF RateInv, Queues, Sound
  <1>4. /\ fifo' = [fifo EXCEPT ![s] = read, ![s + 1] = behind]
        /\ stage' = [stage EXCEPT ![s] = now]
    BY <1>1 DEF Work, RateInv, Queues
  <1> HIDE DEF c
  <1>5. Sound(read)
    BY <1>2, <1>3, ReadKeeps DEF Stays
  <1>6. Sound(behind)
    <2>1. c.reserved \in Nat /\ c.made \in Nat /\ c.made <= c.reserved
      BY <1>2 DEF Stays
    <2> DEFINE f == fifo_reserve(fifo[s + 1], c.reserved)
               n == c.reserved - c.made
    <2>2. /\ Sound(f) /\ fifo_occupancy(f) = fifo_occupancy(fifo[s + 1]) + c.reserved
          /\ fifo_occupancy(fifo[s + 1]) \in Nat
      BY <1>3, <2>1, ReserveKeeps, OccupancyIsNat
    <2>3. n \in Nat /\ n <= fifo_occupancy(f)
      BY <2>1, <2>2
    <2>4. Sound(fifo_trim_by(f, n))
      <3> HIDE DEF f, n
      <3> QED
        BY <2>2, <2>3, TrimKeeps
    <2> QED
      BY <1>3, <2>4
  <1>7. /\ now \in [at : Nat, remM : Nat, input_size : Nat]
        /\ now.at < Phases(conv.stages[s])
    BY <1>1, <1>2, InputSizeIsNat DEF Stays
  <1> HIDE DEF read, behind, now
  <1>8. Queues'
    <2>1. fifo' \in [Levels -> FifoType]
      BY <1>1, <1>4, <1>5, <1>6 DEF RateInv, Queues, Sound
    <2>2. ASSUME NEW t \in Levels
          PROVE  FifoBounded(fifo'[t])
      BY <1>1, <1>4, <1>5, <1>6, <2>2 DEF RateInv, Queues, Sound
    <2>3. Levels' = Levels
      BY DEF Levels
    <2> QED
      BY <2>1, <2>2, <2>3 DEF Queues
  <1>9. StagesSound'
    <2>1. Stages' = Stages /\ conv' = conv
      BY DEF Stages
    <2> QED
      BY <1>4, <1>7, <2>1 DEF RateInv, StagesSound
  <1> QED
    BY <1>8, <1>9

\* Half of nothing or of a whole number.
LEMMA HalfOf ==
    ASSUME NEW x \in Nat \ {0}, NEW n \in Nat
    PROVE  (x * (n % 2)) \div 2 \in Nat /\ (x * (n % 2)) \div 2 < x
  <1>1. n % 2 \in {0, 1}
    BY SMT
  <1>2. CASE n % 2 = 0
    BY <1>2, SMT
  <1>3. CASE n % 2 = 1
    BY <1>3, SMT
  <1> QED
    BY <1>1, <1>2, <1>3

LEMMA FirstAtIsBelow ==
    ASSUME NEW d, Designed(d)
    PROVE  first_at(d) \in Nat /\ first_at(d) < Phases(d)
  <1>1. CASE d.kind = "half"
    BY <1>1 DEF first_at, Phases
  <1>2. CASE d.kind = "cubic"
    BY <1>2, OneIsPositive DEF first_at, Phases
  <1>3. CASE d.kind = "poly"
    <2>1. /\ d.L \in Nat \ {0} /\ d.num_coefs \in Nat
          /\ first_at(d) = (d.L * (d.num_coefs % 2)) \div 2 /\ Phases(d) = d.L
      BY <1>3 DEF Designed, first_at, Phases
    <2> QED
      BY <2>1, HalfOf
  <1>4. CASE d.kind = "interp"
    <2>1. /\ d.num_coefs \in Nat
          /\ first_at(d) = (One * (d.num_coefs % 2)) \div 2 /\ Phases(d) = One
      BY <1>4 DEF Designed, first_at, Phases
    <2> QED
      BY <2>1, HalfOf, OneIsPositive
  <1>5. CASE d.kind = "dft"
    <2>1. /\ d.L \in Nat \ {0} /\ d.post_peak \in Int
          /\ first_at(d) = d.post_peak % d.L /\ Phases(d) = d.L
      BY <1>5 DEF Designed, first_at, Phases
    <2>2. d.post_peak % d.L \in 0 .. d.L - 1
      BY <2>1, Division
    <2> QED
      BY <2>1, <2>2
  <1> QED
    BY <1>1, <1>2, <1>3, <1>4, <1>5 DEF Designed

LEMMA PreloadIsNat ==
    ASSUME NEW d, Designed(d)
    PROVE  preload(d) \in Nat
  <1>1. CASE d.kind = "half"
    BY <1>1 DEF Designed, preload
  <1>2. CASE d.kind = "cubic"
    BY <1>2 DEF preload
  <1>3. CASE d.kind \in {"poly", "interp"}
    <2>1. /\ d.num_coefs \in Nat \ {0} /\ d.num_coefs4 \in Nat
          /\ d.num_coefs <= d.num_coefs4
          /\ preload(d) = (d.num_coefs - 1) \div 2 + d.num_coefs4 - d.num_coefs
      BY <1>3 DEF Designed, preload
    <2>2. (d.num_coefs - 1) \div 2 \in Nat
      BY <2>1, Quotient
    <2> QED
      BY <2>1, <2>2
  <1>4. CASE d.kind = "dft"
    <2>1. /\ d.L \in Nat \ {0} /\ d.post_peak \in Nat
          /\ preload(d) = d.post_peak \div d.L
      BY <1>4 DEF Designed, preload
    <2> QED
      BY <2>1, Quotient
  <1> QED
    BY <1>1, <1>2, <1>3, <1>4 DEF Designed

LEMMA RatesArePositive ==
    ASSUME conv \in Converters
    PROVE  /\ conv.input_rate \in Nat \ {0} /\ conv.output_rate \in Nat \ {0}
           /\ conv.input_buffer_length \in Nat /\ conv.playback_buffer_length \in Nat
           /\ conv.input_frame_size \in Nat /\ conv.output_frame_size \in Nat
           /\ conv.frames \in Nat /\ conv.portions \subseteq Nat
           /\ Second \in Nat \ {0} /\ Request \in Nat
    BY ConversionAssumption

LEMMA RateInit == InitRate => RateInv
  <1> SUFFICES ASSUME InitRate
               PROVE  RateInv
    OBVIOUS
  <1> USE DEF InitRate
  <1>1. Queues
    <2>1. ASSUME NEW s \in Levels
          PROVE  Sound(fifo[s])
      <3>1. CASE s = Last
        BY <3>1, CreateIsSound
      <3>2. CASE s # Last
        <4>1. s \in Stages
          BY <3>2, Shape
        <4>2. preload(conv.stages[s]) \in Nat
          BY <4>1, Shape, PreloadIsNat
        <4>3. Sound(fifo_reserve(fifo_create, preload(conv.stages[s])))
          BY <4>2, CreateIsSound, ReserveKeeps
        <4> QED
          BY <3>2, <4>3
      <3> QED
        BY <3>1, <3>2
    <2>2. fifo \in [Levels -> FifoType]
      <3>1. /\ fifo = [s \in Levels |-> fifo[s]]
            /\ \A s \in Levels : fifo[s] \in FifoType
        BY <2>1 DEF Sound
      <3> QED
        BY <3>1
    <2> QED
      BY <2>1, <2>2 DEF Queues, Sound
  <1>2. StagesSound
    <2>1. ASSUME NEW s \in Stages
          PROVE  /\ stage[s] \in [at : Nat, remM : Nat, input_size : Nat]
                 /\ stage[s].at < Phases(conv.stages[s])
      <3>1. Designed(conv.stages[s])
        BY Shape
      <3>2. /\ first_at(conv.stages[s]) \in Nat
            /\ first_at(conv.stages[s]) < Phases(conv.stages[s])
        BY <3>1, FirstAtIsBelow
      <3>3. InputSizeOf(conv.stages[s], first_at(conv.stages[s])) \in Nat
        BY <3>1, <3>2, InputSizeIsNat
      <3> QED
        BY <3>2, <3>3
    <2>2. stage = [s \in Stages |-> stage[s]]
      OBVIOUS
    <2> QED
      BY <2>1, <2>2 DEF StagesSound
  <1>3. Calls
    BY DEF Calls
  <1> QED
    BY <1>1, <1>2, <1>3 DEF RateInv

LEMMA InputTaken ==
    ASSUME conv \in Converters, NEW len \in Nat, NEW ilen0 \in Nat
    PROVE  soxr_i_for_o(len, ilen0) \in 0 .. ilen0
  <1> DEFINE n == CeilDiv(len * conv.input_rate, conv.output_rate)
  <1>1. len * conv.input_rate \in Nat
    BY RatesArePositive, Product
  <1>2. n \in Nat
    <2>1. len * conv.input_rate \in Int
      BY <1>1
    <2> QED
      BY <1>1, <2>1, RatesArePositive, Ceiling
  <1> HIDE DEF n
  <1>3. Smaller(n, ilen0) \in 0 .. ilen0
    BY <1>2 DEF Smaller
  <1> QED
    BY <1>3 DEF soxr_i_for_o, n

LEMMA ProcessKeeps ==
    ASSUME RateInv, NEW ilen0 \in Nat, NEW len \in Nat, soxr_process(ilen0, len)
    PROVE  RateInv'
  <1> DEFINE ilen == soxr_i_for_o(len, ilen0)
  <1>1. ilen \in Nat /\ conv \in Converters
    BY InputTaken DEF RateInv
  <1> HIDE DEF ilen
  <1>2. /\ depth' = Last /\ done' = [d \in Levels |-> FALSE]
        /\ olen' = len /\ idone' = ilen /\ odone' = 0
        /\ samples_in' = samples_in + ilen
        /\ fifo' = IF ilen = 0 THEN fifo
                   ELSE [fifo EXCEPT ![1] = fifo_reserve(@, ilen)]
        /\ conv' = conv /\ stage' = stage /\ samples_out' = samples_out
    BY DEF soxr_process, ilen
  <1>3. Levels' = Levels /\ Stages' = Stages
    BY <1>2 DEF Levels, Stages
  <1>4. Queues'
    <2>1. CASE ilen = 0
      BY <1>2, <1>3, <2>1 DEF RateInv, Queues
    <2>2. CASE ilen # 0
      <3>1. 1 \in Levels
        BY <1>1, Shape
      <3>2. fifo' = [fifo EXCEPT ![1] = fifo_reserve(fifo[1], ilen)]
        BY <1>2, <2>2
      <3>3. Sound(fifo_reserve(fifo[1], ilen))
        BY <1>1, <3>1, ReserveKeeps DEF RateInv, Queues, Sound
      <3> QED
        BY <1>3, <3>1, <3>2, <3>3 DEF RateInv, Queues, Sound
    <2> QED
      BY <2>1, <2>2
  <1>5. StagesSound'
    BY <1>2, <1>3 DEF RateInv, StagesSound
  <1>6. Calls'
    <2>1. Last \in Levels
      BY <1>1, Shape
    <2> QED
      BY <1>1, <1>2, <1>3, <2>1 DEF RateInv, Calls
  <1> QED
    BY <1>1, <1>2, <1>4, <1>5, <1>6 DEF RateInv

LEMMA PullKeeps ==
    ASSUME RateInv, Pull
    PROVE  RateInv'
  <1>1. /\ conv' = conv /\ fifo' = fifo /\ stage' = stage /\ olen' = olen
        /\ idone' = idone /\ odone' = odone /\ samples_in' = samples_in
        /\ samples_out' = samples_out
    BY DEF Pull
  <1>2. Levels' = Levels /\ Stages' = Stages /\ Queues' /\ StagesSound'
    BY <1>1 DEF Levels, Stages, RateInv, Queues, StagesSound
  <1>3. depth' \in Levels \union {0}
    BY Shape DEF Pull, RateInv, Calls
  <1>4. done' \in [Levels -> BOOLEAN]
    BY DEF Pull, RateInv, Calls
  <1> QED
    BY <1>1, <1>2, <1>3, <1>4 DEF RateInv, Calls

LEMMA StageKeeps ==
    ASSUME RateInv, stage_process
    PROVE  RateInv'
  <1>1. /\ depth \in Stages /\ Work(depth) /\ depth' = depth + 1
        /\ conv' = conv /\ olen' = olen
        /\ idone' = idone /\ odone' = odone /\ samples_in' = samples_in
        /\ samples_out' = samples_out
    BY DEF stage_process
  <1>2. Queues' /\ StagesSound'
    BY <1>1, WorkKeeps
  <1>3. Levels' = Levels /\ depth' \in Levels
    BY <1>1, Shape DEF RateInv, Levels
  <1>4. done' \in [Levels -> BOOLEAN]
    <2> DEFINE b == done[depth] /\ fifo_occupancy(fifo'[depth])
                                     < stage'[depth].input_size
    <2>1. done' = [done EXCEPT ![depth + 1] = b] /\ b \in BOOLEAN
      BY DEF stage_process, RateInv, Calls
    <2> HIDE DEF b
    <2> QED
      BY <2>1 DEF RateInv, Calls
  <1> QED
    BY <1>1, <1>2, <1>3, <1>4 DEF RateInv, Calls

LEMMA OutputKeeps ==
    ASSUME RateInv, soxr_output
    PROVE  RateInv'
  <1> DEFINE n == Smaller(olen, Occupancy(Last))
  <1>1. Last \in Levels /\ Sound(fifo[Last])
    BY Shape DEF RateInv, Queues, Sound
  <1>2. n \in 0 .. olen /\ olen \in Nat
    BY <1>1, OccupancyIsNat DEF Occupancy, Smaller, RateInv, Calls
  <1>3. Sound(fifo_read(fifo[Last], n))
    BY <1>1, <1>2, ReadKeeps
  <1>4. /\ fifo' = [fifo EXCEPT ![Last] = fifo_read(fifo[Last], n)]
        /\ odone' = n /\ samples_out' = samples_out + n
        /\ depth' = 0 /\ conv' = conv /\ stage' = stage /\ done' = done
        /\ olen' = olen /\ idone' = idone /\ samples_in' = samples_in
    BY DEF soxr_output
  <1> HIDE DEF n
  <1>5. Levels' = Levels /\ Stages' = Stages /\ StagesSound'
    BY <1>4 DEF Levels, Stages, RateInv, StagesSound
  <1>6. Queues'
    BY <1>1, <1>3, <1>4, <1>5 DEF RateInv, Queues, Sound
  <1>7. Calls'
    BY <1>2, <1>4, <1>5 DEF RateInv, Calls
  <1> QED
    BY <1>4, <1>5, <1>6, <1>7 DEF RateInv
-----------------------------------------------------------------------------
(***************************************************************************)
(* The buffers on both sides of it.                                        *)
(***************************************************************************)
ClientInv ==
    /\ olen <= resampler_capacity /\ idone <= input_capacity
    /\ input \in 0 .. input_capacity
    /\ resampled \in 0 .. resampler_capacity
    /\ playback \in 0 .. playback_capacity
    /\ soxr_delay \in Int
    /\ source_end \in BOOLEAN /\ soxr_end \in BOOLEAN
    /\ position \in 0 .. conv.frames /\ played \in Nat
    /\ pc \in {"idle", "process", "convert", "write"}
    /\ samples_in + (IF pc = "process" THEN input ELSE 0) <= position
    /\ pc # "convert" => depth = 0
    /\ pc \in {"idle", "write"} => input = 0

LEMMA CapacitiesAreNat ==
    ASSUME conv \in Converters
    PROVE  /\ input_capacity \in Nat /\ resampler_capacity \in Nat
           /\ playback_capacity \in Nat
  <1>1. ASSUME NEW length \in Nat, NEW frequency \in Nat
        PROVE  get_buffer_length(length, frequency) \in Nat
    <2>1. length * frequency \in Nat
      BY Product
    <2>2. length * frequency \in Int
      BY <2>1
    <2>3. Second \in Nat \ {0}
      BY ConversionAssumption
    <2> QED
      BY <2>1, <2>2, <2>3, Quotient DEF get_buffer_length
  <1>2. /\ get_buffer_length(conv.input_buffer_length, conv.input_rate) \in Nat
        /\ get_buffer_length(conv.input_buffer_length, conv.output_rate) \in Nat
        /\ get_buffer_length(conv.playback_buffer_length, conv.output_rate) \in Nat
    BY <1>1, RatesArePositive
  <1> QED
    BY <1>2 DEF input_capacity, resampler_capacity, playback_capacity, Larger

LEMMA DelayIsInt ==
    ASSUME RateInv
    PROVE  _soxr_delay \in Int
  <1>1. /\ samples_in * conv.output_rate \in Nat
        /\ samples_out * conv.input_rate \in Nat
    BY RatesArePositive, Product DEF RateInv, Calls
  <1> QED
    BY <1>1 DEF _soxr_delay

LEMMA ConvertingKeeps ==
    ASSUME RateInv, Converting
    PROVE  /\ RateInv' /\ depth > 0
           /\ conv' = conv /\ olen' = olen /\ idone' = idone
           /\ samples_in' = samples_in
  <1>1. CASE Pull
    BY <1>1, PullKeeps DEF Pull
  <1>2. CASE stage_process
    BY <1>2, StageKeeps, Shape DEF stage_process, RateInv
  <1>3. CASE soxr_output
    BY <1>3, OutputKeeps, Shape DEF soxr_output, RateInv
  <1> QED
    BY <1>1, <1>2, <1>3 DEF Converting

SizeInv == RateInv /\ ClientInv

LEMMA RateUnchanged ==
    ASSUME RateInv, UNCHANGED <<conv, rate>>
    PROVE  RateInv'
    BY DEF RateInv, rate, Queues, StagesSound, Calls, Levels, Stages

LEMMA CapacitiesUnchanged ==
    ASSUME conv' = conv
    PROVE  /\ input_capacity' = input_capacity
           /\ resampler_capacity' = resampler_capacity
           /\ playback_capacity' = playback_capacity
    BY DEF input_capacity, resampler_capacity, playback_capacity,
           get_buffer_length

LEMMA SizeStep == SizeInv /\ [Next]_vars => SizeInv'
  <1> SUFFICES ASSUME SizeInv, [Next]_vars
               PROVE  SizeInv'
    OBVIOUS
  <1> USE DEF SizeInv
  <1>0. /\ input_capacity \in Nat /\ resampler_capacity \in Nat
        /\ playback_capacity \in Nat
        /\ conv.frames \in Nat /\ conv.portions \subseteq Nat /\ Request \in Nat
    BY CapacitiesAreNat, RatesArePositive DEF RateInv
  <1>1. CASE read_input_data
    <2>1. UNCHANGED <<conv, rate>> /\ RateInv'
      BY <1>1, RateUnchanged DEF read_input_data
    <2>2. /\ olen' = olen /\ idone' = idone /\ samples_in' = samples_in
          /\ depth' = depth /\ conv' = conv
          /\ input_capacity' = input_capacity
          /\ resampler_capacity' = resampler_capacity
          /\ playback_capacity' = playback_capacity
      BY <2>1, CapacitiesUnchanged DEF rate
    <2>3. /\ input' \in 0 .. input_capacity /\ position' \in 0 .. conv.frames
          /\ position' = position + input'
      <3>1. ASSUME NEW n \in conv.portions,
                   n <= Smaller(input_capacity, conv.frames - position),
                   input' = n, position' = position + n
            PROVE  <2>3
        <4>1. n \in Nat /\ position \in 0 .. conv.frames
          BY <1>0, <3>1 DEF ClientInv
        <4>2. n <= input_capacity /\ n <= conv.frames - position
          BY <1>0, <3>1, <4>1 DEF Smaller
        <4> QED
          BY <1>0, <3>1, <4>1, <4>2
      <3>2. CASE UNCHANGED <<input, position>>
        <4>1. input = 0 /\ position \in 0 .. conv.frames
          BY <1>1 DEF read_input_data, ClientInv
        <4> QED
          BY <1>0, <3>2, <4>1
      <3> QED
        BY <1>1, <3>1, <3>2 DEF read_input_data
    <2>5. /\ source_end' \in BOOLEAN
          /\ pc = "idle" /\ pc' = "process"
          /\ UNCHANGED <<resampled, playback, soxr_delay, soxr_end, played>>
      BY <1>1 DEF read_input_data
    <2>6. /\ samples_in \in Nat /\ samples_in <= position /\ position \in Nat
          /\ input' \in Nat
      BY <1>0, <2>3, <2>5 DEF ClientInv, RateInv, Calls
    <2>7. samples_in + input' <= position'
      BY <2>3, <2>6, Further
    <2>4. ClientInv'
      BY <1>0, <2>2, <2>3, <2>5, <2>6, <2>7 DEF ClientInv
    <2> QED
      BY <2>1, <2>4
  <1>2. CASE Process
    <2>1. soxr_process(input, resampler_capacity) /\ input \in Nat
      BY <1>0, <1>2 DEF Process, ClientInv
    <2>2. RateInv'
      BY <1>0, <2>1, ProcessKeeps
    <2>3. soxr_i_for_o(resampler_capacity, input) \in 0 .. input
      BY <1>0, <2>1, InputTaken DEF RateInv
    <2>4. /\ olen' = resampler_capacity
          /\ idone' = soxr_i_for_o(resampler_capacity, input)
          /\ samples_in' = samples_in + soxr_i_for_o(resampler_capacity, input)
          /\ conv' = conv
      BY <2>1 DEF soxr_process
    <2> DEFINE ilen == soxr_i_for_o(resampler_capacity, input)
    <2> HIDE DEF ilen
    <2>5. ilen \in 0 .. input /\ olen' = resampler_capacity /\ idone' = ilen
          /\ samples_in' = samples_in + ilen
      BY <2>3, <2>4 DEF ilen
    <2>6. /\ input_capacity' = input_capacity
          /\ resampler_capacity' = resampler_capacity
          /\ playback_capacity' = playback_capacity
      BY <2>4, CapacitiesUnchanged
    <2>7. /\ pc = "process" /\ pc' = "convert"
          /\ UNCHANGED <<input, resampled, playback, soxr_delay, source_end,
                         soxr_end, position, played>>
      BY <1>2 DEF Process
    <2>8. samples_in \in Nat /\ conv' = conv
      BY <2>4 DEF RateInv, Calls
    <2>9. ClientInv'
      BY <1>0, <2>5, <2>6, <2>7, <2>8 DEF ClientInv
    <2> QED
      BY <2>2, <2>9
  <1>3. CASE Convert_on
    <2>1. Converting /\ pc = "convert" /\ UNCHANGED client
      BY <1>3 DEF Convert_on
    <2>2. /\ RateInv' /\ conv' = conv /\ olen' = olen /\ idone' = idone
          /\ samples_in' = samples_in
      BY <2>1, ConvertingKeeps
    <2>3. /\ input_capacity' = input_capacity
          /\ resampler_capacity' = resampler_capacity
          /\ playback_capacity' = playback_capacity
      BY <2>2, CapacitiesUnchanged
    <2>4. ClientInv'
      BY <2>1, <2>2, <2>3 DEF ClientInv, client
    <2> QED
      BY <2>2, <2>4
  <1>4. CASE read_resampled_data
    <2>1. UNCHANGED <<conv, rate>> /\ RateInv'
      BY <1>4, RateUnchanged DEF read_resampled_data
    <2>2. /\ olen' = olen /\ idone' = idone /\ samples_in' = samples_in
          /\ depth' = depth /\ conv' = conv
          /\ input_capacity' = input_capacity
          /\ resampler_capacity' = resampler_capacity
          /\ playback_capacity' = playback_capacity
      BY <2>1, CapacitiesUnchanged DEF rate
    <2>3. /\ soxr_delay' = _soxr_delay /\ input' = 0 /\ resampled' = odone
          /\ soxr_end' = (idone = 0 /\ odone = 0)
          /\ pc' \in {"idle", "write"} /\ pc = "convert" /\ depth = 0
          /\ UNCHANGED <<playback, source_end, position, played>>
      BY <1>4 DEF read_resampled_data
    <2>4. soxr_end' \in BOOLEAN
      BY <2>3
    <2>5. odone \in 0 .. resampler_capacity /\ _soxr_delay \in Int
      BY <1>0, DelayIsInt DEF RateInv, Calls, ClientInv
    <2>6. ClientInv'
      BY <1>0, <2>2, <2>3, <2>4, <2>5 DEF ClientInv
    <2> QED
      BY <2>1, <2>6
  <1>5. CASE read_playback_data
    <2>1. UNCHANGED <<conv, rate>> /\ RateInv'
      BY <1>5, RateUnchanged DEF read_playback_data
    <2>2. /\ olen' = olen /\ idone' = idone /\ samples_in' = samples_in
          /\ depth' = depth /\ conv' = conv
          /\ input_capacity' = input_capacity
          /\ resampler_capacity' = resampler_capacity
          /\ playback_capacity' = playback_capacity
      BY <2>1, CapacitiesUnchanged DEF rate
    <2>3. /\ playback' \in 0 .. playback_capacity
          /\ resampled' \in 0 .. resampler_capacity
          /\ pc \in {"write", "idle"} /\ pc' = "idle"
          /\ UNCHANGED <<input, soxr_delay, source_end, soxr_end, position, played>>
      BY <1>0, <1>5 DEF read_playback_data, ClientInv
    <2>4. ClientInv'
      BY <1>0, <2>2, <2>3 DEF ClientInv
    <2> QED
      BY <2>1, <2>4
  <1>6. CASE resampler_proc
    <2>1. UNCHANGED <<conv, rate>> /\ RateInv'
      BY <1>6, RateUnchanged DEF resampler_proc
    <2>2. /\ olen' = olen /\ idone' = idone /\ samples_in' = samples_in
          /\ depth' = depth /\ conv' = conv
          /\ input_capacity' = input_capacity
          /\ resampler_capacity' = resampler_capacity
          /\ playback_capacity' = playback_capacity
      BY <2>1, CapacitiesUnchanged DEF rate
    <2>3. /\ playback' \in 0 .. playback_capacity /\ played' \in Nat
          /\ UNCHANGED <<input, resampled, soxr_delay, source_end, soxr_end,
                         position, pc>>
      BY <1>0, <1>6 DEF resampler_proc, ClientInv, Smaller
    <2>4. ClientInv'
      BY <1>0, <2>2, <2>3 DEF ClientInv
    <2> QED
      BY <2>1, <2>4
  <1>7. CASE UNCHANGED vars
    <2>1. UNCHANGED <<conv, rate>> /\ RateInv'
      BY <1>7, RateUnchanged DEF vars
    <2>2. /\ olen' = olen /\ idone' = idone /\ samples_in' = samples_in
          /\ depth' = depth /\ conv' = conv
          /\ input_capacity' = input_capacity
          /\ resampler_capacity' = resampler_capacity
          /\ playback_capacity' = playback_capacity
      BY <2>1, CapacitiesUnchanged DEF rate
    <2>3. UNCHANGED client
      BY <1>7 DEF vars
    <2>4. ClientInv'
      BY <2>2, <2>3 DEF ClientInv, client
    <2> QED
      BY <2>1, <2>4
  <1> QED
    BY <1>1, <1>2, <1>3, <1>4, <1>5, <1>6, <1>7 DEF Next, resampler_populate

LEMMA SizeInit == Init => SizeInv
  <1> SUFFICES ASSUME Init
               PROVE  SizeInv
    OBVIOUS
  <1>1. RateInv
    BY RateInit DEF Init
  <1>2. /\ input_capacity \in Nat /\ resampler_capacity \in Nat
        /\ playback_capacity \in Nat /\ conv.frames \in Nat
    BY <1>1, CapacitiesAreNat, RatesArePositive DEF RateInv
  <1>3. /\ olen = 0 /\ idone = 0 /\ samples_in = 0 /\ depth = 0
        /\ input = 0 /\ resampled = 0 /\ playback = 0 /\ soxr_delay = 0
        /\ source_end \in BOOLEAN /\ soxr_end \in BOOLEAN /\ position = 0
        /\ played = 0 /\ pc = "idle"
    BY DEF Init, InitRate
  <1>4. ClientInv
    BY <1>2, <1>3 DEF ClientInv
  <1> QED
    BY <1>1, <1>4 DEF SizeInv

LEMMA SizesInvariant == Spec => []SizeInv
  <1>1. Init => SizeInv
    BY SizeInit
  <1>2. SizeInv /\ [Next]_vars => SizeInv'
    BY SizeStep
  <1> QED
    BY <1>1, <1>2, PTL DEF Spec

\* Rates, queues, stages and buffers hold what they are for: no buffer holds more
\* frames than it was made for, and soxr_process takes no more than was read.
THEOREM ConversionTypeCorrect == Spec => []TypeOK
  <1>1. SizeInv => TypeOK
    <2> SUFFICES ASSUME SizeInv
                 PROVE  TypeOK
      OBVIOUS
    <2> USE DEF SizeInv, RateInv
    <2>1. /\ fifo \in [Levels -> FifoType]
          /\ stage \in [Stages -> [at : Nat, remM : Nat, input_size : Nat]]
      BY DEF Queues, StagesSound
    <2>2. /\ depth \in Levels \union {0} /\ done \in [Levels -> BOOLEAN]
          /\ odone \in 0 .. olen /\ samples_out \in Nat
      BY DEF Calls
    <2>3. input_capacity \in Nat /\ resampler_capacity \in Nat
      BY CapacitiesAreNat
    <2>4. /\ olen \in 0 .. resampler_capacity /\ idone \in 0 .. input_capacity
          /\ samples_in \in 0 .. position
      <3>1. conv.frames \in Nat
        BY RatesArePositive
      <3> QED
        BY <2>3, <3>1 DEF Calls, ClientInv
    <2>5. /\ input \in 0 .. input_capacity
          /\ resampled \in 0 .. resampler_capacity
          /\ playback \in 0 .. playback_capacity
          /\ soxr_delay \in Int
          /\ source_end \in BOOLEAN /\ soxr_end \in BOOLEAN
          /\ position \in 0 .. conv.frames /\ played \in Nat
          /\ pc \in {"idle", "process", "convert", "write"}
      BY DEF ClientInv
    <2> QED
      BY <2>1, <2>2, <2>4, <2>5 DEF TypeOK
  <1> QED
    BY <1>1, SizesInvariant, PTL

\* No stage reads samples that it has not, which fifo_read would refuse in silence,
\* and none writes beyond what it reserved, whatever filters _soxr_init designs and
\* however the source's frames arrive.
THEOREM NoStageLeavesItsQueues == Spec => []StagesInBounds
  <1>1. SizeInv => StagesInBounds
    <2> SUFFICES ASSUME SizeInv, NEW s \in Stages
                 PROVE  /\ Convert(s).used \in 0 .. Occupancy(s)
                        /\ Convert(s).made \in 0 .. Convert(s).reserved
      BY DEF StagesInBounds
    <2>1. Stays(Convert(s), Occupancy(s), Phases(conv.stages[s]))
      BY StageStays DEF SizeInv
    <2> QED
      BY <2>1 DEF Stays
  <1> QED
    BY <1>1, SizesInvariant, PTL

\* fifo_reserve grows no queue beyond twice the most that was in it at once, and
\* what it always has, however much passes through.
THEOREM QueuesDoNotGrow == Spec => []MemoryBounded
  <1>1. SizeInv => MemoryBounded
    BY DEF SizeInv, RateInv, Queues, MemoryBounded
  <1> QED
    BY <1>1, SizesInvariant, PTL
-----------------------------------------------------------------------------
(***************************************************************************)
(* The calls of stage_process.  Above the level that runs nothing is done, *)
(* and when it is told to be done the stages before it have too little.    *)
(***************************************************************************)
Exhausted(s) == Occupancy(s) < stage[s].input_size

TurnInv ==
    /\ depth > 0 =>
          /\ \A d \in Levels : d > depth => ~ done[d]
          /\ done[depth] => \A s \in Stages : s < depth => Exhausted(s)
    /\ depth = 0 /\ odone < olen => \A s \in Stages : Exhausted(s)

LEMMA TurnStart ==
    ASSUME conv \in Converters, NEW ilen0, NEW len, soxr_process(ilen0, len)
    PROVE  TurnInv'
  <1>1. /\ depth' = Last /\ done' = [d \in Levels |-> FALSE] /\ conv' = conv
    BY DEF soxr_process
  <1>2. Levels' = Levels /\ Stages' = Stages
    BY <1>1 DEF Levels, Stages
  <1>3. Last \in Levels /\ Last > 0
    BY Shape
  <1> QED
    BY <1>1, <1>2, <1>3 DEF TurnInv

LEMMA TurnPull ==
    ASSUME RateInv, TurnInv, Pull
    PROVE  TurnInv'
  <1>1. /\ Levels' = Levels /\ Stages' = Stages
        /\ \A s \in Stages : Exhausted(s)' <=> Exhausted(s)
    BY DEF Pull, Levels, Stages, Exhausted, Occupancy
  <1>2. depth \in Levels /\ depth > 0 /\ done \in [Levels -> BOOLEAN]
        /\ Levels \subseteq Nat \ {0} /\ Stages \subseteq Nat \ {0}
    BY Shape DEF RateInv, Calls, Pull
  <1>3. /\ ~ done[depth]
        /\ \A d \in Levels : d > depth => ~ done[d]
    BY <1>2 DEF Pull, TurnInv
  <1>4. CASE depth = 1
    <2>1. done' = [done EXCEPT ![1] = TRUE] /\ depth' = 1
      BY <1>4 DEF Pull
    <2>2. \A d \in Levels : d > 1 => ~ done'[d]
      BY <1>2, <1>3, <1>4, <2>1
    <2>3. \A s \in Stages : ~ (s < 1)
      BY <1>2
    <2> QED
      BY <1>1, <2>1, <2>2, <2>3 DEF TurnInv
  <1>5. CASE depth # 1
    <2>1. done' = [done EXCEPT ![depth - 1] = FALSE] /\ depth' = depth - 1
      BY <1>5 DEF Pull
    <2>2. depth - 1 \in Levels /\ depth - 1 > 0
      BY <1>2, <1>5, Shape DEF RateInv
    <2>3. \A d \in Levels : d > depth - 1 => d = depth \/ d > depth
      BY <1>2
    <2>4. \A d \in Levels : d > depth - 1 => ~ done'[d]
      BY <1>2, <1>3, <2>1, <2>3
    <2>5. ~ done'[depth - 1]
      BY <1>2, <2>1, <2>2
    <2> QED
      BY <1>1, <2>1, <2>2, <2>4, <2>5 DEF TurnInv
  <1> QED
    BY <1>4, <1>5

LEMMA TurnStage ==
    ASSUME RateInv, TurnInv, stage_process
    PROVE  TurnInv'
  <1>1. Levels' = Levels /\ Stages' = Stages
    BY DEF stage_process, Levels, Stages
  <1>2. /\ depth \in Stages /\ depth \in Levels /\ depth + 1 \in Levels
        /\ depth > 0 /\ done \in [Levels -> BOOLEAN]
        /\ Levels \subseteq Nat \ {0} /\ Stages \subseteq Levels
    <2>1. depth \in Stages
      BY DEF stage_process
    <2> QED
      BY <2>1, Shape DEF RateInv, Calls
  <1>3. PICK l \in Stages : l = depth
    BY <1>2
  <1>4. l \in Nat \ {0} /\ l \in Levels /\ l + 1 \in Levels
    BY <1>2, <1>3
  <1>5. depth' = l + 1 /\ Work(l)
    BY <1>3 DEF stage_process
  <1>6. done' = [done EXCEPT ![l + 1] = done[l] /\ Exhausted(l)']
    BY <1>3 DEF stage_process, Exhausted, Occupancy
  <1>7. \A d \in Levels : d > l + 1 => ~ done'[d]
    BY <1>2, <1>3, <1>4, <1>6 DEF TurnInv
  <1>8. ASSUME done'[l + 1], NEW s \in Stages, s < l + 1
        PROVE  Exhausted(s)'
    <2>1. done'[l + 1] = (done[l] /\ Exhausted(l)')
      BY <1>2, <1>4, <1>6
    <2>2. done[l] /\ Exhausted(l)'
      BY <1>8, <2>1
    <2>3. CASE s = l
      BY <2>2, <2>3
    <2>4. CASE s # l
      <3>1. s \in Nat /\ s < l
        BY <1>2, <1>4, <1>8, <2>4
      <3>2. Exhausted(s)
        BY <1>2, <1>3, <2>2, <3>1 DEF TurnInv
      <3>3. s # l + 1
        BY <1>4, <3>1
      <3>4. fifo'[s] = fifo[s] /\ stage'[s] = stage[s]
        BY <1>2, <1>5, <2>4, <3>3 DEF Work, RateInv, Queues, StagesSound
      <3> QED
        BY <3>2, <3>4 DEF Exhausted, Occupancy
    <2> QED
      BY <2>3, <2>4
  <1>9. depth' > 0
    BY <1>4, <1>5
  <1>10. \A d \in Levels' : d > depth' => ~ done'[d]
    BY <1>1, <1>5, <1>7
  <1>11. ASSUME done'[depth'], NEW s \in Stages', s < depth'
         PROVE  Exhausted(s)'
    BY <1>1, <1>5, <1>8, <1>11
  <1>12. depth' # 0
    BY <1>4, <1>5
  <1> QED
    BY <1>9, <1>10, <1>11, <1>12, Zenon DEF TurnInv

LEMMA TurnOutput ==
    ASSUME RateInv, TurnInv, soxr_output
    PROVE  TurnInv'
  <1> DEFINE n == Smaller(olen, Occupancy(Last))
  <1>1. /\ depth = Last /\ (done[Last] \/ want(Last) <= 0)
        /\ fifo' = [fifo EXCEPT ![Last] = fifo_read(@, n)] /\ odone' = n
        /\ depth' = 0 /\ conv' = conv /\ stage' = stage /\ olen' = olen
    BY DEF soxr_output
  <1>2. /\ Stages' = Stages /\ Last \in Levels
        /\ Last > 0 /\ Stages \subseteq Nat
        /\ \A s \in Stages : s \in Levels /\ s < Last
    BY <1>1, Shape DEF RateInv, Stages
  <1>3. ASSUME odone' < olen', NEW s \in Stages
        PROVE  Exhausted(s)'
    <2>1. Occupancy(Last) \in Nat /\ olen \in Nat
      BY <1>2, OccupancyIsNat DEF RateInv, Queues, Calls, Sound, Occupancy
    <2>2. Occupancy(Last) < olen
      BY <1>1, <1>3, <2>1 DEF Smaller
    <2>3. done[Last]
      BY <1>1, <2>1, <2>2 DEF want
    <2>4. Exhausted(s)
      BY <1>1, <1>2, <2>3 DEF TurnInv
    <2>5. fifo'[s] = fifo[s] /\ s # Last
      <3>1. s # Last /\ fifo \in [Levels -> FifoType]
        BY <1>2, Shape DEF RateInv, Queues
      <3> HIDE DEF n
      <3> QED
        BY <1>1, <1>2, <3>1
    <2> QED
      BY <1>1, <2>4, <2>5 DEF Exhausted, Occupancy
  <1> QED
    BY <1>1, <1>2, <1>3 DEF TurnInv

LEMMA TurnUnchanged ==
    ASSUME TurnInv, UNCHANGED <<conv, rate>>
    PROVE  TurnInv'
    BY DEF TurnInv, rate, Levels, Stages, Exhausted, Occupancy

\* soxr_process returns less than it was asked for only when every stage of the
\* converter has less left than it takes at once, however the calls of stage_process
\* went and however little the first stage was given: it does not stop early.
THEOREM ConversionGoesOn == Spec => []LessThanATurnLeft
  <1>1. Init => TurnInv
    <2> SUFFICES ASSUME Init
                 PROVE  TurnInv
      OBVIOUS
    <2> QED
      BY DEF Init, InitRate, TurnInv
  <1>2. SizeInv /\ TurnInv /\ [Next]_vars => TurnInv'
    <2> SUFFICES ASSUME SizeInv, TurnInv, [Next]_vars
                 PROVE  TurnInv'
      OBVIOUS
    <2>1. CASE Process
      BY <2>1, TurnStart DEF Process, SizeInv, RateInv
    <2>2. CASE Convert_on
      BY <2>2, TurnPull, TurnStage, TurnOutput DEF Convert_on, Converting, SizeInv
    <2>3. ASSUME UNCHANGED <<conv, rate>>
          PROVE  TurnInv'
      BY <2>3, TurnUnchanged
    <2>4. CASE \/ read_input_data \/ read_resampled_data \/ read_playback_data
               \/ resampler_proc \/ UNCHANGED vars
      BY <2>3, <2>4 DEF read_input_data, read_resampled_data, read_playback_data,
                        resampler_proc, vars
    <2> QED
      BY <2>1, <2>2, <2>4 DEF Next, resampler_populate
  <1>3. TurnInv => LessThanATurnLeft
    BY DEF TurnInv, LessThanATurnLeft, Exhausted
  <1> QED
    BY <1>1, <1>2, <1>3, SizesInvariant, PTL DEF Spec
-----------------------------------------------------------------------------
(***************************************************************************)
(* The ratio that the stages make together.                                *)
(***************************************************************************)
LEMMA GainIsPositive ==
    ASSUME NEW d, Designed(d)
    PROVE  Gain(d)[1] \in Positive /\ Gain(d)[2] \in Positive
  <1>1. One \in Positive
    BY OneIsPositive DEF Positive
  <1>2. CASE d.kind = "half"
    BY <1>2 DEF Gain, Positive
  <1>3. CASE d.kind = "poly"
    <2>1. d.L \in Nat \ {0} /\ d.step \in Nat \ {0}
      BY <1>3 DEF Designed
    <2>2. Gain(d) = <<d.L, d.step>>
      BY <1>3 DEF Gain
    <2> QED
      BY <2>1, <2>2 DEF Positive
  <1>4. CASE d.kind \in {"interp", "cubic"}
    <2>1. d.step \in Nat \ {0}
      BY <1>4 DEF Designed
    <2>2. Gain(d) = <<One, d.step>>
      BY <1>4 DEF Gain
    <2> QED
      BY <1>1, <2>1, <2>2 DEF Positive
  <1>5. CASE d.kind = "dft"
    <2>1. d.L \in Nat \ {0} /\ (d.step \in Nat \ {0} \/ d.step \in {-1, -2})
      BY <1>5 DEF Designed
    <2>2. CASE d.step \in Nat \ {0}
      <3>1. d.step > 0 /\ ~ (d.step < 0)
        BY <2>2
      <3>2. Gain(d) = <<d.L, d.step>>
        BY <1>5, <3>1 DEF Gain
      <3> QED
        BY <2>1, <2>2, <3>2 DEF Positive
    <2>3. CASE d.step \in {-1, -2}
      <3>1. d.step < 0 /\ ~ (d.step > 0)
        BY <2>3
      <3>2. Gain(d) = <<d.L, DividedBy(d.step)>>
        BY <1>5, <3>1 DEF Gain
      <3> QED
        BY <2>1, <3>2 DEF Positive, DividedBy
    <2> QED
      BY <2>1, <2>2, <2>3
  <1> QED
    BY <1>2, <1>3, <1>4, <1>5 DEF Designed

LEMMA RatioTimes ==
    ASSUME NEW x \in Ratios, NEW a \in Positive, NEW b \in Positive
    PROVE  Times(x, a, b) \in Ratios
  <1>1. x.num \in Positive /\ x.den \in Positive
    BY DEF Ratios
  <1>2. Is(x, x.num, x.den)
    BY DEF Is
  <1> QED
    BY <1>1, <1>2, TimesIs DEF Is

\* f says how many samples the first stages of S make of how many.
Chain(f, S) ==
    /\ f[0] = Fraction(1, 1)
    /\ \A s \in 1 .. Len(S) : f[s] = Times(f[s - 1], Gain(S[s])[1], Gain(S[s])[2])

\* The equation of Made.
LEMMA MadeEquation ==
    ASSUME conv \in Converters
    PROVE  Chain(Made, conv.stages) /\ Made \in [0 .. Len(conv.stages) -> Ratios]
  <1> DEFINE S == conv.stages
             N == Len(S)
             first == Fraction(1, 1)
             Next_one(s, x) == Times(x, Gain(S[s])[1], Gain(S[s])[2])
             h == [z \in Nat \X Ratios |->
                      IF z[1] \in 1 .. N THEN Next_one(z[1], z[2]) ELSE z[2]]
             Equation(f) == f = [s \in 0 .. N |->
                                    IF s = 0 THEN first
                                    ELSE Times(f[s - 1], Gain(S[s])[1], Gain(S[s])[2])]
  <1>1. N \in Nat /\ \A s \in 1 .. N : Designed(S[s])
    BY ConverterAssumption
  <1>2. first \in Ratios
    <2>1. 1 \in Positive
      BY DEF Positive
    <2> QED
      BY <2>1, FractionIs DEF Is
  <1>3. h \in [Nat \X Ratios -> Ratios]
    <2>1. ASSUME NEW z \in Nat \X Ratios
          PROVE  (IF z[1] \in 1 .. N THEN Next_one(z[1], z[2]) ELSE z[2]) \in Ratios
      <3>1. z[2] \in Ratios
        OBVIOUS
      <3>2. CASE z[1] \in 1 .. N
        <4>1. Designed(S[z[1]])
          BY <1>1, <3>2
        <4> QED
          BY <3>1, <3>2, <4>1, GainIsPositive, RatioTimes
      <3> QED
        BY <3>1, <3>2
    <2> HIDE DEF Next_one, N
    <2> QED
      BY <2>1
  <1>4. PICK f : Begun(f, N, Ratios, first, h)
    <2> HIDE DEF first, h, N
    <2> QED
      BY <1>1, <1>2, <1>3, BegunExists
  <1>5. f \in [0 .. N -> Ratios] /\ f[0] = first
    BY <1>4 DEF Begun
  <1>6. ASSUME NEW s \in 1 .. N
        PROVE  f[s] = Next_one(s, f[s - 1])
    <2>1. s \in Nat /\ s - 1 \in 0 .. N
      BY <1>1
    <2>2. <<s, f[s - 1]>> \in Nat \X Ratios
      BY <1>5, <2>1
    <2>3. f[s] = h[<<s, f[s - 1]>>]
      BY <1>4 DEF Begun
    <2> HIDE DEF Next_one, N
    <2> QED
      BY <2>2, <2>3
  <1> HIDE DEF h
  <1>7. Equation(f)
    <2>1. \A s \in 0 .. N :
             f[s] = IF s = 0 THEN first ELSE Next_one(s, f[s - 1])
      <3> HIDE DEF Next_one, first, N
      <3> QED
        BY <1>1, <1>5, <1>6
    <2>2. f = [s \in 0 .. N |-> f[s]]
      BY <1>5
    <2>3. [s \in 0 .. N |-> f[s]]
            = [s \in 0 .. N |-> IF s = 0 THEN first ELSE Next_one(s, f[s - 1])]
      BY <2>1
    <2> QED
      BY <2>2, <2>3
  <1>8. Equation(Made)
    <2> DEFINE g == CHOOSE g : Equation(g)
    <2>1. Equation(g)
      BY <1>7
    <2>2. Made = g
      BY DEF Made
    <2> QED
      BY <2>1, <2>2
  <1> DEFINE M == Made
  <1>9. Equation(M)
    BY <1>8
  <1> HIDE DEF M
  <1>10. /\ M[0] = first
         /\ \A s \in 1 .. N : M[s] = Next_one(s, M[s - 1])
    <2> HIDE DEF first, Next_one
    <2>1. M = [s \in 0 .. N |-> IF s = 0 THEN first ELSE Next_one(s, M[s - 1])]
      BY <1>9 DEF Next_one
    <2> HIDE DEF N
    <2> QED
      BY <1>1, <2>1
  <1>11. M \in [0 .. N -> Ratios]
    <2> DEFINE Not_one == {n \in Nat : n <= N /\ M[n] \notin Ratios}
    <2>1. Not_one = {}
      <3> SUFFICES ASSUME Not_one # {}
                   PROVE  FALSE
        OBVIOUS
      <3>1. Not_one \subseteq Nat
        OBVIOUS
      <3>2. PICK n \in Not_one : \A m \in Nat : m < n => m \notin Not_one
        <4> HIDE DEF Not_one
        <4> QED
          BY <3>1, LeastOf
      <3>3. n \in Nat /\ n <= N /\ M[n] \notin Ratios
        OBVIOUS
      <3>4. n # 0
        BY <1>2, <1>10, <3>3
      <3>5. n - 1 \in Nat /\ n - 1 < n /\ n - 1 <= N /\ n \in 1 .. N
        BY <1>1, <3>3, <3>4
      <3>6. M[n - 1] \in Ratios
        BY <3>2, <3>5
      <3>7. Designed(S[n])
        BY <1>1, <3>5
      <3>8. Next_one(n, M[n - 1]) \in Ratios
        BY <3>6, <3>7, GainIsPositive, RatioTimes
      <3> HIDE DEF Next_one
      <3> QED
        BY <1>10, <3>3, <3>5, <3>8
    <2>2. \A n \in 0 .. N : M[n] \in Ratios
      BY <1>1, <2>1
    <2>3. \E E : M = [s \in 0 .. N |-> E[s]]
      <3>1. M = [s \in 0 .. N |-> M[s]]
        BY <1>9
      <3> QED
        BY <3>1
    <2> QED
      BY <2>2, <2>3
  <1> QED
    BY <1>10, <1>11 DEF Chain, M

\* The stages S make A samples of B.
MakesOf(S, A, B) == \A f : Chain(f, S) => Is(f[Len(S)], A, B)

LEMMA OneMore ==
    ASSUME NEW U, NEW S \in Seq(U), NEW e \in U,
           NEW A \in Positive, NEW B \in Positive, MakesOf(S, A, B),
           NEW g \in Positive, NEW h \in Positive, Gain(e) = <<g, h>>
    PROVE  MakesOf(S \o <<e>>, A * g, B * h)
  <1> DEFINE T == S \o <<e>>
             n == Len(S)
  <1>1. /\ n \in Nat /\ Len(T) = n + 1 /\ T[n + 1] = e
        /\ \A s \in 1 .. n : T[s] = S[s]
    OBVIOUS
  <1> HIDE DEF T
  <1> SUFFICES ASSUME NEW f, Chain(f, T)
               PROVE  Is(f[n + 1], A * g, B * h)
    BY <1>1 DEF MakesOf, T
  <1>2. Chain(f, S)
    <2>1. ASSUME NEW s \in 1 .. n
          PROVE  f[s] = Times(f[s - 1], Gain(S[s])[1], Gain(S[s])[2])
      <3>1. s \in 1 .. Len(T) /\ T[s] = S[s]
        BY <1>1
      <3> QED
        BY <3>1 DEF Chain
    <2> QED
      BY <2>1 DEF Chain
  <1>3. Is(f[n], A, B)
    BY <1>2 DEF MakesOf
  <1>4. f[n + 1] = Times(f[n], g, h)
    <2>1. n + 1 \in 1 .. Len(T) /\ n + 1 - 1 = n
      BY <1>1
    <2>2. f[n + 1] = Times(f[n + 1 - 1], Gain(T[n + 1])[1], Gain(T[n + 1])[2])
      BY <2>1 DEF Chain
    <2> QED
      BY <1>1, <2>1, <2>2
  <1> QED
    BY <1>3, <1>4, TimesIs

LEMMA MakesAlso ==
    ASSUME NEW S, NEW A \in Positive, NEW B \in Positive, MakesOf(S, A, B),
           NEW C \in Positive, NEW D \in Positive, A * D = B * C
    PROVE  MakesOf(S, C, D)
    BY IsAlso DEF MakesOf

\* Halving n times.
LEMMA Halvings ==
    ASSUME NEW n \in Nat
    PROVE  MakesOf([i \in 1 .. n |-> Half], 1, TwoTo[n])
  <1> DEFINE S(k) == [i \in 1 .. k |-> Half]
             Bad == {k \in Nat : ~ MakesOf(S(k), 1, TwoTo[k])}
  <1>1. Bad = {}
    <2> SUFFICES ASSUME Bad # {}
                 PROVE  FALSE
      OBVIOUS
    <2>1. Bad \subseteq Nat
      OBVIOUS
    <2>2. PICK k \in Bad : \A m \in Nat : m < k => m \notin Bad
      <3> HIDE DEF Bad
      <3> QED
        BY <2>1, LeastOf
    <2>3. k \in Nat /\ ~ MakesOf(S(k), 1, TwoTo[k])
      OBVIOUS
    <2>4. k # 0
      <3> SUFFICES ASSUME k = 0
                   PROVE  MakesOf(S(k), 1, TwoTo[k])
        BY <2>3
      <3>1. Len(S(0)) = 0
        OBVIOUS
      <3>2. 1 \in Positive
        BY DEF Positive
      <3>3. \A f : Chain(f, S(0)) => Is(f[0], 1, 1)
        BY <3>2, FractionIs DEF Chain
      <3> QED
        BY <3>1, <3>3, TwoToOf DEF MakesOf
    <2> DEFINE m == k - 1
    <2>5. m \in Nat /\ m < k /\ k = m + 1
      BY <2>3, <2>4
    <2>6. MakesOf(S(m), 1, TwoTo[m])
      BY <2>2, <2>5
    <2>7. TwoTo[m] \in Positive /\ TwoTo[k] = 2 * TwoTo[m]
      BY <2>5, TwoToOf
    <2>8. S(k) = S(m) \o <<Half>>
      <3> HIDE DEF m, Bad
      <3> DEFINE a == S(k)
                 b == S(m)
                 c == b \o <<Half>>
      <3>1. a \in Seq({Half}) /\ Len(a) = k /\ \A i \in 1 .. k : a[i] = Half
        BY <2>3
      <3>2. b \in Seq({Half}) /\ Len(b) = m /\ \A i \in 1 .. m : b[i] = Half
        BY <2>5
      <3> HIDE DEF a, b
      <3>3. /\ c \in Seq({Half}) /\ Len(c) = k /\ c[k] = Half
            /\ \A i \in 1 .. m : c[i] = b[i]
        BY <3>2, <2>5
      <3>4. \A i \in 1 .. k : c[i] = Half
        BY <2>5, <3>2, <3>3
      <3> HIDE DEF c
      <3>5. a = c
        BY <3>1, <3>3, <3>4
      <3> QED
        BY <3>5 DEF a, b, c
    <2>9. S(m) \in Seq({Half}) /\ 1 \in Positive /\ 2 \in Positive
      BY <2>5 DEF Positive
    <2>10. Gain(Half) = <<1, 2>>
      BY DEF Gain, Half
    <2> HIDE DEF m, Bad
    <2>11. MakesOf(S(m) \o <<Half>>, 1 * 1, TwoTo[m] * 2)
      <3> DEFINE b == S(m)
      <3> HIDE DEF b
      <3> QED
        BY <2>6, <2>7, <2>9, <2>10, OneMore DEF b
    <2>12. 1 * 1 = 1 /\ TwoTo[m] * 2 = 2 * TwoTo[m]
      BY <2>7, SMT DEF Positive
    <2> QED
      BY <2>3, <2>7, <2>8, <2>11, <2>12
  <1> QED
    BY <1>1

\* A stage that is there only if it changes the rate.
LEMMA PerhapsOneMore ==
    ASSUME NEW U, NEW S \in Seq(U), NEW e \in U,
           NEW A \in Positive, NEW B \in Positive, MakesOf(S, A, B),
           NEW a \in Positive, NEW b \in Positive,
           NEW condition \in BOOLEAN, ~ condition => a = b,
           condition => /\ Gain(e)[1] \in Positive /\ Gain(e)[2] \in Positive
                        /\ Gain(e) = <<Gain(e)[1], Gain(e)[2]>>
                        /\ Gain(e)[1] * b = Gain(e)[2] * a
    PROVE  LET T == S \o (IF condition THEN <<e>> ELSE <<>>)
           IN  T \in Seq(U) /\ MakesOf(T, A * a, B * b)
  <1>1. A * a \in Positive /\ B * b \in Positive
    BY PositiveProduct
  <1>2. CASE condition
    <2> DEFINE g == Gain(e)[1]
               h == Gain(e)[2]
               T == S \o <<e>>
    <2>1. g \in Positive /\ h \in Positive /\ Gain(e) = <<g, h>> /\ g * b = h * a
      BY <1>2
    <2> HIDE DEF g, h
    <2>2. MakesOf(T, A * g, B * h)
      BY <2>1, OneMore
    <2>3. A * g \in Positive /\ B * h \in Positive
      BY <2>1, PositiveProduct
    <2>4. (A * g) * (B * b) = (B * h) * (A * a)
      <3>1. (A * g) * (B * b) = (A * B) * (g * b)
        BY <2>1, SMT DEF Positive
      <3>2. (B * h) * (A * a) = (A * B) * (h * a)
        BY <2>1, SMT DEF Positive
      <3> QED
        BY <2>1, <3>1, <3>2
    <2>5. T \in Seq(U)
      OBVIOUS
    <2> HIDE DEF T
    <2>6. MakesOf(T, A * a, B * b)
      BY <1>1, <2>2, <2>3, <2>4, MakesAlso
    <2> QED
      BY <1>2, <2>5, <2>6 DEF T
  <1>3. CASE ~ condition
    <2>1. S \o <<>> = S
      OBVIOUS
    <2>2. A * (B * b) = B * (A * a)
      BY <1>3, SMT DEF Positive
    <2>3. MakesOf(S, A * a, B * b)
      BY <1>1, <2>2, MakesAlso
    <2> QED
      BY <1>3, <2>1, <2>3
  <1> QED
    BY <1>2, <1>3

LEMMA GainOfDft ==
    ASSUME NEW L \in Positive, NEW M \in Positive
    PROVE  Gain(Dft(L, M)) = <<L, M>>
  <1> DEFINE d == Dft(L, M)
  <1>1. d.kind = "dft" /\ d.L = L
    BY DEF Dft
  <1>2. CASE M = 2
    <2>1. M \div 2 = 1
      BY <1>2
    <2>2. d.step = -1
      BY <1>2, <2>1 DEF Dft
    <2>3. d.step < 0 /\ ~ (d.step > 0) /\ DividedBy(d.step) = 2
      BY <2>2 DEF DividedBy
    <2> HIDE DEF d
    <2> QED
      BY <1>1, <1>2, <2>3 DEF Gain, d
  <1>3. CASE M = 4
    <2>1. M \div 2 = 2
      BY <1>3
    <2>2. d.step = -2
      BY <1>3, <2>1 DEF Dft
    <2>3. d.step < 0 /\ ~ (d.step > 0) /\ DividedBy(d.step) = 4
      BY <2>2 DEF DividedBy
    <2> HIDE DEF d
    <2> QED
      BY <1>1, <1>3, <2>3 DEF Gain, d
  <1>4. CASE M # 2 /\ M # 4
    <2>1. d.step = M
      BY <1>4 DEF Dft
    <2>2. d.step > 0 /\ ~ (d.step < 0)
      BY <2>1 DEF Positive
    <2> HIDE DEF d
    <2> QED
      BY <1>1, <2>1, <2>2 DEF Gain, d
  <1> QED
    BY <1>2, <1>3, <1>4

LEMMA ExactStep ==
    ASSUME NEW x, NEW a \in Positive, NEW b \in Positive, Is(x, a, b),
           NEW step \in Nat, step * x.den = One * x.num
    PROVE  step \in Positive /\ One * a = step * b
  <1> DEFINE n == x.num
             m == x.den
  <1>1. n \in Positive /\ m \in Positive /\ n * b = a * m /\ One \in Positive
    BY IsPositive, OneIsPositive DEF Positive
  <1>2. step * m = One * n
    OBVIOUS
  <1> HIDE DEF n, m
  <1>3. step # 0
    <2> SUFFICES ASSUME step = 0
                 PROVE  FALSE
      OBVIOUS
    <2>1. One * n \in Positive
      BY <1>1, PositiveProduct
    <2>2. 0 * m = 0
      BY <1>1, SMT DEF Positive
    <2> QED
      BY <1>2, <2>1, <2>2 DEF Positive
  <1>4. m * (One * a) = m * (step * b)
    <2>1. m * (One * a) = One * (a * m)
      BY <1>1, SMT DEF Positive
    <2>2. m * (step * b) = (step * m) * b
      BY <1>1, SMT DEF Positive
    <2>3. One * (n * b) = (One * n) * b
      BY <1>1, SMT DEF Positive
    <2> QED
      BY <1>1, <1>2, <2>1, <2>2, <2>3
  <1>5. One * a \in Nat /\ step * b \in Nat
    BY <1>1, SMT DEF Positive
  <1>6. One * a = step * b
    BY <1>1, <1>4, <1>5, SameFactor
  <1> QED
    BY <1>3, <1>6 DEF Positive

LEMMA FixedIsNat ==
    ASSUME NEW x \in Ratios
    PROVE  Fixed(x) \in Nat
  <1> DEFINE a == 2 * x.num * One + x.den
             b == 2 * x.den
  <1>1. x.num \in Positive /\ x.den \in Positive
    BY DEF Ratios
  <1>2. a \in Nat /\ b \in Nat \ {0}
    <2>1. x.num * One \in Nat
      BY <1>1, OneIsPositive, SMT DEF Positive
    <2>2. 2 * x.num * One = 2 * (x.num * One)
      BY <1>1, OneIsPositive, SMT DEF Positive
    <2> QED
      BY <1>1, <2>1, <2>2 DEF Positive
  <1> HIDE DEF a, b
  <1>3. a \div b \in Nat
    BY <1>2, Quotient
  <1> QED
    BY <1>3 DEF Fixed, a, b

\* What the arbitrary stage makes.
MakesRatio(e, a, b) ==
    /\ Gain(e)[1] \in Positive /\ Gain(e)[2] \in Positive
    /\ Gain(e) = <<Gain(e)[1], Gain(e)[2]>>
    /\ Gain(e)[1] * b = Gain(e)[2] * a

LEMMA StepMakes ==
    ASSUME NEW e, e.kind \in {"interp", "cubic"}, e.step \in Nat,
           NEW x, Exact(e, x),
           NEW a \in Positive, NEW b \in Positive, Is(x, a, b)
    PROVE  MakesRatio(e, b, a)
  <1>1. e.step \in Positive /\ One * a = e.step * b
    BY ExactStep DEF Exact
  <1>2. Gain(e) = <<One, e.step>>
    BY DEF Gain
  <1>3. One \in Positive
    BY OneIsPositive DEF Positive
  <1> QED
    BY <1>1, <1>2, <1>3 DEF MakesRatio

LEMMA ArbitraryMakes ==
    ASSUME NEW p \in Plans, p.rational => p.arbM.den = 1,
           NEW quality, quality = "QQ" => p.arbL = 1,
           NEW e, e = IF quality = "QQ" THEN Cubic(p.arbM) ELSE Poly(p),
           Exact(e, Times(p.arbM, 1, p.arbL))
    PROVE  MakesRatio(e, p.arbM.den * p.arbL, p.arbM.num)
  <1> DEFINE x == Times(p.arbM, 1, p.arbL)
             n == p.arbM.num
             m == p.arbM.den
  <1>1. n \in Positive /\ m \in Positive /\ p.arbL \in Positive /\ 1 \in Positive
    BY PlanFields DEF Ratios, Positive
  <1>2. Is(x, n, m * p.arbL) /\ m * p.arbL \in Positive /\ x \in Ratios
    <2>1. Is(p.arbM, n, m)
      BY PlanFields DEF Is
    <2>2. Is(x, n * 1, m * p.arbL)
      BY <1>1, <2>1, TimesIs
    <2>3. n * 1 = n
      BY <1>1, SMT DEF Positive
    <2> QED
      BY <1>1, <2>2, <2>3, PositiveProduct DEF Is
  <1>3. CASE quality = "QQ"
    <2>1. e.kind = "cubic" /\ e.step = Fixed(p.arbM)
      BY <1>3 DEF Cubic
    <2>2. e.step \in Nat
      BY <2>1, FixedIsNat, PlanFields
    <2> HIDE DEF x, n, m
    <2> QED
      BY <1>1, <1>2, <2>1, <2>2, StepMakes DEF x, n, m
  <1>4. CASE quality # "QQ"
    <2> DEFINE num_coefs == PolyCoefs + One_if(PolyCoefs % 2 = 1 /\ p.preM = 0)
               num_coefs4 == CoefGroup * ((num_coefs + CoefGroup - 1) \div CoefGroup)
               twice == 1 + One_if(num_coefs % 2 = 1 /\ p.arbL % 2 = 1)
               few == /\ p.rational
                      /\ twice * p.arbL * num_coefs4 <= CoefSize \/ OnlyPhases(p)
    <2>1. e = IF few
              THEN [kind |-> "poly", num_coefs |-> num_coefs,
                    num_coefs4 |-> num_coefs4,
                    L |-> twice * p.arbL, step |-> twice * p.arbM.num]
              ELSE [kind |-> "interp", num_coefs |-> num_coefs,
                    num_coefs4 |-> num_coefs4, step |-> Fixed(x)]
      BY <1>4 DEF Poly
    <2>2. twice \in Positive
      BY DEF One_if, Positive
    <2>3. few => p.rational
      OBVIOUS
    <2> HIDE DEF num_coefs, num_coefs4, twice, few, x
    <2>4. CASE few
      <3>1. e.kind = "poly" /\ e.L = twice * p.arbL /\ e.step = twice * n
        BY <2>1, <2>4
      <3>2. Gain(e) = <<e.L, e.step>>
        BY <3>1 DEF Gain
      <3>3. e.L \in Positive /\ e.step \in Positive
        BY <1>1, <2>2, <3>1, PositiveProduct
      <3>4. m = 1
        BY <2>3, <2>4
      <3> HIDE DEF m, n
      <3>5. (twice * p.arbL) * n = (twice * n) * (m * p.arbL)
        BY <1>1, <2>2, <3>4, SMT DEF Positive
      <3> QED
        BY <3>1, <3>2, <3>3, <3>5 DEF MakesRatio, m, n
    <2>5. CASE ~ few
      <3>1. e.kind = "interp" /\ e.step = Fixed(x)
        BY <2>1, <2>5
      <3>2. e.step \in Nat
        BY <1>2, <3>1, FixedIsNat
      <3> HIDE DEF n, m
      <3> QED
        BY <1>1, <1>2, <3>1, <3>2, StepMakes DEF x, n, m
    <2> QED
      BY <2>4, <2>5
  <1> QED
    BY <1>3, <1>4

LEMMA QuickPlan ==
    ASSUME NEW ratio
    PROVE  Planned(ratio, "QQ").arbL = 1
  <1> DEFINE p == [arbM |-> ratio, arbL |-> 1, preL |-> 1, preM |-> 1, postL |-> 1,
                   postM |-> 1, shr |-> 0, rational |-> FALSE, upsample |-> FALSE,
                   mode |-> Mode(ratio, "QQ"), again |-> "QQ" # "QQ"]
  <1>1. Planned(ratio, "QQ") = Turn(Turn(p))
    BY DEF Planned
  <1>2. ~ p.again /\ p.arbL = 1
    OBVIOUS
  <1> HIDE DEF p
  <1> QED
    BY <1>1, <1>2 DEF Turn

\* The stages of a plan, one after the other.
LEMMA StagesMake ==
    ASSUME NEW p \in Plans, p.rational => p.arbM.den = 1, TwoTo[p.shr] \in Positive,
           NEW quality, quality = "QQ" => p.arbL = 1,
           NEW S, S = StagesOf(p, quality),
           \A s \in 1 .. Len(S) : Exact(S[s], Times(p.arbM, 1, p.arbL))
    PROVE  MakesOf(S, 1 * p.preL * (p.arbM.den * p.arbL) * p.postL,
                   TwoTo[p.shr] * Stepping(p.preM) * p.arbM.num * p.postM)
  <1> DEFINE pre == Dft(p.preL, Stepping(p.preM))
             arb == IF quality = "QQ" THEN Cubic(p.arbM) ELSE Poly(p)
             post == Dft(p.postL, p.postM)
             there_pre == p.preM * p.preL # 1
             there_arb == p.arbM # Fraction(1, 1) \/ p.arbL # 1
             there_post == p.postM * p.postL # 1
             S0 == [i \in 1 .. p.shr |-> Half]
             S1 == S0 \o (IF there_pre THEN <<pre>> ELSE <<>>)
             S2 == S1 \o (IF there_arb THEN <<arb>> ELSE <<>>)
             S3 == S2 \o (IF there_post THEN <<post>> ELSE <<>>)
             U == {Half, pre, arb, post}
             n == p.arbM.num
             m == p.arbM.den
             x == Times(p.arbM, 1, p.arbL)
  <1>1. /\ n \in Positive /\ m \in Positive /\ p.arbL \in Positive
        /\ p.preL \in Positive /\ p.postL \in Positive /\ p.postM \in Positive
        /\ p.preM \in Nat /\ p.shr \in Nat /\ 1 \in Positive
        /\ Stepping(p.preM) \in Positive /\ m * p.arbL \in Positive
    BY PlanFields, PositiveProduct DEF Ratios, Positive, Stepping
  <1>2. S = S3
    BY DEF StagesOf, Stepping
  <1>3. S0 \in Seq(U) /\ MakesOf(S0, 1, TwoTo[p.shr])
    <2> HIDE DEF pre, arb, post
    <2>1. S0 \in Seq(U)
      BY <1>1
    <2> QED
      BY <1>1, <2>1, Halvings
  <1>4. S1 \in Seq(U) /\ MakesOf(S1, 1 * p.preL, TwoTo[p.shr] * Stepping(p.preM))
    <2>1. ~ there_pre => p.preL = Stepping(p.preM)
      <3> SUFFICES ASSUME p.preM * p.preL = 1
                   PROVE  p.preL = Stepping(p.preM)
        OBVIOUS
      <3>1. p.preM = 1 /\ p.preL = 1
        BY <1>1, SMT DEF Positive
      <3> QED
        BY <3>1 DEF Stepping
    <2>2. Gain(pre) = <<p.preL, Stepping(p.preM)>>
      BY <1>1, GainOfDft
    <2>3. p.preL * Stepping(p.preM) = Stepping(p.preM) * p.preL
      BY <1>1, SMT DEF Positive
    <2>4. pre \in U /\ there_pre \in BOOLEAN
      OBVIOUS
    <2> HIDE DEF pre, arb, post, S0, there_pre, U
    <2> QED
      BY <1>1, <1>3, <2>1, <2>2, <2>3, <2>4, PerhapsOneMore
  <1>5. there_arb => Exact(arb, x)
    <2> SUFFICES ASSUME there_arb
                 PROVE  Exact(arb, x)
      OBVIOUS
    <2> DEFINE k == Len(S1)
    <2>1. /\ S1 \in Seq(U) /\ arb \in U /\ post \in U
      BY <1>4
    <2>2. S2 = S1 \o <<arb>>
      OBVIOUS
    <2> HIDE DEF S1, S2, arb, post, U, x
    <2>3. k \in Nat /\ S2 \in Seq(U) /\ Len(S2) = k + 1 /\ S2[k + 1] = arb
      BY <2>1, <2>2
    <2>4. k + 1 \in 1 .. Len(S3) /\ S3[k + 1] = arb
      <3> HIDE DEF there_post, k
      <3>1. CASE there_post
        <4>1. S3 = S2 \o <<post>>
          BY <3>1
        <4> HIDE DEF S3
        <4> QED
          BY <2>1, <2>3, <4>1
      <3>2. CASE ~ there_post
        <4>1. S3 = S2 \o <<>>
          BY <3>2
        <4> HIDE DEF S3
        <4> QED
          BY <2>1, <2>3, <4>1
      <3> QED
        BY <3>1, <3>2
    <2> HIDE DEF S3
    <2> QED
      BY <1>2, <2>4 DEF x
  <1>6. /\ S2 \in Seq(U)
        /\ MakesOf(S2, 1 * p.preL * (m * p.arbL), TwoTo[p.shr] * Stepping(p.preM) * n)
    <2>1. there_arb => MakesRatio(arb, m * p.arbL, n)
      <3> HIDE DEF there_arb, x
      <3> SUFFICES ASSUME there_arb
                   PROVE  MakesRatio(arb, m * p.arbL, n)
        OBVIOUS
      <3>1. arb = IF quality = "QQ" THEN Cubic(p.arbM) ELSE Poly(p)
        OBVIOUS
      <3>2. Exact(arb, Times(p.arbM, 1, p.arbL))
        BY <1>5 DEF x
      <3> HIDE DEF arb
      <3> QED
        BY <3>1, <3>2, ArbitraryMakes
    <2>2. ~ there_arb => m * p.arbL = n
      <3> SUFFICES ASSUME p.arbM = Fraction(1, 1), p.arbL = 1
                   PROVE  m * p.arbL = n
        OBVIOUS
      <3>1. Fraction(1, 1) = [num |-> 1, den |-> 1]
        BY <1>1, WholeFraction
      <3>2. m = 1 /\ n = 1
        BY <3>1
      <3> QED
        BY <3>2
    <2>3. there_arb \in BOOLEAN /\ arb \in U
      OBVIOUS
    <2>4. 1 * p.preL \in Positive /\ TwoTo[p.shr] * Stepping(p.preM) \in Positive
      BY <1>1, PositiveProduct
    <2> HIDE DEF arb, S1, there_arb, U, n, m
    <2> QED
      BY <1>1, <1>4, <2>1, <2>2, <2>3, <2>4, PerhapsOneMore DEF MakesRatio
  <1>7. MakesOf(S3, 1 * p.preL * (m * p.arbL) * p.postL,
                TwoTo[p.shr] * Stepping(p.preM) * n * p.postM)
    <2>1. ~ there_post => p.postL = p.postM
      <3> SUFFICES ASSUME p.postM * p.postL = 1
                   PROVE  p.postL = p.postM
        OBVIOUS
      <3> QED
        BY <1>1, SMT DEF Positive
    <2>2. Gain(post) = <<p.postL, p.postM>>
      BY <1>1, GainOfDft
    <2>3. p.postL * p.postM = p.postM * p.postL
      BY <1>1, SMT DEF Positive
    <2>4. there_post \in BOOLEAN /\ post \in U
      OBVIOUS
    <2>5. /\ 1 * p.preL * (m * p.arbL) \in Positive
          /\ TwoTo[p.shr] * Stepping(p.preM) * n \in Positive
      BY <1>1, PositiveProduct
    <2> HIDE DEF post, S2, there_post, U, n, m
    <2> QED
      BY <1>1, <1>6, <2>1, <2>2, <2>3, <2>4, <2>5, PerhapsOneMore
  <1> QED
    BY <1>2, <1>7

LEMMA SameRatio ==
    ASSUME NEW x, NEW a \in Positive, NEW b \in Positive, Is(x, a, b),
           NEW c \in Positive, NEW d \in Positive, Is(x, c, d)
    PROVE  a * d = b * c
  <1> DEFINE n == x.num
             m == x.den
  <1>1. n \in Positive /\ m \in Positive /\ n * b = a * m /\ n * d = c * m
    BY IsPositive
  <1> HIDE DEF n, m
  <1>2. n * (a * d) = n * (b * c)
    <2>1. n * (a * d) = a * (n * d)
      BY <1>1, SMT DEF Positive
    <2>2. n * (b * c) = (n * b) * c
      BY <1>1, SMT DEF Positive
    <2>3. a * (c * m) = (a * m) * c
      BY <1>1, SMT DEF Positive
    <2> QED
      BY <1>1, <2>1, <2>2, <2>3
  <1>3. a * d \in Nat /\ b * c \in Nat
    BY SMT DEF Positive
  <1> QED
    BY <1>1, <1>2, <1>3, SameFactor

LEMMA StagesMakeTheRatio ==
    ASSUME StepsAreExact, conv \in Converters
    PROVE  /\ Is(Made[Len(conv.stages)], conv.output_rate, conv.input_rate)
           /\ Made[Len(conv.stages)] = Fraction(conv.output_rate, conv.input_rate)
  <1> DEFINE i == conv.input_rate
             o == conv.output_rate
             S == conv.stages
             p == Planned(Fraction(i, o), conv.quality)
             A == 1 * p.preL * (p.arbM.den * p.arbL) * p.postL
             B == TwoTo[p.shr] * Stepping(p.preM) * p.arbM.num * p.postM
             M == Made[Len(S)]
  <1>1. /\ i \in Positive /\ o \in Positive /\ i # o
        /\ S = StagesOf(p, conv.quality) /\ Len(S) \in Nat
    BY ConversionAssumption, ConverterAssumption DEF Positive, _soxr_init
  <1>2. conv.quality = "QQ" => p.arbL = 1
    BY QuickPlan
  <1>3. \A s \in 1 .. Len(S) : Exact(S[s], Times(p.arbM, 1, p.arbL))
    BY DEF StepsAreExact
  <1>4. Made_up(p, i, o)
    BY <1>1, PlanIsMade
  <1>5. Chain(Made, S) /\ Made \in [0 .. Len(S) -> Ratios]
    BY MadeEquation
  <1> HIDE DEF p, S, i, o
  <1>6. p \in Plans /\ (p.rational => p.arbM.den = 1) /\ Is(RatioOf(p), i, o)
    BY <1>4 DEF Made_up
  <1>7. TwoTo[p.shr] \in Positive
    BY <1>6, TwoToOf, PlanFields
  <1>8. MakesOf(S, A, B)
    BY <1>1, <1>2, <1>3, <1>6, <1>7, StagesMake
  <1>9. Is(M, A, B)
    BY <1>5, <1>8 DEF MakesOf
  <1>10. /\ p.arbM.num \in Positive /\ p.arbM.den \in Positive /\ p.arbL \in Positive
         /\ p.preL \in Positive /\ p.postL \in Positive /\ p.postM \in Positive
         /\ Stepping(p.preM) \in Positive /\ 1 \in Positive
         /\ Is(p.arbM, p.arbM.num, p.arbM.den)
    BY <1>6, PlanFields DEF Ratios, Positive, Stepping, Is
  <1>11. A \in Positive /\ B \in Positive
    BY <1>7, <1>10, PositiveProduct
  <1>12. Is(RatioOf(p), B, A)
    <2> DEFINE n == p.arbM.num
               m == p.arbM.den
               T == TwoTo[p.shr]
               k == Stepping(p.preM)
               C == n * T * (k * p.postM)
               D == m * p.arbL * (p.preL * p.postL)
    <2>1. Is(RatioOf(p), C, D)
      BY <1>6, <1>7, <1>10, RatioOfIs
    <2>2. /\ n \in Positive /\ m \in Positive /\ T \in Positive /\ k \in Positive
          /\ A = 1 * p.preL * (m * p.arbL) * p.postL
          /\ B = T * k * n * p.postM
      BY <1>7, <1>10
    <2> HIDE DEF n, m, T, k, A, B
    <2>3. C = B
      BY <1>10, <2>2, SMT DEF Positive
    <2>4. D = A
      BY <1>10, <2>2, SMT DEF Positive
    <2> QED
      BY <2>1, <2>3, <2>4
  <1> HIDE DEF A, B
  <1>13. B * o = A * i
    BY <1>1, <1>6, <1>11, <1>12, SameRatio
  <1>14. Is(M, o, i)
    <2>1. A * i = B * o
      BY <1>13
    <2> QED
      BY <1>1, <1>9, <1>11, <2>1, IsAlso
  <1>15. \E c, d \in Positive : M = Fraction(c, d)
    <2>1. CASE Len(S) = 0
      BY <1>5, <1>10, <2>1 DEF Chain
    <2>2. CASE Len(S) # 0
      <3> DEFINE N == Len(S)
                 y == Made[N - 1]
                 g == Gain(S[N])[1]
                 h == Gain(S[N])[2]
      <3>1. N \in 1 .. N /\ N - 1 \in 0 .. N
        BY <1>1, <2>2
      <3>2. M = Times(y, g, h)
        BY <1>5, <3>1 DEF Chain
      <3>3. y.num \in Positive /\ y.den \in Positive
        <4>1. y \in Ratios
          BY <1>5, <3>1
        <4> QED
          BY <4>1 DEF Ratios
      <3>4. Designed(S[N])
        BY <3>1, ConverterAssumption DEF S
      <3>5. g \in Positive /\ h \in Positive
        BY <3>4, GainIsPositive
      <3> HIDE DEF y, g, h, M
      <3>6. y.num * g \in Positive /\ y.den * h \in Positive
        BY <3>3, <3>5, PositiveProduct
      <3> QED
        BY <3>2, <3>6 DEF Times
    <2> QED
      BY <2>1, <2>2
  <1> HIDE DEF M
  <1>16. M = Fraction(o, i)
    BY <1>1, <1>14, <1>15, IsFraction
  <1> QED
    BY <1>14, <1>16 DEF M, S, i, o

LEMMA AllPlansKeepRatio == PlansKeepRatio
  <1> SUFFICES ASSUME NEW i \in Rates, NEW o \in Rates,
                      NEW quality \in {"QQ", "LQ", "HQ"}, i # o
               PROVE  LET p == Planned(Fraction(i, o), quality)
                      IN  ~ p.again /\ RatioOf(p) = Fraction(i, o)
    BY DEF PlansKeepRatio
  <1>1. i \in Nat \ {0} /\ o \in Nat \ {0}
    BY ConversionAssumption
  <1> QED
    BY <1>1, PlansKeepTheRatio

\* The stages that a converter has make of the samples of one rate as many as there
\* are of the other, whichever two rates it is for.
THEOREM StagesKeepTheRatio ==
    ASSUME StepsAreExact
    PROVE  Spec => []RatioKept
  <1>1. SizeInv => RatioKept
    BY StagesMakeTheRatio, AllPlansKeepRatio DEF SizeInv, RateInv, RatioKept
  <1> QED
    BY <1>1, SizesInvariant, PTL
-----------------------------------------------------------------------------
(***************************************************************************)
(* The length.  It tells the position only where a frame is as long behind *)
(* the converter as before it, and where all that the input buffer can     *)
(* hold is converted in one call: read_resampled_data takes all of the     *)
(* input for used.  That is so when rounding the two buffers to frames did *)
(* not cost the second one more.                                           *)
(***************************************************************************)
SameFrames == \A c \in Converters : c.input_frame_size = c.output_frame_size

WholeBuffers == SameFrames /\ AllIsConverted

\* The frames that left the converter, wherever they are now.
Out == (IF pc = "convert" THEN IF depth = 0 THEN odone ELSE 0 ELSE resampled)
         + playback + played

Counted ==
    /\ samples_out = Out
    /\ position = samples_in + (IF pc = "process" THEN input ELSE 0)
    /\ pc # "convert" => soxr_delay = _soxr_delay
    /\ pc = "process" => resampled = 0

LEMMA AllIsTaken ==
    ASSUME WholeBuffers, SizeInv
    PROVE  soxr_i_for_o(resampler_capacity, input) = input
  <1> DEFINE a == resampler_capacity * conv.input_rate
             b == conv.output_rate
             n == CeilDiv(a, b)
  <1>1. /\ conv \in Converters /\ b \in Nat \ {0}
        /\ input_capacity \in Nat /\ resampler_capacity \in Nat
        /\ conv.input_rate \in Nat
    BY CapacitiesAreNat, RatesArePositive DEF SizeInv, RateInv
  <1>2. input \in 0 .. input_capacity
    BY DEF SizeInv, ClientInv
  <1>3. input_capacity * b <= a
    BY <1>1 DEF WholeBuffers, AllIsConverted, input_capacity, resampler_capacity
  <1>4. a \in Nat
    BY <1>1, Product
  <1>5. input \in Int /\ input_capacity \in Int /\ input <= input_capacity
    BY <1>1, <1>2
  <1>6. input * b <= input_capacity * b
    BY <1>1, <1>5, Scale
  <1> HIDE DEF a, b
  <1>7. n \in Nat /\ a <= n * b
    <2>1. a \in Int
      BY <1>4
    <2> QED
      BY <1>1, <1>4, <2>1, Ceiling
  <1>8. input <= n
    <2>1. /\ input * b \in Int /\ input_capacity * b \in Int /\ n * b \in Int
          /\ (n + 1) * b = n * b + b
      BY <1>1, <1>5, <1>7, SMT
    <2>2. input * b < (n + 1) * b
      <3> HIDE DEF n
      <3> QED
        BY <1>1, <1>3, <1>4, <1>6, <1>7, <2>1
    <2>3. input < n + 1
      BY <1>1, <1>5, <1>7, <2>2, Cancel
    <2> QED
      BY <1>5, <1>7, <2>3
  <1>9. soxr_i_for_o(resampler_capacity, input) = Smaller(n, input)
    BY DEF soxr_i_for_o, a, b
  <1> HIDE DEF n
  <1> QED
    BY <1>5, <1>7, <1>8, <1>9 DEF Smaller

\* Frames that move on are the same frames.
LEMMA FramesMove ==
    ASSUME NEW a \in Nat, NEW b \in Nat, NEW c \in Nat, NEW n \in Nat
    PROVE  0 + (b + a) + c = a + b + c /\ a + (b - n) + (c + n) = a + b + c
    OBVIOUS

LEMMA CountedStep ==
    ASSUME WholeBuffers, SizeInv, Counted, [Next]_vars
    PROVE  Counted'
  <1>0. /\ playback \in Nat /\ resampled \in Nat /\ input \in Nat
        /\ played \in Nat /\ position \in Nat
        /\ samples_in \in Nat /\ samples_out \in Nat
        /\ odone \in Nat /\ olen \in Nat
        /\ pc # "convert" => depth = 0
        /\ pc \in {"idle", "write"} => input = 0
    BY CapacitiesAreNat, RatesArePositive
       DEF SizeInv, RateInv, Calls, ClientInv
  <1>1. CASE read_input_data
    <2>1. /\ UNCHANGED <<conv, rate, resampled, playback, soxr_delay, played>>
          /\ pc = "idle" /\ pc' = "process" /\ resampled = 0
      BY <1>1 DEF read_input_data
    <2>2. position' = position + input'
      <3>1. CASE UNCHANGED <<input, position>>
        BY <1>0, <2>1, <3>1
      <3> QED
        BY <1>1, <3>1 DEF read_input_data
    <2>3. /\ samples_in' = samples_in /\ samples_out' = samples_out
          /\ depth' = depth /\ odone' = odone /\ _soxr_delay' = _soxr_delay
      BY <2>1 DEF rate, _soxr_delay
    <2> QED
      BY <1>0, <2>1, <2>2, <2>3 DEF Counted, Out
  <1>2. CASE Process
    <2>1. /\ samples_in' = samples_in + soxr_i_for_o(resampler_capacity, input)
          /\ odone' = 0 /\ depth' = Last /\ samples_out' = samples_out
      BY <1>2 DEF Process, soxr_process
    <2>2. samples_in' = samples_in + input
      BY <2>1, AllIsTaken
    <2>3. /\ pc = "process" /\ pc' = "convert"
          /\ UNCHANGED <<input, resampled, playback, position, played>>
      BY <1>2 DEF Process
    <2>4. depth' # 0
      BY <2>1, Shape DEF SizeInv, RateInv
    <2> QED
      BY <1>0, <2>1, <2>2, <2>3, <2>4 DEF Counted, Out
  <1>3. CASE Convert_on
    <2>1. /\ Converting /\ pc = "convert" /\ depth > 0 /\ samples_in' = samples_in
          /\ UNCHANGED <<input, resampled, playback, soxr_delay, position, played, pc>>
      BY <1>3, ConvertingKeeps DEF Convert_on, SizeInv, client
    <2>2. CASE Pull \/ stage_process
      <3>1. samples_out' = samples_out
        BY <2>2 DEF Pull, stage_process
      <3>2. depth' # 0 /\ depth # 0
        <4>1. depth \in Nat \ {0}
          BY <2>1, Shape DEF SizeInv, RateInv, Calls
        <4> QED
          BY <2>2, <4>1 DEF Pull, stage_process
      <3> QED
        BY <1>0, <2>1, <3>1, <3>2 DEF Counted, Out
    <2>3. CASE soxr_output
      <3>1. /\ depth' = 0 /\ depth # 0 /\ samples_out' = samples_out + odone'
        BY <2>1, <2>3, Shape DEF soxr_output, SizeInv, RateInv
      <3>2. odone' \in Nat
        BY <2>3, OutputKeeps DEF SizeInv, RateInv, Calls
      <3> QED
        BY <1>0, <2>1, <3>1, <3>2 DEF Counted, Out
    <2> QED
      BY <2>1, <2>2, <2>3 DEF Converting
  <1>4. CASE read_resampled_data
    <2>1. /\ UNCHANGED <<conv, rate, playback, position, played>>
          /\ pc = "convert" /\ pc' \in {"idle", "write"} /\ depth = 0
          /\ soxr_delay' = _soxr_delay /\ resampled' = odone
      BY <1>4 DEF read_resampled_data
    <2>2. /\ samples_in' = samples_in /\ samples_out' = samples_out
          /\ _soxr_delay' = _soxr_delay
      BY <2>1 DEF rate, _soxr_delay
    <2> QED
      BY <1>0, <2>1, <2>2 DEF Counted, Out
  <1>5. CASE read_playback_data
    <2>1. /\ UNCHANGED <<conv, rate, soxr_delay, position, played>>
          /\ pc \in {"idle", "write"} /\ pc' = "idle"
      BY <1>5 DEF read_playback_data
    <2>2. /\ samples_in' = samples_in /\ samples_out' = samples_out
          /\ _soxr_delay' = _soxr_delay
      BY <2>1 DEF rate, _soxr_delay
    <2>3. resampled' + playback' + played' = resampled + playback + played
      <3>1. CASE UNCHANGED <<resampled, playback>>
        BY <2>1, <3>1
      <3>2. CASE playback' = playback + resampled /\ resampled' = 0
        BY <1>0, <2>1, <3>2, FramesMove
      <3> QED
        BY <1>5, <3>1, <3>2 DEF read_playback_data
    <2>4. Out' = Out
      BY <2>1, <2>3 DEF Out
    <2>5. position' = samples_in' + 0
      BY <2>1, <2>2 DEF Counted
    <2> QED
      BY <2>1, <2>2, <2>4, <2>5 DEF Counted
  <1>6. CASE resampler_proc
    <2>1. /\ UNCHANGED <<conv, rate, soxr_delay, position, resampled, pc>>
          /\ pc = "idle"
      BY <1>6 DEF resampler_proc
    <2>2. /\ samples_in' = samples_in /\ samples_out' = samples_out
          /\ _soxr_delay' = _soxr_delay
      BY <2>1 DEF rate, _soxr_delay
    <2>3. resampled' + playback' + played' = resampled + playback + played
      <3>1. Smaller(Request, playback) \in Nat
        BY <1>0, RatesArePositive DEF Smaller, SizeInv, RateInv
      <3> QED
        BY <1>0, <1>6, <2>1, <3>1, FramesMove DEF resampler_proc
    <2>4. Out' = Out
      BY <2>1, <2>3 DEF Out
    <2>5. position' = samples_in' + 0
      BY <2>1, <2>2 DEF Counted
    <2> QED
      BY <2>1, <2>2, <2>4, <2>5 DEF Counted
  <1>7. CASE UNCHANGED vars
    BY <1>7 DEF vars, client, rate, Counted, Out, _soxr_delay
  <1> QED
    BY <1>1, <1>2, <1>3, <1>4, <1>5, <1>6, <1>7 DEF Next, resampler_populate

\* Three roundings, each by less than a byte.
LEMMA ThreeRoundings ==
    ASSUME NEW o \in Nat \ {0}, NEW i \in Nat, NEW F \in Nat,
           NEW taken \in Nat, NEW resampled_ \in Nat, NEW playback_ \in Nat,
           NEW played_ \in Nat
    PROVE  LET delay == taken * o - (resampled_ + playback_ + played_) * i
               all == CeilDiv(resampled_ * F * i, o) + CeilDiv(playback_ * F * i, o)
                        + CeilDiv(delay * F, o)
           IN  /\ 0 <= all * o - taken * F * o + played_ * F * i
               /\ all * o - taken * F * o + played_ * F * i <= 3 * o
  <1> DEFINE delay == taken * o - (resampled_ + playback_ + played_) * i
             a == resampled_ * F * i
             b == playback_ * F * i
             d == delay * F
             e == played_ * F * i
             t == taken * F * o
             r == CeilDiv(a, o)
             p == CeilDiv(b, o)
             c == CeilDiv(d, o)
  <1>1. /\ a \in Int /\ b \in Int /\ d \in Int /\ e \in Int /\ t \in Int
        /\ d = t - a - b - e
    BY SMT
  <1> HIDE DEF a, b, d, e, t
  <1>2. /\ r \in Int /\ a <= r * o /\ r * o < a + o
        /\ p \in Int /\ b <= p * o /\ p * o < b + o
        /\ c \in Int /\ d <= c * o /\ c * o < d + o
    BY <1>1, Ceiling
  <1> HIDE DEF r, p, c
  <1>3. /\ r * o \in Int /\ p * o \in Int /\ c * o \in Int
        /\ (r + p + c) * o = r * o + p * o + c * o
    BY <1>2, SMT
  <1>4. /\ 0 <= (r + p + c) * o - t + e
        /\ (r + p + c) * o - t + e <= 3 * o
    BY <1>1, <1>2, <1>3
  <1> QED
    BY <1>4 DEF a, b, d, e, t, r, p, c

LEMMA CountedLength ==
    ASSUME WholeBuffers, SizeInv, Counted, pc = "idle"
    PROVE  Magnitude(resampler_buffer_length * conv.output_rate
                    - position * conv.input_frame_size * conv.output_rate
                    + played * conv.output_frame_size * conv.input_rate)
             <= 10 * conv.output_rate
  <1> DEFINE o == conv.output_rate
             i == conv.input_rate
             F == conv.input_frame_size
             delay == samples_in * o - (resampled + playback + played) * i
             all == CeilDiv(resampled * F * i, o) + CeilDiv(playback * F * i, o)
                      + CeilDiv(delay * F, o)
             off == all * o - samples_in * F * o + played * F * i
  <1>1. /\ o \in Nat \ {0} /\ i \in Nat /\ F \in Nat
        /\ conv.output_frame_size = F
    BY RatesArePositive DEF WholeBuffers, SameFrames, SizeInv, RateInv
  <1>2. /\ playback \in Nat /\ resampled \in Nat /\ input = 0
        /\ played \in Nat /\ position \in Nat /\ samples_in \in Nat
    BY CapacitiesAreNat, RatesArePositive
       DEF SizeInv, RateInv, Calls, ClientInv
  <1>3. position = samples_in /\ soxr_delay = delay
    BY <1>2 DEF Counted, Out, _soxr_delay
  <1>4. 0 <= off /\ off <= 3 * o
    <2> HIDE DEF o, i, F
    <2> QED
      BY <1>1, <1>2, ThreeRoundings
  <1>5. resampler_buffer_length = all
    <2>1. 0 * F = 0
      BY <1>1, SMT
    <2>2. resampler_buffer_length
            = 0 * F + CeilDiv(resampled * F * i, o) + CeilDiv(playback * F * i, o)
                + CeilDiv(delay * F, o)
      BY <1>1, <1>2, <1>3 DEF resampler_buffer_length, ToInput
    <2>3. CeilDiv(resampled * F * i, o) \in Int
      <3>1. resampled * F * i \in Int
        BY <1>1, <1>2, SMT
      <3> QED
        BY <1>1, <3>1, Ceiling
    <2> QED
      BY <2>1, <2>2, <2>3
  <1>6. resampler_buffer_length * o - position * F * o
          + played * conv.output_frame_size * i = off
    BY <1>1, <1>3, <1>5
  <1> HIDE DEF off
  <1>7. off \in Int /\ Magnitude(off) <= 10 * o
    <2>1. off \in Int
      <3>1. all \in Int
        <4>1. /\ resampled * F * i \in Int /\ playback * F * i \in Int
              /\ delay * F \in Int
          BY <1>1, <1>2, SMT
        <4>2. /\ CeilDiv(resampled * F * i, o) \in Int
              /\ CeilDiv(playback * F * i, o) \in Int
              /\ CeilDiv(delay * F, o) \in Int
          BY <1>1, <4>1, Ceiling
        <4> QED
          BY <4>2
      <3> HIDE DEF all
      <3>2. all * o \in Int /\ samples_in * F * o \in Int /\ played * F * i \in Int
        BY <1>1, <1>2, <3>1, SMT
      <3> QED
        BY <3>2 DEF off
    <2> QED
      BY <1>1, <1>4, <2>1 DEF Magnitude
  <1> QED
    BY <1>6, <1>7

\* BASS_SOX_StreamBufferLength tells where the source is when BASS has played so
\* much, whatever the rates and however the frames came, where WholeBuffers holds.
THEOREM LengthTellsThePosition ==
    ASSUME WholeBuffers
    PROVE  Spec => []LengthFollowsSource
  <1>1. Init => Counted
    <2> SUFFICES ASSUME Init
                 PROVE  Counted
      OBVIOUS
    <2>1. /\ resampled = 0 /\ playback = 0 /\ soxr_delay = 0 /\ position = 0
          /\ played = 0 /\ pc = "idle" /\ samples_in = 0 /\ samples_out = 0
      BY DEF Init, InitRate
    <2>2. conv.output_rate \in Nat /\ conv.input_rate \in Nat
      BY RatesArePositive DEF Init, InitRate
    <2>3. _soxr_delay = 0
      BY <2>1, <2>2, SMT DEF _soxr_delay
    <2> QED
      BY <2>1, <2>3 DEF Counted, Out
  <1>2. SizeInv /\ Counted /\ [Next]_vars => Counted'
    BY CountedStep
  <1>3. SizeInv /\ Counted => LengthFollowsSource
    BY CountedLength DEF LengthFollowsSource
  <1> QED
    BY <1>1, <1>2, <1>3, SizesInvariant, PTL DEF Spec
-----------------------------------------------------------------------------
(***************************************************************************)
(* What a stage makes of what it takes, to the sample.  What waits in      *)
(* front of a stage, and the fraction of a sample that it is at, is its    *)
(* rest, in parts of a sample of which there are Gain[1] in one.           *)
(***************************************************************************)
Phase(d, at, rem) ==
    IF d.kind = "dft" THEN first_at(d) - at + rem ELSE at - first_at(d)

Rest(d, o, at, rem) == (o - preload(d)) * Gain(d)[1] - Phase(d, at, rem)

\* A stage is not ahead of its input, but a cubic one may be, by less than two.
NotAhead(d, r) == r > IF d.kind = "cubic" THEN - 2 * One ELSE -1

RemainderBelow(d, rem) == d.kind = "dft" => rem < Larger(d.step, 1)

\* No stage but a dft leaves what it can use.
Used_up(d, o, at) == d.kind # "dft" => (o - pre_post(d)) * Phases(d) <= at

LEMMA Distribute ==
    ASSUME NEW a \in Int, NEW b \in Int, NEW g \in Int
    PROVE  (a - b) * g = a * g - b * g /\ a * g \in Int /\ b * g \in Int
    BY SMT

LEMMA WalkCounts ==
    ASSUME NEW n \in Nat, NEW at \in Nat, NEW step \in Nat \ {0},
           NEW one \in Nat \ {0}, at < one
    PROVE  LET w == Walk(n, at, step, one)
           IN  /\ w.used \in Nat /\ w.made \in Nat /\ w.at \in Nat
               /\ w.used * one + w.at = at + w.made * step
               /\ n * one <= w.used * one + w.at
               /\ \/ w.used = 0 /\ w.made = 0 /\ w.at = at
                  \/ w.used * one + w.at < n * one + step
  <1> DEFINE all == n * one
             made == IF all > at THEN CeilDiv(all - at, step) ELSE 0
             end == at + made * step
             used == end \div one
             next == end % one
             w == Walk(n, at, step, one)
  <1>1. all \in Nat
    BY Product
  <1>2. /\ made \in Nat /\ end \in Nat /\ all <= end
        /\ all > at => end < all + step
        /\ all <= at => made = 0 /\ end = at
    <2>1. CASE all > at
      <3>1. all - at \in Int /\ all - at \in Nat
        BY <1>1, <2>1
      <3>2. made = CeilDiv(all - at, step)
        BY <2>1
      <3> HIDE DEF made, all
      <3>3. made \in Nat /\ all - at <= made * step /\ made * step < all - at + step
        BY <3>1, <3>2, Ceiling
      <3>4. made * step \in Nat
        BY <3>3, Product
      <3> QED
        BY <1>1, <2>1, <3>3, <3>4
    <2>2. CASE ~ (all > at)
      <3>1. 0 * step = 0
        BY SMT
      <3> QED
        BY <1>1, <2>2, <3>1
    <2> QED
      BY <2>1, <2>2
  <1>3. used \in Nat /\ next \in Nat /\ used * one + next = end /\ next < one
    <2> HIDE DEF end
    <2>1. end \in Int
      BY <1>2
    <2>2. used \in Nat /\ next \in 0 .. one - 1 /\ end = one * used + next
      BY <1>2, <2>1, Quotient, Division
    <2>3. one * used = used * one
      BY <2>2, SMT
    <2> QED
      BY <2>2, <2>3
  <1>4. w = [used |-> used, made |-> made, at |-> next]
    BY DEF Walk
  <1>5. used * one \in Nat
    BY <1>3, Product
  <1>6. all <= at => used = 0 /\ next = at
    <2> SUFFICES ASSUME all <= at
                 PROVE  used = 0 /\ next = at
      OBVIOUS
    <2> HIDE DEF used, next, end, made, all
    <2>1. used * one < 1 * one
      BY <1>2, <1>3, <1>5
    <2>2. used < 1
      BY <2>1, <1>3, Cancel
    <2>3. used = 0 /\ 0 * one = 0
      BY <2>2, <1>3, SMT
    <2> QED
      BY <1>2, <1>3, <2>3
  <1> HIDE DEF w
  <1>7. w.used = used /\ w.made = made /\ w.at = next
    BY <1>4
  <1>8. used * one + next = at + made * step
    BY <1>3
  <1> HIDE DEF used, next, end, made, all
  <1>9. \/ used = 0 /\ made = 0 /\ next = at
        \/ used * one + next < all + step
    BY <1>1, <1>2, <1>3, <1>6
  <1> QED
    BY <1>2, <1>3, <1>7, <1>8, <1>9 DEF w, all

\* How far the filters of the stages that walk look ahead.
LEMMA LooksFar ==
    ASSUME NEW d, Designed(d), Regular(d), d.kind \in {"poly", "interp", "cubic"}
    PROVE  (pre_post(d) - preload(d)) * Phases(d) - d.step + first_at(d)
             >= IF d.kind = "cubic" THEN - 2 * One ELSE -1
  <1> DEFINE one == Phases(d)
             step == d.step
             x == first_at(d)
  <1>1. step \in Nat \ {0} /\ one \in Nat \ {0}
        /\ one = IF d.kind = "poly" THEN d.L ELSE One
    BY LooksAhead
  <1>2. x \in Nat
    BY FirstAtIsBelow
  <1>3. CASE d.kind \in {"poly", "interp"}
    <2> DEFINE n == d.num_coefs
    <2>1. n \in Nat \ {0} /\ d.num_coefs4 \in Nat
      BY <1>3 DEF Designed
    <2>2. pre_post(d) = d.num_coefs4 - 1
      BY <1>3 DEF pre_post
    <2>3. preload(d) = (n - 1) \div 2 + d.num_coefs4 - n
      BY <1>3 DEF preload
    <2>4. step <= (n \div 2) * one + x + 1
      BY <1>1, <1>3 DEF Regular
    <2> HIDE DEF n, one, step, x
    <2>5. pre_post(d) - preload(d) = n \div 2 /\ n \div 2 \in Nat
      <3>1. /\ (n - 1) \div 2 \in Nat /\ n \div 2 \in Nat
            /\ n - 1 - ((n - 1) \div 2) = n \div 2
        BY <2>1, SMT
      <3> QED
        BY <2>1, <2>2, <2>3, <3>1
    <2>6. (n \div 2) * one \in Nat
      BY <1>1, <2>5, Product
    <2>7. (n \div 2) * one - step + x >= -1
      BY <1>1, <1>2, <2>4, <2>6
    <2> QED
      BY <1>3, <2>5, <2>7 DEF one, step, x
  <1>4. CASE d.kind = "cubic"
    <2> DEFINE turns == step \div One
               ahead == Larger(3, turns)
    <2>1. turns \in Nat /\ step < turns * One + One
      <3> HIDE DEF step
      <3>1. step \in Int /\ step \in Nat
        BY <1>1
      <3> QED
        BY <3>1, Quotient, OneIsPositive
    <2>2. pre_post(d) = ahead /\ preload(d) = 1 /\ x = 0 /\ one = One
      BY <1>1, <1>4 DEF pre_post, preload, first_at
    <2> HIDE DEF step, turns, one, x
    <2>3. ahead \in Nat /\ turns <= ahead
      BY <2>1 DEF Larger
    <2> HIDE DEF ahead
    <2>4. turns * One <= ahead * One
      BY <2>1, <2>3, Scale, OneIsPositive
    <2>5. (ahead - 1) * One = ahead * One - One
      BY <2>3, OneIsPositive, SMT
    <2>6. turns * One \in Nat /\ ahead * One \in Nat
      BY <2>1, <2>3, Product, OneIsPositive
    <2>7. (ahead - 1) * One - step + 0 >= - 2 * One
      BY <1>1, <2>1, <2>4, <2>5, <2>6, OneIsPositive
    <2> QED
      BY <1>4, <2>2, <2>7 DEF one, step, x
  <1> QED
    BY <1>3, <1>4

\* What is true of a stage d with o samples in front of it when it takes and makes c.
Counts(d, o, at, rem, c) ==
    LET before == Rest(d, o, at, rem)
        after == Rest(d, o - c.used, c.at, c.remM)
    IN  /\ before \in Int /\ after = before - Gain(d)[2] * c.made
        /\ NotAhead(d, before) => NotAhead(d, after)
        /\ RemainderBelow(d, c.remM)

LEMMA RestOfWalk ==
    ASSUME NEW d, Designed(d), d.kind \in {"half", "poly", "interp", "cubic"},
           NEW o \in Int, NEW at \in Int, NEW rem
    PROVE  /\ Rest(d, o, at, rem) = (o - preload(d)) * Phases(d) - at + first_at(d)
           /\ preload(d) \in Nat /\ first_at(d) \in Nat
           /\ Rest(d, o, at, rem) \in Int
  <1> DEFINE one == Phases(d)
  <1>1. Gain(d)[1] = one /\ one \in Nat \ {0}
    BY OneIsPositive DEF Gain, Phases, Designed
  <1>2. preload(d) \in Nat /\ first_at(d) \in Nat
    BY PreloadIsNat, FirstAtIsBelow
  <1>3. Phase(d, at, rem) = at - first_at(d)
    BY DEF Phase
  <1>4. Rest(d, o, at, rem) = (o - preload(d)) * one - (at - first_at(d))
    BY <1>1, <1>3 DEF Rest
  <1> HIDE DEF one
  <1>5. (o - preload(d)) * one \in Int
    BY <1>1, <1>2, SMT
  <1> QED
    BY <1>2, <1>4, <1>5 DEF one

LEMMA WalkingCounts ==
    ASSUME NEW d, Designed(d), Regular(d), d.kind \in {"poly", "interp", "cubic"},
           NEW o \in Nat, NEW at \in Nat, at < Phases(d), NEW rem,
           NEW n \in Nat, n = 0 \/ n + pre_post(d) <= o,
           NEW w, w = Walk(n, at, d.step, Phases(d)),
           NEW c, c.used = w.used, c.made = w.made, c.at = w.at
    PROVE  /\ Counts(d, o, at, rem, c)
           /\ o <= n + pre_post(d) => Used_up(d, o - c.used, c.at)
  <1> DEFINE one == Phases(d)
             step == d.step
             ahead == pre_post(d)
             x == first_at(d)
             p == preload(d)
             lowest == IF d.kind = "cubic" THEN - 2 * One ELSE -1
             before == Rest(d, o, at, rem)
             after == Rest(d, o - c.used, c.at, c.remM)
  <1>1. step \in Nat \ {0} /\ one \in Nat \ {0} /\ ahead \in Nat
    BY LooksAhead
  <1>2. Gain(d)[2] = step
    BY DEF Gain
  <1>3. /\ w.used \in Nat /\ w.made \in Nat /\ w.at \in Nat
        /\ w.used * one + w.at = at + w.made * step
        /\ n * one <= w.used * one + w.at
        /\ \/ w.used = 0 /\ w.made = 0 /\ w.at = at
           \/ w.used * one + w.at < n * one + step
    <2> HIDE DEF one, step
    <2>1. at < one /\ w = Walk(n, at, step, one)
      BY DEF one, step
    <2> QED
      BY <1>1, <2>1, WalkCounts
  <1>4. p \in Nat /\ x \in Nat
    BY PreloadIsNat, FirstAtIsBelow
  <1>5. /\ before = (o - p) * one - at + x
        /\ after = (o - w.used - p) * one - w.at + x
        /\ before \in Int /\ after \in Int
    <2>1. o \in Int /\ o - c.used \in Int /\ at \in Int /\ c.at \in Int
      BY <1>3
    <2>2. d.kind \in {"half", "poly", "interp", "cubic"}
      OBVIOUS
    <2>3. Rest(d, o, at, rem) = (o - preload(d)) * Phases(d) - at + first_at(d)
          /\ Rest(d, o, at, rem) \in Int
      BY <2>1, <2>2, RestOfWalk
    <2>4. Rest(d, o - c.used, c.at, c.remM)
            = (o - c.used - preload(d)) * Phases(d) - c.at + first_at(d)
          /\ Rest(d, o - c.used, c.at, c.remM) \in Int
      BY <2>1, <2>2, RestOfWalk
    <2> QED
      BY <2>3, <2>4
  <1>6. (ahead - p) * one - step + x >= lowest /\ lowest \in Int
    BY LooksFar, OneIsPositive
  <1>7. /\ NotAhead(d, before) <=> before > lowest
        /\ NotAhead(d, after) <=> after > lowest
    BY DEF NotAhead
  <1>8. Used_up(d, o - c.used, c.at) <=> (o - w.used - ahead) * one <= w.at
    BY DEF Used_up
  <1>9. RemainderBelow(d, c.remM)
    BY DEF RemainderBelow
  <1> HIDE DEF one, step, ahead, x, p, lowest, before, after
  <1>10. /\ w.used * one \in Nat /\ w.made * step \in Nat /\ n * one \in Nat
         /\ (o - w.used - p) * one = (o - p) * one - w.used * one
         /\ (o - p) * one \in Int /\ w.made * step = step * w.made
    <2>1. w.used * one \in Nat /\ w.made * step \in Nat /\ n * one \in Nat
      BY <1>1, <1>3, Product
    <2>2. /\ w.made * step = step * w.made
          /\ o - w.used - p = (o - p) - w.used
      BY <1>1, <1>3, <1>4, SMT
    <2>3. o - p \in Int /\ w.used \in Int /\ one \in Int
      BY <1>1, <1>3, <1>4
    <2>4. ((o - p) - w.used) * one = (o - p) * one - w.used * one
          /\ (o - p) * one \in Int
      BY <2>3, Distribute
    <2> QED
      BY <2>1, <2>2, <2>4
  <1>11. after = before - step * w.made
    BY <1>3, <1>4, <1>5, <1>10
  <1>12. before > lowest => after > lowest
    <2>1. CASE w.used = 0 /\ w.made = 0 /\ w.at = at
      <3>1. step * 0 = 0
        BY <1>1, SMT
      <3> QED
        BY <1>5, <1>11, <2>1, <3>1
    <2>2. CASE ~ (w.used = 0 /\ w.made = 0 /\ w.at = at)
      <3>1. w.used * one + w.at < n * one + step
        BY <1>3, <2>2
      <3>2. n # 0
        <4> SUFFICES ASSUME n = 0
                     PROVE  w.used = 0 /\ w.made = 0 /\ w.at = at
          BY <2>2
        <4>1. CeilDiv(0, step) \in Int
          BY <1>1, Ceiling
        <4>2. w.used = 0 /\ ~ (0 * one > at)
          <5>1. at < one
            BY DEF one
          <5>2. w = Walk(0, at, step, one)
            BY DEF step, one
          <5>3. 0 * one = 0
            BY <1>1, SMT
          <5> QED
            BY <1>1, <5>1, <5>2, <5>3, WalkOfNothing
        <4>3. w.made = 0
          BY <4>2 DEF Walk, step, one
        <4>4. 0 * one = 0 /\ 0 * step = 0
          BY <1>1, SMT
        <4> QED
          BY <1>3, <4>2, <4>3, <4>4
      <3>3. n + ahead <= o
        BY <3>2 DEF ahead
      <3>4. (n + (ahead - p)) * one <= (o - p) * one
        <4>1. n + (ahead - p) \in Int /\ o - p \in Int /\ n + (ahead - p) <= o - p
          BY <1>1, <1>4, <3>3
        <4> QED
          BY <1>1, <4>1, Scale
      <3>5. (n + (ahead - p)) * one = n * one + (ahead - p) * one
            /\ (ahead - p) * one \in Int
        BY <1>1, <1>4, SMT
      <3> QED
        BY <1>1, <1>3, <1>4, <1>5, <1>6, <1>10, <3>1, <3>4, <3>5
    <2> QED
      BY <2>1, <2>2
  <1>13. o <= n + ahead => (o - w.used - ahead) * one <= w.at
    <2> SUFFICES ASSUME o <= n + ahead
                 PROVE  (o - w.used - ahead) * one <= w.at
      OBVIOUS
    <2>1. o - ahead \in Int /\ n \in Int /\ o - ahead <= n
      BY <1>1
    <2>2. (o - ahead) * one <= n * one
      BY <1>1, <2>1, Scale
    <2>3. (o - w.used - ahead) * one = (o - ahead) * one - w.used * one
          /\ (o - ahead) * one \in Int
      BY <1>1, <1>3, SMT
    <2> QED
      BY <1>3, <1>10, <2>2, <2>3
  <1>14. Counts(d, o, at, rem, c)
    BY <1>2, <1>5, <1>7, <1>9, <1>11, <1>12 DEF Counts, before, after
  <1> QED
    BY <1>8, <1>13, <1>14 DEF ahead

LEMMA HalvingCounts ==
    ASSUME NEW d, Designed(d), d.kind = "half",
           NEW o \in Nat, NEW rem,
           NEW n \in Nat, n = 0 \/ n + pre_post(d) <= o,
           NEW m, m = (n + 1) \div 2,
           NEW c, c.used = 2 * m, c.made = m, c.at = 0
    PROVE  /\ Counts(d, o, 0, rem, c)
           /\ o <= n + pre_post(d) => Used_up(d, o - c.used, c.at)
  <1> DEFINE k == d.n
             before == Rest(d, o, 0, rem)
             after == Rest(d, o - c.used, c.at, c.remM)
  <1>1. k \in Nat \ {0} /\ pre_post(d) = 4 * k /\ preload(d) = 2 * k
    BY DEF Designed, pre_post, preload
  <1>2. Gain(d) = <<1, 2>> /\ Phases(d) = 1 /\ first_at(d) = 0
    BY DEF Gain, Phases, first_at
  <1>3. m \in Nat /\ n <= 2 * m /\ 2 * m <= n + 1 /\ (n = 0 => m = 0)
    OBVIOUS
  <1>4. before = (o - 2 * k) * 1 - 0 + 0 /\ after = (o - 2 * m - 2 * k) * 1 - 0 + 0
    <2>1. o \in Int /\ o - 2 * m \in Int /\ 0 \in Int
      BY <1>3
    <2> HIDE DEF k
    <2> QED
      BY <1>1, <1>2, <2>1, RestOfWalk
  <1>5. /\ NotAhead(d, before) <=> before > -1
        /\ NotAhead(d, after) <=> after > -1
    BY DEF NotAhead
  <1>6. RemainderBelow(d, c.remM)
    BY DEF RemainderBelow
  <1>7. Used_up(d, o - c.used, c.at) <=> (o - 2 * m - 4 * k) * 1 <= 0
    BY <1>1, <1>2 DEF Used_up
  <1> HIDE DEF before, after, k
  <1>8. before = o - 2 * k /\ after = o - 2 * m - 2 * k
    BY <1>1, <1>3, <1>4
  <1>9. before > -1 => after > -1
    BY <1>1, <1>3, <1>8
  <1>10. Counts(d, o, 0, rem, c)
    <2>1. Gain(d)[2] = 2 /\ before \in Int /\ after = before - 2 * m
      BY <1>1, <1>2, <1>3, <1>8
    <2> QED
      BY <1>5, <1>6, <1>9, <2>1 DEF Counts, before, after
  <1>11. o <= n + 4 * k => (o - 2 * m - 4 * k) * 1 <= 0
    BY <1>1, <1>3
  <1> QED
    BY <1>1, <1>7, <1>10, <1>11

\* What a dft reads of a block, and where it is then, are a block of its output phases.
LEMMA BlockIsRead ==
    ASSUME NEW L \in Nat \ {0}, NEW at \in Nat, at < L, NEW block \in Nat,
           L \in Powers => block % L = 0
    PROVE  LET span == block - at + L - 1
               next == IF L \in Powers THEN at ELSE L - 1 - (span % L)
           IN  /\ span \div L \in Nat /\ next \in Nat
               /\ (span \div L) * L + at - next = block
  <1> DEFINE span == block - at + L - 1
             next == IF L \in Powers THEN at ELSE L - 1 - (span % L)
             used == span \div L
  <1>1. span \in Nat
    OBVIOUS
  <1>2. /\ used \in Int /\ span % L \in 0 .. L - 1
        /\ span = L * used + (span % L)
    <2>1. span \in Int
      BY <1>1
    <2> QED
      BY <2>1, Division
  <1>3. used \in Nat
    BY <1>1, Quotient
  <1>4. used * L = L * used /\ used * L \in Nat
    BY <1>3, SMT
  <1>5. CASE L \notin Powers
    <2> HIDE DEF used
    <2> QED
      BY <1>1, <1>2, <1>3, <1>4, <1>5 DEF used
  <1>6. CASE L \in Powers
    <2> DEFINE b == block \div L
    <2>1. b \in Int /\ block = L * b + 0
      BY <1>6, Division
    <2>2. b * L = block /\ (b + 1) * L = b * L + L
          /\ (used + 1) * L = used * L + L
      BY <1>3, <2>1, SMT
    <2> HIDE DEF b, used
    <2>3. used * L < (b + 1) * L /\ b * L < (used + 1) * L
      BY <1>1, <1>2, <1>4, <2>1, <2>2
    <2>4. used < b + 1 /\ b < used + 1
      <3>1. used \in Int /\ b \in Int /\ used + 1 \in Int /\ b + 1 \in Int
        BY <1>3, <2>1
      <3>2. used < b + 1
        BY <2>3, <3>1, Cancel
      <3>3. b < used + 1
        BY <2>3, <3>1, Cancel
      <3> QED
        BY <3>2, <3>3
    <2>5. used = b
      BY <1>3, <2>1, <2>4
    <2>6. next = at /\ used * L = block
      BY <1>6, <2>2, <2>5
    <2>7. used * L + at - next = block
      BY <2>6
    <2> QED
      BY <1>3, <2>6, <2>7 DEF used
  <1> QED
    BY <1>5, <1>6

\* Done in the domain of frequencies, the division of a block that is a multiple.
LEMMA BlockIsDivided ==
    ASSUME NEW m \in Nat \ {0}, NEW length \in Nat, NEW overlap \in Nat,
           overlap <= length, (length - overlap) % m = 0
    PROVE  /\ length - (((m - 1) * length + overlap) \div m) \in Int
           /\ m * (length - (((m - 1) * length + overlap) \div m)) = length - overlap
  <1> DEFINE block == length - overlap
             b == block \div m
             x == (m - 1) * length + overlap
             q == x \div m
  <1>1. block \in Int /\ block % m = 0
    OBVIOUS
  <1>2. b \in Int /\ block = m * b
    <2> HIDE DEF block
    <2>1. b \in Int /\ block = m * b + (block % m)
      BY <1>1, Division
    <2>2. m * b \in Int
      BY <2>1, SMT
    <2> QED
      BY <1>1, <2>1, <2>2
  <1> HIDE DEF b
  <1>3. x = m * (length - b)
    <2>1. (m - 1) * length = m * length - length /\ m * length \in Nat
      BY SMT
    <2>2. m * (length - b) = m * length - m * b
      BY <1>2, SMT
    <2> QED
      BY <1>2, <2>1, <2>2
  <1>4. x \in Int
    BY <1>2, <1>3, SMT
  <1>5. q \in Int /\ x % m \in 0 .. m - 1 /\ x = m * q + (x % m)
    BY <1>4, Division
  <1> HIDE DEF x, q
  <1>6. q = length - b
    <2> DEFINE k == length - b
    <2>1. k \in Int /\ x = m * k
      BY <1>2, <1>3
    <2> HIDE DEF k
    <2>2. /\ q * m = m * q /\ k * m = m * k /\ (q + 1) * m = m * q + m
          /\ (k + 1) * m = m * k + m /\ m * q \in Int /\ m * k \in Int
      BY <1>5, <2>1, SMT
    <2>3. q * m < (k + 1) * m /\ k * m < (q + 1) * m
      BY <1>5, <2>1, <2>2
    <2>4. q < k + 1
      BY <1>5, <2>1, <2>3, Cancel
    <2>5. k < q + 1
      BY <1>5, <2>1, <2>3, Cancel
    <2> QED
      BY <1>5, <2>1, <2>4, <2>5 DEF k
  <1>7. length - q = b
    BY <1>2, <1>5, <1>6
  <1> QED
    BY <1>1, <1>2, <1>7 DEF x, q, block

LEMMA RestOfDft ==
    ASSUME NEW d, Designed(d), d.kind = "dft",
           NEW o \in Int, NEW at \in Int, NEW rem \in Int
    PROVE  /\ Rest(d, o, at, rem) = o * d.L + at - d.post_peak - rem
           /\ Rest(d, o, at, rem) \in Int
  <1> DEFINE L == d.L
             p == preload(d)
             x == first_at(d)
             k == d.post_peak
  <1>1. L \in Nat \ {0} /\ k \in Nat
    BY DEF Designed
  <1>2. Gain(d)[1] = L
    <2>1. d.step > 0 \/ d.step < 0
      BY DEF Designed
    <2> QED
      BY <2>1 DEF Gain
  <1>3. p = k \div L /\ x = k % L
    BY DEF preload, first_at
  <1>4. p \in Int /\ x \in Int /\ k = L * p + x
    <2> HIDE DEF L, p, x, k
    <2>1. k \in Int
      BY <1>1
    <2>2. x \in 0 .. L - 1 /\ p \in Int /\ k = L * p + x
      BY <1>1, <1>3, <2>1, Division
    <2> QED
      BY <1>1, <2>2
  <1>5. Rest(d, o, at, rem) = (o - p) * L - (x - at + rem)
    BY <1>2 DEF Rest, Phase
  <1> HIDE DEF L, p, x, k
  <1>6. (o - p) * L = o * L - L * p /\ o * L \in Int /\ L * p \in Int
    BY <1>1, <1>4, SMT
  <1>7. /\ Rest(d, o, at, rem) = o * L + at - k - rem
        /\ Rest(d, o, at, rem) \in Int
    BY <1>1, <1>4, <1>5, <1>6
  <1> QED
    BY <1>7 DEF L, k

LEMMA DftCounts ==
    ASSUME NEW s, NEW d, d = conv.stages[s], d.kind = "dft", Designed(d), Regular(d),
           NEW o, o = Occupancy(s), o \in Nat,
           NEW at, at = stage[s].at, at \in Nat, at < d.L,
           NEW rem, rem = stage[s].remM, rem \in Nat, RemainderBelow(d, rem)
    PROVE  Counts(d, o, at, rem, dft_stage_fn(s))
  <1> DEFINE L == d.L
             step == d.step
             length == d.dft_length
             num_taps == d.num_taps
             overlap == num_taps - 1
             block == length - overlap
             span == block - at + L - 1
             m == DividedBy(step)
             kept == IF block > rem THEN CeilDiv(block - rem, step) ELSE 0
             made == IF step > 0 THEN kept
                     ELSE length - (((m - 1) * length + overlap) \div m)
             next == IF L \in Powers THEN at ELSE L - 1 - (span % L)
             left == IF step > 0 THEN rem + kept * step - block ELSE rem
             used == span \div L
             peak == d.post_peak
             most == Larger(step, 1)
             c == dft_stage_fn(s)
             before == Rest(d, o, at, rem)
             after == Rest(d, o - c.used, c.at, c.remM)
  <1>1. /\ L \in Nat \ {0} /\ (step \in Nat \ {0} \/ step \in {-1, -2})
        /\ length \in Nat /\ num_taps \in 1 .. length /\ peak \in Nat
    BY DEF Designed
  <1>2. /\ peak + most <= num_taps
        /\ L \in Powers => block % L = 0
        /\ step < 0 => block % m = 0
    <2>1. length - num_taps + 1 = block
      BY <1>1
    <2> HIDE DEF block, most, m
    <2> QED
      BY <2>1 DEF Regular, m, most
  <1>3. rem < most /\ most \in Nat
    <2>1. rem < most
      BY DEF RemainderBelow
    <2> QED
      BY <1>1, <2>1 DEF Larger
  <1>4. c = IF at + L * o < length
            THEN [used |-> 0, made |-> 0, reserved |-> 0, at |-> at, remM |-> rem]
            ELSE [used |-> used, reserved |-> length, made |-> made,
                  at |-> next, remM |-> left]
    BY DEF dft_stage_fn
  <1>5. /\ Gain(d)[2] = IF step > 0 THEN step ELSE m
        /\ Gain(d)[2] \in Nat
    BY <1>1 DEF Gain, DividedBy
  <1>6. before = o * L + at - peak - rem /\ before \in Int
    <2>1. o \in Int /\ at \in Int /\ rem \in Int
      OBVIOUS
    <2> QED
      BY <2>1, RestOfDft
  <1>7. RemainderBelow(d, c.remM) <=> c.remM < most
    BY DEF RemainderBelow
  <1>8. /\ NotAhead(d, before) <=> before > -1
        /\ NotAhead(d, after) <=> after > -1
    BY DEF NotAhead
  <1>9. o * L = L * o /\ o * L \in Nat
    BY <1>1, SMT
  <1>10. CASE at + L * o < length
    <2>1. c.used = 0 /\ c.made = 0 /\ c.at = at /\ c.remM = rem
      BY <1>4, <1>10
    <2> HIDE DEF c
    <2>2. o - c.used = o
      BY <2>1
    <2>3. after = before
      BY <2>1, <2>2
    <2>4. Gain(d)[2] * c.made = 0
      BY <1>5, <2>1, SMT
    <2>5. /\ before \in Int /\ after = before - Gain(d)[2] * c.made
          /\ NotAhead(d, before) => NotAhead(d, after)
          /\ RemainderBelow(d, c.remM)
      <3> HIDE DEF before, after, most
      <3> QED
        BY <1>3, <1>6, <1>7, <2>1, <2>3, <2>4
    <2> QED
      BY <2>5 DEF Counts, c
  <1>11. CASE ~ (at + L * o < length)
    <2>1. c.used = used /\ c.made = made /\ c.at = next /\ c.remM = left
      BY <1>4, <1>11
    <2>2. overlap \in Nat /\ overlap <= length /\ block \in Nat /\ block = length - overlap
      BY <1>1
    <2>3. used \in Nat /\ next \in Nat /\ used * L + at - next = block
      <3>1. /\ L \in Nat \ {0} /\ at \in Nat /\ block \in Nat /\ at < L
            /\ L \in Powers => block % L = 0
        BY <1>1, <1>2, <2>2
      <3> HIDE DEF block, L
      <3> QED
        BY <3>1, BlockIsRead, Zenon
    <2>4. /\ left \in Int /\ left < most /\ made \in Int
          /\ Gain(d)[2] * made = block + left - rem
      <3>1. CASE step > 0 /\ block > rem
        <4>1. step \in Nat \ {0} /\ block - rem \in Int
          BY <1>1, <2>2, <3>1
        <4>2. kept = CeilDiv(block - rem, step)
          BY <3>1
        <4> HIDE DEF block, kept
        <4>3. kept \in Int /\ kept * step < block - rem + step
          BY <4>1, <4>2, Ceiling
        <4>4. kept * step = step * kept /\ kept * step \in Int
          BY <4>1, <4>3, SMT
        <4>5. made = kept /\ left = rem + kept * step - block /\ most = step
              /\ Gain(d)[2] = step
          BY <1>5, <3>1, <4>1 DEF Larger
        <4> HIDE DEF made, left, most
        <4> QED
          BY <2>2, <4>1, <4>3, <4>4, <4>5
      <3>2. CASE step > 0 /\ ~ (block > rem)
        <4>1. kept = 0 /\ made = 0 /\ left = rem + 0 * step - block
          BY <3>2
        <4>2. 0 * step = 0 /\ Gain(d)[2] * 0 = 0
          BY <1>1, <1>5, SMT
        <4> HIDE DEF made, left, most, block
        <4> QED
          BY <1>3, <2>2, <4>1, <4>2
      <3>3. CASE ~ (step > 0)
        <4>1. m \in Nat \ {0} /\ step < 0
          BY <1>1, <3>3 DEF DividedBy
        <4>2. made = length - (((m - 1) * length + overlap) \div m) /\ left = rem
              /\ Gain(d)[2] = m
          BY <1>5, <3>3
        <4> HIDE DEF m, overlap
        <4>3. block % m = 0
          BY <1>2, <4>1
        <4> HIDE DEF made, left
        <4>4. made \in Int /\ m * made = block
          <5>1. /\ length - (((m - 1) * length + overlap) \div m) \in Int
                /\ m * (length - (((m - 1) * length + overlap) \div m))
                     = length - overlap
            <6>1. /\ m \in Nat \ {0} /\ length \in Nat /\ overlap \in Nat
                  /\ overlap <= length /\ (length - overlap) % m = 0
              BY <1>1, <2>2, <4>1, <4>3
            <6> HIDE DEF length
            <6> QED
              BY <6>1, BlockIsDivided, Zenon
          <5> QED
            BY <4>2, <5>1
        <4> HIDE DEF block, most
        <4> QED
          BY <1>3, <2>2, <4>2, <4>4
      <3> QED
        BY <3>1, <3>2, <3>3
    <2> HIDE DEF used, next, made, left, block, most, c, L
    <2>5. after = (o - used) * L + next - peak - left /\ after \in Int
      <3>1. o - c.used \in Int /\ c.at \in Int /\ c.remM \in Int
        BY <2>1, <2>3, <2>4
      <3>2. Rest(d, o - c.used, c.at, c.remM)
              = (o - c.used) * d.L + c.at - d.post_peak - c.remM
            /\ Rest(d, o - c.used, c.at, c.remM) \in Int
        BY <3>1, RestOfDft
      <3> QED
        BY <2>1, <3>2 DEF L
    <2>6. (o - used) * L = o * L - used * L /\ used * L \in Int
      BY <1>1, <2>3, SMT
    <2> HIDE DEF before, after
    <2>7. after = o * L + at - block - peak - left
      BY <1>1, <1>9, <2>2, <2>3, <2>4, <2>5, <2>6
    <2>8. after = before - Gain(d)[2] * made
      BY <1>1, <1>6, <1>9, <2>2, <2>4, <2>7
    <2>9. after > -1
      <3>1. o * L + at - block >= num_taps - 1
        BY <1>1, <1>9, <1>11, <2>2 DEF block
      <3> QED
        BY <1>1, <1>2, <1>3, <1>9, <2>2, <2>4, <2>7, <3>1
    <2> QED
      BY <1>6, <1>7, <1>8, <2>1, <2>4, <2>8, <2>9 DEF Counts, c, before, after
  <1> QED
    BY <1>10, <1>11

\* What one call of the function of a stage does to its account.
LEMMA StageCounts ==
    ASSUME FiltersAreRegular, RateInv, NEW s \in Stages,
           RemainderBelow(conv.stages[s], stage[s].remM)
    PROVE  /\ Counts(conv.stages[s], Occupancy(s), stage[s].at, stage[s].remM, Convert(s))
           /\ Occupancy(s) <= stage[s].input_size
                => Used_up(conv.stages[s], Occupancy(s) - Convert(s).used, Convert(s).at)
  <1> DEFINE d == conv.stages[s]
             o == Occupancy(s)
             at == stage[s].at
             rem == stage[s].remM
             size == stage[s].input_size
             n == Smaller(stage_occupancy(s), size)
             c == Convert(s)
  <1>1. /\ s \in Levels /\ Designed(d) /\ Regular(d)
    BY Shape DEF RateInv, FiltersAreRegular, Stages
  <1>2. o \in Nat
    BY <1>1, OccupancyIsNat DEF RateInv, Queues, Sound, Occupancy
  <1>3. at \in Nat /\ at < Phases(d) /\ rem \in Nat /\ size \in Nat
    BY DEF RateInv, StagesSound
  <1>4. ASSUME pre_post(d) \in Nat
        PROVE  /\ n \in Nat /\ (n = 0 \/ n + pre_post(d) <= o)
               /\ o <= size => o <= n + pre_post(d)
    BY <1>2, <1>3, <1>4 DEF stage_occupancy, Larger, Smaller
  <1>5. CASE d.kind = "dft"
    <2>1. c = dft_stage_fn(s) /\ Phases(d) = d.L
      BY <1>5 DEF Convert, Phases
    <2>2. at < d.L
      BY <1>3, <2>1
    <2>3. Counts(d, o, at, rem, dft_stage_fn(s))
      BY <1>1, <1>2, <1>3, <1>5, <2>2, DftCounts
    <2>4. Used_up(d, o - c.used, c.at)
      BY <1>5 DEF Used_up
    <2> QED
      BY <2>1, <2>3, <2>4
  <1>6. CASE d.kind = "half"
    <2> DEFINE m == (n + 1) \div 2
    <2>1. pre_post(d) \in Nat /\ Phases(d) = 1
      BY <1>1, <1>6 DEF pre_post, Designed, Phases
    <2>2. at = 0
      BY <1>3, <2>1
    <2>3. c = [used |-> 2 * m, made |-> m, reserved |-> m, at |-> 0, remM |-> 0]
      BY <1>6 DEF Convert, FUNCTION_H
    <2>4. /\ n \in Nat /\ (n = 0 \/ n + pre_post(d) <= o)
          /\ o <= size => o <= n + pre_post(d)
      BY <1>4, <2>1
    <2>5. c.used = 2 * m /\ c.made = m /\ c.at = 0 /\ m = (n + 1) \div 2
      BY <2>3
    <2> HIDE DEF c, m, n, d, o, rem
    <2>6. /\ Counts(d, o, 0, rem, c)
          /\ o <= n + pre_post(d) => Used_up(d, o - c.used, c.at)
      BY <1>1, <1>2, <1>6, <2>4, <2>5, HalvingCounts
    <2> QED
      BY <2>2, <2>4, <2>6 DEF d, o, rem, c
  <1>7. CASE d.kind \in {"poly", "interp", "cubic"}
    <2> DEFINE w == Walk(n, at, d.step, Phases(d))
    <2>1. pre_post(d) \in Nat
      BY <1>1, <1>7, LooksAhead
    <2>2. /\ n \in Nat /\ (n = 0 \/ n + pre_post(d) <= o)
          /\ o <= size => o <= n + pre_post(d)
      BY <1>4, <2>1
    <2>3. c.used = w.used /\ c.made = w.made /\ c.at = w.at
      <3> HIDE DEF n
      <3>1. CASE d.kind = "poly"
        <4>1. Phases(d) = d.L /\ c = poly_fir0(s, n)
          BY <3>1 DEF Phases, Convert, n
        <4> QED
          BY <4>1 DEF poly_fir0
      <3>2. CASE d.kind \in {"interp", "cubic"}
        <4>1. Phases(d) = One /\ c = cubic_stage_fn(s, n)
          BY <3>2 DEF Phases, Convert, poly_fir, n
        <4> QED
          BY <4>1 DEF cubic_stage_fn
      <3> QED
        BY <1>7, <3>1, <3>2
    <2>4. w = Walk(n, at, d.step, Phases(d))
      OBVIOUS
    <2> HIDE DEF c, w, n, d, o, at, rem
    <2>5. /\ Counts(d, o, at, rem, c)
          /\ o <= n + pre_post(d) => Used_up(d, o - c.used, c.at)
      BY <1>1, <1>2, <1>3, <1>7, <2>2, <2>3, <2>4, WalkingCounts
    <2> QED
      BY <2>2, <2>5 DEF d, o, at, rem, c
  <1> QED
    BY <1>1, <1>5, <1>6, <1>7 DEF Designed

\* The cubic stage is that of a plan without others.
LEMMA CubicAlone ==
    ASSUME conv \in Converters, NEW s \in Stages, conv.stages[s].kind = "cubic"
    PROVE  Len(conv.stages) = 1
  <1> DEFINE q == conv.quality
             ratio == Fraction(conv.input_rate, conv.output_rate)
             p == Planned(ratio, q)
             S == conv.stages
             pre == Dft(p.preL, IF p.preM > 1 THEN p.preM ELSE 1)
             arb == IF q = "QQ" THEN Cubic(p.arbM) ELSE Poly(p)
             post == Dft(p.postL, p.postM)
             there_pre == p.preM * p.preL # 1
             there_arb == p.arbM # Fraction(1, 1) \/ p.arbL # 1
             there_post == p.postM * p.postL # 1
             S0 == [i \in 1 .. p.shr |-> Half]
             S1 == IF there_pre THEN <<pre>> ELSE <<>>
             S2 == IF there_arb THEN <<arb>> ELSE <<>>
             S3 == IF there_post THEN <<post>> ELSE <<>>
             U == {Half, pre, arb, post}
  <1>1. S = S0 \o S1 \o S2 \o S3
    BY ConverterAssumption DEF _soxr_init, StagesOf
  <1>2. S1 \in Seq(U) /\ S2 \in Seq(U) /\ S3 \in Seq(U) /\ Len(S2) <= 1
    <2>1. pre \in U /\ arb \in U /\ post \in U
      OBVIOUS
    <2> HIDE DEF pre, arb, post, there_pre, there_arb, there_post, U
    <2>2. \A e \in U : <<e>> \in Seq(U) /\ Len(<<e>>) = 1
      OBVIOUS
    <2>3. <<>> \in Seq(U) /\ Len(<<>>) = 0
      OBVIOUS
    <2>4. S1 \in Seq(U) /\ S3 \in Seq(U)
      BY <2>1, <2>2, <2>3
    <2>5. S2 \in Seq(U) /\ Len(S2) <= 1
      <3>1. CASE there_arb
        <4>1. S2 = <<arb>>
          BY <3>1
        <4> HIDE DEF S2
        <4> QED
          BY <2>1, <2>2, <4>1
      <3>2. CASE ~ there_arb
        <4>1. S2 = <<>>
          BY <3>2
        <4> HIDE DEF S2
        <4> QED
          BY <2>3, <4>1
      <3> QED
        BY <3>1, <3>2
    <2> QED
      BY <2>4, <2>5
  <1>3. Len(S) \in Nat /\ s \in 1 .. Len(S)
    BY ConverterAssumption DEF Stages
  <1>4. CASE q = "QQ"
    <2>1. p.shr = 0 /\ p.preM = 1 /\ p.preL = 1 /\ p.postM = 1 /\ p.postL = 1
      <3> DEFINE start == [arbM |-> ratio, arbL |-> 1, preL |-> 1, preM |-> 1,
                           postL |-> 1, postM |-> 1, shr |-> 0, rational |-> FALSE,
                           upsample |-> FALSE, mode |-> Mode(ratio, q),
                           again |-> q # "QQ"]
      <3>1. p = Turn(Turn(start))
        BY DEF Planned
      <3>2. /\ ~ start.again /\ start.shr = 0 /\ start.preM = 1 /\ start.preL = 1
            /\ start.postM = 1 /\ start.postL = 1
        BY <1>4
      <3> HIDE DEF start, p
      <3> QED
        BY <3>1, <3>2 DEF Turn
    <2>2. S0 \in Seq(U) /\ Len(S0) = 0
      <3> HIDE DEF p, U
      <3> QED
        BY <2>1
    <2>3. ~ there_pre /\ ~ there_post
      <3> HIDE DEF p
      <3> QED
        BY <2>1
    <2>4. S1 = <<>> /\ S3 = <<>>
      BY <2>3
    <2>5. Len(S) <= 1
      <3> HIDE DEF S, S0, S1, S2, S3, U
      <3> QED
        BY <1>1, <1>2, <2>2, <2>4
    <2> DEFINE k == Len(S)
    <2>6. k \in Nat /\ s \in 1 .. k /\ k <= 1
      BY <1>3, <2>5
    <2> HIDE DEF k
    <2>7. k = 1
      BY <2>6
    <2> QED
      BY <2>7 DEF k
  <1>5. CASE q # "QQ"
    <2>1. \A e \in U : e.kind # "cubic"
      <3>1. Half.kind = "half" /\ pre.kind = "dft" /\ post.kind = "dft"
        BY DEF Half, Dft
      <3>2. arb.kind \in {"poly", "interp"}
        <4>1. arb = Poly(p)
          BY <1>5
        <4> HIDE DEF arb, p
        <4> QED
          BY <4>1 DEF Poly
      <3> HIDE DEF arb, pre, post
      <3> QED
        BY <3>1, <3>2
    <2>2. S0 \in Seq(U)
      <3>1. p.shr \in Nat
        <4>1. conv.input_rate \in Positive /\ conv.output_rate \in Positive
              /\ conv.input_rate # conv.output_rate
          BY ConversionAssumption DEF Positive
        <4>2. Made_up(p, conv.input_rate, conv.output_rate)
          BY <4>1, PlanIsMade
        <4>3. p \in Plans
          BY <4>2 DEF Made_up
        <4> QED
          BY <4>3, PlanFields
      <3>2. Half \in U
        OBVIOUS
      <3> HIDE DEF U, p
      <3> QED
        BY <3>1, <3>2
    <2> HIDE DEF S, S0, S1, S2, S3, U
    <2>3. S \in Seq(U)
      BY <1>1, <1>2, <2>2
    <2>4. S[s] \in U
      BY <1>3, <2>3
    <2> QED
      BY <2>1, <2>4 DEF S
  <1> QED
    BY <1>4, <1>5
-----------------------------------------------------------------------------
(***************************************************************************)
(* The stages one behind the other.                                        *)
(***************************************************************************)
LEMMA OneLink ==
    ASSUME NEW a \in Int, NEW b \in Int, NEW c \in Int,
           NEW n \in Positive, NEW m \in Positive, a * n <= b * m,
           NEW g \in Positive, NEW h \in Positive, b * g <= c * h,
           NEW x \in Positive, NEW y \in Positive, x * (m * h) = (n * g) * y
    PROVE  a * x <= c * y
  <1> DEFINE k == m * h
  <1>1. k \in Nat \ {0} /\ m * y \in Nat /\ g * y \in Nat
    BY PositiveProduct, Product DEF Positive
  <1>2. a * n \in Int /\ b * m \in Int /\ b * g \in Int /\ c * h \in Int
    BY SMT DEF Positive
  <1>3. (a * n) * (g * y) <= (b * m) * (g * y)
    BY <1>1, <1>2, Scale
  <1>4. (b * g) * (m * y) <= (c * h) * (m * y)
    BY <1>1, <1>2, Scale
  <1>5. (b * m) * (g * y) = (b * g) * (m * y)
    BY SMT DEF Positive
  <1>6. (c * h) * (m * y) = (c * y) * k
    BY SMT DEF Positive
  <1>7. (a * n) * (g * y) = (a * x) * k
    <2>1. (a * n) * (g * y) = a * ((n * g) * y)
      BY SMT DEF Positive
    <2>2. (a * x) * k = a * (x * k)
      BY SMT DEF Positive
    <2> QED
      BY <2>1, <2>2
  <1>8. a * x \in Int /\ c * y \in Int
    BY SMT DEF Positive
  <1>9. (a * x) * k \in Int /\ (c * y) * k \in Int
        /\ (c * y + 1) * k = (c * y) * k + k
    <2> HIDE DEF k
    <2> DEFINE u == a * x
               v == c * y
    <2>1. u \in Int /\ v \in Int
      BY <1>8
    <2> HIDE DEF u, v
    <2>2. u * k \in Int /\ v * k \in Int /\ (v + 1) * k = v * k + k
      BY <1>1, <2>1, SMT
    <2> QED
      BY <2>2 DEF u, v
  <1>10. (b * g) * (m * y) \in Int
    <2> DEFINE u == b * g
               v == m * y
    <2>1. u \in Int /\ v \in Int
      BY <1>1, <1>2
    <2> HIDE DEF u, v
    <2>2. u * v \in Int
      BY <2>1, SMT
    <2> QED
      BY <2>2 DEF u, v
  <1> DEFINE u == a * x
             v == c * y
             bg == (b * g) * (m * y)
  <1>11. /\ u \in Int /\ v \in Int /\ u * k \in Int /\ v * k \in Int /\ bg \in Int
         /\ (v + 1) * k = v * k + k /\ u * k <= bg /\ bg <= v * k
    BY <1>3, <1>4, <1>5, <1>6, <1>7, <1>8, <1>9, <1>10
  <1> HIDE DEF u, v, bg, k
  <1>12. u * k < (v + 1) * k
    BY <1>1, <1>11
  <1>13. u < v + 1
    BY <1>1, <1>11, <1>12, Cancel
  <1> QED
    BY <1>11, <1>13 DEF u, v

\* What holds from each stage to the next in the ratio of the stage holds from the
\* first to the last in the ratio of the rates.
LEMMA Chained ==
    ASSUME StepsAreExact, conv \in Converters, NEW f \in [Levels -> Int],
           \A s \in Stages : f[s] * Gain(conv.stages[s])[1]
                               <= f[s + 1] * Gain(conv.stages[s])[2]
    PROVE  f[1] * conv.output_rate <= f[Last] * conv.input_rate
  <1> DEFINE S == conv.stages
             N == Len(S)
             M == Made
             i == conv.input_rate
             o == conv.output_rate
  <1>1. /\ N \in Nat /\ Stages = 1 .. N /\ Last = N + 1 /\ Levels = 1 .. N + 1
        /\ \A s \in 1 .. N : Designed(S[s])
    BY Shape
  <1>2. /\ M[0] = Fraction(1, 1) /\ M \in [0 .. N -> Ratios]
        /\ \A s \in 1 .. N : M[s] = Times(M[s - 1], Gain(S[s])[1], Gain(S[s])[2])
    BY MadeEquation DEF Chain
  <1>3. Is(M[N], o, i) /\ i \in Positive /\ o \in Positive
    BY StagesMakeTheRatio, RatesArePositive DEF Positive
  <1>4. \A s \in 1 .. N : f[s] * Gain(S[s])[1] <= f[s + 1] * Gain(S[s])[2]
    BY <1>1
  <1>5. f \in [1 .. N + 1 -> Int]
    BY <1>1
  <1> HIDE DEF S, N, M, i, o
  <1> DEFINE Off == {k \in Nat : k <= N /\ ~ (f[1] * M[k].num <= f[k + 1] * M[k].den)}
  <1>6. Off = {}
    <2> SUFFICES ASSUME Off # {}
                 PROVE  FALSE
      OBVIOUS
    <2>1. Off \subseteq Nat
      OBVIOUS
    <2>2. PICK k \in Off : \A j \in Nat : j < k => j \notin Off
      <3> HIDE DEF Off
      <3> QED
        BY <2>1, LeastOf
    <2>3. k \in Nat /\ k <= N /\ ~ (f[1] * M[k].num <= f[k + 1] * M[k].den)
      OBVIOUS
    <2>4. k # 0
      <3>1. f[1] \in Int
        BY <1>1, <1>5
      <3>2. M[0].num = 1 /\ M[0].den = 1
        <4>1. 1 \in Positive
          BY DEF Positive
        <4>2. Fraction(1, 1) = [num |-> 1, den |-> 1]
          BY <4>1, WholeFraction
        <4> QED
          BY <1>2, <4>2
      <3> SUFFICES ASSUME k = 0
                   PROVE  FALSE
        OBVIOUS
      <3>3. ~ (f[1] * 1 <= f[1] * 1)
        BY <2>3, <3>2
      <3> QED
        BY <3>1, <3>3
    <2>5. k - 1 \in Nat /\ k - 1 < k /\ k - 1 <= N /\ k \in 1 .. N /\ (k - 1) + 1 = k
          /\ k - 1 \in 0 .. N /\ k \in 0 .. N
      BY <1>1, <2>3, <2>4
    <2>6. f[1] * M[k - 1].num <= f[k] * M[k - 1].den
      BY <2>2, <2>5
    <2> DEFINE n == M[k - 1].num
               m == M[k - 1].den
               g == Gain(S[k])[1]
               h == Gain(S[k])[2]
               x == M[k].num
               y == M[k].den
    <2>7. /\ n \in Positive /\ m \in Positive /\ x \in Positive /\ y \in Positive
          /\ M[k - 1] \in Ratios
      BY <1>2, <2>5 DEF Ratios
    <2>8. g \in Positive /\ h \in Positive
      BY <1>1, <2>5, GainIsPositive
    <2>9. x * (m * h) = (n * g) * y
      <3>1. Is(M[k - 1], n, m)
        BY <2>7 DEF Is
      <3>2. Is(Times(M[k - 1], g, h), n * g, m * h)
        <4> HIDE DEF n, m, g, h
        <4> QED
          BY <2>7, <2>8, <3>1, TimesIs
      <3>3. M[k] = Times(M[k - 1], g, h)
        BY <1>2, <2>5
      <3>4. Is(M[k], n * g, m * h)
        BY <3>2, <3>3
      <3> QED
        BY <3>4 DEF Is
    <2>10. f[k] * g <= f[k + 1] * h
      BY <1>4, <2>5
    <2>11. f[1] \in Int /\ f[k] \in Int /\ f[k + 1] \in Int
      BY <1>1, <1>5, <2>5
    <2>12. f[1] * n <= f[k] * m
      BY <2>6
    <2>13. ~ (f[1] * x <= f[k + 1] * y)
      BY <2>3
    <2> HIDE DEF n, m, g, h, x, y
    <2>14. f[1] * x <= f[k + 1] * y
      BY <2>7, <2>8, <2>9, <2>10, <2>11, <2>12, OneLink
    <2> QED
      BY <2>13, <2>14
  <1>7. f[1] * M[N].num <= f[N + 1] * M[N].den
    BY <1>1, <1>6
  <1> DEFINE n == M[N].num
             m == M[N].den
             a == f[1]
             b == f[N + 1]
  <1>8. n \in Positive /\ m \in Positive /\ n * i = o * m
    BY <1>3 DEF Is, Ratios
  <1>9. a \in Int /\ b \in Int /\ a * n <= b * m
    BY <1>1, <1>5, <1>7
  <1> HIDE DEF n, m, a, b
  <1>10. /\ o * (m * 1) = (n * 1) * i /\ b * 1 <= b * 1 /\ 1 \in Positive
    BY <1>3, <1>8, <1>9 DEF Positive
  <1>11. a * o <= b * i
    BY <1>3, <1>8, <1>9, <1>10, OneLink
  <1> QED
    BY <1>1, <1>11 DEF a, b, o, i

\* No stage looks back further than it looks ahead.
LEMMA PreloadWithin ==
    ASSUME NEW d, Designed(d), d.kind # "dft"
    PROVE  pre_post(d) \in Nat /\ preload(d) <= pre_post(d)
  <1>1. CASE d.kind = "half"
    BY <1>1 DEF Designed, pre_post, preload
  <1>2. CASE d.kind = "cubic"
    <2>1. pre_post(d) \in Nat
      BY <1>2, LooksAhead
    <2> QED
      BY <1>2, <2>1 DEF pre_post, preload, Larger
  <1>3. CASE d.kind \in {"poly", "interp"}
    <2> DEFINE n == d.num_coefs
               n4 == d.num_coefs4
    <2>1. n \in Nat \ {0} /\ n4 \in Nat /\ n <= n4
      BY <1>3 DEF Designed
    <2>2. pre_post(d) = n4 - 1 /\ preload(d) = (n - 1) \div 2 + n4 - n
      BY <1>3 DEF pre_post, preload
    <2> HIDE DEF n, n4
    <2>3. (n - 1) \div 2 \in Nat /\ (n - 1) \div 2 <= n - 1
      BY <2>1, SMT
    <2> QED
      BY <2>1, <2>2, <2>3
  <1> QED
    BY <1>1, <1>2, <1>3 DEF Designed

LEMMA UnusableIsNat ==
    ASSUME NEW d, Designed(d)
    PROVE  Unusable(d) \in Nat
  <1>1. CASE d.kind = "dft"
    <2> DEFINE x == d.dft_length - 1 - d.post_peak
    <2>1. x \in Nat /\ x \in Int /\ d.L \in Nat \ {0}
      BY <1>1 DEF Designed
    <2>2. Unusable(d) = CeilDiv(x, d.L)
      BY <1>1 DEF Unusable
    <2> HIDE DEF x
    <2> QED
      BY <2>1, <2>2, Ceiling
  <1>2. CASE d.kind # "dft"
    <2> DEFINE extra == One_if(first_at(d) > 0)
    <2>1. pre_post(d) \in Nat /\ preload(d) <= pre_post(d) /\ preload(d) \in Nat
      BY <1>2, PreloadWithin, PreloadIsNat
    <2>2. extra \in Nat
      BY DEF One_if
    <2>3. Unusable(d) = pre_post(d) + extra - preload(d)
      BY <1>2 DEF Unusable
    <2> HIDE DEF extra
    <2> QED
      BY <2>1, <2>2, <2>3
  <1> QED
    BY <1>1, <1>2

LEMMA LeftIsNat ==
    ASSUME conv \in Converters, NEW s \in Stages
    PROVE  Left(s) \in Nat
  <1> DEFINE d == conv.stages[s]
  <1>1. Designed(d) /\ InputSize \in Nat /\ (d.kind # "dft" => pre_post(d) < InputSize)
    BY Shape, ConverterAssumption DEF Stages
  <1>2. Unusable(d) \in Nat
    BY <1>1, UnusableIsNat
  <1>3. d.kind # "dft" => pre_post(d) \in Nat
    BY <1>1, PreloadWithin
  <1>4. Left(s) = Unusable(d) + (IF s = 1 \/ d.kind = "dft" THEN 0
                                ELSE InputSize - 1 - pre_post(d))
    BY DEF Left
  <1> HIDE DEF d
  <1> QED
    BY <1>1, <1>2, <1>3, <1>4

\* The equation of Holding.
LEMMA HoldingEquation ==
    ASSUME conv \in Converters
    PROVE  /\ Holding \in [0 .. Len(conv.stages) -> Nat] /\ Holding[0] = 0
           /\ \A s \in Stages :
                 Holding[s] = CeilDiv((Holding[s - 1] + Left(s))
                                         * Gain(conv.stages[s])[1],
                                      Gain(conv.stages[s])[2])
  <1> DEFINE S == conv.stages
             N == Len(S)
             Next_one(s, x) == CeilDiv((x + Left(s)) * Gain(S[s])[1], Gain(S[s])[2])
             h == [z \in Nat \X Nat |->
                      IF z[1] \in 1 .. N THEN Next_one(z[1], z[2]) ELSE z[2]]
             Equation(f) ==
                f = [s \in 0 .. N |->
                       IF s = 0 THEN 0
                       ELSE LET d == S[s]
                            IN  CeilDiv((f[s - 1] + Left(s)) * Gain(d)[1], Gain(d)[2])]
  <1>1. N \in Nat /\ \A s \in 1 .. N : Designed(S[s])
    BY ConverterAssumption
  <1>2. ASSUME NEW s \in 1 .. N, NEW x \in Nat
        PROVE  Next_one(s, x) \in Nat
    <2> DEFINE g == Gain(S[s])[1]
               k == Gain(S[s])[2]
               l == Left(s)
    <2>1. g \in Nat \ {0} /\ k \in Nat \ {0} /\ l \in Nat
      BY <1>1, GainIsPositive, LeftIsNat DEF Positive, Stages
    <2> HIDE DEF g, k, l
    <2>2. (x + l) * g \in Nat
      <3>1. x + l \in Nat
        BY <2>1
      <3> QED
        BY <2>1, <3>1, Product
    <2>3. CeilDiv((x + l) * g, k) \in Nat
      <3> DEFINE y == (x + l) * g
      <3>1. y \in Nat /\ y \in Int
        BY <2>2
      <3> HIDE DEF y
      <3>2. CeilDiv(y, k) \in Nat
        BY <2>1, <3>1, Ceiling
      <3> QED
        BY <3>2 DEF y
    <2> QED
      BY <2>3 DEF g, k, l
  <1>3. h \in [Nat \X Nat -> Nat]
    <2>1. ASSUME NEW z \in Nat \X Nat
          PROVE  (IF z[1] \in 1 .. N THEN Next_one(z[1], z[2]) ELSE z[2]) \in Nat
      <3>1. z[2] \in Nat
        OBVIOUS
      <3> HIDE DEF Next_one, N
      <3> QED
        BY <1>2, <3>1
    <2> HIDE DEF Next_one, N
    <2> QED
      BY <2>1
  <1>4. PICK f : Begun(f, N, Nat, 0, h)
    <2> HIDE DEF h, N
    <2> QED
      BY <1>1, <1>3, BegunExists
  <1>5. f \in [0 .. N -> Nat] /\ f[0] = 0
    BY <1>4 DEF Begun
  <1>6. ASSUME NEW s \in 1 .. N
        PROVE  f[s] = Next_one(s, f[s - 1])
    <2>1. s \in Nat /\ s - 1 \in 0 .. N
      BY <1>1
    <2>2. <<s, f[s - 1]>> \in Nat \X Nat
      BY <1>5, <2>1
    <2>3. f[s] = h[<<s, f[s - 1]>>]
      BY <1>4 DEF Begun
    <2> HIDE DEF Next_one, N
    <2> QED
      BY <2>2, <2>3
  <1> HIDE DEF h
  <1>7. Equation(f)
    <2>1. \A s \in 0 .. N : f[s] = IF s = 0 THEN 0 ELSE Next_one(s, f[s - 1])
      <3> HIDE DEF Next_one, N
      <3> QED
        BY <1>1, <1>5, <1>6
    <2>2. f = [s \in 0 .. N |-> f[s]]
      BY <1>5
    <2>3. [s \in 0 .. N |-> f[s]]
            = [s \in 0 .. N |-> IF s = 0 THEN 0 ELSE Next_one(s, f[s - 1])]
      BY <2>1
    <2> QED
      BY <2>2, <2>3
  <1>8. Equation(Holding)
    <2> DEFINE g == CHOOSE g : Equation(g)
    <2>1. Equation(g)
      BY <1>7
    <2>2. Holding = g
      BY DEF Holding
    <2> QED
      BY <2>1, <2>2
  <1> DEFINE H == Holding
  <1>9. Equation(H)
    BY <1>8
  <1> HIDE DEF H
  <1>10. /\ H[0] = 0
         /\ \A s \in 1 .. N : H[s] = Next_one(s, H[s - 1])
    <2> HIDE DEF Next_one
    <2>1. H = [s \in 0 .. N |-> IF s = 0 THEN 0 ELSE Next_one(s, H[s - 1])]
      BY <1>9 DEF Next_one
    <2> HIDE DEF N
    <2> QED
      BY <1>1, <2>1
  <1>11. H \in [0 .. N -> Nat]
    <2> DEFINE Not_one == {n \in Nat : n <= N /\ H[n] \notin Nat}
    <2>1. Not_one = {}
      <3> SUFFICES ASSUME Not_one # {}
                   PROVE  FALSE
        OBVIOUS
      <3>1. Not_one \subseteq Nat
        OBVIOUS
      <3>2. PICK n \in Not_one : \A m \in Nat : m < n => m \notin Not_one
        <4> HIDE DEF Not_one
        <4> QED
          BY <3>1, LeastOf
      <3>3. n \in Nat /\ n <= N /\ H[n] \notin Nat
        OBVIOUS
      <3>4. n # 0
        BY <1>10, <3>3
      <3>5. n - 1 \in Nat /\ n - 1 < n /\ n - 1 <= N /\ n \in 1 .. N
        BY <1>1, <3>3, <3>4
      <3>6. H[n - 1] \in Nat
        BY <3>2, <3>5
      <3>7. Next_one(n, H[n - 1]) \in Nat
        BY <1>2, <3>5, <3>6
      <3> HIDE DEF Next_one
      <3> QED
        BY <1>10, <3>3, <3>5, <3>7
    <2>2. \A n \in 0 .. N : H[n] \in Nat
      BY <1>1, <2>1
    <2>3. \E E : H = [s \in 0 .. N |-> E[s]]
      <3>1. H = [s \in 0 .. N |-> H[s]]
        BY <1>9
      <3> QED
        BY <3>1
    <2> QED
      BY <2>2, <2>3
  <1> QED
    BY <1>10, <1>11 DEF H, Stages

\* What one call of the function of a stage moves.
LEMMA WorkMoves ==
    ASSUME RateInv, NEW s \in Stages, Work(s), UNCHANGED conv
    PROVE  /\ Occupancy(s)' = Occupancy(s) - Convert(s).used
           /\ Occupancy(s + 1)' = Occupancy(s + 1) + Convert(s).made
           /\ \A t \in Levels : t # s /\ t # s + 1 => Occupancy(t)' = Occupancy(t)
           /\ stage'[s] = [at |-> Convert(s).at, remM |-> Convert(s).remM,
                           input_size |-> InputSizeOf(conv.stages[s], Convert(s).at)]
           /\ \A t \in Stages : t # s => stage'[t] = stage[t]
  <1> DEFINE c == Convert(s)
             Written(f) == fifo_trim_by(fifo_reserve(f, c.reserved),
                                        c.reserved - c.made)
             behind == IF Works(s) THEN Written(fifo[s + 1]) ELSE fifo[s + 1]
             read == fifo_read(fifo[s], c.used)
             now == [at |-> c.at, remM |-> c.remM,
                     input_size |-> InputSizeOf(conv.stages[s], c.at)]
  <1>1. /\ s \in Levels /\ s + 1 \in Levels /\ s # s + 1
        /\ Designed(conv.stages[s])
    BY Shape DEF RateInv, Stages
  <1>2. /\ c.used \in 0 .. Occupancy(s)
        /\ c.made \in Nat /\ c.reserved \in Nat /\ c.made <= c.reserved
    BY StageStays DEF Stays
  <1>3. /\ Sound(fifo[s]) /\ Sound(fifo[s + 1])
        /\ Occupancy(s) \in Nat /\ Occupancy(s + 1) \in Nat
    BY <1>1, OccupancyIsNat DEF RateInv, Queues, Sound, Occupancy
  <1>4. /\ fifo' = [fifo EXCEPT ![s] = read, ![s + 1] = behind]
        /\ stage' = [stage EXCEPT ![s] = now]
    BY <1>1 DEF Work, RateInv, Queues
  <1>5. ~ Works(s) => c.made = 0
    <2> SUFFICES ASSUME ~ Works(s)
                 PROVE  c.made = 0
      OBVIOUS
    <2> DEFINE d == conv.stages[s]
    <2>1. CASE d.kind = "poly"
      <3> DEFINE n == Smaller(stage_occupancy(s), stage[s].input_size)
                 w == Walk(n, stage[s].at, d.step, d.L)
      <3>1. ~ (stage_occupancy(s) > 0)
        BY <2>1 DEF Works
      <3>2. stage[s].input_size \in Nat /\ stage[s].at \in Nat /\ stage[s].at < d.L
        BY <2>1 DEF RateInv, StagesSound, Phases
      <3>3. pre_post(d) \in Nat /\ d.L \in Nat \ {0} /\ d.step \in Nat \ {0}
        BY <1>1, <2>1, LooksAhead
      <3>4. n = 0
        BY <1>3, <3>1, <3>2, <3>3 DEF stage_occupancy, Larger, Smaller
      <3>5. c.made = w.made
        BY <2>1 DEF Convert, poly_fir0
      <3> HIDE DEF n, c, d
      <3>6. 0 * d.L = 0
        BY <3>3, SMT
      <3>7. w.made = 0
        BY <3>2, <3>4, <3>6 DEF Walk
      <3> QED
        BY <3>5, <3>7
    <2>2. CASE d.kind = "dft"
      <3>1. ~ (c.reserved > 0)
        BY <2>2 DEF Works
      <3> HIDE DEF c
      <3> QED
        BY <1>2, <3>1
    <2>3. CASE d.kind \notin {"poly", "dft"}
      <3>1. Works(s)
        BY <1>1, <2>3 DEF Works, Designed
      <3> QED
        BY <3>1
    <2> QED
      BY <2>1, <2>2, <2>3
  <1> HIDE DEF c
  <1>6. fifo_occupancy(read) = Occupancy(s) - c.used
    BY <1>2, <1>3 DEF fifo_read, fifo_occupancy, Occupancy, Sound, FifoType
  <1>7. fifo_occupancy(behind) = Occupancy(s + 1) + c.made
    <2>1. CASE Works(s)
      <3> DEFINE f == fifo_reserve(fifo[s + 1], c.reserved)
                 n == c.reserved - c.made
      <3>1. Sound(f) /\ fifo_occupancy(f) = Occupancy(s + 1) + c.reserved
        BY <1>2, <1>3, ReserveKeeps DEF Occupancy
      <3>2. behind = fifo_trim_by(f, n)
        BY <2>1
      <3>3. n \in Nat
        BY <1>2
      <3> HIDE DEF f, n
      <3>4. fifo_occupancy(fifo_trim_by(f, n)) = fifo_occupancy(f) - n
        BY <3>1, <3>3 DEF fifo_trim_by, fifo_occupancy, Sound, FifoType
      <3> HIDE DEF behind
      <3> QED
        BY <1>2, <1>3, <3>1, <3>2, <3>4 DEF n
    <2>2. CASE ~ Works(s)
      <3>1. behind = fifo[s + 1] /\ c.made = 0
        BY <1>5, <2>2
      <3> HIDE DEF behind
      <3> QED
        BY <1>3, <3>1 DEF Occupancy
    <2> QED
      BY <2>1, <2>2
  <1> HIDE DEF read, behind, now
  <1>8. fifo \in [Levels -> FifoType] /\ DOMAIN stage = Stages
    BY DEF RateInv, Queues, StagesSound
  <1>9. fifo'[s] = read /\ fifo'[s + 1] = behind
    BY <1>1, <1>4, <1>8
  <1>10. \A t \in Levels : t # s /\ t # s + 1 => fifo'[t] = fifo[t]
    BY <1>1, <1>4, <1>8
  <1>11. stage'[s] = now /\ \A t \in Stages : t # s => stage'[t] = stage[t]
    BY <1>4, <1>8
  <1>12. Occupancy(s)' = fifo_occupancy(read)
    BY <1>9 DEF Occupancy
  <1>13. Occupancy(s + 1)' = fifo_occupancy(behind)
    BY <1>9 DEF Occupancy
  <1>14. \A t \in Levels : t # s /\ t # s + 1 => Occupancy(t)' = Occupancy(t)
    BY <1>10 DEF Occupancy
  <1> QED
    BY <1>6, <1>7, <1>11, <1>12, <1>13, <1>14 DEF now, c

-----------------------------------------------------------------------------
(***************************************************************************)
(* The accounts.                                                           *)
(***************************************************************************)
RestAt(s) == Rest(conv.stages[s], Occupancy(s), stage[s].at, stage[s].remM)

\* in[s] samples have come to stage s, and its rest is what it has not made of them.
Books(in) ==
    /\ in \in [Levels -> Int]
    /\ in[1] = samples_in /\ in[Last] = samples_out + Occupancy(Last)
    /\ \A s \in Stages : Gain(conv.stages[s])[2] * in[s + 1]
                            = Gain(conv.stages[s])[1] * in[s] - RestAt(s)

Kept_up(s) ==
    /\ RestAt(s) \in Int /\ NotAhead(conv.stages[s], RestAt(s))
    /\ RemainderBelow(conv.stages[s], stage[s].remM)
    /\ stage[s].input_size = InputSizeOf(conv.stages[s], stage[s].at)

AccountInv == /\ \E in : Books(in)
              /\ \A s \in Stages : Kept_up(s)

\* More in front of a stage is more rest.
LEMMA RestGrows ==
    ASSUME NEW d, Designed(d), NEW o \in Int, NEW at \in Int, NEW rem \in Int,
           NEW n \in Nat
    PROVE  /\ Rest(d, o, at, rem) \in Int /\ Rest(d, o + n, at, rem) \in Int
           /\ Rest(d, o + n, at, rem) = Rest(d, o, at, rem) + Gain(d)[1] * n
           /\ NotAhead(d, Rest(d, o, at, rem)) => NotAhead(d, Rest(d, o + n, at, rem))
  <1> DEFINE g == Gain(d)[1]
             p == preload(d)
             x == Phase(d, at, rem)
             r == Rest(d, o, at, rem)
             more == Rest(d, o + n, at, rem)
             low == IF d.kind = "cubic" THEN - 2 * One ELSE -1
  <1>1. g \in Nat /\ p \in Nat /\ low \in Int
    BY GainIsPositive, PreloadIsNat, OneIsPositive DEF Positive
  <1>2. r = (o - p) * g - x /\ more = ((o + n) - p) * g - x
    BY DEF Rest
  <1>3. /\ NotAhead(d, r) <=> r > low
        /\ NotAhead(d, more) <=> more > low
    BY DEF NotAhead
  <1>4. x \in Int
    <2>1. first_at(d) \in Nat
      BY FirstAtIsBelow
    <2> QED
      BY <2>1 DEF Phase
  <1> HIDE DEF g, p, x, r, more, low
  <1>5. /\ ((o + n) - p) * g = (o - p) * g + g * n
        /\ (o - p) * g \in Int /\ g * n \in Nat
    <2> DEFINE k == o - p
    <2>1. k \in Int /\ (o + n) - p = k + n
      BY <1>1
    <2> HIDE DEF k
    <2>2. (k + n) * g = k * g + g * n /\ k * g \in Int /\ g * n \in Nat
      BY <1>1, <2>1, SMT
    <2> QED
      BY <2>1, <2>2 DEF k
  <1>6. /\ r \in Int /\ more \in Int /\ more = r + g * n
        /\ r > low => more > low
    BY <1>1, <1>2, <1>4, <1>5
  <1> QED
    BY <1>3, <1>6 DEF g, r, more

LEMMA RestIsInt ==
    ASSUME RateInv, NEW s \in Stages
    PROVE  /\ Designed(conv.stages[s]) /\ s \in Levels /\ s + 1 \in Levels
           /\ Occupancy(s) \in Nat /\ Occupancy(s + 1) \in Nat
           /\ stage[s].at \in Nat /\ stage[s].remM \in Nat
           /\ stage[s].input_size \in Nat /\ RestAt(s) \in Int
           /\ Gain(conv.stages[s])[1] \in Nat /\ Gain(conv.stages[s])[2] \in Nat
  <1>1. Designed(conv.stages[s]) /\ s \in Levels /\ s + 1 \in Levels
    BY Shape DEF RateInv
  <1>2. Occupancy(s) \in Nat /\ Occupancy(s + 1) \in Nat
    BY <1>1, OccupancyIsNat DEF RateInv, Queues, Sound, Occupancy
  <1>3. stage[s].at \in Nat /\ stage[s].remM \in Nat /\ stage[s].input_size \in Nat
    BY DEF RateInv, StagesSound
  <1>4. RestAt(s) \in Int
    <2>1. /\ Occupancy(s) \in Int /\ stage[s].at \in Int /\ stage[s].remM \in Int
          /\ 0 \in Nat
      BY <1>2, <1>3
    <2> QED
      BY <1>1, <2>1, RestGrows DEF RestAt
  <1>5. Gain(conv.stages[s])[1] \in Nat /\ Gain(conv.stages[s])[2] \in Nat
    BY <1>1, GainIsPositive DEF Positive
  <1> QED
    BY <1>1, <1>2, <1>3, <1>4, <1>5

\* At first there is nothing to account for.
LEMMA AccountInit == InitRate => AccountInv
  <1> SUFFICES ASSUME InitRate
               PROVE  AccountInv
    OBVIOUS
  <1>1. RateInv /\ conv \in Converters
    BY RateInit DEF InitRate
  <1>2. /\ Levels = 1 .. Last /\ Stages = 1 .. Last - 1 /\ Last \in Nat /\ Last \in Levels
        /\ 1 \in Levels
    BY <1>1, Shape
  <1>3. Occupancy(Last) = 0
    <2>1. fifo[Last] = fifo_create
      BY <1>2 DEF InitRate
    <2> QED
      BY <2>1 DEF Occupancy, fifo_create, fifo_occupancy
  <1>4. ASSUME NEW s \in Stages
        PROVE  Kept_up(s) /\ RestAt(s) = 0
    <2> DEFINE d == conv.stages[s]
    <2>1. /\ stage[s].at = first_at(d) /\ stage[s].remM = 0
          /\ stage[s].input_size = InputSizeOf(d, first_at(d))
      BY DEF InitRate
    <2>2. Designed(d) /\ preload(d) \in Nat /\ first_at(d) \in Nat
      BY <1>1, RestIsInt, PreloadIsNat, FirstAtIsBelow
    <2>3. Occupancy(s) = preload(d)
      <3>1. s # Last /\ s \in Levels
        BY <1>2
      <3>2. fifo[s] = fifo_reserve(fifo_create, preload(d))
        BY <3>1 DEF InitRate
      <3>3. fifo_occupancy(fifo_create) = 0
        BY DEF fifo_create, fifo_occupancy
      <3>4. fifo_occupancy(fifo[s]) = 0 + preload(d)
        BY <2>2, <3>2, <3>3, CreateIsSound, ReserveKeeps
      <3> QED
        BY <2>2, <3>4 DEF Occupancy
    <2>4. RestAt(s) = 0
      <3>1. Gain(d)[1] \in Nat
        BY <1>1, RestIsInt
      <3>2. Phase(d, first_at(d), 0) = 0
        BY <2>2 DEF Phase
      <3>3. RestAt(s) = (preload(d) - preload(d)) * Gain(d)[1] - 0
        BY <2>1, <2>3, <3>2 DEF RestAt, Rest
      <3> DEFINE g == Gain(d)[1]
                 p == preload(d)
      <3> HIDE DEF g, p
      <3>4. (p - p) * g - 0 = 0
        BY <2>2, <3>1, SMT DEF g, p
      <3> QED
        BY <3>3, <3>4 DEF g, p
    <2>5. NotAhead(d, 0)
      BY OneIsPositive DEF NotAhead
    <2>6. RemainderBelow(d, 0)
      <3>1. d.kind = "dft" => d.step \in Int
        BY <2>2 DEF Designed
      <3> QED
        BY <3>1 DEF RemainderBelow, Larger
    <2> QED
      BY <2>1, <2>4, <2>5, <2>6 DEF Kept_up
  <1>5. Books([l \in Levels |-> 0])
    <2> DEFINE in == [l \in Levels |-> 0]
    <2>1. in \in [Levels -> Int] /\ in[1] = 0 /\ in[Last] = 0
      BY <1>2
    <2>2. samples_in = 0 /\ samples_out + Occupancy(Last) = 0
      BY <1>3 DEF InitRate
    <2>3. ASSUME NEW s \in Stages
          PROVE  Gain(conv.stages[s])[2] * in[s + 1]
                   = Gain(conv.stages[s])[1] * in[s] - RestAt(s)
      <3> DEFINE g == Gain(conv.stages[s])[1]
                 h == Gain(conv.stages[s])[2]
      <3>1. g \in Nat /\ h \in Nat /\ s \in Levels /\ s + 1 \in Levels
        BY <1>1, RestIsInt
      <3>2. in[s + 1] = 0 /\ in[s] = 0
        BY <3>1
      <3> HIDE DEF in, g, h
      <3>3. h * 0 = g * 0 - 0
        BY <3>1, SMT
      <3> QED
        BY <1>4, <3>2, <3>3 DEF g, h
    <2> HIDE DEF in
    <2>4. Books(in)
      BY <2>1, <2>2, <2>3 DEF Books
    <2> QED
      BY <2>4 DEF in
  <1> QED
    BY <1>4, <1>5 DEF AccountInv

LEMMA Redistribute ==
    ASSUME NEW g \in Nat, NEW a \in Int, NEW b \in Int
    PROVE  g * (a + b) = g * a + g * b /\ g * a \in Int /\ g * b \in Int
    BY SMT

LEMMA BooksWork ==
    ASSUME FiltersAreRegular, RateInv, AccountInv, NEW s \in Stages, Work(s),
           UNCHANGED <<conv, samples_in, samples_out>>, NEW in, Books(in),
           NEW now, now = [in EXCEPT ![s + 1] = in[s + 1] + Convert(s).made]
    PROVE  AccountInv' /\ Books(now)'
  <1> DEFINE c == Convert(s)
             d == conv.stages[s]
             o == Occupancy(s)
  <1>1. /\ s \in Levels /\ s + 1 \in Levels /\ s \in Nat \ {0}
        /\ Levels' = Levels /\ Stages' = Stages /\ Last' = Last /\ conv' = conv
        /\ Levels = 1 .. Last /\ Stages = 1 .. Last - 1 /\ Last \in Levels
        /\ Last \in Nat
    BY Shape DEF RateInv, Levels, Stages, Last
  <1>2. /\ Occupancy(s)' = o - c.used
        /\ Occupancy(s + 1)' = Occupancy(s + 1) + c.made
        /\ \A t \in Levels : t # s /\ t # s + 1 => Occupancy(t)' = Occupancy(t)
        /\ stage'[s] = [at |-> c.at, remM |-> c.remM, input_size |-> InputSizeOf(d, c.at)]
        /\ \A t \in Stages : t # s => stage'[t] = stage[t]
    BY WorkMoves
  <1>3. /\ c.used \in Nat /\ c.made \in Nat /\ c.at \in Nat /\ c.remM \in Nat
    BY StageStays DEF Stays
  <1>4. Kept_up(s)
    BY DEF AccountInv
  <1>5. Counts(d, o, stage[s].at, stage[s].remM, c)
    BY <1>4, StageCounts DEF Kept_up
  <1> HIDE DEF c, d, o
  <1>6. RestAt(s)' = Rest(d, o - c.used, c.at, c.remM)
    BY <1>1, <1>2 DEF RestAt, d
  <1>7. /\ RestAt(s)' = RestAt(s) - Gain(d)[2] * c.made
        /\ NotAhead(d, RestAt(s)) => NotAhead(d, RestAt(s)')
        /\ RemainderBelow(d, c.remM)
    BY <1>5, <1>6 DEF Counts, RestAt, d, o
  <1>8. /\ RestAt(s) \in Int /\ Gain(d)[2] \in Nat /\ Gain(d)[1] \in Nat
    BY RestIsInt DEF d
  <1>9. RestAt(s)' \in Int /\ Kept_up(s)'
    <2>1. Gain(d)[2] * c.made \in Int
      BY <1>3, <1>8, SMT
    <2>2. RestAt(s)' \in Int
      BY <1>7, <1>8, <2>1
    <2>3. NotAhead(d, RestAt(s)')
      BY <1>4, <1>7 DEF Kept_up, d
    <2>4. /\ stage'[s].at = c.at /\ stage'[s].remM = c.remM
          /\ stage'[s].input_size = InputSizeOf(d, c.at)
      BY <1>2
    <2>5. d = conv'.stages[s]
      BY <1>1 DEF d
    <2> QED
      BY <1>7, <2>2, <2>3, <2>4, <2>5 DEF Kept_up
  <1>10. ASSUME s + 1 \in Stages
         PROVE  /\ RestAt(s + 1)' = RestAt(s + 1) + Gain(conv.stages[s + 1])[1] * c.made
                /\ Kept_up(s + 1)'
    <2> DEFINE e == conv.stages[s + 1]
               p == Occupancy(s + 1)
               at == stage[s + 1].at
               rem == stage[s + 1].remM
    <2>1. Designed(e) /\ p \in Int /\ at \in Int /\ rem \in Int
      BY <1>10, RestIsInt
    <2>2. stage'[s + 1] = stage[s + 1]
      BY <1>1, <1>2, <1>10
    <2>3. RestAt(s + 1)' = Rest(e, p + c.made, at, rem) /\ RestAt(s + 1) = Rest(e, p, at, rem)
      BY <1>1, <1>2, <2>2 DEF RestAt
    <2>4. Kept_up(s + 1)
      BY <1>10 DEF AccountInv
    <2>5. e = conv'.stages[s + 1]
      BY <1>1
    <2> HIDE DEF e, p, at, rem
    <2>6. /\ Rest(e, p, at, rem) \in Int /\ Rest(e, p + c.made, at, rem) \in Int
          /\ Rest(e, p + c.made, at, rem) = Rest(e, p, at, rem) + Gain(e)[1] * c.made
          /\ NotAhead(e, Rest(e, p, at, rem)) => NotAhead(e, Rest(e, p + c.made, at, rem))
      BY <1>3, <2>1, RestGrows
    <2>7. Kept_up(s + 1)'
      <3>1. RestAt(s + 1)' \in Int /\ NotAhead(e, RestAt(s + 1)')
        BY <2>3, <2>4, <2>6 DEF Kept_up, e
      <3>2. /\ RemainderBelow(e, stage'[s + 1].remM)
            /\ stage'[s + 1].input_size = InputSizeOf(e, stage'[s + 1].at)
        BY <2>2, <2>4 DEF Kept_up, e
      <3> QED
        BY <2>5, <3>1, <3>2 DEF Kept_up
    <2> QED
      BY <2>3, <2>6, <2>7 DEF e
  <1>11. ASSUME NEW t \in Stages, t # s, t # s + 1
         PROVE  RestAt(t)' = RestAt(t) /\ Kept_up(t)'
    <2>1. t \in Levels
      BY <1>1
    <2>2. Occupancy(t)' = Occupancy(t) /\ stage'[t] = stage[t]
      BY <1>2, <1>11, <2>1
    <2>3. RestAt(t)' = RestAt(t)
      BY <1>1, <2>2 DEF RestAt
    <2>4. Kept_up(t)
      BY DEF AccountInv
    <2> QED
      BY <1>1, <2>2, <2>3, <2>4 DEF Kept_up
  <1>12. \A t \in Stages' : Kept_up(t)'
    BY <1>1, <1>9, <1>10, <1>11
  <1>13. now = [in EXCEPT ![s + 1] = in[s + 1] + c.made]
    BY DEF c
  <1>14. /\ in \in [Levels -> Int]
         /\ in[1] = samples_in /\ in[Last] = samples_out + Occupancy(Last)
         /\ \A t \in Stages : Gain(conv.stages[t])[2] * in[t + 1]
                                = Gain(conv.stages[t])[1] * in[t] - RestAt(t)
    BY DEF Books
  <1>15. /\ now \in [Levels -> Int] /\ now[s + 1] = in[s + 1] + c.made
         /\ \A t \in Levels : t # s + 1 => now[t] = in[t]
         /\ in[s + 1] \in Int
    BY <1>1, <1>3, <1>13, <1>14
  <1>16. now[1] = samples_in' /\ now[Last] = samples_out' + Occupancy(Last)'
    <2>1. samples_in' = samples_in /\ samples_out' = samples_out
      OBVIOUS
    <2>2. now[1] = samples_in
      BY <1>1, <1>14, <1>15
    <2>3. now[Last] = samples_out + Occupancy(Last)'
      <3>1. CASE s + 1 = Last
        <4>1. /\ in[Last] = samples_out + Occupancy(Last)
              /\ now[Last] = in[Last] + c.made
              /\ Occupancy(s + 1)' = Occupancy(Last) + c.made
          BY <1>2, <1>14, <1>15, <3>1
        <4>2. Occupancy(Last) \in Nat /\ samples_out \in Nat
          BY <3>1, RestIsInt DEF RateInv, Calls
        <4>3. Occupancy(s + 1)' = Occupancy(Last)'
          <5>1. fifo'[s + 1] = fifo'[Last']
            BY <1>1, <3>1
          <5> QED
            BY <5>1 DEF Occupancy
        <4> QED
          BY <1>3, <4>1, <4>2, <4>3
      <3>2. CASE s + 1 # Last
        <4>1. Last # s /\ Last # s + 1
          BY <1>1, <3>2
        <4>2. fifo_occupancy(fifo'[Last]) = Occupancy(Last)
          BY <1>1, <1>2, <4>1 DEF Occupancy
        <4>3. Occupancy(Last)' = Occupancy(Last)
          BY <1>1, <4>2 DEF Occupancy
        <4> QED
          BY <1>1, <1>14, <1>15, <4>1, <4>3
      <3> QED
        BY <3>1, <3>2
    <2> QED
      BY <2>1, <2>2, <2>3
  <1>17. ASSUME NEW t \in Stages
         PROVE  Gain(conv.stages[t])[2] * now[t + 1]
                  = Gain(conv.stages[t])[1] * now[t] - RestAt(t)'
    <2> DEFINE g == Gain(conv.stages[t])[1]
               h == Gain(conv.stages[t])[2]
    <2>1. /\ g \in Nat /\ h \in Nat /\ t \in Levels /\ t + 1 \in Levels /\ t \in Nat
          /\ RestAt(t) \in Int
      BY <1>1, RestIsInt
    <2>2. h * in[t + 1] = g * in[t] - RestAt(t) /\ in[t] \in Int /\ in[t + 1] \in Int
      BY <1>14, <2>1
    <2>3. CASE t = s
      <3>1. now[t + 1] = in[t + 1] + c.made /\ now[t] = in[t]
        <4>1. now[s + 1] = in[s + 1] + c.made
          BY <1>15
        <4>2. s # s + 1 /\ now[s] = in[s]
          BY <1>1, <1>15
        <4> QED
          BY <2>3, <4>1, <4>2
      <3>2. RestAt(t)' = RestAt(t) - h * c.made
        BY <1>7, <2>3 DEF d
      <3> HIDE DEF g, h
      <3>3. h * (in[t + 1] + c.made) = h * in[t + 1] + h * c.made /\ h * c.made \in Int
            /\ g * in[t] \in Int
        BY <1>3, <2>1, <2>2, Redistribute
      <3>4. h * now[t + 1] = g * now[t] - RestAt(t)'
        BY <2>1, <2>2, <3>1, <3>2, <3>3
      <3> QED
        BY <3>4 DEF g, h
    <2>4. CASE t = s + 1
      <3>1. now[t] = in[t] + c.made /\ now[t + 1] = in[t + 1]
        <4>1. now[s + 1] = in[s + 1] + c.made
          BY <1>15
        <4>2. t + 1 # s + 1
          BY <1>1, <2>4
        <4>3. now[t + 1] = in[t + 1]
          BY <1>15, <2>1, <4>2
        <4> QED
          BY <2>4, <4>1, <4>3
      <3>2. RestAt(t)' = RestAt(t) + g * c.made
        BY <1>10, <2>4
      <3> HIDE DEF g, h
      <3>3. g * (in[t] + c.made) = g * in[t] + g * c.made /\ g * c.made \in Int
            /\ g * in[t] \in Int
        BY <1>3, <2>1, <2>2, Redistribute
      <3>4. h * now[t + 1] = g * now[t] - RestAt(t)'
        BY <2>1, <2>2, <3>1, <3>2, <3>3
      <3> QED
        BY <3>4 DEF g, h
    <2>5. CASE t # s /\ t # s + 1
      <3>1. now[t] = in[t] /\ now[t + 1] = in[t + 1]
        <4>1. t + 1 # s + 1
          BY <1>1, <2>1, <2>5
        <4> QED
          BY <1>15, <2>1, <2>5, <4>1
      <3>2. RestAt(t)' = RestAt(t)
        BY <1>11, <2>5
      <3> QED
        BY <2>2, <3>1, <3>2
    <2> QED
      BY <2>3, <2>4, <2>5
  <1>18. Books(now)'
    <2>1. now \in [Levels' -> Int]
      BY <1>1, <1>15
    <2>2. now[1] = samples_in' /\ now[Last'] = samples_out' + Occupancy(Last)'
      BY <1>1, <1>16
    <2>3. ASSUME NEW t \in Stages'
          PROVE  Gain(conv'.stages[t])[2] * now[t + 1]
                   = Gain(conv'.stages[t])[1] * now[t] - RestAt(t)'
      <3>1. t \in Stages
        BY <1>1
      <3>2. conv'.stages[t] = conv.stages[t]
        BY <1>1
      <3> QED
        BY <1>17, <3>1, <3>2
    <2> QED
      BY <2>1, <2>2, <2>3 DEF Books
  <1> QED
    BY <1>12, <1>18 DEF AccountInv

LEMMA AccountWork ==
    ASSUME FiltersAreRegular, RateInv, AccountInv, NEW s \in Stages, Work(s),
           UNCHANGED <<conv, samples_in, samples_out>>
    PROVE  AccountInv'
  <1>1. PICK in : Books(in)
    BY DEF AccountInv
  <1>2. PICK now : now = [in EXCEPT ![s + 1] = in[s + 1] + Convert(s).made]
    OBVIOUS
  <1> QED
    BY <1>1, <1>2, BooksWork

\* What comes from the source, and what goes to BASS.
LEMMA AccountProcess ==
    ASSUME RateInv, AccountInv, NEW ilen0 \in Nat, NEW len \in Nat,
           soxr_process(ilen0, len)
    PROVE  AccountInv'
  <1> DEFINE n == soxr_i_for_o(len, ilen0)
  <1>1. n \in Nat
    BY InputTaken DEF RateInv
  <1> HIDE DEF n
  <1>2. /\ samples_in' = samples_in + n /\ samples_out' = samples_out
        /\ conv' = conv /\ stage' = stage
        /\ fifo' = IF n = 0 THEN fifo
                   ELSE [fifo EXCEPT ![1] = fifo_reserve(fifo[1], n)]
    BY DEF soxr_process, n
  <1>3. /\ Levels' = Levels /\ Stages' = Stages /\ Last' = Last
        /\ Levels = 1 .. Last /\ Stages = 1 .. Last - 1 /\ Last \in Levels
        /\ 1 \in Levels /\ Last \in Nat
    BY <1>2, Shape DEF RateInv, Levels, Stages, Last
  <1>4. \A t \in Levels : Occupancy(t)' = Occupancy(t) + (IF t = 1 THEN n ELSE 0)
    <2> SUFFICES ASSUME NEW t \in Levels
                 PROVE  fifo_occupancy(fifo'[t])
                          = Occupancy(t) + (IF t = 1 THEN n ELSE 0)
      BY DEF Occupancy
    <2>1. Sound(fifo[t]) /\ Occupancy(t) \in Nat /\ fifo \in [Levels -> FifoType]
      BY OccupancyIsNat DEF RateInv, Queues, Sound, Occupancy
    <2>2. CASE n = 0
      BY <1>2, <2>1, <2>2 DEF Occupancy
    <2>3. CASE n # 0 /\ t = 1
      <3>1. fifo'[1] = fifo_reserve(fifo[1], n)
        BY <1>2, <2>1, <2>3
      <3>2. fifo_occupancy(fifo_reserve(fifo[1], n)) = fifo_occupancy(fifo[1]) + n
        BY <1>1, <2>1, <2>3, ReserveKeeps
      <3> QED
        BY <2>3, <3>1, <3>2 DEF Occupancy
    <2>4. CASE n # 0 /\ t # 1
      <3>1. fifo'[t] = fifo[t]
        BY <1>2, <2>1, <2>4
      <3> QED
        BY <2>1, <2>4, <3>1 DEF Occupancy
    <2> QED
      BY <2>2, <2>3, <2>4
  <1>5. ASSUME NEW t \in Stages
        PROVE  /\ RestAt(t)' = RestAt(t) + Gain(conv.stages[t])[1]
                                             * (IF t = 1 THEN n ELSE 0)
               /\ Kept_up(t)'
    <2> DEFINE e == conv.stages[t]
               p == Occupancy(t)
               at == stage[t].at
               rem == stage[t].remM
               k == IF t = 1 THEN n ELSE 0
    <2>1. /\ Designed(e) /\ p \in Int /\ at \in Int /\ rem \in Int /\ k \in Nat
          /\ t \in Levels
      BY <1>1, RestIsInt
    <2>2. RestAt(t)' = Rest(e, p + k, at, rem) /\ RestAt(t) = Rest(e, p, at, rem)
      BY <1>2, <1>4, <2>1 DEF RestAt
    <2>3. Kept_up(t)
      BY DEF AccountInv
    <2> HIDE DEF e, p, at, rem, k
    <2>4. /\ Rest(e, p, at, rem) \in Int /\ Rest(e, p + k, at, rem) \in Int
          /\ Rest(e, p + k, at, rem) = Rest(e, p, at, rem) + Gain(e)[1] * k
          /\ NotAhead(e, Rest(e, p, at, rem)) => NotAhead(e, Rest(e, p + k, at, rem))
      BY <2>1, RestGrows
    <2>5. Kept_up(t)'
      <3>1. RestAt(t)' \in Int /\ NotAhead(e, RestAt(t)')
        BY <2>2, <2>3, <2>4 DEF Kept_up, e
      <3>2. /\ RemainderBelow(e, stage'[t].remM)
            /\ stage'[t].input_size = InputSizeOf(e, stage'[t].at)
        BY <1>2, <2>3 DEF Kept_up, e
      <3>3. e = conv'.stages[t]
        BY <1>2 DEF e
      <3> QED
        BY <3>1, <3>2, <3>3 DEF Kept_up
    <2> QED
      BY <2>2, <2>4, <2>5 DEF e, k
  <1>6. PICK in : Books(in)
    BY DEF AccountInv
  <1>6a. PICK now : now = [in EXCEPT ![1] = in[1] + n]
    OBVIOUS
  <1>7. /\ in \in [Levels -> Int]
        /\ in[1] = samples_in /\ in[Last] = samples_out + Occupancy(Last)
        /\ \A t \in Stages : Gain(conv.stages[t])[2] * in[t + 1]
                               = Gain(conv.stages[t])[1] * in[t] - RestAt(t)
    BY <1>6 DEF Books
  <1>8. /\ now \in [Levels -> Int]
        /\ \A t \in Levels : now[t] = in[t] + (IF t = 1 THEN n ELSE 0)
    BY <1>6a, <1>1, <1>3, <1>7
  <1>9. now[1] = samples_in' /\ now[Last'] = samples_out' + Occupancy(Last)'
    <2>1. Occupancy(Last) \in Nat /\ samples_out \in Nat
      BY <1>3, OccupancyIsNat DEF RateInv, Queues, Sound, Occupancy, Calls
    <2>2. fifo_occupancy(fifo'[Last]) = Occupancy(Last) + (IF Last = 1 THEN n ELSE 0)
      BY <1>3, <1>4 DEF Occupancy
    <2>3. Occupancy(Last)' = Occupancy(Last) + (IF Last = 1 THEN n ELSE 0)
      BY <1>3, <2>2 DEF Occupancy
    <2> QED
      BY <1>1, <1>2, <1>3, <1>7, <1>8, <2>1, <2>3
  <1>10. ASSUME NEW t \in Stages
         PROVE  Gain(conv.stages[t])[2] * now[t + 1]
                  = Gain(conv.stages[t])[1] * now[t] - RestAt(t)'
    <2> DEFINE g == Gain(conv.stages[t])[1]
               h == Gain(conv.stages[t])[2]
               k == IF t = 1 THEN n ELSE 0
    <2>1. /\ g \in Nat /\ h \in Nat /\ t \in Levels /\ t + 1 \in Levels /\ t \in Nat
          /\ RestAt(t) \in Int /\ k \in Int /\ t # 0
      BY <1>1, <1>3, RestIsInt
    <2>2. h * in[t + 1] = g * in[t] - RestAt(t) /\ in[t] \in Int /\ in[t + 1] \in Int
      BY <1>7, <2>1
    <2>3. RestAt(t)' = RestAt(t) + g * k
      BY <1>5
    <2>4. now[t + 1] = in[t + 1] /\ now[t] = in[t] + k
      BY <1>8, <2>1, <2>2
    <2> HIDE DEF g, h, k
    <2>5. g * (in[t] + k) = g * in[t] + g * k /\ g * in[t] \in Int /\ g * k \in Int
      BY <2>1, <2>2, Redistribute
    <2>6. h * now[t + 1] = g * now[t] - RestAt(t)'
      BY <2>1, <2>2, <2>3, <2>4, <2>5
    <2> QED
      BY <2>6 DEF g, h
  <1>11. Books(now)'
    <2>1. now \in [Levels' -> Int]
      BY <1>3, <1>8
    <2>2. ASSUME NEW t \in Stages'
          PROVE  Gain(conv'.stages[t])[2] * now[t + 1]
                   = Gain(conv'.stages[t])[1] * now[t] - RestAt(t)'
      <3>1. t \in Stages /\ conv'.stages[t] = conv.stages[t]
        BY <1>2, <1>3
      <3> QED
        BY <1>10, <3>1
    <2> QED
      BY <1>9, <2>1, <2>2 DEF Books
  <1> QED
    BY <1>3, <1>5, <1>11 DEF AccountInv

LEMMA AccountUnchanged ==
    ASSUME AccountInv, UNCHANGED <<conv, fifo, stage, samples_in, samples_out>>
    PROVE  AccountInv'
  <1>1. /\ Levels' = Levels /\ Stages' = Stages /\ Last' = Last /\ conv' = conv
        /\ \A t \in Stages : RestAt(t)' = RestAt(t) /\ (Kept_up(t) => Kept_up(t)')
        /\ Occupancy(Last)' = Occupancy(Last)
    BY DEF Levels, Stages, Last, RestAt, Kept_up, Occupancy
  <1>2. PICK in : Books(in)
    BY DEF AccountInv
  <1>3. Books(in)'
    BY <1>1, <1>2 DEF Books
  <1> QED
    BY <1>1, <1>3 DEF AccountInv

LEMMA AccountOutput ==
    ASSUME RateInv, AccountInv, soxr_output
    PROVE  /\ AccountInv'
           /\ odone' = Smaller(olen, Occupancy(Last))
           /\ samples_out' = samples_out + odone' /\ odone' \in Nat
           /\ Occupancy(Last)' = Occupancy(Last) - odone' /\ Occupancy(Last) \in Nat
           /\ \A s \in Stages : Occupancy(s)' = Occupancy(s)
           /\ \A in : Books(in) => Books(in)'
  <1> DEFINE n == Smaller(olen, Occupancy(Last))
  <1>1. /\ fifo' = [fifo EXCEPT ![Last] = fifo_read(fifo[Last], n)]
        /\ odone' = n /\ samples_out' = samples_out + n
        /\ conv' = conv /\ stage' = stage /\ samples_in' = samples_in
    BY DEF soxr_output
  <1>2. /\ Levels' = Levels /\ Stages' = Stages /\ Last' = Last
        /\ Levels = 1 .. Last /\ Stages = 1 .. Last - 1 /\ Last \in Levels
        /\ Last \in Nat
    BY <1>1, Shape DEF RateInv, Levels, Stages, Last
  <1>3. Sound(fifo[Last]) /\ Occupancy(Last) \in Nat /\ fifo \in [Levels -> FifoType]
    BY <1>2, OccupancyIsNat DEF RateInv, Queues, Sound, Occupancy
  <1>4. n \in 0 .. Occupancy(Last)
    BY <1>3 DEF Smaller, RateInv, Calls
  <1> HIDE DEF n
  <1>5. Occupancy(Last)' = Occupancy(Last) - n
    <2>1. fifo_occupancy(fifo_read(fifo[Last], n)) = Occupancy(Last) - n
      BY <1>3, <1>4 DEF fifo_read, fifo_occupancy, Occupancy, Sound, FifoType
    <2>2. fifo'[Last'] = fifo_read(fifo[Last], n)
      BY <1>1, <1>2, <1>3
    <2> QED
      BY <2>1, <2>2 DEF Occupancy
  <1>6. \A s \in Stages : Occupancy(s)' = Occupancy(s)
    <2> SUFFICES ASSUME NEW s \in Stages
                 PROVE  fifo'[s] = fifo[s]
      BY DEF Occupancy
    <2>1. s # Last /\ s \in Levels
      BY <1>2
    <2> QED
      BY <1>1, <1>3, <2>1
  <1>7. \A s \in Stages : RestAt(s)' = RestAt(s) /\ (Kept_up(s) => Kept_up(s)')
    BY <1>1, <1>6 DEF RestAt, Kept_up
  <1>8. ASSUME NEW in, Books(in)
        PROVE  Books(in)'
    <2>1. /\ in \in [Levels -> Int]
          /\ in[1] = samples_in /\ in[Last] = samples_out + Occupancy(Last)
          /\ \A t \in Stages : Gain(conv.stages[t])[2] * in[t + 1]
                                 = Gain(conv.stages[t])[1] * in[t] - RestAt(t)
      BY <1>8 DEF Books
    <2>2. in[Last'] = samples_out' + Occupancy(Last)'
      <3>1. samples_out \in Nat
        BY DEF RateInv, Calls
      <3> QED
        BY <1>1, <1>2, <1>3, <1>4, <1>5, <2>1, <3>1
    <2>3. in \in [Levels' -> Int] /\ in[1] = samples_in'
      BY <1>1, <1>2, <2>1
    <2>4. ASSUME NEW t \in Stages'
          PROVE  Gain(conv'.stages[t])[2] * in[t + 1]
                   = Gain(conv'.stages[t])[1] * in[t] - RestAt(t)'
      <3>1. t \in Stages /\ conv'.stages[t] = conv.stages[t] /\ RestAt(t)' = RestAt(t)
        BY <1>1, <1>2, <1>7
      <3> QED
        BY <2>1, <3>1
    <2> QED
      BY <2>2, <2>3, <2>4 DEF Books
  <1>9. AccountInv'
    BY <1>2, <1>7, <1>8 DEF AccountInv
  <1> QED
    BY <1>1, <1>3, <1>4, <1>5, <1>6, <1>8, <1>9 DEF n
-----------------------------------------------------------------------------
(***************************************************************************)
(* What the converter may hold, and how far it may be ahead.               *)
(***************************************************************************)
FirstUsedUp == 1 \in Stages => Used_up(conv.stages[1], Occupancy(1), stage[1].at)

\* When there is nothing more to come, the first stage leaves nothing it can use.
FirstInv ==
    /\ depth = 1 /\ done[1] /\ 1 \in Stages => Exhausted(1)
    /\ depth > 1 /\ done[depth] => FirstUsedUp
    /\ depth = 0 /\ odone < olen => FirstUsedUp /\ Occupancy(Last) = 0

LEMMA PerhapsOne ==
    ASSUME NEW x \in Nat, NEW one \in Nat, x < one
    PROVE  x <= One_if(x > 0) * one /\ One_if(x > 0) \in Nat
  <1>1. One_if(x > 0) = IF x > 0 THEN 1 ELSE 0
    BY DEF One_if
  <1>2. 0 * one = 0 /\ 1 * one = one
    BY SMT
  <1> QED
    BY <1>1, <1>2

\* A dft that has less than it takes at once has less than a block.
LEMMA PartOfBlock ==
    ASSUME RateInv, NEW s \in Stages, Kept_up(s), Exhausted(s),
           conv.stages[s].kind = "dft"
    PROVE  stage[s].at + conv.stages[s].L * Occupancy(s) < conv.stages[s].dft_length
  <1> DEFINE d == conv.stages[s]
             o == Occupancy(s)
             at == stage[s].at
             L == d.L
             length == d.dft_length
             c == CeilDiv(length - at, L)
  <1>1. /\ Designed(d) /\ o \in Nat /\ at \in Nat
        /\ L \in Nat \ {0} /\ length \in Nat
    <2>1. Designed(d) /\ o \in Nat /\ at \in Nat
      BY RestIsInt
    <2> QED
      BY <2>1 DEF Designed
  <1>2. o < c
    BY DEF Exhausted, Kept_up, InputSizeOf
  <1>3. c \in Int /\ c * L < length - at + L
    <2>1. length - at \in Int
      BY <1>1
    <2> QED
      BY <1>1, <2>1, Ceiling
  <1> HIDE DEF L, length, o, at, c
  <1>4. o + 1 <= c
    BY <1>1, <1>2, <1>3
  <1>5. (o + 1) * L <= c * L
    BY <1>1, <1>3, <1>4, Scale
  <1>6. (o + 1) * L = o * L + L /\ o * L \in Int /\ c * L \in Int /\ L * o = o * L
    BY <1>1, <1>3, SMT
  <1>7. at + L * o < length
    BY <1>1, <1>3, <1>5, <1>6
  <1> QED
    BY <1>7 DEF L, length, o, at

\* The rest of a dft that has less than a block, and of a walk that can go no further.
LEMMA RestOfPart ==
    ASSUME RateInv, NEW s \in Stages, Kept_up(s), Exhausted(s),
           conv.stages[s].kind = "dft"
    PROVE  RestAt(s) <= Unusable(conv.stages[s]) * Gain(conv.stages[s])[1]
  <1> DEFINE d == conv.stages[s]
             o == Occupancy(s)
             at == stage[s].at
             rem == stage[s].remM
             l == Unusable(d)
             L == d.L
             length == d.dft_length
             peak == d.post_peak
  <1>1. /\ Designed(d) /\ o \in Nat /\ at \in Nat /\ rem \in Nat /\ l \in Nat
        /\ at < Phases(d)
    BY RestIsInt, UnusableIsNat DEF RateInv, StagesSound
  <1>2. at + L * o < length
    BY PartOfBlock
  <1>3. /\ L \in Nat \ {0} /\ length \in Nat /\ peak \in Nat /\ Gain(d)[1] = L
    <2>1. d.step > 0 \/ d.step < 0
      BY <1>1 DEF Designed
    <2> QED
      BY <1>1, <2>1 DEF Designed, Gain
  <1>4. RestAt(s) = o * L + at - peak - rem
    <2>1. o \in Int /\ at \in Int /\ rem \in Int
      BY <1>1
    <2> QED
      BY <1>1, <2>1, RestOfDft DEF RestAt
  <1>5. l = CeilDiv(length - 1 - peak, L)
    BY DEF Unusable
  <1> HIDE DEF L, length, peak, o, at, rem, l
  <1>6. o * L < length - at
    <2>1. L * o = o * L /\ o * L \in Int
      BY <1>1, <1>3, SMT
    <2> QED
      BY <1>1, <1>2, <1>3, <2>1
  <1>7. length - 1 - peak <= l * L
    <2>1. length - 1 - peak \in Int
      BY <1>3
    <2> QED
      BY <1>3, <1>5, <2>1, Ceiling
  <1>8. o * L \in Int /\ l * L \in Int
    BY <1>1, <1>3, SMT
  <1>9. RestAt(s) <= l * L
    BY <1>1, <1>3, <1>4, <1>6, <1>7, <1>8
  <1> QED
    BY <1>3, <1>9 DEF l, L

LEMMA RestOfWalked ==
    ASSUME RateInv, NEW s \in Stages, conv.stages[s].kind # "dft", NEW ahead \in Int,
           (Occupancy(s) - ahead) * Phases(conv.stages[s]) <= stage[s].at
    PROVE  LET d == conv.stages[s]
           IN  RestAt(s) <= (ahead + One_if(first_at(d) > 0) - preload(d)) * Gain(d)[1]
  <1> DEFINE d == conv.stages[s]
             o == Occupancy(s)
             at == stage[s].at
             p == preload(d)
             x == first_at(d)
             one == Phases(d)
             extra == One_if(x > 0)
             l == ahead + extra - p
  <1>1. /\ Designed(d) /\ o \in Nat /\ at \in Nat
        /\ p \in Nat /\ x \in Nat /\ x < one /\ at < one
    BY RestIsInt, PreloadIsNat, FirstAtIsBelow DEF RateInv, StagesSound
  <1>2. Gain(d)[1] = one /\ one \in Nat \ {0}
    BY <1>1, OneIsPositive DEF Gain, Phases, Designed
  <1>3. RestAt(s) = (o - p) * one - at + x
    <2>1. o \in Int /\ at \in Int /\ d.kind \in {"half", "poly", "interp", "cubic"}
      BY <1>1 DEF Designed
    <2> QED
      BY <1>1, <2>1, RestOfWalk DEF RestAt
  <1>4. x <= extra * one /\ extra \in Nat
    <2> HIDE DEF one, x
    <2> QED
      BY <1>1, <1>2, PerhapsOne DEF one
  <1>5. (o - ahead) * one <= at
    OBVIOUS
  <1> HIDE DEF one, extra, d, o, at, p, x
  <1>6. /\ (o - p) * one = (o - ahead) * one + (ahead - p) * one
        /\ l * one = (ahead - p) * one + extra * one
        /\ (o - ahead) * one \in Int /\ (ahead - p) * one \in Int
        /\ extra * one \in Int
    BY <1>1, <1>2, <1>4, SMT
  <1> HIDE DEF l
  <1>7. RestAt(s) <= l * one
    <2> DEFINE u == (o - ahead) * one
               v == (ahead - p) * one
               e == extra * one
    <2>1. u \in Int /\ v \in Int /\ e \in Int /\ u <= at /\ x <= e
      BY <1>4, <1>5, <1>6
    <2>2. l * one = v + e
      BY <1>6
    <2>3. (o - p) * one = u + v
      BY <1>6
    <2> HIDE DEF u, v, e
    <2>4. RestAt(s) = u + v - at + x
      BY <1>1, <1>3, <2>1, <2>3
    <2> QED
      BY <1>1, <2>1, <2>2, <2>4
  <1> QED
    BY <1>2, <1>7 DEF l, d, extra, x, p

\* The rest of a stage that has used all it can.
LEMMA UnusableRest ==
    ASSUME RateInv, NEW s \in Stages, Kept_up(s), Exhausted(s),
           Used_up(conv.stages[s], Occupancy(s), stage[s].at)
    PROVE  RestAt(s) <= Unusable(conv.stages[s]) * Gain(conv.stages[s])[1]
  <1>1. CASE conv.stages[s].kind = "dft"
    BY <1>1, RestOfPart
  <1>2. CASE conv.stages[s].kind # "dft"
    <2> DEFINE ahead == pre_post(conv.stages[s])
    <2>1. ahead \in Int
      BY <1>2, RestIsInt, PreloadWithin
    <2>2. (Occupancy(s) - ahead) * Phases(conv.stages[s]) <= stage[s].at
      BY <1>2 DEF Used_up
    <2> QED
      BY <1>2, <2>1, <2>2, RestOfWalked DEF Unusable
  <1> QED
    BY <1>1, <1>2

\* The rest of a stage that has less than it takes at once.
LEMMA RestBound ==
    ASSUME RateInv, NEW s \in Stages, Kept_up(s), Exhausted(s),
           s = 1 => Used_up(conv.stages[s], Occupancy(s), stage[s].at)
    PROVE  RestAt(s) <= Left(s) * Gain(conv.stages[s])[1]
  <1> DEFINE d == conv.stages[s]
  <1>1. CASE s = 1 \/ d.kind = "dft"
    <2>1. RestAt(s) <= Unusable(d) * Gain(d)[1]
      BY <1>1, UnusableRest, RestOfPart
    <2>2. Unusable(d) \in Nat
      BY RestIsInt, UnusableIsNat
    <2>3. Left(s) = Unusable(d)
      BY <1>1, <2>2 DEF Left
    <2> QED
      BY <2>1, <2>3
  <1>2. CASE s # 1 /\ d.kind # "dft"
    <2> DEFINE o == Occupancy(s)
               at == stage[s].at
               one == Phases(d)
               extra == One_if(first_at(d) > 0)
               ahead == InputSize - 1
    <2>1. /\ o \in Nat /\ at \in Nat /\ one \in Nat /\ InputSize \in Nat
      <3>1. Designed(d)
        BY RestIsInt
      <3> QED
        BY <3>1, <1>2, RestIsInt, OneIsPositive, ConverterAssumption
           DEF Phases, Designed
    <2>2. o < InputSize
      BY <1>2 DEF Exhausted, Kept_up, InputSizeOf
    <2> HIDE DEF d, o, at, one
    <2>3. (o - ahead) * one <= at
      <3>1. o - ahead \in Int /\ 0 \in Int /\ o - ahead <= 0
        BY <2>1, <2>2
      <3>2. (o - ahead) * one <= 0 * one /\ 0 * one = 0
        BY <2>1, <3>1, Scale, SMT
      <3>3. (o - ahead) * one \in Int
        BY <2>1, <3>1, SMT
      <3> QED
        BY <2>1, <3>2, <3>3
    <2>4. RestAt(s) <= (ahead + extra - preload(d)) * Gain(d)[1]
      <3>1. ahead \in Int
        BY <2>1
      <3> HIDE DEF ahead
      <3> QED
        BY <1>2, <2>3, <3>1, RestOfWalked DEF d, o, at, one
    <2>5. Left(s) = ahead + extra - preload(d)
      <3>1. Left(s) = (pre_post(d) + extra - preload(d)) + (InputSize - 1 - pre_post(d))
        BY <1>2 DEF Left, Unusable, d
      <3>2. pre_post(d) \in Nat /\ preload(d) \in Nat /\ extra \in Nat
        BY <1>2, RestIsInt, PreloadWithin, PreloadIsNat DEF One_if, d
      <3> HIDE DEF extra
      <3> QED
        BY <2>1, <3>1, <3>2
    <2> QED
      BY <2>4, <2>5 DEF d
  <1> QED
    BY <1>1, <1>2

LEMMA NotAheadOfInput ==
    ASSUME StepsAreExact, RateInv, AccountInv
    PROVE  - 2 * conv.output_rate < _soxr_delay
  <1> DEFINE O == conv.output_rate
             I == conv.input_rate
             out == Occupancy(Last)
  <1>1. /\ O \in Nat \ {0} /\ I \in Nat \ {0} /\ conv \in Converters
        /\ samples_in \in Nat /\ samples_out \in Nat
        /\ Levels = 1 .. Last /\ Stages = 1 .. Last - 1 /\ Last \in Nat
        /\ Last \in Levels /\ 1 \in Levels
    BY RatesArePositive, Shape DEF RateInv, Calls
  <1>2. out \in Nat
    BY <1>1, OccupancyIsNat DEF RateInv, Queues, Sound, Occupancy
  <1>3. PICK in : Books(in)
    BY DEF AccountInv
  <1>4. /\ in \in [Levels -> Int]
        /\ in[1] = samples_in /\ in[Last] = samples_out + out
        /\ \A t \in Stages : Gain(conv.stages[t])[2] * in[t + 1]
                               = Gain(conv.stages[t])[1] * in[t] - RestAt(t)
    BY <1>3 DEF Books
  <1> HIDE DEF out
  <1>5. _soxr_delay = samples_in * O - samples_out * I
    BY DEF _soxr_delay
  <1>6. SUFFICES in[Last] * I < (samples_in + 2) * O
    <2> HIDE DEF O, I
    <2>1. in[Last] * I = samples_out * I + out * I /\ out * I \in Nat
          /\ samples_out * I \in Int
      BY <1>1, <1>2, <1>4, SMT
    <2>2. (samples_in + 2) * O = samples_in * O + 2 * O /\ samples_in * O \in Int
      BY <1>1, SMT
    <2>3. samples_out * I < samples_in * O + 2 * O
      BY <1>1, <1>6, <2>1, <2>2
    <2>4. - 2 * O < samples_in * O - samples_out * I
      BY <1>1, <2>1, <2>2, <2>3
    <2> QED
      BY <1>5, <2>4 DEF O
  <1>7. CASE \A s \in Stages : conv.stages[s].kind # "cubic"
    <2> DEFINE f == [k \in Levels |-> - in[k]]
    <2>1. f \in [Levels -> Int] /\ \A k \in Levels : f[k] = - in[k] /\ in[k] \in Int
      BY <1>4
    <2> HIDE DEF f
    <2>2. ASSUME NEW s \in Stages
          PROVE  f[s] * Gain(conv.stages[s])[1] <= f[s + 1] * Gain(conv.stages[s])[2]
      <3> DEFINE g == Gain(conv.stages[s])[1]
                 h == Gain(conv.stages[s])[2]
                 r == RestAt(s)
                 a == in[s]
                 b == in[s + 1]
      <3>1. g \in Nat /\ h \in Nat /\ r \in Int /\ s \in Levels /\ s + 1 \in Levels
        BY RestIsInt
      <3>2. r > -1
        BY <1>7 DEF AccountInv, Kept_up, NotAhead
      <3>3. f[s] = - a /\ f[s + 1] = - b /\ a \in Int /\ b \in Int /\ h * b = g * a - r
        BY <1>4, <2>1, <3>1
      <3> HIDE DEF g, h, r, a, b
      <3>4. (- a) * g = - (g * a) /\ (- b) * h = - (h * b) /\ g * a \in Int
        BY <3>1, <3>3, SMT
      <3>5. f[s] * g <= f[s + 1] * h
        BY <3>1, <3>2, <3>3, <3>4
      <3> QED
        BY <3>5 DEF g, h
    <2>3. f[1] * O <= f[Last] * I
      BY <1>1, <2>1, <2>2, Chained
    <2> DEFINE b == in[Last]
    <2>4. f[1] = - samples_in /\ f[Last] = - b /\ b \in Int
      BY <1>1, <1>4, <2>1
    <2> HIDE DEF O, I, b
    <2>5. (- samples_in) * O = - (samples_in * O) /\ (- b) * I = - (b * I)
          /\ samples_in * O \in Int /\ b * I \in Int
          /\ (samples_in + 2) * O = samples_in * O + 2 * O
      BY <1>1, <2>4, SMT
    <2>6. b * I < (samples_in + 2) * O
      BY <1>1, <2>3, <2>4, <2>5
    <2> QED
      BY <2>6 DEF O, I, b
  <1>8. CASE ~ \A s \in Stages : conv.stages[s].kind # "cubic"
    <2>1. PICK s \in Stages : conv.stages[s].kind = "cubic"
      BY <1>8
    <2>2. Last = 2 /\ s = 1 /\ Stages = {1}
      <3>1. Len(conv.stages) = 1
        BY <1>1, <2>1, CubicAlone
      <3>2. Last = 2 /\ Stages = 1 .. 1
        BY <3>1 DEF Last, Stages
      <3> QED
        BY <3>2
    <2> DEFINE d == conv.stages[1]
               k == d.step
               r == RestAt(1)
               a == in[1]
               b == in[2]
    <2>3. /\ Gain(d)[1] = One /\ Gain(d)[2] = k /\ k \in Nat \ {0} /\ One \in Nat \ {0}
      <3>1. d.kind = "cubic" /\ Designed(d)
        BY <2>1, <2>2, RestIsInt
      <3> QED
        BY <3>1, OneIsPositive DEF Gain, Designed
    <2>4. r \in Int /\ r > - 2 * One
      <3>1. Kept_up(1) /\ d.kind = "cubic"
        BY <2>1, <2>2 DEF AccountInv
      <3> QED
        BY <3>1 DEF Kept_up, NotAhead
    <2>5. a \in Int /\ b \in Int /\ k * b = One * a - r
      BY <1>1, <1>4, <2>2, <2>3
    <2>6. One * I = k * O
      <3> DEFINE f == [l \in Levels |-> IF l = 1 THEN k ELSE One]
                 g == [l \in Levels |-> IF l = 1 THEN - k ELSE - One]
      <3>1. f \in [Levels -> Int] /\ f[1] = k /\ f[Last] = One /\ f[1 + 1] = One
        BY <1>1, <2>2, <2>3
      <3>2. g \in [Levels -> Int] /\ g[1] = - k /\ g[Last] = - One /\ g[1 + 1] = - One
        BY <1>1, <2>2, <2>3
      <3> HIDE DEF f, g, k, d, O, I
      <3>3. k * One <= One * k /\ (- k) * One <= (- One) * k
        BY <2>3, SMT
      <3>4. f[1] * Gain(d)[1] <= f[1 + 1] * Gain(d)[2]
            /\ g[1] * Gain(d)[1] <= g[1 + 1] * Gain(d)[2]
        BY <2>3, <3>1, <3>2, <3>3
      <3>5. f[1] * O <= f[Last] * I
        <4>1. \A t \in Stages : f[t] * Gain(conv.stages[t])[1]
                                  <= f[t + 1] * Gain(conv.stages[t])[2]
          BY <2>2, <3>4 DEF d
        <4> QED
          BY <1>1, <3>1, <4>1, Chained DEF O, I
      <3>6. g[1] * O <= g[Last] * I
        <4>1. \A t \in Stages : g[t] * Gain(conv.stages[t])[1]
                                  <= g[t + 1] * Gain(conv.stages[t])[2]
          BY <2>2, <3>4 DEF d
        <4> QED
          BY <1>1, <3>2, <4>1, Chained DEF O, I
      <3>7. k * O \in Int /\ One * I \in Int
            /\ (- k) * O = - (k * O) /\ (- One) * I = - (One * I)
        BY <1>1, <2>3, SMT
      <3> QED
        BY <3>1, <3>2, <3>5, <3>6, <3>7
    <2> HIDE DEF k, d, O, I, r, a, b
    <2>7. k * b < One * (a + 2)
      <3>1. One * (a + 2) = One * a + One * 2 /\ One * a \in Int
        BY <2>3, <2>5, Redistribute
      <3> QED
        BY <2>3, <2>4, <2>5, <3>1
    <2>8. (b * I) * One < ((a + 2) * O) * One
      <3>1. (b * I) * One = (k * b) * O
        <4>1. (b * I) * One = b * (One * I)
          BY <1>1, <2>3, <2>5, SMT
        <4>2. b * (k * O) = (k * b) * O
          BY <1>1, <2>3, <2>5, SMT
        <4> QED
          BY <2>6, <4>1, <4>2
      <3>2. ((a + 2) * O) * One = (One * (a + 2)) * O
        BY <1>1, <2>3, <2>5, SMT
      <3> DEFINE u == k * b
                 v == One * (a + 2)
      <3>3. u \in Int /\ v \in Int /\ u < v
        BY <2>3, <2>5, <2>7, SMT
      <3> HIDE DEF u, v
      <3>4. u * O < v * O
        BY <1>1, <3>3, SMT
      <3> QED
        BY <3>1, <3>2, <3>4 DEF u, v
    <2>9. b * I < (a + 2) * O
      <3>1. b * I \in Int /\ (a + 2) * O \in Int
        BY <1>1, <2>5, SMT
      <3> QED
        BY <2>3, <2>8, <3>1, Cancel
    <2> QED
      BY <1>4, <2>2, <2>9 DEF a, b, O, I
  <1> QED
    BY <1>7, <1>8

\* When no stage can go on, what the converter holds is what its stages may have left.
LEMMA MostHeld ==
    ASSUME StepsAreExact, RateInv, AccountInv, FirstUsedUp, Occupancy(Last) = 0,
           \A s \in Stages : Exhausted(s)
    PROVE  _soxr_delay <= Holding[Len(conv.stages)] * conv.input_rate
  <1> DEFINE O == conv.output_rate
             I == conv.input_rate
             N == Len(conv.stages)
             H == Holding
  <1>1. /\ O \in Nat \ {0} /\ I \in Nat \ {0} /\ conv \in Converters
        /\ samples_in \in Nat /\ samples_out \in Nat
        /\ N \in Nat /\ Levels = 1 .. N + 1 /\ Stages = 1 .. N /\ Last = N + 1
        /\ 1 \in Levels /\ Last \in Levels
    BY RatesArePositive, Shape DEF RateInv, Calls
  <1>2. PICK in : Books(in)
    BY DEF AccountInv
  <1>3. /\ in \in [Levels -> Int]
        /\ in[1] = samples_in /\ in[Last] = samples_out
        /\ \A t \in Stages : Gain(conv.stages[t])[2] * in[t + 1]
                               = Gain(conv.stages[t])[1] * in[t] - RestAt(t)
    BY <1>1, <1>2 DEF Books
  <1>4. /\ H \in [0 .. N -> Nat] /\ H[0] = 0
        /\ \A s \in Stages :
              H[s] = CeilDiv((H[s - 1] + Left(s)) * Gain(conv.stages[s])[1],
                             Gain(conv.stages[s])[2])
    BY <1>1, HoldingEquation
  <1> HIDE DEF H, O, I, N
  <1>5. PICK f : f = [k \in Levels |-> in[k] + H[k - 1]]
    OBVIOUS
  <1>6. \A k \in Levels : /\ k - 1 \in 0 .. N /\ in[k] \in Int /\ H[k - 1] \in Nat
                          /\ f[k] = in[k] + H[k - 1]
    BY <1>1, <1>3, <1>4, <1>5
  <1>7. f \in [Levels -> Int]
    BY <1>5, <1>6
  <1>8. ASSUME NEW s \in Stages
        PROVE  f[s] * Gain(conv.stages[s])[1] <= f[s + 1] * Gain(conv.stages[s])[2]
    <2> DEFINE g == Gain(conv.stages[s])[1]
               h == Gain(conv.stages[s])[2]
               r == RestAt(s)
               l == Left(s)
               a == in[s]
               b == in[s + 1]
               x == H[s - 1]
               y == H[s]
    <2>1. g \in Nat /\ r \in Int /\ s \in Levels /\ s + 1 \in Levels /\ s \in Int
          /\ l \in Nat /\ h \in Nat \ {0} /\ s + 1 - 1 = s
      BY <1>1, RestIsInt, LeftIsNat, GainIsPositive DEF Positive
    <2>2. r <= l * g
      BY <1>1, RestBound DEF AccountInv, FirstUsedUp
    <2>3. /\ a \in Int /\ b \in Int /\ x \in Nat /\ y \in Nat
          /\ f[s] = a + x /\ f[s + 1] = b + y
      BY <1>6, <2>1
    <2>4. h * b = g * a - r
      BY <1>3
    <2>5. y = CeilDiv((x + l) * g, h)
      BY <1>4
    <2> HIDE DEF g, h, r, l, a, b, x, y
    <2>6. (x + l) * g <= y * h
      <3>1. (x + l) * g \in Int
        BY <2>1, <2>3, SMT
      <3> QED
        BY <2>1, <2>5, <3>1, Ceiling
    <2>7. /\ (x + l) * g = x * g + l * g /\ x * g \in Int /\ l * g \in Int
          /\ (a + x) * g = g * a + x * g /\ g * a \in Int
          /\ (b + y) * h = h * b + y * h /\ h * b \in Int /\ y * h \in Int
      BY <2>1, <2>3, SMT
    <2>8. (a + x) * g <= (b + y) * h
      BY <2>1, <2>2, <2>4, <2>6, <2>7
    <2> QED
      BY <2>3, <2>8 DEF g, h
  <1>9. f[1] * O <= f[Last] * I
    BY <1>1, <1>7, <1>8, Chained DEF O, I
  <1> DEFINE y == H[N]
  <1>10. f[1] = samples_in /\ f[Last] = samples_out + y /\ y \in Nat
    <2>1. Last - 1 = N /\ 1 - 1 = 0
      BY <1>1
    <2> QED
      BY <1>1, <1>3, <1>4, <1>6, <2>1
  <1> HIDE DEF y
  <1>11. (samples_out + y) * I = samples_out * I + y * I
         /\ samples_out * I \in Int /\ y * I \in Int /\ samples_in * O \in Int
    BY <1>1, <1>10, SMT
  <1>12. samples_in * O - samples_out * I <= y * I
    BY <1>9, <1>10, <1>11
  <1> QED
    BY <1>12 DEF _soxr_delay, y, H, N, O, I

LEMMA FirstStart ==
    ASSUME conv \in Converters, NEW ilen0, NEW len, soxr_process(ilen0, len)
    PROVE  FirstInv'
  <1>1. depth' = Last /\ done' = [d \in Levels |-> FALSE]
    BY DEF soxr_process
  <1>2. Last \in Levels /\ Last # 0
    BY Shape
  <1>3. ~ done'[depth'] /\ depth' # 0
    BY <1>1, <1>2
  <1> QED
    BY <1>3 DEF FirstInv

LEMMA FirstPull ==
    ASSUME RateInv, Pull
    PROVE  FirstInv'
  <1>1. depth \in Levels /\ depth > 0 /\ done \in [Levels -> BOOLEAN]
        /\ Levels = 1 .. Last /\ Stages = 1 .. Last - 1 /\ Last \in Nat
    BY Shape DEF RateInv, Calls, Pull
  <1>2. Stages' = Stages /\ (Exhausted(1)' <=> Exhausted(1))
    BY DEF Pull, Stages, Exhausted, Occupancy
  <1>3. CASE depth = 1
    <2>1. depth' = 1
      BY <1>3 DEF Pull
    <2>2. 1 \in Stages => Exhausted(1)
      <3> SUFFICES ASSUME 1 \in Stages
                   PROVE  Exhausted(1)
        OBVIOUS
      <3>1. stage[1].input_size - Occupancy(1) > 0
        BY <1>1, <1>3 DEF Pull, want
      <3> QED
        BY <3>1, RestIsInt DEF Exhausted
    <2> QED
      BY <1>2, <2>1, <2>2 DEF FirstInv
  <1>4. CASE depth # 1
    <2>1. done' = [done EXCEPT ![depth - 1] = FALSE] /\ depth' = depth - 1
      BY <1>4 DEF Pull
    <2>2. depth - 1 \in Levels /\ depth - 1 # 0
      BY <1>1, <1>4
    <2>3. ~ done'[depth'] /\ depth' # 0
      BY <1>1, <2>1, <2>2
    <2> QED
      BY <2>3 DEF FirstInv
  <1> QED
    BY <1>3, <1>4

LEMMA FirstStage ==
    ASSUME FiltersAreRegular, RateInv, AccountInv, FirstInv, stage_process
    PROVE  FirstInv'
  <1>1. Levels' = Levels /\ Stages' = Stages /\ conv' = conv
    BY DEF stage_process, Levels, Stages
  <1>2. PICK l \in Stages : l = depth
    BY DEF stage_process
  <1>3. /\ l \in Nat \ {0} /\ l \in Levels /\ l + 1 \in Levels /\ Stages \subseteq Levels
        /\ done \in [Levels -> BOOLEAN] /\ Stages \subseteq Nat
    BY Shape DEF RateInv, Calls
  <1>4. depth' = l + 1 /\ Work(l)
    BY <1>2 DEF stage_process
  <1>5. done'[l + 1] => done[l]
    BY <1>2, <1>3 DEF stage_process
  <1>6. /\ Occupancy(l)' = Occupancy(l) - Convert(l).used
        /\ \A t \in Levels : t # l /\ t # l + 1 => Occupancy(t)' = Occupancy(t)
        /\ stage'[l] = [at |-> Convert(l).at, remM |-> Convert(l).remM,
                        input_size |-> InputSizeOf(conv.stages[l], Convert(l).at)]
        /\ \A t \in Stages : t # l => stage'[t] = stage[t]
    BY <1>1, <1>4, WorkMoves
  <1>7. ASSUME done[l], 1 \in Stages
        PROVE  Used_up(conv.stages[1], Occupancy(1)', stage'[1].at)
    <2>1. CASE l = 1
      <3>1. Exhausted(1)
        BY <1>2, <1>7, <2>1 DEF FirstInv
      <3>2. Occupancy(1) <= stage[1].input_size
        BY <1>7, <3>1, RestIsInt DEF Exhausted
      <3>3. RemainderBelow(conv.stages[1], stage[1].remM)
        BY <1>7 DEF AccountInv, Kept_up
      <3>4. Used_up(conv.stages[1], Occupancy(1) - Convert(1).used, Convert(1).at)
        BY <1>7, <3>2, <3>3, StageCounts
      <3>5. stage'[1].at = Convert(1).at
        BY <1>6, <2>1
      <3> QED
        BY <1>6, <2>1, <3>4, <3>5
    <2>2. CASE l # 1
      <3>1. depth > 1 /\ done[depth]
        BY <1>2, <1>3, <1>7, <2>2
      <3>2. FirstUsedUp
        BY <3>1 DEF FirstInv
      <3>3. 1 \in Levels /\ 1 # l /\ 1 # l + 1
        BY <1>3, <1>7, <2>2
      <3>4. Occupancy(1)' = Occupancy(1) /\ stage'[1] = stage[1]
        BY <1>6, <1>7, <3>3
      <3> QED
        BY <1>7, <3>2, <3>4 DEF FirstUsedUp
    <2> QED
      BY <2>1, <2>2
  <1>8. done'[l + 1] => FirstUsedUp'
    BY <1>1, <1>5, <1>7 DEF FirstUsedUp
  <1>9. depth' # 1 /\ depth' # 0
    BY <1>3, <1>4
  <1> QED
    BY <1>4, <1>8, <1>9 DEF FirstInv

LEMMA FirstOutput ==
    ASSUME RateInv, AccountInv, FirstInv, soxr_output
    PROVE  FirstInv'
  <1>1. /\ depth = Last /\ (done[Last] \/ want(Last) <= 0)
        /\ depth' = 0 /\ conv' = conv /\ stage' = stage /\ olen' = olen
    BY DEF soxr_output
  <1>2. /\ Stages' = Stages /\ Last \in Nat \ {0} /\ Stages = 1 .. Last - 1
        /\ olen \in Nat /\ Last' = Last
    BY <1>1, Shape DEF RateInv, Stages, Last, Calls
  <1>3. /\ odone' = Smaller(olen, Occupancy(Last))
        /\ Occupancy(Last)' = Occupancy(Last) - odone' /\ Occupancy(Last) \in Nat
        /\ \A s \in Stages : Occupancy(s)' = Occupancy(s)
    BY AccountOutput
  <1>4. ASSUME odone' < olen'
        PROVE  FirstUsedUp' /\ Occupancy(Last)' = 0
    <2>1. Occupancy(Last) < olen /\ odone' = Occupancy(Last)
      BY <1>1, <1>2, <1>3, <1>4 DEF Smaller
    <2>2. done[Last]
      BY <1>1, <1>2, <1>3, <2>1 DEF want
    <2>3. 1 \in Stages => FirstUsedUp
      <3>1. 1 \in Stages => depth > 1
        BY <1>1, <1>2
      <3> QED
        BY <1>1, <2>2, <3>1 DEF FirstInv
    <2>4. FirstUsedUp'
      BY <1>1, <1>2, <1>3, <2>3 DEF FirstUsedUp
    <2>5. Occupancy(Last)' = 0
      BY <1>3, <2>1
    <2> QED
      BY <2>4, <2>5
  <1> QED
    BY <1>1, <1>4 DEF FirstInv

LEMMA FirstUnchanged ==
    ASSUME FirstInv, UNCHANGED <<conv, rate>>
    PROVE  FirstInv'
    BY DEF FirstInv, FirstUsedUp, rate, Stages, Last, Exhausted, Occupancy

\* A call gives no more to the converter than makes what it asks for, and when it got
\* that the converter holds no more than before.
BalanceInv ==
    LET held == Holding[Len(conv.stages)] * conv.input_rate
    IN  /\ depth > 0 => /\ idone * conv.output_rate <= olen * conv.input_rate
                        /\ _soxr_delay - idone * conv.output_rate <= held
        /\ depth = 0 /\ odone = olen => _soxr_delay <= held

DelayInv == TurnInv /\ AccountInv /\ FirstInv /\ BalanceInv

LEMMA DelayIsBounded ==
    ASSUME StepsAreExact, SizeInv, DelayInv, depth = 0
    PROVE  /\ - 2 * conv.output_rate < _soxr_delay
           /\ _soxr_delay <= Holding[Len(conv.stages)] * conv.input_rate
  <1>1. RateInv /\ AccountInv /\ TurnInv /\ FirstInv /\ BalanceInv
    BY DEF SizeInv, DelayInv
  <1>2. CASE odone = olen
    BY <1>1, <1>2, NotAheadOfInput DEF BalanceInv
  <1>3. CASE odone # olen
    <2>1. odone < olen
      BY <1>1, <1>3 DEF RateInv, Calls
    <2>2. \A s \in Stages : Exhausted(s)
      BY <1>1, <2>1 DEF TurnInv
    <2>3. FirstUsedUp /\ Occupancy(Last) = 0
      BY <1>1, <2>1 DEF FirstInv
    <2> QED
      BY <1>1, <2>2, <2>3, MostHeld, NotAheadOfInput
  <1> QED
    BY <1>2, <1>3

LEMMA HeldIsNat ==
    ASSUME conv \in Converters
    PROVE  Holding[Len(conv.stages)] * conv.input_rate \in Nat
  <1> DEFINE y == Holding[Len(conv.stages)]
  <1>1. Len(conv.stages) \in Nat /\ Len(conv.stages) \in 0 .. Len(conv.stages)
    BY Shape
  <1>2. y \in Nat /\ conv.input_rate \in Nat
    BY <1>1, HoldingEquation, RatesArePositive
  <1> HIDE DEF y
  <1>3. y * conv.input_rate \in Nat
    BY <1>2, SMT
  <1> QED
    BY <1>3 DEF y

LEMMA HoldingUnchanged ==
    ASSUME UNCHANGED conv
    PROVE  UNCHANGED <<Holding, Holding[Len(conv.stages)] * conv.input_rate>>
    BY DEF Holding, Left

LEMMA BalanceStart ==
    ASSUME AllIsConverted, StepsAreExact, SizeInv, DelayInv, Process
    PROVE  BalanceInv'
  <1> DEFINE O == conv.output_rate
             I == conv.input_rate
             held == Holding[Len(conv.stages)] * I
             n == soxr_i_for_o(resampler_capacity, input)
             delay == _soxr_delay
  <1>1. /\ conv \in Converters /\ depth = 0
        /\ O \in Nat /\ I \in Nat /\ held \in Nat /\ samples_in \in Nat /\ samples_out \in Nat
        /\ input \in 0 .. input_capacity
        /\ input_capacity \in Nat /\ resampler_capacity \in Nat
    BY RatesArePositive, HeldIsNat, CapacitiesAreNat
       DEF SizeInv, RateInv, Calls, ClientInv, Process
  <1>2. delay <= held
    BY <1>1, DelayIsBounded
  <1>3. /\ depth' = Last /\ olen' = resampler_capacity /\ idone' = n
        /\ samples_in' = samples_in + n /\ samples_out' = samples_out /\ conv' = conv
    BY DEF Process, soxr_process
  <1>4. Last > 0
    BY <1>1, Shape
  <1>5. n \in 0 .. input
    <2>1. input \in Nat
      BY <1>1
    <2> QED
      BY <1>1, <2>1, InputTaken
  <1>6. input_capacity * O <= resampler_capacity * I
    BY <1>1 DEF AllIsConverted, input_capacity, resampler_capacity
  <1>7. delay = samples_in * O - samples_out * I
        /\ _soxr_delay' = (samples_in + n) * O - samples_out * I
    BY <1>3 DEF _soxr_delay
  <1>8. (Holding[Len(conv.stages)] * conv.input_rate)' = held
    BY <1>3, HoldingUnchanged
  <1> HIDE DEF O, I, held, n, delay
  <1>9. /\ n \in Nat /\ n * O <= input_capacity * O
        /\ (samples_in + n) * O = samples_in * O + n * O
        /\ n * O \in Int /\ samples_in * O \in Int /\ samples_out * I \in Int
        /\ input_capacity * O \in Int /\ resampler_capacity * I \in Int
    <2>1. n \in Nat /\ n <= input_capacity
      BY <1>1, <1>5
    <2>2. n * O <= input_capacity * O
      BY <1>1, <2>1, Scale
    <2> QED
      BY <1>1, <2>1, <2>2, SMT
  <1>10. n * O <= resampler_capacity * I /\ _soxr_delay' - n * O <= held
    BY <1>1, <1>2, <1>6, <1>7, <1>9
  <1>11. idone' * O <= olen' * I /\ _soxr_delay' - idone' * O <= held
    BY <1>3, <1>10
  <1>12. conv'.output_rate = O /\ conv'.input_rate = I
    BY <1>3 DEF O, I
  <1>13. depth' # 0
    BY <1>3, <1>4
  <1> QED
    BY <1>8, <1>11, <1>12, <1>13 DEF BalanceInv

LEMMA BalanceWork ==
    ASSUME RateInv, BalanceInv, Pull \/ stage_process
    PROVE  BalanceInv'
  <1>1. /\ UNCHANGED <<conv, olen, idone, odone, samples_in, samples_out>>
        /\ depth > 0 /\ depth' # 0
    <2>1. CASE Pull
      BY <2>1, Shape DEF Pull, RateInv, Calls
    <2>2. CASE stage_process
      BY <2>2, Shape DEF stage_process, RateInv, Calls
    <2> QED
      BY <2>1, <2>2
  <1>2. (Holding[Len(conv.stages)] * conv.input_rate)'
          = Holding[Len(conv.stages)] * conv.input_rate
    BY <1>1, HoldingUnchanged
  <1>3. _soxr_delay' = _soxr_delay
    BY <1>1 DEF _soxr_delay
  <1> QED
    BY <1>1, <1>2, <1>3 DEF BalanceInv

LEMMA BalanceOutput ==
    ASSUME RateInv, AccountInv, BalanceInv, soxr_output
    PROVE  BalanceInv'
  <1> DEFINE O == conv.output_rate
             I == conv.input_rate
             held == Holding[Len(conv.stages)] * I
             delay == _soxr_delay
  <1>1. /\ depth' = 0 /\ conv' = conv /\ olen' = olen /\ samples_in' = samples_in
        /\ depth > 0 /\ samples_out' = samples_out + odone'
    <2>1. Last > 0
      BY Shape DEF RateInv
    <2> QED
      BY <2>1 DEF soxr_output
  <1>2. /\ O \in Nat /\ I \in Nat /\ held \in Nat /\ samples_in \in Nat
        /\ samples_out \in Nat /\ idone \in Nat /\ olen \in Nat
    BY RatesArePositive, HeldIsNat DEF RateInv, Calls
  <1>3. (Holding[Len(conv.stages)] * conv.input_rate)' = held
    BY <1>1, HoldingUnchanged
  <1>4. idone * O <= olen * I /\ delay - idone * O <= held
    BY <1>1 DEF BalanceInv
  <1>5. /\ delay = samples_in * O - samples_out * I
        /\ odone' = olen
             => _soxr_delay' = samples_in * O - (samples_out + olen) * I
    BY <1>1 DEF _soxr_delay
  <1> HIDE DEF O, I, held, delay
  <1>6. /\ (samples_out + olen) * I = samples_out * I + olen * I
        /\ samples_in * O \in Int /\ samples_out * I \in Int /\ olen * I \in Int
        /\ idone * O \in Int
    BY <1>2, SMT
  <1>7. odone' = olen => _soxr_delay' <= held
    BY <1>2, <1>4, <1>5, <1>6
  <1> QED
    BY <1>1, <1>3, <1>7 DEF BalanceInv

LEMMA BalanceUnchanged ==
    ASSUME BalanceInv, UNCHANGED <<conv, rate>>
    PROVE  BalanceInv'
  <1>1. UNCHANGED <<conv, depth, olen, idone, odone, _soxr_delay>>
    BY DEF rate, _soxr_delay
  <1>2. UNCHANGED <<Holding, Holding[Len(conv.stages)] * conv.input_rate>>
    BY <1>1, HoldingUnchanged
  <1> QED
    BY <1>1, <1>2 DEF BalanceInv

\* The converter never holds more than its filters look ahead and its stages may have
\* left, and is never ahead of its input by two samples, whatever the stages are that
\* _soxr_init plans and however much of the source comes at a time: nothing gathers in
\* it from one call of resampler_populate to the next.
THEOREM DelayStaysBounded ==
    ASSUME StepsAreExact, AllIsConverted, FiltersAreRegular
    PROVE  Spec => []DelayBounded
  <1>1. Init => DelayInv
    <2> SUFFICES ASSUME Init
                 PROVE  DelayInv
      OBVIOUS
    <2>1. InitRate /\ conv \in Converters
      BY DEF Init, InitRate
    <2>2. /\ depth = 0 /\ odone = 0 /\ olen = 0 /\ samples_in = 0 /\ samples_out = 0
      BY <2>1 DEF InitRate
    <2>3. TurnInv /\ FirstInv
      BY <2>2 DEF TurnInv, FirstInv
    <2>4. AccountInv
      BY <2>1, AccountInit
    <2>5. BalanceInv
      <3>1. _soxr_delay = 0
        BY <2>1, <2>2, RatesArePositive, SMT DEF _soxr_delay
      <3> DEFINE held == Holding[Len(conv.stages)] * conv.input_rate
      <3>2. held \in Nat
        BY <2>1, HeldIsNat
      <3> HIDE DEF held
      <3>3. _soxr_delay <= held
        BY <3>1, <3>2
      <3> QED
        BY <2>2, <3>3 DEF BalanceInv, held
    <2> QED
      BY <2>3, <2>4, <2>5 DEF DelayInv
  <1>2. SizeInv /\ DelayInv /\ [Next]_vars => DelayInv'
    <2> SUFFICES ASSUME SizeInv, DelayInv, [Next]_vars
                 PROVE  DelayInv'
      OBVIOUS
    <2>1. RateInv /\ conv \in Converters /\ TurnInv /\ AccountInv /\ FirstInv /\ BalanceInv
      BY DEF SizeInv, RateInv, DelayInv
    <2>2. CASE Process
      <3>1. soxr_process(input, resampler_capacity)
            /\ input \in Nat /\ resampler_capacity \in Nat
        BY <2>1, <2>2, CapacitiesAreNat DEF Process, SizeInv, ClientInv
      <3>2. TurnInv' /\ FirstInv'
        BY <2>1, <3>1, TurnStart, FirstStart
      <3>3. AccountInv'
        BY <2>1, <3>1, AccountProcess
      <3>4. BalanceInv'
        BY <2>2, BalanceStart
      <3> QED
        BY <3>2, <3>3, <3>4 DEF DelayInv
    <2>3. CASE Pull
      <3>1. AccountInv'
        BY <2>1, <2>3, AccountUnchanged DEF Pull
      <3> QED
        BY <2>1, <2>3, <3>1, TurnPull, FirstPull, BalanceWork DEF DelayInv
    <2>4. CASE stage_process
      <3>1. depth \in Stages /\ Work(depth) /\ UNCHANGED <<conv, samples_in, samples_out>>
        BY <2>4 DEF stage_process
      <3>2. AccountInv'
        BY <2>1, <3>1, AccountWork
      <3> QED
        BY <2>1, <2>4, <3>2, TurnStage, FirstStage, BalanceWork DEF DelayInv
    <2>5. CASE soxr_output
      BY <2>1, <2>5, TurnOutput, AccountOutput, FirstOutput, BalanceOutput DEF DelayInv
    <2>6. ASSUME UNCHANGED <<conv, rate>>
          PROVE  DelayInv'
      <3>1. AccountInv'
        BY <2>1, <2>6, AccountUnchanged DEF rate
      <3> QED
        BY <2>1, <2>6, <3>1, TurnUnchanged, FirstUnchanged, BalanceUnchanged DEF DelayInv
    <2>7. CASE \/ read_input_data \/ read_resampled_data \/ read_playback_data
               \/ resampler_proc \/ UNCHANGED vars
      BY <2>6, <2>7 DEF read_input_data, read_resampled_data, read_playback_data,
                        resampler_proc, vars
    <2>8. CASE Convert_on
      BY <2>3, <2>4, <2>5, <2>8 DEF Convert_on, Converting
    <2> QED
      BY <2>2, <2>7, <2>8 DEF Next, resampler_populate
  <1>3. SizeInv /\ DelayInv => DelayBounded
    BY DelayIsBounded DEF DelayBounded
  <1> QED
    BY <1>1, <1>2, <1>3, SizesInvariant, PTL DEF Spec
-----------------------------------------------------------------------------
(***************************************************************************)
(* What is held back.  in tells what has come to each stage, since what    *)
(* had come to it when the call of soxr_process began.                     *)
(***************************************************************************)
\* The stage has worked on a whole turn in this call.
Turned(s, in, since) ==
    LET d == conv.stages[s]
    IN  (in[s + 1] - since[s + 1]) * Gain(d)[2] > (InputSize - pre_post(d)) * Gain(d)[1]

Spent(s, in, since) ==
    \/ Used_up(conv.stages[s], Occupancy(s), stage[s].at)
    \/ conv.stages[s].kind # "dft" /\ Turned(s, in, since)

CallOf(in, since) ==
    /\ Books(in)
    /\ since \in [Levels -> Int] /\ \A t \in Levels : since[t] <= in[t]
    /\ \A t \in Stages : conv.stages[t].kind # "cubic" =>
          Gain(conv.stages[t])[2] * since[t + 1] <= Gain(conv.stages[t])[1] * since[t]
    /\ depth > 0 \/ odone = 0 => samples_out <= since[Last]
    /\ depth > 0 /\ done[depth] =>
          \A s \in Stages : s < depth => Spent(s, in, since)
    /\ depth = 0 /\ odone < olen => \A s \in Stages : Spent(s, in, since)

CallInv == \E in, since : CallOf(in, since)

LEMMA LooksBeyond ==
    ASSUME NEW d, Designed(d), d.kind # "dft"
    PROVE  pre_post(d) \in Nat \ {0}
  <1>1. CASE d.kind = "half"
    BY <1>1 DEF Designed, pre_post
  <1>2. CASE d.kind = "cubic"
    <2>1. pre_post(d) \in Nat
      BY <1>2, LooksAhead
    <2> QED
      BY <1>2, <2>1 DEF pre_post, Larger
  <1>3. CASE d.kind \in {"poly", "interp"}
    <2> DEFINE one == IF d.kind = "poly" THEN d.L ELSE One
               step == d.step
               n == d.num_coefs4
    <2>1. /\ n \in Nat /\ step \in Nat \ {0} /\ one \in Nat \ {0}
          /\ step <= (n - 1) * one /\ pre_post(d) = n - 1
      BY <1>3, OneIsPositive DEF Designed, pre_post
    <2> HIDE DEF one, step, n
    <2>2. ~ (n - 1 <= 0)
      BY <2>1, SMT
    <2> QED
      BY <2>1, <2>2
  <1> QED
    BY <1>1, <1>2, <1>3 DEF Designed

\* What comes of a whole turn.
LEMMA TurnMakes ==
    ASSUME RateInv, NEW s \in Stages, Kept_up(s), conv.stages[s].kind # "dft",
           ~ (Occupancy(s) <= stage[s].input_size)
    PROVE  Convert(s).made * Gain(conv.stages[s])[2]
             > (InputSize - pre_post(conv.stages[s])) * Gain(conv.stages[s])[1]
  <1> DEFINE d == conv.stages[s]
             o == Occupancy(s)
             at == stage[s].at
             n == Smaller(stage_occupancy(s), stage[s].input_size)
             p == pre_post(d)
             one == Phases(d)
             step == d.step
  <1>1. /\ Designed(d) /\ o \in Nat /\ at \in Nat /\ at < one
        /\ InputSize \in Nat /\ p \in Nat \ {0} /\ p < InputSize /\ one \in Nat \ {0}
    <2>1. Designed(d) /\ d \in {conv.stages[k] : k \in Stages}
      BY RestIsInt
    <2>2. p \in Nat \ {0} /\ p < InputSize /\ InputSize \in Nat
      BY <2>1, LooksBeyond, ConverterAssumption DEF RateInv, Stages
    <2>3. one \in Nat \ {0}
      BY <2>1, OneIsPositive DEF Phases, Designed
    <2> QED
      BY <2>1, <2>2, <2>3, RestIsInt DEF RateInv, StagesSound
  <1>2. stage[s].input_size = InputSize
    BY DEF Kept_up, InputSizeOf
  <1>3. n \in Nat /\ InputSize - p + 1 <= n
    <2>1. stage_occupancy(s) = Larger(0, o - p) /\ InputSize < o
      BY <1>1, <1>2 DEF stage_occupancy
    <2>2. stage_occupancy(s) = o - p
      <3> HIDE DEF p, o
      <3> QED
        BY <1>1, <2>1 DEF Larger
    <2>3. n = Smaller(o - p, InputSize)
      BY <1>2, <2>2
    <2> HIDE DEF n, o, p
    <2>4. CASE o - p <= InputSize
      <3>1. n = o - p
        BY <1>1, <2>3, <2>4 DEF Smaller
      <3> QED
        BY <1>1, <2>1, <2>4, <3>1
    <2>5. CASE ~ (o - p <= InputSize)
      <3>1. n = InputSize
        BY <1>1, <2>3, <2>5 DEF Smaller
      <3> QED
        BY <1>1, <3>1
    <2> QED
      BY <2>4, <2>5
  <1>4. CASE d.kind = "half"
    <2> DEFINE m == (n + 1) \div 2
    <2>1. Convert(s).made = m /\ Gain(d)[1] = 1 /\ Gain(d)[2] = 2
      BY <1>4 DEF Convert, FUNCTION_H, Gain
    <2> HIDE DEF n, p
    <2>2. m \in Nat /\ m * 2 >= n
      BY <1>3, SMT
    <2> HIDE DEF m
    <2>3. m * 2 > (InputSize - p) * 1
      BY <1>1, <1>3, <2>2
    <2> QED
      BY <2>1, <2>3 DEF p
  <1>5. CASE d.kind \in {"poly", "interp", "cubic"}
    <2> DEFINE w == Walk(n, at, step, one)
    <2>1. /\ Convert(s).made = w.made /\ Gain(d)[1] = one /\ Gain(d)[2] = step
          /\ step \in Nat \ {0}
      <3>1. Convert(s).made = w.made
        BY <1>5 DEF Convert, poly_fir0, poly_fir, cubic_stage_fn, Phases
      <3>2. Gain(d)[1] = one /\ Gain(d)[2] = step
        BY <1>5 DEF Gain, Phases
      <3>3. step \in Nat \ {0}
        BY <1>1, <1>5, LooksAhead
      <3> QED
        BY <3>1, <3>2, <3>3
    <2> HIDE DEF n, p, o, at, one, step
    <2>2. n * one \in Nat /\ n * one >= (InputSize - p + 1) * one
          /\ (InputSize - p + 1) * one = (InputSize - p) * one + one
          /\ (InputSize - p) * one \in Nat
      BY <1>1, <1>3, SMT
    <2> DEFINE all == n * one
               some == (InputSize - p) * one
    <2>3. all \in Nat /\ some \in Nat /\ all > at /\ all - at > some
      BY <1>1, <2>2
    <2>4. w.made = CeilDiv(all - at, step)
      BY <2>3 DEF Walk
    <2> HIDE DEF all, some, w
    <2>5. all - at \in Int /\ all - at <= CeilDiv(all - at, step) * step
          /\ CeilDiv(all - at, step) \in Int
      <3> DEFINE x == all - at
      <3>1. x \in Int
        BY <1>1, <2>3
      <3> HIDE DEF x
      <3>2. x <= CeilDiv(x, step) * step /\ CeilDiv(x, step) \in Int
        BY <2>1, <3>1, Ceiling
      <3> QED
        BY <3>1, <3>2 DEF x
    <2>6. w.made * step \in Int
      BY <2>1, <2>4, <2>5, SMT
    <2>7. w.made * step > some
      BY <1>1, <2>3, <2>4, <2>5, <2>6
    <2> QED
      BY <2>1, <2>7 DEF some, p
  <1> QED
    BY <1>1, <1>4, <1>5 DEF Designed

\* Before a call has done anything, what has come is what had come.
LEMMA CallOpens ==
    RateInv /\ AccountInv =>
        \E in : /\ Books(in)
                /\ \A t \in Stages : conv.stages[t].kind # "cubic" =>
                      Gain(conv.stages[t])[2] * in[t + 1] <= Gain(conv.stages[t])[1] * in[t]
                /\ samples_out <= in[Last]
  <1> SUFFICES ASSUME RateInv, AccountInv
               PROVE  \E in : /\ Books(in)
                              /\ \A t \in Stages : conv.stages[t].kind # "cubic" =>
                                    Gain(conv.stages[t])[2] * in[t + 1]
                                      <= Gain(conv.stages[t])[1] * in[t]
                              /\ samples_out <= in[Last]
    OBVIOUS
  <1>1. PICK in : Books(in)
    BY DEF AccountInv
  <1>2. samples_out <= in[Last]
    <2>1. Last \in Levels /\ samples_out \in Nat /\ Occupancy(Last) \in Nat
      BY Shape, OccupancyIsNat DEF RateInv, Queues, Calls, Sound, Occupancy
    <2> QED
      BY <1>1, <2>1 DEF Books
  <1>3. ASSUME NEW t \in Stages, conv.stages[t].kind # "cubic"
        PROVE  Gain(conv.stages[t])[2] * in[t + 1] <= Gain(conv.stages[t])[1] * in[t]
    <2> DEFINE g == Gain(conv.stages[t])[1]
               h == Gain(conv.stages[t])[2]
               r == RestAt(t)
               a == in[t]
    <2>1. g \in Nat /\ h \in Nat /\ r \in Int /\ t \in Levels
      BY RestIsInt
    <2>2. r > -1
      BY <1>3 DEF AccountInv, Kept_up, NotAhead
    <2>3. h * in[t + 1] = g * a - r /\ a \in Int
      BY <1>1, <2>1 DEF Books
    <2> HIDE DEF g, h, r, a
    <2>4. g * a \in Int
      BY <2>1, <2>3, SMT
    <2>5. h * in[t + 1] <= g * a
      BY <2>1, <2>2, <2>3, <2>4
    <2> QED
      BY <2>5 DEF g, h, a
  <1> QED
    BY <1>1, <1>2, <1>3

LEMMA CallInit ==
    ASSUME RateInv, AccountInv, depth = 0, odone = 0, olen = 0
    PROVE  CallInv
  <1>1. PICK in : /\ Books(in)
                  /\ \A t \in Stages : conv.stages[t].kind # "cubic" =>
                        Gain(conv.stages[t])[2] * in[t + 1] <= Gain(conv.stages[t])[1] * in[t]
                  /\ samples_out <= in[Last]
    BY CallOpens
  <1>2. in \in [Levels -> Int] /\ \A t \in Levels : in[t] <= in[t]
    BY <1>1 DEF Books
  <1>3. ~ (depth > 0) /\ ~ (odone < olen)
    OBVIOUS
  <1>4. CallOf(in, in)
    BY <1>1, <1>2, <1>3 DEF CallOf
  <1> QED
    BY <1>4 DEF CallInv

LEMMA CallStart ==
    ASSUME RateInv, AccountInv, NEW ilen0 \in Nat, NEW len \in Nat,
           soxr_process(ilen0, len)
    PROVE  CallInv'
  <1>1. RateInv' /\ AccountInv'
    BY ProcessKeeps, AccountProcess
  <1>2. PICK in : (/\ Books(in)
                   /\ \A t \in Stages : conv.stages[t].kind # "cubic" =>
                         Gain(conv.stages[t])[2] * in[t + 1]
                           <= Gain(conv.stages[t])[1] * in[t]
                   /\ samples_out <= in[Last])'
    <2>1. (\E in : /\ Books(in)
                   /\ \A t \in Stages : conv.stages[t].kind # "cubic" =>
                         Gain(conv.stages[t])[2] * in[t + 1]
                           <= Gain(conv.stages[t])[1] * in[t]
                   /\ samples_out <= in[Last])'
      BY <1>1, CallOpens, PTL
    <2> QED
      BY <2>1
  <1>3. (in \in [Levels -> Int] /\ \A t \in Levels : in[t] <= in[t])'
    BY <1>2 DEF Books
  <1>4. depth' = Last /\ done' = [d \in Levels |-> FALSE]
    BY DEF soxr_process
  <1>5. Last \in Levels /\ Last # 0
    BY Shape DEF RateInv
  <1>6. ~ done'[depth'] /\ depth' # 0
    BY <1>4, <1>5
  <1>7. CallOf(in, in)'
    BY <1>2, <1>3, <1>6 DEF CallOf
  <1> QED
    BY <1>7 DEF CallInv

LEMMA CallUnchanged ==
    ASSUME CallInv, UNCHANGED <<conv, rate>>
    PROVE  CallInv'
  <1>1. PICK in, since : CallOf(in, since)
    BY DEF CallInv
  <1>2. /\ Levels' = Levels /\ Stages' = Stages /\ Last' = Last /\ conv' = conv
        /\ \A t : Occupancy(t)' = Occupancy(t) /\ stage'[t] = stage[t]
        /\ depth' = depth /\ done' = done /\ odone' = odone /\ olen' = olen
        /\ samples_in' = samples_in /\ samples_out' = samples_out
    BY DEF Levels, Stages, Last, Occupancy, rate
  <1>3. \A t : RestAt(t)' = RestAt(t)
    BY <1>2 DEF RestAt
  <1>4. Books(in)'
    BY <1>1, <1>2, <1>3 DEF CallOf, Books
  <1>5. \A s \in Stages : Spent(s, in, since) <=> Spent(s, in, since)'
    BY <1>2 DEF Spent, Turned
  <1>6. CallOf(in, since)'
    BY <1>1, <1>2, <1>4, <1>5 DEF CallOf
  <1> QED
    BY <1>6 DEF CallInv

LEMMA CallPull ==
    ASSUME RateInv, CallInv, Pull
    PROVE  CallInv'
  <1>1. PICK in, since : CallOf(in, since)
    BY DEF CallInv
  <1>2. /\ Levels' = Levels /\ Stages' = Stages /\ Last' = Last /\ conv' = conv
        /\ \A t : Occupancy(t)' = Occupancy(t) /\ stage'[t] = stage[t]
        /\ samples_in' = samples_in /\ samples_out' = samples_out
    BY DEF Pull, Levels, Stages, Last, Occupancy
  <1>3. \A t : RestAt(t)' = RestAt(t)
    BY <1>2 DEF RestAt
  <1>4. Books(in)'
    BY <1>1, <1>2, <1>3 DEF CallOf, Books
  <1>5. depth \in Levels /\ depth > 0 /\ done \in [Levels -> BOOLEAN]
        /\ Levels = 1 .. Last /\ Stages = 1 .. Last - 1 /\ Last \in Nat
    BY Shape DEF RateInv, Calls, Pull
  <1>6. samples_out <= since[Last]
    BY <1>1, <1>5 DEF CallOf
  <1>7. depth' # 0 /\ (done'[depth'] => depth' = 1)
    <2>1. CASE depth = 1
      BY <2>1 DEF Pull
    <2>2. CASE depth # 1
      <3>1. done' = [done EXCEPT ![depth - 1] = FALSE] /\ depth' = depth - 1
        BY <2>2 DEF Pull
      <3>2. depth - 1 \in Levels /\ depth - 1 # 0
        BY <1>5, <2>2
      <3> QED
        BY <1>5, <3>1, <3>2
    <2> QED
      BY <2>1, <2>2
  <1>8. \A s \in Stages : ~ (s < 1)
    BY <1>5
  <1>9. CallOf(in, since)'
    BY <1>1, <1>2, <1>4, <1>6, <1>7, <1>8 DEF CallOf
  <1> QED
    BY <1>9 DEF CallInv

LEMMA CallStage ==
    ASSUME FiltersAreRegular, RateInv, AccountInv, CallInv, stage_process
    PROVE  CallInv'
  <1>1. PICK in, since : CallOf(in, since)
    BY DEF CallInv
  <1>2. PICK l \in Stages : l = depth
    BY DEF stage_process
  <1>3. /\ depth' = l + 1 /\ Work(l) /\ UNCHANGED <<conv, samples_in, samples_out>>
        /\ done' = [done EXCEPT ![l + 1] = done[l] /\ Exhausted(l)']
    BY <1>2 DEF stage_process, Exhausted, Occupancy
  <1>4. /\ l \in Levels /\ l + 1 \in Levels /\ l \in Nat \ {0}
        /\ Levels' = Levels /\ Stages' = Stages /\ Last' = Last /\ conv' = conv
        /\ Levels = 1 .. Last /\ Stages = 1 .. Last - 1 /\ Last \in Nat
        /\ Last \in Levels /\ done \in [Levels -> BOOLEAN]
    BY <1>3, Shape DEF RateInv, Calls, Levels, Stages, Last
  <1> DEFINE c == Convert(l)
             d == conv.stages[l]
  <1>5. PICK now : now = [in EXCEPT ![l + 1] = in[l + 1] + c.made]
    OBVIOUS
  <1>6. Books(in) /\ Books(now)'
    BY <1>1, <1>3, <1>5, BooksWork DEF CallOf
  <1>7. /\ in \in [Levels -> Int] /\ since \in [Levels -> Int]
        /\ \A t \in Levels : since[t] <= in[t]
    BY <1>1 DEF CallOf, Books
  <1>8. c.made \in Nat /\ c.used \in Nat
    BY StageStays DEF Stays
  <1> HIDE DEF c
  <1>9. /\ \A t \in Levels : t # l + 1 => now[t] = in[t]
        /\ now[l + 1] = in[l + 1] + c.made
    BY <1>4, <1>5, <1>7
  <1>10. \A t \in Levels : since[t] <= now[t]
    <2> SUFFICES ASSUME NEW t \in Levels
                 PROVE  since[t] <= now[t]
      OBVIOUS
    <2>1. since[t] \in Int /\ in[t] \in Int /\ since[t] <= in[t]
      BY <1>7
    <2>2. now[t] = in[t] \/ now[t] = in[t] + c.made
      BY <1>9
    <2> QED
      BY <1>8, <2>1, <2>2
  <1>11. /\ Occupancy(l)' = Occupancy(l) - c.used
         /\ \A t \in Levels : t # l /\ t # l + 1 => Occupancy(t)' = Occupancy(t)
         /\ stage'[l].at = c.at
         /\ \A t \in Stages : t # l => stage'[t] = stage[t]
    <2>1. Work(l) /\ UNCHANGED conv
      BY <1>3
    <2> QED
      <3>1. /\ Occupancy(l)' = Occupancy(l) - Convert(l).used
            /\ \A t \in Levels : t # l /\ t # l + 1 => Occupancy(t)' = Occupancy(t)
            /\ stage'[l] = [at |-> Convert(l).at, remM |-> Convert(l).remM,
                            input_size |-> InputSizeOf(conv.stages[l], Convert(l).at)]
            /\ \A t \in Stages : t # l => stage'[t] = stage[t]
        BY <2>1, WorkMoves
      <3> QED
        BY <3>1 DEF c
  <1>12. samples_out <= since[Last]
    BY <1>1, <1>2, <1>4 DEF CallOf
  <1>13. Spent(l, now, since)'
    <2>1. CASE d.kind = "dft"
      BY <1>4, <2>1 DEF Spent, Used_up
    <2>2. CASE Occupancy(l) <= stage[l].input_size
      <3>1. RemainderBelow(d, stage[l].remM)
        BY DEF AccountInv, Kept_up
      <3>2. Used_up(d, Occupancy(l) - c.used, c.at)
        BY <2>2, <3>1, StageCounts DEF c
      <3> QED
        BY <1>4, <1>11, <3>2 DEF Spent
    <2>3. CASE d.kind # "dft" /\ ~ (Occupancy(l) <= stage[l].input_size)
      <3> DEFINE g == Gain(d)[1]
                 h == Gain(d)[2]
                 x == (InputSize - pre_post(d)) * g
                 a == in[l + 1]
                 b == since[l + 1]
      <3>1. Kept_up(l)
        BY DEF AccountInv
      <3>2. c.made * h > x
        BY <2>3, <3>1, TurnMakes DEF c
      <3>3. a \in Int /\ b \in Int /\ b <= a /\ h \in Nat /\ g \in Nat
            /\ now[l + 1] = a + c.made
        BY <1>4, <1>7, <1>9, RestIsInt
      <3>4. x \in Int
        <4>1. Designed(d) /\ InputSize \in Nat
          BY RestIsInt, ConverterAssumption
        <4>2. pre_post(d) \in Int
          BY <2>3, <4>1, LooksBeyond
        <4> HIDE DEF g, d
        <4> QED
          BY <3>3, <4>1, <4>2
      <3> HIDE DEF g, h, x, a, b
      <3>5. (a + c.made - b) * h = (a - b) * h + c.made * h
            /\ (a - b) * h \in Nat /\ c.made * h \in Int
        BY <1>8, <3>3, SMT
      <3>6. (now[l + 1] - b) * h > x
        <4>1. now[l + 1] - b = a + c.made - b
          BY <1>8, <3>3
        <4>1a. (now[l + 1] - b) * h = (a + c.made - b) * h
          BY <4>1, Zenon
        <4> DEFINE m == c.made * h
                   e == (a - b) * h
        <4>2. m \in Int /\ e \in Nat /\ (now[l + 1] - b) * h = e + m /\ m > x
          BY <3>2, <3>5, <4>1a
        <4> HIDE DEF m, e
        <4> QED
          BY <3>4, <4>2
      <3> QED
        BY <1>4, <2>3, <3>6 DEF Spent, Turned, g, h, x, b
    <2> QED
      BY <2>1, <2>2, <2>3
  <1>14. ASSUME done'[l + 1], NEW s \in Stages, s < l + 1
         PROVE  Spent(s, now, since)'
    <2>1. CASE s = l
      BY <1>13, <2>1
    <2>2. CASE s # l
      <3>1. s < l /\ s \in Levels /\ s + 1 \in Levels /\ s # l + 1 /\ s + 1 # l + 1
        BY <1>4, <1>14, <2>2
      <3>2. done'[l + 1] = (done[l] /\ Exhausted(l)')
        BY <1>3, <1>4
      <3>3. done[l] /\ depth > 0
        BY <1>2, <1>4, <1>14, <3>2
      <3>4. Spent(s, in, since)
        BY <1>1, <1>2, <3>1, <3>3 DEF CallOf
      <3>5. Occupancy(s)' = Occupancy(s) /\ stage'[s] = stage[s]
            /\ now[s + 1] = in[s + 1]
        BY <1>9, <1>11, <2>2, <3>1
      <3> QED
        BY <1>4, <3>4, <3>5 DEF Spent, Turned
    <2> QED
      BY <2>1, <2>2
  <1>15. depth' # 0
    BY <1>3, <1>4
  <1>16. CallOf(now, since)'
    <2>1. (\A t \in Stages : conv.stages[t].kind # "cubic" =>
              Gain(conv.stages[t])[2] * since[t + 1] <= Gain(conv.stages[t])[1] * since[t])'
      BY <1>1, <1>4 DEF CallOf
    <2>2. (since \in [Levels -> Int] /\ \A t \in Levels : since[t] <= now[t])'
      BY <1>4, <1>7, <1>10
    <2>3. (samples_out <= since[Last])'
      BY <1>3, <1>4, <1>12
    <2>4. (depth > 0 /\ done[depth] =>
              \A s \in Stages : s < depth => Spent(s, now, since))'
      BY <1>3, <1>4, <1>14
    <2> QED
      BY <1>6, <1>15, <2>1, <2>2, <2>3, <2>4 DEF CallOf
  <1> QED
    BY <1>16 DEF CallInv

LEMMA CallOutput ==
    ASSUME RateInv, AccountInv, CallInv, soxr_output
    PROVE  CallInv'
  <1>1. PICK in, since : CallOf(in, since)
    BY DEF CallInv
  <1>2. /\ depth = Last /\ (done[Last] \/ want(Last) <= 0)
        /\ depth' = 0 /\ UNCHANGED <<conv, stage, done, olen, samples_in>>
        /\ Levels' = Levels /\ Stages' = Stages /\ Last' = Last
    BY DEF soxr_output, Levels, Stages, Last
  <1>3. /\ odone' = Smaller(olen, Occupancy(Last)) /\ odone' \in Nat
        /\ samples_out' = samples_out + odone' /\ samples_out \in Nat
        /\ Occupancy(Last) \in Nat /\ olen \in Nat
        /\ \A s \in Stages : Occupancy(s)' = Occupancy(s)
        /\ Books(in)'
    BY <1>1, AccountOutput DEF CallOf, RateInv, Calls
  <1>4. Last \in Nat \ {0} /\ Stages = 1 .. Last - 1
    BY Shape DEF RateInv, Stages, Last
  <1>5. samples_out <= since[Last]
    BY <1>1, <1>2, <1>4 DEF CallOf
  <1>6. ASSUME odone' = 0
        PROVE  samples_out' <= since[Last]
    BY <1>3, <1>5, <1>6
  <1>7. ASSUME odone' < olen', NEW s \in Stages
        PROVE  Spent(s, in, since)'
    <2>1. Occupancy(Last) < olen
      BY <1>2, <1>3, <1>7 DEF Smaller
    <2>2. done[Last]
      BY <1>2, <1>3, <2>1 DEF want
    <2>3. Spent(s, in, since)
      BY <1>1, <1>2, <1>4, <2>2 DEF CallOf
    <2> QED
      BY <1>2, <1>3, <2>3 DEF Spent, Turned
  <1>8. ~ (depth' > 0)
    BY <1>2
  <1>9. CallOf(in, since)'
    BY <1>1, <1>2, <1>3, <1>6, <1>7, <1>8 DEF CallOf
  <1> QED
    BY <1>9 DEF CallInv

\* A stage that has used up what it has, and not enough for another block, takes nothing.
LEMMA NothingToTake ==
    ASSUME RateInv, NEW s \in Stages, Kept_up(s), Exhausted(s),
           Used_up(conv.stages[s], Occupancy(s), stage[s].at)
    PROVE  Convert(s).used = 0
  <1> DEFINE d == conv.stages[s]
             o == Occupancy(s)
             at == stage[s].at
             n == Smaller(stage_occupancy(s), stage[s].input_size)
             p == pre_post(d)
             one == Phases(d)
  <1>1. CASE d.kind = "dft"
    <2>1. at + d.L * o < d.dft_length
      BY <1>1, PartOfBlock
    <2> QED
      BY <1>1, <2>1 DEF Convert, dft_stage_fn
  <1>2. CASE d.kind # "dft"
    <2>1. /\ Designed(d) /\ o \in Nat /\ at \in Nat /\ at < one /\ one \in Nat \ {0}
          /\ p \in Nat /\ stage[s].input_size \in Nat
      <3>1. Designed(d)
        BY RestIsInt
      <3>2. one \in Nat \ {0}
        BY <1>2, <3>1, OneIsPositive DEF Phases, Designed
      <3>3. p \in Nat
        BY <1>2, <3>1, LooksBeyond
      <3> QED
        BY <3>1, <3>2, <3>3, RestIsInt DEF RateInv, StagesSound
    <2>2. (o - p) * one <= at
      BY <1>2 DEF Used_up
    <2>3. n = 0
      <3>1. stage_occupancy(s) = Larger(0, o - p)
        BY DEF stage_occupancy
      <3> DEFINE size == stage[s].input_size
      <3>2. n = Smaller(Larger(0, o - p), size) /\ size \in Nat
        BY <2>1, <3>1
      <3> HIDE DEF n, o, p, one, at, size
      <3>3. (o - p) * one < 1 * one /\ o - p \in Int /\ 1 \in Int
        BY <2>1, <2>2
      <3>4. o - p < 1
        BY <2>1, <3>3, Cancel
      <3>5. Larger(0, o - p) = 0
        BY <2>1, <3>4 DEF Larger
      <3> QED
        BY <3>2, <3>5 DEF Smaller
    <2>4. CASE d.kind = "half"
      <3>1. (0 + 1) \div 2 = 0 /\ 2 * 0 = 0
        BY SMT
      <3>2. Convert(s).used = 2 * ((0 + 1) \div 2)
        BY <2>3, <2>4 DEF Convert, FUNCTION_H
      <3> QED
        BY <3>1, <3>2
    <2>5. CASE d.kind \in {"poly", "interp", "cubic"}
      <3>1. Convert(s).used = Walk(0, at, d.step, one).used
        BY <2>3, <2>5 DEF Convert, poly_fir0, poly_fir, cubic_stage_fn, Phases
      <3>2. d.step \in Nat \ {0}
        BY <2>1, <2>5, LooksAhead
      <3> QED
        BY <2>1, <3>1, <3>2, WalkOfNothing
    <2> QED
      BY <1>2, <2>1, <2>4, <2>5 DEF Designed
  <1> QED
    BY <1>1, <1>2

\* What a stage needs and gets gives the next one what it needs.
LEMMA NeedIsPassedOn ==
    ASSUME RateInv, NEW s \in Stages, s # 1, Kept_up(s), Exhausted(s),
           Used_up(conv.stages[s], Occupancy(s), stage[s].at),
           NEW need, NeedOf(conv.stages, need),
           NEW in, NEW since, CallOf(in, since), in[s] - since[s] >= need[s]
    PROVE  in[s + 1] - since[s + 1] >= need[s + 1]
  <1> DEFINE d == conv.stages[s]
             g == Gain(d)[1]
             h == Gain(d)[2]
             u == Unusable(d)
             r == RestAt(s)
             x == need[s]
             y == need[s + 1]
             a == in[s]
             b == in[s + 1]
             k == since[s]
             l == since[s + 1]
  <1>1. /\ Designed(d) /\ s \in Levels /\ s + 1 \in Levels /\ s \in 2 .. Len(conv.stages)
        /\ g \in Nat \ {0} /\ h \in Nat \ {0} /\ u \in Nat /\ r \in Int
        /\ Levels = 1 .. Len(conv.stages) + 1
    <2>1. Designed(d) /\ s \in Levels /\ s + 1 \in Levels /\ r \in Int
      BY RestIsInt
    <2> QED
      BY <2>1, GainIsPositive, UnusableIsNat, Shape DEF Positive, RateInv
  <1>2. x \in Nat /\ y \in Nat /\ (x - u) * g > (y - 1) * h
    BY <1>1 DEF NeedOf
  <1>3. /\ a \in Int /\ b \in Int /\ k \in Int /\ l \in Int
        /\ h * b = g * a - r /\ a - k >= x
    BY <1>1 DEF CallOf, Books
  <1>4. h * l <= g * k
    <2>1. d.kind # "cubic"
      BY <1>1, CubicAlone DEF RateInv
    <2> QED
      BY <1>1, <2>1 DEF CallOf
  <1>5. r <= u * g
    BY UnusableRest
  <1> HIDE DEF d, g, h, u, r, x, y, a, b, k, l
  <1>6. x * g <= (a - k) * g
    <2> DEFINE e == a - k
    <2>1. e \in Int /\ x \in Int /\ x <= e
      BY <1>2, <1>3
    <2> HIDE DEF e
    <2>2. x * g <= e * g
      BY <1>1, <2>1, Scale
    <2> QED
      BY <2>2 DEF e
  <1>7. /\ (a - k) * g = g * a - g * k /\ g * a \in Int /\ g * k \in Int
        /\ (x - u) * g = x * g - u * g /\ x * g \in Int /\ u * g \in Int
        /\ (b - l) * h = h * b - h * l /\ h * b \in Int /\ h * l \in Int
        /\ (y - 1) * h \in Int
    <2>1. a \in Int /\ b \in Int /\ k \in Int /\ l \in Int
      BY <1>3
    <2>2. (a - k) * g = g * a - g * k /\ g * a \in Int /\ g * k \in Int
      BY <1>1, <2>1, SMT
    <2>3. (x - u) * g = x * g - u * g /\ x * g \in Int /\ u * g \in Int
      BY <1>1, <1>2, SMT
    <2>4. (b - l) * h = h * b - h * l /\ h * b \in Int /\ h * l \in Int
      BY <1>1, <2>1, SMT
    <2>5. (y - 1) * h \in Int
      BY <1>1, <1>2, SMT
    <2> QED
      BY <2>2, <2>3, <2>4, <2>5
  <1>8. (y - 1) * h < (b - l) * h
    BY <1>1, <1>2, <1>3, <1>4, <1>5, <1>6, <1>7
  <1>9. y - 1 < b - l
    <2>1. y - 1 \in Int /\ b - l \in Int
      BY <1>2, <1>3
    <2> QED
      BY <1>1, <1>8, <2>1, Cancel
  <1>10. b - l >= y
    BY <1>2, <1>3, <1>9
  <1> QED
    BY <1>10 DEF y, b, l

\* When a whole call makes nothing, no stage has left what it could use: the last one
\* that had would have worked on a whole turn, and of that something comes out.
LEMMA AllAreUsedUp ==
    ASSUME TurnsAreFelt, RateInv, AccountInv, FirstUsedUp, Occupancy(Last) = 0,
           \A t \in Stages : Exhausted(t),
           NEW in, NEW since, CallOf(in, since), depth = 0, odone = 0, odone < olen
    PROVE  \A t \in Stages : Used_up(conv.stages[t], Occupancy(t), stage[t].at)
  <1> DEFINE Up(t) == Used_up(conv.stages[t], Occupancy(t), stage[t].at)
             N == Len(conv.stages)
  <1>1. /\ N \in Nat /\ Last = N + 1 /\ Levels = 1 .. N + 1 /\ Stages = 1 .. N
        /\ Last \in Levels
    BY Shape DEF RateInv
  <1> HIDE DEF N
  <1>2. /\ in \in [Levels -> Int] /\ since \in [Levels -> Int]
        /\ \A t \in Levels : since[t] <= in[t]
        /\ \A s \in Stages : Spent(s, in, since)
    BY DEF CallOf, Books
  <1>3. in[Last] - since[Last] <= 0
    <2>1. samples_out <= since[Last]
      BY DEF CallOf
    <2>2. in[Last] = samples_out + 0
      BY DEF CallOf, Books
    <2>3. samples_out \in Nat /\ since[Last] \in Int
      BY <1>1, <1>2 DEF RateInv, Calls
    <2> QED
      BY <2>1, <2>2, <2>3
  <1>4. SUFFICES ASSUME NEW v \in Stages, ~ Up(v)
                 PROVE  FALSE
    OBVIOUS
  <1>5. PICK s \in Stages : ~ Up(s) /\ \A t \in Stages : t > s => Up(t)
    <2> DEFINE S == {i \in Nat : i < N /\ ~ Up(N - i)}
    <2>1. S \subseteq Nat /\ N - v \in S
      BY <1>1, <1>4
    <2>2. PICK i \in S : \A j \in Nat : j < i => j \notin S
      <3> HIDE DEF S
      <3> QED
        BY <2>1, LeastOf
    <2>3. i \in Nat /\ i < N /\ ~ Up(N - i) /\ N - i \in Stages
      BY <1>1, <2>2
    <2>4. ASSUME NEW t \in Stages, t > N - i
          PROVE  Up(t)
      <3>1. N - t \in Nat /\ N - t < i /\ N - t < N /\ N - (N - t) = t
        BY <1>1, <2>3, <2>4
      <3>2. N - t \notin S
        BY <2>2, <3>1
      <3> QED
        BY <3>1, <3>2
    <2> HIDE DEF Up
    <2> QED
      BY <2>3, <2>4
  <1> DEFINE d == conv.stages[s]
             g == Gain(d)[1]
             h == Gain(d)[2]
             p == pre_post(d)
  <1>6. d.kind # "dft" /\ s # 1 /\ Turned(s, in, since)
    <2>1. d.kind # "dft"
      BY <1>5 DEF Used_up
    <2>2. s # 1
      BY <1>5 DEF FirstUsedUp
    <2>3. Spent(s, in, since)
      BY <1>2
    <2> QED
      BY <1>5, <2>1, <2>2, <2>3 DEF Spent
  <1>7. /\ Designed(d) /\ s \in Levels /\ s + 1 \in Levels /\ s \in 2 .. N
        /\ g \in Nat \ {0} /\ h \in Nat \ {0} /\ p \in Nat
        /\ InputSize \in Nat /\ p < InputSize
    <2>1. Designed(d) /\ s \in Levels /\ s + 1 \in Levels
      BY RestIsInt
    <2>2. g \in Nat \ {0} /\ h \in Nat \ {0} /\ p \in Nat
      BY <1>6, <2>1, GainIsPositive, LooksBeyond DEF Positive
    <2>3. InputSize \in Nat /\ p < InputSize
      BY <1>6, ConverterAssumption DEF RateInv, Stages
    <2>4. s \in 2 .. N
      BY <1>1, <1>6
    <2> QED
      BY <2>1, <2>2, <2>3, <2>4
  <1>8. (in[s + 1] - since[s + 1]) * h > (InputSize - p) * g
    BY <1>6 DEF Turned
  <1>9. PICK need : NeedOf(conv.stages, need)
    BY DEF TurnsAreFelt, RateInv
  <1>10. /\ need \in [1 .. N + 1 -> Nat] /\ need[N + 1] = 1
         /\ s < N => (InputSize - p) * g >= (need[s + 1] - 1) * h
    BY <1>6, <1>7, <1>9 DEF NeedOf, N
  <1>11. in[s + 1] - since[s + 1] >= need[s + 1]
    <2> DEFINE x == in[s + 1] - since[s + 1]
               y == need[s + 1]
               m == (InputSize - p) * g
    <2>1. x \in Int /\ y \in Nat /\ m \in Nat
      <3>1. x \in Int /\ y \in Nat
        <4>1. in[s + 1] \in Int /\ since[s + 1] \in Int /\ s + 1 \in 1 .. N + 1
          BY <1>1, <1>2, <1>7
        <4>2. need[s + 1] \in Nat
          BY <1>10, <4>1
        <4> QED
          BY <4>1, <4>2
      <3> HIDE DEF p, g
      <3>2. InputSize - p \in Nat
        BY <1>7
      <3> QED
        BY <1>7, <3>1, <3>2, SMT
    <2>2. m >= (y - 1) * h
      <3>1. CASE s < N
        BY <1>10, <3>1
      <3>2. CASE ~ (s < N)
        <4>1. y = 1
          BY <1>1, <1>7, <1>10, <3>2
        <4> HIDE DEF m, h, y
        <4>2. (y - 1) * h = 0
          BY <1>7, <4>1, SMT
        <4> QED
          BY <2>1, <4>2
      <3> QED
        BY <3>1, <3>2
    <2>3. m < x * h
      BY <1>8
    <2> HIDE DEF x, y, m, h
    <2>4. (y - 1) * h \in Int /\ x * h \in Int /\ y - 1 \in Int
      BY <1>7, <2>1, SMT
    <2>5. (y - 1) * h < x * h
      BY <2>1, <2>2, <2>3, <2>4
    <2>6. y - 1 < x
      BY <1>7, <2>1, <2>4, <2>5, Cancel
    <2>7. x >= y
      BY <2>1, <2>6
    <2> QED
      BY <2>7 DEF x, y
  <1> HIDE DEF d, g, h, p
  <1>12. in[Last] - since[Last] >= need[Last]
    <2> DEFINE Few(t) == ~ (in[t] - since[t] >= need[t])
               S == {t \in Nat : t > s /\ t <= N + 1 /\ Few(t)}
    <2>1. SUFFICES ASSUME Last \in S
                   PROVE  FALSE
      BY <1>1, <1>7
    <2>2. S \subseteq Nat /\ S # {}
      BY <2>1
    <2>3. PICK t \in S : \A j \in Nat : j < t => j \notin S
      <3> HIDE DEF S
      <3> QED
        BY <2>2, LeastOf
    <2>4. /\ t \in Nat /\ t > s + 1 /\ t <= N + 1 /\ Few(t)
      <3>1. t \in Nat /\ t > s /\ t <= N + 1 /\ Few(t)
        BY <2>3
      <3>2. t # s + 1
        BY <1>11, <3>1
      <3> HIDE DEF Few
      <3> QED
        BY <1>7, <3>1, <3>2
    <2>5. PICK e \in Nat : t = e + 1 /\ e > s /\ e <= N
      <3>1. t - 1 \in Nat /\ t = (t - 1) + 1 /\ t - 1 > s /\ t - 1 <= N
        BY <1>1, <1>7, <2>4
      <3> QED
        BY <3>1
    <2>6. e \in Stages /\ e # 1 /\ e < t /\ e <= N + 1
      BY <1>1, <1>7, <2>5
    <2>7. in[e] - since[e] >= need[e]
      BY <2>3, <2>5, <2>6
    <2>8. Used_up(conv.stages[e], Occupancy(e), stage[e].at) /\ Kept_up(e) /\ Exhausted(e)
      BY <1>5, <2>5, <2>6 DEF AccountInv
    <2>9. in[e + 1] - since[e + 1] >= need[e + 1]
      BY <1>9, <2>6, <2>7, <2>8, NeedIsPassedOn
    <2> QED
      BY <2>4, <2>5, <2>9
  <1>13. need[Last] = 1
    BY <1>1, <1>10
  <1> QED
    <2>1. in[Last] \in Int /\ since[Last] \in Int
      BY <1>1, <1>2
    <2> QED
      BY <1>3, <1>12, <1>13, <2>1

LEMMA NothingIsLeft ==
    ASSUME TurnsAreFelt, RateInv, TurnInv, AccountInv, FirstInv, CallInv,
           depth = 0, olen > 0, odone = 0
    PROVE  \A s \in Stages : Convert(s).used = 0
  <1>1. odone < olen /\ (\A s \in Stages : Exhausted(s))
        /\ FirstUsedUp /\ Occupancy(Last) = 0
    BY DEF TurnInv, FirstInv, RateInv, Calls
  <1>2. PICK in, since : CallOf(in, since)
    BY DEF CallInv
  <1>3. \A s \in Stages : Used_up(conv.stages[s], Occupancy(s), stage[s].at)
    BY <1>1, <1>2, AllAreUsedUp
  <1>4. \A s \in Stages : Kept_up(s)
    BY DEF AccountInv
  <1> QED
    BY <1>1, <1>3, <1>4, NothingToTake

HeldInv == TurnInv /\ AccountInv /\ FirstInv /\ CallInv

\* What read_resampled_data takes for the end is the end: when a call of soxr_process
\* takes nothing and makes nothing, no stage holds anything that it could convert,
\* whatever the stages are that _soxr_init plans, however often they turned and
\* however much of the source came at a time.
THEOREM NothingIsHeldBack ==
    ASSUME FiltersAreRegular, TurnsAreFelt
    PROVE  Spec => []NothingHeldBack
  <1>1. Init => HeldInv
    <2> SUFFICES ASSUME Init
                 PROVE  HeldInv
      OBVIOUS
    <2>1. InitRate /\ RateInv
      BY RateInit DEF Init
    <2>2. depth = 0 /\ odone = 0 /\ olen = 0
      BY <2>1 DEF InitRate
    <2>3. TurnInv /\ FirstInv
      BY <2>2 DEF TurnInv, FirstInv
    <2>4. AccountInv
      BY <2>1, AccountInit
    <2>5. CallInv
      BY <2>1, <2>2, <2>4, CallInit
    <2> QED
      BY <2>3, <2>4, <2>5 DEF HeldInv
  <1>2. SizeInv /\ HeldInv /\ [Next]_vars => HeldInv'
    <2> SUFFICES ASSUME SizeInv, HeldInv, [Next]_vars
                 PROVE  HeldInv'
      OBVIOUS
    <2>1. RateInv /\ conv \in Converters /\ TurnInv /\ AccountInv /\ FirstInv /\ CallInv
      BY DEF SizeInv, RateInv, HeldInv
    <2>2. CASE Process
      <3>1. soxr_process(input, resampler_capacity)
            /\ input \in Nat /\ resampler_capacity \in Nat
        BY <2>1, <2>2, CapacitiesAreNat DEF Process, SizeInv, ClientInv
      <3>2. TurnInv' /\ FirstInv'
        BY <2>1, <3>1, TurnStart, FirstStart
      <3>3. AccountInv' /\ CallInv'
        BY <2>1, <3>1, AccountProcess, CallStart
      <3> QED
        BY <3>2, <3>3 DEF HeldInv
    <2>3. CASE Pull
      <3>1. AccountInv'
        BY <2>1, <2>3, AccountUnchanged DEF Pull
      <3> QED
        BY <2>1, <2>3, <3>1, TurnPull, FirstPull, CallPull DEF HeldInv
    <2>4. CASE stage_process
      <3>1. depth \in Stages /\ Work(depth) /\ UNCHANGED <<conv, samples_in, samples_out>>
        BY <2>4 DEF stage_process
      <3>2. AccountInv'
        BY <2>1, <3>1, AccountWork
      <3> QED
        BY <2>1, <2>4, <3>2, TurnStage, FirstStage, CallStage DEF HeldInv
    <2>5. CASE soxr_output
      BY <2>1, <2>5, TurnOutput, AccountOutput, FirstOutput, CallOutput DEF HeldInv
    <2>6. ASSUME UNCHANGED <<conv, rate>>
          PROVE  HeldInv'
      <3>1. AccountInv'
        BY <2>1, <2>6, AccountUnchanged DEF rate
      <3> QED
        BY <2>1, <2>6, <3>1, TurnUnchanged, FirstUnchanged, CallUnchanged DEF HeldInv
    <2>7. CASE \/ read_input_data \/ read_resampled_data \/ read_playback_data
               \/ resampler_proc \/ UNCHANGED vars
      BY <2>6, <2>7 DEF read_input_data, read_resampled_data, read_playback_data,
                        resampler_proc, vars
    <2>8. CASE Convert_on
      BY <2>3, <2>4, <2>5, <2>8 DEF Convert_on, Converting
    <2> QED
      BY <2>2, <2>7, <2>8 DEF Next, resampler_populate
  <1>3. SizeInv /\ HeldInv => NothingHeldBack
    <2> SUFFICES ASSUME SizeInv, HeldInv
                 PROVE  NothingHeldBack
      OBVIOUS
    <2>1. RateInv /\ TurnInv /\ AccountInv /\ FirstInv /\ CallInv
      BY DEF SizeInv, HeldInv
    <2>2. LessThanATurnLeft
      BY <2>1 DEF TurnInv, LessThanATurnLeft, Exhausted
    <2>3. ASSUME depth = 0, olen > 0, odone = 0
          PROVE  \A s \in Stages : Convert(s).used = 0
      BY <2>1, <2>3, NothingIsLeft
    <2> QED
      BY <2>2, <2>3 DEF NothingHeldBack
  <1> QED
    BY <1>1, <1>2, <1>3, SizesInvariant, PTL DEF Spec
=============================================================================
