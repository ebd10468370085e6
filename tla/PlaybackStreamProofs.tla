------------------------ MODULE PlaybackStreamProofs ------------------------
(***************************************************************************)
(* The abstract stream keeps every frame once and in order, for every      *)
(* number of frames.  ResamplerStreamProofs uses it for the resampler,     *)
(* which implements the stream.                                            *)
(***************************************************************************)
EXTENDS PlaybackStream, SequenceTheorems, TLAPS

StreamTypes ==
    /\ Frames \in Nat
    /\ position \in 0 .. Frames
    /\ queue \in Seq(1 .. Frames)
    /\ played \in Seq(1 .. Frames)
    /\ dropped \subseteq 1 .. Frames

StreamInv == StreamTypes /\ EachFrameOnce

\* Where a sequence is split into two does not matter.
LEMMA Reassociate ==
    ASSUME NEW S, NEW s \in Seq(S), NEW t \in Seq(S), NEW u \in Seq(S)
    PROVE  (s \o t) \o u = s \o (t \o u)
<1>1. /\ s \o t \in Seq(S) /\ Len(s \o t) = Len(s) + Len(t)
      /\ t \o u \in Seq(S) /\ Len(t \o u) = Len(t) + Len(u)
  BY ConcatProperties
<1>2. /\ Len(s) \in Nat /\ Len(t) \in Nat /\ Len(u) \in Nat
  BY LenProperties
<1>3. /\ (s \o t) \o u \in Seq(S) /\ s \o (t \o u) \in Seq(S)
      /\ Len((s \o t) \o u) = Len(s) + Len(t) + Len(u)
      /\ Len(s \o (t \o u)) = Len(s) + (Len(t) + Len(u))
  BY <1>1, ConcatProperties
<1>4. ASSUME NEW i \in 1 .. Len(s) + Len(t) + Len(u)
      PROVE  ((s \o t) \o u)[i] = (s \o (t \o u))[i]
  <2>1. CASE i <= Len(s)
    <3>1. ((s \o t) \o u)[i] = (s \o t)[i]
      BY <1>1, <1>2, <2>1, ConcatProperties
    <3>2. QED
      BY <1>1, <1>2, <2>1, <3>1, ConcatProperties
  <2>2. CASE i > Len(s)
    BY <1>1, <1>2, <2>2, ConcatProperties
  <2>3. QED
    BY <1>2, <2>1, <2>2
<1>5. QED
  BY <1>2, <1>3, <1>4, SeqEqual

\* The frames that are about to be read are a sequence of frames.
LEMMA NewFrames ==
    ASSUME StreamTypes, NEW n \in 1 .. Frames - position
    PROVE  LET new == [i \in 1 .. n |-> position + i]
           IN  /\ new \in Seq(1 .. Frames)
               /\ Len(new) = n
               /\ \A i \in 1 .. n : new[i] = position + i
               /\ Range(new) = position + 1 .. position + n
<1> DEFINE new == [i \in 1 .. n |-> position + i]
<1>1. n \in Nat /\ position \in Nat /\ position + n <= Frames
  BY DEF StreamTypes
<1>2. \A i \in 1 .. n : position + i \in 1 .. Frames
  BY <1>1 DEF StreamTypes
<1>3. new \in Seq(1 .. Frames) /\ Len(new) = n
  BY <1>1, <1>2
<1>4. Range(new) = position + 1 .. position + n
  <2>1. \A x \in Range(new) : x \in position + 1 .. position + n
    BY <1>1 DEF Range
  <2>2. ASSUME NEW x \in position + 1 .. position + n
        PROVE  x \in Range(new)
    <3>1. x - position \in 1 .. n /\ new[x - position] = x
      BY <1>1
    <3>2. QED
      BY <3>1 DEF Range
  <2>3. QED
    BY <2>1, <2>2
<1>5. QED
  BY <1>3, <1>4

\* Taking n frames from the front of the queue leaves played \o queue as it is.
LEMMA PlayMovesFrames ==
    ASSUME StreamTypes, NEW n \in 0 .. Len(queue)
    PROVE  /\ SubSeq(queue, 1, n) \in Seq(1 .. Frames)
           /\ SubSeq(queue, n + 1, Len(queue)) \in Seq(1 .. Frames)
           /\ (played \o SubSeq(queue, 1, n)) \o SubSeq(queue, n + 1, Len(queue))
                  = played \o queue
<1> DEFINE front == SubSeq(queue, 1, n)
           rest == SubSeq(queue, n + 1, Len(queue))
<1>1. queue \in Seq(1 .. Frames) /\ played \in Seq(1 .. Frames)
  BY DEF StreamTypes
<1>2. Len(queue) \in Nat /\ n \in Nat /\ n <= Len(queue)
  BY <1>1, LenProperties
<1>3. \A i \in 1 .. Len(queue) : queue[i] \in 1 .. Frames
  BY <1>1, ElementOfSeq
<1>4. front \in Seq(1 .. Frames)
  BY <1>2, <1>3, SubSeqProperties
<1>5. rest \in Seq(1 .. Frames)
  BY <1>2, <1>3, SubSeqProperties
<1>6. front \o rest = queue
  <2>1. front \o rest = SubSeq(queue, 1, Len(queue))
    <3>1. /\ 1 \in 1 .. Len(queue) + 1
          /\ n \in 1 - 1 .. Len(queue)
          /\ Len(queue) \in n .. Len(queue)
      BY <1>2
    <3>2. QED
      BY <1>1, <3>1, ConcatAdjacentSubSeq
  <2>2. QED
    BY <1>1, <2>1, SubSeqFull
<1> HIDE DEF front, rest
<1>7. (played \o front) \o rest = played \o (front \o rest)
  BY <1>1, <1>4, <1>5, Reassociate
<1>8. QED
  BY <1>4, <1>5, <1>6, <1>7 DEF front, rest

\* EachFrameOnce in the words of the library.
LEMMA EachFrameOnceByRange ==
    EachFrameOnce <=>
        /\ \A i, j \in DOMAIN (played \o queue) :
              i < j => (played \o queue)[i] < (played \o queue)[j]
        /\ Range(played \o queue) \intersect dropped = {}
        /\ Range(played \o queue) \union dropped = 1 .. position
BY DEF EachFrameOnce, Range

\* Frames that are read come after all others.
LEMMA ReadKeepsOnce ==
    ASSUME StreamInv, Read
    PROVE  StreamInv'
<1> DEFINE all == played \o queue
<1>1. PICK n \in 1 .. Frames - position :
          /\ position' = position + n
          /\ queue' = queue \o [i \in 1 .. n |-> position + i]
          /\ UNCHANGED <<played, dropped>>
  BY DEF Read
<1> DEFINE new == [i \in 1 .. n |-> position + i]
<1>2. StreamTypes
  BY DEF StreamInv
<1>3. /\ new \in Seq(1 .. Frames) /\ Len(new) = n
      /\ \A i \in 1 .. n : new[i] = position + i
      /\ Range(new) = position + 1 .. position + n
  BY <1>2, NewFrames
<1> HIDE DEF new
<1>4. /\ n \in Nat /\ n >= 1 /\ position \in Nat /\ Frames \in Nat
      /\ position + n <= Frames
  BY <1>2 DEF StreamTypes
<1>5. queue \in Seq(1 .. Frames) /\ played \in Seq(1 .. Frames)
  BY <1>2 DEF StreamTypes
<1>6. queue' = queue \o new
  BY <1>1 DEF new
<1>7. StreamTypes'
  <2>1. queue' \in Seq(1 .. Frames)
    BY <1>3, <1>5, <1>6, ConcatProperties
  <2>2. position' \in 0 .. Frames
    BY <1>1, <1>4
  <2>3. QED
    BY <1>1, <1>2, <2>1, <2>2 DEF StreamTypes
<1>8. all \in Seq(1 .. Frames) /\ Len(all) \in Nat /\ DOMAIN all = 1 .. Len(all)
  BY <1>5, ConcatProperties, LenProperties
<1>9. all' = all \o new
  <2>1. all' = played \o (queue \o new)
    BY <1>1, <1>6
  <2>2. (played \o queue) \o new = played \o (queue \o new)
    BY <1>3, <1>5, Reassociate
  <2>3. QED
    BY <2>1, <2>2
<1>10. /\ \A i, j \in DOMAIN all : i < j => all[i] < all[j]
       /\ Range(all) \intersect dropped = {}
       /\ Range(all) \union dropped = 1 .. position
  BY EachFrameOnceByRange DEF StreamInv
<1>11. \A i \in DOMAIN all : all[i] \in 1 .. position
  BY <1>10 DEF Range
<1> HIDE DEF all
<1>12. /\ all' \in Seq(1 .. Frames) /\ Len(all') = Len(all) + n
       /\ DOMAIN all' = 1 .. Len(all) + n
       /\ \A i \in 1 .. Len(all) + n :
             all'[i] = IF i <= Len(all) THEN all[i] ELSE new[i - Len(all)]
  <2>1. all \o new \in Seq(1 .. Frames) /\ Len(all \o new) = Len(all) + n
    BY <1>3, <1>8, ConcatProperties
  <2>2. \A i \in 1 .. Len(all) + n :
           (all \o new)[i] = IF i <= Len(all) THEN all[i] ELSE new[i - Len(all)]
    BY <1>3, <1>8, ConcatProperties
  <2>3. DOMAIN (all \o new) = 1 .. Len(all) + n
    BY <2>1, LenProperties
  <2>4. QED
    BY <1>9, <2>1, <2>2, <2>3
<1>13. ASSUME NEW i \in DOMAIN all', NEW j \in DOMAIN all', i < j
       PROVE  all'[i] < all'[j]
  <2>1. i \in 1 .. Len(all) + n /\ j \in 1 .. Len(all) + n
    BY <1>12
  <2>2. CASE j <= Len(all)
    <3>1. i \in DOMAIN all /\ j \in DOMAIN all
      BY <1>8, <1>13, <2>1, <2>2
    <3>2. all'[i] = all[i] /\ all'[j] = all[j]
      BY <1>8, <1>12, <2>1, <3>1
    <3>3. QED
      BY <1>10, <1>13, <3>1, <3>2
  <2>3. CASE ~ (j <= Len(all))
    <3>1. j - Len(all) \in 1 .. n
      BY <1>4, <1>8, <2>1, <2>3
    <3>2. all'[j] = position + (j - Len(all))
      BY <1>3, <1>12, <2>1, <2>3, <3>1
    <3>3. CASE i <= Len(all)
      <4>1. i \in DOMAIN all
        BY <1>8, <2>1, <3>3
      <4>2. all'[i] = all[i] /\ all[i] \in 1 .. position
        BY <1>11, <1>12, <2>1, <3>3, <4>1
      <4>3. QED
        BY <1>4, <3>1, <3>2, <4>2
    <3>4. CASE ~ (i <= Len(all))
      <4>1. i - Len(all) \in 1 .. n
        BY <1>4, <1>8, <2>1, <3>4
      <4>2. all'[i] = position + (i - Len(all))
        BY <1>3, <1>12, <2>1, <3>4, <4>1
      <4>3. QED
        BY <1>4, <1>8, <1>13, <2>1, <3>2, <4>2
    <3>5. QED
      BY <3>3, <3>4
  <2>4. QED
    BY <2>2, <2>3
<1>14. Range(all') = Range(all) \union (position + 1 .. position + n)
  <2>1. Range(all \o new) = Range(all) \union Range(new)
    BY <1>3, <1>8, RangeConcatenation, Zenon
  <2>2. QED
    BY <1>3, <1>9, <2>1
<1>15. Range(all') \intersect dropped' = {}
  <2>1. \A x \in dropped : x \in 1 .. position
    BY <1>10
  <2>2. QED
    BY <1>1, <1>4, <1>10, <1>14, <2>1
<1>16. Range(all') \union dropped' = 1 .. position'
  BY <1>1, <1>4, <1>10, <1>14
<1>17. EachFrameOnce'
  BY <1>13, <1>15, <1>16, EachFrameOnceByRange DEF all, EachFrameOnce, Range
<1>18. QED
  BY <1>7, <1>17 DEF StreamInv

\* Frames that are played stay where they are in played \o queue.
LEMMA PlayKeepsOnce ==
    ASSUME StreamInv, Play
    PROVE  StreamInv'
<1>1. PICK n \in 1 .. Len(queue) :
          /\ played' = played \o SubSeq(queue, 1, n)
          /\ queue' = SubSeq(queue, n + 1, Len(queue))
          /\ UNCHANGED <<position, dropped>>
  BY DEF Play
<1>2. StreamTypes
  BY DEF StreamInv
<1>3. n \in 0 .. Len(queue)
  BY <1>2, LenProperties DEF StreamTypes
<1>4. /\ SubSeq(queue, 1, n) \in Seq(1 .. Frames)
      /\ queue' \in Seq(1 .. Frames)
      /\ played' \o queue' = played \o queue
  BY <1>1, <1>2, <1>3, PlayMovesFrames
<1>5. played' \in Seq(1 .. Frames)
  BY <1>1, <1>2, <1>4, ConcatProperties DEF StreamTypes
<1>6. StreamTypes'
  BY <1>1, <1>2, <1>4, <1>5 DEF StreamTypes
<1>7. EachFrameOnce'
  BY <1>1, <1>4 DEF StreamInv, EachFrameOnce
<1>8. QED
  BY <1>6, <1>7 DEF StreamInv

\* Frames that are given up come after all that were played.
LEMMA GiveUpKeepsOnce ==
    ASSUME StreamInv, GiveUp
    PROVE  StreamInv'
<1> DEFINE all == played \o queue
<1>1. StreamTypes /\ EachFrameOnce
  BY DEF StreamInv
<1>2. queue \in Seq(1 .. Frames) /\ played \in Seq(1 .. Frames)
  BY <1>1 DEF StreamTypes
<1>3. /\ queue' = <<>> /\ dropped' = dropped \union Range(queue)
      /\ UNCHANGED <<position, played>>
  BY DEF GiveUp, Range
<1>4. /\ all \in Seq(1 .. Frames)
      /\ Len(all) = Len(played) + Len(queue)
      /\ \A i \in 1 .. Len(played) + Len(queue) : all[i] =
            IF i <= Len(played) THEN played[i] ELSE queue[i - Len(played)]
      /\ Len(played) \in Nat /\ Len(queue) \in Nat
      /\ DOMAIN all = 1 .. Len(played) + Len(queue)
      /\ DOMAIN played = 1 .. Len(played) /\ DOMAIN queue = 1 .. Len(queue)
  BY <1>2, ConcatProperties, LenProperties
<1>5. /\ \A i, j \in DOMAIN all : i < j => all[i] < all[j]
      /\ Range(all) \intersect dropped = {}
      /\ Range(all) \union dropped = 1 .. position
  BY <1>1, EachFrameOnceByRange
<1>6. Range(all) = Range(played) \union Range(queue)
  BY <1>2, RangeConcatenation
<1>7. (played \o queue)' = played
  BY <1>2, <1>3, ConcatEmptySeq
<1> HIDE DEF all
<1>8. \A i \in DOMAIN played : i \in DOMAIN all /\ all[i] = played[i]
  BY <1>4
<1>9. \A i, j \in DOMAIN played : i < j => played[i] < played[j]
  BY <1>5, <1>8
<1>10. ASSUME NEW x \in Range(played), x \in Range(queue)
       PROVE  FALSE
  <2>1. PICK i \in DOMAIN played : x = played[i]
    BY DEF Range
  <2>2. PICK j \in DOMAIN queue : x = queue[j]
    BY <1>10 DEF Range
  <2>3. /\ i \in 1 .. Len(played) /\ j \in 1 .. Len(queue)
        /\ Len(played) + j \in DOMAIN all /\ i < Len(played) + j
        /\ ~ (Len(played) + j <= Len(played)) /\ (Len(played) + j) - Len(played) = j
    BY <1>4
  <2>4. all[i] = x /\ all[Len(played) + j] = x
    BY <1>4, <1>8, <2>1, <2>2, <2>3
  <2>5. x \in 1 .. Frames
    BY <1>2, <2>1, <2>3, ElementOfSeq
  <2>6. QED
    BY <1>5, <1>8, <2>3, <2>4, <2>5
<1>11. /\ Range(played) \intersect dropped' = {}
       /\ Range(played) \union dropped' = 1 .. position'
  BY <1>3, <1>5, <1>6, <1>10
<1>12. StreamTypes'
  <2>1. Range(queue) \subseteq 1 .. Frames
    BY <1>2, RangeOfSeq
  <2>2. QED
    BY <1>1, <1>3, <2>1, EmptySeq DEF StreamTypes
<1>13. EachFrameOnce'
  BY <1>7, <1>9, <1>11 DEF EachFrameOnce, Range
<1>14. QED
  BY <1>12, <1>13 DEF StreamInv

\* A step of the stream keeps every frame once and in order.
LEMMA StreamInductive ==
    ASSUME Frames \in Nat
    PROVE  /\ Init => StreamInv
           /\ StreamInv /\ [Next]_vars => StreamInv'
<1>1. Init => StreamInv
  <2> SUFFICES ASSUME Init
               PROVE  StreamInv
    OBVIOUS
  <2>1. StreamTypes
    BY EmptySeq DEF Init, StreamTypes
  <2>2. played \o queue = <<>>
    BY ConcatEmptySeq, EmptySeq DEF Init
  <2>3. DOMAIN (played \o queue) = {}
    BY <2>2
  <2>4. EachFrameOnce
    BY <2>3 DEF Init, EachFrameOnce
  <2>5. QED
    BY <2>1, <2>4 DEF StreamInv
<1>2. StreamInv /\ UNCHANGED vars => StreamInv'
  BY DEF StreamInv, StreamTypes, EachFrameOnce, vars
<1>3. QED
  BY <1>1, <1>2, ReadKeepsOnce, PlayKeepsOnce, GiveUpKeepsOnce DEF Next

\* Whoever implements the stream plays no frame twice or out of order, and every
\* frame that was read is played, waits, or was given up.
THEOREM StreamKeepsFrames ==
    ASSUME Frames \in Nat
    PROVE  Spec => []EachFrameOnce
<1>1. StreamInv => EachFrameOnce
  BY DEF StreamInv
<1>2. QED
  BY <1>1, StreamInductive, PTL DEF Spec
=============================================================================
