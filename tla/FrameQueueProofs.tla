---------------------------- MODULE FrameQueueProofs ----------------------------
(***************************************************************************)
(* Proofs, for every number of timestamps, limits, drift and any number of *)
(* pictures and streams, of the safety properties of FrameQueue.  The      *)
(* generations that wait are consecutive and end with the newest one, and  *)
(* between two streams nothing is left; no picture that waits falls so far *)
(* behind the clock that its timestamp would be taken for a later one.     *)
(***************************************************************************)
EXTENDS FrameQueue, TLAPS

(* The deques are emptied at the front only, so the generations that wait  *)
(* are the newest ones, without a gap.                                     *)
Consecutive ==
  /\ Len(queue) = Len(generations)
  /\ \A i \in 1..Len(queue) : generations[i] = nextGen - Len(queue) + i
  /\ bufferGen + Len(queue) <= nextGen

Identified ==
  /\ \A i \in 1..Len(queue) : queue[i].id = nextGen - Len(queue) + i
  /\ buffer.id = bufferGen
  /\ streaming => screen.id = rendered

(* What a stream leaves behind.                                            *)
NothingLeft ==
  ~streaming => /\ queue = <<>> /\ generations = <<>> /\ nextGen = 0
                /\ buffer = None /\ bufferGen = 0
                /\ overflowDrops = 0 /\ timingDrops = 0

Shown == streaming => rendered <= bufferGen /\ lastGen = bufferGen

IInv ==
  /\ TypeOK
  /\ Consecutive
  /\ Identified
  /\ NothingLeft
  /\ Shown
  /\ PicturesAccounted

-----------------------------------------------------------------------------
(* Sequences and numbers                                                    *)

(* What is left of a sequence when its first k elements are taken.         *)
LEMMA TakeFrontSeq ==
  ASSUME NEW S, NEW s \in Seq(S), NEW k \in 0..Len(s)
  PROVE  /\ SubSeq(s, k + 1, Len(s)) \in Seq(S)
         /\ Len(SubSeq(s, k + 1, Len(s))) = Len(s) - k
         /\ \A i \in 1..(Len(s) - k) : SubSeq(s, k + 1, Len(s))[i] = s[k + i]
OBVIOUS

(* What pushing onto a sequence and dropping its oldest element yields.    *)
LEMMA PushSeq ==
  ASSUME NEW S, NEW s \in Seq(S), NEW e \in S
  PROVE  /\ Append(s, e) \in Seq(S)
         /\ Len(Append(s, e)) = Len(s) + 1
         /\ \A i \in 1..Len(s) : Append(s, e)[i] = s[i]
         /\ Append(s, e)[Len(s) + 1] = e
         /\ Tail(Append(s, e)) \in Seq(S)
         /\ Len(Tail(Append(s, e))) = Len(s)
         /\ \A i \in 1..Len(s) : Tail(Append(s, e))[i] = Append(s, e)[i + 1]
OBVIOUS

(* The same for numbers.                                                   *)
LEMMA PushNatSeq ==
  ASSUME NEW s \in Seq(Nat), NEW e \in Nat
  PROVE  /\ Append(s, e) \in Seq(Nat)
         /\ Len(Append(s, e)) = Len(s) + 1
         /\ \A i \in 1..Len(s) : Append(s, e)[i] = s[i]
         /\ Append(s, e)[Len(s) + 1] = e
         /\ Tail(Append(s, e)) \in Seq(Nat)
         /\ Len(Tail(Append(s, e))) = Len(s)
         /\ \A i \in 1..Len(s) : Tail(Append(s, e))[i] = Append(s, e)[i + 1]
OBVIOUS

(* A timestamp is a number.                                                *)
LEMMA TimestampIsNat == \A at \in Nat : at % Modulus \in Nat
BY ConstantsAssumption

(* A picture is none only by its identity.                                 *)
LEMMA NoneIsPicture == None \in Picture /\ None.id = 0
BY DEF None, Picture, NoTime

-----------------------------------------------------------------------------
(* What the steps change                                                    *)

(* What a push does to the two deques: one picture more, or the oldest one  *)
(* for the newest.                                                          *)
LEMMA PushEffect ==
  ASSUME IInv, NEW at \in Start..MaxTime, NEW hasPts \in BOOLEAN,
         Push(at, hasPts)
  PROVE  \E k \in Nat :
           /\ k <= limit
           /\ queue' \in Seq(Picture) /\ Len(queue') = k
           /\ generations' \in Seq(Nat) /\ Len(generations') = k
           /\ \A i \in 1..k : queue'[i].id = nextGen + 1 - k + i
           /\ \A i \in 1..k : generations'[i] = nextGen + 1 - k + i
           /\ \/ k = Len(queue) + 1 /\ overflowDrops' = overflowDrops
              \/ k = Len(queue) /\ overflowDrops' = overflowDrops + 1
<1> DEFINE picture  == [id |-> nextGen + 1, at |-> at,
                        pts |-> IF hasPts THEN at % Modulus ELSE NoTime]
           pictures == Append(queue, picture)
           gens     == Append(generations, nextGen + 1)
           m        == Len(queue)
<1>1. /\ queue \in Seq(Picture) /\ generations \in Seq(Nat) /\ Len(queue) <= limit
      /\ nextGen \in Nat /\ limit \in Nat /\ m \in Nat
  BY ConstantsAssumption DEF IInv, TypeOK
<1>2. /\ Len(generations) = m
      /\ \A i \in 1..m : generations[i] = nextGen - m + i
      /\ \A i \in 1..m : queue[i].id = nextGen - m + i
  BY DEF IInv, Consecutive, Identified
<1>3. IF OverLimit(pictures)
      THEN queue' = Tail(pictures) /\ generations' = Tail(gens)
           /\ overflowDrops' = overflowDrops + 1
      ELSE queue' = pictures /\ generations' = gens /\ overflowDrops' = overflowDrops
  BY DEF Push, DropOldest
<1>4. picture \in Picture /\ picture.id = nextGen + 1 /\ nextGen + 1 \in Nat
  BY <1>1, ConstantsAssumption, TimestampIsNat DEF Picture
<1> HIDE DEF picture
<1>5. /\ pictures \in Seq(Picture) /\ Len(pictures) = m + 1
      /\ Tail(pictures) \in Seq(Picture) /\ Len(Tail(pictures)) = m
      /\ \A i \in 1..m : pictures[i] = queue[i]
      /\ pictures[m + 1] = picture
      /\ \A i \in 1..m : Tail(pictures)[i] = pictures[i + 1]
  BY <1>1, <1>4, PushSeq
<1>6. /\ gens \in Seq(Nat) /\ Len(gens) = m + 1
      /\ Tail(gens) \in Seq(Nat) /\ Len(Tail(gens)) = m
      /\ \A i \in 1..m : gens[i] = generations[i]
      /\ gens[m + 1] = nextGen + 1
      /\ \A i \in 1..m : Tail(gens)[i] = gens[i + 1]
  <2>1. /\ gens \in Seq(Nat) /\ Len(gens) = Len(generations) + 1
        /\ Tail(gens) \in Seq(Nat) /\ Len(Tail(gens)) = Len(generations)
        /\ \A i \in 1..Len(generations) : gens[i] = generations[i]
        /\ gens[Len(generations) + 1] = nextGen + 1
        /\ \A i \in 1..Len(generations) : Tail(gens)[i] = gens[i + 1]
    BY <1>1, <1>4, PushNatSeq
  <2> QED
    BY <1>2, <2>1, Zenon
<1>9. m <= limit /\ m = Len(queue)
  BY <1>1
<1> HIDE DEF pictures, gens, m
<1>7. /\ \A i \in 1..(m + 1) : pictures[i].id = nextGen + 1 - (m + 1) + i
      /\ \A i \in 1..m : Tail(pictures)[i].id = nextGen + 1 - m + i
  <2>1. ASSUME NEW i \in 1..(m + 1)
        PROVE  pictures[i].id = nextGen + 1 - (m + 1) + i
    <3>1. CASE i \in 1..m
      <4>1. pictures[i] = queue[i] /\ queue[i].id = nextGen - m + i
        BY <1>2, <1>5, <3>1, Zenon
      <4> QED
        BY <1>1, <4>1
    <3>2. CASE i = m + 1
      <4>1. pictures[i].id = nextGen + 1
        BY <1>4, <1>5, <3>2, Zenon
      <4> QED
        BY <1>1, <3>2, <4>1
    <3> QED
      BY <1>1, <3>1, <3>2
  <2>2. ASSUME NEW i \in 1..m
        PROVE  Tail(pictures)[i].id = nextGen + 1 - m + i
    <3>1. i + 1 \in 1..(m + 1)
      BY <1>1
    <3>2. Tail(pictures)[i] = pictures[i + 1]
      BY <1>5, Zenon
    <3>3. pictures[i + 1].id = nextGen + 1 - (m + 1) + (i + 1)
      BY <2>1, <3>1, Zenon
    <3>4. nextGen + 1 - (m + 1) + (i + 1) = nextGen + 1 - m + i
      BY <1>1
    <3> QED
      BY <3>2, <3>3, <3>4, Zenon
  <2> QED
    BY <2>1, <2>2, Zenon
<1>8. /\ \A i \in 1..(m + 1) : gens[i] = nextGen + 1 - (m + 1) + i
      /\ \A i \in 1..m : Tail(gens)[i] = nextGen + 1 - m + i
  <2>1. ASSUME NEW i \in 1..(m + 1)
        PROVE  gens[i] = nextGen + 1 - (m + 1) + i
    <3>1. CASE i \in 1..m
      <4>1. gens[i] = generations[i] /\ generations[i] = nextGen - m + i
        BY <1>2, <1>6, <3>1, Zenon
      <4> QED
        BY <1>1, <4>1
    <3>2. CASE i = m + 1
      <4>1. gens[i] = nextGen + 1
        BY <1>4, <1>6, <3>2, Zenon
      <4> QED
        BY <1>1, <3>2, <4>1
    <3> QED
      BY <1>1, <3>1, <3>2
  <2>2. ASSUME NEW i \in 1..m
        PROVE  Tail(gens)[i] = nextGen + 1 - m + i
    <3>1. i + 1 \in 1..(m + 1)
      BY <1>1
    <3>2. Tail(gens)[i] = gens[i + 1]
      BY <1>6, Zenon
    <3>3. gens[i + 1] = nextGen + 1 - (m + 1) + (i + 1)
      BY <2>1, <3>1, Zenon
    <3>4. nextGen + 1 - (m + 1) + (i + 1) = nextGen + 1 - m + i
      BY <1>1
    <3> QED
      BY <3>2, <3>3, <3>4, Zenon
  <2> QED
    BY <2>1, <2>2, Zenon
<1>12. m + 1 \in Nat
  BY <1>1
<1>10. CASE OverLimit(pictures)
  <2>1. queue' = Tail(pictures) /\ generations' = Tail(gens)
        /\ overflowDrops' = overflowDrops + 1
    BY <1>3, <1>10, Zenon
  <2> QED
    BY <1>5, <1>6, <1>7, <1>1, <1>8, <1>9, <2>1, Zenon
<1>11. CASE ~OverLimit(pictures)
  <2>1. queue' = pictures /\ generations' = gens /\ overflowDrops' = overflowDrops
    BY <1>3, <1>11, Zenon
  <2>2. m + 1 <= limit
    BY <1>1, <1>5, <1>9, <1>11 DEF OverLimit
  <2> QED
    BY <1>5, <1>6, <1>7, <1>8, <1>9, <1>12, <2>1, <2>2, Zenon
<1> QED
  BY <1>10, <1>11

(* What a pop leaves of the deques when it takes k pictures.                *)
LEMMA TakeEffect ==
  ASSUME IInv, NEW k \in 0..Len(queue),
         queue' = SubSeq(queue, k + 1, Len(queue)),
         generations' = SubSeq(generations, k + 1, Len(generations))
  PROVE  \E m \in Nat :
           /\ m = Len(queue) - k /\ m <= limit
           /\ queue' \in Seq(Picture) /\ Len(queue') = m
           /\ generations' \in Seq(Nat) /\ Len(generations') = m
           /\ \A i \in 1..m : queue'[i].id = nextGen - m + i
           /\ \A i \in 1..m : generations'[i] = nextGen - m + i
<1> DEFINE m == Len(queue) - k
<1>1. /\ queue \in Seq(Picture) /\ generations \in Seq(Nat)
      /\ Len(queue) \in Nat /\ Len(queue) <= limit /\ limit \in Nat
      /\ Len(generations) = Len(queue)
      /\ nextGen \in Nat
  BY ConstantsAssumption DEF IInv, TypeOK, Consecutive
<1>2. m \in Nat /\ m <= limit /\ k \in Nat
  BY <1>1
<1>3. /\ queue' \in Seq(Picture) /\ Len(queue') = m
      /\ \A i \in 1..m : queue'[i] = queue[k + i]
  BY <1>1, TakeFrontSeq, ZenonT(60)
<1>4. /\ generations' \in Seq(Nat) /\ Len(generations') = m
      /\ \A i \in 1..m : generations'[i] = generations[k + i]
  <2>1. k \in 0..Len(generations) /\ m = Len(generations) - k
    BY <1>1
  <2>2. generations' = SubSeq(generations, k + 1, Len(generations))
    OBVIOUS
  <2> HIDE DEF m
  <2> QED
    BY <1>1, <2>1, <2>2, TakeFrontSeq, ZenonT(60)
<1>5. ASSUME NEW i \in 1..m
      PROVE  queue'[i].id = nextGen - m + i /\ generations'[i] = nextGen - m + i
  <2>1. k + i \in 1..Len(queue)
    BY <1>1
  <2>2. /\ queue[k + i].id = nextGen - Len(queue) + (k + i)
        /\ generations[k + i] = nextGen - Len(queue) + (k + i)
    BY <2>1, Zenon DEF IInv, Identified, Consecutive
  <2>3. nextGen - Len(queue) + (k + i) = nextGen - m + i
    BY <1>1
  <2> QED
    BY <1>3, <1>4, <2>2, <2>3, Zenon
<1> HIDE DEF m
<1>6. m = Len(queue) - k
  BY Zenon DEF m
<1> QED
  BY <1>2, <1>3, <1>4, <1>5, <1>6, Zenon

(* Drawing the picture that is shown already presents nothing new.          *)
LEMMA DrawAgain ==
  ASSUME IInv, Draw(buffer, bufferGen)
  PROVE  /\ \/ rendered' = rendered /\ screen' = screen
            \/ streaming /\ rendered' = bufferGen /\ screen' = buffer
         /\ presented' = presented
         /\ lastGen' = lastGen
<1>1. CASE streaming
  <2>1. lastGen = bufferGen
    BY <1>1 DEF IInv, Shown
  <2>2. CASE buffer = None
    BY <2>2, Zenon DEF Draw, renderVars
  <2>3. CASE buffer # None
    <3>1. /\ Upload(buffer, bufferGen)
          /\ lastGen' = bufferGen
          /\ presented' = IF bufferGen \notin {0, lastGen} THEN presented + 1 ELSE presented
      BY <2>3, Zenon DEF Draw
    <3>2. presented' = presented
      BY <2>1, <3>1, Zenon
    <3>3. \/ rendered' = rendered /\ screen' = screen
          \/ rendered' = bufferGen /\ screen' = buffer
      BY <3>1, Zenon DEF Upload
    <3> QED
      BY <1>1, <2>1, <3>1, <3>2, <3>3, Zenon
  <2> QED
    BY <2>2, <2>3, Zenon
<1>2. CASE ~streaming
  <2>1. buffer = None
    BY <1>2, Zenon DEF IInv, NothingLeft
  <2> QED
    BY <2>1, Zenon DEF Draw, renderVars
<1> QED
  BY <1>1, <1>2, Zenon

(* A picture that is held back did not make another one be dropped.         *)
LEMMA HoldDropsNothing ==
  ASSUME IInv, NEW n \in 0..(Len(queue) - 1), Drops(n), HoldPrevious(queue[n + 1])
  PROVE  n = 0
<1> SUFFICES ASSUME n # 0 PROVE FALSE
  OBVIOUS
<1>1. n \in 1..n
  OBVIOUS
<1>2. Due(queue[n + 1])
  BY <1>1, Zenon DEF Drops, Superseded
<1> QED
  BY <1>2, Zenon DEF HoldPrevious

(* The generations that are presented next are larger than the one shown.   *)
LEMMA NextGeneration ==
  ASSUME IInv, NEW n \in 0..(Len(queue) - 1)
  PROVE  /\ generations[n + 1] = nextGen - Len(queue) + n + 1
         /\ queue[n + 1].id = generations[n + 1]
         /\ generations[n + 1] \in Nat
         /\ generations[n + 1] > bufferGen + n
         /\ queue[n + 1] \in Picture
<1>1. /\ queue \in Seq(Picture) /\ Len(queue) \in Nat
      /\ nextGen \in Nat /\ bufferGen \in Nat /\ bufferGen + Len(queue) <= nextGen
  BY DEF IInv, TypeOK, Consecutive
<1>2. n + 1 \in 1..Len(queue)
  BY <1>1
<1>3. generations[n + 1] = nextGen - Len(queue) + (n + 1)
  BY <1>2, Zenon DEF IInv, Consecutive
<1>4. queue[n + 1].id = generations[n + 1]
  BY <1>2, <1>3, Zenon DEF IInv, Identified
<1>5. nextGen - Len(queue) + (n + 1) \in Nat
  BY <1>1
<1>6. nextGen - Len(queue) + (n + 1) > bufferGen + n
  BY <1>1
<1>7. queue[n + 1] \in Picture
  BY <1>1, <1>2
<1>8. nextGen - Len(queue) + n + 1 = nextGen - Len(queue) + (n + 1)
  BY <1>1
<1> QED
  BY <1>3, <1>4, <1>5, <1>6, <1>7, <1>8, Zenon

(* Presenting the picture behind the n that are dropped.                    *)
LEMMA DrawNext ==
  ASSUME IInv, streaming, NEW n \in 0..(Len(queue) - 1),
         Draw(queue[n + 1], generations[n + 1])
  PROVE  /\ \/ rendered' = rendered /\ screen' = screen
            \/ rendered' = generations[n + 1] /\ screen' = queue[n + 1]
         /\ presented' = presented + 1
         /\ lastGen' = generations[n + 1]
<1>1. /\ queue[n + 1].id = generations[n + 1] /\ generations[n + 1] \in Nat
      /\ generations[n + 1] > bufferGen + n /\ bufferGen \in Nat
      /\ lastGen = bufferGen
  BY NextGeneration DEF IInv, TypeOK, Shown
<1>2. generations[n + 1] # 0 /\ generations[n + 1] # lastGen
  BY <1>1
<1>3. queue[n + 1] # None
  BY <1>1, <1>2, NoneIsPicture, Zenon
<1>4. /\ Upload(queue[n + 1], generations[n + 1])
      /\ lastGen' = generations[n + 1]
      /\ presented' = IF generations[n + 1] \notin {0, lastGen}
                      THEN presented + 1 ELSE presented
  BY <1>3, Zenon DEF Draw
<1>5. \/ rendered' = rendered /\ screen' = screen
      \/ rendered' = generations[n + 1] /\ screen' = queue[n + 1]
  BY <1>4, Zenon DEF Upload
<1> QED
  BY <1>2, <1>4, <1>5, Zenon

-----------------------------------------------------------------------------
(* The invariant                                                            *)

(* The program starts without a stream.                                     *)
LEMMA InitIInv == Init => IInv
<1> SUFFICES ASSUME Init PROVE IInv
  OBVIOUS
<1> USE ConstantsAssumption, NoneIsPicture DEF Init
<1>1. TypeOK
  <2>1. queue \in Seq(Picture) /\ Len(queue) <= limit /\ generations \in Seq(Nat)
    OBVIOUS
  <2>2. {buffer, screen} \subseteq Picture
    OBVIOUS
  <2>3. now \in Nat /\ lastAt \in Nat /\ nextGen \in 0..MaxPictures /\ streams \in 0..MaxStreams
    OBVIOUS
  <2>4. {bufferGen, overflowDrops, timingDrops, rendered, presented, lastGen} \subseteq Nat
    OBVIOUS
  <2>5. streaming \in BOOLEAN /\ limit \in Limits \cup {3} /\ upc \in {"idle", "pop"}
        /\ target \in Nat \cup {NoTime}
    BY Zenon
  <2> QED
    BY <2>1, <2>2, <2>3, <2>4, <2>5, Zenon DEF TypeOK
<1>2. Consecutive /\ Identified
  BY DEF Consecutive, Identified
<1>3. NothingLeft /\ Shown /\ PicturesAccounted
  BY DEF NothingLeft, Shown, PicturesAccounted
<1> QED
  BY <1>1, <1>2, <1>3 DEF IInv

(* The steps that leave the deques and the picture that is shown alone.     *)
LEMMA OtherSteps ==
  ASSUME IInv, BeginFrame \/ Ended \/ UNCHANGED vars
  PROVE  IInv'
<1>1. UNCHANGED <<streamVars, queueVars, renderVars>>
  BY Zenon DEF BeginFrame, Ended, vars
<1>2. Consecutive' /\ Identified' /\ NothingLeft' /\ Shown' /\ PicturesAccounted'
  BY <1>1 DEF IInv, streamVars, queueVars, renderVars, Consecutive, Identified,
    NothingLeft, Shown, PicturesAccounted
<1>3. upc' \in {"idle", "pop"} /\ target' \in Nat \cup {NoTime}
      /\ now' \in Nat /\ lastAt' \in Nat
  BY DEF IInv, TypeOK, BeginFrame, Ended, vars
<1>4. TypeOK'
  BY <1>1, <1>3 DEF IInv, TypeOK, streamVars, queueVars, renderVars
<1> QED
  BY <1>2, <1>4 DEF IInv

(* A push keeps the invariant: one picture more, at the end.                *)
LEMMA PushStep ==
  ASSUME IInv, NEW at \in Start..MaxTime, NEW hasPts \in BOOLEAN,
         Push(at, hasPts)
  PROVE  IInv'
<1>1. PICK k \in Nat :
        /\ k <= limit
        /\ queue' \in Seq(Picture) /\ Len(queue') = k
        /\ generations' \in Seq(Nat) /\ Len(generations') = k
        /\ \A i \in 1..k : queue'[i].id = nextGen + 1 - k + i
        /\ \A i \in 1..k : generations'[i] = nextGen + 1 - k + i
        /\ \/ k = Len(queue) + 1 /\ overflowDrops' = overflowDrops
           \/ k = Len(queue) /\ overflowDrops' = overflowDrops + 1
  BY PushEffect, Zenon
<1>2. /\ streaming /\ nextGen < MaxPictures /\ nextGen' = nextGen + 1 /\ lastAt' = at
      /\ UNCHANGED <<streamVars, limit, buffer, bufferGen, timingDrops, renderVars,
                     upc, target, now>>
  BY DEF Push
<1>3. /\ nextGen \in Nat /\ overflowDrops \in Nat /\ timingDrops \in Nat
      /\ presented \in Nat /\ bufferGen \in Nat /\ Len(queue) \in Nat
      /\ nextGen + 1 \in 0..MaxPictures
  BY <1>2, ConstantsAssumption DEF IInv, TypeOK
<1>4. overflowDrops' \in Nat
  BY <1>1, <1>3
<1>5. TypeOK'
  BY <1>1, <1>2, <1>3, <1>4, ConstantsAssumption
    DEF IInv, TypeOK, streamVars, renderVars
<1>6. Consecutive'
  <2>1. bufferGen + Len(queue) <= nextGen
    BY DEF IInv, Consecutive
  <2>2. bufferGen + k <= nextGen + 1
    BY <1>1, <1>3, <2>1
  <2>3. bufferGen' = bufferGen /\ nextGen' = nextGen + 1
    BY <1>2, Zenon
  <2> QED
    BY <1>1, <1>3, <2>2, <2>3 DEF Consecutive
<1>7. Identified'
  <2>1. /\ buffer' = buffer /\ bufferGen' = bufferGen /\ streaming' = streaming
        /\ screen' = screen /\ rendered' = rendered /\ nextGen' = nextGen + 1
    BY <1>2, Zenon DEF streamVars, renderVars
  <2>2. buffer.id = bufferGen /\ (streaming => screen.id = rendered)
    BY Zenon DEF IInv, Identified
  <2> QED
    BY <1>1, <1>3, <2>1, <2>2 DEF Identified
<1>8. NothingLeft' /\ Shown'
  BY <1>2, Zenon DEF IInv, NothingLeft, Shown, streamVars, renderVars
<1>9. PicturesAccounted'
  <2>1. nextGen = overflowDrops + timingDrops + Len(queue) + presented
    BY <1>2 DEF IInv, PicturesAccounted
  <2>2. nextGen + 1 = overflowDrops' + timingDrops + k + presented
    <3>1. CASE k = Len(queue) + 1 /\ overflowDrops' = overflowDrops
      BY <1>3, <2>1, <3>1
    <3>2. CASE k = Len(queue) /\ overflowDrops' = overflowDrops + 1
      BY <1>3, <2>1, <3>2
    <3> QED
      BY <1>1, <3>1, <3>2, Zenon
  <2> QED
    BY <1>1, <1>2, <2>2, Zenon DEF PicturesAccounted, renderVars
<1> QED
  BY <1>5, <1>6, <1>7, <1>8, <1>9 DEF IInv

(* A pop that shows the picture again, having taken nothing.                *)
LEMMA AgainStep ==
  ASSUME IInv, upc' = "idle",
         UNCHANGED <<streamVars, limit, nextGen, overflowDrops, target, now,
                     lastAt, queue, generations, timingDrops, buffer, bufferGen>>,
         Draw(buffer, bufferGen)
  PROVE  IInv'
<1>1. /\ \/ rendered' = rendered /\ screen' = screen
         \/ streaming /\ rendered' = bufferGen /\ screen' = buffer
      /\ presented' = presented
      /\ lastGen' = lastGen
  BY DrawAgain, Zenon
<1>2. TypeOK'
  BY <1>1 DEF IInv, TypeOK, streamVars
<1>3. Consecutive' /\ NothingLeft' /\ PicturesAccounted'
  BY <1>1 DEF IInv, Consecutive, NothingLeft, PicturesAccounted, streamVars
<1>4. Identified'
  BY <1>1 DEF IInv, Identified, streamVars
<1>5. Shown'
  BY <1>1 DEF IInv, TypeOK, Shown, streamVars
<1> QED
  BY <1>2, <1>3, <1>4, <1>5 DEF IInv

(* A pop that holds the picture back has taken nothing.                     *)
LEMMA HoldTakesNothing ==
  ASSUME IInv, NEW n \in 0..(Len(queue) - 1), PopHold(n)
  PROVE  UNCHANGED <<queue, generations, timingDrops>>
<1>1. n = 0
  BY HoldDropsNothing, Zenon DEF PopHold
<1>2. queue \in Seq(Picture) /\ generations \in Seq(Nat) /\ timingDrops \in Nat
  BY DEF IInv, TypeOK
<1>3. /\ queue' = SubSeq(queue, 1, Len(queue))
      /\ generations' = SubSeq(generations, 1, Len(generations))
      /\ timingDrops' = timingDrops
  BY <1>1, <1>2 DEF PopHold, TakeFront, CountDrops
<1>4. \A S : \A q \in Seq(S) : SubSeq(q, 1, Len(q)) = q
  OBVIOUS
<1> QED
  BY <1>2, <1>3, <1>4, Zenon

(* A pop that presents a picture keeps the invariant.                       *)
LEMMA PresentStep ==
  ASSUME IInv, NEW n \in 0..(Len(queue) - 1), PopPresent(n)
  PROVE  IInv'
<1>1. /\ queue' = SubSeq(queue, (n + 1) + 1, Len(queue))
      /\ generations' = SubSeq(generations, (n + 1) + 1, Len(generations))
      /\ buffer' = queue[n + 1] /\ bufferGen' = generations[n + 1]
      /\ timingDrops' = timingDrops + n
      /\ Draw(queue[n + 1], generations[n + 1])
      /\ upc' = "idle"
      /\ UNCHANGED <<streamVars, limit, nextGen, overflowDrops, target, now, lastAt>>
  <2>1. /\ TakeFront(n + 1) /\ CountDrops(n)
        /\ buffer' = queue[n + 1] /\ bufferGen' = generations[n + 1]
        /\ Draw(buffer', bufferGen')
        /\ PopDone
    BY Zenon DEF PopPresent
  <2>2. Draw(queue[n + 1], generations[n + 1])
    BY <2>1, Zenon DEF Draw, Upload
  <2> QED
    BY <2>1, <2>2, Zenon DEF TakeFront, CountDrops, PopDone
<1>2. queue # <<>> /\ streaming /\ n \in Nat /\ n + 1 \in 0..Len(queue)
  <2>1. Len(queue) \in Nat
    BY DEF IInv, TypeOK
  <2>2. n \in Nat /\ n + 1 \in 0..Len(queue) /\ Len(queue) # 0
    BY <2>1
  <2>3. queue # <<>>
    BY <2>2
  <2> QED
    BY <2>2, <2>3, Zenon DEF IInv, NothingLeft
<1>3. PICK m \in Nat :
        /\ m = Len(queue) - (n + 1) /\ m <= limit
        /\ queue' \in Seq(Picture) /\ Len(queue') = m
        /\ generations' \in Seq(Nat) /\ Len(generations') = m
        /\ \A i \in 1..m : queue'[i].id = nextGen - m + i
        /\ \A i \in 1..m : generations'[i] = nextGen - m + i
  BY <1>1, <1>2, TakeEffect, Zenon
<1>4. /\ \/ rendered' = rendered /\ screen' = screen
         \/ rendered' = generations[n + 1] /\ screen' = queue[n + 1]
      /\ presented' = presented + 1
      /\ lastGen' = generations[n + 1]
  BY <1>1, <1>2, DrawNext, Zenon
<1>5. /\ generations[n + 1] = nextGen - Len(queue) + n + 1
      /\ queue[n + 1].id = generations[n + 1]
      /\ generations[n + 1] \in Nat
      /\ generations[n + 1] > bufferGen + n
      /\ queue[n + 1] \in Picture
  BY NextGeneration, Zenon
<1>6. /\ nextGen \in Nat /\ overflowDrops \in Nat /\ timingDrops \in Nat
      /\ presented \in Nat /\ bufferGen \in Nat /\ rendered \in Nat
      /\ Len(queue) \in Nat
  BY DEF IInv, TypeOK
<1>7. timingDrops' \in Nat /\ presented' \in Nat /\ rendered' \in Nat
      /\ screen' \in Picture
  <2>1. timingDrops + n \in Nat /\ presented + 1 \in Nat
    BY <1>2, <1>6
  <2>2. screen \in Picture
    BY DEF IInv, TypeOK
  <2> QED
    BY <1>1, <1>4, <1>5, <1>6, <2>1, <2>2, Zenon
<1>8. TypeOK'
  BY <1>1, <1>3, <1>4, <1>5, <1>6, <1>7 DEF IInv, TypeOK, streamVars
<1>9. Consecutive'
  <2> DEFINE g == generations[n + 1]
  <2>1. /\ g = nextGen - Len(queue) + n + 1 /\ m = Len(queue) - (n + 1)
        /\ n \in Nat /\ nextGen \in Nat /\ Len(queue) \in Nat
    BY <1>2, <1>3, <1>5, <1>6, Zenon
  <2> HIDE DEF g
  <2>2. g + m <= nextGen
    BY ONLY <2>1, SMTT(60)
  <2> QED
    BY <1>1, <1>3, <2>2, Zenon DEF Consecutive, g
<1>10. Identified'
  BY <1>1, <1>3, <1>4, <1>5, Zenon DEF IInv, Identified, streamVars
<1>11. NothingLeft'
  BY <1>1, <1>2, Zenon DEF NothingLeft, streamVars
<1>12. Shown'
  <2>1. rendered <= bufferGen
    BY <1>2 DEF IInv, Shown
  <2>2. rendered <= generations[n + 1] /\ generations[n + 1] <= generations[n + 1]
    BY <1>2, <1>5, <1>6, <2>1
  <2> QED
    BY <1>1, <1>4, <2>2, Zenon DEF Shown
<1>13. PicturesAccounted'
  <2>1. nextGen = overflowDrops + timingDrops + Len(queue) + presented
    BY <1>2 DEF IInv, PicturesAccounted
  <2>2. nextGen = overflowDrops + (timingDrops + n) + m + (presented + 1)
    BY <1>2, <1>3, <1>6, <2>1
  <2> QED
    BY <1>1, <1>3, <1>4, <2>2, Zenon DEF PicturesAccounted
<1> QED
  BY <1>8, <1>9, <1>10, <1>11, <1>12, <1>13 DEF IInv

(* The end of a stream leaves nothing, the next one begins with nothing.    *)
LEMMA StreamStep ==
  ASSUME IInv, StopStream \/ StartStream
  PROVE  IInv'
<1> USE ConstantsAssumption, NoneIsPicture
<1>1. CASE StopStream
  <2> USE <1>1 DEF StopStream, Cleared, IInv, renderVars
  <2>1. TypeOK'
    <3>1. queue' \in Seq(Picture) /\ Len(queue') = 0 /\ generations' \in Seq(Nat)
      OBVIOUS
    <3>2. {buffer', screen'} \subseteq Picture
      BY DEF TypeOK
    <3>3. limit' = limit /\ limit \in Nat /\ limit \in Limits \cup {3}
      BY DEF TypeOK
    <3>4. streams' = streams /\ UNCHANGED <<rendered, presented, lastGen, now, lastAt>>
      OBVIOUS
    <3>5. nextGen' = 0 /\ bufferGen' = 0
      OBVIOUS
    <3>6. /\ streaming' \in BOOLEAN /\ limit' \in Limits \cup {3}
          /\ now' \in Nat /\ lastAt' \in Nat /\ streams' \in 0..MaxStreams
      BY <3>3, <3>4, Zenon DEF TypeOK
    <3>9. Len(queue') <= limit' /\ nextGen' \in 0..MaxPictures
      <4>1. 0 <= limit /\ 0 \in 0..MaxPictures
        BY <3>3
      <4> QED
        BY <3>1, <3>3, <3>5, <4>1, Zenon
    <3>7. {bufferGen', overflowDrops', timingDrops', rendered', presented', lastGen'} \subseteq Nat
      BY <3>4, <3>5 DEF TypeOK
    <3>8. upc' \in {"idle", "pop"} /\ target' \in Nat \cup {NoTime}
      BY Zenon
    <3> QED
      BY <3>1, <3>2, <3>6, <3>7, <3>8, <3>9, Zenon DEF TypeOK
  <2>2. Consecutive' /\ Identified'
    BY DEF Consecutive, Identified
  <2>3. NothingLeft' /\ Shown' /\ PicturesAccounted'
    BY DEF NothingLeft, Shown, PicturesAccounted
  <2> QED
    BY <2>1, <2>2, <2>3
<1>2. CASE StartStream
  <2> USE <1>2 DEF StartStream, IInv
  <2>1. queue' = <<>> /\ generations' = <<>> /\ nextGen' = 0 /\ buffer' = None
        /\ bufferGen' = 0 /\ overflowDrops' = 0 /\ timingDrops' = 0
    BY DEF NothingLeft
  <2>2. TypeOK'
    BY <2>1 DEF TypeOK, NoTime
  <2>3. Consecutive' /\ Identified'
    BY <2>1 DEF Consecutive, Identified
  <2>4. NothingLeft' /\ Shown' /\ PicturesAccounted'
    BY <2>1 DEF NothingLeft, Shown, PicturesAccounted
  <2> QED
    BY <2>2, <2>3, <2>4
<1> QED
  BY <1>1, <1>2

(* Every step keeps the invariant.                                          *)
LEMMA StepIInv == IInv /\ [Next]_vars => IInv'
<1> SUFFICES ASSUME IInv, [Next]_vars PROVE IInv'
  OBVIOUS
<1>1. CASE \E at \in Start..MaxTime, hasPts \in BOOLEAN : Push(at, hasPts)
  BY <1>1, PushStep, Zenon
<1>2. CASE BeginFrame \/ Ended \/ UNCHANGED vars
  BY <1>2, OtherSteps, Zenon
<1>3. CASE PopReuse
  BY <1>3, AgainStep, Zenon DEF PopReuse, PopDone
<1>4. CASE \E n \in 0..(Len(queue) - 1) : PopHold(n)
  <2>1. PICK n \in 0..(Len(queue) - 1) : PopHold(n)
    BY <1>4
  <2>2. UNCHANGED <<queue, generations, timingDrops>>
    BY <2>1, HoldTakesNothing, Zenon
  <2> QED
    BY <2>1, <2>2, AgainStep, Zenon DEF PopHold, PopDone
<1>5. CASE \E n \in 0..(Len(queue) - 1) : PopPresent(n)
  BY <1>5, PresentStep, Zenon
<1>6. CASE StopStream \/ StartStream
  BY <1>6, StreamStep, Zenon
<1> QED
  BY <1>1, <1>2, <1>3, <1>4, <1>5, <1>6, Zenon DEF Next

(* The invariant holds of every behaviour.                                  *)
LEMMA Inductive == Spec => []IInv
<1>1. Init => IInv
  BY InitIInv
<1>2. IInv /\ [Next]_vars => IInv'
  BY StepIInv
<1> QED
  BY <1>1, <1>2, PTL DEF Spec

-----------------------------------------------------------------------------
(* The theorems                                                             *)

(* The queue never exceeds its limit, and every variable keeps its type.    *)
THEOREM TypeCorrect == Spec => []TypeOK
<1>1. IInv => TypeOK
  BY DEF IInv
<1> QED
  BY <1>1, Inductive, PTL

(* Pictures and generations never come apart, in the deques, in the hands   *)
(* of pop or on the screen.                                                 *)
THEOREM PairsMatch == Spec => []GenerationsMatch
<1>1. IInv => GenerationsMatch
  BY Zenon DEF IInv, Consecutive, Identified, GenerationsMatch
<1> QED
  BY <1>1, Inductive, PTL

(* Pictures are shown in the order in which they were decoded.              *)
THEOREM ShownInOrder == Spec => []PicturesInOrder
<1>1. ASSUME IInv PROVE PicturesInOrder
  <2>1. /\ Len(queue) \in Nat /\ Len(generations) = Len(queue)
        /\ nextGen \in Nat /\ bufferGen \in Nat /\ bufferGen + Len(queue) <= nextGen
        /\ \A i \in 1..Len(queue) : generations[i] = nextGen - Len(queue) + i
    BY <1>1 DEF IInv, TypeOK, Consecutive
  <2>2. \A i, j \in 1..Len(generations) : i < j => generations[i] < generations[j]
    BY <2>1
  <2>3. \A i \in 1..Len(generations) : generations[i] \in (bufferGen + 1)..nextGen
    BY <2>1
  <2> QED
    BY <1>1, <2>2, <2>3 DEF IInv, Shown, PicturesInOrder
<1> QED
  BY <1>1, Inductive, PTL

(* The statistics account for every picture of a stream exactly once.       *)
THEOREM EveryPictureCounted == Spec => []PicturesAccounted
<1>1. IInv => PicturesAccounted
  BY DEF IInv
<1> QED
  BY <1>1, Inductive, PTL

(* Only steps that present a picture raise the count of late ones.          *)
LEMMA DropStep ==
  ASSUME IInv, [Next]_vars, timingDrops' > timingDrops
  PROVE  bufferGen' > bufferGen + timingDrops' - timingDrops
<1>1. timingDrops \in Nat /\ bufferGen \in Nat /\ ~(timingDrops > timingDrops)
  BY DEF IInv, TypeOK
<1>2. CASE \E at \in Start..MaxTime, hasPts \in BOOLEAN : Push(at, hasPts)
  BY <1>1, <1>2, Zenon DEF Push
<1>3. CASE BeginFrame \/ Ended \/ UNCHANGED vars
  BY <1>1, <1>3, Zenon DEF BeginFrame, Ended, vars, queueVars
<1>4. CASE PopReuse
  BY <1>1, <1>4, Zenon DEF PopReuse
<1>5. CASE \E n \in 0..(Len(queue) - 1) : PopHold(n)
  BY <1>1, <1>5, HoldTakesNothing, Zenon
<1>6. CASE \E n \in 0..(Len(queue) - 1) : PopPresent(n)
  <2>1. PICK n \in 0..(Len(queue) - 1) : PopPresent(n)
    BY <1>6
  <2>2. timingDrops' = timingDrops + n /\ bufferGen' = generations[n + 1]
    BY <2>1, Zenon DEF PopPresent, CountDrops
  <2>3. generations[n + 1] > bufferGen + n /\ generations[n + 1] \in Nat
    BY NextGeneration, Zenon
  <2>4. bufferGen + n = bufferGen + (timingDrops + n) - timingDrops
    BY <1>1
  <2> QED
    BY <2>2, <2>3, <2>4, Zenon
<1>7. CASE StopStream
  <2>1. timingDrops' = 0
    BY <1>7 DEF StopStream
  <2> QED
    BY <1>1, <2>1
<1>8. CASE StartStream
  BY <1>1, <1>8, Zenon DEF StartStream
<1> QED
  BY <1>2, <1>3, <1>4, <1>5, <1>6, <1>7, <1>8, Zenon DEF Next

(* Whenever pictures are given up as late, a newer one is shown in their    *)
(* place in the same step.                                                  *)
THEOREM LateForANewer == Spec => DropsForANewer
<1>1. IInv /\ [Next]_vars
        => [timingDrops' > timingDrops
              => bufferGen' > bufferGen + timingDrops' - timingDrops]_vars
  BY DropStep, Zenon
<1> QED
  BY <1>1, Inductive, PTL DEF Spec, DropsForANewer

-----------------------------------------------------------------------------
(* Time                                                                     *)

(* Every frame takes a picture from the queue, except when the oldest one   *)
(* is ahead of the clock: a picture falls behind by one frame at most for   *)
(* every place it moves up, so its distance from the clock stays within     *)
(* what the timestamps can tell.                                            *)
Stamped == \A i \in 1..Len(queue) : queue[i].pts \in {NoTime, queue[i].at % Modulus}

Ascending ==
  /\ \A i, j \in 1..Len(queue) : i < j => queue[i].at < queue[j].at
  /\ \A i \in 1..Len(queue) : queue[i].at <= lastAt

Pending == IF upc = "pop" THEN FrameTime ELSE 0

Near ==
  \A i \in 1..Len(queue) :
     /\ queue[i].at <= now + MaxLead
     /\ now <= queue[i].at + MaxLead + FrameTime * (limit - i) + Pending

Aimed == upc = "pop" => target \in {NoTime, now}

TimesInv == Stamped /\ Ascending /\ Near /\ Aimed

(* Quotient and remainder.                                                  *)
LEMMA Remainder ==
  ASSUME NEW m \in Nat \ {0}, NEW x \in Int
  PROVE  /\ x = m * (x \div m) + (x % m)
         /\ x \div m \in Int /\ x % m \in 0..(m - 1)
OBVIOUS

LEMMA RemainderIs ==
  ASSUME NEW m \in Nat \ {0}, NEW q \in Int, NEW r \in 0..(m - 1)
  PROVE  (m * q + r) % m = r
OBVIOUS

(* Within half the timestamps either way, the difference of two timestamps  *)
(* is the difference of the times they stand for.                           *)
LEMMA RealDistance ==
  ASSUME NEW a \in Nat, NEW b \in Nat, - Modulus <= 2 * (a - b), 2 * (a - b) < Modulus
  PROVE  RtpDelta(a % Modulus, b % Modulus) = a - b
<1> DEFINE s == a % Modulus
           t == b % Modulus
           x == a - b
<1>1. Modulus \in Nat \ {0}
  BY ConstantsAssumption
<1>2. PICK p \in Int, q \in Int : a = Modulus * p + s /\ b = Modulus * q + t
  <2>1. a \in Int /\ b \in Int
    OBVIOUS
  <2>2. a = Modulus * (a \div Modulus) + s /\ a \div Modulus \in Int
    BY <1>1, <2>1, Remainder
  <2>3. b = Modulus * (b \div Modulus) + t /\ b \div Modulus \in Int
    BY <1>1, <2>1, Remainder
  <2> HIDE DEF s, t
  <2> QED
    BY <2>2, <2>3
<1>3. s \in Int /\ t \in Int /\ x \in Int /\ x = a - b
  BY <1>1, Remainder
<1>4. - Modulus <= 2 * x /\ 2 * x < Modulus
  OBVIOUS
<1>5. RtpDelta(s, t) = IF 2 * ((s - t) % Modulus) < Modulus
                       THEN (s - t) % Modulus ELSE ((s - t) % Modulus) - Modulus
  BY DEF RtpDelta
<1> HIDE DEF s, t, x
<1>6. CASE x >= 0
  <2>1. s - t = Modulus * (q - p) + x
    BY <1>1, <1>2, <1>3
  <2>2. x \in 0..(Modulus - 1) /\ q - p \in Int
    BY <1>1, <1>3, <1>4, <1>6
  <2>3. (s - t) % Modulus = x
    BY <1>1, <2>1, <2>2, RemainderIs
  <2>4. RtpDelta(s, t) = x
    BY <1>4, <1>5, <2>3, Zenon
  <2> QED
    BY <2>4, Zenon DEF s, t, x
<1>7. CASE x < 0
  <2>1. s - t = Modulus * (q - p - 1) + (x + Modulus)
    BY <1>1, <1>2, <1>3
  <2>2. x + Modulus \in 0..(Modulus - 1) /\ q - p - 1 \in Int
    BY <1>1, <1>3, <1>4, <1>7
  <2>3. (s - t) % Modulus = x + Modulus
    BY <1>1, <2>1, <2>2, RemainderIs
  <2>4. ~(2 * (x + Modulus) < Modulus) /\ (x + Modulus) - Modulus = x
    BY <1>1, <1>3, <1>4
  <2>5. RtpDelta(s, t) = x
    BY <1>5, <2>3, <2>4, Zenon
  <2> QED
    BY <2>5, Zenon DEF s, t, x
<1> QED
  BY <1>3, <1>6, <1>7

(* The types the arguments about time need.                                 *)
LEMMA Times ==
  ASSUME IInv
  PROVE  /\ queue \in Seq(Picture) /\ Len(queue) \in Nat /\ Len(queue) <= limit
         /\ \A i \in 1..Len(queue) : queue[i].at \in Nat
         /\ limit \in Nat /\ limit \in Limits \cup {3}
         /\ now \in Nat /\ lastAt \in Nat
<1>1. queue \in Seq(Picture) /\ Len(queue) <= limit /\ limit \in Limits \cup {3}
      /\ now \in Nat /\ lastAt \in Nat
  BY DEF IInv, TypeOK
<1>2. \A i \in 1..Len(queue) : queue[i] \in Picture
  BY <1>1
<1>3. \A i \in 1..Len(queue) : queue[i].at \in Nat
  BY <1>2 DEF Picture
<1> QED
  BY <1>1, <1>3, ConstantsAssumption

(* More places to go, more frames to wait.                                  *)
LEMMA Slack ==
  ASSUME NEW a \in Nat, NEW b \in Nat, a <= b
  PROVE  /\ FrameTime \in Nat /\ FrameTime * a \in Nat /\ FrameTime * b \in Nat
         /\ FrameTime * a <= FrameTime * b
         /\ a < b => FrameTime * a + FrameTime <= FrameTime * b
<1>1. FrameTime \in Nat
  BY ConstantsAssumption
<1>2. PICK c \in Nat : b = a + c
  <2>1. b - a \in Nat /\ b = a + (b - a)
    OBVIOUS
  <2> QED BY <2>1
<1>3. FrameTime * b = FrameTime * a + FrameTime * c
  BY <1>1, <1>2
<1>4. FrameTime * a \in Nat /\ FrameTime * b \in Nat /\ FrameTime * c \in Nat
  BY <1>1
<1>5. ASSUME a < b PROVE FrameTime <= FrameTime * c
  <2>1. PICK d \in Nat : c = d + 1
    <3>1. c - 1 \in Nat /\ c = (c - 1) + 1
      BY <1>2, <1>5
    <3> QED BY <3>1
  <2>2. FrameTime * c = FrameTime * d + FrameTime /\ FrameTime * d \in Nat
    BY <1>1, <2>1
  <2> QED BY <1>1, <2>2
<1> QED
  BY <1>1, <1>3, <1>4, <1>5

(* A timestamp that waits is due exactly when its time is.                  *)
LEMMA DueIsDue ==
  ASSUME IInv, TimesInv, upc = "pop", NEW i \in 1..Len(queue), Timed(queue[i])
  PROVE  /\ target = now
         /\ Due(queue[i]) <=> queue[i].at - target <= MaxEarly
<1>1. target = now /\ queue[i].pts = queue[i].at % Modulus
  BY Zenon DEF TimesInv, Aimed, Stamped, Timed
<1>2. /\ queue[i].at \in Nat /\ now \in Nat /\ limit \in Nat /\ limit \in Limits \cup {3}
      /\ i \in Nat /\ i <= limit /\ i >= 1
  BY Times
<1>3. /\ queue[i].at <= now + MaxLead
      /\ now <= queue[i].at + MaxLead + FrameTime * (limit - i) + FrameTime
  BY Zenon DEF TimesInv, Near, Pending
<1>4. limit - i \in Nat /\ limit - i < limit
  BY <1>2
<1>5. /\ FrameTime \in Nat /\ FrameTime * (limit - i) \in Nat /\ FrameTime * limit \in Nat
      /\ FrameTime * (limit - i) + FrameTime <= FrameTime * limit
  <2>1. limit - i <= limit
    BY <1>2
  <2> QED
    BY <1>2, <1>4, <2>1, Slack, Zenon
<1>6. /\ MaxLead \in Nat /\ MaxEarly \in Nat /\ Modulus \in Nat
      /\ 2 * (MaxLead + MaxEarly) < Modulus
      /\ 2 * (MaxLead + FrameTime * limit) <= Modulus
  BY <1>2, ConstantsAssumption
<1> DEFINE a == queue[i].at
           f == FrameTime * (limit - i)
           g == FrameTime * limit
<1>7. /\ a \in Nat /\ f \in Nat /\ g \in Nat /\ f + FrameTime <= g
      /\ a <= now + MaxLead /\ now <= a + MaxLead + f + FrameTime
      /\ 2 * (MaxLead + g) <= Modulus
  BY <1>2, <1>3, <1>5, <1>6, Zenon
<1> HIDE DEF a, f, g
<1>8. - Modulus <= 2 * (a - now) /\ 2 * (a - now) < Modulus
  BY ONLY <1>2, <1>5, <1>6, <1>7
<1>9. RtpDelta(a % Modulus, now % Modulus) = a - now
  BY <1>2, <1>7, <1>8, RealDistance
<1> QED
  BY <1>1, <1>9, Zenon DEF Due, a

(* What a push does to the waiting times.                                   *)
LEMMA PushTimes ==
  ASSUME IInv, NEW at \in Start..MaxTime, NEW hasPts \in BOOLEAN, Push(at, hasPts)
  PROVE  \E k \in 1..limit, d \in {0, 1} :
           /\ Len(queue') = k /\ k - 1 + d = Len(queue)
           /\ \A i \in 1..(k - 1) : queue'[i] = queue[i + d]
           /\ queue'[k].at = at
           /\ queue'[k].pts \in {NoTime, at % Modulus}
<1> DEFINE picture  == [id |-> nextGen + 1, at |-> at,
                        pts |-> IF hasPts THEN at % Modulus ELSE NoTime]
           pictures == Append(queue, picture)
           m        == Len(queue)
<1>1. queue \in Seq(Picture) /\ m \in Nat /\ m <= limit /\ limit \in Nat \ {0}
  BY Times, ConstantsAssumption
<1>2. picture \in Picture /\ picture.at = at /\ picture.pts \in {NoTime, at % Modulus}
  <2>1. nextGen + 1 \in Nat /\ at \in Nat
    BY ConstantsAssumption DEF IInv, TypeOK
  <2> QED
    BY <2>1, TimestampIsNat DEF Picture
<1>3. IF OverLimit(pictures) THEN queue' = Tail(pictures) ELSE queue' = pictures
  BY DEF Push, DropOldest
<1> HIDE DEF picture
<1>4. /\ Len(pictures) = m + 1
      /\ Len(Tail(pictures)) = m
      /\ \A i \in 1..m : pictures[i] = queue[i]
      /\ pictures[m + 1] = picture
      /\ \A i \in 1..m : Tail(pictures)[i] = pictures[i + 1]
  BY <1>1, <1>2, PushSeq
<1>5. OverLimit(pictures) <=> m + 1 > limit
  BY <1>4, Zenon DEF OverLimit
<1>6. m = Len(queue)
  OBVIOUS
<1> HIDE DEF pictures, m
<1>7. CASE OverLimit(pictures)
  <2>1. m = limit /\ m \in 1..limit /\ m - 1 + 1 = m
    BY <1>1, <1>5, <1>7
  <2>2. Tail(pictures)[m] = picture
    <3>1. m \in 1..m
      BY <2>1, <1>1
    <3> QED BY <1>4, <3>1, Zenon
  <2>3. ASSUME NEW i \in 1..(m - 1) PROVE Tail(pictures)[i] = queue[i + 1]
    <3>1. i \in 1..m /\ i + 1 \in 1..m
      BY <1>1
    <3> QED BY <1>4, <3>1, Zenon
  <2> QED
    BY <1>2, <1>3, <1>4, <1>6, <1>7, <2>1, <2>2, <2>3, Zenon
<1>8. CASE ~OverLimit(pictures)
  <2>1. m + 1 \in 1..limit /\ (m + 1) - 1 + 0 = m /\ (m + 1) - 1 = m
    BY <1>1, <1>5, <1>8
  <2>2. ASSUME NEW i \in 1..m PROVE pictures[i] = queue[i + 0]
    BY <1>4
  <2> QED
    BY <1>2, <1>3, <1>4, <1>6, <1>8, <2>1, <2>2, Zenon
<1> QED
  BY <1>7, <1>8

(* Pushing keeps the pictures within reach of the clock.                    *)
LEMMA PushInTime ==
  ASSUME IInv, TimesInv, NEW at \in Start..MaxTime, NEW hasPts \in BOOLEAN,
         Push(at, hasPts)
  PROVE  TimesInv'
<1>1. PICK k \in 1..limit, d \in {0, 1} :
        /\ Len(queue') = k /\ k - 1 + d = Len(queue)
        /\ \A i \in 1..(k - 1) : queue'[i] = queue[i + d]
        /\ queue'[k].at = at
        /\ queue'[k].pts \in {NoTime, at % Modulus}
  BY PushTimes, Zenon
<1>2. /\ lastAt' = at /\ at > lastAt /\ at - now \in -MaxLead..MaxLead
      /\ upc' = upc /\ target' = target /\ now' = now /\ limit' = limit
  BY DEF Push
<1>3. /\ \A i \in 1..Len(queue) : queue[i].at \in Nat
      /\ limit \in Nat /\ now \in Nat /\ lastAt \in Nat /\ at \in Nat
      /\ MaxLead \in Nat /\ k \in Nat /\ k >= 1 /\ k <= limit /\ d \in Nat
  BY Times, ConstantsAssumption
<1>4. \A i \in 1..(k - 1) : i + d \in 1..Len(queue)
  BY <1>1, <1>3
<1>5. \A i \in 1..k : i = k \/ i \in 1..(k - 1)
  BY <1>3
<1>6. Pending' = Pending /\ Pending \in Nat
  BY <1>2, ConstantsAssumption DEF Pending
<1>7. Stamped'
  <2>1. ASSUME NEW i \in 1..k PROVE queue'[i].pts \in {NoTime, queue'[i].at % Modulus}
    <3>1. CASE i = k
      BY <1>1, <3>1, Zenon
    <3>2. CASE i \in 1..(k - 1)
      BY <1>1, <1>4, <3>2, Zenon DEF TimesInv, Stamped
    <3> QED BY <1>5, <3>1, <3>2, Zenon
  <2> QED BY <1>1, <2>1, Zenon DEF Stamped
<1>8. ASSUME NEW i \in 1..k PROVE queue'[i].at <= at /\ (i # k => queue'[i].at < at)
  <2>1. CASE i = k
    BY <1>1, <1>3, <2>1
  <2>2. CASE i \in 1..(k - 1)
    <3>1. queue'[i].at = queue[i + d].at /\ queue[i + d].at <= lastAt /\ queue[i + d].at \in Nat
      BY <1>1, <1>3, <1>4, <2>2, Zenon DEF TimesInv, Ascending
    <3> QED BY <1>2, <1>3, <3>1
  <2> QED BY <1>5, <2>1, <2>2, Zenon
<1>9. Ascending'
  <2>1. ASSUME NEW i \in 1..k, NEW j \in 1..k, i < j PROVE queue'[i].at < queue'[j].at
    <3>1. i # k /\ i \in 1..(k - 1) /\ i + d < j + d
      BY <1>3, <2>1
    <3>2. CASE j = k
      <4>1. queue'[i].at < at /\ queue'[j].at = at
        BY <1>1, <1>8, <3>1, <3>2, Zenon
      <4> QED BY <4>1, Zenon
    <3>3. CASE j \in 1..(k - 1)
      <4>1. queue[i + d].at < queue[j + d].at
        BY <1>4, <3>1, <3>3, Zenon DEF TimesInv, Ascending
      <4> QED BY <1>1, <3>1, <3>3, <4>1, Zenon
    <3> QED BY <1>5, <3>2, <3>3, Zenon
  <2> QED BY <1>1, <1>2, <1>8, <2>1, Zenon DEF Ascending
<1>10. Near'
  <2>1. ASSUME NEW i \in 1..k
        PROVE  /\ queue'[i].at <= now + MaxLead
               /\ now <= queue'[i].at + MaxLead + FrameTime * (limit - i) + Pending
    <3>1. limit - i \in Nat
      BY <1>3
    <3>2. CASE i = k
      <4>1. FrameTime * (limit - i) \in Nat
        BY <3>1, ConstantsAssumption
      <4>2. queue'[i].at = at
        BY <1>1, <3>2, Zenon
      <4> QED BY <1>2, <1>3, <1>6, <4>1, <4>2
    <3>3. CASE i \in 1..(k - 1)
      <4> DEFINE p == queue[i + d].at
                 f == FrameTime * (limit - (i + d))
                 g == FrameTime * (limit - i)
      <4>1. /\ p \in Nat /\ queue'[i].at = p
            /\ p <= now + MaxLead /\ now <= p + MaxLead + f + Pending
        BY <1>1, <1>3, <1>4, <3>3, Zenon DEF TimesInv, Near
      <4>2. limit - (i + d) \in Nat /\ limit - (i + d) <= limit - i
        <5>1. i + d <= Len(queue) /\ Len(queue) <= limit /\ Len(queue) \in Nat
          BY <1>3, <1>4, <3>3, Times
        <5> QED BY <1>3, <5>1
      <4>3. f \in Nat /\ g \in Nat /\ f <= g
        BY <3>1, <4>2, Slack, Zenon
      <4> HIDE DEF p, f, g
      <4>4. p <= now + MaxLead /\ now <= p + MaxLead + g + Pending
        BY ONLY <1>3, <1>6, <4>1, <4>3
      <4> QED BY <4>1, <4>4, Zenon DEF g
    <3> QED BY <1>5, <3>2, <3>3, Zenon
  <2> QED BY <1>1, <1>2, <1>6, <2>1, Zenon DEF Near
<1>11. Aimed'
  BY <1>2, Zenon DEF TimesInv, Aimed
<1> QED
  BY <1>7, <1>9, <1>10, <1>11, Zenon DEF TimesInv

(* A picture that is held back is ahead of the clock, and all behind it.    *)
LEMMA HoldInTime ==
  ASSUME IInv, TimesInv, NEW n \in 0..(Len(queue) - 1), PopHold(n)
  PROVE  TimesInv' /\ Head(queue').at > target + MaxEarly
<1>1. queue' = queue /\ n = 0 /\ HoldPrevious(queue[1]) /\ upc = "pop"
  <2>1. n = 0 /\ Drops(n) /\ HoldPrevious(queue[n + 1]) /\ upc = "pop"
    BY HoldDropsNothing, Zenon DEF PopHold
  <2>2. 0 + 1 = 1
    OBVIOUS
  <2> QED
    BY <2>1, <2>2, HoldTakesNothing, Zenon
<1>2. /\ upc' = "idle" /\ limit' = limit /\ now' = now /\ lastAt' = lastAt
  BY Zenon DEF PopHold, PopDone
<1>3. /\ queue \in Seq(Picture) /\ Len(queue) \in Nat /\ Len(queue) <= limit
      /\ \A i \in 1..Len(queue) : queue[i].at \in Nat
      /\ limit \in Nat /\ now \in Nat
      /\ MaxLead \in Nat /\ MaxEarly \in Nat /\ FrameTime \in Nat
      /\ 1 \in 1..Len(queue)
  <2>1. 1 \in 1..Len(queue)
    BY Times
  <2> QED BY <2>1, Times, ConstantsAssumption
<1>4. target = now /\ queue[1].at > now + MaxEarly
  <2>1. target = now /\ ~(queue[1].at - now <= MaxEarly)
    BY <1>1, <1>3, DueIsDue, Zenon DEF HoldPrevious
  <2> QED BY <1>3, <2>1
<1>5. Head(queue').at > target + MaxEarly
  <2>1. Head(queue) = queue[1]
    BY <1>3
  <2> QED BY <1>1, <1>4, <2>1, Zenon
<1>6. Near'
  <2>1. ASSUME NEW i \in 1..Len(queue)
        PROVE  /\ queue[i].at <= now + MaxLead
               /\ now <= queue[i].at + MaxLead + FrameTime * (limit - i) + 0
    <3>1. queue[i].at <= now + MaxLead
      BY Zenon DEF TimesInv, Near
    <3>2. now <= queue[i].at
      <4>1. CASE i = 1
        BY <1>3, <1>4, <4>1
      <4>2. CASE i # 1
        <5>1. 1 < i
          BY <4>2
        <5>2. queue[1].at < queue[i].at
          BY <1>3, <5>1, Zenon DEF TimesInv, Ascending
        <5> QED BY <1>3, <1>4, <5>2
      <4> QED BY <4>1, <4>2
    <3>3. FrameTime * (limit - i) \in Nat
      <4>1. limit - i \in Nat
        BY <1>3
      <4> QED BY <1>3, <4>1
    <3> DEFINE p == queue[i].at
               f == FrameTime * (limit - i)
    <3>4. p \in Nat /\ f \in Nat /\ now <= p /\ now \in Nat /\ MaxLead \in Nat
      BY <1>3, <3>2, <3>3, Zenon
    <3> HIDE DEF p, f
    <3>5. now <= p + MaxLead + f + 0
      BY ONLY <3>4
    <3> QED BY <3>1, <3>5, Zenon DEF p, f
  <2>2. Pending' = 0
    BY <1>2 DEF Pending
  <2> QED BY <1>1, <1>2, <2>1, <2>2, Zenon DEF Near
<1>7. Stamped' /\ Ascending'
  BY <1>1, <1>2, Zenon DEF TimesInv, Stamped, Ascending
<1>8. Aimed'
  BY <1>2 DEF Aimed
<1> QED
  BY <1>5, <1>6, <1>7, <1>8, Zenon DEF TimesInv

(* A pop that presents a picture moves the others up.                       *)
LEMMA PresentInTime ==
  ASSUME IInv, TimesInv, NEW n \in 0..(Len(queue) - 1), PopPresent(n)
  PROVE  TimesInv'
<1> DEFINE k == n + 1
           m == Len(queue) - k
<1>1. /\ upc = "pop" /\ upc' = "idle" /\ limit' = limit /\ now' = now /\ lastAt' = lastAt
  BY Zenon DEF PopPresent, PopDone
<1>2. /\ queue \in Seq(Picture) /\ Len(queue) \in Nat /\ Len(queue) <= limit
      /\ \A i \in 1..Len(queue) : queue[i].at \in Nat
      /\ limit \in Nat /\ now \in Nat
      /\ MaxLead \in Nat /\ FrameTime \in Nat
      /\ k \in 0..Len(queue) /\ k >= 1 /\ k \in Nat /\ m \in Nat
  BY Times, ConstantsAssumption
<1>3. /\ Len(queue') = m
      /\ \A i \in 1..m : queue'[i] = queue[k + i]
  <2>1. queue' = SubSeq(queue, k + 1, Len(queue))
    BY Zenon DEF PopPresent, TakeFront
  <2> HIDE DEF k
  <2> QED BY <1>2, <2>1, TakeFrontSeq, ZenonT(60)
<1>4. \A i \in 1..m : k + i \in 1..Len(queue)
  BY <1>2
<1>5. Pending = FrameTime /\ Pending' = 0
  BY <1>1 DEF Pending
<1>6. \A i, j \in 1..m : i < j => k + i < k + j
  BY <1>2
<1>11. \A i \in 1..m : /\ limit - (k + i) \in Nat /\ limit - i \in Nat
                        /\ limit - (k + i) < limit - i /\ limit - (k + i) <= limit - i
  BY <1>2, <1>4
<1> HIDE DEF k, m
<1>7. Stamped'
  BY <1>3, <1>4, Zenon DEF TimesInv, Stamped
<1>8. Ascending'
  BY <1>1, <1>3, <1>4, <1>6, Zenon DEF TimesInv, Ascending
<1>9. Near'
  <2>1. ASSUME NEW i \in 1..m
        PROVE  /\ queue'[i].at <= now + MaxLead
               /\ now <= queue'[i].at + MaxLead + FrameTime * (limit - i) + 0
    <3> DEFINE p == queue[k + i].at
               f == FrameTime * (limit - (k + i))
               g == FrameTime * (limit - i)
    <3>1. /\ p \in Nat /\ queue'[i].at = p
          /\ p <= now + MaxLead /\ now <= p + MaxLead + f + FrameTime
      BY <1>2, <1>3, <1>4, <1>5, Zenon DEF TimesInv, Near
    <3>2. f \in Nat /\ g \in Nat /\ f + FrameTime <= g
      BY <1>11, Slack, Zenon
    <3> HIDE DEF p, f, g
    <3>3. now <= p + MaxLead + g + 0
      BY ONLY <1>2, <3>1, <3>2
    <3> QED BY <3>1, <3>3, Zenon DEF g
  <2> QED BY <1>1, <1>3, <1>5, <2>1, Zenon DEF Near
<1>10. Aimed'
  BY <1>1 DEF Aimed
<1> QED
  BY <1>7, <1>8, <1>9, <1>10, Zenon DEF TimesInv

(* A frame that begins moves the clock by one frame at most.                *)
LEMMA FrameInTime ==
  ASSUME IInv, TimesInv, BeginFrame
  PROVE  TimesInv'
<1>1. /\ upc = "idle" /\ upc' = "pop" /\ target' \in {NoTime, now'}
      /\ now' \in now..(now + FrameTime)
      /\ queue' = queue /\ limit' = limit /\ lastAt' = lastAt
  BY DEF BeginFrame, queueVars
<1>2. /\ \A i \in 1..Len(queue) : queue[i].at \in Nat
      /\ Len(queue) \in Nat /\ Len(queue) <= limit
      /\ limit \in Nat /\ now \in Nat /\ now' \in Nat
      /\ MaxLead \in Nat /\ FrameTime \in Nat
      /\ now <= now' /\ now' <= now + FrameTime
  BY <1>1, Times, ConstantsAssumption
<1>3. Pending = 0 /\ Pending' = FrameTime
  BY <1>1 DEF Pending
<1>4. Near'
  <2>1. ASSUME NEW i \in 1..Len(queue)
        PROVE  /\ queue[i].at <= now' + MaxLead
               /\ now' <= queue[i].at + MaxLead + FrameTime * (limit - i) + FrameTime
    <3> DEFINE p == queue[i].at
               f == FrameTime * (limit - i)
               t == now'
    <3>1. /\ p \in Nat /\ p <= now + MaxLead /\ now <= p + MaxLead + f + 0
          /\ t \in Nat /\ now <= t /\ t <= now + FrameTime
      BY <1>2, <1>3, Zenon DEF TimesInv, Near
    <3>2. f \in Nat
      <4>1. limit - i \in Nat
        BY <1>2
      <4> QED BY <1>2, <4>1
    <3>4. now \in Nat /\ MaxLead \in Nat /\ FrameTime \in Nat
      BY <1>2
    <3> HIDE DEF p, f, t
    <3>3. p <= t + MaxLead /\ t <= p + MaxLead + f + FrameTime
      BY ONLY <3>4, <3>1, <3>2
    <3> QED BY <3>3, Zenon DEF p, f, t
  <2> QED BY <1>1, <1>3, <2>1, Zenon DEF Near
<1>5. Stamped' /\ Ascending' /\ Aimed'
  BY <1>1, Zenon DEF TimesInv, Stamped, Ascending, Aimed
<1> QED
  BY <1>4, <1>5, Zenon DEF TimesInv

(* An empty queue has nothing to fall behind.                               *)
LEMMA EmptyInTime ==
  ASSUME queue' = <<>>, Aimed'
  PROVE  TimesInv'
<1>1. 1..Len(queue') = {}
  OBVIOUS
<1>2. Stamped' /\ Ascending' /\ Near'
  BY <1>1, Zenon DEF Stamped, Ascending, Near
<1> QED
  BY <1>2, Zenon DEF TimesInv

(* Every step keeps the pictures within reach of the clock.                 *)
LEMMA StepInTime ==
  ASSUME IInv, TimesInv, [Next]_vars
  PROVE  TimesInv'
<1>1. CASE \E at \in Start..MaxTime, hasPts \in BOOLEAN : Push(at, hasPts)
  BY <1>1, PushInTime, Zenon
<1>2. CASE BeginFrame
  BY <1>2, FrameInTime, Zenon
<1>3. CASE PopReuse
  <2>1. queue' = <<>> /\ upc' = "idle"
    BY <1>3, Zenon DEF PopReuse, PopDone
  <2> QED BY <2>1, EmptyInTime DEF Aimed
<1>4. CASE \E n \in 0..(Len(queue) - 1) : PopHold(n)
  BY <1>4, HoldInTime, Zenon
<1>5. CASE \E n \in 0..(Len(queue) - 1) : PopPresent(n)
  BY <1>5, PresentInTime, Zenon
<1>6. CASE StopStream
  <2>1. queue' = <<>> /\ Aimed'
    BY <1>6 DEF StopStream, Aimed
  <2> QED BY <2>1, EmptyInTime, Zenon
<1>7. CASE StartStream
  <2>1. queue' = <<>> /\ Aimed'
    BY <1>7, Zenon DEF StartStream, IInv, NothingLeft, TimesInv, Aimed
  <2> QED BY <2>1, EmptyInTime, Zenon
<1>8. CASE Ended \/ UNCHANGED vars
  <2>1. UNCHANGED <<queue, limit, upc, target, now, lastAt>>
    BY <1>8, Zenon DEF Ended, vars, queueVars
  <2>2. Pending' = Pending
    BY <2>1, Zenon DEF Pending
  <2> QED
    BY <2>1, <2>2, Zenon DEF TimesInv, Stamped, Ascending, Near, Aimed
<1> QED
  BY <1>1, <1>2, <1>3, <1>4, <1>5, <1>6, <1>7, <1>8, Zenon DEF Next

(* Whatever the timestamps say, a picture that is left in the queue when a  *)
(* frame has popped for a time is ahead of that time.                       *)
LEMMA TellsTrue ==
  ASSUME IInv, TimesInv, [Next]_vars, upc = "pop", upc' = "idle", target # NoTime,
         queue' # <<>>, Head(queue).pts # NoTime, Head(queue').pts # NoTime
  PROVE  Head(queue').at > target + MaxEarly
<1>1. CASE \E n \in 0..(Len(queue) - 1) : PopHold(n)
  BY <1>1, HoldInTime, Zenon
<1>2. CASE \E n \in 0..(Len(queue) - 1) : PopPresent(n)
  <2>1. PICK n \in 0..(Len(queue) - 1) : PopPresent(n)
    BY <1>2
  <2> DEFINE m == Len(queue) - (n + 1)
  <2>2. /\ queue \in Seq(Picture) /\ Len(queue) \in Nat
        /\ n \in Nat /\ n + 1 \in 0..Len(queue) /\ n + 1 \in 1..Len(queue)
        /\ m \in Nat
    BY Times
  <2>3. /\ queue' \in Seq(Picture) /\ Len(queue') = m
        /\ \A i \in 1..m : queue'[i] = queue[(n + 1) + i]
    <3>1. queue' = SubSeq(queue, (n + 1) + 1, Len(queue))
      BY <2>1, Zenon DEF PopPresent, TakeFront
    <3> QED BY <2>2, <3>1, TakeFrontSeq, ZenonT(60)
  <2>4. /\ m # 0 /\ 1 \in 1..m /\ Head(queue') = queue'[1] /\ Head(queue) = queue[1]
    BY <2>2, <2>3
  <2>5. /\ (n + 1) + 1 \in 1..Len(queue) /\ n + 1 < Len(queue)
        /\ Head(queue') = queue[(n + 1) + 1]
    BY <2>2, <2>3, <2>4
  <2>6. Timed(queue[(n + 1) + 1])
    BY <2>5, Zenon DEF Timed
  <2>7. Timed(queue[n + 1])
    <3>1. CASE n = 0
      BY <2>4, <3>1 DEF Timed
    <3>2. CASE n # 0
      <4>1. n \in 1..n
        BY <2>2, <3>2
      <4> QED BY <2>1, <4>1, Zenon DEF PopPresent, Drops, Superseded
    <3> QED BY <3>1, <3>2
  <2>8. ~Due(queue[(n + 1) + 1])
    BY <2>1, <2>5, <2>6, <2>7, Zenon DEF PopPresent, Drops, Superseded
  <2>9. target = now /\ ~(queue[(n + 1) + 1].at - target <= MaxEarly)
    BY <2>5, <2>6, <2>8, DueIsDue, Zenon
  <2>10. queue[(n + 1) + 1].at \in Nat /\ target \in Nat /\ MaxEarly \in Nat
    BY <2>5, <2>9, Times, ConstantsAssumption
  <2>11. queue[(n + 1) + 1].at > target + MaxEarly
    BY <2>9, <2>10
  <2> QED BY <2>5, <2>11, Zenon
<1>3. CASE \E at \in Start..MaxTime, hasPts \in BOOLEAN : Push(at, hasPts)
  BY <1>3 DEF Push
<1>4. CASE PopReuse
  BY <1>4, Zenon DEF PopReuse
<1>5. CASE BeginFrame \/ StopStream \/ StartStream \/ Ended \/ UNCHANGED vars
  BY <1>5 DEF BeginFrame, StopStream, StartStream, Ended, vars
<1> QED
  BY <1>1, <1>2, <1>3, <1>4, <1>5, Zenon DEF Next

(* The decisions on 32-bit timestamps that wrap around are the decisions    *)
(* real time asks for, for any number of timestamps and any limit, as long  *)
(* as half the timestamps span the drift and the frames a full queue waits. *)
THEOREM WrapTellsTime == Spec => WrapNeverMisleads
<1>1. Init => TimesInv
  BY DEF Init, TimesInv, Stamped, Ascending, Near, Aimed
<1>2. IInv /\ TimesInv /\ [Next]_vars => TimesInv'
  BY StepInTime, Zenon
<1>3. IInv /\ TimesInv /\ [Next]_vars
        => [upc = "pop" /\ upc' = "idle" /\ target # NoTime /\ queue' # <<>>
              /\ Head(queue).pts # NoTime /\ Head(queue').pts # NoTime
            => Head(queue').at > target + MaxEarly]_vars
  BY TellsTrue, Zenon
<1> QED
  BY <1>1, <1>2, <1>3, Inductive, PTL DEF Spec, WrapNeverMisleads
=============================================================================
