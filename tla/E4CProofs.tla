----------------------------- MODULE E4CProofs -----------------------------
(***************************************************************************)
(* Proofs about the exceptions, E4C.  The frames and jump buffers of the   *)
(* global context follow the nesting of the blocks in the C program; with  *)
(* that, and with what the stages and marks of the outer frames can be     *)
(* while inner code runs, every step of the macros is a step of TrySpec.   *)
(***************************************************************************)
EXTENDS E4C, SequenceTheorems, TLAPS

Frames == [stage : 0..4, uncaught : BOOLEAN]
Live == [id : Ids, catches : Catches]

TypeOK ==
    /\ frames \in 0..E4C_MAX_FRAMES
    /\ frame \in [0..E4C_MAX_FRAMES -> Frames]
    /\ err \in Types
    /\ jump \in [0..E4C_MAX_FRAMES - 1 -> 0..E4C_MAX_FRAMES + 1]
    /\ live \in Seq(Live)
    /\ at \in {"code", "hook", "exit"}

(* Every jump buffer in use was set in the block its frame belongs to, and
   no two blocks of the C program are the same. *)
FramesFollowBlocks ==
    /\ frames = Len(live)
    /\ \A i \in 1..frames : jump[i - 1] = live[i].id
    /\ \A i, j \in 1..frames : live[i].id = live[j].id => i = j
    /\ at = "hook" => frames > 0

(* A frame whose code runs, or ran when an inner block began, has left its
   beginning, and is marked only while it finalizes. *)
Entered(i) == frame[i].stage >= trying /\ (frame[i].uncaught => frame[i].stage = finalizing)

(* The outer frames have been entered, the innermost one unless the loop is
   about to choose its next stage; a block that has not started is not marked. *)
StagesEntered ==
    /\ \A i \in 1..frames - 1 : Entered(i)
    /\ at = "code" /\ frames > 0 => Entered(frames)
    /\ at = "hook" /\ frame[frames].stage = beginning => ~frame[frames].uncaught

IInv == TypeOK /\ FramesFollowBlocks /\ StagesEntered

(* What an assignment to the stage, or to the mark, of a frame leaves. *)
LEMMA SetStage ==
  ASSUME NEW r \in Frames, NEW s \in 0..4
  PROVE  /\ [r EXCEPT !.stage = s] \in Frames
         /\ [r EXCEPT !.stage = s].stage = s
         /\ [r EXCEPT !.stage = s].uncaught = r.uncaught
BY Zenon DEF Frames

LEMMA SetMark ==
  ASSUME NEW r \in Frames, NEW u \in BOOLEAN
  PROVE  /\ [r EXCEPT !.uncaught = u] \in Frames
         /\ [r EXCEPT !.uncaught = u].stage = r.stage
         /\ [r EXCEPT !.uncaught = u].uncaught = u
BY Zenon DEF Frames

(* An exception that propagates to one of the n innermost frames finds the
   block its jump buffer was set in among the live ones, and no other: n - 1
   jumps lead to block n, and the nesting is cut to the blocks up to it. *)
LEMMA PropagateTo ==
  ASSUME IInv, NEW n \in 1..frames
  PROVE  {i \in DOMAIN live : live[i].id = jump[n - 1]} = {n}
<1>1. DOMAIN live = 1..frames
  BY DEF IInv, TypeOK, FramesFollowBlocks
<1>2. jump[n - 1] = live[n].id
  BY DEF IInv, FramesFollowBlocks
<1>3. \A i \in 1..frames : live[i].id = live[n].id <=> i = n
  BY DEF IInv, FramesFollowBlocks
<1> QED
  BY <1>1, <1>2, <1>3

(* What e4c_propagate does when it is called for n frames, with frames fr. *)
LEMMA Propagated ==
  ASSUME IInv, NEW n \in 0..frames, NEW fr \in [0..E4C_MAX_FRAMES -> Frames],
         e4c_propagate(n, fr)
  PROVE  /\ frames' = n
         /\ frame' \in [0..E4C_MAX_FRAMES -> Frames]
         /\ frame'[n].stage = fr[n].stage /\ frame'[n].uncaught
         /\ \A i \in 0..E4C_MAX_FRAMES : i # n => frame'[i] = fr[i]
         /\ live' = SubSeq(live, 1, n)
         /\ at' = IF n = 0 THEN "exit" ELSE "hook"
<1>1. frames' = n /\ frame' = [fr EXCEPT ![n].uncaught = TRUE]
  BY DEF e4c_propagate
<1>2. n \in 0..E4C_MAX_FRAMES
  BY TypesAssumption DEF IInv, TypeOK
<1>3. frame' \in [0..E4C_MAX_FRAMES -> Frames]
  BY <1>1, <1>2 DEF Frames
<1>4. fr[n] \in Frames
  BY <1>2
<1>5. frame'[n] = [fr[n] EXCEPT !.uncaught = TRUE]
  BY <1>1, <1>2, Zenon
<1>6. frame'[n].stage = fr[n].stage /\ frame'[n].uncaught
  BY <1>4, <1>5 DEF Frames
<1>7. \A i \in 0..E4C_MAX_FRAMES : i # n => frame'[i] = fr[i]
  BY <1>1, Zenon
<1>8. CASE n = 0
  <2>1. live' = <<>> /\ at' = "exit"
    BY <1>8 DEF e4c_propagate
  <2>2. SubSeq(live, 1, 0) = <<>>
    BY SubSeqEmpty
  <2> QED
    BY <1>1, <1>3, <1>6, <1>7, <1>8, <2>1, <2>2
<1>9. CASE n # 0
  <2>1. n \in 1..frames
    BY <1>9 DEF IInv, TypeOK
  <2>2. {i \in DOMAIN live : live[i].id = jump[n - 1]} = {n}
    BY <2>1, PropagateTo
  <2>3. (CHOOSE i \in {n} : TRUE) = n
    OBVIOUS
  <2>4. live' = SubSeq(live, 1, n) /\ at' = "hook"
    BY <1>9, <2>2, <2>3 DEF e4c_propagate
  <2> QED
    BY <1>1, <1>3, <1>6, <1>7, <1>9, <2>4
<1> QED
  BY <1>8, <1>9

(* The first n of the live blocks. *)
LEMMA LivePrefix ==
  ASSUME IInv, NEW n \in 0..frames
  PROVE  /\ SubSeq(live, 1, n) \in Seq(Live) /\ Len(SubSeq(live, 1, n)) = n
         /\ \A i \in 1..n : SubSeq(live, 1, n)[i] = live[i]
<1>1. live \in Seq(Live) /\ frames = Len(live) /\ frames \in Nat
  BY TypesAssumption DEF IInv, TypeOK, FramesFollowBlocks
<1>2. \A i \in 1..n : live[i] \in Live
  BY <1>1, ElementOfSeq
<1> QED
  BY <1>1, <1>2, SubSeqProperties

(* The frame of the innermost block is one of the array's. *)
LEMMA TopFrame ==
  ASSUME IInv
  PROVE  /\ E4C_MAX_FRAMES \in Nat /\ frames \in 0..E4C_MAX_FRAMES
         /\ frames = Len(live) /\ live \in Seq(Live)
         /\ \A i \in 0..E4C_MAX_FRAMES : /\ frame[i] \in Frames
                                         /\ frame[i].stage \in 0..4
                                         /\ frame[i].uncaught \in BOOLEAN
BY TypesAssumption DEF IInv, TypeOK, FramesFollowBlocks, Frames

(* What a throw in the code of the blocks does to the context. *)
LEMMA ThrowKept ==
  ASSUME IInv, at = "code", NEW t \in Types, e4c_throw(t)
  PROVE  IInv'
<1>1. e4c_propagate(frames, frame) /\ err' = t /\ jump' = jump
  BY DEF e4c_throw
<1>2. frames \in 0..frames /\ frame \in [0..E4C_MAX_FRAMES -> Frames]
  BY DEF IInv, TypeOK
<1> DEFINE n == frames
<1>3. /\ frames' = n
      /\ frame' \in [0..E4C_MAX_FRAMES -> Frames]
      /\ frame'[n].stage = frame[n].stage /\ frame'[n].uncaught
      /\ \A i \in 0..E4C_MAX_FRAMES : i # n => frame'[i] = frame[i]
      /\ live' = SubSeq(live, 1, n)
      /\ at' = IF n = 0 THEN "exit" ELSE "hook"
  BY <1>1, <1>2, Propagated
<1>4. live' \in Seq(Live) /\ Len(live') = n /\ \A i \in 1..n : live'[i] = live[i]
  BY <1>2, <1>3, LivePrefix
<1>5. TypeOK'
  BY <1>1, <1>3, <1>4 DEF IInv, TypeOK
<1>6. FramesFollowBlocks'
  BY <1>1, <1>3, <1>4, TopFrame DEF IInv, FramesFollowBlocks
<1>7. StagesEntered'
  <2>1. \A i \in 1..n : Entered(i)
    BY TopFrame DEF IInv, StagesEntered
  <2>2. \A i \in 1..n - 1 : Entered(i)'
    BY <1>3, <2>1, TopFrame DEF Entered
  <2>3. n > 0 => frame'[n].stage # beginning
    BY <1>3, <2>1, TopFrame DEF Entered, trying, beginning
  <2> QED
    BY <1>3, <2>2, <2>3, TopFrame DEF StagesEntered, Entered
<1> QED
  BY <1>5, <1>6, <1>7 DEF IInv
(* E4C_TRY below the limit: the new frame and jump buffer are those of the
   block it adds. *)
LEMMA TryKept ==
  ASSUME IInv, NEW c \in Catches, e4c_try(c)
  PROVE  IInv'
<1>1. CASE frames >= E4C_MAX_FRAMES
  BY <1>1, ThrowKept, TypesAssumption DEF e4c_try
<1>2. CASE ~(frames >= E4C_MAX_FRAMES)
  <2>1. PICK id \in Ids \ {live[i].id : i \in DOMAIN live} :
          /\ frames' = frames + 1
          /\ frame' = [frame EXCEPT ![frames + 1] =
                         [stage |-> beginning, uncaught |-> FALSE]]
          /\ jump' = [jump EXCEPT ![frames] = id]
          /\ live' = Append(live, [id |-> id, catches |-> c])
          /\ at' = "hook" /\ err' = err
    BY <1>2 DEF e4c_try
  <2> DEFINE n == frames + 1
             b == [id |-> id, catches |-> c]
  <2>2. n \in 1..E4C_MAX_FRAMES /\ frames \in 0..E4C_MAX_FRAMES - 1
    BY <1>2, TopFrame
  <2>3. live' \in Seq(Live) /\ Len(live') = n /\ live'[n] = b
        /\ \A i \in 1..frames : live'[i] = live[i]
    <3>1. b \in Live
      BY DEF Live
    <3> QED
      BY <2>1, <3>1, TopFrame, AppendProperties
  <2>4. [stage |-> beginning, uncaught |-> FALSE] \in Frames
    BY DEF Frames, beginning
  <2>5. /\ frame' \in [0..E4C_MAX_FRAMES -> Frames]
        /\ frame'[n] = [stage |-> beginning, uncaught |-> FALSE]
        /\ \A i \in 0..E4C_MAX_FRAMES : i # n => frame'[i] = frame[i]
    BY <2>1, <2>2, <2>4 DEF IInv, TypeOK
  <2>6. /\ jump' \in [0..E4C_MAX_FRAMES - 1 -> 0..E4C_MAX_FRAMES + 1]
        /\ jump'[frames] = id
        /\ \A i \in 0..E4C_MAX_FRAMES - 1 : i # frames => jump'[i] = jump[i]
    BY <2>1, <2>2, TypesAssumption DEF IInv, TypeOK, Ids
  <2>7. TypeOK'
    BY <2>1, <2>2, <2>3, <2>5, <2>6 DEF IInv, TypeOK
  <2>8. FramesFollowBlocks'
    <3>1. \A i \in 1..frames : live[i].id # id
      BY <2>1, TopFrame
    <3>2. \A i \in 1..frames : live'[i] = live[i]
      BY <2>3
    <3>3. live'[n].id = id
      BY <2>3
    <3>4. \A i \in 1..n : i = n \/ i \in 1..frames
      BY <2>2
    <3>5. \A i, j \in 1..n : live'[i].id = live'[j].id => i = j
      BY <3>1, <3>2, <3>3, <3>4 DEF IInv, FramesFollowBlocks
    <3>6. \A i \in 1..n : jump'[i - 1] = live'[i].id
      BY <2>2, <2>6, <3>2, <3>3, <3>4, TopFrame DEF IInv, FramesFollowBlocks
    <3> QED
      BY <2>1, <2>2, <2>3, <3>5, <3>6 DEF FramesFollowBlocks
  <2>9. StagesEntered'
    <3>1. at = "code"
      BY DEF e4c_try
    <3>2. \A i \in 1..frames : Entered(i)
      BY <3>1, TopFrame DEF IInv, StagesEntered
    <3>3. \A i \in 1..frames : frame'[i] = frame[i]
      BY <2>2, <2>5, TopFrame
    <3>4. ~frame'[n].uncaught
      BY <2>5
    <3> QED
      BY <2>1, <2>2, <3>2, <3>3, <3>4, TopFrame DEF StagesEntered, Entered
  <2> QED
    BY <2>7, <2>8, <2>9 DEF IInv
<1> QED
  BY <1>1, <1>2

(* What a round of the loop before the last stage does: the innermost frame
   goes to its next stage, and a handler that matches clears its mark. *)
LEMMA HookRan ==
  ASSUME IInv, HookRuns
  PROVE  LET catch == NextStage = catching /\ Caught
         IN  /\ frames \in 1..E4C_MAX_FRAMES
             /\ NextStage \in 1..3
             /\ frame' \in [0..E4C_MAX_FRAMES -> Frames]
             /\ frame'[frames].stage = NextStage
             /\ frame'[frames].uncaught <=> frame[frames].uncaught /\ ~catch
             /\ \A i \in 0..E4C_MAX_FRAMES : i # frames => frame'[i] = frame[i]
<1> DEFINE catch == NextStage = catching /\ Caught
<1>1. frames \in 1..E4C_MAX_FRAMES
  BY TopFrame DEF IInv, FramesFollowBlocks, HookRuns
<1>2. /\ frame \in [0..E4C_MAX_FRAMES -> Frames] /\ frames \in 0..E4C_MAX_FRAMES
      /\ frame[frames] \in Frames /\ frame[frames].stage \in 0..4
      /\ frame[frames].uncaught \in BOOLEAN
  BY <1>1, TopFrame DEF IInv, TypeOK
<1>3. NextStage \in 1..3
  BY <1>2 DEF HookRuns, NextStage, catching, done
<1>4. NextStage \in 0..4
  BY <1>3
<1> DEFINE one == [frame[frames] EXCEPT !.stage = NextStage]
           mark == IF catch THEN FALSE ELSE one.uncaught
           two == [one EXCEPT !.uncaught = mark]
<1>5. frame' = [frame EXCEPT ![frames].stage = NextStage,
                             ![frames].uncaught = IF catch THEN FALSE ELSE @]
  BY Zenon DEF HookRuns
<1>6. frame' = [[frame EXCEPT ![frames] = one] EXCEPT ![frames] = two]
  BY <1>2, <1>5, Zenon
<1>7. one \in Frames /\ one.stage = NextStage /\ one.uncaught = frame[frames].uncaught
  BY <1>2, <1>4, SetStage, Zenon
<1> HIDE DEF one
<1>8. mark \in BOOLEAN /\ (mark <=> frame[frames].uncaught /\ ~catch)
  BY <1>2, <1>7, Zenon
<1> HIDE DEF mark
<1>9. two \in Frames /\ two.stage = NextStage /\ two.uncaught = mark
  BY <1>7, <1>8, SetMark, Zenon
<1> HIDE DEF two
<1> HIDE DEF catch
<1>10. /\ frame' \in [0..E4C_MAX_FRAMES -> Frames] /\ frame'[frames] = two
       /\ \A i \in 0..E4C_MAX_FRAMES : i # frames => frame'[i] = frame[i]
  BY <1>2, <1>6, <1>7, <1>9
<1>11. frame'[frames].uncaught <=> frame[frames].uncaught /\ ~catch
  BY <1>8, <1>9, <1>10, Zenon
<1> QED
  BY <1>1, <1>3, <1>9, <1>10, <1>11 DEF catch

LEMMA HookRunsKept ==
  ASSUME IInv, HookRuns
  PROVE  IInv'
<1> DEFINE catch == NextStage = catching /\ Caught
<1>1. /\ frames \in 1..E4C_MAX_FRAMES /\ NextStage \in 1..3
      /\ frame' \in [0..E4C_MAX_FRAMES -> Frames]
      /\ frame'[frames].stage = NextStage
      /\ frame'[frames].uncaught <=> frame[frames].uncaught /\ ~catch
      /\ \A i \in 0..E4C_MAX_FRAMES : i # frames => frame'[i] = frame[i]
  BY HookRan
<1>2. frames' = frames /\ err' = err /\ jump' = jump /\ live' = live
      /\ at' = IF NextStage /= catching \/ catch THEN "code" ELSE "hook"
  BY DEF HookRuns
<1> HIDE DEF catch
<1>3. TypeOK'
  BY <1>1, <1>2 DEF IInv, TypeOK
<1>4. FramesFollowBlocks'
  BY <1>1, <1>2, TopFrame DEF IInv, FramesFollowBlocks
<1>5. StagesEntered'
  <2>1. \A i \in 1..frames - 1 : frame'[i] = frame[i]
    BY <1>1, TopFrame
  <2>2. NextStage = trying => ~frame[frames].uncaught
    <3>1. frame[frames].stage \in 0..4 /\ at = "hook"
      BY <1>1, TopFrame DEF HookRuns
    <3>2. NextStage = trying => frame[frames].stage = beginning
      BY <3>1 DEF NextStage, trying, beginning, catching
    <3> QED
      BY <3>1, <3>2 DEF IInv, StagesEntered
  <2>3. at' = "code" => Entered(frames)'
    BY <1>1, <1>2, <2>2 DEF Entered, trying, catching, finalizing
  <2>4. frame'[frames].stage # beginning
    BY <1>1 DEF beginning
  <2> QED
    BY <1>1, <1>2, <2>1, <2>3, <2>4 DEF StagesEntered, Entered, IInv
<1> QED
  BY <1>3, <1>4, <1>5 DEF IInv

(* What the last round of the loop does: the innermost frame and block go;
   an exception that was not caught propagates to the frame outside. *)
LEMMA HookEnded ==
  ASSUME IInv, HookEnds
  PROVE  /\ frames \in 1..E4C_MAX_FRAMES /\ frames' = frames - 1
         /\ frame[frames].stage = finalizing
         /\ frame' \in [0..E4C_MAX_FRAMES -> Frames]
         /\ \A i \in 0..E4C_MAX_FRAMES : i # frames => frame'[i].stage = frame[i].stage
         /\ \A i \in 0..E4C_MAX_FRAMES : i \notin {frames, frames - 1} => frame'[i] = frame[i]
         /\ frame'[frames - 1].uncaught <=>
               frame[frames].uncaught \/ frame[frames - 1].uncaught
         /\ live' = SubSeq(live, 1, frames - 1)
         /\ at' = IF ~frame[frames].uncaught THEN "code"
                  ELSE IF frames = 1 THEN "exit" ELSE "hook"
<1> DEFINE n == frames - 1
           fr == [frame EXCEPT ![frames].stage = done]
           top == frame[frames]
<1>1. frames \in 1..E4C_MAX_FRAMES /\ n \in 0..frames /\ n \in 0..E4C_MAX_FRAMES
  BY TopFrame DEF IInv, FramesFollowBlocks, HookEnds
<1>2. frame \in [0..E4C_MAX_FRAMES -> Frames] /\ frames \in 0..E4C_MAX_FRAMES
      /\ frames = Len(live)
  BY TopFrame DEF IInv, TypeOK
<1>3. top.stage \in 0..4 /\ top.uncaught \in BOOLEAN
  BY <1>1, TopFrame
<1>4. top.stage = finalizing
  BY <1>3 DEF HookEnds, NextStage, catching, done, finalizing
<1>5. fr \in [0..E4C_MAX_FRAMES -> Frames]
      /\ \A i \in 0..E4C_MAX_FRAMES : i # frames => fr[i] = frame[i]
  <2>1. done \in 0..4 /\ top \in Frames
    BY <1>2 DEF done
  <2>4. [top EXCEPT !.stage = done] \in Frames
    BY <2>1, Zenon DEF Frames
  <2>5. fr = [frame EXCEPT ![frames] = [top EXCEPT !.stage = done]]
    BY Zenon
  <2> HIDE DEF fr, top
  <2> DEFINE g == [top EXCEPT !.stage = done]
  <2>6. g \in Frames /\ fr = [frame EXCEPT ![frames] = g]
    BY <2>4, <2>5
  <2> HIDE DEF g
  <2> QED
    BY <1>2, <2>6
<1> HIDE DEF fr
<1>6. CASE ~top.uncaught
  <2>1. frames' = n /\ frame' = fr /\ live' = SubSeq(live, 1, Len(live) - 1) /\ at' = "code"
    BY <1>6, Zenon DEF HookEnds, fr
  <2> QED
    BY <1>1, <1>2, <1>4, <1>5, <1>6, <2>1
<1>7. CASE top.uncaught
  <2>1. e4c_propagate(n, fr)
    BY <1>7, Zenon DEF HookEnds, fr
  <2>2. /\ frames' = n
        /\ frame' \in [0..E4C_MAX_FRAMES -> Frames]
        /\ frame'[n].stage = fr[n].stage /\ frame'[n].uncaught
        /\ \A i \in 0..E4C_MAX_FRAMES : i # n => frame'[i] = fr[i]
        /\ live' = SubSeq(live, 1, n)
        /\ at' = IF n = 0 THEN "exit" ELSE "hook"
    BY <1>1, <1>5, <2>1, Propagated
  <2> QED
    BY <1>1, <1>2, <1>4, <1>5, <1>7, <2>2
<1> QED
  BY <1>3, <1>6, <1>7

LEMMA HookEndsKept ==
  ASSUME IInv, HookEnds
  PROVE  IInv'
<1> DEFINE n == frames - 1
<1>1. /\ frames \in 1..E4C_MAX_FRAMES /\ frames' = n
      /\ frame' \in [0..E4C_MAX_FRAMES -> Frames]
      /\ \A i \in 0..E4C_MAX_FRAMES : i # frames => frame'[i].stage = frame[i].stage
      /\ \A i \in 0..E4C_MAX_FRAMES : i \notin {frames, n} => frame'[i] = frame[i]
      /\ frame'[n].uncaught <=> frame[frames].uncaught \/ frame[n].uncaught
      /\ live' = SubSeq(live, 1, n)
      /\ at' = IF ~frame[frames].uncaught THEN "code"
               ELSE IF frames = 1 THEN "exit" ELSE "hook"
  BY HookEnded
<1>2. n \in 0..frames /\ n \in 0..E4C_MAX_FRAMES /\ n # frames
  BY <1>1, TopFrame
<1>3. live' \in Seq(Live) /\ Len(live') = n /\ \A i \in 1..n : live'[i] = live[i]
  BY <1>1, <1>2, LivePrefix
<1>4. err' = err /\ jump' = jump
  BY DEF HookEnds
<1>5. TypeOK'
  BY <1>1, <1>2, <1>3, <1>4 DEF IInv, TypeOK
<1>6. FramesFollowBlocks'
  BY <1>1, <1>2, <1>3, <1>4 DEF IInv, FramesFollowBlocks
<1>7. StagesEntered'
  <2>1. \A i \in 1..n : Entered(i)
    BY <1>1, <1>2 DEF IInv, StagesEntered
  <2>2. \A i \in 1..n - 1 : frame'[i] = frame[i]
    BY <1>1, <1>2, TopFrame
  <2>3. n > 0 => frame'[n].stage = frame[n].stage /\ frame'[n].stage # beginning
    BY <1>1, <1>2, <2>1, TopFrame DEF Entered, trying, beginning
  <2>4. at' = "code" /\ n > 0 =>
          /\ frame'[n].stage >= trying
          /\ frame'[n].uncaught => frame'[n].stage = finalizing
    BY <1>1, <1>2, <2>1, <2>3 DEF Entered
  <2>5. \A i \in 1..n - 1 : /\ frame'[i].stage >= trying
                            /\ frame'[i].uncaught => frame'[i].stage = finalizing
    BY <1>2, <2>1, <2>2, TopFrame DEF Entered
  <2>6. at' = "hook" => n > 0
    BY <1>1, TopFrame
  <2>7. frames' = n /\ n \in Int
    BY <1>1, <1>2, TopFrame
  <2>8. \A i \in 1..frames' - 1 : Entered(i)'
    BY <2>5, <2>7 DEF Entered
  <2>9. at' = "code" /\ frames' > 0 => Entered(frames)'
    BY <2>4, <2>7 DEF Entered
  <2>10. at' = "hook" => frame'[frames'].stage # beginning
    BY <2>3, <2>6, <2>7
  <2> QED
    BY <2>8, <2>9, <2>10 DEF StagesEntered, Entered
<1> QED
  BY <1>5, <1>6, <1>7 DEF IInv
LEMMA Initially == Init => IInv
<1> SUFFICES ASSUME Init PROVE IInv
  OBVIOUS
<1>1. [stage |-> beginning, uncaught |-> FALSE] \in Frames
  BY DEF Frames, beginning
<1>2. TypeOK
  BY <1>1, TypesAssumption DEF Init, TypeOK, Ids
<1> QED
  BY <1>2 DEF Init, IInv, FramesFollowBlocks, StagesEntered

LEMMA Inductive == IInv /\ [Next]_vars => IInv'
<1> SUFFICES ASSUME IInv, [Next]_vars PROVE IInv'
  OBVIOUS
<1>1. ASSUME NEW c \in Catches, e4c_try(c) PROVE IInv'
  BY <1>1, TryKept
<1>2. ASSUME NEW t \in Types, Throw(t) PROVE IInv'
  BY <1>2, ThrowKept DEF Throw
<1>3. CASE CodeEnds
  <2>1. frames' = frames /\ frame' = frame /\ err' = err /\ jump' = jump
        /\ live' = live /\ at' = "hook" /\ at = "code" /\ live # <<>>
    BY <1>3 DEF CodeEnds
  <2>2. frames > 0
    BY <2>1, TopFrame, EmptySeq
  <2>3. TypeOK'
    BY <2>1 DEF IInv, TypeOK
  <2>4. FramesFollowBlocks'
    BY <2>1, <2>2 DEF IInv, FramesFollowBlocks
  <2>5. StagesEntered'
    BY <2>1, <2>2, TopFrame DEF IInv, StagesEntered, Entered, trying, beginning
  <2> QED
    BY <2>3, <2>4, <2>5 DEF IInv
<1>4. CASE HookRuns
  BY <1>4, HookRunsKept
<1>5. CASE HookEnds
  BY <1>5, HookEndsKept
<1>6. CASE UNCHANGED vars
  BY <1>6 DEF vars, IInv, TypeOK, FramesFollowBlocks, StagesEntered, Entered
<1> QED
  BY <1>1, <1>2, <1>3, <1>4, <1>5, <1>6 DEF Next

(* The frames, the jump buffers and the stages keep their types, and the
   context follows the nesting of the blocks, in every state. *)
THEOREM ContextInvariant == Spec => []IInv
BY Initially, Inductive, PTL DEF Spec

(* e4c_propagate never jumps to a block that has ended: for any number of
   frames, any types and any handlers, the jump buffer of the innermost frame
   is the one set in the innermost block of the C program. *)
THEOREM JumpsSafe == Spec => []JumpsToLiveBlock
<1>1. IInv => JumpsToLiveBlock
  BY TypesAssumption DEF IInv, TypeOK, FramesFollowBlocks, JumpsToLiveBlock
<1> QED
  BY <1>1, ContextInvariant, PTL
-----------------------------------------------------------------------------
(* The refinement.  Blocks, running and exited as the context gives them.  *)
Block == [catches : SUBSET Types, phase : {"try", "catch", "finally"},
          pending : SUBSET Types]
BlockAt(i) == [catches |-> live[i].catches, phase |-> Phase(i),
               pending |-> IF frame[i].uncaught THEN {err} ELSE {}]
Running == at = "code" \/ (at = "hook" /\ frame[frames].stage = beginning)

BlocksAre ==
    /\ Blocks \in Seq(Block) /\ Len(Blocks) = frames
    /\ \A i \in 1..frames :
         /\ Blocks[i] \in Block
         /\ Blocks[i].catches = live[i].catches
         /\ Blocks[i].phase = Phase(i)
         /\ Blocks[i].pending = IF frame[i].uncaught THEN {err} ELSE {}

(* There is one abstract block for every frame in use. *)
LEMMA BlockPerFrame == IInv => BlocksAre
<1> SUFFICES ASSUME IInv PROVE BlocksAre
  OBVIOUS
<1>1. frames \in Nat /\ DOMAIN live = 1..frames /\ err \in Types
  BY TopFrame DEF IInv, TypeOK
<1>2. \A i \in 1..frames : live[i].catches \in SUBSET Types
  <2>1. \A i \in 1..frames : live[i] \in Live
    BY TopFrame, ElementOfSeq
  <2> QED
    BY <2>1, TypesAssumption DEF Live
<1>3. \A i \in 1..frames : Phase(i) \in {"try", "catch", "finally"}
  BY DEF Phase, catching, finalizing
<1>4. \A i \in 1..frames : BlockAt(i) \in Block
  BY <1>1, <1>2, <1>3 DEF BlockAt, Block
<1>5. Blocks = [i \in 1..frames |-> BlockAt(i)]
  BY <1>1 DEF Blocks, BlockAt
<1>6. Blocks \in [1..frames -> Block]
  BY <1>4, <1>5
<1>7. Blocks \in Seq(Block) /\ Len(Blocks) = frames
  BY <1>1, <1>6
<1>8. \A i \in 1..frames : Blocks[i] = BlockAt(i)
  BY <1>5
<1>9. \A i \in 1..frames : /\ BlockAt(i).catches = live[i].catches
                           /\ BlockAt(i).phase = Phase(i)
                           /\ BlockAt(i).pending = IF frame[i].uncaught THEN {err} ELSE {}
  BY Zenon DEF BlockAt
<1>10. \A i \in 1..frames : /\ Blocks[i].catches = live[i].catches
                            /\ Blocks[i].phase = Phase(i)
                            /\ Blocks[i].pending = IF frame[i].uncaught THEN {err} ELSE {}
  BY <1>8, <1>9, Zenon
<1>11. \A i \in 1..frames : Blocks[i] \in Block
  BY <1>4, <1>8
<1> QED
  BY <1>7, <1>10, <1>11, Zenon DEF BlocksAre

(* A block is what its three fields are. *)
LEMMA SameBlock ==
  ASSUME NEW b \in Block, NEW c \in Block,
         b.catches = c.catches, b.phase = c.phase, b.pending = c.pending
  PROVE  b = c
BY DEF Block

(* What an assignment to the phase or to the pending exceptions leaves. *)
LEMMA SetPhase ==
  ASSUME NEW b \in Block, NEW p \in {"try", "catch", "finally"}
  PROVE  /\ [b EXCEPT !.phase = p] \in Block /\ [b EXCEPT !.phase = p].phase = p
         /\ [b EXCEPT !.phase = p].catches = b.catches
         /\ [b EXCEPT !.phase = p].pending = b.pending
BY Zenon DEF Block

LEMMA SetPending ==
  ASSUME NEW b \in Block, NEW e \in SUBSET Types
  PROVE  /\ [b EXCEPT !.pending = e] \in Block /\ [b EXCEPT !.pending = e].pending = e
         /\ [b EXCEPT !.pending = e].catches = b.catches
         /\ [b EXCEPT !.pending = e].phase = b.phase
BY Zenon DEF Block

(* A sequence that agrees with s in front of its last place, and one that is
   s without its last place. *)
LEMMA LastChanged ==
  ASSUME NEW S, NEW s \in Seq(S), NEW t \in Seq(S), Len(s) > 0, Len(t) = Len(s),
         \A i \in 1..Len(s) - 1 : t[i] = s[i]
  PROVE  t = Append(SubSeq(s, 1, Len(s) - 1), t[Len(s)])
<1> DEFINE n == Len(s)
           o == SubSeq(s, 1, n - 1)
<1>1. n \in Nat /\ \A i \in 1..n : s[i] \in S /\ t[i] \in S
  BY ElementOfSeq
<1>2. o \in Seq(S) /\ Len(o) = n - 1 /\ \A i \in 1..n - 1 : o[i] = s[i]
  BY <1>1, SubSeqProperties
<1> HIDE DEF o
<1>3. Append(o, t[n]) \in Seq(S) /\ Len(Append(o, t[n])) = n
      /\ \A i \in 1..n : Append(o, t[n])[i] = t[i]
  BY <1>1, <1>2, AppendProperties
<1> QED
  BY <1>1, <1>3, SeqEqual DEF o

LEMMA LastRemoved ==
  ASSUME NEW S, NEW s \in Seq(S), NEW t \in Seq(S), Len(s) > 0, Len(t) = Len(s) - 1,
         \A i \in 1..Len(s) - 1 : t[i] = s[i]
  PROVE  t = SubSeq(s, 1, Len(s) - 1)
<1> DEFINE n == Len(s)
           o == SubSeq(s, 1, n - 1)
<1>1. n \in Nat /\ \A i \in 1..n : s[i] \in S
  BY ElementOfSeq
<1>2. o \in Seq(S) /\ Len(o) = n - 1 /\ \A i \in 1..n - 1 : o[i] = s[i]
  BY <1>1, SubSeqProperties
<1> QED
  BY <1>1, <1>2, SeqEqual
LEMMA LastPending ==
  ASSUME NEW s \in Seq(Block), NEW t \in Seq(Block), Len(s) > 0, Len(t) = Len(s),
         \A i \in 1..Len(s) - 1 : t[i] = s[i], NEW e \in Types,
         t[Len(s)].catches = s[Len(s)].catches, t[Len(s)].phase = s[Len(s)].phase,
         t[Len(s)].pending = {e}
  PROVE  t = [s EXCEPT ![Len(s)].pending = {e}]
<1> DEFINE n == Len(s)
           b == [s[n] EXCEPT !.pending = {e}]
<1>1. n \in Nat /\ n \in 1..n /\ s[n] \in Block /\ t[n] \in Block /\ {e} \in SUBSET Types
  BY ElementOfSeq
<1>2. b \in Block /\ b.pending = {e} /\ b.catches = s[n].catches /\ b.phase = s[n].phase
  BY <1>1, SetPending, Zenon
<1>3. [s EXCEPT ![n].pending = {e}] = [s EXCEPT ![n] = b]
  BY Zenon
<1> HIDE DEF b
<1>4. t[n] = b
  BY <1>1, <1>2, SameBlock
<1>5. [s EXCEPT ![n] = b] \in Seq(Block) /\ Len([s EXCEPT ![n] = b]) = n
      /\ \A i \in 1..n : [s EXCEPT ![n] = b][i] = t[i]
  BY <1>1, <1>2, <1>4, ExceptSeq
<1> QED
  BY <1>1, <1>3, <1>5, SeqEqual

(* A block whose frame and handlers a step leaves alone, and whose exception
   does not wait or does not change, is left alone. *)
LEMMA BlockLeft ==
  ASSUME IInv, IInv', NEW i \in 1..frames, i \in 1..frames',
         live'[i] = live[i], frame'[i] = frame[i],
         err' = err \/ ~frame[i].uncaught
  PROVE  Blocks'[i] = Blocks[i]
<1>1. BlocksAre /\ BlocksAre'
  BY BlockPerFrame, PTL
<1>2. /\ Blocks[i] \in Block
      /\ Blocks[i].catches = live[i].catches
      /\ Blocks[i].phase = Phase(i)
      /\ Blocks[i].pending = IF frame[i].uncaught THEN {err} ELSE {}
  BY <1>1, Zenon DEF BlocksAre
<1>3. /\ Blocks'[i] \in Block
      /\ Blocks'[i].catches = live'[i].catches
      /\ Blocks'[i].phase = Phase(i)'
      /\ Blocks'[i].pending = IF frame'[i].uncaught THEN {err'} ELSE {}
  BY <1>1, Zenon DEF BlocksAre
<1>4. Phase(i)' = Phase(i)
  BY Zenon DEF Phase
<1>5. Blocks'[i].pending = Blocks[i].pending
  BY <1>2, <1>3
<1> QED
  BY <1>2, <1>3, <1>4, <1>5, SameBlock

(* A throw in the code of the innermost block is TrySpec's: the exception is
   pending there, and Keeps makes the new err harmless to the frames outside. *)
LEMMA ThrowMeansRaise ==
  ASSUME IInv, IInv', at = "code", NEW t \in Types, e4c_throw(t)
  PROVE  Promise!Raise(Blocks, t)
<1> DEFINE n == frames
<1>1. e4c_propagate(frames, frame) /\ err' = t /\ jump' = jump
  BY DEF e4c_throw
<1>2. n \in 0..frames /\ frame \in [0..E4C_MAX_FRAMES -> Frames] /\ n \in Nat
  BY TopFrame DEF IInv, TypeOK
<1>3. /\ frames' = n
      /\ frame'[n].stage = frame[n].stage /\ frame'[n].uncaught
      /\ \A i \in 0..E4C_MAX_FRAMES : i # n => frame'[i] = frame[i]
      /\ live' = SubSeq(live, 1, n)
      /\ at' = IF n = 0 THEN "exit" ELSE "hook"
  BY <1>1, <1>2, Propagated
<1>4. \A i \in 1..n : live'[i] = live[i]
  BY <1>2, <1>3, LivePrefix
<1>5. \A i \in 1..n : Entered(i)
  BY TopFrame DEF IInv, StagesEntered
<1>6. \A i \in 1..n - 1 : ~frame[i].uncaught
  BY <1>2, <1>5 DEF e4c_throw, Keeps, Entered
<1>7. BlocksAre /\ BlocksAre'
  BY BlockPerFrame, PTL
<1>8. Blocks \in Seq(Block) /\ Blocks' \in Seq(Block) /\ Len(Blocks) = n /\ Len(Blocks') = n
  BY <1>3, <1>7 DEF BlocksAre
<1>9. CASE n = 0
  <2>1. Blocks = <<>> /\ Blocks' = <<>>
    BY <1>8, <1>9
  <2>2. at' = "exit"
    BY <1>3, <1>9
  <2> QED
    BY <2>1, <2>2 DEF Promise!Raise
<1>10. CASE n # 0
  <2>1. \A i \in 1..n - 1 : Blocks'[i] = Blocks[i]
    <3> SUFFICES ASSUME NEW i \in 1..n - 1 PROVE Blocks'[i] = Blocks[i]
      OBVIOUS
    <3>1. i \in 1..frames /\ i \in 1..frames' /\ i \in 0..E4C_MAX_FRAMES /\ i # n
      BY <1>2, <1>3, TopFrame
    <3>2. frame'[i] = frame[i] /\ live'[i] = live[i] /\ ~frame[i].uncaught
      BY <1>3, <1>4, <1>6, <3>1
    <3> QED
      BY <3>1, <3>2, BlockLeft
  <2>2. Blocks'[n].catches = Blocks[n].catches /\ Blocks'[n].phase = Blocks[n].phase
        /\ Blocks'[n].pending = {t}
    <3>1. n \in 1..n /\ live'[n] = live[n]
      BY <1>2, <1>4, <1>10
    <3>2. Blocks[n].catches = live[n].catches /\ Blocks[n].phase = Phase(n)
      BY <1>7, <3>1, Zenon DEF BlocksAre
    <3>3. /\ Blocks'[n].catches = live'[n].catches /\ Blocks'[n].phase = Phase(n)'
          /\ Blocks'[n].pending = IF frame'[n].uncaught THEN {err'} ELSE {}
      BY <1>3, <1>7, <3>1, Zenon DEF BlocksAre
    <3>4. Phase(n)' = Phase(n)
      BY <1>3, Zenon DEF Phase
    <3> QED
      BY <1>1, <1>3, <3>1, <3>2, <3>3, <3>4
  <2>3. Blocks' = [Blocks EXCEPT ![Len(Blocks)].pending = {t}]
    <3>1. Len(Blocks) > 0 /\ Len(Blocks') = Len(Blocks)
          /\ \A i \in 1..Len(Blocks) - 1 : Blocks'[i] = Blocks[i]
      BY <1>2, <1>8, <1>10, <2>1
    <3>2. /\ Blocks'[Len(Blocks)].catches = Blocks[Len(Blocks)].catches
          /\ Blocks'[Len(Blocks)].phase = Blocks[Len(Blocks)].phase
          /\ Blocks'[Len(Blocks)].pending = {t}
      BY <1>8, <2>2
    <3> QED
      BY <1>8, <3>1, <3>2, LastPending, Zenon
  <2>4. at' = "hook" /\ at = "code" /\ frame'[frames'].stage # beginning
    BY <1>2, <1>3, <1>5, <1>10 DEF Entered, trying, beginning
  <2>5. Blocks # <<>>
    BY <1>8, <1>10
  <2> QED
    BY <2>3, <2>4, <2>5, Zenon DEF Promise!Raise
<1> QED
  BY <1>9, <1>10
(* The handlers E4C_CATCH finds by e4c_extends are those that name a type the
   exception may be handled by. *)
LEMMA CaughtMeansHandles ==
  ASSUME IInv, frames > 0
  PROVE  Caught <=> Promise!Handles(err)
<1> DEFINE H(t) == {t} \cup {p \in Types : e4c_extends(t, p)}
           C == live[Len(live)].catches
<1>1. frames \in 1..frames /\ Len(Blocks) = frames /\ Len(live) = frames
  BY BlockPerFrame, TopFrame DEF BlocksAre
<1>2. Blocks[Len(Blocks)].catches = C /\ C \in SUBSET Types
  <2>1. Blocks[frames] \in Block /\ Blocks[frames].catches = live[frames].catches
    BY <1>1, BlockPerFrame, Zenon DEF BlocksAre
  <2>2. Blocks[frames].catches \in SUBSET Types
    BY <2>1 DEF Block
  <2> QED
    BY <1>1, <2>1, <2>2
<1>3. err \in Types
  BY DEF IInv, TypeOK
<1>4. Promise!Handles(err) <=> C \cap H(err) # {}
  BY <1>2, <1>3, Zenon DEF Promise!Handles, Promise!top
<1>5. Caught <=> \E t \in C : err = t \/ e4c_extends(err, t)
  BY DEF Caught, E4C_IS_INSTANCE_OF
<1> QED
  BY <1>2, <1>4, <1>5, Zenon

(* E4C_TRY begins a block, or throws at the limit. *)
LEMMA TryMeansBegin ==
  ASSUME IInv, IInv', NEW c \in Catches, e4c_try(c)
  PROVE  Promise!Begin(c)
<1>1. at = "code" /\ frames \in 0..E4C_MAX_FRAMES /\ E4C_MAX_FRAMES \in Nat
  BY TopFrame DEF e4c_try
<1>2. BlocksAre /\ BlocksAre'
  BY BlockPerFrame, PTL
<1>3. Blocks \in Seq(Block) /\ Blocks' \in Seq(Block)
      /\ Len(Blocks) = frames /\ Len(Blocks') = frames'
  BY <1>2 DEF BlocksAre
<1>4. CASE frames >= E4C_MAX_FRAMES
  <2>1. Promise!Raise(Blocks, RuntimeException)
    BY <1>1, <1>4, ThrowMeansRaise, TypesAssumption DEF e4c_try
  <2>2. Len(Blocks) = E4C_MAX_FRAMES
    BY <1>1, <1>3, <1>4
  <2> QED
    BY <1>1, <2>1, <2>2, Zenon DEF Promise!Begin
<1>5. CASE ~(frames >= E4C_MAX_FRAMES)
  <2>1. PICK id \in Ids \ {live[i].id : i \in DOMAIN live} :
          /\ frames' = frames + 1
          /\ frame' = [frame EXCEPT ![frames + 1] =
                         [stage |-> beginning, uncaught |-> FALSE]]
          /\ live' = Append(live, [id |-> id, catches |-> c])
          /\ at' = "hook" /\ err' = err
    BY <1>5 DEF e4c_try
  <2> DEFINE n == frames + 1
             b == [id |-> id, catches |-> c]
             new == [catches |-> c, phase |-> "try", pending |-> {}]
  <2>2. n \in 1..E4C_MAX_FRAMES /\ n \in 1..frames'
    BY <1>1, <1>5, <2>1
  <2>3. live'[n] = b /\ \A i \in 1..frames : live'[i] = live[i]
    <3>1. b \in Live
      BY DEF Live
    <3> QED
      BY <2>1, <3>1, TopFrame, AppendProperties
  <2>4. /\ frame'[n] = [stage |-> beginning, uncaught |-> FALSE]
        /\ \A i \in 1..frames : frame'[i] = frame[i]
    BY <1>1, <2>1, <2>2 DEF IInv, TypeOK
  <2>5. \A i \in 1..frames : Blocks'[i] = Blocks[i]
    <3> SUFFICES ASSUME NEW i \in 1..frames PROVE Blocks'[i] = Blocks[i]
      OBVIOUS
    <3>1. i \in 1..frames'
      BY <1>1, <2>1
    <3> QED
      BY <2>1, <2>3, <2>4, <3>1, BlockLeft
  <2>6. Blocks'[n] = new
    <3>1. frames' = n
      BY <2>1
    <3>2. /\ Blocks'[frames'] \in Block
          /\ Blocks'[frames'].catches = live'[frames'].catches
          /\ Blocks'[frames'].phase = Phase(frames)'
          /\ Blocks'[frames'].pending = IF frame'[frames'].uncaught THEN {err'} ELSE {}
      BY <1>2, <2>2, <3>1, Zenon DEF BlocksAre
    <3>3. frame'[frames'].stage = beginning /\ ~frame'[frames'].uncaught
      BY <2>4, <3>1
    <3>4. Phase(frames)' = "try"
      <4>1. frame'[frames'].stage # catching /\ frame'[frames'].stage # finalizing
        BY <3>3 DEF beginning, catching, finalizing
      <4> QED
        BY <4>1, Zenon DEF Phase
    <3>5. live'[frames'].catches = c
      BY <2>3, <3>1
    <3>6. new \in Block /\ new.catches = c /\ new.phase = "try" /\ new.pending = {}
      BY TypesAssumption DEF Block
    <3> HIDE DEF new
    <3>7. Blocks'[frames'] = new
      BY <3>2, <3>3, <3>4, <3>5, <3>6, SameBlock
    <3> QED
      BY <3>1, <3>7
  <2>7. new \in Block
    BY TypesAssumption DEF Block
  <2>8. Blocks' = Append(Blocks, new)
    <3> HIDE DEF new
    <3>1. Append(Blocks, new) \in Seq(Block) /\ Len(Append(Blocks, new)) = n
          /\ Append(Blocks, new)[n] = new
          /\ \A i \in 1..frames : Append(Blocks, new)[i] = Blocks[i]
      BY <1>3, <2>7, AppendProperties
    <3>2. \A i \in 1..n : i = n \/ i \in 1..frames
      BY <1>1
    <3>3. \A i \in 1..n : Append(Blocks, new)[i] = Blocks'[i]
      BY <2>5, <2>6, <3>1, <3>2
    <3> QED
      BY <1>3, <2>1, <3>1, <3>3, SeqEqual
  <2>9. frame'[frames'].stage = beginning
    BY <2>1, <2>4
  <2>10. Len(Blocks) # E4C_MAX_FRAMES
    BY <1>1, <1>3, <1>5
  <2> QED
    BY <1>1, <2>1, <2>8, <2>9, <2>10, Zenon DEF Promise!Begin
<1> QED
  BY <1>4, <1>5
(* The phase a stage shows as. *)
LEMMA PhaseOf ==
  ASSUME NEW i
  PROVE  /\ frame[i].stage \in {beginning, trying} => Phase(i) = "try"
         /\ frame[i].stage = catching => Phase(i) = "catch"
         /\ frame[i].stage = finalizing => Phase(i) = "finally"
<1>1. frame[i].stage \in {beginning, trying} =>
        frame[i].stage # catching /\ frame[i].stage # finalizing
  BY DEF beginning, trying, catching, finalizing
<1>2. catching # finalizing
  BY DEF catching, finalizing
<1> QED
  BY <1>1, <1>2, Zenon DEF Phase

LEMMA PhaseAfter ==
  ASSUME NEW i
  PROVE  /\ frame'[i].stage \in {beginning, trying} => Phase(i)' = "try"
         /\ frame'[i].stage = catching => Phase(i)' = "catch"
         /\ frame'[i].stage = finalizing => Phase(i)' = "finally"
<1>1. frame'[i].stage \in {beginning, trying} =>
        frame'[i].stage # catching /\ frame'[i].stage # finalizing
  BY DEF beginning, trying, catching, finalizing
<1>2. catching # finalizing
  BY DEF catching, finalizing
<1> QED
  BY <1>1, <1>2, Zenon DEF Phase

(* A round of the loop before the last stage shows as handling, not handling
   or finalizing the innermost block, and as nothing when the block starts. *)
LEMMA HookRunsMeans ==
  ASSUME IInv, IInv', HookRuns
  PROVE  \/ Promise!Handle \/ Promise!Unhandled \/ Promise!Finalize
         \/ UNCHANGED Promise!vars
<1> DEFINE catch == NextStage = catching /\ Caught
           n == Len(Blocks)
           top == Blocks[n]
           new == Blocks'[n]
<1>1. /\ frames \in 1..E4C_MAX_FRAMES /\ NextStage \in 1..3
      /\ frame'[frames].stage = NextStage
      /\ frame'[frames].uncaught <=> frame[frames].uncaught /\ ~catch
      /\ \A i \in 0..E4C_MAX_FRAMES : i # frames => frame'[i] = frame[i]
  BY HookRan
<1>2. frames' = frames /\ err' = err /\ live' = live /\ at = "hook"
      /\ at' = IF NextStage /= catching \/ catch THEN "code" ELSE "hook"
  BY DEF HookRuns
<1>3. BlocksAre /\ BlocksAre'
  BY BlockPerFrame, PTL
<1>4. Blocks \in Seq(Block) /\ Blocks' \in Seq(Block) /\ n = frames /\ Len(Blocks') = n
      /\ n \in Nat /\ n > 0 /\ n \in 1..frames /\ E4C_MAX_FRAMES \in Nat
  BY <1>1, <1>2, <1>3, TopFrame DEF BlocksAre
<1>5. /\ top \in Block /\ top.catches = live[n].catches /\ top.phase = Phase(n)
      /\ top.pending = IF frame[n].uncaught THEN {err} ELSE {}
  BY <1>3, <1>4, Zenon DEF BlocksAre
<1>6. /\ new \in Block /\ new.catches = live[n].catches
      /\ \A i : i = n => new.phase = Phase(i)'
      /\ new.pending = IF frame'[n].uncaught THEN {err} ELSE {}
  BY <1>2, <1>3, <1>4, Zenon DEF BlocksAre
<1>7. \A i \in 1..n - 1 : Blocks'[i] = Blocks[i]
  <2> SUFFICES ASSUME NEW i \in 1..n - 1 PROVE Blocks'[i] = Blocks[i]
    OBVIOUS
  <2>1. i \in 1..frames /\ i \in 1..frames' /\ i \in 0..E4C_MAX_FRAMES /\ i # frames
    BY <1>1, <1>2, <1>4
  <2> QED
    BY <1>1, <1>2, <2>1, BlockLeft
<1>8. Blocks' = Append(SubSeq(Blocks, 1, Len(Blocks) - 1), new)
  BY <1>4, <1>7, LastChanged
<1>9. frame[n].stage \in 0..4 /\ frame[n].uncaught \in BOOLEAN
  BY <1>1, <1>4, TopFrame
<1>10. /\ frame'[n].stage = NextStage
       /\ frame'[n].uncaught <=> frame[n].uncaught /\ ~catch
  BY <1>1, <1>4
<1>11. NextStage = IF frame[n].stage + 1 = catching /\ ~frame[n].uncaught
                   THEN frame[n].stage + 2 ELSE frame[n].stage + 1
  BY <1>4, <1>9 DEF NextStage
<1>12. \A i : i = n => /\ frame'[i].stage \in {beginning, trying} => new.phase = "try"
                       /\ frame'[i].stage = catching => new.phase = "catch"
                       /\ frame'[i].stage = finalizing => new.phase = "finally"
  BY <1>6, PhaseAfter, Zenon
<1>13. /\ frame[n].stage \in {beginning, trying} => top.phase = "try"
       /\ frame[n].stage = catching => top.phase = "catch"
  BY <1>5, PhaseOf, Zenon
<1>14. at # "exit" /\ at' # "exit" /\ at # "code"
  BY <1>2
<1> HIDE DEF new, top, catch
<1>15. CASE frame[n].stage = beginning
  <2>1. NextStage = trying /\ ~frame[n].uncaught
    <3>1. ~frame[n].uncaught
      BY <1>2, <1>4, <1>15 DEF IInv, StagesEntered
    <3> QED
      BY <1>11, <1>15, <3>1 DEF beginning, trying, catching
  <2>2. at' = "code"
    BY <1>2, <2>1 DEF trying, catching
  <2>3. new.phase = top.phase
    BY <1>10, <1>12, <1>13, <1>15, <2>1
  <2>4. new.pending = top.pending
    BY <1>5, <1>6, <1>10, <2>1
  <2>5. new = top
    BY <1>5, <1>6, <2>3, <2>4, SameBlock
  <2>6. Blocks' = Blocks
    <3>1. \A i \in 1..n : Blocks'[i] = Blocks[i]
      <4>1. \A i \in 1..n : i = n \/ i \in 1..n - 1
        BY <1>4
      <4> QED
        BY <1>7, <2>5, <4>1 DEF new, top
    <3> QED
      BY <1>4, <3>1, SeqEqual
  <2>7. frame[frames].stage = beginning
    BY <1>4, <1>15
  <2> QED
    BY <1>2, <2>2, <2>6, <2>7, Zenon DEF Promise!vars
<1>16. ASSUME frame[n].stage \in {trying, catching} PROVE Promise!Leaving
  <2>1. frame[frames].stage # beginning
    BY <1>4, <1>16 DEF beginning, trying, catching
  <2> QED
    BY <1>2, <1>14, <2>1 DEF Promise!Leaving
<1>17. CASE frame[n].stage = trying /\ frame[n].uncaught
  <2>1. NextStage = catching /\ frame'[n].stage = catching
    BY <1>10, <1>11, <1>17 DEF trying, catching
  <2>2. top.pending = {err} /\ top.phase = "try" /\ Promise!Leaving
    BY <1>5, <1>13, <1>16, <1>17
  <2>3. new.phase = "catch"
    BY <1>12, <2>1
  <2>4. CASE Caught
    <3>1. at' = "code" /\ ~frame'[n].uncaught
      BY <1>2, <1>10, <2>1, <2>4 DEF catch
    <3>2. Promise!Handles(err)
      BY <1>4, <2>4, CaughtMeansHandles
    <3>3. new = [top EXCEPT !.phase = "catch", !.pending = {}]
      <4> DEFINE one == [top EXCEPT !.phase = "catch"]
                 two == [one EXCEPT !.pending = {}]
      <4>1. one \in Block /\ one.phase = "catch" /\ one.catches = top.catches
        BY <1>5, SetPhase, Zenon
      <4> HIDE DEF one
      <4>2. two \in Block /\ two.phase = "catch" /\ two.catches = top.catches /\ two.pending = {}
        BY <4>1, SetPending, {} \in SUBSET Types, Zenon
      <4> HIDE DEF two
      <4>3. new = two
        BY <1>5, <1>6, <2>3, <3>1, <4>2, SameBlock
      <4> QED
        BY <4>3, Zenon DEF one, two
    <3> QED
      BY <1>8, <1>14, <2>2, <3>1, <3>2, <3>3, Zenon
         DEF Promise!Handle, Promise!WithTop, Promise!Outer, Promise!top, top
  <2>5. CASE ~Caught
    <3>1. at' = "hook" /\ frame'[n].uncaught
      BY <1>2, <1>10, <1>17, <2>1, <2>5 DEF catch
    <3>2. ~Promise!Handles(err)
      BY <1>4, <2>5, CaughtMeansHandles
    <3>3. new = [top EXCEPT !.phase = "catch"]
      <4> DEFINE one == [top EXCEPT !.phase = "catch"]
      <4>1. one \in Block /\ one.phase = "catch" /\ one.catches = top.catches
            /\ one.pending = top.pending
        BY <1>5, SetPhase, Zenon
      <4> HIDE DEF one
      <4>2. new.pending = top.pending
        BY <1>6, <2>2, <3>1
      <4>3. new = one
        BY <1>5, <1>6, <2>3, <4>1, <4>2, SameBlock
      <4> QED
        BY <4>3 DEF one
    <3>4. frame[frames].stage # beginning /\ frame'[frames'].stage # beginning
      BY <1>2, <1>4, <1>17, <2>1 DEF beginning, trying, catching
    <3> QED
      BY <1>2, <1>8, <1>14, <2>2, <3>1, <3>2, <3>3, <3>4, Zenon
         DEF Promise!Unhandled, Promise!WithTop, Promise!Outer, Promise!top, top
  <2> QED
    BY <2>4, <2>5
<1>18. CASE \/ frame[n].stage = trying /\ ~frame[n].uncaught
            \/ frame[n].stage = catching
  <2>1. NextStage = finalizing /\ frame'[n].stage = finalizing
    BY <1>9, <1>10, <1>11, <1>18 DEF trying, catching, finalizing
  <2>2. at' = "code" /\ (frame'[n].uncaught <=> frame[n].uncaught)
    BY <1>2, <1>10, <2>1 DEF catch, catching, finalizing
  <2>3. Promise!Leaving
    BY <1>16, <1>18
  <2>4. top.phase = "catch" \/ (top.phase = "try" /\ top.pending = {})
    BY <1>5, <1>13, <1>18
  <2>5. new = [top EXCEPT !.phase = "finally"]
    <3> DEFINE one == [top EXCEPT !.phase = "finally"]
    <3>1. one \in Block /\ one.phase = "finally" /\ one.catches = top.catches
          /\ one.pending = top.pending
      BY <1>5, SetPhase, Zenon
    <3> HIDE DEF one
    <3>2. new.pending = top.pending /\ new.phase = "finally"
      BY <1>5, <1>6, <1>12, <2>1, <2>2
    <3>3. new = one
      BY <1>5, <1>6, <3>1, <3>2, SameBlock
    <3> QED
      BY <3>3 DEF one
  <2> QED
    BY <1>8, <1>14, <2>2, <2>3, <2>4, <2>5, Zenon
       DEF Promise!Finalize, Promise!WithTop, Promise!Outer, Promise!top, top
<1> QED
  <2>1. frame[n].stage \in 0..2
    BY <1>1, <1>9, <1>11 DEF catching
  <2> QED
    BY <1>9, <1>15, <1>17, <1>18, <2>1 DEF beginning, trying, catching
(* The last round of the loop ends the innermost block; what it did not
   catch arrives in the block outside, or leaves the program. *)
LEMMA HookEndsMeansEnd ==
  ASSUME IInv, IInv', HookEnds
  PROVE  Promise!End
<1> DEFINE n == frames - 1
           outer == SubSeq(Blocks, 1, Len(Blocks) - 1)
<1>1. /\ frames \in 1..E4C_MAX_FRAMES /\ frames' = n
      /\ frame[frames].stage = finalizing
      /\ \A i \in 0..E4C_MAX_FRAMES : i # frames => frame'[i].stage = frame[i].stage
      /\ \A i \in 0..E4C_MAX_FRAMES : i \notin {frames, n} => frame'[i] = frame[i]
      /\ frame'[n].uncaught <=> frame[frames].uncaught \/ frame[n].uncaught
      /\ live' = SubSeq(live, 1, n)
      /\ at' = IF ~frame[frames].uncaught THEN "code"
               ELSE IF frames = 1 THEN "exit" ELSE "hook"
  BY HookEnded
<1>2. /\ n \in 0..frames /\ n \in Nat /\ frames \in Nat /\ frames > 0
      /\ frames \in 1..frames /\ E4C_MAX_FRAMES \in Nat
      /\ n \in 0..E4C_MAX_FRAMES /\ n # frames
  BY <1>1, TopFrame
<1>3. \A i \in 1..n : live'[i] = live[i]
  BY <1>1, <1>2, LivePrefix
<1>4. err' = err /\ at = "hook"
  BY DEF HookEnds
<1>5. BlocksAre /\ BlocksAre'
  BY BlockPerFrame, PTL
<1>6. Blocks \in Seq(Block) /\ Blocks' \in Seq(Block)
      /\ Len(Blocks) = frames /\ Len(Blocks') = n
  BY <1>1, <1>5 DEF BlocksAre
<1>7. Blocks[Len(Blocks)].phase = "finally"
      /\ Blocks[Len(Blocks)].pending = IF frame[frames].uncaught THEN {err} ELSE {}
  <2>1. Blocks[frames].phase = Phase(frames)
        /\ Blocks[frames].pending = IF frame[frames].uncaught THEN {err} ELSE {}
    BY <1>2, <1>5, Zenon DEF BlocksAre
  <2> QED
    BY <1>1, <1>6, <2>1, PhaseOf
<1>8. Promise!Leaving
  BY <1>1, <1>4 DEF Promise!Leaving, beginning, finalizing
<1>9. \A i \in 1..n - 1 : Blocks'[i] = Blocks[i]
  <2> SUFFICES ASSUME NEW i \in 1..n - 1 PROVE Blocks'[i] = Blocks[i]
    OBVIOUS
  <2>1. i \in 1..frames /\ i \in 1..frames' /\ i \in 0..E4C_MAX_FRAMES /\ i \notin {frames, n}
        /\ i \in 1..n
    BY <1>1, <1>2
  <2> QED
    BY <1>1, <1>3, <1>4, <2>1, BlockLeft
<1>10. outer \in Seq(Block) /\ Len(outer) = n /\ \A i \in 1..n : outer[i] = Blocks[i]
  <2>1. \A i \in 1..Len(Blocks) : Blocks[i] \in Block
    BY <1>6, ElementOfSeq
  <2>2. \A i \in 1..Len(Blocks) - 1 : Blocks[i] \in Block
    BY <1>2, <1>6, <2>1
  <2> QED
    BY <1>2, <1>6, <2>2, SubSeqProperties
<1> HIDE DEF outer
<1>11. CASE ~frame[frames].uncaught
  <2>1. \A i \in 1..n : Blocks'[i] = Blocks[i]
    <3> SUFFICES ASSUME NEW i \in 1..n, i = n PROVE Blocks'[i] = Blocks[i]
      <4>1. \A i \in 1..n : i = n \/ i \in 1..n - 1
        BY <1>2
      <4> QED
        BY <1>9, <4>1
    <3>1. i \in 1..frames /\ i \in 1..frames'
      BY <1>1, <1>2
    <3>2. /\ Blocks[i] \in Block /\ Blocks[i].catches = live[i].catches
          /\ Blocks[i].phase = Phase(i)
          /\ Blocks[i].pending = IF frame[i].uncaught THEN {err} ELSE {}
      BY <1>5, <3>1, Zenon DEF BlocksAre
    <3>3. /\ Blocks'[i] \in Block /\ Blocks'[i].catches = live'[i].catches
          /\ Blocks'[i].phase = Phase(i)'
          /\ Blocks'[i].pending = IF frame'[i].uncaught THEN {err'} ELSE {}
      BY <1>5, <3>1, Zenon DEF BlocksAre
    <3>4. frame'[i].stage = frame[i].stage /\ (frame'[i].uncaught <=> frame[i].uncaught)
      BY <1>1, <1>2, <1>11
    <3>5. Phase(i)' = Phase(i)
      BY <3>4, Zenon DEF Phase
    <3>6. Blocks'[i].pending = Blocks[i].pending
      BY <1>4, <3>2, <3>3, <3>4
    <3> QED
      BY <1>3, <3>2, <3>3, <3>5, <3>6, SameBlock
  <2>2. Blocks' = outer
    BY <1>6, <1>10, <2>1, SeqEqual
  <2>3. at' = "code" /\ Blocks[Len(Blocks)].pending = {}
    BY <1>1, <1>7, <1>11
  <2> QED
    BY <1>4, <1>7, <1>8, <2>2, <2>3, Zenon
       DEF Promise!End, Promise!top, Promise!Outer, outer
<1>12. CASE frame[frames].uncaught
  <2>1. Blocks[Len(Blocks)].pending = {err}
    BY <1>7, <1>12
  <2>2. Promise!Raise(outer, err)
    <3>1. CASE n = 0
      <4>1. outer = <<>> /\ Blocks' = <<>>
        BY <1>6, <1>10, <3>1
      <4>2. at' = "exit"
        BY <1>1, <1>2, <1>12, <3>1
      <4> QED
        BY <4>1, <4>2 DEF Promise!Raise
    <3>2. CASE n # 0
      <4>1. \A i : i = n => i \in 1..frames /\ i \in 1..frames' /\ i \in 1..n
        BY <1>1, <1>2, <3>2
      <4>2. \A i : i = n => /\ Blocks[i] \in Block /\ Blocks[i].catches = live[i].catches
                            /\ Blocks[i].phase = Phase(i)
        BY <1>5, <4>1, Zenon DEF BlocksAre
      <4>3. \A i : i = n => /\ Blocks'[i].catches = live'[i].catches
                            /\ Blocks'[i].phase = Phase(i)'
                            /\ Blocks'[i].pending = IF frame'[i].uncaught THEN {err'} ELSE {}
        BY <1>5, <4>1, Zenon DEF BlocksAre
      <4>4. \A i : i = n => frame'[i].stage = frame[i].stage /\ frame'[i].uncaught
        BY <1>1, <1>2, <1>12
      <4>5. \A i : i = n => Phase(i)' = Phase(i)
        BY <4>4, Zenon DEF Phase
      <4>6. /\ Blocks'[n].catches = outer[n].catches /\ Blocks'[n].phase = outer[n].phase
            /\ Blocks'[n].pending = {err} /\ outer[n] = Blocks[n]
        BY <1>3, <1>4, <1>10, <4>1, <4>2, <4>3, <4>4, <4>5
      <4>7. \A i \in 1..n - 1 : Blocks'[i] = outer[i]
        BY <1>2, <1>9, <1>10
      <4>8. Len(outer) > 0 /\ Len(Blocks') = Len(outer)
            /\ \A i \in 1..Len(outer) - 1 : Blocks'[i] = outer[i]
        BY <1>2, <1>6, <1>10, <3>2, <4>7
      <4>9. /\ Blocks'[Len(outer)].catches = outer[Len(outer)].catches
            /\ Blocks'[Len(outer)].phase = outer[Len(outer)].phase
            /\ Blocks'[Len(outer)].pending = {err}
        BY <1>10, <4>6
      <4>10. err \in Types
        BY DEF IInv, TypeOK
      <4>11. Blocks' = [outer EXCEPT ![Len(outer)].pending = {err}]
        BY <1>6, <1>10, <4>8, <4>9, <4>10, LastPending, Zenon
      <4>12. outer # <<>>
        BY <1>10, <3>2
      <4>13. at' = "hook" /\ frame'[frames'].stage # beginning
        <5>1. n \in 1..frames - 1 /\ n \in 0..E4C_MAX_FRAMES
          BY <1>2, <3>2
        <5>2. frame[n].stage >= trying
          BY <5>1 DEF IInv, StagesEntered, Entered
        <5>3. frame'[n].stage = frame[n].stage
          BY <1>1, <1>2
        <5>4. frame[n].stage \in 0..4
          BY <5>1, TopFrame
        <5> QED
          BY <1>1, <1>2, <1>12, <3>2, <5>2, <5>3, <5>4 DEF trying, beginning
      <4> QED
        BY <1>4, <4>11, <4>12, <4>13, Zenon DEF Promise!Raise
    <3> QED
      BY <3>1, <3>2
  <2> QED
    BY <1>7, <1>8, <2>1, <2>2, Zenon DEF Promise!End, Promise!top, Promise!Outer, outer
<1> QED
  BY <1>11, <1>12

LEMMA StepMeansTry == IInv /\ IInv' /\ [Next]_vars => [Promise!Next]_(Promise!vars)
<1> SUFFICES ASSUME IInv, IInv', [Next]_vars PROVE [Promise!Next]_(Promise!vars)
  OBVIOUS
<1>1. ASSUME NEW c \in Catches, e4c_try(c) PROVE Promise!Next
  BY <1>1, TryMeansBegin DEF Promise!Next
<1>2. ASSUME NEW t \in Types, Throw(t) PROVE Promise!Next
  <2>1. at = "code" /\ Promise!Raise(Blocks, t)
    BY <1>2, ThrowMeansRaise DEF Throw
  <2>2. Promise!Throw(t)
    BY <2>1, Zenon DEF Promise!Throw
  <2> QED
    BY <2>2 DEF Promise!Next
<1>3. CASE CodeEnds
  <2>1. frames' = frames /\ frame' = frame /\ err' = err
        /\ live' = live /\ at' = "hook" /\ at = "code" /\ live # <<>>
    BY <1>3 DEF CodeEnds
  <2>2. frames \in Nat /\ frames > 0
    BY <2>1, TopFrame, EmptySeq
  <2>3. Blocks # <<>>
    BY <2>2, BlockPerFrame DEF BlocksAre
  <2>4. Blocks' = Blocks
    BY <2>1, Zenon DEF Blocks, Phase
  <2>5. frame'[frames'].stage # beginning
    <3>1. frame[frames].stage \in 0..4 /\ frame[frames].stage >= trying
      BY <2>1, <2>2, TopFrame DEF IInv, StagesEntered, Entered
    <3> QED
      BY <2>1, <3>1 DEF trying, beginning
  <2>6. Promise!Finish
    BY <2>1, <2>3, <2>4, <2>5, Zenon DEF Promise!Finish
  <2> QED
    BY <2>6 DEF Promise!Next
<1>4. CASE HookRuns
  BY <1>4, HookRunsMeans DEF Promise!Next
<1>5. CASE HookEnds
  BY <1>5, HookEndsMeansEnd DEF Promise!Next
<1>6. CASE UNCHANGED vars
  <2>1. frames' = frames /\ frame' = frame /\ err' = err /\ live' = live /\ at' = at
    BY <1>6 DEF vars
  <2>2. Blocks' = Blocks
    BY <2>1, Zenon DEF Blocks, Phase
  <2> QED
    BY <2>1, <2>2, Zenon DEF Promise!vars
<1> QED
  BY <1>1, <1>2, <1>3, <1>4, <1>5, <1>6 DEF Next

(* The macros implement try, catch and finally: for any number of frames, any
   hierarchy of exception types and any handlers, the one global exception
   and the marks of the frames behave as TrySpec, where every block has an
   exception of its own. *)
THEOREM MacrosImplementTry == Spec => BlocksMeanTry
<1>1. Init => Promise!Init
  <2> SUFFICES ASSUME Init PROVE Promise!Init
    OBVIOUS
  <2>1. Len(Blocks) = 0 /\ Blocks \in Seq(Block)
    BY Initially, BlockPerFrame DEF BlocksAre, Init
  <2>2. Blocks = <<>>
    BY <2>1
  <2>3. at = "code"
    BY DEF Init
  <2> QED
    BY <2>2, <2>3 DEF Promise!Init
<1> QED
  BY <1>1, StepMeansTry, ContextInvariant, PTL DEF Spec, BlocksMeanTry, Promise!Spec
=============================================================================
