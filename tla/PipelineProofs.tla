--------------------------- MODULE PipelineProofs ---------------------------
(***************************************************************************)
(* Proofs about the receive pipeline, with either backend, for every       *)
(* finite set of AGC threads, any number of batches, and a stop at any     *)
(* moment or never.                                                        *)
(*                                                                         *)
(* Both inductive invariants fall into two parts.  Stage is about the AGC  *)
(* threads, the barrier and main; it is the same for both backends, which  *)
(* change no more of it than the half that is not handed over.  Flow and   *)
(* GpuFlow are about the batches on their way to agc_submit; of these the  *)
(* AGC threads and main change no more than whether agc_dead is taken and  *)
(* the submitter asleep.                                                   *)
(***************************************************************************)
EXTENDS FftwPipeline, GpuPipeline, FiniteSetTheorems, TLAPS

MainPlaces == {"up", "joinChannelizer", "wake", "barrierOff", "broadcast", "joinAgc", "done"}

Stage ==
  /\ StageTypeOK /\ mainPc \in MainPlaces
  /\ SeenOK /\ (barrierOn => BarrierOK) /\ StopOrder

-----------------------------------------------------------------------------
(* The AGC threads and their barrier *)

LEMMA StageAtStart == StageInit /\ mainPc = "up" => Stage
<1> SUFFICES ASSUME StageInit, mainPc = "up" PROVE Stage
  OBVIOUS
<1>1. /\ agcPc = [a \in Agc |-> "await"] /\ seen = [a \in Agc |-> <<>>] /\ handed = <<>>
      /\ arrived = 0 /\ dead = NoHalf /\ live = 0 /\ Handed = 0 /\ running /\ barrierOn
  BY DEF StageInit, Handed
<1>2. Waiting = {} /\ Lucky = {}
  BY <1>1 DEF Waiting, Lucky
<1>3. SeenOK
  BY <1>1 DEF SeenOK, ReadersSafe
<1>4. BarrierOK
  BY <1>1, <1>2, FS_EmptySet DEF BarrierOK, Between
<1>5. StageTypeOK
  BY DEF StageInit, StageTypeOK, Places, Halves, NoHalf
<1>6. QED
  BY <1>1, <1>3, <1>4, <1>5 DEF Stage, StopOrder, MainPlaces

\* What the backends do to the stage: they move the submitter, and write the
\* half that is not handed over.
LEMMA StageElsewhere ==
  ASSUME Stage, UNCHANGED <<running, live, dead, handed, agcPc, arrived, barrierOn, seen, mainPc>>,
         half' \in {half, [half EXCEPT ![live] = incoming]}, incoming' \in Nat,
         submitter' \in {"away", "copying", "handing", "waiting", "back", "gone"}
  PROVE  Stage'
<1>1. Waiting' = Waiting /\ Lucky' = Lucky /\ Handed' = Handed
  BY DEF Waiting, Lucky, Handed
<1>2. StageTypeOK'
  BY DEF Stage, StageTypeOK
<1>3. dead # NoHalf => half'[dead] = half[dead]
  BY DEF Stage, StageTypeOK, SeenOK, Halves, NoHalf
<1>4. SeenOK'
  BY <1>1, <1>3 DEF Stage, SeenOK, ReadersSafe
<1>5. (barrierOn => BarrierOK)'
  BY <1>1 DEF Stage, BarrierOK
<1>6. QED
  BY <1>2, <1>4, <1>5 DEF Stage, StopOrder

\* Whoever arrives is not among those who wait, and the count is right again:
\* either it waits too, or everybody else did and nobody waits any more.
LEMMA ArrivalsCounted ==
  ASSUME NEW a \in Agc, arrived = Cardinality(Waiting), a \notin Waiting
  PROVE  /\ IsFiniteSet(Waiting) /\ arrived \in Nat
         /\ Cardinality(Waiting \cup {a}) = arrived + 1
         /\ arrived + 1 >= Cardinality(Agc) => Waiting = Agc \ {a}
<1>1. IsFiniteSet(Waiting)
  BY AgcAssumption, FS_Subset DEF Waiting
<1>2. Cardinality(Waiting \cup {a}) = arrived + 1
  BY <1>1, FS_AddElement
<1>3. ASSUME arrived + 1 >= Cardinality(Agc) PROVE Waiting \cup {a} = Agc
  <2>1. Waiting \cup {a} \subseteq Agc
    BY DEF Waiting
  <2>2. Cardinality(Waiting \cup {a}) <= Cardinality(Agc)
    BY <2>1, AgcAssumption, FS_Subset
  <2>3. IsFiniteSet(Waiting \cup {a})
    BY <2>1, AgcAssumption, FS_Subset
  <2>4. Cardinality(Waiting \cup {a}) \in Nat /\ Cardinality(Agc) \in Nat
    BY <2>3, AgcAssumption, FS_CardinalityType
  <2>5. Cardinality(Waiting \cup {a}) = Cardinality(Agc)
    BY <1>2, <1>3, <2>2, <2>4
  <2>6. QED
    BY <2>1, <2>5, AgcAssumption, FS_Subset
<1>4. QED
  BY <1>1, <1>2, <1>3, FS_CardinalityType

\* The steps of an AGC thread.  The barrier keeps those who are behind it from
\* those who are not yet there: that is why "process" and "clear", which read
\* and give back agc_dead, never meet.
LEMMA StageAwaitBatch ==
  ASSUME Stage, UNCHANGED mainPc, NEW a \in Agc, AwaitBatch(a)
  PROVE  Stage'
<1> DEFINE to == IF ~running THEN "gone" ELSE IF dead = NoHalf THEN "asleep" ELSE "process"
<1>1. /\ agcPc[a] = "await" /\ agcPc' = [agcPc EXCEPT ![a] = to] /\ agcPc \in [Agc -> Places]
      /\ UNCHANGED <<running, half, live, dead, submitter, incoming, handed, arrived, barrierOn, seen>>
  BY DEF AwaitBatch, Goto, Stage, StageTypeOK
<1>2. to \in {"gone", "asleep", "process"} /\ (to = "gone" <=> ~running)
      /\ (to = "process" => running /\ dead # NoHalf)
  BY DEF Stage, StageTypeOK, StopOrder
<1>3. running => barrierOn
  BY DEF Stage, StageTypeOK, StopOrder
<1> HIDE DEF to
<1>4. agcPc' \in [Agc -> Places] /\ Handed' = Handed
  BY <1>1, <1>2 DEF Places, Handed
<1>5. Waiting' = Waiting /\ Lucky' = Lucky
  BY <1>1, <1>2 DEF Waiting, Lucky
<1>6. to = "process" => Len(seen[a]) = Handed - 1
  BY <1>1, <1>2, <1>3 DEF Stage, BarrierOK, BeforeFirst, Between, Lucky
<1>7. SeenOK'
  BY <1>1, <1>2, <1>4, <1>6 DEF Stage, SeenOK, ReadersSafe, NoHalf, Halves
<1>8. (barrierOn => BarrierOK)'
  BY <1>1, <1>2, <1>4, <1>5 DEF Stage, BarrierOK, BeforeFirst, Between
<1>9. QED
  BY <1>1, <1>2, <1>4, <1>7, <1>8 DEF Stage, StageTypeOK, StopOrder

LEMMA StageProcess ==
  ASSUME Stage, UNCHANGED mainPc, NEW a \in Agc, Process(a)
  PROVE  Stage'
<1>1. /\ agcPc[a] = "process" /\ agcPc' = [agcPc EXCEPT ![a] = "check1"] /\ agcPc \in [Agc -> Places]
      /\ UNCHANGED <<running, half, live, dead, submitter, incoming, handed, arrived, barrierOn>>
      /\ dead # NoHalf /\ seen \in [Agc -> Seq(Nat)] /\ handed \in Seq(Nat)
      /\ seen' = [seen EXCEPT ![a] = Append(seen[a], half[dead])] /\ half[dead] \in Nat
  BY DEF Process, Goto, Stage, StageTypeOK, NoHalf
<1>2. Len(seen[a]) = Handed - 1 /\ Handed \in Nat /\ half[dead] = handed[Handed] /\ dead # live
  BY <1>1 DEF Stage, SeenOK, ReadersSafe, Handed
<1>3. /\ agcPc' \in [Agc -> Places] /\ Handed' = Handed /\ seen' \in [Agc -> Seq(Nat)]
      /\ Len(seen'[a]) = Handed /\ seen'[a] = Append(seen[a], half[dead])
      /\ \A b \in Agc \ {a} : seen'[b] = seen[b] /\ agcPc'[b] = agcPc[b]
      /\ agcPc'[a] = "check1"
  BY <1>1, <1>2 DEF Places, Handed
<1>4. Waiting' = Waiting /\ Lucky' = Lucky
  BY <1>1 DEF Waiting, Lucky
<1>5. \A b \in Agc : agcPc[b] # "clear"
  BY <1>2, <1>1 DEF Stage, SeenOK
<1>6. ASSUME NEW b \in Agc, NEW k \in DOMAIN seen'[b] PROVE seen'[b][k] = handed[k]
  <2>1. CASE b = a
    BY <1>1, <1>2, <1>3, <1>6, <2>1 DEF Stage, SeenOK
  <2>2. CASE b # a
    BY <1>3, <1>6, <2>2 DEF Stage, SeenOK
  <2>3. QED
    BY <2>1, <2>2
<1>7. SeenOK'
  BY <1>1, <1>2, <1>3, <1>5, <1>6 DEF Stage, SeenOK, ReadersSafe
<1>8. (barrierOn => BarrierOK)'
  <2> SUFFICES ASSUME barrierOn PROVE BarrierOK'
    BY <1>1
  <2>1. BarrierOK /\ Lucky = {}
    BY <1>1, <1>2 DEF Stage, BarrierOK
  <2>2. QED
    BY <2>1, <1>1, <1>3, <1>4 DEF BarrierOK, BeforeFirst, Between
<1>9. StageTypeOK' /\ StopOrder'
  BY <1>1, <1>3 DEF Stage, StageTypeOK, StopOrder
<1>10. QED
  BY <1>7, <1>8, <1>9 DEF Stage

LEMMA StageCheckRunning ==
  ASSUME Stage, UNCHANGED mainPc, NEW a \in Agc,
         \/ CheckRunning(a, "check1", "enter1") \/ CheckRunning(a, "check2", "enter2")
  PROVE  Stage'
<1>1. PICK to \in {"enter1", "enter2", "gone"} :
      /\ agcPc' = [agcPc EXCEPT ![a] = to]
      /\ to = "enter1" => agcPc[a] = "check1"
      /\ to = "enter2" => agcPc[a] = "check2"
      /\ to = "gone" => ~running
      /\ agcPc[a] \in {"check1", "check2"}
      /\ UNCHANGED <<running, half, live, dead, submitter, incoming, handed, arrived, barrierOn, seen>>
  BY DEF CheckRunning, Goto
<1>2. agcPc \in [Agc -> Places] /\ agcPc' \in [Agc -> Places] /\ Handed' = Handed
  BY <1>1 DEF Stage, StageTypeOK, Places, Handed
<1>3. Waiting' = Waiting /\ Lucky' = Lucky
  BY <1>1, <1>2 DEF Waiting, Lucky
<1>4. SeenOK'
  BY <1>1, <1>2 DEF Stage, SeenOK, ReadersSafe
<1>5. (barrierOn => BarrierOK)'
  BY <1>1, <1>2, <1>3 DEF Stage, BarrierOK, BeforeFirst, Between
<1>6. QED
  BY <1>1, <1>2, <1>4, <1>5 DEF Stage, StageTypeOK, StopOrder

LEMMA StageLeave ==
  ASSUME Stage, UNCHANGED mainPc, NEW a \in Agc, Leave1(a) \/ Leave2(a)
  PROVE  Stage'
<1> DEFINE to == IF agcPc[a] \in {"last2", "passed2"} THEN "await"
                 ELSE IF agcPc[a] = "last1" /\ barrierOn THEN "clear" ELSE "check2"
<1>1. /\ agcPc' = [agcPc EXCEPT ![a] = to]
      /\ to \in {"clear", "check2", "await"}
      /\ to = "clear" => agcPc[a] = "last1" /\ barrierOn
      /\ to = "check2" => agcPc[a] = "passed1" \/ (agcPc[a] = "last1" /\ ~barrierOn)
      /\ to = "await" => agcPc[a] \in {"last2", "passed2"}
      /\ UNCHANGED <<running, half, live, dead, submitter, incoming, handed, arrived, barrierOn, seen>>
  BY DEF Leave1, Leave2, Goto
<1> HIDE DEF to
<1>2. agcPc \in [Agc -> Places] /\ agcPc' \in [Agc -> Places] /\ Handed' = Handed
  BY <1>1 DEF Stage, StageTypeOK, Places, Handed
<1>3. Waiting' = Waiting
  BY <1>1, <1>2 DEF Waiting
<1>4. barrierOn => Lucky' = Lucky
  BY <1>1, <1>2 DEF Lucky
<1>5. to = "clear" => /\ dead # NoHalf /\ \A b \in Agc : Len(seen[b]) = Handed
                      /\ \A b \in Agc : agcPc[b] = "clear" => b = a
  BY <1>1 DEF Stage, BarrierOK, Lucky
<1>6. SeenOK'
  BY <1>1, <1>2, <1>5 DEF Stage, SeenOK, ReadersSafe
<1>7. (barrierOn => BarrierOK)'
  BY <1>1, <1>2, <1>3, <1>4 DEF Stage, BarrierOK, BeforeFirst, Between
<1>8. QED
  BY <1>1, <1>2, <1>6, <1>7 DEF Stage, StageTypeOK, StopOrder

LEMMA StageClearDead ==
  ASSUME Stage, UNCHANGED mainPc, NEW a \in Agc, ClearDead(a)
  PROVE  Stage'
<1>1. /\ agcPc[a] = "clear" /\ agcPc' = [agcPc EXCEPT ![a] = "check2"] /\ dead' = NoHalf
      /\ UNCHANGED <<running, half, live, incoming, handed, arrived, barrierOn, seen>>
      /\ live \in Halves /\ submitter' \in {submitter, "handing"}
  BY DEF ClearDead, Goto, WokenSubmitter, Stage, StageTypeOK
<1>2. agcPc \in [Agc -> Places] /\ agcPc' \in [Agc -> Places] /\ Handed' = Handed /\ Handed \in Nat
  BY <1>1 DEF Stage, StageTypeOK, Places, Handed
<1>3. Waiting' = Waiting
  BY <1>1, <1>2 DEF Waiting
<1>4. \A b \in Agc : Len(seen[b]) = Handed /\ (agcPc[b] = "clear" => b = a)
  BY <1>1 DEF Stage, SeenOK
<1>5. \A b \in Agc : agcPc[b] # "process"
  BY <1>2, <1>4 DEF Stage, SeenOK
<1>6. SeenOK'
  BY <1>1, <1>2, <1>4, <1>5 DEF Stage, SeenOK, ReadersSafe
<1>7. ASSUME barrierOn PROVE BarrierOK'
  <2>1. Lucky' = {} /\ \A b \in Agc : agcPc[b] \notin BeforeFirst
    BY <1>1, <1>2, <1>7 DEF Stage, BarrierOK, Lucky, Between
  <2>2. QED
    BY <1>1, <1>2, <1>3, <1>4, <1>7, <2>1 DEF Stage, BarrierOK, BeforeFirst, Between
<1>8. QED
  BY <1>1, <1>2, <1>6, <1>7 DEF Stage, StageTypeOK, StopOrder

\* Whoever arrives at the barrier either waits there or lets everybody go, who
\* then have all been waiting for the same.
LEMMA StageArrive1 ==
  ASSUME Stage, UNCHANGED mainPc, NEW a \in Agc, Arrive(a, "enter1", "asleep1", "last1")
  PROVE  Stage'
<1>1. /\ agcPc[a] = "enter1" /\ agcPc \in [Agc -> Places] /\ arrived \in Nat
      /\ UNCHANGED <<running, half, live, dead, submitter, incoming, handed, barrierOn, seen>> /\ Handed' = Handed
  BY DEF Arrive, Stage, StageTypeOK, Handed
<1>2. CASE ~(arrived + 1 >= Cardinality(Agc))
  <2>1. arrived' = arrived + 1 /\ agcPc' = [agcPc EXCEPT ![a] = "asleep1"]
    BY <1>2 DEF Arrive, Goto
  <2>2. agcPc' \in [Agc -> Places]
    BY <1>1, <2>1 DEF Places
  <2>3. SeenOK'
    BY <1>1, <2>1, <2>2 DEF Stage, SeenOK, ReadersSafe
  <2>4. ASSUME barrierOn PROVE BarrierOK'
    <3>1. Waiting' = Waiting \cup {a} /\ Lucky' = Lucky /\ a \notin Waiting
      BY <1>1, <2>1 DEF Waiting, Lucky
    <3>2. BarrierOK
      BY <2>4 DEF Stage, StageTypeOK, StopOrder
    <3>3. arrived' = Cardinality(Waiting')
      BY <2>1, <3>1, <3>2, ArrivalsCounted DEF BarrierOK
    <3>4. QED
      BY <1>1, <2>1, <2>2, <3>1, <3>2, <3>3 DEF BarrierOK, BeforeFirst, Between
  <2>5. QED
    BY <1>1, <2>1, <2>2, <2>3, <2>4 DEF Stage, StageTypeOK, StopOrder
<1>3. CASE arrived + 1 >= Cardinality(Agc)
  <2>1. arrived' = 0 /\ agcPc' = [BarrierWoken EXCEPT ![a] = "last1"]
    BY <1>3 DEF Arrive
  <2>2. agcPc' = [b \in Agc |-> IF b = a THEN "last1" ELSE BarrierWoken[b]]
    BY <2>1 DEF BarrierWoken
  <2>3. /\ agcPc' \in [Agc -> Places]
        /\ \A b \in Agc : agcPc'[b] \in {"process", "clear"} => agcPc'[b] = agcPc[b]
    BY <1>1, <2>2 DEF BarrierWoken, Places
  <2>4. SeenOK'
    BY <1>1, <2>3 DEF Stage, SeenOK, ReadersSafe
  <2>5. running' => \A b \in Agc : agcPc'[b] # "gone"
    BY <1>1, <2>2 DEF Stage, StopOrder, BarrierWoken
  <2>6. ASSUME barrierOn PROVE BarrierOK'
    <3>1. BarrierOK /\ a \notin Waiting
      BY <1>1, <2>6 DEF Stage, Waiting
    <3>2. Waiting = Agc \ {a}
      BY <1>3, <3>1, ArrivalsCounted DEF BarrierOK
    <3>3. \A b \in Agc \ {a} : agcPc[b] = "asleep1"
      BY <1>1, <3>1, <3>2 DEF Waiting, BarrierOK, BeforeFirst, Between
    <3>4. agcPc' = [b \in Agc |-> IF b = a THEN "last1" ELSE "passed1"]
      BY <2>2, <3>3 DEF BarrierWoken
    <3>5. Waiting' = {} /\ Lucky' = {a}
      BY <3>4 DEF Waiting, Lucky
    <3>6. dead # NoHalf /\ \A b \in Agc : Len(seen[b]) = Handed
      BY <1>1, <3>1, <3>3 DEF BarrierOK
    <3>7. QED
      BY <1>1, <2>1, <3>4, <3>5, <3>6, FS_EmptySet DEF BarrierOK, BeforeFirst, Between
  <2>7. QED
    BY <1>1, <2>1, <2>3, <2>4, <2>5, <2>6 DEF Stage, StageTypeOK, StopOrder
<1>4. QED
  BY <1>2, <1>3

LEMMA StageArrive2 ==
  ASSUME Stage, UNCHANGED mainPc, NEW a \in Agc, Arrive(a, "enter2", "asleep2", "last2")
  PROVE  Stage'
<1>1. /\ agcPc[a] = "enter2" /\ agcPc \in [Agc -> Places] /\ arrived \in Nat
      /\ UNCHANGED <<running, half, live, dead, submitter, incoming, handed, barrierOn, seen>> /\ Handed' = Handed
  BY DEF Arrive, Stage, StageTypeOK, Handed
<1>2. CASE ~(arrived + 1 >= Cardinality(Agc))
  <2>1. arrived' = arrived + 1 /\ agcPc' = [agcPc EXCEPT ![a] = "asleep2"]
    BY <1>2 DEF Arrive, Goto
  <2>2. agcPc' \in [Agc -> Places]
    BY <1>1, <2>1 DEF Places
  <2>3. SeenOK'
    BY <1>1, <2>1, <2>2 DEF Stage, SeenOK, ReadersSafe
  <2>4. ASSUME barrierOn PROVE BarrierOK'
    <3>1. Waiting' = Waiting \cup {a} /\ Lucky' = Lucky /\ a \notin Waiting
      BY <1>1, <2>1 DEF Waiting, Lucky
    <3>2. BarrierOK
      BY <2>4 DEF Stage, StageTypeOK, StopOrder
    <3>3. arrived' = Cardinality(Waiting')
      BY <2>1, <3>1, <3>2, ArrivalsCounted DEF BarrierOK
    <3>4. QED
      BY <1>1, <2>1, <2>2, <3>1, <3>2, <3>3 DEF BarrierOK, BeforeFirst, Between
  <2>5. QED
    BY <1>1, <2>1, <2>2, <2>3, <2>4 DEF Stage, StageTypeOK, StopOrder
<1>3. CASE arrived + 1 >= Cardinality(Agc)
  <2>1. arrived' = 0 /\ agcPc' = [BarrierWoken EXCEPT ![a] = "last2"]
    BY <1>3 DEF Arrive
  <2>2. agcPc' = [b \in Agc |-> IF b = a THEN "last2" ELSE BarrierWoken[b]]
    BY <2>1 DEF BarrierWoken
  <2>3. /\ agcPc' \in [Agc -> Places]
        /\ \A b \in Agc : agcPc'[b] \in {"process", "clear"} => agcPc'[b] = agcPc[b]
    BY <1>1, <2>2 DEF BarrierWoken, Places
  <2>4. SeenOK'
    BY <1>1, <2>3 DEF Stage, SeenOK, ReadersSafe
  <2>5. running' => \A b \in Agc : agcPc'[b] # "gone"
    BY <1>1, <2>2 DEF Stage, StopOrder, BarrierWoken
  <2>6. ASSUME barrierOn PROVE BarrierOK'
    <3>1. BarrierOK /\ a \notin Waiting
      BY <1>1, <2>6 DEF Stage, Waiting
    <3>2. Waiting = Agc \ {a}
      BY <1>3, <3>1, ArrivalsCounted DEF BarrierOK
    <3>3. \A b \in Agc \ {a} : agcPc[b] = "asleep2"
      BY <1>1, <3>1, <3>2 DEF Waiting, BarrierOK, BeforeFirst, Between
    <3>4. agcPc' = [b \in Agc |-> IF b = a THEN "last2" ELSE "passed2"]
      BY <2>2, <3>3 DEF BarrierWoken
    <3>5. Waiting' = {} /\ Lucky' = {} /\ Lucky = {}
      BY <1>1, <3>3, <3>4 DEF Waiting, Lucky
    <3>6. \A b \in Agc : Len(seen[b]) = IF dead = NoHalf THEN Handed ELSE Handed - 1
      BY <1>1, <3>1, <3>3, <3>5 DEF BarrierOK
    <3>7. QED
      BY <1>1, <2>1, <3>4, <3>5, <3>6, FS_EmptySet DEF BarrierOK, BeforeFirst, Between
  <2>7. QED
    BY <1>1, <2>1, <2>3, <2>4, <2>5, <2>6 DEF Stage, StageTypeOK, StopOrder
<1>4. QED
  BY <1>2, <1>3

\* A batch is handed over when every thread has seen those before and none is
\* at work.
LEMMA StageHandOver ==
  ASSUME Stage, HandOver, UNCHANGED mainPc
  PROVE  Stage'
<1>1. CASE ~(running /\ dead = NoHalf)
  <2>1. /\ UNCHANGED <<running, half, live, dead, incoming, handed, agcPc, arrived, barrierOn, seen>>
        /\ submitter' \in {"waiting", "gone"}
    BY <1>1 DEF HandOver
  <2>2. QED
    BY <2>1, StageElsewhere DEF Stage, StageTypeOK
<1>2. CASE running /\ dead = NoHalf
  <2>1. /\ UNCHANGED <<running, half, incoming, arrived, barrierOn, seen>>
        /\ dead' = live /\ live' = 1 - live /\ handed' = Append(handed, half[live]) /\ submitter' = "back"
        /\ agcPc' = [a \in Agc |-> IF agcPc[a] = "asleep" THEN "await" ELSE agcPc[a]]
    BY <1>2 DEF HandOver
  <2>2. /\ handed \in Seq(Nat) /\ Handed \in Nat /\ live \in Halves /\ half[live] \in Nat
    BY DEF Stage, StageTypeOK, Handed
  <2>3. /\ handed' \in Seq(Nat) /\ Handed' = Handed + 1 /\ handed'[Handed + 1] = half[live]
        /\ \A k \in 1..Handed : handed'[k] = handed[k]
        /\ dead' # NoHalf /\ dead' = 1 - live' /\ live' \in Halves
    BY <2>1, <2>2 DEF Handed, Halves, NoHalf
  <2>4. /\ agcPc \in [Agc -> Places] /\ agcPc' \in [Agc -> Places]
        /\ \A a \in Agc : agcPc[a] # "gone" /\ agcPc'[a] # "gone"
    BY <1>2, <2>1 DEF Stage, StageTypeOK, StopOrder, Places
  <2>5. BarrierOK /\ barrierOn
    BY <1>2 DEF Stage, StopOrder
  <2>6. Lucky = {} /\ \A a \in Agc : agcPc[a] \notin {"process", "check1", "enter1", "asleep1", "clear"}
    BY <1>2, <2>5 DEF Stage, SeenOK, ReadersSafe, BarrierOK
  <2>7. \A a \in Agc : Len(seen[a]) = Handed
    BY <1>2, <2>4, <2>5, <2>6 DEF BarrierOK
  <2>8. Waiting' = Waiting /\ Lucky' = Lucky
    BY <2>1, <2>4 DEF Waiting, Lucky
  <2>9. ASSUME NEW a \in Agc, NEW k \in DOMAIN seen[a] PROVE seen[a][k] = handed'[k]
    <3>1. seen[a] \in Seq(Nat) /\ seen[a][k] = handed[k]
      BY DEF Stage, StageTypeOK, SeenOK
    <3>2. k \in 1..Handed
      BY <2>7, <3>1
    <3>3. QED
      BY <2>3, <3>1, <3>2
  <2>10. SeenOK'
    <3>1. \A a \in Agc : agcPc'[a] \notin {"process", "clear"}
      BY <2>1, <2>4, <2>6
    <3>2. dead' \in {NoHalf, 1 - live'} /\ Handed' >= 1 /\ half'[dead'] = handed'[Handed']
      BY <2>1, <2>2, <2>3
    <3>3. \A a \in Agc : Len(seen'[a]) \in {Handed' - 1, Handed'}
      BY <2>1, <2>2, <2>3, <2>7
    <3>4. QED
      BY <2>1, <2>9, <3>1, <3>2, <3>3 DEF SeenOK, ReadersSafe
  <2>11. BarrierOK'
    BY <2>1, <2>2, <2>3, <2>4, <2>5, <2>6, <2>7, <2>8 DEF BarrierOK, BeforeFirst, Between
  <2>12. StageTypeOK' /\ StopOrder'
    BY <2>1, <2>3, <2>4 DEF Stage, StageTypeOK, StopOrder
  <2>13. QED
    BY <2>10, <2>11, <2>12 DEF Stage
<1>3. QED
  BY <1>1, <1>2

\* deinit_threads wakes the threads that sleep, and takes the barrier away only
\* when none of them needs it any more to tell the batches apart.
LEMMA StageMain ==
  ASSUME Stage, Stop \/ Deinit
  PROVE  Stage'
<1>1. CASE Stop \/ JoinChannelizer \/ JoinAgcThreads
  <2>1. /\ UNCHANGED <<half, live, dead, submitter, incoming, handed, agcPc, arrived, barrierOn, seen>>
        /\ running' \in {running, FALSE} /\ mainPc' \in MainPlaces /\ StopOrder'
    <3>1. CASE Stop
      BY <3>1 DEF Stop, MainAt, StopRunning, Stage, StopOrder, MainPlaces
    <3>2. CASE JoinChannelizer
      BY <3>2 DEF JoinChannelizer, MainAt, stageVars, Stage, StageTypeOK, StopOrder, MainPlaces
    <3>3. CASE JoinAgcThreads
      BY <3>3 DEF JoinAgcThreads, MainAt, stageVars, Stage, StageTypeOK, StopOrder, MainPlaces
    <3>4. QED
      BY <1>1, <3>1, <3>2, <3>3
  <2>2. Handed' = Handed /\ Waiting' = Waiting /\ Lucky' = Lucky
    BY <2>1 DEF Handed, Waiting, Lucky
  <2>3. SeenOK' /\ (barrierOn => BarrierOK)'
    BY <2>1, <2>2 DEF Stage, SeenOK, ReadersSafe, BarrierOK
  <2>4. QED
    BY <2>1, <2>3 DEF Stage, StageTypeOK
<1>2. CASE MainWakes
  <2>1. /\ UNCHANGED <<running, half, live, dead, incoming, handed, arrived, barrierOn, seen>>
        /\ agcPc' = [a \in Agc |-> IF agcPc[a] = "asleep" THEN "await" ELSE agcPc[a]]
        /\ mainPc = "wake" /\ mainPc' = "barrierOff" /\ submitter' \in {submitter, "handing"}
        /\ agcPc \in [Agc -> Places] /\ Handed' = Handed
    BY <1>2 DEF MainWakes, MainAt, WakeStage, WokenSubmitter, Handed, Stage, StageTypeOK
  <2>2. agcPc' \in [Agc -> Places]
    BY <2>1 DEF Places
  <2>3. Waiting' = Waiting /\ Lucky' = Lucky
    BY <2>1 DEF Waiting, Lucky
  <2>4. SeenOK'
    BY <2>1, <2>2 DEF Stage, SeenOK, ReadersSafe
  <2>5. (barrierOn => BarrierOK)'
    BY <2>1, <2>2, <2>3 DEF Stage, BarrierOK, BeforeFirst, Between
  <2>6. StageTypeOK' /\ StopOrder'
    BY <2>1, <2>2 DEF Stage, StageTypeOK, StopOrder
  <2>7. QED
    BY <2>1, <2>4, <2>5, <2>6 DEF Stage, MainPlaces
<1>3. CASE MainBarrierOff
  <2>1. /\ UNCHANGED <<running, half, live, dead, submitter, incoming, handed, agcPc, arrived, seen>>
        /\ barrierOn' = FALSE /\ Handed' = Handed /\ mainPc = "barrierOff" /\ mainPc' = "broadcast"
    BY <1>3 DEF MainBarrierOff, MainAt, BarrierOff, Handed
  <2>2. SeenOK'
    BY <2>1 DEF Stage, SeenOK, ReadersSafe
  <2>3. QED
    BY <2>1, <2>2 DEF Stage, StageTypeOK, StopOrder, MainPlaces
<1>4. CASE MainBroadcasts
  <2>1. /\ UNCHANGED <<running, half, live, dead, submitter, incoming, handed, arrived, barrierOn, seen>>
        /\ agcPc' = BarrierWoken /\ ~barrierOn /\ ~running /\ agcPc \in [Agc -> Places]
        /\ mainPc = "broadcast" /\ mainPc' = "joinAgc" /\ Handed' = Handed
    BY <1>4 DEF MainBroadcasts, MainAt, BarrierBroadcast, Handed, Stage, StageTypeOK, StopOrder
  <2>2. /\ agcPc' \in [Agc -> Places]
        /\ \A b \in Agc : agcPc'[b] \in {"process", "clear"} => agcPc'[b] = agcPc[b]
    BY <2>1 DEF BarrierWoken, Places
  <2>3. SeenOK'
    BY <2>1, <2>2 DEF Stage, SeenOK, ReadersSafe
  <2>4. QED
    BY <2>1, <2>2, <2>3 DEF Stage, StageTypeOK, StopOrder, MainPlaces
<1>5. QED
  BY <1>1, <1>2, <1>3, <1>4 DEF Deinit

\* Whatever a backend does, an AGC thread keeps the stage in order.
LEMMA StageAgcStep ==
  ASSUME Stage, NEW a \in Agc, AgcStep(a)
  PROVE  Stage'
BY StageAwaitBatch, StageProcess, StageCheckRunning, StageArrive1, StageArrive2, StageLeave, StageClearDead
   DEF AgcStep, AgcThread

\* agc_dead is cleared by the lucky thread only, when every thread has seen its
\* batch.
LEMMA GivenBack ==
  ASSUME Stage, dead # NoHalf, dead' = NoHalf,
         CopyToLive \/ HandOver \/ (\E a \in Agc : AgcThread(a)) \/ Stop \/ Deinit
  PROVE  \A a \in Agc : seen[a] # <<>> /\ seen[a][Len(seen[a])] = half[dead]
<1>1. PICK b \in Agc : ClearDead(b)
  <2>1. live \in Halves /\ NoHalf \notin Halves
    BY DEF Stage, StageTypeOK, Halves, NoHalf
  <2>2. QED
    BY <2>1 DEF CopyToLive, HandOver, AgcThread, AwaitBatch, Process, CheckRunning, Arrive, Leave1, Leave2,
       Stop, StopRunning, Deinit, JoinChannelizer, JoinAgcThreads, MainWakes, WakeStage, MainBarrierOff,
       BarrierOff, MainBroadcasts, BarrierBroadcast, MainAt, stageVars
<1>2. Handed >= 1 /\ half[dead] = handed[Handed] /\ \A a \in Agc : Len(seen[a]) = Handed
  BY <1>1 DEF ClearDead, Stage, SeenOK
<1>3. ASSUME NEW a \in Agc PROVE seen[a] # <<>> /\ seen[a][Len(seen[a])] = half[dead]
  <2>1. seen[a] \in Seq(Nat) /\ Len(seen[a]) \in DOMAIN seen[a]
    BY <1>2 DEF Stage, StageTypeOK, Handed
  <2>2. QED
    BY <1>2, <2>1 DEF Stage, SeenOK
<1>4. QED
  BY <1>3

-----------------------------------------------------------------------------
(* FFTW: the way to agc_submit *)

Flow ==
  /\ half \in [Halves -> Nat] /\ live \in Halves /\ dead \in {NoHalf, 1 - live}
  /\ submitter \in {"away", "copying", "handing", "waiting", "back", "gone"}
  /\ incoming \in Nat /\ Handed \in Nat
  /\ state \in [Halves -> {"ready", "filling", "executing"}]
  /\ input \in [Halves -> Nat] /\ filled \in Nat
  /\ cur \in Halves /\ turn \in Halves
  /\ chPc \in {"next", "claim", "asleep", "fill", "gone"}
  /\ fftPc \in {"await", "asleep", "execute", "submit", "gone"}
  /\ WritersSafe /\ SleepersWait /\ BuffersInOrder /\ SubmitsDue

\* The invariant is its two parts, and the order the batches were handed over in.
LEMMA Parts == IInv <=> Flow /\ Stage /\ HandedInOrder
<1>1. IInv => Flow
  BY DEF IInv, Flow, TypeOK, BuffersTypeOK, StageTypeOK, SeenOK, Handed, Halves, NoHalf
<1>2. IInv => Stage /\ HandedInOrder
  BY DEF IInv, Stage, TypeOK, BuffersTypeOK, MainPlaces
<1>3. Flow /\ Stage /\ HandedInOrder => IInv
  BY DEF IInv, Flow, Stage, TypeOK, BuffersTypeOK, MainPlaces
<1>4. QED
  BY <1>1, <1>2, <1>3

\* Each step of the channelizer and of the FFT thread keeps Flow by itself.
LEMMA FlowInit == Init => Flow
<1>1. Init => Handed = 0
  BY DEF Init, BuffersInit, StageInit, Handed
<1>2. QED
  BY <1>1 DEF Init, BuffersInit, StageInit, Flow, WritersSafe, SleepersWait, BuffersInOrder, SubmitsDue, Due, Executing,
     FilledCur, Halves, NoHalf

LEMMA FlowNextBuffer == Flow /\ NextBuffer => Flow'
<1>1. NextBuffer => Handed' = Handed
  BY DEF NextBuffer, stageVars, Handed
<1>2. QED
  BY <1>1 DEF NextBuffer, stageVars, Flow, WritersSafe, SleepersWait, BuffersInOrder, SubmitsDue, Due, Executing,
     FilledCur, Halves, NoHalf

LEMMA FlowClaimBuffer == Flow /\ ClaimBuffer => Flow'
<1>1. ClaimBuffer => Handed' = Handed
  BY DEF ClaimBuffer, stageVars, Handed
<1>2. QED
  BY <1>1 DEF ClaimBuffer, stageVars, Flow, WritersSafe, SleepersWait, BuffersInOrder, SubmitsDue, Due, Executing,
     FilledCur, Halves, NoHalf

LEMMA FlowQuits == Flow /\ ChannelizerQuits => Flow'
<1>1. ChannelizerQuits => Handed' = Handed
  BY DEF ChannelizerQuits, stageVars, Handed
<1>2. QED
  BY <1>1 DEF ChannelizerQuits, stageVars, Flow, WritersSafe, SleepersWait, BuffersInOrder, SubmitsDue, Due, Executing,
     FilledCur, Halves, NoHalf

LEMMA FlowFillBuffer == Flow /\ FillBuffer => Flow'
<1>1. FillBuffer => Handed' = Handed
  BY DEF FillBuffer, stageVars, Handed
<1>2. QED
  BY <1>1 DEF FillBuffer, stageVars, Flow, WritersSafe, SleepersWait, BuffersInOrder, SubmitsDue, Due, Executing,
     FilledCur, Halves, NoHalf

LEMMA FlowAwaitBuffer == Flow /\ AwaitBuffer => Flow'
<1>1. AwaitBuffer => Handed' = Handed
  BY DEF AwaitBuffer, stageVars, Handed
<1>2. QED
  BY <1>1 DEF AwaitBuffer, stageVars, Flow, WritersSafe, SleepersWait, BuffersInOrder, SubmitsDue, Due, Executing,
     FilledCur, Halves, NoHalf

LEMMA FlowExecute == Flow /\ Execute => Flow'
<1>1. Execute => Handed' = Handed
  BY DEF Execute, Submit, Handed
<1>2. QED
  BY <1>1 DEF Execute, Submit, Flow, WritersSafe, SleepersWait, BuffersInOrder, SubmitsDue, Due, Executing,
     FilledCur, Halves, NoHalf

LEMMA FlowCopyBatch == Flow /\ CopyBatch => Flow'
<1>1. CopyBatch => Handed' = Handed
  BY DEF CopyBatch, CopyToLive, bufferVars, Handed
<1>2. QED
  BY <1>1 DEF CopyBatch, CopyToLive, bufferVars, Flow, WritersSafe, SleepersWait, BuffersInOrder, SubmitsDue, Due, Executing,
     FilledCur, Halves, NoHalf

LEMMA FlowFinishBuffer == Flow /\ FinishBuffer => Flow'
<1>1. FinishBuffer => Handed' = Handed
  BY DEF FinishBuffer, Handed
<1>2. QED
  BY <1>1 DEF FinishBuffer, Flow, WritersSafe, SleepersWait, BuffersInOrder, SubmitsDue, Due, Executing,
     FilledCur, Halves, NoHalf

LEMMA FlowHandBatchOver == Flow /\ handed \in Seq(Nat) /\ HandBatchOver => Flow'
<1> SUFFICES ASSUME Flow, handed \in Seq(Nat), HandBatchOver PROVE Flow'
  OBVIOUS
<1>1. CASE running /\ dead = NoHalf
  <2>1. handed' = Append(handed, half[live]) /\ half[live] \in Nat
    BY <1>1 DEF HandBatchOver, HandOver, Flow
  <2>2. Handed' = Handed + 1
    BY <2>1 DEF Handed
  <2>3. QED
    BY <1>1, <2>2 DEF HandBatchOver, HandOver, bufferVars, Flow, WritersSafe, SleepersWait, BuffersInOrder, SubmitsDue, Due, Executing,
       FilledCur, Halves, NoHalf
<1>2. CASE ~(running /\ dead = NoHalf)
  <2>1. Handed' = Handed
    BY <1>2 DEF HandBatchOver, HandOver, Handed
  <2>2. QED
    BY <1>2, <2>1 DEF HandBatchOver, HandOver, bufferVars, Flow, WritersSafe, SleepersWait, BuffersInOrder, SubmitsDue, Due, Executing,
       FilledCur, Halves, NoHalf
<1>3. QED
  BY <1>1, <1>2

\* The AGC threads and main change no more of it than this: they wake the
\* submitter and give its half back.
LEMMA FlowElsewhere ==
  ASSUME Flow, UNCHANGED <<half, live, incoming, handed>>, UNCHANGED bufferVars,
         dead' \in {dead, NoHalf}, submitter' \in {submitter, WokenSubmitter}
  PROVE  Flow'
<1>1. Handed' = Handed
  BY DEF Handed
<1>2. QED
  BY <1>1 DEF WokenSubmitter, bufferVars, Flow, WritersSafe, SleepersWait, BuffersInOrder, SubmitsDue, Due, Executing,
     FilledCur, Halves, NoHalf

\* So do they in all builds.
LEMMA AgcStepsAndMain ==
  ASSUME Stop \/ Deinit \/ \E a \in Agc : AgcStep(a)
  PROVE  /\ UNCHANGED <<half, live, incoming, handed>> /\ UNCHANGED bufferVars
         /\ dead' \in {dead, NoHalf} /\ submitter' \in {submitter, WokenSubmitter}
<1>1. CASE Stop \/ Deinit
  BY <1>1 DEF Stop, Deinit, JoinChannelizer, JoinAgcThreads, MainWakes, MainBarrierOff, MainBroadcasts,
     StopRunning, WakeStage, BarrierOff, BarrierBroadcast, MainAt, stageVars
<1>2. CASE \E a \in Agc : AgcStep(a)
  BY <1>2 DEF AgcStep, AgcThread, AwaitBatch, Process, CheckRunning, Arrive, Leave1, Leave2, ClearDead
<1>3. QED
  BY <1>1, <1>2

LEMMA FlowKept == Flow /\ handed \in Seq(Nat) /\ [Next]_vars => Flow'
<1>1. Flow /\ UNCHANGED vars => Flow'
  BY FlowElsewhere DEF vars, pipelineVars, stageVars
<1>2. Flow /\ (Stop \/ Deinit \/ \E a \in Agc : AgcStep(a)) => Flow'
  BY FlowElsewhere, AgcStepsAndMain
<1>3. QED
  BY <1>1, <1>2, FlowNextBuffer, FlowClaimBuffer, FlowQuits, FlowFillBuffer, FlowAwaitBuffer, FlowExecute,
     FlowCopyBatch, FlowHandBatchOver, FlowFinishBuffer DEF Next, Channelizer, FftThread

\* What was filled is what is handed over.
LEMMA InOrderKept ==
  ASSUME Flow, handed \in Seq(Nat), HandedInOrder, [Next]_vars
  PROVE  HandedInOrder'
<1>1. handed' = handed \/ (submitter = "handing" /\ handed' = Append(handed, half[live]))
  BY AgcStepsAndMain DEF Next, Channelizer, FftThread, NextBuffer, ClaimBuffer, ChannelizerQuits, FillBuffer,
     AwaitBuffer, Execute, Submit, CopyBatch, CopyToLive, HandBatchOver, HandOver, FinishBuffer,
     vars, pipelineVars, stageVars
<1>2. submitter = "handing" => half[live] = Len(handed) + 1
  BY DEF Flow, SubmitsDue, Handed
<1>3. QED
  BY <1>1, <1>2 DEF HandedInOrder

LEMMA StageKept ==
  ASSUME Flow, Stage, [Next]_vars
  PROVE  Stage'
<1>1. CASE NextBuffer \/ ClaimBuffer \/ ChannelizerQuits \/ FillBuffer \/ AwaitBuffer \/ UNCHANGED vars
  <2>1. UNCHANGED stageVars /\ UNCHANGED mainPc
    BY <1>1 DEF NextBuffer, ClaimBuffer, ChannelizerQuits, FillBuffer, AwaitBuffer, vars, pipelineVars
  <2>2. QED
    BY <2>1, StageElsewhere DEF stageVars, Stage, StageTypeOK
<1>2. CASE Execute \/ FinishBuffer
  <2>1. /\ UNCHANGED <<running, half, live, dead, handed, agcPc, arrived, barrierOn, seen, mainPc>>
        /\ submitter' \in {"away", "copying"} /\ incoming' \in Nat
    BY <1>2 DEF Execute, Submit, FinishBuffer, Flow
  <2>2. QED
    BY <2>1, StageElsewhere
<1>3. CASE CopyBatch
  BY <1>3, StageElsewhere DEF CopyBatch, CopyToLive, Stage, StageTypeOK
<1>4. CASE HandBatchOver
  BY <1>4, StageHandOver DEF HandBatchOver
<1>5. QED
  BY <1>1, <1>2, <1>3, <1>4, StageAgcStep, StageMain DEF Next, Channelizer, FftThread

-----------------------------------------------------------------------------
\* No FFT buffer and no half of agc_buffers is written while another thread
\* reads it, nobody sleeps on a buffer's condition that holds already, and the
\* barrier counts those who wait at it: for any number of AGC threads, and
\* whenever the program is stopped.
THEOREM PipelineAlwaysOK == Spec => []IInv
<1>1. Init => IInv
  <2>1. Init => HandedInOrder
    BY DEF Init, BuffersInit, StageInit, HandedInOrder
  <2>2. QED
    BY <2>1, FlowInit, StageAtStart, Parts DEF Init, BuffersInit
<1>2. ASSUME IInv, [Next]_vars PROVE IInv'
  <2>1. Flow /\ Stage /\ HandedInOrder /\ handed \in Seq(Nat)
    BY <1>2, Parts DEF Stage, StageTypeOK
  <2>2. Flow' /\ Stage' /\ HandedInOrder'
    BY <1>2, <2>1, FlowKept, StageKept, InOrderKept
  <2>3. (IInv <=> Flow /\ Stage /\ HandedInOrder)'
    BY Parts, PTL
  <2>4. QED
    BY <2>2, <2>3
<1>3. QED
  BY <1>1, <1>2, PTL DEF Spec

\* Every AGC thread looks at every batch once, in the order of the batches
\* (agc_submit and agc_thread, main.c:247-303 and 404-455).
THEOREM BatchesSeenOnce == Spec => []EveryBatchOnce
<1>1. IInv => EveryBatchOnce
  <2> SUFFICES ASSUME IInv, NEW a \in Agc, NEW k \in DOMAIN seen[a] PROVE seen[a][k] = k
    BY DEF EveryBatchOnce
  <2>1. Stage /\ HandedInOrder /\ handed \in Seq(Nat) /\ seen[a] \in Seq(Nat)
    BY Parts DEF Stage, StageTypeOK
  <2>2. seen[a][k] = handed[k] /\ Len(seen[a]) \in {Len(handed) - 1, Len(handed)}
    BY <2>1 DEF Stage, SeenOK, Handed
  <2>3. k \in DOMAIN handed
    BY <2>1, <2>2
  <2>4. QED
    BY <2>1, <2>2, <2>3 DEF HandedInOrder
<1>2. QED
  BY <1>1, PipelineAlwaysOK, PTL

\* Of the batches the channelizer has filled (fftw/fft.c, get_next_buffer) an
\* AGC thread has missed at most three: those in the two FFT buffers and the
\* one in agc_dead.
THEOREM NothingEverLost == Spec => []NothingLost
<1>1. IInv => NothingLost
  <2> SUFFICES ASSUME IInv, NEW a \in Agc PROVE filled <= Len(seen[a]) + 3
    BY DEF NothingLost
  <2>1. filled <= Handed + 2 /\ Handed \in Nat /\ filled \in Nat
    BY Parts DEF Flow, BuffersInOrder, Due, Executing, FilledCur, Halves
  <2>2. Len(seen[a]) \in {Handed - 1, Handed}
    BY DEF IInv, SeenOK
  <2>3. QED
    BY <2>1, <2>2
<1>2. QED
  BY <1>1, PipelineAlwaysOK, PTL

\* agc_dead is given back to the submitter only when every AGC thread has
\* looked at its batch (main.c:435-449): the barrier is what makes it so.
THEOREM HalvesGivenBackWhenDone == Spec => GivenBackWhenDone
<1>1. IInv /\ [Next]_vars =>
        [dead # NoHalf /\ dead' = NoHalf
           => \A a \in Agc : seen[a] # <<>> /\ seen[a][Len(seen[a])] = half[dead]]_stageVars
  <2> SUFFICES ASSUME IInv, [Next]_vars, dead # NoHalf, dead' = NoHalf
               PROVE  \A a \in Agc : seen[a] # <<>> /\ seen[a][Len(seen[a])] = half[dead]
    OBVIOUS
  <2>1. Stage
    BY Parts
  <2>2. NextBuffer \/ ClaimBuffer \/ ChannelizerQuits \/ FillBuffer \/ AwaitBuffer \/ Execute \/ FinishBuffer
          \/ UNCHANGED vars => dead' = dead
    BY DEF NextBuffer, ClaimBuffer, ChannelizerQuits, FillBuffer, AwaitBuffer, Execute, Submit, FinishBuffer,
       vars, pipelineVars, stageVars
  <2>3. CopyToLive \/ HandOver \/ (\E a \in Agc : AgcThread(a)) \/ Stop \/ Deinit
    BY <2>2 DEF Next, Channelizer, FftThread, CopyBatch, HandBatchOver, AgcStep
  <2>4. QED
    BY <2>1, <2>3, GivenBack
<1>2. QED
  BY <1>1, PipelineAlwaysOK, PTL DEF Spec, GivenBackWhenDone

-----------------------------------------------------------------------------
(* GPU: the way to agc_submit *)

GpuFlow ==
  /\ half \in [Halves -> Nat] /\ live \in Halves /\ dead \in {NoHalf, 1 - live}
  /\ submitter \in {"away", "copying", "handing", "waiting", "back", "gone"}
  /\ incoming \in Nat
  /\ state \in [Halves -> {"ready", "filling", "executing", "done"}]
  /\ input \in [Halves -> Nat] /\ filled \in Nat
  /\ cur \in Halves /\ turn \in Halves
  /\ chPc \in {"next", "claim", "asleep", "fill", "gone"}
  /\ fftPc \in {"await", "asleep", "execute", "deliver", "slotWait", "gone", "none"}
  /\ tail \in Nat /\ preRoll \in [Halves -> Nat] /\ copied \in Nat
  /\ build \in {"opencl", "metal"} /\ slot \in Halves \cup {NoBuffer}
  /\ handler \in [Halves -> {"idle", "gpu", "deliver", "slotWait", "gone"}]
  /\ dispPc \in {"await", "asleep", "call", "submit", "gone"}
  /\ WritersSafe /\ SleepersWait /\ ResultKept
  /\ FilledInTurn /\ PreRolled /\ OneWorker /\ SubmitsCopy

\* The invariant is its parts.
LEMMA GpuParts == GpuIInv <=> GpuFlow /\ Stage /\ CopiedOrOccupied
<1>1. GpuIInv => GpuFlow
  BY DEF GpuIInv, BuffersSafe, GpuFlow, GpuTypeOK, BuffersTypeOK, StageTypeOK, SeenOK, Halves, NoHalf
<1>2. GpuIInv => Stage /\ CopiedOrOccupied
  BY DEF GpuIInv, BuffersSafe, Stage, GpuTypeOK, BuffersTypeOK, MainPlaces
<1>3. GpuFlow /\ Stage /\ CopiedOrOccupied => GpuIInv
  BY DEF GpuIInv, BuffersSafe, GpuFlow, Stage, GpuTypeOK, BuffersTypeOK, SeenOK, MainPlaces
<1>4. QED
  BY <1>1, <1>2, <1>3

LEMMA GpuFlowInit == GpuInit => GpuFlow
BY DEF GpuInit, StageInit, GpuFlow, WritersSafe, SleepersWait, ResultKept,
     FilledInTurn, PreRolled, OneWorker, SubmitsCopy, Occupied, FilledCur, Halves, NoHalf, NoBuffer

LEMMA GpuFlowNextRawBuffer == GpuFlow /\ NextRawBuffer => GpuFlow'
BY DEF NextRawBuffer, NextBuffer, Committed, stageVars, GpuFlow, WritersSafe, SleepersWait, ResultKept,
     FilledInTurn, PreRolled, OneWorker, SubmitsCopy, Occupied, FilledCur, Halves, NoHalf, NoBuffer

LEMMA GpuFlowClaimRawBuffer == GpuFlow /\ ClaimRawBuffer => GpuFlow'
BY DEF ClaimRawBuffer, ClaimBuffer, stageVars, GpuFlow, WritersSafe, SleepersWait, ResultKept,
     FilledInTurn, PreRolled, OneWorker, SubmitsCopy, Occupied, FilledCur, Halves, NoHalf, NoBuffer

LEMMA GpuFlowQuits == GpuFlow /\ ChannelizerQuits /\ UNCHANGED gpuVars => GpuFlow'
BY DEF ChannelizerQuits, stageVars, gpuVars, GpuFlow, WritersSafe, SleepersWait, ResultKept,
     FilledInTurn, PreRolled, OneWorker, SubmitsCopy, Occupied, FilledCur, Halves, NoHalf, NoBuffer

LEMMA GpuFlowFill == GpuFlow /\ FillBuffer /\ UNCHANGED gpuVars => GpuFlow'
BY DEF FillBuffer, stageVars, gpuVars, GpuFlow, WritersSafe, SleepersWait, ResultKept,
     FilledInTurn, PreRolled, OneWorker, SubmitsCopy, Occupied, FilledCur, Halves, NoHalf, NoBuffer

LEMMA GpuFlowAwaitBuffer == GpuFlow /\ AwaitBuffer /\ UNCHANGED gpuVars => GpuFlow'
BY DEF AwaitBuffer, stageVars, gpuVars, GpuFlow, WritersSafe, SleepersWait, ResultKept,
     FilledInTurn, PreRolled, OneWorker, SubmitsCopy, Occupied, FilledCur, Halves, NoHalf, NoBuffer

LEMMA GpuFlowGpuStep == GpuFlow /\ (GpuFails \/ GpuDone) => GpuFlow'
BY DEF GpuFails, GpuDone, WorkerAt, stageVars, GpuFlow, WritersSafe, SleepersWait, ResultKept,
     FilledInTurn, PreRolled, OneWorker, SubmitsCopy, Occupied, FilledCur, Halves, NoHalf, NoBuffer

LEMMA GpuFlowDeliver == GpuFlow /\ Deliver => GpuFlow'
BY DEF Deliver, WorkerAt, FftDone, WokenDispatcher, stageVars, GpuFlow, WritersSafe, SleepersWait, ResultKept,
     FilledInTurn, PreRolled, OneWorker, SubmitsCopy, Occupied, FilledCur, Halves, NoHalf, NoBuffer

LEMMA GpuFlowAwaitResult == GpuFlow /\ AwaitResult => GpuFlow'
BY DEF AwaitResult, pipelineVars, stageVars, bufferVars, GpuFlow, WritersSafe, SleepersWait, ResultKept,
     FilledInTurn, PreRolled, OneWorker, SubmitsCopy, Occupied, FilledCur, Halves, NoHalf, NoBuffer

LEMMA GpuFlowTakeResult == GpuFlow /\ TakeResult => GpuFlow'
BY DEF TakeResult, SlotWaiterWoken, stageVars, GpuFlow, WritersSafe, SleepersWait, ResultKept,
     FilledInTurn, PreRolled, OneWorker, SubmitsCopy, Occupied, FilledCur, Halves, NoHalf, NoBuffer

LEMMA GpuFlowCallAgcSubmit == GpuFlow /\ CallAgcSubmit => GpuFlow'
BY DEF CallAgcSubmit, Submit, bufferVars, GpuFlow, WritersSafe, SleepersWait, ResultKept,
     FilledInTurn, PreRolled, OneWorker, SubmitsCopy, Occupied, FilledCur, Halves, NoHalf, NoBuffer

LEMMA GpuFlowAgcSubmitReturns == GpuFlow /\ AgcSubmitReturns => GpuFlow'
BY DEF AgcSubmitReturns, bufferVars, GpuFlow, WritersSafe, SleepersWait, ResultKept,
     FilledInTurn, PreRolled, OneWorker, SubmitsCopy, Occupied, FilledCur, Halves, NoHalf, NoBuffer

LEMMA GpuFlowCopyBatch == GpuFlow /\ CopyBatch /\ UNCHANGED gpuVars => GpuFlow'
BY DEF CopyBatch, CopyToLive, bufferVars, gpuVars, GpuFlow, WritersSafe, SleepersWait, ResultKept,
     FilledInTurn, PreRolled, OneWorker, SubmitsCopy, Occupied, FilledCur, Halves, NoHalf, NoBuffer

LEMMA GpuFlowHandBatchOver == GpuFlow /\ HandBatchOver /\ UNCHANGED gpuVars => GpuFlow'
BY DEF HandBatchOver, HandOver, bufferVars, gpuVars, GpuFlow, WritersSafe, SleepersWait, ResultKept,
     FilledInTurn, PreRolled, OneWorker, SubmitsCopy, Occupied, FilledCur, Halves, NoHalf, NoBuffer

LEMMA GpuFlowCompleted == GpuFlow /\ (\E b \in Halves : Completed(b)) => GpuFlow'
BY DEF Completed, HandlerAt, stageVars, GpuFlow, WritersSafe, SleepersWait, ResultKept,
     FilledInTurn, PreRolled, OneWorker, SubmitsCopy, Occupied, FilledCur, Halves, NoHalf, NoBuffer

LEMMA GpuFlowDelivers == GpuFlow /\ (\E b \in Halves : HandlerDelivers(b)) => GpuFlow'
BY DEF HandlerDelivers, HandlerAt, FftDone, WokenDispatcher, stageVars, GpuFlow, WritersSafe, SleepersWait, ResultKept,
     FilledInTurn, PreRolled, OneWorker, SubmitsCopy, Occupied, FilledCur, Halves, NoHalf, NoBuffer

LEMMA GpuFlowElsewhere ==
  ASSUME GpuFlow, UNCHANGED <<half, live, incoming>>, UNCHANGED bufferVars, UNCHANGED gpuVars,
         dead' \in {dead, NoHalf}, submitter' \in {submitter, WokenSubmitter}
  PROVE  GpuFlow'
BY DEF WokenSubmitter, bufferVars, gpuVars, GpuFlow, WritersSafe, SleepersWait, ResultKept,
     FilledInTurn, PreRolled, OneWorker, SubmitsCopy, Occupied, FilledCur, Halves, NoHalf, NoBuffer

LEMMA GpuFlowKept == GpuFlow /\ [GpuNext]_gpuPipelineVars => GpuFlow'
<1>1. GpuFlow /\ UNCHANGED gpuPipelineVars => GpuFlow'
  BY GpuFlowElsewhere DEF gpuPipelineVars, pipelineVars, stageVars
<1>2. GpuFlow /\ (Stop \/ Deinit \/ \E a \in Agc : AgcStep(a)) /\ UNCHANGED gpuVars => GpuFlow'
  BY GpuFlowElsewhere, AgcStepsAndMain
<1>3. QED
  BY <1>1, <1>2, GpuFlowNextRawBuffer, GpuFlowClaimRawBuffer, GpuFlowQuits, GpuFlowFill, GpuFlowAwaitBuffer,
     GpuFlowGpuStep, GpuFlowDeliver, GpuFlowAwaitResult, GpuFlowTakeResult, GpuFlowCallAgcSubmit,
     GpuFlowAgcSubmitReturns, GpuFlowCopyBatch, GpuFlowHandBatchOver, GpuFlowCompleted, GpuFlowDelivers
     DEF GpuNext, GpuChannelizer, FftWorker, CompletionHandler, Dispatcher

-----------------------------------------------------------------------------
(* GPU: the order of the batches *)

\* The two buffers, counted.
LEMMA OccupiedCount ==
  Cardinality({b \in Halves : Occupied(b)})
    = (IF Occupied(0) THEN 1 ELSE 0) + (IF Occupied(1) THEN 1 ELSE 0)
<1> DEFINE O == {b \in Halves : Occupied(b)}
<1>1. Cardinality({0}) = 1 /\ Cardinality({1}) = 1 /\ Cardinality({}) = 0
  BY FS_Singleton, FS_EmptySet
<1>2. Cardinality({0, 1}) = 2
  <2>1. IsFiniteSet({0}) /\ {0, 1} = {0} \cup {1}
    BY FS_Singleton
  <2>2. QED
    BY <1>1, <2>1, FS_AddElement
<1>3. O = IF Occupied(0) THEN IF Occupied(1) THEN {0, 1} ELSE {0} ELSE IF Occupied(1) THEN {1} ELSE {}
  BY DEF Halves
<1> HIDE DEF O
<1>4. Cardinality(O) = (IF Occupied(0) THEN 1 ELSE 0) + (IF Occupied(1) THEN 1 ELSE 0)
  <2>1. CASE Occupied(0) /\ Occupied(1)
    BY <1>2, <1>3, <2>1
  <2>2. CASE Occupied(0) /\ ~Occupied(1)
    BY <1>1, <1>3, <2>2
  <2>3. CASE ~Occupied(0) /\ Occupied(1)
    BY <1>1, <1>3, <2>3
  <2>4. CASE ~Occupied(0) /\ ~Occupied(1)
    BY <1>1, <1>3, <2>4
  <2>5. QED
    BY <2>1, <2>2, <2>3, <2>4
<1>5. QED
  BY <1>4 DEF O

\* Most steps neither copy nor fill, nor empty a buffer.
LEMMA OrderElsewhere ==
  ASSUME CopiedOrOccupied, Copied' = Copied, UNCHANGED <<filled, input>>,
         \A b \in Halves : Occupied(b)' <=> Occupied(b)
  PROVE  CopiedOrOccupied'
<1>1. {b \in Halves : Occupied(b)}' = {b \in Halves : Occupied(b)}
  OBVIOUS
<1>2. QED
  BY <1>1 DEF CopiedOrOccupied, NearlyInOrder

\* A new batch comes after all that were filled before.
LEMMA OrderFill ==
  ASSUME GpuFlow, CopiedOrOccupied, FillBuffer, UNCHANGED gpuVars, handed \in Seq(Nat)
  PROVE  CopiedOrOccupied'
<1>1. PICK c \in Halves : c = cur
  BY DEF GpuFlow
<1>2. /\ Copied' = Copied /\ Copied \in Seq(Nat)
      /\ filled \in Nat /\ filled' = filled + 1
      /\ input \in [Halves -> Nat] /\ input' = [input EXCEPT ![c] = filled + 1]
  BY <1>1 DEF FillBuffer, Copied, stageVars, gpuVars, GpuFlow
<1>3. ~Occupied(c) /\ Occupied(c)' /\ (Occupied(1 - c)' <=> Occupied(1 - c))
  BY <1>1 DEF FillBuffer, Occupied, FilledCur, GpuFlow, WritersSafe, Halves
<1>4. Cardinality({b \in Halves : Occupied(b)}) = IF Occupied(1 - c) THEN 1 ELSE 0
  BY <1>3, OccupiedCount DEF Halves
<1>5. filled' = Len(Copied') + Cardinality({b \in Halves : Occupied(b)}')
  <2>1. (Cardinality({b \in Halves : Occupied(b)})
           = (IF Occupied(0) THEN 1 ELSE 0) + (IF Occupied(1) THEN 1 ELSE 0))'
    BY OccupiedCount, PTL
  <2>2. Cardinality({b \in Halves : Occupied(b)}') = IF Occupied(1 - c) THEN 2 ELSE 1
    BY <1>3, <2>1 DEF Halves
  <2>3. PICK n \in Nat : n = Len(Copied)
    BY <1>2
  <2>4. filled = n + Cardinality({b \in Halves : Occupied(b)})
    BY <2>3 DEF CopiedOrOccupied
  <2>5. Len(Copied') = n
    BY <1>2, <2>3
  <2>6. QED
    BY <1>2, <1>4, <2>2, <2>4, <2>5
<1>6. ASSUME NEW k \in DOMAIN Copied, NEW b \in Halves, Occupied(b)'
      PROVE  Copied[k] # input'[b]
  <2>1. Copied[k] \in 1..filled /\ (Occupied(b) => Copied[k] # input[b])
    BY DEF CopiedOrOccupied
  <2>2. CASE b = c
    BY <1>2, <2>1, <2>2
  <2>3. CASE b = 1 - c
    <3>1. b # c /\ input'[b] = input[b]
      BY <1>2, <2>3 DEF Halves
    <3>2. Occupied(1 - c)'
      BY <1>6, <2>3
    <3>3. Occupied(b)
      BY <1>3, <2>3, <3>2
    <3>4. QED
      BY <2>1, <3>1, <3>3
  <2>4. b = c \/ b = 1 - c
    BY DEF Halves
  <2>5. QED
    BY <2>2, <2>3, <2>4
<1>7. \A k \in DOMAIN Copied : Copied[k] \in 1..filled'
  BY <1>2 DEF CopiedOrOccupied
<1>8. NearlyInOrder(Copied)'
  BY <1>2 DEF CopiedOrOccupied, NearlyInOrder
<1>9. QED
  BY <1>2, <1>5, <1>6, <1>7, <1>8 DEF CopiedOrOccupied

\* The dispatcher takes one of the two last batches; the other is still there
\* or was copied before.
LEMMA OrderTake ==
  ASSUME GpuFlow, CopiedOrOccupied, TakeResult, handed \in Seq(Nat)
  PROVE  CopiedOrOccupied'
<1>1. PICK s \in Halves, n \in Nat : s = slot /\ n = input[s]
  BY DEF TakeResult, GpuFlow
<1>2. /\ Copied = handed /\ Copied' = Append(handed, n)
      /\ UNCHANGED <<filled, input>> /\ filled \in Nat
  BY <1>1 DEF TakeResult, Copied, stageVars, GpuFlow, SubmitsCopy
<1>3. Occupied(s) /\ ~Occupied(s)' /\ (Occupied(1 - s)' <=> Occupied(1 - s))
  BY <1>1 DEF TakeResult, Occupied, FilledCur, GpuFlow, ResultKept, NoBuffer, Halves
<1>4. n >= 1 /\ n \in {filled - 1, filled} /\ (Occupied(1 - s) => input[1 - s] # n)
  <2>1. n = preRoll[s] + 1 /\ preRoll[s] \in Nat
    BY <1>1, <1>3 DEF GpuFlow, PreRolled
  <2>2. filled > 0
    <3>1. Cardinality({b \in Halves : Occupied(b)}) \in {1, 2}
      BY <1>3, OccupiedCount DEF Halves
    <3>2. PICK m \in Nat : m = Len(Copied)
      BY <1>2
    <3>3. filled = m + Cardinality({b \in Halves : Occupied(b)})
      BY <3>2 DEF CopiedOrOccupied
    <3>4. QED
      BY <3>1, <3>3
  <2>3. PICK last \in Halves : last = IF chPc = "next" THEN cur ELSE 1 - cur
    BY DEF GpuFlow, Halves
  <2>4. input[last] = filled /\ input[1 - last] = filled - 1 /\ filled \in Nat
    BY <2>2, <2>3 DEF GpuFlow, FilledInTurn
  <2>5. (s = last /\ 1 - s = 1 - last) \/ (s = 1 - last /\ 1 - s = last)
    BY DEF Halves
  <2>6. n \in {filled - 1, filled} /\ input[1 - s] # n
    BY <1>1, <2>4, <2>5
  <2>7. QED
    BY <2>1, <2>6
<1>5. Len(handed) + 1 = IF Occupied(1 - s) THEN filled - 1 ELSE filled
  <2>1. Cardinality({b \in Halves : Occupied(b)}) = IF Occupied(1 - s) THEN 2 ELSE 1
    BY <1>3, OccupiedCount DEF Halves
  <2>2. QED
    BY <1>2, <2>1 DEF CopiedOrOccupied
<1>6. filled' = Len(Copied') + Cardinality({b \in Halves : Occupied(b)}')
  <2>1. (Cardinality({b \in Halves : Occupied(b)})
           = (IF Occupied(0) THEN 1 ELSE 0) + (IF Occupied(1) THEN 1 ELSE 0))'
    BY OccupiedCount, PTL
  <2>2. (IF Occupied(0)' THEN 1 ELSE 0) + (IF Occupied(1)' THEN 1 ELSE 0)
          = IF Occupied(1 - s) THEN 1 ELSE 0
    BY <1>3 DEF Halves
  <2>3. Len(Copied') = Len(handed) + 1
    BY <1>2
  <2>4. QED
    BY <1>2, <1>5, <2>1, <2>2, <2>3
<1>7. n \in 1..filled /\ n \in {Len(handed), Len(handed) + 1, Len(handed) + 2}
  BY <1>2, <1>4, <1>5
<1>8. \A k \in DOMAIN handed : handed[k] # n /\ handed[k] \in 1..filled
  BY <1>1, <1>2, <1>3 DEF CopiedOrOccupied
<1>9. ASSUME NEW k \in DOMAIN Copied'
      PROVE  /\ Copied'[k] \in 1..filled /\ Copied'[k] \in {k - 1, k, k + 1}
             /\ \A j \in 1..k - 1 : Copied'[j] # Copied'[k]
             /\ \A b \in Halves : Occupied(b)' => Copied'[k] # input[b]
  <2>1. DOMAIN handed = 1..Len(handed) /\ Len(handed) \in Nat /\ k \in 1..Len(handed) + 1
        /\ \A j \in 1..Len(handed) : Copied'[j] = handed[j]
    BY <1>2
  <2>2. CASE k = Len(handed) + 1
    <3>1. Copied'[k] = n
      BY <1>2, <2>2
    <3>2. \A b \in Halves : Occupied(b)' => n # input[b]
      <4> SUFFICES ASSUME NEW b \in Halves, Occupied(b)' PROVE n # input[b]
        OBVIOUS
      <4>1. CASE b = s
        BY <1>3, <4>1
      <4>2. CASE b = 1 - s
        <5>1. Occupied(1 - s)'
          BY <4>2
        <5>2. QED
          BY <1>3, <1>4, <4>2, <5>1
      <4>3. b = s \/ b = 1 - s
        BY DEF Halves
      <4>4. QED
        BY <4>1, <4>2, <4>3
    <3>3. n \in {k - 1, k, k + 1}
      <4>1. PICK m \in Nat : m = Len(handed)
        BY <2>1
      <4>2. n \in {m, m + 1, m + 2} /\ k = m + 1
        BY <1>7, <2>2, <4>1
      <4>3. QED
        BY <4>2
    <3>4. \A j \in 1..k - 1 : Copied'[j] # n
      <4> SUFFICES ASSUME NEW j \in 1..k - 1 PROVE Copied'[j] # n
        OBVIOUS
      <4>1. j \in 1..Len(handed)
        BY <2>1, <2>2
      <4>2. QED
        BY <1>8, <2>1, <4>1
    <3>5. QED
      BY <1>7, <3>1, <3>2, <3>3, <3>4
  <2>3. CASE k \in 1..Len(handed)
    <3>1. Copied'[k] = handed[k] /\ \A j \in 1..k - 1 : Copied'[j] = handed[j]
      BY <2>1, <2>3
    <3>2. \A b \in Halves : Occupied(b)' => Occupied(b)
      <4> SUFFICES ASSUME NEW b \in Halves, Occupied(b)' PROVE Occupied(b)
        OBVIOUS
      <4>1. CASE b = s
        BY <1>3, <4>1
      <4>2. CASE b = 1 - s
        <5>1. Occupied(1 - s)'
          BY <4>2
        <5>2. QED
          BY <1>3, <4>2, <5>1
      <4>3. b = s \/ b = 1 - s
        BY DEF Halves
      <4>4. QED
        BY <4>1, <4>2, <4>3
    <3>3. /\ k \in DOMAIN handed /\ handed[k] \in 1..filled /\ handed[k] \in {k - 1, k, k + 1}
          /\ \A i \in 1..k - 1 : handed[i] # handed[k]
          /\ \A b \in Halves : Occupied(b) => handed[k] # input[b]
      BY <1>2, <2>1, <2>3 DEF CopiedOrOccupied, NearlyInOrder
    <3>4. QED
      BY <3>1, <3>2, <3>3
  <2>4. QED
    BY <2>1, <2>2, <2>3
<1>10. NearlyInOrder(Copied)'
  BY <1>9 DEF NearlyInOrder
<1>11. QED
  BY <1>2, <1>6, <1>9, <1>10 DEF CopiedOrOccupied

LEMMA OrderKept ==
  ASSUME GpuFlow, CopiedOrOccupied, handed \in Seq(Nat), [GpuNext]_gpuPipelineVars
  PROVE  CopiedOrOccupied'
<1>1. CASE NextRawBuffer
  BY <1>1, OrderElsewhere
     DEF NextRawBuffer, NextBuffer, stageVars, Copied, Occupied, FilledCur, GpuFlow, WritersSafe, FilledInTurn, Halves
<1>2. CASE ClaimRawBuffer
  BY <1>2, OrderElsewhere DEF ClaimRawBuffer, ClaimBuffer, stageVars, Copied, Occupied, FilledCur, GpuFlow, Halves
<1>3. CASE ChannelizerQuits /\ UNCHANGED gpuVars
  BY <1>3, OrderElsewhere DEF ChannelizerQuits, gpuVars, stageVars, Copied, Occupied, FilledCur
<1>4. CASE AwaitBuffer /\ UNCHANGED gpuVars
  BY <1>4, OrderElsewhere DEF AwaitBuffer, gpuVars, stageVars, Copied, Occupied, FilledCur
<1>5. CASE GpuFails \/ GpuDone
  BY <1>5, OrderElsewhere DEF GpuFails, GpuDone, WorkerAt, stageVars, Copied, Occupied, FilledCur
<1>6. CASE Deliver
  BY <1>6, OrderElsewhere
     DEF Deliver, WorkerAt, FftDone, WokenDispatcher, stageVars, Copied, Occupied, FilledCur
<1>7. CASE \E b \in Halves : Completed(b)
  BY <1>7, OrderElsewhere
     DEF Completed, HandlerAt, stageVars, Copied, Occupied, FilledCur, GpuFlow, OneWorker, Halves
<1>8. CASE \E b \in Halves : HandlerDelivers(b)
  BY <1>8, OrderElsewhere
     DEF HandlerDelivers, HandlerAt, FftDone, WokenDispatcher, stageVars, Copied, Occupied, FilledCur
<1>9. CASE AwaitResult
  BY <1>9, OrderElsewhere
     DEF AwaitResult, pipelineVars, bufferVars, stageVars, Copied, Occupied, FilledCur
<1>10. CASE CallAgcSubmit
  BY <1>10, OrderElsewhere
     DEF CallAgcSubmit, Submit, bufferVars, Copied, Occupied, FilledCur
<1>11. CASE AgcSubmitReturns
  BY <1>11, OrderElsewhere
     DEF AgcSubmitReturns, bufferVars, Copied, Occupied, FilledCur, GpuFlow, SubmitsCopy
<1>12. CASE CopyBatch /\ UNCHANGED gpuVars
  BY <1>12, OrderElsewhere
     DEF CopyBatch, CopyToLive, bufferVars, gpuVars, Copied, Occupied, FilledCur
<1>13. CASE HandBatchOver /\ UNCHANGED gpuVars
  BY <1>13, OrderElsewhere
     DEF HandBatchOver, HandOver, bufferVars, gpuVars, Copied, Occupied, FilledCur, GpuFlow, SubmitsCopy
<1>14. CASE (Stop \/ Deinit \/ \E a \in Agc : AgcStep(a)) /\ UNCHANGED gpuVars
  <2>1. /\ UNCHANGED <<handed, bufferVars, gpuVars>>
        /\ submitter' \in {submitter, WokenSubmitter}
    BY <1>14, AgcStepsAndMain
  <2>2. QED
    BY <2>1, OrderElsewhere DEF WokenSubmitter, bufferVars, gpuVars, Copied, Occupied, FilledCur
<1>15. CASE UNCHANGED gpuPipelineVars
  BY <1>15, OrderElsewhere DEF gpuPipelineVars, pipelineVars, bufferVars, stageVars, gpuVars, Copied, Occupied, FilledCur
<1>16. QED
  BY <1>1, <1>2, <1>3, <1>4, <1>5, <1>6, <1>7, <1>8, <1>9, <1>10, <1>11, <1>12, <1>13, <1>14, <1>15,
     OrderFill, OrderTake DEF GpuNext, GpuChannelizer, FftWorker, CompletionHandler, Dispatcher

-----------------------------------------------------------------------------
(* GPU: the invariant *)

LEMMA GpuStageKept ==
  ASSUME GpuFlow, Stage, [GpuNext]_gpuPipelineVars
  PROVE  Stage'
<1>1. CASE UNCHANGED stageVars /\ UNCHANGED mainPc
  BY <1>1, StageElsewhere DEF stageVars, Stage, StageTypeOK
<1>2. NextRawBuffer \/ ClaimRawBuffer \/ ChannelizerQuits \/ FillBuffer \/ AwaitBuffer
        \/ GpuFails \/ GpuDone \/ Deliver \/ AwaitResult \/ TakeResult \/ UNCHANGED gpuPipelineVars
        => UNCHANGED stageVars /\ UNCHANGED mainPc
  BY DEF NextRawBuffer, NextBuffer, ClaimRawBuffer, ClaimBuffer, ChannelizerQuits, FillBuffer, AwaitBuffer,
     GpuFails, GpuDone, Deliver, WorkerAt, AwaitResult, TakeResult, gpuPipelineVars, pipelineVars
<1>3. (\E b \in Halves : CompletionHandler(b)) => UNCHANGED stageVars /\ UNCHANGED mainPc
  BY DEF CompletionHandler, Completed, HandlerDelivers, HandlerAt
<1>4. CASE CallAgcSubmit \/ AgcSubmitReturns
  <2>1. /\ UNCHANGED <<running, half, live, dead, handed, agcPc, arrived, barrierOn, seen, mainPc>>
        /\ submitter' \in {"away", "copying"} /\ incoming' \in Nat
    BY <1>4 DEF CallAgcSubmit, Submit, AgcSubmitReturns, GpuFlow
  <2>2. QED
    BY <2>1, StageElsewhere
<1>5. CASE CopyBatch
  BY <1>5, StageElsewhere DEF CopyBatch, CopyToLive, Stage, StageTypeOK
<1>6. CASE HandBatchOver
  BY <1>6, StageHandOver DEF HandBatchOver
<1>7. QED
  BY <1>1, <1>2, <1>3, <1>4, <1>5, <1>6, StageAgcStep, StageMain
     DEF GpuNext, GpuChannelizer, FftWorker, Dispatcher

LEMMA GpuOrderAtStart == GpuInit => CopiedOrOccupied
<1> SUFFICES ASSUME GpuInit PROVE CopiedOrOccupied
  OBVIOUS
<1>1. Copied = <<>> /\ filled = 0
  BY DEF GpuInit, StageInit, Copied
<1>2. ~Occupied(0) /\ ~Occupied(1)
  BY DEF GpuInit, Occupied, FilledCur, Halves
<1>3. Cardinality({b \in Halves : Occupied(b)}) = 0
  BY <1>2, OccupiedCount
<1>4. QED
  BY <1>1, <1>3 DEF CopiedOrOccupied, NearlyInOrder

\* With a GPU, OpenCL's or Metal's, nobody reads what another writes, no result
\* is overwritten before the dispatcher has copied it, no wakeup is lost, every
\* batch that was filled is in a buffer or was copied once, and the barrier
\* counts those who wait at it (opencl/fft.c, vkfft/fft.cc, main.c).
THEOREM GpuPipelineAlwaysOK == GpuSpec => []GpuIInv
<1>1. GpuInit => GpuIInv
  BY GpuFlowInit, GpuOrderAtStart, StageAtStart, GpuParts DEF GpuInit
<1>2. ASSUME GpuIInv, [GpuNext]_gpuPipelineVars PROVE GpuIInv'
  <2>1. GpuFlow /\ Stage /\ CopiedOrOccupied /\ handed \in Seq(Nat)
    BY <1>2, GpuParts DEF Stage, StageTypeOK
  <2>2. GpuFlow' /\ Stage' /\ CopiedOrOccupied'
    BY <1>2, <2>1, GpuFlowKept, GpuStageKept, OrderKept
  <2>3. (GpuIInv <=> GpuFlow /\ Stage /\ CopiedOrOccupied)'
    BY GpuParts, PTL
  <2>4. QED
    BY <2>2, <2>3
<1>3. QED
  BY <1>1, <1>2, PTL DEF GpuSpec

\* What the GPU transforms begins with the tail of the batch before it, whether
\* the buffers are transformed in their order or overtake each other
\* (get_next_raw_buffer, opencl/fft.c:424-459 and vkfft/fft.cc:332-367).
THEOREM HistoryAlwaysKept == GpuSpec => []HistoryKept
<1>1. GpuIInv => HistoryKept
  BY DEF GpuIInv, PreRolled, Occupied, HistoryKept
<1>2. QED
  BY <1>1, GpuPipelineAlwaysOK, PTL

\* No AGC thread looks at a batch twice, or at one more than a place before or
\* after its own, though completion handlers race for the one slot
\* (fft_done, main.c:216-228).
THEOREM BatchesNearTheirPlace == GpuSpec => []EachBatchNearItsPlace
<1>1. GpuIInv => EachBatchNearItsPlace
  <2> SUFFICES ASSUME GpuIInv, NEW a \in Agc, NEW k \in DOMAIN seen[a]
               PROVE  /\ seen[a][k] \in {k - 1, k, k + 1}
                      /\ \A j \in 1..k - 1 : seen[a][j] # seen[a][k]
    BY DEF EachBatchNearItsPlace, NearlyInOrder
  <2>1. GpuFlow /\ Stage /\ CopiedOrOccupied
    BY GpuParts
  <2>2. handed \in Seq(Nat) /\ seen[a] \in Seq(Nat) /\ copied \in Nat
    BY <2>1 DEF Stage, StageTypeOK, GpuFlow
  <2>3. Len(seen[a]) \in {Len(handed) - 1, Len(handed)} /\ \A j \in DOMAIN seen[a] : seen[a][j] = handed[j]
    BY <2>1 DEF Stage, SeenOK, Handed
  <2>4. \A j \in 1..k : j \in DOMAIN seen[a] /\ j \in DOMAIN handed
    BY <2>2, <2>3
  <2>5. \A j \in DOMAIN handed : j \in DOMAIN Copied /\ Copied[j] = handed[j]
    BY <2>2 DEF Copied
  <2>6. k \in DOMAIN Copied /\ k \in 1..k /\ \A j \in 1..k - 1 : j \in 1..k
    BY <2>2, <2>4, <2>5
  <2>7. Copied[k] \in {k - 1, k, k + 1} /\ \A j \in 1..k - 1 : Copied[j] # Copied[k]
    BY <2>1, <2>6 DEF CopiedOrOccupied, NearlyInOrder
  <2>8. \A j \in 1..k : seen[a][j] = Copied[j]
    BY <2>3, <2>4, <2>5
  <2>9. QED
    BY <2>6, <2>7, <2>8
<1>2. QED
  BY <1>1, GpuPipelineAlwaysOK, PTL

\* With a GPU too, agc_dead is given back only when every AGC thread has looked
\* at its batch (main.c:435-449).
THEOREM GpuHalvesGivenBackWhenDone == GpuSpec => GivenBackWhenDone
<1>1. GpuIInv /\ [GpuNext]_gpuPipelineVars =>
        [dead # NoHalf /\ dead' = NoHalf
           => \A a \in Agc : seen[a] # <<>> /\ seen[a][Len(seen[a])] = half[dead]]_stageVars
  <2> SUFFICES ASSUME GpuIInv, [GpuNext]_gpuPipelineVars, dead # NoHalf, dead' = NoHalf
               PROVE  \A a \in Agc : seen[a] # <<>> /\ seen[a][Len(seen[a])] = half[dead]
    OBVIOUS
  <2>1. Stage
    BY GpuParts
  <2>2. NextRawBuffer \/ ClaimRawBuffer \/ ChannelizerQuits \/ FillBuffer \/ AwaitBuffer
          \/ GpuFails \/ GpuDone \/ Deliver \/ AwaitResult \/ TakeResult \/ UNCHANGED gpuPipelineVars
          => dead' = dead
    BY DEF NextRawBuffer, NextBuffer, ClaimRawBuffer, ClaimBuffer, ChannelizerQuits, FillBuffer, AwaitBuffer,
       GpuFails, GpuDone, Deliver, WorkerAt, AwaitResult, TakeResult, gpuPipelineVars, pipelineVars, stageVars
  <2>3. (\E b \in Halves : CompletionHandler(b)) \/ CallAgcSubmit \/ AgcSubmitReturns => dead' = dead
    BY DEF CompletionHandler, Completed, HandlerDelivers, HandlerAt, stageVars, CallAgcSubmit, AgcSubmitReturns
  <2>4. CopyToLive \/ HandOver \/ (\E a \in Agc : AgcThread(a)) \/ Stop \/ Deinit
    BY <2>2, <2>3 DEF GpuNext, GpuChannelizer, FftWorker, Dispatcher, CopyBatch, HandBatchOver, AgcStep
  <2>5. QED
    BY <2>1, <2>4, GivenBack
<1>2. QED
  BY <1>1, GpuPipelineAlwaysOK, PTL DEF GpuSpec, GivenBackWhenDone

=============================================================================
