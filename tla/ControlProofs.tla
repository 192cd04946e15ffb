---------------------------- MODULE ControlProofs ----------------------------
(***************************************************************************)
(* Proofs about the program as a whole, its threads, its receivers and its *)
(* control channel, and about the dashboard at the other end: for any      *)
(* number of commands, packets and devices, and any command lines.         *)
(***************************************************************************)
EXTENDS Program, Dashboard, FiniteSetTheorems, SequenceTheorems, WellFoundedInduction, TLAPS

-----------------------------------------------------------------------------
(* The program *)

\* The program starts in a state of the invariant.
LEMMA IInvAtStart == Init => IInv
<1> SUFFICES ASSUME Init PROVE IInv
  OBVIOUS
<1>1. FlagsOK /\ GpsTypeOK /\ radio \in Radios
  <2>1. FlagsOK /\ GpsFlagsOK
    BY DEF Init, GpsInit, FlagsOK, GpsFlagsOK
  <2>2. QED
    BY <2>1 DEF Init, GpsInit, GpsTypeOK
<1>2. TypeOK /\ GainReported
  <2>1. reported = [s \in Stages(radio) |-> 0]
    BY DEF Init, ControlInit
  <2>2. \/ accepted = reported
        \/ radio = "soapy" /\ accepted = [s \in Stages(radio) |-> Unset]
    BY DEF Init, ControlInit
  <2>3. 0 # Unset
    BY DEF Unset
  <2>4. GainReported /\ accepted \in [Stages(radio) -> {Unset, 0, 1}] /\ reported \in [Stages(radio) -> {0, 1}]
    BY <2>1, <2>2, <2>3 DEF GainReported
  <2>5. QED
    BY <1>1, <2>4, ControlAssumption DEF Init, ControlInit, TypeOK
<1>3. ResourcesOutliveUsers /\ ShutdownOrder /\ LateOnce
  BY <1>2 DEF Init, ControlInit, ResourcesOutliveUsers, ShutdownOrder, LateOnce
<1>4. LateUseBounded /\ ReceiverOpen
  BY DEF Init, ControlInit, GpsInit, LateUseBounded, AstrayBounded, ReceiverOpen
<1>5. FixFromReceiver /\ FixTrusted /\ RestartAttempted /\ RequestFollowsAck /\ AckedRewritten
  BY DEF Init, ControlInit, GpsInit, FixFromReceiver, FixTrusted, RestartAttempted, AckedRewritten,
         RequestFollowsAck
<1>6. QED
  BY <1>2, <1>3, <1>4, <1>5 DEF IInv

\* A receiver that is closed is used no more often than LateUseBounded says: the
\* control thread has fewer uses left with each.
LEMMA ReceiverKept ==
  ASSUME IInv, Next
  PROVE  ReceiverOpen' /\ AstrayBounded'
<1>1. /\ ReceiverOpen /\ AstrayBounded /\ astray \in Nat /\ running \in BOOLEAN
      /\ receiver \in {"none", "gpsd", "serial"} /\ beatPc \in {"away", "gpsd", "serial"}
      /\ (running => mainPc = "loop") /\ radio \in Radios
  BY DEF IInv, ResourcesOutliveUsers, TypeOK, FlagsOK, GpsTypeOK, LateUseBounded, ShutdownOrder
<1>2. UsesLeft(ctrlPc) \in 0..2 /\ (ctrlPc \in {"gpsClosing", "beat"} => UsesLeft(ctrlPc) = 1)
  BY DEF UsesLeft
<1> USE DEF ReceiverOpen, AstrayBounded, Others, threadVars, ctrlVars, gpsVars
<1>3. CASE \/ Received \/ SourceMoves \/ SourceEnds
           \/ ChannelizerTakes \/ ChannelizerLoops \/ AgcThreadsEnd \/ ProcessorTakes
  <2>1. /\ running' \in {running, FALSE} /\ UNCHANGED <<mainPc, gone, ctrlPc, receiver, live, beatPc, astray>>
    BY <1>3 DEF Received, SourceMoves, PushToOpenQueue, PushToClosedQueue, SourceEnds, ChannelizerTakes,
                ChannelizerLoops, AgcThreadsEnd, ProcessorTakes
  <2>2. UsesLeft(ctrlPc') = UsesLeft(ctrlPc)
    BY <2>1 DEF UsesLeft
  <2>3. "gps" \in gone => ~ running'
    BY <1>1, <2>1
  <2>4. QED
    BY <1>1, <2>1, <2>2, <2>3
<1>4. CASE ProcessorLoops
  <2>1. UNCHANGED <<running, mainPc, gone, ctrlPc, receiver, live, beatPc, astray>>
    BY <1>4 DEF ProcessorLoops, GetFix, FixBegins, FixPolled, NoFixWanted, FixUsed
  <2>2. UsesLeft(ctrlPc') = UsesLeft(ctrlPc)
    BY <2>1 DEF UsesLeft
  <2>3. QED
    BY <1>1, <2>1, <2>2
<1>5. CASE Interrupted \/ Main
  <2>1. UNCHANGED <<ctrlPc, beatPc>> /\ running' \in {running, FALSE}
    BY <1>5 DEF Interrupted, Main, StopRadio, CloseSamples, JoinSpewer, JoinChannelizer, CloseBursts,
                JoinProcessor, CloseRadio, CloseFiles, ForgetGps, JoinControl, RestartProgram, CloseControl,
                FreeAll, MainFrees, MainAt, GpsCloses, GpsForgets
  <2>2. UsesLeft(ctrlPc') = UsesLeft(ctrlPc)
    BY <2>1 DEF UsesLeft
  <2>3. CASE CloseFiles
    <3>1. "gps" \in gone' /\ ~ running'
      BY <1>1, <2>3 DEF CloseFiles, MainAt
    <3>2. astray' = astray \/ (astray' = astray + 1 /\ receiver \notin live \cup {"none"})
      BY <2>3 DEF CloseFiles, GpsCloses
    <3>4. astray = 0 /\ mainPc' \in {"closingGps", "joinControl", "free"}
          /\ (receiver \notin live \cup {"none"} => UsesLeft(ctrlPc) = 1)
      BY <1>1, <1>2, <2>3 DEF CloseFiles, AfterFiles, MainAt
    <3>5. astray' + UsesLeft(ctrlPc') <= 2 /\ astray' <= 2
      BY <1>2, <2>2, <3>2, <3>4
    <3>6. QED
      BY <1>1, <2>1, <3>1, <3>4, <3>5
  <2>4. CASE ForgetGps
    BY <1>1, <2>1, <2>2, <2>4 DEF ForgetGps, AfterFiles, GpsForgets, MainAt
  <2>5. CASE Interrupted \/ StopRadio
    BY <1>1, <2>1, <2>2, <2>5 DEF Interrupted, StopRadio, MainAt
  <2>6. CASE \/ CloseSamples \/ JoinSpewer \/ JoinChannelizer \/ CloseBursts \/ JoinProcessor
             \/ CloseRadio \/ JoinControl \/ RestartProgram \/ CloseControl \/ FreeAll
    <3>1. /\ UNCHANGED <<running, receiver, live, astray>> /\ ("gps" \in gone' <=> "gps" \in gone)
          /\ LET after == {"closingGps", "joinControl", "restart", "closeControl", "execFailed", "free",
                           "exited", "restarted", "crashed"} IN mainPc' \in after <=> mainPc \in after
      BY <2>6 DEF CloseSamples, JoinSpewer, JoinChannelizer, CloseBursts, JoinProcessor, CloseRadio,
                  JoinControl, RestartProgram, CloseControl, FreeAll, MainFrees, MainAt
    <3>2. QED
      BY <1>1, <2>1, <2>2, <3>1
  <2>7. QED
    BY <1>5, <2>3, <2>4, <2>5, <2>6 DEF Main
<1>6. CASE (Receive \/ ControlMoves) /\ UNCHANGED threadVars
  <2> USE <1>6 DEF ControlAt
  <2>1. CASE Receive
    <3>1. ctrlPc' \in Commands /\ ctrlPc = "poll"
      BY <1>1, <2>1, ControlAssumption DEF Receive
    <3>2. UNCHANGED <<running, mainPc, gone, receiver, live, beatPc, astray>>
      BY <2>1 DEF Receive
    <3>3. UsesLeft(ctrlPc) = 2 /\ UsesLeft(ctrlPc') \in 1..2 /\ ctrlPc # "gpsClosing" /\ beatPc = "away"
      BY <1>1, <3>1 DEF UsesLeft, Commands
    <3>4. "gps" \in gone => ~ running'
      BY <1>1, <3>2
    <3>5. QED
      BY <1>1, <3>2, <3>3, <3>4
  <2>2. CASE HeartbeatAsks
    BY <1>1, <2>2 DEF HeartbeatAsks, BeatAsks, UsesLeft
  <2>3. CASE StatusSent
    BY <1>1, <2>3 DEF StatusSent, BeatPolls, BeatKeeps, UsesLeft
  <2>4. CASE BeatAndLoop
    BY <1>1, <2>4 DEF BeatAndLoop, BeatPolls, BeatKeeps, UsesLeft
  <2>5. CASE SetGpsCloses
    BY <1>1, <2>5 DEF SetGpsCloses, GpsCloses, GpsForgets, UsesLeft
  <2>6. CASE SetGpsOpens
    BY <1>1, <2>6 DEF SetGpsOpens, GpsOpen, GpsOpenFails, UsesLeft
  <2>7. CASE PollTimesOut \/ SetGain \/ SetSquelch \/ Rejected \/ AckRestart \/ RequestRestart
    <3>1. /\ UNCHANGED <<receiver, live, beatPc, astray>> /\ running' \in {running, FALSE}
          /\ ctrlPc \in {"poll", "gain", "squelch", "restart", "restarting"}
          /\ ctrlPc' \in {"beat", "restarting"}
      BY <2>7 DEF PollTimesOut, SetGain, SetSquelch, Rejected, AckRestart, RequestRestart
    <3>2. UsesLeft(ctrlPc') = 1 /\ UsesLeft(ctrlPc) >= 1
      BY <3>1 DEF UsesLeft
    <3>6. UNCHANGED <<mainPc, gone>>
      OBVIOUS
    <3>3. "gps" \in gone => ~ running'
      BY <1>1, <3>1
    <3>4. UsesLeft(ctrlPc) \in 1..2
      BY <1>2, <3>2
    <3>5. QED
      BY <1>1, <3>1, <3>2, <3>3, <3>4, <3>6
  <2>8. QED
    BY <2>1, <2>2, <2>3, <2>4, <2>5, <2>6, <2>7 DEF ControlMoves
<1>7. QED
  BY <1>3, <1>4, <1>5, <1>6 DEF Next

\* The receivers: what the fix that is kept and the polls under way are worth.
LEMMA FixKept ==
  ASSUME IInv, Next
  PROVE  GpsTypeOK' /\ FixFromReceiver' /\ FixTrusted'
<1> DEFINE Kept == GpsTypeOK' /\ FixFromReceiver' /\ FixTrusted'
<1>1. GpsTypeOK /\ FixFromReceiver /\ FixTrusted
  BY DEF IInv, ResourcesOutliveUsers, TypeOK
<1> USE DEF GpsTypeOK, FixFromReceiver, FixTrusted
<1>2. CASE UNCHANGED gpsVars
  BY <1>1, <1>2 DEF GpsFlagsOK, gpsVars
<1>3. CASE FixBegins
  <2>1. GpsFlagsOK'
    BY <1>1, <1>3 DEF GpsFlagsOK, FixBegins
  <2>2. FixFromReceiver'
    BY <1>1, <1>3 DEF FixBegins
  <2>3. FixTrusted'
    BY <1>1, <1>3 DEF FixBegins
  <2>4. GpsTypeOK'
    BY <1>1, <1>3, <2>1 DEF FixBegins
  <2>5. QED
    BY <2>2, <2>3, <2>4
<1>4. CASE FixPolled
  <2>1. GpsFlagsOK'
    BY <1>1, <1>4 DEF GpsFlagsOK, FixPolled, PolledFix
  <2>2. QED
    BY <1>1, <1>4, <2>1 DEF FixPolled, PolledFix
<1>5. CASE NoFixWanted \/ FixUsed
  <2>1. GpsFlagsOK'
    BY <1>1, <1>5 DEF GpsFlagsOK, NoFixWanted, FixUsed
  <2>2. FixFromReceiver'
    BY <1>1, <1>5 DEF NoFixWanted, FixUsed
  <2>3. FixTrusted'
    BY <1>1, <1>5 DEF NoFixWanted, FixUsed
  <2>4. GpsTypeOK'
    <3>1. fix' = 0 /\ 0 \in 0..opened /\ fixPc' \in {"got", "away"}
          /\ UNCHANGED <<receiver, live, opened, gpsd, cached, beatPc, astray>>
      BY <1>1, <1>5 DEF NoFixWanted, FixUsed
    <3>2. QED
      BY <1>1, <2>1, <3>1
  <2>5. QED
    BY <2>2, <2>3, <2>4
<1>6. CASE BeatAsks
  <2>1. GpsFlagsOK'
    BY <1>1, <1>6 DEF GpsFlagsOK, BeatAsks
  <2>2. QED
    BY <1>1, <1>6, <2>1 DEF BeatAsks
<1>7. CASE BeatPolls
  <2>1. GpsFlagsOK'
    BY <1>1, <1>7 DEF GpsFlagsOK, BeatPolls, PolledFix
  <2>2. QED
    BY <1>1, <1>7, <2>1 DEF BeatPolls, PolledFix
<1>8. CASE GpsCloses
  <2>1. GpsFlagsOK'
    BY <1>1, <1>8 DEF GpsFlagsOK, GpsCloses, Raced
  <2>2. FixFromReceiver'
    BY <1>1, <1>8 DEF GpsCloses, Raced
  <2>3. FixTrusted'
    BY <1>1, <1>8 DEF GpsCloses, Raced
  <2>4. GpsTypeOK'
    BY <1>1, <1>8, <2>1 DEF GpsCloses, Raced
  <2>5. QED
    BY <2>2, <2>3, <2>4
<1>9. CASE GpsForgets
  <2>1. GpsFlagsOK'
    BY <1>1, <1>9 DEF GpsFlagsOK, GpsForgets, Raced
  <2>2. QED
    BY <1>1, <1>9, <2>1 DEF GpsForgets, Raced
<1>10. CASE beatPc = "away" /\ \E kind \in {"gpsd", "serial"} : GpsOpen(kind)
  <2>1. PICK kind \in {"gpsd", "serial"} : GpsOpen(kind)
    BY <1>10
  <2>2. GpsFlagsOK'
    BY <1>1, <2>1 DEF GpsFlagsOK, GpsOpen, Raced
  <2>3. FixFromReceiver'
    BY <1>1, <2>1 DEF GpsOpen, Raced
  <2>4. /\ opened' = opened + 1 /\ cached' = 0 /\ receiver' = kind /\ live' = live \cup {kind}
        /\ gpsd' = (IF kind = "gpsd" THEN opened' ELSE gpsd) /\ UNCHANGED <<beatPc, fixPc, fix, astray>>
    BY <2>1 DEF GpsOpen
  <2>5. FixTrusted'
    <3>1. ~ raced' => fixPc' = "away"
      BY <2>1 DEF GpsOpen, Raced
    <3>2. "gpsd" \in {receiver', beatPc'} => gpsd' = opened'
      BY <1>10, <2>1, <2>4
    <3>3. QED
      BY <2>4, <3>1, <3>2
  <2>6. GpsTypeOK'
    <3>1. /\ opened' \in Nat /\ 0..opened \subseteq 0..opened'
          /\ opened' \in 0..opened' /\ 0 \in 0..opened'
      BY <1>1, <2>4
    <3>2. ({gpsd, fix, cached} \subseteq 0..opened)'
      BY <1>1, <2>4, <3>1
    <3>3. QED
      BY <1>1, <2>2, <2>4, <3>1, <3>2
  <2>7. QED
    BY <2>3, <2>5, <2>6
<1>11. CASE GpsOpenFails
  <2>1. GpsFlagsOK'
    BY <1>1, <1>11 DEF GpsFlagsOK, GpsOpenFails
  <2>2. QED
    BY <1>1, <1>11, <2>1 DEF GpsOpenFails
<1> HIDE DEF GpsTypeOK, FixFromReceiver, FixTrusted
<1>12. CASE ProcessorLoops
  BY <1>2, <1>3, <1>4, <1>5, <1>12 DEF ProcessorLoops, GetFix
<1>13. CASE ControlMoves
  <2>1. ctrlPc = "gpsOpen" => beatPc = "away"
    BY DEF IInv, ReceiverOpen
  <2>2. QED
    BY <1>2, <1>6, <1>7, <1>8, <1>9, <1>10, <1>11, <1>13, <2>1
       DEF ControlMoves, PollTimesOut, HeartbeatAsks, StatusSent, BeatAndLoop, BeatKeeps, SetGain,
           SetSquelch, SetGpsCloses, SetGpsOpens, Rejected, AckRestart, RequestRestart, ControlAt
<1>14. CASE CloseFiles \/ ForgetGps
  BY <1>2, <1>8, <1>9, <1>14 DEF CloseFiles, ForgetGps
<1>15. CASE \/ Received \/ SourceMoves \/ SourceEnds \/ ChannelizerTakes \/ ChannelizerLoops
            \/ AgcThreadsEnd \/ ProcessorTakes \/ Receive \/ Interrupted \/ StopRadio \/ CloseSamples
            \/ JoinSpewer \/ JoinChannelizer \/ CloseBursts \/ JoinProcessor \/ CloseRadio \/ JoinControl
            \/ RestartProgram \/ CloseControl \/ FreeAll
  <2>1. UNCHANGED gpsVars
    BY <1>15 DEF Received, SourceMoves, PushToOpenQueue, PushToClosedQueue, SourceEnds, ChannelizerTakes,
                 ChannelizerLoops, AgcThreadsEnd, ProcessorTakes, Receive, Interrupted, StopRadio,
                 CloseSamples, JoinSpewer, JoinChannelizer, CloseBursts, JoinProcessor, CloseRadio,
                 JoinControl, RestartProgram, CloseControl, FreeAll, MainFrees, Others, gpsVars
  <2>2. QED
    BY <1>2, <2>1
<1>16. QED
  BY <1>12, <1>13, <1>14, <1>15 DEF Next, Main

\* The radio's thread or callback, and the threads of the pipeline.
LEMMA PipelineKeeps ==
  ASSUME IInv, ReceiverOpen', AstrayBounded', GpsTypeOK', FixFromReceiver', FixTrusted',
         \/ Received \/ SourceMoves \/ SourceEnds
         \/ ChannelizerTakes \/ ChannelizerLoops \/ AgcThreadsEnd \/ ProcessorTakes
  PROVE  IInv'
<1> USE DEF IInv, ResourcesOutliveUsers, TypeOK, ShutdownOrder, LateUseBounded, LateOnce,
            RestartAttempted, AckedRewritten, RequestFollowsAck, GainReported, Others, threadVars, ctrlVars, gpsVars
<1>1. CASE Received
  BY <1>1 DEF FlagsOK, Received
<1>2. CASE PushToOpenQueue
  BY <1>2 DEF FlagsOK, PushToOpenQueue
<1>3. CASE PushToClosedQueue
  BY <1>3 DEF FlagsOK, PushToClosedQueue
<1>4. CASE SourceEnds
  <2>1. FlagsOK'
    BY <1>4 DEF FlagsOK, SourceEnds
  <2>2. QED
    BY <1>4, <2>1 DEF SourceEnds
<1>5. CASE ChannelizerTakes
  <2>1. FlagsOK'
    BY <1>5 DEF FlagsOK, ChannelizerTakes
  <2>2. QED
    BY <1>5, <2>1 DEF ChannelizerTakes
<1>6. CASE ChannelizerLoops
  BY <1>6 DEF FlagsOK, ChannelizerLoops
<1>7. CASE AgcThreadsEnd
  BY <1>7 DEF FlagsOK, AgcThreadsEnd
<1>8. CASE ProcessorTakes
  BY <1>8 DEF FlagsOK, ProcessorTakes
<1>9. QED
  BY <1>1, <1>2, <1>3, <1>4, <1>5, <1>6, <1>7, <1>8 DEF SourceMoves

\* A fix, in three steps of the burst processor, and the end of a burst.
LEMMA ProcessorKeeps ==
  ASSUME IInv, ReceiverOpen', AstrayBounded', GpsTypeOK', FixFromReceiver', FixTrusted',
         ProcessorLoops
  PROVE  IInv'
<1> USE DEF IInv, ResourcesOutliveUsers, TypeOK, ShutdownOrder, LateUseBounded, LateOnce,
            RestartAttempted, AckedRewritten, RequestFollowsAck, GainReported, Others, threadVars, ctrlVars, gpsVars
<1>1. /\ procPc \in {"take", "write"} /\ procPc' \in {"take", "write", "gone"}
      /\ UNCHANGED <<ctrlVars, radio, running, mainPc, srcPc, queued, leaked, chanPc, agcPc, gone>>
  BY DEF ProcessorLoops
<1>2. QED
  BY <1>1 DEF FlagsOK

\* main, from the signal to the end.
LEMMA MainKeeps ==
  ASSUME IInv, ReceiverOpen', AstrayBounded', GpsTypeOK', FixFromReceiver', FixTrusted',
         Interrupted \/ Main
  PROVE  IInv'
<1> USE DEF IInv, ResourcesOutliveUsers, TypeOK, ShutdownOrder, LateUseBounded, LateOnce,
            RestartAttempted, AckedRewritten, RequestFollowsAck, GainReported, Others, threadVars, ctrlVars, gpsVars
<1>1. CASE Interrupted
  <2>1. FlagsOK'
    BY <1>1 DEF FlagsOK, Interrupted
  <2>2. QED
    BY <1>1, <2>1 DEF Interrupted
<1>2. CASE StopRadio
  BY <1>2 DEF FlagsOK, StopRadio, MainAt
<1>3. CASE CloseSamples
  BY <1>3 DEF FlagsOK, CloseSamples, MainAt, MainFrees
<1>4. CASE JoinSpewer
  BY <1>4 DEF FlagsOK, JoinSpewer, MainAt, MainFrees
<1>5. CASE JoinChannelizer
  BY <1>5 DEF FlagsOK, JoinChannelizer, MainAt, MainFrees
<1>6. CASE CloseBursts
  BY <1>6 DEF FlagsOK, CloseBursts, MainAt, MainFrees
<1>7. CASE JoinProcessor
  BY <1>7 DEF FlagsOK, JoinProcessor, MainAt, MainFrees
<1>8. CASE CloseRadio
  BY <1>8 DEF FlagsOK, CloseRadio, MainAt, MainFrees
<1>9. CASE CloseFiles
  BY <1>9 DEF FlagsOK, CloseFiles, AfterFiles, MainAt, GpsCloses
<1>15. CASE ForgetGps
  BY <1>15 DEF FlagsOK, ForgetGps, AfterFiles, MainAt, GpsForgets
<1>10. CASE JoinControl
  BY <1>10 DEF FlagsOK, JoinControl, MainAt, MainFrees
<1>11. CASE RestartProgram
  BY <1>11 DEF FlagsOK, RestartProgram, MainFrees
<1>12. CASE CloseControl
  BY <1>12 DEF FlagsOK, CloseControl, MainFrees
<1>13. CASE FreeAll
  BY <1>13 DEF FlagsOK, FreeAll, MainAt, MainFrees
<1>14. QED
  BY <1>1, <1>2, <1>3, <1>4, <1>5, <1>6, <1>7, <1>8, <1>9, <1>10, <1>11, <1>12, <1>13, <1>15 DEF Main

\* The control thread, with heartbeats, gains and receivers.
LEMMA ControlKeeps ==
  ASSUME IInv, ReceiverOpen', AstrayBounded', GpsTypeOK', FixFromReceiver', FixTrusted',
         Receive \/ ControlMoves, UNCHANGED threadVars
  PROVE  IInv'
<1> USE DEF IInv, ResourcesOutliveUsers, TypeOK, ShutdownOrder, LateUseBounded, LateOnce,
            RestartAttempted, AckedRewritten, RequestFollowsAck, GainReported, Others, threadVars, ctrlVars, gpsVars
<1>1. CASE Receive
  <2>1. MaxCommands \in Nat /\ \A c \in Sent[radio] : c \in Commands
    BY ControlAssumption
  <2>2. ctrlPc = "poll" /\ ctrlPc' \in Commands
    BY <1>1, <2>1 DEF Receive, ControlAt
  <2>3. late' \in 0..commands' /\ commands' \in 0..MaxCommands /\ late' <= 1 /\ (running => late' = 0)
    BY <1>1, <2>1, <2>2 DEF Receive
  <2>4. QED
    BY <1>1, <2>2, <2>3 DEF FlagsOK, Receive, ControlAt, Commands
<1>2. CASE PollTimesOut
  BY <1>2 DEF FlagsOK, PollTimesOut, ControlAt
<1>12. CASE HeartbeatAsks
  BY <1>12 DEF FlagsOK, HeartbeatAsks, BeatAsks
<1>13. CASE StatusSent \/ BeatAndLoop
  BY <1>13 DEF FlagsOK, StatusSent, BeatAndLoop, ControlAt, BeatPolls, BeatKeeps
<1>4. CASE SetGain
  <2>1. PICK wanted \in [DOMAIN accepted -> {0, 1}], set \in SUBSET DOMAIN accepted :
          /\ accepted' = [s \in DOMAIN accepted |-> IF s \in set THEN wanted[s] ELSE accepted[s]]
          /\ reported' = [s \in DOMAIN accepted |-> IF s \in set THEN wanted[s] ELSE reported[s]]
    BY <1>4 DEF SetGain, Noted
  <2>2. UNCHANGED radio /\ DOMAIN accepted = Stages(radio)
    BY <1>4 DEF SetGain, ControlAt
  <2>3. 0 # Unset /\ 1 # Unset
    BY DEF Unset
  <2>4. GainReported'
    BY <2>1, <2>2, <2>3
  <2>5. accepted' \in [Stages(radio) -> {Unset, 0, 1}] /\ reported' \in [Stages(radio) -> {0, 1}]
    BY <2>1, <2>2
  <2> HIDE DEF GainReported
  <2>6. QED
    BY <1>4, <2>2, <2>4, <2>5 DEF FlagsOK, SetGain, ControlAt
<1>5. CASE SetSquelch
  BY <1>5 DEF FlagsOK, SetSquelch, ControlAt
<1>6. CASE SetGpsCloses
  BY <1>6 DEF FlagsOK, SetGpsCloses, ControlAt, GpsCloses, GpsForgets
<1>7. CASE SetGpsOpens
  BY <1>7 DEF FlagsOK, SetGpsOpens, ControlAt, GpsOpen, GpsOpenFails
<1>8. CASE Rejected
  BY <1>8 DEF FlagsOK, Rejected, ControlAt
<1>9. CASE AckRestart
  BY <1>9 DEF FlagsOK, AckRestart, ControlAt
<1>10. CASE RequestRestart
  <2>1. FlagsOK'
    BY <1>10 DEF FlagsOK, RequestRestart, ControlAt
  <2>2. QED
    BY <1>10, <2>1 DEF RequestRestart, ControlAt
<1>11. QED
  BY <1>1, <1>2, <1>4, <1>5, <1>6, <1>7, <1>8, <1>9, <1>10, <1>12, <1>13 DEF ControlMoves

\* Every step of every thread keeps it.
LEMMA IInvKept == IInv /\ [Next]_vars => IInv'
<1>1. IInv /\ UNCHANGED vars => IInv'
  BY DEF vars, threadVars, ctrlVars, gpsVars, IInv, ResourcesOutliveUsers, TypeOK, FlagsOK, ShutdownOrder,
         LateUseBounded, LateOnce, RestartAttempted, AckedRewritten, RequestFollowsAck, GainReported,
         GpsTypeOK, GpsFlagsOK, FixFromReceiver, FixTrusted, ReceiverOpen, AstrayBounded, UsesLeft
<1>2. QED
  BY <1>1, ReceiverKept, FixKept, PipelineKeeps, ProcessorKeeps, MainKeeps, ControlKeeps DEF Next

\* Whenever and however the program is stopped, main joins the users of what it
\* closes or frees before it does, but for the control thread: that may use a
\* closed radio or receiver, as often as LateUseBounded says (main.c:617-638,
\* 820-888).
THEOREM ResourcesAlwaysOutliveUsers == Spec => []IInv
BY IInvAtStart, IInvKept, PTL DEF Spec

\* After running is cleared at most one more command is handled, at most one more
\* buffer is lost, and a GPS receiver that main has closed is polled or closed
\* again twice at most (control.c:541, main.c:197, 843-851).
THEOREM LateUseAlwaysBounded == Spec => []LateUseBounded
<1>1. IInv => LateUseBounded
  BY DEF IInv
<1>2. QED
  BY <1>1, ResourcesAlwaysOutliveUsers, PTL

\* Once it has joined the control thread, main does not go on to control_close
\* when the dashboard was told of a restart (main.c:849-875, control.c:452-497).
THEOREM RestartAlwaysAttempted == Spec => []RestartAttempted
<1>1. IInv => RestartAttempted
  BY DEF IInv
<1>2. QED
  BY <1>1, ResourcesAlwaysOutliveUsers, PTL

\* The gains the control thread reports are the last ones each stage of the radio
\* accepted, after any sequence of commands that succeed or fail half-way; only a
\* SoapySDR radio may report its default without having accepted it
\* (hackrf.c:61-74, soapysdr.c:94-98).
THEOREM GainAlwaysReported == Spec => []GainReported
<1>1. IInv => GainReported
  BY DEF IInv
<1>2. QED
  BY <1>1, ResourcesAlwaysOutliveUsers, PTL

\* As long as no receiver was closed or opened while the burst processor was
\* getting a fix, the fix is of the receiver that is open (gps_tag.c).
THEOREM FixAlwaysFromReceiver == Spec => []FixFromReceiver
<1>1. IInv => FixFromReceiver
  BY DEF IInv
<1>2. QED
  BY <1>1, ResourcesAlwaysOutliveUsers, PTL

-----------------------------------------------------------------------------
(* The command line of the new process *)

\* A set of places has a highest one.
LEMMA HighestPlace ==
  ASSUME NEW n \in Nat, NEW S \in SUBSET (1..n), S # {}
  PROVE  \E m \in S : \A i \in S : i <= m
<1> DEFINE R == {ss \in Nat \X Nat : ss[1] < ss[2]}
           below == {n - i : i \in S}
<1>1. IsWellFoundedOn(R, Nat)
  BY NatLessThanWellFounded DEF OpToRel
<1>2. below \in SUBSET Nat /\ below # {}
  <2>1. \A i \in S : n - i \in Nat
    OBVIOUS
  <2>2. \A b \in below : b \in Nat
    BY <2>1
  <2>3. PICK i \in S : TRUE
    OBVIOUS
  <2>4. n - i \in below
    BY <2>3
  <2>5. QED
    BY <2>2, <2>4
<1>3. PICK b \in below : \A y \in below : ~ (<<y, b>> \in R)
  <2> HIDE DEF below, R
  <2>1. QED
    BY <1>1, <1>2, WFMin
<1>4. PICK m \in S : b = n - m
  OBVIOUS
<1>5. \A i \in S : i <= m
  <2> TAKE i \in S
  <2>1. n - i \in below /\ n - i \in Nat /\ b \in Nat
    BY <1>2, <1>3
  <2>2. <<n - i, b>>[1] = n - i /\ <<n - i, b>>[2] = b
    OBVIOUS
  <2>3. ~ (n - i < b)
    BY <1>3, <2>1, <2>2
  <2>4. QED
    BY <1>4, <2>3
<1>6. QED
  BY <1>5

\* The highest place is the maximum.
LEMMA MaxIs ==
  ASSUME NEW n \in Nat, NEW S \in SUBSET (1..n), NEW m \in S, \A i \in S : i <= m
  PROVE  Max(S) = m
<1>1. Max(S) \in S /\ \A y \in S : Max(S) >= y
  BY DEF Max
<1>2. PICK x \in 1..n : x = Max(S)
  BY <1>1
<1>3. x >= m /\ x <= m /\ m \in 1..n
  BY <1>1, <1>2
<1>4. QED
  BY <1>2, <1>3

\* A new value is an argument.
LEMMA OperandIsArg == \A v \in Int : Operand(v) \in Args
  BY DEF Operand, Arg, Args, Options

\* The settings whose new value the option at place i gets.
Hit(argv, new, i) == {k \in Settings : new[k] # Keep /\ Flags(argv, i, k)}

\* The argument at place p after the new values are put in: none moves.
Replaced(argv, new, p) ==
  IF p > 1 /\ Hit(argv, new, p - 1) # {}
  THEN Operand(new[CHOOSE k \in Hit(argv, new, p - 1) : TRUE]) ELSE argv[p]

\* The arguments from place i on; the one at i stays as it is.
From(argv, new, i) ==
  [j \in 1..Len(argv) + 1 - i |-> IF j = 1 THEN argv[i] ELSE Replaced(argv, new, i + j - 1)]

\* One round of the loop of handle_restart, with `rest` for what comes after.
Round(argv, new, rest, i) ==
  IF i > Len(argv) THEN <<>>
  ELSE LET hit == {k \in Settings : new[k] # Keep /\ Flags(argv, i, k)} IN
       IF hit = {} THEN <<argv[i]>> \o rest[i + 1]
       ELSE LET k == CHOOSE k \in hit : TRUE
                separate == argv[i].opt # Joined(k) /\ i < Len(argv)
            IN  <<argv[i], Operand(new[k])>> \o rest[IF separate THEN i + 2 ELSE i + 1]

\* An option that is changed has its value in the next argument.
LEMMA HitHasValue ==
  ASSUME NEW argv, Usable(argv), Separate(argv), NEW new \in [Settings -> Int],
         NEW i \in 1..Len(argv), Hit(argv, new, i) # {}
  PROVE  /\ i < Len(argv) /\ argv[i + 1].opt = "operand"
         /\ Hit(argv, new, i + 1) = {}
         /\ \A k \in Hit(argv, new, i) : argv[i].opt \in {Short(k), Long(k)} /\ argv[i].opt # Joined(k)
<1>1. PICK k \in Settings : Flags(argv, i, k)
  BY DEF Hit
<1>2. i \in DOMAIN argv /\ Len(argv) \in Nat
  BY DEF Usable
<1>3. argv[i].opt \in {Short(k), Long(k)}
  BY <1>1, <1>2 DEF Flags, Separate
<1>4. i < Len(argv) /\ argv[i + 1].opt = "operand"
  BY <1>2, <1>3 DEF Usable
<1>5. Hit(argv, new, i + 1) = {}
  BY <1>4 DEF Hit, Flags, Short, Long, Joined
<1>6. \A j \in Hit(argv, new, i) : argv[i].opt \in {Short(j), Long(j)} /\ argv[i].opt # Joined(j)
  BY <1>2 DEF Hit, Flags, Separate
<1>7. QED
  BY <1>4, <1>5, <1>6

\* What is left of a command line from a place on is one.
LEMMA FromIsLine ==
  ASSUME NEW argv, Usable(argv), NEW new \in [Settings -> Int], NEW i \in 1..Len(argv) + 1
  PROVE  From(argv, new, i) \in Seq(Args) /\ Len(From(argv, new, i)) = Len(argv) + 1 - i
<1>1. argv \in Seq(Args) /\ Len(argv) \in Nat
  BY DEF Usable
<1>2. ASSUME NEW p \in 1..Len(argv)
      PROVE  Replaced(argv, new, p) \in Args /\ argv[p] \in Args
  <2>1. argv[p] \in Args
    BY <1>1
  <2>2. ASSUME NEW k \in Settings PROVE Operand(new[k]) \in Args
    BY OperandIsArg
  <2>3. Hit(argv, new, p - 1) # {} => (CHOOSE k \in Hit(argv, new, p - 1) : TRUE) \in Settings
    BY DEF Hit
  <2>4. QED
    BY <2>1, <2>2, <2>3 DEF Replaced
<1>3. PICK n \in Nat : n = Len(argv) + 1 - i
  BY <1>1
<1>4. \A j \in 1..n : i \in 1..Len(argv) /\ i + j - 1 \in 1..Len(argv)
  BY <1>1, <1>3
<1>5. From(argv, new, i) = [j \in 1..n |-> IF j = 1 THEN argv[i] ELSE Replaced(argv, new, i + j - 1)]
  BY <1>3 DEF From
<1>6. From(argv, new, i) \in [1..n -> Args]
  BY <1>2, <1>4, <1>5
<1>7. QED
  BY <1>3, <1>6

\* A round of the loop gives the arguments from its place on, if the later rounds do.
LEMMA RoundGives ==
  ASSUME NEW argv, Usable(argv), Separate(argv), NEW new \in [Settings -> Int],
         NEW rest, NEW i \in 1..Len(argv) + 1,
         \A j \in i + 1..Len(argv) + 1 : rest[j] = From(argv, new, j)
  PROVE  Round(argv, new, rest, i) = From(argv, new, i)
<1>1. argv \in Seq(Args)
  BY DEF Usable
<1>2. PICK n \in Nat : n = Len(argv)
  BY <1>1
<1>3. From(argv, new, i) \in Seq(Args) /\ Len(From(argv, new, i)) = n + 1 - i
  BY <1>2, FromIsLine
<1>4. CASE i > n
  BY <1>2, <1>3, <1>4 DEF Round
<1>5. CASE i <= n /\ Hit(argv, new, i) = {}
  <2>1. Round(argv, new, rest, i) = <<argv[i]>> \o rest[i + 1]
    BY <1>2, <1>5 DEF Round, Hit
  <2>2. i + 1 \in i + 1..Len(argv) + 1 /\ i + 1 \in 1..Len(argv) + 1
    BY <1>2, <1>5
  <2>3. rest[i + 1] = From(argv, new, i + 1)
    BY <2>2
  <2>4. From(argv, new, i + 1) \in Seq(Args) /\ Len(From(argv, new, i + 1)) = n - i
    <3>1. /\ From(argv, new, i + 1) \in Seq(Args)
          /\ Len(From(argv, new, i + 1)) = Len(argv) + 1 - (i + 1)
      BY <2>2, FromIsLine
    <3>2. QED
      BY <1>2, <3>1
  <2>5. <<argv[i]>> \in Seq(Args) /\ Len(<<argv[i]>>) = 1 /\ <<argv[i]>>[1] = argv[i]
    BY <1>1, <1>2, <1>5
  <2> DEFINE s == <<argv[i]>> \o From(argv, new, i + 1)
  <2>6. /\ s \in Seq(Args) /\ Len(s) = 1 + (n - i)
        /\ \A j \in 1..1 + (n - i) :
             s[j] = IF j <= 1 THEN <<argv[i]>>[j] ELSE From(argv, new, i + 1)[j - 1]
    BY <2>4, <2>5, ConcatProperties
  <2> HIDE DEF s
  <2>7. ASSUME NEW j \in 1..n + 1 - i
        PROVE  s[j] = From(argv, new, i)[j]
    <3>1. From(argv, new, i)[j] = IF j = 1 THEN argv[i] ELSE Replaced(argv, new, i + j - 1)
      BY <1>2 DEF From
    <3>2. CASE j = 1
      BY <2>5, <2>6, <3>1, <3>2
    <3>3. CASE j > 1
      <4>1. s[j] = From(argv, new, i + 1)[j - 1] /\ j - 1 \in 1..n + 1 - (i + 1)
        BY <2>6, <3>3
      <4>2. From(argv, new, i + 1)[j - 1]
              = IF j - 1 = 1 THEN argv[i + 1] ELSE Replaced(argv, new, i + 1 + (j - 1) - 1)
        BY <1>2, <4>1 DEF From
      <4>3. i + 1 + (j - 1) - 1 = i + j - 1
        BY <3>3
      <4>4. Replaced(argv, new, i + 1) = argv[i + 1]
        <5>1. i + 1 - 1 = i
          BY <1>2
        <5>2. QED
          BY <1>5, <5>1 DEF Replaced
      <4>5. j - 1 = 1 => i + j - 1 = i + 1
        BY <3>3
      <4>6. QED
        BY <3>1, <3>3, <4>1, <4>2, <4>3, <4>4, <4>5
    <3>4. QED
      BY <3>2, <3>3
  <2>8. Len(s) = n + 1 - i
    BY <1>2, <2>6
  <2>9. s = From(argv, new, i)
    BY <1>3, <2>6, <2>7, <2>8, SeqEqual
  <2>10. QED
    BY <2>1, <2>3, <2>9 DEF s
<1>6. CASE i <= n /\ Hit(argv, new, i) # {}
  <2> DEFINE k == CHOOSE k \in Hit(argv, new, i) : TRUE
             two == <<argv[i], Operand(new[k])>>
  <2>1. /\ i < n /\ argv[i + 1].opt = "operand" /\ Hit(argv, new, i + 1) = {}
        /\ argv[i].opt # Joined(k) /\ k \in Settings
    <3>1. i \in 1..Len(argv)
      BY <1>2, <1>6
    <3>2. k \in Hit(argv, new, i)
      BY <1>6
    <3>3. k \in Settings
      BY <3>2 DEF Hit
    <3> HIDE DEF k
    <3>4. QED
      BY <1>2, <1>6, <3>1, <3>2, <3>3, HitHasValue
  <2>2. Round(argv, new, rest, i) = two \o rest[i + 2]
    <3>1. ~ (i > Len(argv)) /\ i < Len(argv)
      BY <1>2, <2>1
    <3>2. QED
      BY <1>6, <2>1, <3>1 DEF Round, Hit
  <2>3. i + 2 \in i + 1..Len(argv) + 1 /\ i + 2 \in 1..Len(argv) + 1
    BY <1>2, <2>1
  <2>4. rest[i + 2] = From(argv, new, i + 2)
    BY <2>3
  <2>5. From(argv, new, i + 2) \in Seq(Args) /\ Len(From(argv, new, i + 2)) = n - i - 1
    <3>1. /\ From(argv, new, i + 2) \in Seq(Args)
          /\ Len(From(argv, new, i + 2)) = Len(argv) + 1 - (i + 2)
      BY <2>3, FromIsLine
    <3>2. QED
      BY <1>2, <3>1
  <2>6. two \in Seq(Args) /\ Len(two) = 2 /\ two[1] = argv[i] /\ two[2] = Operand(new[k])
    <3>1. Operand(new[k]) \in Args
      BY <2>1, OperandIsArg
    <3>2. argv[i] \in Args
      BY <1>1, <1>2, <1>6
    <3> HIDE DEF k
    <3>3. QED
      BY <3>1, <3>2
  <2> HIDE DEF two
  <2> DEFINE s == two \o From(argv, new, i + 2)
  <2>7. /\ s \in Seq(Args) /\ Len(s) = 2 + (n - i - 1)
        /\ \A j \in 1..2 + (n - i - 1) :
             s[j] = IF j <= 2 THEN two[j] ELSE From(argv, new, i + 2)[j - 2]
    <3> DEFINE t == From(argv, new, i + 2)
    <3>1. /\ two \o t \in Seq(Args) /\ Len(two \o t) = Len(two) + Len(t)
          /\ \A j \in 1..Len(two) + Len(t) :
               (two \o t)[j] = IF j <= Len(two) THEN two[j] ELSE t[j - Len(two)]
      BY <2>5, <2>6, ConcatProperties
    <3> HIDE DEF t
    <3>2. Len(t) = n - i - 1
      BY <2>5 DEF t
    <3>3. /\ two \o t \in Seq(Args) /\ Len(two \o t) = 2 + (n - i - 1)
          /\ \A j \in 1..2 + (n - i - 1) : (two \o t)[j] = IF j <= 2 THEN two[j] ELSE t[j - 2]
      BY <2>6, <3>1, <3>2
    <3>4. QED
      BY <3>3 DEF t
  <2> HIDE DEF s
  <2>8. ASSUME NEW j \in 1..n + 1 - i
        PROVE  s[j] = From(argv, new, i)[j]
    <3>1. From(argv, new, i)[j] = IF j = 1 THEN argv[i] ELSE Replaced(argv, new, i + j - 1)
      BY <1>2 DEF From
    <3>2. CASE j = 1
      BY <1>2, <2>1, <2>6, <2>7, <3>1, <3>2
    <3>3. CASE j = 2
      <4>1. s[2] = Operand(new[k])
        <5>1. 2 \in 1..2 + (n - i - 1)
          BY <1>2, <2>1
        <5>2. s[2] = two[2]
          BY <2>7, <5>1
        <5>3. QED
          BY <2>6, <5>2
      <4>2. From(argv, new, i)[2] = Replaced(argv, new, i + 1)
        BY <3>1, <3>3
      <4>3. i + 1 > 1 /\ i + 1 - 1 = i
        BY <1>2
      <4>4. Replaced(argv, new, i + 1) = Operand(new[k])
        BY <1>6, <4>3 DEF Replaced
      <4>5. QED
        BY <3>3, <4>1, <4>2, <4>4
    <3>4. CASE j > 2
      <4>1. s[j] = From(argv, new, i + 2)[j - 2] /\ j - 2 \in 1..n + 1 - (i + 2)
        <5>1. j \in 1..2 + (n - i - 1) /\ j - 2 \in 1..n + 1 - (i + 2) /\ ~ (j <= 2)
          BY <1>2, <2>1, <3>4
        <5>2. QED
          BY <2>7, <5>1
      <4>2. From(argv, new, i + 2)[j - 2]
              = IF j - 2 = 1 THEN argv[i + 2] ELSE Replaced(argv, new, i + 2 + (j - 2) - 1)
        BY <1>2, <4>1 DEF From
      <4>3. i + 2 + (j - 2) - 1 = i + j - 1
        BY <3>4
      <4>4. Replaced(argv, new, i + 2) = argv[i + 2]
        <5>1. i + 2 - 1 = i + 1
          BY <1>2
        <5>2. QED
          BY <2>1, <5>1 DEF Replaced
      <4>5. j - 2 = 1 => i + j - 1 = i + 2
        BY <3>4
      <4>6. QED
        BY <3>1, <3>4, <4>1, <4>2, <4>3, <4>4, <4>5
    <3>5. QED
      BY <3>2, <3>3, <3>4
  <2>9. Len(s) = n + 1 - i
    BY <1>2, <2>7
  <2>10. s = From(argv, new, i)
    BY <1>3, <2>7, <2>8, <2>9, SeqEqual
  <2>11. QED
    BY <2>2, <2>4, <2>10 DEF s
<1>7. QED
  BY <1>2, <1>4, <1>5, <1>6

\* What handle_restart's loop makes of a command line.
LEMMA RewrittenIs ==
  ASSUME NEW argv, Usable(argv), Separate(argv), NEW new \in [Settings -> Int]
  PROVE  Rewritten(argv, new) = From(argv, new, 1)
<1>1. PICK n \in Nat : n = Len(argv)
  BY DEF Usable
<1> DEFINE Loop(at) == at = [i \in 1..Len(argv) + 1 |-> Round(argv, new, at, i)]
           at == CHOOSE at : Loop(at)
<1>2. Rewritten(argv, new) = at[1]
  BY DEF Rewritten, Round
<1>3. \E r : Loop(r)
  <2> DEFINE r == [i \in 1..Len(argv) + 1 |-> From(argv, new, i)]
  <2>1. ASSUME NEW i \in 1..Len(argv) + 1
        PROVE  Round(argv, new, r, i) = From(argv, new, i)
    <3>1. \A j \in i + 1..Len(argv) + 1 : r[j] = From(argv, new, j)
      BY <1>1
    <3> HIDE DEF r
    <3>2. QED
      BY <3>1, RoundGives
  <2>2. Loop(r)
    BY <2>1
  <2>3. QED
    BY <2>2
<1>4. Loop(at)
  BY <1>3
<1> HIDE DEF at
<1> DEFINE wrong == {i \in 1..n + 1 : at[i] # From(argv, new, i)}
<1>5. wrong = {}
  <2> SUFFICES ASSUME wrong # {} PROVE FALSE
    OBVIOUS
  <2>1. wrong \in SUBSET (1..n + 1) /\ n + 1 \in Nat
    BY <1>1
  <2> HIDE DEF wrong
  <2>2. PICK m \in wrong : \A i \in wrong : i <= m
    BY <2>1, HighestPlace
  <2>3. m \in 1..Len(argv) + 1
    BY <1>1, <2>1
  <2>4. \A j \in m + 1..Len(argv) + 1 : at[j] = From(argv, new, j)
    <3> TAKE j \in m + 1..Len(argv) + 1
    <3>1. j \notin wrong /\ j \in 1..n + 1
      BY <1>1, <2>2, <2>3
    <3>2. QED
      BY <3>1 DEF wrong
  <2>5. Round(argv, new, at, m) = From(argv, new, m)
    BY <2>3, <2>4, RoundGives
  <2>6. at[m] = Round(argv, new, at, m)
    BY <1>4, <2>3
  <2>7. QED
    BY <2>2, <2>5, <2>6 DEF wrong
<1>6. 1 \in 1..n + 1
  BY <1>1
<1>7. QED
  BY <1>2, <1>5, <1>6

\* The arguments of the new process: those of the old one, with new values at the
\* same places, and the settings no option was for at the end.
LEMMA NewArgvIs ==
  ASSUME NEW argv, Usable(argv), Separate(argv), NEW new \in [Settings -> Int]
  PROVE  LET n == Len(argv)
             Added(k) == Appended(argv, new, k) # <<>>
             m == Len(NewArgv(argv, new))
         IN  /\ NewArgv(argv, new) \in Seq(Args)
             /\ m \in Nat /\ n <= m
             /\ \A p \in 1..n : NewArgv(argv, new)[p] = Replaced(argv, new, p)
             /\ \A k \in Settings : Added(k) =>
                  \E q \in n + 1..m - 1 :
                     /\ NewArgv(argv, new)[q] = Arg(Short(k), 0)
                     /\ NewArgv(argv, new)[q + 1] = Operand(new[k])
             /\ \A p \in n + 1..m :
                  \/ NewArgv(argv, new)[p].opt = "operand"
                  \/ \E k \in Settings : Added(k) /\ NewArgv(argv, new)[p].opt = Short(k)
             /\ \A k \in Settings, p, q \in n + 1..m :
                  NewArgv(argv, new)[p].opt = Short(k) /\ NewArgv(argv, new)[q].opt = Short(k) => p = q
<1> DEFINE r == From(argv, new, 1)
           a == Appended(argv, new, "center_freq")
           b == Appended(argv, new, "channels")
           out == NewArgv(argv, new)
<1>1. PICK n \in Nat : n = Len(argv)
  BY DEF Usable
<1>2. r \in Seq(Args) /\ Len(r) = n
  <2>1. 1 \in 1..Len(argv) + 1
    BY <1>1
  <2>2. r \in Seq(Args) /\ Len(r) = Len(argv) + 1 - 1
    BY <2>1, FromIsLine
  <2>3. QED
    BY <1>1, <2>2
<1>3. \A p \in 1..n : r[p] = Replaced(argv, new, p)
  <2> TAKE p \in 1..n
  <2>1. r[p] = IF p = 1 THEN argv[1] ELSE Replaced(argv, new, 1 + p - 1)
    BY <1>1 DEF From
  <2>2. 1 + p - 1 = p
    OBVIOUS
  <2>3. p = 1 => Replaced(argv, new, p) = argv[1]
    BY DEF Replaced
  <2>4. QED
    BY <2>1, <2>2, <2>3
<1>4. ASSUME NEW k \in Settings
      PROVE  \/ Appended(argv, new, k) = <<>>
             \/ /\ Appended(argv, new, k) = <<Arg(Short(k), 0), Operand(new[k])>>
                /\ Appended(argv, new, k) \in Seq(Args) /\ Len(Appended(argv, new, k)) = 2
                /\ Appended(argv, new, k)[1] = Arg(Short(k), 0)
                /\ Appended(argv, new, k)[2] = Operand(new[k])
  <2>1. Arg(Short(k), 0) \in Args
    BY DEF Arg, Args, Options
  <2>2. Operand(new[k]) \in Args
    BY OperandIsArg
  <2>3. QED
    BY <2>1, <2>2 DEF Appended
<1>5. out = (r \o a) \o b
  BY RewrittenIs DEF NewArgv
<1>6. "center_freq" \in Settings /\ "channels" \in Settings /\ Settings = {"center_freq", "channels"}
  BY DEF Settings
<1>7. a \in Seq(Args) /\ b \in Seq(Args) /\ Len(a) \in {0, 2} /\ Len(b) \in {0, 2}
      /\ (a # <<>> <=> Len(a) = 2) /\ (b # <<>> <=> Len(b) = 2)
  <2>1. ASSUME NEW k \in Settings
        PROVE  \/ Appended(argv, new, k) = <<>>
               \/ /\ Appended(argv, new, k) \in Seq(Args)
                  /\ Len(Appended(argv, new, k)) = 2
    BY <1>4
  <2>2. a = <<>> \/ (a \in Seq(Args) /\ Len(a) = 2)
    BY <1>6, <2>1
  <2>3. b = <<>> \/ (b \in Seq(Args) /\ Len(b) = 2)
    BY <1>6, <2>1
  <2> HIDE DEF a, b
  <2>4. <<>> \in Seq(Args) /\ Len(<<>>) = 0
    OBVIOUS
  <2> HIDE DEF a, b
  <2>5. a \in Seq(Args) /\ Len(a) \in {0, 2} /\ (a # <<>> <=> Len(a) = 2)
    <3>1. CASE a = <<>>
      BY <2>4, <3>1
    <3>2. CASE a # <<>>
      BY <2>2, <3>2
    <3>3. QED
      BY <3>1, <3>2
  <2>6. b \in Seq(Args) /\ Len(b) \in {0, 2} /\ (b # <<>> <=> Len(b) = 2)
    <3>1. CASE b = <<>>
      BY <2>4, <3>1
    <3>2. CASE b # <<>>
      BY <2>3, <3>2
    <3>3. QED
      BY <3>1, <3>2
  <2>7. QED
    BY <2>5, <2>6
<1>8. PICK la \in {0, 2}, lb \in {0, 2} : la = Len(a) /\ lb = Len(b)
  BY <1>7
<1> HIDE DEF r, a, b, out
<1>0. la \in Nat /\ lb \in Nat
  BY <1>8
<1>9. /\ r \o a \in Seq(Args) /\ Len(r \o a) = n + la
      /\ \A p \in 1..n + la : (r \o a)[p] = IF p <= n THEN r[p] ELSE a[p - n]
  BY <1>2, <1>7, <1>8, ConcatProperties
<1>10. /\ out \in Seq(Args) /\ Len(out) = n + la + lb
       /\ \A p \in 1..n + la + lb : out[p] = IF p <= n + la THEN (r \o a)[p] ELSE b[p - (n + la)]
  <2>1. PICK t \in Seq(Args) : t = r \o a /\ Len(t) = n + la
    BY <1>9
  <2>2. /\ t \o b \in Seq(Args) /\ Len(t \o b) = Len(t) + Len(b)
        /\ \A p \in 1..Len(t) + Len(b) : (t \o b)[p] = IF p <= Len(t) THEN t[p] ELSE b[p - Len(t)]
    BY <1>7, ConcatProperties
  <2>3. out = t \o b
    BY <1>5, <2>1
  <2>4. /\ out \in Seq(Args) /\ Len(out) = n + la + lb
        /\ \A p \in 1..n + la + lb : out[p] = IF p <= n + la THEN t[p] ELSE b[p - (n + la)]
    BY <1>8, <2>1, <2>2, <2>3
  <2>5. QED
    BY <2>1, <2>4
<1>11. \A p \in 1..n : out[p] = Replaced(argv, new, p)
  <2> TAKE p \in 1..n
  <2>1. p \in 1..n + la /\ p \in 1..n + la + lb /\ p <= n + la /\ p <= n
    BY <1>0
  <2>2. out[p] = (r \o a)[p]
    BY <1>10, <2>1
  <2>3. (r \o a)[p] = r[p]
    BY <1>9, <2>1
  <2>4. QED
    BY <1>3, <2>2, <2>3
<1>12. la = 2 => /\ out[n + 1] = Arg(Short("center_freq"), 0)
                 /\ out[n + 2] = Operand(new["center_freq"])
  <2> SUFFICES ASSUME la = 2 PROVE out[n + 1] = a[1] /\ out[n + 2] = a[2]
    BY <1>4, <1>6, <1>7, <1>8 DEF a
  <2>1. n + 1 \in 1..n + la /\ n + 2 \in 1..n + la
        /\ n + 1 \in 1..n + la + lb /\ n + 2 \in 1..n + la + lb
    BY <1>8
  <2>2. n + 1 <= n + la /\ n + 2 <= n + la /\ ~ (n + 1 <= n) /\ ~ (n + 2 <= n)
    OBVIOUS
  <2>3. out[n + 1] = (r \o a)[n + 1] /\ out[n + 2] = (r \o a)[n + 2]
    BY <1>10, <2>1, <2>2
  <2>4. (r \o a)[n + 1] = a[(n + 1) - n] /\ (r \o a)[n + 2] = a[(n + 2) - n]
    BY <1>9, <2>1, <2>2
  <2>5. (n + 1) - n = 1 /\ (n + 2) - n = 2
    OBVIOUS
  <2>6. QED
    BY <2>3, <2>4, <2>5
<1>13. lb = 2 => /\ out[n + la + 1] = Arg(Short("channels"), 0)
                 /\ out[n + la + 2] = Operand(new["channels"])
  <2> SUFFICES ASSUME lb = 2 PROVE out[n + la + 1] = b[1] /\ out[n + la + 2] = b[2]
    BY <1>4, <1>6, <1>7, <1>8 DEF b
  <2>1. n + la + 1 \in 1..n + la + lb /\ n + la + 2 \in 1..n + la + lb
        /\ ~ (n + la + 1 <= n + la) /\ ~ (n + la + 2 <= n + la)
        /\ (n + la + 1) - (n + la) = 1 /\ (n + la + 2) - (n + la) = 2
    BY <1>8
  <2>2. QED
    BY <1>10, <2>1
<1>14. \A p \in n + 1..n + la + lb :
         \/ la = 2 /\ p = n + 1
         \/ la = 2 /\ p = n + 2
         \/ lb = 2 /\ p = n + la + 1
         \/ lb = 2 /\ p = n + la + 2
  <2> TAKE p \in n + 1..n + la + lb
  <2>1. CASE la = 0 /\ lb = 0
    BY <2>1
  <2>2. CASE la = 2 /\ lb = 0
    BY <2>2
  <2>3. CASE la = 0 /\ lb = 2
    BY <2>3
  <2>4. CASE la = 2 /\ lb = 2
    BY <2>4
  <2>5. QED
    BY <1>8, <2>1, <2>2, <2>3, <2>4
<1>15. Appended(argv, new, "center_freq") # <<>> <=> la = 2
  BY <1>7, <1>8 DEF a
<1>16. Appended(argv, new, "channels") # <<>> <=> lb = 2
  BY <1>7, <1>8 DEF b
<1>17. \A v : Operand(v).opt = "operand" /\ Arg(Short("center_freq"), 0).opt = "-c"
              /\ Arg(Short("channels"), 0).opt = "-C"
  BY DEF Operand, Arg, Short
<1>18. Short("center_freq") = "-c" /\ Short("channels") = "-C"
  BY DEF Short
<1>19. \A k \in Settings : Appended(argv, new, k) # <<>> =>
         \E q \in n + 1..Len(out) - 1 :
            out[q] = Arg(Short(k), 0) /\ out[q + 1] = Operand(new[k])
  <2> TAKE k \in Settings
  <2> HAVE Appended(argv, new, k) # <<>>
  <2>1. CASE k = "center_freq"
    <3>1. la = 2 /\ Len(out) = n + 2 + lb
      BY <1>10, <1>15, <2>1
    <3>2. n + 1 \in n + 1..Len(out) - 1 /\ (n + 1) + 1 = n + 2 /\ la = 2
      BY <1>0, <3>1
    <3>3. QED
      BY <1>12, <2>1, <3>2
  <2>2. CASE k = "channels"
    <3>1. n + la + 1 \in n + 1..Len(out) - 1 /\ (n + la + 1) + 1 = n + la + 2 /\ lb = 2
      BY <1>8, <1>10, <1>16, <2>2
    <3>2. QED
      BY <1>13, <2>2, <3>1
  <2>3. QED
    BY <1>6, <2>1, <2>2
<1>20. \A p \in n + 1..Len(out) :
         \/ out[p].opt = "operand"
         \/ \E k \in Settings : Appended(argv, new, k) # <<>> /\ out[p].opt = Short(k)
  <2> TAKE p \in n + 1..Len(out)
  <2>1. p \in n + 1..n + la + lb
    BY <1>10
  <2>2. CASE la = 2 /\ p = n + 1
    BY <1>6, <1>12, <1>15, <1>17, <1>18, <2>2
  <2>3. CASE la = 2 /\ p = n + 2
    BY <1>12, <1>17, <2>3
  <2>4. CASE lb = 2 /\ p = n + la + 1
    BY <1>6, <1>13, <1>16, <1>17, <1>18, <2>4
  <2>5. CASE lb = 2 /\ p = n + la + 2
    BY <1>13, <1>17, <2>5
  <2>6. QED
    BY <1>14, <2>1, <2>2, <2>3, <2>4, <2>5
<1>21. \A k \in Settings, p, q \in n + 1..Len(out) :
         out[p].opt = Short(k) /\ out[q].opt = Short(k) => p = q
  <2>1. ASSUME NEW k \in Settings, NEW p \in n + 1..Len(out), out[p].opt = Short(k)
        PROVE  p = IF k = "center_freq" THEN n + 1 ELSE n + la + 1
    <3>1. p \in n + 1..n + la + lb
      BY <1>10
    <3>2. (k = "center_freq" /\ Short(k) = "-c") \/ (k = "channels" /\ Short(k) = "-C")
      <4>1. k = "center_freq" \/ k = "channels"
        BY <1>6
      <4>2. QED
        BY <4>1 DEF Short
    <3>3. CASE la = 2 /\ p = n + 1
      BY <1>12, <1>17, <2>1, <3>2, <3>3
    <3>4. CASE la = 2 /\ p = n + 2
      BY <1>12, <1>17, <2>1, <3>2, <3>4
    <3>5. CASE lb = 2 /\ p = n + la + 1
      BY <1>13, <1>17, <2>1, <3>2, <3>5
    <3>6. CASE lb = 2 /\ p = n + la + 2
      BY <1>13, <1>17, <2>1, <3>2, <3>6
    <3>7. QED
      BY <1>14, <3>1, <3>3, <3>4, <3>5, <3>6
  <2>2. QED
    BY <2>1
<1>22. Len(out) \in Nat /\ n <= Len(out)
  BY <1>8, <1>10
<1>23. QED
  BY <1>1, <1>10, <1>11, <1>19, <1>20, <1>21, <1>22 DEF out
\* The new process takes the values it is asked to, and keeps the others, whatever
\* separate options the old one was started with.
LEMMA NewValuesTaken ==
  ASSUME NEW argv, Usable(argv), Separate(argv), NEW new \in [Settings -> Int]
  PROVE  TakesValues(argv, NewArgv(argv, new), new)
<1> DEFINE n == Len(argv)
           out == NewArgv(argv, new)
           m == Len(out)
           Added(k) == Appended(argv, new, k) # <<>>
<1>1. /\ m \in Nat /\ n <= m
      /\ \A p \in 1..n : out[p] = Replaced(argv, new, p)
      /\ \A k \in Settings : Added(k) =>
           \E q \in n + 1..m - 1 : out[q] = Arg(Short(k), 0) /\ out[q + 1] = Operand(new[k])
      /\ \A p \in n + 1..m :
           \/ out[p].opt = "operand"
           \/ \E k \in Settings : Added(k) /\ out[p].opt = Short(k)
      /\ \A k \in Settings, p, q \in n + 1..m :
           out[p].opt = Short(k) /\ out[q].opt = Short(k) => p = q
  BY NewArgvIs
<1>2. n \in Nat /\ DOMAIN argv = 1..n /\ DOMAIN out = 1..m
  <2>1. argv \in Seq(Args)
    BY DEF Usable
  <2>2. out \in Seq(Args)
    BY NewArgvIs
  <2>3. QED
    BY <2>1, <2>2
<1> HIDE DEF out, m, n
<1>3. \A k, j \in Settings : (Short(k) = Short(j) => k = j)
  BY DEF Settings, Short
<1>4. ASSUME NEW p \in 1..n PROVE out[p].opt = argv[p].opt
  <2>1. CASE p > 1 /\ Hit(argv, new, p - 1) # {}
    <3>1. p - 1 \in 1..Len(argv) /\ (p - 1) + 1 = p
      BY <1>2, <2>1 DEF n
    <3>2. argv[p].opt = "operand"
      BY <2>1, <3>1, HitHasValue
    <3>3. out[p] = Operand(new[CHOOSE k \in Hit(argv, new, p - 1) : TRUE])
      BY <1>1, <2>1 DEF Replaced
    <3>4. QED
      BY <3>2, <3>3 DEF Operand, Arg
  <2>2. CASE ~ (p > 1 /\ Hit(argv, new, p - 1) # {})
    BY <1>1, <2>2 DEF Replaced
  <2>3. QED
    BY <2>1, <2>2
<1>5. ASSUME NEW k \in Settings
      PROVE  Parsed(out, k) = IF new[k] = Keep THEN Parsed(argv, k) ELSE new[k]
  <2> DEFINE old == Assigning(argv, k)
             now == Assigning(out, k)
  <2>1. old \in SUBSET (1..n) /\ now \in SUBSET (1..m)
    BY <1>2 DEF Assigning
  <2>2. \A p \in 1..n : p \in 1..m /\ (p \in now <=> p \in old)
    <3> TAKE p \in 1..n
    <3>1. p \in 1..m
      BY <1>1, <1>2
    <3>2. QED
      BY <1>2, <1>4, <3>1 DEF Assigning
  <2>3. \A p \in now : p \in 1..n \/ (p \in n + 1..m /\ out[p].opt = Short(k) /\ Added(k))
    <3> TAKE p \in now
    <3> SUFFICES ASSUME p \notin 1..n PROVE p \in n + 1..m /\ out[p].opt = Short(k) /\ Added(k)
      OBVIOUS
    <3>1. p \in n + 1..m
      BY <1>1, <1>2, <2>1
    <3>2. out[p].opt \in {Short(k), Long(k), Joined(k), "-a"}
      BY DEF Assigning
    <3>3. out[p].opt # "operand"
      BY <3>2 DEF Short, Long, Joined
    <3>4. PICK j \in Settings : Added(j) /\ out[p].opt = Short(j)
      BY <1>1, <3>1, <3>3
    <3>5. j = k
      BY <3>2, <3>4 DEF Short, Long, Joined, Settings
    <3>6. QED
      BY <3>1, <3>4, <3>5
  <2>4. CASE Added(k)
    <3>1. new[k] # Keep
      BY <2>4 DEF Appended
    <3>2. PICK q \in n + 1..m - 1 : out[q] = Arg(Short(k), 0) /\ out[q + 1] = Operand(new[k])
      BY <1>1, <2>4
    <3>3. q \in 1..m /\ q \in n + 1..m /\ out[q].opt = Short(k)
      BY <1>1, <1>2, <3>2 DEF Arg
    <3>4. q \in now
      BY <1>2, <3>3 DEF Assigning
    <3>5. \A p \in now : p <= q
      <4> TAKE p \in now
      <4>1. p \in 1..n \/ p = q
        BY <1>1, <2>3, <3>3
      <4>2. QED
        BY <1>1, <1>2, <3>3, <4>1
    <3>6. Max(now) = q
      <4> HIDE DEF now
      <4>1. QED
        BY <1>1, <2>1, <3>4, <3>5, MaxIs
    <3>7. Parsed(out, k) = out[q + 1].val
      <4>1. out[q].opt # "-a" /\ out[q].opt # Joined(k)
        BY <3>3 DEF Short, Joined
      <4> HIDE DEF now
      <4>2. Parsed(out, k) = CASE out[q].opt = "-a" -> AllChannels(k)
                               [] out[q].opt = Joined(k) -> out[q].val
                               [] OTHER -> out[q + 1].val
        BY <3>4, <3>6 DEF Parsed, now
      <4>3. QED
        BY <4>1, <4>2
    <3>8. QED
      BY <3>1, <3>2, <3>7 DEF Operand, Arg
  <2>5. CASE ~ Added(k)
    <3>1. now = old
      <4> HIDE DEF now, old
      <4>1. QED
        BY <2>1, <2>2, <2>3, <2>5
    <3>2. new[k] = Keep \/ \E i \in DOMAIN argv : Flags(argv, i, k)
      BY <2>5 DEF Appended
    <3>3. CASE old = {}
      <4>1. new[k] = Keep
        BY <3>2, <3>3 DEF Assigning, Flags
      <4>2. Parsed(out, k) = 0 /\ Parsed(argv, k) = 0
        BY <3>1, <3>3 DEF Parsed
      <4>3. QED
        BY <4>1, <4>2
    <3>4. CASE old # {}
      <4> HIDE DEF now, old
      <4>1. PICK i \in old : \A j \in old : j <= i
        BY <1>2, <2>1, <3>4, HighestPlace
      <4>2. Max(old) = i /\ i \in 1..n
        BY <1>2, <2>1, <4>1, MaxIs
      <4>3. argv[i].opt \in {Short(k), Long(k), "-a"} /\ argv[i].opt # Joined(k)
        BY <1>2, <4>2 DEF old, Assigning, Separate
      <4>4. out[i].opt = argv[i].opt
        BY <1>4, <4>2
      <4>5. Parsed(out, k) = CASE out[i].opt = "-a" -> AllChannels(k)
                               [] out[i].opt = Joined(k) -> out[i].val
                               [] OTHER -> out[i + 1].val
        BY <3>1, <3>4, <4>2 DEF Parsed, now, old
      <4>6. Parsed(argv, k) = CASE argv[i].opt = "-a" -> AllChannels(k)
                                [] argv[i].opt = Joined(k) -> argv[i].val
                                [] OTHER -> argv[i + 1].val
        BY <3>4, <4>2 DEF Parsed, old
      <4>7. CASE argv[i].opt = "-a"
        <5>1. new[k] = Keep
          <6> SUFFICES ASSUME new[k] # Keep PROVE FALSE
            OBVIOUS
          <6>1. PICK j \in DOMAIN argv : Flags(argv, j, k)
            BY <3>2
          <6>2. j \in old
            BY <6>1 DEF old, Assigning, Flags
          <6>3. i < j
            BY <1>2, <4>2, <4>7, <6>1 DEF Separate
          <6>4. j <= i /\ j \in 1..n
            BY <1>2, <4>1, <6>2
          <6>5. QED
            BY <4>2, <6>3, <6>4
        <5>2. QED
          BY <4>3, <4>4, <4>5, <4>6, <4>7, <5>1
      <4>8. CASE argv[i].opt # "-a"
        <5>1. argv[i].opt \in {Short(k), Long(k)}
          BY <4>3, <4>8
        <5>2. i < n /\ i + 1 \in 1..n /\ i + 1 > 1 /\ (i + 1) - 1 = i
          <6>1. i < Len(argv)
            BY <1>2, <4>2, <5>1 DEF Usable
          <6>2. QED
            BY <1>2, <4>2, <6>1 DEF n
        <5>3. Parsed(out, k) = out[i + 1].val /\ Parsed(argv, k) = argv[i + 1].val
          BY <4>3, <4>4, <4>5, <4>6, <4>8
        <5>4. out[i + 1] = IF Hit(argv, new, i) # {} THEN Operand(new[CHOOSE j \in Hit(argv, new, i) : TRUE])
                           ELSE argv[i + 1]
          <6>1. out[i + 1] = Replaced(argv, new, i + 1)
            BY <1>1, <5>2
          <6>2. QED
            BY <5>2, <6>1 DEF Replaced
        <5>5. \A j \in Settings : Flags(argv, i, j) <=> j = k
          BY <5>1 DEF Flags, Short, Long, Joined, Settings
        <5>6. Hit(argv, new, i) = IF new[k] = Keep THEN {} ELSE {k}
          BY <5>5 DEF Hit
        <5>7. CASE new[k] = Keep
          BY <5>3, <5>4, <5>6, <5>7
        <5>8. CASE new[k] # Keep
          <6>1. (CHOOSE j \in {k} : TRUE) = k
            OBVIOUS
          <6>2. out[i + 1] = Operand(new[k])
            BY <5>4, <5>6, <5>8, <6>1
          <6>3. QED
            BY <5>3, <5>8, <6>2 DEF Operand, Arg
        <5>9. QED
          BY <5>7, <5>8
      <4>9. QED
        BY <4>7, <4>8
    <3>5. QED
      BY <3>3, <3>4
  <2>6. QED
    BY <2>4, <2>5
<1>6. {i \in DOMAIN out : out[i].opt = "other"} = {i \in DOMAIN argv : argv[i].opt = "other"}
  <2>1. \A p \in n + 1..m : out[p].opt # "other"
    BY <1>1 DEF Short
  <2>2. \A p \in 1..m : p \in 1..n \/ p \in n + 1..m
    BY <1>1, <1>2
  <2>3. \A p \in 1..n : p \in 1..m
    BY <1>1, <1>2
  <2>4. QED
    BY <1>2, <1>4, <2>1, <2>2, <2>3
<1>7. QED
  BY <1>5, <1>6 DEF TakesValues, out

\* A restart that the dashboard was told of is attempted, and the new process
\* takes the values asked for and keeps its other settings, for every command
\* line in which options and values are separate arguments, whichever options
\* and however many it has (handle_restart, control.c:440-497; main.c:849-875).
THEOREM RestartAlwaysKept == Spec => []RestartKept
<1>1. IInv => RestartKept
  <2> SUFFICES ASSUME IInv, acked # None, Separate(acked.line)
               PROVE  TakesValues(acked.line, acked.argv, acked.new)
    BY DEF IInv, RestartKept
  <2>1. Usable(acked.line)
    BY ControlAssumption DEF IInv, AckedRewritten
  <2>2. acked.new \in [Settings -> Int]
    BY DEF IInv, AckedRewritten, Keep
  <2>3. acked.argv = NewArgv(acked.line, acked.new)
    BY DEF IInv, AckedRewritten
  <2>4. QED
    BY <2>1, <2>2, <2>3, NewValuesTaken
<1>2. QED
  BY <1>1, ResourcesAlwaysOutliveUsers, PTL

-----------------------------------------------------------------------------
(* The dashboard *)

\* Where a counter modulo k is not back at 0, it has gone up by one.
LEMMA ModuloSucc ==
  ASSUME NEW n \in Nat, NEW k \in Nat \ {0}
  PROVE  /\ n % k \in 0..k - 1
         /\ (n + 1) % k # 0 => (n + 1) % k = (n % k) + 1
<1>1. PICK q \in Nat, r \in 0..k - 1 : n = k * q + r /\ r = n % k
  <2>1. n = k * (n \div k) + (n % k) /\ n \div k \in Nat /\ n % k \in 0..k - 1
    OBVIOUS
  <2>2. QED
    BY <2>1
<1>2. PICK p \in Nat, s \in 0..k - 1 : n + 1 = k * p + s /\ s = (n + 1) % k
  <2>1. n + 1 = k * ((n + 1) \div k) + ((n + 1) % k) /\ (n + 1) \div k \in Nat /\ (n + 1) % k \in 0..k - 1
    OBVIOUS
  <2>2. QED
    BY <2>1
<1>3. CASE p = q
  <2>1. PICK m \in Nat : m = k * q
    OBVIOUS
  <2>2. k * p = m
    BY <1>3, <2>1
  <2>3. s = r + 1
    BY <1>1, <1>2, <2>1, <2>2
  <2>4. QED
    BY <1>1, <1>2, <2>3
<1>4. CASE p >= q + 1
  <2>1. k * p >= k * q + k
    BY <1>4
  <2>2. QED
    BY <1>1, <1>2, <2>1
<1>5. CASE p + 1 <= q
  <2>1. k * p + k <= k * q
    BY <1>5
  <2>2. QED
    BY <1>1, <1>2, <2>1
<1>6. QED
  BY <1>3, <1>4, <1>5

\* As many alerts as devices.
LEMMA LeftAlerts ==
  ASSUME NEW S \in SUBSET Devices
  PROVE  /\ IsFiniteSet({Alert(d, "device-left") : d \in S})
         /\ Cardinality({Alert(d, "device-left") : d \in S}) = Cardinality(S)
         /\ IsFiniteSet(S)
<1> DEFINE T == {Alert(d, "device-left") : d \in S}
           f == [d \in S |-> Alert(d, "device-left")]
<1>1. IsFiniteSet(S)
  BY DashboardAssumption, FS_Subset
<1>2. f \in Bijection(S, T)
  BY DEF Bijection, Injection, Surjection, IsInjective, Alert
<1>3. QED
  BY <1>1, <1>2, FS_Bijection DEF ExistsBijection

LEMMA LeavingFinite ==
  ASSUME DashboardTypeOK
  PROVE  IsFiniteSet(leaving) /\ Cardinality(leaving) \in Nat
BY LeftAlerts, FS_Subset, FS_CardinalityType DEF DashboardTypeOK

LEMMA CountsAreNumbers ==
  ASSUME DashboardTypeOK
  PROVE  /\ decided \in Nat /\ shown \in Nat /\ lost \in Nat
         /\ Len(returning) \in Nat /\ Cardinality(leaving) \in Nat /\ Len(pending) \in Nat
BY LeavingFinite DEF DashboardTypeOK

\* Alerts stay accounted for in a step that adds as many as it decides on.
LEMMA Balance ==
  ASSUME DashboardTypeOK, DashboardTypeOK', AlertsAccountedFor,
         NEW r \in Int, NEW l \in Int, NEW p \in Int,
         Len(returning') = Len(returning) + r,
         Cardinality(leaving') = Cardinality(leaving) + l,
         Len(pending') = Len(pending) + p,
         decided' - decided = r + l + p + (shown' - shown) + (lost' - lost)
  PROVE  AlertsAccountedFor'
<1>1. PICK d1 \in Nat, d2 \in Nat, s1 \in Nat, s2 \in Nat, o1 \in Nat, o2 \in Nat :
        /\ d1 = decided /\ s1 = shown /\ o1 = lost
        /\ d2 = decided' /\ s2 = shown' /\ o2 = lost'
  BY DEF DashboardTypeOK
<1>2. PICK a \in Nat, b \in Nat, c \in Nat :
        a = Len(returning) /\ b = Cardinality(leaving) /\ c = Len(pending)
  BY CountsAreNumbers
<1>3. d1 = a + b + c + s1 + o1
  BY <1>1, <1>2 DEF AlertsAccountedFor
<1>4. d2 - d1 = r + l + p + (s2 - s1) + (o2 - o1)
  BY <1>1
<1>5. d2 = (a + r) + (b + l) + (c + p) + s2 + o2
  BY <1>3, <1>4
<1>6. QED
  BY <1>1, <1>2, <1>5 DEF AlertsAccountedFor

LEMMA DashboardAtStart == DashboardInit => DashboardIInv
<1> SUFFICES ASSUME DashboardInit PROVE DashboardIInv
  OBVIOUS
<1>1. DashboardTypeOK
  BY DashboardAssumption DEF DashboardInit, DashboardTypeOK, All, NoAlerts, Reasons
<1>2. Uncommitted = {}
  BY DEF DashboardInit, Uncommitted, All
<1>3. ChangesCounted
  <2>1. 0 % CommitEvery \in Nat
    BY DashboardAssumption
  <2>2. QED
    BY <1>2, <2>1, FS_EmptySet DEF ChangesCounted, DashboardInit, All
<1>4. RequestsHalfDone
  BY DEF RequestsHalfDone, WatchSetKept, DashboardInit, All
<1>5. DeparturesPaired
  BY DEF DeparturesPaired, PairedAt, DashboardInit, All, NoAlerts, Reasons
<1>6. AlertsAccountedFor
  BY FS_EmptySet DEF AlertsAccountedFor, DashboardInit
<1>7. QED
  BY <1>1, <1>3, <1>4, <1>5, <1>6 DEF DashboardIInv

-----------------------------------------------------------------------------
\* What is not yet committed is finite: the packets have numbers.
LEMMA UncommittedFinite ==
  ASSUME DashboardTypeOK
  PROVE  IsFiniteSet(Uncommitted) /\ Cardinality(Uncommitted) \in Nat
<1>1. Uncommitted \subseteq 1..packets
  BY DEF Uncommitted, DashboardTypeOK
<1>2. IsFiniteSet(1..packets)
  BY FS_Interval DEF DashboardTypeOK
<1>3. QED
  BY <1>1, <1>2, FS_Subset, FS_CardinalityType

\* An upsert is committed with what came before it, or is one more to commit.
LEMMA UpsertCounted ==
  ASSUME DashboardTypeOK, ChangesCounted, DashboardTypeOK',
         NEW d \in Devices, Upsert(d)
  PROVE  ChangesCounted'
<1> USE DEF DashboardTypeOK, Upsert
<1>1. changes \in Nat /\ CommitEvery \in Nat \ {0}
  BY DashboardAssumption
<1>2. /\ changes % CommitEvery \in 0..CommitEvery - 1
      /\ (changes + 1) % CommitEvery \in 0..CommitEvery - 1
      /\ (changes + 1) % CommitEvery # 0 =>
           (changes + 1) % CommitEvery = (changes % CommitEvery) + 1
  <2>1. changes + 1 \in Nat
    BY <1>1
  <2>2. QED
    BY <1>1, <2>1, ModuloSucc
<1>3. CASE changes' % CommitEvery = 0
  <2>1. disk' = table'
    BY <1>3
  <2>2. \A e \in Devices : table'[e] \ disk'[e] = {}
    BY <2>1
  <2>3. Uncommitted' = {}
    <3>1. SUFFICES ASSUME NEW x \in Uncommitted' PROVE FALSE
      OBVIOUS
    <3>2. PICK e \in Devices : x \in table'[e] \ disk'[e]
      BY DEF Uncommitted
    <3>3. QED
      BY <2>2, <3>2
  <2>4. Cardinality(Uncommitted') = 0
    BY <2>3, FS_EmptySet
  <2>5. QED
    BY <1>3, <2>1, <2>4 DEF ChangesCounted
<1>4. CASE changes' % CommitEvery # 0
  <2>1. disk' = disk /\ changes' = changes + 1
    BY <1>4
  <2>2. Uncommitted' \subseteq Uncommitted \cup {packets + 1}
    BY <2>1 DEF Uncommitted
  <2>3. IsFiniteSet(Uncommitted) /\ Cardinality(Uncommitted) \in Nat
    BY UncommittedFinite
  <2> DEFINE more == Uncommitted \cup {packets + 1}
  <2>4. IsFiniteSet(more) /\ Cardinality(more) \in Nat /\ Cardinality(more) <= Cardinality(Uncommitted) + 1
    <3>1. /\ IsFiniteSet(more)
          /\ Cardinality(more) = IF packets + 1 \in Uncommitted THEN Cardinality(Uncommitted)
                                                              ELSE Cardinality(Uncommitted) + 1
      BY <2>3, FS_AddElement, Zenon
    <3>2. QED
      BY <2>3, <3>1
  <2>5. /\ Cardinality(Uncommitted') \in Nat
        /\ Cardinality(Uncommitted') <= Cardinality(more)
    BY <2>2, <2>4, FS_Subset, FS_CardinalityType
  <2>6. changes' % CommitEvery = (changes % CommitEvery) + 1
    BY <1>2, <1>4, <2>1
  <2>7. Cardinality(Uncommitted') <= changes' % CommitEvery
    <3>1. PICK c \in Nat, k \in Nat : c = Cardinality(Uncommitted) /\ k = changes % CommitEvery
      BY <1>2, <2>3
    <3>2. c <= k
      BY <3>1 DEF ChangesCounted
    <3>3. QED
      BY <2>4, <2>5, <2>6, <3>1, <3>2
  <2>8. \A e \in Devices : disk'[e] \subseteq table'[e]
    BY <2>1 DEF ChangesCounted
  <2>9. QED
    BY <2>7, <2>8 DEF ChangesCounted
<1>5. QED
  BY <1>3, <1>4

LEMMA AddPacketKeeps ==
  ASSUME DashboardIInv, NEW d \in Devices, AddPacket(d)
  PROVE  DashboardIInv'
<1> USE DEF DashboardIInv, AddPacket, watchVars
<1>1. DashboardTypeOK'
  <2>1. /\ packets' \in Nat /\ changes' \in Nat
        /\ table' \in [Devices -> SUBSET (1..packets')]
    BY DEF DashboardTypeOK, Upsert
  <2>2. disk' \in [Devices -> SUBSET (1..packets')]
    BY <2>1 DEF DashboardTypeOK, Upsert
  <2>3. /\ presence' \in [Devices -> {"unknown", "present", "left"}]
        /\ silent' \in [Devices -> 0..Absence + 1]
    <3>1. CASE d \in watched
      <4>1. presence' = [presence EXCEPT ![d] = "present"] /\ silent' = [silent EXCEPT ![d] = 0]
        BY <3>1 DEF Sighted
      <4>2. 0 \in 0..Absence + 1
        BY DashboardAssumption
      <4> HIDE DEF AddPacket
      <4>3. QED
        BY <4>1, <4>2 DEF DashboardTypeOK
    <3>2. CASE d \notin watched
      BY <3>2 DEF DashboardTypeOK
    <3>3. QED
      BY <3>1, <3>2
  <2>4. /\ returning' \in {<<>>} \cup {<<Alert(e, "device-returned")>> : e \in Devices}
        /\ quiet' \in [Devices -> 0..Cooldown + 1] /\ decided' \in Nat
    <3>1. CASE Returned(d)
      <4>1. /\ returning' = <<Alert(d, "device-returned")>> /\ decided' = decided + 1
            /\ quiet' = [quiet EXCEPT ![d] = 0]
        BY <3>1
      <4>2. 0 \in 0..Cooldown + 1
        BY DashboardAssumption
      <4> HIDE DEF AddPacket
      <4>3. QED
        BY <4>1, <4>2 DEF DashboardTypeOK
    <3>2. CASE ~Returned(d)
      BY <3>2 DEF DashboardTypeOK
    <3>3. QED
      BY <3>1, <3>2
  <2>5. QED
    BY <2>1, <2>2, <2>3, <2>4 DEF DashboardTypeOK
<1>2. ChangesCounted'
  BY <1>1, UpsertCounted
<1>3. RequestsHalfDone'
  BY DEF RequestsHalfDone, WatchSetKept
<1>4. DeparturesPaired'
  <2> SUFFICES ASSUME NEW e \in Devices PROVE PairedAt(e)'
    BY Zenon DEF DeparturesPaired
  <2>1. PairedAt(e) /\ log[e]["device-returned"] \in Nat /\ log[e]["device-left"] \in Nat
    BY DEF DeparturesPaired, DashboardTypeOK, Reasons
  <2>2. CASE Returned(d)
    <3>1. presence[d] = "left" /\ presence' = [presence EXCEPT ![d] = "present"]
      BY <2>2 DEF Returned, Sighted
    <3>2. returning = <<>> /\ returning' = <<Alert(d, "device-returned")>>
      BY <2>2
    <3>3. returning # <<Alert(e, "device-returned")>>
      BY <3>2
    <3>4. returning' = <<Alert(e, "device-returned")>> => e = d
      BY <3>2 DEF Alert
    <3>5. presence'[e] = IF e = d THEN "present" ELSE presence[e]
      BY <3>1 DEF DashboardTypeOK
    <3>6. QED
      BY <2>1, <3>1, <3>3, <3>4, <3>5 DEF PairedAt
  <2>3. CASE ~Returned(d)
    <3>1. presence'[e] = "left" => presence[e] = "left"
      BY DEF Sighted, DashboardTypeOK
    <3>2. returning' = returning
      BY <2>3
    <3>3. QED
      BY <2>1, <3>1, <3>2 DEF PairedAt
  <2>4. QED
    BY <2>2, <2>3
<1>5. AlertsAccountedFor'
  <2>1. CASE Returned(d)
    <3>1. Len(returning') = Len(returning) + 1 /\ decided' = decided + 1
      BY <2>1
    <3>2. UNCHANGED <<leaving, pending, shown, lost>>
      OBVIOUS
    <3> HIDE DEF AddPacket
    <3>3. /\ Len(returning') = Len(returning) + 1
          /\ Cardinality(leaving') = Cardinality(leaving) + 0
          /\ Len(pending') = Len(pending) + 0
          /\ decided' - decided = 1 + 0 + 0 + (shown' - shown) + (lost' - lost)
      BY <3>1, <3>2, CountsAreNumbers
    <3>4. 1 \in Int /\ 0 \in Int /\ 0 \in Int
      OBVIOUS
    <3>5. QED
      BY <1>1, <3>3, <3>4, Balance, Zenon
  <2>2. CASE ~Returned(d)
    BY <2>2 DEF AlertsAccountedFor
  <2>3. QED
    BY <2>1, <2>2
<1>6. QED
  BY <1>1, <1>2, <1>3, <1>4, <1>5

LEMMA MonitorScansKeeps ==
  ASSUME DashboardIInv, MonitorScans
  PROVE  DashboardIInv'
<1> USE DEF DashboardIInv, MonitorScans, watchVars, dbVars
<1> DEFINE absent == {d \in Devices : presence[d] = "present" /\ silent[d] > Absence}
<1>1. DashboardTypeOK'
  <2>1. Cardinality(absent) \in Nat
    BY LeftAlerts, FS_CardinalityType
  <2>2. QED
    BY <2>1 DEF DashboardTypeOK
<1>2. ChangesCounted'
  BY DEF ChangesCounted, Uncommitted
<1>3. RequestsHalfDone'
  BY DEF RequestsHalfDone, WatchSetKept
<1>4. DeparturesPaired'
  BY DEF DeparturesPaired, PairedAt, DashboardTypeOK, Alert, Reasons
<1>5. AlertsAccountedFor'
  <2>1. PICK g \in Nat : g = Cardinality(absent)
    BY LeftAlerts, FS_CardinalityType
  <2>2. Cardinality(leaving') = g /\ Cardinality(leaving) = 0
    BY <2>1, LeftAlerts, FS_EmptySet
  <2>3. decided' = decided + g /\ UNCHANGED <<returning, pending, shown, lost>>
    BY <2>1
  <2> HIDE DEF MonitorScans
  <2>4. /\ Len(returning') = Len(returning) + 0
        /\ Cardinality(leaving') = Cardinality(leaving) + g
        /\ Len(pending') = Len(pending) + 0
        /\ decided' - decided = 0 + g + 0 + (shown' - shown) + (lost' - lost)
    BY <2>1, <2>2, <2>3, CountsAreNumbers
  <2>5. 0 \in Int /\ g \in Int /\ 0 \in Int
    OBVIOUS
  <2>6. QED
    BY <1>1, <2>4, <2>5, Balance, Zenon
<1>6. QED
  BY <1>1, <1>2, <1>3, <1>4, <1>5

\* An alert that is due waits for a browser, and may push another out.
LEMMA PostedPending ==
  ASSUME DashboardTypeOK, NEW alert \in Alerts, Posted(alert)
  PROVE  /\ pending' \in Seq(Alerts)
         /\ Len(pending') <= MaxPending
         /\ lost' \in Nat
         /\ Len(pending') + lost' = Len(pending) + lost + 1
<1>0. PICK n \in Nat : n = Len(pending) /\ n <= MaxPending
  BY DEF DashboardTypeOK
<1>1. PICK all \in Seq(Alerts) : all = Append(pending, alert) /\ Len(all) = n + 1
  <2>1. Append(pending, alert) \in Seq(Alerts) /\ Len(Append(pending, alert)) = n + 1
    BY <1>0 DEF DashboardTypeOK
  <2>2. QED
    BY <2>1
<1>2. CASE Len(all) > MaxPending
  <2>1. pending' = Tail(all) /\ lost' = lost + 1
    BY <1>1, <1>2 DEF Posted
  <2>2. Tail(all) \in Seq(Alerts) /\ Len(Tail(all)) = n
    BY <1>1
  <2>3. lost' \in Nat /\ n + lost' = n + lost + 1
    BY <2>1 DEF DashboardTypeOK
  <2>4. QED
    BY <1>0, <2>1, <2>2, <2>3
<1>3. CASE ~(Len(all) > MaxPending)
  <2>1. pending' = all /\ lost' = lost
    BY <1>1, <1>3 DEF Posted
  <2>2. QED
    BY <1>0, <1>1, <1>3, <2>1, DashboardAssumption DEF DashboardTypeOK
<1>4. QED
  BY <1>2, <1>3

\* An alert about a device is also written.
LEMMA LoggedPending ==
  ASSUME DashboardTypeOK, NEW d \in Devices, NEW reason \in Reasons, Logged(Alert(d, reason))
  PROVE  /\ pending' \in Seq(Alerts)
         /\ Len(pending') <= MaxPending
         /\ log' \in [Devices -> [Reasons -> Nat]]
         /\ lost' \in Nat
         /\ Len(pending') + lost' = Len(pending) + lost + 1
<1>1. Alert(d, reason) \in Alerts /\ Posted(Alert(d, reason))
  BY DEF Alerts, Alert, Logged
<1>2. log' = [log EXCEPT ![d][reason] = @ + 1]
  BY DEF Alert, Logged
<1>3. log' \in [Devices -> [Reasons -> Nat]]
  BY <1>2 DEF DashboardTypeOK
<1>4. QED
  BY <1>1, <1>3, PostedPending

LEMMA ReceiverFiresKeeps ==
  ASSUME DashboardIInv, ReceiverFires
  PROVE  DashboardIInv'
<1> USE DEF DashboardIInv, ReceiverFires, watchVars, dbVars
<1>1. PICK d \in Devices : returning = <<Alert(d, "device-returned")>>
  BY DEF DashboardTypeOK
<1>2. "device-returned" \in Reasons
  BY DEF Reasons
<1>3. Logged(Alert(d, "device-returned")) /\ returning' = <<>>
  BY <1>1
<1>4. /\ pending' \in Seq(Alerts)
      /\ Len(pending') <= MaxPending
      /\ log' \in [Devices -> [Reasons -> Nat]]
      /\ lost' \in Nat
      /\ Len(pending') + lost' = Len(pending) + lost + 1
  BY <1>2, <1>3, LoggedPending
<1>5. DashboardTypeOK'
  BY <1>3, <1>4 DEF DashboardTypeOK
<1>6. ChangesCounted'
  BY DEF ChangesCounted, Uncommitted
<1>7. RequestsHalfDone'
  BY DEF RequestsHalfDone, WatchSetKept
<1>8. DeparturesPaired'
  <2>1. log' = [log EXCEPT ![d]["device-returned"] = @ + 1]
    BY <1>3 DEF Logged, Alert
  <2> SUFFICES ASSUME NEW e \in Devices PROVE PairedAt(e)'
    BY Zenon DEF DeparturesPaired
  <2>2. PairedAt(e) /\ log[e]["device-returned"] \in Nat /\ log[e]["device-left"] \in Nat
    BY DEF DeparturesPaired, DashboardTypeOK, Reasons
  <2>3. /\ log'[e]["device-left"] = log[e]["device-left"]
        /\ log'[e]["device-returned"] = log[e]["device-returned"] + IF e = d THEN 1 ELSE 0
    BY <2>1, <2>2 DEF DashboardTypeOK, Reasons
  <2>4. /\ returning' # <<Alert(e, "device-returned")>>
        /\ e = d => returning = <<Alert(e, "device-returned")>>
    BY <1>1, <1>3
  <2>5. QED
    BY <2>2, <2>3, <2>4 DEF PairedAt
<1>9. AlertsAccountedFor'
  <2>1. Len(returning) = 1 /\ Len(returning') = 0
    BY <1>1, <1>3
  <2>2. UNCHANGED <<leaving, decided, shown>>
    OBVIOUS
  <2>3. PICK m \in Nat, n \in Nat : m = Len(pending') /\ n = Len(pending)
    BY <1>4, CountsAreNumbers
  <2>4. PICK p \in Int : p = m - n
    BY <2>3
  <2>5. Len(pending') = Len(pending) + p
    BY <2>3, <2>4
  <2>6. PICK o1 \in Nat, o2 \in Nat : o1 = lost /\ o2 = lost'
    BY <1>4 DEF DashboardTypeOK
  <2>7. m + o2 = n + o1 + 1
    BY <1>4, <2>3, <2>6
  <2>8. p + (o2 - o1) = 1
    BY <2>4, <2>7
  <2>9. decided \in Nat /\ shown \in Nat /\ decided' - decided = 0 /\ shown' - shown = 0
    BY <2>2 DEF DashboardTypeOK
  <2> HIDE DEF ReceiverFires
  <2>10. /\ Len(returning') = Len(returning) + (-1)
        /\ Cardinality(leaving') = Cardinality(leaving) + 0
        /\ Len(pending') = Len(pending) + p
        /\ decided' - decided = (-1) + 0 + p + (shown' - shown) + (lost' - lost)
    <3>1. Len(returning') = Len(returning) + (-1)
      BY <2>1, CountsAreNumbers
    <3>2. Cardinality(leaving') = Cardinality(leaving) + 0
      BY <2>1, <2>2, CountsAreNumbers
    <3>3. decided' - decided = (-1) + 0 + p + (shown' - shown) + (lost' - lost)
      <4>1. PICK y \in Int : y = o2 - o1 /\ p + y = 1
        BY <2>8
      <4>2. lost' - lost = y /\ shown' - shown = 0
        BY <2>6, <2>9, <4>1
      <4>3. QED
        BY <2>9, <4>1, <4>2
    <3>4. QED
      BY <3>1, <3>2, <3>3, <2>5
  <2>11. (-1) \in Int /\ 0 \in Int /\ p \in Int
    OBVIOUS
  <2>12. QED
    BY <1>5, <2>10, <2>11, Balance, Zenon
<1>10. QED
  BY <1>5, <1>6, <1>7, <1>8, <1>9

LEMMA MonitorFiresKeeps ==
  ASSUME DashboardIInv, MonitorFires
  PROVE  DashboardIInv'
<1> USE DEF DashboardIInv, MonitorFires, watchVars, dbVars
<1>1. PICK alert \in leaving : Logged(alert) /\ leaving' = leaving \ {alert}
  OBVIOUS
<1>2. PICK d \in Devices : alert = Alert(d, "device-left")
  BY DEF DashboardTypeOK
<1>3. "device-left" \in Reasons
  BY DEF Reasons
<1>4. /\ pending' \in Seq(Alerts)
      /\ Len(pending') <= MaxPending
      /\ log' \in [Devices -> [Reasons -> Nat]]
      /\ lost' \in Nat
      /\ Len(pending') + lost' = Len(pending) + lost + 1
  BY <1>1, <1>2, <1>3, LoggedPending
<1>5. DashboardTypeOK'
  BY <1>1, <1>4 DEF DashboardTypeOK
<1>6. ChangesCounted'
  BY DEF ChangesCounted, Uncommitted
<1>7. RequestsHalfDone'
  BY DEF RequestsHalfDone, WatchSetKept
<1>8. DeparturesPaired'
  <2>1. log' = [log EXCEPT ![d]["device-left"] = @ + 1]
    BY <1>1, <1>2 DEF Logged, Alert
  <2>2. \A e \in Devices : Alert(e, "device-left") = alert => e = d
    BY <1>2 DEF Alert
  <2>3. Alert(d, "device-left") \in leaving /\ Alert(d, "device-left") \notin leaving'
    BY <1>1, <1>2
  <2>4. \A e \in Devices : e # d =>
          (Alert(e, "device-left") \in leaving' <=> Alert(e, "device-left") \in leaving)
    BY <1>1, <1>2, <2>2
  <2>5. QED
    BY <2>1, <2>3, <2>4 DEF DeparturesPaired, PairedAt, DashboardTypeOK, Reasons
<1>9. AlertsAccountedFor'
  <2>1. Cardinality(leaving') = Cardinality(leaving) - 1
    BY <1>1, LeavingFinite, FS_RemoveElement
  <2>2. UNCHANGED <<returning, decided, shown>>
    OBVIOUS
  <2>3. PICK m \in Nat, n \in Nat : m = Len(pending') /\ n = Len(pending)
    BY <1>4, CountsAreNumbers
  <2>4. PICK p \in Int : p = m - n
    BY <2>3
  <2>5. Len(pending') = Len(pending) + p
    BY <2>3, <2>4
  <2>6. PICK o1 \in Nat, o2 \in Nat : o1 = lost /\ o2 = lost'
    BY <1>4 DEF DashboardTypeOK
  <2>7. m + o2 = n + o1 + 1
    BY <1>4, <2>3, <2>6
  <2>8. p + (o2 - o1) = 1
    BY <2>4, <2>7
  <2>9. decided \in Nat /\ shown \in Nat /\ decided' - decided = 0 /\ shown' - shown = 0
    BY <2>2 DEF DashboardTypeOK
  <2> HIDE DEF MonitorFires
  <2>10. /\ Len(returning') = Len(returning) + 0
        /\ Cardinality(leaving') = Cardinality(leaving) + (-1)
        /\ Len(pending') = Len(pending) + p
        /\ decided' - decided = 0 + (-1) + p + (shown' - shown) + (lost' - lost)
    <3>1. Len(returning') = Len(returning) + 0
      BY <2>1, <2>2, CountsAreNumbers
    <3>2. Cardinality(leaving') = Cardinality(leaving) + (-1)
      BY <2>1, CountsAreNumbers
    <3>3. decided' - decided = 0 + (-1) + p + (shown' - shown) + (lost' - lost)
      <4>1. PICK y \in Int : y = o2 - o1 /\ p + y = 1
        BY <2>8
      <4>2. lost' - lost = y /\ shown' - shown = 0
        BY <2>6, <2>9, <4>1
      <4>3. QED
        BY <2>9, <4>1, <4>2
    <3>4. QED
      BY <3>1, <3>2, <3>3, <2>5
  <2>11. 0 \in Int /\ (-1) \in Int /\ p \in Int
    OBVIOUS
  <2>12. QED
    BY <1>5, <2>10, <2>11, Balance, Zenon
<1>10. QED
  BY <1>5, <1>6, <1>7, <1>8, <1>9

LEMMA TestAlertKeeps ==
  ASSUME DashboardIInv, TestAlert
  PROVE  DashboardIInv'
<1> USE DEF DashboardIInv, TestAlert, watchVars, dbVars
<1>1. Test \in Alerts
  BY DEF Alerts
<1>2. /\ pending' \in Seq(Alerts)
      /\ Len(pending') <= MaxPending
      /\ lost' \in Nat
      /\ Len(pending') + lost' = Len(pending) + lost + 1
  BY <1>1, PostedPending
<1>3. DashboardTypeOK'
  BY <1>2 DEF DashboardTypeOK
<1>4. ChangesCounted'
  BY DEF ChangesCounted, Uncommitted
<1>5. RequestsHalfDone'
  BY DEF RequestsHalfDone, WatchSetKept
<1>6. DeparturesPaired'
  BY DEF DeparturesPaired, PairedAt
<1>7. AlertsAccountedFor'
  <2>1. UNCHANGED <<returning, leaving, shown>>
    OBVIOUS
  <2>2. PICK m \in Nat, n \in Nat : m = Len(pending') /\ n = Len(pending)
    BY <1>2, CountsAreNumbers
  <2>3. PICK p \in Int : p = m - n
    BY <2>2
  <2>4. PICK o1 \in Nat, o2 \in Nat : o1 = lost /\ o2 = lost'
    BY <1>2 DEF DashboardTypeOK
  <2>5. m + o2 = n + o1 + 1
    BY <1>2, <2>2, <2>4
  <2>6. decided' - decided = 1 /\ shown' - shown = 0
    BY <2>1 DEF DashboardTypeOK
  <2> HIDE DEF TestAlert
  <2>7. /\ Len(returning') = Len(returning) + 0
        /\ Cardinality(leaving') = Cardinality(leaving) + 0
        /\ Len(pending') = Len(pending) + p
        /\ decided' - decided = 0 + 0 + p + (shown' - shown) + (lost' - lost)
    <3>1. Len(returning') = Len(returning) + 0 /\ Cardinality(leaving') = Cardinality(leaving) + 0
      BY <2>1, CountsAreNumbers
    <3>2. Len(pending') = Len(pending) + p
      BY <2>2, <2>3
    <3>3. PICK y \in Int : y = o2 - o1 /\ p + y = 1
      BY <2>3, <2>5
    <3>4. lost' - lost = y
      BY <2>4, <3>3
    <3>5. decided' - decided = 0 + 0 + p + (shown' - shown) + (lost' - lost)
      BY <2>6, <3>3, <3>4
    <3>6. QED
      BY <3>1, <3>2, <3>5
  <2>8. 0 \in Int /\ p \in Int
    OBVIOUS
  <2>9. QED
    BY <1>3, <2>7, <2>8, Balance, Zenon
<1>8. QED
  BY <1>3, <1>4, <1>5, <1>6, <1>7

LEMMA StreamTakesKeeps ==
  ASSUME DashboardIInv, StreamTakes
  PROVE  DashboardIInv'
<1> USE DEF DashboardIInv, StreamTakes, watchVars, dbVars
<1>1. PICK n \in Nat : n = Len(pending)
  BY DEF DashboardTypeOK
<1>2. Len(pending') = 0
  OBVIOUS
<1>3. DashboardTypeOK'
  <2>1. shown' \in Nat /\ lost' \in Nat
    BY <1>1 DEF DashboardTypeOK
  <2>2. pending' \in Seq(Alerts) /\ Len(pending') <= MaxPending
    BY <1>2, DashboardAssumption
  <2>3. QED
    BY <2>1, <2>2 DEF DashboardTypeOK
<1>4. ChangesCounted'
  BY DEF ChangesCounted, Uncommitted
<1>5. RequestsHalfDone'
  BY DEF RequestsHalfDone, WatchSetKept
<1>6. DeparturesPaired'
  BY DEF DeparturesPaired, PairedAt
<1>7. AlertsAccountedFor'
  <2>1. UNCHANGED <<returning, leaving, decided>>
    OBVIOUS
  <2>2. \/ shown' = shown + n /\ lost' = lost
        \/ lost' = lost + n /\ shown' = shown
    BY <1>1
  <2>3. Len(pending') = Len(pending) + (0 - n)
    BY <1>1, <1>2
  <2>4. decided \in Nat /\ decided' - decided = 0 /\ shown \in Nat /\ lost \in Nat
    BY <2>1 DEF DashboardTypeOK
  <2>5. PICK x \in Int, y \in Int : x = shown' - shown /\ y = lost' - lost /\ x + y = n
    <3>1. CASE shown' = shown + n /\ lost' = lost
      BY <2>4, <3>1
    <3>2. CASE lost' = lost + n /\ shown' = shown
      BY <2>4, <3>2
    <3>3. QED
      BY <2>2, <3>1, <3>2
  <2> HIDE DEF StreamTakes
  <2>6. /\ Len(returning') = Len(returning) + 0
        /\ Cardinality(leaving') = Cardinality(leaving) + 0
        /\ Len(pending') = Len(pending) + (0 - n)
        /\ decided' - decided = 0 + 0 + (0 - n) + (shown' - shown) + (lost' - lost)
    <3>1. Len(returning') = Len(returning) + 0
      BY <2>1, CountsAreNumbers
    <3>2. Cardinality(leaving') = Cardinality(leaving) + 0
      BY <2>1, CountsAreNumbers
    <3>3. decided' - decided = 0 + 0 + (0 - n) + (shown' - shown) + (lost' - lost)
      BY <2>4, <2>5
    <3>4. QED
      BY <3>1, <3>2, <3>3, <2>3
  <2>7. 0 \in Int /\ 0 \in Int /\ (0 - n) \in Int
    OBVIOUS
  <2>8. QED
    BY <1>3, <2>6, <2>7, Balance, Zenon
<1>8. QED
  BY <1>3, <1>4, <1>5, <1>6, <1>7

LEMMA WatchKeeps ==
  ASSUME DashboardIInv, NEW d \in Devices,
         Watch(d, watched \cup {d}, "add") \/ Watch(d, watched \ {d}, "remove")
  PROVE  DashboardIInv'
<1> USE DEF DashboardIInv, Watch, dbVars, alertVars
<1>1. DashboardTypeOK'
  BY DEF DashboardTypeOK
<1>2. ChangesCounted'
  BY DEF ChangesCounted, Uncommitted
<1>3. RequestsHalfDone'
  <2>1. CASE Watch(d, watched \cup {d}, "add")
    BY <2>1 DEF RequestsHalfDone, WatchSetKept, DashboardTypeOK
  <2>2. CASE Watch(d, watched \ {d}, "remove")
    BY <2>2 DEF RequestsHalfDone, WatchSetKept, DashboardTypeOK
  <2>3. QED
    BY <2>1, <2>2
<1>4. DeparturesPaired'
  BY DEF DeparturesPaired, PairedAt
<1>5. AlertsAccountedFor'
  BY DEF AlertsAccountedFor
<1>6. QED
  BY <1>1, <1>2, <1>3, <1>4, <1>5

LEMMA WatchSavedKeeps ==
  ASSUME DashboardIInv, NEW d \in Devices, WatchSaved(d)
  PROVE  DashboardIInv'
<1> USE DEF DashboardIInv, WatchSaved, alertVars
<1>1. DashboardTypeOK'
  BY DEF DashboardTypeOK
<1>2. ChangesCounted'
  <2>1. Uncommitted' = {}
    BY DEF Uncommitted
  <2>2. Cardinality(Uncommitted') = 0
    BY <2>1, FS_EmptySet
  <2>3. changes % CommitEvery \in 0..CommitEvery - 1
    BY DashboardAssumption, ModuloSucc DEF DashboardTypeOK
  <2>4. QED
    BY <2>2, <2>3 DEF ChangesCounted
<1>3. RequestsHalfDone'
  BY DEF RequestsHalfDone, WatchSetKept, DashboardTypeOK
<1>4. DeparturesPaired'
  BY DEF DeparturesPaired, PairedAt
<1>5. AlertsAccountedFor'
  BY DEF AlertsAccountedFor
<1>6. QED
  BY <1>1, <1>2, <1>3, <1>4, <1>5

LEMMA DashboardTickKeeps ==
  ASSUME DashboardIInv, Tick
  PROVE  DashboardIInv'
<1> USE DEF DashboardIInv, Tick, watchVars, dbVars
<1>1. DashboardTypeOK'
  BY DashboardAssumption DEF DashboardTypeOK, Older
<1>2. ChangesCounted'
  BY DEF ChangesCounted, Uncommitted
<1>3. RequestsHalfDone'
  BY DEF RequestsHalfDone, WatchSetKept
<1>4. DeparturesPaired'
  BY DEF DeparturesPaired, PairedAt
<1>5. AlertsAccountedFor'
  BY DEF AlertsAccountedFor
<1>6. QED
  BY <1>1, <1>2, <1>3, <1>4, <1>5

LEMMA StartAgainKeeps ==
  ASSUME DashboardIInv, StartAgain
  PROVE  DashboardIInv'
<1> USE DEF DashboardIInv, StartAgain
<1>1. Cardinality(leaving) \in Nat /\ Len(pending) \in Nat /\ Len(returning) \in Nat
  BY LeavingFinite DEF DashboardTypeOK
<1>2. DashboardTypeOK'
  <2>1. lost' \in Nat
    BY <1>1 DEF DashboardTypeOK
  <2>2. pending' \in Seq(Alerts) /\ Len(pending') <= MaxPending
    BY DashboardAssumption
  <2>3. table' \in [Devices -> SUBSET (1..packets')] /\ disk' \in [Devices -> SUBSET (1..packets')]
    BY DEF DashboardTypeOK
  <2>4. /\ silent' \in [Devices -> 0..Absence + 1] /\ quiet' \in [Devices -> 0..Cooldown + 1]
        /\ log' \in [Devices -> [Reasons -> Nat]]
    BY DashboardAssumption DEF All, NoAlerts
  <2>5. QED
    BY DashboardAssumption, <2>1, <2>2, <2>3, <2>4 DEF DashboardTypeOK, All
<1>3. ChangesCounted'
  <2>1. Uncommitted' = {}
    BY DEF Uncommitted
  <2>2. Cardinality(Uncommitted') = 0
    BY <2>1, FS_EmptySet
  <2>3. changes' % CommitEvery \in 0..CommitEvery - 1
    BY <1>2, DashboardAssumption, ModuloSucc DEF DashboardTypeOK
  <2>4. QED
    BY <2>2, <2>3 DEF ChangesCounted
<1>4. RequestsHalfDone'
  BY DEF RequestsHalfDone, WatchSetKept, All
<1>5. DeparturesPaired'
  BY DEF DeparturesPaired, PairedAt, All, NoAlerts, Reasons
<1>6. AlertsAccountedFor'
  <2>1. Cardinality(leaving') = 0 /\ Len(pending') = 0 /\ Len(returning') = 0
    BY FS_EmptySet
  <2>2. QED
    BY <1>1, <2>1 DEF AlertsAccountedFor, DashboardTypeOK
<1>7. QED
  BY <1>2, <1>3, <1>4, <1>5, <1>6

LEMMA DashboardKept == DashboardIInv /\ [DashboardNext]_dashboardVars => DashboardIInv'
<1> SUFFICES ASSUME DashboardIInv, [DashboardNext]_dashboardVars PROVE DashboardIInv'
  OBVIOUS
<1>1. CASE \E d \in Devices : AddPacket(d)
  BY <1>1, AddPacketKeeps
<1>2. CASE \E d \in Devices : Watch(d, watched \cup {d}, "add") \/ Watch(d, watched \ {d}, "remove")
  BY <1>2, WatchKeeps
<1>3. CASE \E d \in Devices : WatchSaved(d)
  BY <1>3, WatchSavedKeeps
<1>4. CASE ReceiverFires
  BY <1>4, ReceiverFiresKeeps
<1>5. CASE MonitorScans
  BY <1>5, MonitorScansKeeps
<1>6. CASE MonitorFires
  BY <1>6, MonitorFiresKeeps
<1>7. CASE StreamTakes
  BY <1>7, StreamTakesKeeps
<1>8. CASE Tick
  BY <1>8, DashboardTickKeeps
<1>9. CASE StartAgain
  BY <1>9, StartAgainKeeps
<1>10. CASE TestAlert
  BY <1>10, TestAlertKeeps
<1>11. CASE UNCHANGED dashboardVars
  <2>1. DashboardTypeOK'
    BY <1>11 DEF DashboardIInv, DashboardTypeOK, dashboardVars, dbVars, watchVars, alertVars
  <2>2. ChangesCounted'
    BY <1>11 DEF DashboardIInv, ChangesCounted, Uncommitted, dashboardVars, dbVars
  <2>3. RequestsHalfDone' /\ DeparturesPaired' /\ AlertsAccountedFor'
    BY <1>11 DEF DashboardIInv, RequestsHalfDone, WatchSetKept, DeparturesPaired, PairedAt,
                 AlertsAccountedFor, dashboardVars, watchVars, alertVars
  <2>4. QED
    BY <2>1, <2>2, <2>3 DEF DashboardIInv
<1>12. QED
  BY <1>1, <1>2, <1>3, <1>4, <1>5, <1>6, <1>7, <1>8, <1>9, <1>10, <1>11 DEF DashboardNext

\* In every state of the dashboard, for any devices, watch file, intervals and
\* queue length: what is not committed is counted by _changes, a request has half
\* done what it does, every return was preceded by a departure of its own, and no
\* alert, tests included, is shown twice or disappears
\* (zmq_web_dashboard.py:130-201, 262-407, 2153-2161).
THEOREM AlertsAlwaysAccountedFor == DashboardSpec => []DashboardIInv
<1>1. QED
  BY DashboardAtStart, DashboardKept, PTL DEF DashboardSpec

\* A crash of the dashboard loses fewer packets than are in a batch of commits,
\* and no device that a browser was told is watched; it brings back none that a
\* browser was told is watched no more, unless it is in the watch file
\* (zmq_web_dashboard.py:130-154, 190-201, 262-273).
THEOREM CrashAlwaysLosesLittle == DashboardSpec => []CrashLosesLittle
<1>1. DashboardIInv => CrashLosesLittle
  <2> SUFFICES ASSUME DashboardIInv PROVE CrashLosesLittle
    OBVIOUS
  <2> USE DEF DashboardIInv
  <2>1. changes % CommitEvery \in 0..CommitEvery - 1 /\ CommitEvery \in Nat
    BY DashboardAssumption, ModuloSucc DEF DashboardTypeOK
  <2>2. Cardinality(Uncommitted) \in Nat
    BY UncommittedFinite
  <2>3. Cardinality(Uncommitted) < CommitEvery
    BY <2>1, <2>2 DEF ChangesCounted
  <2>4. \A d \in Devices : request[d] = "none" => WatchSetKept(d)
    BY DEF RequestsHalfDone
  <2>5. QED
    BY <2>3, <2>4 DEF CrashLosesLittle, ChangesCounted
<1>2. QED
  BY <1>1, AlertsAlwaysAccountedFor, PTL

\* The receiver and the monitor write to the log in whatever order they like,
\* and no return of a device is ever written that no departure goes with
\* (zmq_web_dashboard.py:275-356).
THEOREM ReturnsAlwaysFollowDepartures == DashboardSpec => []ReturnsFollowDepartures
<1>1. DashboardIInv => ReturnsFollowDepartures
  <2> SUFFICES ASSUME DashboardIInv, NEW d \in Devices
               PROVE  log[d]["device-returned"]
                        <= log[d]["device-left"] + IF Alert(d, "device-left") \in leaving THEN 1 ELSE 0
    BY DEF ReturnsFollowDepartures
  <2>1. PairedAt(d) /\ log[d]["device-returned"] \in Nat /\ log[d]["device-left"] \in Nat
    BY DEF DashboardIInv, DeparturesPaired, DashboardTypeOK, Reasons
  <2>2. QED
    BY <2>1 DEF PairedAt
<1>2. QED
  BY <1>1, AlertsAlwaysAccountedFor, PTL
=============================================================================
