------------------------------ MODULE Program ------------------------------
(***************************************************************************)
(* The life of the program's threads, from main's loop to its last line:   *)
(* who sees that running was cleared, in which order main joins them, and  *)
(* what it closes and frees under whom.  The control thread is in Control; *)
(* what the pipeline does with samples is in FftwPipeline and GpuPipeline, *)
(* where a channelizer or an AGC thread may stay for ever when the program *)
(* stops: here such a thread has "jammed".  The FFT thread (or the GPU's   *)
(* dispatcher), which nobody joins, is left out.                           *)
(***************************************************************************)
EXTENDS Control

VARIABLES
  mainPc,    \* where main is
  srcPc,     \* the thread or callback that delivers samples
  queued,    \* is there a buffer in the samples queue?
  leaked,    \* sample buffers that nobody freed
  chanPc,    \* the channelizer
  agcPc,     \* the AGC threads, as one
  procPc,    \* the burst processor
  gone       \* what main has closed or freed

threadVars == <<mainPc, srcPc, queued, leaked, chanPc, agcPc, procPc, gone>>
vars == <<running, radio, ctrlVars, gpsVars, threadVars>>

\* ctrlPc is "none" when ZMQ is off, and "failed" when control_init failed.
Init ==
  /\ running = TRUE
  /\ radio \in Radios
  /\ ctrlPc \in {"beat", "none", "failed"}
  /\ ControlInit /\ GpsInit
  /\ gpsActive \in GpsAtStart[radio]
  /\ mainPc = "loop" /\ srcPc = "read" /\ queued = FALSE /\ leaked = 0
  /\ chanPc = "take" /\ agcPc = "work" /\ procPc = "take" /\ gone = {}

\* Control and GPS stay as they are.
Others == <<ctrlVars, gpsVars, radio>>

-----------------------------------------------------------------------------
(* Samples: the callbacks hackrf_rx_cb and bladerf_rx_cb, the threads        *)
(* usrp_stream_thread and soapy_stream_thread, or spewer_thread ("file")     *)

\* A buffer has been received, or read from the file, and running seen to be
\* set.  (Otherwise the radios free it at once.)
Received ==
  /\ srcPc = "read" /\ srcPc' = "push" /\ running
  /\ UNCHANGED <<Others, running, mainPc, queued, leaked, chanPc, agcPc, procPc, gone>>

\* push_samples drops a buffer that does not fit, and frees it.
PushToOpenQueue ==
  /\ srcPc = "push" /\ "samples" \notin gone
  /\ radio = "file" => ~queued
  /\ srcPc' = "read" /\ queued' = TRUE
  /\ UNCHANGED <<Others, running, mainPc, leaked, chanPc, agcPc, procPc, gone>>

\* A closed queue answers BQ_CLOSED, or BQ_FULL when it was full: push_samples
\* frees the buffer only in the second case.  The spewer frees its own and ends.
PushToClosedQueue ==
  /\ srcPc = "push" /\ "samples" \in gone
  /\ srcPc' = IF radio = "file" THEN "gone" ELSE "read"
  /\ leaked' \in IF radio = "file" THEN {leaked} ELSE {leaked, leaked + 1}
  /\ UNCHANGED <<Others, running, mainPc, queued, chanPc, agcPc, procPc, gone>>

\* The stream's thread ends when it sees ~running, or (not the USRP's, whose
\* errors end the program at once) at an error, and then clears running.  At
\* the end of the file the spewer waits until the queue is empty.
SourceEnds ==
  /\ srcPc = "read" /\ radio # "hackrf"
  /\ running => radio # "usrp" /\ (radio = "file" => ~queued)
  /\ srcPc' = "gone" /\ running' = FALSE
  /\ UNCHANGED <<Others, mainPc, queued, leaked, chanPc, agcPc, procPc, gone>>

SourceMoves == PushToOpenQueue \/ PushToClosedQueue

-----------------------------------------------------------------------------
(* The pipeline, as far as it looks at running *)

\* channelizer_thread takes a buffer.
ChannelizerTakes ==
  /\ chanPc = "take" /\ queued /\ "samples" \notin gone
  /\ queued' = FALSE /\ chanPc' = "work"
  /\ UNCHANGED <<Others, running, mainPc, srcPc, leaked, agcPc, procPc, gone>>

\* It ends at a closed queue or at ~running, unless get_next_buffer keeps it.
ChannelizerLoops ==
  /\ \/ chanPc = "take" /\ "samples" \in gone /\ chanPc' = "gone"
     \/ chanPc = "work" /\ chanPc' \in IF running THEN {"take"} ELSE {"gone", "jammed"}
  /\ UNCHANGED <<Others, running, mainPc, srcPc, queued, leaked, agcPc, procPc, gone>>

\* agc_thread: some leave by themselves, the others when main wakes them.
AgcThreadsEnd ==
  /\ agcPc = "work" /\ ~running /\ agcPc' \in {"gone", "jammed"}
  /\ UNCHANGED <<Others, running, mainPc, srcPc, queued, leaked, chanPc, procPc, gone>>

\* burst_processor_thread takes a burst.
ProcessorTakes ==
  /\ procPc = "take" /\ "bursts" \notin gone /\ procPc' = "write"
  /\ UNCHANGED <<Others, running, mainPc, srcPc, queued, leaked, chanPc, agcPc, gone>>

\* It gets a fix, writes the packet to the pcap file and to ZMQ, and looks at
\* running; or it finds the queue closed.
ProcessorLoops ==
  /\ \/ procPc = "take" /\ "bursts" \in gone /\ procPc' = "gone" /\ UNCHANGED gpsVars
     \/ procPc = "write" /\ GetFix /\ UNCHANGED procPc
     \/ procPc = "write" /\ FixUsed /\ procPc' = IF running THEN "take" ELSE "gone"
  /\ UNCHANGED <<ctrlVars, radio, running, mainPc, srcPc, queued, leaked, chanPc, agcPc, gone>>

-----------------------------------------------------------------------------
(* main *)

MainAt(from, to) == mainPc = from /\ mainPc' = to

\* Only main moves; it closes or frees the things named.
MainFrees(things) ==
  /\ gone' = gone \cup things
  /\ UNCHANGED <<Others, queued, leaked, chanPc, agcPc, procPc, running, srcPc>>

\* Ctrl+C, or the HackRF has stopped streaming.
Interrupted ==
  /\ running /\ mainPc = "loop" /\ running' = FALSE
  /\ UNCHANGED <<Others, threadVars>>

\* After hackrf_stop_rx there are no more callbacks; the other radios stop in
\* their threads.
StopRadio ==
  /\ ~running /\ MainAt("loop", "closeSamples")
  /\ radio = "hackrf" => srcPc = "read"
  /\ srcPc' = IF radio = "hackrf" THEN "gone" ELSE srcPc
  /\ UNCHANGED <<Others, queued, leaked, chanPc, agcPc, procPc, running, gone>>

\* deinit_threads
CloseSamples    == MainAt("closeSamples", "joinSpewer") /\ MainFrees({"samples"})
JoinSpewer      == MainAt("joinSpewer", "joinChannelizer") /\ MainFrees({})
                     /\ (radio = "file" => srcPc = "gone")
JoinChannelizer == MainAt("joinChannelizer", "joinAgc") /\ MainFrees({}) /\ chanPc = "gone"

\* Faulty: the burst processor is not told.
BurstsLeftOpen  == MainAt("joinAgc", "joinProcessor") /\ MainFrees({}) /\ agcPc = "gone"

CloseBursts     == MainAt("joinAgc", "joinProcessor") /\ MainFrees({"bursts"}) /\ agcPc = "gone"
JoinProcessor   == MainAt("joinProcessor", "closeRadio") /\ MainFrees({}) /\ procPc = "gone"

\* Faulty: the radio is closed before the thread that streams from it ends.
CloseRadioUnjoined == MainAt("closeRadio", "closeFiles") /\ MainFrees({"radio"})

CloseRadio ==
  MainAt("closeRadio", "closeFiles") /\ MainFrees({"radio"}) /\ srcPc = "gone"

AfterFiles == IF ctrlPc = "none" THEN "free" ELSE "joinControl"

\* pcap_close and gps_tag_close, while the control thread may be getting a fix
\* or in gps_tag_close itself.
CloseFiles ==
  /\ gone' = gone \cup {"pcap", "gps"}
  /\ \/ MainAt("closeFiles", "closingGps") /\ gpsActive /\ GpsCloses
     \/ /\ MainAt("closeFiles", AfterFiles) /\ UNCHANGED gpsVars
        /\ gpsActive => receiver = "none"
  /\ UNCHANGED <<ctrlVars, radio, queued, leaked, chanPc, agcPc, procPc, running, srcPc>>

ForgetGps ==
  /\ MainAt("closingGps", AfterFiles) /\ GpsForgets
  /\ UNCHANGED <<ctrlVars, radio, queued, leaked, chanPc, agcPc, procPc, running, srcPc, gone>>

\* Faulty: restart_requested is read while the control thread may still run.
RestartUnjoined == MainAt("joinControl", "restart") /\ MainFrees({})

\* The control thread is joined also when it was never created, which is
\* undefined.
JoinControl ==
  /\ \/ ctrlPc = "gone" /\ MainAt("joinControl", "restart")
     \/ ctrlPc = "failed" /\ mainPc = "joinControl" /\ mainPc' \in {"restart", "crashed"}
  /\ MainFrees({})

\* A restart that was requested replaces the program, unless execv fails.
RestartProgram ==
  /\ mainPc = "restart" /\ MainFrees({})
  /\ mainPc' \in IF restart # None THEN {"restarted", "execFailed"} ELSE {"closeControl"}

\* control_close and zmq_pub_close
CloseControl ==
  /\ mainPc \in {"closeControl", "execFailed"} /\ mainPc' = "free"
  /\ MainFrees({"control", "zmq_pub"})

FreeAll == MainAt("free", "exited") /\ MainFrees({"catcher"})

Main ==
  \/ StopRadio \/ CloseSamples \/ JoinSpewer \/ JoinChannelizer \/ CloseBursts
  \/ JoinProcessor \/ CloseRadio \/ CloseFiles \/ ForgetGps \/ JoinControl \/ RestartProgram
  \/ CloseControl \/ FreeAll

-----------------------------------------------------------------------------
\* The process is there until main returns, crashes or is replaced.
Ended == mainPc \in {"exited", "restarted", "crashed"}

Next ==
  /\ ~Ended
  /\ \/ Received \/ SourceMoves \/ SourceEnds
     \/ ChannelizerTakes \/ ChannelizerLoops \/ AgcThreadsEnd
     \/ ProcessorTakes \/ ProcessorLoops
     \/ (Receive \/ ControlMoves) /\ UNCHANGED threadVars
     \/ Interrupted \/ Main

Spec == Init /\ [][Next]_vars

\* Threads get processor time and a call of a radio's library returns.  Nothing
\* has to arrive: no buffer, burst, command, error or signal.
Fairness ==
  /\ WF_vars(~Ended /\ (SourceMoves \/ (~running /\ SourceEnds)))
  /\ WF_vars(~Ended /\ ChannelizerLoops)
  /\ WF_vars(~Ended /\ mainPc = "joinAgc" /\ AgcThreadsEnd)
  /\ WF_vars(~Ended /\ ProcessorLoops)
  /\ WF_vars(~Ended /\ UNCHANGED threadVars /\ ControlMoves)
  /\ WF_vars(Main)

FairSpec == Spec /\ Fairness

FlagsOK == running \in BOOLEAN /\ queued \in BOOLEAN

TypeOK ==
  /\ FlagsOK /\ GpsTypeOK /\ radio \in Radios /\ leaked \in Nat
  /\ commands \in 0..MaxCommands /\ late \in 0..commands
  /\ accepted \in [Stages(radio) -> {Unset, 0, 1}] /\ reported \in [Stages(radio) -> {0, 1}]
  /\ ctrlPc \in Commands \cup {"beat", "poll", "gpsClosing", "gpsOpen", "restarting", "gone", "none", "failed"}
  /\ srcPc \in {"read", "push", "gone"} /\ chanPc \in {"take", "work", "gone", "jammed"}
  /\ agcPc \in {"work", "gone", "jammed"} /\ procPc \in {"take", "write", "gone"}
  /\ mainPc \in
       {"loop", "closeSamples", "joinSpewer", "joinChannelizer", "joinAgc", "joinProcessor",
        "closeRadio", "closeFiles", "closingGps", "joinControl", "restart", "closeControl",
        "execFailed", "free", "exited", "restarted", "crashed"}
  /\ gone \subseteq {"samples", "bursts", "radio", "pcap", "gps", "control", "zmq_pub", "catcher"}

-----------------------------------------------------------------------------
\* What main closes or frees has no user left: no thread streams from a radio
\* that is closed, no AGC thread has a burst for a closed queue, nothing is
\* written to a closed file or socket, no packet is tagged by a closed receiver,
\* and nobody is left to use the catchers (main.c:617-638, 820-888).  The
\* exception is the control thread, which is joined last: its late set_gain and
\* its late use of the receiver are bounded by LateUseBounded.
ResourcesOutliveUsers ==
  /\ TypeOK
  /\ "radio" \in gone => srcPc = "gone"
  /\ "bursts" \in gone => agcPc = "gone"
  /\ gone \cap {"pcap", "gps", "zmq_pub"} # {} => procPc = "gone"
  /\ gone \cap {"control", "catcher"} # {} => agcPc = "gone" /\ ctrlPc \in {"gone", "none", "failed"}

AstrayBounded == astray <= 2 /\ (astray > 0 => "gps" \in gone)

\* What can happen after the program has been told to stop is bounded: the
\* control thread handles one command at most, possibly on a radio that is
\* closed, and push_samples loses one buffer at most, none of the HackRF or a
\* file (control.c:541, hackrf.c:85, bladerf.c:119, main.c:197).  Two uses at
\* most fall on a GPS receiver that is closed, and none before main closes it:
\* two heartbeats of the control thread, or a heartbeat and a second close
\* (main.c:843-851, gps_tag.c:153-202).
LateUseBounded ==
  /\ late <= 1 /\ AstrayBounded
  /\ leaked <= IF radio \in {"hackrf", "file"} THEN 0 ELSE 1

\* main does not pass over a restart that the dashboard was told of.
RestartAttempted == mainPc = "closeControl" => acked = None

\* The restart the dashboard was told of is one from the command line.
AckedRewritten ==
  acked # None =>
    /\ acked.line \in CommandLines
    /\ acked.new \in [Settings -> {Keep, 1}]
    /\ acked.argv = NewArgv(acked.line, acked.new)

\* A restart that the dashboard was told of is attempted, whatever stopped the
\* program, and the new process takes the values asked for and keeps its other
\* settings, if options and values are separate arguments (control.c:452-497,
\* main.c:849-875).
RestartKept ==
  /\ RestartAttempted
  /\ acked # None /\ Separate(acked.line) => TakesValues(acked.line, acked.argv, acked.new)

-----------------------------------------------------------------------------
(* The inductive invariant *)

\* main goes on only when those it joins are gone.
ShutdownOrder ==
  /\ running => mainPc = "loop"
  /\ "samples" \in gone => mainPc # "loop"
  /\ mainPc # "loop" /\ radio = "hackrf" => srcPc = "gone"
  /\ mainPc \in {"joinProcessor", "closeRadio", "closeFiles", "closingGps", "joinControl", "restart",
                 "closeControl", "execFailed", "free"} => agcPc = "gone"
  /\ mainPc \in {"closeRadio", "closeFiles", "closingGps", "joinControl", "restart", "closeControl",
                 "execFailed", "free"} => procPc = "gone"
  /\ mainPc \in {"restart", "closeControl", "execFailed", "free"} => ctrlPc \in {"gone", "none", "failed"}

\* Whoever has been late once sees that running is cleared.
LateOnce ==
  /\ running => late = 0 /\ leaked = 0
  /\ late = 1 => ctrlPc # "poll"
  /\ leaked = 1 => srcPc # "push"

\* How often the control thread can use a receiver after main has closed it:
\* once in set_gps and once for each heartbeat.
UsesLeft(pc) ==
  CASE pc \in {"poll", "gps", "status"} -> 2
    [] pc \in {"gone", "none", "failed"} -> 0
    [] OTHER -> 1

\* main closes the receiver after closeFiles, when running is cleared; until then
\* it is open but for the moment in which the control thread closes it.
ReceiverOpen ==
  /\ "gps" \in gone <=> mainPc \in {"closingGps", "joinControl", "restart", "closeControl", "execFailed",
                                   "free", "exited", "restarted", "crashed"}
  /\ "gps" \notin gone =>
       /\ receiver \in live \cup {"none"} \/ ctrlPc = "gpsClosing"
       /\ beatPc \in live \cup {"away"}
  /\ "gps" \in gone => ~running /\ astray + UsesLeft(ctrlPc) <= 2
  /\ beatPc # "away" => ctrlPc \in {"status", "beat"}

\* Between the answer and the request the control thread is in handle_restart.
RequestFollowsAck ==
  /\ acked # restart => ctrlPc = "restarting"
  /\ mainPc = "closeControl" => restart = None

IInv ==
  /\ ResourcesOutliveUsers /\ ShutdownOrder /\ LateUseBounded /\ LateOnce
  /\ RestartAttempted /\ RequestFollowsAck /\ AckedRewritten /\ ReceiverOpen
  /\ GainReported /\ FixFromReceiver /\ FixTrusted

\* When the program has been told to stop, it ends, or a thread of the pipeline
\* never does (main.c:805-896).
StopEnds == ~running ~> (Ended \/ chanPc = "jammed" \/ agcPc = "jammed")
=============================================================================
