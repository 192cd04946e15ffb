------------------------------ MODULE Control ------------------------------
(***************************************************************************)
(* The control thread (control.c): commands from the dashboard, one at a   *)
(* time, and heartbeats.  A malformed message has no effect; answers and   *)
(* heartbeats are sent and forgotten (what becomes of them is in           *)
(* Dashboard), so that of an answer only the acknowledgement of a restart  *)
(* is kept.                                                                *)
(***************************************************************************)
EXTENDS GpsTag, Restart

CONSTANTS
  MaxCommands,   \* bound: so many commands arrive
  Sent,          \* bound: the commands that are sent to a program with a radio
  GpsAtStart,    \* bound: does it start with a receiver or without?
  CommandLines   \* the command lines the program may have been started with

Radios   == {"hackrf", "bladerf", "soapy", "usrp", "file"}
Commands == {"gain", "squelch", "gps", "restart", "status"}

ASSUME ControlAssumption ==
  /\ MaxCommands \in Nat
  /\ Sent \in [Radios -> SUBSET Commands]
  /\ GpsAtStart \in [Radios -> SUBSET BOOLEAN]
  /\ \A line \in CommandLines : Usable(line)

VARIABLES
  running,    \* the global flag that every loop looks at
  radio,      \* the kind of radio, or "file"
  accepted,   \* the last gain each of the radio's stages has accepted
  reported,   \* lna_gain and vga_gain, or the one gain of the backend
  ctrlPc,     \* where the control thread is; "none" if there is none
  commands,   \* how many commands have been received
  late,       \* how many of them after running was cleared
  acked,      \* the restart that was acknowledged
  restart     \* restart_requested and restart_argv

ctrlVars == <<accepted, reported, ctrlPc, commands, late, acked, restart>>

None == [argv |-> <<>>, line |-> <<>>, new |-> [k \in Settings |-> Keep]]

\* The HackRF has two stages, LNA and VGA; a file has no handle.
Stages(r) == IF r = "hackrf" THEN 1..2 ELSE IF r = "file" THEN {} ELSE 1..1

\* The setup of a radio ends the program when its first gain is not accepted,
\* but that of a SoapySDR radio goes on, and reports it all the same.
Unset == -1

ControlInit ==
  /\ reported = [s \in Stages(radio) |-> 0]
  /\ \/ accepted = reported
     \/ radio = "soapy" /\ accepted = [s \in Stages(radio) |-> Unset]
  /\ commands = 0 /\ late = 0 /\ acked = None /\ restart = None

ControlAt(from, to) == ctrlPc = from /\ ctrlPc' = to /\ UNCHANGED radio

-----------------------------------------------------------------------------
(* control_loop *)

\* A command that is unknown or malformed is as good as none.
Receive ==
  /\ commands < MaxCommands /\ commands' = commands + 1
  /\ late' = IF running THEN late ELSE late + 1
  /\ \E c \in Sent[radio] : ControlAt("poll", c)
  /\ UNCHANGED <<running, accepted, reported, acked, restart, gpsVars>>

PollTimesOut ==
  /\ ControlAt("poll", "beat")
  /\ UNCHANGED <<running, accepted, reported, commands, late, acked, restart, gpsVars>>

\* send_heartbeat, from get_status and every HEARTBEAT_INTERVAL seconds, may
\* have to wait for the receiver.
HeartbeatAsks ==
  /\ ctrlPc \in {"status", "beat"} /\ BeatAsks
  /\ UNCHANGED <<running, radio, ctrlVars>>

StatusSent ==
  /\ ControlAt("status", "beat")
  /\ BeatPolls \/ (BeatKeeps /\ (gpsActive /\ receiver # "none" => polled))
  /\ UNCHANGED <<running, accepted, reported, commands, late, acked, restart>>

\* Faulty: the loop looks at ctrl_running only, which main clears late.
BeatAndPoll ==
  /\ ControlAt("beat", "poll") /\ (BeatPolls \/ BeatKeeps)
  /\ UNCHANGED <<running, accepted, reported, commands, late, acked, restart>>

\* The loop looks at running (and at ctrl_running, cleared only later) here and
\* nowhere else.
BeatAndLoop ==
  /\ ControlAt("beat", IF running THEN "poll" ELSE "gone") /\ (BeatPolls \/ BeatKeeps)
  /\ UNCHANGED <<running, accepted, reported, commands, late, acked, restart>>

-----------------------------------------------------------------------------
(* handle_set_gain and the runtime functions of the backends.  What the     *)
(* library of a radio makes of a gain it accepts is not modelled: it may    *)
(* round or clip it, and nobody asks.                                       *)

\* Faulty: a gain is noted before the radio has accepted it.
NotedEarly(set, failed, wanted) == [s \in DOMAIN accepted |->
  IF s \in set \cup failed THEN wanted[s] ELSE reported[s]]

\* The gains the backend notes: what was asked for, where the radio has
\* accepted it.
Noted(set, failed, wanted) == [s \in DOMAIN accepted |->
  IF s \in set THEN wanted[s] ELSE reported[s]]

\* The stages are set in order until one fails; a command for the HackRF may
\* name one stage only.
SetGain ==
  /\ ControlAt("gain", "beat")
  /\ \E wanted \in [DOMAIN accepted -> {0, 1}], named \in SUBSET DOMAIN accepted :
       \E failed \in {{}} \cup {{s} : s \in named} :
         LET set == {s \in named : \A f \in failed : s < f} IN
           /\ accepted' = [s \in DOMAIN accepted |-> IF s \in set THEN wanted[s] ELSE accepted[s]]
           /\ reported' = Noted(set, failed, wanted)
  /\ UNCHANGED <<running, commands, late, acked, restart, gpsVars>>

\* handle_set_squelch goes through the catchers of the AGC threads.
SetSquelch ==
  /\ ControlAt("squelch", "beat")
  /\ UNCHANGED <<running, accepted, reported, commands, late, acked, restart, gpsVars>>

-----------------------------------------------------------------------------
(* handle_set_gps *)

SetGpsCloses ==
  /\ \/ ControlAt("gps", "gpsClosing") /\ GpsCloses
     \/ ControlAt("gps", "gpsOpen") /\ receiver = "none" /\ UNCHANGED gpsVars
     \/ ControlAt("gpsClosing", "gpsOpen") /\ GpsForgets
  /\ UNCHANGED <<running, accepted, reported, commands, late, acked, restart>>

SetGpsOpens ==
  /\ ControlAt("gpsOpen", "beat")
  /\ GpsOpenFails \/ \E kind \in {"gpsd", "serial"} : GpsOpen(kind)
  /\ UNCHANGED <<running, accepted, reported, commands, late, acked, restart>>

-----------------------------------------------------------------------------
(* handle_restart *)

Rejected ==
  /\ ControlAt("restart", "beat")
  /\ UNCHANGED <<running, accepted, reported, commands, late, acked, restart, gpsVars>>

\* The answer is sent before the restart is requested, with 100 ms between.
\* (The command line is chosen when it is first needed.)
AckRestart ==
  /\ ControlAt("restart", "restarting")
  /\ \E line \in CommandLines, new \in [Settings -> {Keep, 1}] :
       /\ \E k \in Settings : new[k] # Keep
       /\ acked' = [argv |-> NewArgv(line, new), line |-> line, new |-> new]
  /\ UNCHANGED <<running, accepted, reported, commands, late, restart, gpsVars>>

RequestRestart ==
  /\ ControlAt("restarting", "beat")
  /\ restart' = acked /\ running' = FALSE
  /\ UNCHANGED <<accepted, reported, commands, late, acked, gpsVars>>

\* Everything that does not wait for a command.
ControlMoves ==
  \/ PollTimesOut \/ HeartbeatAsks \/ StatusSent \/ BeatAndLoop
  \/ SetGain \/ SetSquelch \/ SetGpsCloses \/ SetGpsOpens
  \/ Rejected \/ AckRestart \/ RequestRestart

-----------------------------------------------------------------------------
\* Heartbeats and answers tell, for each stage, the last gain the radio has
\* accepted, also after a command that failed half-way (hackrf.c:63-76,
\* control.c:309-371).  Only a SoapySDR radio may be said to have a gain it
\* never accepted, the default, until one is accepted (soapysdr.c:94-98).
GainReported ==
  \A s \in Stages(radio) :
    IF accepted[s] = Unset THEN radio = "soapy" /\ reported[s] = 0
                           ELSE reported[s] = accepted[s]

\* The fix that goes with a packet comes from the receiver that is open, and
\* there is none when none is open, as long as no receiver was closed or
\* opened while the processor was getting a fix.
FixFromReceiver ==
  fixPc = "got" /\ ~raced /\ fix # 0 => receiver \in live /\ fix = opened

\* What makes it so, as long as the two threads have not raced: the fix that is
\* kept for a second is the last receiver's, and the poll under way asks the
\* receiver that is open.
FixTrusted ==
  /\ "gpsd" \in {receiver, beatPc} => gpsd = opened
  /\ ~raced => /\ cached \in {0, opened}
               /\ fixPc \in {"gpsd", "serial"} => receiver = fixPc /\ receiver \in live
=============================================================================
