------------------------------- MODULE GpsTag -------------------------------
(***************************************************************************)
(* gps_tag.c: the receiver's fix, as two threads use it without a lock.    *)
(* The burst processor asks for a fix with every packet, the control       *)
(* thread for its heartbeats; set_gps closes the receiver and opens        *)
(* another, and main closes the last one while the control thread may      *)
(* still run.  A fix is the number of the receiver it came from, 0 when it *)
(* is not valid.  What becomes of a heartbeat's fix is not kept.           *)
(***************************************************************************)
EXTENDS Naturals

VARIABLES
  gpsActive,  \* gpsd_active
  receiver,   \* gps_connected and use_serial: "none", "gpsd" or "serial"
  live,       \* what is open: gpsd_state, serial_fd
  opened,     \* how many receivers have been opened: the number of the last
  gpsd,       \* the receiver that gpsd_state was last opened for
  polled,     \* last_poll is not zero
  cached,     \* cached_fix
  beatPc,     \* where the control thread is in gps_tag_get_fix
  fixPc,      \* where the processor is in gps_tag_get_fix
  fix,        \* the fix it has got
  raced,      \* was a receiver closed or opened meanwhile?
  astray      \* how often the control thread polled, or it or main closed, a
              \* receiver that was closed

gpsVars == <<gpsActive, receiver, live, opened, gpsd, polled, cached, beatPc, fixPc, fix,
             raced, astray>>

GpsInit ==
  /\ \/ gpsActive = TRUE /\ receiver = "gpsd" /\ live = {"gpsd"} /\ opened = 1 /\ gpsd = 1
     \/ gpsActive = FALSE /\ receiver = "none" /\ live = {} /\ opened = 0 /\ gpsd = 0
  /\ polled = FALSE /\ cached = 0 /\ beatPc = "away" /\ fixPc = "away" /\ fix = 0
  /\ raced = FALSE /\ astray = 0

-----------------------------------------------------------------------------
(* gps_tag_get_fix *)

\* What a poll may leave in cached_fix: gpsd has a fix or not; a serial line
\* brings nothing, a sentence with a fix, or one that says there is none.
PolledFix(kind) == IF kind = "gpsd" THEN {0, gpsd} ELSE {cached, 0, opened}

\* pcap_write_ble and pcap_write_bt call it when gpsd_active is set.  The
\* receiver is polled at most once a second, and the first time.
FixBegins ==
  /\ fixPc = "away" /\ gpsActive
  /\ \/ receiver = "none" /\ fix' = 0 /\ fixPc' = "got" /\ UNCHANGED polled
     \/ receiver # "none" /\ fixPc' = receiver /\ polled' = TRUE /\ UNCHANGED fix
     \/ receiver # "none" /\ polled /\ fix' = cached /\ fixPc' = "got" /\ UNCHANGED polled
  /\ raced' = (raced \/ receiver \notin live \cup {"none"})
  /\ UNCHANGED <<gpsActive, receiver, live, opened, gpsd, cached, beatPc, astray>>

FixPolled ==
  /\ fixPc \in {"gpsd", "serial"}
  /\ cached' \in PolledFix(fixPc) /\ fix' = cached' /\ fixPc' = "got"
  /\ UNCHANGED <<gpsActive, receiver, live, opened, gpsd, polled, beatPc, raced, astray>>

NoFixWanted ==
  /\ fixPc = "away" /\ ~gpsActive
  /\ fix' = 0 /\ fixPc' = "got"
  /\ UNCHANGED <<gpsActive, receiver, live, opened, gpsd, polled, cached, beatPc, raced, astray>>

GetFix == FixBegins \/ FixPolled \/ NoFixWanted

FixUsed ==
  /\ fixPc = "got" /\ fixPc' = "away" /\ fix' = 0
  /\ UNCHANGED <<gpsActive, receiver, live, opened, gpsd, polled, cached, beatPc, raced, astray>>

\* send_heartbeat in the control thread asks the receiver it finds ...
BeatAsks ==
  /\ beatPc = "away" /\ gpsActive /\ receiver # "none"
  /\ beatPc' = receiver /\ polled' = TRUE
  /\ UNCHANGED <<gpsActive, receiver, live, opened, gpsd, cached, fixPc, fix, raced, astray>>

\* ... and waits for it; or the fix that is kept, or none, is good enough.
BeatPolls ==
  /\ beatPc # "away" /\ beatPc' = "away"
  /\ cached' \in PolledFix(beatPc)
  /\ astray' = IF beatPc \in live THEN astray ELSE astray + 1
  /\ UNCHANGED <<gpsActive, receiver, live, opened, gpsd, polled, fixPc, fix, raced>>

BeatKeeps == beatPc = "away" /\ UNCHANGED gpsVars

-----------------------------------------------------------------------------
(* gps_tag_close, gps_tag_init and gps_tag_init_serial *)

Raced == raced' = (raced \/ fixPc # "away")

\* gps_tag_close closes the receiver it finds, serial_fd only if it is open ...
GpsCloses ==
  /\ receiver # "none" /\ live' = live \ {receiver} /\ Raced
  /\ astray' = IF receiver = "gpsd" /\ "gpsd" \notin live THEN astray + 1 ELSE astray
  /\ UNCHANGED <<gpsActive, receiver, opened, gpsd, polled, cached, beatPc, fixPc, fix>>

\* ... and forgets it afterwards.
GpsForgets ==
  /\ receiver' = "none" /\ Raced
  /\ UNCHANGED <<gpsActive, live, opened, gpsd, polled, cached, beatPc, fixPc, fix, astray>>

\* Faulty: the fix of the receiver before is kept.
GpsOpenKeepingFix(kind) ==
  /\ receiver' = kind /\ live' = live \cup {kind} /\ opened' = opened + 1
  /\ gpsd' = IF kind = "gpsd" THEN opened + 1 ELSE gpsd
  /\ polled' = FALSE /\ gpsActive' = TRUE /\ Raced
  /\ UNCHANGED <<cached, beatPc, fixPc, fix, astray>>

GpsOpen(kind) ==
  /\ receiver' = kind /\ live' = live \cup {kind} /\ opened' = opened + 1
  /\ gpsd' = IF kind = "gpsd" THEN opened + 1 ELSE gpsd
  /\ polled' = FALSE /\ cached' = 0 /\ gpsActive' = TRUE /\ Raced
  /\ UNCHANGED <<beatPc, fixPc, fix, astray>>

GpsOpenFails ==
  /\ gpsActive' = FALSE
  /\ UNCHANGED <<receiver, live, opened, gpsd, polled, cached, beatPc, fixPc, fix, raced, astray>>

-----------------------------------------------------------------------------
GpsFlagsOK == gpsActive \in BOOLEAN /\ polled \in BOOLEAN /\ raced \in BOOLEAN

GpsTypeOK ==
  /\ GpsFlagsOK
  /\ receiver \in {"none", "gpsd", "serial"} /\ live \subseteq {"gpsd", "serial"}
  /\ opened \in Nat /\ astray \in Nat /\ beatPc \in {"away", "gpsd", "serial"}
  /\ {gpsd, fix, cached} \subseteq 0..opened /\ fixPc \in {"away", "gpsd", "serial", "got"}
=============================================================================
