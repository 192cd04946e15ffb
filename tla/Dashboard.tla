----------------------------- MODULE Dashboard -----------------------------
(***************************************************************************)
(* What the web dashboard (tools/zmq_web_dashboard.py) remembers of the    *)
(* devices it hears, and what it says of those that are watched.  Four     *)
(* threads share it: the receiver (add_packet), AlertManager's monitor,    *)
(* the browsers' requests and the browsers' event streams.  DeviceDB's     *)
(* connection commits now and then: a crash goes back to the last commit.  *)
(*                                                                         *)
(* A device is watched under its own key, all notifications are wanted,    *)
(* and one request at a time is about a device.  Times are ages, which     *)
(* stop growing where the code no longer tells them apart.  A packet is    *)
(* its number.  (is_new is asked when upsert has made the device known: no *)
(* new-device alert is ever due.)                                          *)
(***************************************************************************)
EXTENDS Integers, Sequences, FiniteSets

CONSTANTS
  Devices,
  CommitEvery,  \* so many upserts to a commit (100)
  Absence,      \* absence_threshold
  Cooldown,     \* cooldown
  MaxPending,   \* so many alerts wait for a browser (100)
  WatchFile,    \* the devices named in the file of --alert-file
  MaxPackets,   \* bound: so many packets arrive
  MaxTests,     \* bound: so many test alerts
  MaxRestarts   \* bound: so many crashes and restarts

ASSUME DashboardAssumption ==
  /\ IsFiniteSet(Devices) /\ WatchFile \subseteq Devices
  /\ {CommitEvery, MaxPending} \subseteq Nat \ {0}
  /\ {Absence, Cooldown, MaxPackets, MaxTests, MaxRestarts} \subseteq Nat

VARIABLES
  packets,   \* how many packets have arrived
  tests,     \* how many test alerts were asked for
  restarts,  \* how many restarts there were
  table,     \* the packets counted in total_pkts of each device, as the
             \* connection sees it
  disk,      \* the same as of the last commit
  changes,   \* _changes
  watched,   \* watch_set
  onDisk,    \* the table watch_list
  request,   \* what a browser's request about a device has left to do
  presence,  \* presence_state
  silent,    \* now - last_seen
  quiet,     \* now - last_alert, of a device's return
  returning, \* the alerts the receiver has decided on and not yet fired
  leaving,   \* those of the monitor, fired in the order of a dictionary
  pending,   \* pending_browser_alerts
  log,       \* how many alerts of each kind were written to alert_log of
             \* each device (of all, with tests, the last 200 are kept)
  decided, shown, lost   \* how many alerts there were, and became of them

dbVars    == <<table, disk, changes>>
watchVars == <<watched, onDisk, request>>
alertVars == <<presence, silent, quiet, returning, leaving, pending, log, decided, shown, lost>>
dashboardVars == <<packets, tests, restarts, dbVars, watchVars, alertVars>>

Alert(d, reason) == [mac |-> d, reason |-> reason]
Reasons == {"device-left", "device-returned"}
Test == Alert("ff:ff:ff:ff:ff:ff", "test")
Alerts == [mac : Devices, reason : Reasons] \cup {Test}
All(n) == [d \in Devices |-> n]
NoAlerts == [d \in Devices |-> [r \in Reasons |-> 0]]

DashboardInit ==
  /\ packets = 0 /\ tests = 0 /\ restarts = 0
  /\ table = All({}) /\ disk = All({}) /\ changes = 0
  /\ watched = WatchFile /\ onDisk = {} /\ request = All("none")
  /\ presence = All("unknown") /\ silent = All(0) /\ quiet = All(Cooldown + 1)
  /\ returning = <<>> /\ leaving = {} /\ pending = <<>> /\ log = NoAlerts
  /\ decided = 0 /\ shown = 0 /\ lost = 0

-----------------------------------------------------------------------------
(* DeviceDB *)

\* Faulty: a commit every so many devices, not upserts.
UpsertCountingDevices(d) ==
  /\ table' = [table EXCEPT ![d] = @ \cup {packets + 1}]
  /\ changes' = IF table[d] = {} THEN changes + 1 ELSE changes
  /\ disk' = IF changes' % CommitEvery = 0 THEN table' ELSE disk

Upsert(d) ==
  /\ table' = [table EXCEPT ![d] = @ \cup {packets + 1}]
  /\ changes' = changes + 1
  /\ disk' = IF changes' % CommitEvery = 0 THEN table' ELSE disk

-----------------------------------------------------------------------------
(* AlertManager.check, under its lock, in add_packet *)

\* Faulty: a device that was absent stays so.
SightedNoted(d) ==
  /\ presence' = [presence EXCEPT ![d] = IF @ = "unknown" THEN "present" ELSE @]
  /\ silent' = [silent EXCEPT ![d] = 0]

Sighted(d) ==
  /\ presence' = [presence EXCEPT ![d] = "present"]
  /\ silent' = [silent EXCEPT ![d] = 0]

\* The device was absent, and its return has not been reported of late.
Returned(d) == d \in watched /\ presence[d] = "left" /\ quiet[d] > Cooldown

AddPacket(d) ==
  /\ packets < MaxPackets /\ packets' = packets + 1
  /\ returning = <<>>
  /\ Upsert(d)
  /\ IF d \in watched THEN Sighted(d) ELSE UNCHANGED <<presence, silent>>
  /\ IF Returned(d)
       THEN /\ returning' = <<Alert(d, "device-returned")>>
            /\ quiet' = [quiet EXCEPT ![d] = 0] /\ decided' = decided + 1
       ELSE UNCHANGED <<returning, quiet, decided>>
  /\ UNCHANGED <<tests, restarts, watchVars, leaving, pending, log, shown, lost>>

\* _presence_monitor looks for watched devices that have gone silent, also for
\* those that are watched no more, whose packets no longer count.
MonitorScans ==
  LET absent == {d \in Devices : presence[d] = "present" /\ silent[d] > Absence} IN
  /\ leaving = {} /\ absent # {}
  /\ presence' = [d \in Devices |-> IF d \in absent THEN "left" ELSE presence[d]]
  /\ leaving' = {Alert(d, "device-left") : d \in absent}
  /\ decided' = decided + Cardinality(absent)
  /\ UNCHANGED <<packets, tests, restarts, dbVars, watchVars, silent, quiet, returning, pending, log, shown, lost>>

\* The end of _fire_alert, under the lock again.
Posted(alert) ==
  LET all == Append(pending, alert) IN
     IF Len(all) > MaxPending THEN pending' = Tail(all) /\ lost' = lost + 1
                              ELSE pending' = all /\ UNCHANGED lost

Logged(alert) == Posted(alert) /\ log' = [log EXCEPT ![alert.mac][alert.reason] = @ + 1]

\* In the meantime a command was started and a web hook called: the receiver
\* and the monitor may do this in another order than they decided in.
ReceiverFires ==
  /\ returning # <<>> /\ Logged(Head(returning)) /\ returning' = Tail(returning)
  /\ UNCHANGED <<packets, tests, restarts, dbVars, watchVars, presence, silent, quiet, leaving, decided, shown>>

MonitorFires ==
  /\ \E alert \in leaving : Logged(alert) /\ leaving' = leaving \ {alert}
  /\ UNCHANGED <<packets, tests, restarts, dbVars, watchVars, presence, silent, quiet, returning, decided, shown>>

\* /api/alert-test.
TestAlert ==
  /\ tests < MaxTests /\ tests' = tests + 1
  /\ Posted(Test) /\ decided' = decided + 1
  /\ UNCHANGED <<packets, restarts, dbVars, watchVars, presence, silent, quiet, returning, leaving, log, shown>>

-----------------------------------------------------------------------------
(* Browsers *)

\* Faulty: the alerts are copied, and not cleared under the same lock.
StreamCopies ==
  /\ pending # <<>>
  /\ \/ shown' = shown + Len(pending) /\ UNCHANGED lost
     \/ lost' = lost + Len(pending) /\ UNCHANGED shown
  /\ UNCHANGED <<packets, tests, restarts, dbVars, watchVars, presence, silent, quiet, returning, leaving, pending, log, decided>>

\* The first event stream to ask gets the alerts (get_pending_alerts); if its
\* browser has gone away, nobody does.
StreamTakes ==
  /\ pending # <<>> /\ pending' = <<>>
  /\ \/ shown' = shown + Len(pending) /\ UNCHANGED lost
     \/ lost' = lost + Len(pending) /\ UNCHANGED shown
  /\ UNCHANGED <<packets, tests, restarts, dbVars, watchVars, presence, silent, quiet, returning, leaving, log, decided>>

\* /api/watch changes the sets in memory, and then the database's.
Watch(d, set, op) ==
  /\ request[d] = "none" /\ request' = [request EXCEPT ![d] = op]
  /\ watched' = set
  /\ UNCHANGED <<packets, tests, restarts, dbVars, onDisk, alertVars>>

\* add_watch_entry and remove_watch_entry commit, also the upserts before.
WatchSaved(d) ==
  /\ request[d] # "none" /\ request' = [request EXCEPT ![d] = "none"]
  /\ onDisk' = IF request[d] = "add" THEN onDisk \cup {d} ELSE onDisk \ {d}
  /\ disk' = table
  /\ UNCHANGED <<packets, tests, restarts, table, changes, watched, alertVars>>

-----------------------------------------------------------------------------
Older(age, limit) == [d \in Devices |-> IF age[d] > limit THEN age[d] ELSE age[d] + 1]

Tick ==
  /\ silent' = Older(silent, Absence) /\ quiet' = Older(quiet, Cooldown)
  /\ UNCHANGED <<packets, tests, restarts, dbVars, watchVars>>
  /\ UNCHANGED <<presence, returning, leaving, pending, log, decided, shown, lost>>

\* The dashboard is closed, which commits, or crashes; then it starts again
\* with what the database has, and the watch file once more.
StartAgain ==
  /\ restarts < MaxRestarts /\ restarts' = restarts + 1
  /\ disk' \in {disk, table} /\ table' = disk' /\ changes' = 0
  /\ watched' = onDisk \cup WatchFile /\ request' = All("none")
  /\ presence' = All("unknown") /\ silent' = All(0) /\ quiet' = All(Cooldown + 1)
  /\ lost' = lost + Len(returning) + Cardinality(leaving) + Len(pending)
  /\ returning' = <<>> /\ leaving' = {} /\ pending' = <<>> /\ log' = NoAlerts
  /\ UNCHANGED <<packets, tests, onDisk, decided, shown>>

DashboardNext ==
  \/ \E d \in Devices :
       AddPacket(d) \/ Watch(d, watched \cup {d}, "add") \/ Watch(d, watched \ {d}, "remove")
         \/ WatchSaved(d)
  \/ ReceiverFires \/ MonitorScans \/ MonitorFires \/ TestAlert \/ StreamTakes \/ Tick \/ StartAgain

DashboardSpec == DashboardInit /\ [][DashboardNext]_dashboardVars

-----------------------------------------------------------------------------
DashboardTypeOK ==
  /\ packets \in Nat /\ changes \in Nat
  /\ table \in [Devices -> SUBSET (1..packets)] /\ disk \in [Devices -> SUBSET (1..packets)]
  /\ watched \subseteq Devices /\ onDisk \subseteq Devices
  /\ request \in [Devices -> {"none", "add", "remove"}]
  /\ presence \in [Devices -> {"unknown", "present", "left"}]
  /\ silent \in [Devices -> 0..Absence + 1] /\ quiet \in [Devices -> 0..Cooldown + 1]
  /\ returning \in {<<>>} \cup {<<Alert(d, "device-returned")>> : d \in Devices}
  /\ leaving \subseteq {Alert(d, "device-left") : d \in Devices}
  /\ pending \in Seq(Alerts) /\ Len(pending) <= MaxPending
  /\ log \in [Devices -> [Reasons -> Nat]]
  /\ decided \in Nat /\ shown \in Nat /\ lost \in Nat

\* The packets that a crash would lose.
Uncommitted == UNION {table[d] \ disk[d] : d \in Devices}

\* When the browsers have been answered, watch_set is what the next start will
\* have, but for what was taken out of it and is in the watch file.
WatchSetKept(d) ==
  /\ d \in watched => d \in onDisk \cup WatchFile
  /\ d \in onDisk => d \in watched

\* A crash loses fewer packets than CommitEvery and none that were committed; it
\* loses no device that was watched, and brings back none that a browser was told
\* is watched no more, unless it is in the watch file, whatever else was committed
\* meanwhile (zmq_web_dashboard.py:130-154, 190-201, 262-273).
CrashLosesLittle ==
  /\ Cardinality(Uncommitted) < CommitEvery /\ \A d \in Devices : disk[d] \subseteq table[d]
  /\ \A d \in Devices : request[d] = "none" => WatchSetKept(d)

\* The receiver and the monitor decide under one lock and write to the log
\* under another hold of it: still no more returns of a device are ever
\* written than departures, but for the one the monitor is about to write
\* (zmq_web_dashboard.py:275-356).
ReturnsFollowDepartures ==
  \A d \in Devices :
    log[d]["device-returned"]
      <= log[d]["device-left"] + IF Alert(d, "device-left") \in leaving THEN 1 ELSE 0

\* No alert is shown twice or disappears: it is about to be fired, waits for a
\* browser, was shown in one, or was lost because too many waited, with its
\* browser, or in a crash (zmq_web_dashboard.py:349-407, 2080-2087, 2153-2161).
AlertsAccountedFor ==
  decided = Len(returning) + Cardinality(leaving) + Len(pending) + shown + lost

-----------------------------------------------------------------------------
(* The inductive invariant *)

\* Every upsert since the last commit has been counted.
ChangesCounted ==
  /\ \A d \in Devices : disk[d] \subseteq table[d]
  /\ Cardinality(Uncommitted) <= changes % CommitEvery

\* A request has done to watch_set what it has yet to do to the watch_list.
RequestsHalfDone ==
  \A d \in Devices :
    CASE request[d] = "add"    -> d \in watched
      [] request[d] = "remove" -> d \notin watched
      [] OTHER                 -> WatchSetKept(d)

\* A device that returns has left before, and once for each return: it has left
\* once more while it is absent.
PairedAt(d) ==
  log[d]["device-returned"]
      + (IF returning = <<Alert(d, "device-returned")>> THEN 1 ELSE 0)
      + (IF presence[d] = "left" THEN 1 ELSE 0)
    <= log[d]["device-left"] + (IF Alert(d, "device-left") \in leaving THEN 1 ELSE 0)

DeparturesPaired == \A d \in Devices : PairedAt(d)

DashboardIInv ==
  DashboardTypeOK /\ ChangesCounted /\ RequestsHalfDone /\ DeparturesPaired /\ AlertsAccountedFor
=============================================================================
