------------------------------- MODULE Decoder -------------------------------
(* The burst processor: slicing a burst into bits (fsk.c), finding a Bluetooth *)
(* LE packet among them, checking its CRC, and the table of connections, which *)
(* CONNECT_IND packets fill (bluetooth.c). Whitening and CRC are LinkLayer's.  *)
EXTENDS Integers, FiniteSets

CONSTANTS MaxConnections,  \* BLE_MAX_CONNECTIONS
          AAs, AdvAA,      \* access addresses; AdvAA is BLE_ADV_AA
          Inits, AdvInit,  \* CRC initialisation values; AdvInit is 0x555555
          BurstLens,       \* lengths of bursts, in samples
          Silences,        \* what silence_skip may return
          HeaderLens,      \* values of the length byte of a header
          BitStarts,       \* where the correlator may find an access address
          MaxTime          \* bound: seconds on the clock

\* -1 is UINT_MAX, what silence_skip returns for a loud first sample.
ASSUME DecoderAssumption ==
    /\ MaxConnections \in Nat \ {0}
    /\ AdvAA \in AAs /\ AdvInit \in Inits
    /\ BurstLens \subseteq Nat /\ Silences \subseteq Nat \cup {-1}
    /\ HeaderLens \subseteq 0..255
    /\ BitStarts \subseteq Nat \ {0}
    /\ MaxTime \in Nat

VARIABLES
    now,          \* time(NULL)
    check_crc,    \* the option --check-crc
    conn_table,
    packet,       \* the last packet given to pcap_write_ble
    touched       \* history: when each connection was last heard of, 0 if never

vars == <<now, check_crc, conn_table, packet, touched>>

Slots == 0..(MaxConnections - 1)

NoAA     == "no access address"
NoInit   == "no initial value"
NoConn   == [aa |-> NoAA, crc_init |-> NoInit]
NoPacket == [header_len |-> 0, first |-> 0, limit |-> 0,
             crc_checked |-> FALSE, crc_valid |-> FALSE, conn_valid |-> FALSE]

---------------------------------------------------------------------------
(* The connection table. *)

Entry == [active : BOOLEAN, aa : AAs \cup {NoAA}, crc_init : Inits \cup {NoInit},
          last_seen : Nat]

FreeEntry == [active |-> FALSE, aa |-> NoAA, crc_init |-> NoInit, last_seen |-> 0]

\* What conn_lookup finds.
Tracked(aa) == {i \in Slots : conn_table[i].active /\ conn_table[i].aa = aa}

Lookup(aa) == CHOOSE i \in Tracked(aa) : \A j \in Tracked(aa) : i <= j

\* Faulty: the entry that was seen last makes room.
EligibleNewest ==
    IF \E i \in Slots : ~ conn_table[i].active
    THEN {i \in Slots : ~ conn_table[i].active}
    ELSE {i \in Slots : \A j \in Slots : conn_table[i].last_seen >= conn_table[j].last_seen}

\* The slots conn_add considers: the free ones or, if there is none, those
\* that were last seen first. It takes the first of them.
Eligible ==
    IF \E i \in Slots : ~ conn_table[i].active
    THEN {i \in Slots : ~ conn_table[i].active}
    ELSE {i \in Slots : \A j \in Slots : conn_table[i].last_seen <= conn_table[j].last_seen}

Best == CHOOSE i \in Eligible : \A j \in Eligible : i <= j

Seen(i) == [conn_table EXCEPT ![i].last_seen = now]

\* Faulty: a connection that is announced again gets a second entry.
AddedTwice(conn) ==
    [conn_table EXCEPT ![Best] = [active |-> TRUE, aa |-> conn.aa,
                                  crc_init |-> conn.crc_init, last_seen |-> now]]

\* conn_add. `created`, the addresses and the connection's parameters are
\* written here and not read anywhere.
Added(conn) ==
    IF Tracked(conn.aa) # {}
    THEN Seen(Lookup(conn.aa))
    ELSE [conn_table EXCEPT ![Best] = [active |-> TRUE, aa |-> conn.aa,
                                       crc_init |-> conn.crc_init, last_seen |-> now]]

---------------------------------------------------------------------------
(* From samples to bits (fsk_demod), at two samples per symbol. *)

\* 8 + median_size()
MinSamples == 8 + 2 * 64

DemodLens == {burst_len \in BurstLens : burst_len >= MinSamples}

\* Every second sample from silence + 1 on, which is 0 after UINT_MAX.
BitsLen(burst_len, silence) == (burst_len - (silence + 1) + 1) \div 2

---------------------------------------------------------------------------
(* From bits to a packet. *)

\* Preamble, access address, header, body and CRC.
BitLen(header_len) == 8 + 32 + 16 + 8 * header_len + 24

\* The offsets at which ble_burst looks for an access address.
Offsets == 6..8

Delta(bits_len, header_len) == bits_len - BitLen(header_len)

\* The candidates ble_burst prefers: those with the smallest positive delta.
Closest(bits_len, header_lens) ==
    {i \in Offsets :
        /\ Delta(bits_len, header_lens[i]) > 0
        /\ \A j \in Offsets : Delta(bits_len, header_lens[j]) > 0
                => Delta(bits_len, header_lens[i]) <= Delta(bits_len, header_lens[j])}

\* Faulty: a candidate that is too long is taken by its distance, too.
AcceptedAbs(bits_len, header_lens) ==
    {i \in Offsets : Delta(bits_len, header_lens[i]) \in -19..19}

\* ble_burst's packet begins at this offset, if there is any.
Accepted(bits_len, header_lens) ==
    {i \in Closest(bits_len, header_lens) :
        /\ Delta(bits_len, header_lens[i]) < 20
        /\ \A j \in Closest(bits_len, header_lens) : i <= j}

\* What a packet says, besides its length: the one initial value for which its
\* CRC is right, and the connection it announces when it is a CONNECT_IND.
Announcement == [aa : AAs, crc_init : Inits]
Content(header_len) ==
    [good : Inits,
     conn : {NoConn} \cup (IF header_len = 34 THEN Announcement ELSE {})]

\* Where a packet is: its first bit, its length byte and the bits there are. The
\* places that the preamble and the lengths lead ble_burst to, in a burst that
\* fsk_demod can slice; a length byte beyond the last bit may have any value.
PreamblePlaces ==
    UNION {UNION {{[first |-> i, header_len |-> header_lens[i], limit |-> bits_len] :
                      i \in Accepted(bits_len, header_lens)} :
                  header_lens \in [Offsets -> HeaderLens]} :
           bits_len \in {BitsLen(burst_len, silence) : burst_len \in DemodLens,
                                                      silence \in Silences}}

\* The places ble_burst_correlator finds, the access address being that of
\* advertising, with at most four bits wrong. What it asks of demod_len and of
\* max_bits before it reads the length is less than the last line asks.
CorrelatorPlaces ==
    {place \in [first : {0}, header_len : HeaderLens \cap 0..37,
                limit : {(burst_len - bit_start) \div 2 : burst_len \in DemodLens,
                                                         bit_start \in BitStarts}] :
        place.limit >= 32 + 16 + 8 * place.header_len + 24}

\* bluetooth_detect from the moment there is a packet: the CRC, and then
\* parse_connect_ind, which conn_add ends.
Deliver(aa, place, content) ==
    LET known   == Tracked(aa) # {}
        checked == check_crc /\ (aa = AdvAA \/ known)
        init    == IF aa = AdvAA THEN AdvInit ELSE conn_table[Lookup(aa)].crc_init
        valid   == checked /\ content.good = init
        hears   == checked /\ aa # AdvAA
        adds    == valid /\ aa = AdvAA /\ content.conn # NoConn
        about   == IF adds THEN content.conn.aa ELSE aa
    IN /\ packet' = [header_len |-> place.header_len, first |-> place.first,
                     limit |-> place.limit, crc_checked |-> checked,
                     crc_valid |-> valid, conn_valid |-> hears]
       /\ conn_table' = IF adds THEN Added(content.conn)
                        ELSE IF hears THEN Seen(Lookup(aa)) ELSE conn_table
       /\ touched' = IF adds \/ hears THEN [touched EXCEPT ![about] = now] ELSE touched
       /\ UNCHANGED <<now, check_crc>>

\* The processor takes a burst that holds no classic access code and finds a
\* packet by its preamble, or, if there is none, by correlation.
ByPreamble ==
    \E aa \in AAs, place \in PreamblePlaces : \E content \in Content(place.header_len) :
        Deliver(aa, place, content)

ByCorrelator ==
    \E place \in CorrelatorPlaces : \E content \in Content(place.header_len) :
        Deliver(AdvAA, place, content)

Tick ==
    /\ now < MaxTime
    /\ now' = now + 1
    /\ UNCHANGED <<check_crc, conn_table, packet, touched>>

Init ==
    /\ now = 1
    /\ check_crc \in BOOLEAN
    /\ conn_table = [i \in Slots |-> FreeEntry]
    /\ packet = NoPacket
    /\ touched = [aa \in AAs |-> 0]

Next ==
    \/ ByPreamble
    \/ ByCorrelator
    \/ Tick

Spec == Init /\ [][Next]_vars

---------------------------------------------------------------------------
Packet == [header_len : 0..255, first : 0..8, limit : Int,
           crc_checked : BOOLEAN, crc_valid : BOOLEAN, conn_valid : BOOLEAN]

TypeOK ==
    /\ now \in Nat \ {0}
    /\ check_crc \in BOOLEAN
    /\ conn_table \in [Slots -> Entry]
    /\ packet \in Packet \cup {NoPacket}
    /\ touched \in [AAs -> Nat]

\* No connection has two entries, and each entry knows when its connection was
\* last heard of (conn_add, ble_burst).
TableOK ==
    \A i \in Slots : conn_table[i].active =>
        /\ conn_table[i].aa \in AAs
        /\ conn_table[i].crc_init \in Inits
        /\ conn_table[i].last_seen = touched[conn_table[i].aa]
        /\ conn_table[i].last_seen \in 1..now
        /\ \A j \in Slots : conn_table[j].active /\ conn_table[j].aa = conn_table[i].aa => j = i

\* A connection that was heard of is missing only when the table is full of
\* connections heard of at the same time or later (conn_add evicts the oldest).
LeastRecentForgotten ==
    \A aa \in AAs : touched[aa] > 0 /\ Tracked(aa) = {} =>
        \A i \in Slots : conn_table[i].active /\ conn_table[i].last_seen >= touched[aa]

\* The inductive invariant.
IInv == TypeOK /\ TableOK /\ LeastRecentForgotten

\* Every bit of a packet that is delivered, access address to CRC, was received
\* in its burst (ble_burst, ble_burst_correlator).
InsideBurst ==
    packet # NoPacket =>
        packet.first + 32 + 16 + 8 * packet.header_len + 24 <= packet.limit
=============================================================================
