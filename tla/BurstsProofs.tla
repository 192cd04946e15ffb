---------------------------- MODULE BurstsProofs ----------------------------
(***************************************************************************)
(* The inductive invariant of Bursts, for any number of AGC threads, any   *)
(* capacity of the queue and any sizes that BurstsAssumption admits.       *)
(***************************************************************************)
EXTENDS Bursts, TLAPS

\* What a catcher must be like, whatever thread it belongs to.
Sound(c) ==
  /\ c \in Catchers
  /\ (c.mode \in {"rise", "hi", "fall", "lo"}) <=> (c.buf # NoBuffer)
  /\ c.mode = "lo" => c.timer >= 1
  /\ c.rssi <=> c.len >= RssiOffset
  /\ c.mode \in {"rise", "hi", "fall", "lo"} /\ ~c.refused => c.size >= 1 /\ c.len <= c.size

\* The invariant says of every catcher that it is sound.
LEMMA CatchersSound ==
  ASSUME IInv
  PROVE  \A a \in Agc : Sound(catcher[a])
<1> SUFFICES ASSUME NEW a \in Agc PROVE Sound(catcher[a])
  OBVIOUS
<1>1. catcher[a] \in Catchers
  BY DEF IInv, TypeOK
<1> QED
  BY <1>1 DEF IInv, CatchersOK, InsideBuffer, Catching, Sound

\* agc_crcf_execute moves the squelch and its timer and touches nothing else.
LEMMA SquelchedSound ==
  ASSUME NEW c, Sound(c), NEW loud \in BOOLEAN
  PROVE  /\ Squelched(c, loud) \in Catchers
         /\ Squelched(c, loud).buf = c.buf /\ Squelched(c, loud).size = c.size
         /\ Squelched(c, loud).len = c.len /\ Squelched(c, loud).rssi = c.rssi
         /\ Squelched(c, loud).refused = c.refused
         /\ Squelched(c, loud).mode = "lo" => Squelched(c, loud).timer >= 1
         /\ Squelched(c, loud).mode = "rise" => c.mode = "enabled"
         /\ Squelched(c, loud).mode = "enabled" => c.mode \in {"enabled", "timeout"}
         /\ Squelched(c, loud).mode \in {"hi", "fall", "lo", "timeout"}
              => c.mode \in {"rise", "hi", "fall", "lo"}
<1> DEFINE s == Squelched(c, loud)
<1>0. c \in Catchers /\ Timeout \in 1..Timeout /\ (c.mode = "lo" => c.timer >= 1)
  BY BurstsAssumption DEF Sound
<1>1. CASE c.mode \in {"enabled", "timeout"}
  <2>1. s = [c EXCEPT !.mode = IF loud /\ c.mode = "enabled" THEN "rise" ELSE "enabled"]
    BY <1>1 DEF Squelched
  <2> QED
    BY <1>0, <1>1, <2>1 DEF Catchers
<1>2. CASE c.mode \in {"rise", "hi"}
  <2>1. s = [c EXCEPT !.mode = IF loud THEN "hi" ELSE "fall"]
    BY <1>2 DEF Squelched
  <2> QED
    BY <1>0, <1>2, <2>1 DEF Catchers
<1>3. CASE c.mode = "fall"
  <2>1. s = [c EXCEPT !.mode = IF loud THEN "hi" ELSE "lo", !.timer = Timeout]
    BY <1>3 DEF Squelched
  <2>2. Timeout \in 0..Timeout /\ Timeout >= 1
    BY BurstsAssumption
  <2>3. s \in Catchers /\ s.timer = Timeout /\ s.mode \in {"hi", "lo"}
    BY <1>0, <2>1, <2>2 DEF Catchers
  <2>4. /\ s.buf = c.buf /\ s.size = c.size /\ s.len = c.len /\ s.rssi = c.rssi
        /\ s.refused = c.refused
    BY <1>0, <2>1 DEF Catchers
  <2> QED
    BY <1>3, <2>2, <2>3, <2>4
<1>4. CASE c.mode = "lo"
  <2>1. s = [c EXCEPT !.timer = @ - 1,
               !.mode = IF c.timer = 1 THEN "timeout" ELSE IF loud THEN "hi" ELSE "lo"]
    BY <1>4 DEF Squelched
  <2>2. c.timer \in 0..Timeout /\ c.timer >= 1 /\ c.timer - 1 \in 0..Timeout
    BY <1>0, <1>4, BurstsAssumption DEF Catchers
  <2>3. c.timer # 1 => c.timer - 1 >= 1
    BY <2>2, BurstsAssumption
  <2> QED
    BY <1>0, <1>4, <2>1, <2>2, <2>3 DEF Catchers
<1> QED
  BY <1>0, <1>1, <1>2, <1>3, <1>4 DEF Catchers

\* Keeping a sample keeps a catcher sound: it is written inside the buffer,
\* or the buffer could not be doubled.
LEMMA StoredSound ==
  ASSUME NEW c \in Catchers, c.mode = "hi", c.buf # NoBuffer,
         c.rssi <=> c.len >= RssiOffset,
         ~c.refused => c.size >= 1 /\ c.len <= c.size,
         NEW granted \in BOOLEAN
  PROVE  Sound(Stored(c, granted)) /\ Stored(c, granted).buf = c.buf
           /\ Stored(c, granted).mode = "hi"
<1> DEFINE g == Grown(c, granted)
           s == IF g.len < MaxSize THEN [g EXCEPT !.len = @ + 1] ELSE g
<1>0. /\ MaxSize \in Nat /\ RssiOffset \in Nat \ {0}
  BY BurstsAssumption
<1>c. /\ c.size \in Nat /\ c.len \in 0..MaxSize /\ c.rssi \in BOOLEAN /\ c.refused \in BOOLEAN
  BY DEF Catchers
<1>1. /\ g \in Catchers /\ g.mode = "hi" /\ g.buf = c.buf /\ g.len = c.len /\ g.rssi = c.rssi
      /\ ~g.refused => ~c.refused /\ g.size >= 1 /\ g.len <= g.size
      /\ ~g.refused /\ g.len < MaxSize => g.len < g.size
  <2>1. CASE c.len = c.size /\ c.len < MaxSize /\ granted
    <3>1. g = [c EXCEPT !.size = 2 * c.size]
      BY <2>1 DEF Grown
    <3>2. 2 * c.size \in Nat /\ (c.size >= 1 => 2 * c.size >= 1 /\ c.size < 2 * c.size)
      BY <1>c
    <3>3. g \in Catchers
      BY <3>1, <3>2 DEF Catchers
    <3>4. /\ g.size = 2 * c.size /\ g.mode = c.mode /\ g.buf = c.buf /\ g.len = c.len
          /\ g.rssi = c.rssi /\ g.refused = c.refused
      BY <3>1 DEF Catchers
    <3>5. ~g.refused => g.size >= 1 /\ g.len < g.size
      BY <2>1, <3>2, <3>4, <1>c
    <3> QED
      BY <3>2, <3>3, <3>4, <3>5, <1>c
  <2>2. CASE c.len = c.size /\ c.len < MaxSize /\ ~granted
    <3>1. g = [c EXCEPT !.refused = TRUE]
      BY <2>2 DEF Grown
    <3> QED
      BY <2>2, <3>1, <1>c DEF Catchers
  <2>3. CASE ~(c.len = c.size /\ c.len < MaxSize)
    <3>1. g = c
      BY <2>3 DEF Grown
    <3> QED
      BY <2>3, <3>1, <1>c, <1>0
  <2> QED
    BY <2>1, <2>2, <2>3
<1> HIDE DEF g
<1>g. /\ g.size \in Nat /\ g.len \in 0..MaxSize /\ g.rssi \in BOOLEAN /\ g.refused \in BOOLEAN
  BY <1>1 DEF Catchers
<1>2. /\ s \in Catchers /\ s.mode = "hi" /\ s.buf = c.buf /\ s.refused = g.refused
      /\ s.size = g.size /\ s.rssi = g.rssi
      /\ ~s.refused => s.size >= 1 /\ s.len <= s.size
      /\ s.len = c.len \/ s.len = c.len + 1
  <2>1. CASE g.len < MaxSize
    <3>1. s = [g EXCEPT !.len = @ + 1] /\ g.len + 1 \in 0..MaxSize
      BY <2>1, <1>g, <1>0
    <3>2. s \in Catchers /\ s.len = g.len + 1 /\ s.mode = g.mode /\ s.buf = g.buf
            /\ s.refused = g.refused /\ s.size = g.size /\ s.rssi = g.rssi
      BY <3>1, <1>1 DEF Catchers
    <3> QED
      BY <2>1, <3>2, <1>1, <1>g
  <2>2. CASE ~(g.len < MaxSize)
    BY <2>2, <1>1, <1>g
  <2> QED
    BY <2>1, <2>2
<1> HIDE DEF s
<1>3. Stored(c, granted) = IF s.len = RssiOffset THEN [s EXCEPT !.rssi = TRUE] ELSE s
  BY DEF Stored, s, g
<1>s. s.len \in Nat /\ s.rssi \in BOOLEAN
  BY <1>2 DEF Catchers
<1>4. CASE s.len = RssiOffset
  <2> DEFINE t == Stored(c, granted)
  <2>1. t = [s EXCEPT !.rssi = TRUE]
    BY <1>3, <1>4
  <2>2. t \in Catchers
    BY <1>2, <2>1 DEF Catchers
  <2>3. /\ t.mode = s.mode /\ t.buf = s.buf /\ t.size = s.size /\ t.len = s.len
        /\ t.rssi = TRUE /\ t.refused = s.refused
    BY <1>2, <2>1 DEF Catchers
  <2>4. t.len >= RssiOffset
    BY <1>4, <1>0, <2>3
  <2> HIDE DEF t
  <2>5. Sound(t)
    BY <1>2, <2>2, <2>3, <2>4 DEF Sound
  <2> QED
    BY <1>2, <2>3, <2>5 DEF t
<1>5. CASE s.len # RssiOffset
  <2>1. Stored(c, granted) = s
    BY <1>3, <1>5
  <2>2. c.len >= RssiOffset <=> s.len >= RssiOffset
    BY <1>2, <1>5, <1>c, <1>0
  <2>3. s.rssi <=> s.len >= RssiOffset
    BY <2>2, <1>1, <1>2
  <2> QED
    BY <1>2, <2>1, <2>3 DEF Sound
<1> QED
  BY <1>4, <1>5

-----------------------------------------------------------------------------
\* A sound catcher in every thread, each with its buffer allocated, is what
\* the invariant asks of the catchers.
LEMMA SoundEnough ==
  ASSUME \A a \in Agc : Sound(catcher[a])',
         \A a \in Agc : catcher[a].buf' # NoBuffer => catcher[a].buf' \in heap'
  PROVE  CatchersOK' /\ InsideBuffer'
<1>1. CatchersOK'
  BY DEF CatchersOK, Catching, Sound
<1>2. InsideBuffer'
  BY DEF InsideBuffer, Catching, Sound
<1> QED
  BY <1>1, <1>2

\* A step of a catcher that keeps its buffer and leaves it sound.
LEMMA CatcherMoves ==
  ASSUME IInv, NEW a \in Agc, NEW n, Sound(n), n.buf = catcher[a].buf,
         catcher' = [catcher EXCEPT ![a] = n], UNCHANGED <<heap, leaked, bursts, burst>>
  PROVE  IInv'
<1>1. \A x \in Agc : Sound(catcher'[x]) /\ catcher'[x].buf = catcher[x].buf
  BY CatchersSound DEF IInv, TypeOK
<1>2. TypeOK'
  BY <1>1 DEF IInv, TypeOK, Sound
<1>3. CatchersOK' /\ InsideBuffer'
  BY <1>1, SoundEnough DEF IInv, CatchersOK
<1>4. BurstsWhole'
  BY DEF IInv, BurstsWhole, Whole
<1>5. OneOwner'
  BY <1>1 DEF IInv, OneOwner, Owned
<1> QED
  BY <1>2, <1>3, <1>4, <1>5 DEF IInv

LEMMA StartsKeeps ==
  ASSUME IInv, NEW a \in Agc, BurstStarts(a)
  PROVE  IInv'
<1>1. PICK b \in Buffers \ heap :
        /\ Sample(a, TRUE, "rise")
        /\ heap' = heap \cup {b}
        /\ catcher' = [catcher EXCEPT ![a] = Started(Squelched(@, TRUE), b)]
        /\ UNCHANGED <<leaked, bursts, burst>>
  BY DEF BurstStarts
<1> DEFINE s == Squelched(catcher[a], TRUE)
           n == Started(s, b)
<1>2. Sound(catcher[a]) /\ Squelched(catcher[a], TRUE).mode = "rise"
  BY <1>1, CatchersSound DEF Sample
<1>3. s \in Catchers /\ s.mode = "rise" /\ catcher[a].mode = "enabled"
  BY <1>2, SquelchedSound
<1>4. catcher[a].buf = NoBuffer
  BY <1>2, <1>3 DEF Sound
<1> HIDE DEF s
<1>5. /\ n \in Catchers /\ n.buf = b /\ n.mode = "rise" /\ n.len = 0 /\ n.size = StartSize
      /\ n.rssi = FALSE
  <2>1. n = [s EXCEPT !.buf = b, !.size = StartSize, !.len = 0, !.rssi = FALSE,
                       !.refused = FALSE]
    BY DEF Started
  <2>2. b \in Buffers /\ StartSize \in Nat /\ 0 \in 0..MaxSize
    BY BurstsAssumption
  <2> QED
    BY <1>3, <2>1, <2>2 DEF Catchers
<1>14. heap' = heap \cup {b} /\ leaked' = leaked /\ bursts' = bursts /\ burst' = burst /\ b \notin heap
  BY <1>1
<1>6. b # NoBuffer /\ 0 \in Nat /\ ~(0 >= RssiOffset) /\ StartSize >= 1 /\ 0 <= StartSize
  BY <1>1, BurstsAssumption
<1>7. catcher' = [catcher EXCEPT ![a] = n]
  BY <1>1 DEF s
<1> HIDE DEF n
<1>8. Sound(n)
  BY <1>5, <1>6 DEF Sound
<1>9. \A x \in Agc : Sound(catcher'[x])
                     /\ catcher'[x].buf = IF x = a THEN b ELSE catcher[x].buf
  BY <1>5, <1>7, <1>8, CatchersSound DEF IInv, TypeOK
<1>10. TypeOK'
  BY <1>14, <1>7, <1>9 DEF IInv, TypeOK, Sound
<1>11. CatchersOK' /\ InsideBuffer'
  BY <1>14, <1>9, <1>6, SoundEnough DEF IInv, CatchersOK
<1>12. BurstsWhole'
  BY <1>14 DEF IInv, BurstsWhole, Whole
<1>13. OneOwner'
  <2>1. ASSUME NEW x \in heap'
        PROVE  x \in leaked' <=> ~Owned(x)'
    <3>1. CASE x = b
      <4>1. Owned(x)'
        BY <3>1, <1>9 DEF Owned
      <4>2. x \notin leaked'
        BY <3>1, <1>14 DEF IInv, TypeOK
      <4> QED
        BY <4>1, <4>2
    <3>2. CASE x # b
      <4>1. x \in heap /\ x # NoBuffer
        BY <3>2, <1>14, BurstsAssumption DEF IInv, TypeOK
      <4>2. \A y \in Agc : catcher'[y].buf = x <=> catcher[y].buf = x
        BY <3>2, <4>1, <1>4, <1>9
      <4>3. Owned(x)' <=> Owned(x)
        BY <4>2, <1>14 DEF Owned
      <4> QED
        BY <4>1, <4>3, <1>14 DEF IInv, OneOwner
    <3> QED
      BY <3>1, <3>2
  <2>2. \A x, y \in Agc : catcher'[x].buf # NoBuffer /\ catcher'[x].buf = catcher'[y].buf => x = y
    BY <1>14, <1>9 DEF IInv, OneOwner, CatchersOK
  <2>3. \A x \in Agc : \A i \in 1..Len(bursts) : catcher'[x].buf # bursts[i].buf
    BY <1>14, <1>9 DEF IInv, OneOwner, BurstsWhole, Whole
  <2>4. burst # NoBurst => \A x \in Agc : catcher'[x].buf # burst.buf
    BY <1>14, <1>9 DEF IInv, OneOwner, BurstsWhole, Whole
  <2> QED
    BY <1>14, <2>1, <2>2, <2>3, <2>4 DEF IInv, OneOwner
<1> QED
  BY <1>10, <1>11, <1>12, <1>13 DEF IInv

LEMMA GoesOnKeeps ==
  ASSUME IInv, NEW a \in Agc, BurstGoesOn(a)
  PROVE  IInv'
<1>1. PICK granted \in BOOLEAN :
        /\ Sample(a, TRUE, "hi")
        /\ catcher' = [catcher EXCEPT ![a] = Stored(Squelched(@, TRUE), granted)]
        /\ UNCHANGED <<heap, leaked, bursts, burst>>
  BY DEF BurstGoesOn
<1> DEFINE c == catcher[a]
           s == Squelched(c, TRUE)
<1>2. Sound(c) /\ s.mode = "hi"
  BY <1>1, CatchersSound DEF Sample
<1>3. /\ s \in Catchers /\ s.buf = c.buf /\ s.size = c.size /\ s.len = c.len
      /\ s.rssi = c.rssi /\ s.refused = c.refused /\ c.mode \in {"rise", "hi", "fall", "lo"}
  BY <1>2, SquelchedSound
<1>7. catcher' = [catcher EXCEPT ![a] = Stored(s, granted)]
  BY <1>1
<1> HIDE DEF s, c
<1>4. /\ s.buf # NoBuffer /\ (s.rssi <=> s.len >= RssiOffset)
      /\ ~s.refused => s.size >= 1 /\ s.len <= s.size
  BY <1>2, <1>3 DEF Sound
<1>5. Sound(Stored(s, granted)) /\ Stored(s, granted).buf = s.buf
  BY <1>2, <1>3, <1>4, StoredSound
<1>6. Stored(s, granted).buf = catcher[a].buf
  BY <1>3, <1>5 DEF c
<1> QED
  BY <1>1, <1>5, <1>6, <1>7, CatcherMoves

LEMMA IgnoredKeeps ==
  ASSUME IInv, NEW a \in Agc, SampleIgnored(a)
  PROVE  IInv'
<1>1. PICK loud \in BOOLEAN :
        /\ Squelched(catcher[a], loud).mode \in {"enabled", "fall", "lo"}
        /\ catcher' = [catcher EXCEPT ![a] = Squelched(@, loud)]
        /\ UNCHANGED <<heap, leaked, bursts, burst>>
  BY DEF SampleIgnored
<1> DEFINE c == catcher[a]
           s == Squelched(c, loud)
<1>2. Sound(c) /\ s.mode \in {"enabled", "fall", "lo"}
  BY <1>1, CatchersSound
<1>3. /\ s \in Catchers /\ s.buf = c.buf /\ s.size = c.size /\ s.len = c.len
      /\ s.rssi = c.rssi /\ s.refused = c.refused
      /\ s.mode = "lo" => s.timer >= 1
      /\ s.mode = "enabled" => c.mode \in {"enabled", "timeout"}
      /\ s.mode \in {"fall", "lo"} => c.mode \in {"rise", "hi", "fall", "lo"}
  BY <1>2, SquelchedSound
<1>4. catcher' = [catcher EXCEPT ![a] = s]
  BY <1>1
<1> HIDE DEF s
<1>5. Sound(s)
  BY <1>2, <1>3 DEF Sound
<1> QED
  BY <1>1, <1>3, <1>4, <1>5, CatcherMoves

\* When a burst ends the catcher gives its buffer away.
LEMMA EndsKeeps ==
  ASSUME IInv, NEW a \in Agc, BurstEnds(a)
  PROVE  IInv'
<1> DEFINE c == catcher[a]
           e == Caught(c)
<1>1. PICK loud \in BOOLEAN :
        /\ Sample(a, loud, "timeout")
        /\ catcher' = [catcher EXCEPT ![a] = Idle("timeout")]
        /\ Dropped(c) \/ Added(c) \/ Lost(c)
        /\ UNCHANGED burst
  BY DEF BurstEnds
<1>2. Sound(c) /\ Squelched(c, loud).mode = "timeout"
  BY <1>1, CatchersSound DEF Sample
<1>3. c.mode \in {"rise", "hi", "fall", "lo"}
  BY <1>2, SquelchedSound
<1>4. c \in Catchers /\ c.buf # NoBuffer /\ c.buf \in heap
  BY <1>2, <1>3 DEF Sound, IInv, CatchersOK
<1>5. Sound(Idle("timeout")) /\ Idle("timeout").buf = NoBuffer
  BY BurstsAssumption DEF Sound, Idle, Catchers
<1>6. \A x \in Agc : Sound(catcher'[x])
                     /\ catcher'[x].buf = IF x = a THEN NoBuffer ELSE catcher[x].buf
  BY <1>1, <1>5, CatchersSound DEF IInv, TypeOK
<1>7. catcher' \in [Agc -> Catchers]
  BY <1>1, <1>5 DEF IInv, TypeOK, Sound
<1>8. /\ NoBuffer \notin heap
      /\ \A x \in Agc : x # a => catcher[x].buf # c.buf
      /\ \A i \in 1..Len(bursts) : bursts[i].buf # c.buf
      /\ burst # NoBurst => burst.buf # c.buf
  BY <1>4, BurstsAssumption DEF IInv, TypeOK, OneOwner
<1>o. /\ c.buf \notin leaked
      /\ ~(\E x \in Agc : catcher'[x].buf = c.buf)
      /\ \A x \in heap : x # c.buf =>
           ((\E y \in Agc : catcher'[y].buf = x) <=> (\E y \in Agc : catcher[y].buf = x))
  <2>1. Owned(c.buf)
    BY DEF Owned
  <2>2. \A x \in heap : x # c.buf => \A y \in Agc : catcher'[y].buf = x <=> catcher[y].buf = x
    BY <1>6, <1>8
  <2> QED
    BY <2>1, <2>2, <1>4, <1>6, <1>8 DEF IInv, OneOwner
<1>9. CASE Dropped(c)
  <2>1. heap' = heap \ {c.buf} /\ leaked' = leaked /\ bursts' = bursts /\ burst' = burst
    BY <1>1, <1>9 DEF Dropped
  <2>2. TypeOK'
    BY <1>7, <1>o, <2>1 DEF IInv, TypeOK
  <2>3. CatchersOK' /\ InsideBuffer'
    BY <1>6, <1>8, <2>1, SoundEnough DEF IInv, CatchersOK
  <2>4. BurstsWhole'
    BY <1>8, <2>1 DEF IInv, BurstsWhole, Whole
  <2>5. \A x \in heap' : x \in leaked' <=> ~Owned(x)'
    BY <1>o, <2>1 DEF IInv, OneOwner, Owned
  <2>6. OneOwner'
    BY <1>6, <1>8, <2>1, <2>5 DEF IInv, OneOwner, BurstsWhole, Whole
  <2> QED
    BY <2>2, <2>3, <2>4, <2>6 DEF IInv
<1>11. CASE Lost(c)
  <2>1. /\ heap' = heap /\ leaked' = leaked \cup {c.buf}
        /\ bursts' = bursts /\ burst' = burst
    BY <1>1, <1>11 DEF Lost
  <2>2. TypeOK'
    BY <1>4, <1>7, <2>1 DEF IInv, TypeOK
  <2>3. CatchersOK' /\ InsideBuffer'
    BY <1>6, <1>8, <2>1, SoundEnough DEF IInv, CatchersOK
  <2>4. BurstsWhole'
    BY <2>1 DEF IInv, BurstsWhole, Whole
  <2>5. burst.buf # c.buf
    BY <1>4, <1>8, BurstsAssumption DEF NoBurst, IInv, TypeOK
  <2>6. ASSUME NEW x \in heap' PROVE x \in leaked' <=> ~Owned(x)'
    <3>1. CASE x = c.buf
      <4>1. ~Owned(x)'
        BY <1>o, <1>8, <2>1, <2>5, <3>1 DEF Owned
      <4> QED
        BY <2>1, <3>1, <4>1
    <3>2. CASE x # c.buf
      BY <1>o, <2>1, <3>2 DEF IInv, OneOwner, Owned
    <3> QED
      BY <3>1, <3>2
  <2>7. OneOwner'
    BY <1>6, <1>8, <2>1, <2>6 DEF IInv, OneOwner, BurstsWhole, Whole
  <2> QED
    BY <2>2, <2>3, <2>4, <2>7 DEF IInv
<1>10. CASE Added(c)
  <2>1. heap' = heap /\ leaked' = leaked /\ bursts' = Append(bursts, e) /\ burst' = burst
    BY <1>1, <1>10 DEF Added
  <2>2. /\ e \in [buf : Buffers, len : 0..MaxSize, rssi : BOOLEAN]
        /\ e.buf = c.buf /\ e.len = c.len /\ e.rssi = c.rssi
    BY <1>4 DEF Caught, Catchers
  <2>3. c.len \in MinLen..MaxSize /\ c.len >= RssiOffset /\ Len(bursts) + 1 <= Capacity
    BY <1>4, <1>10, BurstsAssumption DEF Added, Catchers, IInv, TypeOK
  <2>4. c.rssi = TRUE
    BY <1>2, <1>4, <2>3 DEF Sound, Catchers
  <2> HIDE DEF e, c
  <2>5. /\ Len(bursts') = Len(bursts) + 1 /\ Len(bursts) \in Nat
        /\ \A i \in 1..Len(bursts) : bursts'[i] = bursts[i]
        /\ bursts'[Len(bursts) + 1] = e
        /\ bursts' \in Seq([buf : Buffers, len : 0..MaxSize, rssi : BOOLEAN])
    BY <2>1, <2>2 DEF IInv, TypeOK
  <2>6. TypeOK'
    BY <1>7, <2>1, <2>3, <2>5 DEF IInv, TypeOK
  <2>7. CatchersOK' /\ InsideBuffer'
    BY <1>6, <2>1, SoundEnough DEF IInv, CatchersOK
  <2>8. Whole(e)
    BY <1>4, <2>2, <2>3, <2>4 DEF Whole
  <2>9. \A i \in 1..Len(bursts') : i \in 1..Len(bursts) \/ i = Len(bursts) + 1
    BY <2>5
  <2>10. BurstsWhole'
    BY <2>1, <2>5, <2>8, <2>9 DEF IInv, BurstsWhole, Whole
  <2>11. ASSUME NEW x \in heap' PROVE x \in leaked' <=> ~Owned(x)'
    <3>1. CASE x = c.buf
      <4>1. Len(bursts) + 1 \in 1..Len(bursts')
        BY <2>5
      <4>2. Owned(x)'
        BY <3>1, <4>1, <2>2, <2>5 DEF Owned
      <4> QED
        BY <3>1, <4>2, <1>o, <2>1 DEF c
    <3>2. CASE x # c.buf
      <4>1. (\E y \in Agc : catcher'[y].buf = x) <=> (\E y \in Agc : catcher[y].buf = x)
        BY <3>2, <1>o, <2>1 DEF c
      <4>2. ASSUME NEW i \in 1..Len(bursts'), bursts'[i].buf = x
            PROVE  i \in 1..Len(bursts) /\ bursts[i].buf = x
        BY <4>2, <3>2, <2>2, <2>5, <2>9
      <4>3. ASSUME NEW i \in 1..Len(bursts), bursts[i].buf = x
            PROVE  i \in 1..Len(bursts') /\ bursts'[i].buf = x
        BY <4>3, <2>5
      <4>4. Owned(x)' <=> Owned(x)
        BY <4>1, <4>2, <4>3, <2>1 DEF Owned
      <4> QED
        BY <4>4, <2>1 DEF IInv, OneOwner
    <3> QED
      BY <3>1, <3>2
  <2>12. \A i, j \in 1..Len(bursts') : bursts'[i].buf = bursts'[j].buf => i = j
    BY <1>8, <2>2, <2>5, <2>9 DEF IInv, OneOwner
  <2>13. \A x \in Agc : \A i \in 1..Len(bursts') : catcher'[x].buf # bursts'[i].buf
    <3> SUFFICES ASSUME NEW x \in Agc, NEW i \in 1..Len(bursts')
                 PROVE  catcher'[x].buf # bursts'[i].buf
      OBVIOUS
    <3>1. bursts'[i].buf # NoBuffer
      BY <1>8, <2>1, <2>10 DEF BurstsWhole, Whole
    <3>2. x # a => catcher'[x].buf # bursts'[i].buf
      BY <1>6, <1>8, <2>2, <2>5, <2>9 DEF IInv, OneOwner
    <3> QED
      BY <3>1, <3>2, <1>6
  <2>14. burst' # NoBurst => /\ \A x \in Agc : catcher'[x].buf # burst'.buf
                             /\ \A i \in 1..Len(bursts') : bursts'[i].buf # burst'.buf
    BY <1>6, <1>8, <2>1, <2>2, <2>5, <2>9 DEF IInv, OneOwner, BurstsWhole, Whole
  <2>15. \A x, y \in Agc :
            catcher'[x].buf # NoBuffer /\ catcher'[x].buf = catcher'[y].buf => x = y
    BY <1>6 DEF IInv, OneOwner
  <2>16. OneOwner'
    BY <2>11, <2>12, <2>13, <2>14, <2>15 DEF OneOwner
  <2> QED
    BY <2>6, <2>7, <2>10, <2>16 DEF IInv
<1> QED
  BY <1>1, <1>9, <1>10, <1>11

LEMMA TakeKeeps ==
  ASSUME IInv, TakeBurst
  PROVE  IInv'
<1>1. /\ burst = NoBurst /\ bursts # <<>> /\ burst' = Head(bursts) /\ bursts' = Tail(bursts)
      /\ heap' = heap /\ leaked' = leaked /\ catcher' = catcher
  BY DEF TakeBurst
<1>2. /\ Len(bursts) \in Nat \ {0} /\ Len(bursts') = Len(bursts) - 1
      /\ burst' = bursts[1]
      /\ \A i \in 1..Len(bursts') : i + 1 \in 1..Len(bursts) /\ bursts'[i] = bursts[i + 1]
      /\ bursts' \in Seq([buf : Buffers, len : 0..MaxSize, rssi : BOOLEAN])
  BY <1>1 DEF IInv, TypeOK
<1>3. 1 \in 1..Len(bursts) /\ (\A i \in 1..Len(bursts') : i + 1 # 1)
        /\ (\A i \in 2..Len(bursts) : i - 1 \in 1..Len(bursts') /\ (i - 1) + 1 = i)
  BY <1>2
<1>4. Whole(bursts[1]) /\ bursts[1] \in [buf : Buffers, len : 0..MaxSize, rssi : BOOLEAN]
  <2> DEFINE Entries == [buf : Buffers, len : 0..MaxSize, rssi : BOOLEAN]
  <2>0. bursts \in Seq(Entries)
    BY DEF IInv, TypeOK
  <2> HIDE DEF Entries
  <2>1. \A i \in 1..Len(bursts) : bursts[i] \in Entries
    BY <2>0
  <2> USE DEF Entries
  <2> QED
    BY <1>3, <2>1 DEF IInv, BurstsWhole
<1>5. TypeOK'
  BY <1>1, <1>2, <1>4, BurstsAssumption DEF IInv, TypeOK
<1>6. CatchersOK' /\ InsideBuffer'
  BY <1>1 DEF IInv, CatchersOK, InsideBuffer, Catching
<1>7. BurstsWhole'
  BY <1>1, <1>2, <1>4 DEF IInv, BurstsWhole, Whole
<1>8. OneOwner'
  <2>1. ASSUME NEW x \in heap'
        PROVE  x \in leaked' <=> ~Owned(x)'
    <3>1. x # NoBuffer /\ burst.buf # x
      BY <1>1, BurstsAssumption DEF IInv, TypeOK, NoBurst
    <3>2. ASSUME NEW i \in 1..Len(bursts), bursts[i].buf = x
          PROVE  Owned(x)'
      <4>1. CASE i = 1
        BY <4>1, <3>2, <1>2 DEF Owned
      <4>2. CASE i # 1
        <5>1. i \in 2..Len(bursts)
          BY <4>2, <1>2
        <5>2. i - 1 \in 1..Len(bursts') /\ bursts'[i - 1] = bursts[i]
          BY <5>1, <1>2, <1>3
        <5> QED
          BY <3>2, <5>2 DEF Owned
      <4> QED
        BY <4>1, <4>2
    <3>3. ASSUME Owned(x)' PROVE Owned(x)
      <4>1. CASE \E a \in Agc : catcher'[a].buf = x
        BY <4>1, <1>1 DEF Owned
      <4>2. CASE \E i \in 1..Len(bursts') : bursts'[i].buf = x
        <5>1. PICK i \in 1..Len(bursts') : bursts'[i].buf = x
          BY <4>2
        <5>2. i + 1 \in 1..Len(bursts) /\ bursts[i + 1].buf = x
          BY <5>1, <1>2
        <5> QED
          BY <5>2 DEF Owned
      <4>3. CASE burst'.buf = x
        BY <4>3, <1>2, <1>3 DEF Owned
      <4> QED
        BY <3>3, <4>1, <4>2, <4>3 DEF Owned
    <3>4. ASSUME Owned(x) PROVE Owned(x)'
      <4>1. CASE \E a \in Agc : catcher[a].buf = x
        BY <4>1, <1>1 DEF Owned
      <4> QED
        BY <3>1, <3>2, <3>4, <4>1 DEF Owned
    <3> QED
      BY <3>3, <3>4, <1>1 DEF IInv, OneOwner
  <2>2. \A i, j \in 1..Len(bursts') : bursts'[i].buf = bursts'[j].buf => i = j
    <3> SUFFICES ASSUME NEW i \in 1..Len(bursts'), NEW j \in 1..Len(bursts'),
                        bursts'[i].buf = bursts'[j].buf
                 PROVE  i = j
      OBVIOUS
    <3>1. i + 1 = j + 1
      BY <1>2 DEF IInv, OneOwner
    <3> QED
      BY <3>1
  <2>3. \A i \in 1..Len(bursts') : bursts'[i].buf # burst'.buf
    BY <1>2, <1>3 DEF IInv, OneOwner
  <2>4. \A a \in Agc : catcher'[a].buf # burst'.buf
    BY <1>1, <1>2, <1>3 DEF IInv, OneOwner
  <2>5. \A a \in Agc : \A i \in 1..Len(bursts') : catcher'[a].buf # bursts'[i].buf
    BY <1>1, <1>2 DEF IInv, OneOwner
  <2> QED
    BY <1>1, <2>1, <2>2, <2>3, <2>4, <2>5 DEF IInv, OneOwner
<1> QED
  BY <1>5, <1>6, <1>7, <1>8 DEF IInv

LEMMA ProcessedKeeps ==
  ASSUME IInv, BurstProcessed
  PROVE  IInv'
<1>1. /\ burst # NoBurst /\ heap' = heap \ {burst.buf} /\ burst' = NoBurst
      /\ catcher' = catcher /\ bursts' = bursts /\ leaked' = leaked
  BY DEF BurstProcessed
<1>0. burst.buf \in heap /\ burst.buf # NoBuffer /\ burst.buf \notin leaked
  BY <1>1, BurstsAssumption DEF IInv, TypeOK, BurstsWhole, Whole, OneOwner, Owned
<1>2. TypeOK'
  BY <1>0, <1>1, BurstsAssumption DEF IInv, TypeOK, NoBurst
<1>3. CatchersOK' /\ InsideBuffer'
  BY <1>1 DEF IInv, CatchersOK, InsideBuffer, Catching, OneOwner
<1>4. BurstsWhole'
  BY <1>1 DEF IInv, BurstsWhole, Whole, OneOwner, Owned
<1>5. ASSUME NEW x \in heap'
      PROVE  x \in leaked' <=> ~Owned(x)'
  <2>1. x \in heap /\ x # burst.buf /\ x # NoBuffer
    BY <1>1, BurstsAssumption DEF IInv, TypeOK
  <2>2. NoBurst.buf = NoBuffer
    BY DEF NoBurst
  <2> QED
    BY <1>1, <2>1, <2>2 DEF IInv, OneOwner, Owned
<1>6. OneOwner'
  BY <1>1, <1>5 DEF IInv, OneOwner
<1> QED
  BY <1>2, <1>3, <1>4, <1>6 DEF IInv

\* Every reachable state has the inductive invariant: no catcher writes beyond
\* its buffer unless memory was refused, bursts are whole, and every buffer has
\* one owner or was lost by an add that failed (main.c:423-430).
THEOREM Inductive == Spec => []IInv
<1>1. Init => IInv
  <2> SUFFICES ASSUME Init PROVE IInv
    OBVIOUS
  <2>1. Sound(Idle("enabled")) /\ Idle("enabled").buf = NoBuffer
    BY BurstsAssumption DEF Sound, Idle, Catchers
  <2>2. \A a \in Agc : catcher[a] = Idle("enabled")
    BY DEF Init
  <2>3. TypeOK
    BY <2>1, BurstsAssumption DEF Init, TypeOK, Sound, NoBurst
  <2>4. CatchersOK /\ InsideBuffer
    BY <2>1, <2>2 DEF CatchersOK, InsideBuffer, Catching, Sound
  <2>5. BurstsWhole /\ OneOwner
    BY <2>1, <2>2 DEF Init, BurstsWhole, OneOwner
  <2> QED
    BY <2>3, <2>4, <2>5 DEF IInv
<1>2. IInv /\ [Next]_vars => IInv'
  <2> SUFFICES ASSUME IInv, [Next]_vars PROVE IInv'
    OBVIOUS
  <2>1. CASE \E a \in Agc : AgcThread(a)
    BY <2>1, StartsKeeps, GoesOnKeeps, IgnoredKeeps, EndsKeeps DEF AgcThread
  <2>2. CASE TakeBurst
    BY <2>2, TakeKeeps
  <2>3. CASE BurstProcessed
    BY <2>3, ProcessedKeeps
  <2>4. CASE UNCHANGED vars
    BY <2>4 DEF vars, IInv, TypeOK, CatchersOK, InsideBuffer, Catching, BurstsWhole, Whole, OneOwner, Owned
  <2> QED
    BY <2>1, <2>2, <2>3, <2>4 DEF Next
<1> QED
  BY <1>1, <1>2, PTL DEF Spec

\* What reaches the processor has its samples, its length and its RSSI.
THEOREM Wholeness == Spec => []BurstsWhole
<1>1. IInv => BurstsWhole
  BY DEF IInv
<1> QED
  BY <1>1, Inductive, PTL

\* No sample buffer is freed under a user, and none is without one but those
\* of bursts whose add failed (main.c:423-430, 416-417, burst_catcher.c:51-86).
THEOREM Ownership == Spec => []OneOwner
<1>1. IInv => OneOwner
  BY DEF IInv
<1> QED
  BY <1>1, Inductive, PTL
=============================================================================
