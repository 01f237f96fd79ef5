---------------------------- MODULE H2Conn_proofs ----------------------------
(***************************************************************************)
(* The theorems about an HTTP/2 connection: each action of H2Conn keeps    *)
(* the invariant IInv of H2ConnLemmas.                                     *)
(***************************************************************************)
EXTENDS H2ConnLemmas

(***************************************************************************)
(* The end of an event, and onWriteEx2.                                    *)
(***************************************************************************)
\* Only flags and the size of the buffer differ.
FlagsOnly(d, e) ==
  /\ e \in Conn
  /\ e.outWin = d.outWin /\ e.initWin = d.initWin /\ e.last = d.last /\ e.open = d.open
  /\ e.que = d.que /\ e.total = d.total /\ e.str = d.str /\ e.shut = d.shut

\* Such a step keeps the connection good if the buffer is taken care of.
LEMMA FlagsGood ==
  ASSUME NEW d, Good(d), NEW e, FlagsOnly(d, e), Buffered(e)
  PROVE  /\ Good(e)
         /\ \A s \in Stream : (Need(e, s) <=> Need(d, s)) /\ (Queued(e, s) <=> Queued(d, s))
<1>1. Sound(e)
  <2>1. Counted(e)
    <3>1. Done(e) = Done(d) /\ Over(e) = Over(d)
      BY DEF Done, Over, FlagsOnly
    <3> QED BY <3>1 DEF Counted, Good, Sound, FlagsOnly
  <2>2. Sound(d) /\ \A s \in Stream : InMap(e, s) <=> InMap(d, s)
    BY DEF Good, FlagsOnly, InMap
  <2> QED BY <2>1, <2>2 DEF Sound, FlagsOnly, InMap
<1>2. \A s \in Stream : AtRest(e.str[s]) /\ (InMap(e, s) => e.open)
  BY DEF Good, FlagsOnly, InMap
<1>4. \A s \in Stream : (Need(e, s) <=> Need(d, s)) /\ (Queued(e, s) <=> Queued(d, s))
  BY DEF Need, Queued, FlagsOnly
<1> QED BY <1>1, <1>2, <1>4 DEF Good

\* Outside of processQueue the invariant asks for a good connection that is
\* awake.
LEMMA Between ==
  ASSUME Good(c'), Awake(c'), LocalType', pc' \in {"idle", "frames", "pending"},
         pc' = "idle" => ~c'.inEvent, pc' # "idle" => c'.inEvent,
         pc' = "pending" => c'.lpause
  PROVE  IInv'
BY DEF IInv, Served, Eventful, Waking, Looping, InLoop

\* The end of an event keeps the invariant: whoever is to be served stays
\* queued, with the write event asked for if the socket takes output, and
\* suspendWrite is called only when nobody needs it.
LEMMA EventReturnInv ==
  ASSUME NEW d, Good(d), d.inEvent, NEW r \in {"read", "write", "frames"}, NEW want \in BOOLEAN,
         NEW w \in Took, EventReturn(d, r, want, w),
         \A s \in Stream : Need(d, s) => Queued(d, s) /\ (d.outWin > 0 /\ ~d.lpause => d.lwant),
         r = "write" => d.lwant,
         r = "write" /\ ~want => \A s \in Stream : Need(d, s) => d.outWin <= 0 \/ d.lpause
  PROVE  IInv'
<1> DEFINE e == [d EXCEPT !.inEvent = FALSE, !.waitP = FALSE, !.pend = FALSE]
<1>1. /\ c' = IF r = "frames" THEN d
              ELSE IF r = "read" THEN IF e.wflush THEN Flush(e, w) ELSE e
              ELSE IF (~want \/ e.outWin <= 0) /\ e.obuf = 0
                   THEN [e EXCEPT !.lwant = FALSE] ELSE e
      /\ pc' = IF r = "frames" THEN "frames" ELSE "idle"
      /\ ret' = "read" /\ lvl' = 0 /\ cnt' = 0 /\ ww' = FALSE /\ cur' = 1
  BY DEF EventReturn, Away
<1>2. d \in Conn /\ w \in Nat /\ Buffered(d)
  BY H2ConnAssumption DEF Good, Sound, Took
<1>3. /\ e \in Conn /\ FlagsOnly(d, e) /\ e.lwant = d.lwant /\ e.lpause = d.lpause
      /\ e.wflush = d.wflush /\ e.obuf = d.obuf /\ ~e.inEvent
  BY <1>2 DEF Conn, FlagsOnly
<1>4. LocalType'
  <2>1. 0 \in Level /\ 0 \in 0 .. NStreams /\ 1 \in Stream
    BY H2ConnAssumption DEF Level, Html, Stream
  <2>2. pc' \in {"idle", "frames"}
    BY <1>1
  <2> QED BY <1>1, <2>1, <2>2 DEF LocalType
<1>5. CASE r = "frames"
  <2>1. c' = d /\ pc' = "frames"
    BY <1>1, <1>5
  <2>2. Awake(d)
    BY DEF Awake, AwakeAt, Called
  <2> QED BY <1>4, <2>1, <2>2, Between
<1> HIDE DEF e
<1>6. ASSUME NEW f, c' = f, Good(f), FlagsOnly(d, f), ~f.inEvent, pc' = "idle",
             \A s \in Stream : Need(d, s) /\ f.outWin > 0 /\ ~f.lpause => f.lwant
      PROVE  IInv'
  <2>1. Awake(f)
    BY <1>6 DEF Awake, AwakeAt, Called, Need, Queued, FlagsOnly
  <2> QED BY <1>4, <1>6, <2>1, Between
<1>7. CASE r = "read"
  <2>0. pc' = "idle"
    BY <1>1, <1>7
  <2>1. CASE e.wflush
    <3>1. Quiet(e, c') /\ (c'.obuf > 0 => c'.lwant)
      BY <1>1, <1>2, <1>3, <1>7, <2>1, FlushQuiet
    <3>2. FlagsOnly(d, c') /\ ~c'.inEvent /\ Buffered(c')
      BY <1>3, <3>1 DEF FlagsOnly, Quiet, SameStatic, Buffered
    <3>3. Good(c')
      BY <3>2, FlagsGood
    <3>4. \A s \in Stream : Need(d, s) /\ c'.outWin > 0 /\ ~c'.lpause => c'.lwant
      BY <1>3, <3>1, <3>2 DEF Quiet, FlagsOnly
    <3> QED BY <2>0, <3>2, <3>3, <3>4, <1>6
  <2>2. CASE ~e.wflush
    <3>1. c' = e
      BY <1>1, <1>7, <2>2
    <3>2. Buffered(e)
      BY <1>2, <1>3, <2>2 DEF Buffered
    <3>3. Good(e)
      BY <1>3, <3>2, FlagsGood
    <3>4. \A s \in Stream : Need(d, s) /\ e.outWin > 0 /\ ~e.lpause => e.lwant
      BY <1>3 DEF FlagsOnly
    <3> QED BY <1>3, <2>0, <3>1, <3>3, <3>4, <1>6
  <2> QED BY <2>1, <2>2
<1>8. CASE r = "write"
  <2>0. pc' = "idle" /\ d.lwant
    BY <1>1, <1>8
  <2>1. CASE (~want \/ e.outWin <= 0) /\ e.obuf = 0
    <3> DEFINE f == [e EXCEPT !.lwant = FALSE]
    <3>1. c' = f
      BY <1>1, <1>8, <2>1
    <3>2. FlagsOnly(d, f) /\ ~f.inEvent /\ f.obuf = 0 /\ f.lpause = d.lpause
      BY <1>3, <2>1 DEF Conn, FlagsOnly
    <3> HIDE DEF f
    <3>3. Buffered(f)
      BY <3>2 DEF Buffered
    <3>4. Good(f)
      BY <3>2, <3>3, FlagsGood
    <3>5. ASSUME NEW s \in Stream, Need(d, s) PROVE f.outWin <= 0 \/ f.lpause
      BY <1>3, <1>8, <2>1, <3>2, <3>5 DEF FlagsOnly
    <3>5a. f.outWin \in Int
      BY <3>2, H2ConnAssumption DEF FlagsOnly, Conn, Window
    <3>6. \A s \in Stream : Need(d, s) /\ f.outWin > 0 /\ ~f.lpause => f.lwant
      BY <3>5, <3>5a
    <3> QED BY <2>0, <3>1, <3>2, <3>4, <3>6, <1>6
  <2>2. CASE ~((~want \/ e.outWin <= 0) /\ e.obuf = 0)
    <3>1. c' = e
      BY <1>1, <1>8, <2>2
    <3>2. Buffered(e) /\ e.lwant
      BY <1>3, <2>0 DEF Buffered
    <3>3. Good(e)
      BY <1>3, <3>2, FlagsGood
    <3> QED BY <1>3, <2>0, <3>1, <3>2, <3>3, <1>6
  <2> QED BY <2>1, <2>2
<1> QED BY <1>5, <1>7, <1>8

\* onWriteEx2 keeps it: the event ends because the socket takes nothing, or
\* processQueue starts with everybody who is to be served before it.
LEMMA OnWriteEx2Inv ==
  ASSUME NEW d, Good(d), d.inEvent, NEW r \in {"read", "write", "frames"}, NEW w \in Took,
         OnWriteEx2(d, r, w), cur \in Stream,
         \A s \in Stream : Need(d, s) => Queued(d, s),
         r = "write" => d.lwant
  PROVE  IInv'
<1> DEFINE e == IF d.obuf >= FlushAt THEN Flush(d, w) ELSE [d EXCEPT !.wflush = @ \/ d.obuf > 0]
<1>1. d \in Conn /\ w \in Nat
  BY H2ConnAssumption DEF Good, Sound, Took
<1>2. Quiet(d, e) /\ (d.obuf >= FlushAt /\ e.obuf > 0 => e.lpause)
  <2>1. CASE d.obuf >= FlushAt
    <3>1. e = Flush(d, w)
      BY <2>1
    <3>2. Flush(d, w).obuf > 0 => Flush(d, w).lpause
      <4>1. CASE w < d.obuf
        BY <1>1, <4>1 DEF Flush, Conn
      <4>2. CASE ~(w < d.obuf)
        BY <1>1, <4>2 DEF Flush, Conn
      <4> QED BY <4>1, <4>2
    <3> QED BY <1>1, <3>1, <3>2, FlushQuiet
  <2>2. CASE ~(d.obuf >= FlushAt)
    <3>1. e = [d EXCEPT !.wflush = @ \/ d.obuf > 0]
      BY <2>2
    <3> QED BY <1>1, <2>2, <3>1 DEF Quiet, SameStatic, Buffered, Conn
  <2> QED BY <2>1, <2>2
<1>3. IF d.obuf >= FlushAt /\ e.obuf > 0 THEN EventReturn(e, r, TRUE, w)
      ELSE IF e.lpause
      THEN EventReturn(IF e.outWin > 0 THEN ContinueWrite(e) ELSE e, r, TRUE, w)
      ELSE /\ c' = e /\ pc' = "queue" /\ ret' = r
           /\ lvl' = 0 /\ cnt' = QueueCount(e, 0) /\ ww' = FALSE /\ UNCHANGED cur
  BY DEF OnWriteEx2
<1> HIDE DEF e
<1>4. /\ Good(e) /\ e \in Conn /\ e.inEvent /\ (r = "write" => e.lwant) /\ e.outWin = d.outWin
      /\ \A s \in Stream : Need(e, s) => Queued(e, s)
  BY <1>2, QuietGood DEF Quiet, SameStatic
<1>5. ASSUME NEW f, Quiet(e, f), f.lpause, NEW want, want = TRUE, EventReturn(f, r, want, w)
      PROVE  IInv'
  <2>1. /\ Good(f) /\ f.inEvent /\ (r = "write" => f.lwant) /\ f.outWin = d.outWin
        /\ \A s \in Stream : Need(f, s) => Queued(f, s)
    BY <1>4, <1>5, QuietGood DEF Quiet, SameStatic
  <2>2. \A s \in Stream : Need(f, s) => Queued(f, s) /\ (f.outWin > 0 /\ ~f.lpause => f.lwant)
    BY <1>5, <2>1
  <2>3. want \in BOOLEAN /\ ~(r = "write" /\ ~want)
    BY <1>5
  <2> QED BY <1>5, <2>1, <2>2, <2>3, EventReturnInv
<1>5a. Quiet(e, e)
  BY <1>4 DEF Quiet, SameStatic
<1>6. CASE d.obuf >= FlushAt /\ e.obuf > 0
  <2>1. EventReturn(e, r, TRUE, w) /\ e.lpause
    BY <1>2, <1>3, <1>6
  <2> QED BY <1>5, <1>5a, <2>1
<1>7. CASE ~(d.obuf >= FlushAt /\ e.obuf > 0) /\ e.lpause
  <2> DEFINE f == IF e.outWin > 0 THEN ContinueWrite(e) ELSE e
  <2>1. EventReturn(f, r, TRUE, w)
    BY <1>3, <1>7
  <2>2. Quiet(e, f)
    BY <1>4, <1>5a, ContinueWriteQuiet
  <2>3. f.lpause
    BY <1>7, <2>2 DEF Quiet
  <2> HIDE DEF f
  <2> QED BY <1>5, <2>1, <2>2, <2>3
<1>8. CASE ~(d.obuf >= FlushAt /\ e.obuf > 0) /\ ~e.lpause
  <2>1. /\ c' = e /\ pc' = "queue" /\ ret' = r
        /\ lvl' = 0 /\ cnt' = QueueCount(e, 0) /\ ww' = FALSE /\ cur' = cur
    BY <1>3, <1>8
  <2>2. 0 \in Level /\ \A p \in Level : p >= 0 /\ p \in Int
    BY DEF Level, Html
  <2>3. QueueCount(e, 0) = Len(e.que[0]) /\ Len(e.que[0]) \in 0 .. NStreams
    BY <1>4, <2>2, QueueLen DEF Good
  <2>4. LocalType'
    BY <2>1, <2>2, <2>3 DEF LocalType
  <2>5. Found(e, 0, QueueCount(e, 0), 0)
    BY <2>2, <2>3 DEF Found
  <2>6. Looping'
    BY <1>4, <2>1, <2>5 DEF Looping, InLoop, InHand
  <2>7. Served' /\ Eventful' /\ Waking'
    BY <1>4, <2>1 DEF Served, Eventful, Waking, InLoop
  <2> QED BY <1>4, <2>1, <2>4, <2>6, <2>7 DEF IInv
<1> QED BY <1>6, <1>7, <1>8

(***************************************************************************)
(* Frames of the client.                                                   *)
(***************************************************************************)
\* doGoAway leaves a good connection without streams.
LEMMA DoGoAwayGood ==
  ASSUME NEW d, Good(d), NEW w \in Took, NEW e, e = DoGoAway(d, w)
  PROVE  Good(e) /\ Awake(e) /\ e.inEvent = d.inEvent /\ e.outWin = d.outWin
<1> DEFINE r == ReleaseStreams(d, Mapped(d))
           g == GuaranteeOutput(r)
           f == Flush(g, w)
<1>0. w \in Nat /\ Mapped(d) \in SUBSET Mapped(d)
  BY H2ConnAssumption DEF Took
<1>1. r \in Released(d, Mapped(d))
  BY <1>0, ReleaseRel
<1>2. e = [f EXCEPT !.open = FALSE]
  BY DEF DoGoAway
<1> HIDE DEF r
<1>3. /\ Good(r) /\ r \in Conn /\ SameStatic(d, r)
      /\ \A x \in Stream : ~InMap(r, x)
  <2>1. \A x \in Stream \ Mapped(d) : r.str[x] = d.str[x] /\ ~InMap(d, x)
    BY <1>1 DEF Released, Mapped
  <2> QED BY <1>1, <2>1 DEF Released, InMap
<1>4. Quiet(r, g)
  BY <1>3, GuaranteeOutputQuiet
<1> HIDE DEF g
<1>5. Quiet(g, f)
  BY <1>0, <1>4, FlushQuiet DEF Quiet
<1> HIDE DEF f
<1>6. Quiet(r, f)
  BY <1>4, <1>5, QuietTrans
<1>7. Good(f)
  BY <1>3, <1>6, QuietGood
<1>8. f \in Conn /\ \A x \in Stream : ~InMap(f, x)
  BY <1>3, <1>6 DEF Quiet, InMap
<1>9. /\ e \in Conn
      /\ e.outWin = f.outWin /\ e.initWin = f.initWin /\ e.last = f.last
      /\ e.que = f.que /\ e.total = f.total /\ e.str = f.str /\ e.shut = f.shut
      /\ e.obuf = f.obuf /\ e.lwant = f.lwant /\ e.inEvent = f.inEvent /\ e.wflush = f.wflush
  BY <1>2, <1>8 DEF Conn
<1>10. Sound(e)
  <2>1. Counted(e)
    <3>1. Done(e) = Done(f) /\ Over(e) = Over(f)
      BY <1>9 DEF Done, Over
    <3> QED BY <1>7, <1>9, <3>1 DEF Counted, Good, Sound
  <2> QED BY <1>7, <1>9, <2>1 DEF Sound, InMap, Good
<1>11. \A x \in Stream : ~InMap(e, x)
  BY <1>8, <1>9 DEF InMap
<1>12. Buffered(e) /\ \A s \in Stream : AtRest(e.str[s])
  BY <1>7, <1>9 DEF Good, Buffered
<1>13. Good(e)
  BY <1>10, <1>11, <1>12 DEF Good
<1>14. Awake(e)
  BY <1>11 DEF Awake, AwakeAt, Need, InMap
<1>15. e.inEvent = d.inEvent /\ e.outWin = d.outWin
  BY <1>3, <1>6, <1>9 DEF Quiet, SameStatic
<1> QED BY <1>13, <1>14, <1>15

\* A step that leaves the loop variables alone, between two frames or events.
LEMMA SameLoop ==
  ASSUME IInv, pc \in {"idle", "frames"}, UNCHANGED pc, Loc, Good(c'), Awake(c'),
         c'.inEvent = c.inEvent
  PROVE  IInv'
<1>1. LocalType'
  BY DEF IInv, LocalType, Loc
<1>2. (pc' = "idle" => ~c'.inEvent) /\ (pc' # "idle" => c'.inEvent)
  BY DEF IInv, Eventful
<1> QED BY <1>1, <1>2, Between

\* What holds between two frames or events.
LEMMA Resting ==
  ASSUME IInv, pc \in {"idle", "frames"}
  PROVE  /\ Good(c) /\ Sound(c) /\ c \in Conn /\ Awake(c) /\ Buffered(c) /\ cur \in Stream
         /\ c.inEvent = (pc = "frames")
<1>1. Good(c) /\ Awake(c) /\ cur \in Stream /\ (pc = "idle" => ~c.inEvent) /\ (pc = "frames" => c.inEvent)
  BY DEF IInv, Waking, InLoop, LocalType, Eventful
<1>2. Sound(c) /\ c \in Conn /\ Buffered(c) /\ c.inEvent \in BOOLEAN
  BY <1>1 DEF Good, Sound, Conn
<1> QED BY <1>1, <1>2

\* A step that touches one stream.
LEMMA OneStream ==
  ASSUME IInv, pc \in {"idle", "frames"}, UNCHANGED pc, Loc, NEW s \in Stream, Weak(c, c', s),
         AtRest(c'.str[s]), InMap(c', s) => InMap(c, s),
         Need(c', s) => AwakeAt(c', s)
  PROVE  IInv'
<1>1. Good(c) /\ Awake(c)
  BY Resting
<1>2. Good(c')
  BY <1>1, GoodStep
<1>3. Awake(c')
  BY <1>1, AwakeStep DEF Awake, AwakeAt
<1> QED BY <1>2, <1>3, SameLoop DEF Weak, SameStatic

\* The need of a stream that had it before is known.
LEMMA StillAwake ==
  ASSUME NEW d, NEW s \in Stream, AwakeAt(d, s), NEW e, Weak(d, e, s),
         Need(e, s) => Need(d, s) /\ (Queued(d, s) => Queued(e, s))
  PROVE  AwakeAt(e, s)
BY DEF AwakeAt, Weak, SameStatic, Called

\* A read event starts.
LEMMA ReadStartInv == ASSUME IInv, ReadStart PROVE IInv'
<1>1. /\ pc = "idle" /\ c' = [c EXCEPT !.inEvent = TRUE] /\ pc' = "frames" /\ Loc
  BY DEF ReadStart, Idle
<1>2. Good(c) /\ c \in Conn /\ Awake(c) /\ ~c.inEvent /\ Buffered(c)
  BY <1>1, Resting
<1>3. FlagsOnly(c, c') /\ c'.inEvent /\ c'.lwant = c.lwant /\ c'.obuf = c.obuf /\ c'.lpause = c.lpause
  BY <1>1, <1>2 DEF Conn, FlagsOnly
<1>4. Buffered(c')
  BY <1>2, <1>3 DEF Buffered
<1>5. Good(c') /\ \A s \in Stream : (Need(c', s) <=> Need(c, s)) /\ (Queued(c', s) <=> Queued(c, s))
  BY <1>2, <1>3, <1>4, FlagsGood
<1>6. Awake(c')
  BY <1>2, <1>3, <1>5 DEF Awake, AwakeAt, Called, FlagsOnly
<1>7. LocalType'
  BY <1>1 DEF IInv, LocalType, Loc
<1> QED BY <1>1, <1>3, <1>5, <1>6, <1>7, Between

\* The client has ended its half of the stream.
LEMMA PeerSet ==
  ASSUME NEW d, Sound(d), NEW s \in Stream, InMap(d, s)
  PROVE  LET e == [d EXCEPT !.str[s].peer = TRUE]
         IN  /\ Rel(d, e, s) /\ e.str[s].state = d.str[s].state /\ e.str[s].win = d.str[s].win
             /\ e.str[s].rel = d.str[s].rel /\ e.str[s].init = d.str[s].init
             /\ e.str[s].want = d.str[s].want /\ (Queued(e, s) <=> Queued(d, s))
<1> DEFINE x == [d.str[s] EXCEPT !.peer = TRUE]
           e == [d EXCEPT !.str[s].peer = TRUE]
<1>1. d \in Conn /\ s <= d.last /\ d.str[s] \in StreamRec
  BY DEF Sound, Conn
<1>2. e = SetStr(d, s, x, d.shut)
  BY <1>1 DEF SetStr, Conn
<1>3. /\ x \in StreamRec /\ Alike(d.str[s], x)
      /\ x.state = d.str[s].state /\ x.win = d.str[s].win /\ x.rel = d.str[s].rel
      /\ x.init = d.str[s].init /\ x.want = d.str[s].want
  BY <1>1 DEF StreamRec, Alike
<1> HIDE DEF x, e
<1>4. Rel(d, e, s) /\ e.str[s] = x /\ (Queued(e, s) <=> Queued(d, s))
  BY <1>1, <1>2, <1>3, SetAlike
<1>5. /\ Rel(d, e, s) /\ e.str[s].state = d.str[s].state /\ e.str[s].win = d.str[s].win
      /\ e.str[s].rel = d.str[s].rel /\ e.str[s].init = d.str[s].init
      /\ e.str[s].want = d.str[s].want /\ (Queued(e, s) <=> Queued(d, s))
  BY <1>3, <1>4
<1> QED BY <1>5, Zenon DEF e

\* A stream is reset between two frames.
LEMMA ResetInv ==
  ASSUME IInv, pc = "frames", UNCHANGED pc, Loc, NEW s \in Stream, c' = ResetStream(c, s)
  PROVE  IInv'
<1>1. Good(c) /\ Sound(c)
  BY Resting
<1>2. /\ Rel(c, c', s)
      /\ InMap(c, s) => c'.str[s] = NewStream /\ ~Queued(c', s)
      /\ ~InMap(c, s) => Quiet(c, c')
  BY <1>1, ResetStreamRel
<1>3. ~InMap(c', s) /\ AtRest(c'.str[s]) /\ ~Need(c', s)
  BY <1>1, <1>2 DEF NewStream, InMap, AtRest, Need, Quiet, Good
<1> QED BY <1>2, <1>3, OneStream DEF Rel

\* DATA with END_STREAM.
LEMMA EndStreamFrameInv == ASSUME IInv, NEW s \in Stream, EndStreamFrame(s) PROVE IInv'
<1>1. /\ pc = "frames" /\ UNCHANGED pc /\ Loc
      /\ c' = IF InMap(c, s) /\ ~c.str[s].peer THEN [c EXCEPT !.str[s].peer = TRUE]
              ELSE ResetStream(c, s)
  BY DEF EndStreamFrame, Reading
<1>2. Good(c) /\ Sound(c) /\ Awake(c)
  BY <1>1, Resting
<1>3. CASE InMap(c, s) /\ ~c.str[s].peer
  <2> DEFINE e == [c EXCEPT !.str[s].peer = TRUE]
  <2>1. /\ Rel(c, e, s) /\ e.str[s].state = c.str[s].state /\ e.str[s].win = c.str[s].win
        /\ e.str[s].rel = c.str[s].rel /\ e.str[s].init = c.str[s].init
        /\ e.str[s].want = c.str[s].want /\ (Queued(e, s) <=> Queued(c, s))
    BY <1>2, <1>3, PeerSet, Zenon
  <2>2. c' = e
    BY <1>1, <1>3
  <2> HIDE DEF e
  <2>3. Weak(c, e, s)
    BY <2>1 DEF Rel
  <2>4. AtRest(e.str[s])
    BY <1>2, <2>1 DEF Good, AtRest
  <2>5. AwakeAt(e, s)
    BY <1>2, <2>1, <2>3, StillAwake DEF Need, Awake
  <2> QED BY <1>1, <1>3, <2>1, <2>2, <2>3, <2>4, <2>5, OneStream
<1>4. CASE ~(InMap(c, s) /\ ~c.str[s].peer)
  <2>1. c' = ResetStream(c, s)
    BY <1>1, <1>4
  <2> QED BY <1>1, <2>1, ResetInv
<1> QED BY <1>3, <1>4

\* RST_STREAM.
LEMMA RstFrameInv == ASSUME IInv, NEW s \in Stream, RstFrame(s) PROVE IInv'
<1> DEFINE b == [c EXCEPT !.str[s].peer = TRUE]
           d == CloseSession(b, s)
<1>1. /\ pc = "frames" /\ UNCHANGED pc /\ Loc /\ InMap(c, s)
      /\ c' = IF d.str[s].state = "DISCONNECTED" THEN d ELSE RecycleStream(d, s)
  BY DEF RstFrame, Reading
<1>2. Good(c) /\ Sound(c) /\ Awake(c) /\ c \in Conn
  BY <1>1, Resting
<1>3. /\ Rel(c, b, s) /\ b.str[s].state = c.str[s].state /\ b.str[s].win = c.str[s].win
      /\ b.str[s].rel = c.str[s].rel /\ b.str[s].init = c.str[s].init
      /\ b.str[s].want = c.str[s].want /\ (Queued(b, s) <=> Queued(c, s))
  BY <1>1, <1>2, PeerSet, Zenon
<1> HIDE DEF b
<1>4. Sound(b) /\ InMap(b, s) /\ (b.str[s].state = "DISCONNECTED" => b.str[s].rel)
  BY <1>1, <1>2, <1>3, RelFacts DEF InMap, Good, AtRest
<1>5. /\ Rel(b, d, s) /\ InMap(d, s)
      /\ b.str[s].init \/ b.str[s].rel => d = b
      /\ ~(b.str[s].init \/ b.str[s].rel)
           => d.str[s].state \in {"SHUTDOWN", "RESET", "DISCONNECTED"} /\ d.str[s].rel
      /\ d.str[s].win = b.str[s].win
  BY <1>4, CloseSessionRel
<1> HIDE DEF d
<1>6. Rel(c, d, s)
  BY <1>2, <1>3, <1>5, RelTrans
<1>7. CASE d.str[s].state = "DISCONNECTED"
  <2>1. c' = d
    BY <1>1, <1>7
  <2>2. AtRest(d.str[s])
    BY <1>4, <1>5, <1>7 DEF AtRest
  <2>3. ~Need(d, s)
    BY <1>7 DEF Need
  <2> QED BY <1>1, <1>3, <1>5, <1>6, <2>1, <2>2, <2>3, OneStream DEF Rel
<1>8. CASE d.str[s].state # "DISCONNECTED"
  <2>1. c' = RecycleStream(d, s)
    BY <1>1, <1>8
  <2>2. Rel(d, c', s) /\ c'.str[s] = NewStream
    BY <1>5, <1>6, <2>1, RelFacts, RecycleStreamRel
  <2>3. Rel(c, c', s)
    BY <1>2, <1>6, <2>2, RelTrans
  <2>4. ~InMap(c', s) /\ AtRest(c'.str[s]) /\ ~Need(c', s)
    BY <2>2 DEF NewStream, InMap, AtRest, Need
  <2> QED BY <1>1, <2>3, <2>4, OneStream DEF Rel
<1> QED BY <1>7, <1>8

\* PRIORITY.
LEMMA PriorityFrameInv ==
  ASSUME IInv, NEW s \in Stream, NEW p \in Level, PriorityFrame(s, p) PROVE IInv'
<1>1. /\ pc = "frames" /\ UNCHANGED pc /\ Loc /\ InMap(c, s) /\ c' = ApplyPriority(c, s, p)
  BY DEF PriorityFrame, Reading
<1>2. Good(c) /\ Sound(c) /\ Awake(c) /\ c.str[s] \in StreamRec
  BY <1>1, Resting DEF Conn
<1>3. /\ Rel(c, c', s) /\ (Queued(c, s) => Queued(c', s))
      /\ c'.str[s] = [c.str[s] EXCEPT !.pri = p]
  BY <1>1, <1>2, ApplyPriorityRel
<1>4. /\ c'.str[s].state = c.str[s].state /\ c'.str[s].win = c.str[s].win
      /\ c'.str[s].rel = c.str[s].rel /\ c'.str[s].init = c.str[s].init
      /\ c'.str[s].want = c.str[s].want
  BY <1>2, <1>3 DEF StreamRec
<1>5. AtRest(c'.str[s])
  BY <1>2, <1>4 DEF Good, AtRest
<1>6. Weak(c, c', s)
  BY <1>3 DEF Rel
<1>7. AwakeAt(c', s)
  BY <1>2, <1>3, <1>4, <1>6, StillAwake DEF Need, Awake
<1> QED BY <1>1, <1>4, <1>5, <1>6, <1>7, OneStream

\* The next stream the client may open.
IsNext(d, s) == s = d.last + 1

\* The next stream is neither in the map nor in a queue.
LEMMA LastStep ==
  ASSUME NEW d, Sound(d), NEW s \in Stream, IsNext(d, s)
  PROVE  /\ d \in Conn /\ d.last \in Int /\ s \in 0 .. NStreams
         /\ ~InMap(d, s) /\ d.str[s].state = "none" /\ ~Queued(d, s)
         /\ \A t \in Stream : InMap(d, t) => t <= s /\ t # s
<1>1. d \in Conn /\ d.last \in Int /\ s \in 0 .. NStreams /\ \A t \in Stream : t \in Int
  BY H2ConnAssumption DEF Sound, Conn, Stream
<1>2. \A t \in Stream : InMap(d, t) => t <= s /\ t # s
  BY <1>1 DEF Sound, IsNext
<1>3. ~InMap(d, s)
  BY <1>2
<1>4. ~Queued(d, s)
  BY <1>1, <1>3, QueuedIn DEF Sound
<1> QED BY <1>1, <1>2, <1>3, <1>4 DEF InMap

\* The stream count without the new stream.
LEMMA LastCounted ==
  ASSUME NEW d, Sound(d), NEW s \in Stream, IsNext(d, s), NEW e \in Conn,
         e.last = s, e.shut = d.shut, \A t \in Stream \ {s} : e.str[t] = d.str[t],
         e.str[s].state \in {"none", "CONNECTED"}
  PROVE  Counted(e)
<1>1. d \in Conn /\ d.last \in Int /\ d.str[s].state = "none"
  BY LastStep
<1>2. Done(e) = Done(d)
  BY <1>1 DEF Done
<1>3. Over(d) \subseteq Over(e)
  <2> SUFFICES ASSUME NEW t \in Over(d) PROVE t \in Over(e)
    OBVIOUS
  <2>1. t \in Stream /\ t \in Int /\ t <= d.last
    BY H2ConnAssumption DEF Over, Stream
  <2>2. t # s /\ t <= s
    BY <1>1, <2>1 DEF IsNext
  <2> QED BY <2>1, <2>2 DEF Over
<1>4. IsFiniteSet(Over(e))
  BY StreamFinite, FS_Subset DEF Over
<1>5. /\ Cardinality(Over(d)) \in Nat /\ Cardinality(Over(e)) \in Nat
      /\ Cardinality(Over(d)) <= Cardinality(Over(e))
  BY <1>3, <1>4, FS_Subset, FS_CardinalityType
<1>6. d.shut \in Int
  BY <1>1 DEF Conn
<1> QED BY <1>2, <1>5, <1>6 DEF Sound, Counted

\* The connection with a new stream ...
OpenRec(d, s, x) == [d EXCEPT !.last = s, !.str[s] = x]

\* ... and with everything else as it was.
LEMMA OpenedShape ==
  ASSUME NEW d \in Conn, NEW s \in Stream, s \in 0 .. NStreams, NEW x \in StreamRec,
         NEW o, o = OpenRec(d, s, x)
  PROVE  /\ o \in Conn /\ o.last = s /\ o.str[s] = x
         /\ \A t \in Stream \ {s} : o.str[t] = d.str[t]
         /\ o.outWin = d.outWin /\ o.initWin = d.initWin /\ o.open = d.open /\ o.shut = d.shut
         /\ o.que = d.que /\ o.total = d.total
         /\ o.obuf = d.obuf /\ o.lwant = d.lwant /\ o.lpause = d.lpause /\ o.inEvent = d.inEvent
         /\ o.waitP = d.waitP /\ o.wflush = d.wflush /\ o.pend = d.pend
<1>2. o \in Conn
  BY DEF Conn, OpenRec
<1>3. o.last = s /\ o.str[s] = x
  BY DEF Conn, OpenRec
<1>4. \A t \in Stream \ {s} : o.str[t] = d.str[t]
  BY DEF Conn, OpenRec
<1>5. /\ o.outWin = d.outWin /\ o.initWin = d.initWin /\ o.open = d.open /\ o.shut = d.shut
      /\ o.que = d.que /\ o.total = d.total
      /\ o.obuf = d.obuf /\ o.lwant = d.lwant /\ o.lpause = d.lpause /\ o.inEvent = d.inEvent
      /\ o.waitP = d.waitP /\ o.wflush = d.wflush /\ o.pend = d.pend
  BY DEF Conn, OpenRec
<1> QED BY <1>2, <1>3, <1>4, <1>5

\* A new stream has its window from the settings in force.
LEMMA OpenedGood ==
  ASSUME NEW d, Good(d), Awake(d), d.open, NEW s \in Stream, IsNext(d, s), NEW fin \in BOOLEAN,
         NEW o, o = Opened(d, s, fin)
  PROVE  /\ Good(o) /\ (\A t \in Stream \ {s} : AwakeAt(o, t))
         /\ o.str[s].state = "CONNECTED" /\ o.str[s].init /\ ~o.str[s].want
         /\ o.inEvent = d.inEvent /\ o.outWin = d.outWin
<1> DEFINE x == [NewStream EXCEPT !.state = "CONNECTED", !.init = TRUE,
                             !.win = d.initWin, !.peer = fin, !.pri = Html]
<1>1. /\ d \in Conn /\ d.last \in Int /\ s \in 0 .. NStreams
      /\ d.str[s].state = "none" /\ ~Queued(d, s)
      /\ \A t \in Stream : InMap(d, t) => t <= s /\ t # s
  BY LastStep DEF Good
<1>2. d.initWin \in Window /\ Html \in Level /\ d.initWin \in Int
  BY <1>1, H2ConnAssumption DEF Conn, Window, Level, Html
<1>3. /\ x \in StreamRec /\ x.state = "CONNECTED" /\ x.init /\ ~x.want /\ x.win = d.initWin
      /\ x.avail = 0 /\ x.left = 0
  BY <1>2, NewStreamType DEF StreamRec, NewStream
<1>4. o = OpenRec(d, s, x)
  BY DEF Opened, OpenRec
<1> HIDE DEF x
<1>5. /\ o \in Conn /\ o.last = s /\ o.str[s] = x
      /\ \A t \in Stream \ {s} : o.str[t] = d.str[t]
      /\ o.outWin = d.outWin /\ o.initWin = d.initWin /\ o.open /\ o.shut = d.shut
      /\ o.que = d.que /\ o.total = d.total
      /\ o.obuf = d.obuf /\ o.lwant = d.lwant /\ o.lpause = d.lpause /\ o.inEvent = d.inEvent
      /\ o.waitP = d.waitP /\ o.wflush = d.wflush /\ o.pend = d.pend
  <2>1. d \in Conn /\ s \in 0 .. NStreams /\ x \in StreamRec
    BY <1>1, <1>3
  <2>2. /\ o \in Conn /\ o.last = s /\ o.str[s] = x
    BY <2>1, <1>4, OpenedShape
  <2>3. \A t \in Stream \ {s} : o.str[t] = d.str[t]
    BY <2>1, <1>4, OpenedShape
  <2>4. /\ o.outWin = d.outWin /\ o.initWin = d.initWin /\ o.shut = d.shut
    BY <2>1, <1>4, OpenedShape
  <2>4a. o.open
    BY <2>1, <1>4, OpenedShape
  <2>5. /\ o.que = d.que /\ o.total = d.total
    BY <2>1, <1>4, OpenedShape
  <2>6. /\ o.obuf = d.obuf /\ o.lwant = d.lwant /\ o.lpause = d.lpause /\ o.inEvent = d.inEvent
        /\ o.waitP = d.waitP /\ o.wflush = d.wflush /\ o.pend = d.pend
    BY <2>1, <1>4, OpenedShape
  <2> QED BY <2>2, <2>3, <2>4, <2>4a, <2>5, <2>6
<1>6. Counted(o)
  BY <1>1, <1>3, <1>5, LastCounted DEF Good
<1>7. Sound(o)
  <2>1. ASSUME NEW p \in Level, NEW i \in 1 .. Len(o.que[p])
        PROVE InMap(o, o.que[p][i]) /\ o.str[o.que[p][i]].pri = p
    <3>1. d.que[p][i] \in Stream /\ InMap(d, d.que[p][i]) /\ d.str[d.que[p][i]].pri = p
      BY <1>1, <1>5 DEF Good, Sound, Conn
    <3>2. d.que[p][i] # s /\ o.que[p][i] = d.que[p][i]
      BY <1>1, <1>5, <3>1
    <3>3. o.str[d.que[p][i]] = d.str[d.que[p][i]]
      BY <1>5, <3>1, <3>2
    <3> QED BY <3>1, <3>2, <3>3 DEF InMap
  <2>2. \A t \in Stream : InMap(o, t) => t <= o.last
    <3> TAKE t \in Stream
    <3>1. CASE t = s
      BY <1>1, <1>5, <3>1
    <3>2. CASE t # s
      <4>1. o.str[t] = d.str[t] /\ o.last = s
        BY <1>5, <3>2
      <4>2. InMap(d, t) => t <= s
        BY <1>1
      <4> QED BY <4>1, <4>2 DEF InMap
    <3> QED BY <3>1, <3>2
  <2>3. \A t \in Stream : Filled(o.str[t])
    <3> TAKE t \in Stream
    <3>1. CASE t = s
      BY <1>3, <1>5, <3>1, H2ConnAssumption DEF Filled
    <3>2. CASE t # s
      BY <1>5, <3>2 DEF Good, Sound
    <3> QED BY <3>1, <3>2
  <2> QED BY <1>5, <1>6, <2>1, <2>2, <2>3 DEF Good, Sound
<1>8. \A t \in Stream : AtRest(o.str[t])
  BY <1>3, <1>5 DEF Good, AtRest
<1>10. Buffered(o)
  BY <1>5 DEF Good, Buffered
<1>11. Good(o)
  BY <1>5, <1>7, <1>8, <1>10 DEF Good
<1>12. \A t \in Stream \ {s} : AwakeAt(o, t)
  BY <1>5 DEF Awake, AwakeAt, Need, Queued, Called
<1> QED BY <1>3, <1>5, <1>11, <1>12

\* With the process gone, only the connection it leaves behind counts.
LEMMA Gone ==
  ASSUME Good(c'), Awake(c'), LocalType', pc' = "aborted"
  PROVE  IInv'
BY DEF IInv, Served, Eventful, Waking, Looping, InLoop

\* The new stream of a HEADERS frame.
LEMMA NextOpened ==
  ASSUME IInv, pc = "frames", c.open, NEW s \in Stream, s = c.last + 1, NEW fin \in BOOLEAN,
         NEW o, o = Opened(c, s, fin)
  PROVE  /\ Good(o) /\ (\A t \in Stream \ {s} : AwakeAt(o, t))
         /\ o.str[s].state = "CONNECTED" /\ o.str[s].init /\ ~o.str[s].want
         /\ o.inEvent = c.inEvent
<1>1. Good(c) /\ Awake(c)
  BY Resting
<1>2. IsNext(c, s)
  BY DEF IsNext
<1>3. Good(o)
  BY <1>1, <1>2, OpenedGood
<1>4. \A t \in Stream \ {s} : AwakeAt(o, t)
  BY <1>1, <1>2, OpenedGood
<1>5. o.str[s].state = "CONNECTED" /\ o.str[s].init /\ ~o.str[s].want
  BY <1>1, <1>2, OpenedGood
<1>6. o.inEvent = c.inEvent
  BY <1>1, <1>2, OpenedGood
<1> QED BY <1>3, <1>4, <1>5, <1>6

\* HEADERS: a stream that is refused, queued for a session, or has one at once.
LEMMA HeadersFrameInv ==
  ASSUME IInv, NEW fin \in BOOLEAN, NEW n \in Len0, NEW how \in How,
         HeadersFrame(fin, n, how)
  PROVE  IInv'
<1> DEFINE s == c.last + 1
           o == Opened(c, s, fin)
<1>1. /\ pc = "frames" /\ c.open /\ Loc /\ s \in Stream
      /\ c' = IF TooMany THEN GuaranteeOutput([c EXCEPT !.last = s])
              ELSE IF fin THEN [Add2PriorityQue(o, s) EXCEPT !.pend = TRUE]
              ELSE IF how = "fail" THEN ResetStream(o, s)
              ELSE Settle(StartSession(o, s, n, how), s)
      /\ pc' = IF ~TooMany /\ ~fin /\ how = "fail" THEN "aborted" ELSE pc
  BY DEF HeadersFrame, Reading
<1>1a. pc = "frames" /\ c.open /\ s \in Stream /\ Loc
  BY <1>1
<1>2. Good(c) /\ Sound(c) /\ Awake(c) /\ c \in Conn
  BY <1>1a, Resting
<1>2i. c.inEvent
  BY <1>1a, Resting
<1>2b. n \in 0 .. MaxLen
  BY H2ConnAssumption DEF Len0
<1>2a. IsNext(c, s)
  BY DEF IsNext
<1>3. /\ Good(o) /\ (\A t \in Stream \ {s} : AwakeAt(o, t))
      /\ o.str[s].state = "CONNECTED" /\ o.str[s].init /\ ~o.str[s].want
      /\ o.inEvent = c.inEvent
  <2>1. PICK r \in Stream : r = s
    BY <1>1a
  <2>2. PICK q : q = Opened(c, r, fin)
    OBVIOUS
  <2>3. r = c.last + 1 /\ q = o
    BY <2>1, <2>2
  <2>4. /\ Good(q) /\ (\A t \in Stream \ {r} : AwakeAt(q, t))
        /\ q.str[r].state = "CONNECTED" /\ q.str[r].init /\ ~q.str[r].want
        /\ q.inEvent = c.inEvent
    <3> HIDE DEF s, o
    <3> QED BY <1>1a, <2>2, <2>3, NextOpened, Zenon
  <2> HIDE DEF s, o
  <2> QED BY <2>1, <2>3, <2>4, Zenon
<1> HIDE DEF s, o
<1>4. Sound(o) /\ InMap(o, s) /\ Buffered(o) /\ o \in Conn
  BY <1>3 DEF Good, InMap, Sound
<1>5. CASE TooMany
  <2> DEFINE d == [c EXCEPT !.last = s]
  <2>1. c' = GuaranteeOutput(d) /\ UNCHANGED pc
    BY <1>1, <1>5
  <2>2. /\ c.last \in Int /\ s \in 0 .. NStreams /\ c.str[s].state = "none"
        /\ \A t \in Stream : InMap(c, t) => t <= s
    BY <1>1a, <1>2, <1>2a, LastStep
  <2>3. d \in Conn
    BY <1>2, <2>2 DEF Conn
  <2>4. /\ d.last = s
        /\ d.outWin = c.outWin /\ d.initWin = c.initWin /\ d.open = c.open /\ d.shut = c.shut
        /\ d.que = c.que /\ d.total = c.total
        /\ d.obuf = c.obuf /\ d.lwant = c.lwant /\ d.lpause = c.lpause /\ d.inEvent = c.inEvent
        /\ d.waitP = c.waitP /\ d.wflush = c.wflush /\ d.str = c.str
    BY <1>2 DEF Conn
  <2> HIDE DEF d
  <2>5. Counted(d)
    BY <1>1a, <1>2, <1>2a, <2>2, <2>3, <2>4, LastCounted
  <2>6. Sound(d)
    BY <1>2, <2>2, <2>3, <2>4, <2>5 DEF Sound, InMap
  <2>7. Good(d)
    BY <1>2, <2>4, <2>6 DEF Good, Buffered, InMap
  <2>8. Awake(d)
    BY <1>2, <2>4 DEF Awake, AwakeAt, Need, Queued, Called
  <2>9. Quiet(d, c')
    BY <2>1, <2>3, GuaranteeOutputQuiet
  <2>10. Good(c') /\ Awake(c')
    BY <2>7, <2>8, <2>9, QuietGood
  <2> QED BY <1>1a, <2>1, <2>4, <2>9, <2>10, SameLoop DEF Quiet, SameStatic
<1>6. CASE ~TooMany /\ fin
  <2> DEFINE e == Add2PriorityQue(o, s)
  <2>1. c' = [e EXCEPT !.pend = TRUE] /\ UNCHANGED pc
    BY <1>1, <1>6
  <2>2. Rel(o, e, s) /\ Queued(e, s) /\ e.str = o.str /\ (o.inEvent => e.waitP)
    BY <1>1a, <1>4, Add2PriorityQueRel
  <2> HIDE DEF e
  <2>3. Weak(o, e, s) /\ e \in Conn
    BY <1>1a, <2>2, RelFacts DEF Rel
  <2>4. Good(e)
    BY <1>1a, <1>3, <2>2, <2>3, GoodStep DEF Good, InMap
  <2>5. e.inEvent /\ e.waitP
    BY <1>2i, <1>3, <2>2, <2>3 DEF Weak, SameStatic
  <2>6. AwakeAt(e, s)
    BY <2>2, <2>5 DEF AwakeAt, Called
  <2>7. Awake(e)
    BY <1>1a, <1>3, <2>3, <2>6, AwakeStep
  <2>8. FlagsOnly(e, c') /\ c'.lwant = e.lwant /\ c'.waitP = e.waitP /\ c'.inEvent = e.inEvent
        /\ c'.lpause = e.lpause /\ c'.obuf = e.obuf /\ c'.wflush = e.wflush
    BY <2>1, <2>3 DEF Conn, FlagsOnly
  <2>9. Buffered(c')
    BY <2>4, <2>8 DEF Good, Buffered
  <2>10. Good(c')
    BY <2>4, <2>8, <2>9, FlagsGood
  <2>11. Awake(c')
    BY <2>7, <2>8 DEF Awake, AwakeAt, Need, Queued, Called, FlagsOnly
  <2>12. c'.inEvent = c.inEvent
    BY <1>2i, <2>5, <2>8
  <2> QED BY <1>1a, <2>1, <2>10, <2>11, <2>12, SameLoop
<1>7. ASSUME Rel(o, c', s), c'.str[s] = NewStream PROVE Good(c') /\ Awake(c')
  <2>1. ~InMap(c', s) /\ AtRest(c'.str[s]) /\ AwakeAt(c', s)
    BY <1>7 DEF NewStream, InMap, AtRest, AwakeAt, Need
  <2>2. Good(c')
    BY <1>1a, <1>3, <1>7, <2>1, GoodStep DEF Rel
  <2> QED BY <1>1a, <1>3, <1>7, <2>1, <2>2, AwakeStep DEF Rel
<1>8. CASE ~TooMany /\ ~fin /\ how = "fail"
  <2>1. c' = ResetStream(o, s) /\ pc' = "aborted"
    BY <1>1, <1>8
  <2>2. Rel(o, c', s) /\ c'.str[s] = NewStream
    BY <1>1a, <1>4, <2>1, ResetStreamRel
  <2>3. LocalType'
    BY <1>1a, <2>1 DEF IInv, LocalType, Loc
  <2> QED BY <1>7, <2>1, <2>2, <2>3, Gone
<1>9. CASE ~TooMany /\ ~fin /\ how # "fail"
  <2> DEFINE e == StartSession(o, s, n, how)
  <2>1. c' = Settle(e, s) /\ UNCHANGED pc
    BY <1>1, <1>9
  <2>2. /\ Rel(o, e, s) /\ InMap(e, s) /\ AtRest(e.str[s])
        /\ e.str[s].state = "CONNECTED" =>
              /\ ~e.str[s].init
              /\ ~o.str[s].want /\ e.str[s].want => Queued(e, s) /\ (Buffered(o) => Called(e))
    BY <1>1a, <1>2b, <1>3, <1>4, StartSessionRel
  <2> HIDE DEF e
  <2>3. Sound(e) /\ Weak(o, e, s)
    BY <1>1a, <2>2, RelFacts DEF Rel
  <2>4. Rel(e, c', s)
    BY <1>1a, <2>1, <2>3, SettleRel
  <2>5. Rel(o, c', s)
    BY <1>1a, <1>4, <2>2, <2>4, RelTrans
  <2>6. Good(c') /\ Awake(c')
    <3>1. CASE e.str[s].state = "CONNECTED"
      <4>1. c' = e
        BY <1>1a, <2>1, <2>3, <3>1, SettleRel
      <4>2. Good(e)
        BY <1>1a, <1>3, <1>4, <2>2, <2>3, GoodStep
      <4>3. AwakeAt(e, s)
        BY <1>3, <1>4, <2>2, <3>1 DEF AwakeAt, Need
      <4> QED BY <1>1a, <1>3, <2>3, <4>1, <4>2, <4>3, AwakeStep
    <3>2. CASE e.str[s].state # "CONNECTED"
      <4>1. c'.str[s] = NewStream
        BY <1>1a, <2>1, <2>2, <2>3, <3>2, SettleRel DEF InMap
      <4> QED BY <1>7, <2>5, <4>1
    <3> QED BY <3>1, <3>2
  <2>7. c'.inEvent = c.inEvent
    BY <1>3, <2>5 DEF Rel, Weak, SameStatic
  <2> QED BY <1>1a, <2>1, <2>6, <2>7, SameLoop
<1> QED BY <1>5, <1>6, <1>8, <1>9

\* A header block that cannot be decoded.
LEMMA UndecodedHeadersInv ==
  ASSUME IInv, NEW fin \in BOOLEAN, NEW w \in Took, UndecodedHeaders(fin, w)
  PROVE  IInv'
<1>1. /\ pc = "frames" /\ c.open /\ UNCHANGED pc /\ Loc /\ c.last + 1 \in Stream
      /\ c' = DoGoAway(DoGoAway(Opened(c, c.last + 1, fin), w), w)
  BY DEF UndecodedHeaders, Reading
<1>2. PICK s \in Stream : s = c.last + 1
  BY <1>1
<1>3. PICK o : o = Opened(c, s, fin)
  OBVIOUS
<1>4. PICK e : e = DoGoAway(o, w)
  OBVIOUS
<1>5. c' = DoGoAway(e, w)
  BY <1>1, <1>2, <1>3, <1>4
<1>6. Good(o) /\ o.inEvent = c.inEvent
  BY <1>1, <1>2, <1>3, NextOpened
<1>7. Good(e) /\ e.inEvent = o.inEvent
  BY <1>4, <1>6, DoGoAwayGood
<1>8. Good(c') /\ Awake(c') /\ c'.inEvent = e.inEvent
  BY <1>5, <1>7, DoGoAwayGood
<1> QED BY <1>1, <1>6, <1>7, <1>8, SameLoop

\* A frame that ends the connection.
LEMMA BadFrameInv == ASSUME IInv, NEW w \in Took, BadFrame(w) PROVE IInv'
<1>1. pc = "frames" /\ UNCHANGED pc /\ Loc /\ c' = DoGoAway(c, w)
  BY DEF BadFrame, Reading
<1>2. Good(c)
  BY <1>1, Resting
<1>3. Good(c') /\ Awake(c') /\ c'.inEvent = c.inEvent
  BY <1>1, <1>2, DoGoAwayGood
<1> QED BY <1>1, <1>3, SameLoop

\* The connection with new settings ...
NewSettings(g, v) == [g EXCEPT !.nset = @ + 1, !.initWin = v]

\* ... and with everything else as it was.
LEMMA NewSettingsShape ==
  ASSUME NEW g \in Conn, NEW v \in 0 .. MaxWindow, NEW d, d = NewSettings(g, v)
  PROVE  /\ d \in Conn
         /\ d.outWin = g.outWin /\ d.open = g.open /\ d.shut = g.shut /\ d.last = g.last
         /\ d.que = g.que /\ d.total = g.total /\ d.str = g.str
         /\ d.obuf = g.obuf /\ d.lwant = g.lwant /\ d.lpause = g.lpause /\ d.inEvent = g.inEvent
         /\ d.waitP = g.waitP /\ d.wflush = g.wflush
<1>1. g.nset + 1 \in Nat
  BY DEF Conn
<1>2. d \in Conn
  BY <1>1 DEF Conn, NewSettings
<1>3. /\ d.outWin = g.outWin /\ d.open = g.open /\ d.shut = g.shut /\ d.last = g.last
      /\ d.que = g.que /\ d.total = g.total /\ d.str = g.str
      /\ d.obuf = g.obuf /\ d.lwant = g.lwant /\ d.lpause = g.lpause /\ d.inEvent = g.inEvent
      /\ d.waitP = g.waitP /\ d.wflush = g.wflush
  BY DEF Conn, NewSettings
<1> QED BY <1>2, <1>3

\* SETTINGS: all windows move by the difference of the last two values.
LEMMA SettingsFrameInv ==
  ASSUME IInv, NEW u \in InitWindows \cup {c.initWin}, NEW v \in InitWindows \cup {c.initWin},
         SettingsFrame(u, v)
  PROVE  IInv'
<1> DEFINE diff == v - u
           S == IF v # u THEN Mapped(c) ELSE {}
           g == GuaranteeOutput(c)
           d == NewSettings(g, v)
           f == FoldSet(LAMBDA s, e : AdjWindowOut(e, s, diff), d, S)
<1>1. pc = "frames" /\ UNCHANGED pc /\ Loc
  BY DEF SettingsFrame, Reading
<1>2. c' = f
  BY DEF SettingsFrame, NewSettings
<1>3. Good(c) /\ Sound(c) /\ Awake(c) /\ c \in Conn
  BY <1>1, Resting
<1>4. u \in 0 .. MaxWindow /\ v \in 0 .. MaxWindow /\ diff \in Int
  BY <1>3, H2ConnAssumption DEF Conn
<1>5. Quiet(c, g)
  BY <1>3, GuaranteeOutputQuiet
<1>6. g \in Conn
  BY <1>5 DEF Quiet
<1>8. Good(g) /\ Awake(g)
  BY <1>3, <1>5, QuietGood
<1>8a. g.str = c.str /\ g.inEvent = c.inEvent /\ g.open = c.open
  BY <1>5 DEF Quiet, SameStatic
<1>9. d = NewSettings(g, v)
  OBVIOUS
<1>9a. f = FoldSet(LAMBDA s, e : AdjWindowOut(e, s, diff), d, S)
  OBVIOUS
<1>9b. S \subseteq Mapped(c)
  OBVIOUS
<1> HIDE DEF diff, g, d, f, S
<1>10. /\ d \in Conn
       /\ d.outWin = g.outWin /\ d.open = g.open /\ d.shut = g.shut /\ d.last = g.last
       /\ d.que = g.que /\ d.total = g.total /\ d.str = g.str
       /\ d.obuf = g.obuf /\ d.lwant = g.lwant /\ d.lpause = g.lpause /\ d.inEvent = g.inEvent
       /\ d.waitP = g.waitP /\ d.wflush = g.wflush
  BY <1>4, <1>6, <1>9, NewSettingsShape
<1>11. Sound(d) /\ Buffered(d)
  <2>1. Done(d) = Done(g) /\ Over(d) = Over(g)
    BY <1>10 DEF Done, Over
  <2>2. Counted(d)
    BY <1>8, <1>10, <2>1 DEF Counted, Good, Sound
  <2>3. Buffered(d)
    BY <1>8, <1>10 DEF Good, Buffered
  <2> QED BY <1>8, <1>10, <2>2, <2>3 DEF Sound, Good, InMap
<1>12. Awake(d)
  BY <1>8, <1>10 DEF Awake, AwakeAt, Need, Queued, Called
<1>13. S \in SUBSET Mapped(d)
  BY <1>8a, <1>9b, <1>10 DEF Mapped, InMap
<1>15. f \in Adjusted(d, S, diff)
  BY <1>4, <1>9a, <1>11, <1>12, <1>13, AdjustRel
<1>16. /\ Sound(f) /\ Buffered(f) /\ Awake(f) /\ SameStatic(d, f)
       /\ \A x \in Stream \ S : f.str[x] = d.str[x]
       /\ \A x \in S : Moved(d.str[x], f.str[x], diff)
  BY <1>15 DEF Adjusted
<1>17. ASSUME NEW s \in Stream
       PROVE  f.str[s].state = c.str[s].state /\ f.str[s].rel = c.str[s].rel
  <2>1. d.str[s] = c.str[s]
    BY <1>8a, <1>10
  <2>2. CASE s \in S
    BY <1>16, <2>1, <2>2 DEF Moved
  <2>3. CASE s \notin S
    BY <1>16, <2>1, <2>3
  <2> QED BY <2>2, <2>3
<1>18. \A s \in Stream : AtRest(f.str[s])
  BY <1>3, <1>17 DEF Good, AtRest
<1>20. \A s \in Stream : InMap(f, s) => f.open
  <2>1. f.open = c.open
    BY <1>8a, <1>10, <1>16 DEF SameStatic
  <2> QED BY <1>3, <1>17, <2>1 DEF Good, InMap
<1>22. Good(f)
  BY <1>16, <1>18, <1>20 DEF Good
<1>23. f.inEvent = c.inEvent
  BY <1>8a, <1>10, <1>16 DEF SameStatic
<1> QED BY <1>1, <1>2, <1>16, <1>22, <1>23, SameLoop

\* WINDOW_UPDATE of a stream.
LEMMA WindowUpdateStreamInv ==
  ASSUME IInv, NEW s \in Stream, NEW n \in Deltas \cup {0}, WindowUpdateStream(s, n)
  PROVE  IInv'
<1> DEFINE d == AdjWindowOut(c, s, n)
<1>1. pc = "frames" /\ UNCHANGED pc /\ Loc
  BY DEF WindowUpdateStream, Reading
<1>2. c' = IF n = 0 THEN ResetStream(c, s)
           ELSE IF ~InMap(c, s) THEN c
           ELSE IF d.str[s].win < 0 THEN ResetStream(d, s)
           ELSE IF d.str[s].win <= n THEN StreamContinueWrite(d, s) ELSE d
  BY DEF WindowUpdateStream
<1>3. Good(c) /\ Sound(c) /\ Awake(c) /\ Buffered(c)
  BY <1>1, Resting
<1>4. n \in Int
  BY H2ConnAssumption
<1>5. CASE n = 0
  <2>1. c' = ResetStream(c, s)
    BY <1>2, <1>5
  <2> HIDE DEF d
  <2> QED BY <1>1, <2>1, ResetInv
<1>6. CASE n # 0 /\ ~InMap(c, s)
  <2>1. c' = c
    BY <1>2, <1>6
  <2> HIDE DEF d
  <2> QED BY <1>1, <1>3, <2>1, SameLoop
<1>7. CASE n # 0 /\ InMap(c, s)
  <2>1. c' = IF d.str[s].win < 0 THEN ResetStream(d, s)
             ELSE IF d.str[s].win <= n THEN StreamContinueWrite(d, s) ELSE d
    BY <1>2, <1>7
  <2>2. Rel(c, d, s) /\ Alike(c.str[s], d.str[s]) /\ d.str[s].rel = c.str[s].rel
    BY <1>3, <1>4, <1>7, AdjWindowOutRel
  <2>3. Awake(d)
    BY <1>3, <1>4, <1>7, AdjustAwake
  <2> HIDE DEF d
  <2>4. Sound(d) /\ d \in Conn /\ Weak(c, d, s) /\ Buffered(d) /\ d.inEvent = c.inEvent
    BY <1>3, <2>2, RelFacts DEF Rel, Weak, SameStatic
  <2>5. InMap(d, s) /\ AtRest(d.str[s])
    BY <1>3, <1>7, <2>2 DEF Alike, InMap, AtRest, Good
  <2>6. Good(d)
    BY <1>3, <1>7, <2>4, <2>5, GoodStep
  <2>7. CASE d.str[s].win < 0
    <3>1. c' = ResetStream(d, s)
      BY <2>1, <2>7
    <3>2. Rel(d, c', s) /\ c'.str[s] = NewStream
      BY <2>4, <2>5, <3>1, ResetStreamRel
    <3>3. ~InMap(c', s) /\ AtRest(c'.str[s]) /\ ~Need(c', s)
      BY <3>2 DEF NewStream, InMap, AtRest, Need
    <3>4. Good(c')
      BY <2>6, <3>2, <3>3, GoodStep DEF Rel
    <3>5. Awake(c')
      BY <2>3, <3>2, <3>3, AwakeStep DEF Rel, Awake, AwakeAt
    <3> QED BY <1>1, <2>4, <3>2, <3>4, <3>5, SameLoop DEF Rel, Weak, SameStatic
  <2>8. CASE ~(d.str[s].win < 0) /\ d.str[s].win <= n
    <3>1. c' = StreamContinueWrite(d, s)
      BY <2>1, <2>8
    <3>2. /\ Rel(d, c', s) /\ Queued(c', s) /\ c'.str[s] = [d.str[s] EXCEPT !.want = TRUE]
          /\ Buffered(d) => c'.lwant \/ (c'.inEvent /\ c'.waitP)
      BY <2>4, <2>5, <3>1, StreamContinueWriteRel
    <3>3. d.str[s] \in StreamRec
      BY <2>4 DEF Conn
    <3>4. c'.str[s].state = d.str[s].state /\ c'.str[s].rel = d.str[s].rel
      BY <3>2, <3>3 DEF StreamRec
    <3>5. AtRest(c'.str[s])
      BY <2>5, <3>4 DEF AtRest
    <3>6. Good(c')
      BY <2>5, <2>6, <3>2, <3>5, GoodStep DEF Rel
    <3>7. AwakeAt(c', s)
      BY <2>4, <3>2 DEF AwakeAt, Called
    <3>8. Awake(c')
      BY <2>3, <3>2, <3>7, AwakeStep DEF Rel, Awake
    <3> QED BY <1>1, <2>4, <3>2, <3>6, <3>8, SameLoop DEF Rel, Weak, SameStatic
  <2>9. CASE ~(d.str[s].win < 0) /\ ~(d.str[s].win <= n)
    <3>1. c' = d
      BY <2>1, <2>9
    <3> QED BY <1>1, <2>3, <2>4, <2>6, <3>1, SameLoop
  <2> QED BY <2>7, <2>8, <2>9
<1> QED BY <1>5, <1>6, <1>7

\* WINDOW_UPDATE of the connection.
LEMMA WindowUpdateConnInv ==
  ASSUME IInv, NEW n \in Deltas, NEW w \in Took, WindowUpdateConn(n, w)
  PROVE  IInv'
<1> DEFINE d == [c EXCEPT !.outWin = @ + n]
<1>1. pc = "frames"
  BY DEF WindowUpdateConn, Reading
<1>2. IF c.outWin + n > MaxWindow THEN c' = DoGoAway(c, w) /\ UNCHANGED pc /\ Loc
      ELSE IF c.outWin <= 0 THEN OnWriteEx2(d, "frames", w)
      ELSE c' = d /\ UNCHANGED pc /\ Loc
  BY DEF WindowUpdateConn
<1>3. Good(c) /\ Sound(c) /\ Awake(c) /\ c \in Conn /\ c.inEvent /\ cur \in Stream
  BY <1>1, Resting
<1>4. n \in Int /\ n > 0 /\ n <= MaxWindow /\ MaxWindow \in Nat
  BY H2ConnAssumption
<1>5. c.outWin \in Int /\ c.outWin >= -(MaxWindow + 1)
  BY <1>3, <1>4 DEF Conn, Window
<1>6. CASE c.outWin + n > MaxWindow
  <2>1. c' = DoGoAway(c, w) /\ UNCHANGED pc /\ Loc
    BY <1>2, <1>6
  <2>2. Good(c') /\ Awake(c') /\ c'.inEvent = c.inEvent
    BY <1>3, <2>1, DoGoAwayGood
  <2> QED BY <1>1, <2>1, <2>2, SameLoop
<1>7. CASE ~(c.outWin + n > MaxWindow)
  <2>2. c.outWin + n \in Window
    BY <1>4, <1>5, <1>7 DEF Window
  <2>3. d \in Conn
    BY <1>3, <2>2 DEF Conn
  <2>5. /\ d.initWin = c.initWin
        /\ d.open = c.open /\ d.shut = c.shut /\ d.last = c.last
        /\ d.que = c.que /\ d.total = c.total /\ d.str = c.str
        /\ d.obuf = c.obuf /\ d.lwant = c.lwant /\ d.lpause = c.lpause /\ d.inEvent = c.inEvent
        /\ d.waitP = c.waitP /\ d.wflush = c.wflush
    BY <1>3 DEF Conn
  <2>5a. IF c.outWin <= 0 THEN OnWriteEx2(d, "frames", w) ELSE c' = d /\ UNCHANGED pc /\ Loc
    BY <1>2, <1>7
  <2> HIDE DEF d
  <2>6. Good(d)
    <3>1. Done(d) = Done(c) /\ Over(d) = Over(c)
      BY <2>5 DEF Done, Over
    <3>2. Counted(d)
      BY <1>3, <2>5, <3>1 DEF Counted, Sound
    <3>3. Sound(d)
      BY <1>3, <2>3, <2>5, <3>2 DEF Sound, InMap
    <3>4. Buffered(d)
      BY <1>3, <2>5 DEF Buffered, Good
    <3>5. \A s \in Stream : AtRest(d.str[s]) /\ (InMap(d, s) => d.open)
      BY <1>3, <2>5 DEF Good, InMap
    <3> QED BY <3>3, <3>4, <3>5 DEF Good
  <2>7. \A s \in Stream : Need(d, s) => Queued(d, s)
    BY <1>3, <2>5 DEF Awake, AwakeAt, Need, Queued
  <2>8. d.inEvent
    BY <1>3, <2>5
  <2>9. CASE c.outWin <= 0
    <3>1. PICK r : r = "frames"
      OBVIOUS
    <3>2. OnWriteEx2(d, r, w) /\ r \in {"read", "write", "frames"} /\ (r = "write" => d.lwant)
      BY <2>5a, <2>9, <3>1
    <3> QED BY <1>3, <2>6, <2>7, <2>8, <3>2, OnWriteEx2Inv
  <2>10. CASE ~(c.outWin <= 0)
    <3>1. c' = d /\ UNCHANGED pc /\ Loc
      BY <2>5a, <2>10
    <3>2. c.outWin > 0
      BY <1>5, <2>10
    <3>3. Awake(d)
      BY <1>3, <2>5, <2>7, <3>2 DEF Awake, AwakeAt, Need, Queued, Called
    <3> QED BY <1>1, <2>5, <2>6, <3>1, <3>3, SameLoop
  <2> QED BY <2>9, <2>10
<1> QED BY <1>6, <1>7

(***************************************************************************)
(* Events of the connection.                                               *)
(***************************************************************************)
\* Nothing is lost when an event ends without a look at the queues.
LEMMA ReturnCalm ==
  ASSUME Good(c), Awake(c), c.inEvent, NEW r, r = "read", NEW want, want = FALSE,
         NEW w \in Took, NEW d, Quiet(c, d), EventReturn(d, r, want, w), ~d.waitP \/ ~d.open \/ d.lpause
  PROVE  IInv'
<1>1. Good(d) /\ Awake(d) /\ d.inEvent /\ d.outWin = c.outWin
  BY QuietGood DEF Quiet, SameStatic
<1>2. ASSUME NEW s \in Stream, Need(d, s)
      PROVE  Queued(d, s) /\ (d.outWin > 0 /\ ~d.lpause => d.lwant)
  <2>1. InMap(d, s)
    BY <1>2 DEF Need, InMap
  <2>2. Queued(d, s) /\ (d.outWin > 0 /\ ~d.lpause => Called(d))
    BY <1>1, <1>2 DEF Awake, AwakeAt
  <2>3. d.open
    BY <1>1, <2>1 DEF Good
  <2> QED BY <2>2, <2>3 DEF Called
<1>3. r \in {"read", "write", "frames"} /\ want \in BOOLEAN /\ r # "write"
  OBVIOUS
<1> QED BY <1>1, <1>2, <1>3, EventReturnInv

\* The input ends: the queues are looked at if a stream has asked for it.
LEMMA ReadEndInv ==
  ASSUME IInv, NEW w \in Took, ReadEnd(w)
  PROVE  IInv'
<1>1. pc = "frames"
  BY DEF ReadEnd
<1>2. Good(c) /\ Sound(c) /\ Awake(c) /\ c \in Conn /\ c.inEvent /\ cur \in Stream
  BY <1>1, Resting
<1>4. CASE c.open /\ c.lpause /\ c.pend
  <2>1. /\ pc' = "pending" /\ lvl' = 0 /\ cnt' = QueueCount(c, 0) /\ ww' = FALSE
        /\ c' = c /\ ret' = ret /\ cur' = cur
    BY <1>4 DEF ReadEnd
  <2>2. 0 \in Level
    BY DEF Level, Html
  <2>3. QueueCount(c, 0) \in 0 .. NStreams
    BY <1>2, <2>2, QueueLen
  <2>4. LocalType'
    BY <2>1, <2>2, <2>3 DEF IInv, LocalType
  <2>5. c'.lpause
    BY <1>4, <2>1
  <2> QED BY <1>2, <2>1, <2>4, <2>5, Between
<1>5. CASE ~(c.open /\ c.lpause /\ c.pend) /\ c.open /\ c.waitP
  <2>0. PICK r : r = "read"
    OBVIOUS
  <2>1. OnWriteEx2(c, r, w) /\ r \in {"read", "write", "frames"} /\ (r = "write" => c.lwant)
    BY <1>5, <2>0 DEF ReadEnd
  <2>2. \A s \in Stream : Need(c, s) => Queued(c, s)
    BY <1>2 DEF Awake, AwakeAt
  <2> QED BY <1>2, <2>1, <2>2, OnWriteEx2Inv
<1>6. CASE ~(c.open /\ c.lpause /\ c.pend) /\ ~(c.open /\ c.waitP)
  <2>0. PICK r, want : r = "read" /\ want = FALSE
    OBVIOUS
  <2>1. EventReturn(c, r, want, w)
    BY <1>6, <2>0 DEF ReadEnd
  <2>2. Quiet(c, c)
    BY <1>2 DEF Quiet, SameStatic
  <2> QED BY <1>2, <1>6, <2>0, <2>1, <2>2, ReturnCalm
<1> QED BY <1>4, <1>5, <1>6

\* The application fails.
LEMMA AppFailInv == ASSUME IInv, NEW s \in Stream, AppFail(s) PROVE IInv'
<1>1. pc = "idle" /\ UNCHANGED pc /\ Loc /\ c' = CloseSession(c, s)
  BY DEF AppFail, Idle
<1>2. c.str[s].state = "CONNECTED" /\ ~c.str[s].init /\ ~c.str[s].rel
  BY DEF AppFail, HasSession
<1>3. Good(c) /\ Sound(c) /\ InMap(c, s)
  BY <1>1, <1>2, Resting DEF InMap
<1>4. /\ Rel(c, c', s) /\ InMap(c', s)
      /\ c'.str[s].state \in {"SHUTDOWN", "RESET", "DISCONNECTED"} /\ c'.str[s].rel
      /\ c'.str[s].state # "RESET"
  BY <1>1, <1>2, <1>3, CloseSessionRel
<1>5. AtRest(c'.str[s]) /\ ~Need(c', s)
  BY <1>4 DEF AtRest, Need
<1> QED BY <1>1, <1>3, <1>4, <1>5, OneStream DEF Rel

\* The timer recycles streams that are done or timed out.
LEMMA TimerInv == ASSUME IInv, NEW T \in SUBSET Stream, Timer(T) PROVE IInv'
<1> DEFINE S == T \cup {s \in Mapped(c) : c.str[s].state # "CONNECTED"}
<1>1. pc = "idle" /\ UNCHANGED pc /\ Loc /\ c' = ReleaseStreams(c, S)
  BY DEF Timer, Idle
<1>2. Good(c) /\ Awake(c)
  BY <1>1, Resting
<1>3. S \in SUBSET Mapped(c)
  BY DEF Timer, HasSession, Mapped, InMap
<1> HIDE DEF S
<1>4. c' \in Released(c, S)
  BY <1>1, <1>2, <1>3, ReleaseRel
<1>5. Good(c') /\ Awake(c') /\ c'.inEvent = c.inEvent
  BY <1>2, <1>4 DEF Released, SameStatic
<1> QED BY <1>1, <1>5, SameLoop

\* The timer ends the connection.
LEMMA TimerGoAwayInv == ASSUME IInv, NEW w \in Took, TimerGoAway(w) PROVE IInv'
<1>1. pc = "idle" /\ UNCHANGED pc /\ Loc /\ c' = DoGoAway(c, w)
  BY DEF TimerGoAway, Idle
<1>2. Good(c)
  BY <1>1, Resting
<1>3. Good(c') /\ Awake(c') /\ c'.inEvent = c.inEvent
  BY <1>1, <1>2, DoGoAwayGood
<1> QED BY <1>1, <1>3, SameLoop

\* A write event: the socket takes output again.
LEMMA WriteEventInv == ASSUME IInv, NEW w \in Took, WriteEvent(w) PROVE IInv'
<1> DEFINE d == [c EXCEPT !.lpause = FALSE, !.inEvent = TRUE]
<1>0. PICK r : r = "write"
  OBVIOUS
<1>1. pc = "idle" /\ c.lwant /\ OnWriteEx2(d, r, w)
  BY <1>0 DEF WriteEvent, Idle
<1>2. Good(c) /\ Awake(c) /\ c \in Conn /\ ~c.inEvent /\ cur \in Stream
  BY <1>1, Resting
<1>3. FlagsOnly(c, d) /\ d.inEvent /\ d.lwant = c.lwant
  BY <1>2 DEF Conn, FlagsOnly
<1> HIDE DEF d
<1>4. Buffered(d)
  BY <1>1, <1>3 DEF Buffered
<1>5. Good(d) /\ \A s \in Stream : (Need(d, s) <=> Need(c, s)) /\ (Queued(d, s) <=> Queued(c, s))
  BY <1>2, <1>3, <1>4, FlagsGood
<1>6. \A s \in Stream : Need(d, s) => Queued(d, s)
  BY <1>2, <1>5 DEF Awake, AwakeAt
<1>7. r \in {"read", "write", "frames"} /\ (r = "write" => d.lwant)
  BY <1>0, <1>1, <1>3
<1> QED BY <1>1, <1>2, <1>3, <1>5, <1>6, <1>7, OnWriteEx2Inv

(***************************************************************************)
(* processPendingStreams.                                                  *)
(***************************************************************************)
\* A stream that is put back in front of its queue is where it was.
LEMMA PopPush ==
  ASSUME NEW d, Sound(d), lvl \in Level, d.que[lvl] # <<>>
  PROVE  [Pop(d) EXCEPT !.que[lvl] = <<Head(d.que[lvl])>> \o @, !.total[lvl] = @ + 1] = d
<1> DEFINE q == d.que[lvl]
           n == d.total[lvl]
<1>1. d \in Conn /\ q \in Seq(Stream) /\ q # <<>> /\ n \in Int
  BY DEF Sound, Conn
<1>2. <<Head(q)>> \o Tail(q) = q
  BY <1>1
<1>3. (n - 1) + 1 = n
  BY <1>1
<1>4. [Pop(d) EXCEPT !.que[lvl] = <<Head(d.que[lvl])>> \o @, !.total[lvl] = @ + 1]
        = [d EXCEPT !.que[lvl] = <<Head(q)>> \o Tail(q), !.total[lvl] = (n - 1) + 1]
  <2> HIDE DEF q, n
  <2> QED BY <1>1 DEF Pop, Conn, q, n
<1>5. [d EXCEPT !.que[lvl] = q, !.total[lvl] = n] = d
  BY <1>1 DEF Conn
<1> QED BY <1>2, <1>3, <1>4, <1>5

\* A step of processPendingStreams: the socket takes nothing, so that it is
\* enough to keep who needs the write event in a queue.
LEMMA PendingStay ==
  ASSUME IInv, pc = "pending", pc' = "pending", UNCHANGED <<ret, lvl, cur>>,
         cnt' \in 0 .. NStreams, ww' \in BOOLEAN,
         NEW s \in Stream, Rel(c, c', s), AtRest(c'.str[s]),
         InMap(c', s) => InMap(c, s), Need(c', s) => Queued(c', s)
  PROVE  IInv'
<1>1. Good(c) /\ Awake(c) /\ c.inEvent /\ c.lpause
  BY DEF IInv, Waking, InLoop, Eventful
<1>2. Weak(c, c', s)
  BY DEF Rel
<1>3. Good(c')
  BY <1>1, <1>2, GoodStep
<1>4. c'.lpause /\ c'.inEvent
  BY <1>1, <1>2 DEF Weak, SameStatic
<1>5. AwakeAt(c', s)
  BY <1>4 DEF AwakeAt
<1>6. Awake(c')
  BY <1>1, <1>2, <1>5, AwakeStep DEF Awake
<1>7. LocalType'
  BY DEF IInv, LocalType
<1> QED BY <1>3, <1>4, <1>6, <1>7, Between

\* A stream has its turn in processPendingStreams.
LEMMA PendingStepInv ==
  ASSUME IInv, NEW n \in Len0, NEW how \in How, PendingStep(n, how)
  PROVE  IInv'
<1> DEFINE s == Head(c.que[lvl])
           d == Pop(c)
           t == StartSession(d, s, n, how)
           a == IF t.str[s].want /\ t.str[s].win > 0 /\ ~Queued(t, s)
                THEN AppendQue(t, s) ELSE t
           e == IF c.str[s].init THEN a
                ELSE [d EXCEPT !.que[d.str[s].pri] = <<s>> \o @,
                               !.total[d.str[s].pri] = @ + 1]
<1>1. /\ pc = "pending" /\ LoopOn /\ c.que[lvl] # <<>> /\ pc' = "pending"
      /\ ret' = ret /\ lvl' = lvl /\ cur' = cur
  BY DEF PendingStep, Stay
<1>2. IF c.str[s].state # "CONNECTED"
      THEN c' = RecycleStream(d, s) /\ cnt' = cnt - 1 /\ UNCHANGED ww
      ELSE IF c.str[s].init /\ how = "fail"
      THEN c' = ResetStream(d, s) /\ cnt' = cnt - 1 /\ UNCHANGED ww
      ELSE /\ c' = Settle(e, s)
           /\ IF OutBufFull(c') THEN ww' = TRUE /\ cnt' = 0
                                ELSE cnt' = cnt - 1 /\ UNCHANGED ww
  BY DEF PendingStep
<1>3. /\ lvl \in Level /\ cnt \in 0 .. NStreams /\ cnt > 0 /\ ww \in BOOLEAN
      /\ Good(c) /\ Sound(c) /\ c \in Conn
  BY <1>1 DEF IInv, LocalType, LoopOn, Good, Sound
<1>4. cnt - 1 \in 0 .. NStreams /\ 0 \in 0 .. NStreams /\ n \in 0 .. MaxLen
  BY <1>3, H2ConnAssumption DEF Len0
<1>5. cnt' \in 0 .. NStreams /\ ww' \in BOOLEAN
  BY <1>2, <1>3, <1>4
<1>6. /\ s \in Stream /\ InMap(c, s) /\ c.str[s].pri = lvl
      /\ Rel(c, d, s) /\ ~Queued(d, s) /\ d.str = c.str /\ d.shut = c.shut
  BY <1>1, <1>3, PopRel
<1>7. e = IF c.str[s].init THEN a ELSE c
  <2>1. CASE c.str[s].init
    BY <2>1
  <2>2. CASE ~c.str[s].init
    <3>1. [d EXCEPT !.que[lvl] = <<s>> \o @, !.total[lvl] = @ + 1] = c
      BY <1>1, <1>3, PopPush
    <3>2. d.str[s].pri = lvl
      BY <1>6
    <3> QED BY <2>2, <3>1, <3>2
  <2> QED BY <2>1, <2>2
<1> HIDE DEF d, s, e
<1>8. Sound(d) /\ InMap(d, s)
  BY <1>6, RelFacts DEF InMap
<1>8a. ASSUME Rel(d, c', s), c'.str[s] = NewStream PROVE IInv'
  <2>1. Rel(c, c', s)
    BY <1>3, <1>6, <1>8a, RelTrans
  <2>2. ~InMap(c', s) /\ AtRest(c'.str[s]) /\ ~Need(c', s)
    BY <1>8a DEF NewStream, InMap, AtRest, Need
  <2> QED BY <1>1, <1>5, <1>6, <2>1, <2>2, PendingStay
<1>9. CASE c.str[s].state # "CONNECTED"
  <2>1. c' = RecycleStream(d, s)
    BY <1>2, <1>9
  <2> QED BY <1>6, <1>8, <1>8a, <2>1, RecycleStreamRel
<1>9a. CASE c.str[s].state = "CONNECTED" /\ c.str[s].init /\ how = "fail"
  <2>1. c' = ResetStream(d, s)
    BY <1>2, <1>9a
  <2> QED BY <1>6, <1>8, <1>8a, <2>1, ResetStreamRel
<1>10. CASE c.str[s].state = "CONNECTED" /\ ~c.str[s].init
  <2>1. c' = Settle(c, s)
    BY <1>2, <1>7, <1>10
  <2>2. c' = c
    BY <1>3, <1>6, <1>10, <2>1, SettleRel
  <2>3. Rel(c, c, s) /\ AtRest(c.str[s])
    BY <1>3, <1>6, RelRefl DEF Good
  <2>4. Need(c, s) => Queued(c, s)
    BY <1>1, <1>6 DEF IInv, Waking, InLoop, Awake, AwakeAt
  <2> QED BY <1>1, <1>5, <1>6, <2>2, <2>3, <2>4, PendingStay
<1>11. CASE c.str[s].state = "CONNECTED" /\ c.str[s].init /\ how # "fail"
  <2>1. /\ Rel(d, t, s) /\ InMap(t, s) /\ AtRest(t.str[s])
        /\ t.str[s].state = "CONNECTED" => ~t.str[s].init
    <3>1. d.str[s].init /\ d.str[s].state = "CONNECTED"
      BY <1>6, <1>11
    <3> QED BY <1>4, <1>6, <1>8, <3>1, StartSessionRel
  <2> HIDE DEF t
  <2>2. Sound(t) /\ t \in Conn
    BY <1>6, <2>1, RelFacts
  <2>3. /\ Rel(t, a, s) /\ a.str = t.str
        /\ t.str[s].want /\ t.str[s].win > 0 => Queued(a, s)
    <3>1. CASE t.str[s].want /\ t.str[s].win > 0 /\ ~Queued(t, s)
      BY <1>6, <2>1, <2>2, <3>1, AppendQueRel
    <3>2. CASE ~(t.str[s].want /\ t.str[s].win > 0 /\ ~Queued(t, s))
      BY <1>6, <2>2, <3>2, RelRefl
    <3> QED BY <3>1, <3>2
  <2> HIDE DEF a
  <2>4. Rel(d, a, s)
    BY <1>6, <1>8, <2>1, <2>3, RelTrans DEF Sound
  <2>5. Sound(a) /\ Rel(c, a, s)
    BY <1>3, <1>6, <2>4, RelFacts, RelTrans
  <2>6. c' = Settle(a, s)
    BY <1>2, <1>7, <1>11
  <2>7. CASE t.str[s].state = "CONNECTED"
    <3>1. c' = a
      BY <1>6, <2>3, <2>5, <2>6, <2>7, SettleRel
    <3>2. AtRest(a.str[s]) /\ (Need(a, s) => Queued(a, s))
      BY <2>1, <2>3, <2>7 DEF Need
    <3> QED BY <1>1, <1>5, <1>6, <2>5, <3>1, <3>2, PendingStay
  <2>8. CASE t.str[s].state # "CONNECTED"
    <3>1. Rel(a, c', s) /\ c'.str[s] = NewStream
      BY <1>6, <2>1, <2>3, <2>5, <2>6, <2>8, SettleRel DEF InMap
    <3>2. Rel(d, c', s)
      BY <1>6, <1>8, <2>4, <3>1, RelTrans DEF Sound
    <3> QED BY <1>8a, <3>1, <3>2
  <2> QED BY <2>7, <2>8
<1> QED BY <1>9, <1>9a, <1>10, <1>11

\* The end of processPendingStreams.
LEMMA PendingDoneInv ==
  ASSUME IInv, NEW w \in Took, PendingDone(w)
  PROVE  IInv'
<1> DEFINE d == IF c.wflush THEN Flush(c, w) ELSE c
<1>1. /\ pc = "pending"
      /\ IF d.waitP THEN OnWriteEx2(d, "read", w) ELSE EventReturn(d, "read", FALSE, w)
  BY DEF PendingDone
<1>2. Good(c) /\ Awake(c) /\ c.inEvent /\ c.lpause /\ cur \in Stream /\ c \in Conn
  BY <1>1 DEF IInv, Waking, InLoop, Eventful, LocalType, Good, Sound
<1>3. w \in Nat
  BY H2ConnAssumption DEF Took
<1>4. Quiet(c, d)
  <2>1. Quiet(c, c)
    BY <1>2 DEF Quiet, SameStatic
  <2> QED BY <1>2, <1>3, <2>1, FlushQuiet
<1> HIDE DEF d
<1>5. Good(d) /\ Awake(d) /\ d.inEvent /\ d.lpause
  BY <1>2, <1>4, QuietGood DEF Quiet, SameStatic
<1>7. PICK r, want : r = "read" /\ want = FALSE
  OBVIOUS
<1>8. CASE d.waitP
  <2>1. OnWriteEx2(d, r, w) /\ r \in {"read", "write", "frames"} /\ (r = "write" => d.lwant)
    BY <1>1, <1>7, <1>8
  <2>2. \A s \in Stream : Need(d, s) => Queued(d, s)
    BY <1>5 DEF Awake, AwakeAt
  <2> QED BY <1>2, <1>5, <2>1, <2>2, OnWriteEx2Inv
<1>9. CASE ~d.waitP
  <2>1. EventReturn(d, r, want, w)
    BY <1>1, <1>7, <1>9
  <2> QED BY <1>2, <1>4, <1>5, <1>7, <2>1, ReturnCalm
<1> QED BY <1>8, <1>9

(***************************************************************************)
(* processQueue.                                                           *)
(***************************************************************************)
\* What a step that is about stream s leaves to the others.
Onward(d, e, s) ==
  /\ Later(d, e, s)
  /\ \A t \in Stream \ {s} : e.str[t] = d.str[t] /\ (Queued(d, t) => Queued(e, t))
  /\ e.inEvent = d.inEvent /\ e.outWin <= d.outWin
  /\ d.lwant => e.lwant
  /\ d.waitP => e.waitP
  /\ d.lpause => e.lpause

\* This holds of every operation on s.
LEMMA RelOnward ==
  ASSUME NEW d, NEW e, NEW s \in Stream, Rel(d, e, s)
  PROVE  Onward(d, e, s)
<1>1. e.outWin = d.outWin /\ e.outWin \in Int
  BY H2ConnAssumption DEF Rel, Weak, SameStatic, Sound, Conn, Window
<1>2. e.outWin <= d.outWin
  BY <1>1
<1> QED BY <1>2 DEF Rel, Weak, SameStatic, Onward

\* What processQueue has behind it stays behind it.
LEMMA FoundOnward ==
  ASSUME NEW d, NEW e, NEW s \in Stream, Sound(d), Sound(e), Onward(d, e, s), NEW l \in Level,
         NEW n \in 0 .. NStreams, Found(d, l, n, s)
  PROVE  Found(e, l, n, s)
<1> SUFFICES ASSUME NEW p \in Level, NEW j \in 1 .. Len(e.que[p]), p < l \/ (p = l /\ j > n),
                    Need(e, e.que[p][j]), e.que[p][j] # s
             PROVE FALSE
  BY DEF Found
<1>1. PICK i \in j .. Len(d.que[p]) : d.que[p][i] = e.que[p][j]
  BY DEF Onward, Later
<1>2. d.que[p] \in Seq(Stream) /\ e.que[p] \in Seq(Stream) /\ n \in Int
  BY DEF Sound, Conn
<1>3. i \in 1 .. Len(d.que[p]) /\ (p < l \/ (p = l /\ i > n)) /\ d.que[p][i] \in Stream
  BY <1>2
<1>4. Need(d, d.que[p][i])
  BY <1>1, <1>3 DEF Onward, Need
<1>5. d.que[p][i] = s
  BY <1>3, <1>4 DEF Found
<1> QED BY <1>1, <1>5

\* The same for an operation on s.
LEMMA FoundStep ==
  ASSUME NEW d, NEW e, NEW s \in Stream, Sound(d), Rel(d, e, s), NEW l \in Level,
         NEW n \in 0 .. NStreams, Found(d, l, n, s)
  PROVE  Found(e, l, n, s)
BY RelOnward, RelFacts, FoundOnward

\* s itself need not be looked at when it is not queued or not to be served.
LEMMA FoundNone ==
  ASSUME NEW d, Sound(d), NEW s \in Stream, NEW l \in Level, NEW n \in 0 .. NStreams,
         Found(d, l, n, s), ~Queued(d, s) \/ ~Need(d, s)
  PROVE  Found(d, l, n, 0)
<1> SUFFICES ASSUME NEW p \in Level, NEW i \in 1 .. Len(d.que[p]), p < l \/ (p = l /\ i > n),
                    Need(d, d.que[p][i])
             PROVE FALSE
  BY DEF Found
<1>1. d.que[p][i] = s
  BY DEF Found
<1>2. Queued(d, s)
  BY <1>1, QueuedIn DEF Sound
<1> QED BY <1>1, <1>2

\* Nothing found means nothing but s found.
LEMMA FoundAny ==
  ASSUME NEW d, Sound(d), NEW s \in Stream, NEW l \in Level, NEW n \in 0 .. NStreams, Found(d, l, n, 0)
  PROVE  Found(d, l, n, s)
<1>1. \A p \in Level : \A i \in 1 .. Len(d.que[p]) : d.que[p][i] \in Stream
  BY DEF Sound, Conn
<1>2. 0 \notin Stream
  BY DEF Stream
<1> QED BY <1>1, <1>2 DEF Found

\* The loop over the queues has looked at all of them.
LEMMA FoundAll ==
  ASSUME NEW d, Sound(d), NEW l, l = Html, NEW n, n = 0, Found(d, l, n, 0), NEW s \in Stream,
         Queued(d, s), Need(d, s)
  PROVE  FALSE
<1>1. PICK p \in Level : \E i \in 1 .. Len(d.que[p]) : d.que[p][i] = s
  BY QueuedIn DEF Sound
<1>2. PICK i \in 1 .. Len(d.que[p]) : d.que[p][i] = s
  BY <1>1
<1>3. p < l \/ (p = l /\ i > n)
  BY DEF Level, Html
<1>4. s = 0
  BY <1>2, <1>3 DEF Found
<1> QED BY <1>4 DEF Stream

\* A step inside the loop of processQueue that touches one stream.
LEMMA LoopStay ==
  ASSUME IInv, InLoop, InLoop', ret' = ret, LocalType', NEW s \in Stream, Rel(c, c', s),
         AtRest(c'.str[s]), InMap(c', s) => InMap(c, s),
         InHand = 0 \/ InHand = s, Need(c', s) => Queued(c', s) \/ s = InHand', Served',
         ww' \/ c'.lpause \/ c'.outWin <= 0 \/ Found(c', lvl', cnt', InHand')
  PROVE  IInv'
<1>1. Good(c) /\ Weak(c, c', s)
  BY DEF IInv, Rel
<1>2. Good(c')
  BY <1>1, GoodStep
<1>3. c.inEvent /\ (ret = "write" => c.lwant)
  BY DEF IInv, Eventful, InLoop
<1>4. c'.inEvent /\ (ret' = "write" => c'.lwant)
  BY <1>1, <1>3 DEF Weak, SameStatic
<1>5. Eventful' /\ Waking'
  BY <1>4 DEF Eventful, Waking, InLoop
<1>6. ASSUME NEW t \in Stream, Need(c', t) PROVE Queued(c', t) \/ t = InHand'
  <2>1. CASE t = s
    BY <1>6, <2>1
  <2>2. CASE t # s
    <3>1. Need(c, t)
      BY <1>1, <1>6, <2>2 DEF Weak, Need
    <3>2. t # 0
      BY DEF Stream
    <3>3. Queued(c, t)
      BY <2>2, <3>1, <3>2 DEF IInv, Looping
    <3> QED BY <1>1, <2>2, <3>3 DEF Weak
  <2> QED BY <2>1, <2>2
<1>7. Looping'
  BY <1>6 DEF Looping
<1> QED BY <1>2, <1>5, <1>7 DEF IInv

\* The stream is not paused any more.
LEMMA PauseOff ==
  ASSUME NEW d, Sound(d), NEW s \in Stream, InMap(d, s)
  PROVE  LET e == [d EXCEPT !.str[s].pause = FALSE]
         IN  /\ Rel(d, e, s) /\ e.str[s].state = d.str[s].state /\ e.str[s].win = d.str[s].win
             /\ e.str[s].rel = d.str[s].rel /\ e.str[s].init = d.str[s].init
<1> DEFINE x == [d.str[s] EXCEPT !.pause = FALSE]
           e == [d EXCEPT !.str[s].pause = FALSE]
<1>1. d \in Conn /\ s <= d.last /\ d.str[s] \in StreamRec
  BY DEF Sound, Conn
<1>2. e = SetStr(d, s, x, d.shut)
  BY <1>1 DEF SetStr, Conn
<1>3. /\ x \in StreamRec /\ Alike(d.str[s], x)
      /\ x.state = d.str[s].state /\ x.win = d.str[s].win /\ x.rel = d.str[s].rel
      /\ x.init = d.str[s].init
  BY <1>1 DEF StreamRec, Alike
<1> HIDE DEF x, e
<1>4. Rel(d, e, s) /\ e.str[s] = x
  BY <1>1, <1>2, <1>3, SetAlike
<1>5. /\ Rel(d, e, s) /\ e.str[s].state = d.str[s].state /\ e.str[s].win = d.str[s].win
      /\ e.str[s].rel = d.str[s].rel /\ e.str[s].init = d.str[s].init
  BY <1>3, <1>4
<1> QED BY <1>5, Zenon DEF e

\* A stream has its turn in processQueue.
LEMMA QueueStepInv ==
  ASSUME IInv, NEW n \in Len0, NEW how \in How, QueueStep(n, how)
  PROVE  IInv'
<1> DEFINE s == Head(c.que[lvl])
           d == Pop(c)
           e == [d EXCEPT !.str[s].pause = FALSE]
<1>1. /\ pc = "queue" /\ LoopOn /\ c.que[lvl] # <<>> /\ cnt' = cnt - 1
      /\ ret' = ret /\ lvl' = lvl /\ ww' = ww
  BY DEF QueueStep, Stay
<1>2. IF c.str[s].state # "CONNECTED"
      THEN c' = RecycleStream(d, s) /\ UNCHANGED <<pc, cur>>
      ELSE IF c.str[s].init /\ how = "fail"
      THEN c' = ResetStream(d, s) /\ UNCHANGED <<pc, cur>>
      ELSE /\ cur' = s
           /\ IF c.str[s].init
              THEN c' = StartSession(d, s, n, how) /\ pc' = "queued"
              ELSE IF c.str[s].want /\ c.str[s].win > 0
              THEN c' = e /\ pc' = "doWrite"
              ELSE c' = d /\ pc' = "queued"
  BY DEF QueueStep
<1>3. /\ lvl \in Level /\ cnt \in 0 .. NStreams /\ cnt > 0 /\ ww \in BOOLEAN /\ cur \in Stream
      /\ Good(c) /\ Sound(c) /\ c \in Conn /\ ~c.lpause /\ c.outWin > 0 /\ ret \in {"read", "write", "frames"}
  BY <1>1 DEF IInv, LocalType, LoopOn, Good, Sound
<1>4. cnt - 1 \in 0 .. NStreams /\ n \in 0 .. MaxLen
  BY <1>3, H2ConnAssumption DEF Len0
<1>5. InLoop /\ InHand = 0 /\ (ww \/ Found(c, lvl, cnt, 0)) /\ c.inEvent
  <2>1. InLoop /\ InHand = 0 /\ c.inEvent
    BY <1>1 DEF InLoop, InHand, IInv, Eventful
  <2>2. c.outWin \in Int
    BY <1>3, H2ConnAssumption DEF Conn, Window
  <2> QED BY <1>3, <2>1, <2>2 DEF IInv, Looping
<1>6. /\ s \in Stream /\ InMap(c, s) /\ c.str[s].pri = lvl
      /\ Rel(c, d, s) /\ ~Queued(d, s) /\ d.str = c.str /\ d.shut = c.shut
      /\ \A j \in 1 .. Len(d.que[lvl]) :
           j + 1 \in 1 .. Len(c.que[lvl]) /\ d.que[lvl][j] = c.que[lvl][j + 1]
      /\ \A p \in Level \ {lvl} : d.que[p] = c.que[p]
  <2>1. s = Head(c.que[lvl]) /\ d = Pop(c) /\ Sound(c) /\ lvl \in Level /\ c.que[lvl] # <<>>
    BY <1>1, <1>3
  <2> HIDE DEF s, d, e
  <2>2. PICK r : r = s
    OBVIOUS
  <2>3. PICK f : f = d
    OBVIOUS
  <2>4. PICK b : b = c
    OBVIOUS
  <2>5. Sound(b) /\ b.que[lvl] # <<>> /\ r = Head(b.que[lvl]) /\ f = Pop(b)
    BY <2>1, <2>2, <2>3, <2>4
  <2>6. /\ r \in Stream /\ InMap(b, r) /\ b.str[r].pri = lvl
        /\ Rel(b, f, r) /\ ~Queued(f, r) /\ f.str = b.str /\ f.shut = b.shut
        /\ \A j \in 1 .. Len(f.que[lvl]) :
             j + 1 \in 1 .. Len(b.que[lvl]) /\ f.que[lvl][j] = b.que[lvl][j + 1]
        /\ \A p \in Level \ {lvl} : f.que[p] = b.que[p]
    BY <2>1, <2>5, PopRel
  <2> QED BY <2>2, <2>3, <2>4, <2>6, Zenon
<1>7. Sound(d) /\ InMap(d, s) /\ d \in Conn
  BY <1>6, RelFacts DEF InMap
<1>7a. /\ Rel(d, e, s) /\ e.str[s].state = d.str[s].state /\ e.str[s].win = d.str[s].win
       /\ e.str[s].rel = d.str[s].rel /\ e.str[s].init = d.str[s].init
  BY <1>6, <1>7, PauseOff, Zenon
<1> HIDE DEF d, s, e
<1>8. ww \/ Found(d, lvl, cnt - 1, s)
  <2> SUFFICES ASSUME Found(c, lvl, cnt, 0) PROVE Found(d, lvl, cnt - 1, s)
    BY <1>5
  <2>1. Found(d, lvl, cnt - 1, 0)
    <3> SUFFICES ASSUME NEW p \in Level, NEW j \in 1 .. Len(d.que[p]),
                        p < lvl \/ (p = lvl /\ j > cnt - 1), Need(d, d.que[p][j])
                 PROVE  d.que[p][j] = 0
      BY DEF Found
    <3>0. Need(c, d.que[p][j])
      BY <1>6 DEF Need
    <3>1. CASE p = lvl
      <4>1. j + 1 \in 1 .. Len(c.que[lvl]) /\ d.que[lvl][j] = c.que[lvl][j + 1]
        BY <1>6, <3>1
      <4>2. j + 1 > cnt
        <5>1. ~(p < lvl) /\ j \in Int
          BY <1>3, <3>1 DEF Level, Html
        <5> QED BY <1>3, <5>1
      <4> QED BY <3>0, <3>1, <4>1, <4>2 DEF Found
    <3>2. CASE p # lvl
      <4>1. d.que[p] = c.que[p]
        BY <1>6, <3>2
      <4> QED BY <3>0, <3>2, <4>1 DEF Found
    <3> QED BY <3>1, <3>2
  <2> QED BY <1>3, <1>4, <1>6, <1>7, <2>1, FoundAny
<1>9. ASSUME NEW f, Rel(d, f, s)
      PROVE  Rel(c, f, s) /\ Sound(f) /\ (ww \/ Found(f, lvl, cnt - 1, s))
  <2>1. Rel(c, f, s) /\ Sound(f)
    BY <1>3, <1>6, <1>9, RelTrans, RelFacts
  <2>2. CASE ww
    BY <2>1, <2>2
  <2>3. CASE ~ww
    <3>1. Found(d, lvl, cnt - 1, s)
      BY <1>8, <2>3
    <3> QED BY <1>3, <1>4, <1>6, <1>7, <1>9, <2>1, <3>1, FoundStep
  <2> QED BY <2>2, <2>3
<1>9a. ASSUME Rel(d, c', s), c'.str[s] = NewStream, ~Queued(c', s), pc' = pc, cur' = cur
       PROVE  IInv'
  <2>1. pc' = "queue"
    BY <1>1, <1>9a
  <2>3. Rel(c, c', s) /\ Sound(c') /\ (ww \/ Found(c', lvl, cnt - 1, s))
    BY <1>9, <1>9a
  <2>4. ~InMap(c', s) /\ AtRest(c'.str[s]) /\ ~Need(c', s)
    BY <1>9a DEF NewStream, InMap, AtRest, Need
  <2>5. ww' \/ Found(c', lvl', cnt', 0)
    <3>1. CASE ww
      BY <1>1, <3>1
    <3>2. CASE ~ww
      <4>1. Found(c', lvl, cnt - 1, 0)
        BY <1>3, <1>4, <1>6, <1>9a, <2>3, <3>2, FoundNone
      <4> QED BY <1>1, <4>1
    <3> QED BY <3>1, <3>2
  <2>6. InLoop' /\ InHand' = 0 /\ Served'
    BY <2>1 DEF InLoop, InHand, Served
  <2>7. LocalType'
    BY <1>1, <1>3, <1>4, <1>9a, <2>1 DEF LocalType
  <2> QED BY <1>1, <1>5, <1>6, <2>3, <2>4, <2>5, <2>6, <2>7, LoopStay
<1>10. CASE c.str[s].state # "CONNECTED"
  <2>1. c' = RecycleStream(d, s) /\ pc' = pc /\ cur' = cur
    BY <1>2, <1>10
  <2> QED BY <1>6, <1>7, <1>9a, <2>1, RecycleStreamRel
<1>10a. CASE c.str[s].state = "CONNECTED" /\ c.str[s].init /\ how = "fail"
  <2>1. c' = ResetStream(d, s) /\ pc' = pc /\ cur' = cur
    BY <1>2, <1>10a
  <2> QED BY <1>6, <1>7, <1>9a, <2>1, ResetStreamRel
<1>11. ASSUME Rel(d, c', s), InMap(c', s), AtRest(c'.str[s]),
              c'.str[s].state = "CONNECTED" => ~c'.str[s].init,
              pc' \in {"queued", "doWrite"}, pc' = "doWrite" => c'.str[s].state = "CONNECTED",
              cur' = s
       PROVE  IInv'
  <2>1. Rel(c, c', s) /\ Sound(c') /\ (ww \/ Found(c', lvl, cnt - 1, s))
    BY <1>9, <1>11
  <2>3. c'.inEvent
    BY <1>5, <2>1 DEF Rel, Weak, SameStatic
  <2>4. InLoop' /\ InHand' = s /\ Served'
    BY <1>11, <2>3 DEF InLoop, InHand, Served
  <2>5. LocalType'
    BY <1>1, <1>3, <1>4, <1>6, <1>11 DEF LocalType
  <2>6. ww' \/ Found(c', lvl', cnt', InHand')
    BY <1>1, <2>1, <2>4
  <2> QED BY <1>1, <1>5, <1>6, <1>11, <2>1, <2>4, <2>5, <2>6, LoopStay
<1>12. CASE c.str[s].state = "CONNECTED" /\ c.str[s].init /\ how # "fail"
  <2>1. c' = StartSession(d, s, n, how) /\ pc' = "queued" /\ cur' = s
    BY <1>2, <1>12
  <2>2. d.str[s].init /\ d.str[s].state = "CONNECTED"
    BY <1>6, <1>12
  <2>3. /\ Rel(d, c', s) /\ InMap(c', s) /\ AtRest(c'.str[s])
        /\ c'.str[s].state = "CONNECTED" => ~c'.str[s].init
    BY <1>4, <1>6, <1>7, <2>1, <2>2, StartSessionRel
  <2> QED BY <1>11, <2>1, <2>3
<1>13. CASE c.str[s].state = "CONNECTED" /\ ~c.str[s].init /\ c.str[s].want /\ c.str[s].win > 0
  <2>1. c' = e /\ pc' = "doWrite" /\ cur' = s
    BY <1>2, <1>13
  <2>2. Rel(d, e, s) /\ InMap(e, s) /\ AtRest(e.str[s]) /\ e.str[s].state = "CONNECTED" /\ ~e.str[s].init
    BY <1>6, <1>7a, <1>13 DEF InMap, AtRest
  <2> QED BY <1>11, <2>1, <2>2
<1>14. CASE c.str[s].state = "CONNECTED" /\ ~c.str[s].init /\ ~(c.str[s].want /\ c.str[s].win > 0)
  <2>1. c' = d /\ pc' = "queued" /\ cur' = s
    BY <1>2, <1>14
  <2>2. Rel(d, d, s)
    BY <1>6, <1>7, RelRefl
  <2>3. InMap(d, s) /\ AtRest(d.str[s]) /\ d.str[s].state = "CONNECTED" /\ ~d.str[s].init
    BY <1>6, <1>14 DEF InMap, AtRest
  <2> QED BY <1>11, <2>1, <2>2, <2>3
<1> QED BY <1>10, <1>10a, <1>12, <1>13, <1>14

\* The rest of its turn: it is queued again if it has more, or recycled.
LEMMA QueueNextInv == ASSUME IInv, QueueNext PROVE IInv'
<1> DEFINE s == cur
           more == c.str[s].want /\ c.str[s].win > 0
           g == IF more /\ ~Queued(c, s) THEN AppendQue(c, s) ELSE c
           d == Settle(g, s)
           full == OutBufFull(d)
<1>1. /\ pc = "queued" /\ c' = d /\ pc' = "queue" /\ cur' = cur /\ ret' = ret /\ lvl' = lvl
      /\ ww' = (ww \/ more \/ full) /\ cnt' = IF full THEN 0 ELSE cnt
  BY DEF QueueNext, Stay
<1>2. /\ lvl \in Level /\ cnt \in 0 .. NStreams /\ ww \in BOOLEAN /\ s \in Stream
      /\ Good(c) /\ Sound(c) /\ c \in Conn /\ ret \in {"read", "write", "frames"}
  BY DEF IInv, LocalType, Good, Sound
<1>3. /\ InMap(c, s) /\ (c.str[s].state = "CONNECTED" => ~c.str[s].init)
      /\ InLoop /\ InHand = s /\ (ww \/ c.lpause \/ c.outWin <= 0 \/ Found(c, lvl, cnt, s))
  BY <1>1 DEF IInv, Served, Looping, InLoop, InHand
<1>4. Rel(c, g, s) /\ g.str = c.str /\ (more => Queued(g, s))
  <2>1. CASE more /\ ~Queued(c, s)
    BY <1>2, <1>3, <2>1, AppendQueRel
  <2>2. CASE ~(more /\ ~Queued(c, s))
    BY <1>2, <2>2, RelRefl
  <2> QED BY <2>1, <2>2
<1> HIDE DEF g
<1>5. Sound(g)
  BY <1>2, <1>4, RelFacts
<1>6. /\ Rel(g, d, s)
      /\ g.str[s].state \in {"CONNECTED", "none"} => d = g
      /\ g.str[s].state \notin {"CONNECTED", "none"} => d.str[s] = NewStream
  BY <1>2, <1>5, SettleRel
<1> HIDE DEF d
<1>7. Rel(c, d, s) /\ Sound(d)
  BY <1>2, <1>4, <1>6, RelTrans, RelFacts
<1>8. /\ Need(d, s) => more /\ Queued(d, s)
      /\ AtRest(d.str[s])
  <2>1. CASE c.str[s].state = "CONNECTED"
    BY <1>3, <1>4, <1>6, <2>1 DEF Need, AtRest
  <2>2. CASE c.str[s].state # "CONNECTED"
    <3>1. d.str[s] = NewStream
      BY <1>3, <1>4, <1>6, <2>2 DEF InMap
    <3> QED BY <3>1 DEF NewStream, Need, AtRest, InMap
  <2> QED BY <2>1, <2>2
<1>9. ww' \in BOOLEAN /\ cnt' \in 0 .. NStreams /\ (~ww' => ~ww /\ ~more /\ ~full /\ cnt' = cnt)
  <2>1. 0 \in 0 .. NStreams
    BY H2ConnAssumption
  <2> HIDE DEF more, full
  <2>2. cnt' \in 0 .. NStreams /\ (~ww' => ~ww /\ ~more /\ ~full)
    BY <1>1, <1>2, <2>1, Zenon
  <2>3. ~full => cnt' = cnt
    BY <1>1
  <2>4. ww' \in BOOLEAN
    BY <1>1, <1>2, Zenon
  <2> QED BY <2>2, <2>3, <2>4
<1>10. LocalType'
  BY <1>1, <1>2, <1>9 DEF LocalType
<1>11. InLoop' /\ InHand' = 0 /\ Served'
  BY <1>1 DEF InLoop, InHand, Served
<1>12. ww' \/ c'.lpause \/ c'.outWin <= 0 \/ Found(c', lvl', cnt', InHand')
  <2> SUFFICES ASSUME ~ww', ~d.lpause, ~(d.outWin <= 0) PROVE Found(d, lvl, cnt, 0)
    BY <1>1, <1>9, <1>11
  <2>1. ~c.lpause /\ ~(c.outWin <= 0)
    BY <1>7 DEF Rel, Weak, SameStatic
  <2>2. Found(c, lvl, cnt, s) /\ ~Need(d, s)
    BY <1>3, <1>8, <1>9, <2>1
  <2>3. Found(d, lvl, cnt, s)
    <3> HIDE DEF s
    <3> QED BY <1>2, <1>7, <2>2, FoundStep
  <2> HIDE DEF s
  <2> QED BY <1>2, <1>7, <2>2, <2>3, FoundNone
<1> HIDE DEF s
<1> QED BY <1>1, <1>2, <1>3, <1>7, <1>8, <1>10, <1>11, <1>12, LoopStay

\* The loop goes on to the next level when it has seen all of this one.
LEMMA LevelDoneInv == ASSUME IInv, LevelDone PROVE IInv'
<1>1. /\ pc \in {"pending", "queue"} /\ ~LoopOn /\ ~ww /\ c.outWin > 0 /\ lvl < Html
      /\ lvl' = lvl + 1 /\ cnt' = QueueCount(c, lvl + 1)
      /\ c' = c /\ pc' = pc /\ ret' = ret /\ ww' = ww /\ cur' = cur
  BY DEF LevelDone
<1>2. /\ lvl \in Level /\ cnt \in 0 .. NStreams /\ Good(c) /\ Sound(c) /\ c \in Conn
  BY DEF IInv, LocalType, Good, Sound
<1>3. lvl + 1 \in Level /\ lvl = 0
  BY <1>1, <1>2 DEF Level, Html
<1>4. cnt' = Len(c.que[lvl + 1]) /\ cnt' \in 0 .. NStreams
  BY <1>1, <1>2, <1>3, QueueLen
<1>5. LocalType'
  BY <1>1, <1>3, <1>4 DEF IInv, LocalType
<1>6. c.outWin \in Int
  BY <1>2, H2ConnAssumption DEF Conn, Window
<1>7. CASE pc = "pending"
  <2>1. Awake(c) /\ c.inEvent /\ c.lpause
    BY <1>7 DEF IInv, Waking, Eventful, InLoop
  <2> QED BY <1>1, <1>2, <1>5, <1>7, <2>1, Between
<1>8. CASE pc = "queue"
  <2>1. c.lpause \/ cnt = 0
    BY <1>1, <1>2, <1>8 DEF LoopOn
  <2>2. c.lpause \/ Found(c, lvl, cnt, 0)
    BY <1>1, <1>6, <1>8 DEF IInv, Looping, InLoop, InHand
  <2>3. cnt = 0 /\ Found(c, lvl, cnt, 0) => Found(c, lvl + 1, cnt', 0)
    <3> SUFFICES ASSUME cnt = 0, Found(c, lvl, cnt, 0), NEW p \in Level, NEW i \in 1 .. Len(c.que[p]),
                        p < lvl + 1 \/ (p = lvl + 1 /\ i > cnt'), Need(c, c.que[p][i])
                 PROVE  c.que[p][i] = 0
      BY DEF Found
    <3>1. c.que[p] \in Seq(Stream) /\ p \in Int /\ lvl \in Int /\ i \in Int /\ i <= Len(c.que[p]) /\ i > 0
      BY <1>2, <1>3 DEF Conn, Level, Html
    <3>2. p < lvl \/ (p = lvl /\ i > cnt)
      BY <1>4, <3>1
    <3> QED BY <3>2 DEF Found
  <2>4. c'.lpause \/ Found(c', lvl', cnt', 0)
    BY <1>1, <2>1, <2>2, <2>3
  <2>5. Looping'
    <3>1. InLoop /\ InHand = 0 /\ InLoop' /\ InHand' = 0
      BY <1>1, <1>8 DEF InLoop, InHand
    <3>2. \A s \in Stream : Need(c', s) => Queued(c', s) \/ s = 0
      BY <1>1, <3>1 DEF IInv, Looping
    <3> QED BY <2>4, <3>1, <3>2 DEF Looping
  <2>6. Served' /\ Eventful' /\ Waking'
    BY <1>1, <1>8 DEF IInv, Served, Eventful, Waking, InLoop
  <2> QED BY <1>1, <1>2, <1>5, <2>5, <2>6 DEF IInv
<1> QED BY <1>1, <1>7, <1>8

\* The end of processQueue.
LEMMA QueueDoneInv == ASSUME IInv, NEW w \in Took, QueueDone(w) PROVE IInv'
<1> DEFINE d == IF c.wflush THEN Flush(c, w) ELSE c
           e == IF ww /\ d.outWin > 0 THEN ContinueWrite(d) ELSE d
<1>1. pc = "queue" /\ Drained /\ EventReturn(e, ret, ww, w)
  BY DEF QueueDone
<1>2. /\ lvl \in Level /\ cnt \in 0 .. NStreams /\ ww \in BOOLEAN /\ ret \in {"read", "write", "frames"}
      /\ Good(c) /\ Sound(c) /\ c \in Conn /\ c.inEvent /\ (ret = "write" => c.lwant)
  BY <1>1 DEF IInv, LocalType, Good, Sound, Eventful, InLoop
<1>3. w \in Nat
  BY H2ConnAssumption DEF Took
<1>4. c.outWin \in Int
  BY <1>2, H2ConnAssumption DEF Conn, Window
<1>5. Quiet(c, d)
  <2>1. Quiet(c, c)
    BY <1>2 DEF Quiet, SameStatic
  <2> QED BY <1>2, <1>3, <2>1, FlushQuiet
<1> HIDE DEF d
<1>6. d \in Conn /\ d.outWin = c.outWin
  BY <1>5 DEF Quiet, SameStatic
<1>7. Quiet(d, e) /\ (ww /\ c.outWin > 0 => e.lwant)
  <2>1. Quiet(d, d)
    BY <1>6 DEF Quiet, SameStatic
  <2> QED BY <1>6, <2>1, ContinueWriteQuiet
<1> HIDE DEF e
<1>8. Quiet(c, e)
  BY <1>5, <1>7, QuietTrans
<1>9. /\ Good(e) /\ e.inEvent /\ (ret = "write" => e.lwant) /\ e.outWin = c.outWin
      /\ (c.lpause => e.lpause)
  BY <1>2, <1>8, QuietGood DEF Quiet, SameStatic
<1>10. \A s \in Stream : (Need(e, s) <=> Need(c, s)) /\ (Queued(e, s) <=> Queued(c, s))
  BY <1>2, <1>8, QuietGood
<1>11. ASSUME NEW s \in Stream, Need(c, s)
       PROVE  Queued(c, s) /\ (ww \/ c.outWin <= 0 \/ c.lpause)
  <2>1. InLoop /\ InHand = 0 /\ s # 0
    BY <1>1 DEF InLoop, InHand, Stream
  <2>2. Queued(c, s) /\ (ww \/ c.lpause \/ c.outWin <= 0 \/ Found(c, lvl, cnt, 0))
    BY <1>11, <2>1 DEF IInv, Looping
  <2>3. ~ww /\ ~c.lpause /\ ~(c.outWin <= 0) => lvl = Html /\ cnt = 0
    BY <1>1, <1>2, <1>4 DEF Drained, LoopOn
  <2>4. ~(lvl = Html /\ cnt = 0 /\ Found(c, lvl, cnt, 0))
    <3> SUFFICES ASSUME lvl = Html, cnt = 0, Found(c, lvl, cnt, 0) PROVE FALSE
      OBVIOUS
    <3> QED BY <1>2, <1>11, <2>2, FoundAll
  <2> QED BY <2>2, <2>3, <2>4
<1>12. \A s \in Stream : Need(e, s) => Queued(e, s) /\ (e.outWin > 0 /\ ~e.lpause => e.lwant)
  BY <1>4, <1>7, <1>9, <1>10, <1>11
<1>13. ret = "write" /\ ~ww => \A s \in Stream : Need(e, s) => e.outWin <= 0 \/ e.lpause
  BY <1>9, <1>10, <1>11
<1> QED BY <1>1, <1>2, <1>9, <1>12, <1>13, EventReturnInv

(***************************************************************************)
(* A session writes.                                                       *)
(***************************************************************************)
\* A stream whose session is in the middle of a write.
Writing(x) ==
  /\ x.state # "none" /\ (x.state = "CONNECTED" => ~x.init)
  /\ x.state = "CONNECTED" \/ (x.state = "SHUTDOWN" /\ x.hdr /\ x.avail = 0)

\* A step of the session that writes keeps the invariant, in an event of the
\* connection and outside of one.
LEMMA WriteOn ==
  ASSUME IInv, pc = "doWrite", (pc' = "doWrite" /\ Loc) \/ GoBack, NEW s, s = cur,
         Good(c'), Onward(c, c', s), ~c.inEvent => AwakeAt(c', s),
         InMap(c', s), c'.str[s].state = "CONNECTED" => ~c'.str[s].init,
         pc' = "doWrite" => Writing(c'.str[s])
  PROVE  IInv'
<1>1. /\ Good(c) /\ Sound(c) /\ Sound(c') /\ s \in Stream /\ lvl \in Level /\ cnt \in 0 .. NStreams
      /\ c.inEvent \in BOOLEAN /\ c'.inEvent = c.inEvent
      /\ c.outWin \in Int /\ c'.outWin \in Int /\ c'.outWin <= c.outWin
  <2>1. Good(c) /\ Sound(c) /\ Sound(c') /\ c \in Conn /\ c' \in Conn
    BY DEF IInv, Good, Sound
  <2>2. s \in Stream /\ lvl \in Level /\ cnt \in 0 .. NStreams
    BY DEF IInv, LocalType
  <2>3. c.outWin \in Int /\ c'.outWin \in Int /\ c.inEvent \in BOOLEAN
    BY <2>1, H2ConnAssumption DEF Conn, Window
  <2> QED BY <2>1, <2>2, <2>3 DEF Onward
<1>2. CASE c.inEvent
  <2>1. pc' \in {"queued", "doWrite"} /\ ret' = ret /\ lvl' = lvl /\ cnt' = cnt /\ ww' = ww /\ cur' = s
    BY <1>2 DEF GoBack, Loc
  <2>2. LocalType'
    BY <1>1, <2>1 DEF IInv, LocalType
  <2>3. InLoop /\ InHand = s /\ InLoop' /\ InHand' = s
    BY <1>1, <1>2, <2>1 DEF InLoop, InHand
  <2>4. Served'
    BY <2>1 DEF Served, Writing
  <2>5. Eventful' /\ Waking'
    <3>1. (ret = "write" => c.lwant) /\ (c.lwant => c'.lwant)
      BY <2>3 DEF IInv, Eventful, Onward
    <3> QED BY <1>1, <1>2, <2>1, <2>3, <3>1 DEF Eventful, Waking
  <2>6. ASSUME NEW t \in Stream, Need(c', t) PROVE Queued(c', t) \/ t = s
    <3>1. CASE t = s
      BY <3>1
    <3>2. CASE t # s
      <4>1. Need(c, t)
        BY <2>6, <3>2 DEF Onward, Need
      <4>2. Queued(c, t)
        BY <2>3, <3>2, <4>1 DEF IInv, Looping
      <4> QED BY <3>2, <4>2 DEF Onward
    <3> QED BY <3>1, <3>2
  <2>7. ww \/ c'.lpause \/ c'.outWin <= 0 \/ Found(c', lvl, cnt, s)
    <3>1. ww \/ c.lpause \/ c.outWin <= 0 \/ Found(c, lvl, cnt, s)
      BY <2>3 DEF IInv, Looping
    <3>2. c.lpause => c'.lpause
      BY DEF Onward
    <3>3. Found(c, lvl, cnt, s) => Found(c', lvl, cnt, s)
      BY <1>1, FoundOnward
    <3>4. c.outWin <= 0 => c'.outWin <= 0
      BY <1>1
    <3> QED BY <3>1, <3>2, <3>3, <3>4
  <2>8. Looping'
    BY <2>1, <2>3, <2>6, <2>7 DEF Looping
  <2> QED BY <2>2, <2>4, <2>5, <2>8 DEF IInv
<1>3. CASE ~c.inEvent
  <2>1. Awake(c)
    BY <1>3 DEF IInv, Waking, InLoop
  <2>2. Awake(c')
    <3> SUFFICES ASSUME NEW t \in Stream, t # s, Need(c', t)
                 PROVE  Queued(c', t) /\ (c'.outWin > 0 /\ ~c'.lpause => Called(c'))
      BY <1>3 DEF Awake, AwakeAt
    <3>1. Need(c, t)
      BY DEF Onward, Need
    <3>2. Queued(c, t) /\ (c.outWin > 0 /\ ~c.lpause => c.lwant)
      BY <1>3, <2>1, <3>1 DEF Awake, AwakeAt, Called
    <3>3. Queued(c', t) /\ (c.lwant => c'.lwant) /\ (c.lpause => c'.lpause)
      BY <3>2 DEF Onward
    <3>4. c'.outWin > 0 => c.outWin > 0
      BY <1>1
    <3> QED BY <3>2, <3>3, <3>4 DEF Called
  <2>3. CASE pc' = "doWrite" /\ Loc
    <3>1. ret' = ret /\ lvl' = lvl /\ cnt' = cnt /\ ww' = ww /\ cur' = s
      BY <2>3 DEF Loc
    <3>2. LocalType' /\ Served'
      BY <2>3, <3>1 DEF IInv, LocalType, Served, Writing
    <3>3. ~InLoop'
      BY <1>1, <1>3, <2>3 DEF InLoop
    <3>4. Eventful' /\ Waking' /\ Looping'
      BY <2>2, <2>3, <3>3 DEF Eventful, Waking, Looping
    <3> QED BY <3>2, <3>4 DEF IInv
  <2>4. CASE GoBack
    <3>1. pc' = "idle" /\ ret' = "read" /\ lvl' = 0 /\ cnt' = 0 /\ ww' = FALSE /\ cur' = 1
      BY <1>3, <2>4 DEF GoBack, Away
    <3>2. 0 \in Level /\ 0 \in 0 .. NStreams /\ 1 \in Stream
      BY H2ConnAssumption DEF Level, Html, Stream
    <3>3. LocalType'
      BY <3>1, <3>2 DEF LocalType
    <3>4. ~c'.inEvent
      BY <1>1, <1>3
    <3> QED BY <2>2, <3>1, <3>3, <3>4, Between
  <2> QED BY <2>3, <2>4
<1> QED BY <1>1, <1>2, <1>3

\* The same for a step that is an operation on its stream.
LEMMA WriteRel ==
  ASSUME IInv, pc = "doWrite", (pc' = "doWrite" /\ Loc) \/ GoBack, NEW s, s = cur,
         Rel(c, c', s), AtRest(c'.str[s]),
         InMap(c, s), InMap(c', s), c'.str[s].state = "CONNECTED" => ~c'.str[s].init,
         Need(c', s) => AwakeAt(c', s) \/ (c.inEvent \/ (Need(c, s) /\ (Queued(c, s) => Queued(c', s)))),
         pc' = "doWrite" => Writing(c'.str[s])
  PROVE  IInv'
<1>1. Good(c) /\ s \in Stream /\ Weak(c, c', s)
  BY DEF IInv, LocalType, Rel
<1>2. Good(c')
  BY <1>1, GoodStep
<1>3. Onward(c, c', s)
  BY <1>1, RelOnward
<1>4. ~c.inEvent => AwakeAt(c', s)
  <2> SUFFICES ASSUME ~c.inEvent, ~AwakeAt(c', s) PROVE FALSE
    OBVIOUS
  <2>1. Need(c', s)
    BY DEF AwakeAt
  <2>2. Need(c, s) /\ (Queued(c, s) => Queued(c', s))
    BY <2>1
  <2>3. AwakeAt(c, s)
    BY <1>1 DEF IInv, Waking, InLoop, Awake
  <2> QED BY <1>1, <2>2, <2>3, StillAwake
<1> QED BY <1>2, <1>3, <1>4, WriteOn

\* What is known of the stream that writes.
LEMMA WriterKnown ==
  ASSUME IInv, pc = "doWrite", NEW s, s = cur
  PROVE  /\ s \in Stream /\ Good(c) /\ Sound(c) /\ c \in Conn /\ Buffered(c) /\ InMap(c, s)
         /\ Writing(c.str[s]) /\ c.str[s] \in StreamRec /\ s <= c.last
<1>1. s \in Stream /\ Good(c) /\ Sound(c) /\ c \in Conn /\ Buffered(c) /\ InMap(c, s)
  BY DEF IInv, LocalType, Good, Sound, Served
<1>2. Writing(c.str[s])
  BY DEF IInv, Served, Writing, InMap
<1> QED BY <1>1, <1>2 DEF Sound, Conn

\* Two records of a stream that differ in hdr, local or pause only.
Akin(x, y) ==
  /\ y.state = x.state /\ y.win = x.win /\ y.want = x.want /\ y.init = x.init
  /\ y.rel = x.rel /\ y.avail = x.avail /\ y.left = x.left /\ y.peer = x.peer

\* The headers are sent.
LEMMA HdrSet ==
  ASSUME NEW d, Sound(d), NEW s \in Stream, InMap(d, s)
  PROVE  LET e == [d EXCEPT !.str[s].hdr = TRUE]
         IN  Rel(d, e, s) /\ Akin(d.str[s], e.str[s]) /\ e.str[s].hdr /\ (Queued(e, s) <=> Queued(d, s))
<1> DEFINE x == [d.str[s] EXCEPT !.hdr = TRUE]
           e == [d EXCEPT !.str[s].hdr = TRUE]
<1>1. d \in Conn /\ s <= d.last /\ d.str[s] \in StreamRec
  BY DEF Sound, Conn
<1>2. e = SetStr(d, s, x, d.shut)
  BY <1>1 DEF SetStr, Conn
<1>3. x \in StreamRec /\ Alike(d.str[s], x) /\ Akin(d.str[s], x) /\ x.hdr
  BY <1>1 DEF StreamRec, Alike, Akin
<1> HIDE DEF x, e
<1>4. Rel(d, e, s) /\ e.str[s] = x /\ (Queued(e, s) <=> Queued(d, s))
  BY <1>1, <1>2, <1>3, SetAlike
<1>5. Rel(d, e, s) /\ Akin(d.str[s], e.str[s]) /\ e.str[s].hdr /\ (Queued(e, s) <=> Queued(d, s))
  BY <1>3, <1>4
<1> QED BY <1>5, Zenon DEF e

\* The sending half is closed.
LEMMA LocalSet ==
  ASSUME NEW d, Sound(d), NEW s \in Stream, InMap(d, s)
  PROVE  LET e == [d EXCEPT !.str[s].local = TRUE]
         IN  /\ Rel(d, e, s) /\ Akin(d.str[s], e.str[s]) /\ (Queued(e, s) <=> Queued(d, s))
             /\ e.str[s].hdr = d.str[s].hdr
<1> DEFINE x == [d.str[s] EXCEPT !.local = TRUE]
           e == [d EXCEPT !.str[s].local = TRUE]
<1>1. d \in Conn /\ s <= d.last /\ d.str[s] \in StreamRec
  BY DEF Sound, Conn
<1>2. e = SetStr(d, s, x, d.shut)
  BY <1>1 DEF SetStr, Conn
<1>3. x \in StreamRec /\ Alike(d.str[s], x) /\ Akin(d.str[s], x) /\ x.hdr = d.str[s].hdr
  BY <1>1 DEF StreamRec, Alike, Akin
<1> HIDE DEF x, e
<1>4. Rel(d, e, s) /\ e.str[s] = x /\ (Queued(e, s) <=> Queued(d, s))
  BY <1>1, <1>2, <1>3, SetAlike
<1>5. /\ Rel(d, e, s) /\ Akin(d.str[s], e.str[s]) /\ (Queued(e, s) <=> Queued(d, s))
      /\ e.str[s].hdr = d.str[s].hdr
  BY <1>3, <1>4
<1> QED BY <1>5, Zenon DEF e

\* With END_STREAM sent the stream has as much to write as before.
LEMMA EndLocalRel ==
  ASSUME NEW d, Sound(d), NEW s \in Stream, d.str[s].state = "CONNECTED", ~d.str[s].init,
         NEW e, e = EndLocal(d, s)
  PROVE  /\ Rel(d, e, s) /\ e.str[s].state \in {"CONNECTED", "SHUTDOWN"}
         /\ e.str[s].win = d.str[s].win /\ e.str[s].hdr = d.str[s].hdr
         /\ e.str[s].avail = d.str[s].avail /\ e.str[s].left = d.str[s].left
         /\ e.str[s].state = "CONNECTED" => ~e.str[s].init
         /\ Need(e, s) => Need(d, s) /\ (Queued(d, s) => Queued(e, s))
<1> DEFINE b == [d EXCEPT !.str[s].local = TRUE]
<1>1. /\ Rel(d, b, s) /\ Akin(d.str[s], b.str[s]) /\ (Queued(b, s) <=> Queued(d, s))
      /\ b.str[s].hdr = d.str[s].hdr
  BY LocalSet, Zenon DEF InMap
<1>2. e = IF b.str[s].peer THEN MarkShutdown(b, s) ELSE b
  BY DEF EndLocal
<1> HIDE DEF b
<1>3. CASE b.str[s].peer
  <2>1. e = MarkShutdown(b, s) /\ Sound(b) /\ b.str[s].state = "CONNECTED" /\ d \in Conn
    BY <1>1, <1>2, <1>3, RelFacts DEF Akin, Sound
  <2>2. /\ Rel(b, e, s) /\ e.str[s].state = "SHUTDOWN" /\ e.str[s].win = b.str[s].win
        /\ e.str[s].avail = b.str[s].avail /\ e.str[s].left = b.str[s].left
        /\ e.str[s].hdr = b.str[s].hdr
    BY <2>1, MarkShutdownRel
  <2>3. Rel(d, e, s)
    BY <1>1, <2>1, <2>2, RelTrans
  <2> QED BY <1>1, <2>2, <2>3 DEF Akin, Need
<1>4. CASE ~b.str[s].peer
  <2>1. e = b
    BY <1>2, <1>4
  <2> QED BY <1>1, <2>1 DEF Akin, Need
<1> QED BY <1>3, <1>4

\* The headers of a response are written.
LEMMA SendRespHeadersInv ==
  ASSUME IInv, NEW w \in Took, SendRespHeaders(w)
  PROVE  IInv'
<1> DEFINE s == cur
           noBody == c.str[s].avail = 0 /\ c.str[s].left = 0
           a == IF noBody THEN EndLocal(c, s) ELSE c
           g == GuaranteeOutput(a)
           h == [g EXCEPT !.str[s].hdr = TRUE]
           f == IF noBody THEN h ELSE Flush(h, w)
<1>1. pc = "doWrite" /\ ~c.str[s].hdr /\ (noBody \/ c.str[s].avail > 0) /\ pc' = "doWrite" /\ Loc
  BY DEF SendRespHeaders
<1>2. c' = f
  BY DEF SendRespHeaders
<1>3. /\ s \in Stream /\ Good(c) /\ Sound(c) /\ c \in Conn /\ InMap(c, s) /\ Writing(c.str[s])
  BY <1>1, WriterKnown
<1>4. w \in Nat
  BY H2ConnAssumption DEF Took
<1>5. c.str[s].state = "CONNECTED" /\ ~c.str[s].init
  BY <1>1, <1>3 DEF Writing
<1>6. /\ Rel(c, a, s) /\ a.str[s].state \in {"CONNECTED", "SHUTDOWN"}
      /\ a.str[s].win = c.str[s].win
      /\ a.str[s].state = "SHUTDOWN" => a.str[s].avail = 0 /\ a.str[s].left = 0
      /\ a.str[s].state = "CONNECTED" => ~a.str[s].init
      /\ Need(a, s) => Need(c, s) /\ (Queued(c, s) => Queued(a, s))
  <2>1. CASE noBody
    <3>1. a = EndLocal(c, s)
      BY <2>1
    <3> HIDE DEF a, s
    <3>2. /\ Rel(c, a, s) /\ a.str[s].state \in {"CONNECTED", "SHUTDOWN"}
          /\ a.str[s].win = c.str[s].win
          /\ a.str[s].avail = c.str[s].avail /\ a.str[s].left = c.str[s].left
          /\ a.str[s].state = "CONNECTED" => ~a.str[s].init
          /\ Need(a, s) => Need(c, s) /\ (Queued(c, s) => Queued(a, s))
      BY <1>3, <1>5, <3>1, EndLocalRel
    <3> QED BY <2>1, <3>2
  <2>2. CASE ~noBody
    <3>1. a = c
      BY <2>2
    <3>2. Rel(c, c, s)
      BY <1>3, RelRefl
    <3> QED BY <1>5, <3>1, <3>2
  <2> QED BY <2>1, <2>2
<1> HIDE DEF a, s, noBody
<1>7. Sound(a) /\ a \in Conn
  BY <1>3, <1>6, RelFacts
<1>8. Quiet(a, g)
  BY <1>7, GuaranteeOutputQuiet
<1> HIDE DEF g
<1>9. Rel(a, g, s)
  BY <1>3, <1>7, <1>8, QuietRel
<1>10. Sound(g) /\ g.str = a.str /\ g.que = a.que /\ InMap(g, s)
  BY <1>3, <1>6, <1>8, <1>9, RelFacts DEF Quiet, InMap
<1>11. Rel(g, h, s) /\ Akin(g.str[s], h.str[s]) /\ h.str[s].hdr /\ (Queued(h, s) <=> Queued(g, s))
  BY <1>3, <1>10, HdrSet, Zenon
<1> HIDE DEF h
<1>12. Sound(h) /\ h \in Conn
  BY <1>3, <1>11, RelFacts
<1>13. Quiet(h, f)
  <2>1. Quiet(h, h)
    BY <1>12 DEF Quiet, SameStatic
  <2> QED BY <1>4, <1>12, <2>1, FlushQuiet
<1> HIDE DEF f
<1>14. Rel(h, f, s)
  BY <1>3, <1>12, <1>13, QuietRel
<1>15. Rel(c, f, s)
  <2>1. Rel(c, g, s)
    BY <1>3, <1>6, <1>9, RelTrans
  <2>2. Rel(c, h, s)
    BY <1>3, <1>11, <2>1, RelTrans
  <2> QED BY <1>3, <1>14, <2>2, RelTrans
<1>16. f.str[s] = h.str[s] /\ (Queued(f, s) <=> Queued(a, s))
  BY <1>10, <1>11, <1>13 DEF Quiet, Queued
<1>17. /\ f.str[s].state = a.str[s].state /\ f.str[s].win = a.str[s].win /\ f.str[s].init = a.str[s].init
       /\ f.str[s].want = a.str[s].want /\ f.str[s].hdr
       /\ f.str[s].avail = a.str[s].avail /\ f.str[s].left = a.str[s].left
  BY <1>10, <1>11, <1>16 DEF Akin
<1>18. Need(f, s) => Need(c, s) /\ (Queued(c, s) => Queued(f, s))
  BY <1>6, <1>16, <1>17 DEF Need
<1>19. AtRest(f.str[s]) /\ InMap(f, s) /\ Writing(f.str[s])
  BY <1>6, <1>17 DEF AtRest, InMap, Writing
<1>20. f.str[s].state = "CONNECTED" => ~f.str[s].init
  BY <1>6, <1>17
<1>21. s = cur
  BY DEF s
<1> QED BY <1>1, <1>2, <1>3, <1>15, <1>18, <1>19, <1>20, <1>21, WriteRel

\* The stream is paused and wants to write.
LEMMA BlockSet ==
  ASSUME NEW d, Sound(d), NEW s \in Stream, InMap(d, s)
  PROVE  LET e == [d EXCEPT !.str[s].pause = TRUE, !.str[s].want = TRUE]
         IN  /\ Rel(d, e, s) /\ Alike(d.str[s], e.str[s]) /\ e.str[s].want
             /\ e.str[s].win = d.str[s].win /\ e.str[s].init = d.str[s].init
             /\ e.str[s].rel = d.str[s].rel
<1> DEFINE x == [d.str[s] EXCEPT !.pause = TRUE, !.want = TRUE]
           e == [d EXCEPT !.str[s].pause = TRUE, !.str[s].want = TRUE]
<1>1. d \in Conn /\ s <= d.last /\ d.str[s] \in StreamRec
  BY DEF Sound, Conn
<1>2. e = SetStr(d, s, x, d.shut)
  BY <1>1 DEF SetStr, Conn
<1>3. /\ x \in StreamRec /\ Alike(d.str[s], x) /\ x.want
      /\ x.win = d.str[s].win /\ x.init = d.str[s].init /\ x.rel = d.str[s].rel
  BY <1>1 DEF StreamRec, Alike
<1> HIDE DEF x, e
<1>4. Rel(d, e, s) /\ e.str[s] = x
  BY <1>1, <1>2, <1>3, SetAlike
<1>5. /\ Rel(d, e, s) /\ Alike(d.str[s], e.str[s]) /\ e.str[s].want
      /\ e.str[s].win = d.str[s].win /\ e.str[s].init = d.str[s].init
      /\ e.str[s].rel = d.str[s].rel
  BY <1>3, <1>4
<1> QED BY <1>5, Zenon DEF e

\* Nobody's wake-up is lost by a step that changes only the buffer and the flags.
LEMMA QuietAwakeAt ==
  ASSUME NEW d, NEW e, Quiet(d, e), NEW s \in Stream, AwakeAt(d, s)
  PROVE  AwakeAt(e, s)
BY DEF Quiet, SameStatic, AwakeAt, Need, Queued, Called

\* The session cannot write and asks for the write event.
LEMMA WriteBlockedInv == ASSUME IInv, WriteBlocked PROVE IInv'
<1> DEFINE s == cur
           q == [c EXCEPT !.str[s].pause = TRUE, !.str[s].want = TRUE]
           m == EnsureQueued(q, s)
           v == NeedWriteEvent(m)
           d == IF c.str[s].pause THEN c ELSE v
           e == WantWrite(d, s, TRUE)
           f == IF c.inEvent THEN NeedWriteEvent(e) ELSE e
<1>1. pc = "doWrite" /\ c.str[s].avail > 0 /\ GoBack
  BY DEF WriteBlocked
<1>2. c' = f
  BY DEF WriteBlocked
<1>3. /\ s \in Stream /\ Good(c) /\ Sound(c) /\ c \in Conn /\ Buffered(c) /\ InMap(c, s)
      /\ Writing(c.str[s]) /\ c.str[s] \in StreamRec
  BY <1>1, WriterKnown
<1>4. c.str[s].state = "CONNECTED" /\ ~c.str[s].init
  <2>1. c.str[s].avail # 0
    BY <1>1
  <2> QED BY <1>3, <2>1 DEF Writing
<1>5. /\ Rel(c, q, s) /\ Alike(c.str[s], q.str[s]) /\ q.str[s].want
      /\ q.str[s].win = c.str[s].win /\ q.str[s].init = c.str[s].init
      /\ q.str[s].rel = c.str[s].rel
  BY <1>3, BlockSet, Zenon
<1>21. s = cur
  OBVIOUS
<1> HIDE DEF q, s
<1>6. Sound(q) /\ InMap(q, s) /\ Buffered(q)
  BY <1>3, <1>5, RelFacts DEF InMap, Alike, Rel, Weak
<1>7. Rel(q, m, s) /\ Queued(m, s) /\ m.str = q.str
  BY <1>3, <1>6, EnsureQueuedRel
<1> HIDE DEF m
<1>8. Sound(m) /\ m \in Conn /\ Buffered(m)
  BY <1>3, <1>6, <1>7, RelFacts DEF Rel, Weak
<1>9. Quiet(m, v) /\ (v.lwant \/ (m.inEvent /\ v.waitP))
  BY <1>8, NeedWriteEventQuiet
<1> HIDE DEF v
<1>10. /\ Rel(c, v, s) /\ v.str = q.str /\ Queued(v, s) /\ Called(v)
  <2>1. Rel(m, v, s)
    BY <1>3, <1>8, <1>9, QuietRel
  <2>2. Rel(c, m, s)
    BY <1>3, <1>5, <1>7, RelTrans
  <2>3. Rel(c, v, s)
    BY <1>3, <2>1, <2>2, RelTrans
  <2>4. v.str = q.str /\ v.inEvent = m.inEvent /\ (Queued(m, s) => Queued(v, s))
    BY <1>7, <1>9 DEF Quiet, SameStatic, Queued
  <2> QED BY <1>7, <1>9, <2>3, <2>4 DEF Called
<1>11. /\ Rel(c, d, s) /\ Alike(c.str[s], d.str[s]) /\ d.str[s].win = c.str[s].win
       /\ d.str[s].init = c.str[s].init
       /\ d = c \/ (d.str[s].want /\ Queued(d, s) /\ Called(d))
  <2>1. CASE c.str[s].pause
    <3>1. d = c /\ Rel(c, c, s) /\ Alike(c.str[s], c.str[s])
      BY <1>3, <2>1, RelRefl DEF Alike
    <3> QED BY <3>1
  <2>2. CASE ~c.str[s].pause
    <3>1. d = v
      BY <2>2
    <3> QED BY <1>5, <1>10, <3>1
  <2> QED BY <2>1, <2>2
<1> HIDE DEF d
<1>12. Sound(d) /\ InMap(d, s) /\ d.str[s] \in StreamRec /\ Buffered(d)
  BY <1>3, <1>4, <1>11, RelFacts DEF InMap, Alike, Rel, Weak
<1>13. /\ Rel(d, e, s) /\ e.str[s] = [d.str[s] EXCEPT !.want = TRUE]
       /\ Queued(d, s) => Queued(e, s)
       /\ ~d.str[s].want => Queued(e, s)
       /\ ~d.str[s].want => e.lwant \/ (e.inEvent /\ e.waitP)
  BY <1>3, <1>12, WantWriteOn
<1> HIDE DEF e
<1>14. Rel(c, e, s) /\ Sound(e) /\ e \in Conn
  BY <1>3, <1>11, <1>13, RelTrans, RelFacts
<1>15. /\ e.str[s].state = "CONNECTED" /\ ~e.str[s].init /\ e.str[s].win = c.str[s].win
       /\ e.str[s].want
  BY <1>4, <1>11, <1>12, <1>13 DEF Alike, StreamRec
<1>16. AwakeAt(e, s) \/ (Need(c, s) /\ (Queued(c, s) => Queued(e, s)))
       \/ ~Need(e, s)
  <2>1. CASE ~d.str[s].want
    BY <1>13, <2>1 DEF AwakeAt, Called
  <2>2. CASE d.str[s].want /\ d = c
    BY <1>13, <1>15, <1>4, <2>2 DEF Need
  <2>3. CASE d.str[s].want /\ d # c
    <3>1. Queued(d, s) /\ Called(d)
      BY <1>11, <2>3
    <3>2. Queued(e, s) /\ Called(e)
      BY <1>13, <3>1 DEF Called, Rel, Weak, SameStatic
    <3> QED BY <3>2 DEF AwakeAt
  <2> QED BY <2>1, <2>2, <2>3
<1>17. Quiet(e, f)
  <2>1. Quiet(e, e)
    BY <1>14 DEF Quiet, SameStatic
  <2> QED BY <1>14, <2>1, NeedWriteEventQuiet
<1> HIDE DEF f
<1>18. Rel(c, f, s) /\ f.str[s] = e.str[s] /\ (Queued(f, s) <=> Queued(e, s)) /\ (Need(f, s) <=> Need(e, s))
  <2>1. Rel(e, f, s)
    BY <1>3, <1>14, <1>17, QuietRel
  <2> QED BY <1>3, <1>14, <1>17, <2>1, RelTrans DEF Quiet, Queued, Need
<1>19. Need(f, s) => AwakeAt(f, s) \/ (c.inEvent \/ (Need(c, s) /\ (Queued(c, s) => Queued(f, s))))
  BY <1>3, <1>16, <1>17, <1>18, QuietAwakeAt
<1>20. AtRest(f.str[s]) /\ InMap(f, s) /\ f.str[s].win = c.str[s].win /\ ~f.str[s].init /\ Writing(f.str[s])
  BY <1>15, <1>18 DEF AtRest, InMap, Writing
<1> QED BY <1>1, <1>2, <1>3, <1>18, <1>19, <1>20, <1>21, WriteRel

\* The session has written all there is.
LEMMA WriteDoneInv == ASSUME IInv, WriteDone PROVE IInv'
<1> DEFINE s == cur
           d == WantFlush(c)
<1>1. pc = "doWrite" /\ c.str[s].avail = 0 /\ (c.str[s].hdr \/ c.str[s].left > 0) /\ GoBack
  BY DEF WriteDone
<1>2. c' = IF ~c.str[s].hdr THEN WantWrite(c, s, FALSE)
           ELSE IF c.str[s].left = 0 THEN Shutdown(d, s)
           ELSE IF c.inEvent THEN WantWrite(d, s, FALSE) ELSE d
  BY DEF WriteDone
<1>3. /\ s \in Stream /\ Good(c) /\ Sound(c) /\ c \in Conn /\ Buffered(c) /\ InMap(c, s)
      /\ Writing(c.str[s]) /\ c.str[s] \in StreamRec
  BY <1>1, WriterKnown
<1>4. s = cur
  OBVIOUS
<1>5. Quiet(c, d)
  BY <1>3, WantFlushQuiet
<1> HIDE DEF s, d
<1>6. Rel(c, d, s) /\ d.str = c.str /\ (Queued(d, s) <=> Queued(c, s))
  BY <1>3, <1>5, QuietRel DEF Quiet, Queued
<1>7. Sound(d) /\ InMap(d, s)
  BY <1>3, <1>6, RelFacts DEF InMap
<1>7a. pc' # "doWrite"
  BY <1>1 DEF GoBack
<1>8. ASSUME NEW g, Rel(c, g, s), g.str[s] = c.str[s], NEW h, Rel(g, h, s),
             h.str[s] = [g.str[s] EXCEPT !.want = FALSE], c' = h
      PROVE  IInv'
  <2>1. Rel(c, h, s)
    BY <1>3, <1>8, RelTrans
  <2>2. /\ h.str[s].state = c.str[s].state /\ h.str[s].win = c.str[s].win
        /\ h.str[s].init = c.str[s].init /\ ~h.str[s].want /\ h.str[s].rel = c.str[s].rel
    BY <1>3, <1>8 DEF StreamRec
  <2>3. AtRest(h.str[s]) /\ InMap(h, s) /\ (h.str[s].state = "CONNECTED" => ~h.str[s].init) /\ ~Need(h, s)
    BY <1>3, <2>2 DEF Good, AtRest, InMap, Writing, Need
  <2> QED BY <1>1, <1>3, <1>4, <1>7a, <1>8, <2>1, <2>2, <2>3, WriteRel
<1>9. CASE ~c.str[s].hdr
  <2>1. c' = WantWrite(c, s, FALSE)
    BY <1>2, <1>9
  <2>2. Rel(c, c', s) /\ c'.str[s] = [c.str[s] EXCEPT !.want = FALSE] /\ Rel(c, c, s)
    BY <1>3, <2>1, WantWriteOff, RelRefl
  <2> QED BY <1>8, <2>2
<1>10. CASE c.str[s].hdr /\ c.str[s].left = 0
  <2>1. c' = Shutdown(d, s)
    BY <1>2, <1>10
  <2>2. d.str[s].state \in {"CONNECTED", "SHUTDOWN"} /\ d.str[s].hdr
    BY <1>3, <1>6, <1>10 DEF Writing
  <2>3. /\ Rel(d, c', s)
        /\ c'.str[s].state \in {"SHUTDOWN", "RESET", "DISCONNECTED"}
        /\ c'.str[s].state = "RESET" => d.str[s].state = "RESET"
        /\ c'.str[s].state # "DISCONNECTED"
        /\ c'.str[s].win = d.str[s].win
    BY <1>3, <1>7, <2>1, <2>2, ShutdownRel
  <2>4. Rel(c, c', s) /\ c'.str[s].state = "SHUTDOWN" /\ c'.str[s].win = c.str[s].win
    BY <1>3, <1>6, <2>2, <2>3, RelTrans
  <2>5. AtRest(c'.str[s]) /\ InMap(c', s) /\ ~Need(c', s)
    BY <2>4 DEF AtRest, InMap, Need
  <2> QED BY <1>1, <1>3, <1>4, <1>7a, <2>4, <2>5, WriteRel
<1>11. CASE c.str[s].hdr /\ c.str[s].left # 0 /\ c.inEvent
  <2>1. c' = WantWrite(d, s, FALSE)
    BY <1>2, <1>11
  <2>2. Rel(d, c', s) /\ c'.str[s] = [d.str[s] EXCEPT !.want = FALSE]
    BY <1>3, <1>7, <2>1, WantWriteOff
  <2> QED BY <1>6, <1>8, <2>2
<1>12. CASE c.str[s].hdr /\ c.str[s].left # 0 /\ ~c.inEvent
  <2>1. c' = d
    BY <1>2, <1>12
  <2>2. AtRest(d.str[s]) /\ InMap(d, s) /\ (d.str[s].state = "CONNECTED" => ~d.str[s].init)
    BY <1>3, <1>6 DEF Good, InMap, Writing
  <2>3. Need(d, s) => Need(c, s)
    BY <1>6 DEF Need
  <2> QED BY <1>1, <1>3, <1>4, <1>6, <1>7a, <2>1, <2>2, <2>3, WriteRel
<1> QED BY <1>9, <1>10, <1>11, <1>12

\* The application delivers output.
LEMMA AppOutputInv ==
  ASSUME IInv, NEW s \in Stream, NEW n \in 0 .. MaxLen, AppOutput(s, n)
  PROVE  IInv'
<1> DEFINE x == [c.str[s] EXCEPT !.left = @ - n, !.avail = @ + n]
           e == SetStr(c, s, x, c.shut)
<1>1. /\ pc = "idle" /\ n <= c.str[s].left /\ cur' = s /\ pc' = "doWrite"
      /\ ret' = ret /\ lvl' = lvl /\ cnt' = cnt /\ ww' = ww
      /\ c.str[s].state = "CONNECTED" /\ ~c.str[s].init /\ ~c.str[s].rel
  BY DEF AppOutput, Idle, HasSession
<1>2. Good(c) /\ Sound(c) /\ c \in Conn /\ Awake(c) /\ ~c.inEvent
  BY <1>1, Resting
<1>3. c.str[s] \in StreamRec /\ c.shut \in Int /\ InMap(c, s) /\ Filled(c.str[s])
  BY <1>1, <1>2 DEF Conn, InMap, Sound
<1>4. /\ c.str[s].left - n \in 0 .. MaxLen /\ c.str[s].avail + n \in 0 .. MaxLen
      /\ (c.str[s].avail + n) + (c.str[s].left - n) <= MaxLen
  <2>1. /\ c.str[s].left \in Int /\ c.str[s].avail \in Int /\ c.str[s].avail >= 0 /\ c.str[s].left >= 0
        /\ c.str[s].left + c.str[s].avail <= MaxLen /\ n \in Int /\ n >= 0 /\ MaxLen \in Nat
    BY <1>3, H2ConnAssumption DEF StreamRec, Filled
  <2> QED BY <1>1, <2>1
<1>5. x \in StreamRec
  BY <1>3, <1>4 DEF StreamRec
<1>6. /\ x.left = c.str[s].left - n /\ x.avail = c.str[s].avail + n
      /\ x.state = c.str[s].state /\ x.init = c.str[s].init /\ x.pri = c.str[s].pri
      /\ x.win = c.str[s].win /\ x.want = c.str[s].want /\ x.rel = c.str[s].rel
  BY <1>3 DEF StreamRec
<1>7. c' = e
  BY <1>2 DEF AppOutput, SetStr, Conn
<1> HIDE DEF x
<1>8. Same(c, e, s) /\ e.str[s] = x /\ e.shut = c.shut
  BY <1>2, <1>3, <1>5, SetStrSame
<1> HIDE DEF e
<1>9. Follows(c, e, s)
  BY <1>3, <1>6, <1>8 DEF Follows, Bit
<1>10. Filled(e.str[s])
  BY <1>1, <1>4, <1>6, <1>8 DEF Filled
<1>11. InMap(e, s) /\ e.str[s].pri = c.str[s].pri /\ s <= c.last
  BY <1>2, <1>3, <1>6, <1>8 DEF InMap, Sound
<1>12. Rel(c, e, s) /\ (Queued(e, s) <=> Queued(c, s))
  BY <1>2, <1>8, <1>9, <1>10, <1>11, SameRel
<1>13. Weak(c, e, s)
  BY <1>12 DEF Rel
<1>14. AtRest(e.str[s])
  BY <1>1, <1>6, <1>8 DEF AtRest
<1>15. Good(e)
  BY <1>2, <1>3, <1>13, <1>14, GoodStep
<1>16. Need(e, s) => Need(c, s)
  BY <1>6, <1>8 DEF Need
<1>17. AwakeAt(e, s)
  BY <1>2, <1>12, <1>13, <1>16, StillAwake DEF Awake
<1>18. Awake(e)
  BY <1>2, <1>13, <1>17, AwakeStep DEF Awake
<1>19. ~e.inEvent
  BY <1>2, <1>13 DEF Weak, SameStatic
<1>20. LocalType'
  BY <1>1 DEF IInv, LocalType
<1>21. Served'
  BY <1>1, <1>6, <1>7, <1>8 DEF Served, InMap
<1>22. ~InLoop'
  BY <1>1, <1>7, <1>19 DEF InLoop
<1>23. Eventful' /\ Waking' /\ Looping'
  BY <1>1, <1>7, <1>18, <1>22 DEF Eventful, Waking, Looping
<1> QED BY <1>7, <1>15, <1>20, <1>21, <1>23 DEF IInv

\* A DATA frame takes a unit of the connection's window ...
Pay(d, k) == [d EXCEPT !.obuf = k, !.outWin = @ - 1]

\* ... and leaves everything else as it was.
LEMMA PayShape ==
  ASSUME NEW d \in Conn, NEW k \in 0 .. BufFull, d.outWin - 1 \in Window, NEW e, e = Pay(d, k)
  PROVE  /\ e \in Conn /\ e.obuf = k /\ e.outWin = d.outWin - 1
         /\ e.initWin = d.initWin /\ e.open = d.open /\ e.shut = d.shut /\ e.last = d.last
         /\ e.que = d.que /\ e.total = d.total /\ e.str = d.str
         /\ e.lwant = d.lwant /\ e.lpause = d.lpause /\ e.inEvent = d.inEvent
         /\ e.waitP = d.waitP /\ e.wflush = d.wflush
<1>1. e \in Conn
  BY DEF Conn, Pay
<1>2. e.obuf = k /\ e.outWin = d.outWin - 1
  BY DEF Conn, Pay
<1>3. /\ e.initWin = d.initWin /\ e.open = d.open /\ e.shut = d.shut /\ e.last = d.last
      /\ e.que = d.que /\ e.total = d.total /\ e.str = d.str
      /\ e.lwant = d.lwant /\ e.lpause = d.lpause /\ e.inEvent = d.inEvent
      /\ e.waitP = d.waitP /\ e.wflush = d.wflush
  BY DEF Conn, Pay
<1> QED BY <1>1, <1>2, <1>3

\* A DATA frame is written, the last one of a file with END_STREAM.
LEMMA WriteFrameInv ==
  ASSUME IInv, NEW k \in Took, NEW limit \in BOOLEAN, NEW eor \in BOOLEAN,
         WriteFrame(k, limit, eor)
  PROVE  IInv'
<1> DEFINE s == cur
           b == IF eor THEN EndLocal(c, s) ELSE c
           d == IF eor \/ b.inEvent \/ b.obuf = 0 THEN WantFlush(b) ELSE b
           p == limit \/ c.str[s].win = 1
           x == [d.str[s] EXCEPT !.win = @ - 1, !.avail = @ - 1, !.pause = p]
           m == SetStr(d, s, x, d.shut)
           e == Pay(m, k)
<1>1. /\ pc = "doWrite" /\ c.str[s].hdr /\ c.str[s].avail > 0 /\ c.str[s].win > 0 /\ ~OutBufFull(c)
      /\ (eor => c.str[s].avail = 1) /\ pc' = "doWrite" /\ Loc
  BY DEF WriteFrame
<1>2. c' = [d EXCEPT !.obuf = k, !.outWin = @ - 1,
                     !.str[s].win = @ - 1, !.str[s].avail = @ - 1,
                     !.str[s].pause = limit \/ c.str[s].win = 1]
  BY DEF WriteFrame
<1>3. /\ s \in Stream /\ Good(c) /\ Sound(c) /\ c \in Conn /\ Buffered(c) /\ InMap(c, s)
      /\ Writing(c.str[s]) /\ c.str[s] \in StreamRec
  BY <1>1, WriterKnown
<1>4. k \in 0 .. BufFull /\ p \in BOOLEAN
  BY DEF Took
<1>4a. c.str[s].state = "CONNECTED" /\ ~c.str[s].init
  <2>1. c.str[s].avail # 0
    BY <1>1
  <2> QED BY <1>3, <2>1 DEF Writing
<1>4b. eor => b = EndLocal(c, s)
  OBVIOUS
<1>4c. ~eor => b = c
  OBVIOUS
<1>4d. /\ eor \/ b.inEvent \/ b.obuf = 0 => d = WantFlush(b)
       /\ ~(eor \/ b.inEvent \/ b.obuf = 0) => d = b
  OBVIOUS
<1>21. s = cur
  OBVIOUS
<1> HIDE DEF s, b, d, p
<1>5. /\ Rel(c, b, s) /\ b.str[s].state \in {"CONNECTED", "SHUTDOWN"}
      /\ b.str[s].state = "SHUTDOWN" => eor
      /\ b.str[s].win = c.str[s].win /\ b.str[s].hdr = c.str[s].hdr
      /\ b.str[s].avail = c.str[s].avail /\ b.str[s].left = c.str[s].left
      /\ b.str[s].state = "CONNECTED" => ~b.str[s].init
      /\ Need(b, s) => Need(c, s) /\ (Queued(c, s) => Queued(b, s))
  <2>1. CASE eor
    BY <1>3, <1>4a, <1>4b, <2>1, EndLocalRel
  <2>2. CASE ~eor
    BY <1>3, <1>4a, <1>4c, <2>2, RelRefl
  <2> QED BY <2>1, <2>2
<1>6. Sound(b) /\ b \in Conn /\ Buffered(b) /\ b.str[s] \in StreamRec
  BY <1>3, <1>5, RelFacts DEF Rel, Weak
<1>7. Quiet(b, d) /\ (d.lwant \/ (d.inEvent /\ d.wflush))
  <2>1. CASE eor \/ b.inEvent \/ b.obuf = 0
    <3>1. /\ Quiet(b, WantFlush(b))
          /\ WantFlush(b).lwant \/ (b.inEvent /\ WantFlush(b).wflush)
      BY <1>6, WantFlushQuiet
    <3> QED BY <1>4d, <2>1, <3>1 DEF Quiet, SameStatic
  <2>2. CASE ~(eor \/ b.inEvent \/ b.obuf = 0)
    <3>1. d = b /\ b.obuf > 0
      BY <1>4d, <1>6, <2>2 DEF Conn
    <3> QED BY <1>6, <2>2, <3>1 DEF Quiet, SameStatic, Buffered
  <2> QED BY <2>1, <2>2
<1>8. Rel(b, d, s) /\ Sound(d) /\ (Queued(d, s) <=> Queued(b, s)) /\ d.str = b.str
  <2>1. Rel(b, d, s)
    BY <1>3, <1>6, <1>7, QuietRel
  <2> QED BY <1>3, <1>7, <2>1, RelFacts DEF Quiet, Queued
<1>9. /\ d \in Conn /\ d.str[s] = b.str[s] /\ d.str[s] \in StreamRec /\ d.shut \in Int
      /\ InMap(d, s) /\ s <= d.last /\ Filled(d.str[s])
  <2>1. d \in Conn /\ InMap(d, s) /\ Filled(d.str[s])
    BY <1>3, <1>5, <1>8 DEF Sound, InMap
  <2> QED BY <1>3, <1>6, <1>8, <2>1 DEF Sound, Conn
<1>10. c' = e
  <2>1. c' = [d EXCEPT !.obuf = k, !.outWin = @ - 1,
                       !.str[s].win = @ - 1, !.str[s].avail = @ - 1, !.str[s].pause = p]
    BY <1>2 DEF p
  <2> DEFINE Y == [d.str EXCEPT ![s] = x]
  <2>2. [d.str EXCEPT ![s].win = @ - 1, ![s].avail = @ - 1, ![s].pause = p] = Y
    BY <1>3, <1>9 DEF Conn
  <2>3. c' = [d EXCEPT !.obuf = k, !.outWin = @ - 1, !.str = Y]
    BY <1>9, <2>1, <2>2 DEF Conn
  <2>4. m = [d EXCEPT !.str = Y]
    BY <1>9 DEF Conn, SetStr
  <2> HIDE DEF Y
  <2>5. e = [m EXCEPT !.obuf = k, !.outWin = @ - 1]
    BY DEF Pay
  <2> HIDE DEF m, e
  <2>6. e = [d EXCEPT !.obuf = k, !.outWin = @ - 1, !.str = Y]
    BY <1>9, <2>4, <2>5 DEF Conn
  <2> QED BY <2>3, <2>6
<1>11. /\ c.outWin \in Window /\ c.outWin > 0 /\ c.outWin - 1 \in Window
       /\ d.str[s].win \in Window /\ d.str[s].win - 1 \in Window
       /\ d.str[s].avail \in 0 .. MaxLen /\ d.str[s].avail - 1 \in 0 .. MaxLen
       /\ (eor => d.str[s].avail - 1 = 0)
  <2>1. c.outWin \in Window /\ d.str[s].win \in Window /\ d.str[s].avail \in 0 .. MaxLen
    BY <1>3, <1>9 DEF Conn, StreamRec
  <2>2. MaxWindow \in Nat /\ MaxLen \in Nat /\ ~(c.outWin <= 0)
    BY <1>1, H2ConnAssumption DEF OutBufFull
  <2>3. d.str[s].win > 0 /\ d.str[s].avail > 0 /\ (eor => d.str[s].avail = 1)
    BY <1>1, <1>5, <1>9
  <2> QED BY <2>1, <2>2, <2>3 DEF Window
<1>12. x \in StreamRec
  BY <1>4, <1>9, <1>11 DEF StreamRec
<1>13. /\ x.state = d.str[s].state /\ x.init = d.str[s].init /\ x.pri = d.str[s].pri
       /\ x.win = d.str[s].win - 1 /\ x.avail = d.str[s].avail - 1 /\ x.left = d.str[s].left
       /\ x.want = d.str[s].want /\ x.hdr = d.str[s].hdr
  BY <1>9 DEF StreamRec
<1> HIDE DEF x
<1>14. Same(d, m, s) /\ m.str[s] = x /\ m.shut = d.shut
  BY <1>3, <1>9, <1>12, SetStrSame
<1> HIDE DEF m
<1>15. Rel(c, m, s) /\ (Queued(m, s) <=> Queued(b, s)) /\ Sound(m) /\ m \in Conn
  <2>2. Follows(d, m, s)
    BY <1>9, <1>13, <1>14 DEF Follows, Bit
  <2>3. Filled(m.str[s])
    <3>1. d.str[s].left \in 0 .. MaxLen
      BY <1>9 DEF StreamRec
    <3>2. (d.str[s].avail - 1) + d.str[s].left <= MaxLen
      BY <1>9, <1>11, <3>1, H2ConnAssumption DEF Filled
    <3>3. d.str[s].init => d.str[s].avail = 0
      BY <1>9 DEF Filled
    <3>4. ~d.str[s].init
      BY <1>11, <3>3, H2ConnAssumption
    <3> QED BY <1>13, <1>14, <3>2, <3>4 DEF Filled
  <2>4. InMap(m, s) /\ m.str[s].pri = d.str[s].pri
    BY <1>9, <1>13, <1>14 DEF InMap
  <2>5. Rel(d, m, s) /\ (Queued(m, s) <=> Queued(d, s))
    BY <1>3, <1>8, <1>9, <1>14, <2>2, <2>3, <2>4, SameRel
  <2>6. Rel(c, d, s)
    BY <1>3, <1>5, <1>8, RelTrans
  <2>7. Rel(c, m, s)
    BY <1>3, <2>5, <2>6, RelTrans
  <2> QED BY <1>3, <1>8, <2>5, <2>7, RelFacts
<1>16. /\ m.outWin = c.outWin /\ m.open = c.open /\ m.inEvent = c.inEvent
       /\ (m.lwant \/ (m.inEvent /\ m.wflush))
  <2>1. m.lwant = d.lwant /\ m.wflush = d.wflush /\ m.inEvent = d.inEvent
    BY <1>14 DEF Same, SameStatic
  <2> QED BY <1>7, <1>15, <2>1 DEF Rel, Weak, SameStatic
<1>17. /\ e \in Conn /\ e.obuf = k /\ e.outWin = m.outWin - 1
       /\ e.initWin = m.initWin /\ e.open = m.open /\ e.shut = m.shut /\ e.last = m.last
       /\ e.que = m.que /\ e.total = m.total /\ e.str = m.str
       /\ e.lwant = m.lwant /\ e.lpause = m.lpause /\ e.inEvent = m.inEvent
       /\ e.waitP = m.waitP /\ e.wflush = m.wflush
  <2>1. m.outWin - 1 \in Window
    BY <1>11, <1>16
  <2> QED BY <1>4, <1>15, <2>1, PayShape
<1> HIDE DEF e
<1>18. Sound(e) /\ Buffered(e)
  <2>1. Done(e) = Done(m) /\ Over(e) = Over(m)
    BY <1>17 DEF Done, Over
  <2>2. Counted(e)
    BY <1>15, <1>17, <2>1 DEF Counted, Sound
  <2>3. Buffered(e)
    BY <1>16, <1>17 DEF Buffered
  <2> QED BY <1>15, <1>17, <2>2, <2>3 DEF Sound, InMap
<1>19. ASSUME NEW t \in Stream PROVE AtRest(e.str[t]) /\ (InMap(e, t) => e.open)
  <2>0. AtRest(c.str[t]) /\ (InMap(c, t) => c.open)
    BY <1>3 DEF Good
  <2>1. CASE t # s
    <3>1. e.str[t] = c.str[t] /\ e.open = c.open
      BY <1>15, <1>16, <1>17, <2>1 DEF Rel, Weak
    <3> QED BY <2>0, <3>1 DEF InMap
  <2>2. CASE t = s
    <3>1. e.str[s] = x /\ e.open = c.open /\ x.state \in {"CONNECTED", "SHUTDOWN"}
      BY <1>5, <1>9, <1>13, <1>14, <1>16, <1>17
    <3> QED BY <1>3, <2>0, <2>2, <3>1 DEF AtRest
  <2> QED BY <2>1, <2>2
<1>20. Good(e)
  BY <1>18, <1>19 DEF Good
<1>22. e.outWin <= c.outWin /\ (e.outWin > 0 => c.outWin > 0)
  BY <1>11, <1>16, <1>17, H2ConnAssumption DEF Window
<1>23. Onward(c, e, s)
  <2>1. Later(c, e, s)
    BY <1>15, <1>17 DEF Rel, Later
  <2>2. \A t \in Stream : Queued(e, t) <=> Queued(m, t)
    BY <1>17 DEF Queued
  <2> QED BY <1>15, <1>17, <1>22, <2>1, <2>2 DEF Rel, Weak, SameStatic, Onward
<1>24. ~c.inEvent => AwakeAt(e, s)
  <2> SUFFICES ASSUME ~c.inEvent, Need(e, s)
               PROVE  Queued(e, s) /\ (e.outWin > 0 /\ ~e.lpause => Called(e))
    BY DEF AwakeAt
  <2>0. b.str[s].win > 0
    BY <1>1, <1>5
  <2>1. Need(b, s)
    BY <1>9, <1>13, <1>14, <1>17, <2>0 DEF Need
  <2>2. AwakeAt(c, s)
    BY <1>1, <1>3 DEF IInv, Waking, InLoop, Awake
  <2>3. Need(c, s) /\ (Queued(c, s) => Queued(b, s)) /\ (Queued(e, s) <=> Queued(m, s))
    BY <1>5, <1>17, <2>1 DEF Queued
  <2>4. Queued(e, s)
    BY <1>15, <2>2, <2>3 DEF AwakeAt
  <2>5. (c.lwant => e.lwant) /\ (c.lpause => e.lpause)
    BY <1>23 DEF Onward
  <2> QED BY <1>22, <2>2, <2>3, <2>4, <2>5 DEF AwakeAt, Called
<1>25. /\ InMap(e, s) /\ (e.str[s].state = "CONNECTED" => ~e.str[s].init)
       /\ Writing(e.str[s])
  <2>1. e.str[s] = x /\ x.state = b.str[s].state /\ x.init = b.str[s].init /\ x.hdr = c.str[s].hdr
    BY <1>5, <1>9, <1>13, <1>14, <1>17
  <2>2. x.state = "SHUTDOWN" => x.avail = 0
    BY <1>5, <1>11, <1>13, <2>1
  <2> QED BY <1>1, <1>5, <2>1, <2>2 DEF InMap, Writing
<1> QED BY <1>1, <1>10, <1>20, <1>21, <1>23, <1>24, <1>25, WriteOn

(***************************************************************************)
(* The theorems.                                                           *)
(***************************************************************************)
\* The invariant holds at first ...
LEMMA InitInv == Init => IInv
<1> SUFFICES ASSUME Init PROVE IInv
  OBVIOUS
<1>0. PICK n \in StreamLimits : c = InitConn(n)
  BY DEF Init
<1>1. /\ c = InitConn(n) /\ pc = "idle" /\ ret = "read" /\ lvl = 0 /\ cnt = 0 /\ ww = FALSE /\ cur = 1
      /\ n \in Nat
  BY <1>0, H2ConnAssumption DEF Init
<1>2. 0 \in Level /\ 0 \in 0 .. NStreams /\ 1 \in Stream
  BY H2ConnAssumption DEF Level, Html, Stream
<1>3. LocalType
  BY <1>1, <1>2 DEF LocalType
<1>4. /\ MaxWindow \in Nat /\ InitWindow \in 0 .. MaxWindow /\ InitWindow \in Int /\ InitWindow \in Window
      /\ 0 \in 0 .. BufFull
  BY H2ConnAssumption DEF Window
<1>5. c \in Conn
  BY <1>1, <1>2, <1>4, NewStreamType DEF InitConn, Conn
<1>6. /\ c.que = [p \in Level |-> <<>>] /\ c.total = [p \in Level |-> 0] /\ c.shut = 0 /\ c.last = 0
      /\ c.str = [s \in Stream |-> NewStream] /\ c.obuf = 0 /\ ~c.inEvent
  BY <1>1 DEF InitConn
<1>7. \A s \in Stream : c.str[s].state = "none" /\ c.str[s].init = FALSE /\ c.str[s].avail = 0 /\ c.str[s].left = 0
  BY <1>6 DEF NewStream
<1>8. Counted(c)
  <2>1. Done(c) = {}
    BY <1>7 DEF Done
  <2>2. IsFiniteSet(Over(c))
    BY StreamFinite, FS_Subset DEF Over
  <2>3. Cardinality(Over(c)) \in Nat
    BY <2>2, FS_CardinalityType
  <2>4. Cardinality(Done(c)) = 0
    BY <2>1, FS_EmptySet
  <2> QED BY <1>6, <2>3, <2>4 DEF Counted
<1>9. Sound(c)
  <2>1. \A p \in Level : c.que[p] = <<>> /\ Len(c.que[p]) = 0 /\ c.total[p] = 0
    BY <1>6
  <2>2. \A s \in Stream : ~InMap(c, s)
    BY <1>7 DEF InMap
  <2>3. \A s \in Stream : Filled(c.str[s])
    BY <1>7, H2ConnAssumption DEF Filled
  <2> QED BY <1>5, <1>8, <2>1, <2>2, <2>3 DEF Sound
<1>10. Good(c)
  <2>1. \A s \in Stream : AtRest(c.str[s]) /\ ~InMap(c, s)
    BY <1>7 DEF AtRest, InMap
  <2> QED BY <1>6, <1>9, <2>1 DEF Good, Buffered
<1>11. Awake(c)
  BY <1>7 DEF Awake, AwakeAt, Need
<1>12. Served /\ Eventful /\ Waking /\ Looping
  BY <1>1, <1>6, <1>11 DEF Served, Eventful, Waking, Looping, InLoop
<1> QED BY <1>3, <1>10, <1>12 DEF IInv

\* ... it is kept by every frame of the client,
LEMMA FrameInv == ASSUME IInv, Frame PROVE IInv'
<1>1. ASSUME NEW fin \in BOOLEAN, NEW n \in Len0, NEW h \in How, HeadersFrame(fin, n, h) PROVE IInv'
  BY <1>1, HeadersFrameInv
<1>2. ASSUME NEW s \in Stream, EndStreamFrame(s) PROVE IInv'
  BY <1>2, EndStreamFrameInv
<1>3. ASSUME NEW s \in Stream, RstFrame(s) PROVE IInv'
  BY <1>3, RstFrameInv
<1>4. ASSUME NEW s \in Stream, NEW p \in Level, PriorityFrame(s, p) PROVE IInv'
  BY <1>4, PriorityFrameInv
<1>5. ASSUME NEW s \in Stream, NEW n \in Deltas \cup {0}, WindowUpdateStream(s, n) PROVE IInv'
  BY <1>5, WindowUpdateStreamInv
<1>6. ASSUME NEW u \in InitWindows \cup {c.initWin}, NEW v \in InitWindows \cup {c.initWin},
             SettingsFrame(u, v)
      PROVE IInv'
  BY <1>6, SettingsFrameInv
<1>7. ASSUME NEW n \in Deltas, NEW w \in Took, WindowUpdateConn(n, w) PROVE IInv'
  BY <1>7, WindowUpdateConnInv
<1>8. ASSUME NEW fin \in BOOLEAN, NEW w \in Took, UndecodedHeaders(fin, w) PROVE IInv'
  BY <1>8, UndecodedHeadersInv
<1>9. ASSUME NEW w \in Took, BadFrame(w) PROVE IInv'
  BY <1>9, BadFrameInv
<1> QED BY <1>1, <1>2, <1>3, <1>4, <1>5, <1>6, <1>7, <1>8, <1>9 DEF Frame

\* by every step of the loops and of a write,
LEMMA InternalInv == ASSUME IInv, Internal PROVE IInv'
<1>1. ASSUME NEW n \in Len0, NEW h \in How, PendingStep(n, h) PROVE IInv'
  BY <1>1, PendingStepInv
<1>2. ASSUME NEW n \in Len0, NEW h \in How, QueueStep(n, h) PROVE IInv'
  BY <1>2, QueueStepInv
<1>3. ASSUME NEW w \in Took, PendingDone(w) PROVE IInv'
  BY <1>3, PendingDoneInv
<1>4. ASSUME NEW w \in Took, QueueDone(w) PROVE IInv'
  BY <1>4, QueueDoneInv
<1>5. ASSUME NEW w \in Took, SendRespHeaders(w) PROVE IInv'
  BY <1>5, SendRespHeadersInv
<1>6. ASSUME NEW k \in Took, NEW limit \in BOOLEAN, NEW eor \in BOOLEAN, WriteFrame(k, limit, eor)
      PROVE  IInv'
  BY <1>6, WriteFrameInv
<1>7. CASE QueueNext
  BY <1>7, QueueNextInv
<1>8. CASE LevelDone
  BY <1>8, LevelDoneInv
<1>9. CASE WriteBlocked
  BY <1>9, WriteBlockedInv
<1>10. CASE WriteDone
  BY <1>10, WriteDoneInv
<1> QED BY <1>1, <1>2, <1>3, <1>4, <1>5, <1>6, <1>7, <1>8, <1>9, <1>10 DEF Internal

\* by every event,
LEMMA EventInv == ASSUME IInv, Event PROVE IInv'
<1>1. CASE ReadStart
  BY <1>1, ReadStartInv
<1>2. ASSUME NEW w \in Took, WriteEvent(w) PROVE IInv'
  BY <1>2, WriteEventInv
<1>3. ASSUME NEW w \in Took, ReadEnd(w) PROVE IInv'
  BY <1>3, ReadEndInv
<1>4. ASSUME NEW s \in Stream, NEW n \in 0 .. MaxLen, AppOutput(s, n) PROVE IInv'
  BY <1>4, AppOutputInv
<1>5. ASSUME NEW s \in Stream, AppFail(s) PROVE IInv'
  BY <1>5, AppFailInv
<1>6. ASSUME NEW T \in SUBSET Stream, Timer(T) PROVE IInv'
  BY <1>6, TimerInv
<1>7. ASSUME NEW w \in Took, TimerGoAway(w) PROVE IInv'
  BY <1>7, TimerGoAwayInv
<1> QED BY <1>1, <1>2, <1>3, <1>4, <1>5, <1>6, <1>7 DEF Event

\* and so by every step.
LEMMA NextInv == ASSUME IInv, [Next]_vars PROVE IInv'
<1>1. CASE Frame
  BY <1>1, FrameInv
<1>2. CASE Internal
  BY <1>2, InternalInv
<1>3. CASE Event
  BY <1>3, EventInv
<1>4. CASE UNCHANGED vars
  <2>1. /\ c' = c /\ pc' = pc /\ ret' = ret /\ lvl' = lvl /\ cnt' = cnt /\ ww' = ww /\ cur' = cur
    BY <1>4 DEF vars
  <2> QED BY <2>1 DEF IInv, LocalType, Served, Eventful, Waking, Looping, InLoop, InHand
<1> QED BY <1>1, <1>2, <1>3, <1>4 DEF Next

\* The invariant holds of every behaviour of the connection, for any number of
\* streams, any window and buffer sizes and any settings of the client.
THEOREM H2Inductive == Spec => []IInv
<1>1. Init => IInv
  BY InitInv
<1>2. IInv /\ [Next]_vars => IInv'
  BY NextInv
<1> QED BY <1>1, <1>2, PTL DEF Spec

\* Types: windows stay int32_t values, m_iCurrentShutdownStreams between 0 and
\* the number of streams, and no stream is left in the state RESET.
THEOREM H2Types == Spec => []TypeOK
<1>1. ASSUME IInv PROVE TypeOK
  <2>1. c \in Conn /\ Counted(c) /\ LocalType
    BY <1>1 DEF IInv, Good, Sound
  <2>2. c.shut \in 0 .. NStreams
    <3>1. IsFiniteSet(Done(c)) /\ IsFiniteSet(Over(c)) /\ Over(c) \subseteq Stream
      BY StreamFinite, FS_Subset DEF Done, Over
    <3>2. Cardinality(Done(c)) \in Nat /\ Cardinality(Over(c)) \in Nat
      BY <3>1, FS_CardinalityType
    <3>3. Cardinality(Over(c)) <= NStreams
      BY <3>1, StreamFinite, FS_Subset
    <3>4. c.shut \in Int
      BY <2>1 DEF Conn
    <3> QED BY <2>1, <3>2, <3>3, <3>4, H2ConnAssumption DEF Counted
  <2>3. ASSUME NEW s \in Stream
        PROVE  /\ c.str[s].state \in {"none", "CONNECTED", "CLOSING", "SHUTDOWN", "DISCONNECTED"}
               /\ c.str[s].win \in Window /\ c.str[s].pri \in Level
               /\ c.str[s].avail + c.str[s].left \in 0 .. MaxLen
    <3>1. c.str[s] \in StreamRec /\ AtRest(c.str[s]) /\ Filled(c.str[s])
      BY <1>1 DEF IInv, Good, Sound, Conn
    <3>2. c.str[s].avail + c.str[s].left \in 0 .. MaxLen
      BY <3>1, H2ConnAssumption DEF StreamRec, Filled
    <3> QED BY <3>1, <3>2 DEF StreamRec, AtRest
  <2>4. /\ c.outWin \in Window /\ c.initWin \in 0 .. MaxWindow /\ c.last \in 0 .. NStreams
        /\ c.obuf \in 0 .. BufFull
        /\ \A p \in Level : c.que[p] \in Seq(Stream) /\ c.total[p] \in Int
    BY <2>1 DEF Conn
  <2> QED BY <2>1, <2>2, <2>3, <2>4 DEF TypeOK, LocalType
<1> QED BY <1>1, H2Inductive, PTL

\* The priority queues count the streams they hold, which are streams of the
\* map, of the queue's own priority and queued once: recycleStream never gives
\* a stream to the pool that a queue still links.
THEOREM H2Queues == Spec => []QueuesSound
<1>1. ASSUME IInv PROVE QueuesSound
  <2>1. Sound(c)
    BY <1>1 DEF IInv, Good
  <2>2. ASSUME NEW p \in Level, NEW i \in 1 .. Len(c.que[p]), NEW j \in 1 .. i - 1
        PROVE  c.que[p][j] # c.que[p][i]
    <3>1. c.que[p] \in Seq(Stream)
      BY <2>1 DEF Sound, Conn
    <3>2. j \in 1 .. Len(c.que[p]) /\ j # i
      BY <3>1
    <3> QED BY <2>1, <3>2 DEF Sound
  <2> QED BY <2>1, <2>2 DEF Sound, QueuesSound
<1> QED BY <1>1, H2Inductive, PTL

\* No wake-up is lost between events: what is buffered and who is to be served
\* has a write event coming, as far as the code promises one.
THEOREM H2WakeUp == Spec => []WakeupPending
<1>1. ASSUME IInv PROVE WakeupPending
  <2> SUFFICES ASSUME pc = "idle"
               PROVE  /\ c.obuf > 0 => c.lwant
                      /\ \A s \in Stream : Need(c, s) => Queued(c, s) /\ (c.outWin > 0 /\ ~c.lpause => c.lwant)
    BY DEF WakeupPending, Need
  <2>1. Buffered(c) /\ Awake(c) /\ ~c.inEvent
    BY <1>1 DEF IInv, Good, Waking, InLoop, Eventful
  <2> QED BY <2>1 DEF Buffered, Awake, AwakeAt, Called
<1> QED BY <1>1, H2Inductive, PTL

\* The number of streams that getNewStream takes off the size of the map is
\* never too small.
THEOREM H2Counted == Spec => []ShutdownCounted
<1>1. ASSUME IInv PROVE ShutdownCounted
  <2>1. Cardinality(Done(c)) <= c.shut /\ c.shut \in Int
    BY <1>1 DEF IInv, Good, Sound, Counted, Conn
  <2>2. IsFiniteSet(Done(c))
    BY StreamFinite, FS_Subset DEF Done
  <2>3. Cardinality(Done(c)) \in Nat
    BY <2>2, FS_CardinalityType
  <2> QED BY <2>1, <2>3 DEF ShutdownCounted, Done
<1> QED BY <1>1, H2Inductive, PTL

\* The assertion of TDLinkQueue::pop_front holds as long as no rewrite rule
\* sets the priority of a stream that is queued.
THEOREM H2PopFront == Spec => []PopFrontSound
<1>1. ASSUME IInv PROVE PopFrontSound
  <2>1. Sound(c) /\ lvl \in Level
    BY <1>1 DEF IInv, Good, LocalType
  <2>2. c.que[lvl] = <<>> => Len(c.que[lvl]) = 0
    OBVIOUS
  <2> QED BY <2>1, <2>2 DEF Sound, PopFrontSound
<1> QED BY <1>1, H2Inductive, PTL
==============================================================================
