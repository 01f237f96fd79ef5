---------------------------- MODULE H2ConnLemmas ----------------------------
(***************************************************************************)
(* Lemmas about the operators of H2Conn: what each operation on a stream   *)
(* keeps of the connection, and the invariant the proofs of the actions    *)
(* (H2Conn_proofs) are about.                                              *)
(***************************************************************************)
EXTENDS H2Conn, FiniteSetTheorems, WellFoundedInduction, SequenceTheorems, TLAPS

(***************************************************************************)
(* Induction over numbers and finite sets, stated with sets in place of    *)
(* predicates, and what it says of a fold over a finite set.               *)
(***************************************************************************)
\* A set of natural numbers has a least one.
LEMMA LeastNat ==
  ASSUME NEW T, T \subseteq Nat, T # {}
  PROVE  \E n \in T : \A m \in T : n <= m
<1>1. PICK n \in T : \A m \in T : ~ (<<m, n>> \in OpToRel(<, Nat))
  BY NatLessThanWellFounded, WFMin
<1>2. \A m \in T : ~(m < n)
  BY <1>1 DEF OpToRel
<1> QED BY <1>2

\* A set with zero and the successors of its members has all numbers.
LEMMA AllNat ==
  ASSUME NEW T, T \subseteq Nat, 0 \in T, \A n \in T : n + 1 \in T
  PROVE  T = Nat
<1> SUFFICES ASSUME Nat \ T # {} PROVE FALSE
  OBVIOUS
<1>1. PICK n \in Nat \ T : \A m \in Nat \ T : n <= m
  BY LeastNat
<1>2. n # 0 /\ n \in Nat
  BY <1>1
<1>3. n - 1 \in Nat /\ (n - 1) + 1 = n /\ ~(n <= n - 1)
  BY <1>2
<1>4. n - 1 \in T
  BY <1>1, <1>3
<1> QED BY <1>1, <1>3, <1>4

\* A function that takes an element of each part of S that has one.
Picks(pick, S) == \A s \in SUBSET S : s # {} => pick[s] \in s

\* Q has a part of S if it has it without the element that is picked.
Grows(Q, S, pick) == \A s \in SUBSET S : s # {} /\ s \ {pick[s]} \in Q => s \in Q

\* The step leads from the values for s \ {x} to those for s.
Leads(F, S, G) == \A s \in SUBSET S : \A x \in s : \A g \in G[s \ {x}] : F[x][g] \in G[s]

\* A set of parts of a finite set S that has the empty one, and with s without
\* some element of it also s, has them all.
LEMMA AllSubsets ==
  ASSUME NEW S, IsFiniteSet(S), NEW pick, Picks(pick, S), NEW Q, {} \in Q, Grows(Q, S, pick)
  PROVE  SUBSET S \subseteq Q
<1> USE DEF Picks, Grows
<1> DEFINE T == {n \in Nat : \A s \in SUBSET S : Cardinality(s) = n => s \in Q}
<1>1. \A s \in SUBSET S : IsFiniteSet(s) /\ Cardinality(s) \in Nat
  BY FS_Subset, FS_CardinalityType
<1>2. 0 \in T
  <2>1. \A s \in SUBSET S : Cardinality(s) = 0 => s = {}
    BY <1>1, FS_EmptySet
  <2> QED BY <2>1
<1>3. ASSUME NEW n \in T PROVE n + 1 \in T
  <2>1. n \in Nat /\ n + 1 \in Nat /\ \A s \in SUBSET S : Cardinality(s) = n => s \in Q
    OBVIOUS
  <2>2. ASSUME NEW s \in SUBSET S, Cardinality(s) = n + 1 PROVE s \in Q
    <3>1. s # {}
      <4>1. Cardinality({}) = 0 /\ 0 # n + 1
        BY <2>1, FS_EmptySet
      <4> QED BY <2>2, <4>1
    <3>2. pick[s] \in s /\ s \ {pick[s]} \in SUBSET S
      BY <3>1
    <3>3. Cardinality(s \ {pick[s]}) = Cardinality(s) - 1
      BY <1>1, <3>2, FS_RemoveElement
    <3>4. Cardinality(s \ {pick[s]}) = n
      BY <2>1, <2>2, <3>3
    <3>5. s \ {pick[s]} \in Q
      BY <2>1, <3>2, <3>4
    <3> QED BY <3>1, <3>5
  <2> QED BY <2>1, <2>2
<1>4. T = Nat
  <2>1. T \subseteq Nat
    OBVIOUS
  <2> HIDE DEF T
  <2> QED BY <1>2, <1>3, <2>1, AllNat
<1>5. ASSUME NEW s \in SUBSET S PROVE s \in Q
  <2>1. Cardinality(s) \in T
    BY <1>1, <1>4
  <2> QED BY <2>1
<1> QED BY <1>5

\* The step of a fold: the result for s from the one for s without an element.
IsFold(h, S, F, pick, base) ==
  \A s \in SUBSET S :
    h[s] = IF s = {} THEN base ELSE F[pick[s]][h[s \ {pick[s]}]]

\* A fold over a finite set S, whose values for a part s are in G[s] if the
\* step leads from G[s \ {x}] to G[s], exists.
LEMMA FoldExists ==
  ASSUME NEW S, IsFiniteSet(S), NEW U, NEW G \in [SUBSET S -> SUBSET U],
         NEW base \in G[{}], NEW F \in [S -> [U -> U]],
         NEW pick, Picks(pick, S), Leads(F, S, G)
  PROVE  \E h \in [SUBSET S -> U] :
           IsFold(h, S, F, pick, base) /\ \A s \in SUBSET S : h[s] \in G[s]
<1> USE DEF Picks, Leads
<1> DEFINE Right(h, s) ==
      /\ h[s] = IF s = {} THEN base ELSE F[pick[s]][h[s \ {pick[s]}]]
      /\ h[s] \in G[s]
<1> DEFINE T == {n \in Nat : \E h \in [SUBSET S -> U] :
                   \A s \in SUBSET S : Cardinality(s) <= n => Right(h, s)}
<1>0. base \in U
  OBVIOUS
<1>1. \A s \in SUBSET S : /\ IsFiniteSet(s) /\ Cardinality(s) \in Nat
                          /\ Cardinality(s) = 0 => s = {}
                          /\ s # {} => /\ pick[s] \in S /\ s \ {pick[s]} \in SUBSET S
                                       /\ Cardinality(s \ {pick[s]}) = Cardinality(s) - 1
  <2> SUFFICES ASSUME NEW s \in SUBSET S
      PROVE /\ IsFiniteSet(s) /\ Cardinality(s) \in Nat
            /\ Cardinality(s) = 0 => s = {}
            /\ s # {} => /\ pick[s] \in S /\ s \ {pick[s]} \in SUBSET S
                         /\ Cardinality(s \ {pick[s]}) = Cardinality(s) - 1
    OBVIOUS
  <2>1. IsFiniteSet(s) /\ Cardinality(s) \in Nat
    BY FS_Subset, FS_CardinalityType
  <2>2. Cardinality(s) = 0 => s = {}
    BY <2>1, FS_EmptySet
  <2>3. s # {} => pick[s] \in s /\ Cardinality(s \ {pick[s]}) = Cardinality(s) - 1
    BY <2>1, FS_RemoveElement
  <2> QED BY <2>1, <2>2, <2>3
<1>2. 0 \in T
  <2> DEFINE h == [s \in SUBSET S |-> base]
  <2>1. h \in [SUBSET S -> U]
    BY <1>0
  <2>2. ASSUME NEW s \in SUBSET S, Cardinality(s) <= 0 PROVE Right(h, s)
    <3>0. Cardinality(s) \in Nat
      BY <1>1
    <3>1. Cardinality(s) = 0
      BY <2>2, <3>0
    <3>2. s = {}
      BY <1>1, <3>1
    <3> QED BY <3>2
  <2> HIDE DEF h
  <2> QED BY <2>1, <2>2
<1>3. ASSUME NEW n \in T PROVE n + 1 \in T
  <2>1. n \in Nat
    OBVIOUS
  <2>2. PICK h \in [SUBSET S -> U] :
          \A s \in SUBSET S : Cardinality(s) <= n => Right(h, s)
    OBVIOUS
  <2> HIDE DEF T, Right
  <2> DEFINE k == [s \in SUBSET S |-> IF Cardinality(s) = n + 1
                                      THEN F[pick[s]][h[s \ {pick[s]}]] ELSE h[s]]
  <2>3. \A s \in SUBSET S : Cardinality(s) = n + 1 => s # {}
    <3>1. Cardinality({}) = 0 /\ 0 # n + 1
      BY <2>1, FS_EmptySet
    <3> QED BY <3>1
  <2>4. k \in [SUBSET S -> U]
    BY <1>1, <2>3
  <2>5. \A s \in SUBSET S : k[s] = IF Cardinality(s) = n + 1
                                   THEN F[pick[s]][h[s \ {pick[s]}]] ELSE h[s]
    OBVIOUS
  <2> HIDE DEF k
  <2>6. ASSUME NEW s \in SUBSET S, Cardinality(s) <= n + 1 PROVE Right(k, s)
    <3>1. CASE Cardinality(s) = n + 1
      <4>1. s # {} /\ pick[s] \in s /\ s \ {pick[s]} \in SUBSET S
        BY <2>3, <3>1
      <4>2. Cardinality(s \ {pick[s]}) = n
        <5>1. Cardinality(s \ {pick[s]}) = Cardinality(s) - 1
          BY <1>1, <4>1
        <5> QED BY <2>1, <3>1, <5>1
      <4>3. n <= n /\ n # n + 1
        BY <2>1
      <4>4. k[s \ {pick[s]}] = h[s \ {pick[s]}] /\ h[s \ {pick[s]}] \in G[s \ {pick[s]}]
        BY <2>2, <2>5, <4>1, <4>2, <4>3 DEF Right
      <4>5. k[s] = F[pick[s]][h[s \ {pick[s]}]]
        BY <2>5, <3>1
      <4>6. F[pick[s]][h[s \ {pick[s]}]] \in G[s]
        BY <4>1, <4>4
      <4> QED BY <4>1, <4>4, <4>5, <4>6 DEF Right
    <3>2. CASE Cardinality(s) <= n
      <4>1. Cardinality(s) # n + 1 /\ Right(h, s)
        BY <1>1, <2>1, <2>2, <3>2
      <4>2. k[s] = h[s]
        BY <2>5, <4>1
      <4>3. s # {} => k[s \ {pick[s]}] = h[s \ {pick[s]}]
        <5> SUFFICES ASSUME s # {} PROVE k[s \ {pick[s]}] = h[s \ {pick[s]}]
          OBVIOUS
        <5>1. s \ {pick[s]} \in SUBSET S /\ Cardinality(s \ {pick[s]}) = Cardinality(s) - 1
          BY <1>1
        <5>2. Cardinality(s) \in Nat
          BY <1>1
        <5>3. Cardinality(s \ {pick[s]}) # n + 1
          BY <2>1, <3>2, <5>1, <5>2
        <5> QED BY <2>5, <5>1, <5>3
      <4> QED BY <4>1, <4>2, <4>3 DEF Right
    <3>3. Cardinality(s) \in Nat
      BY <1>1
    <3>4. Cardinality(s) = n + 1 \/ Cardinality(s) <= n
      BY <2>1, <2>6, <3>3
    <3> QED BY <3>1, <3>2, <3>4
  <2>7. n + 1 \in Nat
    BY <2>1
  <2> QED BY <2>4, <2>6, <2>7 DEF T
<1>4. T = Nat
  <2>1. T \subseteq Nat
    OBVIOUS
  <2> HIDE DEF T
  <2> QED BY <1>2, <1>3, <2>1, AllNat
<1>5. Cardinality(S) \in Nat /\ \A s \in SUBSET S : Cardinality(s) <= Cardinality(S)
  BY FS_Subset, FS_CardinalityType
<1>6. Cardinality(S) \in T
  BY <1>4, <1>5
<1>7. PICK h \in [SUBSET S -> U] :
        \A s \in SUBSET S : Cardinality(s) <= Cardinality(S) => Right(h, s)
  BY <1>6
<1> HIDE DEF T
<1>8. \A s \in SUBSET S : Right(h, s)
  BY <1>5, <1>7
<1> QED BY <1>8 DEF IsFold

(***************************************************************************)
(* What an operation on a stream does to the connection (Rel), and a step  *)
(* that touches only the output buffer and the flags (Quiet).              *)
(***************************************************************************)
\* The records a stream can be.
StreamRec ==
  [state : {"none", "CONNECTED", "CLOSING", "SHUTDOWN", "RESET", "DISCONNECTED"},
   win : Window, want : BOOLEAN, pause : BOOLEAN, init : BOOLEAN, rel : BOOLEAN,
   hdr : BOOLEAN, peer : BOOLEAN, local : BOOLEAN, pri : Level,
   avail : 0 .. MaxLen, left : 0 .. MaxLen]

\* The records the connection can be.
Conn ==
  [outWin : Window, initWin : 0 .. MaxWindow, last : 0 .. NStreams, shut : Int,
   que : [Level -> Seq(Stream)], total : [Level -> Int],
   obuf : 0 .. BufFull, lwant : BOOLEAN, lpause : BOOLEAN,
   inEvent : BOOLEAN, waitP : BOOLEAN, pend : BOOLEAN, wflush : BOOLEAN,
   open : BOOLEAN, nset : Nat, limit : Nat,
   str : [Stream -> StreamRec]]

\* Streams that are done and still in the map.
Done(d) == {s \in Stream : d.str[s].state = "SHUTDOWN"}
\* Streams the client has opened that are not served any more.
Over(d) == {s \in Stream : s <= d.last /\ d.str[s].state \notin {"CONNECTED", "CLOSING"}}

\* m_iCurrentShutdownStreams covers the streams that are done, and counts no
\* stream that is being served.
Counted(d) == Cardinality(Done(d)) <= d.shut /\ d.shut <= Cardinality(Over(d))

\* A response has at most MaxLen units, and none before there is a session.
Filled(x) == x.avail + x.left <= MaxLen /\ (x.init => x.avail = 0 /\ x.left = 0)

\* Queues, map and counters of the connection agree.
Sound(d) ==
  /\ d \in Conn
  /\ \A p \in Level : d.total[p] = Len(d.que[p])
  /\ \A p \in Level : \A i \in 1 .. Len(d.que[p]) :
        InMap(d, d.que[p][i]) /\ d.str[d.que[p][i]].pri = p
  /\ \A p \in Level : \A i, j \in 1 .. Len(d.que[p]) :
        d.que[p][i] = d.que[p][j] => i = j
  /\ \A s \in Stream : InMap(d, s) => s <= d.last
  /\ \A s \in Stream : Filled(d.str[s])
  /\ Counted(d)

\* Output in the buffer has somebody who will flush it: the write event, or
\* the end of the event that is running.
Buffered(d) == d.obuf > 0 => d.lwant \/ (d.inEvent /\ d.wflush)

\* Streams other than s do not move towards the tail of a queue: who is at
\* place j of a queue now was at j or behind it before.
Later(d, e, s) ==
  \A p \in Level : \A j \in 1 .. Len(e.que[p]) :
    e.que[p][j] # s => \E i \in j .. Len(d.que[p]) : d.que[p][i] = e.que[p][j]

\* What no operation on a stream changes.
SameStatic(d, e) ==
  /\ e.outWin = d.outWin /\ e.initWin = d.initWin /\ e.last = d.last
  /\ e.inEvent = d.inEvent /\ e.open = d.open /\ e.pend = d.pend

\* What an operation on stream s does to the connection: it stays sound, the
\* other streams are as they were and stay queued, and no flag that asks for a
\* write event is taken back.
Weak(d, e, s) ==
  /\ Sound(e)
  /\ SameStatic(d, e)
  /\ \A t \in Stream \ {s} : e.str[t] = d.str[t] /\ (Queued(d, t) => Queued(e, t))
  /\ d.lwant => e.lwant
  /\ d.waitP => e.waitP
  /\ d.lpause => e.lpause
  /\ Buffered(d) => Buffered(e)

\* The same, and nobody else is moved back in a queue.
Rel(d, e, s) == Weak(d, e, s) /\ Later(d, e, s)

\* Only the buffer and the flags differ.
Quiet(d, e) ==
  /\ e \in Conn
  /\ SameStatic(d, e)
  /\ e.que = d.que /\ e.total = d.total /\ e.str = d.str /\ e.shut = d.shut
  /\ d.lwant => e.lwant
  /\ d.waitP => e.waitP
  /\ d.lpause => e.lpause
  /\ Buffered(d) => Buffered(e)

\* A stream is queued when it is at some place of some queue.
LEMMA QueuedIn == ASSUME NEW d \in Conn, NEW s \in Stream
  PROVE Queued(d, s) <=> \E p \in Level : \E i \in 1 .. Len(d.que[p]) : d.que[p][i] = s
BY DEF Queued, ToSet, Conn

\* The relation Rel of an operation on a stream is reflexive ...
LEMMA RelRefl == ASSUME NEW d, Sound(d), NEW s \in Stream PROVE Rel(d, d, s)
BY DEF Rel, Weak, Sound, SameStatic, Later, Conn

\* ... and transitive, so that it holds of the composition of operations.
LEMMA RelTrans ==
  ASSUME NEW d, NEW e, NEW f, NEW s \in Stream, Rel(d, e, s), Rel(e, f, s), d \in Conn
  PROVE Rel(d, f, s)
<1>1. Later(d, f, s)
  <2> SUFFICES ASSUME NEW p \in Level, NEW j \in 1 .. Len(f.que[p]), f.que[p][j] # s
               PROVE \E i \in j .. Len(d.que[p]) : d.que[p][i] = f.que[p][j]
    BY DEF Later
  <2>1. PICK i \in j .. Len(e.que[p]) : e.que[p][i] = f.que[p][j]
    BY DEF Rel, Later
  <2>2. i \in 1 .. Len(e.que[p]) /\ e.que[p][i] # s
    BY <2>1 DEF Rel, Weak, Sound, Conn
  <2>3. PICK k \in i .. Len(d.que[p]) : d.que[p][k] = e.que[p][i]
    BY <2>2 DEF Rel, Later
  <2> QED BY <2>1, <2>3 DEF Conn
<1>2. Weak(d, f, s)
  BY DEF Rel, Weak, SameStatic
<1> QED BY <1>1, <1>2 DEF Rel

\* Rel holds of a step that changes only the buffer and the flags.
LEMMA QuietRel == ASSUME NEW d, NEW e, Sound(d), Quiet(d, e), NEW s \in Stream PROVE Rel(d, e, s)
<1>0. Counted(e)
  <2>1. Done(e) = Done(d) /\ Over(e) = Over(d)
    BY DEF Done, Over, Quiet, SameStatic
  <2> QED BY <2>1 DEF Counted, Sound, Quiet
<1>1. Sound(e)
  BY <1>0 DEF Sound, Quiet, InMap, SameStatic
<1>2. Later(d, e, s)
  BY DEF Later, Quiet, Sound, Conn
<1>3. \A t \in Stream : Queued(d, t) => Queued(e, t)
  BY DEF Queued, Quiet
<1> QED BY <1>1, <1>2, <1>3 DEF Rel, Weak, Quiet

\* Such steps compose.
LEMMA QuietTrans == ASSUME NEW d, NEW e, NEW f, Quiet(d, e), Quiet(e, f) PROVE Quiet(d, f)
BY DEF Quiet, SameStatic

\* continueWrite asks the socket for a write event and changes nothing else.
LEMMA ContinueWriteQuiet == ASSUME NEW d \in Conn PROVE
   Quiet(d, ContinueWrite(d)) /\ ContinueWrite(d).lwant
BY DEF ContinueWrite, Conn, Quiet, SameStatic, Buffered

\* wantFlush leaves somebody who flushes the buffer.
LEMMA WantFlushQuiet == ASSUME NEW d \in Conn PROVE
   Quiet(d, WantFlush(d)) /\ Buffered(WantFlush(d)) /\ (WantFlush(d).lwant \/ (d.inEvent /\ WantFlush(d).wflush))
BY DEF WantFlush, ContinueWrite, Conn, Quiet, SameStatic, Buffered

\* needWriteEvent calls for the write event, or leaves that to the flush of
\* what is buffered.
LEMMA NeedWriteEventQuiet == ASSUME NEW d \in Conn PROVE
   /\ Quiet(d, NeedWriteEvent(d))
   /\ Buffered(d) => NeedWriteEvent(d).lwant \/ (d.inEvent /\ NeedWriteEvent(d).waitP)
<1>1. CASE d.inEvent
  BY <1>1 DEF NeedWriteEvent, Conn, Quiet, SameStatic, Buffered
<1>2. CASE ~d.inEvent /\ d.obuf = 0
  BY <1>2, ContinueWriteQuiet DEF NeedWriteEvent
<1>3. CASE ~d.inEvent /\ d.obuf # 0
  <2>1. NeedWriteEvent(d) = d /\ d.obuf > 0
    BY <1>3 DEF NeedWriteEvent, Conn
  <2> QED BY <1>3, <2>1 DEF Quiet, SameStatic, Buffered
<1> QED BY <1>1, <1>2, <1>3

\* guaranteeOutput leaves somebody who flushes what it has buffered.
LEMMA GuaranteeOutputQuiet == ASSUME NEW d \in Conn PROVE
   /\ Quiet(d, GuaranteeOutput(d))
   /\ Buffered(GuaranteeOutput(d))
<1> DEFINE b == [d EXCEPT !.obuf = Grow(d)]
<1>1. Grow(d) \in 0 .. BufFull
  BY H2ConnAssumption DEF Grow, Conn
<1>2. b \in Conn
  BY <1>1 DEF Conn
<1>3. /\ SameStatic(d, b) /\ b.que = d.que /\ b.total = d.total /\ b.str = d.str
      /\ b.shut = d.shut /\ b.lwant = d.lwant /\ b.waitP = d.waitP /\ b.lpause = d.lpause
  BY DEF Conn, SameStatic
<1> HIDE DEF b
<1>4. Quiet(b, WantFlush(b)) /\ Buffered(WantFlush(b))
  BY <1>2, WantFlushQuiet
<1>5. GuaranteeOutput(d) = WantFlush(b)
  BY DEF GuaranteeOutput, b
<1> QED BY <1>3, <1>4, <1>5 DEF Quiet, SameStatic

\* flush leaves the write event to somebody if it leaves output.
LEMMA FlushQuiet == ASSUME NEW d \in Conn, NEW w \in Nat PROVE
   /\ Quiet(d, Flush(d, w))
   /\ Flush(d, w).obuf > 0 => Flush(d, w).lwant
<1>1. CASE w < d.obuf
  <2> DEFINE e == [d EXCEPT !.obuf = @ - w, !.lwant = TRUE, !.lpause = TRUE]
  <2>1. d.obuf - w \in 0 .. BufFull
    BY <1>1, H2ConnAssumption DEF Conn
  <2>2. e \in Conn
    BY <2>1 DEF Conn
  <2>2a. e.lwant /\ e.lpause
    BY <2>1 DEF Conn
  <2>3. /\ SameStatic(d, e) /\ e.que = d.que /\ e.total = d.total /\ e.str = d.str
        /\ e.shut = d.shut /\ e.waitP = d.waitP
    BY DEF Conn, SameStatic
  <2>4. Flush(d, w) = e
    BY <1>1 DEF Flush
  <2> QED BY <2>2, <2>2a, <2>3, <2>4 DEF Quiet, Buffered
<1>2. CASE ~(w < d.obuf)
  <2> DEFINE e == [d EXCEPT !.obuf = 0, !.wflush = FALSE]
  <2>0. 0 \in 0 .. BufFull
    BY H2ConnAssumption
  <2>1. e \in Conn
    BY <2>0 DEF Conn
  <2>1a. e.obuf = 0
    BY H2ConnAssumption DEF Conn
  <2>2. /\ SameStatic(d, e) /\ e.que = d.que /\ e.total = d.total /\ e.str = d.str
        /\ e.shut = d.shut /\ e.waitP = d.waitP /\ e.lwant = d.lwant /\ e.lpause = d.lpause
    BY DEF Conn, SameStatic
  <2>3. Flush(d, w) = e
    BY <1>2 DEF Flush
  <2> QED BY <2>1, <2>1a, <2>2, <2>3 DEF Quiet, Buffered
<1> QED BY <1>1, <1>2

\* Only the record of stream s and the counter of streams that are done differ.
Same(d, e, s) ==
  /\ e \in Conn
  /\ SameStatic(d, e)
  /\ e.que = d.que /\ e.total = d.total
  /\ e.lwant = d.lwant /\ e.waitP = d.waitP /\ e.lpause = d.lpause
  /\ e.obuf = d.obuf /\ e.wflush = d.wflush
  /\ \A t \in Stream \ {s} : e.str[t] = d.str[t]

\* 1 or 0, for counting.
Bit(P) == IF P THEN 1 ELSE 0

\* The counter follows a change of one stream.
Follows(d, e, s) ==
  /\ e.shut - d.shut >= Bit(e.str[s].state = "SHUTDOWN") - Bit(d.str[s].state = "SHUTDOWN")
  /\ e.shut - d.shut <= Bit(e.str[s].state \notin {"CONNECTED", "CLOSING"})
                          - Bit(d.str[s].state \notin {"CONNECTED", "CLOSING"})

\* Two finite sets that differ in s at most: their sizes differ by it.
LEMMA OneMore ==
  ASSUME NEW A, NEW B, IsFiniteSet(A), IsFiniteSet(B), NEW s, A \ {s} = B \ {s}
  PROVE  /\ Cardinality(A) \in Nat /\ Cardinality(B) \in Nat
         /\ Cardinality(B) - Cardinality(A) = Bit(s \in B) - Bit(s \in A)
<1>0. Cardinality(A) \in Nat /\ Cardinality(B) \in Nat
  BY FS_CardinalityType
<1>1. CASE s \in A /\ s \in B
  <2>1. A = B
    BY <1>1
  <2> QED BY <1>0, <2>1 DEF Bit
<1>2. CASE s \notin A /\ s \notin B
  <2>1. A = B
    BY <1>2
  <2> QED BY <1>0, <2>1 DEF Bit
<1>3. CASE s \in A /\ s \notin B
  <2>1. A = B \cup {s}
    BY <1>3
  <2>2. Cardinality(A) = Cardinality(B) + 1
    BY <1>3, <2>1, FS_AddElement
  <2>3. Bit(s \in B) = 0 /\ Bit(s \in A) = 1
    BY <1>3 DEF Bit
  <2> QED BY <1>0, <2>2, <2>3
<1>4. CASE s \notin A /\ s \in B
  <2>1. B = A \cup {s}
    BY <1>4
  <2>2. Cardinality(B) = Cardinality(A) + 1
    BY <1>4, <2>1, FS_AddElement
  <2>3. Bit(s \in B) = 1 /\ Bit(s \in A) = 0
    BY <1>4 DEF Bit
  <2> QED BY <1>0, <2>2, <2>3
<1> QED BY <1>1, <1>2, <1>3, <1>4

\* There are NStreams streams.
LEMMA StreamFinite == IsFiniteSet(Stream) /\ Cardinality(Stream) = NStreams
BY FS_Interval, H2ConnAssumption DEF Stream

\* The counter of streams that are done is right after a change of one stream
\* that it follows.
LEMMA CountedStep ==
  ASSUME NEW d \in Conn, NEW e \in Conn, Counted(d), NEW s \in Stream, s <= d.last, e.last = d.last,
         \A t \in Stream \ {s} : e.str[t].state = d.str[t].state,
         Follows(d, e, s)
  PROVE  Counted(e)
<1>1. /\ IsFiniteSet(Done(d)) /\ IsFiniteSet(Done(e))
      /\ IsFiniteSet(Over(d)) /\ IsFiniteSet(Over(e))
  BY StreamFinite, FS_Subset DEF Done, Over
<1>2. Done(d) \ {s} = Done(e) \ {s} /\ Over(d) \ {s} = Over(e) \ {s}
  BY DEF Done, Over
<1>3. /\ Cardinality(Done(d)) \in Nat /\ Cardinality(Done(e)) \in Nat
      /\ Cardinality(Done(e)) - Cardinality(Done(d)) = Bit(s \in Done(e)) - Bit(s \in Done(d))
  BY <1>1, <1>2, OneMore
<1>4. /\ Cardinality(Over(d)) \in Nat /\ Cardinality(Over(e)) \in Nat
      /\ Cardinality(Over(e)) - Cardinality(Over(d)) = Bit(s \in Over(e)) - Bit(s \in Over(d))
  BY <1>1, <1>2, OneMore
<1>5. /\ Bit(s \in Done(e)) = Bit(e.str[s].state = "SHUTDOWN")
      /\ Bit(s \in Done(d)) = Bit(d.str[s].state = "SHUTDOWN")
      /\ Bit(s \in Over(e)) = Bit(e.str[s].state \notin {"CONNECTED", "CLOSING"})
      /\ Bit(s \in Over(d)) = Bit(d.str[s].state \notin {"CONNECTED", "CLOSING"})
  BY DEF Done, Over, Bit
<1>6. d.shut \in Int /\ e.shut \in Int
  BY DEF Conn
<1> QED BY <1>3, <1>4, <1>5, <1>6 DEF Follows, Counted, Bit

\* A change of one stream's record is an operation on that stream when the
\* counter follows and a queued stream keeps its place in the map and its
\* priority.
LEMMA SameRel ==
  ASSUME NEW d, Sound(d), NEW s \in Stream, NEW e, Same(d, e, s), s <= d.last,
         Follows(d, e, s), Filled(e.str[s]),
         Queued(d, s) => InMap(e, s) /\ e.str[s].pri = d.str[s].pri
  PROVE  Rel(d, e, s) /\ (Queued(e, s) <=> Queued(d, s))
<1>1. \A t \in Stream : Queued(e, t) <=> Queued(d, t)
  BY DEF Queued, Same
<1>2. Sound(e)
  <2>1. ASSUME NEW p \in Level, NEW i \in 1 .. Len(d.que[p])
        PROVE InMap(e, d.que[p][i]) /\ e.str[d.que[p][i]].pri = p
    <3>1. d.que[p][i] \in Stream
      BY DEF Sound, Conn
    <3>2. Queued(d, d.que[p][i])
      BY <3>1, QueuedIn DEF Sound
    <3>3. InMap(d, d.que[p][i]) /\ d.str[d.que[p][i]].pri = p
      BY DEF Sound
    <3> QED BY <3>1, <3>2, <3>3 DEF Same, InMap
  <2>2. Counted(e)
    BY CountedStep DEF Sound, Same, SameStatic
  <2>3. \A t \in Stream : InMap(e, t) => t <= e.last
    BY DEF Sound, Same, SameStatic, InMap
  <2>4. \A t \in Stream : Filled(e.str[t])
    BY DEF Sound, Same
  <2> QED BY <2>1, <2>2, <2>3, <2>4 DEF Sound, Same
<1>3. Later(d, e, s)
  BY DEF Later, Same, Sound, Conn
<1> QED BY <1>1, <1>2, <1>3 DEF Rel, Weak, Same, Buffered, SameStatic

(***************************************************************************)
(* The queues, and the operations of a stream.                             *)
(***************************************************************************)
\* Removing what is not in a sequence changes nothing.
LEMMA RemoveFirstNone ==
  ASSUME NEW q \in Seq(Stream), NEW s, \A i \in 1 .. Len(q) : q[i] # s
  PROVE  RemoveFirst(q, s) = q
<1>1. SelectInSeq(q, LAMBDA v : v = s) = 0
  BY DEF SelectInSeq
<1> QED BY <1>1 DEF RemoveFirst

\* Removing the only occurrence closes the gap.
LEMMA RemoveFirstOne ==
  ASSUME NEW q \in Seq(Stream), NEW s, NEW i \in 1 .. Len(q), q[i] = s,
         \A j \in 1 .. Len(q) : q[j] = s => j = i
  PROVE  /\ RemoveFirst(q, s) \in Seq(Stream)
         /\ Len(RemoveFirst(q, s)) = Len(q) - 1
         /\ \A j \in 1 .. Len(q) - 1 : RemoveFirst(q, s)[j] = IF j < i THEN q[j] ELSE q[j + 1]
<1>1. SelectInSeq(q, LAMBDA v : v = s) = i
  <2>1. {j \in 1 .. Len(q) : q[j] = s} = {i}
    OBVIOUS
  <2> QED BY <2>1 DEF SelectInSeq, Min
<1>2. RemoveFirst(q, s) = SubSeq(q, 1, i-1) \o SubSeq(q, i+1, Len(q))
  BY <1>1 DEF RemoveFirst, RemoveAt
<1>3. /\ SubSeq(q, 1, i-1) \in Seq(Stream) /\ Len(SubSeq(q, 1, i-1)) = i - 1
      /\ \A j \in 1 .. i - 1 : SubSeq(q, 1, i-1)[j] = q[j]
  OBVIOUS
<1>4. /\ SubSeq(q, i+1, Len(q)) \in Seq(Stream) /\ Len(SubSeq(q, i+1, Len(q))) = Len(q) - i
      /\ \A j \in 1 .. Len(q) - i : SubSeq(q, i+1, Len(q))[j] = q[i + j]
  OBVIOUS
<1> DEFINE a == SubSeq(q, 1, i-1)
           b == SubSeq(q, i+1, Len(q))
<1>4a. /\ a \in Seq(Stream) /\ Len(a) = i - 1 /\ \A j \in 1 .. i - 1 : a[j] = q[j]
       /\ b \in Seq(Stream) /\ Len(b) = Len(q) - i /\ \A j \in 1 .. Len(q) - i : b[j] = q[i + j]
  BY <1>3, <1>4
<1> HIDE DEF a, b
<1>5. /\ a \o b \in Seq(Stream) /\ Len(a \o b) = Len(q) - 1
      /\ \A j \in 1 .. Len(q) - 1 : (a \o b)[j] = IF j <= i - 1 THEN a[j] ELSE b[j - (i - 1)]
  BY <1>4a
<1>6. \A j \in 1 .. Len(q) - 1 : (a \o b)[j] = IF j < i THEN q[j] ELSE q[j + 1]
  <2> TAKE j \in 1 .. Len(q) - 1
  <2>1. CASE j < i
    BY <2>1, <1>4a, <1>5
  <2>2. CASE ~(j < i)
    <3>1. j - (i - 1) \in 1 .. Len(q) - i /\ i + (j - (i - 1)) = j + 1
      BY <2>2
    <3> QED BY <3>1, <2>2, <1>4a, <1>5
  <2> QED BY <2>1, <2>2
<1> QED BY <1>2, <1>5, <1>6 DEF a, b

\* TDLinkQueue::remove: nobody but s leaves, nobody moves back, nobody is there
\* twice.
LEMMA RemoveFirstProps ==
  ASSUME NEW q \in Seq(Stream), NEW s \in Stream,
         \A i, j \in 1 .. Len(q) : q[i] = q[j] => i = j
  PROVE  /\ RemoveFirst(q, s) \in Seq(Stream)
         /\ \A j \in 1 .. Len(RemoveFirst(q, s)) :
              /\ RemoveFirst(q, s)[j] # s
              /\ \E k \in j .. Len(q) : q[k] = RemoveFirst(q, s)[j]
         /\ \A i, j \in 1 .. Len(RemoveFirst(q, s)) :
              RemoveFirst(q, s)[i] = RemoveFirst(q, s)[j] => i = j
         /\ \A t \in Stream \ {s} : \A i \in 1 .. Len(q) :
              q[i] = t => \E j \in 1 .. Len(RemoveFirst(q, s)) : RemoveFirst(q, s)[j] = t
<1>1. CASE \A i \in 1 .. Len(q) : q[i] # s
  <2>1. RemoveFirst(q, s) = q
    BY <1>1, RemoveFirstNone
  <2>2. \A j \in 1 .. Len(q) : q[j] # s /\ \E k \in j .. Len(q) : q[k] = q[j]
    BY <1>1
  <2>3. \A t \in Stream \ {s} : \A i \in 1 .. Len(q) :
          q[i] = t => \E j \in 1 .. Len(q) : q[j] = t
    OBVIOUS
  <2> DEFINE r == RemoveFirst(q, s)
  <2>4. r = q
    BY <2>1
  <2> HIDE DEF r
  <2>5. /\ r \in Seq(Stream)
        /\ \A j \in 1 .. Len(r) : r[j] # s /\ \E k \in j .. Len(q) : q[k] = r[j]
        /\ \A i, j \in 1 .. Len(r) : r[i] = r[j] => i = j
        /\ \A t \in Stream \ {s} : \A i \in 1 .. Len(q) :
             q[i] = t => \E j \in 1 .. Len(r) : r[j] = t
    BY <2>2, <2>3, <2>4
  <2> QED BY <2>5 DEF r
<1>2. CASE \E i \in 1 .. Len(q) : q[i] = s
  <2>1. PICK i \in 1 .. Len(q) : q[i] = s
    BY <1>2
  <2> DEFINE r == RemoveFirst(q, s)
  <2>2. /\ r \in Seq(Stream)
        /\ Len(r) = Len(q) - 1
        /\ \A j \in 1 .. Len(q) - 1 : r[j] = IF j < i THEN q[j] ELSE q[j + 1]
    <3>1. \A j \in 1 .. Len(q) : q[j] = s => j = i
      BY <2>1
    <3> QED BY <2>1, <3>1, RemoveFirstOne
  <2> HIDE DEF r
  <2>3. ASSUME NEW j \in 1 .. Len(r)
        PROVE r[j] # s /\ \E k \in j .. Len(q) : q[k] = r[j]
    <3>1. CASE j < i
      BY <3>1, <2>1, <2>2
    <3>2. CASE ~(j < i)
      BY <3>2, <2>1, <2>2
    <3> QED BY <3>1, <3>2
  <2>4. ASSUME NEW j \in 1 .. Len(r), NEW k \in 1 .. Len(r), r[j] = r[k]
        PROVE j = k
    <3> DEFINE J == IF j < i THEN j ELSE j + 1
               K == IF k < i THEN k ELSE k + 1
    <3>1. J \in 1 .. Len(q) /\ K \in 1 .. Len(q) /\ q[J] = r[j] /\ q[K] = r[k]
      BY <2>1, <2>2
    <3>2. J = K
      BY <3>1, <2>4
    <3> QED BY <3>2, <2>2
  <2>5. ASSUME NEW t \in Stream \ {s}, NEW k \in 1 .. Len(q), q[k] = t
        PROVE \E j \in 1 .. Len(r) : r[j] = t
    <3>1. k # i
      BY <2>1, <2>5
    <3>2. CASE k < i
      BY <3>2, <2>2, <2>5
    <3>3. CASE k > i
      <4>1. k - 1 \in 1 .. Len(r) /\ r[k - 1] = q[(k - 1) + 1]
        BY <3>3, <2>1, <2>2
      <4> QED BY <4>1, <2>5
    <3> QED BY <3>1, <3>2, <3>3, <2>1
  <2> QED BY <2>2, <2>3, <2>4, <2>5 DEF r
<1> QED BY <1>1, <1>2

\* A stream is queued in the queue of its priority.
LEMMA QueuedHome ==
  ASSUME NEW d, Sound(d), NEW s \in Stream, Queued(d, s)
  PROVE  \E i \in 1 .. Len(d.que[d.str[s].pri]) : d.que[d.str[s].pri][i] = s
<1>1. d \in Conn
  BY DEF Sound
<1>2. PICK p \in Level : \E i \in 1 .. Len(d.que[p]) : d.que[p][i] = s
  BY <1>1, QueuedIn
<1>3. p = d.str[s].pri
  BY <1>2 DEF Sound
<1> QED BY <1>2, <1>3

\* The connection with other queues; the lemmas below give the operations on
\* queues this form.
ToQue(d, Q, T) == [d EXCEPT !.que = Q, !.total = T]

\* Everything but the queues stays.
LEMMA QueSet ==
  ASSUME NEW d \in Conn, NEW Q \in [Level -> Seq(Stream)], NEW T \in [Level -> Int],
         NEW e, e = ToQue(d, Q, T)
  PROVE  /\ e \in Conn
         /\ SameStatic(d, e) /\ e.str = d.str /\ e.shut = d.shut /\ e.lwant = d.lwant
         /\ e.waitP = d.waitP /\ e.lpause = d.lpause /\ e.obuf = d.obuf /\ e.wflush = d.wflush
         /\ e.que = Q /\ e.total = T
<1>1. e \in Conn
  BY DEF ToQue, Conn
<1>2. /\ SameStatic(d, e) /\ e.str = d.str /\ e.shut = d.shut /\ e.lwant = d.lwant
      /\ e.waitP = d.waitP /\ e.lpause = d.lpause /\ e.obuf = d.obuf /\ e.wflush = d.wflush
      /\ e.que = Q /\ e.total = T
  BY DEF ToQue, Conn, SameStatic
<1> QED BY <1>1, <1>2

\* The shape of removePriQue ...
LEMMA RemoveShape ==
  ASSUME NEW d \in Conn, NEW h \in Level, NEW Q \in [Level -> Seq(Stream)]
  PROVE  [d EXCEPT !.que = Q, !.total[h] = @ - 1]
           = ToQue(d, Q, [d.total EXCEPT ![h] = @ - 1])
BY DEF Conn, ToQue

\* ... and of an append to a queue.
LEMMA AppendShape ==
  ASSUME NEW d \in Conn, NEW h \in Level, NEW s \in Stream
  PROVE  [d EXCEPT !.que[h] = Append(@, s), !.total[h] = @ + 1]
           = ToQue(d, [d.que EXCEPT ![h] = Append(@, s)], [d.total EXCEPT ![h] = @ + 1])
BY DEF Conn, ToQue

\* removePriQue is an operation on s, after which s is in no queue.
LEMMA RemovePriQueRel ==
  ASSUME NEW d, Sound(d), NEW s \in Stream
  PROVE  /\ Rel(d, RemovePriQue(d, s), s)
         /\ ~Queued(RemovePriQue(d, s), s)
         /\ RemovePriQue(d, s).str = d.str /\ RemovePriQue(d, s).shut = d.shut
<1>0. d \in Conn
  BY DEF Sound
<1>1. CASE ~Queued(d, s)
  BY <1>1, RelRefl DEF RemovePriQue
<1>2. CASE Queued(d, s)
  <2> DEFINE Q == [p \in Level |-> RemoveFirst(d.que[p], s)]
             h == d.str[s].pri
             e == [d EXCEPT !.que = Q, !.total[h] = @ - 1]
  <2>1. e = RemovePriQue(d, s)
    BY <1>2 DEF RemovePriQue
  <2>2. ASSUME NEW p \in Level
        PROVE  /\ Q[p] \in Seq(Stream)
               /\ \A j \in 1 .. Len(Q[p]) :
                    /\ Q[p][j] # s
                    /\ \E k \in j .. Len(d.que[p]) : d.que[p][k] = Q[p][j]
               /\ \A i, j \in 1 .. Len(Q[p]) : Q[p][i] = Q[p][j] => i = j
               /\ \A t \in Stream \ {s} : \A i \in 1 .. Len(d.que[p]) :
                    d.que[p][i] = t => \E j \in 1 .. Len(Q[p]) : Q[p][j] = t
    <3>1. d.que[p] \in Seq(Stream) /\ \A i, j \in 1 .. Len(d.que[p]) : d.que[p][i] = d.que[p][j] => i = j
      BY DEF Sound, Conn
    <3> DEFINE q == d.que[p]
    <3>2. Q[p] = RemoveFirst(q, s)
      OBVIOUS
    <3> HIDE DEF Q, q
    <3>3. q \in Seq(Stream) /\ \A i, j \in 1 .. Len(q) : q[i] = q[j] => i = j
      BY <3>1 DEF q
    <3> DEFINE r == RemoveFirst(q, s)
    <3>4. /\ r \in Seq(Stream)
          /\ \A j \in 1 .. Len(r) : r[j] # s /\ \E k \in j .. Len(q) : q[k] = r[j]
          /\ \A i, j \in 1 .. Len(r) : r[i] = r[j] => i = j
          /\ \A t \in Stream \ {s} : \A i \in 1 .. Len(q) :
               q[i] = t => \E j \in 1 .. Len(r) : r[j] = t
      BY <3>3, RemoveFirstProps
    <3> HIDE DEF r
    <3> QED BY <3>2, <3>4 DEF q, r
  <2>3. h \in Level
    BY <1>0 DEF Conn, StreamRec
  <2>4. ASSUME NEW p \in Level PROVE Len(Q[p]) = IF p = h THEN Len(d.que[p]) - 1 ELSE Len(d.que[p])
    <3>1. d.que[p] \in Seq(Stream) /\ \A i, j \in 1 .. Len(d.que[p]) : d.que[p][i] = d.que[p][j] => i = j
      BY DEF Sound, Conn
    <3>2. CASE p = h
      <4>1. PICK i \in 1 .. Len(d.que[p]) : d.que[p][i] = s
        BY <1>2, <3>2, QueuedHome
      <4>2. \A j \in 1 .. Len(d.que[p]) : d.que[p][j] = s => j = i
        BY <4>1, <3>1
      <4> QED BY <3>1, <3>2, <4>1, <4>2, RemoveFirstOne
    <3>3. CASE p # h
      <4>1. \A i \in 1 .. Len(d.que[p]) : d.que[p][i] # s
        BY <3>3 DEF Sound
      <4> QED BY <3>1, <3>3, <4>1, RemoveFirstNone
    <3> QED BY <3>2, <3>3
  <2>5. Q \in [Level -> Seq(Stream)]
    BY <2>2
  <2> HIDE DEF Q, h
  <2> DEFINE T == [d.total EXCEPT ![h] = @ - 1]
  <2>5a. T \in [Level -> Int]
    BY <1>0, <2>3 DEF Conn
  <2>5b. e = ToQue(d, Q, T)
    BY <1>0, <2>3, <2>5, RemoveShape
  <2>5c. \A p \in Level : T[p] = IF p = h THEN d.total[p] - 1 ELSE d.total[p]
    BY <1>0, <2>3 DEF Conn
  <2> HIDE DEF e, T
  <2>6. /\ e \in Conn
        /\ SameStatic(d, e) /\ e.str = d.str /\ e.shut = d.shut /\ e.lwant = d.lwant
        /\ e.waitP = d.waitP /\ e.lpause = d.lpause /\ e.obuf = d.obuf /\ e.wflush = d.wflush
        /\ e.que = Q /\ e.total = T
    BY <1>0, <2>5, <2>5a, <2>5b, QueSet
  <2>7. /\ SameStatic(d, e) /\ e.str = d.str /\ e.shut = d.shut /\ e.lwant = d.lwant
        /\ e.waitP = d.waitP /\ e.lpause = d.lpause /\ e.obuf = d.obuf /\ e.wflush = d.wflush
        /\ e.que = Q
    BY <2>6
  <2>8. \A p \in Level : e.total[p] = IF p = h THEN d.total[p] - 1 ELSE d.total[p]
    BY <2>5c, <2>6
  <2>9. \A p \in Level : e.total[p] = Len(e.que[p])
    BY <2>4, <2>7, <2>8 DEF Sound
  <2>10. \A p \in Level : \A j \in 1 .. Len(e.que[p]) : InMap(e, e.que[p][j]) /\ e.str[e.que[p][j]].pri = p
    <3> SUFFICES ASSUME NEW p \in Level, NEW j \in 1 .. Len(Q[p])
                 PROVE InMap(d, Q[p][j]) /\ d.str[Q[p][j]].pri = p
      BY <2>7 DEF InMap
    <3>1. PICK k \in j .. Len(d.que[p]) : d.que[p][k] = Q[p][j]
      BY <2>2
    <3>2. k \in 1 .. Len(d.que[p])
      BY <1>0 DEF Conn
    <3> QED BY <3>1, <3>2 DEF Sound
  <2>10a. Counted(e)
    <3>1. Done(e) = Done(d) /\ Over(e) = Over(d)
      BY <2>7 DEF Done, Over, SameStatic
    <3> QED BY <2>7, <3>1 DEF Counted, Sound
  <2>10b. \A t \in Stream : (InMap(e, t) => t <= e.last) /\ Filled(e.str[t])
    BY <2>7 DEF Sound, InMap, SameStatic
  <2>11. Sound(e)
    BY <2>2, <2>6, <2>7, <2>9, <2>10, <2>10a, <2>10b DEF Sound
  <2>12. Later(d, e, s)
    BY <2>2, <2>7 DEF Later
  <2>13. ~Queued(e, s)
    BY <2>2, <2>6, <2>7, QueuedIn
  <2>14. \A t \in Stream \ {s} : Queued(d, t) => Queued(e, t)
    <3> SUFFICES ASSUME NEW t \in Stream \ {s}, Queued(d, t) PROVE Queued(e, t)
      OBVIOUS
    <3>1. PICK p \in Level : \E i \in 1 .. Len(d.que[p]) : d.que[p][i] = t
      BY <1>0, QueuedIn
    <3>2. \E j \in 1 .. Len(e.que[p]) : e.que[p][j] = t
      BY <3>1, <2>2, <2>7
    <3> QED BY <3>2, <2>6, QueuedIn
  <2>15. Rel(d, e, s)
    BY <2>7, <2>11, <2>12, <2>14 DEF Rel, Weak, Buffered, SameStatic
  <2> QED BY <2>1, <2>7, <2>13, <2>15
<1> QED BY <1>1, <1>2

\* An append of a stream of the map that is not queued keeps the queues sound.
LEMMA AppendQueRel ==
  ASSUME NEW d, Sound(d), NEW s \in Stream, ~Queued(d, s), InMap(d, s)
  PROVE  /\ Rel(d, AppendQue(d, s), s)
         /\ Queued(AppendQue(d, s), s)
         /\ AppendQue(d, s).str = d.str /\ AppendQue(d, s).shut = d.shut
         /\ AppendQue(d, s).lpause = d.lpause /\ AppendQue(d, s).obuf = d.obuf
<1>0. d \in Conn
  BY DEF Sound
<1> DEFINE h == d.str[s].pri
           e == [d EXCEPT !.que[h] = Append(@, s), !.total[h] = @ + 1]
<1>1. e = AppendQue(d, s)
  BY DEF AppendQue
<1>2. h \in Level
  BY <1>0 DEF Conn, StreamRec
<1> HIDE DEF h
<1> DEFINE T == [d.total EXCEPT ![h] = @ + 1]
           Q == [d.que EXCEPT ![h] = Append(@, s)]
<1>2a. T \in [Level -> Int]
  BY <1>0, <1>2 DEF Conn
<1>2b. Q \in [Level -> Seq(Stream)]
  BY <1>0, <1>2 DEF Conn
<1>2c. e = ToQue(d, Q, T)
  BY <1>0, <1>2, AppendShape
<1>2d. /\ Q[h] = Append(d.que[h], s) /\ T[h] = d.total[h] + 1
       /\ \A p \in Level \ {h} : Q[p] = d.que[p] /\ T[p] = d.total[p]
  <2>1. d.que \in [Level -> Seq(Stream)] /\ d.total \in [Level -> Int]
    BY <1>0 DEF Conn
  <2> QED BY <1>2, <2>1
<1> HIDE DEF e, T, Q
<1>3. /\ e \in Conn
      /\ SameStatic(d, e) /\ e.str = d.str /\ e.shut = d.shut /\ e.lwant = d.lwant
      /\ e.waitP = d.waitP /\ e.lpause = d.lpause /\ e.obuf = d.obuf /\ e.wflush = d.wflush
      /\ e.que = Q /\ e.total = T
  BY <1>0, <1>2a, <1>2b, <1>2c, QueSet
<1>4. /\ SameStatic(d, e) /\ e.str = d.str /\ e.shut = d.shut /\ e.lwant = d.lwant
      /\ e.waitP = d.waitP /\ e.lpause = d.lpause /\ e.obuf = d.obuf /\ e.wflush = d.wflush
  BY <1>3
<1>5. /\ e.que[h] = Append(d.que[h], s) /\ e.total[h] = d.total[h] + 1
      /\ \A p \in Level \ {h} : e.que[p] = d.que[p] /\ e.total[p] = d.total[p]
  BY <1>2d, <1>3
<1>6. \A p \in Level : d.que[p] \in Seq(Stream)
  BY <1>0 DEF Conn
<1> HIDE DEF e
<1>7. ASSUME NEW p \in Level
      PROVE /\ Len(e.que[p]) = IF p = h THEN Len(d.que[p]) + 1 ELSE Len(d.que[p])
            /\ \A j \in 1 .. Len(d.que[p]) : e.que[p][j] = d.que[p][j]
            /\ p = h => e.que[p][Len(d.que[p]) + 1] = s
  <2>1. CASE p = h
    <3>1. e.que[p] = Append(d.que[p], s) /\ d.que[p] \in Seq(Stream)
      BY <1>5, <1>6, <2>1
    <3> DEFINE q == d.que[p]
    <3> HIDE DEF q
    <3>2. q \in Seq(Stream)
      BY <3>1 DEF q
    <3>3. /\ Len(Append(q, s)) = Len(q) + 1
          /\ \A j \in 1 .. Len(q) : Append(q, s)[j] = q[j]
          /\ Append(q, s)[Len(q) + 1] = s
      BY <3>2
    <3> QED BY <2>1, <3>1, <3>3 DEF q
  <2>2. CASE p # h
    BY <1>5, <2>2
  <2> QED BY <2>1, <2>2
<1>7a. h \in Level
  BY <1>2
<1> HIDE DEF h
<1>8. \A p \in Level : \A j \in 1 .. Len(d.que[p]) : d.que[p][j] # s
  BY <1>0, QueuedIn
<1>9. \A p \in Level : e.total[p] = Len(e.que[p])
  BY <1>5, <1>7 DEF Sound
<1>10. ASSUME NEW p \in Level, NEW j \in 1 .. Len(e.que[p])
       PROVE \/ j \in 1 .. Len(d.que[p]) /\ e.que[p][j] = d.que[p][j]
             \/ p = h /\ j = Len(d.que[p]) + 1 /\ e.que[p][j] = s
  BY <1>6, <1>7
<1>11. Sound(e)
  <2>1. \A p \in Level : \A j \in 1 .. Len(e.que[p]) : InMap(e, e.que[p][j]) /\ e.str[e.que[p][j]].pri = p
    BY <1>10, <1>4 DEF Sound, InMap, h
  <2>2. ASSUME NEW p \in Level, NEW i \in 1 .. Len(e.que[p]), NEW j \in 1 .. Len(e.que[p]),
               e.que[p][i] = e.que[p][j]
        PROVE i = j
    BY <1>8, <1>10, <2>2 DEF Sound
  <2>3. Counted(e)
    <3>1. Done(e) = Done(d) /\ Over(e) = Over(d)
      BY <1>4 DEF Done, Over, SameStatic
    <3> QED BY <1>4, <3>1 DEF Counted, Sound
  <2>4. \A t \in Stream : (InMap(e, t) => t <= e.last) /\ Filled(e.str[t])
    BY <1>4 DEF Sound, InMap, SameStatic
  <2> QED BY <1>3, <1>9, <2>1, <2>2, <2>3, <2>4 DEF Sound
<1>12. Later(d, e, s)
  BY <1>6, <1>10 DEF Later
<1>13. Queued(e, s)
  <2>1. Len(d.que[h]) + 1 \in 1 .. Len(e.que[h]) /\ e.que[h][Len(d.que[h]) + 1] = s
    <3>1. h \in Level
      BY <1>7a
    <3>2. Len(d.que[h]) \in Nat
      BY <3>1, <1>6
    <3> QED BY <3>1, <3>2, <1>7
  <2> QED BY <2>1, <1>7a, <1>3, QueuedIn
<1>14. \A t \in Stream \ {s} : Queued(d, t) => Queued(e, t)
  <2> SUFFICES ASSUME NEW t \in Stream \ {s}, Queued(d, t) PROVE Queued(e, t)
    OBVIOUS
  <2>1. PICK p \in Level : \E i \in 1 .. Len(d.que[p]) : d.que[p][i] = t
    BY <1>0, QueuedIn
  <2>2. \E j \in 1 .. Len(e.que[p]) : e.que[p][j] = t
    BY <2>1, <1>6, <1>7
  <2> QED BY <2>2, <1>3, QueuedIn
<1>15. Rel(d, e, s)
  BY <1>4, <1>11, <1>12, <1>14 DEF Rel, Weak, Buffered, SameStatic
<1> QED BY <1>1, <1>4, <1>13, <1>15

\* The connection with another record for s and another count.
SetStr(d, s, x, n) == [d EXCEPT !.str = [d.str EXCEPT ![s] = x], !.shut = n]

\* Everything else stays.
LEMMA SetStrSame ==
  ASSUME NEW d \in Conn, NEW s \in Stream, NEW x \in StreamRec, NEW n \in Int
  PROVE  /\ Same(d, SetStr(d, s, x, n), s)
         /\ SetStr(d, s, x, n).str[s] = x
         /\ SetStr(d, s, x, n).shut = n
<1> DEFINE u == [d.str EXCEPT ![s] = x]
           e == [d EXCEPT !.str = u, !.shut = n]
<1>1. u \in [Stream -> StreamRec] /\ u[s] = x /\ \A t \in Stream \ {s} : u[t] = d.str[t]
  BY DEF Conn
<1>2. SetStr(d, s, x, n) = e
  BY DEF SetStr
<1> HIDE DEF u
<1>3. e \in Conn
  BY <1>1 DEF Conn
<1>4. SameStatic(d, e)
  BY DEF Conn, SameStatic
<1>5. /\ e.que = d.que /\ e.total = d.total
      /\ e.lwant = d.lwant /\ e.waitP = d.waitP /\ e.lpause = d.lpause
      /\ e.obuf = d.obuf /\ e.wflush = d.wflush
      /\ e.str = u /\ e.shut = n
  BY DEF Conn
<1> HIDE DEF e
<1> QED BY <1>1, <1>2, <1>3, <1>4, <1>5 DEF Same

\* x and y differ in nothing the queues and counters depend on
Alike(x, y) ==
  /\ y.state = x.state /\ y.pri = x.pri /\ y.avail = x.avail /\ y.left = x.left
  /\ y.init => x.init

\* A new record for s that the queues and counters cannot tell from the old one.
LEMMA SetAlike ==
  ASSUME NEW d, Sound(d), NEW s \in Stream, NEW x \in StreamRec, Alike(d.str[s], x),
         s <= d.last, NEW e, e = SetStr(d, s, x, d.shut)
  PROVE  /\ Rel(d, e, s) /\ (Queued(e, s) <=> Queued(d, s)) /\ e.str[s] = x /\ e.shut = d.shut
         /\ Same(d, e, s)
<1>1. d \in Conn /\ d.shut \in Int
  BY DEF Sound, Conn
<1>2. Same(d, e, s) /\ e.str[s] = x /\ e.shut = d.shut
  BY <1>1, SetStrSame
<1>3. Queued(d, s) => InMap(e, s) /\ e.str[s].pri = d.str[s].pri
  <2>1. Queued(d, s) => InMap(d, s)
    BY <1>1, QueuedIn DEF Sound
  <2> QED BY <2>1, <1>2 DEF Alike, InMap
<1>4. Follows(d, e, s)
  BY <1>1, <1>2 DEF Follows, Bit, Alike
<1>5. Filled(e.str[s])
  BY <1>2 DEF Alike, Sound, Filled
<1> QED BY <1>2, <1>3, <1>4, <1>5, SameRel

\* add2PriorityQue queues the stream and calls for the write event, at once or
\* at the end of the event.
LEMMA Add2PriorityQueRel ==
  ASSUME NEW d, Sound(d), NEW s \in Stream, InMap(d, s), NEW e, e = Add2PriorityQue(d, s)
  PROVE  /\ Rel(d, e, s) /\ Queued(e, s) /\ e.str = d.str /\ e.shut = d.shut
         /\ d.inEvent => e.waitP
         /\ (~d.inEvent /\ d.outWin > 0) => e.lwant
<1> DEFINE r == RemovePriQue(d, s)
           a == AppendQue(r, s)
           f == [a EXCEPT !.waitP = @ \/ d.inEvent]
<1>1. Rel(d, r, s) /\ ~Queued(r, s) /\ r.str = d.str /\ r.shut = d.shut
  BY RemovePriQueRel
<1>2. Sound(r) /\ InMap(r, s)
  BY <1>1 DEF Rel, Weak, InMap
<1> HIDE DEF r
<1>3. Rel(r, a, s) /\ Queued(a, s) /\ a.str = r.str /\ a.shut = r.shut
  BY <1>1, <1>2, AppendQueRel
<1> HIDE DEF a
<1>4. a \in Conn /\ Sound(a) /\ d \in Conn
  BY <1>3 DEF Rel, Weak, Sound
<1>5. Quiet(a, f) /\ (d.inEvent => f.waitP)
  BY <1>4 DEF Conn, Quiet, SameStatic, Buffered
<1>6. e = IF ~f.inEvent /\ f.outWin > 0 THEN ContinueWrite(f) ELSE f
  BY DEF Add2PriorityQue, r, a
<1> HIDE DEF f
<1>7. f \in Conn
  BY <1>5 DEF Quiet
<1>8. Quiet(f, e) /\ (~f.inEvent /\ f.outWin > 0 => e.lwant)
  <2>1. CASE ~f.inEvent /\ f.outWin > 0
    BY <2>1, <1>6, <1>7, ContinueWriteQuiet
  <2>2. CASE ~(~f.inEvent /\ f.outWin > 0)
    BY <2>2, <1>6, <1>7 DEF Quiet, SameStatic
  <2> QED BY <2>1, <2>2
<1>9. Quiet(a, e)
  BY <1>5, <1>8, QuietTrans
<1>10. Rel(a, e, s)
  BY <1>9, <1>4, QuietRel
<1>11. Rel(d, e, s)
  BY <1>1, <1>3, <1>4, <1>10, <1>2, RelTrans DEF Sound
<1>12. Queued(e, s)
  BY <1>3, <1>9 DEF Queued, Quiet
<1>13. f.inEvent = d.inEvent /\ f.outWin = d.outWin
  BY <1>1, <1>3, <1>5 DEF Rel, Weak, Quiet, SameStatic
<1> QED BY <1>1, <1>3, <1>5, <1>8, <1>9, <1>11, <1>12, <1>13 DEF Quiet

\* The same when it is only done for a stream that is not queued.
LEMMA EnsureQueuedRel ==
  ASSUME NEW d, Sound(d), NEW s \in Stream, InMap(d, s), NEW e, e = EnsureQueued(d, s)
  PROVE  /\ Rel(d, e, s) /\ Queued(e, s) /\ e.str = d.str /\ e.shut = d.shut
         /\ ~Queued(d, s) /\ d.inEvent => e.waitP
         /\ ~Queued(d, s) /\ (~d.inEvent /\ d.outWin > 0) => e.lwant
<1>1. CASE Queued(d, s)
  BY <1>1, RelRefl DEF EnsureQueued
<1>2. CASE ~Queued(d, s)
  BY <1>2, Add2PriorityQueRel DEF EnsureQueued
<1> QED BY <1>1, <1>2

\* H2StreamBase::continueWrite: the stream wants to write, is queued, and the
\* write event is called for.
LEMMA StreamContinueWriteRel ==
  ASSUME NEW d, Sound(d), NEW s \in Stream, InMap(d, s), NEW e, e = StreamContinueWrite(d, s)
  PROVE  /\ Rel(d, e, s) /\ Queued(e, s) /\ e.str[s] = [d.str[s] EXCEPT !.want = TRUE]
         /\ e.shut = d.shut
         /\ Buffered(d) => e.lwant \/ (e.inEvent /\ e.waitP)
<1> DEFINE x == [d.str[s] EXCEPT !.want = TRUE]
           a == [d EXCEPT !.str[s].want = TRUE]
           b == EnsureQueued(a, s)
<1>1. d \in Conn /\ s <= d.last
  BY DEF Sound
<1>2. x \in StreamRec /\ Alike(d.str[s], x)
  BY <1>1 DEF Conn, StreamRec, Alike
<1>3. a = SetStr(d, s, x, d.shut)
  BY <1>1 DEF SetStr, Conn
<1>4. e = NeedWriteEvent(b)
  BY DEF StreamContinueWrite
<1> HIDE DEF a, x
<1>5. Rel(d, a, s) /\ a.str[s] = x /\ a.shut = d.shut
  BY <1>1, <1>2, <1>3, SetAlike
<1>6. Sound(a) /\ InMap(a, s)
  BY <1>2, <1>5 DEF Rel, Weak, InMap, Alike
<1>7. Rel(a, b, s) /\ Queued(b, s) /\ b.str = a.str /\ b.shut = a.shut
  BY <1>6, EnsureQueuedRel
<1> HIDE DEF b
<1>8. Sound(b) /\ b \in Conn /\ a \in Conn
  BY <1>6, <1>7 DEF Rel, Weak, Sound
<1>9. Quiet(b, e) /\ (Buffered(b) => e.lwant \/ (b.inEvent /\ e.waitP))
  BY <1>4, <1>8, NeedWriteEventQuiet
<1>10. Rel(d, e, s)
  BY <1>1, <1>5, <1>7, <1>8, <1>9, QuietRel, RelTrans
<1>11. Queued(e, s) /\ e.str[s] = x /\ e.shut = d.shut /\ e.inEvent = b.inEvent
  BY <1>5, <1>7, <1>9 DEF Quiet, Queued, SameStatic
<1>12. Buffered(d) => Buffered(b)
  BY <1>5, <1>7 DEF Rel, Weak
<1> QED BY <1>9, <1>10, <1>11, <1>12 DEF x

\* wantWrite(1) does the same for a stream that did not want to write.
LEMMA WantWriteOn ==
  ASSUME NEW d, Sound(d), NEW s \in Stream, InMap(d, s), NEW e, e = WantWrite(d, s, TRUE)
  PROVE  /\ Rel(d, e, s) /\ e.str[s] = [d.str[s] EXCEPT !.want = TRUE] /\ e.shut = d.shut
         /\ Queued(d, s) => Queued(e, s)
         /\ ~d.str[s].want => Queued(e, s)
         /\ ~d.str[s].want /\ Buffered(d) => e.lwant \/ (e.inEvent /\ e.waitP)
<1>0. d.str[s] \in StreamRec
  BY DEF Sound, Conn
<1>1. CASE d.str[s].want
  <2>0. d.str[s].want = TRUE
    BY <1>0, <1>1 DEF StreamRec
  <2>1. d.str[s] = [d.str[s] EXCEPT !.want = TRUE]
    BY <1>0, <2>0 DEF StreamRec
  <2>2. e = d
    BY <2>0 DEF WantWrite
  <2> QED BY <1>1, <2>1, <2>2, RelRefl
<1>2. CASE ~d.str[s].want
  <2>1. e = StreamContinueWrite(d, s)
    BY <1>2 DEF WantWrite
  <2>2. /\ Rel(d, e, s) /\ Queued(e, s) /\ e.str[s] = [d.str[s] EXCEPT !.want = TRUE]
        /\ e.shut = d.shut
        /\ Buffered(d) => e.lwant \/ (e.inEvent /\ e.waitP)
    BY <2>1, StreamContinueWriteRel
  <2> QED BY <2>2
<1> QED BY <1>1, <1>2

\* Taking the wish back is an operation on s.
LEMMA WantOff ==
  ASSUME NEW d, Sound(d), NEW s \in Stream, InMap(d, s)
  PROVE  LET e == SetStr(d, s, [d.str[s] EXCEPT !.want = FALSE], d.shut)
         IN  /\ Rel(d, e, s) /\ e.str[s] = [d.str[s] EXCEPT !.want = FALSE] /\ e.shut = d.shut
             /\ Queued(d, s) => Queued(e, s)
<1> DEFINE x == [d.str[s] EXCEPT !.want = FALSE]
           e == SetStr(d, s, x, d.shut)
<1>0. d \in Conn /\ s <= d.last /\ d.str[s] \in StreamRec
  BY DEF Sound, Conn
<1>2. x \in StreamRec /\ Alike(d.str[s], x)
  BY <1>0 DEF StreamRec, Alike
<1>2a. e = SetStr(d, s, x, d.shut)
  OBVIOUS
<1> HIDE DEF x, e
<1>3. Rel(d, e, s) /\ e.str[s] = x /\ e.shut = d.shut /\ (Queued(e, s) <=> Queued(d, s))
  BY <1>0, <1>2, <1>2a, SetAlike
<1> QED BY <1>3 DEF x, e

\* wantWrite(0) takes the wish back and leaves the queues alone.
LEMMA WantWriteOff ==
  ASSUME NEW d, Sound(d), NEW s \in Stream, InMap(d, s), NEW e, e = WantWrite(d, s, FALSE)
  PROVE  /\ Rel(d, e, s) /\ e.str[s] = [d.str[s] EXCEPT !.want = FALSE] /\ e.shut = d.shut
         /\ Queued(d, s) => Queued(e, s)
<1>0. d.str[s] \in StreamRec /\ d \in Conn
  BY DEF Sound, Conn
<1>1. CASE d.str[s].want = FALSE
  <2>1. d.str[s] = [d.str[s] EXCEPT !.want = FALSE]
    BY <1>0, <1>1 DEF StreamRec
  <2>2. e = d
    BY <1>1 DEF WantWrite
  <2> QED BY <2>1, <2>2, RelRefl
<1>2. CASE d.str[s].want # FALSE
  <2>0. e = [d EXCEPT !.str[s].want = FALSE]
    BY <1>2 DEF WantWrite
  <2>1. e = SetStr(d, s, [d.str[s] EXCEPT !.want = FALSE], d.shut)
    BY <1>0, <2>0 DEF SetStr, Conn
  <2> DEFINE f == SetStr(d, s, [d.str[s] EXCEPT !.want = FALSE], d.shut)
  <2>2. /\ Rel(d, f, s) /\ f.str[s] = [d.str[s] EXCEPT !.want = FALSE] /\ f.shut = d.shut
        /\ Queued(d, s) => Queued(f, s)
    BY WantOff, Zenon
  <2>3. e = f
    BY <2>1
  <2> HIDE DEF f
  <2> QED BY <2>2, <2>3, Zenon
<1> QED BY <1>1, <1>2

\* An int32_t sum is an int32_t.
LEMMA Int32Type == ASSUME NEW x \in Int PROVE Int32(x) \in Window
<1> DEFINE M == 2 * (MaxWindow + 1)
<1>1. M \in Nat \ {0}
  BY H2ConnAssumption
<1>2. (x + MaxWindow + 1) % M \in 0 .. M - 1
  BY <1>1, H2ConnAssumption
<1> QED BY <1>2, H2ConnAssumption DEF Int32, Window

\* What follows from a chain of such steps.
LEMMA RelFacts ==
  ASSUME NEW d, NEW e, NEW s \in Stream, Rel(d, e, s)
  PROVE  Sound(e) /\ e \in Conn /\ e.last = d.last /\ e.str[s] \in StreamRec
BY DEF Rel, Weak, Sound, SameStatic, Conn

\* adjWindowOut: the window moves, and a stream that wants to write and has a
\* window is queued and the write event called for.
LEMMA AdjWindowOutRel ==
  ASSUME NEW d, Sound(d), NEW s \in Stream, InMap(d, s), NEW n \in Int,
         NEW e, e = AdjWindowOut(d, s, n)
  PROVE  /\ Rel(d, e, s) /\ e.shut = d.shut
         /\ e.str[s].win = Int32(d.str[s].win + n)
         /\ Alike(d.str[s], e.str[s])
         /\ e.str[s].want = d.str[s].want /\ e.str[s].init = d.str[s].init
         /\ e.str[s].rel = d.str[s].rel
         /\ Queued(d, s) => Queued(e, s)
         /\ e.str[s].win >= 0 /\ e.str[s].want
              => Queued(e, s) /\ (Buffered(d) => e.lwant \/ (e.inEvent /\ e.waitP))
<1> DEFINE v == Int32(d.str[s].win + n)
           x == [d.str[s] EXCEPT !.win = v]
           y == [x EXCEPT !.pause = FALSE]
           a == [d EXCEPT !.str[s].win = Int32(@ + n)]
           b == [a EXCEPT !.str[s].pause = FALSE]
<1>1. d \in Conn /\ s <= d.last /\ d.str[s] \in StreamRec
  BY DEF Sound, Conn
<1>2. v \in Window
  <2>1. d.str[s].win + n \in Int
    BY <1>1, H2ConnAssumption DEF StreamRec, Window
  <2> QED BY <2>1, Int32Type
<1> HIDE DEF v
<1>3. x \in StreamRec /\ Alike(d.str[s], x) /\ x.win = v
  BY <1>1, <1>2 DEF StreamRec, Alike
<1>3a. x.want = d.str[s].want /\ x.init = d.str[s].init /\ x.rel = d.str[s].rel
  BY <1>1 DEF StreamRec
<1>4. a = SetStr(d, s, x, d.shut)
  BY <1>1 DEF SetStr, Conn, v
<1> HIDE DEF a, x
<1>5. Rel(d, a, s) /\ a.str[s] = x /\ a.shut = d.shut /\ (Queued(a, s) <=> Queued(d, s))
  BY <1>1, <1>3, <1>4, SetAlike
<1>6. Sound(a) /\ a \in Conn /\ s <= a.last /\ InMap(a, s)
  BY <1>1, <1>3, <1>5, RelFacts DEF Alike, InMap
<1>7. CASE v < 0
  <2>1. e = a
    BY <1>7, <1>3, <1>5 DEF AdjWindowOut, a
  <2>2. ~(v >= 0)
    BY <1>2, <1>7, H2ConnAssumption DEF Window
  <2> QED BY <1>3, <1>3a, <1>5, <2>1, <2>2 DEF v
<1>8. CASE ~(v < 0)
  <2>1. y \in StreamRec /\ Alike(x, y) /\ y.win = v /\ y.want = x.want /\ y.init = x.init /\ y.rel = x.rel
    BY <1>3 DEF StreamRec, Alike
  <2>2. b = SetStr(a, s, y, a.shut)
    BY <1>5, <1>6 DEF SetStr, Conn
  <2>3. e = IF b.str[s].want THEN StreamContinueWrite(b, s) ELSE b
    BY <1>8, <1>3, <1>5 DEF AdjWindowOut, a
  <2> HIDE DEF b, y
  <2>4. Rel(a, b, s) /\ b.str[s] = y /\ b.shut = a.shut /\ (Queued(b, s) <=> Queued(a, s))
    BY <1>5, <1>6, <2>1, <2>2, SetAlike
  <2>5. Sound(b) /\ b \in Conn /\ InMap(b, s)
    BY <1>6, <1>5, <2>1, <2>4, RelFacts DEF Alike, InMap
  <2>6. Rel(d, b, s)
    BY <1>1, <1>5, <2>4, RelTrans
  <2>7. Alike(d.str[s], y)
    BY <1>3, <2>1 DEF Alike
  <2>8. CASE ~b.str[s].want
    BY <2>8, <2>3, <2>4, <2>1, <2>6, <2>7, <1>3a, <1>5 DEF v
  <2>9. CASE b.str[s].want
    <3>1. e = StreamContinueWrite(b, s)
      BY <2>3, <2>9
    <3>2. /\ Rel(b, e, s) /\ Queued(e, s) /\ e.str[s] = [y EXCEPT !.want = TRUE]
          /\ e.shut = b.shut /\ (Buffered(b) => e.lwant \/ (e.inEvent /\ e.waitP))
      BY <3>1, <2>4, <2>5, StreamContinueWriteRel
    <3>3. [y EXCEPT !.want = TRUE] = y
      BY <2>1, <2>4, <2>9 DEF StreamRec
    <3>4. Rel(d, e, s)
      BY <1>1, <2>6, <3>2, RelTrans
    <3>5. Buffered(d) => Buffered(b)
      BY <2>6 DEF Rel, Weak
    <3>6. e.str[s] = y
      BY <3>2, <3>3
    <3>7. e.shut = d.shut
      BY <3>2, <2>4, <1>5
    <3>8. y.win = Int32(d.str[s].win + n)
      BY <2>1 DEF v
    <3>9. Queued(e, s) /\ (Buffered(d) => e.lwant \/ (e.inEvent /\ e.waitP))
      BY <3>2, <3>5
    <3>10. y.want = d.str[s].want /\ y.init = d.str[s].init /\ y.rel = d.str[s].rel
      BY <2>1, <1>3a
    <3> QED BY <3>4, <3>6, <3>7, <3>8, <3>9, <3>10, <2>7
  <2> QED BY <2>8, <2>9
<1> QED BY <1>7, <1>8

\* shutdownWrite ends the sending half and leaves the queues alone.
LEMMA ShutdownWriteRel ==
  ASSUME NEW d, Sound(d), NEW s \in Stream, InMap(d, s), NEW e, e = ShutdownWrite(d, s)
  PROVE  /\ Rel(d, e, s) /\ e.shut = d.shut /\ Alike(d.str[s], e.str[s])
         /\ e.str[s].win = d.str[s].win /\ e.str[s].rel = d.str[s].rel
         /\ e.str[s].init = d.str[s].init
<1>1. d \in Conn /\ s <= d.last /\ d.str[s] \in StreamRec
  BY DEF Sound, Conn
<1>2. CASE d.str[s].local
  BY <1>2, RelRefl DEF ShutdownWrite, Alike
<1>3. CASE ~d.str[s].local
  <2> DEFINE g == GuaranteeOutput(d)
             x == [g.str[s] EXCEPT !.local = TRUE, !.want = FALSE]
  <2>1. Quiet(d, g)
    BY <1>1, GuaranteeOutputQuiet
  <2>2. e = [g EXCEPT !.str[s].local = TRUE, !.str[s].want = FALSE]
    BY <1>3 DEF ShutdownWrite
  <2> HIDE DEF g
  <2>3. g \in Conn /\ g.str = d.str /\ g.shut = d.shut /\ Rel(d, g, s)
    BY <2>1, QuietRel DEF Quiet
  <2>4. x \in StreamRec /\ Alike(d.str[s], x) /\ x.win = d.str[s].win /\ x.rel = d.str[s].rel /\ x.init = d.str[s].init
    BY <1>1, <2>3 DEF StreamRec, Alike
  <2>5. e = SetStr(g, s, x, g.shut)
    BY <2>2, <2>3 DEF SetStr, Conn
  <2> HIDE DEF x
  <2>6. Rel(g, e, s) /\ e.str[s] = x /\ e.shut = g.shut
    BY <1>1, <2>3, <2>4, <2>5, SetAlike, RelFacts
  <2> QED BY <1>1, <2>3, <2>4, <2>6, RelTrans
<1> QED BY <1>2, <1>3

\* A new state for s, with the counter following it.
LEMMA SetState ==
  ASSUME NEW d, Sound(d), NEW s \in Stream, InMap(d, s), NEW x \in StreamRec, NEW n \in Int,
         NEW e, e = SetStr(d, s, x, n), Follows(d, e, s),
         x.state # "none", x.pri = d.str[s].pri \/ ~Queued(d, s),
         x.avail = d.str[s].avail, x.left = d.str[s].left, x.init = d.str[s].init
  PROVE  /\ Rel(d, e, s) /\ (Queued(e, s) <=> Queued(d, s)) /\ e.str[s] = x /\ e.shut = n
<1>1. d \in Conn /\ s <= d.last
  BY DEF Sound
<1>2. Same(d, e, s) /\ e.str[s] = x /\ e.shut = n
  BY <1>1, SetStrSame
<1>3. Filled(e.str[s])
  BY <1>2 DEF Sound, Filled
<1>4. Queued(d, s) => InMap(e, s) /\ e.str[s].pri = d.str[s].pri
  BY <1>2 DEF InMap
<1> QED BY <1>1, <1>2, <1>3, <1>4, SameRel

\* markShutdown counts the stream once and queues it.
LEMMA MarkShutdownRel ==
  ASSUME NEW d, Sound(d), NEW s \in Stream, d.str[s].state \in {"CONNECTED", "CLOSING"},
         NEW e, e = MarkShutdown(d, s)
  PROVE  /\ Rel(d, e, s) /\ e.str[s].state = "SHUTDOWN"
         /\ e.str[s].win = d.str[s].win /\ e.str[s].rel = d.str[s].rel
         /\ e.str[s].hdr = d.str[s].hdr
         /\ e.str[s].avail = d.str[s].avail /\ e.str[s].left = d.str[s].left
<1> DEFINE x == [d.str[s] EXCEPT !.state = "SHUTDOWN"]
           a == [d EXCEPT !.str[s].state = "SHUTDOWN", !.shut = @ + 1]
           y == [x EXCEPT !.pri = 0]
           b == [a EXCEPT !.str[s].pri = 0]
<1>1. d \in Conn /\ d.str[s] \in StreamRec /\ d.shut \in Int /\ d.shut + 1 \in Int /\ InMap(d, s)
  BY DEF Sound, Conn, InMap
<1>2. /\ x \in StreamRec /\ x.state = "SHUTDOWN" /\ x.pri = d.str[s].pri
      /\ x.avail = d.str[s].avail /\ x.left = d.str[s].left /\ x.init = d.str[s].init
      /\ x.win = d.str[s].win /\ x.rel = d.str[s].rel /\ x.hdr = d.str[s].hdr
  BY <1>1 DEF StreamRec
<1>3. a = SetStr(d, s, x, d.shut + 1)
  BY <1>1 DEF SetStr, Conn
<1>4. e = IF Queued(a, s) THEN a ELSE Add2PriorityQue(b, s)
  BY DEF MarkShutdown
<1> HIDE DEF a, x
<1>4a. 0 \in Level
  BY DEF Level, Html
<1>5. /\ y \in StreamRec /\ y.state = "SHUTDOWN" /\ y.win = x.win /\ y.rel = x.rel /\ y.hdr = x.hdr
      /\ y.avail = x.avail /\ y.left = x.left /\ y.init = x.init
  BY <1>2, <1>4a DEF StreamRec
<1>6. a.str[s] = x /\ a.shut = d.shut + 1
  BY <1>1, <1>2, <1>3, SetStrSame
<1>7. Follows(d, a, s)
  BY <1>1, <1>2, <1>6 DEF Follows, Bit
<1>8. Rel(d, a, s)
  BY <1>1, <1>2, <1>3, <1>7, SetState
<1>9. Sound(a) /\ a \in Conn /\ InMap(a, s) /\ a.shut \in Int
  BY <1>2, <1>6, <1>8, RelFacts DEF InMap, Conn
<1>10. b = SetStr(a, s, y, a.shut)
  BY <1>6, <1>9 DEF SetStr, Conn
<1> HIDE DEF b, y
<1>11. CASE Queued(a, s)
  BY <1>11, <1>4, <1>2, <1>6, <1>8
<1>12. CASE ~Queued(a, s)
  <2>1. b.str[s] = y /\ b.shut = a.shut
    BY <1>5, <1>9, <1>10, SetStrSame
  <2>2. Follows(a, b, s)
    BY <1>2, <1>5, <1>6, <1>9, <2>1 DEF Follows, Bit
  <2>3. Rel(a, b, s)
    BY <1>5, <1>6, <1>9, <1>10, <1>12, <2>2, SetState
  <2>4. Sound(b) /\ InMap(b, s)
    BY <2>1, <2>3, <1>5, RelFacts DEF InMap
  <2>5. e = Add2PriorityQue(b, s)
    BY <1>4, <1>12
  <2>6. Rel(b, e, s) /\ e.str = b.str
    BY <2>4, <2>5, Add2PriorityQueRel
  <2>7. Rel(d, e, s)
    BY <1>1, <1>8, <1>9, <2>3, <2>6, RelTrans
  <2> QED BY <2>1, <2>6, <2>7, <1>5, <1>2
<1> QED BY <1>11, <1>12

\* The end of closeEx and abort: a stream that was counted is counted out.
LEMMA DisconnectRel ==
  ASSUME NEW d, Sound(d), NEW s \in Stream, InMap(d, s), NEW e, e = Disconnect(d, s)
  PROVE  /\ Rel(d, e, s) /\ e.str[s].state = "DISCONNECTED"
         /\ e.str[s].win = d.str[s].win /\ e.str[s].rel = d.str[s].rel
<1> DEFINE x == [d.str[s] EXCEPT !.state = "DISCONNECTED", !.want = FALSE]
           n == IF d.str[s].state = "SHUTDOWN" THEN d.shut - 1 ELSE d.shut
<1>1. d \in Conn /\ d.str[s] \in StreamRec /\ d.shut \in Int /\ n \in Int
  BY DEF Sound, Conn
<1>2. /\ x \in StreamRec /\ x.state = "DISCONNECTED" /\ x.pri = d.str[s].pri
      /\ x.avail = d.str[s].avail /\ x.left = d.str[s].left /\ x.init = d.str[s].init
      /\ x.win = d.str[s].win /\ x.rel = d.str[s].rel
  BY <1>1 DEF StreamRec
<1>3. e = SetStr(d, s, x, n)
  BY <1>1 DEF Disconnect, SetStr, Conn
<1> HIDE DEF x
<1>4. e.str[s] = x /\ e.shut = n
  BY <1>1, <1>2, <1>3, SetStrSame
<1>5. Follows(d, e, s)
  BY <1>1, <1>2, <1>4 DEF Follows, Bit
<1> HIDE DEF n
<1> QED BY <1>1, <1>2, <1>3, <1>4, <1>5, SetState

\* abort ends in the state DISCONNECTED.
LEMMA AbortRel ==
  ASSUME NEW d, Sound(d), NEW s \in Stream, InMap(d, s), NEW e, e = Abort(d, s)
  PROVE  /\ Rel(d, e, s) /\ e.str[s].state = "DISCONNECTED"
         /\ e.str[s].win = d.str[s].win /\ e.str[s].rel = d.str[s].rel
<1>1. d \in Conn
  BY DEF Sound
<1>2. CASE d.str[s].state = "DISCONNECTED"
  BY <1>2, RelRefl DEF Abort
<1>3. CASE d.str[s].state # "DISCONNECTED"
  <2> DEFINE g == IF d.str[s].state \in {"CONNECTED", "CLOSING"} THEN GuaranteeOutput(d) ELSE d
  <2>1. Quiet(d, g)
    <3>1. Quiet(d, d)
      BY <1>1 DEF Quiet, SameStatic
    <3> QED BY <1>1, <3>1, GuaranteeOutputQuiet
  <2>2. e = Disconnect(g, s)
    BY <1>3 DEF Abort
  <2> HIDE DEF g
  <2>3. Rel(d, g, s) /\ g.str = d.str
    BY <2>1, QuietRel DEF Quiet
  <2>4. Sound(g) /\ InMap(g, s)
    BY <2>3, RelFacts DEF InMap
  <2>5. /\ Rel(g, e, s) /\ e.str[s].state = "DISCONNECTED"
        /\ e.str[s].win = g.str[s].win /\ e.str[s].rel = g.str[s].rel
    BY <2>2, <2>4, DisconnectRel
  <2> QED BY <1>1, <2>3, <2>5, RelTrans
<1> QED BY <1>2, <1>3

\* shutdown ends a stream that has sent its headers as done, another one as
\* DISCONNECTED.
LEMMA ShutdownRel ==
  ASSUME NEW d, Sound(d), NEW s \in Stream, InMap(d, s), d.str[s].state # "DISCONNECTED",
         NEW e, e = Shutdown(d, s)
  PROVE  /\ Rel(d, e, s)
         /\ e.str[s].state \in {"SHUTDOWN", "RESET", "DISCONNECTED"}
         /\ e.str[s].state = "RESET" => d.str[s].state = "RESET"
         /\ d.str[s].hdr => e.str[s].state # "DISCONNECTED"
         /\ e.str[s].win = d.str[s].win /\ e.str[s].rel = d.str[s].rel
<1>1. d \in Conn /\ d.str[s] \in StreamRec
  BY DEF Sound, Conn
<1>2. CASE d.str[s].state \in {"SHUTDOWN", "RESET"}
  <2>1. e = d
    BY <1>2 DEF Shutdown
  <2> QED BY <1>2, <2>1, RelRefl
<1>3. CASE d.str[s].state \notin {"SHUTDOWN", "RESET"} /\ ~d.str[s].hdr
  <2>1. e = Abort(d, s)
    BY <1>3 DEF Shutdown
  <2> QED BY <1>3, <2>1, AbortRel
<1>4. CASE d.str[s].state \notin {"SHUTDOWN", "RESET"} /\ d.str[s].hdr
  <2> DEFINE w == ShutdownWrite(d, s)
  <2>1. e = MarkShutdown(w, s)
    BY <1>4 DEF Shutdown
  <2>2. /\ Rel(d, w, s) /\ Alike(d.str[s], w.str[s])
        /\ w.str[s].win = d.str[s].win /\ w.str[s].rel = d.str[s].rel
    BY ShutdownWriteRel
  <2> HIDE DEF w
  <2>3. d.str[s].state \in {"CONNECTED", "CLOSING"}
    BY <1>1, <1>4 DEF StreamRec, InMap
  <2>4. w.str[s].state \in {"CONNECTED", "CLOSING"} /\ Sound(w)
    BY <2>2, <2>3, RelFacts DEF Alike
  <2>5. /\ Rel(w, e, s) /\ e.str[s].state = "SHUTDOWN"
        /\ e.str[s].win = w.str[s].win /\ e.str[s].rel = w.str[s].rel
    BY <2>1, <2>4, MarkShutdownRel
  <2>6. Rel(d, e, s)
    BY <1>1, <2>2, <2>5, RelTrans
  <2> QED BY <2>2, <2>5, <2>6
<1> QED BY <1>2, <1>3, <1>4

\* closeSession ends the stream of a session once and does nothing before there
\* is a session.
LEMMA CloseSessionRel ==
  ASSUME NEW d, Sound(d), NEW s \in Stream, InMap(d, s),
         d.str[s].state = "DISCONNECTED" => d.str[s].rel,
         NEW e, e = CloseSession(d, s)
  PROVE  /\ Rel(d, e, s) /\ InMap(e, s)
         /\ d.str[s].init \/ d.str[s].rel => e = d
         /\ ~(d.str[s].init \/ d.str[s].rel)
              => e.str[s].state \in {"SHUTDOWN", "RESET", "DISCONNECTED"} /\ e.str[s].rel
         /\ e.str[s].state = "RESET" => d.str[s].state = "RESET"
         /\ e.str[s].win = d.str[s].win
<1>1. d \in Conn /\ d.str[s] \in StreamRec /\ d.shut \in Int
  BY DEF Sound, Conn
<1>2. CASE d.str[s].init \/ d.str[s].rel
  <2>1. e = d
    BY <1>2 DEF CloseSession
  <2> QED BY <1>2, <2>1, RelRefl
<1>3. CASE ~(d.str[s].init \/ d.str[s].rel)
  <2> DEFINE st == IF d.str[s].state \in {"SHUTDOWN", "RESET"} THEN d.str[s].state ELSE "CLOSING"
             x == [d.str[s] EXCEPT !.rel = TRUE, !.state = st]
             a == [d EXCEPT !.str[s].rel = TRUE,
                            !.str[s].state = IF @ \in {"SHUTDOWN", "RESET"} THEN @ ELSE "CLOSING"]
  <2>1. e = Shutdown(a, s)
    BY <1>3 DEF CloseSession
  <2>2. a = SetStr(d, s, x, d.shut)
    BY <1>1 DEF SetStr, Conn, StreamRec
  <2>3. st \in {"SHUTDOWN", "RESET", "CLOSING"} /\ (st = "RESET" => d.str[s].state = "RESET")
    OBVIOUS
  <2>4. d.str[s].state \in {"CONNECTED", "CLOSING", "SHUTDOWN", "RESET"}
    BY <1>1, <1>3 DEF StreamRec, InMap
  <2>4a. Bit(st = "SHUTDOWN") = Bit(d.str[s].state = "SHUTDOWN")
         /\ Bit(st \notin {"CONNECTED", "CLOSING"}) = Bit(d.str[s].state \notin {"CONNECTED", "CLOSING"})
    BY <2>4 DEF Bit
  <2> HIDE DEF st
  <2>5. /\ x \in StreamRec /\ x.state = st /\ x.pri = d.str[s].pri
        /\ x.avail = d.str[s].avail /\ x.left = d.str[s].left /\ x.init = d.str[s].init
        /\ x.win = d.str[s].win /\ x.rel = TRUE
    BY <1>1, <2>3 DEF StreamRec
  <2> HIDE DEF x, a
  <2>6. a.str[s] = x /\ a.shut = d.shut
    BY <1>1, <2>2, <2>5, SetStrSame
  <2>7. Follows(d, a, s)
    BY <1>1, <2>4a, <2>5, <2>6 DEF Follows, Bit
  <2>8. Rel(d, a, s)
    BY <1>1, <2>2, <2>3, <2>5, <2>7, SetState
  <2>9. Sound(a) /\ InMap(a, s) /\ a.str[s].state # "DISCONNECTED"
    BY <2>3, <2>5, <2>6, <2>8, RelFacts DEF InMap
  <2>10. /\ Rel(a, e, s)
         /\ e.str[s].state \in {"SHUTDOWN", "RESET", "DISCONNECTED"}
         /\ e.str[s].state = "RESET" => a.str[s].state = "RESET"
         /\ e.str[s].win = a.str[s].win /\ e.str[s].rel = a.str[s].rel
    BY <2>1, <2>9, ShutdownRel
  <2>11. Rel(d, e, s)
    BY <1>1, <2>8, <2>10, RelTrans
  <2> QED BY <1>3, <2>3, <2>5, <2>6, <2>10, <2>11 DEF InMap
<1> QED BY <1>2, <1>3

\* closeEx ends in the state DISCONNECTED.
LEMMA CloseExRel ==
  ASSUME NEW d, Sound(d), NEW s \in Stream, InMap(d, s), NEW e, e = CloseEx(d, s)
  PROVE  Rel(d, e, s) /\ e.str[s].state = "DISCONNECTED"
<1>1. d \in Conn
  BY DEF Sound
<1>2. CASE d.str[s].state = "DISCONNECTED"
  BY <1>2, RelRefl DEF CloseEx
<1>3. CASE d.str[s].state # "DISCONNECTED"
  <2> DEFINE a == CloseSession(d, s)
             f == IF a.str[s].state \in {"SHUTDOWN", "RESET"} THEN a ELSE ShutdownWrite(a, s)
  <2>1. e = Disconnect(f, s)
    BY <1>3 DEF CloseEx
  <2>2. Rel(d, a, s) /\ InMap(a, s)
    BY <1>3, CloseSessionRel
  <2> HIDE DEF a
  <2>3. Sound(a) /\ a \in Conn
    BY <2>2, RelFacts
  <2>4. Rel(a, f, s) /\ InMap(f, s)
    <3>1. CASE a.str[s].state \in {"SHUTDOWN", "RESET"}
      BY <3>1, <2>2, <2>3, RelRefl
    <3>2. CASE a.str[s].state \notin {"SHUTDOWN", "RESET"}
      BY <3>2, <2>2, <2>3, ShutdownWriteRel DEF Alike, InMap
    <3> QED BY <3>1, <3>2
  <2> HIDE DEF f
  <2>5. Rel(f, e, s) /\ e.str[s].state = "DISCONNECTED"
    BY <2>1, <2>4, RelFacts, DisconnectRel
  <2> QED BY <1>1, <2>2, <2>3, <2>4, <2>5, RelTrans
<1> QED BY <1>2, <1>3

\* A stream of the pool is a stream.
LEMMA NewStreamType == NewStream \in StreamRec
BY H2ConnAssumption DEF NewStream, StreamRec, Window, Level, Html

\* recycleStream takes the stream out of the map and out of its queue.
LEMMA RecycleStreamRel ==
  ASSUME NEW d, Sound(d), NEW s \in Stream, InMap(d, s), NEW e, e = RecycleStream(d, s)
  PROVE  Rel(d, e, s) /\ e.str[s] = NewStream /\ ~Queued(e, s)
<1> DEFINE a == CloseEx(d, s)
           b == RemovePriQue(a, s)
<1>1. d \in Conn
  BY DEF Sound
<1>2. e = [b EXCEPT !.str[s] = NewStream]
  BY DEF RecycleStream
<1>3. Rel(d, a, s) /\ a.str[s].state = "DISCONNECTED"
  BY CloseExRel
<1> HIDE DEF a
<1>4. Rel(a, b, s) /\ ~Queued(b, s) /\ b.str = a.str
  BY <1>3, RelFacts, RemovePriQueRel
<1> HIDE DEF b
<1>5. Sound(a) /\ Sound(b) /\ a \in Conn /\ b \in Conn /\ b.shut \in Int /\ InMap(a, s)
  BY <1>3, <1>4, RelFacts DEF Conn, InMap
<1>6. e = SetStr(b, s, NewStream, b.shut)
  BY <1>2, <1>5 DEF SetStr, Conn
<1>7. Same(b, e, s) /\ e.str[s] = NewStream /\ e.shut = b.shut
  BY <1>5, <1>6, NewStreamType, SetStrSame
<1>8. b.str[s].state = "DISCONNECTED" /\ NewStream.state = "none" /\ Filled(NewStream)
  BY <1>3, <1>4, H2ConnAssumption DEF NewStream, Filled
<1>9. Follows(b, e, s)
  BY <1>5, <1>7, <1>8 DEF Follows, Bit
<1>10. s <= b.last
  BY <1>5, <1>8 DEF Sound, InMap
<1>11. Rel(b, e, s) /\ ~Queued(e, s)
  BY <1>4, <1>5, <1>7, <1>8, <1>9, <1>10, H2ConnAssumption, SameRel
<1>12. Rel(d, e, s)
  BY <1>1, <1>3, <1>4, <1>5, <1>11, RelTrans
<1> QED BY <1>7, <1>11, <1>12

\* resetStream recycles a stream of the map; for any other it only adds output.
LEMMA ResetStreamRel ==
  ASSUME NEW d, Sound(d), NEW s \in Stream, NEW e, e = ResetStream(d, s)
  PROVE  /\ Rel(d, e, s) 
         /\ InMap(d, s) => e.str[s] = NewStream /\ ~Queued(e, s)
         /\ ~InMap(d, s) => Quiet(d, e)
<1>1. d \in Conn /\ Quiet(d, d)
  BY DEF Sound, Quiet, SameStatic
<1>2. CASE ~InMap(d, s)
  <2>1. Quiet(d, e)
    BY <1>1, <1>2, GuaranteeOutputQuiet DEF ResetStream
  <2> QED BY <1>2, <2>1, QuietRel
<1>3. CASE InMap(d, s)
  <2> DEFINE g == GuaranteeOutput(d)
             x == [g.str[s] EXCEPT !.state = "RESET"]
             a == [g EXCEPT !.str[s].state = "RESET"]
  <2>1. e = RecycleStream(a, s)
    BY <1>3 DEF ResetStream
  <2>2. Quiet(d, g)
    BY <1>1, GuaranteeOutputQuiet
  <2> HIDE DEF g
  <2>3. Rel(d, g, s) /\ g.str = d.str
    BY <2>2, QuietRel DEF Quiet
  <2>4. Sound(g) /\ g \in Conn /\ g.str[s] \in StreamRec /\ g.shut \in Int /\ InMap(g, s)
    BY <1>3, <2>3, RelFacts DEF InMap, Conn
  <2>5. /\ x \in StreamRec /\ x.state = "RESET" /\ x.pri = g.str[s].pri
        /\ x.avail = g.str[s].avail /\ x.left = g.str[s].left /\ x.init = g.str[s].init
    BY <2>4 DEF StreamRec
  <2>6. a = SetStr(g, s, x, g.shut)
    BY <2>4 DEF SetStr, Conn
  <2> HIDE DEF x, a
  <2>7. a.str[s] = x /\ a.shut = g.shut
    BY <2>4, <2>5, <2>6, SetStrSame
  <2>8. Follows(g, a, s)
    BY <2>4, <2>5, <2>7 DEF Follows, Bit
  <2>9. Rel(g, a, s)
    BY <2>4, <2>5, <2>6, <2>8, SetState
  <2>10. Sound(a) /\ a \in Conn /\ InMap(a, s)
    BY <2>5, <2>7, <2>9, RelFacts DEF InMap
  <2>11. Rel(a, e, s) /\ e.str[s] = NewStream /\ ~Queued(e, s)
    BY <2>1, <2>10, RecycleStreamRel
  <2>12. Rel(d, e, s)
    BY <1>1, <2>3, <2>4, <2>9, <2>10, <2>11, RelTrans
  <2> QED BY <1>3, <2>11, <2>12
<1> QED BY <1>2, <1>3

(***************************************************************************)
(* The inductive invariant.                                                *)
(***************************************************************************)
\* A stream that is to be served.
Need(d, s) ==
  d.str[s].state = "CONNECTED" /\ (d.str[s].init \/ (d.str[s].want /\ d.str[s].win > 0))

\* The write event will come: the socket is asked for it, or the running event
\* will ask or look at the queues itself.
Called(d) == d.lwant \/ (d.inEvent /\ d.waitP)

\* A stream between two operations is in no state that passes, and the session
\* of a disconnected one is closed.
AtRest(x) == x.state \notin {"CLOSING", "RESET"} /\ (x.state = "DISCONNECTED" => x.rel)

\* The connection between two operations.
Good(d) ==
  /\ Sound(d)
  /\ Buffered(d)
  /\ \A s \in Stream : AtRest(d.str[s])
  /\ \A s \in Stream : InMap(d, s) => d.open

\* No wake-up of a stream is lost ...
AwakeAt(d, s) ==
  Need(d, s) => Queued(d, s) /\ (d.outWin > 0 /\ ~d.lpause => Called(d))

\* ... and of none of them.
Awake(d) == \A s \in Stream : AwakeAt(d, s)

\* A loop over the queues that finds nothing more at levels below l and, at
\* level l, behind the first n streams; stream x is in its hands.
Found(d, l, n, x) ==
  \A p \in Level : \A i \in 1 .. Len(d.que[p]) :
    (p < l \/ (p = l /\ i > n)) /\ Need(d, d.que[p][i]) => d.que[p][i] = x

\* processQueue is running: it has the streams of the queues before it, and the
\* wake-ups are its own.
InLoop == pc \in {"queue", "queued"} \/ (pc = "doWrite" /\ c.inEvent)

\* The stream it has taken from a queue.
InHand == IF pc = "queue" THEN 0 ELSE cur

\* The types of the loops' variables.
LocalType ==
  /\ pc \in {"idle", "frames", "pending", "queue", "queued", "doWrite", "aborted"}
  /\ ret \in {"read", "write", "frames"}
  /\ lvl \in Level /\ cnt \in 0 .. NStreams /\ ww \in BOOLEAN /\ cur \in Stream

\* A stream that has its turn is in the map and has a session; one that writes
\* is connected, or done with all it had to write.
Served ==
  LET x == c.str[cur]
  IN  pc \in {"queued", "doWrite"} =>
        /\ InMap(c, cur) /\ (x.state = "CONNECTED" => ~x.init)
        /\ pc = "doWrite" => x.state = "CONNECTED"
                               \/ (x.state = "SHUTDOWN" /\ x.hdr /\ x.avail = 0)

\* IN_EVENT is set while an event of the connection runs; processPendingStreams
\* runs while the socket takes nothing; a write event was asked for.
Eventful ==
  /\ pc = "idle" => ~c.inEvent
  /\ pc \in {"frames", "pending", "queue", "queued"} => c.inEvent
  /\ pc = "pending" => c.lpause
  /\ InLoop /\ ret = "write" => c.lwant

\* Outside of processQueue no wake-up is lost.
Waking == ~InLoop => Awake(c)

\* Inside of it, whoever is to be served is queued or in its hand; and either
\* it will ask for another write event, or the streams to be served are still
\* before it.
Looping ==
  InLoop => /\ \A s \in Stream : Need(c, s) => Queued(c, s) \/ s = InHand
            /\ ww \/ c.lpause \/ c.outWin <= 0 \/ Found(c, lvl, cnt, InHand)

\* The inductive invariant.
IInv == LocalType /\ Good(c) /\ Served /\ Eventful /\ Waking /\ Looping

(***************************************************************************)
(* How operations on a stream keep it.                                     *)
(***************************************************************************)
\* Good is kept by an operation on s that leaves it at rest.
LEMMA GoodStep ==
  ASSUME NEW d, Good(d), NEW s \in Stream, NEW e, Weak(d, e, s), AtRest(e.str[s]),
         InMap(e, s) => InMap(d, s)
  PROVE  Good(e)
<1>1. Sound(e) /\ Buffered(e)
  BY DEF Good, Weak
<1>2. \A t \in Stream : AtRest(e.str[t])
  BY DEF Good, Weak
<1>3. ASSUME NEW t \in Stream PROVE InMap(e, t) => e.open
  <2>1. InMap(e, t) => InMap(d, t)
    BY DEF Weak, InMap
  <2> QED BY <2>1 DEF Good, Weak, SameStatic
<1> QED BY <1>1, <1>2, <1>3 DEF Good

\* So is Awake, if it holds of s afterwards.
LEMMA AwakeStep ==
  ASSUME NEW d, NEW s \in Stream, \A t \in Stream \ {s} : AwakeAt(d, t),
         NEW e, Weak(d, e, s), AwakeAt(e, s)
  PROVE  Awake(e)
<1> SUFFICES ASSUME NEW t \in Stream, Need(e, t)
             PROVE Queued(e, t) /\ (e.outWin > 0 /\ ~e.lpause => Called(e))
  BY DEF Awake, AwakeAt
<1>1. CASE t = s
  BY <1>1 DEF AwakeAt
<1>2. CASE t # s
  <2>1. Need(d, t)
    BY <1>2 DEF Weak, Need
  <2>2. Queued(d, t) /\ (d.outWin > 0 /\ ~d.lpause => Called(d))
    BY <1>2, <2>1 DEF AwakeAt
  <2> QED BY <1>2, <2>2 DEF Weak, SameStatic, Called
<1> QED BY <1>1, <1>2

\* Both are kept by a step that changes only the buffer and the flags.
LEMMA QuietGood ==
  ASSUME NEW d, Good(d), NEW e, Quiet(d, e)
  PROVE  /\ Good(e) /\ (Awake(d) => Awake(e))
         /\ \A s \in Stream : (Need(e, s) <=> Need(d, s)) /\ (Queued(e, s) <=> Queued(d, s))
<1>1. 1 \in Stream
  BY H2ConnAssumption DEF Stream
<1>2. Weak(d, e, 1)
  BY <1>1, QuietRel DEF Good, Rel
<1>3. AtRest(e.str[1]) /\ (InMap(e, 1) => InMap(d, 1))
  BY <1>1 DEF Good, Quiet, InMap
<1>4. Good(e)
  BY <1>1, <1>2, <1>3, GoodStep
<1>5. ASSUME Awake(d) PROVE Awake(e)
  BY <1>5 DEF Awake, AwakeAt, Need, Queued, Quiet, SameStatic, Called
<1>6. \A s \in Stream : (Need(e, s) <=> Need(d, s)) /\ (Queued(e, s) <=> Queued(d, s))
  BY DEF Need, Queued, Quiet
<1> QED BY <1>4, <1>5, <1>6

\* apply_priority queues the stream anew in the queue of its priority.
LEMMA ApplyPriorityRel ==
  ASSUME NEW d, Sound(d), NEW s \in Stream, InMap(d, s), NEW p \in Level,
         NEW e, e = ApplyPriority(d, s, p)
  PROVE  /\ Rel(d, e, s) /\ (Queued(d, s) => Queued(e, s))
         /\ e.str[s] = [d.str[s] EXCEPT !.pri = p]
<1>1. d \in Conn /\ d.str[s] \in StreamRec
  BY DEF Sound, Conn
<1>2. CASE p = d.str[s].pri
  <2>1. e = d
    BY <1>2 DEF ApplyPriority
  <2>2. [d.str[s] EXCEPT !.pri = p] = d.str[s]
    BY <1>1, <1>2 DEF StreamRec
  <2> QED BY <2>1, <2>2, RelRefl
<1>3. CASE p # d.str[s].pri /\ Queued(d, s)
  <2> DEFINE r == RemovePriQue(d, s)
             x == [r.str[s] EXCEPT !.pri = p]
             a == [r EXCEPT !.str[s].pri = p]
  <2>1. e = Add2PriorityQue(a, s)
    BY <1>3 DEF ApplyPriority
  <2>2. Rel(d, r, s) /\ ~Queued(r, s) /\ r.str = d.str
    BY RemovePriQueRel
  <2> HIDE DEF r
  <2>3. Sound(r) /\ r \in Conn /\ InMap(r, s) /\ r.shut \in Int /\ r.str[s] \in StreamRec
    BY <2>2, RelFacts DEF InMap, Conn
  <2>4. /\ x \in StreamRec /\ x.state = r.str[s].state
        /\ x.avail = r.str[s].avail /\ x.left = r.str[s].left /\ x.init = r.str[s].init
    BY <2>3 DEF StreamRec
  <2>5. a = SetStr(r, s, x, r.shut)
    BY <2>3 DEF SetStr, Conn
  <2>6. x = [d.str[s] EXCEPT !.pri = p]
    BY <2>2
  <2> HIDE DEF x, a
  <2>7. a.str[s] = x /\ a.shut = r.shut
    BY <2>3, <2>4, <2>5, SetStrSame
  <2>8. Follows(r, a, s)
    BY <2>3, <2>4, <2>7 DEF Follows, Bit
  <2>9. Rel(r, a, s)
    BY <2>2, <2>3, <2>4, <2>5, <2>8, SetState DEF InMap
  <2>10. Sound(a) /\ a \in Conn /\ InMap(a, s)
    BY <2>3, <2>4, <2>7, <2>9, RelFacts DEF InMap
  <2>11. Rel(a, e, s) /\ Queued(e, s) /\ e.str = a.str
    BY <2>1, <2>10, Add2PriorityQueRel
  <2>12. Rel(d, e, s)
    BY <1>1, <2>2, <2>3, <2>9, <2>10, <2>11, RelTrans
  <2> QED BY <2>6, <2>7, <2>11, <2>12
<1>4. CASE p # d.str[s].pri /\ ~Queued(d, s)
  <2> DEFINE x == [d.str[s] EXCEPT !.pri = p]
  <2>0. d.shut \in Int
    BY <1>1 DEF Conn
  <2>1. e = SetStr(d, s, x, d.shut)
    BY <1>1, <1>4 DEF ApplyPriority, SetStr, Conn
  <2>2. /\ x \in StreamRec /\ x.state = d.str[s].state
        /\ x.avail = d.str[s].avail /\ x.left = d.str[s].left /\ x.init = d.str[s].init
    BY <1>1 DEF StreamRec
  <2> HIDE DEF x
  <2>3. e.str[s] = x /\ e.shut = d.shut
    BY <1>1, <2>0, <2>1, <2>2, SetStrSame
  <2>4. Follows(d, e, s)
    BY <2>0, <2>2, <2>3 DEF Follows, Bit
  <2>5. Rel(d, e, s)
    BY <1>4, <2>0, <2>1, <2>2, <2>4, SetState DEF InMap
  <2> QED BY <1>4, <2>3, <2>5 DEF x
<1> QED BY <1>2, <1>3, <1>4

\* A session that starts and asks for the write event has its stream queued;
\* one that closes its stream leaves it at rest.
LEMMA StartSessionRel ==
  ASSUME NEW d, Sound(d), NEW s \in Stream, d.str[s].state = "CONNECTED", d.str[s].init,
         NEW n \in 0 .. MaxLen, NEW how, NEW e, e = StartSession(d, s, n, how)
  PROVE  /\ Rel(d, e, s) /\ InMap(e, s) /\ AtRest(e.str[s])
         /\ e.str[s].state = "CONNECTED" =>
               /\ ~e.str[s].init
               /\ Queued(d, s) => Queued(e, s)
               /\ ~d.str[s].want /\ e.str[s].want => Queued(e, s) /\ (Buffered(d) => Called(e))
<1>1. d \in Conn /\ d.str[s] \in StreamRec /\ s <= d.last /\ InMap(d, s) /\ d.shut \in Int
  BY DEF Sound, Conn, InMap
<1>1a. d.str[s].avail = 0 /\ d.str[s].left = 0
  BY DEF Sound, Filled
<1> DEFINE x == IF how = "close" THEN [d.str[s] EXCEPT !.init = FALSE]
                ELSE IF how = "ready" THEN [d.str[s] EXCEPT !.init = FALSE, !.avail = n]
                ELSE [d.str[s] EXCEPT !.init = FALSE, !.left = n]
           a == IF how = "close" THEN [d EXCEPT !.str[s].init = FALSE]
                ELSE IF how = "ready" THEN [[d EXCEPT !.str[s].init = FALSE] EXCEPT !.str[s].avail = n]
                ELSE [[d EXCEPT !.str[s].init = FALSE] EXCEPT !.str[s].left = n]
<1>2. /\ x \in StreamRec /\ x.state = d.str[s].state /\ x.pri = d.str[s].pri
      /\ ~x.init /\ x.want = d.str[s].want
  BY <1>1, H2ConnAssumption DEF StreamRec
<1>3. Filled(x)
  BY <1>1, <1>1a, H2ConnAssumption DEF StreamRec, Filled
<1>4. a = SetStr(d, s, x, d.shut)
  BY <1>1 DEF SetStr, Conn
<1>5. e = IF how = "close" THEN CloseSession(a, s)
          ELSE IF how = "ready" THEN WantWrite(a, s, TRUE) ELSE a
  BY DEF StartSession
<1> HIDE DEF a, x
<1>6. Same(d, a, s) /\ a.str[s] = x /\ a.shut = d.shut
  BY <1>1, <1>2, <1>4, SetStrSame
<1>7. Follows(d, a, s)
  BY <1>1, <1>2, <1>6 DEF Follows, Bit
<1>8. Rel(d, a, s) /\ (Queued(a, s) <=> Queued(d, s))
  BY <1>1, <1>2, <1>3, <1>6, <1>7, SameRel DEF InMap
<1>9. /\ Sound(a) /\ InMap(a, s) /\ a \in Conn /\ a.str[s].state = "CONNECTED"
      /\ AtRest(a.str[s])
  BY <1>2, <1>6, <1>8, RelFacts DEF InMap, AtRest
<1>10. CASE how \notin {"close", "ready"}
  BY <1>10, <1>2, <1>5, <1>6, <1>8, <1>9
<1>11. CASE how = "ready"
  <2>1. /\ Rel(a, e, s) /\ e.str[s] = [x EXCEPT !.want = TRUE]
        /\ Queued(a, s) => Queued(e, s)
        /\ ~x.want => Queued(e, s)
        /\ ~x.want /\ Buffered(a) => Called(e)
    <3>1. e = WantWrite(a, s, TRUE)
      BY <1>5, <1>11
    <3>2. /\ Rel(a, e, s) /\ e.str[s] = [a.str[s] EXCEPT !.want = TRUE]
          /\ Queued(a, s) => Queued(e, s)
          /\ ~a.str[s].want => Queued(e, s)
          /\ ~a.str[s].want /\ Buffered(a) => e.lwant \/ (e.inEvent /\ e.waitP)
      BY <1>9, <3>1, WantWriteOn
    <3> QED BY <1>6, <3>2 DEF Called
  <2>2. LET y == [x EXCEPT !.want = TRUE]
        IN  y.state = x.state /\ y.init = x.init
    BY <1>2 DEF StreamRec
  <2>3. Rel(d, e, s)
    BY <1>1, <1>8, <2>1, RelTrans
  <2>4. Buffered(d) => Buffered(a)
    BY <1>8 DEF Rel, Weak
  <2>5. e.str[s].state = "CONNECTED" /\ ~e.str[s].init
    BY <1>2, <2>1, <2>2
  <2>6. InMap(e, s) /\ AtRest(e.str[s])
    BY <2>5 DEF InMap, AtRest
  <2> QED BY <1>2, <1>8, <2>1, <2>3, <2>4, <2>5, <2>6
<1>12. CASE how = "close"
  <2>1. e = CloseSession(a, s)
    BY <1>5, <1>12
  <2>2. /\ Rel(a, e, s) /\ InMap(e, s)
        /\ a.str[s].init \/ a.str[s].rel => e = a
        /\ ~(a.str[s].init \/ a.str[s].rel)
             => e.str[s].state \in {"SHUTDOWN", "RESET", "DISCONNECTED"} /\ e.str[s].rel
        /\ e.str[s].state = "RESET" => a.str[s].state = "RESET"
    BY <1>9, <2>1, CloseSessionRel
  <2>3. Rel(d, e, s)
    BY <1>1, <1>8, <2>2, RelTrans
  <2>4. CASE a.str[s].rel
    BY <1>2, <1>6, <1>8, <1>9, <2>2, <2>3, <2>4
  <2>5. CASE ~a.str[s].rel
    <3>1. e.str[s].state \in {"SHUTDOWN", "DISCONNECTED"} /\ e.str[s].rel
      BY <1>2, <1>6, <1>9, <2>2, <2>5
    <3> QED BY <2>2, <2>3, <3>1 DEF AtRest
  <2> QED BY <2>4, <2>5
<1> QED BY <1>10, <1>11, <1>12

\* Recycling a stream that is not connected any more.
LEMMA SettleRel ==
  ASSUME NEW d, Sound(d), NEW s \in Stream, NEW e, e = Settle(d, s)
  PROVE  /\ Rel(d, e, s)
         /\ d.str[s].state \in {"CONNECTED", "none"} => e = d
         /\ d.str[s].state \notin {"CONNECTED", "none"} => e.str[s] = NewStream
<1>1. CASE d.str[s].state \in {"CONNECTED", "none"}
  <2>1. e = d
    BY <1>1 DEF Settle, InMap
  <2> QED BY <1>1, <2>1, RelRefl
<1>2. CASE d.str[s].state \notin {"CONNECTED", "none"}
  <2>1. e = RecycleStream(d, s) /\ InMap(d, s)
    BY <1>2 DEF Settle, InMap
  <2> QED BY <1>2, <2>1, RecycleStreamRel
<1> QED BY <1>1, <1>2

(***************************************************************************)
(* Operations on all streams of a set.                                     *)
(***************************************************************************)
\* The element a fold takes next from a set.
AnyOf(s) == CHOOSE x \in s : TRUE

\* The function by which the fold of releaseStreams is defined.
RelIter(d, S) ==
  CHOOSE iter : iter = [s \in SUBSET S |-> IF s = {} THEN d
                                           ELSE RecycleStream(iter[s \ {AnyOf(s)}], AnyOf(s))]

\* What releasing the streams of S may leave: a good connection without them.
Released(d, S) ==
  {e \in {f \in Conn : Good(f)} :
     /\ SameStatic(d, e)
     /\ Awake(d) => Awake(e)
     /\ \A x \in Stream \ S : e.str[x] = d.str[x]
     /\ \A x \in S : ~InMap(e, x)}

\* One more stream is released.
LEMMA RecycleReleased ==
  ASSUME NEW d, Good(d), NEW S \in SUBSET Mapped(d), NEW x \in S, NEW e \in Released(d, S \ {x}),
         NEW f, f = RecycleStream(e, x)
  PROVE  InMap(e, x) /\ f \in Released(d, S)
<1>1. x \in Stream /\ InMap(d, x)
  BY DEF Mapped
<1>2. Good(e) /\ Sound(e) /\ e.str[x] = d.str[x] /\ InMap(e, x)
  BY <1>1 DEF Released, InMap, Good
<1>3. Rel(e, f, x) /\ f.str[x] = NewStream
  BY <1>1, <1>2, RecycleStreamRel
<1>4. ~InMap(f, x) /\ AtRest(f.str[x]) /\ ~Need(f, x)
  BY <1>3 DEF NewStream, InMap, AtRest, Need
<1>5. Weak(e, f, x)
  BY <1>3 DEF Rel
<1>6. Good(f)
  BY <1>1, <1>2, <1>4, <1>5, GoodStep
<1>7. Awake(e) => Awake(f)
  BY <1>1, <1>4, <1>5, AwakeStep DEF Awake, AwakeAt
<1>8. SameStatic(d, f)
  BY <1>5 DEF Released, Weak, SameStatic
<1>9. \A t \in Stream \ {x} : f.str[t] = e.str[t]
  BY <1>5 DEF Weak
<1>10. \A t \in Stream \ S : f.str[t] = d.str[t]
  BY <1>1, <1>9 DEF Released
<1>11. \A t \in S : ~InMap(f, t)
  <2>1. \A t \in S \ {x} : t \in Stream /\ ~InMap(e, t)
    BY DEF Released, Mapped
  <2> QED BY <1>4, <1>9, <2>1 DEF InMap
<1>12. f \in Conn
  BY <1>6 DEF Good, Sound
<1> QED BY <1>2, <1>6, <1>7, <1>8, <1>10, <1>11, <1>12 DEF Released

\* releaseAllStream and the timer, for any set of streams of the map and in any
\* order: the others are as they were, and nobody's wake-up is lost.
LEMMA ReleaseRel ==
  ASSUME NEW d, Good(d), NEW S \in SUBSET Mapped(d)
  PROVE  ReleaseStreams(d, S) \in Released(d, S)
<1> DEFINE U == {f \in Conn : Good(f)}
           G == [s \in SUBSET S |-> Released(d, s)]
           F == [x \in S |-> [g \in U |-> IF RecycleStream(g, x) \in U THEN RecycleStream(g, x) ELSE g]]
           pick == [s \in SUBSET S |-> AnyOf(s)]
           It(h) == [s \in SUBSET S |-> IF s = {} THEN d ELSE RecycleStream(h[s \ {AnyOf(s)}], AnyOf(s))]
<1>1. IsFiniteSet(S)
  BY StreamFinite, FS_Subset DEF Mapped
<1>2. G \in [SUBSET S -> SUBSET U]
  BY DEF Released
<1>3. d \in G[{}]
  <2>1. d \in Conn /\ SameStatic(d, d)
    BY DEF Good, Sound, SameStatic
  <2>2. G[{}] = Released(d, {})
    OBVIOUS
  <2> QED BY <2>1, <2>2 DEF Released
<1>4. F \in [S -> [U -> U]]
  OBVIOUS
<1>5. Picks(pick, S)
  BY DEF AnyOf, Picks
<1>5a. \A s \in SUBSET S : s # {} => AnyOf(s) \in s
  BY DEF AnyOf
<1>6. ASSUME NEW s \in SUBSET S, NEW x \in s, NEW g \in G[s \ {x}]
      PROVE  RecycleStream(g, x) \in G[s] /\ F[x][g] = RecycleStream(g, x)
  <2>1. g \in Released(d, s \ {x}) /\ s \in SUBSET Mapped(d)
    OBVIOUS
  <2>2. RecycleStream(g, x) \in Released(d, s)
    BY <2>1, RecycleReleased
  <2>3. g \in U /\ RecycleStream(g, x) \in U
    BY <2>1, <2>2 DEF Released
  <2> QED BY <2>2, <2>3
<1> HIDE DEF U, G, F, pick
<1>7. PICK h \in [SUBSET S -> U] :
        IsFold(h, S, F, pick, d) /\ \A s \in SUBSET S : h[s] \in G[s]
  <2>1. Leads(F, S, G)
    BY <1>6 DEF Leads
  <2>2. \E h \in [SUBSET S -> U] :
           IsFold(h, S, F, pick, d) /\ \A s \in SUBSET S : h[s] \in G[s]
    BY <1>1, <1>2, <1>3, <1>4, <1>5, <2>1, FoldExists
  <2> QED BY <2>2
<1>8. h = It(h)
  <2>1. \A s \in SUBSET S : h[s] = IF s = {} THEN d ELSE RecycleStream(h[s \ {AnyOf(s)}], AnyOf(s))
    <3> TAKE s \in SUBSET S
    <3>1. CASE s = {}
      BY <1>7, <3>1 DEF IsFold
    <3>2. CASE s # {}
      <4>1. pick[s] = AnyOf(s) /\ AnyOf(s) \in s
        BY <1>5a, <3>2 DEF pick
      <4>2. h[s] = F[AnyOf(s)][h[s \ {AnyOf(s)}]]
        BY <1>7, <3>2, <4>1 DEF IsFold
      <4>3. h[s \ {AnyOf(s)}] \in G[s \ {AnyOf(s)}]
        BY <1>7
      <4> QED BY <1>6, <3>2, <4>1, <4>2, <4>3
    <3> QED BY <3>1, <3>2
  <2> QED BY <1>7, <2>1
<1> DEFINE r == RelIter(d, S)
<1>9. r = It(r)
  BY <1>8 DEF RelIter
<1> HIDE DEF r
<1>10. \A s \in SUBSET S : r[s] = IF s = {} THEN d ELSE RecycleStream(r[s \ {AnyOf(s)}], AnyOf(s))
  BY <1>9
<1> DEFINE Q == {s \in SUBSET S : r[s] \in G[s]}
<1>11. {} \in Q
  BY <1>3, <1>10
<1>12. ASSUME NEW s \in SUBSET S, s # {}, s \ {pick[s]} \in Q PROVE s \in Q
  <2>1. pick[s] = AnyOf(s) /\ AnyOf(s) \in s
    BY <1>5a, <1>12 DEF pick
  <2>2. r[s \ {AnyOf(s)}] \in G[s \ {AnyOf(s)}]
    BY <1>12, <2>1
  <2>3. r[s] = RecycleStream(r[s \ {AnyOf(s)}], AnyOf(s))
    BY <1>10, <1>12
  <2>4. \A x \in s : \A g \in G[s \ {x}] : RecycleStream(g, x) \in G[s]
    BY <1>6
  <2>5. r[s] \in G[s]
    BY <2>1, <2>2, <2>3, <2>4
  <2> QED BY <2>5
<1>13. SUBSET S \subseteq Q
  <2>1. Grows(Q, S, pick)
    BY <1>12 DEF Grows
  <2> HIDE DEF Q
  <2> QED BY <1>1, <1>5, <1>11, <2>1, AllSubsets
<1>14. r[S] \in G[S]
  BY <1>13
<1>15. G[S] = Released(d, S)
  BY DEF G
<1>16. ReleaseStreams(d, S) = r[S]
  BY DEF ReleaseStreams, FoldSet, MapThenFoldSet, RelIter, AnyOf, r
<1> QED BY <1>14, <1>15, <1>16

\* The same for the fold of the SETTINGS frame over the streams.
AdjIter(d, S, n) ==
  CHOOSE iter : iter = [s \in SUBSET S |-> IF s = {} THEN d
                                           ELSE AdjWindowOut(iter[s \ {AnyOf(s)}], AnyOf(s), n)]

\* The window has moved by n.
Moved(x, y, n) ==
  y.win = Int32(x.win + n) /\ y.state = x.state /\ y.rel = x.rel

\* What moving the windows of the streams in S by n may leave.
Adjusted(d, S, n) ==
  {e \in {f \in Conn : Sound(f) /\ Buffered(f)} :
     /\ SameStatic(d, e)
     /\ Awake(e)
     /\ \A x \in Stream \ S : e.str[x] = d.str[x]
     /\ \A x \in S : Moved(d.str[x], e.str[x], n)}

\* No wake-up is lost when a window moves.
LEMMA AdjustAwake ==
  ASSUME NEW d, Sound(d), Buffered(d), Awake(d), NEW s \in Stream, InMap(d, s), NEW n \in Int,
         NEW e, e = AdjWindowOut(d, s, n)
  PROVE  Awake(e)
<1>1. /\ Rel(d, e, s) /\ Alike(d.str[s], e.str[s])
      /\ e.str[s].want = d.str[s].want /\ e.str[s].init = d.str[s].init
      /\ Queued(d, s) => Queued(e, s)
      /\ e.str[s].win >= 0 /\ e.str[s].want
           => Queued(e, s) /\ (Buffered(d) => e.lwant \/ (e.inEvent /\ e.waitP))
  BY AdjWindowOutRel
<1>2. Weak(d, e, s) /\ e.str[s] \in StreamRec
  BY <1>1, RelFacts DEF Rel
<1>3. AwakeAt(e, s)
  <2> SUFFICES ASSUME Need(e, s) PROVE Queued(e, s) /\ (e.outWin > 0 /\ ~e.lpause => Called(e))
    BY DEF AwakeAt
  <2>1. CASE e.str[s].init
    <3>1. Need(d, s)
      BY <1>1, <2>1 DEF Need, Alike
    <3>2. Queued(d, s) /\ (d.outWin > 0 /\ ~d.lpause => Called(d))
      BY <3>1 DEF Awake, AwakeAt
    <3> QED BY <1>1, <1>2, <3>2 DEF Weak, SameStatic, Called
  <2>2. CASE ~e.str[s].init
    <3>1. e.str[s].want /\ e.str[s].win > 0
      BY <2>2 DEF Need
    <3>2. e.str[s].win >= 0
      BY <1>2, <3>1, H2ConnAssumption DEF StreamRec, Window
    <3> QED BY <1>1, <3>1, <3>2 DEF Called
  <2> QED BY <2>1, <2>2
<1> QED BY <1>2, <1>3, AwakeStep DEF Awake

\* One more window is moved.
LEMMA AdjustAdjusted ==
  ASSUME NEW d, Sound(d), NEW n \in Int, NEW S \in SUBSET Mapped(d), NEW x \in S,
         NEW e \in Adjusted(d, S \ {x}, n), NEW f, f = AdjWindowOut(e, x, n)
  PROVE  InMap(e, x) /\ f \in Adjusted(d, S, n)
<1>1. x \in Stream /\ InMap(d, x)
  BY DEF Mapped
<1>2. Sound(e) /\ Buffered(e) /\ Awake(e) /\ e.str[x] = d.str[x] /\ InMap(e, x)
  BY <1>1 DEF Adjusted, InMap
<1>3. Rel(e, f, x) /\ f.str[x].win = Int32(e.str[x].win + n)
      /\ f.str[x].rel = e.str[x].rel /\ Alike(e.str[x], f.str[x])
  BY <1>1, <1>2, AdjWindowOutRel
<1>4. Moved(d.str[x], f.str[x], n)
  BY <1>2, <1>3 DEF Alike, Moved
<1>5. Weak(e, f, x)
  BY <1>3 DEF Rel
<1>6. Sound(f) /\ Buffered(f)
  BY <1>2, <1>5 DEF Weak
<1>7. Awake(f)
  BY <1>1, <1>2, AdjustAwake
<1>8. SameStatic(d, f)
  BY <1>5 DEF Adjusted, Weak, SameStatic
<1>9. \A t \in Stream \ {x} : f.str[t] = e.str[t]
  BY <1>5 DEF Weak
<1>10. \A t \in Stream \ S : f.str[t] = d.str[t]
  BY <1>1, <1>9 DEF Adjusted
<1>11. \A t \in S : Moved(d.str[t], f.str[t], n)
  <2>1. \A t \in S \ {x} : t \in Stream /\ Moved(d.str[t], e.str[t], n)
    BY DEF Adjusted, Mapped
  <2> QED BY <1>4, <1>9, <2>1
<1>12. f \in Conn
  BY <1>6 DEF Sound
<1> QED BY <1>2, <1>6, <1>7, <1>8, <1>10, <1>11, <1>12 DEF Adjusted

\* A new initial window, for any set of streams and in any order.
LEMMA AdjustRel ==
  ASSUME NEW d, Sound(d), Buffered(d), Awake(d), NEW n \in Int, NEW S \in SUBSET Mapped(d)
  PROVE  FoldSet(LAMBDA s, e : AdjWindowOut(e, s, n), d, S) \in Adjusted(d, S, n)
<1> DEFINE U == {f \in Conn : Sound(f) /\ Buffered(f)}
           G == [s \in SUBSET S |-> Adjusted(d, s, n)]
           F == [x \in S |-> [g \in U |-> IF AdjWindowOut(g, x, n) \in U THEN AdjWindowOut(g, x, n) ELSE g]]
           pick == [s \in SUBSET S |-> AnyOf(s)]
           It(h) == [s \in SUBSET S |-> IF s = {} THEN d ELSE AdjWindowOut(h[s \ {AnyOf(s)}], AnyOf(s), n)]
<1>1. IsFiniteSet(S)
  BY StreamFinite, FS_Subset DEF Mapped
<1>2. G \in [SUBSET S -> SUBSET U]
  BY DEF Adjusted
<1>3. d \in G[{}]
  <2>1. d \in Conn /\ SameStatic(d, d)
    BY DEF Sound, SameStatic
  <2>2. G[{}] = Adjusted(d, {}, n)
    OBVIOUS
  <2> QED BY <2>1, <2>2 DEF Adjusted
<1>4. F \in [S -> [U -> U]]
  OBVIOUS
<1>5. Picks(pick, S)
  BY DEF AnyOf, Picks
<1>5a. \A s \in SUBSET S : s # {} => AnyOf(s) \in s
  BY DEF AnyOf
<1>6. ASSUME NEW s \in SUBSET S, NEW x \in s, NEW g \in G[s \ {x}]
      PROVE  AdjWindowOut(g, x, n) \in G[s] /\ F[x][g] = AdjWindowOut(g, x, n)
  <2>1. g \in Adjusted(d, s \ {x}, n) /\ s \in SUBSET Mapped(d)
    OBVIOUS
  <2>2. AdjWindowOut(g, x, n) \in Adjusted(d, s, n)
    BY <2>1, AdjustAdjusted
  <2>3. g \in U /\ AdjWindowOut(g, x, n) \in U
    BY <2>1, <2>2 DEF Adjusted
  <2> QED BY <2>2, <2>3
<1> HIDE DEF U, G, F, pick
<1>7. PICK h \in [SUBSET S -> U] :
        IsFold(h, S, F, pick, d) /\ \A s \in SUBSET S : h[s] \in G[s]
  <2>1. Leads(F, S, G)
    BY <1>6 DEF Leads
  <2>2. \E h \in [SUBSET S -> U] :
           IsFold(h, S, F, pick, d) /\ \A s \in SUBSET S : h[s] \in G[s]
    BY <1>1, <1>2, <1>3, <1>4, <1>5, <2>1, FoldExists
  <2> QED BY <2>2
<1>8. h = It(h)
  <2>1. \A s \in SUBSET S : h[s] = IF s = {} THEN d ELSE AdjWindowOut(h[s \ {AnyOf(s)}], AnyOf(s), n)
    <3> TAKE s \in SUBSET S
    <3>1. CASE s = {}
      BY <1>7, <3>1 DEF IsFold
    <3>2. CASE s # {}
      <4>1. pick[s] = AnyOf(s) /\ AnyOf(s) \in s
        BY <1>5a, <3>2 DEF pick
      <4>2. h[s] = F[AnyOf(s)][h[s \ {AnyOf(s)}]]
        BY <1>7, <3>2, <4>1 DEF IsFold
      <4>3. h[s \ {AnyOf(s)}] \in G[s \ {AnyOf(s)}]
        BY <1>7
      <4> QED BY <1>6, <3>2, <4>1, <4>2, <4>3
    <3> QED BY <3>1, <3>2
  <2> QED BY <1>7, <2>1
<1> DEFINE r == AdjIter(d, S, n)
<1>9. r = It(r)
  BY <1>8 DEF AdjIter
<1> HIDE DEF r
<1>10. \A s \in SUBSET S : r[s] = IF s = {} THEN d ELSE AdjWindowOut(r[s \ {AnyOf(s)}], AnyOf(s), n)
  BY <1>9
<1> DEFINE Q == {s \in SUBSET S : r[s] \in G[s]}
<1>11. {} \in Q
  BY <1>3, <1>10
<1>12. ASSUME NEW s \in SUBSET S, s # {}, s \ {pick[s]} \in Q PROVE s \in Q
  <2>1. pick[s] = AnyOf(s) /\ AnyOf(s) \in s
    BY <1>5a, <1>12 DEF pick
  <2>2. r[s \ {AnyOf(s)}] \in G[s \ {AnyOf(s)}]
    BY <1>12, <2>1
  <2>3. r[s] = AdjWindowOut(r[s \ {AnyOf(s)}], AnyOf(s), n)
    BY <1>10, <1>12
  <2>4. \A x \in s : \A g \in G[s \ {x}] : AdjWindowOut(g, x, n) \in G[s]
    BY <1>6
  <2>5. r[s] \in G[s]
    BY <2>1, <2>2, <2>3, <2>4
  <2> QED BY <2>5
<1>13. SUBSET S \subseteq Q
  <2>1. Grows(Q, S, pick)
    BY <1>12 DEF Grows
  <2> HIDE DEF Q
  <2> QED BY <1>1, <1>5, <1>11, <2>1, AllSubsets
<1>14. r[S] \in G[S]
  BY <1>13
<1>15. G[S] = Adjusted(d, S, n)
  BY DEF G
<1>16. FoldSet(LAMBDA s, e : AdjWindowOut(e, s, n), d, S) = r[S]
  BY DEF FoldSet, MapThenFoldSet, AdjIter, AnyOf, r
<1> QED BY <1>14, <1>15, <1>16

(***************************************************************************)
(* A queue from its front.                                                 *)
(***************************************************************************)
\* A queue's count is its length, which is at most the number of streams.
LEMMA QueueLen ==
  ASSUME NEW d, Sound(d), NEW p \in Level
  PROVE  /\ QueueCount(d, p) = Len(d.que[p]) /\ Len(d.que[p]) \in 0 .. NStreams
<1>1. d.que[p] \in Seq(Stream) /\ d.total[p] = Len(d.que[p])
  BY DEF Sound, Conn
<1> DEFINE q == d.que[p]
<1>2. \A i, j \in 1 .. Len(q) : q[i] = q[j] => i = j
  BY DEF Sound
<1>3. Len(q) \in Nat /\ q \in [1 .. Len(q) -> Stream] /\ (q = <<>> => Len(q) = 0)
  BY <1>1
<1> HIDE DEF q
<1>4. IsFiniteSet(1 .. Len(q)) /\ Cardinality(1 .. Len(q)) = Len(q)
  <2> DEFINE n == Len(q)
  <2>1. n \in Nat /\ 1 \in Int /\ n \in Int
    BY <1>3
  <2> HIDE DEF n
  <2>2. IsFiniteSet(1 .. n) /\ Cardinality(1 .. n) = IF 1 > n THEN 0 ELSE n - 1 + 1
    BY <2>1, FS_Interval
  <2>3. Cardinality(1 .. n) = n
    BY <2>1, <2>2
  <2> QED BY <2>2, <2>3 DEF n
<1>5. ~(Cardinality(Stream) < Cardinality(1 .. Len(q)))
  BY <1>2, <1>3, <1>4, StreamFinite, FS_PigeonHole
<1>6. Len(q) <= NStreams
  BY <1>3, <1>4, <1>5, StreamFinite, H2ConnAssumption
<1>7. Len(q) \in 0 .. NStreams
  BY <1>3, <1>6, H2ConnAssumption
<1>8. QueueCount(d, p) = Len(q)
  BY <1>1, <1>3 DEF QueueCount, q
<1> QED BY <1>7, <1>8 DEF q

\* The shape of pop_front.
LEMMA PopShape ==
  ASSUME NEW d \in Conn, lvl \in Level
  PROVE  Pop(d) = ToQue(d, [d.que EXCEPT ![lvl] = Tail(@)], [d.total EXCEPT ![lvl] = @ - 1])
BY DEF Conn, ToQue, Pop

\* pop_front takes the first stream of the level out and moves the others up
\* by one.
LEMMA PopRel ==
  ASSUME NEW d, Sound(d), lvl \in Level, d.que[lvl] # <<>>, NEW s, s = Head(d.que[lvl]),
         NEW e, e = Pop(d)
  PROVE  /\ s \in Stream /\ InMap(d, s) /\ d.str[s].pri = lvl
         /\ Rel(d, e, s) /\ ~Queued(e, s) /\ e.str = d.str /\ e.shut = d.shut
         /\ \A j \in 1 .. Len(e.que[lvl]) :
              j + 1 \in 1 .. Len(d.que[lvl]) /\ e.que[lvl][j] = d.que[lvl][j + 1]
         /\ \A p \in Level \ {lvl} : e.que[p] = d.que[p]
<1>0. d \in Conn
  BY DEF Sound
<1> DEFINE Q == [d.que EXCEPT ![lvl] = Tail(@)]
           T == [d.total EXCEPT ![lvl] = @ - 1]
           q == d.que[lvl]
<1>1. q \in Seq(Stream) /\ q # <<>> /\ d.total[lvl] \in Int
  BY <1>0 DEF Conn
<1>2. /\ Q \in [Level -> Seq(Stream)] /\ T \in [Level -> Int]
  BY <1>0, <1>1 DEF Conn
<1>3. /\ Q[lvl] = Tail(q) /\ T[lvl] = d.total[lvl] - 1
      /\ \A p \in Level \ {lvl} : Q[p] = d.que[p] /\ T[p] = d.total[p]
  BY <1>0 DEF Conn
<1>4. e = ToQue(d, Q, T)
  BY <1>0, PopShape
<1>4a. Q[lvl] = Tail(d.que[lvl])
  BY <1>3
<1> HIDE DEF Q, T, q
<1>5. /\ e \in Conn
      /\ SameStatic(d, e) /\ e.str = d.str /\ e.shut = d.shut /\ e.lwant = d.lwant
      /\ e.waitP = d.waitP /\ e.lpause = d.lpause /\ e.obuf = d.obuf /\ e.wflush = d.wflush
      /\ e.que = Q /\ e.total = T
  BY <1>0, <1>2, <1>4, QueSet
<1>6. /\ Len(q) \in Nat \ {0} /\ Tail(q) \in Seq(Stream) /\ Len(Tail(q)) = Len(q) - 1
      /\ \A j \in 1 .. Len(q) - 1 : Tail(q)[j] = q[j + 1]
      /\ Head(q) = q[1]
  BY <1>1
<1>7. s = q[1] /\ 1 \in 1 .. Len(q)
  BY <1>6 DEF q
<1>8. s \in Stream /\ InMap(d, s) /\ d.str[s].pri = lvl
  BY <1>1, <1>7 DEF Sound, q
<1>9. ASSUME NEW p \in Level, NEW j \in 1 .. Len(e.que[p])
      PROVE  /\ \E i \in j .. Len(d.que[p]) : d.que[p][i] = e.que[p][j]
             /\ e.que[p][j] # s
             /\ p = lvl => j + 1 \in 1 .. Len(d.que[lvl]) /\ e.que[lvl][j] = d.que[lvl][j + 1]
  <2>1. CASE p = lvl
    <3>1. e.que[p] = Tail(q) /\ d.que[p] = q
      BY <1>3, <1>5, <2>1 DEF q
    <3>2. j \in 1 .. Len(q) - 1
      BY <1>6, <3>1
    <3>3. j + 1 \in j .. Len(q) /\ j + 1 \in 1 .. Len(q) /\ j + 1 # 1 /\ e.que[p][j] = q[j + 1]
      BY <1>6, <3>1, <3>2
    <3>4. q[j + 1] # q[1]
      BY <1>7, <2>1, <3>1, <3>3 DEF Sound
    <3> QED BY <1>7, <2>1, <3>1, <3>3, <3>4
  <2>2. CASE p # lvl
    <3>1. e.que[p] = d.que[p] /\ d.que[p] \in Seq(Stream)
      BY <1>0, <1>3, <1>5, <2>2 DEF Conn
    <3>2. j \in j .. Len(d.que[p]) /\ j \in 1 .. Len(d.que[p])
      BY <3>1
    <3>3. d.str[d.que[p][j]].pri = p
      BY <3>2 DEF Sound
    <3> QED BY <1>8, <2>2, <3>1, <3>2, <3>3
  <2> QED BY <2>1, <2>2
<1>10. \A p \in Level : e.total[p] = Len(e.que[p])
  <2> TAKE p \in Level
  <2>1. CASE p = lvl
    BY <1>1, <1>3, <1>5, <1>6, <2>1 DEF Sound, q
  <2>2. CASE p # lvl
    BY <1>3, <1>5, <2>2 DEF Sound
  <2> QED BY <2>1, <2>2
<1>11. Sound(e)
  <2>1. ASSUME NEW p \in Level, NEW j \in 1 .. Len(e.que[p])
        PROVE InMap(e, e.que[p][j]) /\ e.str[e.que[p][j]].pri = p
    <3>1. PICK i \in j .. Len(d.que[p]) : d.que[p][i] = e.que[p][j]
      BY <1>9
    <3>2. i \in 1 .. Len(d.que[p])
      BY <1>0 DEF Conn
    <3> QED BY <1>5, <3>1, <3>2 DEF Sound, InMap
  <2>2. ASSUME NEW p \in Level, NEW i \in 1 .. Len(e.que[p]), NEW j \in 1 .. Len(e.que[p]),
               e.que[p][i] = e.que[p][j]
        PROVE i = j
    <3>1. CASE p = lvl
      <4>1. /\ i + 1 \in 1 .. Len(d.que[p]) /\ e.que[p][i] = d.que[p][i + 1]
            /\ j + 1 \in 1 .. Len(d.que[p]) /\ e.que[p][j] = d.que[p][j + 1]
        BY <1>9, <3>1
      <4>2. i + 1 = j + 1
        BY <2>2, <4>1 DEF Sound
      <4> QED BY <4>2
    <3>2. CASE p # lvl
      <4>1. e.que[p] = d.que[p]
        BY <1>3, <1>5, <3>2
      <4> QED BY <2>2, <4>1 DEF Sound
    <3> QED BY <3>1, <3>2
  <2>3. Counted(e)
    <3>1. Done(e) = Done(d) /\ Over(e) = Over(d)
      BY <1>5 DEF Done, Over, SameStatic
    <3> QED BY <1>5, <3>1 DEF Counted, Sound
  <2>4. \A t \in Stream : (InMap(e, t) => t <= e.last) /\ Filled(e.str[t])
    BY <1>5 DEF Sound, InMap, SameStatic
  <2> QED BY <1>5, <1>10, <2>1, <2>2, <2>3, <2>4 DEF Sound
<1>12. Later(d, e, s)
  BY <1>9 DEF Later
<1>13. ~Queued(e, s)
  BY <1>5, <1>8, <1>9, QueuedIn
<1>14. \A t \in Stream \ {s} : Queued(d, t) => Queued(e, t)
  <2> SUFFICES ASSUME NEW t \in Stream \ {s}, Queued(d, t) PROVE Queued(e, t)
    OBVIOUS
  <2>0. PICK p \in Level : \E i \in 1 .. Len(d.que[p]) : d.que[p][i] = t
    BY <1>0, QueuedIn
  <2>1. PICK i \in 1 .. Len(d.que[p]) : d.que[p][i] = t
    BY <2>0
  <2>2. CASE p = lvl
    <3>1. i # 1 /\ i \in 1 .. Len(q) /\ q[i] = t
      BY <1>7, <2>1, <2>2 DEF q
    <3>2. i - 1 \in 1 .. Len(q) - 1 /\ (i - 1) + 1 = i
      BY <1>6, <3>1
    <3>3. Tail(q)[i - 1] = t /\ i - 1 \in 1 .. Len(Tail(q)) /\ e.que[lvl] = Tail(q)
      BY <1>3, <1>5, <1>6, <3>1, <3>2
    <3> QED BY <1>5, <3>3, QueuedIn
  <2>3. CASE p # lvl
    <3>1. e.que[p] = d.que[p]
      BY <1>3, <1>5, <2>3
    <3> QED BY <1>5, <2>1, <3>1, QueuedIn
  <2> QED BY <2>2, <2>3
<1>15. Rel(d, e, s)
  BY <1>5, <1>11, <1>12, <1>14 DEF Rel, Weak, Buffered, SameStatic
<1> QED BY <1>3, <1>5, <1>8, <1>9, <1>13, <1>15
=============================================================================
