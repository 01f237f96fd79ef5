------------------------------- MODULE H2Conn -------------------------------
(***************************************************************************)
(* The sending half of an HTTP/2 connection (src/src/h2): flow control     *)
(* windows, the priority queues of streams that wait to write, and the     *)
(* flags by which the connection asks its socket for a write event.        *)
(*                                                                         *)
(* One thread runs everything.  A read event, a write event, a timer tick  *)
(* or output of the application enters the code; the loops inside an event *)
(* (frames of the input, streams of the queues, DATA frames of a write)    *)
(* are steps of their own, pc says which loop is running.  While an event  *)
(* of the connection runs (inEvent, H2_CONN_FLAG_IN_EVENT) wake-ups are    *)
(* only noted in flags and acted upon at its end.                          *)
(*                                                                         *)
(* Data is counted in units of one DATA frame.  The output buffer holds    *)
(* obuf frames; the socket takes any number of them.  The connection is a  *)
(* plain one (no H2_CONN_FLAG_DIRECT_BUF, no TLS write buffer).  The       *)
(* connection record is passed through the functions the way the code      *)
(* passes "this"; each operator below is the function of the same name.    *)
(***************************************************************************)
EXTENDS Integers, Sequences, FiniteSets, SequencesExt

CONSTANTS
    NStreams,        \* streams the client opens, with ids 1 .. NStreams
    MaxLen,          \* units of a response body
    InitWindow,      \* H2_FCW_INIT_SIZE
    MaxWindow,       \* H2_FCW_MAX_SIZE, the largest value of an int32_t
    Deltas,          \* increments of the client's WINDOW_UPDATE frames
    InitWindows,     \* values of the client's SETTINGS_INITIAL_WINDOW_SIZE
    MaxSettings,     \* bound: SETTINGS frames of the client
    StreamLimits,    \* values of m_iServerMaxStreams, a limit of the configuration
    FlushAt,         \* frames that make 1369 bytes of output
    BufFull          \* frames that make 32768 bytes of output

ASSUME H2ConnAssumption ==
    /\ NStreams \in Nat \ {0} /\ MaxLen \in Nat
    /\ MaxWindow \in Nat \ {0} /\ InitWindow \in 0 .. MaxWindow
    /\ Deltas \subseteq 1 .. MaxWindow /\ InitWindows \subseteq 0 .. MaxWindow
    /\ MaxSettings \in Nat /\ StreamLimits \subseteq Nat \ {0}
    /\ FlushAt \in Nat \ {0} /\ BufFull \in Nat \ {0}

Stream == 1 .. NStreams
Html   == 1                     \* HIO_PRIORITY_HTML, the default
Level  == 0 .. Html             \* the queues in use of m_priQue

VARIABLES
    c,       \* the connection: windows, flags, queues and streams
    pc,      \* the loop that is running, "idle" between events
    ret,     \* where onWriteEx2 returns to
    lvl, cnt, ww,   \* processQueue: level, streams to look at, wantWrite > 0
    cur      \* the stream taken from a queue or writing

vars == <<c, pc, ret, lvl, cnt, ww, cur>>

NewStream ==
    [state |-> "none", win |-> 0, want |-> FALSE, pause |-> FALSE,
     init |-> FALSE, rel |-> FALSE, hdr |-> FALSE, peer |-> FALSE,
     local |-> FALSE, pri |-> 0, avail |-> 0, left |-> 0]

InitConn(n) ==
    [outWin |-> InitWindow, initWin |-> InitWindow, last |-> 0, shut |-> 0,
     que |-> [p \in Level |-> <<>>], total |-> [p \in Level |-> 0],
     obuf |-> 0, lwant |-> FALSE, lpause |-> FALSE,
     inEvent |-> FALSE, waitP |-> FALSE, pend |-> FALSE, wflush |-> FALSE,
     open |-> TRUE, nset |-> 0, limit |-> n,
     str |-> [s \in Stream |-> NewStream]]

InMap(d, s)     == d.str[s].state # "none"
Mapped(d)       == {s \in Stream : InMap(d, s)}
Queued(d, s)    == \E p \in Level : s \in ToSet(d.que[p])
OutBufFull(d)   == d.outWin <= 0 \/ d.obuf >= BufFull

\* An int32_t sum: it wraps at both ends.
Int32(x) == ((x + MaxWindow + 1) % (2 * (MaxWindow + 1))) - (MaxWindow + 1)

(***************************************************************************)
(* The output buffer and the write event of the socket.                    *)
(***************************************************************************)
ContinueWrite(d) == [d EXCEPT !.lwant = TRUE]

WantFlush(d) ==
    IF d.inEvent THEN [d EXCEPT !.wflush = TRUE] ELSE ContinueWrite(d)

NeedWriteEvent(d) ==
    IF d.inEvent THEN [d EXCEPT !.waitP = TRUE]
    ELSE IF d.obuf = 0 THEN ContinueWrite(d) ELSE d

\* Sizes from BufFull on are not told apart.
Grow(d) == IF d.obuf < BufFull THEN d.obuf + 1 ELSE BufFull

GuaranteeOutput(d) == WantFlush([d EXCEPT !.obuf = Grow(d)])

\* The socket takes w of the buffered frames.
Flush(d, w) ==
    IF w < d.obuf
    THEN [d EXCEPT !.obuf = @ - w, !.lwant = TRUE, !.lpause = TRUE]
    ELSE [d EXCEPT !.obuf = 0, !.wflush = FALSE]

(***************************************************************************)
(* The priority queues.                                                    *)
(***************************************************************************)
\* TDLinkQueue::remove takes the stream out of the list it is linked in, and
\* counts it out of the queue of its priority.
RemovePriQue(d, s) ==
    IF ~Queued(d, s) THEN d
    ELSE [d EXCEPT !.que = [p \in Level |-> RemoveFirst(d.que[p], s)],
                   !.total[d.str[s].pri] = @ - 1]

AppendQue(d, s) ==
    [d EXCEPT !.que[d.str[s].pri] = Append(@, s), !.total[d.str[s].pri] = @ + 1]

Add2PriorityQue(d, s) ==
    LET e == [AppendQue(RemovePriQue(d, s), s) EXCEPT !.waitP = @ \/ d.inEvent]
    IN  IF ~e.inEvent /\ e.outWin > 0 THEN ContinueWrite(e) ELSE e

EnsureQueued(d, s) == IF Queued(d, s) THEN d ELSE Add2PriorityQue(d, s)

ApplyPriority(d, s, p) ==
    IF p = d.str[s].pri THEN d
    ELSE IF Queued(d, s)
         THEN Add2PriorityQue([RemovePriQue(d, s) EXCEPT !.str[s].pri = p], s)
         ELSE [d EXCEPT !.str[s].pri = p]

(***************************************************************************)
(* A stream: wanting to write, its window, its end.                        *)
(***************************************************************************)
StreamContinueWrite(d, s) ==
    NeedWriteEvent(EnsureQueued([d EXCEPT !.str[s].want = TRUE], s))

WantWrite(d, s, w) ==
    IF d.str[s].want = w THEN d
    ELSE IF w THEN StreamContinueWrite(d, s)
         ELSE [d EXCEPT !.str[s].want = FALSE]

AdjWindowOut(d, s, n) ==
    LET e == [d EXCEPT !.str[s].win = Int32(@ + n)]
        f == [e EXCEPT !.str[s].pause = FALSE]
    IN  IF e.str[s].win < 0 THEN e
        ELSE IF f.str[s].want THEN StreamContinueWrite(f, s) ELSE f

ShutdownWrite(d, s) ==
    IF d.str[s].local THEN d
    ELSE [GuaranteeOutput(d) EXCEPT !.str[s].local = TRUE, !.str[s].want = FALSE]

\* Fault: a stream that is done and already queued is not counted.
MarkShutdownUncounted(d, s) ==
    LET e == [d EXCEPT !.str[s].state = "SHUTDOWN"]
    IN  IF Queued(e, s) THEN e
        ELSE Add2PriorityQue([e EXCEPT !.str[s].pri = 0, !.shut = @ + 1], s)

MarkShutdown(d, s) ==
    LET e == [d EXCEPT !.str[s].state = "SHUTDOWN", !.shut = @ + 1]
    IN  IF Queued(e, s) THEN e
        ELSE Add2PriorityQue([e EXCEPT !.str[s].pri = 0], s)

\* END_STREAM on the last frame of a response: with both ends closed the
\* stream is done.
EndLocal(d, s) ==
    LET b == [d EXCEPT !.str[s].local = TRUE]
    IN  IF b.str[s].peer THEN MarkShutdown(b, s) ELSE b

\* Fault: the counter goes down whatever the state was.
DisconnectDown(d, s) ==
    [d EXCEPT !.shut = @ - 1, !.str[s].state = "DISCONNECTED", !.str[s].want = FALSE]

\* The last statements of closeEx and abort.
Disconnect(d, s) ==
    [d EXCEPT !.shut = IF d.str[s].state = "SHUTDOWN" THEN @ - 1 ELSE @,
              !.str[s].state = "DISCONNECTED", !.str[s].want = FALSE]

Abort(d, s) ==
    IF d.str[s].state = "DISCONNECTED" THEN d
    ELSE Disconnect(IF d.str[s].state \in {"CONNECTED", "CLOSING"}
                    THEN GuaranteeOutput(d) ELSE d, s)

Shutdown(d, s) ==
    IF d.str[s].state \in {"SHUTDOWN", "RESET"} THEN d
    ELSE IF ~d.str[s].hdr THEN Abort(d, s)
         ELSE MarkShutdown(ShutdownWrite(d, s), s)

\* HttpSession::closeSession; init means that there is no session yet.
CloseSession(d, s) ==
    IF d.str[s].init \/ d.str[s].rel THEN d
    ELSE LET e == [d EXCEPT !.str[s].rel = TRUE,
                            !.str[s].state = IF @ \in {"SHUTDOWN", "RESET"}
                                             THEN @ ELSE "CLOSING"]
         IN  Shutdown(e, s)

CloseEx(d, s) ==
    IF d.str[s].state = "DISCONNECTED" THEN d
    ELSE LET e == CloseSession(d, s)
             f == IF e.str[s].state \in {"SHUTDOWN", "RESET"}
                  THEN e ELSE ShutdownWrite(e, s)
         IN  Disconnect(f, s)

\* Fault: the stream goes back to the pool while it is still linked.
RecycleStreamLinked(d, s) ==
    [CloseEx(d, s) EXCEPT !.str[s] = NewStream]

RecycleStream(d, s) ==
    [RemovePriQue(CloseEx(d, s), s) EXCEPT !.str[s] = NewStream]

\* A stream that is not in the map is only answered with RST_STREAM, and
\* only while there is room for it.
ResetStream(d, s) ==
    IF InMap(d, s)
    THEN RecycleStream([GuaranteeOutput(d) EXCEPT !.str[s].state = "RESET"], s)
    ELSE IF 2 * d.obuf < BufFull THEN GuaranteeOutput(d) ELSE d

ReleaseStreams(d, set) ==
    FoldSet(LAMBDA s, e : RecycleStream(e, s), d, set)

DoGoAway(d, w) ==
    [Flush(GuaranteeOutput(ReleaseStreams(d, Mapped(d))), w) EXCEPT !.open = FALSE]

(***************************************************************************)
(* Where onWriteEx2 returns: to the frame it was called for, or to the end *)
(* of the read or the write event (onReadEx, onWriteEx).                   *)
(***************************************************************************)
Idle == pc = "idle" /\ c.open
Reading == pc = "frames" /\ c.open
Loc  == UNCHANGED <<ret, lvl, cnt, ww, cur>>
Away == ret' = "read" /\ lvl' = 0 /\ cnt' = 0 /\ ww' = FALSE /\ cur' = 1

\* waitP and pend say nothing after the event.
EventReturn(d, r, want, w) ==
    LET e == [d EXCEPT !.inEvent = FALSE, !.waitP = FALSE, !.pend = FALSE]
    IN  /\ c' = IF r = "frames" THEN d
                ELSE IF r = "read" THEN IF e.wflush THEN Flush(e, w) ELSE e
                ELSE IF (~want \/ e.outWin <= 0) /\ e.obuf = 0
                     THEN [e EXCEPT !.lwant = FALSE] ELSE e
        /\ pc' = IF r = "frames" THEN "frames" ELSE "idle"
        /\ Away

\* What processQueue and processPendingStreams take from a queue at most.
QueueCount(d, p) == IF d.que[p] = <<>> THEN 0 ELSE d.total[p]

OnWriteEx2(d, r, w) ==
    LET e == IF d.obuf >= FlushAt THEN Flush(d, w)
             ELSE [d EXCEPT !.wflush = @ \/ d.obuf > 0]
    IN  IF d.obuf >= FlushAt /\ e.obuf > 0 THEN EventReturn(e, r, TRUE, w)
        ELSE IF e.lpause
        THEN EventReturn(IF e.outWin > 0 THEN ContinueWrite(e) ELSE e, r, TRUE, w)
        ELSE /\ c' = e /\ pc' = "queue" /\ ret' = r
             /\ lvl' = 0 /\ cnt' = QueueCount(e, 0) /\ ww' = FALSE /\ UNCHANGED cur

(***************************************************************************)
(* Read event: frames of the client.                                       *)
(***************************************************************************)
ReadStart ==
    /\ Idle
    /\ c' = [c EXCEPT !.inEvent = TRUE]
    /\ pc' = "frames" /\ Loc

\* What a session does when it gets its stream: it waits for the application,
\* or it has a response of n units and asks for the write event, or it closes
\* the stream at once.
StartSession(d, s, n, how) ==
    LET e == [d EXCEPT !.str[s].init = FALSE]
    IN  IF how = "close" THEN CloseSession(e, s)
        ELSE IF how = "ready" THEN WantWrite([e EXCEPT !.str[s].avail = n], s, TRUE)
        ELSE [e EXCEPT !.str[s].left = n]

Settle(d, s) ==
    IF InMap(d, s) /\ d.str[s].state # "CONNECTED" THEN RecycleStream(d, s) ELSE d

\* HEADERS: the stream gets its window from the settings in force.  With
\* END_STREAM it is queued for a session, otherwise it gets one at once.
\* Without a session to be had, the stream is reset and then recycled again:
\* assert(pClientInfo) of recycleStream ends the process, which takes no more
\* steps (pc = "aborted").
Opened(d, s, fin) ==
    [d EXCEPT !.last = s,
              !.str[s] = [NewStream EXCEPT !.state = "CONNECTED", !.init = TRUE,
                             !.win = d.initWin, !.peer = fin, !.pri = Html]]

TooMany == Cardinality(Mapped(c)) - c.shut >= c.limit

HeadersFrame(fin, n, how) ==
    LET s == c.last + 1
        o == Opened(c, s, fin)
    IN  /\ Reading /\ s \in Stream
        /\ c' = IF TooMany THEN GuaranteeOutput([c EXCEPT !.last = s])
                ELSE IF fin THEN [Add2PriorityQue(o, s) EXCEPT !.pend = TRUE]
                ELSE IF how = "fail" THEN ResetStream(o, s)
                ELSE Settle(StartSession(o, s, n, how), s)
        /\ pc' = IF ~TooMany /\ ~fin /\ how = "fail" THEN "aborted" ELSE pc
        /\ Loc

\* A header block that cannot be decoded ends the connection, in decodeHeaders
\* and, by its return value, once more in processInput.
UndecodedHeaders(fin, w) ==
    /\ Reading /\ c.last + 1 \in Stream /\ ~TooMany
    /\ c' = DoGoAway(DoGoAway(Opened(c, c.last + 1, fin), w), w)
    /\ UNCHANGED pc /\ Loc

HasSession(s) == c.str[s].state = "CONNECTED" /\ ~c.str[s].init /\ ~c.str[s].rel

\* DATA with END_STREAM: a stream that is unknown or ended is reset.
EndStreamFrame(s) ==
    /\ Reading /\ s <= c.last
    /\ c' = IF InMap(c, s) /\ ~c.str[s].peer THEN [c EXCEPT !.str[s].peer = TRUE]
            ELSE ResetStream(c, s)
    /\ UNCHANGED pc /\ Loc

\* The same frame for a session that waited for the whole request body: it
\* now runs the rewrite rules, and one of them sets the priority of the stream
\* (RewriteEngine, HioStream::setPriority), which stays where it is linked.
EndStreamRewrite(s, p) ==
    /\ Reading /\ HasSession(s) /\ ~c.str[s].peer
    /\ ~c.str[s].hdr /\ c.str[s].avail = 0 /\ c.str[s].left > 0
    /\ c' = [c EXCEPT !.str[s].peer = TRUE, !.str[s].pri = p]
    /\ UNCHANGED pc /\ Loc

\* RST_STREAM (onPeerClose): the session is closed, then the stream, unless
\* the session has aborted it.
RstFrame(s) ==
    /\ Reading /\ InMap(c, s)
    /\ LET d == CloseSession([c EXCEPT !.str[s].peer = TRUE], s)
       IN  c' = IF d.str[s].state = "DISCONNECTED" THEN d ELSE RecycleStream(d, s)
    /\ UNCHANGED pc /\ Loc

PriorityFrame(s, p) ==
    /\ Reading /\ InMap(c, s)
    /\ c' = ApplyPriority(c, s, p)
    /\ UNCHANGED pc /\ Loc

\* SETTINGS: v is the last INITIAL_WINDOW_SIZE of the frame and u the value
\* before it, in force or of the same frame.  The streams get the difference of
\* the two, also if u was never in force.
SettingsFrame(u, v) ==
    /\ Reading /\ c.nset < MaxSettings
    /\ LET d == [GuaranteeOutput(c) EXCEPT !.nset = @ + 1, !.initWin = v]
       IN  c' = FoldSet(LAMBDA s, e : AdjWindowOut(e, s, v - u), d,
                        IF v # u THEN Mapped(c) ELSE {})
    /\ UNCHANGED pc /\ Loc

\* WINDOW_UPDATE of the connection.
WindowUpdateConn(n, w) ==
    /\ Reading
    /\ LET d == [c EXCEPT !.outWin = @ + n]
       IN  IF c.outWin + n > MaxWindow
           THEN c' = DoGoAway(c, w) /\ UNCHANGED pc /\ Loc
           ELSE IF c.outWin <= 0
           THEN OnWriteEx2(d, "frames", w)
           ELSE c' = d /\ UNCHANGED pc /\ Loc

\* WINDOW_UPDATE of a stream: one of 0 is an error of the stream, and one for a
\* stream that is gone means nothing.
WindowUpdateStream(s, n) ==
    /\ Reading /\ (n = 0 \/ s <= c.last)
    /\ LET d == AdjWindowOut(c, s, n)
       IN  c' = IF n = 0 THEN ResetStream(c, s)
                ELSE IF ~InMap(c, s) THEN c
                ELSE IF d.str[s].win < 0 THEN ResetStream(d, s)
                ELSE IF d.str[s].win <= n THEN StreamContinueWrite(d, s) ELSE d
    /\ UNCHANGED pc /\ Loc

\* A frame that ends the connection, by doGoAway in its handler or by a return
\* value that makes processInput call it: SETTINGS with a window over
\* MaxWindow, another bad entry or a bad size, WINDOW_UPDATE of 0 for the
\* connection or for a stream that was never opened, PUSH_PROMISE, a control
\* frame too many.
BadFrame(w) ==
    /\ Reading
    /\ c' = DoGoAway(c, w)
    /\ UNCHANGED pc /\ Loc

\* No more input.  Streams that wait for a session get one even if the
\* socket takes no output.
ReadEnd(w) ==
    /\ pc = "frames"
    /\ IF c.open /\ c.lpause /\ c.pend
       THEN /\ pc' = "pending" /\ lvl' = 0 /\ cnt' = QueueCount(c, 0) /\ ww' = FALSE
            /\ UNCHANGED <<c, ret, cur>>
       ELSE IF c.open /\ c.waitP THEN OnWriteEx2(c, "read", w)
       ELSE EventReturn(c, "read", FALSE, w)

(***************************************************************************)
(* The queues.  pc = "pending" is processPendingStreams, "queue" is        *)
(* processQueue; a level is left when cnt streams were looked at.          *)
(***************************************************************************)
Stay  == UNCHANGED <<ret, lvl>>

Pop(d) == [d EXCEPT !.que[lvl] = Tail(@), !.total[lvl] = @ - 1]

LoopOn == cnt > 0 /\ c.outWin > 0 /\ (pc = "queue" => ~c.lpause)

\* pop_front on an empty list that counts streams ends the process: a loop
\* that is on and finds its list empty has no next step.
PendingStep(n, how) ==
    /\ pc = "pending" /\ LoopOn /\ c.que[lvl] # <<>>
    /\ LET s == Head(c.que[lvl])
           d == Pop(c)
           t == StartSession(d, s, n, how)
           a == IF t.str[s].want /\ t.str[s].win > 0 /\ ~Queued(t, s)
                THEN AppendQue(t, s) ELSE t
           e == IF c.str[s].init THEN a
                ELSE [d EXCEPT !.que[d.str[s].pri] = <<s>> \o @,
                               !.total[d.str[s].pri] = @ + 1]
       IN  IF c.str[s].state # "CONNECTED"
           THEN c' = RecycleStream(d, s) /\ cnt' = cnt - 1 /\ UNCHANGED ww
           ELSE IF c.str[s].init /\ how = "fail"
           THEN c' = ResetStream(d, s) /\ cnt' = cnt - 1 /\ UNCHANGED ww
           ELSE /\ c' = Settle(e, s)
                /\ IF OutBufFull(c') THEN ww' = TRUE /\ cnt' = 0
                                     ELSE cnt' = cnt - 1 /\ UNCHANGED ww
    /\ UNCHANGED <<pc, cur>> /\ Stay

QueueStep(n, how) ==
    /\ pc = "queue" /\ LoopOn /\ c.que[lvl] # <<>>
    /\ cnt' = cnt - 1
    /\ LET s == Head(c.que[lvl])
           d == Pop(c)
       IN  IF c.str[s].state # "CONNECTED"
           THEN c' = RecycleStream(d, s) /\ UNCHANGED <<pc, cur>>
           ELSE IF c.str[s].init /\ how = "fail"
           THEN c' = ResetStream(d, s) /\ UNCHANGED <<pc, cur>>
           ELSE /\ cur' = s
                /\ IF c.str[s].init
                   THEN c' = StartSession(d, s, n, how) /\ pc' = "queued"
                   ELSE IF c.str[s].want /\ c.str[s].win > 0
                   THEN c' = [d EXCEPT !.str[s].pause = FALSE] /\ pc' = "doWrite"
                   ELSE c' = d /\ pc' = "queued"
    /\ UNCHANGED ww /\ Stay

\* The rest of the loop, after the stream had its turn.
QueueNext ==
    /\ pc = "queued"
    /\ LET s == cur
           more == c.str[s].want /\ c.str[s].win > 0
           d == Settle(IF more /\ ~Queued(c, s) THEN AppendQue(c, s) ELSE c, s)
           full == OutBufFull(d)
       IN  /\ c' = d
           /\ ww' = (ww \/ more \/ full)
           /\ cnt' = IF full THEN 0 ELSE cnt
    /\ pc' = "queue"
    /\ UNCHANGED cur /\ Stay

LevelDone ==
    /\ pc \in {"pending", "queue"} /\ ~LoopOn
    /\ ~ww /\ c.outWin > 0 /\ lvl < Html
    /\ lvl' = lvl + 1
    /\ cnt' = QueueCount(c, lvl + 1)
    /\ UNCHANGED <<c, pc, ret, ww, cur>>

Drained ==
    /\ pc \in {"pending", "queue"} /\ ~LoopOn
    /\ ww \/ c.outWin <= 0 \/ lvl = Html

PendingDone(w) ==
    /\ pc = "pending" /\ Drained
    /\ LET d == IF c.wflush THEN Flush(c, w) ELSE c
       IN  IF d.waitP THEN OnWriteEx2(d, "read", w)
           ELSE EventReturn(d, "read", FALSE, w)

\* Fault: what the queues say does not matter for the write event.
QueueDoneIdle(w) ==
    /\ pc = "queue" /\ Drained
    /\ EventReturn(IF c.wflush THEN Flush(c, w) ELSE c, ret, ww, w)

QueueDone(w) ==
    /\ pc = "queue" /\ Drained
    /\ LET d == IF c.wflush THEN Flush(c, w) ELSE c
       IN  EventReturn(IF ww /\ d.outWin > 0 THEN ContinueWrite(d) ELSE d, ret, ww, w)

(***************************************************************************)
(* Write event.                                                            *)
(***************************************************************************)
WriteEvent(w) ==
    /\ Idle /\ c.lwant
    /\ OnWriteEx2([c EXCEPT !.lpause = FALSE, !.inEvent = TRUE], "write", w)

(***************************************************************************)
(* A session writes: HttpSession::doWrite and flush, H2StreamBase::write.  *)
(***************************************************************************)
GoBack == IF c.inEvent THEN pc' = "queued" /\ Loc ELSE pc' = "idle" /\ Away

\* The headers of the response; END_STREAM when it has no body.  The first
\* write of a body flushes what is buffered.
SendRespHeaders(w) ==
    LET s == cur
        noBody == c.str[s].avail = 0 /\ c.str[s].left = 0
        a == IF noBody THEN EndLocal(c, s) ELSE c
        h == [GuaranteeOutput(a) EXCEPT !.str[s].hdr = TRUE]
    IN  /\ pc = "doWrite" /\ ~c.str[s].hdr
        /\ noBody \/ c.str[s].avail > 0
        /\ c' = IF noBody THEN h ELSE Flush(h, w)
        /\ UNCHANGED pc /\ Loc

\* One DATA frame; k frames stay in the buffer.  limit: the share of the
\* stream's priority is used up.  eor (HIO_EOR): the last frame of a file,
\* which ends the stream; more may follow when a sub-request sent the file.
WriteFrame(k, limit, eor) ==
    LET s == cur IN
    /\ pc = "doWrite" /\ c.str[s].hdr /\ ~c.str[s].pause /\ c.str[s].avail > 0
    /\ c.str[s].win > 0 /\ ~OutBufFull(c)
    /\ k \in 0 .. Grow(c) /\ (limit => c.str[s].avail > 1) /\ (eor => c.str[s].avail = 1)
    /\ LET b == IF eor THEN EndLocal(c, s) ELSE c
           d == IF eor \/ b.inEvent \/ b.obuf = 0 THEN WantFlush(b) ELSE b
       IN  c' = [d EXCEPT
                    !.obuf = k, !.outWin = @ - 1,
                    !.str[s].win = @ - 1, !.str[s].avail = @ - 1,
                    !.str[s].pause = limit \/ c.str[s].win = 1]
    /\ UNCHANGED pc /\ Loc

\* getDataFrameSize finds no room, or the stream is paused: the session
\* asks for the write event.
WriteBlocked ==
    LET s == cur
        d == IF c.str[s].pause THEN c
             ELSE NeedWriteEvent(EnsureQueued(
                    [c EXCEPT !.str[s].pause = TRUE, !.str[s].want = TRUE], s))
    IN  /\ pc = "doWrite" /\ c.str[s].hdr /\ c.str[s].avail > 0
        /\ c.str[s].pause \/ c.str[s].win <= 0 \/ OutBufFull(c)
        /\ c' = LET e == WantWrite(d, s, TRUE)
                IN  IF c.inEvent THEN NeedWriteEvent(e) ELSE e
        /\ GoBack

\* All there is was written: the response is complete, or the session waits
\* for more of it and, in a write event, wants no other (also before there
\* are headers, in state HSS_PROCESSING).
WriteDone ==
    LET s == cur
        d == WantFlush(c)
    IN  /\ pc = "doWrite" /\ c.str[s].avail = 0
        /\ c.str[s].hdr \/ c.str[s].left > 0
        /\ c' = IF ~c.str[s].hdr THEN WantWrite(c, s, FALSE)
                ELSE IF c.str[s].left = 0 THEN Shutdown(d, s)
                ELSE IF c.inEvent THEN WantWrite(d, s, FALSE) ELSE d
        /\ GoBack

(***************************************************************************)
(* Events of other origin.                                                 *)
(***************************************************************************)
\* The application delivers what is left of the response, or a part of it;
\* the session writes it at once.
AppOutput(s, n) ==
    /\ Idle /\ HasSession(s) /\ n <= c.str[s].left
    /\ n > 0 \/ (c.str[s].left = 0 /\ c.str[s].avail = 0)
    /\ c' = [c EXCEPT !.str[s].left = @ - n, !.str[s].avail = @ + n]
    /\ cur' = s /\ pc' = "doWrite"
    /\ UNCHANGED <<ret, lvl, cnt, ww>>

\* The session gives up: the application failed.
AppFail(s) ==
    /\ Idle /\ HasSession(s)
    /\ c' = CloseSession(c, s)
    /\ UNCHANGED pc /\ Loc

\* onTimerEx: streams that timed out and streams that are done are recycled.
Timer(T) ==
    /\ Idle /\ \A s \in T : HasSession(s)
    /\ c' = ReleaseStreams(c, T \cup {s \in Mapped(c) : c.str[s].state # "CONNECTED"})
    /\ UNCHANGED pc /\ Loc

\* The write timeout, or the keep-alive timeout of a connection with no stream.
TimerGoAway(w) ==
    /\ Idle /\ (c.obuf > 0 \/ Mapped(c) = {})
    /\ c' = DoGoAway(c, w)
    /\ UNCHANGED pc /\ Loc

(***************************************************************************)
(* Specification.                                                          *)
(***************************************************************************)
Init ==
    /\ \E n \in StreamLimits : c = InitConn(n)
    /\ pc = "idle" /\ ret = "read"
    /\ lvl = 0 /\ cnt = 0 /\ ww = FALSE /\ cur = 1

Len0 == {0, MaxLen}
Took == 0 .. BufFull
How  == {"wait", "ready", "close", "fail"}

Frame ==
    \/ \E fin \in BOOLEAN, n \in Len0, h \in How : HeadersFrame(fin, n, h)
    \/ \E fin \in BOOLEAN, w \in Took : UndecodedHeaders(fin, w)
    \/ \E s \in Stream : \/ EndStreamFrame(s)
                         \/ RstFrame(s)
                         \/ \E p \in Level : PriorityFrame(s, p)
                         \/ \E n \in Deltas \cup {0} : WindowUpdateStream(s, n)
    \/ \E u, v \in InitWindows \cup {c.initWin} : SettingsFrame(u, v)
    \/ \E n \in Deltas, w \in Took : WindowUpdateConn(n, w)
    \/ \E w \in Took : BadFrame(w)

\* The steps the code takes without waiting for anybody.
Internal ==
    \/ \E n \in Len0, h \in How : PendingStep(n, h) \/ QueueStep(n, h)
    \/ \E w \in Took : PendingDone(w) \/ QueueDone(w) \/ SendRespHeaders(w)
    \/ \E k \in Took, limit, eor \in BOOLEAN : WriteFrame(k, limit, eor)
    \/ QueueNext \/ LevelDone \/ WriteBlocked \/ WriteDone

Event ==
    \/ ReadStart
    \/ \E w \in Took : WriteEvent(w) \/ ReadEnd(w)
    \/ \E s \in Stream : \/ \E n \in 0 .. MaxLen : AppOutput(s, n)
                         \/ AppFail(s)
    \/ \E T \in SUBSET Stream : Timer(T)
    \/ \E w \in Took : TimerGoAway(w)

Next == Frame \/ Internal \/ Event

Spec == Init /\ [][Next]_vars

\* With rewrite rules that set the priority of a request.
SpecRewrite ==
    Init /\ [][Next \/ \E s \in Stream, p \in Level : EndStreamRewrite(s, p)]_vars

-----------------------------------------------------------------------------
Window == -(MaxWindow + 1) .. MaxWindow

\* The types of the connection, its streams and the loops over them.
TypeOK ==
    /\ c.outWin \in Window /\ c.initWin \in 0 .. MaxWindow
    /\ c.last \in 0 .. NStreams /\ c.shut \in 0 .. NStreams
    /\ \A p \in Level : c.que[p] \in Seq(Stream) /\ c.total[p] \in Int
    /\ c.obuf \in 0 .. BufFull
    /\ \A s \in Stream :
          /\ c.str[s].state \in {"none", "CONNECTED", "CLOSING", "SHUTDOWN", "DISCONNECTED"}
          /\ c.str[s].win \in Window /\ c.str[s].pri \in Level
          /\ c.str[s].avail + c.str[s].left \in 0 .. MaxLen
    /\ pc \in {"idle", "frames", "pending", "queue", "queued", "doWrite", "aborted"}
    /\ lvl \in Level /\ cnt \in 0 .. NStreams /\ ww \in BOOLEAN /\ cur \in Stream

\* Queues and streams agree: a queue counts the streams it holds, holds only
\* streams of the map and of its own priority, and each of them once
\* (m_priQue, m_mapStream; recycleStream gives a stream back to the pool).
QueuesSound ==
    \A p \in Level :
        /\ c.total[p] = Len(c.que[p])
        /\ \A i \in 1 .. Len(c.que[p]) :
              /\ InMap(c, c.que[p][i]) /\ c.str[c.que[p][i]].pri = p
              /\ \A j \in 1 .. i - 1 : c.que[p][j] # c.que[p][i]

\* No wake-up is lost.  Between events, output in the buffer, a stream without
\* session, and a stream that wants to write and has credit, with credit for
\* the connection, mean that the socket will report a write event and that
\* the event will find the stream in a queue.  The code does not promise the
\* event while the socket is still marked as paused: processQueue stops at the
\* first short write of a response with wantWrite = 0, and when its own last
\* flush empties the buffer onWriteEx suspends the writing.
WakeupPending ==
    pc = "idle" /\ c.open =>
        /\ c.obuf > 0 => c.lwant
        /\ \A s \in Stream :
              LET x == c.str[s]
              IN  x.state = "CONNECTED" /\ (x.init \/ (x.want /\ x.win > 0))
                    => Queued(c, s) /\ (c.outWin > 0 /\ ~c.lpause => c.lwant)

\* The number getNewStream subtracts from the size of the map covers the
\* streams that are done and still in it: it is never too small.
ShutdownCounted ==
    c.shut >= Cardinality({s \in Stream : c.str[s].state = "SHUTDOWN"})

\* The assertion of TDLinkQueue::pop_front: a queue whose list is empty counts
\* no stream.
PopFrontSound ==
    pc \in {"pending", "queue"} /\ LoopOn => c.que[lvl] # <<>> \/ c.total[lvl] = 0
=============================================================================
