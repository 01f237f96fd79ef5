----------------------------- MODULE ExtWorker -----------------------------
(***************************************************************************)
(* Requests to external applications: the session's connector              *)
(* (HttpExtConnector), the worker with its queue and connection pool       *)
(* (ExtWorker, ConnPool), the connections (ExtConn, ProxyConn) and the     *)
(* load balancer.  One event loop runs it all, so one action is one whole  *)
(* callback; but the callbacks nest: a failing connect hands its request   *)
(* back to the worker, which may pick the same connection again while the  *)
(* outer calls still hold it.  The calls are therefore operators from a    *)
(* state s = [wk, conn, req, faults] to the set of states (with the call's *)
(* result where the caller looks at it) that the network permits, and what *)
(* they call in turn is the table F of the calls one level deeper.         *)
(*                                                                         *)
(* Clocks are nondeterministic.  Errors: RESET is ECONNRESET or EPIPE,     *)
(* REFUSED is ECONNREFUSED or ENOENT.  ProxyConn::init counts a request as *)
(* processed for every socket, so m_iReqProcessed is 0 exactly after a     *)
(* connect that failed at once: the argument "used" below.                 *)
(***************************************************************************)
EXTENDS Integers, Sequences, FiniteSets, SequencesExt, FiniteSetsExt

CONSTANTS
  Workers,      \* sequence of the workers of the load balancer
  MaxConns,     \* of each worker: the configured maximum
  Retry,        \* of each worker: a retry timeout is configured
  Requests,
  Handlers,     \* what requests are configured to go to: workers, LB
  MaxFaults,    \* bound: connection errors in a behaviour
  MaxDepth,     \* bound: calls and turns of loops within each other
  NULL, LB

WorkerSet == Range(Workers)
Conns == UNION {{w} \X (1 .. MaxConns[w] + 1) : w \in WorkerSet}

ASSUME ExtWorkerAssumption ==
  /\ Workers \in Seq(WorkerSet) /\ IsInjective(Workers) /\ IsFiniteSet(Requests)
  /\ MaxConns \in [WorkerSet -> Nat \ {0}]
  /\ Retry \in [WorkerSet -> BOOLEAN]
  /\ Handlers \subseteq WorkerSet \cup {LB}
  /\ MaxFaults \in Nat /\ MaxDepth \in Nat
  /\ {NULL, LB} \cap (WorkerSet \cup Requests) = {} /\ NULL \notin Conns

VARIABLES wk, conn, req, faults

vars == <<wk, conn, req, faults>>

MaxAttempts == 3 * Len(Workers)

Idle == [live |-> FALSE, alive |-> TRUE, lb |-> FALSE, w |-> NULL, track |-> {},
         att |-> 0, proc |-> NULL,
         hdr |-> FALSE, abort |-> FALSE, err |-> FALSE, complete |-> FALSE]

Init ==
  /\ wk = [w \in WorkerSet |-> [st |-> "NOTSTARTED", max |-> 0, made |-> 0,
             conns |-> {}, free |-> <<>>, bad |-> <<>>, queue |-> <<>>]]
  /\ conn = [c \in Conns |-> [st |-> "DISCONNECTED", req |-> NULL,
                              toClose |-> FALSE, sent |-> "no"]]
  /\ req = [r \in Requests |-> Idle]
  /\ faults = MaxFaults

WorkerRec ==
  [st : {"NOTSTARTED", "BAD", "GOOD"}, max : Nat, made : Nat, conns : SUBSET Conns,
   free : Seq(Conns), bad : Seq(Conns), queue : Seq(Requests)]

\* sent: "ending" when endOfReqBody has set m_lReqSentTime and bytes are left.
ConnRec ==
  [st : {"DISCONNECTED", "CONNECTING", "PROCESSING", "CLOSING"},
   req : Requests \cup {NULL}, toClose : BOOLEAN, sent : {"no", "ending", "all"}]

ReqRec ==
  [live : BOOLEAN, alive : BOOLEAN, lb : BOOLEAN, w : WorkerSet \cup {NULL},
   track : SUBSET WorkerSet, att : 0 .. MaxAttempts + 2, proc : Conns \cup {NULL},
   hdr : BOOLEAN, abort : BOOLEAN, err : BOOLEAN, complete : BOOLEAN]

State == [wk : [WorkerSet -> WorkerRec], conn : [Conns -> ConnRec],
          req : [Requests -> ReqRec], faults : 0 .. MaxFaults]

Now == [wk |-> wk, conn |-> conn, req |-> req, faults |-> faults]

TypeOK ==
  /\ Now \in State
  /\ \A w \in WorkerSet :
       /\ wk[w].max \in 0 .. MaxConns[w]
       /\ wk[w].conns \cup Range(wk[w].free) \cup Range(wk[w].bad)
            \subseteq {w} \X (1 .. wk[w].made)
-----------------------------------------------------------------------------
(* The connection pool, the load balancer and the connector's flags. *)

Result(s, ret) == [s |-> s, ret |-> ret]
Results(S, ret) == {Result(s, ret) : s \in S}

InUse(s, w) == Cardinality(s.wk[w].conns) - Len(s.wk[w].free)

Close(s, c) == [s EXCEPT !.conn[c].st = "DISCONNECTED"]

\* ls_ptrlist_erase: the last element takes the place of x.
Erase(q, x) ==
  IF x \in Range(q)
  THEN [i \in 1 .. Len(q) - 1 |-> IF q[i] = x THEN Last(q) ELSE q[i]] ELSE q

\* Fault: the connection stays in the list of free connections.
RemoveConnKeepFree(s, c) ==
  LET k == s.wk[c[1]]
  IN  [s EXCEPT !.wk[c[1]] = [k EXCEPT
         !.conns = @ \ {c},
         !.bad = IF c \in k.conns THEN Append(@, c) ELSE @]]

RemoveConn(s, c) ==
  LET k == s.wk[c[1]]
  IN  [s EXCEPT !.wk[c[1]] = [k EXCEPT
         !.conns = @ \ {c},
         !.free = Erase(@, c),
         !.bad = IF c \in k.conns \cup Range(k.free) THEN Append(@, c) ELSE @]]

Reuse(s, c) == [s EXCEPT !.wk[c[1]].free = Append(@, c)]

\* Fault: an object is created although there are discarded ones.
GetConnNew(s, w) ==
  LET k == s.wk[w]
  IN  IF k.free # <<>>
      THEN [s |-> [s EXCEPT !.wk[w].free = Front(@)], c |-> Last(k.free)]
      ELSE IF k.max > Cardinality(k.conns) /\ k.made <= MaxConns[w]
      THEN [s |-> [s EXCEPT !.wk[w] = [k EXCEPT !.made = @ + 1,
                     !.conns = @ \cup {<<w, k.made + 1>>}]],
            c |-> <<w, k.made + 1>>]
      ELSE [s |-> s, c |-> NULL]

\* A free connection, else a discarded or new object, else NULL.
GetConn(s, w) ==
  LET k == s.wk[w]
  IN  IF k.free # <<>>
      THEN [s |-> [s EXCEPT !.wk[w].free = Front(@)], c |-> Last(k.free)]
      ELSE IF k.max <= Cardinality(k.conns) THEN [s |-> s, c |-> NULL]
      ELSE IF k.bad # <<>>
      THEN [s |-> [s EXCEPT !.wk[w] = [k EXCEPT !.bad = Front(@),
                     !.conns = @ \cup {Last(k.bad)}]],
            c |-> Last(k.bad)]
      ELSE [s |-> [s EXCEPT !.wk[w] = [k EXCEPT !.made = @ + 1,
                     !.conns = @ \cup {<<w, k.made + 1>>}]],
            c |-> <<w, k.made + 1>>]

\* Fault: every start adds the configured number of connections.
StartGrow(s, w) ==
  IF s.wk[w].st # "NOTSTARTED" THEN s
  ELSE [s EXCEPT !.wk[w].st = "GOOD", !.wk[w].max = @ + MaxConns[w]]

\* start() and restart(): the application is not ours to start.
Start(s, w) ==
  IF s.wk[w].st # "NOTSTARTED" THEN s
  ELSE [s EXCEPT !.wk[w].st = "GOOD",
                 !.wk[w].max = IF @ < MaxConns[w] THEN MaxConns[w] ELSE @]

WorkerLoadLess(s, w, v) ==
  LET Util(x) == (InUse(s, x) * 1000) \div (s.wk[x].max + 1)
      queued == Len(s.wk[w].queue) - Len(s.wk[v].queue)
  IN  /\ s.wk[w].st # "BAD"
      /\ queued < 0 \/ (queued = 0 /\ Util(w) < Util(v))

\* The least loaded of the workers not tried yet; the first one is taken
\* whatever its state.
SelectWorker(s, r) ==
  LET pick[n \in 0 .. Len(Workers)] ==
        IF n = 0 THEN NULL
        ELSE LET v == pick[n - 1]
                 w == Workers[n]
             IN  IF w \notin s.req[r].track /\ (v = NULL \/ WorkerLoadLess(s, w, v))
                 THEN w ELSE v
      w == pick[Len(Workers)]
  IN  [s EXCEPT !.req[r].w = w,
                !.req[r].track = IF w = NULL THEN @ ELSE @ \cup {w}]

IsRecoverable(s, r) == ~s.req[r].abort /\ ~s.req[r].err

ResetConnector(s, r) ==
  [s EXCEPT !.req[r] = [@ EXCEPT !.hdr = FALSE, !.abort = FALSE,
                                 !.err = FALSE, !.complete = FALSE]]

\* incAttempts; beyond the limit only the remainder by 3 matters.
IncAttempts(s, r) ==
  [s EXCEPT !.req[r].att = IF @ = MaxAttempts + 2 THEN MaxAttempts ELSE @ + 1]

ErrResponse(s, r) == [s EXCEPT !.req[r].err = TRUE]

RemoveRequest(s, c) ==
  LET r == s.conn[c].req
  IN  IF r = NULL THEN s
      ELSE [s EXCEPT !.req[r].proc = NULL, !.conn[c].req = NULL]

AddRequest(s, c, r) ==
  [s EXCEPT !.req[r].proc = c, !.conn[c] = [@ EXCEPT !.req = r, !.sent = "no"]]

PopFront(s, w) == [s EXCEPT !.wk[w].queue = Tail(@)]

\* Connections fail finitely often.
Spend(s) == [s EXCEPT !.faults = @ - 1]
MayFail(s, errors) == IF s.faults > 0 THEN errors ELSE {}
-----------------------------------------------------------------------------
(* The calls.  Those that lead back to themselves are looked up in F.      *)

\* ExtWorker::recycleConn
RecycleConn(F, s, c) ==
  IF s.conn[c].toClose THEN F.pending[RemoveConn(Close(s, c), c)][c[1]][NULL]
  ELSE F.recycle[s][c]

\* Results of a call that leaves a connection a request failed on.
DropRequest(F, o, c) ==
  IF o.s.conn[c].req # NULL THEN RecycleConn(F, RemoveRequest(o.s, c), c) ELSE {o.s}

\* ProxyConn::cleanUp and recycle: the connection is kept once endOfReqBody
\* was called, also with bytes left.  ABORT is a state that only the callers
\* set and that is closed here; it is modelled as CLOSING.
ProxyCleanUp(F, s, c) ==
  LET k == s.conn[c]
      st == IF k.sent # "no" /\ k.st # "CLOSING" THEN k.st ELSE "DISCONNECTED"
  IN  RecycleConn(F, [s EXCEPT !.conn[c] = [k EXCEPT !.req = NULL, !.sent = "no",
                                                     !.st = st]], c)

\* Fault: a request that waits stays in the queue.
ReleaseProcessorQueued(F, s, r) ==
  LET c == s.req[r].proc
  IN  IF c # NULL THEN ProxyCleanUp(F, [s EXCEPT !.req[r].proc = NULL], c) ELSE {s}

ReleaseProcessor(F, s, r) ==
  LET c == s.req[r].proc
      w == s.req[r].w
  IN  IF c # NULL THEN ProxyCleanUp(F, [s EXCEPT !.req[r].proc = NULL], c)
      ELSE IF w = NULL THEN {s}
      ELSE {[s EXCEPT !.wk[w].queue = RemoveFirst(@, r)]}

EndResponse(F, s, r) ==
  IF s.req[r].complete THEN {s}
  ELSE IF ~s.req[r].hdr /\ ~s.req[r].abort
  THEN {ErrResponse([s EXCEPT !.req[r].hdr = TRUE], r)}
  ELSE ReleaseProcessor(F, [s EXCEPT !.req[r].complete = TRUE], r)

ProcessRequest(F, s, w, r, retry) ==
  LET t == Start(s, w)
      g == IF retry \/ t.wk[w].queue = <<>> THEN GetConn(t, w) ELSE [s |-> t, c |-> NULL]
      added == [t EXCEPT !.wk[w].queue = Append(@, r)]
  IN  IF t.wk[w].st = "BAD" THEN {Result(t, 503)}
      ELSE IF g.c # NULL
      THEN UNION {Results(IF o.ret = 0 THEN {o.s} ELSE DropRequest(F, o, g.c),
                          IF o.ret > 0 THEN o.ret ELSE 0) : o \in F.assign[g.s][g.c][r]}
      ELSE IF retry THEN {Result([t EXCEPT !.wk[w].queue = <<r>> \o @], 0)}
      ELSE IF InUse(t, w) < t.wk[w].max THEN Results(F.pending[added][w][NULL], 0)
      ELSE {Result(added, 0)}

TryRecover(F, s, r) ==
  LET inc == ResetConnector(IncAttempts(s, r), r)
      att == inc.req[r].att
      lb == s.req[r].lb
      t == IF lb /\ att % 3 = 0 THEN SelectWorker(inc, r)
           ELSE IF att % 3 >= 2 THEN Start(inc, inc.req[r].w)
           ELSE inc
      w == t.req[r].w
  IN  IF ~IsRecoverable(s, r) THEN Results(EndResponse(F, s, r), -1)
      ELSE IF att >= (IF lb THEN MaxAttempts ELSE 3)
      THEN {Result(ErrResponse(inc, r), -1)}
      ELSE IF w = NULL THEN {Result(ErrResponse(t, r), -1)}
      ELSE {IF o.ret \in {0, 1} THEN Result(o.s, 0) ELSE Result(ErrResponse(o.s, r), -1) :
              o \in ProcessRequest(F, t, w, r, TRUE)}

DecMaxConn(s, w) ==
  IF s.wk[w].max > Cardinality(s.wk[w].conns) THEN [s EXCEPT !.wk[w].max = @ - 1] ELSE s

\* The free connections are closed and discarded.
ClearConnPool(s, w) ==
  LET k == s.wk[w]
  IN  [s EXCEPT
         !.wk[w] = [k EXCEPT !.conns = @ \ Range(k.free), !.free = <<>>,
                             !.bad = @ \o Reverse(k.free)],
         !.conn = [c \in Conns |-> IF c \in Range(k.free)
                                   THEN [s.conn[c] EXCEPT !.st = "DISCONNECTED"]
                                   ELSE s.conn[c]]]

\* What a connect that failed at once does to the worker.
Penalty(s, w, error) ==
  LET dec == DecMaxConn(s, w)
      half == dec.wk[w].max < (MaxConns[w] + 1) \div 2
      after == IF error = "RESET" THEN {s}
               ELSE IF error = "REFUSED" THEN {Start(ClearConnPool(dec, w), w)}
               ELSE {dec} \cup (IF half THEN {Start(dec, w)} ELSE {})
  IN  {IF t.wk[w].max # 0 THEN t
       ELSE [t EXCEPT !.wk[w].st = IF Retry[w] THEN "BAD" ELSE "NOTSTARTED"] : t \in after}

\* Fault: the request of a connect that has to wait is dropped.
RequeueNot(s, w, r) == s

\* EAGAIN: the request goes back to the head of the queue.
Requeue(s, w, r) == IF r = NULL THEN s ELSE [s EXCEPT !.wk[w].queue = <<r>> \o @]

ConnectionError(F, s, c, error, used) ==
  LET w == c[1]
      r == s.conn[c].req
      t == RemoveConn(RemoveRequest(s, c), c)
  IN  IF error = "AGAIN" THEN {Result(Requeue(t, w, r), 1)}
      ELSE UNION {IF o.s.wk[w].st = "BAD" THEN Results(F.fail[o.s][w], o.ret) ELSE {o} :
             o \in UNION {IF r = NULL THEN {Result(u, 0)} ELSE TryRecover(F, u, r) :
                            u \in IF used THEN {t} ELSE Penalty(t, w, error)}}

WriteErrors == {"RESET", "AGAIN", "OTHER"}

\* doWrite: all of the request is sent, or a part of it, or the write fails,
\* with EAGAIN when the last flush sends nothing; "error" is "" for success.
DoWrite(s, c) ==
  {[s |-> [s EXCEPT !.conn[c].sent = x], error |-> ""] :
     x \in {"ending", "all", s.conn[c].sent}}
    \cup {[s |-> Spend(s), error |-> x] : x \in MayFail(s, WriteErrors)}

States(R) == {o.s : o \in R}

\* connectEx of a connect that succeeds at once, with its call of onWrite,
\* whose result is not looked at
Connected(F, s, c) ==
  UNION {IF o.error = "" THEN {o.s} ELSE States(F.error[o.s][c][o.error]) :
           o \in DoWrite([s EXCEPT !.conn[c].st = "PROCESSING"], c)}

\* reconnect, with init() of the new socket
Reconnect(F, s, c) ==
  LET new == [s EXCEPT !.conn[c] = [@ EXCEPT !.st = "CONNECTING",
                                             !.toClose = FALSE, !.sent = "no"]]
  IN  {[s |-> t, error |-> ""] : t \in {new} \cup Connected(F, new, c)}
        \cup {[s |-> Spend([s EXCEPT !.conn[c] = [@ EXCEPT !.st = "DISCONNECTED",
                                                           !.toClose = FALSE]]),
               error |-> x] : x \in MayFail(s, {"REFUSED", "AGAIN", "OTHER"})}

\* A request on a kept connection is tried again on a new socket.
ConnError(F, s, c, error, used) ==
  LET t == Close(s, c)
      r == s.conn[c].req
  IN  IF /\ r # NULL /\ used /\ error = "RESET"
         /\ IsRecoverable(t, r)
         /\ t.wk[c[1]].free = <<>> \/ t.req[r].att % 3 = 0
      THEN UNION {IF o.error = "" THEN {Result(o.s, 0)}
                  ELSE ConnectionError(F, o.s, c, error, FALSE) :
                    o \in Reconnect(F, ResetConnector(IncAttempts(t, r), r), c)}
      ELSE ConnectionError(F, t, c, error, used)

AssignReq(F, s, c, r) ==
  LET a == AddRequest(IF s.conn[c].st = "CLOSING" THEN Close(s, c) ELSE s, c, r)
      open == a.conn[c].st = "PROCESSING"
  IN  UNION {IF o.error = "" THEN {Result(o.s, 0)}
             ELSE ConnError(F, o.s, c, o.error, open) :
               o \in IF open THEN DoWrite(a, c) ELSE Reconnect(F, a, c)}

\* processPending, with connection c in hand
PendingLoop(F, s, w, c) ==
  LET g == IF c = NULL THEN GetConn(s, w) ELSE [s |-> s, c |-> c]
      r == Head(s.wk[w].queue)
      t == PopFront(g.s, w)
  IN  IF s.wk[w].queue = <<>> THEN {IF c = NULL THEN s ELSE Reuse(s, c)}
      ELSE IF g.c = NULL THEN {s}
      ELSE IF ~s.req[r].alive THEN F.pending[t][w][g.c]
      ELSE UNION {IF o.ret = 0 THEN F.pending[o.s][w][NULL] ELSE DropRequest(F, o, g.c) :
                    o \in F.assign[t][g.c][r]}

\* Fault: a connection that no request of the queue takes is not put back.
RecycleLoopLeak(F, s, c) ==
  LET w == c[1]
      r == Head(s.wk[w].queue)
      t == PopFront(s, w)
  IN  IF s.wk[w].queue = <<>> THEN {Reuse(s, c)}
      ELSE IF ~s.req[r].alive THEN {t}
      ELSE UNION {IF o.ret = 0 \/ o.s.conn[c].req = NULL THEN {o.s}
                  ELSE F.recycle[RemoveRequest(o.s, c)][c] : o \in F.assign[t][c][r]}

RecycleLoop(F, s, c) ==
  LET w == c[1]
      r == Head(s.wk[w].queue)
      t == PopFront(s, w)
  IN  IF s.wk[w].queue = <<>> THEN {Reuse(s, c)}
      ELSE IF ~s.req[r].alive THEN F.recycle[t][c]
      ELSE UNION {IF o.ret = 0 \/ o.s.conn[c].req = NULL THEN {o.s}
                  ELSE F.recycle[RemoveRequest(o.s, c)][c] : o \in F.assign[t][c][r]}

FailOutstandingReqs(F, s, w) ==
  LET r == Head(s.wk[w].queue)
      t == PopFront(s, w)
  IN  IF s.wk[w].queue = <<>> THEN {s}
      ELSE UNION {F.fail[u][w] :
             u \in IF ~t.req[r].alive THEN {t}
                   ELSE IF t.req[r].lb THEN {o.s : o \in TryRecover(F, t, r)}
                   ELSE EndResponse(F, t, r)}

\* What calls do that have no level left.
NoCalls ==
  [assign  |-> [s \in State |-> [c \in Conns |-> [r \in Requests |-> {}]]],
   pending |-> [s \in State |-> [w \in WorkerSet |-> [c \in Conns \cup {NULL} |-> {}]]],
   recycle |-> [s \in State |-> [c \in Conns |-> {}]],
   fail    |-> [s \in State |-> [w \in WorkerSet |-> {}]],
   error   |-> [s \in State |-> [c \in Conns |-> [x \in WriteErrors |-> {}]]]]

\* The calls one level above those of F.
CallsAbove(F) ==
  [assign  |-> [s \in State |-> [c \in Conns |->
                 [r \in Requests |-> AssignReq(F, s, c, r)]]],
   pending |-> [s \in State |-> [w \in WorkerSet |->
                 [c \in Conns \cup {NULL} |-> PendingLoop(F, s, w, c)]]],
   recycle |-> [s \in State |-> [c \in Conns |-> RecycleLoop(F, s, c)]],
   fail    |-> [s \in State |-> [w \in WorkerSet |-> FailOutstandingReqs(F, s, w)]],
   error   |-> [s \in State |-> [c \in Conns |->
                 [x \in WriteErrors |-> ConnError(F, s, c, x, TRUE)]]]]

Calls[d \in 0 .. MaxDepth] == IF d = 0 THEN NoCalls ELSE CallsAbove(Calls[d - 1])
-----------------------------------------------------------------------------
(* The callbacks of the event loop. *)

Nested == Calls[MaxDepth]

\* ExtWorker::processPending
ProcessPending(s, w) == PendingLoop(Nested, s, w, NULL)

Become(S) ==
  \E s \in S : wk' = s.wk /\ conn' = s.conn /\ req' = s.req /\ faults' = s.faults

\* HttpExtConnector::process for a worker or the load balancer; the session
\* answers a result above 1 with an error page.
Process(r, target) ==
  /\ ~req[r].live
  /\ LET new == [Now EXCEPT !.req[r] = [Idle EXCEPT !.live = TRUE, !.lb = target = LB]]
         s == IF target = LB THEN SelectWorker(new, r)
              ELSE [new EXCEPT !.req[r].w = target]
         results == IF s.req[r].w = NULL THEN {Result(s, 500)}
                    ELSE ProcessRequest(Nested, s, s.req[r].w, r, FALSE)
     IN  Become({IF o.ret > 1 THEN ErrResponse(o.s, r) ELSE o.s : o \in results})

\* The client closes its connection; isAlive notices it.
ClientGone(r) ==
  /\ req[r].live /\ req[r].alive
  /\ req' = [req EXCEPT ![r].alive = FALSE]
  /\ UNCHANGED <<wk, conn, faults>>

\* HttpExtConnector::cleanUp, at any time the session likes
CleanUp(r) ==
  /\ req[r].live
  /\ LET c == req[r].proc
         aborted == IF c = NULL THEN Now ELSE [Now EXCEPT !.conn[c].st = "CLOSING"]
         end == IF req[r].complete THEN {Now}
                ELSE ReleaseProcessor(Nested, [aborted EXCEPT !.req[r].abort = TRUE], r)
     IN  Become({[s EXCEPT !.req[r] = Idle] : s \in end})

\* onEventDone
EventDone(s, c) ==
  IF s.conn[c].st # "CLOSING" THEN {s}
  ELSE IF s.conn[c].req = NULL THEN {RemoveConn(Close(s, c), c)}
  ELSE EndResponse(Nested, Close(s, c), s.conn[c].req)

\* The states after some error on connection c
Broken(s, c) == UNION {States(ConnError(Nested, s, c, x, TRUE)) : x \in {"RESET", "OTHER"}}

\* The connection is reset within the body.  The response ends there, the
\* connection may get the next request, and then the caller treats the -1 of
\* the read, with the errno of whatever was called since, as an error of it.
RespReset(s, c) ==
  LET r == s.conn[c].req
  IN  UNION {Broken(t, c) :
               t \in EndResponse(Nested, [s EXCEPT !.req[r].abort = TRUE,
                       !.conn[c].st = IF s.conn[c].toClose THEN "CLOSING" ELSE @], r)}

\* processResp and readRespBody: the header with or without keep-alive, the
\* end of the response, a body over the size limit, or an error.
ProcessResp(s, c) ==
  LET r == s.conn[c].req
      hdr == s.req[r].hdr
      got == IF hdr THEN {s}
             ELSE {[s EXCEPT !.req[r].hdr = TRUE, !.conn[c].toClose = x] : x \in BOOLEAN}
      Ended(t, long) ==
        EndResponse(Nested, [t EXCEPT !.req[r].abort = @ \/ long,
          !.conn[c].st = IF long \/ t.conn[c].toClose THEN "CLOSING" ELSE @], r)
      failed == Spend(s)
  IN  got \cup (UNION {Ended(t, FALSE) \cup Ended(t, TRUE) : t \in got})
        \cup UNION {IF hdr /\ x = "RESET" THEN RespReset(failed, c)
                    ELSE States(ConnError(Nested, failed, c, x, TRUE)) :
                      x \in MayFail(s, {"RESET", "OTHER"})}

\* onInitConnected
InitConnected(s, c) ==
  {[s |-> [s EXCEPT !.conn[c].st = "PROCESSING"], error |-> ""]}
    \cup {[s |-> Spend(s), error |-> x] : x \in MayFail(s, {"OTHER"})}

\* The states after error o.error of an operation on c
Checked(o, c) == IF o.error = "" THEN {o.s} ELSE States(ConnError(Nested, o.s, c, o.error, TRUE))

\* onRead and onHangup; an idle connection that becomes readable was closed
\* by the application.
OnRead(c) ==
  /\ conn[c].st # "DISCONNECTED"
  /\ Become(UNION {EventDone(s, c) : s \in
       IF conn[c].st = "CONNECTING" THEN UNION {Checked(o, c) : o \in InitConnected(Now, c)}
       ELSE IF conn[c].st = "CLOSING" THEN {Now}
       ELSE IF conn[c].req = NULL THEN States(ConnError(Nested, Now, c, "RESET", TRUE))
       ELSE ProcessResp(Now, c)})

OnWrite(c) ==
  /\ conn[c].st \in {"CONNECTING", "PROCESSING"}
  /\ conn[c].req # NULL /\ conn[c].sent # "all"
  /\ LET ready == IF conn[c].st = "CONNECTING" THEN InitConnected(Now, c)
                  ELSE {[s |-> Now, error |-> ""]}
     IN  Become(UNION {Checked(o, c) :
           o \in UNION {IF i.error = "" THEN DoWrite(i.s, c) ELSE {i} : i \in ready}})

\* onError and doError; without an error on the socket it is onRead.
OnError(c) ==
  LET r == conn[c].req
      s == Spend([Now EXCEPT !.conn[c].st = "CLOSING"])
  IN  /\ conn[c].st # "DISCONNECTED" /\ faults > 0
      /\ Become(IF r = NULL THEN {s}
                ELSE IF req[r].complete THEN {s}
                ELSE IF IsRecoverable(Now, r) THEN Broken(s, c)
                ELSE EndResponse(Nested, s, r))

\* onSecTimer: two seconds without a connection, or the keep-alive timeout.
OnSecTimer(c) ==
  /\ c \in wk[c[1]].conns
  /\ \/ /\ conn[c].st = "CONNECTING" /\ faults > 0
        /\ Become(States(ConnError(Nested, Spend(Now), c, "TIMEDOUT", TRUE)))
     \/ /\ conn[c].st = "PROCESSING" /\ conn[c].req = NULL
        /\ Become({RemoveConn(Close(Now, c), c)})

\* ProxyConn::onTimer: the rest of a body does not come.
OnTimer(c) ==
  LET r == conn[c].req
  IN  /\ conn[c].st = "PROCESSING" /\ r # NULL /\ req[r].hdr
      /\ Become(EndResponse(Nested, [Now EXCEPT !.conn[c].st = "CLOSING"], r))

Waiting(w) == wk[w].queue # <<>>

\* The queue is served if a connection is available.
ServeQueue(w) ==
  IF Waiting(w) /\ wk[w].max > InUse(Now, w) THEN ProcessPending(Now, w) ELSE {Now}

\* resetStats, every ten seconds: a bad worker is tried again after a while,
\* and a lowered limit raised by one; an idle worker is stopped in the end.
ResetStats(w) ==
  LET retried == Start([Now EXCEPT !.wk[w].st = "NOTSTARTED"], w)
      raised == [Now EXCEPT !.wk[w].max = @ + 1]
      served == IF wk[w].st = "BAD" THEN {Now} \cup ProcessPending(retried, w)
                ELSE ServeQueue(w) \cup
                       (IF Waiting(w) /\ MaxConns[w] > wk[w].max
                        THEN ProcessPending(raised, w) ELSE {})
      idle == {s \in served : s.wk[w].st = "GOOD" /\ InUse(s, w) = 0}
  IN  Become(served \cup {[s EXCEPT !.wk[w].st = "NOTSTARTED"] : s \in idle})
-----------------------------------------------------------------------------
Next ==
  \/ \E r \in Requests :
       \/ \E target \in Handlers : Process(r, target)
       \/ ClientGone(r) \/ CleanUp(r)
  \/ \E c \in Conns : OnRead(c) \/ OnWrite(c) \/ OnError(c) \/ OnSecTimer(c) \/ OnTimer(c)
  \/ \E w \in WorkerSet : ResetStats(w)

Finished(r) == req[r].err \/ req[r].complete \/ ~req[r].alive

\* When the fair actions can change something.
CanEnd(r) == req[r].live /\ Finished(r)
CanRead(c) == conn[c].st # "DISCONNECTED"
CanWrite(c) == conn[c].st \in {"CONNECTING", "PROCESSING"}
                 /\ conn[c].req # NULL /\ conn[c].sent # "all"
CanServe(w) == \/ wk[w].st = "BAD"
               \/ wk[w].queue # <<>> /\ MaxConns[w] > InUse([wk |-> wk], w)

\* Weak fairness, spelled out because TLC does not find out when these nested
\* calls are enabled; each Can holds exactly when its action can change
\* something.  The session ends a request that was answered or whose client
\* left, the application reads, and answers or fails, and the timer of the
\* statistics goes on.
Fairness ==
  /\ \A r \in Requests : <>[]CanEnd(r) => []<><<CleanUp(r)>>_vars
  /\ \A c \in Conns : <>[]CanRead(c) => []<><<OnRead(c)>>_vars
  /\ \A c \in Conns : <>[]CanWrite(c) => []<><<OnWrite(c)>>_vars
  /\ \A w \in WorkerSet : <>[]CanServe(w) => []<><<ResetStats(w)>>_vars

Spec == Init /\ [][Next]_vars /\ Fairness
-----------------------------------------------------------------------------
(* Properties. *)

Distinct(q) == Cardinality(Range(q)) = Len(q)

\* Whatever calls were nested, an object is either registered or discarded,
\* and free at most once; no more are registered than the limit of the
\* moment, and never more exist than the lists, which are filled without a
\* check (unsafe_push_back), have room for.
PoolSound ==
  \A w \in WorkerSet :
    LET k == wk[w]
    IN  /\ Distinct(k.free) /\ Distinct(k.bad)
        /\ Range(k.free) \subseteq k.conns
        /\ k.conns \cap Range(k.bad) = {}
        /\ Cardinality(k.conns) + Len(k.bad) = k.made
        /\ Cardinality(k.conns) <= k.max
        /\ k.made <= MaxConns[w]

\* Connection and request agree on each other, a registered connection is
\* free exactly when it has no request, and one with a request is not
\* disconnected: there is an event to come that goes on with it.
Assignments ==
  /\ \A c \in Conns, r \in Requests : conn[c].req = r <=> req[r].proc = c
  /\ \A c \in Conns :
       LET k == wk[c[1]]
       IN  /\ c \in k.conns => (conn[c].req = NULL <=> c \in Range(k.free))
           /\ conn[c].req # NULL => c \in k.conns /\ conn[c].st # "DISCONNECTED"

\* A request is never forgotten nor in two places: until it is answered or
\* its client left it is on one connection or once in the queue of the worker
\* that it names, where cleanUp looks for it.
RequestsPlaced ==
  \A r \in Requests :
    LET places == {w \in WorkerSet : r \in Range(wk[w].queue)}
    IN  /\ \A w \in places : Distinct(wk[w].queue) /\ req[r].w = w
        /\ places # {} => req[r].live /\ req[r].proc = NULL
        /\ req[r].live /\ ~Finished(r) => places # {} \/ req[r].proc # NULL

\* Every request comes to an end, in whatever worker's queue or on whatever
\* connection it was when something failed.
EventuallyEnded == \A r \in Requests : req[r].live ~> ~req[r].live
=============================================================================
