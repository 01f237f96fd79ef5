------------------------------ MODULE EvtcbQue ------------------------------
(***************************************************************************)
(* The queue of deferred callbacks (EvtcbQue): any thread schedules a      *)
(* callback for a session, the event loop runs them, all at once from      *)
(* run() or those of one session from run(session), and a callback may     *)
(* schedule, run and close sessions while run() holds a detached list.     *)
(*                                                                         *)
(* The list is modelled with its pointers.  The nodes of one session stand *)
(* next to each other, tail[s] is the last of them; a group that runs is   *)
(* reached through runq[s].  One action is one section under m_lock with   *)
(* what its thread then does to nodes nobody else can reach.  Scheduling   *)
(* is done by all threads, the rest by the event loop, whose nested calls  *)
(* are the frames of stack.  The notifier is left out: the loop calls      *)
(* run() after every poll, at the latest after its timeout of 100 ms.      *)
(***************************************************************************)
EXTENDS Integers, Sequences, FiniteSets, SequencesExt

CONSTANTS
  Nodes,       \* objects of the node pool; bounds how many exist
  Sessions,
  EventUsers,  \* sessions whose module prepares event objects
  HEAD,        \* m_head of the list
  NULL

ASSUME EvtcbAssumption ==
  /\ IsFiniteSet(Nodes)
  /\ EventUsers \subseteq Sessions
  /\ HEAD # NULL
  /\ {HEAD, NULL} \cap (Nodes \cup Sessions) = {}

VARIABLES
  link,          \* m_pNext and m_pPrev of the nodes and of the head
  sess, cb,      \* of each node: m_pSession; m_callback is not NULL
  pool,          \* free nodes
  held,          \* nodes of get_event_obj that are not scheduled yet
  tail, runq,    \* of each session: evtcb_tail, evtcb_runqueue
  backref,       \* the node whose m_pSession back_ref_ptr points to
  stack,         \* calls of run() and run(session) under way
  wild           \* a session was cut off from a node of its own by another

vars == <<link, sess, cb, pool, held, tail, runq, backref, stack, wild>>
heads == <<tail, runq, backref>>

SetNext(l, a, b) == [l EXCEPT !.next[a] = b]
SetPrev(l, a, b) == [l EXCEPT !.prev[a] = b]

\* a.addNext(b)
AddNext(l, a, b) ==
  LET t == l.next[a]
      m == SetPrev(SetNext(SetNext(l, a, b), b, t), b, a)
  IN  IF t = NULL THEN m ELSE SetPrev(m, t, b)

\* a.remove(), whose result is l.next[a]
RemoveNode(l, a) ==
  LET n == l.next[a]
      p == l.prev[a]
      m == IF n = NULL THEN l ELSE SetPrev(l, n, p)
      k == IF p = NULL THEN m ELSE SetNext(m, p, n)
  IN  SetPrev(SetNext(k, a, NULL), a, NULL)

\* The nodes of S that a walk from n along the pointer nx meets before it
\* leaves S.
Walk(nx, n, S) ==
  {m \in S : \A T \in SUBSET S :
     (n \in S => n \in T) /\ (\A x \in T : nx[x] \in S => nx[x] \in T) => m \in T}

Own(s) == {n \in Nodes : sess[n] = s}

\* The nodes of s in the list, and those in the run queue.
Queued(s) == Walk(link.prev, tail[s], Own(s))
Running(s) == Walk(link.next, runq[s], Own(s))

TypeOK ==
  /\ link \in [next : [Nodes \cup {HEAD} -> Nodes \cup {HEAD, NULL}],
               prev : [Nodes \cup {HEAD} -> Nodes \cup {HEAD, NULL}]]
  /\ sess \in [Nodes -> Sessions \cup {NULL}]
  /\ cb \in [Nodes -> BOOLEAN]
  /\ pool \subseteq Nodes /\ held \subseteq Nodes
  /\ tail \in [Sessions -> Nodes \cup {NULL}]
  /\ runq \in [Sessions -> Nodes \cup {NULL}]
  /\ backref \in [Sessions -> Nodes \cup {NULL}]
  /\ \A i \in DOMAIN stack :
       stack[i] \in [of : Sessions \cup {NULL}, cur : Nodes \cup {NULL},
                     next : Nodes \cup {NULL}, rest : Nodes \cup {NULL}]
  /\ wild \in BOOLEAN

Init ==
  /\ link = [next |-> [x \in Nodes \cup {HEAD} |-> IF x = HEAD THEN HEAD ELSE NULL],
             prev |-> [x \in Nodes \cup {HEAD} |-> IF x = HEAD THEN HEAD ELSE NULL]]
  /\ sess = [n \in Nodes |-> NULL]
  /\ cb = [n \in Nodes |-> FALSE]
  /\ pool = Nodes
  /\ held = {}
  /\ tail = [s \in Sessions |-> NULL]
  /\ runq = [s \in Sessions |-> NULL]
  /\ backref = [s \in Sessions |-> NULL]
  /\ stack = <<>>
  /\ wild = FALSE
-----------------------------------------------------------------------------
(* Scheduling: all threads. *)

\* Fault: a callback of a queued session goes to the end of the list.
LinkAtEnd(n, s) ==
  /\ link' = AddNext(link, link.prev[HEAD], n)
  /\ tail' = IF s = NULL THEN tail ELSE [tail EXCEPT ![s] = n]

\* The section of schedule(pObj): behind the session's tail, wherever that
\* is, or at the end of the list.
Enqueue(n, s) ==
  LET queued == s # NULL /\ tail[s] # NULL
  IN  /\ link' = AddNext(link, IF queued THEN tail[s] ELSE link.prev[HEAD], n)
      /\ tail' = IF s = NULL THEN tail ELSE [tail EXCEPT ![s] = n]

\* schedule(cb, session, ...)
Schedule(n, s) ==
  /\ n \in pool
  /\ pool' = pool \ {n}
  /\ sess' = [sess EXCEPT ![n] = s]
  /\ cb' = [cb EXCEPT ![n] = TRUE]
  /\ Enqueue(n, s)
  /\ UNCHANGED <<held, runq, backref, stack, wild>>

\* schedule_once(cb, session, ...), and schedule with five arguments: a
\* session with something in the list keeps that and the node goes back.
ScheduleOnce(n, s) ==
  /\ s # NULL => tail[s] = NULL
  /\ Schedule(n, s)

\* What the event loop's thread does otherwise it does in a callback or
\* outside of all calls of run.
InCallback ==
  stack # <<>> => Last(stack).cur # NULL /\ cb[Last(stack).cur]

\* get_event_obj: an event object the session has already is not its last
\* any more, and is not known to be its own.
GetEventObj(n, s) ==
  /\ InCallback
  /\ s \in EventUsers
  /\ n \in pool
  /\ pool' = pool \ {n}
  /\ held' = held \cup {n}
  /\ sess' = [sess EXCEPT ![n] = s]
  /\ cb' = [cb EXCEPT ![n] = TRUE]
  /\ backref' = [backref EXCEPT ![s] = n]
  /\ UNCHANGED <<link, tail, runq, stack, wild>>

\* schedule_event: the session may have been closed since.
ScheduleEvent(n) ==
  /\ n \in held
  /\ held' = held \ {n}
  /\ Enqueue(n, sess[n])
  /\ UNCHANGED <<sess, cb, pool, runq, backref, stack, wild>>

\* recycle, with its memset of the node
Recycle(l, n) ==
  /\ link' = SetPrev(SetNext(l, n, NULL), n, NULL)
  /\ pool' = pool \cup {n}
  /\ sess' = [sess EXCEPT ![n] = NULL]
  /\ cb' = [cb EXCEPT ![n] = FALSE]

\* cancel_event
CancelEvent(n, s) ==
  /\ InCallback
  /\ n \in held /\ sess[n] = s
  /\ held' = held \ {n}
  /\ backref' = IF backref[s] = n THEN [backref EXCEPT ![s] = NULL] ELSE backref
  /\ Recycle(link, n)
  /\ UNCHANGED <<tail, runq, stack, wild>>
-----------------------------------------------------------------------------
(* The event loop. *)

\* Fault: the callbacks that run() or run(session) has in hand are kept.
RemoveQueuedOnly(s, ref) ==
  LET gone == Queued(s)
  IN  /\ cb' = [n \in Nodes |-> cb[n] /\ n \notin gone]
      /\ sess' = [n \in Nodes |-> IF n \in gone \cup ref THEN NULL ELSE sess[n]]
      /\ tail' = [tail EXCEPT ![s] = NULL]
      /\ runq' = [runq EXCEPT ![s] = NULL]

\* removeSessionCb: the nodes stay where they are and lose session and
\* callback, from the tail backwards and along the run queue.  The node in
\* ref loses its session too (resetBackRefPtr, which its callers do next).
RemoveSessionCb(s, ref) ==
  LET gone == Queued(s) \cup Running(s)
  IN  /\ cb' = [n \in Nodes |-> cb[n] /\ n \notin gone]
      /\ sess' = [n \in Nodes |-> IF n \in gone \cup ref THEN NULL ELSE sess[n]]
      /\ tail' = [tail EXCEPT ![s] = NULL]
      /\ runq' = [runq EXCEPT ![s] = NULL]

\* removeSessionCbs, and nextRequest where it returns before the session is
\* closed.  back_ref_ptr is kept: it leads into a node that will run without
\* a session, so runOne does not clear it, and that others will then have.
RemoveSessionCbs(s) ==
  /\ InCallback
  /\ RemoveSessionCb(s, {})
  /\ UNCHANGED <<link, pool, held, backref, stack, wild>>

\* back_ref_ptr of s leads into a node that is another session's by now.
Strayed(s) == backref[s] # NULL /\ sess[backref[s]] \notin {s, NULL}

\* closeSession and recycle
CloseSession(s) ==
  /\ InCallback
  /\ ~Strayed(s)
  /\ RemoveSessionCb(s, {backref[s]})
  /\ backref' = [backref EXCEPT ![s] = NULL]
  /\ UNCHANGED <<link, pool, held, stack, wild>>

\* The same, when resetBackRefPtr clears m_pSession of another session's node,
\* which that session still has as its tail or in its run queue.  What the
\* loop does with such a list is not followed: no step comes after this one.
CloseOverwrites(s) ==
  /\ InCallback
  /\ Strayed(s)
  /\ wild' = TRUE
  /\ UNCHANGED <<link, sess, cb, pool, held, heads, stack>>

\* One turn of runNodes up to the callback, with the start of runOne.
RunNode(l, n, frame, below) ==
  /\ link' = RemoveNode(l, n)
  /\ runq' = IF sess[n] = NULL THEN runq ELSE [runq EXCEPT ![sess[n]] = l.next[n]]
  /\ backref' = [s \in Sessions |->
                  IF s = sess[n] /\ backref[s] = n THEN NULL ELSE backref[s]]
  /\ stack' = Append(below, [frame EXCEPT !.cur = n, !.next = l.next[n]])

Frame(s, rest) == [of |-> s, cur |-> NULL, next |-> NULL, rest |-> rest]

\* One turn of the loop of run(): the group of n, which ends at the tail of
\* its session or is n alone, is cut off from the rest of the detached list.
RunGroup(l, n, below) ==
  LET last == IF sess[n] = NULL THEN n ELSE tail[sess[n]]
      rest == l.next[last]
      cut  == SetNext(IF rest = NULL THEN l ELSE SetPrev(l, rest, NULL), last, NULL)
  IN  /\ RunNode(cut, n, Frame(NULL, rest), below)
      /\ tail' = IF sess[n] = NULL THEN tail ELSE [tail EXCEPT ![sess[n]] = NULL]

\* Fault: the detached list still leads back to the head of the queue.
RunUnterminated ==
  LET first == link.next[HEAD]
      clear == SetNext(SetPrev(link, HEAD, HEAD), HEAD, HEAD)
  IN  /\ stack = <<>>
      /\ first # HEAD
      /\ RunGroup(SetPrev(clear, first, NULL), first, <<>>)
      /\ UNCHANGED <<sess, cb, pool, held, wild>>

\* run(): the whole list is detached; its first group starts.
Run ==
  LET first == link.next[HEAD]
      clear == SetNext(SetPrev(link, HEAD, HEAD), HEAD, HEAD)
  IN  /\ stack = <<>>
      /\ first # HEAD
      /\ RunGroup(SetNext(SetPrev(clear, first, NULL), link.prev[HEAD], NULL),
                  first, <<>>)
      /\ UNCHANGED <<sess, cb, pool, held, wild>>

\* EQF_RUNNING and m_inRunCallbacks
MayRun(s) == \A i \in DOMAIN stack : stack[i].of \notin {NULL, s}

\* runAllCallbacks and run(session), with extractSession
RunSession(s) ==
  LET t == tail[s]
      first == CHOOSE n \in Queued(s) : link.prev[n] \notin Queued(s)
      before == link.prev[first]
      after == link.next[t]
      cut == SetNext(SetPrev(SetNext(SetPrev(link, after, before), before, after),
                             first, NULL), t, NULL)
  IN  /\ InCallback /\ MayRun(s)
      /\ t # NULL
      /\ RunNode(cut, first, Frame(s, NULL), stack)
      /\ tail' = [tail EXCEPT ![s] = NULL]
      /\ UNCHANGED <<sess, cb, pool, held, wild>>

\* Fault: runOne recycles only nodes that still have a callback to run.
ReturnCancelled ==
  /\ stack # <<>>
  /\ LET n == Last(stack).cur
     IN  /\ n # NULL
         /\ IF cb[n] THEN Recycle(link, n) ELSE UNCHANGED <<link, pool, sess, cb>>
  /\ stack' = [stack EXCEPT ![Len(stack)].cur = NULL]
  /\ UNCHANGED <<held, heads, wild>>

\* The callback returns and runOne recycles its node.
Return ==
  /\ stack # <<>>
  /\ LET n == Last(stack).cur
     IN  n # NULL /\ Recycle(link, n)
  /\ stack' = [stack EXCEPT ![Len(stack)].cur = NULL]
  /\ UNCHANGED <<held, heads, wild>>

\* The next node of the group, else the next group, else the call ends.
Advance ==
  /\ stack # <<>>
  /\ LET f == Last(stack)
     IN  /\ f.cur = NULL
         /\ \/ /\ f.next # NULL
               /\ RunNode(link, f.next, f, Front(stack))
               /\ UNCHANGED tail
            \/ /\ f.next = NULL /\ f.rest # NULL
               /\ RunGroup(link, f.rest, Front(stack))
            \/ /\ f.next = NULL /\ f.rest = NULL
               /\ stack' = Front(stack)
               /\ UNCHANGED <<link, heads>>
  /\ UNCHANGED <<sess, cb, pool, held, wild>>
-----------------------------------------------------------------------------
Next ==
  /\ ~wild
  /\ \/ \E n \in Nodes, s \in Sessions \cup {NULL} : Schedule(n, s) \/ ScheduleOnce(n, s)
     \/ \E n \in Nodes, s \in EventUsers : GetEventObj(n, s) \/ CancelEvent(n, s)
     \/ \E n \in Nodes : ScheduleEvent(n)
     \/ \E s \in Sessions : RemoveSessionCbs(s) \/ CloseSession(s) \/ RunSession(s)
     \/ \E s \in Sessions : CloseOverwrites(s)
     \/ Run \/ Return \/ Advance

\* The loop comes back to run() after finitely many events, each callback
\* returns after finitely many calls of its own, and run goes on.
Fairness ==
  /\ SF_vars(~wild /\ Run) /\ WF_vars(~wild /\ Advance)
  /\ \A d \in 1 .. Cardinality(Sessions) + 1 :
       SF_vars(~wild /\ Return /\ Len(stack) = d)

Spec == Init /\ [][Next]_vars /\ Fairness
-----------------------------------------------------------------------------
(* Properties. *)

\* The elements of W in the order in which upto[n] has those up to n.
Ranked(W, upto) ==
  [i \in 1 .. Cardinality(W) |-> CHOOSE n \in W : Cardinality(upto[n]) = i]

\* What waits for session s, in the order in which it will start: the run
\* queue before the list, each along m_pNext.
Waiters(s) == Running(s) \cup Queued(s)
NotAfter(s, n) ==
  {m \in Waiters(s) : \/ m \in Running(s) /\ n \in Queued(s)
                      \/ n \in Walk(link.next, m, Own(s))}
Waiting(s) == Ranked(Waiters(s), [n \in Waiters(s) |-> NotAfter(s, n)])

Pending == [s \in Sessions |-> Waiting(s)]

\* Nodes in the list or in the part of it that a call has in hand.
Along(n) == Walk(link.next, n, Nodes)
Listed == Along(link.next[HEAD])
InHand == UNION {Along(stack[i].next) \cup Along(stack[i].rest) : i \in DOMAIN stack}
Current == {stack[i].cur : i \in DOMAIN stack} \ {NULL}

\* What waits without a session and was not cancelled.
Loose == {n \in Listed \cup InHand : sess[n] = NULL /\ cb[n]}

\* The callbacks under way: a call below the top is within one.
UnderWay ==
  [i \in 1 .. (IF InCallback THEN Len(stack) ELSE Len(stack) - 1) |-> stack[i].cur]

Queue == INSTANCE CallbackQueue WITH
  pending <- Pending,
  loose <- Loose,
  active <- UnderWay

\* The callbacks of a session start in the order of scheduling, once each,
\* and none that waited when the session was closed starts any more, through
\* all of insert_after into the list that run() detached, nested calls of
\* run(session) and sessions closed by the callbacks of others.
RunsAsPromised == Queue!Spec

\* No node is lost or in two places: each one is free, prepared, in the list,
\* in the hands of one call or running, and next and prev agree.
NodesAccounted ==
  LET places == <<pool, held, Listed, InHand, Current>>
      linked == Listed \cup InHand
  IN  /\ UNION Range(places) = Nodes
      /\ \A i, j \in DOMAIN places : i # j => places[i] \cap places[j] = {}
      /\ \A n \in linked : link.next[n] # NULL => link.prev[link.next[n]] = n
      /\ \A s \in Sessions :
           {n \in linked : sess[n] = s} = Queued(s) \cup Running(s)

\* Whatever was scheduled has run or was cancelled, and is free again, in
\* the end: no order of calls leaves it in a list nobody walks, as long as no
\* session is cut off from its nodes.
EventuallyFree == \A n \in Nodes : n \in Listed \cup InHand ~> n \in pool \/ wild
=============================================================================
