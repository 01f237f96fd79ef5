-------------------------- MODULE EvtcbQue_proofs --------------------------
(***************************************************************************)
(* The list of the deferred callbacks keeps its shape through all calls,   *)
(* and they start as CallbackQueue promises, for any number of nodes and   *)
(* sessions.                                                               *)
(***************************************************************************)
EXTENDS EvtcbQue, SequenceTheorems, FiniteSetTheorems, WellFoundedInduction, TLAPS

\* The parts of the list a node can be in: part i > 0 is the rest of the group
\* that call i of the stack runs.
Out  == -2     \* in none: free, prepared or running
Rest == -1     \* the groups that run() has detached and not yet begun
List == 0      \* the list of the queue

\* What the last node of a part points to.
End(p) == IF p = List THEN HEAD ELSE NULL

Cells == Nodes \cup {HEAD}
Targets == Nodes \cup {HEAD, NULL}
Links == [next : [Cells -> Targets], prev : [Cells -> Targets]]

\* m_pNext of n leads to the node behind it in its part.
NextRight(l, part, pos, n) ==
  LET m == l.next[n]
  IN  IF m \in Nodes
      THEN /\ part[m] = part[n] /\ pos[n] < pos[m] /\ l.prev[m] = n
           /\ \A x \in Nodes : part[x] = part[n] /\ pos[n] < pos[x] => pos[m] <= pos[x]
      ELSE /\ m = End(part[n])
           /\ \A x \in Nodes : part[x] = part[n] => pos[x] <= pos[n]

\* m_pPrev of n leads to the node before it.
PrevRight(l, part, pos, n) ==
  LET m == l.prev[n]
  IN  IF m \in Nodes
      THEN /\ part[m] = part[n] /\ pos[m] < pos[n] /\ l.next[m] = n
           /\ \A x \in Nodes : part[x] = part[n] /\ pos[x] < pos[n] => pos[x] <= pos[m]
      ELSE /\ m = End(part[n])
           /\ \A x \in Nodes : part[x] = part[n] => pos[n] <= pos[x]

\* The head of the queue leads to the first and the last node of the list.
HeadRight(l, part, pos) ==
  /\ IF l.next[HEAD] \in Nodes
     THEN /\ part[l.next[HEAD]] = List /\ l.prev[l.next[HEAD]] = HEAD
          /\ \A x \in Nodes : part[x] = List => pos[l.next[HEAD]] <= pos[x]
     ELSE l.next[HEAD] = HEAD /\ \A x \in Nodes : part[x] # List
  /\ IF l.prev[HEAD] \in Nodes
     THEN /\ part[l.prev[HEAD]] = List /\ l.next[l.prev[HEAD]] = HEAD
          /\ \A x \in Nodes : part[x] = List => pos[x] <= pos[l.prev[HEAD]]
     ELSE l.prev[HEAD] = HEAD /\ \A x \in Nodes : part[x] # List

\* The pointers make lists of the parts, in the order of pos.
Shape(l, part, pos) ==
  /\ l \in Links /\ part \in [Nodes -> Int] /\ pos \in [Nodes -> Nat]
  /\ \A m, n \in Nodes : part[m] = part[n] /\ part[n] # Out /\ pos[m] = pos[n] => m = n
  /\ \A n \in Nodes : part[n] # Out => NextRight(l, part, pos, n) /\ PrevRight(l, part, pos, n)
  /\ HeadRight(l, part, pos)

\* n is the first node of part p, NULL if there is none.
First(part, pos, p, n) ==
  IF n = NULL THEN \A x \in Nodes : part[x] # p
  ELSE n \in Nodes /\ part[n] = p /\ \A x \in Nodes : part[x] = p => pos[n] <= pos[x]

Frames == [of : Sessions \cup {NULL}, cur : Nodes \cup {NULL},
           next : Nodes \cup {NULL}, rest : Nodes \cup {NULL}]

\* The calls under way: one of run(), or some of run(session) of different
\* sessions; each knows the first node of what it has in hand.
Framed(k, part, pos) ==
  /\ k \in Seq(Frames)
  /\ \A i \in 1 .. Len(k) : First(part, pos, i, k[i].next)
  /\ \A i \in 1 .. Len(k) : k[i].of = NULL => i = 1 /\ Len(k) = 1
  /\ \A i, j \in 1 .. Len(k) : k[i].of = k[j].of => i = j
  /\ \A i \in 1 .. Len(k) : k[i].of # NULL => k[i].rest = NULL
  /\ IF Len(k) = 1 THEN First(part, pos, Rest, k[1].rest)
     ELSE \A x \in Nodes : part[x] # Rest
  /\ \A x \in Nodes : part[x] \in {Out, Rest, List} \cup 1 .. Len(k)

\* The nodes of a session stand next to each other, and evtcb_tail is the last.
Tailed(se, tl, part, pos) ==
  /\ se \in [Nodes -> Sessions \cup {NULL}]
  /\ tl \in [Sessions -> Nodes \cup {NULL}]
  /\ \A s \in Sessions : tl[s] # NULL => part[tl[s]] \in {List, Rest} /\ se[tl[s]] = s
  /\ \A n \in Nodes : part[n] \in {List, Rest} /\ se[n] # NULL =>
       /\ tl[se[n]] # NULL /\ part[tl[se[n]]] = part[n] /\ pos[n] <= pos[tl[se[n]]]
       /\ \A m \in Nodes : part[m] = part[n] /\ pos[n] <= pos[m] /\ pos[m] <= pos[tl[se[n]]]
            => se[m] = se[n]

\* A group that runs is of one session, and evtcb_runqueue is its first node,
\* unless the session was closed.
Grouped(se, rq, k, part) ==
  /\ rq \in [Sessions -> Nodes \cup {NULL}]
  /\ \A s \in Sessions : rq[s] # NULL => part[rq[s]] > 0 /\ se[rq[s]] = s
  /\ \A n \in Nodes : part[n] > 0 /\ se[n] # NULL =>
       /\ rq[se[n]] = k[part[n]].next
       /\ k[part[n]].of \in {NULL, se[n]}
  /\ \A m, n \in Nodes : part[m] = part[n] /\ part[n] > 0 => se[m] = se[n]

\* A node is in no part when it is free, prepared or running, and then in one
\* of these places.
Placed(po, he, k, part) ==
  /\ po \subseteq Nodes /\ he \subseteq Nodes /\ po \cap he = {}
  /\ \A i \in 1 .. Len(k) : k[i].cur # NULL => part[k[i].cur] = Out /\ k[i].cur \notin po \cup he
  /\ \A i, j \in 1 .. Len(k) : k[i].cur # NULL /\ k[i].cur = k[j].cur => i = j
  /\ \A n \in po \cup he : part[n] = Out
  /\ \A n \in Nodes : part[n] = Out => n \in po \cup he \/ \E i \in 1 .. Len(k) : k[i].cur = n

\* back_ref_ptr leads into some node, not always one of the session's own.
Referred(br) == br \in [Sessions -> Nodes \cup {NULL}]

\* All of it, for one arrangement of the nodes.
Sound(l, k, se, tl, rq, po, he, br, part, pos) ==
  /\ Shape(l, part, pos)
  /\ Framed(k, part, pos)
  /\ Tailed(se, tl, part, pos)
  /\ Grouped(se, rq, k, part)
  /\ Placed(po, he, k, part)
  /\ Referred(br)

\* The inductive invariant.
IInv ==
  /\ cb \in [Nodes -> BOOLEAN]
  /\ \E part, pos : Sound(link, stack, sess, tail, runq, pool, held, backref, part, pos)

(***************************************************************************)
(* The pointers.                                                           *)
(***************************************************************************)
\* r is l after a store.
NextSet(r, l, a, b) == r = SetNext(l, a, b)
PrevSet(r, l, a, b) == r = SetPrev(l, a, b)

\* Only the pointer of a differs.
Kept(f, g, a) == \A x \in Cells : x # a => g[x] = f[x]

\* A store into m_pNext of a node or the head.
LEMMA NextStored ==
  ASSUME NEW l \in Links, NEW a \in Cells, NEW b \in Targets,
         NEW r, NextSet(r, l, a, b)
  PROVE  /\ r \in Links /\ r.prev = l.prev /\ r.next[a] = b /\ Kept(l.next, r.next, a)
BY DEF Links, SetNext, NextSet, Kept

\* A store into m_pPrev.
LEMMA PrevStored ==
  ASSUME NEW l \in Links, NEW a \in Cells, NEW b \in Targets,
         NEW r, PrevSet(r, l, a, b)
  PROVE  /\ r \in Links /\ r.next = l.next /\ r.prev[a] = b /\ Kept(l.prev, r.prev, a)
BY DEF Links, SetPrev, PrevSet, Kept

\* A node whose m_pPrev is NULL is unlinked.
LEMMA FirstUnlinked ==
  ASSUME NEW l \in Links, NEW n \in Nodes, l.prev[n] = NULL,
         NEW m \in Nodes \cup {NULL}, m = l.next[n], m # n, NEW r, r = RemoveNode(l, n)
  PROVE  /\ r \in Links
         /\ \A x \in Cells : x # n => r.next[x] = l.next[x]
         /\ \A x \in Cells : x # n /\ x # m => r.prev[x] = l.prev[x]
         /\ m \in Nodes => r.prev[m] = NULL
<1>0. /\ n \in Cells /\ NULL \in Targets /\ (m \in Nodes => m \in Cells)
      /\ NULL \notin Nodes
  BY EvtcbAssumption DEF Cells, Targets
<1>1. PICK a : a = IF m = NULL THEN l ELSE SetPrev(l, m, NULL)
  OBVIOUS
<1>2. /\ a \in Links /\ a.next = l.next /\ (m \in Nodes => a.prev[m] = NULL)
      /\ \A x \in Cells : x # m => a.prev[x] = l.prev[x]
  <2>1. CASE m = NULL
    BY <1>1, <2>1, EvtcbAssumption
  <2>2. CASE m \in Nodes
    <3>1. PrevSet(a, l, m, NULL)
      BY <1>1, <2>2, EvtcbAssumption DEF PrevSet
    <3>2. a \in Links /\ a.next = l.next /\ a.prev[m] = NULL /\ Kept(l.prev, a.prev, m)
      BY <1>0, <2>2, <3>1, PrevStored
    <3> QED BY <3>2 DEF Kept
  <2> QED BY <2>1, <2>2
<1>3. PICK b : NextSet(b, a, n, NULL)
  BY DEF NextSet
<1>4. b \in Links /\ b.prev = a.prev /\ Kept(a.next, b.next, n)
  BY <1>0, <1>2, <1>3, NextStored
<1>5. PrevSet(r, b, n, NULL)
  BY <1>1, <1>3 DEF RemoveNode, NextSet, PrevSet
<1>6. r \in Links /\ r.next = b.next /\ Kept(b.prev, r.prev, n)
  BY <1>0, <1>4, <1>5, PrevStored
<1> QED BY <1>0, <1>2, <1>4, <1>6 DEF Kept

\* The node n, first of part p, is taken off.
LEMMA FirstTaken ==
  ASSUME NEW l, NEW part, NEW pos, Shape(l, part, pos), NEW n \in Nodes,
         part[n] \notin {Out, List}, First(part, pos, part[n], n)
  PROVE  /\ Shape(RemoveNode(l, n), [part EXCEPT ![n] = Out], pos)
         /\ First([part EXCEPT ![n] = Out], pos, part[n], l.next[n])
         /\ l.next[n] \in Nodes \cup {NULL}
<1> DEFINE m == l.next[n]
           r == RemoveNode(l, n)
           q == [part EXCEPT ![n] = Out]
<1>1. /\ l \in Links /\ part \in [Nodes -> Int] /\ pos \in [Nodes -> Nat]
      /\ NextRight(l, part, pos, n) /\ PrevRight(l, part, pos, n)
      /\ HEAD \notin Nodes /\ NULL \notin Nodes /\ HEAD # NULL
      /\ \A x, y \in Nodes : part[x] = part[y] /\ part[y] # Out /\ pos[x] = pos[y] => x = y
  BY EvtcbAssumption DEF Shape
<1>2. l.prev[n] = NULL
  BY <1>1 DEF PrevRight, First, End
<1>3. m \in Nodes \cup {NULL} /\ (m \in Nodes => m # n)
  BY <1>1 DEF NextRight, End
<1>4. /\ r \in Links
      /\ \A x \in Cells : x # n => r.next[x] = l.next[x]
      /\ \A x \in Cells : x # n /\ x # m => r.prev[x] = l.prev[x]
      /\ m \in Nodes => r.prev[m] = NULL
  <2> HIDE DEF m, r
  <2>1. l \in Links /\ l.prev[n] = NULL /\ m \in Nodes \cup {NULL} /\ m # n
    BY <1>1, <1>2, <1>3
  <2>2. m = l.next[n] /\ r = RemoveNode(l, n)
    BY DEF m, r
  <2> QED BY <2>1, <2>2, FirstUnlinked
<1>5. /\ \A x \in Nodes : x # n => r.next[x] = l.next[x]
      /\ \A x \in Nodes : x # n /\ x # m => r.prev[x] = l.prev[x]
      /\ m \in Nodes => r.prev[m] = NULL
      /\ r.next[HEAD] = l.next[HEAD] /\ r.prev[HEAD] = l.prev[HEAD]
  <2> HIDE DEF m, r
  <2> QED BY <1>1, <1>3, <1>4 DEF Cells
<1>6. q \in [Nodes -> Int] /\ q[n] = Out /\ \A x \in Nodes : x # n => q[x] = part[x]
  BY <1>1 DEF Out
<1> HIDE DEF m, r, q
<1>7. First(q, pos, part[n], m)
  BY <1>1, <1>3, <1>6 DEF First, NextRight, m
<1>8. ASSUME NEW x \in Nodes, q[x] # Out PROVE NextRight(r, q, pos, x)
  <2>1. x # n /\ part[x] # Out /\ NextRight(l, part, pos, x) /\ r.next[x] = l.next[x]
    BY <1>5, <1>6, <1>8 DEF Shape
  <2>2. l.next[x] # n
    BY <1>1, <1>2, <2>1 DEF NextRight
  <2>3. CASE l.next[x] \in Nodes
    <3>1. l.next[x] # m
      BY <1>1, <2>1, <2>3 DEF NextRight, m
    <3> QED BY <1>1, <1>5, <1>6, <2>1, <2>2, <2>3, <3>1 DEF NextRight
  <2>4. CASE l.next[x] \notin Nodes
    BY <1>6, <2>1, <2>4 DEF NextRight
  <2> QED BY <2>3, <2>4
<1>9. ASSUME NEW x \in Nodes, q[x] # Out PROVE PrevRight(r, q, pos, x)
  <2>1. x # n /\ part[x] # Out /\ PrevRight(l, part, pos, x)
    BY <1>5, <1>6, <1>9 DEF Shape
  <2>2. CASE x = m
    <3>1. r.prev[x] = NULL /\ part[x] = part[n] /\ pos[n] < pos[x]
          /\ \A y \in Nodes : part[y] = part[n] /\ pos[n] < pos[y] => pos[x] <= pos[y]
      BY <1>1, <1>5, <2>2 DEF NextRight, m
    <3>2. ASSUME NEW y \in Nodes, q[y] = q[x] PROVE pos[x] <= pos[y]
      <4>1. y # n /\ part[y] = part[n]
        BY <1>6, <1>9, <3>1, <3>2, <2>1
      <4>2. pos[n] <= pos[y] /\ pos[n] # pos[y]
        BY <1>1, <4>1 DEF First
      <4> QED BY <1>1, <3>1, <4>1, <4>2
    <3>3. q[x] # List /\ NULL \notin Nodes
      BY <1>1, <1>6, <2>1, <3>1
    <3> QED BY <3>1, <3>2, <3>3 DEF PrevRight, End
  <2>3. CASE x # m
    <3>1. r.prev[x] = l.prev[x] /\ l.prev[x] # n
      BY <1>5, <2>1, <2>3 DEF PrevRight, m
    <3>2. CASE l.prev[x] \in Nodes
      BY <1>1, <1>5, <1>6, <2>1, <3>1, <3>2 DEF PrevRight
    <3>3. CASE l.prev[x] \notin Nodes
      BY <1>1, <1>5, <1>6, <2>1, <3>1, <3>3 DEF PrevRight
    <3> QED BY <3>2, <3>3
  <2> QED BY <2>2, <2>3
<1>10. HeadRight(r, q, pos)
  <2>1. HeadRight(l, part, pos)
    BY DEF Shape
  <2>2. /\ l.next[HEAD] \in Nodes => l.next[HEAD] # n /\ l.next[HEAD] # m
        /\ l.prev[HEAD] \in Nodes => l.prev[HEAD] # n
    BY <1>1, <2>1 DEF HeadRight, NextRight, m
  <2>3. \A x \in Nodes : q[x] = List <=> part[x] = List
    BY <1>6 DEF Out, List
  <2> QED BY <1>1, <1>5, <1>6, <2>1, <2>2, <2>3 DEF HeadRight
<1>11. \A x, y \in Nodes : q[x] = q[y] /\ q[y] # Out /\ pos[x] = pos[y] => x = y
  BY <1>1, <1>6
<1>12. Shape(r, q, pos)
  BY <1>1, <1>4, <1>6, <1>8, <1>9, <1>10, <1>11 DEF Shape
<1> QED BY <1>3, <1>7, <1>12 DEF r, q, m

\* addNext.
LEMMA NextAdded ==
  ASSUME NEW l \in Links, NEW a \in Cells, NEW n \in Nodes, a # n,
         NEW t \in Targets, t = l.next[a], t # n, NEW r, r = AddNext(l, a, n)
  PROVE  /\ r \in Links /\ r.next[a] = n /\ r.next[n] = t
         /\ \A x \in Cells : x # a /\ x # n => r.next[x] = l.next[x]
         /\ r.prev[n] = a /\ (t # NULL => r.prev[t] = n)
         /\ \A x \in Cells : x # t /\ x # n => r.prev[x] = l.prev[x]
<1>0. n \in Cells /\ n \in Targets /\ a \in Targets /\ (t # NULL => t \in Cells) /\ NULL \notin Cells
  BY EvtcbAssumption DEF Cells, Targets
<1>1. PICK b : NextSet(b, l, a, n)
  BY DEF NextSet
<1>2. b \in Links /\ b.prev = l.prev /\ b.next[a] = n /\ Kept(l.next, b.next, a)
  BY <1>0, <1>1, NextStored
<1>3. PICK d : NextSet(d, b, n, t)
  BY DEF NextSet
<1>4. d \in Links /\ d.prev = b.prev /\ d.next[n] = t /\ Kept(b.next, d.next, n)
  BY <1>0, <1>2, <1>3, NextStored
<1>5. PICK e : PrevSet(e, d, n, a)
  BY DEF PrevSet
<1>6. e \in Links /\ e.next = d.next /\ e.prev[n] = a /\ Kept(d.prev, e.prev, n)
  BY <1>0, <1>4, <1>5, PrevStored
<1>7. r = IF t = NULL THEN e ELSE SetPrev(e, t, n)
  BY <1>1, <1>3, <1>5 DEF AddNext, NextSet, PrevSet
<1>8. CASE t = NULL
  BY <1>0, <1>2, <1>4, <1>6, <1>7, <1>8 DEF Kept
<1>9. CASE t # NULL
  <2>1. PrevSet(r, e, t, n) /\ t \in Cells
    BY <1>0, <1>7, <1>9 DEF PrevSet
  <2>2. r \in Links /\ r.next = e.next /\ r.prev[t] = n /\ Kept(e.prev, r.prev, t)
    BY <1>0, <1>6, <2>1, PrevStored
  <2> QED BY <1>0, <1>2, <1>4, <1>6, <2>1, <2>2 DEF Kept
<1> QED BY <1>8, <1>9

\* The places when n is put behind a.
Behind(pos, a, n) ==
  [x \in Nodes |-> IF x = n THEN pos[a] + 1
                   ELSE IF pos[a] < pos[x] THEN pos[x] + 1 ELSE pos[x]]

\* The order of the others stays, and n comes between a and what was behind it.
LEMMA BehindOrder ==
  ASSUME NEW pos \in [Nodes -> Nat], NEW a \in Nodes, NEW n \in Nodes, a # n,
         NEW w, w = Behind(pos, a, n)
  PROVE  /\ w \in [Nodes -> Nat]
         /\ \A x, y \in Nodes : x # n /\ y # n =>
              /\ w[x] < w[y] <=> pos[x] < pos[y]
              /\ w[x] <= w[y] <=> pos[x] <= pos[y]
              /\ w[x] = w[y] <=> pos[x] = pos[y]
         /\ \A x \in Nodes : x # n =>
              /\ w[n] < w[x] <=> pos[a] < pos[x]
              /\ w[n] <= w[x] <=> pos[a] < pos[x]
              /\ w[x] < w[n] <=> pos[x] <= pos[a]
              /\ w[x] <= w[n] <=> pos[x] <= pos[a]
              /\ w[x] # w[n]
BY DEF Behind

\* A node is put behind another one, of the list or of what run() has in hand.
LEMMA Inserted ==
  ASSUME NEW l, NEW part, NEW pos, Shape(l, part, pos), NEW a \in Nodes, NEW n \in Nodes,
         part[a] # Out, part[n] = Out,
         NEW r, r = AddNext(l, a, n), NEW q, q = [part EXCEPT ![n] = part[a]],
         NEW w, w = Behind(pos, a, n)
  PROVE  Shape(r, q, w)
<1>1. /\ l \in Links /\ part \in [Nodes -> Int] /\ pos \in [Nodes -> Nat] /\ a # n
      /\ NextRight(l, part, pos, a) /\ HeadRight(l, part, pos)
      /\ HEAD \notin Nodes /\ NULL \notin Nodes /\ HEAD # NULL
      /\ \A x, y \in Nodes : part[x] = part[y] /\ part[y] # Out /\ pos[x] = pos[y] => x = y
  BY EvtcbAssumption DEF Shape
<1>2. PICK t \in Targets : t = l.next[a]
  BY <1>1 DEF Links, Cells
<1>3. t # n
  BY <1>1, <1>2 DEF NextRight
<1>4. /\ r \in Links /\ r.next[a] = n /\ r.next[n] = t
      /\ \A x \in Cells : x # a /\ x # n => r.next[x] = l.next[x]
      /\ r.prev[n] = a /\ (t # NULL => r.prev[t] = n)
      /\ \A x \in Cells : x # t /\ x # n => r.prev[x] = l.prev[x]
  <2>1. a \in Cells
    BY DEF Cells
  <2> QED BY <1>1, <1>2, <1>3, <2>1, NextAdded
<1>5. q \in [Nodes -> Int] /\ q[n] = part[a] /\ \A x \in Nodes : x # n => q[x] = part[x]
  BY <1>1
<1>6. /\ w \in [Nodes -> Nat]
      /\ \A x, y \in Nodes : x # n /\ y # n =>
           /\ w[x] < w[y] <=> pos[x] < pos[y]
           /\ w[x] <= w[y] <=> pos[x] <= pos[y]
           /\ w[x] = w[y] <=> pos[x] = pos[y]
      /\ \A x \in Nodes : x # n =>
           /\ w[n] < w[x] <=> pos[a] < pos[x]
           /\ w[n] <= w[x] <=> pos[a] < pos[x]
           /\ w[x] < w[n] <=> pos[x] <= pos[a]
           /\ w[x] <= w[n] <=> pos[x] <= pos[a]
           /\ w[x] # w[n]
  BY <1>1, BehindOrder
<1>7. NextRight(r, q, w, n)
  <2>1. CASE t \in Nodes
    <3>1. /\ part[t] = part[a] /\ pos[a] < pos[t]
          /\ \A x \in Nodes : part[x] = part[a] /\ pos[a] < pos[x] => pos[t] <= pos[x]
      BY <1>1, <1>2, <2>1 DEF NextRight
    <3>2. q[t] = q[n] /\ w[n] < w[t] /\ r.prev[t] = n
      BY <1>1, <1>3, <1>4, <1>5, <1>6, <2>1, <3>1
    <3>3. \A x \in Nodes : q[x] = q[n] /\ w[n] < w[x] => w[t] <= w[x]
      BY <1>3, <1>5, <1>6, <2>1, <3>1
    <3> QED BY <1>4, <2>1, <3>2, <3>3 DEF NextRight
  <2>2. CASE t \notin Nodes
    <3>1. t = End(part[a]) /\ \A x \in Nodes : part[x] = part[a] => pos[x] <= pos[a]
      BY <1>1, <1>2, <2>2 DEF NextRight
    <3>2. \A x \in Nodes : q[x] = q[n] => w[x] <= w[n]
      BY <1>5, <1>6, <3>1
    <3> QED BY <1>4, <1>5, <2>2, <3>1, <3>2 DEF NextRight
  <2> QED BY <2>1, <2>2
<1>8. PrevRight(r, q, w, n)
  <2>1. q[a] = q[n] /\ w[a] < w[n]
    BY <1>1, <1>5, <1>6
  <2>2. \A x \in Nodes : q[x] = q[n] /\ w[x] < w[n] => w[x] <= w[a]
    BY <1>1, <1>5, <1>6
  <2> QED BY <1>4, <2>1, <2>2 DEF PrevRight
<1>9. ASSUME NEW x \in Nodes, x # n, q[x] # Out PROVE NextRight(r, q, w, x)
  <2>1. part[x] # Out /\ NextRight(l, part, pos, x) /\ q[x] = part[x] /\ x \in Cells
    BY <1>5, <1>9 DEF Shape, Cells
  <2>2. CASE x = a
    <3>1. q[n] = q[x] /\ w[x] < w[n] /\ r.prev[n] = x /\ r.next[x] = n
      BY <1>1, <1>4, <1>5, <1>6, <2>2
    <3>2. \A y \in Nodes : q[y] = q[x] /\ w[x] < w[y] => w[n] <= w[y]
      BY <1>5, <1>6, <1>9, <2>1, <2>2
    <3> QED BY <3>1, <3>2 DEF NextRight
  <2>3. CASE x # a
    <3>1. r.next[x] = l.next[x]
      BY <1>4, <1>9, <2>1, <2>3
    <3>2. CASE l.next[x] \in Nodes
      <4>1. PICK m \in Nodes : m = l.next[x]
        BY <3>2
      <4>2. /\ part[m] = part[x] /\ pos[x] < pos[m] /\ l.prev[m] = x
            /\ \A y \in Nodes : part[y] = part[x] /\ pos[x] < pos[y] => pos[m] <= pos[y]
        BY <2>1, <4>1 DEF NextRight
      <4>3. m # n /\ m # t /\ m \in Cells
        <5>1. t \in Nodes => l.prev[t] = a
          BY <1>1, <1>2 DEF NextRight
        <5> QED BY <2>1, <2>3, <4>2, <5>1 DEF Cells
      <4>4. q[m] = q[x] /\ w[x] < w[m] /\ r.prev[m] = x
        BY <1>4, <1>5, <1>6, <1>9, <2>1, <4>2, <4>3
      <4>5. ASSUME NEW y \in Nodes, q[y] = q[x], w[x] < w[y] PROVE w[m] <= w[y]
        <5>1. CASE y # n
          BY <1>5, <1>6, <1>9, <2>1, <4>2, <4>3, <4>5, <5>1
        <5>2. CASE y = n
          <6>1. part[a] = part[x] /\ pos[x] <= pos[a] /\ pos[x] # pos[a]
            BY <1>1, <1>5, <1>6, <1>9, <2>1, <2>3, <4>5, <5>2
          <6>2. pos[m] <= pos[a]
            BY <1>1, <4>2, <6>1
          <6> QED BY <1>6, <4>3, <5>2, <6>2
        <5> QED BY <5>1, <5>2
      <4> QED BY <3>1, <4>1, <4>4, <4>5 DEF NextRight
    <3>3. CASE l.next[x] \notin Nodes
      <4>1. l.next[x] = End(q[x]) /\ \A y \in Nodes : part[y] = part[x] => pos[y] <= pos[x]
        BY <2>1, <3>3 DEF NextRight
      <4>2. ASSUME NEW y \in Nodes, q[y] = q[x] PROVE w[y] <= w[x]
        <5>1. CASE y # n
          BY <1>5, <1>6, <1>9, <2>1, <4>1, <4>2, <5>1
        <5>2. CASE y = n
          <6>1. part[a] = part[x]
            BY <1>5, <2>1, <4>2, <5>2
          <6>2. pos[a] <= pos[x] /\ pos[a] # pos[x]
            BY <1>1, <2>1, <2>3, <4>1, <6>1
          <6> QED BY <1>1, <1>6, <1>9, <5>2, <6>2
        <5> QED BY <5>1, <5>2
      <4> QED BY <3>1, <3>3, <4>1, <4>2 DEF NextRight
    <3> QED BY <3>2, <3>3
  <2> QED BY <2>2, <2>3
<1>10. ASSUME NEW x \in Nodes, x # n, q[x] # Out PROVE PrevRight(r, q, w, x)
  <2>1. part[x] # Out /\ PrevRight(l, part, pos, x) /\ q[x] = part[x] /\ x \in Cells
    BY <1>5, <1>10 DEF Shape, Cells
  <2>2. CASE x = t
    <3>1. /\ part[x] = part[a] /\ pos[a] < pos[x]
          /\ \A y \in Nodes : part[y] = part[a] /\ pos[a] < pos[y] => pos[x] <= pos[y]
      BY <1>1, <1>2, <2>2 DEF NextRight
    <3>2. q[n] = q[x] /\ w[n] < w[x] /\ r.next[n] = x /\ r.prev[x] = n
      BY <1>1, <1>4, <1>5, <1>6, <1>10, <2>1, <2>2, <3>1
    <3>3. ASSUME NEW y \in Nodes, q[y] = q[x], w[y] < w[x] PROVE w[y] <= w[n]
      <4>1. CASE y = n
        BY <1>6, <4>1
      <4>2. CASE y # n
        <5>1. part[y] = part[a] /\ pos[y] < pos[x]
          BY <1>5, <1>6, <1>10, <2>1, <3>1, <3>3, <4>2
        <5>2. pos[y] <= pos[a]
          BY <1>1, <3>1, <5>1
        <5> QED BY <1>6, <4>2, <5>2
      <4> QED BY <4>1, <4>2
    <3> QED BY <3>2, <3>3 DEF PrevRight
  <2>3. CASE x # t
    <3>1. r.prev[x] = l.prev[x]
      BY <1>4, <1>10, <2>1, <2>3
    <3>2. CASE l.prev[x] \in Nodes
      <4>1. PICK m \in Nodes : m = l.prev[x]
        BY <3>2
      <4>2. /\ part[m] = part[x] /\ pos[m] < pos[x] /\ l.next[m] = x
            /\ \A y \in Nodes : part[y] = part[x] /\ pos[y] < pos[x] => pos[y] <= pos[m]
        BY <2>1, <4>1 DEF PrevRight
      <4>3. m # n /\ m # a /\ m \in Cells
        BY <1>2, <2>1, <2>3, <4>2 DEF Cells
      <4>4. q[m] = q[x] /\ w[m] < w[x] /\ r.next[m] = x
        BY <1>4, <1>5, <1>6, <1>10, <2>1, <4>2, <4>3
      <4>5. ASSUME NEW y \in Nodes, q[y] = q[x], w[y] < w[x] PROVE w[y] <= w[m]
        <5>1. CASE y # n
          BY <1>5, <1>6, <1>10, <2>1, <4>2, <4>3, <4>5, <5>1
        <5>2. CASE y = n
          <6>1. part[a] = part[x] /\ pos[a] < pos[x]
            BY <1>5, <1>6, <1>10, <2>1, <4>5, <5>2
          <6>2. pos[a] <= pos[m] /\ pos[a] # pos[m]
            BY <1>1, <2>1, <4>2, <4>3, <6>1
          <6> QED BY <1>1, <1>6, <4>3, <5>2, <6>2
        <5> QED BY <5>1, <5>2
      <4> QED BY <3>1, <4>1, <4>4, <4>5 DEF PrevRight
    <3>3. CASE l.prev[x] \notin Nodes
      <4>1. l.prev[x] = End(q[x]) /\ \A y \in Nodes : part[y] = part[x] => pos[x] <= pos[y]
        BY <2>1, <3>3 DEF PrevRight
      <4>2. ASSUME NEW y \in Nodes, q[y] = q[x] PROVE w[x] <= w[y]
        <5>1. CASE y # n
          BY <1>5, <1>6, <1>10, <2>1, <4>1, <4>2, <5>1
        <5>2. CASE y = n
          <6>1. part[a] = part[x]
            BY <1>5, <2>1, <4>2, <5>2
          <6>2. pos[x] <= pos[a]
            BY <4>1, <6>1
          <6> QED BY <1>6, <1>10, <5>2, <6>2
        <5> QED BY <5>1, <5>2
      <4> QED BY <3>1, <3>3, <4>1, <4>2 DEF PrevRight
    <3> QED BY <3>2, <3>3
  <2> QED BY <2>2, <2>3
<1>11. HeadRight(r, q, w)
  <2>1. HEAD # a /\ HEAD # n /\ HEAD \in Cells
    BY <1>1 DEF Cells
  <2>2. r.next[HEAD] = l.next[HEAD]
    BY <1>4, <2>1
  <2>3. IF r.next[HEAD] \in Nodes
        THEN /\ q[r.next[HEAD]] = List /\ r.prev[r.next[HEAD]] = HEAD
             /\ \A x \in Nodes : q[x] = List => w[r.next[HEAD]] <= w[x]
        ELSE r.next[HEAD] = HEAD /\ \A x \in Nodes : q[x] # List
    <3>1. CASE l.next[HEAD] \in Nodes
      <4>1. PICK m \in Nodes : m = l.next[HEAD]
        BY <3>1
      <4>2. /\ part[m] = List /\ l.prev[m] = HEAD
            /\ \A x \in Nodes : part[x] = List => pos[m] <= pos[x]
        BY <1>1, <4>1 DEF HeadRight
      <4>3. m # n /\ m # t /\ m \in Cells
        <5>1. t \in Nodes => l.prev[t] = a
          BY <1>1, <1>2 DEF NextRight
        <5> QED BY <2>1, <4>2, <5>1 DEF Cells, List, Out
      <4>4. q[m] = List /\ r.prev[m] = HEAD
        BY <1>4, <1>5, <4>2, <4>3
      <4>5. ASSUME NEW y \in Nodes, q[y] = List PROVE w[m] <= w[y]
        <5>1. CASE y # n
          BY <1>5, <1>6, <4>2, <4>3, <4>5, <5>1
        <5>2. CASE y = n
          BY <1>5, <1>6, <4>2, <4>3, <4>5, <5>2
        <5> QED BY <5>1, <5>2
      <4> QED BY <2>2, <4>1, <4>4, <4>5
    <3>2. CASE l.next[HEAD] \notin Nodes
      BY <1>1, <1>5, <2>2, <3>2 DEF HeadRight
    <3> QED BY <3>1, <3>2
  <2>4. IF r.prev[HEAD] \in Nodes
        THEN /\ q[r.prev[HEAD]] = List /\ r.next[r.prev[HEAD]] = HEAD
             /\ \A x \in Nodes : q[x] = List => w[x] <= w[r.prev[HEAD]]
        ELSE r.prev[HEAD] = HEAD /\ \A x \in Nodes : q[x] # List
    <3>1. CASE t = HEAD
      <4>1. /\ r.prev[HEAD] = n /\ part[a] = List
            /\ \A x \in Nodes : part[x] = part[a] => pos[x] <= pos[a]
        BY <1>1, <1>2, <1>4, <3>1 DEF NextRight, End
      <4>2. \A x \in Nodes : q[x] = List => w[x] <= w[n]
        BY <1>5, <1>6, <4>1
      <4> QED BY <1>4, <1>5, <3>1, <4>1, <4>2
    <3>2. CASE t # HEAD
      <4>1. r.prev[HEAD] = l.prev[HEAD]
        BY <1>4, <2>1, <3>2
      <4>2. CASE l.prev[HEAD] \in Nodes
        <5>1. PICK m \in Nodes : m = l.prev[HEAD]
          BY <4>2
        <5>2. /\ part[m] = List /\ l.next[m] = HEAD
              /\ \A x \in Nodes : part[x] = List => pos[x] <= pos[m]
          BY <1>1, <5>1 DEF HeadRight
        <5>3. m # n /\ m # a /\ m \in Cells
          BY <1>2, <3>2, <5>2 DEF Cells, List, Out
        <5>4. q[m] = List /\ r.next[m] = HEAD
          BY <1>4, <1>5, <5>2, <5>3
        <5>5. ASSUME NEW y \in Nodes, q[y] = List PROVE w[y] <= w[m]
          <6>1. CASE y # n
            BY <1>5, <1>6, <5>2, <5>3, <5>5, <6>1
          <6>2. CASE y = n
            <7>1. pos[a] <= pos[m] /\ pos[a] # pos[m]
              BY <1>1, <1>5, <5>2, <5>3, <5>5, <6>2
            <7> QED BY <1>1, <1>6, <5>3, <6>2, <7>1
          <6> QED BY <6>1, <6>2
        <5> QED BY <4>1, <5>1, <5>4, <5>5
      <4>3. CASE l.prev[HEAD] \notin Nodes
        BY <1>1, <1>5, <4>1, <4>3 DEF HeadRight
      <4> QED BY <4>2, <4>3
    <3> QED BY <3>1, <3>2
  <2> QED BY <2>3, <2>4 DEF HeadRight
<1>12. \A x, y \in Nodes : q[x] = q[y] /\ q[y] # Out /\ w[x] = w[y] => x = y
  BY <1>1, <1>5, <1>6
<1> QED BY <1>4, <1>5, <1>6, <1>7, <1>8, <1>9, <1>10, <1>11, <1>12 DEF Shape

\* The first node of an empty list.
LEMMA InsertedAlone ==
  ASSUME NEW l, NEW part, NEW pos, Shape(l, part, pos), NEW n \in Nodes, part[n] = Out,
         l.prev[HEAD] = HEAD, NEW r, r = AddNext(l, HEAD, n),
         NEW q, q = [part EXCEPT ![n] = List]
  PROVE  Shape(r, q, pos)
<1>1. /\ l \in Links /\ part \in [Nodes -> Int] /\ pos \in [Nodes -> Nat]
      /\ HEAD \notin Nodes /\ NULL \notin Nodes /\ HEAD # NULL
      /\ HEAD \in Cells /\ HEAD \in Targets
      /\ \A x, y \in Nodes : part[x] = part[y] /\ part[y] # Out /\ pos[x] = pos[y] => x = y
  BY EvtcbAssumption DEF Shape, Cells, Targets
<1>2. l.next[HEAD] = HEAD /\ \A x \in Nodes : part[x] # List
  BY <1>1 DEF Shape, HeadRight
<1>3. /\ r \in Links /\ r.next[HEAD] = n /\ r.next[n] = HEAD
      /\ \A x \in Cells : x # HEAD /\ x # n => r.next[x] = l.next[x]
      /\ r.prev[n] = HEAD /\ r.prev[HEAD] = n
      /\ \A x \in Cells : x # HEAD /\ x # n => r.prev[x] = l.prev[x]
  <2>1. PICK t \in Targets : t = l.next[HEAD] /\ t = HEAD
    BY <1>1, <1>2
  <2>2. PICK a \in Cells : a = HEAD
    BY <1>1
  <2>3. /\ r \in Links /\ r.next[a] = n /\ r.next[n] = t
        /\ \A x \in Cells : x # a /\ x # n => r.next[x] = l.next[x]
        /\ r.prev[n] = a /\ (t # NULL => r.prev[t] = n)
        /\ \A x \in Cells : x # t /\ x # n => r.prev[x] = l.prev[x]
    <3>1. l \in Links /\ a # n /\ t # n /\ t = l.next[a] /\ r = AddNext(l, a, n)
      BY <1>1, <2>1, <2>2
    <3> QED BY <3>1, NextAdded
  <2> QED BY <1>1, <2>1, <2>2, <2>3
<1>4. /\ q \in [Nodes -> Int] /\ q[n] = List /\ \A x \in Nodes : x # n => q[x] = part[x]
      /\ \A x \in Nodes : q[x] = List <=> x = n
  BY <1>1, <1>2 DEF List
<1>5. NextRight(r, q, pos, n) /\ PrevRight(r, q, pos, n)
  BY <1>1, <1>3, <1>4 DEF NextRight, PrevRight, End
<1>6. ASSUME NEW x \in Nodes, x # n, q[x] # Out PROVE NextRight(r, q, pos, x)
  <2>1. /\ part[x] # Out /\ NextRight(l, part, pos, x) /\ q[x] = part[x] /\ x \in Cells
        /\ r.next[x] = l.next[x]
    BY <1>1, <1>3, <1>4, <1>6 DEF Shape, Cells
  <2>2. CASE l.next[x] \in Nodes
    <3>1. PICK m \in Nodes : m = l.next[x]
      BY <2>2
    <3>2. /\ part[m] = part[x] /\ pos[x] < pos[m] /\ l.prev[m] = x
          /\ \A y \in Nodes : part[y] = part[x] /\ pos[x] < pos[y] => pos[m] <= pos[y]
      BY <2>1, <3>1 DEF NextRight
    <3>3. m # n /\ m # HEAD /\ m \in Cells
      BY <1>1, <2>1, <3>2 DEF Cells
    <3>4. q[m] = q[x] /\ r.prev[m] = x /\ \A y \in Nodes : q[y] = q[x] => part[y] = part[x]
      BY <1>2, <1>3, <1>4, <2>1, <3>2, <3>3
    <3> QED BY <2>1, <3>1, <3>2, <3>4 DEF NextRight
  <2>3. CASE l.next[x] \notin Nodes
    BY <1>2, <1>4, <2>1, <2>3 DEF NextRight
  <2> QED BY <2>2, <2>3
<1>7. ASSUME NEW x \in Nodes, x # n, q[x] # Out PROVE PrevRight(r, q, pos, x)
  <2>1. /\ part[x] # Out /\ PrevRight(l, part, pos, x) /\ q[x] = part[x] /\ x \in Cells
        /\ r.prev[x] = l.prev[x]
    BY <1>1, <1>3, <1>4, <1>7 DEF Shape, Cells
  <2>2. CASE l.prev[x] \in Nodes
    <3>1. PICK m \in Nodes : m = l.prev[x]
      BY <2>2
    <3>2. /\ part[m] = part[x] /\ pos[m] < pos[x] /\ l.next[m] = x
          /\ \A y \in Nodes : part[y] = part[x] /\ pos[y] < pos[x] => pos[y] <= pos[m]
      BY <2>1, <3>1 DEF PrevRight
    <3>3. m # n /\ m # HEAD /\ m \in Cells
      BY <1>1, <2>1, <3>2 DEF Cells
    <3>4. q[m] = q[x] /\ r.next[m] = x /\ \A y \in Nodes : q[y] = q[x] => part[y] = part[x]
      BY <1>2, <1>3, <1>4, <2>1, <3>2, <3>3
    <3> QED BY <2>1, <3>1, <3>2, <3>4 DEF PrevRight
  <2>3. CASE l.prev[x] \notin Nodes
    BY <1>2, <1>4, <2>1, <2>3 DEF PrevRight
  <2> QED BY <2>2, <2>3
<1>8. HeadRight(r, q, pos)
  BY <1>1, <1>3, <1>4 DEF HeadRight
<1>9. \A x, y \in Nodes : q[x] = q[y] /\ q[y] # Out /\ pos[x] = pos[y] => x = y
  BY <1>1, <1>2, <1>4
<1> QED BY <1>1, <1>3, <1>4, <1>5, <1>6, <1>7, <1>8, <1>9 DEF Shape

\* The nodes of a part from place i to place j.
Between(part, pos, p, i, j) == {x \in Nodes : part[x] = p /\ i <= pos[x] /\ pos[x] <= j}

\* They are taken out of their part and become part g.
Moved(part, pos, p, i, j, g) ==
  [x \in Nodes |-> IF x \in Between(part, pos, p, i, j) THEN g ELSE part[x]]

\* The pointers of l after the piece from f to t was cut out: the nodes before
\* and behind it are joined, its ends are NULL.
CutOut(l, r, f, t) ==
  LET b == l.prev[f]
      a == l.next[t]
  IN  /\ r \in Links /\ r.prev[f] = NULL /\ r.next[t] = NULL
      /\ b # NULL => r.next[b] = a
      /\ a # NULL => r.prev[a] = b
      /\ \A x \in Cells : x # b /\ x # t => r.next[x] = l.next[x]
      /\ \A x \in Cells : x # a /\ x # f => r.prev[x] = l.prev[x]

\* Cutting a piece out leaves two lists.
LEMMA PieceMoved ==
  ASSUME NEW l, NEW part, NEW pos, Shape(l, part, pos),
         NEW f \in Nodes, NEW t \in Nodes, NEW p, p = part[f], part[t] = p, p # Out,
         pos[f] <= pos[t], NEW g \in Int, g # Out, g # List, \A x \in Nodes : part[x] # g,
         NEW r, CutOut(l, r, f, t),
         NEW q, q = Moved(part, pos, p, pos[f], pos[t], g)
  PROVE  /\ Shape(r, q, pos) /\ First(q, pos, g, f)
         /\ First(part, pos, p, f) /\ p # List => First(q, pos, p, l.next[t])
<1>1. /\ l \in Links /\ part \in [Nodes -> Int] /\ pos \in [Nodes -> Nat]
      /\ HEAD \notin Nodes /\ NULL \notin Nodes /\ HEAD # NULL
      /\ HEAD \in Cells /\ Nodes \subseteq Cells /\ NULL \notin Cells
      /\ \A x, y \in Nodes : part[x] = part[y] /\ part[y] # Out /\ pos[x] = pos[y] => x = y
  BY EvtcbAssumption DEF Shape, Cells, Targets
<1>2. PICK S \in SUBSET Nodes : S = Between(part, pos, p, pos[f], pos[t])
  BY DEF Between
<1>3. /\ \A x \in Nodes : x \in S <=> part[x] = p /\ pos[f] <= pos[x] /\ pos[x] <= pos[t]
      /\ f \in S /\ t \in S
  BY <1>1, <1>2 DEF Between
<1>4. /\ q \in [Nodes -> Int]
      /\ \A x \in S : q[x] = g
      /\ \A x \in Nodes : x \notin S => q[x] = part[x]
      /\ \A x \in Nodes : q[x] = g => x \in S
  BY <1>1, <1>2 DEF Moved
<1>5. PICK b : b = l.prev[f]
  OBVIOUS
<1>6. PICK a : a = l.next[t]
  OBVIOUS
<1>7. /\ r \in Links /\ r.prev[f] = NULL /\ r.next[t] = NULL
      /\ b # NULL => r.next[b] = a
      /\ a # NULL => r.prev[a] = b
      /\ \A x \in Cells : x # b /\ x # t => r.next[x] = l.next[x]
      /\ \A x \in Cells : x # a /\ x # f => r.prev[x] = l.prev[x]
  BY <1>5, <1>6 DEF CutOut
<1>8. IF b \in Nodes
      THEN /\ part[b] = p /\ pos[b] < pos[f] /\ l.next[b] = f
           /\ \A x \in Nodes : part[x] = p /\ pos[x] < pos[f] => pos[x] <= pos[b]
      ELSE /\ b = End(p)
           /\ \A x \in Nodes : part[x] = p => pos[f] <= pos[x]
  BY <1>5 DEF Shape, PrevRight
<1>9. IF a \in Nodes
      THEN /\ part[a] = p /\ pos[t] < pos[a] /\ l.prev[a] = t
           /\ \A x \in Nodes : part[x] = p /\ pos[t] < pos[x] => pos[a] <= pos[x]
      ELSE /\ a = End(p)
           /\ \A x \in Nodes : part[x] = p => pos[x] <= pos[t]
  BY <1>6 DEF Shape, NextRight
<1>10. b \notin S /\ a \notin S
  BY <1>1, <1>3, <1>8, <1>9
<1>11. ASSUME NEW x \in Nodes, q[x] # Out PROVE NextRight(r, q, pos, x)
  <2>1. part[x] # Out /\ NextRight(l, part, pos, x) /\ x \in Cells
    BY <1>1, <1>3, <1>4, <1>11 DEF Shape
  <2>2. CASE x \in S
    <3>1. part[x] = p /\ pos[f] <= pos[x] /\ pos[x] <= pos[t] /\ q[x] = g
      BY <1>3, <1>4, <2>2
    <3>2. CASE x = t
      <4>1. \A y \in Nodes : q[y] = q[x] => pos[y] <= pos[x]
        BY <1>3, <1>4, <3>1, <3>2
      <4> QED BY <1>1, <1>7, <3>1, <3>2, <4>1 DEF NextRight, End
    <3>3. CASE x # t
      <4>1. pos[x] < pos[t]
        BY <1>1, <3>1, <3>3
      <4>2. l.next[x] \in Nodes
        BY <1>1, <2>1, <3>1, <4>1 DEF NextRight
      <4>3. PICK m \in Nodes : m = l.next[x]
        BY <4>2
      <4>4. /\ part[m] = p /\ pos[x] < pos[m] /\ l.prev[m] = x
            /\ \A y \in Nodes : part[y] = p /\ pos[x] < pos[y] => pos[m] <= pos[y]
        BY <2>1, <3>1, <4>3 DEF NextRight
      <4>5. pos[m] <= pos[t] /\ pos[f] <= pos[m] /\ m # f
        BY <1>1, <3>1, <4>1, <4>4
      <4>6. m \in S /\ m # a /\ m \in Cells
        BY <1>1, <1>3, <1>10, <4>4, <4>5
      <4>7. r.next[x] = m /\ r.prev[m] = x /\ q[m] = q[x]
        BY <1>4, <1>7, <1>10, <2>1, <2>2, <3>1, <3>3, <4>3, <4>4, <4>5, <4>6
      <4>8. \A y \in Nodes : q[y] = q[x] /\ pos[x] < pos[y] => pos[m] <= pos[y]
        BY <1>3, <1>4, <3>1, <4>4
      <4> QED BY <4>4, <4>7, <4>8 DEF NextRight
    <3> QED BY <3>2, <3>3
  <2>3. CASE x = b
    <3>1. part[x] = p /\ q[x] = p /\ r.next[x] = a /\ pos[x] < pos[f]
      BY <1>1, <1>4, <1>7, <1>8, <1>10, <2>3
    <3>2. \A y \in Nodes : q[y] = p => part[y] = p /\ y \notin S
      BY <1>3, <1>4, <3>1
    <3>3. \A y \in Nodes : q[y] = p => pos[y] <= pos[b] \/ pos[t] < pos[y]
      BY <1>1, <1>3, <1>8, <2>3, <3>2
    <3>4. CASE a \in Nodes
      <4>1. q[a] = p /\ pos[x] < pos[a] /\ r.prev[a] = x
        BY <1>1, <1>4, <1>7, <1>9, <1>10, <2>3, <3>1, <3>4
      <4>2. \A y \in Nodes : q[y] = q[x] /\ pos[x] < pos[y] => pos[a] <= pos[y]
        BY <1>1, <1>9, <2>3, <3>1, <3>2, <3>3, <3>4
      <4> QED BY <3>1, <3>4, <4>1, <4>2 DEF NextRight
    <3>5. CASE a \notin Nodes
      <4>1. \A y \in Nodes : q[y] = q[x] => pos[y] <= pos[x]
        BY <1>1, <1>9, <2>3, <3>1, <3>2, <3>3, <3>5
      <4> QED BY <1>9, <3>1, <3>5, <4>1 DEF NextRight
    <3> QED BY <3>4, <3>5
  <2>4. CASE x \notin S /\ x # b
    <3>1. q[x] = part[x] /\ r.next[x] = l.next[x] /\ x # t
      BY <1>3, <1>4, <1>7, <2>1, <2>4
    <3>2. \A y \in Nodes : q[y] = q[x] => part[y] = part[x] /\ y \notin S
      BY <1>4, <3>1
    <3>3. CASE l.next[x] \in Nodes
      <4>1. PICK m \in Nodes : m = l.next[x]
        BY <3>3
      <4>2. /\ part[m] = part[x] /\ pos[x] < pos[m] /\ l.prev[m] = x
            /\ \A y \in Nodes : part[y] = part[x] /\ pos[x] < pos[y] => pos[m] <= pos[y]
        BY <2>1, <4>1 DEF NextRight
      <4>3. m # f /\ m # a /\ m \in Cells
        BY <1>1, <1>5, <1>9, <2>4, <3>1, <4>2
      <4>4. m \notin S
        <5>1. SUFFICES ASSUME m \in S PROVE FALSE
          OBVIOUS
        <5>2. part[x] = p /\ pos[x] < pos[f]
          BY <1>1, <1>3, <2>4, <4>2, <5>1
        <5>3. pos[m] <= pos[f] /\ pos[f] <= pos[m]
          BY <1>3, <4>2, <5>1, <5>2
        <5> QED BY <1>1, <1>3, <4>3, <5>1, <5>3
      <4>5. q[m] = q[x] /\ r.prev[m] = x
        BY <1>4, <1>7, <3>1, <4>2, <4>3, <4>4
      <4> QED BY <3>1, <3>2, <4>1, <4>2, <4>5 DEF NextRight
    <3>4. CASE l.next[x] \notin Nodes
      BY <2>1, <3>1, <3>2, <3>4 DEF NextRight
    <3> QED BY <3>3, <3>4
  <2> QED BY <2>2, <2>3, <2>4
<1>12. ASSUME NEW x \in Nodes, q[x] # Out PROVE PrevRight(r, q, pos, x)
  <2>1. part[x] # Out /\ PrevRight(l, part, pos, x) /\ x \in Cells
    BY <1>1, <1>3, <1>4, <1>12 DEF Shape
  <2>2. CASE x \in S
    <3>1. part[x] = p /\ pos[f] <= pos[x] /\ pos[x] <= pos[t] /\ q[x] = g
      BY <1>3, <1>4, <2>2
    <3>2. CASE x = f
      <4>1. \A y \in Nodes : q[y] = q[x] => pos[x] <= pos[y]
        BY <1>3, <1>4, <3>1, <3>2
      <4> QED BY <1>1, <1>7, <3>1, <3>2, <4>1 DEF PrevRight, End
    <3>3. CASE x # f
      <4>1. pos[f] < pos[x]
        BY <1>1, <3>1, <3>3
      <4>2. l.prev[x] \in Nodes
        BY <1>1, <2>1, <3>1, <4>1 DEF PrevRight
      <4>3. PICK m \in Nodes : m = l.prev[x]
        BY <4>2
      <4>4. /\ part[m] = p /\ pos[m] < pos[x] /\ l.next[m] = x
            /\ \A y \in Nodes : part[y] = p /\ pos[y] < pos[x] => pos[y] <= pos[m]
        BY <2>1, <3>1, <4>3 DEF PrevRight
      <4>5. pos[m] <= pos[t] /\ pos[f] <= pos[m] /\ m # t
        BY <1>1, <3>1, <4>1, <4>4
      <4>6. m \in S /\ m # b /\ m \in Cells
        BY <1>1, <1>3, <1>10, <4>4, <4>5
      <4>7. r.prev[x] = m /\ r.next[m] = x /\ q[m] = q[x]
        BY <1>4, <1>7, <1>10, <2>1, <2>2, <3>1, <3>3, <4>3, <4>4, <4>5, <4>6
      <4>8. \A y \in Nodes : q[y] = q[x] /\ pos[y] < pos[x] => pos[y] <= pos[m]
        BY <1>3, <1>4, <3>1, <4>4
      <4> QED BY <4>4, <4>7, <4>8 DEF PrevRight
    <3> QED BY <3>2, <3>3
  <2>3. CASE x = a
    <3>1. part[x] = p /\ q[x] = p /\ r.prev[x] = b /\ pos[t] < pos[x]
      BY <1>1, <1>4, <1>7, <1>9, <1>10, <2>3
    <3>2. \A y \in Nodes : q[y] = p => part[y] = p /\ y \notin S
      BY <1>3, <1>4, <3>1
    <3>3. \A y \in Nodes : q[y] = p => pos[a] <= pos[y] \/ pos[y] < pos[f]
      BY <1>1, <1>3, <1>9, <2>3, <3>2
    <3>4. CASE b \in Nodes
      <4>1. q[b] = p /\ pos[b] < pos[x] /\ r.next[b] = x
        BY <1>1, <1>4, <1>7, <1>8, <1>10, <2>3, <3>1, <3>4
      <4>2. \A y \in Nodes : q[y] = q[x] /\ pos[y] < pos[x] => pos[y] <= pos[b]
        BY <1>1, <1>8, <2>3, <3>1, <3>2, <3>3, <3>4
      <4> QED BY <3>1, <3>4, <4>1, <4>2 DEF PrevRight
    <3>5. CASE b \notin Nodes
      <4>1. \A y \in Nodes : q[y] = q[x] => pos[x] <= pos[y]
        BY <1>1, <1>8, <2>3, <3>1, <3>2, <3>3, <3>5
      <4> QED BY <1>8, <3>1, <3>5, <4>1 DEF PrevRight
    <3> QED BY <3>4, <3>5
  <2>4. CASE x \notin S /\ x # a
    <3>1. q[x] = part[x] /\ r.prev[x] = l.prev[x] /\ x # f
      BY <1>3, <1>4, <1>7, <2>1, <2>4
    <3>2. \A y \in Nodes : q[y] = q[x] => part[y] = part[x] /\ y \notin S
      BY <1>4, <3>1
    <3>3. CASE l.prev[x] \in Nodes
      <4>1. PICK m \in Nodes : m = l.prev[x]
        BY <3>3
      <4>2. /\ part[m] = part[x] /\ pos[m] < pos[x] /\ l.next[m] = x
            /\ \A y \in Nodes : part[y] = part[x] /\ pos[y] < pos[x] => pos[y] <= pos[m]
        BY <2>1, <4>1 DEF PrevRight
      <4>3. m # t /\ m # b /\ m \in Cells
        BY <1>1, <1>6, <1>8, <2>4, <3>1, <4>2
      <4>4. m \notin S
        <5>1. SUFFICES ASSUME m \in S PROVE FALSE
          OBVIOUS
        <5>2. part[x] = p /\ pos[t] < pos[x]
          BY <1>1, <1>3, <2>4, <4>2, <5>1
        <5>3. pos[m] <= pos[t] /\ pos[t] <= pos[m]
          BY <1>3, <4>2, <5>1, <5>2
        <5> QED BY <1>1, <1>3, <4>3, <5>1, <5>3
      <4>5. q[m] = q[x] /\ r.next[m] = x
        BY <1>4, <1>7, <3>1, <4>2, <4>3, <4>4
      <4> QED BY <3>1, <3>2, <4>1, <4>2, <4>5 DEF PrevRight
    <3>4. CASE l.prev[x] \notin Nodes
      BY <2>1, <3>1, <3>2, <3>4 DEF PrevRight
    <3> QED BY <3>3, <3>4
  <2> QED BY <2>2, <2>3, <2>4
<1>13. HeadRight(r, q, pos)
  <2>1. HeadRight(l, part, pos) /\ HEAD # t /\ HEAD # f
    BY <1>1 DEF Shape
  <2>2. \A x \in Nodes : q[x] = List <=> part[x] = List /\ x \notin S
    BY <1>4
  <2>3. IF r.next[HEAD] \in Nodes
        THEN /\ q[r.next[HEAD]] = List /\ r.prev[r.next[HEAD]] = HEAD
             /\ \A x \in Nodes : q[x] = List => pos[r.next[HEAD]] <= pos[x]
        ELSE r.next[HEAD] = HEAD /\ \A x \in Nodes : q[x] # List
    <3>1. CASE b = HEAD
      <4>1. p = List /\ r.next[HEAD] = a /\ \A x \in Nodes : part[x] = p => pos[f] <= pos[x]
        BY <1>1, <1>7, <1>8, <3>1 DEF End
      <4>2. CASE a \in Nodes
        BY <1>1, <1>3, <1>7, <1>9, <1>10, <2>2, <3>1, <4>1, <4>2
      <4>3. CASE a \notin Nodes
        BY <1>1, <1>3, <1>9, <2>2, <4>1, <4>3 DEF End
      <4> QED BY <4>2, <4>3
    <3>2. CASE b # HEAD
      <4>1. r.next[HEAD] = l.next[HEAD]
        BY <1>1, <1>7, <2>1, <3>2
      <4>2. CASE l.next[HEAD] \in Nodes
        <5>1. PICK m \in Nodes : m = l.next[HEAD]
          BY <4>2
        <5>2. /\ part[m] = List /\ l.prev[m] = HEAD
              /\ \A x \in Nodes : part[x] = List => pos[m] <= pos[x]
          BY <2>1, <5>1 DEF HeadRight
        <5>3. m # f /\ m # a /\ m \in Cells
          BY <1>1, <1>5, <1>9, <2>1, <3>2, <5>2
        <5>4. m \notin S
          BY <1>1, <1>3, <5>2, <5>3
        <5> QED BY <1>7, <2>2, <4>1, <5>1, <5>2, <5>3, <5>4
      <4>3. CASE l.next[HEAD] \notin Nodes
        BY <2>1, <2>2, <4>1, <4>3 DEF HeadRight
      <4> QED BY <4>2, <4>3
    <3> QED BY <3>1, <3>2
  <2>4. IF r.prev[HEAD] \in Nodes
        THEN /\ q[r.prev[HEAD]] = List /\ r.next[r.prev[HEAD]] = HEAD
             /\ \A x \in Nodes : q[x] = List => pos[x] <= pos[r.prev[HEAD]]
        ELSE r.prev[HEAD] = HEAD /\ \A x \in Nodes : q[x] # List
    <3>1. CASE a = HEAD
      <4>1. p = List /\ r.prev[HEAD] = b /\ \A x \in Nodes : part[x] = p => pos[x] <= pos[t]
        BY <1>1, <1>7, <1>9, <3>1 DEF End
      <4>2. CASE b \in Nodes
        BY <1>1, <1>3, <1>7, <1>8, <1>10, <2>2, <3>1, <4>1, <4>2
      <4>3. CASE b \notin Nodes
        BY <1>1, <1>3, <1>8, <2>2, <4>1, <4>3 DEF End
      <4> QED BY <4>2, <4>3
    <3>2. CASE a # HEAD
      <4>1. r.prev[HEAD] = l.prev[HEAD]
        BY <1>1, <1>7, <2>1, <3>2
      <4>2. CASE l.prev[HEAD] \in Nodes
        <5>1. PICK m \in Nodes : m = l.prev[HEAD]
          BY <4>2
        <5>2. /\ part[m] = List /\ l.next[m] = HEAD
              /\ \A x \in Nodes : part[x] = List => pos[x] <= pos[m]
          BY <2>1, <5>1 DEF HeadRight
        <5>3. m # t /\ m # b /\ m \in Cells
          BY <1>1, <1>6, <1>8, <2>1, <3>2, <5>2
        <5>4. m \notin S
          BY <1>1, <1>3, <5>2, <5>3
        <5> QED BY <1>7, <2>2, <4>1, <5>1, <5>2, <5>3, <5>4
      <4>3. CASE l.prev[HEAD] \notin Nodes
        BY <2>1, <2>2, <4>1, <4>3 DEF HeadRight
      <4> QED BY <4>2, <4>3
    <3> QED BY <3>1, <3>2
  <2> QED BY <2>3, <2>4 DEF HeadRight
<1>14. \A x, y \in Nodes : q[x] = q[y] /\ q[y] # Out /\ pos[x] = pos[y] => x = y
  BY <1>1, <1>3, <1>4
<1>15. First(q, pos, g, f)
  BY <1>1, <1>3, <1>4 DEF First
<1>16. ASSUME First(part, pos, p, f), p # List PROVE First(q, pos, p, a)
  <2>1. \A x \in Nodes : q[x] = p => part[x] = p /\ x \notin S
    BY <1>3, <1>4
  <2>2. \A x \in Nodes : q[x] = p => pos[t] < pos[x]
    BY <1>1, <1>3, <1>16, <2>1 DEF First
  <2>3. CASE a \in Nodes
    BY <1>1, <1>4, <1>9, <1>10, <2>1, <2>2, <2>3 DEF First
  <2>4. CASE a \notin Nodes
    <3>1. \A x \in Nodes : q[x] # p
      BY <1>1, <1>9, <2>1, <2>2, <2>4
    <3> QED BY <1>9, <1>16, <2>4, <3>1 DEF First, End
  <2> QED BY <2>3, <2>4
<1>17. Shape(r, q, pos)
  BY <1>1, <1>4, <1>7, <1>11, <1>12, <1>13, <1>14 DEF Shape
<1> QED BY <1>6, <1>15, <1>16, <1>17

\* run() detaches the whole list.
LEMMA ListCut ==
  ASSUME NEW l, NEW part, NEW pos, Shape(l, part, pos),
         NEW f \in Nodes, f = l.next[HEAD], NEW t, t = l.prev[HEAD], NEW r,
         r = SetNext(SetPrev(SetNext(SetPrev(l, HEAD, HEAD), HEAD, HEAD), f, NULL), t, NULL)
  PROVE  /\ CutOut(l, r, f, t) /\ t \in Nodes /\ part[f] = List /\ part[t] = List
         /\ \A x \in Nodes : part[x] = List => pos[f] <= pos[x] /\ pos[x] <= pos[t]
<1>1. /\ l \in Links /\ HEAD \notin Nodes /\ NULL \notin Nodes /\ HEAD # NULL
      /\ HEAD \in Cells /\ Nodes \subseteq Cells
      /\ HEAD \in Targets /\ NULL \in Targets /\ HeadRight(l, part, pos)
  BY EvtcbAssumption DEF Shape, Cells, Targets
<1>2. /\ part[f] = List /\ l.prev[f] = HEAD /\ t \in Nodes /\ part[t] = List /\ l.next[t] = HEAD
      /\ \A x \in Nodes : part[x] = List => pos[f] <= pos[x] /\ pos[x] <= pos[t]
  BY <1>1 DEF HeadRight
<1>3. PICK a : PrevSet(a, l, HEAD, HEAD)
  BY DEF PrevSet
<1>4. a \in Links /\ a.next = l.next /\ a.prev[HEAD] = HEAD /\ Kept(l.prev, a.prev, HEAD)
  BY <1>1, <1>3, PrevStored
<1>5. PICK b : NextSet(b, a, HEAD, HEAD)
  BY DEF NextSet
<1>6. b \in Links /\ b.prev = a.prev /\ b.next[HEAD] = HEAD /\ Kept(a.next, b.next, HEAD)
  BY <1>1, <1>4, <1>5, NextStored
<1>7. PICK c : PrevSet(c, b, f, NULL)
  BY DEF PrevSet
<1>8. c \in Links /\ c.next = b.next /\ c.prev[f] = NULL /\ Kept(b.prev, c.prev, f)
  BY <1>1, <1>6, <1>7, PrevStored
<1>9. NextSet(r, c, t, NULL)
  BY <1>3, <1>5, <1>7 DEF NextSet, PrevSet
<1>10. r \in Links /\ r.prev = c.prev /\ r.next[t] = NULL /\ Kept(c.next, r.next, t)
  BY <1>1, <1>2, <1>8, <1>9, NextStored
<1>11. CutOut(l, r, f, t)
  BY <1>1, <1>2, <1>4, <1>6, <1>8, <1>10 DEF CutOut, Kept
<1> QED BY <1>2, <1>11

\* The first group is cut off from the rest.
LEMMA GroupCut ==
  ASSUME NEW l \in Links, NEW f \in Nodes, NEW t \in Nodes, l.prev[f] = NULL,
         NEW a \in Nodes \cup {NULL}, a = l.next[t], a # f, NEW r,
         r = SetNext(IF a = NULL THEN l ELSE SetPrev(l, a, NULL), t, NULL)
  PROVE  CutOut(l, r, f, t)
<1>1. /\ HEAD \notin Nodes /\ NULL \notin Nodes /\ Nodes \subseteq Cells /\ NULL \in Targets
  BY EvtcbAssumption DEF Cells, Targets
<1>2. PICK c : c = IF a = NULL THEN l ELSE SetPrev(l, a, NULL)
  OBVIOUS
<1>3. /\ c \in Links /\ c.next = l.next /\ (a # NULL => c.prev[a] = NULL)
      /\ \A x \in Cells : x # a => c.prev[x] = l.prev[x]
  <2>1. CASE a = NULL
    BY <1>2, <2>1
  <2>2. CASE a # NULL
    <3>1. PrevSet(c, l, a, NULL) /\ a \in Cells
      BY <1>1, <1>2, <2>2 DEF PrevSet
    <3>2. c \in Links /\ c.next = l.next /\ c.prev[a] = NULL /\ Kept(l.prev, c.prev, a)
      BY <1>1, <3>1, PrevStored
    <3> QED BY <3>2 DEF Kept
  <2> QED BY <2>1, <2>2
<1>4. NextSet(r, c, t, NULL)
  BY <1>2 DEF NextSet
<1>5. r \in Links /\ r.prev = c.prev /\ r.next[t] = NULL /\ Kept(c.next, r.next, t)
  BY <1>1, <1>3, <1>4, NextStored
<1> QED BY <1>1, <1>3, <1>5 DEF CutOut, Kept

\* extractSession: a group is cut out of the list.
LEMMA SessionCut ==
  ASSUME NEW l \in Links, NEW f \in Nodes, NEW t \in Nodes,
         NEW b \in Cells, b = l.prev[f], b # t, NEW a \in Cells, a = l.next[t], a # f,
         NEW r,
         r = SetNext(SetPrev(SetNext(SetPrev(l, a, b), b, a), f, NULL), t, NULL)
  PROVE  CutOut(l, r, f, t)
<1>1. /\ Nodes \subseteq Cells /\ NULL \in Targets /\ a \in Targets /\ b \in Targets
  BY EvtcbAssumption DEF Cells, Targets
<1>3. PICK c : PrevSet(c, l, a, b)
  BY DEF PrevSet
<1>4. c \in Links /\ c.next = l.next /\ c.prev[a] = b /\ Kept(l.prev, c.prev, a)
  BY <1>1, <1>3, PrevStored
<1>5. PICK d : NextSet(d, c, b, a)
  BY DEF NextSet
<1>6. d \in Links /\ d.prev = c.prev /\ d.next[b] = a /\ Kept(c.next, d.next, b)
  BY <1>1, <1>4, <1>5, NextStored
<1>7. PICK e : PrevSet(e, d, f, NULL)
  BY DEF PrevSet
<1>8. e \in Links /\ e.next = d.next /\ e.prev[f] = NULL /\ Kept(d.prev, e.prev, f)
  BY <1>1, <1>6, <1>7, PrevStored
<1>9. NextSet(r, e, t, NULL)
  BY <1>3, <1>5, <1>7 DEF NextSet, PrevSet
<1>10. r \in Links /\ r.prev = e.prev /\ r.next[t] = NULL /\ Kept(e.next, r.next, t)
  BY <1>1, <1>8, <1>9, NextStored
<1> QED BY <1>1, <1>4, <1>6, <1>8, <1>10 DEF CutOut, Kept

\* The memset of a node that is in no part.
LEMMA Cleared ==
  ASSUME NEW l, NEW part, NEW pos, Shape(l, part, pos), NEW n \in Nodes, part[n] = Out,
         NEW r, r = SetPrev(SetNext(l, n, NULL), n, NULL)
  PROVE  Shape(r, part, pos)
<1>1. /\ l \in Links /\ HEAD \notin Nodes /\ HEAD \in Cells /\ Nodes \subseteq Cells /\ NULL \in Targets
  BY EvtcbAssumption DEF Shape, Cells, Targets
<1>2. PICK a : NextSet(a, l, n, NULL)
  BY DEF NextSet
<1>3. a \in Links /\ a.prev = l.prev /\ Kept(l.next, a.next, n)
  BY <1>1, <1>2, NextStored
<1>4. PrevSet(r, a, n, NULL)
  BY <1>2 DEF NextSet, PrevSet
<1>5. r \in Links /\ r.next = a.next /\ Kept(a.prev, r.prev, n)
  BY <1>1, <1>3, <1>4, PrevStored
<1>6. /\ \A x \in Nodes : x # n => r.next[x] = l.next[x] /\ r.prev[x] = l.prev[x]
      /\ r.next[HEAD] = l.next[HEAD] /\ r.prev[HEAD] = l.prev[HEAD]
  BY <1>1, <1>3, <1>5 DEF Kept
<1>7. ASSUME NEW x \in Nodes, part[x] # Out PROVE NextRight(r, part, pos, x)
  BY <1>6, <1>7 DEF Shape, NextRight
<1>8. ASSUME NEW x \in Nodes, part[x] # Out PROVE PrevRight(r, part, pos, x)
  BY <1>6, <1>8 DEF Shape, PrevRight
<1>9. HeadRight(r, part, pos)
  BY <1>6 DEF Shape, HeadRight, Out, List
<1> QED BY <1>5, <1>7, <1>8, <1>9 DEF Shape

(***************************************************************************)
(* The walks along the pointers.                                           *)
(***************************************************************************)
\* Some node of a set has the least value.
LEMMA LeastNode ==
  ASSUME NEW S \in SUBSET Nodes, S # {}, NEW f \in [Nodes -> Nat]
  PROVE  \E m \in S : \A x \in S : f[m] <= f[x]
<1> DEFINE T == {f[x] : x \in S}
<1>1. T \subseteq Nat /\ T # {}
  OBVIOUS
<1>2. PICK i \in T : \A j \in T : ~(<<j, i>> \in OpToRel(<, Nat))
  <2> HIDE DEF T
  <2> QED BY <1>1, NatLessThanWellFounded, WFMin
<1>3. \A j \in T : ~(j < i)
  <2>1. ASSUME NEW j \in T, j < i PROVE FALSE
    <3>1. <<j, i>> \in Nat \X Nat /\ <<j, i>>[1] < <<j, i>>[2]
      BY <1>1, <2>1
    <3>2. <<j, i>> \in OpToRel(<, Nat)
      BY <3>1 DEF OpToRel
    <3> QED BY <1>2, <3>2
  <2> QED BY <2>1
<1>4. PICK m \in S : f[m] = i
  OBVIOUS
<1>5. \A x \in S : ~(f[x] < f[m])
  BY <1>3, <1>4
<1> QED BY <1>4, <1>5

\* Some node of a set is the last of it.
LEMMA LatestNode ==
  ASSUME NEW S \in SUBSET Nodes, S # {}, NEW f \in [Nodes -> Nat],
         NEW t \in Nat, \A x \in S : f[x] <= t
  PROVE  \E m \in S : \A x \in S : f[x] <= f[m]
<1> DEFINE g == [x \in Nodes |-> IF f[x] <= t THEN t - f[x] ELSE 0]
<1>1. g \in [Nodes -> Nat] /\ \A x \in S : g[x] = t - f[x]
  OBVIOUS
<1>2. PICK m \in S : \A x \in S : g[m] <= g[x]
  <2> HIDE DEF g
  <2> QED BY <1>1, LeastNode
<1>3. \A x \in S : t - f[m] <= t - f[x]
  BY <1>1, <1>2
<1> QED BY <1>3

\* What a walk meets is closed under its pointer, and nothing else is met.
LEMMA WalkClosed ==
  ASSUME NEW nx, NEW n, NEW S, NEW T \in SUBSET S, n \in S => n \in T,
         \A x \in T : nx[x] \in S => nx[x] \in T
  PROVE  Walk(nx, n, S) \subseteq T
BY DEF Walk

\* A walk from nowhere meets nothing.
LEMMA WalkNowhere ==
  ASSUME NEW nx, NEW n, NEW S, n \notin S
  PROVE  Walk(nx, n, S) = {}
<1>1. SUFFICES ASSUME NEW m \in Walk(nx, n, S) PROVE FALSE
  OBVIOUS
<1>2. PICK T \in SUBSET S : T = {}
  OBVIOUS
<1>3. (n \in S => n \in T) /\ (\A x \in T : nx[x] \in S => nx[x] \in T)
  BY <1>2
<1>4. m \in T
  BY <1>3 DEF Walk
<1> QED BY <1>2, <1>4

\* A walk along m_pNext meets the nodes behind n in its part, when all of them
\* are in S.
LEMMA WalkOn ==
  ASSUME NEW l, NEW part, NEW pos, Shape(l, part, pos), NEW S \in SUBSET Nodes,
         NEW n \in S, part[n] # Out,
         \A x \in Nodes : part[x] = part[n] /\ pos[n] <= pos[x] => x \in S
  PROVE  Walk(l.next, n, S) = {x \in Nodes : part[x] = part[n] /\ pos[n] <= pos[x]}
<1> DEFINE W == {x \in Nodes : part[x] = part[n] /\ pos[n] <= pos[x]}
<1>1. pos \in [Nodes -> Nat]
  BY DEF Shape
<1>2. Walk(l.next, n, S) \subseteq W
  <2>1. W \in SUBSET S /\ n \in W
    BY <1>1
  <2>2. ASSUME NEW x \in W, l.next[x] \in S PROVE l.next[x] \in W
    <3>1. NextRight(l, part, pos, x) /\ l.next[x] \in Nodes
      BY <2>2 DEF Shape
    <3>2. part[l.next[x]] = part[x] /\ pos[x] < pos[l.next[x]]
      BY <3>1 DEF NextRight
    <3> QED BY <1>1, <3>1, <3>2
  <2> HIDE DEF W
  <2> QED BY <2>1, <2>2, WalkClosed
<1>3. ASSUME NEW m \in W, NEW T \in SUBSET S, n \in T,
             \A x \in T : l.next[x] \in S => l.next[x] \in T
      PROVE  m \in T
  <2>1. SUFFICES ASSUME W \ T # {} PROVE FALSE
    OBVIOUS
  <2>2. PICK y \in W \ T : \A x \in W \ T : pos[y] <= pos[x]
    <3>1. W \ T \in SUBSET Nodes
      OBVIOUS
    <3> HIDE DEF W
    <3> QED BY <1>1, <2>1, <3>1, LeastNode
  <2>3. y # n /\ y \in Nodes /\ part[y] = part[n] /\ pos[n] <= pos[y]
    BY <1>3, <2>2
  <2>4. PrevRight(l, part, pos, y) /\ pos[n] < pos[y]
    BY <1>1, <2>3 DEF Shape
  <2>5. PICK z : z = l.prev[y]
    OBVIOUS
  <2>6. z \in Nodes
    BY <1>1, <2>3, <2>4, <2>5 DEF PrevRight
  <2>7. part[z] = part[y] /\ pos[z] < pos[y] /\ l.next[z] = y /\ pos[n] <= pos[z]
    BY <2>3, <2>4, <2>5, <2>6 DEF PrevRight
  <2>8. z \in W /\ z \in T
    BY <1>1, <2>2, <2>3, <2>6, <2>7
  <2>9. y \in S
    BY <2>3
  <2> QED BY <1>3, <2>2, <2>7, <2>8, <2>9
<1>4. W \subseteq Walk(l.next, n, S)
  BY <1>3 DEF Walk
<1> QED BY <1>2, <1>4

\* A walk along m_pPrev meets the nodes of S before t in its part, when they
\* stand next to each other.
LEMMA WalkBack ==
  ASSUME NEW l, NEW part, NEW pos, Shape(l, part, pos), NEW S \in SUBSET Nodes,
         NEW t \in S, part[t] # Out,
         \A x \in S : part[x] = part[t] => pos[x] <= pos[t] /\
            \A y \in Nodes : part[y] = part[t] /\ pos[x] <= pos[y] /\ pos[y] <= pos[t] => y \in S
  PROVE  Walk(l.prev, t, S) = {x \in S : part[x] = part[t]}
<1> DEFINE W == {x \in S : part[x] = part[t]}
<1>1. pos \in [Nodes -> Nat]
  BY DEF Shape
<1>2. Walk(l.prev, t, S) \subseteq W
  <2>1. W \in SUBSET S /\ t \in W
    OBVIOUS
  <2>2. ASSUME NEW x \in W, l.prev[x] \in S PROVE l.prev[x] \in W
    <3>1. PrevRight(l, part, pos, x) /\ l.prev[x] \in Nodes
      BY <2>2 DEF Shape
    <3>2. part[l.prev[x]] = part[x]
      BY <3>1 DEF PrevRight
    <3> QED BY <2>2, <3>2
  <2> HIDE DEF W
  <2> QED BY <2>1, <2>2, WalkClosed
<1>3. ASSUME NEW m \in W, NEW T \in SUBSET S, t \in T,
             \A x \in T : l.prev[x] \in S => l.prev[x] \in T
      PROVE  m \in T
  <2>1. SUFFICES ASSUME W \ T # {} PROVE FALSE
    OBVIOUS
  <2>2. PICK y \in W \ T : \A x \in W \ T : pos[x] <= pos[y]
    <3>1. W \ T \in SUBSET Nodes /\ pos[t] \in Nat /\ \A x \in W \ T : pos[x] <= pos[t]
      BY <1>1
    <3> HIDE DEF W
    <3> QED BY <1>1, <2>1, <3>1, LatestNode
  <2>3. y # t /\ y \in Nodes /\ part[y] = part[t] /\ pos[y] <= pos[t] /\ y \in S
    BY <1>3, <2>2
  <2>4. NextRight(l, part, pos, y) /\ pos[y] < pos[t]
    BY <1>1, <2>3 DEF Shape
  <2>5. PICK z : z = l.next[y]
    OBVIOUS
  <2>6. z \in Nodes
    BY <1>1, <2>3, <2>4, <2>5 DEF NextRight
  <2>7. part[z] = part[t] /\ pos[y] < pos[z] /\ l.prev[z] = y /\ pos[z] <= pos[t]
    BY <2>3, <2>4, <2>5, <2>6 DEF NextRight
  <2>8. z \in S
    BY <1>1, <2>3, <2>6, <2>7
  <2>9. z \in T
    BY <1>1, <2>2, <2>3, <2>6, <2>7, <2>8
  <2> QED BY <1>3, <2>2, <2>3, <2>7, <2>9
<1>4. W \subseteq Walk(l.prev, t, S)
  BY <1>3 DEF Walk
<1> QED BY <1>2, <1>4

(***************************************************************************)
(* The steps of the event loop.                                            *)
(***************************************************************************)
\* What a frame of a stack holds.
LEMMA FrameTypes ==
  ASSUME NEW k \in Seq(Frames), NEW i \in 1 .. Len(k)
  PROVE  /\ k[i] \in Frames
         /\ k[i].of \in Sessions \cup {NULL} /\ k[i].cur \in Nodes \cup {NULL}
         /\ k[i].next \in Nodes \cup {NULL} /\ k[i].rest \in Nodes \cup {NULL}
<1>1. k[i] \in Frames
  BY LenProperties
<1> QED BY <1>1 DEF Frames

\* k with another top frame.
Topped(j, k, d) ==
  /\ j \in Seq(Frames) /\ Len(j) = d /\ Len(k) = d /\ d > 0
  /\ \A i \in 1 .. d : i # d => j[i] = k[i]
  /\ j[d].of = k[d].of /\ j[d].rest = k[d].rest

\* n, first of what call d has in hand, starts: what RunNode does.
Started(l, k, se, rq, br, d, n, r, j, rq2, br2) ==
  /\ k[d].cur = NULL /\ k[d].next = n
  /\ Topped(j, k, d) /\ j[d].cur = n /\ j[d].next = l.next[n]
  /\ r = RemoveNode(l, n)
  /\ rq2 = (IF se[n] = NULL THEN rq ELSE [rq EXCEPT ![se[n]] = l.next[n]])
  /\ br2 = [s \in Sessions |-> IF s = se[n] /\ br[s] = n THEN NULL ELSE br[s]]

\* One turn of runNodes: the first node of the group in hand starts.
LEMMA NodeStarts ==
  ASSUME NEW l, NEW k, NEW se, NEW tl, NEW rq, NEW po, NEW he, NEW br, NEW part, NEW pos,
         Sound(l, k, se, tl, rq, po, he, br, part, pos),
         NEW d \in Nat, NEW n \in Nodes, NEW r, NEW j, NEW rq2, NEW br2,
         Started(l, k, se, rq, br, d, n, r, j, rq2, br2),
         NEW q, q = [part EXCEPT ![n] = Out]
  PROVE  Sound(r, j, se, tl, rq2, po, he, br2, q, pos)
<1> PICK m : m = l.next[n]
  OBVIOUS
<1> /\ k[d].cur = NULL /\ k[d].next = n /\ Topped(j, k, d) /\ j[d].cur = n /\ j[d].next = m
    /\ r = RemoveNode(l, n)
    /\ rq2 = (IF se[n] = NULL THEN rq ELSE [rq EXCEPT ![se[n]] = m])
    /\ br2 = [s \in Sessions |-> IF s = se[n] /\ br[s] = n THEN NULL ELSE br[s]]
  BY DEF Started
<1>1. /\ part \in [Nodes -> Int] /\ pos \in [Nodes -> Nat] /\ NULL \notin Nodes /\ NULL \notin Sessions
      /\ se \in [Nodes -> Sessions \cup {NULL}]
      /\ Framed(k, part, pos) /\ Shape(l, part, pos)
      /\ Tailed(se, tl, part, pos) /\ Grouped(se, rq, k, part)
      /\ Placed(po, he, k, part) /\ Referred(br)
  BY EvtcbAssumption DEF Sound, Shape, Tailed
<1>2. /\ j \in Seq(Frames) /\ Len(j) = d /\ Len(k) = d /\ d > 0 /\ d \in 1 .. d
      /\ \A i \in 1 .. d : i # d => j[i] = k[i]
      /\ \A i \in 1 .. d : j[i].of = k[i].of /\ j[i].rest = k[i].rest
      /\ j[d].cur = n /\ j[d].next = m
  BY DEF Topped
<1>3. First(part, pos, d, n)
  BY <1>1, <1>2 DEF Framed
<1>4. part[n] = d /\ d \notin {Out, List}
  BY <1>1, <1>2, <1>3 DEF First, Out, List
<1>5. Shape(r, q, pos) /\ First(q, pos, d, m) /\ m \in Nodes \cup {NULL}
  <2>1. First(part, pos, part[n], n) /\ part[n] \notin {Out, List}
    BY <1>3, <1>4
  <2>2. /\ Shape(RemoveNode(l, n), [part EXCEPT ![n] = Out], pos)
        /\ First([part EXCEPT ![n] = Out], pos, part[n], l.next[n])
        /\ l.next[n] \in Nodes \cup {NULL}
    BY <1>1, <2>1, FirstTaken
  <2> QED BY <1>4, <2>2
<1>6. /\ q \in [Nodes -> Int] /\ q[n] = Out
      /\ \A x \in Nodes : x # n => q[x] = part[x]
      /\ \A x \in Nodes : q[x] # Out => x # n /\ q[x] = part[x]
  BY <1>1 DEF Out
<1>7. Framed(j, q, pos)
  <2>1. ASSUME NEW i \in 1 .. d PROVE First(q, pos, i, j[i].next)
    <3>1. CASE i = d
      BY <1>2, <1>5, <3>1
    <3>2. CASE i # d
      <4>1. First(part, pos, i, k[i].next) /\ j[i] = k[i]
        BY <1>1, <1>2, <3>2 DEF Framed
      <4>2. \A x \in Nodes : q[x] = i <=> part[x] = i
        BY <1>2, <1>4, <1>6, <3>2 DEF Out
      <4> QED BY <4>1, <4>2 DEF First
    <3> QED BY <3>1, <3>2
  <2>2. \A x \in Nodes : q[x] = Rest <=> part[x] = Rest
    BY <1>2, <1>4, <1>6 DEF Out, Rest
  <2>3. IF d = 1 THEN First(q, pos, Rest, j[1].rest) ELSE \A x \in Nodes : q[x] # Rest
    <3>1. IF d = 1 THEN First(part, pos, Rest, k[1].rest) ELSE \A x \in Nodes : part[x] # Rest
      BY <1>1, <1>2 DEF Framed
    <3> QED BY <1>2, <2>2, <3>1 DEF First
  <2>4. \A x \in Nodes : q[x] \in {Out, Rest, List} \cup 1 .. d
    BY <1>1, <1>2, <1>6 DEF Framed
  <2>5. /\ \A i \in 1 .. d : j[i].of = NULL => i = 1 /\ d = 1
        /\ \A i, h \in 1 .. d : j[i].of = j[h].of => i = h
        /\ \A i \in 1 .. d : j[i].of # NULL => j[i].rest = NULL
    BY <1>1, <1>2 DEF Framed
  <2> QED BY <1>2, <2>1, <2>3, <2>4, <2>5 DEF Framed
<1>8. Tailed(se, tl, q, pos)
  <2>1. \A x \in Nodes : q[x] \in {List, Rest} <=> part[x] \in {List, Rest}
    BY <1>2, <1>4, <1>6 DEF Out, List, Rest
  <2>2. \A x \in Nodes : part[x] \in {List, Rest} => q[x] = part[x]
    BY <1>2, <1>4, <1>6 DEF Out, List, Rest
  <2>3. tl \in [Sessions -> Nodes \cup {NULL}]
    BY <1>1 DEF Tailed
  <2>4. \A s \in Sessions : tl[s] # NULL => q[tl[s]] \in {List, Rest} /\ se[tl[s]] = s
    BY <1>1, <2>1, <2>3 DEF Tailed
  <2>5. ASSUME NEW x \in Nodes, q[x] \in {List, Rest}, se[x] # NULL
        PROVE  /\ tl[se[x]] # NULL /\ q[tl[se[x]]] = q[x] /\ pos[x] <= pos[tl[se[x]]]
               /\ \A y \in Nodes : q[y] = q[x] /\ pos[x] <= pos[y] /\ pos[y] <= pos[tl[se[x]]]
                    => se[y] = se[x]
    <3>1. /\ tl[se[x]] # NULL /\ part[tl[se[x]]] = part[x] /\ pos[x] <= pos[tl[se[x]]]
          /\ \A y \in Nodes : part[y] = part[x] /\ pos[x] <= pos[y] /\ pos[y] <= pos[tl[se[x]]]
               => se[y] = se[x]
      BY <1>1, <2>1, <2>5 DEF Tailed
    <3>2. PICK t \in Nodes : t = tl[se[x]]
      BY <1>1, <2>3, <2>5, <3>1
    <3> QED BY <2>1, <2>2, <2>5, <3>1, <3>2
  <2> QED BY <1>1, <2>3, <2>4, <2>5 DEF Tailed
<1>9. Grouped(se, rq2, j, q)
  <2>1. rq \in [Sessions -> Nodes \cup {NULL}]
    BY <1>1 DEF Grouped
  <2>2. /\ rq2 \in [Sessions -> Nodes \cup {NULL}]
        /\ \A s \in Sessions : s # se[n] => rq2[s] = rq[s]
        /\ se[n] # NULL => rq2[se[n]] = m
    BY <1>1, <1>5, <2>1
  <2>3. \A x \in Nodes : part[x] = d => se[x] = se[n]
    BY <1>1, <1>2, <1>4 DEF Grouped
  <2>4. ASSUME NEW s \in Sessions, rq2[s] # NULL PROVE q[rq2[s]] > 0 /\ se[rq2[s]] = s
    <3>1. CASE s = se[n]
      <4>1. m \in Nodes /\ rq2[s] = m
        BY <1>1, <1>5, <2>2, <2>4, <3>1
      <4>2. q[m] = d /\ part[m] = d
        BY <1>1, <1>2, <1>4, <1>5, <1>6, <4>1 DEF First
      <4> QED BY <1>2, <2>3, <3>1, <4>1, <4>2
    <3>2. CASE s # se[n]
      <4>1. rq2[s] = rq[s] /\ rq[s] \in Nodes
        BY <2>1, <2>2, <2>4, <3>2
      <4>2. part[rq[s]] > 0 /\ se[rq[s]] = s
        BY <1>1, <2>4, <4>1 DEF Grouped
      <4> QED BY <1>6, <3>2, <4>1, <4>2
    <3> QED BY <3>1, <3>2
  <2>5. ASSUME NEW x \in Nodes, q[x] > 0, se[x] # NULL
        PROVE  rq2[se[x]] = j[q[x]].next /\ j[q[x]].of \in {NULL, se[x]}
    <3>1. x # n /\ q[x] = part[x]
      BY <1>6, <2>5 DEF Out
    <3>2. rq[se[x]] = k[part[x]].next /\ k[part[x]].of \in {NULL, se[x]}
      BY <1>1, <2>5, <3>1 DEF Grouped
    <3>3. part[x] \in 1 .. d
      <4>1. part[x] \in {Out, Rest, List} \cup 1 .. d
        BY <1>1, <1>2 DEF Framed
      <4> QED BY <2>5, <3>1, <4>1 DEF Out, Rest, List
    <3>4. CASE part[x] = d
      BY <1>2, <2>2, <2>3, <2>5, <3>1, <3>2, <3>4
    <3>5. CASE part[x] # d
      <4>1. se[x] # se[n]
        <5>1. SUFFICES ASSUME se[x] = se[n] PROVE FALSE
          OBVIOUS
        <5>2. rq[se[n]] = n
          <6>1. part[n] > 0 /\ se[n] # NULL
            BY <1>2, <1>4, <2>5, <5>1
          <6>2. rq[se[n]] = k[part[n]].next
            BY <1>1, <6>1 DEF Grouped
          <6> QED BY <1>4, <6>2
        <5>3. First(part, pos, part[x], n)
          BY <1>1, <1>2, <3>2, <3>3, <5>1, <5>2 DEF Framed
        <5> QED BY <1>1, <1>4, <3>5, <5>3 DEF First
      <4> QED BY <1>1, <1>2, <2>2, <2>5, <3>1, <3>2, <3>3, <3>5, <4>1
    <3> QED BY <3>4, <3>5
  <2>6. \A x, y \in Nodes : q[x] = q[y] /\ q[y] > 0 => se[x] = se[y]
    BY <1>1, <1>6 DEF Grouped, Out
  <2> QED BY <2>2, <2>4, <2>5, <2>6 DEF Grouped
<1>10. Placed(po, he, j, q)
  <2>1. /\ po \subseteq Nodes /\ he \subseteq Nodes /\ po \cap he = {}
        /\ \A x \in po \cup he : part[x] = Out
        /\ \A i \in 1 .. d : k[i].cur # NULL => part[k[i].cur] = Out /\ k[i].cur \notin po \cup he
        /\ \A i, h \in 1 .. d : k[i].cur # NULL /\ k[i].cur = k[h].cur => i = h
        /\ \A x \in Nodes : part[x] = Out => x \in po \cup he \/ \E i \in 1 .. d : k[i].cur = x
    BY <1>1, <1>2 DEF Placed
  <2>2. n \notin po \cup he /\ \A i \in 1 .. d : k[i].cur # n
    BY <1>1, <1>4, <2>1
  <2>3. \A i \in 1 .. d : k[i].cur # NULL => k[i].cur \in Nodes
    BY <1>1, <1>2, FrameTypes DEF Framed
  <2>4. \A i \in 1 .. d : j[i].cur # NULL => q[j[i].cur] = Out /\ j[i].cur \notin po \cup he
    <3>1. ASSUME NEW i \in 1 .. d, j[i].cur # NULL
          PROVE  q[j[i].cur] = Out /\ j[i].cur \notin po \cup he
      <4>1. CASE i = d
        BY <1>2, <1>6, <2>2, <4>1
      <4>2. CASE i # d
        BY <1>2, <1>6, <2>1, <2>3, <3>1, <4>2
      <4> QED BY <4>1, <4>2
    <3> QED BY <3>1
  <2>5. \A i, h \in 1 .. d : j[i].cur # NULL /\ j[i].cur = j[h].cur => i = h
    BY <1>2, <2>1, <2>2
  <2>6. \A x \in po \cup he : q[x] = Out
    BY <1>6, <2>1, <2>2
  <2>7. ASSUME NEW x \in Nodes, q[x] = Out PROVE x \in po \cup he \/ \E i \in 1 .. d : j[i].cur = x
    <3>1. CASE x = n
      BY <1>2, <3>1
    <3>2. CASE x # n
      <4>1. x \in po \cup he \/ \E i \in 1 .. d : k[i].cur = x
        BY <1>6, <2>1, <2>7, <3>2
      <4> QED BY <1>1, <1>2, <4>1
    <3> QED BY <3>1, <3>2
  <2> QED BY <1>2, <2>1, <2>4, <2>5, <2>6, <2>7 DEF Placed
<1>11. Referred(br2)
  BY <1>1 DEF Referred
<1> QED BY <1>5, <1>7, <1>8, <1>9, <1>10, <1>11 DEF Sound

\* The loop of run(): the first group of what is detached is cut off and is
\* then in hand.
LEMMA GroupTaken ==
  ASSUME NEW l, NEW k, NEW se, NEW tl, NEW rq, NEW po, NEW he, NEW br, NEW part, NEW pos,
         Sound(l, k, se, tl, rq, po, he, br, part, pos),
         Len(k) = 1, k[1].cur = NULL, k[1].next = NULL, k[1].of = NULL,
         NEW n \in Nodes, k[1].rest = n,
         NEW t, t = IF se[n] = NULL THEN n ELSE tl[se[n]], NEW a, a = l.next[t],
         NEW r, r = SetNext(IF a = NULL THEN l ELSE SetPrev(l, a, NULL), t, NULL),
         NEW j \in Seq(Frames), Len(j) = 1, j[1].of = NULL, j[1].cur = NULL,
         j[1].next = n, j[1].rest = a,
         NEW tl2, tl2 = IF se[n] = NULL THEN tl ELSE [tl EXCEPT ![se[n]] = NULL],
         NEW rq2, rq2 = IF se[n] = NULL THEN rq ELSE [rq EXCEPT ![se[n]] = n],
         NEW q, q = Moved(part, pos, Rest, pos[n], pos[t], 1)
  PROVE  Sound(r, j, se, tl2, rq2, po, he, br, q, pos)
<1>1. /\ l \in Links /\ part \in [Nodes -> Int] /\ pos \in [Nodes -> Nat]
      /\ NULL \notin Nodes /\ NULL \notin Sessions
      /\ \A x, y \in Nodes : part[x] = part[y] /\ part[y] # Out /\ pos[x] = pos[y] => x = y
      /\ se \in [Nodes -> Sessions \cup {NULL}] /\ tl \in [Sessions -> Nodes \cup {NULL}]
      /\ rq \in [Sessions -> Nodes \cup {NULL}]
      /\ Framed(k, part, pos) /\ Shape(l, part, pos)
      /\ Tailed(se, tl, part, pos) /\ Grouped(se, rq, k, part)
      /\ Placed(po, he, k, part) /\ Referred(br)
  BY EvtcbAssumption DEF Sound, Shape, Tailed, Grouped
<1>2. First(part, pos, Rest, n) /\ First(part, pos, 1, NULL)
  BY <1>1 DEF Framed
<1>3. /\ part[n] = Rest /\ \A x \in Nodes : part[x] = Rest => pos[n] <= pos[x]
      /\ \A x \in Nodes : part[x] # 1
  BY <1>1, <1>2 DEF First
<1>4. /\ t \in Nodes /\ part[t] = Rest /\ pos[n] <= pos[t]
      /\ \A x \in Nodes : part[x] = Rest /\ pos[n] <= pos[x] /\ pos[x] <= pos[t] => se[x] = se[n]
  <2>1. CASE se[n] = NULL
    <3>1. \A x \in Nodes : part[x] = Rest /\ pos[n] <= pos[x] /\ pos[x] <= pos[n] => x = n
      BY <1>1, <1>3 DEF Out, Rest
    <3> QED BY <1>1, <1>3, <2>1, <3>1
  <2>2. CASE se[n] # NULL
    BY <1>1, <1>3, <2>2 DEF Tailed
  <2> QED BY <2>1, <2>2
<1>5. l.prev[n] = NULL /\ a \in Nodes \cup {NULL} /\ a # n
  <2>1. PrevRight(l, part, pos, n) /\ NextRight(l, part, pos, t)
    BY <1>1, <1>3, <1>4 DEF Shape, Out, Rest
  <2>2. l.prev[n] = NULL
    BY <1>1, <1>3, <2>1 DEF PrevRight, End, Rest, List
  <2>3. a \in Nodes \cup {NULL} /\ a # n
    BY <1>1, <1>3, <1>4, <2>1 DEF NextRight, End, Rest, List
  <2> QED BY <2>2, <2>3
<1>6. CutOut(l, r, n, t)
  BY <1>1, <1>4, <1>5, GroupCut
<1>7. Shape(r, q, pos) /\ First(q, pos, 1, n) /\ First(q, pos, Rest, a)
  <2>1. PICK g \in Int : g = 1
    OBVIOUS
  <2>2. PICK p : p = Rest
    OBVIOUS
  <2>3. /\ p = part[n] /\ part[t] = p /\ p # Out /\ p # List /\ g # Out /\ g # List
        /\ (\A x \in Nodes : part[x] # g) /\ First(part, pos, p, n)
        /\ q = Moved(part, pos, p, pos[n], pos[t], g)
        /\ Shape(l, part, pos) /\ CutOut(l, r, n, t) /\ t \in Nodes /\ pos[n] <= pos[t]
    BY <1>1, <1>2, <1>3, <1>4, <1>6, <2>1, <2>2 DEF Out, Rest, List
  <2>4. Shape(r, q, pos) /\ First(q, pos, g, n) /\ First(q, pos, p, l.next[t])
    BY <2>3, PieceMoved
  <2> QED BY <2>1, <2>2, <2>4
<1>8. /\ q \in [Nodes -> Int]
      /\ \A x \in Nodes : q[x] = 1 <=> part[x] = Rest /\ pos[n] <= pos[x] /\ pos[x] <= pos[t]
      /\ \A x \in Nodes : q[x] # 1 => q[x] = part[x]
      /\ \A x \in Nodes : q[x] = 1 => se[x] = se[n]
  <2>1. PICK g \in Int : g = 1
    OBVIOUS
  <2>2. (\A x \in Nodes : part[x] # g) /\ q = Moved(part, pos, Rest, pos[n], pos[t], g)
    BY <1>3, <2>1
  <2>3. /\ q \in [Nodes -> Int]
        /\ \A x \in Nodes : q[x] = g <=> part[x] = Rest /\ pos[n] <= pos[x] /\ pos[x] <= pos[t]
        /\ \A x \in Nodes : q[x] # g => q[x] = part[x]
    BY <1>1, <2>2 DEF Moved, Between
  <2> QED BY <1>4, <2>1, <2>3
<1>9. Framed(j, q, pos)
  <2>1. \A i \in 1 .. Len(j) : i = 1
    OBVIOUS
  <2>2. \A i \in 1 .. Len(j) : First(q, pos, i, j[i].next)
    BY <1>7, <2>1
  <2>3. \A x \in Nodes : q[x] \in {Out, Rest, List} \cup 1 .. Len(j)
    <3>1. \A x \in Nodes : part[x] \in {Out, Rest, List} \cup 1 .. Len(j)
      BY <1>1 DEF Framed
    <3>2. 1 \in 1 .. Len(j)
      OBVIOUS
    <3> QED BY <1>8, <3>1, <3>2
  <2> QED BY <1>7, <2>1, <2>2, <2>3 DEF Framed
<1>10. Tailed(se, tl2, q, pos)
  <2>1. /\ tl2 \in [Sessions -> Nodes \cup {NULL}]
        /\ \A s \in Sessions : s # se[n] => tl2[s] = tl[s]
        /\ \A s \in Sessions : s = se[n] => tl2[s] = NULL
    BY <1>1
  <2>2. ASSUME NEW s \in Sessions, tl2[s] # NULL
        PROVE  /\ tl2[s] = tl[s] /\ tl[s] \in Nodes /\ q[tl[s]] = part[tl[s]]
               /\ part[tl[s]] \in {List, Rest} /\ se[tl[s]] = s
    <3>1. s # se[n] /\ tl2[s] = tl[s] /\ tl[s] \in Nodes
      BY <1>1, <2>1, <2>2
    <3>2. part[tl[s]] \in {List, Rest} /\ se[tl[s]] = s
      BY <1>1, <2>2, <3>1 DEF Tailed
    <3> QED BY <1>8, <3>1, <3>2
  <2>3. ASSUME NEW x \in Nodes, q[x] \in {List, Rest}, se[x] # NULL
        PROVE  /\ tl2[se[x]] # NULL /\ q[tl2[se[x]]] = q[x] /\ pos[x] <= pos[tl2[se[x]]]
               /\ \A y \in Nodes : q[y] = q[x] /\ pos[x] <= pos[y] /\ pos[y] <= pos[tl2[se[x]]]
                    => se[y] = se[x]
    <3>1. q[x] # 1 /\ part[x] = q[x] /\ se[x] \in Sessions
      BY <1>1, <1>8, <2>3 DEF List, Rest
    <3>2. /\ tl[se[x]] # NULL /\ part[tl[se[x]]] = part[x] /\ pos[x] <= pos[tl[se[x]]]
          /\ \A y \in Nodes : part[y] = part[x] /\ pos[x] <= pos[y] /\ pos[y] <= pos[tl[se[x]]]
               => se[y] = se[x]
      BY <1>1, <2>3, <3>1 DEF Tailed
    <3>3. se[x] # se[n]
      <4>1. SUFFICES ASSUME se[x] = se[n] PROVE FALSE
        OBVIOUS
      <4>2. t = tl[se[x]]
        BY <2>3, <4>1
      <4>3. part[x] = Rest /\ pos[x] <= pos[t]
        BY <1>4, <3>2, <4>2
      <4>4. pos[n] <= pos[x]
        BY <1>3, <4>3
      <4>5. q[x] = 1
        BY <1>8, <4>3, <4>4
      <4> QED BY <3>1, <4>5
    <3>4. tl2[se[x]] = tl[se[x]] /\ tl2[se[x]] # NULL
      BY <2>1, <3>1, <3>2, <3>3
    <3>5. q[tl[se[x]]] = part[tl[se[x]]]
      BY <2>2, <3>1, <3>4
    <3>6. \A y \in Nodes : q[y] = q[x] => part[y] = part[x]
      BY <1>8, <3>1
    <3> QED BY <3>1, <3>2, <3>4, <3>5, <3>6
  <2>4. \A s \in Sessions : tl2[s] # NULL => q[tl2[s]] \in {List, Rest} /\ se[tl2[s]] = s
    BY <2>2
  <2> QED BY <1>1, <2>1, <2>3, <2>4 DEF Tailed
<1>11. Grouped(se, rq2, j, q)
  <2>1. \A x \in Nodes : ~(part[x] > 0)
    <3>1. \A x \in Nodes : part[x] \in {Out, Rest, List} \cup 1 .. 1
      BY <1>1 DEF Framed
    <3> QED BY <1>3, <3>1 DEF Out, Rest, List
  <2>2. \A s \in Sessions : rq[s] = NULL
    BY <1>1, <2>1 DEF Grouped
  <2>3. /\ rq2 \in [Sessions -> Nodes \cup {NULL}]
        /\ \A s \in Sessions : rq2[s] # NULL => s = se[n] /\ rq2[s] = n
        /\ se[n] # NULL => rq2[se[n]] = n
    BY <1>1, <2>2
  <2>4. \A x \in Nodes : q[x] > 0 <=> q[x] = 1
    BY <1>8, <2>1
  <2>5. q[n] = 1 /\ n \in Nodes
    BY <1>1, <1>3, <1>4, <1>8
  <2>6. \A s \in Sessions : rq2[s] # NULL => q[rq2[s]] > 0 /\ se[rq2[s]] = s
    BY <2>3, <2>4, <2>5
  <2>7. \A x \in Nodes : q[x] > 0 /\ se[x] # NULL =>
          rq2[se[x]] = j[q[x]].next /\ j[q[x]].of \in {NULL, se[x]}
    BY <1>8, <2>3, <2>4
  <2>8. \A x, y \in Nodes : q[x] = q[y] /\ q[y] > 0 => se[x] = se[y]
    BY <1>8, <2>4
  <2> QED BY <2>3, <2>6, <2>7, <2>8 DEF Grouped
<1>12. Placed(po, he, j, q)
  <2>1. \A x \in Nodes : q[x] = Out <=> part[x] = Out
    BY <1>8 DEF Out, Rest
  <2>2. /\ po \subseteq Nodes /\ he \subseteq Nodes /\ po \cap he = {}
        /\ \A x \in po \cup he : part[x] = Out
        /\ \A x \in Nodes : part[x] = Out => x \in po \cup he \/ \E i \in 1 .. 1 : k[i].cur = x
    BY <1>1 DEF Placed
  <2>3. \A i \in 1 .. Len(j) : j[i].cur = NULL /\ i = 1
    OBVIOUS
  <2>4. \A x \in Nodes : part[x] = Out => x \in po \cup he
    BY <1>1, <2>2
  <2> QED BY <2>1, <2>2, <2>3, <2>4 DEF Placed
<1>13. Referred(br)
  BY <1>1
<1> QED BY <1>7, <1>9, <1>10, <1>11, <1>12, <1>13 DEF Sound

\* run() takes the list in hand.
LEMMA ListTaken ==
  ASSUME NEW l, NEW k, NEW se, NEW tl, NEW rq, NEW po, NEW he, NEW br, NEW part, NEW pos,
         Sound(l, k, se, tl, rq, po, he, br, part, pos), Len(k) = 0,
         NEW f \in Nodes, f = l.next[HEAD], NEW t, t = l.prev[HEAD], NEW r,
         r = SetNext(SetPrev(SetNext(SetPrev(l, HEAD, HEAD), HEAD, HEAD), f, NULL), t, NULL),
         NEW j \in Seq(Frames), Len(j) = 1, j[1].of = NULL, j[1].cur = NULL,
         j[1].next = NULL, j[1].rest = f,
         NEW q, q = Moved(part, pos, List, pos[f], pos[t], Rest)
  PROVE  Sound(r, j, se, tl, rq, po, he, br, q, pos)
<1>1. /\ part \in [Nodes -> Int] /\ pos \in [Nodes -> Nat]
      /\ NULL \notin Nodes /\ NULL \notin Sessions
      /\ se \in [Nodes -> Sessions \cup {NULL}] /\ tl \in [Sessions -> Nodes \cup {NULL}]
      /\ rq \in [Sessions -> Nodes \cup {NULL}]
      /\ Framed(k, part, pos) /\ Shape(l, part, pos)
      /\ Tailed(se, tl, part, pos) /\ Grouped(se, rq, k, part)
      /\ Placed(po, he, k, part) /\ Referred(br)
  BY EvtcbAssumption DEF Sound, Shape, Tailed, Grouped
<1>2. /\ CutOut(l, r, f, t) /\ t \in Nodes /\ part[f] = List /\ part[t] = List
      /\ \A x \in Nodes : part[x] = List => pos[f] <= pos[x] /\ pos[x] <= pos[t]
  BY <1>1, ListCut
<1>3. /\ \A x \in Nodes : part[x] # Rest
      /\ \A x \in Nodes : part[x] \in {Out, List}
  <2>1. /\ \A x \in Nodes : part[x] # Rest
        /\ \A x \in Nodes : part[x] \in {Out, Rest, List} \cup 1 .. 0
    BY <1>1 DEF Framed
  <2> QED BY <2>1
<1>4. Shape(r, q, pos) /\ First(q, pos, Rest, f)
  <2>1. PICK g \in Int : g = Rest
    BY DEF Rest
  <2>2. PICK p : p = List
    OBVIOUS
  <2>3. /\ p = part[f] /\ part[t] = p /\ p # Out /\ g # Out /\ g # List
        /\ (\A x \in Nodes : part[x] # g)
        /\ q = Moved(part, pos, p, pos[f], pos[t], g)
        /\ Shape(l, part, pos) /\ CutOut(l, r, f, t) /\ t \in Nodes /\ pos[f] <= pos[t]
    BY <1>1, <1>2, <1>3, <2>1, <2>2 DEF Out, Rest, List
  <2>4. Shape(r, q, pos) /\ First(q, pos, g, f)
    BY <2>3, PieceMoved
  <2> QED BY <2>1, <2>4
<1>5. /\ q \in [Nodes -> Int]
      /\ \A x \in Nodes : q[x] = Rest <=> part[x] = List
      /\ \A x \in Nodes : q[x] = Out <=> part[x] = Out
      /\ \A x \in Nodes : q[x] \in {Out, Rest}
  <2>1. PICK g \in Int : g = Rest
    BY DEF Rest
  <2>2. (\A x \in Nodes : part[x] # g) /\ q = Moved(part, pos, List, pos[f], pos[t], g)
    BY <1>3, <2>1
  <2>3. /\ q \in [Nodes -> Int]
        /\ \A x \in Nodes : q[x] = g <=> part[x] = List /\ pos[f] <= pos[x] /\ pos[x] <= pos[t]
        /\ \A x \in Nodes : q[x] # g => q[x] = part[x]
    BY <1>1, <2>2 DEF Moved, Between
  <2> QED BY <1>2, <1>3, <2>1, <2>3 DEF Out, List, Rest
<1>6. Framed(j, q, pos)
  <2>1. \A i \in 1 .. Len(j) : i = 1
    OBVIOUS
  <2>2. First(q, pos, 1, NULL)
    BY <1>5 DEF First, Out, Rest
  <2>3. \A i \in 1 .. Len(j) : First(q, pos, i, j[i].next)
    BY <2>1, <2>2
  <2> QED BY <1>4, <1>5, <2>1, <2>3 DEF Framed
<1>7. Tailed(se, tl, q, pos)
  <2>1. ASSUME NEW s \in Sessions, tl[s] # NULL
        PROVE  /\ tl[s] \in Nodes /\ q[tl[s]] = Rest /\ part[tl[s]] = List /\ se[tl[s]] = s
    BY <1>1, <1>3, <1>5, <2>1 DEF Tailed
  <2>2. ASSUME NEW x \in Nodes, q[x] \in {List, Rest}, se[x] # NULL
        PROVE  /\ tl[se[x]] # NULL /\ q[tl[se[x]]] = q[x] /\ pos[x] <= pos[tl[se[x]]]
               /\ \A y \in Nodes : q[y] = q[x] /\ pos[x] <= pos[y] /\ pos[y] <= pos[tl[se[x]]]
                    => se[y] = se[x]
    <3>1. q[x] = Rest /\ part[x] = List /\ se[x] \in Sessions
      BY <1>1, <1>5, <2>2 DEF Out, List, Rest
    <3>2. /\ tl[se[x]] # NULL /\ part[tl[se[x]]] = part[x] /\ pos[x] <= pos[tl[se[x]]]
          /\ \A y \in Nodes : part[y] = part[x] /\ pos[x] <= pos[y] /\ pos[y] <= pos[tl[se[x]]]
               => se[y] = se[x]
      BY <1>1, <2>2, <3>1 DEF Tailed
    <3>3. q[tl[se[x]]] = Rest /\ \A y \in Nodes : q[y] = q[x] => part[y] = part[x]
      BY <1>5, <2>1, <3>1, <3>2
    <3> QED BY <3>1, <3>2, <3>3
  <2>3. \A s \in Sessions : tl[s] # NULL => q[tl[s]] \in {List, Rest} /\ se[tl[s]] = s
    BY <2>1
  <2> QED BY <1>1, <2>2, <2>3 DEF Tailed
<1>8. Grouped(se, rq, j, q)
  <2>1. \A x \in Nodes : ~(part[x] > 0) /\ ~(q[x] > 0)
    BY <1>3, <1>5 DEF Out, List, Rest
  <2>2. \A s \in Sessions : rq[s] = NULL
    BY <1>1, <2>1 DEF Grouped
  <2>3. \A x, y \in Nodes : q[x] = q[y] /\ q[y] > 0 => se[x] = se[y]
    BY <2>1
  <2> QED BY <1>1, <2>1, <2>2, <2>3 DEF Grouped
<1>9. Placed(po, he, j, q)
  <2>1. /\ po \subseteq Nodes /\ he \subseteq Nodes /\ po \cap he = {}
        /\ \A x \in po \cup he : part[x] = Out
        /\ \A x \in Nodes : part[x] = Out => x \in po \cup he \/ \E i \in 1 .. 0 : k[i].cur = x
    BY <1>1 DEF Placed
  <2>2. \A i \in 1 .. Len(j) : j[i].cur = NULL /\ i = 1
    OBVIOUS
  <2>3. \A x \in Nodes : part[x] = Out => x \in po \cup he
    BY <2>1
  <2> QED BY <1>5, <2>1, <2>2, <2>3 DEF Placed
<1>10. Referred(br)
  BY <1>1
<1> QED BY <1>4, <1>6, <1>7, <1>8, <1>9, <1>10 DEF Sound

\* run(session) takes the callbacks of s, from f to t, out of the list.
Extracted(l, k, se, tl, rq, part, pos, s, t, f, r, j, tl2, rq2) ==
  LET b == l.prev[f]
      a == l.next[t]
      d == Len(k) + 1
  IN  /\ \A i \in 1 .. Len(k) : k[i].of \notin {NULL, s}
      /\ t \in Nodes /\ t = tl[s] /\ f \in Nodes /\ se[f] = s /\ part[f] = part[t]
      /\ \A x \in Nodes : part[x] = part[t] /\ se[x] = s => pos[f] <= pos[x]
      /\ r = SetNext(SetPrev(SetNext(SetPrev(l, a, b), b, a), f, NULL), t, NULL)
      /\ j \in Seq(Frames) /\ Len(j) = d /\ \A i \in 1 .. Len(k) : j[i] = k[i]
      /\ j[d].of = s /\ j[d].cur = NULL /\ j[d].next = f /\ j[d].rest = NULL
      /\ tl2 = [tl EXCEPT ![s] = NULL] /\ rq2 = [rq EXCEPT ![s] = f]

\* What extractSession cut off is in the hands of the new call.
LEMMA SessionTaken ==
  ASSUME NEW l, NEW k, NEW se, NEW tl, NEW rq, NEW po, NEW he, NEW br, NEW part, NEW pos,
         Sound(l, k, se, tl, rq, po, he, br, part, pos),
         NEW s \in Sessions, NEW t, NEW f, NEW r, NEW j, NEW tl2, NEW rq2,
         Extracted(l, k, se, tl, rq, part, pos, s, t, f, r, j, tl2, rq2),
         NEW d \in Nat, d = Len(k) + 1,
         NEW q, q = Moved(part, pos, List, pos[f], pos[t], d)
  PROVE  /\ Sound(r, j, se, tl2, rq2, po, he, br, q, pos)
         /\ part[t] = List /\ \A x \in Nodes : part[x] # d
<1> PICK b : b = l.prev[f]
  OBVIOUS
<1> PICK a : a = l.next[t]
  OBVIOUS
<1> /\ (\A i \in 1 .. Len(k) : k[i].of \notin {NULL, s})
    /\ t \in Nodes /\ t = tl[s] /\ f \in Nodes /\ se[f] = s /\ part[f] = part[t]
    /\ (\A x \in Nodes : part[x] = part[t] /\ se[x] = s => pos[f] <= pos[x])
    /\ r = SetNext(SetPrev(SetNext(SetPrev(l, a, b), b, a), f, NULL), t, NULL)
    /\ j \in Seq(Frames) /\ Len(j) = d /\ (\A i \in 1 .. Len(k) : j[i] = k[i])
    /\ j[d].of = s /\ j[d].cur = NULL /\ j[d].next = f /\ j[d].rest = NULL
    /\ tl2 = [tl EXCEPT ![s] = NULL] /\ rq2 = [rq EXCEPT ![s] = f]
  BY DEF Extracted
<1>1. /\ l \in Links /\ part \in [Nodes -> Int] /\ pos \in [Nodes -> Nat]
      /\ NULL \notin Nodes /\ NULL \notin Sessions
      /\ se \in [Nodes -> Sessions \cup {NULL}] /\ tl \in [Sessions -> Nodes \cup {NULL}]
      /\ rq \in [Sessions -> Nodes \cup {NULL}]
      /\ Framed(k, part, pos) /\ Shape(l, part, pos)
      /\ Tailed(se, tl, part, pos) /\ Grouped(se, rq, k, part)
      /\ Placed(po, he, k, part) /\ Referred(br)
  BY EvtcbAssumption DEF Sound, Shape, Tailed, Grouped
<1>2. Len(k) \in Nat /\ k \in Seq(Frames) /\ d > 0 /\ 1 .. d = (1 .. Len(k)) \cup {d}
  BY <1>1, LenProperties DEF Framed
<1>3. /\ \A x \in Nodes : part[x] # Rest
      /\ \A x \in Nodes : part[x] # d
      /\ \A x \in Nodes : part[x] \in {Out, Rest, List} \cup 1 .. Len(k)
      /\ \A i \in 1 .. Len(k) : k[i].rest = NULL /\ k[i].of # NULL
  <2>1. \A x \in Nodes : part[x] \in {Out, Rest, List} \cup 1 .. Len(k)
    BY <1>1 DEF Framed
  <2>2. \A i \in 1 .. Len(k) : k[i].rest = NULL /\ k[i].of # NULL
    BY <1>1 DEF Framed
  <2>3. \A x \in Nodes : part[x] # Rest
    <3>1. CASE Len(k) = 1
      <4>1. First(part, pos, Rest, k[1].rest) /\ k[1].rest = NULL
        BY <1>1, <2>2, <3>1 DEF Framed
      <4> QED BY <4>1 DEF First
    <3>2. CASE Len(k) # 1
      BY <1>1, <3>2 DEF Framed
    <3> QED BY <3>1, <3>2
  <2> QED BY <1>2, <2>1, <2>2, <2>3 DEF Out, Rest, List
<1>4. /\ part[t] = List /\ part[f] = List /\ se[t] = s /\ pos[f] <= pos[t]
      /\ \A x \in Nodes : part[x] = List /\ pos[f] <= pos[x] /\ pos[x] <= pos[t] => se[x] = s
      /\ \A x \in Nodes : part[x] = List /\ se[x] = s => pos[f] <= pos[x] /\ pos[x] <= pos[t]
  <2>1. part[t] = List /\ se[t] = s
    BY <1>1, <1>3 DEF Tailed
  <2>2. pos[f] <= pos[t]
        /\ \A x \in Nodes : part[x] = List /\ pos[f] <= pos[x] /\ pos[x] <= pos[t] => se[x] = s
    BY <1>1, <2>1 DEF Tailed
  <2>3. \A x \in Nodes : part[x] = List /\ se[x] = s => pos[x] <= pos[t]
    BY <1>1 DEF Tailed
  <2> QED BY <2>1, <2>2, <2>3
<1>5. CutOut(l, r, f, t)
  <2>1. PrevRight(l, part, pos, f) /\ NextRight(l, part, pos, t) /\ HEAD \notin Nodes
        /\ Nodes \subseteq Cells /\ HEAD \in Cells
    BY <1>1, <1>4, EvtcbAssumption DEF Shape, Out, List, Cells
  <2>2. b \in Cells /\ b # t
    BY <1>1, <1>4, <2>1 DEF PrevRight, End
  <2>3. a \in Cells /\ a # f
    BY <1>1, <1>4, <2>1 DEF NextRight, End
  <2> QED BY <1>1, <2>2, <2>3, SessionCut
<1>6. Shape(r, q, pos) /\ First(q, pos, d, f)
  <2>1. PICK p : p = List
    OBVIOUS
  <2>2. PICK g \in Int : g = d
    OBVIOUS
  <2>3. /\ p = part[f] /\ part[t] = p /\ p # Out /\ g # Out /\ g # List
        /\ (\A x \in Nodes : part[x] # g)
        /\ q = Moved(part, pos, p, pos[f], pos[t], g)
        /\ Shape(l, part, pos) /\ CutOut(l, r, f, t) /\ pos[f] <= pos[t]
    BY <1>1, <1>2, <1>3, <1>4, <1>5, <2>1, <2>2 DEF Out, List
  <2>4. Shape(r, q, pos) /\ First(q, pos, g, f)
    BY <2>3, PieceMoved
  <2> QED BY <2>2, <2>4
<1>7. /\ q \in [Nodes -> Int]
      /\ \A x \in Nodes : q[x] = d <=> part[x] = List /\ se[x] = s
      /\ \A x \in Nodes : q[x] # d => q[x] = part[x]
  <2>1. d \in Int /\ \A x \in Nodes : part[x] # d
    BY <1>3
  <2>2. /\ q \in [Nodes -> Int]
        /\ \A x \in Nodes : q[x] = d <=> part[x] = List /\ pos[f] <= pos[x] /\ pos[x] <= pos[t]
        /\ \A x \in Nodes : q[x] # d => q[x] = part[x]
    BY <1>1, <2>1 DEF Moved, Between
  <2> QED BY <1>4, <2>2
<1>8. Framed(j, q, pos)
  <2>1. ASSUME NEW i \in 1 .. d PROVE First(q, pos, i, j[i].next)
    <3>1. CASE i = d
      BY <1>6, <3>1
    <3>2. CASE i \in 1 .. Len(k)
      <4>1. First(part, pos, i, k[i].next) /\ j[i] = k[i]
        BY <1>1, <3>2 DEF Framed
      <4>2. \A x \in Nodes : q[x] = i <=> part[x] = i
        BY <1>2, <1>7, <3>2 DEF List
      <4> QED BY <4>1, <4>2 DEF First
    <3> QED BY <1>2, <3>1, <3>2
  <2>2. /\ \A i \in 1 .. d : j[i].of # NULL /\ j[i].rest = NULL
    BY <1>1, <1>2, <1>3
  <2>3. ASSUME NEW i \in 1 .. d, NEW h \in 1 .. d, j[i].of = j[h].of PROVE i = h
    <3>1. \A x, y \in 1 .. Len(k) : k[x].of = k[y].of => x = y
      BY <1>1 DEF Framed
    <3> QED BY <1>2, <2>3, <3>1
  <2>4. \A x \in Nodes : q[x] # Rest
    BY <1>2, <1>3, <1>7 DEF Rest
  <2>5. \A x \in Nodes : q[x] \in {Out, Rest, List} \cup 1 .. d
    BY <1>2, <1>3, <1>7
  <2>6. d = 1 => First(q, pos, Rest, j[1].rest)
    BY <2>4 DEF First
  <2> QED BY <2>1, <2>2, <2>3, <2>4, <2>5, <2>6 DEF Framed
<1>9. Tailed(se, tl2, q, pos)
  <2>1. /\ tl2 \in [Sessions -> Nodes \cup {NULL}]
        /\ \A u \in Sessions : u # s => tl2[u] = tl[u]
        /\ tl2[s] = NULL
    BY <1>1
  <2>2. ASSUME NEW u \in Sessions, tl2[u] # NULL
        PROVE  /\ tl2[u] = tl[u] /\ tl[u] \in Nodes /\ q[tl[u]] = part[tl[u]]
               /\ part[tl[u]] \in {List, Rest} /\ se[tl[u]] = u
    <3>1. u # s /\ tl2[u] = tl[u] /\ tl[u] \in Nodes
      BY <1>1, <2>1, <2>2
    <3>2. part[tl[u]] \in {List, Rest} /\ se[tl[u]] = u
      BY <1>1, <2>2, <3>1 DEF Tailed
    <3> QED BY <1>7, <3>1, <3>2
  <2>3. ASSUME NEW x \in Nodes, q[x] \in {List, Rest}, se[x] # NULL
        PROVE  /\ tl2[se[x]] # NULL /\ q[tl2[se[x]]] = q[x] /\ pos[x] <= pos[tl2[se[x]]]
               /\ \A y \in Nodes : q[y] = q[x] /\ pos[x] <= pos[y] /\ pos[y] <= pos[tl2[se[x]]]
                    => se[y] = se[x]
    <3>1. q[x] # d /\ part[x] = q[x] /\ se[x] \in Sessions
      BY <1>1, <1>2, <1>7, <2>3 DEF List, Rest
    <3>2. /\ tl[se[x]] # NULL /\ part[tl[se[x]]] = part[x] /\ pos[x] <= pos[tl[se[x]]]
          /\ \A y \in Nodes : part[y] = part[x] /\ pos[x] <= pos[y] /\ pos[y] <= pos[tl[se[x]]]
               => se[y] = se[x]
      BY <1>1, <2>3, <3>1 DEF Tailed
    <3>3. se[x] # s
      BY <1>3, <1>7, <2>3, <3>1
    <3>4. tl2[se[x]] = tl[se[x]] /\ tl2[se[x]] # NULL
      BY <2>1, <3>1, <3>2, <3>3
    <3>5. q[tl[se[x]]] = part[tl[se[x]]]
      BY <2>2, <3>1, <3>4
    <3>6. \A y \in Nodes : q[y] = q[x] => part[y] = part[x]
      BY <1>7, <3>1
    <3> QED BY <3>1, <3>2, <3>4, <3>5, <3>6
  <2>4. \A u \in Sessions : tl2[u] # NULL => q[tl2[u]] \in {List, Rest} /\ se[tl2[u]] = u
    BY <2>2
  <2> QED BY <1>1, <2>1, <2>3, <2>4 DEF Tailed
<1>10. Grouped(se, rq2, j, q)
  <2>1. /\ rq2 \in [Sessions -> Nodes \cup {NULL}]
        /\ \A u \in Sessions : u # s => rq2[u] = rq[u]
        /\ rq2[s] = f
    BY <1>1
  <2>2. ASSUME NEW x \in Nodes, part[x] > 0 PROVE se[x] # s /\ q[x] = part[x] /\ part[x] \in 1 .. Len(k)
    <3>1. part[x] \in 1 .. Len(k)
      BY <1>3, <2>2 DEF Out, Rest, List
    <3>2. se[x] # NULL => k[part[x]].of \in {NULL, se[x]}
      BY <1>1, <2>2 DEF Grouped
    <3> QED BY <1>1, <1>7, <2>2, <3>1, <3>2 DEF List
  <2>3. ASSUME NEW u \in Sessions, rq2[u] # NULL PROVE q[rq2[u]] > 0 /\ se[rq2[u]] = u
    <3>1. CASE u = s
      BY <1>2, <1>4, <1>7, <2>1, <3>1
    <3>2. CASE u # s
      <4>1. rq2[u] = rq[u] /\ rq[u] \in Nodes /\ part[rq[u]] > 0 /\ se[rq[u]] = u
        BY <1>1, <2>1, <2>3, <3>2 DEF Grouped
      <4> QED BY <2>2, <4>1
    <3> QED BY <3>1, <3>2
  <2>4. ASSUME NEW x \in Nodes, q[x] > 0, se[x] # NULL
        PROVE  rq2[se[x]] = j[q[x]].next /\ j[q[x]].of \in {NULL, se[x]}
    <3>1. CASE q[x] = d
      BY <1>7, <2>1, <3>1
    <3>2. CASE q[x] # d
      <4>1. q[x] = part[x] /\ part[x] > 0 /\ se[x] \in Sessions
        BY <1>1, <1>7, <2>4, <3>2
      <4>2. rq[se[x]] = k[part[x]].next /\ k[part[x]].of \in {NULL, se[x]}
        BY <1>1, <2>4, <4>1 DEF Grouped
      <4>3. se[x] # s /\ part[x] \in 1 .. Len(k)
        BY <2>2, <4>1
      <4> QED BY <2>1, <4>1, <4>2, <4>3
    <3> QED BY <3>1, <3>2
  <2>5. ASSUME NEW x \in Nodes, NEW y \in Nodes, q[x] = q[y], q[y] > 0 PROVE se[x] = se[y]
    <3>1. CASE q[x] = d
      BY <1>7, <2>5, <3>1
    <3>2. CASE q[x] # d
      BY <1>1, <1>7, <2>5, <3>2 DEF Grouped
    <3> QED BY <3>1, <3>2
  <2>6. rq2 \in [Sessions -> Nodes \cup {NULL}]
    BY <2>1
  <2>7. \A u \in Sessions : rq2[u] # NULL => q[rq2[u]] > 0 /\ se[rq2[u]] = u
    BY <2>3
  <2>8. \A x \in Nodes : q[x] > 0 /\ se[x] # NULL =>
          rq2[se[x]] = j[q[x]].next /\ j[q[x]].of \in {NULL, se[x]}
    BY <2>4
  <2>9. \A x, y \in Nodes : q[x] = q[y] /\ q[y] > 0 => se[x] = se[y]
    BY <2>5
  <2> QED BY <2>6, <2>7, <2>8, <2>9 DEF Grouped
<1>11. Placed(po, he, j, q)
  <2>1. \A x \in Nodes : q[x] = Out <=> part[x] = Out
    BY <1>2, <1>7 DEF Out, List
  <2>2. /\ po \subseteq Nodes /\ he \subseteq Nodes /\ po \cap he = {}
        /\ \A x \in po \cup he : part[x] = Out
        /\ \A i \in 1 .. Len(k) : k[i].cur # NULL => part[k[i].cur] = Out /\ k[i].cur \notin po \cup he
        /\ \A i, h \in 1 .. Len(k) : k[i].cur # NULL /\ k[i].cur = k[h].cur => i = h
        /\ \A x \in Nodes : part[x] = Out => x \in po \cup he \/ \E i \in 1 .. Len(k) : k[i].cur = x
    BY <1>1 DEF Placed
  <2>3. \A i \in 1 .. Len(k) : k[i].cur # NULL => k[i].cur \in Nodes
    BY <1>2, FrameTypes
  <2>4. \A i \in 1 .. d : j[i].cur # NULL => i \in 1 .. Len(k) /\ j[i] = k[i]
    BY <1>2
  <2>5. \A i \in 1 .. d : j[i].cur # NULL => q[j[i].cur] = Out /\ j[i].cur \notin po \cup he
    BY <2>1, <2>2, <2>3, <2>4
  <2>6. \A i, h \in 1 .. d : j[i].cur # NULL /\ j[i].cur = j[h].cur => i = h
    BY <2>2, <2>4
  <2>7. \A x \in Nodes : part[x] = Out => x \in po \cup he \/ \E i \in 1 .. d : j[i].cur = x
    BY <1>2, <2>2
  <2> QED BY <2>1, <2>2, <2>5, <2>6, <2>7 DEF Placed
<1>12. Referred(br)
  BY <1>1
<1> QED BY <1>3, <1>4, <1>6, <1>8, <1>9, <1>10, <1>11, <1>12 DEF Sound

(***************************************************************************)
(* Scheduling, closing and returning.                                      *)
(***************************************************************************)
\* The session of a node in no part is free to change.
LEMMA SessionOfOut ==
  ASSUME NEW se, NEW tl, NEW rq, NEW k, NEW part, NEW pos,
         Tailed(se, tl, part, pos), Grouped(se, rq, k, part),
         NEW se2 \in [Nodes -> Sessions \cup {NULL}],
         \A x \in Nodes : part[x] # Out => se2[x] = se[x]
  PROVE  Tailed(se2, tl, part, pos) /\ Grouped(se2, rq, k, part)
<1>1. /\ tl \in [Sessions -> Nodes \cup {NULL}] /\ rq \in [Sessions -> Nodes \cup {NULL}]
      /\ \A x \in Nodes : part[x] \in {List, Rest} => se2[x] = se[x]
      /\ \A x \in Nodes : part[x] > 0 => se2[x] = se[x]
  BY DEF Tailed, Grouped, Out, List, Rest
<1>2. Tailed(se2, tl, part, pos)
  <2>1. \A s \in Sessions : tl[s] # NULL => part[tl[s]] \in {List, Rest} /\ se2[tl[s]] = s
    BY <1>1 DEF Tailed
  <2>2. ASSUME NEW x \in Nodes, part[x] \in {List, Rest}, se2[x] # NULL
        PROVE  /\ tl[se2[x]] # NULL /\ part[tl[se2[x]]] = part[x] /\ pos[x] <= pos[tl[se2[x]]]
               /\ \A y \in Nodes : part[y] = part[x] /\ pos[x] <= pos[y] /\ pos[y] <= pos[tl[se2[x]]]
                    => se2[y] = se2[x]
    BY <1>1, <2>2 DEF Tailed
  <2> QED BY <1>1, <2>1, <2>2 DEF Tailed
<1>3. Grouped(se2, rq, k, part)
  <2>1. \A s \in Sessions : rq[s] # NULL => part[rq[s]] > 0 /\ se2[rq[s]] = s
    BY <1>1 DEF Grouped
  <2>2. \A x \in Nodes : part[x] > 0 /\ se2[x] # NULL =>
          rq[se2[x]] = k[part[x]].next /\ k[part[x]].of \in {NULL, se2[x]}
    BY <1>1 DEF Grouped
  <2>3. \A x, y \in Nodes : part[x] = part[y] /\ part[y] > 0 => se2[x] = se2[y]
    BY <1>1 DEF Grouped
  <2> QED BY <1>1, <2>1, <2>2, <2>3 DEF Grouped
<1> QED BY <1>2, <1>3

\* A place for n among the others, whose order stays: behind a, or alone.
Joins(part, pos, q, w, n, p) ==
  /\ q \in [Nodes -> Int] /\ w \in [Nodes -> Nat] /\ q[n] = p
  /\ \A x \in Nodes : x # n => q[x] = part[x]
  /\ \A x, y \in Nodes : x # n /\ y # n => (w[x] <= w[y] <=> pos[x] <= pos[y])

\* What the event loop has in hand is not disturbed.
LEMMA JoinsFramed ==
  ASSUME NEW k, NEW se, NEW rq, NEW part \in [Nodes -> Int], NEW pos \in [Nodes -> Nat],
         NEW q, NEW w, NEW n \in Nodes, NEW p \in {List, Rest}, part[n] = Out,
         Joins(part, pos, q, w, n, p), Framed(k, part, pos), Grouped(se, rq, k, part),
         p = Rest => \E z \in Nodes : part[z] = Rest /\ w[z] <= w[n]
  PROVE  Framed(k, q, w) /\ Grouped(se, rq, k, q)
<1>1. /\ q \in [Nodes -> Int] /\ w \in [Nodes -> Nat] /\ q[n] = p
      /\ \A x \in Nodes : x # n => q[x] = part[x]
      /\ \A x, y \in Nodes : x # n /\ y # n => (w[x] <= w[y] <=> pos[x] <= pos[y])
  BY DEF Joins
<1>2. /\ k \in Seq(Frames) /\ Len(k) \in Nat
      /\ \A i \in 1 .. Len(k) : First(part, pos, i, k[i].next)
      /\ \A x \in Nodes : part[x] \in {Out, Rest, List} \cup 1 .. Len(k)
      /\ IF Len(k) = 1 THEN First(part, pos, Rest, k[1].rest) ELSE \A x \in Nodes : part[x] # Rest
  BY LenProperties DEF Framed
<1>3. \A x \in Nodes : q[x] > 0 \/ part[x] > 0 => x # n /\ q[x] = part[x]
  BY <1>1 DEF Out, Rest, List
<1>4. ASSUME NEW i \in 1 .. Len(k) PROVE First(q, w, i, k[i].next)
  <2>1. First(part, pos, i, k[i].next)
    BY <1>2
  <2>2. \A x \in Nodes : (q[x] = i <=> part[x] = i) /\ (part[x] = i => x # n)
    BY <1>1, <1>2, <1>3
  <2> QED BY <1>1, <2>1, <2>2 DEF First
<1>5. IF Len(k) = 1 THEN First(q, w, Rest, k[1].rest) ELSE \A x \in Nodes : q[x] # Rest
  <2>1. CASE p = List
    <3>1. \A x \in Nodes : (q[x] = Rest <=> part[x] = Rest) /\ (part[x] = Rest => x # n)
      BY <1>1, <2>1 DEF Out, Rest, List
    <3> QED BY <1>1, <1>2, <3>1 DEF First
  <2>2. CASE p = Rest
    <3>1. PICK z \in Nodes : part[z] = Rest /\ w[z] <= w[n]
      BY <2>2
    <3>2. Len(k) = 1 /\ First(part, pos, Rest, k[1].rest) /\ k[1].rest # NULL
      BY <1>2, <3>1 DEF First
    <3>3. PICK f \in Nodes : f = k[1].rest
      BY <3>2 DEF First
    <3>4. f # NULL /\ part[f] = Rest /\ \A x \in Nodes : part[x] = Rest => pos[f] <= pos[x]
      BY <3>2, <3>3 DEF First
    <3>5. f # n /\ z # n /\ q[f] = Rest
      BY <1>1, <3>1, <3>4 DEF Out, Rest
    <3>6. ASSUME NEW x \in Nodes, q[x] = Rest PROVE w[f] <= w[x]
      <4>1. CASE x # n
        BY <1>1, <3>4, <3>5, <3>6, <4>1
      <4>2. CASE x = n
        <5>1. w[f] <= w[z]
          BY <1>1, <3>1, <3>4, <3>5
        <5>2. w[f] \in Nat /\ w[z] \in Nat /\ w[n] \in Nat
          BY <1>1
        <5> QED BY <3>1, <4>2, <5>1, <5>2
      <4> QED BY <4>1, <4>2
    <3> QED BY <3>2, <3>3, <3>4, <3>5, <3>6 DEF First
  <2> QED BY <2>1, <2>2
<1>6. \A x \in Nodes : q[x] \in {Out, Rest, List} \cup 1 .. Len(k)
  BY <1>1, <1>2
<1>7. Framed(k, q, w)
  BY <1>2, <1>4, <1>5, <1>6 DEF Framed
<1>8. Grouped(se, rq, k, q)
  <2>1. rq \in [Sessions -> Nodes \cup {NULL}]
    BY DEF Grouped
  <2>2. \A s \in Sessions : rq[s] # NULL => q[rq[s]] > 0 /\ se[rq[s]] = s
    BY <1>3, <2>1 DEF Grouped
  <2>3. \A x \in Nodes : q[x] > 0 /\ se[x] # NULL =>
          rq[se[x]] = k[q[x]].next /\ k[q[x]].of \in {NULL, se[x]}
    BY <1>3 DEF Grouped
  <2>4. \A x, y \in Nodes : q[x] = q[y] /\ q[y] > 0 => se[x] = se[y]
    BY <1>3 DEF Grouped
  <2> QED BY <2>1, <2>2, <2>3, <2>4 DEF Grouped
<1> QED BY <1>7, <1>8

\* m will start no later than n, of the same session: what runs goes first.
Before(part, pos, m, n) ==
  \/ part[m] > 0 /\ ~(part[n] > 0)
  \/ part[m] = part[n] /\ pos[m] <= pos[n]

\* The order of the other nodes that wait for a session stays.
SameOrder(se, part, pos, q, w, n) ==
  \A x, y \in Nodes : /\ x # n /\ y # n /\ se[x] = se[y] /\ se[x] # NULL
                      /\ part[x] # Out /\ part[y] # Out
    => (Before(q, w, x, y) <=> Before(part, pos, x, y))

\* n comes to wait behind the others of its session.
Grows(se, part, pos, q, w, n) ==
  /\ part[n] = Out /\ q[n] # Out
  /\ \A x \in Nodes : x # n => (q[x] = Out <=> part[x] = Out)
  /\ SameOrder(se, part, pos, q, w, n)
  /\ se[n] # NULL => \A x \in Nodes : se[x] = se[n] /\ q[x] # Out => Before(q, w, x, n)

\* n, the first of its session, waits no longer.
Shrinks(se, part, pos, q, w, n) ==
  /\ part[n] # Out /\ q[n] = Out
  /\ \A x \in Nodes : x # n => (q[x] = Out <=> part[x] = Out)
  /\ SameOrder(se, part, pos, q, w, n)
  /\ se[n] # NULL => \A x \in Nodes : se[x] = se[n] /\ part[x] # Out => Before(part, pos, n, x)

\* The tail of a session waits behind all others of it.
LEMMA JoinsGrow ==
  ASSUME NEW k, NEW se, NEW tl, NEW part \in [Nodes -> Int], NEW pos \in [Nodes -> Nat],
         NEW q, NEW w, NEW n \in Nodes, NEW p \in {List, Rest}, part[n] = Out,
         Joins(part, pos, q, w, n, p), Framed(k, q, w), Tailed(se, tl, q, w),
         se[n] # NULL => tl[se[n]] = n
  PROVE  Grows(se, part, pos, q, w, n)
<1>1. /\ q \in [Nodes -> Int] /\ w \in [Nodes -> Nat] /\ q[n] = p
      /\ \A x \in Nodes : x # n => q[x] = part[x]
      /\ \A x, y \in Nodes : x # n /\ y # n => (w[x] <= w[y] <=> pos[x] <= pos[y])
  BY DEF Joins
<1>2. SameOrder(se, part, pos, q, w, n)
  BY <1>1 DEF SameOrder, Before
<1>3. q[n] # Out /\ ~(q[n] > 0)
  BY <1>1 DEF Out, List, Rest
<1>4. ASSUME NEW x \in Nodes, se[n] # NULL, se[x] = se[n], q[x] # Out PROVE Before(q, w, x, n)
  <2>1. q[x] \in {Out, Rest, List} \cup 1 .. Len(k)
    BY DEF Framed
  <2>2. CASE q[x] > 0
    BY <1>3, <2>2 DEF Before
  <2>3. CASE q[x] \in {List, Rest}
    <3>1. q[n] = q[x] /\ w[x] <= w[n]
      BY <1>4, <2>3 DEF Tailed
    <3> QED BY <3>1 DEF Before
  <2> QED BY <1>4, <2>1, <2>2, <2>3
<1> QED BY <1>1, <1>2, <1>3, <1>4 DEF Grows

\* The section of schedule(pObj).
LEMMA NodeJoins ==
  ASSUME NEW l, NEW k, NEW se, NEW tl, NEW rq, NEW part, NEW pos,
         Shape(l, part, pos), Framed(k, part, pos),
         Tailed(se, tl, part, pos), Grouped(se, rq, k, part),
         NEW n \in Nodes, part[n] = Out, NEW s, s = se[n],
         NEW queued, queued = (s # NULL /\ tl[s] # NULL),
         NEW a, a = IF queued THEN tl[s] ELSE l.prev[HEAD],
         NEW r, r = AddNext(l, a, n),
         NEW tl2, tl2 = IF s = NULL THEN tl ELSE [tl EXCEPT ![s] = n]
  PROVE  \E q, w : /\ Shape(r, q, w) /\ Framed(k, q, w)
                   /\ Tailed(se, tl2, q, w) /\ Grouped(se, rq, k, q)
                   /\ q[n] # Out /\ (\A x \in Nodes : x # n => q[x] = part[x])
                   /\ Grows(se, part, pos, q, w, n)
<1>1. /\ part \in [Nodes -> Int] /\ pos \in [Nodes -> Nat] /\ HeadRight(l, part, pos)
      /\ NULL \notin Nodes /\ NULL \notin Sessions /\ HEAD \notin Nodes
      /\ se \in [Nodes -> Sessions \cup {NULL}] /\ tl \in [Sessions -> Nodes \cup {NULL}]
      /\ s \in Sessions \cup {NULL}
      /\ \A x, y \in Nodes : part[x] = part[y] /\ part[y] # Out /\ pos[x] = pos[y] => x = y
  BY EvtcbAssumption DEF Shape, Tailed
<1>2. /\ tl2 \in [Sessions -> Nodes \cup {NULL}]
      /\ \A u \in Sessions : u # s => tl2[u] = tl[u]
      /\ s # NULL => tl2[s] = n
  BY <1>1
<1>3. \A u \in Sessions : tl[u] # NULL => tl[u] \in Nodes /\ tl[u] # n
                                          /\ part[tl[u]] \in {List, Rest} /\ se[tl[u]] = u
  BY <1>1 DEF Tailed, Out, List, Rest
<1>4. CASE a \in Nodes
  <2>1. PICK q : q = [part EXCEPT ![n] = part[a]]
    OBVIOUS
  <2>2. PICK w : w = Behind(pos, a, n)
    OBVIOUS
  <2>3. /\ part[a] \in {List, Rest} /\ a # n
        /\ queued => se[a] = s
        /\ ~queued => part[a] = List /\ \A x \in Nodes : part[x] = List => pos[x] <= pos[a]
    <3>1. CASE queued
      <4>1. s \in Sessions /\ tl[s] # NULL /\ a = tl[s]
        BY <1>1, <3>1
      <4> QED BY <1>3, <3>1, <4>1
    <3>2. CASE ~queued
      <4>1. a = l.prev[HEAD]
        BY <3>2
      <4>2. part[a] = List /\ \A x \in Nodes : part[x] = List => pos[x] <= pos[a]
        BY <1>1, <1>4, <4>1 DEF HeadRight
      <4> QED BY <3>2, <4>2 DEF Out, List
    <3> QED BY <3>1, <3>2
  <2>4. Shape(r, q, w)
    <3>1. part[a] # Out
      BY <2>3 DEF Out, List, Rest
    <3> QED BY <1>4, <2>1, <2>2, <3>1, Inserted
  <2>5. /\ w \in [Nodes -> Nat]
        /\ \A x, y \in Nodes : x # n /\ y # n => (w[x] <= w[y] <=> pos[x] <= pos[y])
        /\ \A x \in Nodes : x # n =>
             /\ w[n] <= w[x] <=> pos[a] < pos[x]
             /\ w[x] <= w[n] <=> pos[x] <= pos[a]
             /\ w[x] # w[n]
    BY <1>1, <1>4, <2>2, <2>3, BehindOrder
  <2>6. q \in [Nodes -> Int] /\ q[n] = part[a] /\ \A x \in Nodes : x # n => q[x] = part[x]
    BY <1>1, <1>4, <2>1
  <2>7. Framed(k, q, w) /\ Grouped(se, rq, k, q)
    <3>1. PICK p \in {List, Rest} : p = part[a]
      BY <2>3
    <3>2. Joins(part, pos, q, w, n, p)
      BY <2>5, <2>6, <3>1 DEF Joins
    <3>3. w[a] <= w[n]
      BY <1>1, <1>4, <2>3, <2>5
    <3>4. p = Rest => \E z \in Nodes : part[z] = Rest /\ w[z] <= w[n]
      BY <1>4, <3>1, <3>3
    <3> QED BY <1>1, <3>2, <3>4, JoinsFramed
  <2>8. \A u \in Sessions : tl2[u] # NULL => q[tl2[u]] \in {List, Rest} /\ se[tl2[u]] = u
    BY <1>1, <1>2, <1>3, <2>3, <2>6
  <2>9. ASSUME NEW x \in Nodes, q[x] \in {List, Rest}, se[x] # NULL
        PROVE  /\ tl2[se[x]] # NULL /\ q[tl2[se[x]]] = q[x] /\ w[x] <= w[tl2[se[x]]]
               /\ \A y \in Nodes : q[y] = q[x] /\ w[x] <= w[y] /\ w[y] <= w[tl2[se[x]]]
                    => se[y] = se[x]
    <3>1. CASE x = n
      <4>1. tl2[se[x]] = n
        BY <1>2, <2>9, <3>1
      <4>2. w[n] \in Nat /\ \A y \in Nodes : w[n] <= w[y] /\ w[y] <= w[n] => y = n
        BY <1>1, <1>4, <2>5
      <4> QED BY <1>1, <3>1, <4>1, <4>2
    <3>2. CASE x # n
      <4>1. part[x] = q[x] /\ se[x] \in Sessions
        BY <1>1, <2>6, <2>9, <3>2
      <4>2. PICK t : t = tl[se[x]]
        OBVIOUS
      <4>3. /\ t # NULL /\ part[t] = part[x] /\ pos[x] <= pos[t] /\ t \in Nodes /\ t # n
            /\ \A y \in Nodes : part[y] = part[x] /\ pos[x] <= pos[y] /\ pos[y] <= pos[t]
                 => se[y] = se[x]
        BY <1>3, <2>9, <4>1, <4>2 DEF Tailed
      <4>4. CASE se[x] = s
        <5>1. tl2[se[x]] = n /\ a = t
          BY <1>2, <2>9, <4>2, <4>3, <4>4
        <5>2. q[n] = q[x] /\ w[x] <= w[n]
          BY <2>5, <2>6, <3>2, <4>1, <4>3, <5>1
        <5>3. ASSUME NEW y \in Nodes, q[y] = q[x], w[x] <= w[y], w[y] <= w[n] PROVE se[y] = se[x]
          <6>1. CASE y = n
            BY <4>4, <6>1
          <6>2. CASE y # n
            BY <2>5, <2>6, <3>2, <4>1, <4>3, <5>1, <5>3, <6>2
          <6> QED BY <6>1, <6>2
        <5> QED BY <1>1, <5>1, <5>2, <5>3
      <4>5. CASE se[x] # s
        <5>1. tl2[se[x]] = t
          BY <1>2, <4>1, <4>2, <4>5
        <5>2. q[t] = q[x] /\ w[x] <= w[t]
          BY <2>5, <2>6, <3>2, <4>1, <4>3
        <5>3. ASSUME NEW y \in Nodes, q[y] = q[x], w[x] <= w[y], w[y] <= w[t] PROVE se[y] = se[x]
          <6>1. CASE y = n
            <7>1. part[a] = part[x] /\ pos[x] <= pos[a] /\ pos[a] < pos[t]
              BY <2>5, <2>6, <3>2, <4>1, <4>3, <5>3, <6>1
            <7>2. pos[a] \in Nat /\ pos[t] \in Nat
              BY <1>1, <1>4, <4>3
            <7>3. se[a] = se[x]
              BY <1>4, <4>3, <7>1, <7>2
            <7> QED BY <2>3, <4>3, <4>5, <7>1, <7>2, <7>3
          <6>2. CASE y # n
            BY <2>5, <2>6, <3>2, <4>1, <4>3, <5>3, <6>2
          <6> QED BY <6>1, <6>2
        <5> QED BY <4>3, <5>1, <5>2, <5>3
      <4> QED BY <4>4, <4>5
    <3> QED BY <3>1, <3>2
  <2>10. Tailed(se, tl2, q, w)
    BY <1>1, <1>2, <2>8, <2>9 DEF Tailed
  <2>11. q[n] # Out
    BY <2>3, <2>6 DEF Out, List, Rest
  <2>12. Grows(se, part, pos, q, w, n)
    <3>1. PICK p \in {List, Rest} : p = part[a]
      BY <2>3
    <3>2. Joins(part, pos, q, w, n, p) /\ (se[n] # NULL => tl2[se[n]] = n)
      BY <1>2, <2>5, <2>6, <3>1 DEF Joins
    <3> QED BY <1>1, <2>7, <2>10, <3>2, JoinsGrow
  <2> QED BY <2>4, <2>6, <2>7, <2>10, <2>11, <2>12
<1>5. CASE a \notin Nodes
  <2>1. ~queued /\ a = HEAD /\ l.prev[HEAD] = HEAD /\ \A x \in Nodes : part[x] # List
    <3>1. ~queued
      BY <1>1, <1>3, <1>5
    <3>2. a = l.prev[HEAD]
      BY <3>1
    <3> QED BY <1>1, <1>5, <3>1, <3>2 DEF HeadRight
  <2>2. PICK q : q = [part EXCEPT ![n] = List]
    OBVIOUS
  <2>3. Shape(r, q, pos)
    BY <2>1, <2>2, InsertedAlone
  <2>4. q \in [Nodes -> Int] /\ q[n] = List /\ \A x \in Nodes : x # n => q[x] = part[x]
    BY <1>1, <2>2 DEF List
  <2>5. Framed(k, q, pos) /\ Grouped(se, rq, k, q)
    <3>1. PICK p \in {List, Rest} : p = List
      OBVIOUS
    <3>2. Joins(part, pos, q, pos, n, p)
      BY <1>1, <2>4, <3>1 DEF Joins
    <3>3. p # Rest
      BY <3>1 DEF List, Rest
    <3> QED BY <1>1, <3>2, <3>3, JoinsFramed
  <2>6. \A u \in Sessions : tl2[u] # NULL => q[tl2[u]] \in {List, Rest} /\ se[tl2[u]] = u
    BY <1>1, <1>2, <1>3, <2>4
  <2>7. ASSUME NEW x \in Nodes, q[x] \in {List, Rest}, se[x] # NULL
        PROVE  /\ tl2[se[x]] # NULL /\ q[tl2[se[x]]] = q[x] /\ pos[x] <= pos[tl2[se[x]]]
               /\ \A y \in Nodes : q[y] = q[x] /\ pos[x] <= pos[y] /\ pos[y] <= pos[tl2[se[x]]]
                    => se[y] = se[x]
    <3>1. CASE x = n
      <4>1. tl2[se[x]] = n
        BY <1>2, <2>7, <3>1
      <4>2. \A y \in Nodes : q[y] = q[n] => y = n
        BY <2>1, <2>4
      <4> QED BY <1>1, <3>1, <4>1, <4>2
    <3>2. CASE x # n
      <4>1. part[x] = q[x] /\ se[x] \in Sessions /\ q[x] # List
        BY <1>1, <2>1, <2>4, <2>7, <3>2
      <4>2. PICK t : t = tl[se[x]]
        OBVIOUS
      <4>3. /\ t # NULL /\ part[t] = part[x] /\ pos[x] <= pos[t] /\ t \in Nodes /\ t # n
            /\ \A y \in Nodes : part[y] = part[x] /\ pos[x] <= pos[y] /\ pos[y] <= pos[t]
                 => se[y] = se[x]
        BY <1>3, <2>7, <4>1, <4>2 DEF Tailed
      <4>4. se[x] # s
        BY <2>1, <2>7, <4>2, <4>3
      <4>5. tl2[se[x]] = t /\ q[t] = q[x]
        BY <1>2, <2>4, <4>1, <4>2, <4>3, <4>4
      <4>6. \A y \in Nodes : q[y] = q[x] => part[y] = part[x]
        BY <2>4, <4>1
      <4> QED BY <4>3, <4>5, <4>6
    <3> QED BY <3>1, <3>2
  <2>8. Tailed(se, tl2, q, pos)
    BY <1>1, <1>2, <2>6, <2>7 DEF Tailed
  <2>9. q[n] # Out
    BY <2>4 DEF Out, List
  <2>10. Grows(se, part, pos, q, pos, n)
    <3>1. PICK p \in {List, Rest} : p = List
      OBVIOUS
    <3>2. Joins(part, pos, q, pos, n, p) /\ (se[n] # NULL => tl2[se[n]] = n)
      BY <1>1, <1>2, <2>4, <3>1 DEF Joins
    <3> QED BY <1>1, <2>5, <2>8, <3>2, JoinsGrow
  <2> QED BY <2>3, <2>4, <2>5, <2>8, <2>9, <2>10
<1> QED BY <1>4, <1>5

\* A pointer of session s becomes NULL.
Dropped(g, f, s) == g = [f EXCEPT ![s] = NULL]

\* removeSessionCb: the nodes of s lose it.
LEMMA SessionClosed ==
  ASSUME NEW l, NEW k, NEW se, NEW tl, NEW rq, NEW po, NEW he, NEW br, NEW part, NEW pos,
         Sound(l, k, se, tl, rq, po, he, br, part, pos), NEW s \in Sessions,
         NEW se2 \in [Nodes -> Sessions \cup {NULL}],
         \A x \in Nodes : se[x] # s => se2[x] = se[x],
         \A x \in Nodes : se[x] = s /\ part[x] # Out => se2[x] = NULL,
         NEW tl2, Dropped(tl2, tl, s), NEW rq2, Dropped(rq2, rq, s), NEW br2, Referred(br2)
  PROVE  Sound(l, k, se2, tl2, rq2, po, he, br2, part, pos)
<1> /\ tl2 = [tl EXCEPT ![s] = NULL] /\ rq2 = [rq EXCEPT ![s] = NULL]
  BY DEF Dropped
<1>1. /\ part \in [Nodes -> Int] /\ pos \in [Nodes -> Nat] /\ NULL \notin Nodes /\ NULL \notin Sessions
      /\ se \in [Nodes -> Sessions \cup {NULL}] /\ tl \in [Sessions -> Nodes \cup {NULL}]
      /\ rq \in [Sessions -> Nodes \cup {NULL}]
      /\ Framed(k, part, pos) /\ Shape(l, part, pos)
      /\ Tailed(se, tl, part, pos) /\ Grouped(se, rq, k, part)
      /\ Placed(po, he, k, part)
  BY EvtcbAssumption DEF Sound, Shape, Tailed, Grouped
<1>2. /\ tl2 \in [Sessions -> Nodes \cup {NULL}] /\ rq2 \in [Sessions -> Nodes \cup {NULL}]
      /\ tl2[s] = NULL /\ rq2[s] = NULL
      /\ \A u \in Sessions : u # s => tl2[u] = tl[u] /\ rq2[u] = rq[u]
  BY <1>1
<1>3. \A x \in Nodes : part[x] # Out => se2[x] = IF se[x] = s THEN NULL ELSE se[x]
  OBVIOUS
<1>4. Tailed(se2, tl2, part, pos)
  <2>1. \A u \in Sessions : tl2[u] # NULL => part[tl2[u]] \in {List, Rest} /\ se2[tl2[u]] = u
    BY <1>1, <1>2 DEF Tailed
  <2>2. ASSUME NEW x \in Nodes, part[x] \in {List, Rest}, se2[x] # NULL
        PROVE  /\ tl2[se2[x]] # NULL /\ part[tl2[se2[x]]] = part[x] /\ pos[x] <= pos[tl2[se2[x]]]
               /\ \A y \in Nodes : part[y] = part[x] /\ pos[x] <= pos[y] /\ pos[y] <= pos[tl2[se2[x]]]
                    => se2[y] = se2[x]
    <3>1. se[x] # s /\ se2[x] = se[x] /\ se[x] \in Sessions
      BY <1>1, <1>3, <2>2 DEF Out, List, Rest
    <3>2. /\ tl[se[x]] # NULL /\ part[tl[se[x]]] = part[x] /\ pos[x] <= pos[tl[se[x]]]
          /\ \A y \in Nodes : part[y] = part[x] /\ pos[x] <= pos[y] /\ pos[y] <= pos[tl[se[x]]]
               => se[y] = se[x]
      BY <1>1, <2>2, <3>1 DEF Tailed
    <3> QED BY <1>2, <3>1, <3>2
  <2> QED BY <1>2, <2>1, <2>2 DEF Tailed
<1>5. Grouped(se2, rq2, k, part)
  <2>1. \A u \in Sessions : rq2[u] # NULL => part[rq2[u]] > 0 /\ se2[rq2[u]] = u
    BY <1>1, <1>2 DEF Grouped
  <2>2. ASSUME NEW x \in Nodes, part[x] > 0, se2[x] # NULL
        PROVE  rq2[se2[x]] = k[part[x]].next /\ k[part[x]].of \in {NULL, se2[x]}
    <3>1. se[x] # s /\ se2[x] = se[x] /\ se[x] \in Sessions
      BY <1>1, <1>3, <2>2 DEF Out
    <3> QED BY <1>1, <1>2, <2>2, <3>1 DEF Grouped
  <2>3. ASSUME NEW x \in Nodes, NEW y \in Nodes, part[x] = part[y], part[y] > 0
        PROVE  se2[x] = se2[y]
    <3>1. se[x] = se[y] /\ part[x] # Out
      BY <1>1, <2>3 DEF Grouped, Out
    <3> QED BY <1>3, <2>3, <3>1
  <2> QED BY <1>2, <2>1, <2>2, <2>3 DEF Grouped
<1> QED BY <1>1, <1>4, <1>5 DEF Sound

\* What the two walks of removeSessionCb meet.
LEMMA WalksMeet ==
  ASSUME NEW l, NEW k, NEW se, NEW tl, NEW rq, NEW po, NEW he, NEW br, NEW part, NEW pos,
         Sound(l, k, se, tl, rq, po, he, br, part, pos), NEW s \in Sessions,
         NEW S, S = {x \in Nodes : se[x] = s}
  PROVE  /\ Walk(l.prev, tl[s], S) = {x \in S : part[x] \in {List, Rest}}
         /\ tl[s] # NULL => Walk(l.prev, tl[s], S) = {x \in S : part[x] = part[tl[s]]}
         /\ Walk(l.next, rq[s], S) = {x \in S : part[x] > 0}
<1>1. /\ part \in [Nodes -> Int] /\ pos \in [Nodes -> Nat] /\ NULL \notin Nodes /\ NULL \notin Sessions
      /\ se \in [Nodes -> Sessions \cup {NULL}] /\ tl \in [Sessions -> Nodes \cup {NULL}]
      /\ rq \in [Sessions -> Nodes \cup {NULL}]
      /\ Framed(k, part, pos) /\ Shape(l, part, pos)
      /\ Tailed(se, tl, part, pos) /\ Grouped(se, rq, k, part)
  BY EvtcbAssumption DEF Sound, Shape, Tailed, Grouped
<1>2. S \in SUBSET Nodes /\ NULL \notin S /\ \A x \in Nodes : x \in S <=> se[x] = s
  BY <1>1
<1>3. /\ Walk(l.prev, tl[s], S) = {x \in S : part[x] \in {List, Rest}}
      /\ tl[s] # NULL => Walk(l.prev, tl[s], S) = {x \in S : part[x] = part[tl[s]]}
  <2>1. CASE tl[s] = NULL
    <3>1. Walk(l.prev, tl[s], S) = {}
      BY <1>2, <2>1, WalkNowhere
    <3>2. \A x \in S : part[x] \notin {List, Rest}
      BY <1>1, <1>2, <2>1 DEF Tailed
    <3> QED BY <2>1, <3>1, <3>2
  <2>2. CASE tl[s] # NULL
    <3>1. PICK t \in Nodes : t = tl[s]
      BY <1>1, <2>2
    <3>2. t \in S /\ part[t] \in {List, Rest}
      BY <1>1, <1>2, <2>2, <3>1 DEF Tailed
    <3>3. ASSUME NEW x \in S, part[x] = part[t]
          PROVE  /\ pos[x] <= pos[t]
                 /\ \A y \in Nodes : part[y] = part[t] /\ pos[x] <= pos[y] /\ pos[y] <= pos[t] => y \in S
      BY <1>1, <1>2, <3>1, <3>2, <3>3 DEF Tailed
    <3>4. part[t] # Out
      BY <3>2 DEF Out, List, Rest
    <3>5. Walk(l.prev, t, S) = {x \in S : part[x] = part[t]}
      BY <1>1, <1>2, <3>2, <3>3, <3>4, WalkBack
    <3>6. \A x \in S : part[x] \in {List, Rest} <=> part[x] = part[t]
      BY <1>1, <1>2, <3>1, <3>2 DEF Tailed
    <3> QED BY <3>1, <3>5, <3>6
  <2> QED BY <2>1, <2>2
<1>4. Walk(l.next, rq[s], S) = {x \in S : part[x] > 0}
  <2>1. \A x \in S : part[x] > 0 => /\ part[x] \in 1 .. Len(k) /\ rq[s] = k[part[x]].next
                                    /\ First(part, pos, part[x], rq[s])
    <3>1. ASSUME NEW x \in S, part[x] > 0
          PROVE  /\ part[x] \in 1 .. Len(k) /\ rq[s] = k[part[x]].next
                 /\ First(part, pos, part[x], rq[s])
      <4>1. part[x] \in {Out, Rest, List} \cup 1 .. Len(k)
        BY <1>1, <1>2 DEF Framed
      <4>2. part[x] \in 1 .. Len(k)
        BY <3>1, <4>1 DEF Out, Rest, List
      <4>3. se[x] = s /\ s # NULL
        BY <1>1, <1>2
      <4>4. rq[s] = k[part[x]].next
        BY <1>1, <1>2, <3>1, <4>3 DEF Grouped
      <4> QED BY <1>1, <4>2, <4>4 DEF Framed
    <3> QED BY <3>1
  <2>2. CASE rq[s] = NULL
    <3>1. Walk(l.next, rq[s], S) = {}
      BY <1>2, <2>2, WalkNowhere
    <3>2. \A x \in S : ~(part[x] > 0)
      BY <1>2, <2>1, <2>2 DEF First
    <3> QED BY <3>1, <3>2
  <2>3. CASE rq[s] # NULL
    <3>1. PICK n \in Nodes : n = rq[s]
      BY <1>1, <2>3
    <3>2. n \in S /\ part[n] > 0
      BY <1>1, <1>2, <2>3, <3>1 DEF Grouped
    <3>3. First(part, pos, part[n], n)
      BY <2>1, <3>1, <3>2
    <3>4. \A x \in Nodes : part[x] = part[n] => x \in S /\ pos[n] <= pos[x]
      BY <1>1, <1>2, <3>2, <3>3 DEF Grouped, First
    <3>5. part[n] # Out
      BY <3>2 DEF Out
    <3>6. Walk(l.next, n, S) = {x \in Nodes : part[x] = part[n] /\ pos[n] <= pos[x]}
      BY <1>1, <1>2, <3>2, <3>4, <3>5, WalkOn
    <3>7. \A x \in S : part[x] > 0 => part[x] = part[n]
      BY <1>1, <2>1, <3>1 DEF First
    <3> QED BY <1>2, <3>1, <3>2, <3>4, <3>6, <3>7
  <2> QED BY <2>2, <2>3
<1> QED BY <1>3, <1>4

\* runOne recycles the node of the innermost call.
LEMMA NodeReturns ==
  ASSUME NEW l, NEW k, NEW se, NEW tl, NEW rq, NEW po, NEW he, NEW br, NEW part, NEW pos,
         Sound(l, k, se, tl, rq, po, he, br, part, pos),
         NEW d \in Nat, NEW n \in Nodes, k[d].cur = n,
         NEW j, Topped(j, k, d), j[d].cur = NULL, j[d].next = k[d].next,
         NEW r, r = SetPrev(SetNext(l, n, NULL), n, NULL),
         NEW se2, se2 = [se EXCEPT ![n] = NULL], NEW po2, po2 = po \cup {n}
  PROVE  Sound(r, j, se2, tl, rq, po2, he, br, part, pos)
<1>1. /\ part \in [Nodes -> Int] /\ NULL \notin Nodes /\ NULL \notin Sessions
      /\ se \in [Nodes -> Sessions \cup {NULL}] /\ Len(k) = d /\ d \in 1 .. d
      /\ Framed(k, part, pos) /\ Shape(l, part, pos)
      /\ Tailed(se, tl, part, pos) /\ Grouped(se, rq, k, part)
      /\ Placed(po, he, k, part) /\ Referred(br)
  BY EvtcbAssumption DEF Sound, Shape, Tailed, Topped
<1>2. /\ j \in Seq(Frames) /\ Len(j) = d
      /\ \A i \in 1 .. d : j[i].of = k[i].of /\ j[i].rest = k[i].rest /\ j[i].next = k[i].next
      /\ \A i \in 1 .. d : i # d => j[i].cur = k[i].cur
      /\ j[d].cur = NULL
  BY DEF Topped
<1>3. /\ po \subseteq Nodes /\ he \subseteq Nodes /\ po \cap he = {}
      /\ \A x \in po \cup he : part[x] = Out
      /\ \A i \in 1 .. d : k[i].cur # NULL => part[k[i].cur] = Out /\ k[i].cur \notin po \cup he
      /\ \A i, h \in 1 .. d : k[i].cur # NULL /\ k[i].cur = k[h].cur => i = h
      /\ \A x \in Nodes : part[x] = Out => x \in po \cup he \/ \E i \in 1 .. d : k[i].cur = x
  BY <1>1 DEF Placed
<1>4. part[n] = Out /\ n \notin po \cup he
  BY <1>1, <1>3
<1>5. Shape(r, part, pos)
  BY <1>1, <1>4, Cleared
<1>6. Framed(j, part, pos)
  <2>1. \A x, y \in 1 .. d : k[x].of = k[y].of => x = y
    BY <1>1 DEF Framed
  <2>2. \A i \in 1 .. d : First(part, pos, i, j[i].next)
    BY <1>1, <1>2 DEF Framed
  <2>3. IF d = 1 THEN First(part, pos, Rest, j[1].rest) ELSE \A x \in Nodes : part[x] # Rest
    BY <1>1, <1>2 DEF Framed
  <2> QED BY <1>1, <1>2, <2>1, <2>2, <2>3 DEF Framed
<1>7. /\ se2 \in [Nodes -> Sessions \cup {NULL}]
      /\ \A x \in Nodes : x # n => se2[x] = se[x]
      /\ \A x \in Nodes : part[x] # Out => se2[x] = se[x]
  BY <1>1, <1>4
<1>8. Tailed(se2, tl, part, pos) /\ Grouped(se2, rq, k, part)
  BY <1>1, <1>7, SessionOfOut
<1>9. Grouped(se2, rq, j, part)
  <2>1. \A x \in Nodes : part[x] > 0 => part[x] \in 1 .. d
    <3>1. \A x \in Nodes : part[x] \in {Out, Rest, List} \cup 1 .. d
      BY <1>1 DEF Framed
    <3> QED BY <3>1 DEF Out, Rest, List
  <2> QED BY <1>2, <1>8, <2>1 DEF Grouped
<1>10. Placed(po2, he, j, part)
  <2>1. \A i \in 1 .. d : j[i].cur # NULL => i # d /\ j[i].cur = k[i].cur /\ k[i].cur # n
    BY <1>1, <1>2, <1>3
  <2>2. \A i \in 1 .. d : j[i].cur # NULL => part[j[i].cur] = Out /\ j[i].cur \notin po2 \cup he
    BY <1>3, <2>1
  <2>3. \A i, h \in 1 .. d : j[i].cur # NULL /\ j[i].cur = j[h].cur => i = h
    BY <1>3, <2>1
  <2>4. ASSUME NEW x \in Nodes, part[x] = Out
        PROVE  x \in po2 \cup he \/ \E i \in 1 .. d : j[i].cur = x
    <3>1. x \in po \cup he \/ \E i \in 1 .. d : k[i].cur = x
      BY <1>3, <2>4
    <3> QED BY <1>1, <1>2, <3>1
  <2>5. po2 \subseteq Nodes /\ po2 \cap he = {} /\ \A x \in po2 \cup he : part[x] = Out
    BY <1>3, <1>4
  <2> QED BY <1>2, <1>3, <2>2, <2>3, <2>4, <2>5 DEF Placed
<1>11. Referred(br)
  BY <1>1
<1> QED BY <1>5, <1>6, <1>8, <1>9, <1>10, <1>11 DEF Sound

\* A call that has nothing left returns.
LEMMA CallEnds ==
  ASSUME NEW l, NEW k, NEW se, NEW tl, NEW rq, NEW po, NEW he, NEW br, NEW part, NEW pos,
         Sound(l, k, se, tl, rq, po, he, br, part, pos),
         NEW d \in Nat, Len(k) = d, d > 0, k[d].cur = NULL, k[d].next = NULL, k[d].rest = NULL,
         NEW j \in Seq(Frames), Len(j) = d - 1, \A i \in 1 .. (d - 1) : j[i] = k[i]
  PROVE  Sound(l, j, se, tl, rq, po, he, br, part, pos)
<1>1. /\ NULL \notin Nodes /\ part \in [Nodes -> Int]
      /\ Framed(k, part, pos) /\ Shape(l, part, pos)
      /\ Tailed(se, tl, part, pos) /\ Grouped(se, rq, k, part)
      /\ Placed(po, he, k, part) /\ Referred(br)
  BY EvtcbAssumption DEF Sound, Shape
<1>2. /\ \A i \in 1 .. (d - 1) : i \in 1 .. d
      /\ \A i \in 1 .. d : i = d \/ i \in 1 .. (d - 1)
      /\ d \in 1 .. d
  OBVIOUS
<1>3. \A x \in Nodes : part[x] # d
  <2>1. First(part, pos, d, NULL)
    BY <1>1, <1>2 DEF Framed
  <2> QED BY <2>1 DEF First
<1>4. \A x \in Nodes : part[x] \in {Out, Rest, List} \cup 1 .. (d - 1)
  <2>1. \A x \in Nodes : part[x] \in {Out, Rest, List} \cup 1 .. d
    BY <1>1 DEF Framed
  <2> QED BY <1>2, <1>3, <2>1
<1>5. Framed(j, part, pos)
  <2>1. \A i \in 1 .. (d - 1) : First(part, pos, i, j[i].next)
    BY <1>1, <1>2 DEF Framed
  <2>2. \A i \in 1 .. (d - 1) : k[i].of # NULL /\ k[i].rest = NULL
    BY <1>1, <1>2 DEF Framed
  <2>3. \A x \in Nodes : part[x] # Rest
    <3>1. CASE d = 1
      <4>1. First(part, pos, Rest, NULL)
        BY <1>1, <3>1 DEF Framed
      <4> QED BY <4>1 DEF First
    <3>2. CASE d # 1
      BY <1>1, <3>2 DEF Framed
    <3> QED BY <3>1, <3>2
  <2>4. d - 1 = 1 => First(part, pos, Rest, j[1].rest)
    BY <2>2, <2>3 DEF First
  <2>5. \A x, y \in 1 .. d : k[x].of = k[y].of => x = y
    BY <1>1 DEF Framed
  <2> QED BY <1>2, <1>4, <2>1, <2>2, <2>3, <2>4, <2>5 DEF Framed
<1>6. Grouped(se, rq, j, part)
  <2>1. \A x \in Nodes : part[x] > 0 => part[x] \in 1 .. (d - 1)
    BY <1>4 DEF Out, Rest, List
  <2> QED BY <1>1, <2>1 DEF Grouped
<1>7. Placed(po, he, j, part)
  <2>1. /\ po \subseteq Nodes /\ he \subseteq Nodes /\ po \cap he = {}
        /\ \A x \in po \cup he : part[x] = Out
        /\ \A i \in 1 .. d : k[i].cur # NULL => part[k[i].cur] = Out /\ k[i].cur \notin po \cup he
        /\ \A i, h \in 1 .. d : k[i].cur # NULL /\ k[i].cur = k[h].cur => i = h
        /\ \A x \in Nodes : part[x] = Out => x \in po \cup he \/ \E i \in 1 .. d : k[i].cur = x
    BY <1>1 DEF Placed
  <2>2. ASSUME NEW x \in Nodes, part[x] = Out
        PROVE  x \in po \cup he \/ \E i \in 1 .. (d - 1) : j[i].cur = x
    <3>1. x \in po \cup he \/ \E i \in 1 .. d : k[i].cur = x
      BY <2>1, <2>2
    <3> QED BY <1>1, <1>2, <3>1
  <2>3. \A i \in 1 .. (d - 1) : j[i].cur # NULL => part[j[i].cur] = Out /\ j[i].cur \notin po \cup he
    BY <1>2, <2>1
  <2>4. \A i, h \in 1 .. (d - 1) : j[i].cur # NULL /\ j[i].cur = j[h].cur => i = h
    BY <1>2, <2>1
  <2> QED BY <2>1, <2>2, <2>3, <2>4 DEF Placed
<1>8. Referred(br)
  BY <1>1
<1> QED BY <1>1, <1>5, <1>6, <1>7, <1>8 DEF Sound

(***************************************************************************)
(* The order in which the nodes of a session start.                        *)
(***************************************************************************)
\* The nodes that wait for s.
Row(se, part, s) == {x \in Nodes : se[x] = s /\ part[x] # Out}

\* The nodes of a session that wait are in at most one group that runs and in
\* one of the list and the part that run() has detached.
LEMMA RowParts ==
  ASSUME NEW l, NEW k, NEW se, NEW tl, NEW rq, NEW po, NEW he, NEW br, NEW part, NEW pos,
         Sound(l, k, se, tl, rq, po, he, br, part, pos), NEW s \in Sessions,
         NEW m \in Row(se, part, s), NEW n \in Row(se, part, s)
  PROVE  /\ part[m] \in Int /\ part[n] \in Int /\ pos[m] \in Nat /\ pos[n] \in Nat
         /\ part[m] > 0 /\ part[n] > 0 => part[m] = part[n]
         /\ ~(part[m] > 0) /\ ~(part[n] > 0) => part[m] = part[n]
         /\ part[m] = part[n] /\ pos[m] = pos[n] => m = n
         /\ ~(part[m] > 0) => part[m] \in {List, Rest}
<1>1. /\ part \in [Nodes -> Int] /\ pos \in [Nodes -> Nat] /\ NULL \notin Nodes /\ NULL \notin Sessions
      /\ se \in [Nodes -> Sessions \cup {NULL}] /\ rq \in [Sessions -> Nodes \cup {NULL}]
      /\ Framed(k, part, pos) /\ Shape(l, part, pos)
      /\ Tailed(se, tl, part, pos) /\ Grouped(se, rq, k, part)
  BY EvtcbAssumption DEF Sound, Shape, Tailed, Grouped
<1>2. /\ m \in Nodes /\ n \in Nodes /\ se[m] = s /\ se[n] = s /\ part[m] # Out /\ part[n] # Out
      /\ se[m] # NULL /\ se[n] # NULL
  BY <1>1 DEF Row
<1>3. \A x \in Nodes : part[x] \in {Out, Rest, List} \cup 1 .. Len(k)
  BY <1>1 DEF Framed
<1>4. ASSUME NEW x \in {m, n}, ~(part[x] > 0) PROVE part[x] \in {List, Rest}
  <2>1. part[x] \in {Out, Rest, List} \cup 1 .. Len(k) /\ part[x] # Out
    BY <1>2, <1>3
  <2> QED BY <1>4, <2>1
<1>5. ASSUME ~(part[m] > 0), ~(part[n] > 0) PROVE part[m] = part[n]
  <2>1. part[m] \in {List, Rest} /\ part[n] \in {List, Rest}
    BY <1>4, <1>5
  <2>2. part[tl[s]] = part[m] /\ part[tl[s]] = part[n]
    BY <1>1, <1>2, <2>1 DEF Tailed
  <2> QED BY <2>2
<1>6. ASSUME part[m] > 0, part[n] > 0 PROVE part[m] = part[n]
  <2>1. k[part[m]].next = k[part[n]].next
    BY <1>1, <1>2, <1>6 DEF Grouped
  <2>2. part[m] \in 1 .. Len(k) /\ part[n] \in 1 .. Len(k)
    BY <1>2, <1>3, <1>6 DEF Out, List, Rest
  <2>3. First(part, pos, part[m], k[part[m]].next) /\ First(part, pos, part[n], k[part[n]].next)
    BY <1>1, <2>2 DEF Framed
  <2>4. k[part[m]].next # NULL
    BY <1>2, <2>3 DEF First
  <2> QED BY <2>1, <2>3, <2>4 DEF First
<1>7. part[m] = part[n] /\ pos[m] = pos[n] => m = n
  BY <1>1, <1>2 DEF Shape
<1> QED BY <1>1, <1>2, <1>4, <1>5, <1>6, <1>7

\* Nodes change their part and nothing about the order changes.
OrderSame(se, part, pos, q) ==
  /\ \A x \in Nodes : q[x] = Out <=> part[x] = Out
  /\ \A x, y \in Nodes : se[x] = se[y] /\ se[x] # NULL /\ part[x] # Out /\ part[y] # Out
       => (Before(q, pos, x, y) <=> Before(part, pos, x, y))

\* What starts first after that would have started first before.
LEMMA ShrinksLater ==
  ASSUME NEW se, NEW part, NEW pos, NEW q, NEW q2, NEW n \in Nodes,
         OrderSame(se, part, pos, q), Shrinks(se, q, pos, q2, pos, n)
  PROVE  Shrinks(se, part, pos, q2, pos, n)
<1>1. /\ \A x \in Nodes : q[x] = Out <=> part[x] = Out
      /\ q[n] # Out /\ q2[n] = Out /\ \A x \in Nodes : x # n => (q2[x] = Out <=> q[x] = Out)
  BY DEF OrderSame, Shrinks
<1>2. SameOrder(se, part, pos, q2, pos, n)
  <2>1. ASSUME NEW x \in Nodes, NEW y \in Nodes, x # n, y # n, se[x] = se[y], se[x] # NULL,
               part[x] # Out, part[y] # Out
        PROVE  Before(q2, pos, x, y) <=> Before(part, pos, x, y)
    <3>1. Before(q, pos, x, y) <=> Before(part, pos, x, y)
      BY <2>1 DEF OrderSame
    <3>2. Before(q2, pos, x, y) <=> Before(q, pos, x, y)
      BY <1>1, <2>1 DEF Shrinks, SameOrder
    <3> QED BY <3>1, <3>2
  <2> QED BY <2>1 DEF SameOrder
<1>3. ASSUME NEW x \in Nodes, se[n] # NULL, se[x] = se[n], part[x] # Out PROVE Before(part, pos, n, x)
  <2>1. Before(q, pos, n, x)
    BY <1>1, <1>3 DEF Shrinks
  <2> QED BY <1>1, <1>3, <2>1 DEF OrderSame
<1> QED BY <1>1, <1>2, <1>3 DEF Shrinks

\* The first node of the group in hand is the first of its session.
LEMMA StartsFirst ==
  ASSUME NEW l, NEW k, NEW se, NEW tl, NEW rq, NEW po, NEW he, NEW br, NEW part, NEW pos,
         Sound(l, k, se, tl, rq, po, he, br, part, pos),
         NEW d \in Nat, d = Len(k), d > 0, NEW n \in Nodes, k[d].next = n,
         NEW q, q = [part EXCEPT ![n] = Out]
  PROVE  Shrinks(se, part, pos, q, pos, n)
<1>1. /\ part \in [Nodes -> Int] /\ pos \in [Nodes -> Nat] /\ NULL \notin Nodes
      /\ Framed(k, part, pos) /\ Grouped(se, rq, k, part)
  BY EvtcbAssumption DEF Sound, Shape
<1>2. First(part, pos, d, n)
  BY <1>1 DEF Framed
<1>3. part[n] = d /\ \A x \in Nodes : part[x] = d => pos[n] <= pos[x]
  BY <1>1, <1>2 DEF First
<1>4. part[n] # Out /\ part[n] > 0
  BY <1>3 DEF Out
<1>5. q[n] = Out /\ \A x \in Nodes : x # n => q[x] = part[x]
  BY <1>1
<1>6. SameOrder(se, part, pos, q, pos, n)
  BY <1>5 DEF SameOrder, Before
<1>7. ASSUME NEW x \in Nodes, se[n] # NULL, se[x] = se[n], part[x] # Out PROVE Before(part, pos, n, x)
  <2>1. CASE ~(part[x] > 0)
    BY <1>4, <2>1 DEF Before
  <2>2. CASE part[x] > 0
    <3>1. k[part[x]].next = k[part[n]].next
      BY <1>4, <1>7, <2>2, <1>1 DEF Grouped
    <3>2. part[x] \in 1 .. Len(k)
      <4>1. part[x] \in {Out, Rest, List} \cup 1 .. Len(k)
        BY <1>1 DEF Framed
      <4> QED BY <2>2, <4>1 DEF Out, Rest, List
    <3>3. First(part, pos, part[x], n)
      BY <1>1, <1>3, <3>1, <3>2 DEF Framed
    <3>4. part[x] = part[n]
      BY <1>1, <3>3 DEF First
    <3> QED BY <1>3, <3>4 DEF Before
  <2> QED BY <2>1, <2>2
<1> QED BY <1>4, <1>5, <1>6, <1>7 DEF Shrinks

\* The piece from n to t is all of the session of n in part p, or n alone.
Piece(se, tl, part, pos, p, n, t) ==
  /\ part[n] = p /\ part[t] = p
  /\ se[n] = NULL => t = n
  /\ se[n] # NULL => t = tl[se[n]] /\ \A x \in Nodes : part[x] = p /\ se[x] = se[n] => pos[n] <= pos[x]

\* When it is cut off and is then in hand, the order stays.
LEMMA PieceInOrder ==
  ASSUME NEW l, NEW k, NEW se, NEW tl, NEW rq, NEW po, NEW he, NEW br, NEW part, NEW pos,
         Sound(l, k, se, tl, rq, po, he, br, part, pos),
         NEW p \in {List, Rest}, NEW n \in Nodes, NEW t \in Nodes, Piece(se, tl, part, pos, p, n, t),
         NEW g \in Nat, g > 0, \A x \in Nodes : part[x] # g,
         NEW q, q = Moved(part, pos, p, pos[n], pos[t], g),
         NEW r, NEW j, NEW tl2, NEW rq2,
         Sound(r, j, se, tl2, rq2, po, he, br, q, pos)
  PROVE  OrderSame(se, part, pos, q)
<1>1. /\ part \in [Nodes -> Int] /\ pos \in [Nodes -> Nat] /\ NULL \notin Nodes /\ NULL \notin Sessions
      /\ se \in [Nodes -> Sessions \cup {NULL}] /\ Tailed(se, tl, part, pos) /\ Shape(l, part, pos)
  BY EvtcbAssumption DEF Sound, Shape, Tailed
<1>2. PICK B : B = Between(part, pos, p, pos[n], pos[t])
  OBVIOUS
<1>3. \A x \in Nodes : /\ x \in B <=> part[x] = p /\ pos[n] <= pos[x] /\ pos[x] <= pos[t]
                       /\ x \in B => q[x] = g
                       /\ x \notin B => q[x] = part[x]
  BY <1>2 DEF Moved, Between
<1>4. p # Out /\ ~(p > 0) /\ g # Out
  BY DEF List, Rest, Out
<1>5. \A x \in Nodes : q[x] = Out <=> part[x] = Out
  BY <1>3, <1>4
<1>6. ASSUME NEW x \in Nodes, NEW y \in Nodes, x \in B, part[y] = p, se[x] = se[y], se[x] # NULL
      PROVE  y \in B
  <2>1. part[x] = p /\ pos[n] <= pos[x] /\ pos[x] <= pos[t] /\ part[n] = p /\ part[t] = p
    BY <1>3, <1>6 DEF Piece
  <2>2. CASE se[n] = NULL
    <3>1. t = n
      BY <2>2 DEF Piece
    <3>2. pos[x] = pos[n]
      BY <1>1, <2>1, <3>1
    <3>3. x = n
      BY <1>1, <1>4, <2>1, <3>2 DEF Shape
    <3> QED BY <1>6, <2>2, <3>3
  <2>3. CASE se[n] # NULL
    <3>1. t = tl[se[n]] /\ \A z \in Nodes : part[z] = p /\ se[z] = se[n] => pos[n] <= pos[z]
      BY <2>3 DEF Piece
    <3>2. se[x] = se[n]
      BY <1>1, <2>1, <2>3, <3>1 DEF Tailed
    <3>3. pos[n] <= pos[y] /\ pos[y] <= pos[t]
      <4>1. se[y] = se[n] /\ part[y] \in {List, Rest}
        BY <1>6, <3>2
      <4>2. pos[n] <= pos[y]
        BY <1>6, <3>1, <4>1
      <4>3. pos[y] <= pos[tl[se[y]]]
        BY <1>1, <2>3, <4>1 DEF Tailed
      <4> QED BY <3>1, <4>1, <4>2, <4>3
    <3> QED BY <1>3, <1>6, <3>3
  <2> QED BY <2>2, <2>3
<1>7. ASSUME NEW x \in Nodes, NEW y \in Nodes, se[x] = se[y], se[x] # NULL,
             part[x] # Out, part[y] # Out, x \in B
      PROVE  y \in B
  <2>1. SUFFICES ASSUME y \notin B PROVE FALSE
    OBVIOUS
  <2>2. PICK s \in Sessions : s = se[x]
    BY <1>1, <1>7
  <2>3. x \in Row(se, part, s) /\ y \in Row(se, part, s) /\ x \in Row(se, q, s) /\ y \in Row(se, q, s)
    BY <1>5, <1>7, <2>2 DEF Row
  <2>4. part[x] = p /\ q[x] = g /\ q[y] = part[y]
    BY <1>3, <1>7, <2>1
  <2>5. ~(part[x] > 0) /\ ~(part[y] > 0) => part[x] = part[y]
    BY <2>3, RowParts
  <2>6. q[x] > 0 /\ q[y] > 0 => q[x] = q[y]
    BY <2>3, RowParts
  <2>7. part[y] > 0
    BY <1>4, <1>6, <1>7, <2>1, <2>4, <2>5
  <2> QED BY <2>4, <2>6, <2>7
<1>8. ASSUME NEW x \in Nodes, NEW y \in Nodes, se[x] = se[y], se[x] # NULL,
             part[x] # Out, part[y] # Out
      PROVE  Before(q, pos, x, y) <=> Before(part, pos, x, y)
  <2>1. x \in B <=> y \in B
    BY <1>7, <1>8
  <2>2. CASE x \in B
    <3>1. part[x] = p /\ part[y] = p /\ q[x] = g /\ q[y] = g
      BY <1>3, <2>1, <2>2
    <3> QED BY <1>4, <3>1 DEF Before
  <2>3. CASE x \notin B
    <3>1. q[x] = part[x] /\ q[y] = part[y]
      BY <1>3, <2>1, <2>3
    <3> QED BY <3>1 DEF Before
  <2> QED BY <2>2, <2>3
<1> QED BY <1>5, <1>8 DEF OrderSame

\* run() takes the list in hand as it is.
LEMMA ListInOrder ==
  ASSUME NEW se, NEW part, NEW pos \in [Nodes -> Nat], NEW q,
         \A x \in Nodes : part[x] \in {Out, List},
         \A x \in Nodes : q[x] = IF part[x] = List THEN Rest ELSE part[x]
  PROVE  OrderSame(se, part, pos, q)
<1>1. \A x \in Nodes : q[x] = Out <=> part[x] = Out
  BY DEF Out, List, Rest
<1>2. ASSUME NEW x \in Nodes, NEW y \in Nodes, part[x] # Out, part[y] # Out
      PROVE  Before(q, pos, x, y) <=> Before(part, pos, x, y)
  <2>1. part[x] = List /\ part[y] = List /\ q[x] = Rest /\ q[y] = Rest
    BY <1>2
  <2> QED BY <2>1 DEF Before, List, Rest
<1> QED BY <1>1, <1>2 DEF OrderSame

(***************************************************************************)
(* The actions.                                                            *)
(***************************************************************************)
State(part, pos) == Sound(link, stack, sess, tail, runq, pool, held, backref, part, pos)

\* At the start all nodes are free and the list is empty.
LEMMA InitInv == Init => IInv
<1> SUFFICES ASSUME Init PROVE IInv
  OBVIOUS
<1> DEFINE part == [x \in Nodes |-> Out]
           pos == [x \in Nodes |-> 0]
<1>1. HEAD \notin Nodes /\ NULL \notin Nodes /\ NULL \notin Sessions /\ HEAD # NULL
  BY EvtcbAssumption
<1>2. \A x \in Nodes : part[x] = Out /\ part[x] # List /\ part[x] # Rest /\ ~(part[x] > 0)
  BY DEF Out, List, Rest
<1>3. Shape(link, part, pos)
  <2>1. link \in Links
    BY DEF Init, Links, Cells, Targets
  <2>2. link.next[HEAD] = HEAD /\ link.prev[HEAD] = HEAD
    BY DEF Init
  <2>3. part \in [Nodes -> Int] /\ pos \in [Nodes -> Nat]
    BY DEF Out
  <2>4. HeadRight(link, part, pos)
    BY <1>1, <1>2, <2>2 DEF HeadRight
  <2> HIDE DEF part, pos
  <2> QED BY <1>2, <2>1, <2>3, <2>4 DEF Shape
<1>4. stack = <<>> /\ stack \in Seq(Frames) /\ Len(stack) = 0 /\ 1 .. 0 = {}
  BY DEF Init
<1> HIDE DEF part, pos
<1>5. Framed(stack, part, pos)
  BY <1>2, <1>4 DEF Framed
<1>6. Tailed(sess, tail, part, pos) /\ Grouped(sess, runq, stack, part)
  BY <1>2 DEF Init, Tailed, Grouped
<1>7. Placed(pool, held, stack, part)
  <2>1. pool = Nodes /\ held = {}
    BY DEF Init
  <2> QED BY <1>2, <1>4, <2>1 DEF Placed
<1>8. Referred(backref)
  BY DEF Init, Referred
<1>9. cb \in [Nodes -> BOOLEAN]
  BY DEF Init
<1> QED BY <1>3, <1>5, <1>6, <1>7, <1>8, <1>9 DEF IInv, Sound

\* A free or prepared node that joins the list is in no other place.
LEMMA JoinsPlaces ==
  ASSUME NEW po, NEW he, NEW k, NEW part, NEW q, Placed(po, he, k, part),
         k \in Seq(Frames), NULL \notin Nodes, NEW n \in po \cup he, q[n] # Out, \A x \in Nodes : x # n => q[x] = part[x]
  PROVE  Placed(po \ {n}, he \ {n}, k, q)
<1>1. /\ po \subseteq Nodes /\ he \subseteq Nodes /\ po \cap he = {}
      /\ \A x \in po \cup he : part[x] = Out
      /\ \A i \in 1 .. Len(k) : k[i].cur # NULL => part[k[i].cur] = Out /\ k[i].cur \notin po \cup he
      /\ \A i, h \in 1 .. Len(k) : k[i].cur # NULL /\ k[i].cur = k[h].cur => i = h
      /\ \A x \in Nodes : part[x] = Out => x \in po \cup he \/ \E i \in 1 .. Len(k) : k[i].cur = x
  BY DEF Placed
<1>2. \A i \in 1 .. Len(k) : k[i].cur # NULL => k[i].cur \in Nodes
  BY FrameTypes
<1>3. \A i \in 1 .. Len(k) : k[i].cur # NULL =>
        q[k[i].cur] = Out /\ k[i].cur \notin (po \ {n}) \cup (he \ {n})
  BY <1>1, <1>2
<1>4. \A x \in (po \ {n}) \cup (he \ {n}) : q[x] = Out
  BY <1>1
<1>5. \A x \in Nodes : q[x] = Out =>
        x \in (po \ {n}) \cup (he \ {n}) \/ \E i \in 1 .. Len(k) : k[i].cur = x
  BY <1>1
<1> QED BY <1>1, <1>3, <1>4, <1>5 DEF Placed

\* A step with which n comes to wait.
StepGrows(n) ==
  \E part, pos, q, w :
    /\ State(part, pos)
    /\ Sound(link', stack', sess', tail', runq', pool', held', backref', q, w)
    /\ Grows(sess', part, pos, q, w, n)

\* schedule and schedule_once put a free node into the list of a sound queue.
LEMMA ScheduleKeeps ==
  ASSUME IInv, NEW n \in Nodes, NEW s \in Sessions \cup {NULL}, Schedule(n, s)
  PROVE  IInv' /\ StepGrows(n)
<1>1. PICK part, pos : State(part, pos)
  BY DEF IInv, State
<1>2. /\ Shape(link, part, pos) /\ Framed(stack, part, pos)
      /\ Tailed(sess, tail, part, pos) /\ Grouped(sess, runq, stack, part)
      /\ Placed(pool, held, stack, part) /\ Referred(backref)
      /\ sess \in [Nodes -> Sessions \cup {NULL}] /\ stack \in Seq(Frames)
      /\ NULL \notin Nodes
  BY <1>1, EvtcbAssumption DEF State, Sound, Tailed, Framed
<1>3. /\ n \in pool /\ pool' = pool \ {n} /\ sess' = [sess EXCEPT ![n] = s]
      /\ cb' = [cb EXCEPT ![n] = TRUE] /\ held' = held /\ runq' = runq
      /\ backref' = backref /\ stack' = stack
  BY DEF Schedule
<1>4. part[n] = Out /\ n \notin held
  BY <1>2, <1>3 DEF Placed
<1>5. /\ sess' \in [Nodes -> Sessions \cup {NULL}] /\ sess'[n] = s
      /\ \A x \in Nodes : x # n => sess'[x] = sess[x]
      /\ \A x \in Nodes : part[x] # Out => sess'[x] = sess[x]
  BY <1>2, <1>3, <1>4
<1>6. Tailed(sess', tail, part, pos) /\ Grouped(sess', runq, stack, part)
  BY <1>2, <1>5, SessionOfOut
<1>7. PICK queued : queued = (s # NULL /\ tail[s] # NULL)
  OBVIOUS
<1>8. PICK a : a = IF queued THEN tail[s] ELSE link.prev[HEAD]
  OBVIOUS
<1>9. link' = AddNext(link, a, n) /\ tail' = IF s = NULL THEN tail ELSE [tail EXCEPT ![s] = n]
  BY <1>7, <1>8 DEF Schedule, Enqueue
<1>10. PICK q, w : /\ Shape(link', q, w) /\ Framed(stack, q, w)
                   /\ Tailed(sess', tail', q, w) /\ Grouped(sess', runq, stack, q)
                   /\ q[n] # Out /\ (\A x \in Nodes : x # n => q[x] = part[x])
                   /\ Grows(sess', part, pos, q, w, n)
  BY <1>2, <1>4, <1>5, <1>6, <1>7, <1>8, <1>9, NodeJoins
<1>11. Placed(pool', held', stack', q)
  <2>1. Placed(pool \ {n}, held \ {n}, stack, q)
    BY <1>2, <1>3, <1>10, JoinsPlaces
  <2>2. held \ {n} = held
    BY <1>4
  <2> QED BY <1>3, <2>1, <2>2
<1>12. Referred(backref')
  BY <1>2, <1>3, <1>5 DEF Referred
<1>13. cb' \in [Nodes -> BOOLEAN]
  BY <1>3 DEF IInv
<1>14. Sound(link', stack', sess', tail', runq', pool', held', backref', q, w)
  BY <1>3, <1>10, <1>11, <1>12 DEF Sound
<1>15. StepGrows(n)
  BY <1>1, <1>10, <1>14 DEF StepGrows
<1> QED BY <1>13, <1>14, <1>15 DEF IInv

\* schedule_event does so with a prepared node, whose session may be closed.
LEMMA ScheduleEventKeeps ==
  ASSUME IInv, NEW n \in Nodes, ScheduleEvent(n)
  PROVE  IInv' /\ StepGrows(n)
<1>1. PICK part, pos : State(part, pos)
  BY DEF IInv, State
<1>2. /\ Shape(link, part, pos) /\ Framed(stack, part, pos)
      /\ Tailed(sess, tail, part, pos) /\ Grouped(sess, runq, stack, part)
      /\ Placed(pool, held, stack, part) /\ Referred(backref)
      /\ stack \in Seq(Frames) /\ NULL \notin Nodes
  BY <1>1, EvtcbAssumption DEF State, Sound, Tailed, Framed
<1>3. /\ n \in held /\ held' = held \ {n} /\ sess' = sess /\ cb' = cb /\ pool' = pool
      /\ runq' = runq /\ backref' = backref /\ stack' = stack
  BY DEF ScheduleEvent
<1>4. part[n] = Out /\ n \notin pool
  BY <1>2, <1>3 DEF Placed
<1>5. PICK s : s = sess[n]
  OBVIOUS
<1>7. PICK queued : queued = (s # NULL /\ tail[s] # NULL)
  OBVIOUS
<1>8. PICK a : a = IF queued THEN tail[s] ELSE link.prev[HEAD]
  OBVIOUS
<1>9. link' = AddNext(link, a, n) /\ tail' = IF s = NULL THEN tail ELSE [tail EXCEPT ![s] = n]
  BY <1>5, <1>7, <1>8 DEF ScheduleEvent, Enqueue
<1>10. PICK q, w : /\ Shape(link', q, w) /\ Framed(stack, q, w)
                   /\ Tailed(sess, tail', q, w) /\ Grouped(sess, runq, stack, q)
                   /\ q[n] # Out /\ (\A x \in Nodes : x # n => q[x] = part[x])
                   /\ Grows(sess, part, pos, q, w, n)
  BY <1>2, <1>4, <1>5, <1>7, <1>8, <1>9, NodeJoins
<1>11. Placed(pool', held', stack', q)
  <2>1. Placed(pool \ {n}, held \ {n}, stack, q)
    BY <1>2, <1>3, <1>10, JoinsPlaces
  <2>2. pool \ {n} = pool
    BY <1>4
  <2> QED BY <1>3, <2>1, <2>2
<1>12. Sound(link', stack', sess', tail', runq', pool', held', backref', q, w)
  BY <1>2, <1>3, <1>10, <1>11 DEF Sound
<1>13. StepGrows(n)
  BY <1>1, <1>3, <1>10, <1>12 DEF StepGrows
<1> QED BY <1>3, <1>12, <1>13 DEF IInv

\* A step with which all nodes that wait stay where they are, and n is none.
StepStays(n) ==
  \E part, pos :
    /\ State(part, pos) /\ part[n] = Out
    /\ Sound(link', stack', sess', tail', runq', pool', held', backref', part, pos)

\* get_event_obj prepares a node and refers to it from its session.
LEMMA GetEventObjKeeps ==
  ASSUME IInv, NEW n \in Nodes, NEW s \in EventUsers, GetEventObj(n, s)
  PROVE  IInv' /\ StepStays(n)
<1>1. PICK part, pos : State(part, pos)
  BY DEF IInv, State
<1>2. /\ Shape(link, part, pos) /\ Framed(stack, part, pos)
      /\ Tailed(sess, tail, part, pos) /\ Grouped(sess, runq, stack, part)
      /\ Placed(pool, held, stack, part) /\ Referred(backref)
      /\ sess \in [Nodes -> Sessions \cup {NULL}] /\ s \in Sessions /\ NULL \notin Nodes
  BY <1>1, EvtcbAssumption DEF State, Sound, Tailed
<1>3. /\ n \in pool /\ pool' = pool \ {n} /\ held' = held \cup {n}
      /\ sess' = [sess EXCEPT ![n] = s] /\ cb' = [cb EXCEPT ![n] = TRUE]
      /\ backref' = [backref EXCEPT ![s] = n]
      /\ link' = link /\ tail' = tail /\ runq' = runq /\ stack' = stack
  BY DEF GetEventObj
<1>4. /\ part[n] = Out /\ n \notin held
      /\ \A i \in 1 .. Len(stack) : stack[i].cur # n
  BY <1>2, <1>3 DEF Placed
<1>5. /\ sess' \in [Nodes -> Sessions \cup {NULL}] /\ sess'[n] = s
      /\ \A x \in Nodes : x # n => sess'[x] = sess[x]
      /\ \A x \in Nodes : part[x] # Out => sess'[x] = sess[x]
  BY <1>2, <1>3, <1>4
<1>6. Tailed(sess', tail, part, pos) /\ Grouped(sess', runq, stack, part)
  BY <1>2, <1>5, SessionOfOut
<1>7. Placed(pool', held', stack', part)
  <2>1. pool' \cup held' = pool \cup held /\ pool' \cap held' = {}
        /\ pool' \subseteq Nodes /\ held' \subseteq Nodes
    BY <1>2, <1>3, <1>4 DEF Placed
  <2> QED BY <1>2, <1>3, <2>1 DEF Placed
<1>8. Referred(backref')
  BY <1>2, <1>3 DEF Referred
<1>9. cb' \in [Nodes -> BOOLEAN]
  BY <1>3 DEF IInv
<1>10. Sound(link', stack', sess', tail', runq', pool', held', backref', part, pos)
  BY <1>2, <1>3, <1>6, <1>7, <1>8 DEF Sound
<1>11. StepStays(n)
  BY <1>1, <1>4, <1>10 DEF StepStays
<1> QED BY <1>9, <1>10, <1>11 DEF IInv

\* cancel_event frees a prepared node and the reference to it.
LEMMA CancelEventKeeps ==
  ASSUME IInv, NEW n \in Nodes, NEW s \in EventUsers, CancelEvent(n, s)
  PROVE  IInv' /\ StepStays(n)
<1>1. PICK part, pos : State(part, pos)
  BY DEF IInv, State
<1>2. /\ Shape(link, part, pos) /\ Framed(stack, part, pos)
      /\ Tailed(sess, tail, part, pos) /\ Grouped(sess, runq, stack, part)
      /\ Placed(pool, held, stack, part) /\ Referred(backref)
      /\ sess \in [Nodes -> Sessions \cup {NULL}] /\ s \in Sessions /\ NULL \notin Nodes
  BY <1>1, EvtcbAssumption DEF State, Sound, Tailed
<1>3. /\ n \in held /\ sess[n] = s /\ held' = held \ {n} /\ pool' = pool \cup {n}
      /\ backref' = IF backref[s] = n THEN [backref EXCEPT ![s] = NULL] ELSE backref
      /\ link' = SetPrev(SetNext(link, n, NULL), n, NULL)
      /\ sess' = [sess EXCEPT ![n] = NULL] /\ cb' = [cb EXCEPT ![n] = FALSE]
      /\ tail' = tail /\ runq' = runq /\ stack' = stack
  BY DEF CancelEvent, Recycle
<1>4. part[n] = Out /\ n \notin pool
  BY <1>2, <1>3 DEF Placed
<1>5. /\ sess' \in [Nodes -> Sessions \cup {NULL}]
      /\ \A x \in Nodes : x # n => sess'[x] = sess[x]
      /\ \A x \in Nodes : part[x] # Out => sess'[x] = sess[x]
  BY <1>2, <1>3, <1>4
<1>6. Tailed(sess', tail, part, pos) /\ Grouped(sess', runq, stack, part)
  BY <1>2, <1>5, SessionOfOut
<1>7. Shape(link', part, pos)
  BY <1>2, <1>3, <1>4, Cleared
<1>8. Placed(pool', held', stack', part)
  <2>1. pool' \cup held' = pool \cup held /\ pool' \cap held' = {}
        /\ pool' \subseteq Nodes /\ held' \subseteq Nodes
    BY <1>2, <1>3, <1>4 DEF Placed
  <2> QED BY <1>2, <1>3, <2>1 DEF Placed
<1>9. Referred(backref')
  BY <1>2, <1>3 DEF Referred
<1>10. cb' \in [Nodes -> BOOLEAN]
  BY <1>3 DEF IInv
<1>11. Sound(link', stack', sess', tail', runq', pool', held', backref', part, pos)
  BY <1>2, <1>3, <1>6, <1>7, <1>8, <1>9 DEF Sound
<1>12. StepStays(n)
  BY <1>1, <1>4, <1>11 DEF StepStays
<1> QED BY <1>10, <1>11, <1>12 DEF IInv

\* A step that takes session and callback from all nodes that wait for s.
StepCloses(s) ==
  \E part, pos :
    /\ State(part, pos)
    /\ Sound(link', stack', sess', tail', runq', pool', held', backref', part, pos)
    /\ \A x \in Nodes :
         /\ sess[x] # s => sess'[x] = sess[x] /\ cb'[x] = cb[x]
         /\ sess[x] = s /\ part[x] # Out => sess'[x] = NULL /\ ~cb'[x]
         /\ part[x] = Out => cb'[x] = cb[x]
         /\ sess'[x] # NULL => sess'[x] = sess[x] /\ cb'[x] = cb[x]

\* The nodes of ref have no session but s.
RefOf(ref, s) == \A x \in ref \cap Nodes : sess[x] \in {s, NULL}

\* removeSessionCb clears the session of all nodes of s that are in some part.
LEMMA RemoveKeeps ==
  ASSUME IInv, NEW s \in Sessions, NEW ref, RefOf(ref, s),
         RemoveSessionCb(s, ref), Referred(backref'),
         UNCHANGED <<link, pool, held, stack>>
  PROVE  IInv' /\ StepCloses(s)
<1>1. PICK part, pos : State(part, pos)
  BY DEF IInv, State
<1>2. /\ Framed(stack, part, pos) /\ part \in [Nodes -> Int]
      /\ sess \in [Nodes -> Sessions \cup {NULL}] /\ NULL \notin Sessions
  BY <1>1, EvtcbAssumption DEF State, Sound, Tailed, Shape
<1>3. PICK S : S = Own(s)
  OBVIOUS
<1>4. /\ Queued(s) = {x \in S : part[x] \in {List, Rest}}
      /\ Running(s) = {x \in S : part[x] > 0}
  <2>1. S = {x \in Nodes : sess[x] = s}
    BY <1>3 DEF Own
  <2>2. /\ Walk(link.prev, tail[s], S) = {x \in S : part[x] \in {List, Rest}}
        /\ Walk(link.next, runq[s], S) = {x \in S : part[x] > 0}
    <3> HIDE DEF Referred
    <3>1. Sound(link, stack, sess, tail, runq, pool, held, backref, part, pos)
      BY <1>1 DEF State
    <3> QED BY <2>1, <3>1, WalksMeet
  <2> QED BY <1>3, <2>2 DEF Queued, Running
<1>5. /\ cb' = [n \in Nodes |-> cb[n] /\ n \notin Queued(s) \cup Running(s)]
      /\ sess' = [n \in Nodes |-> IF n \in Queued(s) \cup Running(s) \cup ref THEN NULL ELSE sess[n]]
      /\ tail' = [tail EXCEPT ![s] = NULL] /\ runq' = [runq EXCEPT ![s] = NULL]
  BY DEF RemoveSessionCb
<1>6. cb' \in [Nodes -> BOOLEAN]
  BY <1>5 DEF IInv
<1>7. sess' \in [Nodes -> Sessions \cup {NULL}]
  BY <1>2, <1>5
<1>8. \A x \in Nodes : sess[x] # s => sess'[x] = sess[x]
  <2>1. \A x \in Nodes : sess[x] # s /\ sess[x] # NULL => x \notin Queued(s) \cup Running(s) \cup ref
    BY <1>3, <1>4 DEF Own, RefOf
  <2>2. ASSUME NEW x \in Nodes, sess[x] = NULL PROVE sess'[x] = NULL
    BY <1>5, <2>2
  <2>3. ASSUME NEW x \in Nodes, sess[x] # s, sess[x] # NULL PROVE sess'[x] = sess[x]
    <3>1. x \notin Queued(s) \cup Running(s) \cup ref
      BY <2>1, <2>3
    <3> QED BY <1>5, <3>1
  <2> QED BY <2>2, <2>3
<1>9. ASSUME NEW x \in Nodes, sess[x] = s, part[x] # Out PROVE sess'[x] = NULL
  <2>1. part[x] \in {Out, Rest, List} \cup 1 .. Len(stack)
    BY <1>2 DEF Framed
  <2>2. part[x] \in {List, Rest} \/ part[x] > 0
    BY <1>9, <2>1
  <2>3. x \in S
    BY <1>3, <1>9 DEF Own
  <2> QED BY <1>4, <1>5, <2>2, <2>3
<1>10. Sound(link, stack, sess', tail', runq', pool, held, backref', part, pos)
  <2>1. Sound(link, stack, sess, tail, runq, pool, held, backref, part, pos)
    BY <1>1 DEF State
  <2>2. PICK se2 \in [Nodes -> Sessions \cup {NULL}] : se2 = sess'
    BY <1>7
  <2>3. /\ \A x \in Nodes : sess[x] # s => se2[x] = sess[x]
        /\ \A x \in Nodes : sess[x] = s /\ part[x] # Out => se2[x] = NULL
    BY <1>8, <1>9, <2>2
  <2>4. Dropped(tail', tail, s) /\ Dropped(runq', runq, s) /\ Referred(backref')
    BY <1>5 DEF Dropped
  <2>5. Sound(link, stack, se2, tail', runq', pool, held, backref', part, pos)
    BY <2>1, <2>3, <2>4, SessionClosed
  <2> QED BY <2>2, <2>5
<1>11. ASSUME NEW x \in Nodes
       PROVE  /\ sess[x] # s => sess'[x] = sess[x] /\ cb'[x] = cb[x]
              /\ sess[x] = s /\ part[x] # Out => sess'[x] = NULL /\ ~cb'[x]
              /\ part[x] = Out => cb'[x] = cb[x]
              /\ sess'[x] # NULL => sess'[x] = sess[x] /\ cb'[x] = cb[x]
  <2>1. x \in Queued(s) \cup Running(s) <=> sess[x] = s /\ part[x] # Out
    <3>1. part[x] \in {Out, Rest, List} \cup 1 .. Len(stack)
      BY <1>2 DEF Framed
    <3>2. part[x] # Out <=> part[x] \in {List, Rest} \/ part[x] > 0
      BY <3>1 DEF Out, List, Rest
    <3>3. x \in S <=> sess[x] = s
      BY <1>3 DEF Own
    <3> QED BY <1>4, <3>2, <3>3
  <2>2. x \notin Queued(s) \cup Running(s) => cb'[x] = cb[x]
    <3>1. cb[x] \in BOOLEAN
      BY DEF IInv
    <3> QED BY <1>5, <3>1
  <2>3. x \in Queued(s) \cup Running(s) => ~cb'[x] /\ sess'[x] = NULL
    BY <1>5
  <2>4. sess'[x] # NULL => sess'[x] = sess[x]
    BY <1>5
  <2> QED BY <1>8, <2>1, <2>2, <2>3, <2>4
<1>12. StepCloses(s)
  <2>1. Sound(link', stack', sess', tail', runq', pool', held', backref', part, pos)
    BY <1>10
  <2> QED BY <1>1, <1>11, <2>1 DEF StepCloses
<1> QED BY <1>6, <1>10, <1>12 DEF IInv

\* removeSessionCbs: the nodes of the session stay where they are.
LEMMA RemoveSessionCbsKeeps ==
  ASSUME IInv, NEW s \in Sessions, RemoveSessionCbs(s)
  PROVE  IInv' /\ StepCloses(s)
<1>1. PICK part, pos : State(part, pos)
  BY DEF IInv, State
<1>2. Referred(backref')
  BY <1>1 DEF State, Sound, Referred, RemoveSessionCbs
<1>3. RemoveSessionCb(s, {}) /\ UNCHANGED <<link, pool, held, stack>>
  BY DEF RemoveSessionCbs
<1>4. RefOf({}, s)
  BY DEF RefOf
<1> QED BY <1>2, <1>3, <1>4, RemoveKeeps

\* closeSession also gives up the event object of the session.
LEMMA CloseSessionKeeps ==
  ASSUME IInv, NEW s \in Sessions, CloseSession(s)
  PROVE  IInv' /\ StepCloses(s)
<1>1. PICK part, pos : State(part, pos)
  BY DEF IInv, State
<1>2. PICK ref : ref = {backref[s]}
  OBVIOUS
<1>3. RefOf(ref, s)
  <2>1. backref[s] \in Nodes => sess[backref[s]] \in {s, NULL}
    BY EvtcbAssumption DEF CloseSession, Strayed
  <2> QED BY <1>2, <2>1 DEF RefOf
<1>4. /\ RemoveSessionCb(s, ref) /\ backref' = [backref EXCEPT ![s] = NULL]
      /\ UNCHANGED <<link, pool, held, stack>>
  BY <1>2 DEF CloseSession
<1>5. Referred(backref')
  BY <1>1, <1>4 DEF State, Sound, Referred
<1> QED BY <1>3, <1>4, <1>5, RemoveKeeps

\* The stack with another frame on top.
NewTop(j, k, f, d) ==
  /\ k \in Seq(Frames) /\ k # <<>> /\ d = Len(k)
  /\ f \in Frames /\ f.of = Last(k).of /\ f.rest = Last(k).rest
  /\ j = Append(Front(k), f)

\* It has the same frames below.
LEMMA TopReplaced ==
  ASSUME NEW k, NEW j, NEW f, NEW d, NewTop(j, k, f, d)
  PROVE  d \in Nat /\ Topped(j, k, d) /\ j[d] = f
<1>a. k \in Seq(Frames) /\ k # <<>> /\ d = Len(k)
  BY DEF NewTop
<1>b. f \in Frames /\ f.of = Last(k).of /\ f.rest = Last(k).rest /\ j = Append(Front(k), f)
  BY DEF NewTop
<1>1. /\ d \in Nat /\ d > 0 /\ d - 1 \in Nat
  BY <1>a, EmptySeq, LenProperties
<1>2. \A i \in 1 .. (d - 1) : k[i] \in Frames
  BY <1>a, <1>1, LenProperties
<1>3. PICK e \in Int : e = d - 1
  BY <1>1
<1>4. /\ SubSeq(k, 1, e) \in Seq(Frames) /\ Len(SubSeq(k, 1, e)) = IF 1 <= e THEN e - 1 + 1 ELSE 0
      /\ \A i \in 1 .. (e - 1 + 1) : SubSeq(k, 1, e)[i] = k[1 + i - 1]
  <2>1. 1 \in Int /\ \A i \in 1 .. e : k[i] \in Frames
    BY <1>2, <1>3
  <2> QED BY <1>3, <2>1, SubSeqProperties
<1>5. PICK b : b = Front(k)
  OBVIOUS
<1>6. b \in Seq(Frames) /\ Len(b) = d - 1 /\ \A i \in 1 .. (d - 1) : b[i] = k[i]
  BY <1>a, <1>1, <1>3, <1>4, <1>5 DEF Front
<1>7. /\ j \in Seq(Frames) /\ Len(j) = Len(b) + 1 /\ \A i \in 1 .. Len(b) : j[i] = b[i]
      /\ j[Len(b) + 1] = f
  BY <1>b, <1>5, <1>6, AppendProperties
<1>8. j[d] = f /\ Len(j) = d /\ \A i \in 1 .. d : i # d => j[i] = k[i]
  <2>1. Len(b) + 1 = d /\ \A i \in 1 .. d : i # d => i \in 1 .. Len(b) /\ i \in 1 .. (d - 1)
    BY <1>1, <1>6
  <2> QED BY <1>6, <1>7, <2>1
<1> QED BY <1>a, <1>b, <1>1, <1>7, <1>8 DEF Topped, Last

\* The stack with its top frame gone.
LEMMA TopRemoved ==
  ASSUME NEW k \in Seq(Frames), k # <<>>, NEW d, d = Len(k)
  PROVE  /\ d \in Nat /\ d > 0 /\ Front(k) \in Seq(Frames) /\ Len(Front(k)) = d - 1
         /\ \A i \in 1 .. (d - 1) : Front(k)[i] = k[i]
<1>1. /\ d \in Nat /\ d > 0 /\ d - 1 \in Nat
  BY EmptySeq, LenProperties
<1>2. \A i \in 1 .. (d - 1) : k[i] \in Frames
  BY <1>1, LenProperties
<1>3. PICK e \in Int : e = d - 1
  BY <1>1
<1>4. /\ SubSeq(k, 1, e) \in Seq(Frames) /\ Len(SubSeq(k, 1, e)) = IF 1 <= e THEN e - 1 + 1 ELSE 0
      /\ \A i \in 1 .. (e - 1 + 1) : SubSeq(k, 1, e)[i] = k[1 + i - 1]
  <2>1. 1 \in Int /\ \A i \in 1 .. e : k[i] \in Frames
    BY <1>2, <1>3
  <2> QED BY <1>3, <2>1, SubSeqProperties
<1> QED BY <1>1, <1>3, <1>4 DEF Front

\* n, which the innermost call ran, is free again.
Ends(n) ==
  \E d \in Nat :
    /\ d > 0 /\ Len(stack) = d /\ stack' \in Seq(Frames) /\ Len(stack') = d
    /\ stack[d].cur = n /\ stack'[d].cur = NULL
    /\ \A i \in 1 .. d : i # d => stack'[i] = stack[i]
    /\ sess' = [sess EXCEPT ![n] = NULL] /\ cb' = [cb EXCEPT ![n] = FALSE]

\* The node whose callback returned is free.
LEMMA ReturnKeeps ==
  ASSUME IInv, Return
  PROVE  IInv' /\ \E n \in Nodes : StepStays(n) /\ Ends(n)
<1>1. PICK part, pos : State(part, pos)
  BY DEF IInv, State
<1>2. PICK d : d = Len(stack)
  OBVIOUS
<1>3. PICK n : n = stack[d].cur
  OBVIOUS
<1>4. /\ stack \in Seq(Frames) /\ stack # <<>> /\ n # NULL
      /\ link' = SetPrev(SetNext(link, n, NULL), n, NULL) /\ pool' = pool \cup {n}
      /\ sess' = [sess EXCEPT ![n] = NULL] /\ cb' = [cb EXCEPT ![n] = FALSE]
      /\ stack' = [stack EXCEPT ![d].cur = NULL]
      /\ held' = held /\ tail' = tail /\ runq' = runq /\ backref' = backref
  BY <1>1, <1>2, <1>3 DEF State, Sound, Framed, Return, Recycle, Last, heads
<1>5. d \in Nat /\ d > 0 /\ d \in 1 .. d
  BY <1>2, <1>4, EmptySeq, LenProperties
<1>6. n \in Nodes /\ stack[d] \in Frames
  BY <1>2, <1>3, <1>4, <1>5, FrameTypes
<1>7. stack' \in Seq(Frames) /\ Len(stack') = d /\ \A i \in 1 .. d : i # d => stack'[i] = stack[i]
  <2>1. PICK f : f = [stack[d] EXCEPT !.cur = NULL]
    OBVIOUS
  <2>2. f \in Frames
    BY <1>6, <2>1 DEF Frames
  <2>3. stack' = [stack EXCEPT ![d] = f]
    BY <1>4, <2>1
  <2> QED BY <1>2, <1>4, <1>5, <2>2, <2>3, ExceptSeq
<1>8. /\ stack'[d].of = stack[d].of /\ stack'[d].rest = stack[d].rest
      /\ stack'[d].next = stack[d].next /\ stack'[d].cur = NULL
  <2>1. stack'[d] = [stack[d] EXCEPT !.cur = NULL]
    BY <1>2, <1>4, <1>5, LenProperties
  <2> QED BY <1>6, <2>1 DEF Frames
<1>9. Topped(stack', stack, d)
  BY <1>2, <1>5, <1>7, <1>8 DEF Topped
<1>10. Sound(link', stack', sess', tail, runq, pool', held, backref, part, pos)
  BY <1>1, <1>3, <1>4, <1>5, <1>6, <1>8, <1>9, NodeReturns DEF State
<1>11. cb' \in [Nodes -> BOOLEAN]
  BY <1>4, <1>6 DEF IInv
<1>12. part[n] = Out
  <2>1. Placed(pool, held, stack, part)
    BY <1>1 DEF State, Sound
  <2> QED BY <1>2, <1>3, <1>4, <1>5, <2>1 DEF Placed
<1>13. Ends(n)
  BY <1>2, <1>3, <1>4, <1>5, <1>7, <1>8 DEF Ends
<1>14. StepStays(n)
  BY <1>1, <1>4, <1>10, <1>12 DEF StepStays
<1> QED BY <1>4, <1>6, <1>10, <1>11, <1>13, <1>14 DEF IInv

\* Outside of the list no pointer leads to the head.
LEMMA NextTyped ==
  ASSUME NEW l, NEW part, NEW pos, Shape(l, part, pos), NEW n \in Nodes, part[n] \notin {Out, List}
  PROVE  l.next[n] \in Nodes \cup {NULL}
BY DEF Shape, NextRight, End

\* The stack with one more frame.
LEMMA FramePushed ==
  ASSUME NEW k \in Seq(Frames), NEW f \in Frames, NEW j, j = Append(k, f)
  PROVE  /\ Len(k) \in Nat /\ j \in Seq(Frames) /\ Len(j) = Len(k) + 1
         /\ (\A i \in 1 .. Len(k) : j[i] = k[i]) /\ j[Len(k) + 1] = f
BY AppendProperties, LenProperties

\* The frame of a call whose first node starts.
StartFrame(f, n, m) == [f EXCEPT !.cur = n, !.next = m]

\* It is a frame, with the session and the rest of the call.
LEMMA FrameStarted ==
  ASSUME NEW s \in Sessions \cup {NULL}, NEW a \in Nodes \cup {NULL}, NEW n \in Nodes,
         NEW m \in Nodes \cup {NULL}, NEW g, g = StartFrame(Frame(s, a), n, m)
  PROVE  g \in Frames /\ g.of = s /\ g.cur = n /\ g.next = m /\ g.rest = a
<1>1. PICK f : f = Frame(s, a)
  OBVIOUS
<1>2. f \in Frames /\ f.of = s /\ f.rest = a
  BY <1>1 DEF Frame, Frames
<1>3. g = [f EXCEPT !.cur = n, !.next = m]
  BY <1>1 DEF StartFrame
<1> QED BY <1>2, <1>3 DEF Frames

\* The stack of one call.
LEMMA FrameAlone ==
  ASSUME NEW f \in Frames, NEW j, j = Append(<<>>, f)
  PROVE  j \in Seq(Frames) /\ Len(j) = 1 /\ j[1] = f
<1>1. PICK e \in Seq(Frames) : e = <<>>
  BY EmptySeq
<1>2. Len(e) = 0
  BY <1>1, EmptySeq
<1>3. j \in Seq(Frames) /\ Len(j) = Len(e) + 1 /\ j[Len(e) + 1] = f
  BY <1>1, AppendProperties
<1> QED BY <1>2, <1>3

\* n is what the innermost call runs, one that was just made from a callback,
\* or one that goes on.
Begins(n) ==
  \E d \in Nat :
    /\ d > 0 /\ stack' \in Seq(Frames) /\ Len(stack') = d /\ stack'[d].cur = n
    /\ \A i \in 1 .. d : i # d => stack'[i] = stack[i]
    /\ \/ d = Len(stack) + 1 /\ InCallback
       \/ d = Len(stack) /\ stack[d].cur = NULL

\* A step with which n starts.
StepStarts(n) ==
  /\ Begins(n)
  /\ \E part, pos, q :
       /\ State(part, pos)
       /\ Sound(link', stack', sess', tail', runq', pool', held', backref', q, pos)
       /\ Shrinks(sess, part, pos, q, pos, n)

\* The first group of what run() has detached starts.
LEMMA GroupStarts ==
  ASSUME IInv, NEW l, NEW k, NEW part, NEW pos,
         Sound(l, k, sess, tail, runq, pool, held, backref, part, pos),
         Len(k) = 1, k[1].cur = NULL, k[1].next = NULL, k[1].of = NULL,
         NEW n \in Nodes, k[1].rest = n, RunGroup(l, n, <<>>),
         UNCHANGED <<sess, cb, pool, held>>
  PROVE  /\ IInv' /\ stack' \in Seq(Frames) /\ Len(stack') = 1 /\ stack'[1].cur = n
         /\ \E q : /\ Sound(link', stack', sess', tail', runq', pool', held', backref', q, pos)
                   /\ Shrinks(sess, part, pos, q, pos, n)
<1>1. /\ Shape(l, part, pos) /\ Framed(k, part, pos) /\ Tailed(sess, tail, part, pos)
      /\ sess \in [Nodes -> Sessions \cup {NULL}] /\ runq \in [Sessions -> Nodes \cup {NULL}]
      /\ NULL \notin Nodes
      /\ sess' = sess /\ cb' = cb /\ pool' = pool /\ held' = held
  BY EvtcbAssumption DEF Sound, Tailed, Grouped
<1>2. PICK t : t = IF sess[n] = NULL THEN n ELSE tail[sess[n]]
  OBVIOUS
<1>3. PICK a : a = l.next[t]
  OBVIOUS
<1>4. PICK r : r = SetNext(IF a = NULL THEN l ELSE SetPrev(l, a, NULL), t, NULL)
  OBVIOUS
<1>5. /\ RunNode(r, n, Frame(NULL, a), <<>>)
      /\ tail' = IF sess[n] = NULL THEN tail ELSE [tail EXCEPT ![sess[n]] = NULL]
  BY <1>2, <1>3, <1>4 DEF RunGroup
<1>6. PICK m : m = r.next[n]
  OBVIOUS
<1>7. /\ link' = RemoveNode(r, n)
      /\ runq' = IF sess[n] = NULL THEN runq ELSE [runq EXCEPT ![sess[n]] = m]
      /\ backref' = [s \in Sessions |-> IF s = sess[n] /\ backref[s] = n THEN NULL ELSE backref[s]]
      /\ stack' = Append(<<>>, [Frame(NULL, a) EXCEPT !.cur = n, !.next = m])
  BY <1>5, <1>6 DEF RunNode
<1>8. a \in Nodes \cup {NULL}
  <2>1. First(part, pos, Rest, n)
    BY <1>1 DEF Framed
  <2>2. part[n] = Rest
    BY <1>1, <2>1 DEF First
  <2>3. t \in Nodes /\ part[t] = Rest
    BY <1>1, <1>2, <2>2 DEF Tailed
  <2> QED BY <1>1, <1>3, <2>3, NextTyped DEF Out, Rest, List
<1>9. PICK f : f = [of |-> NULL, cur |-> NULL, next |-> n, rest |-> a]
  OBVIOUS
<1>10. f \in Frames /\ f.of = NULL /\ f.cur = NULL /\ f.next = n /\ f.rest = a
  BY <1>8, <1>9 DEF Frames
<1>11. PICK j : j = Append(<<>>, f)
  OBVIOUS
<1>12. j \in Seq(Frames) /\ Len(j) = 1 /\ j[1] = f
  BY <1>10, <1>11, FrameAlone
<1>13. PICK rq : rq = IF sess[n] = NULL THEN runq ELSE [runq EXCEPT ![sess[n]] = n]
  OBVIOUS
<1>14. PICK q : q = Moved(part, pos, Rest, pos[n], pos[t], 1)
  OBVIOUS
<1>15. Sound(r, j, sess, tail', rq, pool, held, backref, q, pos)
  <2>1. j[1].of = NULL /\ j[1].cur = NULL /\ j[1].next = n /\ j[1].rest = a
    BY <1>10, <1>12
  <2> QED BY <1>2, <1>3, <1>4, <1>5, <1>12, <1>13, <1>14, <2>1, GroupTaken
<1>16. m \in Nodes \cup {NULL}
  <2>1. Shape(r, q, pos) /\ Framed(j, q, pos)
    BY <1>15 DEF Sound
  <2>2. First(q, pos, 1, n)
    BY <1>10, <1>12, <2>1 DEF Framed
  <2>3. q[n] = 1
    BY <1>1, <2>2 DEF First
  <2> QED BY <1>6, <2>1, <2>3, NextTyped DEF Out, List
<1>17. PICK g : g = [Frame(NULL, a) EXCEPT !.cur = n, !.next = m]
  OBVIOUS
<1>18. g \in Frames /\ g.of = NULL /\ g.cur = n /\ g.next = m /\ g.rest = a
  <2>1. PICK o \in Sessions \cup {NULL} : o = NULL
    OBVIOUS
  <2>2. PICK c \in Nodes \cup {NULL} : c = a
    BY <1>8
  <2>3. g = StartFrame(Frame(o, c), n, m)
    BY <1>17, <2>1, <2>2 DEF StartFrame
  <2>4. g \in Frames /\ g.of = o /\ g.cur = n /\ g.next = m /\ g.rest = c
    BY <1>16, <2>3, FrameStarted
  <2> QED BY <2>1, <2>2, <2>4
<1>19. stack' = Append(<<>>, g)
  BY <1>7, <1>17
<1>20. stack' \in Seq(Frames) /\ Len(stack') = 1 /\ stack'[1] = g
  BY <1>18, <1>19, FrameAlone
<1>21. PICK d \in Nat : d = 1
  OBVIOUS
<1>22. Topped(stack', j, d) /\ stack'[d].cur = n /\ stack'[d].next = m
       /\ j[d].cur = NULL /\ j[d].next = n
  BY <1>10, <1>12, <1>18, <1>20, <1>21 DEF Topped
<1>23. runq' = IF sess[n] = NULL THEN rq ELSE [rq EXCEPT ![sess[n]] = m]
  BY <1>1, <1>7, <1>13
<1>24. PICK q2 : q2 = [q EXCEPT ![n] = Out]
  OBVIOUS
<1>25. Sound(link', stack', sess, tail', runq', pool, held, backref', q2, pos)
  <2>1. Started(r, j, sess, rq, backref, d, n, link', stack', runq', backref')
    BY <1>6, <1>7, <1>22, <1>23 DEF Started
  <2> QED BY <1>15, <1>24, <2>1, NodeStarts
<1>26. Shrinks(sess, part, pos, q2, pos, n)
  <2>1. Shrinks(sess, q, pos, q2, pos, n)
    <3>1. d = Len(j) /\ d > 0 /\ j[d].next = n
      BY <1>10, <1>12, <1>21
    <3> QED BY <1>15, <1>24, <3>1, StartsFirst
  <2>2. First(part, pos, Rest, n) /\ First(part, pos, 1, NULL)
    BY <1>1 DEF Framed
  <2>3. /\ part[n] = Rest /\ (\A x \in Nodes : part[x] = Rest => pos[n] <= pos[x])
        /\ \A x \in Nodes : part[x] # 1
    BY <1>1, <2>2 DEF First
  <2>4. PICK u \in Nodes : u = t
    BY <1>1, <1>2, <2>3 DEF Tailed
  <2>5. PICK p \in {List, Rest} : p = Rest
    OBVIOUS
  <2>6. Piece(sess, tail, part, pos, p, n, u)
    <3>1. part[u] = Rest
      BY <1>1, <1>2, <2>3, <2>4 DEF Tailed
    <3> QED BY <1>2, <2>3, <2>4, <2>5, <3>1 DEF Piece
  <2>7. q = Moved(part, pos, p, pos[n], pos[u], d) /\ d > 0 /\ \A x \in Nodes : part[x] # d
    BY <1>14, <1>21, <2>3, <2>4, <2>5
  <2>8. Sound(r, j, sess, tail', rq, pool, held, backref, q, pos)
    BY <1>15
  <2>9. OrderSame(sess, part, pos, q)
    BY <2>6, <2>7, <2>8, PieceInOrder
  <2> QED BY <2>1, <2>9, ShrinksLater
<1> QED BY <1>1, <1>18, <1>20, <1>25, <1>26 DEF IInv

\* run() detaches the list and starts its first group.
LEMMA RunKeeps ==
  ASSUME IInv, Run
  PROVE  IInv' /\ \E n \in Nodes : StepStarts(n)
<1>1. PICK part, pos : State(part, pos)
  BY DEF IInv, State
<1>2. PICK n : n = link.next[HEAD]
  OBVIOUS
<1>3. PICK t : t = link.prev[HEAD]
  OBVIOUS
<1>4. PICK r : r = SetNext(SetPrev(SetNext(SetPrev(link, HEAD, HEAD), HEAD, HEAD), n, NULL), t, NULL)
  OBVIOUS
<1>5. stack = <<>> /\ n # HEAD /\ RunGroup(r, n, <<>>) /\ UNCHANGED <<sess, cb, pool, held>>
  BY <1>2, <1>3, <1>4 DEF Run
<1>6. n \in Nodes
  BY <1>1, <1>2, <1>5 DEF State, Sound, Shape, HeadRight
<1>7. Len(stack) = 0
  BY <1>5
<1>8. PICK f : f = [of |-> NULL, cur |-> NULL, next |-> NULL, rest |-> n]
  OBVIOUS
<1>9. f \in Frames /\ f.of = NULL /\ f.cur = NULL /\ f.next = NULL /\ f.rest = n
  BY <1>6, <1>8 DEF Frames
<1>10. PICK j : j = Append(<<>>, f)
  OBVIOUS
<1>11. j \in Seq(Frames) /\ Len(j) = 1 /\ j[1] = f
  BY <1>9, <1>10, FrameAlone
<1>12. PICK q : q = Moved(part, pos, List, pos[n], pos[t], Rest)
  OBVIOUS
<1>13. Sound(r, j, sess, tail, runq, pool, held, backref, q, pos)
  <2>1. j[1].of = NULL /\ j[1].cur = NULL /\ j[1].next = NULL /\ j[1].rest = n
    BY <1>9, <1>11
  <2> QED BY <1>1, <1>2, <1>3, <1>4, <1>6, <1>7, <1>11, <1>12, <2>1, ListTaken DEF State
<1>14. /\ IInv' /\ stack' \in Seq(Frames) /\ Len(stack') = 1 /\ stack'[1].cur = n
       /\ \E q2 : /\ Sound(link', stack', sess', tail', runq', pool', held', backref', q2, pos)
                  /\ Shrinks(sess, q, pos, q2, pos, n)
  BY <1>5, <1>6, <1>9, <1>11, <1>13, GroupStarts
<1>15. OrderSame(sess, part, pos, q)
  <2>1. /\ Framed(stack, part, pos) /\ HeadRight(link, part, pos) /\ NULL \notin Nodes
        /\ pos \in [Nodes -> Nat]
    BY <1>1, EvtcbAssumption DEF State, Sound, Shape
  <2>2. \A x \in Nodes : part[x] \in {Out, List}
    <3>1. \A x \in Nodes : part[x] # Rest /\ part[x] \in {Out, Rest, List} \cup 1 .. 0
      BY <1>7, <2>1 DEF Framed
    <3> QED BY <3>1
  <2>3. \A x \in Nodes : part[x] = List => pos[n] <= pos[x] /\ pos[x] <= pos[t]
    BY <1>2, <1>3, <1>6, <2>1 DEF HeadRight
  <2>4. \A x \in Nodes : q[x] = IF part[x] = List THEN Rest ELSE part[x]
    BY <1>12, <2>3 DEF Moved, Between
  <2> QED BY <2>1, <2>2, <2>4, ListInOrder
<1>16. Begins(n)
  <2>1. PICK d \in Nat : d = 1
    OBVIOUS
  <2>2. InCallback
    BY <1>5 DEF InCallback
  <2>3. /\ d > 0 /\ stack' \in Seq(Frames) /\ Len(stack') = d /\ stack'[d].cur = n
        /\ (\A i \in 1 .. d : i # d => stack'[i] = stack[i]) /\ d = Len(stack) + 1
    BY <1>7, <1>14, <2>1
  <2> QED BY <2>2, <2>3 DEF Begins
<1>17. StepStarts(n)
  <2>1. PICK q2 : /\ Sound(link', stack', sess', tail', runq', pool', held', backref', q2, pos)
                  /\ Shrinks(sess, q, pos, q2, pos, n)
    BY <1>14
  <2>2. Shrinks(sess, part, pos, q2, pos, n)
    BY <1>6, <1>15, <2>1, ShrinksLater
  <2> QED BY <1>1, <1>16, <2>1, <2>2 DEF StepStarts
<1> QED BY <1>6, <1>14, <1>17

\* The innermost call ends.
CallReturns ==
  /\ stack # <<>> /\ Last(stack).cur = NULL /\ stack' = Front(stack)
  /\ UNCHANGED <<link, heads, sess, cb, pool, held>>
  /\ \E part, pos :
       /\ State(part, pos)
       /\ Sound(link', stack', sess', tail', runq', pool', held', backref', part, pos)

\* A call goes on with its group, with the next group, or ends.
LEMMA AdvanceKeeps ==
  ASSUME IInv, Advance
  PROVE  /\ IInv'
         /\ \/ \E n \in Nodes : StepStarts(n)
            \/ CallReturns
<1>1. PICK part, pos : State(part, pos)
  BY DEF IInv, State
<1>2. PICK f : f = Last(stack)
  OBVIOUS
<1>3. PICK d : d = Len(stack)
  OBVIOUS
<1>4. /\ stack # <<>> /\ f.cur = NULL
      /\ sess' = sess /\ cb' = cb /\ pool' = pool /\ held' = held
  BY <1>2 DEF Advance
<1>5. /\ stack \in Seq(Frames) /\ Framed(stack, part, pos) /\ Shape(link, part, pos)
      /\ NULL \notin Nodes
  BY <1>1, EvtcbAssumption DEF State, Sound, Framed
<1>6. d \in Nat /\ d > 0 /\ d \in 1 .. d /\ stack[d] = f /\ f \in Frames
      /\ f.next \in Nodes \cup {NULL} /\ f.rest \in Nodes \cup {NULL}
  <2>1. d \in Nat /\ d > 0 /\ d \in 1 .. d
    BY <1>3, <1>4, <1>5, EmptySeq
  <2>2. stack[d] = f
    BY <1>2, <1>3 DEF Last
  <2> QED BY <1>3, <1>5, <2>1, <2>2, FrameTypes
<1>7. CASE f.next # NULL
  <2>1. PICK n \in Nodes : n = f.next
    BY <1>6, <1>7
  <2>2. PICK m : m = link.next[n]
    OBVIOUS
  <2>3. RunNode(link, n, f, Front(stack)) /\ tail' = tail
    BY <1>2, <1>7, <2>1 DEF Advance
  <2>4. PICK g : g = [f EXCEPT !.cur = n, !.next = m]
    OBVIOUS
  <2>5. /\ link' = RemoveNode(link, n)
        /\ runq' = IF sess[n] = NULL THEN runq ELSE [runq EXCEPT ![sess[n]] = m]
        /\ backref' = [s \in Sessions |-> IF s = sess[n] /\ backref[s] = n THEN NULL ELSE backref[s]]
        /\ stack' = Append(Front(stack), g)
    BY <2>2, <2>3, <2>4 DEF RunNode
  <2>6. m \in Nodes \cup {NULL}
    <3>1. First(part, pos, d, n)
      BY <1>3, <1>5, <1>6, <2>1 DEF Framed
    <3>2. part[n] = d
      BY <1>5, <3>1 DEF First
    <3> QED BY <1>5, <1>6, <2>2, <3>2, NextTyped DEF Out, List
  <2>7. g \in Frames /\ g.of = f.of /\ g.rest = f.rest /\ g.cur = n /\ g.next = m
    BY <1>6, <2>4, <2>6 DEF Frames
  <2>8. Topped(stack', stack, d) /\ stack'[d] = g
    <3>1. NewTop(stack', stack, g, d)
      BY <1>2, <1>3, <1>4, <1>5, <2>5, <2>7 DEF NewTop
    <3> QED BY <3>1, TopReplaced
  <2>9. PICK q : q = [part EXCEPT ![n] = Out]
    OBVIOUS
  <2>10. Sound(link', stack', sess, tail, runq', pool, held, backref', q, pos)
    <3>1. stack[d].cur = NULL /\ stack[d].next = n /\ stack'[d].cur = n /\ stack'[d].next = m
      BY <1>4, <1>6, <2>1, <2>7, <2>8
    <3>2. Started(link, stack, sess, runq, backref, d, n, link', stack', runq', backref')
      BY <2>2, <2>5, <2>8, <3>1 DEF Started
    <3>3. Sound(link, stack, sess, tail, runq, pool, held, backref, part, pos) /\ d \in Nat
      BY <1>1, <1>6 DEF State
    <3> QED BY <2>9, <3>2, <3>3, NodeStarts
  <2>11. Shrinks(sess, part, pos, q, pos, n)
    <3>1. Sound(link, stack, sess, tail, runq, pool, held, backref, part, pos)
      BY <1>1 DEF State
    <3>2. d \in Nat /\ d = Len(stack) /\ d > 0 /\ stack[d].next = n
      BY <1>3, <1>6, <2>1
    <3> QED BY <2>9, <3>1, <3>2, StartsFirst
  <2>12. Begins(n)
    <3>1. /\ d > 0 /\ stack' \in Seq(Frames) /\ Len(stack') = d /\ stack'[d].cur = n
          /\ (\A i \in 1 .. d : i # d => stack'[i] = stack[i]) /\ d = Len(stack)
          /\ stack[d].cur = NULL
      BY <1>3, <1>4, <1>6, <2>7, <2>8 DEF Topped
    <3> QED BY <1>6, <3>1 DEF Begins
  <2>13. StepStarts(n)
    BY <1>1, <1>4, <2>3, <2>10, <2>11, <2>12 DEF StepStarts
  <2> QED BY <1>4, <2>3, <2>10, <2>13 DEF IInv
<1>8. CASE f.next = NULL /\ f.rest # NULL
  <2>1. PICK n \in Nodes : n = f.rest
    BY <1>6, <1>8
  <2>2. f.of = NULL /\ d = 1
    BY <1>3, <1>5, <1>6, <1>8 DEF Framed
  <2>3. Front(stack) = <<>>
    <3>1. stack \in Seq(Frames) /\ stack # <<>>
      BY <1>4, <1>5
    <3>2. Front(stack) \in Seq(Frames) /\ Len(Front(stack)) = d - 1
      BY <1>3, <3>1, TopRemoved
    <3>3. Len(Front(stack)) = 0
      BY <2>2, <3>2
    <3> QED BY <3>2, <3>3, EmptySeq
  <2>4. RunGroup(link, n, <<>>)
    BY <1>2, <1>8, <2>1, <2>3 DEF Advance
  <2>5. Len(stack) = 1 /\ stack[1].cur = NULL /\ stack[1].next = NULL /\ stack[1].of = NULL
        /\ stack[1].rest = n
    BY <1>3, <1>4, <1>6, <1>8, <2>1, <2>2
  <2>6. /\ IInv' /\ stack' \in Seq(Frames) /\ Len(stack') = 1 /\ stack'[1].cur = n
        /\ \E q : /\ Sound(link', stack', sess', tail', runq', pool', held', backref', q, pos)
                  /\ Shrinks(sess, part, pos, q, pos, n)
    BY <1>1, <1>4, <2>4, <2>5, GroupStarts DEF State
  <2>7. Begins(n)
    <3>1. /\ d > 0 /\ stack' \in Seq(Frames) /\ Len(stack') = d /\ stack'[d].cur = n
          /\ (\A i \in 1 .. d : i # d => stack'[i] = stack[i]) /\ d = Len(stack)
          /\ stack[d].cur = NULL
      BY <1>3, <2>2, <2>5, <2>6
    <3> QED BY <1>6, <3>1 DEF Begins
  <2>8. StepStarts(n)
    BY <1>1, <2>6, <2>7 DEF StepStarts
  <2> QED BY <2>6, <2>8
<1>9. CASE f.next = NULL /\ f.rest = NULL
  <2>1. stack' = Front(stack) /\ link' = link /\ tail' = tail /\ runq' = runq /\ backref' = backref
    BY <1>2, <1>9 DEF Advance, heads
  <2>2. stack' \in Seq(Frames) /\ Len(stack') = d - 1 /\ \A i \in 1 .. (d - 1) : stack'[i] = stack[i]
    BY <1>3, <1>4, <1>5, <2>1, TopRemoved
  <2>3. stack[d].cur = NULL /\ stack[d].next = NULL /\ stack[d].rest = NULL
    BY <1>4, <1>6, <1>9
  <2>4. Sound(link, stack', sess, tail, runq, pool, held, backref, part, pos)
    BY <1>1, <1>3, <1>6, <2>2, <2>3, CallEnds DEF State
  <2>5. CallReturns
    <3>1. Sound(link', stack', sess', tail', runq', pool', held', backref', part, pos)
      BY <1>4, <2>1, <2>4
    <3> QED BY <1>1, <1>2, <1>4, <2>1, <3>1 DEF CallReturns, heads
  <2> QED BY <1>4, <2>1, <2>4, <2>5 DEF IInv
<1> QED BY <1>7, <1>8, <1>9

\* extractSession finds a node of the session with none of it before.
LEMMA GroupHasFirst ==
  ASSUME NEW l, NEW part, NEW pos, Shape(l, part, pos), NEW Q \in SUBSET Nodes, Q # {},
         \A x \in Q : part[x] # Out
  PROVE  \E z \in Q : l.prev[z] \notin Q
<1>1. pos \in [Nodes -> Nat]
  BY DEF Shape
<1>2. PICK z \in Q : \A x \in Q : pos[z] <= pos[x]
  BY <1>1, LeastNode
<1>3. PrevRight(l, part, pos, z)
  BY <1>2 DEF Shape
<1>4. l.prev[z] \in Nodes => pos[l.prev[z]] < pos[z]
  BY <1>3 DEF PrevRight
<1>5. l.prev[z] \notin Q
  BY <1>1, <1>2, <1>4
<1> QED BY <1>2, <1>5

\* It is the first node of the session.
LEMMA FirstOfGroup ==
  ASSUME NEW l, NEW se, NEW tl, NEW part, NEW pos, Shape(l, part, pos), Tailed(se, tl, part, pos),
         NEW s \in Sessions, NEW t \in Nodes, t = tl[s], part[t] # Out, NEW Q \in SUBSET Nodes,
         \A x \in Nodes : x \in Q <=> se[x] = s /\ part[x] = part[t],
         NEW f \in Q, l.prev[f] \notin Q
  PROVE  \A x \in Q : pos[f] <= pos[x]
<1>1. /\ pos \in [Nodes -> Nat] /\ NULL \notin Nodes /\ NULL \notin Sessions
      /\ part[t] \in {List, Rest} /\ se[f] = s /\ part[f] = part[t] /\ f \in Nodes
  BY EvtcbAssumption DEF Shape, Tailed
<1>2. PrevRight(l, part, pos, f)
  BY <1>1 DEF Shape
<1>3. SUFFICES ASSUME NEW x \in Q, pos[x] < pos[f] PROVE FALSE
  BY <1>1
<1>4. x \in Nodes /\ se[x] = s /\ part[x] = part[t]
  OBVIOUS
<1>5. PICK y : y = l.prev[f]
  OBVIOUS
<1>6. y \in Nodes
  BY <1>1, <1>2, <1>3, <1>4, <1>5 DEF PrevRight
<1>7. part[y] = part[t] /\ pos[y] < pos[f] /\ pos[x] <= pos[y]
  BY <1>1, <1>2, <1>3, <1>4, <1>5, <1>6 DEF PrevRight
<1>8. pos[f] <= pos[t]
  BY <1>1 DEF Tailed
<1>9. pos[y] <= pos[t]
  BY <1>1, <1>6, <1>7, <1>8
<1>10. se[y] = s
  BY <1>1, <1>4, <1>6, <1>7, <1>9 DEF Tailed
<1> QED BY <1>5, <1>6, <1>7, <1>10

\* run(session) takes the session out of the list and starts its first node.
LEMMA RunSessionKeeps ==
  ASSUME IInv, NEW s \in Sessions, RunSession(s)
  PROVE  IInv' /\ \E n \in Nodes : StepStarts(n)
<1>1. PICK part, pos : State(part, pos)
  BY DEF IInv, State
<1>2. PICK t : t = tail[s]
  OBVIOUS
<1>3. PICK n : n = CHOOSE x \in Queued(s) : link.prev[x] \notin Queued(s)
  OBVIOUS
<1>4. PICK b : b = link.prev[n]
  OBVIOUS
<1>5. PICK a : a = link.next[t]
  OBVIOUS
<1>6. PICK r : r = SetNext(SetPrev(SetNext(SetPrev(link, a, b), b, a), n, NULL), t, NULL)
  OBVIOUS
<1>7. /\ MayRun(s) /\ t # NULL /\ RunNode(r, n, Frame(s, NULL), stack)
      /\ tail' = [tail EXCEPT ![s] = NULL]
      /\ sess' = sess /\ cb' = cb /\ pool' = pool /\ held' = held
  BY <1>2, <1>3, <1>4, <1>5, <1>6 DEF RunSession
<1>8. /\ Shape(link, part, pos) /\ Framed(stack, part, pos) /\ Tailed(sess, tail, part, pos)
      /\ stack \in Seq(Frames) /\ tail \in [Sessions -> Nodes \cup {NULL}]
      /\ runq \in [Sessions -> Nodes \cup {NULL}] /\ NULL \notin Nodes /\ NULL \notin Sessions
  BY <1>1, EvtcbAssumption DEF State, Sound, Framed, Tailed, Grouped
<1>9. t \in Nodes
  BY <1>2, <1>7, <1>8
<1>10. n \in Nodes /\ sess[n] = s /\ part[n] = part[t]
       /\ \A x \in Nodes : part[x] = part[t] /\ sess[x] = s => pos[n] <= pos[x]
  <2>1. PICK S : S = {x \in Nodes : sess[x] = s}
    OBVIOUS
  <2>2. tail[s] # NULL => Walk(link.prev, tail[s], S) = {x \in S : part[x] = part[tail[s]]}
    BY <1>1, <2>1, WalksMeet DEF State
  <2>3. Queued(s) = {x \in S : part[x] = part[t]}
    BY <1>2, <1>7, <2>1, <2>2 DEF Queued, Own
  <2>4. PICK Q : Q = Queued(s)
    OBVIOUS
  <2>5. Q = {x \in Nodes : sess[x] = s /\ part[x] = part[t]}
    BY <2>1, <2>3, <2>4
  <2>6. Q \in SUBSET Nodes /\ t \in Q /\ part[t] # Out
        /\ (\A x \in Nodes : x \in Q <=> sess[x] = s /\ part[x] = part[t])
    BY <1>2, <1>8, <1>9, <2>5 DEF Tailed, Out, List, Rest
  <2>7. \E z \in Q : link.prev[z] \notin Q
    BY <1>8, <2>5, <2>6, GroupHasFirst
  <2>8. n \in Q /\ link.prev[n] \notin Q
    BY <1>3, <2>4, <2>7
  <2>9. \A x \in Q : pos[n] <= pos[x]
    <3>1. PICK z \in Q : z = n
      BY <2>8
    <3>2. /\ Shape(link, part, pos) /\ Tailed(sess, tail, part, pos) /\ t \in Nodes /\ t = tail[s]
          /\ part[t] # Out /\ Q \in SUBSET Nodes
          /\ (\A x \in Nodes : x \in Q <=> sess[x] = s /\ part[x] = part[t])
          /\ link.prev[z] \notin Q
      BY <1>2, <1>8, <1>9, <2>6, <2>8, <3>1
    <3>3. \A x \in Q : pos[z] <= pos[x]
      BY <3>2, FirstOfGroup
    <3> QED BY <3>1, <3>3
  <2> QED BY <2>6, <2>8, <2>9
<1>11. PICK m : m = r.next[n]
  OBVIOUS
<1>12. /\ link' = RemoveNode(r, n)
       /\ runq' = IF sess[n] = NULL THEN runq ELSE [runq EXCEPT ![sess[n]] = m]
       /\ backref' = [u \in Sessions |-> IF u = sess[n] /\ backref[u] = n THEN NULL ELSE backref[u]]
       /\ stack' = Append(stack, [Frame(s, NULL) EXCEPT !.cur = n, !.next = m])
  BY <1>7, <1>11 DEF RunNode
<1>13. PICK f : f = [of |-> s, cur |-> NULL, next |-> n, rest |-> NULL]
  OBVIOUS
<1>14. f \in Frames /\ f.of = s /\ f.cur = NULL /\ f.next = n /\ f.rest = NULL
  BY <1>10, <1>13 DEF Frames
<1>15. PICK j : j = Append(stack, f)
  OBVIOUS
<1>16. /\ Len(stack) \in Nat /\ j \in Seq(Frames) /\ Len(j) = Len(stack) + 1
       /\ (\A i \in 1 .. Len(stack) : j[i] = stack[i]) /\ j[Len(stack) + 1] = f
  BY <1>8, <1>14, <1>15, FramePushed
<1>17. PICK d \in Nat : d = Len(stack) + 1
  BY <1>16
<1>18. /\ Len(j) = d /\ j[d].of = s /\ j[d].cur = NULL /\ j[d].next = n /\ j[d].rest = NULL
       /\ \A i \in 1 .. Len(stack) : j[i] = stack[i]
  BY <1>14, <1>16, <1>17
<1>19. \A i \in 1 .. Len(stack) : stack[i].of \notin {NULL, s}
  BY <1>7, <1>8, LenProperties DEF MayRun
<1>20. PICK rq : rq = [runq EXCEPT ![s] = n]
  OBVIOUS
<1>21. PICK q : q = Moved(part, pos, List, pos[n], pos[t], d)
  OBVIOUS
<1>22. /\ Sound(r, j, sess, tail', rq, pool, held, backref, q, pos)
       /\ part[t] = List /\ \A x \in Nodes : part[x] # d
  <2>1. Sound(link, stack, sess, tail, runq, pool, held, backref, part, pos)
    BY <1>1 DEF State
  <2>2. Extracted(link, stack, sess, tail, runq, part, pos, s, t, n, r, j, tail', rq)
    <3>1. tail' = [tail EXCEPT ![s] = NULL] /\ j \in Seq(Frames)
      BY <1>7, <1>16
    <3> QED BY <1>2, <1>4, <1>5, <1>6, <1>9, <1>10, <1>17, <1>18, <1>19, <1>20, <3>1 DEF Extracted
  <2> QED BY <1>17, <1>21, <2>1, <2>2, SessionTaken
<1>23. m \in Nodes \cup {NULL}
  <2>1. Shape(r, q, pos) /\ Framed(j, q, pos)
    BY <1>22 DEF Sound
  <2>2. d \in 1 .. Len(j)
    BY <1>16, <1>17
  <2>3. First(q, pos, d, n)
    BY <1>18, <2>1, <2>2 DEF Framed
  <2>4. q[n] = d
    BY <1>8, <1>10, <2>3 DEF First
  <2> QED BY <1>10, <1>11, <1>16, <1>17, <2>1, <2>4, NextTyped DEF Out, List
<1>24. PICK g : g = [Frame(s, NULL) EXCEPT !.cur = n, !.next = m]
  OBVIOUS
<1>25. g \in Frames /\ g.of = s /\ g.cur = n /\ g.next = m /\ g.rest = NULL
  <2>1. PICK c \in Nodes \cup {NULL} : c = NULL
    OBVIOUS
  <2>2. PICK o \in Sessions \cup {NULL} : o = s
    OBVIOUS
  <2>3. PICK y \in Nodes : y = n
    BY <1>10
  <2>4. g = StartFrame(Frame(o, c), y, m)
    BY <1>24, <2>1, <2>2, <2>3 DEF StartFrame
  <2>5. g \in Frames /\ g.of = o /\ g.cur = y /\ g.next = m /\ g.rest = c
    BY <1>23, <2>4, FrameStarted
  <2> QED BY <2>1, <2>2, <2>3, <2>5
<1>26. stack' = Append(stack, g)
  BY <1>12, <1>24
<1>27. /\ stack' \in Seq(Frames) /\ Len(stack') = Len(stack) + 1
       /\ (\A i \in 1 .. Len(stack) : stack'[i] = stack[i]) /\ stack'[Len(stack) + 1] = g
  BY <1>8, <1>25, <1>26, FramePushed
<1>28. Topped(stack', j, d) /\ stack'[d].cur = n /\ stack'[d].next = m
  <2>1. d > 0 /\ \A i \in 1 .. d : i # d => i \in 1 .. Len(stack)
    BY <1>16, <1>17
  <2> QED BY <1>17, <1>18, <1>25, <1>27, <2>1 DEF Topped
<1>29. runq' = IF sess[n] = NULL THEN rq ELSE [rq EXCEPT ![sess[n]] = m]
  BY <1>8, <1>10, <1>12, <1>20
<1>30. PICK q2 : q2 = [q EXCEPT ![n] = Out]
  OBVIOUS
<1>31. Sound(link', stack', sess, tail', runq', pool, held, backref', q2, pos)
  <2>1. Started(r, j, sess, rq, backref, d, n, link', stack', runq', backref')
    BY <1>11, <1>12, <1>18, <1>28, <1>29 DEF Started
  <2> QED BY <1>10, <1>22, <1>30, <2>1, NodeStarts
<1>32. Shrinks(sess, part, pos, q2, pos, n)
  <2>1. PICK y \in Nodes : y = n
    BY <1>10
  <2>2. PICK u \in Nodes : u = t
    BY <1>9
  <2>3. Shrinks(sess, q, pos, q2, pos, y)
    <3>1. d = Len(j) /\ d > 0 /\ j[d].next = y /\ q2 = [q EXCEPT ![y] = Out]
      BY <1>16, <1>17, <1>18, <1>30, <2>1
    <3> QED BY <1>22, <3>1, StartsFirst
  <2>4. PICK p \in {List, Rest} : p = List
    OBVIOUS
  <2>5. Piece(sess, tail, part, pos, p, y, u)
    BY <1>2, <1>8, <1>10, <1>22, <2>1, <2>2, <2>4 DEF Piece
  <2>6. Sound(link, stack, sess, tail, runq, pool, held, backref, part, pos)
    BY <1>1 DEF State
  <2>7. /\ q = Moved(part, pos, p, pos[y], pos[u], d) /\ d > 0 /\ (\A x \in Nodes : part[x] # d)
        /\ Sound(r, j, sess, tail', rq, pool, held, backref, q, pos)
    BY <1>16, <1>17, <1>21, <1>22, <2>1, <2>2, <2>4
  <2>8. OrderSame(sess, part, pos, q)
    BY <2>5, <2>6, <2>7, PieceInOrder
  <2>9. Shrinks(sess, part, pos, q2, pos, y)
    BY <2>3, <2>8, ShrinksLater
  <2> QED BY <2>1, <2>9
<1>33. Begins(n)
  <2>1. InCallback
    BY DEF RunSession
  <2>2. /\ d > 0 /\ stack' \in Seq(Frames) /\ Len(stack') = d /\ stack'[d].cur = n
        /\ (\A i \in 1 .. d : i # d => stack'[i] = stack[i]) /\ d = Len(stack) + 1
    BY <1>16, <1>17, <1>27, <1>28
  <2> QED BY <2>1, <2>2 DEF Begins
<1>34. StepStarts(n)
  BY <1>1, <1>7, <1>31, <1>32, <1>33 DEF StepStarts
<1> QED BY <1>7, <1>10, <1>31, <1>34 DEF IInv

(***************************************************************************)
(* The theorems.                                                           *)
(***************************************************************************)
\* Every step keeps the queue sound.
LEMMA NextInv == IInv /\ [Next]_vars => IInv'
<1> SUFFICES ASSUME IInv, [Next]_vars PROVE IInv'
  OBVIOUS
<1>1. ASSUME NEW n \in Nodes, NEW s \in Sessions \cup {NULL}, Schedule(n, s) \/ ScheduleOnce(n, s)
      PROVE  IInv'
  BY <1>1, ScheduleKeeps DEF ScheduleOnce
<1>2. ASSUME NEW n \in Nodes, NEW s \in EventUsers, GetEventObj(n, s)
      PROVE  IInv'
  BY <1>2, GetEventObjKeeps
<1>3. ASSUME NEW n \in Nodes, NEW s \in EventUsers, CancelEvent(n, s)
      PROVE  IInv'
  BY <1>3, CancelEventKeeps
<1>4. ASSUME NEW n \in Nodes, ScheduleEvent(n)
      PROVE  IInv'
  BY <1>4, ScheduleEventKeeps
<1>5. ASSUME NEW s \in Sessions, RemoveSessionCbs(s)
      PROVE  IInv'
  BY <1>5, RemoveSessionCbsKeeps
<1>6. ASSUME NEW s \in Sessions, CloseSession(s)
      PROVE  IInv'
  BY <1>6, CloseSessionKeeps
<1>7. ASSUME NEW s \in Sessions, RunSession(s)
      PROVE  IInv'
  BY <1>7, RunSessionKeeps
<1>8. CASE Run
  BY <1>8, RunKeeps
<1>9. CASE Return
  BY <1>9, ReturnKeeps
<1>10. CASE Advance
  BY <1>10, AdvanceKeeps
<1>11. CASE UNCHANGED vars
  BY <1>11 DEF IInv, vars
<1>12. ASSUME NEW s \in Sessions, CloseOverwrites(s)
       PROVE  IInv'
  BY <1>12 DEF CloseOverwrites, heads, IInv
<1> QED BY <1>1, <1>2, <1>3, <1>4, <1>5, <1>6, <1>7, <1>8, <1>9, <1>10, <1>11, <1>12 DEF Next

\* In every state the nodes stand in the list, in the hands of run() or of one
\* call, or nowhere, and all pointers of nodes, sessions and calls agree with
\* that, whatever is scheduled, run, cancelled and closed in between.
THEOREM EvtcbInductive == Spec => []IInv
<1>1. Init => IInv
  BY InitInv
<1>2. IInv /\ [Next]_vars => IInv'
  BY NextInv
<1> QED BY <1>1, <1>2, PTL DEF Spec

\* wild is only ever set.
WildOK == wild \in BOOLEAN

LEMMA WildType == WildOK /\ [Next]_vars => WildOK'
<1> SUFFICES ASSUME WildOK, [Next]_vars PROVE wild' = wild \/ wild' = TRUE
  BY DEF WildOK
<1>1. ASSUME NEW n, NEW s, Schedule(n, s) \/ ScheduleOnce(n, s) PROVE wild' = wild
  BY <1>1, Zenon DEF ScheduleOnce, Schedule
<1>2. ASSUME NEW n, NEW s, GetEventObj(n, s) \/ CancelEvent(n, s) PROVE wild' = wild
  BY <1>2, Zenon DEF GetEventObj, CancelEvent
<1>3. ASSUME NEW n, ScheduleEvent(n) PROVE wild' = wild
  BY <1>3, Zenon DEF ScheduleEvent
<1>4. ASSUME NEW s, RemoveSessionCbs(s) \/ CloseSession(s) \/ RunSession(s) PROVE wild' = wild
  BY <1>4, Zenon DEF RemoveSessionCbs, CloseSession, RunSession
<1>5. ASSUME NEW s, CloseOverwrites(s) PROVE wild' = TRUE
  BY <1>5, Zenon DEF CloseOverwrites
<1>6. ASSUME Run \/ Return \/ Advance PROVE wild' = wild
  BY <1>6, Zenon DEF Run, Return, Advance
<1>7. CASE UNCHANGED vars
  BY <1>7, Zenon DEF vars
<1>8. CASE Next
  <2>1. CASE \E n \in Nodes, s \in Sessions \cup {NULL} : Schedule(n, s) \/ ScheduleOnce(n, s)
    BY <1>1, <2>1, Zenon
  <2>2. CASE \E n \in Nodes, s \in EventUsers : GetEventObj(n, s) \/ CancelEvent(n, s)
    BY <1>2, <2>2, Zenon
  <2>3. CASE \E n \in Nodes : ScheduleEvent(n)
    BY <1>3, <2>3, Zenon
  <2>4. CASE \E s \in Sessions : RemoveSessionCbs(s) \/ CloseSession(s) \/ RunSession(s)
    BY <1>4, <2>4, Zenon
  <2>5. CASE \E s \in Sessions : CloseOverwrites(s)
    BY <1>5, <2>5, Zenon
  <2>6. CASE Run \/ Return \/ Advance
    BY <1>6, <2>6, Zenon
  <2> QED BY <1>8, <2>1, <2>2, <2>3, <2>4, <2>5, <2>6, Zenon DEF Next
<1> QED BY <1>7, <1>8, Zenon

\* Every pointer of the queue leads to a node, to the head or nowhere.
THEOREM EvtcbTypes == Spec => []TypeOK
<1>1. IInv /\ WildOK => TypeOK
  <2> SUFFICES ASSUME IInv, wild \in BOOLEAN PROVE TypeOK
    BY DEF WildOK
  <2>1. PICK part, pos : State(part, pos)
    BY DEF IInv, State
  <2>2. /\ link \in Links /\ stack \in Seq(Frames)
        /\ sess \in [Nodes -> Sessions \cup {NULL}] /\ tail \in [Sessions -> Nodes \cup {NULL}]
        /\ runq \in [Sessions -> Nodes \cup {NULL}] /\ backref \in [Sessions -> Nodes \cup {NULL}]
        /\ pool \subseteq Nodes /\ held \subseteq Nodes
    BY <2>1 DEF State, Sound, Shape, Framed, Tailed, Grouped, Placed, Referred
  <2>3. \A i \in DOMAIN stack : stack[i] \in Frames
    BY <2>2, LenProperties
  <2>4. cb \in [Nodes -> BOOLEAN]
    BY DEF IInv
  <2> QED BY <2>2, <2>3, <2>4, Zenon DEF TypeOK, Links, Cells, Targets, Frames
<1>2. Init => WildOK
  BY DEF Init, WildOK
<1> QED BY <1>1, <1>2, WildType, EvtcbInductive, PTL DEF Spec

\* A walk along m_pNext from the first node of a part meets all of it.
LEMMA AlongPart ==
  ASSUME NEW l, NEW part, NEW pos, Shape(l, part, pos), NEW p, p # Out, NEW n, First(part, pos, p, n)
  PROVE  Walk(l.next, n, Nodes) = {x \in Nodes : part[x] = p}
<1>1. NULL \notin Nodes /\ pos \in [Nodes -> Nat]
  BY EvtcbAssumption DEF Shape
<1>2. CASE n = NULL
  <2>1. Walk(l.next, n, Nodes) = {}
    BY <1>1, <1>2, WalkNowhere
  <2> QED BY <1>2, <2>1 DEF First
<1>3. CASE n # NULL
  <2>1. n \in Nodes /\ part[n] = p /\ \A x \in Nodes : part[x] = p => pos[n] <= pos[x]
    BY <1>3 DEF First
  <2>2. PICK S \in SUBSET Nodes : S = Nodes
    OBVIOUS
  <2>3. n \in S /\ part[n] # Out /\ (\A x \in Nodes : part[x] = part[n] /\ pos[n] <= pos[x] => x \in S)
    BY <2>1, <2>2
  <2>4. Walk(l.next, n, S) = {x \in Nodes : part[x] = part[n] /\ pos[n] <= pos[x]}
    BY <2>3, WalkOn
  <2> QED BY <2>1, <2>2, <2>4
<1> QED BY <1>2, <1>3

\* The places of the nodes as the parts of an arrangement.
LEMMA PlacesOfParts ==
  ASSUME NEW part, NEW pos, State(part, pos)
  PROVE  /\ Listed = {x \in Nodes : part[x] = List}
         /\ InHand = {x \in Nodes : part[x] = Rest \/ part[x] > 0}
         /\ Current = {x \in Nodes : part[x] = Out /\ x \notin pool \cup held}
<1>1. /\ Shape(link, part, pos) /\ Framed(stack, part, pos) /\ Placed(pool, held, stack, part)
      /\ stack \in Seq(Frames) /\ HEAD \notin Nodes /\ NULL \notin Nodes
      /\ part \in [Nodes -> Int]
  BY EvtcbAssumption DEF State, Sound, Framed, Shape
<1>2. DOMAIN stack = 1 .. Len(stack) /\ Len(stack) \in Nat
  BY <1>1, LenProperties
<1>3. Listed = {x \in Nodes : part[x] = List}
  <2>1. CASE link.next[HEAD] \in Nodes
    <3>1. First(part, pos, List, link.next[HEAD])
      BY <1>1, <2>1 DEF Shape, HeadRight, First
    <3>2. PICK p : p = List
      OBVIOUS
    <3>3. p # Out /\ First(part, pos, p, link.next[HEAD])
      BY <3>1, <3>2 DEF List, Out
    <3>4. Walk(link.next, link.next[HEAD], Nodes) = {x \in Nodes : part[x] = p}
      BY <1>1, <3>3, AlongPart
    <3> QED BY <3>2, <3>4 DEF Listed, Along
  <2>2. CASE link.next[HEAD] \notin Nodes
    <3>1. \A x \in Nodes : part[x] # List
      BY <1>1, <2>2 DEF Shape, HeadRight
    <3>2. Walk(link.next, link.next[HEAD], Nodes) = {}
      BY <2>2, WalkNowhere
    <3> QED BY <3>1, <3>2 DEF Listed, Along
  <2> QED BY <2>1, <2>2
<1>4. \A i \in 1 .. Len(stack) : Along(stack[i].next) = {x \in Nodes : part[x] = i}
  <2>1. ASSUME NEW i \in 1 .. Len(stack) PROVE Along(stack[i].next) = {x \in Nodes : part[x] = i}
    <3>1. First(part, pos, i, stack[i].next) /\ i # Out
      BY <1>1, <1>2 DEF Framed, Out
    <3> QED BY <1>1, <3>1, AlongPart DEF Along
  <2> QED BY <2>1
<1>5. \A i \in 1 .. Len(stack) : Along(stack[i].rest) = {x \in Nodes : part[x] = Rest /\ i = 1}
  <2>1. ASSUME NEW i \in 1 .. Len(stack)
        PROVE  Along(stack[i].rest) = {x \in Nodes : part[x] = Rest /\ i = 1}
    <3>1. CASE Len(stack) = 1
      <4>1. PICK p : p = Rest
        OBVIOUS
      <4>2. i = 1 /\ p # Out /\ First(part, pos, p, stack[i].rest)
        BY <1>1, <3>1, <4>1 DEF Framed, Rest, Out
      <4>3. Along(stack[i].rest) = {x \in Nodes : part[x] = p}
        BY <1>1, <4>2, AlongPart DEF Along
      <4> QED BY <4>1, <4>2, <4>3
    <3>2. CASE Len(stack) # 1
      <4>1. stack[i].rest = NULL /\ \A x \in Nodes : part[x] # Rest
        BY <1>1, <3>2 DEF Framed
      <4>2. Walk(link.next, stack[i].rest, Nodes) = {}
        BY <1>1, <4>1, WalkNowhere
      <4> QED BY <4>1, <4>2 DEF Along
    <3> QED BY <3>1, <3>2
  <2> QED BY <2>1
<1>6. InHand = {x \in Nodes : part[x] = Rest \/ part[x] > 0}
  <2>1. \A x : x \in InHand <=> \E i \in 1 .. Len(stack) :
          x \in Along(stack[i].next) \/ x \in Along(stack[i].rest)
    BY <1>2 DEF InHand
  <2>2. \A x : x \in InHand <=> \E i \in 1 .. Len(stack) :
          x \in Nodes /\ (part[x] = i \/ (part[x] = Rest /\ i = 1))
    BY <1>4, <1>5, <2>1
  <2>3. \A x \in Nodes : part[x] \in {Out, Rest, List} \cup 1 .. Len(stack)
    BY <1>1 DEF Framed
  <2>4. \A x \in Nodes : part[x] = Rest => 1 \in 1 .. Len(stack)
    <3>1. ASSUME NEW x \in Nodes, part[x] = Rest PROVE Len(stack) = 1
      BY <1>1, <3>1 DEF Framed
    <3> QED BY <3>1
  <2>5. ASSUME NEW x \in InHand PROVE x \in Nodes /\ (part[x] = Rest \/ part[x] > 0)
    BY <1>2, <2>2
  <2>6. ASSUME NEW x \in Nodes, part[x] = Rest PROVE x \in InHand
    BY <2>2, <2>4, <2>6
  <2>7. ASSUME NEW x \in Nodes, part[x] > 0 PROVE x \in InHand
    <3>1. part[x] \in 1 .. Len(stack)
      BY <2>3, <2>7 DEF Out, Rest, List
    <3> QED BY <2>2, <3>1
  <2> QED BY <2>5, <2>6, <2>7
<1>7. Current = {x \in Nodes : part[x] = Out /\ x \notin pool \cup held}
  <2>1. \A x : x \in Current <=> x # NULL /\ \E i \in 1 .. Len(stack) : stack[i].cur = x
    BY <1>2 DEF Current
  <2>2. \A i \in 1 .. Len(stack) : stack[i].cur \in Nodes \cup {NULL}
    BY <1>1, FrameTypes
  <2>3. ASSUME NEW x \in Current PROVE x \in Nodes /\ part[x] = Out /\ x \notin pool \cup held
    BY <1>1, <2>1, <2>2 DEF Placed
  <2>4. ASSUME NEW x \in Nodes, part[x] = Out, x \notin pool \cup held PROVE x \in Current
    BY <1>1, <2>1, <2>4 DEF Placed
  <2> QED BY <2>3, <2>4
<1> QED BY <1>3, <1>6, <1>7

\* No node is lost and none is in two places at once, however the calls of
\* run, run(session), schedule and closeSession interleave.
THEOREM EvtcbNodes == Spec => []NodesAccounted
<1>1. IInv => NodesAccounted
  <2> SUFFICES ASSUME IInv PROVE NodesAccounted
    OBVIOUS
  <2>1. PICK part, pos : State(part, pos)
    BY DEF IInv, State
  <2>2. /\ Listed = {x \in Nodes : part[x] = List}
        /\ InHand = {x \in Nodes : part[x] = Rest \/ part[x] > 0}
        /\ Current = {x \in Nodes : part[x] = Out /\ x \notin pool \cup held}
    BY <2>1, PlacesOfParts
  <2>3. /\ Shape(link, part, pos) /\ Framed(stack, part, pos) /\ Placed(pool, held, stack, part)
        /\ part \in [Nodes -> Int] /\ HEAD \notin Nodes /\ HEAD # NULL
        /\ Len(stack) \in Nat
    BY <2>1, EvtcbAssumption, LenProperties DEF State, Sound, Framed, Shape
  <2>4. /\ \A x \in Nodes : part[x] = Out \/ part[x] = Rest \/ part[x] = List \/ part[x] > 0
        /\ pool \subseteq Nodes /\ held \subseteq Nodes /\ pool \cap held = {}
        /\ \A x \in pool \cup held : part[x] = Out
    BY <2>3 DEF Framed, Placed
  <2>5. /\ \A x \in Nodes : x \in Listed \/ x \in InHand => part[x] # Out
        /\ Listed \cap InHand = {} /\ Listed \subseteq Nodes /\ InHand \subseteq Nodes
        /\ \A x \in Nodes : part[x] # Out => x \in Listed \/ x \in InHand
    BY <2>2, <2>3, <2>4 DEF Out, Rest, List
  <2>6. /\ Current \subseteq Nodes /\ \A x \in Current : part[x] = Out /\ x \notin pool /\ x \notin held
        /\ \A x \in Nodes : part[x] = Out => x \in pool \/ x \in held \/ x \in Current
    BY <2>2
  <2>7. PICK P : P = <<pool, held, Listed, InHand, Current>>
    OBVIOUS
  <2>8. DOMAIN P = 1 .. 5 /\ P[1] = pool /\ P[2] = held /\ P[3] = Listed /\ P[4] = InHand
        /\ P[5] = Current
    BY <2>7
  <2>9. UNION Range(P) = Nodes
    <3>1. \A x : x \in UNION Range(P) <=> \E i \in 1 .. 5 : x \in P[i]
      BY <2>8 DEF Range
    <3>2. \A x : (\E i \in 1 .. 5 : x \in P[i]) <=>
             x \in pool \/ x \in held \/ x \in Listed \/ x \in InHand \/ x \in Current
      BY <2>8
    <3>3. \A x : x \in pool \/ x \in held \/ x \in Listed \/ x \in InHand \/ x \in Current
             <=> x \in Nodes
      BY <2>4, <2>5, <2>6
    <3> QED BY <3>1, <3>2, <3>3
  <2>10. \A i, j \in DOMAIN P : i # j => P[i] \cap P[j] = {}
    <3>1. /\ pool \cap held = {} /\ pool \cap Listed = {} /\ pool \cap InHand = {}
          /\ pool \cap Current = {} /\ held \cap Listed = {} /\ held \cap InHand = {}
          /\ held \cap Current = {} /\ Listed \cap InHand = {} /\ Listed \cap Current = {}
          /\ InHand \cap Current = {}
      BY <2>4, <2>5, <2>6
    <3> QED BY <2>8, <3>1
  <2>11. \A n \in Listed \cup InHand : link.next[n] # NULL => link.prev[link.next[n]] = n
    <3>1. ASSUME NEW n \in Listed \cup InHand, link.next[n] # NULL
          PROVE  link.prev[link.next[n]] = n
      <4>1. n \in Nodes /\ NextRight(link, part, pos, n)
        BY <2>3, <2>5 DEF Shape
      <4>2. CASE link.next[n] \in Nodes
        BY <4>1, <4>2 DEF NextRight
      <4>3. CASE link.next[n] \notin Nodes
        <5>1. /\ link.next[n] = HEAD /\ part[n] = List
              /\ \A x \in Nodes : part[x] = part[n] => pos[x] <= pos[n]
          BY <3>1, <4>1, <4>3 DEF NextRight, End
        <5>2. PICK t : t = link.prev[HEAD]
          OBVIOUS
        <5>3. t \in Nodes /\ part[t] = List /\ \A x \in Nodes : part[x] = List => pos[x] <= pos[t]
          BY <2>3, <4>1, <5>1, <5>2 DEF Shape, HeadRight
        <5>4. pos \in [Nodes -> Nat] /\ pos[t] <= pos[n] /\ pos[n] <= pos[t]
          BY <2>3, <4>1, <5>1, <5>3 DEF Shape
        <5>5. pos[t] = pos[n]
          BY <4>1, <5>3, <5>4
        <5>6. t = n
          BY <2>3, <4>1, <5>1, <5>3, <5>5 DEF Shape, Out, List
        <5> QED BY <5>1, <5>2, <5>6
      <4> QED BY <4>2, <4>3
    <3> QED BY <3>1
  <2>12. ASSUME NEW s \in Sessions
         PROVE  {n \in Listed \cup InHand : sess[n] = s} = Queued(s) \cup Running(s)
    <3>1. PICK S : S = {x \in Nodes : sess[x] = s}
      OBVIOUS
    <3>2. /\ Walk(link.prev, tail[s], S) = {x \in S : part[x] \in {List, Rest}}
          /\ Walk(link.next, runq[s], S) = {x \in S : part[x] > 0}
      BY <2>1, <3>1, WalksMeet DEF State
    <3>3. /\ Queued(s) = {x \in S : part[x] \in {List, Rest}}
          /\ Running(s) = {x \in S : part[x] > 0}
      BY <3>1, <3>2 DEF Queued, Running, Own
    <3> QED BY <2>2, <3>1, <3>3
  <2> QED BY <2>7, <2>9, <2>10, <2>11, <2>12 DEF NodesAccounted
<1> QED BY <1>1, EvtcbInductive, PTL

(***************************************************************************)
(* Chains and their order as a sequence.                                   *)
(***************************************************************************)
\* upto orders W: upto[n] has n and what is before it.
Chain(W, upto) ==
  /\ IsFiniteSet(W) /\ upto \in [W -> SUBSET W]
  /\ \A n \in W : n \in upto[n]
  /\ \A m, n \in W : m \in upto[n] \/ n \in upto[m]
  /\ \A m, n \in W : m \in upto[n] /\ n \in upto[m] => m = n
  /\ \A m, n \in W : m \in upto[n] => upto[m] \subseteq upto[n]

\* The size of upto[n] is the place of n: no two elements have the same.
LEMMA RankBounds ==
  ASSUME NEW W, NEW upto, Chain(W, upto)
  PROVE  /\ Cardinality(W) \in Nat
         /\ \A n \in W : Cardinality(upto[n]) \in 1 .. Cardinality(W)
         /\ \A m, n \in W : Cardinality(upto[m]) = Cardinality(upto[n]) => m = n
<1>1. IsFiniteSet(W) /\ upto \in [W -> SUBSET W] /\ \A n \in W : n \in upto[n]
  BY DEF Chain
<1>2. Cardinality(W) \in Nat
  BY <1>1, FS_CardinalityType
<1>3. ASSUME NEW n \in W
      PROVE  IsFiniteSet(upto[n]) /\ Cardinality(upto[n]) \in 1 .. Cardinality(W)
  <2>1. PICK T \in SUBSET W : T = upto[n]
    BY <1>1
  <2>2. IsFiniteSet(T) /\ Cardinality(T) <= Cardinality(W)
    BY <1>1, FS_Subset
  <2>3. Cardinality(T) \in Nat
    BY <2>2, FS_CardinalityType
  <2>4. Cardinality(T) # 0
    BY <1>1, <2>1, <2>2, FS_EmptySet
  <2> QED BY <1>2, <2>1, <2>2, <2>3, <2>4
<1>4. ASSUME NEW m \in W, NEW n \in W, m \in upto[n], Cardinality(upto[m]) = Cardinality(upto[n])
      PROVE  m = n
  <2>1. PICK S : S = upto[n]
    OBVIOUS
  <2>2. PICK T \in SUBSET S : T = upto[m]
    BY <1>4, <2>1 DEF Chain
  <2>3. IsFiniteSet(S) /\ Cardinality(S) = Cardinality(T)
    BY <1>3, <1>4, <2>1, <2>2
  <2>4. S = T
    BY <2>3, FS_Subset
  <2>5. n \in upto[m]
    BY <1>1, <2>1, <2>2, <2>4
  <2> QED BY <1>4, <2>5 DEF Chain
<1>5. ASSUME NEW m \in W, NEW n \in W, Cardinality(upto[m]) = Cardinality(upto[n]) PROVE m = n
  <2>1. m \in upto[n] \/ n \in upto[m]
    BY DEF Chain
  <2> QED BY <1>4, <1>5, <2>1
<1> QED BY <1>2, <1>3, <1>5

\* Every place is taken.
LEMMA RankTaken ==
  ASSUME NEW W, NEW upto, Chain(W, upto), NEW i \in 1 .. Cardinality(W)
  PROVE  \E n \in W : Cardinality(upto[n]) = i
<1>1. /\ Cardinality(W) \in Nat
      /\ \A n \in W : Cardinality(upto[n]) \in 1 .. Cardinality(W)
      /\ \A m, n \in W : Cardinality(upto[m]) = Cardinality(upto[n]) => m = n
  BY RankBounds
<1>2. PICK T : T = 1 .. Cardinality(W)
  OBVIOUS
<1>3. IsFiniteSet(T) /\ Cardinality(T) = Cardinality(W)
  <2>1. 1 \in Int /\ Cardinality(W) \in Int
    BY <1>1
  <2>2. IsFiniteSet(T) /\ Cardinality(T) = IF 1 > Cardinality(W) THEN 0 ELSE Cardinality(W) - 1 + 1
    BY <1>2, <2>1, FS_Interval
  <2> QED BY <1>1, <2>2
<1>4. PICK g : g = [n \in W |-> Cardinality(upto[n])]
  OBVIOUS
<1>5. g \in [W -> T] /\ \A m, n \in W : g[m] = g[n] => m = n
  BY <1>1, <1>2, <1>4
<1>6. g \in Injection(W, T)
  BY <1>5 DEF Injection, IsInjective
<1>7. g \in Surjection(W, T)
  BY <1>3, <1>6, FS_Injection
<1>8. \E n \in W : g[n] = i
  BY <1>2, <1>7 DEF Surjection
<1> QED BY <1>4, <1>8

\* Ranked puts every element at its place.
LEMMA RankedSeq ==
  ASSUME NEW W, NEW upto, Chain(W, upto), NEW z, z = Ranked(W, upto)
  PROVE  /\ z \in Seq(W) /\ Len(z) = Cardinality(W) /\ Cardinality(W) \in Nat
         /\ \A i \in 1 .. Len(z) : z[i] \in W /\ Cardinality(upto[z[i]]) = i
         /\ \A n \in W : Cardinality(upto[n]) \in 1 .. Len(z) /\ z[Cardinality(upto[n])] = n
<1>1. /\ Cardinality(W) \in Nat
      /\ \A n \in W : Cardinality(upto[n]) \in 1 .. Cardinality(W)
      /\ \A m, n \in W : Cardinality(upto[m]) = Cardinality(upto[n]) => m = n
  BY RankBounds
<1>2. PICK c \in Nat : c = Cardinality(W)
  BY <1>1
<1>3. z = [i \in 1 .. c |-> CHOOSE n \in W : Cardinality(upto[n]) = i]
  BY <1>2 DEF Ranked
<1>4. ASSUME NEW i \in 1 .. c PROVE z[i] \in W /\ Cardinality(upto[z[i]]) = i
  <2>1. \E n \in W : Cardinality(upto[n]) = i
    BY <1>2, RankTaken
  <2>2. z[i] = CHOOSE n \in W : Cardinality(upto[n]) = i
    BY <1>3
  <2> QED BY <2>1, <2>2
<1>5. z \in [1 .. c -> W]
  BY <1>3, <1>4
<1>6. z \in Seq(W) /\ Len(z) = c
  BY <1>2, <1>5
<1>7. ASSUME NEW n \in W
      PROVE  Cardinality(upto[n]) \in 1 .. c /\ z[Cardinality(upto[n])] = n
  <2>1. PICK i \in 1 .. c : i = Cardinality(upto[n])
    BY <1>1, <1>2
  <2>2. z[i] \in W /\ Cardinality(upto[z[i]]) = Cardinality(upto[n])
    BY <1>4, <2>1
  <2>3. z[i] = n
    BY <1>1, <2>2
  <2> QED BY <2>1, <2>3
<1> QED BY <1>2, <1>4, <1>6, <1>7

\* One more element behind all others.
LEMMA RankedAppend ==
  ASSUME NEW W, NEW upto, Chain(W, upto), NEW n, n \notin W,
         NEW V, \A x : x \in V <=> x \in W \/ x = n, NEW up2, Chain(V, up2), up2[n] = V,
         \A m \in W : up2[m] = upto[m]
  PROVE  Ranked(V, up2) = Append(Ranked(W, upto), n)
<1>1. PICK z : z = Ranked(W, upto)
  OBVIOUS
<1>2. PICK y : y = Ranked(V, up2)
  OBVIOUS
<1>3. /\ z \in Seq(W) /\ Len(z) = Cardinality(W) /\ Cardinality(W) \in Nat
      /\ \A i \in 1 .. Len(z) : z[i] \in W /\ Cardinality(upto[z[i]]) = i
  BY <1>1, RankedSeq
<1>4. /\ y \in Seq(V) /\ Len(y) = Cardinality(V) /\ Cardinality(V) \in Nat
      /\ \A m \in V : Cardinality(up2[m]) \in 1 .. Len(y) /\ y[Cardinality(up2[m])] = m
  BY <1>2, RankedSeq
<1>5. Cardinality(V) = Cardinality(W) + 1
  <2>1. IsFiniteSet(W)
    BY DEF Chain
  <2>2. V = W \cup {n}
    OBVIOUS
  <2> QED BY <2>1, <2>2, FS_AddElement
<1>6. z \in Seq(V) /\ n \in V
  <2>1. W \subseteq V /\ n \in V
    OBVIOUS
  <2>2. z \in [1 .. Len(z) -> W] /\ Len(z) \in Nat
    BY <1>3
  <2>3. z \in [1 .. Len(z) -> V]
    BY <2>1, <2>2
  <2> QED BY <2>1, <2>2, <2>3
<1>7. PICK x : x = Append(z, n)
  OBVIOUS
<1>8. /\ x \in Seq(V) /\ Len(x) = Len(z) + 1 /\ \A i \in 1 .. Len(z) : x[i] = z[i]
      /\ x[Len(z) + 1] = n
  BY <1>6, <1>7, AppendProperties
<1>9. ASSUME NEW i \in 1 .. Len(y) PROVE y[i] = x[i]
  <2>1. CASE i \in 1 .. Len(z)
    <3>1. PICK m \in W : m = z[i]
      BY <1>3, <2>1
    <3>2. m \in V /\ Cardinality(up2[m]) = i
      BY <1>3, <2>1, <3>1
    <3> QED BY <1>4, <1>8, <2>1, <3>1, <3>2
  <2>2. CASE i = Len(z) + 1
    <3>1. Cardinality(up2[n]) = i
      BY <1>3, <1>5, <2>2
    <3> QED BY <1>4, <1>6, <1>8, <2>2, <3>1
  <2>3. i \in 1 .. Len(z) \/ i = Len(z) + 1
    BY <1>3, <1>4, <1>5
  <2> QED BY <2>1, <2>2, <2>3
<1>10. y = x
  <2>1. Len(y) = Len(x)
    BY <1>3, <1>4, <1>5, <1>8
  <2> QED BY <1>4, <1>8, <1>9, <2>1, SeqEqual
<1> QED BY <1>1, <1>2, <1>7, <1>10

\* The first element leaves.
LEMMA RankedTail ==
  ASSUME NEW W, NEW upto, Chain(W, upto), NEW n \in W, \A m \in W : n \in upto[m],
         NEW V, \A x : x \in V <=> x \in W /\ x # n, NEW up2, Chain(V, up2), \A m \in V : up2[m] = upto[m] \ {n}
  PROVE  /\ Ranked(W, upto) # <<>> /\ Head(Ranked(W, upto)) = n
         /\ Ranked(V, up2) = Tail(Ranked(W, upto))
<1>1. PICK z : z = Ranked(W, upto)
  OBVIOUS
<1>2. PICK y : y = Ranked(V, up2)
  OBVIOUS
<1>3. /\ z \in Seq(W) /\ Len(z) = Cardinality(W) /\ Cardinality(W) \in Nat
      /\ \A i \in 1 .. Len(z) : z[i] \in W /\ Cardinality(upto[z[i]]) = i
      /\ \A m \in W : Cardinality(upto[m]) \in 1 .. Len(z) /\ z[Cardinality(upto[m])] = m
  BY <1>1, RankedSeq
<1>4. /\ y \in Seq(V) /\ Len(y) = Cardinality(V) /\ Cardinality(V) \in Nat
      /\ \A i \in 1 .. Len(y) : y[i] \in V /\ Cardinality(up2[y[i]]) = i
  BY <1>2, RankedSeq
<1>5. IsFiniteSet(W) /\ upto \in [W -> SUBSET W]
  BY DEF Chain
<1>6. Cardinality(V) = Cardinality(W) - 1
  <2>1. V = W \ {n}
    OBVIOUS
  <2> QED BY <1>5, <2>1, FS_RemoveElement
<1>7. upto[n] = {n}
  <2>1. ASSUME NEW m \in upto[n] PROVE m = n
    <3>1. m \in W
      BY <1>5
    <3> QED BY <3>1 DEF Chain
  <2> QED BY <2>1
<1>8. Cardinality(upto[n]) = 1
  BY <1>7, FS_Singleton
<1>9. z[1] = n /\ 1 \in 1 .. Len(z)
  BY <1>3, <1>8
<1>10. z # <<>> /\ Head(z) = n
  BY <1>3, <1>9
<1>11. PICK x : x = Tail(z)
  OBVIOUS
<1>12. /\ x \in Seq(W) /\ Len(x) = Len(z) - 1 /\ \A i \in 1 .. Len(x) : x[i] = z[i + 1]
  BY <1>3, <1>10, <1>11, HeadTailProperties
<1>13. ASSUME NEW i \in 1 .. Len(y) PROVE y[i] = x[i]
  <2>1. PICK m \in V : m = y[i]
    BY <1>4
  <2>2. m \in W /\ Cardinality(up2[m]) = i /\ up2[m] = upto[m] \ {n} /\ n \in upto[m]
    BY <1>4, <2>1
  <2>3. IsFiniteSet(upto[m])
    <3>1. PICK T \in SUBSET W : T = upto[m]
      BY <1>5, <2>2
    <3> QED BY <1>5, <3>1, FS_Subset
  <2>4. Cardinality(upto[m] \ {n}) = Cardinality(upto[m]) - 1
    BY <2>2, <2>3, FS_RemoveElement
  <2>5. Cardinality(upto[m]) \in Nat
    BY <2>3, FS_CardinalityType
  <2>6. Cardinality(upto[m]) = i + 1
    BY <2>2, <2>4, <2>5
  <2>7. z[i + 1] = m
    BY <1>3, <2>2, <2>6
  <2>8. i \in 1 .. Len(x)
    BY <1>3, <1>4, <1>6, <1>12
  <2> QED BY <1>12, <2>1, <2>7, <2>8
<1>14. y = x
  <2>1. y \in Seq(W)
    <3>1. V \subseteq W /\ y \in [1 .. Len(y) -> V] /\ Len(y) \in Nat
      BY <1>4
    <3>2. y \in [1 .. Len(y) -> W]
      BY <3>1
    <3> QED BY <3>1, <3>2
  <2>2. Len(y) = Len(x)
    BY <1>3, <1>4, <1>6, <1>12
  <2> QED BY <1>12, <1>13, <2>1, <2>2, SeqEqual
<1> QED BY <1>1, <1>2, <1>10, <1>11, <1>14

(***************************************************************************)
(* What waits for a session.                                               *)
(***************************************************************************)
\* Each node that waits for s, with those up to it.
UpTo(se, part, pos, s) ==
  [n \in Row(se, part, s) |-> {m \in Row(se, part, s) : Before(part, pos, m, n)}]
Line(se, part, pos, s) == Ranked(Row(se, part, s), UpTo(se, part, pos, s))

\* They stand in a row.
LEMMA RowIsChain ==
  ASSUME NEW l, NEW k, NEW se, NEW tl, NEW rq, NEW po, NEW he, NEW br, NEW part, NEW pos,
         Sound(l, k, se, tl, rq, po, he, br, part, pos), NEW s \in Sessions
  PROVE  Chain(Row(se, part, s), UpTo(se, part, pos, s))
<1>1. PICK W : W = Row(se, part, s)
  OBVIOUS
<1>2. PICK up : up = UpTo(se, part, pos, s)
  OBVIOUS
<1>3. up = [n \in W |-> {m \in W : Before(part, pos, m, n)}]
  BY <1>1, <1>2 DEF UpTo
<1>4. IsFiniteSet(W)
  <2>1. IsFiniteSet(Nodes) /\ W \in SUBSET Nodes
    BY <1>1, EvtcbAssumption DEF Row
  <2> QED BY <2>1, FS_Subset
<1>5. up \in [W -> SUBSET W] /\ \A m, n \in W : m \in up[n] <=> Before(part, pos, m, n)
  BY <1>3
<1>6. \A m, n \in W :
        /\ part[m] \in Int /\ part[n] \in Int /\ pos[m] \in Nat /\ pos[n] \in Nat
        /\ part[m] > 0 /\ part[n] > 0 => part[m] = part[n]
        /\ ~(part[m] > 0) /\ ~(part[n] > 0) => part[m] = part[n]
        /\ part[m] = part[n] /\ pos[m] = pos[n] => m = n
  BY <1>1, RowParts
<1>7. \A m \in W : m \in up[m]
  BY <1>5, <1>6 DEF Before
<1>8. \A m, n \in W : m \in up[n] \/ n \in up[m]
  <2>1. ASSUME NEW m \in W, NEW n \in W PROVE Before(part, pos, m, n) \/ Before(part, pos, n, m)
    BY <1>6 DEF Before
  <2> QED BY <1>5, <2>1
<1>9. \A m, n \in W : m \in up[n] /\ n \in up[m] => m = n
  <2>1. ASSUME NEW m \in W, NEW n \in W, Before(part, pos, m, n), Before(part, pos, n, m) PROVE m = n
    <3>1. part[m] = part[n] /\ pos[m] <= pos[n] /\ pos[n] <= pos[m]
      BY <2>1 DEF Before
    <3>2. pos[m] = pos[n]
      BY <1>6, <3>1
    <3> QED BY <1>6, <3>1, <3>2
  <2> QED BY <1>5, <2>1
<1>10. ASSUME NEW m \in W, NEW n \in W, m \in up[n], NEW x \in up[m] PROVE x \in up[n]
  <2>1. x \in W /\ Before(part, pos, x, m) /\ Before(part, pos, m, n)
    BY <1>5, <1>10
  <2>2. Before(part, pos, x, n)
    BY <1>6, <2>1 DEF Before
  <2> QED BY <1>5, <2>1, <2>2
<1>11. Chain(W, up)
  BY <1>4, <1>5, <1>7, <1>8, <1>9, <1>10 DEF Chain
<1> QED BY <1>1, <1>2, <1>11

\* The nodes of S behind n in its part stand next to each other.
Joined(part, pos, S, n) ==
  \A x \in S : part[x] = part[n] /\ pos[n] <= pos[x] =>
    \A y \in Nodes : part[y] = part[n] /\ pos[n] <= pos[y] /\ pos[y] <= pos[x] => y \in S

\* A walk along m_pNext within S meets the nodes behind n in its part that are
\* in S, when these stand next to each other.
LEMMA WalkWithin ==
  ASSUME NEW l, NEW part, NEW pos, Shape(l, part, pos), NEW S \in SUBSET Nodes,
         NEW n \in S, part[n] # Out, Joined(part, pos, S, n)
  PROVE  Walk(l.next, n, S) = {x \in S : part[x] = part[n] /\ pos[n] <= pos[x]}
<1> DEFINE W == {x \in S : part[x] = part[n] /\ pos[n] <= pos[x]}
<1>1. pos \in [Nodes -> Nat]
  BY DEF Shape
<1>2. Walk(l.next, n, S) \subseteq W
  <2>1. W \in SUBSET S /\ n \in W
    BY <1>1
  <2>2. ASSUME NEW x \in W, l.next[x] \in S PROVE l.next[x] \in W
    <3>1. NextRight(l, part, pos, x) /\ l.next[x] \in Nodes
      BY <2>2 DEF Shape
    <3>2. part[l.next[x]] = part[x] /\ pos[x] < pos[l.next[x]]
      BY <3>1 DEF NextRight
    <3> QED BY <1>1, <2>2, <3>1, <3>2
  <2> HIDE DEF W
  <2> QED BY <2>1, <2>2, WalkClosed
<1>3. ASSUME NEW m \in W, NEW T \in SUBSET S, n \in T,
             \A x \in T : l.next[x] \in S => l.next[x] \in T
      PROVE  m \in T
  <2>1. SUFFICES ASSUME W \ T # {} PROVE FALSE
    OBVIOUS
  <2>2. PICK y \in W \ T : \A x \in W \ T : pos[y] <= pos[x]
    <3>1. W \ T \in SUBSET Nodes
      OBVIOUS
    <3> HIDE DEF W
    <3> QED BY <1>1, <2>1, <3>1, LeastNode
  <2>3. y # n /\ y \in Nodes /\ part[y] = part[n] /\ pos[n] <= pos[y] /\ y \in S
    BY <1>3, <2>2
  <2>4. PrevRight(l, part, pos, y) /\ pos[n] < pos[y]
    BY <1>1, <2>3 DEF Shape
  <2>5. PICK z : z = l.prev[y]
    OBVIOUS
  <2>6. z \in Nodes
    BY <1>1, <2>3, <2>4, <2>5 DEF PrevRight
  <2>7. part[z] = part[y] /\ pos[z] < pos[y] /\ l.next[z] = y /\ pos[n] <= pos[z]
    BY <2>3, <2>4, <2>5, <2>6 DEF PrevRight
  <2>8. z \in S
    BY <1>1, <2>3, <2>6, <2>7 DEF Joined
  <2>9. z \in W /\ z \in T
    BY <1>1, <2>2, <2>3, <2>6, <2>7, <2>8
  <2> QED BY <1>3, <2>2, <2>3, <2>7, <2>9
<1>4. W \subseteq Walk(l.next, n, S)
  BY <1>3 DEF Walk
<1> QED BY <1>2, <1>4

\* Waiting, of the session's nodes in any state.
RunsIn(l, se, rq, s) == Walk(l.next, rq[s], {x \in Nodes : se[x] = s})
QueuesIn(l, se, tl, s) == Walk(l.prev, tl[s], {x \in Nodes : se[x] = s})
WaitsIn(l, se, tl, rq, s) == RunsIn(l, se, rq, s) \cup QueuesIn(l, se, tl, s)
WaitingIn(l, se, tl, rq, s) ==
  Ranked(WaitsIn(l, se, tl, rq, s),
         [n \in WaitsIn(l, se, tl, rq, s) |->
            {m \in WaitsIn(l, se, tl, rq, s) :
               \/ m \in RunsIn(l, se, rq, s) /\ n \in QueuesIn(l, se, tl, s)
               \/ n \in Walk(l.next, m, {x \in Nodes : se[x] = s})}])

\* The pointers lead along the row of a session in the order of the row.
LEMMA WaitingIsLine ==
  ASSUME NEW l, NEW k, NEW se, NEW tl, NEW rq, NEW po, NEW he, NEW br, NEW part, NEW pos,
         Sound(l, k, se, tl, rq, po, he, br, part, pos), NEW s \in Sessions
  PROVE  WaitingIn(l, se, tl, rq, s) = Line(se, part, pos, s)
<1>1. /\ part \in [Nodes -> Int] /\ pos \in [Nodes -> Nat] /\ NULL \notin Sessions
      /\ Framed(k, part, pos) /\ Shape(l, part, pos)
      /\ Tailed(se, tl, part, pos) /\ Grouped(se, rq, k, part)
  BY EvtcbAssumption DEF Sound, Shape
<1>2. PICK S : S = {x \in Nodes : se[x] = s}
  OBVIOUS
<1>3. PICK R : R = RunsIn(l, se, rq, s)
  OBVIOUS
<1>4. PICK Q : Q = QueuesIn(l, se, tl, s)
  OBVIOUS
<1>5. PICK W : W = Row(se, part, s)
  OBVIOUS
<1>6. Q = {x \in S : part[x] \in {List, Rest}} /\ R = {x \in S : part[x] > 0}
  <2>1. /\ Walk(l.prev, tl[s], S) = {x \in S : part[x] \in {List, Rest}}
        /\ Walk(l.next, rq[s], S) = {x \in S : part[x] > 0}
    BY <1>2, WalksMeet
  <2> QED BY <1>2, <1>3, <1>4, <2>1 DEF RunsIn, QueuesIn
<1>7. W = {x \in S : part[x] # Out}
  BY <1>2, <1>5 DEF Row
<1>8. \A x \in W : part[x] \in {List, Rest} \/ part[x] > 0
  BY <1>5, RowParts
<1>9. WaitsIn(l, se, tl, rq, s) = W
  <2>1. R \cup Q = W
    BY <1>6, <1>7, <1>8 DEF Out, List, Rest
  <2> QED BY <1>3, <1>4, <2>1 DEF WaitsIn
<1>10. ASSUME NEW m \in W
       PROVE  Walk(l.next, m, S) = {x \in S : part[x] = part[m] /\ pos[m] <= pos[x]}
  <2>1. S \in SUBSET Nodes /\ m \in S /\ part[m] # Out /\ se[m] = s
    BY <1>2, <1>7
  <2>2. ASSUME NEW x \in S, part[x] = part[m], pos[m] <= pos[x], NEW y \in Nodes,
               part[y] = part[m], pos[m] <= pos[y], pos[y] <= pos[x]
        PROVE  y \in S
    <3>1. x \in Nodes /\ se[x] = s /\ s # NULL /\ m \in Nodes
      BY <1>1, <1>2, <2>1, <2>2
    <3>2. CASE part[m] > 0
      <4>1. se[y] = se[m]
        BY <1>1, <2>2, <3>1, <3>2 DEF Grouped
      <4> QED BY <1>2, <2>1, <4>1
    <3>3. CASE part[m] \in {List, Rest}
      <4>1. pos[x] <= pos[tl[s]] /\ tl[s] \in Nodes
        BY <1>1, <2>2, <3>1, <3>3, EvtcbAssumption DEF Tailed
      <4>2. pos[y] <= pos[tl[s]]
        BY <1>1, <2>2, <3>1, <4>1
      <4>3. se[y] = se[m]
        BY <1>1, <2>1, <2>2, <3>1, <3>3, <4>2 DEF Tailed
      <4> QED BY <1>2, <2>1, <4>3
    <3> QED BY <1>8, <3>2, <3>3
  <2>3. Joined(part, pos, S, m)
    BY <2>2 DEF Joined
  <2> QED BY <1>1, <2>1, <2>3, WalkWithin
<1>11. ASSUME NEW m \in W, NEW n \in W
       PROVE  (m \in R /\ n \in Q) \/ n \in Walk(l.next, m, S) <=> Before(part, pos, m, n)
  <2>1. m \in R <=> part[m] > 0
    BY <1>6, <1>7
  <2>2. n \in Q <=> ~(part[n] > 0)
    BY <1>6, <1>7, <1>8 DEF List, Rest
  <2>3. n \in Walk(l.next, m, S) <=> part[m] = part[n] /\ pos[m] <= pos[n]
    BY <1>7, <1>10
  <2> QED BY <2>1, <2>2, <2>3 DEF Before
<1>12. PICK up : up = [n \in W |-> {m \in W : (m \in R /\ n \in Q) \/ n \in Walk(l.next, m, S)}]
  OBVIOUS
<1>13. up = UpTo(se, part, pos, s)
  <2>1. up = [n \in W |-> {m \in W : Before(part, pos, m, n)}]
    BY <1>11, <1>12
  <2> QED BY <1>5, <2>1 DEF UpTo
<1>14. WaitingIn(l, se, tl, rq, s) = Ranked(W, up)
  BY <1>2, <1>3, <1>4, <1>9, <1>12 DEF WaitingIn
<1> QED BY <1>5, <1>13, <1>14 DEF Line

\* What waits for a session is what the pointers of this state lead to.
LEMMA WaitingOf ==
  ASSUME NEW s \in Sessions
  PROVE  Waiting(s) = WaitingIn(link, sess, tail, runq, s)
BY DEF Waiting, Waiters, NotAfter, Running, Queued, Own, WaitingIn, WaitsIn, RunsIn, QueuesIn

\* What waits for a session in the next state.
LEMMA WaitingThen ==
  ASSUME NEW s \in Sessions
  PROVE  Waiting(s)' = WaitingIn(link', sess', tail', runq', s)
BY DEF Waiting, Waiters, NotAfter, Running, Queued, Own, WaitingIn, WaitsIn, RunsIn, QueuesIn

\* The row of every session is a chain.
Chained(se, part, pos) == \A s \in Sessions : Chain(Row(se, part, s), UpTo(se, part, pos, s))

\* A row in which nothing changes.
LEMMA LineKept ==
  ASSUME NEW se, NEW part, NEW pos, NEW se2, NEW q, NEW w, NEW s,
         \A x \in Nodes : (se2[x] = s /\ q[x] # Out) <=> (se[x] = s /\ part[x] # Out),
         \A x, y \in Row(se, part, s) : Before(q, w, x, y) <=> Before(part, pos, x, y)
  PROVE  Line(se2, q, w, s) = Line(se, part, pos, s)
<1>1. PICK W : W = Row(se, part, s)
  OBVIOUS
<1>2. Row(se2, q, s) = W
  BY <1>1 DEF Row
<1>3. \A x, y \in W : Before(q, w, x, y) <=> Before(part, pos, x, y)
  BY <1>1
<1>4. [n \in W |-> {m \in W : Before(q, w, m, n)}] = [n \in W |-> {m \in W : Before(part, pos, m, n)}]
  BY <1>3
<1>5. UpTo(se2, q, w, s) = UpTo(se, part, pos, s)
  BY <1>1, <1>2, <1>4 DEF UpTo
<1> QED BY <1>1, <1>2, <1>5 DEF Line

\* The row of the session of a node that comes to wait.
LEMMA LineGrows ==
  ASSUME NEW se, NEW part, NEW pos, NEW se2, NEW q, NEW w, NEW n \in Nodes, NEW s \in Sessions,
         NULL \notin Sessions, Chained(se, part, pos), Chained(se2, q, w),
         \A x \in Nodes : x # n => se2[x] = se[x], Grows(se2, part, pos, q, w, n), se2[n] = s
  PROVE  Line(se2, q, w, s) = Append(Line(se, part, pos, s), n)
<1>1. PICK W : W = Row(se, part, s)
  OBVIOUS
<1>2. PICK V : V = Row(se2, q, s)
  OBVIOUS
<1>3. PICK up : up = UpTo(se, part, pos, s)
  OBVIOUS
<1>4. PICK up2 : up2 = UpTo(se2, q, w, s)
  OBVIOUS
<1>5. Chain(W, up) /\ Chain(V, up2)
  BY <1>1, <1>2, <1>3, <1>4 DEF Chained
<1>6. /\ part[n] = Out /\ q[n] # Out /\ SameOrder(se2, part, pos, q, w, n)
      /\ \A x \in Nodes : x # n => (q[x] = Out <=> part[x] = Out)
      /\ \A x \in Nodes : se2[x] = s /\ q[x] # Out => Before(q, w, x, n)
  BY DEF Grows
<1>7. n \notin W /\ n \in V /\ \A x : x \in V <=> x \in W \/ x = n
  BY <1>1, <1>2, <1>6 DEF Row
<1>8. /\ up = [y \in W |-> {x \in W : Before(part, pos, x, y)}]
      /\ up2 = [y \in V |-> {x \in V : Before(q, w, x, y)}]
  BY <1>1, <1>2, <1>3, <1>4 DEF UpTo
<1>9. up2[n] = V
  <2>1. \A x \in V : Before(q, w, x, n)
    BY <1>2, <1>6 DEF Row
  <2> QED BY <1>7, <1>8, <2>1
<1>10. ASSUME NEW m \in W PROVE up2[m] = up[m]
  <2>1. \A x \in W : Before(q, w, x, m) <=> Before(part, pos, x, m)
    <3>1. \A x \in W : x \in Nodes /\ x # n /\ se2[x] = s /\ part[x] # Out
      BY <1>1, <1>7 DEF Row
    <3> QED BY <1>6, <3>1 DEF SameOrder
  <2>2. n \notin up2[m]
    BY <1>5, <1>7, <1>9 DEF Chain
  <2>3. \A x : x \in up2[m] <=> x \in V /\ Before(q, w, x, m)
    BY <1>7, <1>8
  <2>4. \A x : x \in up[m] <=> x \in W /\ Before(part, pos, x, m)
    BY <1>8
  <2>5. \A x : x \in up2[m] <=> x \in up[m]
    BY <1>7, <2>1, <2>2, <2>3, <2>4
  <2>6. up \in [W -> SUBSET W] /\ up2 \in [V -> SUBSET V]
    BY <1>5 DEF Chain
  <2> QED BY <1>7, <2>5, <2>6
<1>11. Ranked(V, up2) = Append(Ranked(W, up), n)
  BY <1>5, <1>7, <1>9, <1>10, RankedAppend
<1> QED BY <1>1, <1>2, <1>3, <1>4, <1>11 DEF Line

\* The row of the session of a node that starts.
LEMMA LineShrinks ==
  ASSUME NEW se, NEW part, NEW pos, NEW q, NEW w, NEW n \in Nodes, NEW s \in Sessions,
         NULL \notin Sessions, Chained(se, part, pos), Chained(se, q, w),
         Shrinks(se, part, pos, q, w, n), se[n] = s
  PROVE  /\ Line(se, part, pos, s) # <<>> /\ Head(Line(se, part, pos, s)) = n
         /\ Line(se, q, w, s) = Tail(Line(se, part, pos, s))
<1>1. PICK W : W = Row(se, part, s)
  OBVIOUS
<1>2. PICK V : V = Row(se, q, s)
  OBVIOUS
<1>3. PICK up : up = UpTo(se, part, pos, s)
  OBVIOUS
<1>4. PICK up2 : up2 = UpTo(se, q, w, s)
  OBVIOUS
<1>5. Chain(W, up) /\ Chain(V, up2)
  BY <1>1, <1>2, <1>3, <1>4 DEF Chained
<1>6. /\ part[n] # Out /\ q[n] = Out /\ SameOrder(se, part, pos, q, w, n)
      /\ \A x \in Nodes : x # n => (q[x] = Out <=> part[x] = Out)
      /\ \A x \in Nodes : se[x] = s /\ part[x] # Out => Before(part, pos, n, x)
  BY DEF Shrinks
<1>7. n \in W /\ \A x : x \in V <=> x \in W /\ x # n
  BY <1>1, <1>2, <1>6 DEF Row
<1>8. /\ up = [y \in W |-> {x \in W : Before(part, pos, x, y)}]
      /\ up2 = [y \in V |-> {x \in V : Before(q, w, x, y)}]
  BY <1>1, <1>2, <1>3, <1>4 DEF UpTo
<1>9. \A m \in W : n \in up[m]
  <2>1. \A x \in W : Before(part, pos, n, x)
    BY <1>1, <1>6 DEF Row
  <2> QED BY <1>7, <1>8, <2>1
<1>10. ASSUME NEW m \in V PROVE up2[m] = up[m] \ {n}
  <2>1. \A x \in V : Before(q, w, x, m) <=> Before(part, pos, x, m)
    <3>1. \A x \in V : x \in Nodes /\ x # n /\ se[x] = s /\ part[x] # Out
      BY <1>1, <1>7 DEF Row
    <3> QED BY <1>6, <3>1 DEF SameOrder
  <2>2. \A x : x \in up2[m] <=> x \in V /\ Before(q, w, x, m)
    BY <1>8
  <2>3. \A x : x \in up[m] <=> x \in W /\ Before(part, pos, x, m)
    BY <1>7, <1>8
  <2>4. \A x : x \in up2[m] <=> x \in up[m] \ {n}
    BY <1>7, <2>1, <2>2, <2>3
  <2>5. up \in [W -> SUBSET W] /\ up2 \in [V -> SUBSET V]
    BY <1>5 DEF Chain
  <2> QED BY <1>7, <2>4, <2>5
<1>11. /\ Ranked(W, up) # <<>> /\ Head(Ranked(W, up)) = n
       /\ Ranked(V, up2) = Tail(Ranked(W, up))
  <2>1. PICK m \in W : m = n
    BY <1>7
  <2>2. Chain(W, up) /\ Chain(V, up2) /\ (\A y \in W : m \in up[y])
        /\ (\A x : x \in V <=> x \in W /\ x # m) /\ (\A y \in V : up2[y] = up[y] \ {m})
    BY <1>5, <1>7, <1>9, <1>10, <2>1
  <2>3. /\ Ranked(W, up) # <<>> /\ Head(Ranked(W, up)) = m
        /\ Ranked(V, up2) = Tail(Ranked(W, up))
    BY <2>2, RankedTail
  <2> QED BY <2>1, <2>3
<1> QED BY <1>1, <1>2, <1>3, <1>4, <1>11 DEF Line

\* Of the nodes of s, n waits neither before nor after the step.
Elsewhere(se, part, pos, se2, q, w, n, s) ==
  /\ s # NULL /\ \A x \in Nodes : x # n => se2[x] = se[x] /\ (q[x] = Out <=> part[x] = Out)
  /\ SameOrder(se2, part, pos, q, w, n)
  /\ se2[n] = s => q[n] = Out
  /\ se[n] = s => part[n] = Out

\* The rows of the other sessions stay.
LEMMA OtherLines ==
  ASSUME NEW se, NEW part, NEW pos, NEW se2, NEW q, NEW w, NEW n, NEW s,
         Elsewhere(se, part, pos, se2, q, w, n, s)
  PROVE  Line(se2, q, w, s) = Line(se, part, pos, s)
<1>1. \A x \in Nodes : (se2[x] = s /\ q[x] # Out) <=> (se[x] = s /\ part[x] # Out)
  BY DEF Elsewhere
<1>2. ASSUME NEW x \in Row(se, part, s), NEW y \in Row(se, part, s)
      PROVE  Before(q, w, x, y) <=> Before(part, pos, x, y)
  <2>1. x \in Nodes /\ y \in Nodes /\ x # n /\ y # n /\ se2[x] = s /\ se2[y] = s
        /\ part[x] # Out /\ part[y] # Out /\ s # NULL /\ SameOrder(se2, part, pos, q, w, n)
    BY DEF Row, Elsewhere
  <2> QED BY <2>1 DEF SameOrder
<1> QED BY <1>1, <1>2, LineKept

\* The rows of a state and of the next one.
LEMMA WaitingLines ==
  ASSUME NEW part, NEW pos, State(part, pos), NEW q, NEW w,
         Sound(link', stack', sess', tail', runq', pool', held', backref', q, w)
  PROVE  /\ \A s \in Sessions : Waiting(s) = Line(sess, part, pos, s)
         /\ \A s \in Sessions : Waiting(s)' = Line(sess', q, w, s)
         /\ Chained(sess, part, pos) /\ Chained(sess', q, w)
<1>1. Sound(link, stack, sess, tail, runq, pool, held, backref, part, pos)
  BY DEF State
<1>2. ASSUME NEW s \in Sessions PROVE Waiting(s) = Line(sess, part, pos, s)
  BY <1>1, WaitingIsLine, WaitingOf
<1>3. ASSUME NEW s \in Sessions PROVE Waiting(s)' = Line(sess', q, w, s)
  <2>1. WaitingIn(link', sess', tail', runq', s) = Line(sess', q, w, s)
    BY WaitingIsLine
  <2>2. Waiting(s)' = WaitingIn(link', sess', tail', runq', s)
    BY WaitingThen
  <2> QED BY <2>1, <2>2
<1>4. Chained(sess, part, pos) /\ Chained(sess', q, w)
  BY <1>1, RowIsChain DEF Chained
<1> QED BY <1>2, <1>3, <1>4

\* What waits without a session and was not cancelled, in an arrangement.
LooseIn(part, se, c) == {x \in Nodes : part[x] # Out /\ se[x] = NULL /\ c[x]}

\* It is what Loose is in a state with that arrangement.
LEMMA LooseOf ==
  ASSUME NEW part, NEW pos
  PROVE  State(part, pos) => Loose = LooseIn(part, sess, cb)
<1> SUFFICES ASSUME State(part, pos) PROVE Loose = LooseIn(part, sess, cb)
  OBVIOUS
<1>1. /\ Listed = {x \in Nodes : part[x] = List}
      /\ InHand = {x \in Nodes : part[x] = Rest \/ part[x] > 0}
  BY PlacesOfParts
<1>2. \A x \in Nodes : part[x] \in {Out, Rest, List} \cup 1 .. Len(stack)
  BY DEF State, Sound, Framed
<1>3. \A x \in Nodes : part[x] # Out <=> part[x] = List \/ part[x] = Rest \/ part[x] > 0
  BY <1>2 DEF Out, List, Rest
<1>4. \A x : x \in Listed \cup InHand <=> x \in Nodes /\ part[x] # Out
  BY <1>1, <1>3
<1> QED BY <1>4 DEF Loose, LooseIn

\* The same in the next state.
LEMMA LoosePrimed ==
  ASSUME NEW q, NEW w
  PROVE  State(q, w)' => (Loose = LooseIn(q, sess, cb))'
<1>1. State(q, w) => Loose = LooseIn(q, sess, cb)
  BY LooseOf
<1> QED BY <1>1, PTL

\* What waits without a session in the next state.
LEMMA LooseThen ==
  ASSUME NEW q, NEW w,
         Sound(link', stack', sess', tail', runq', pool', held', backref', q, w)
  PROVE  Loose' = LooseIn(q, sess', cb')
<1>1. State(q, w)'
  BY DEF State
<1>2. (Loose = LooseIn(q, sess, cb))'
  BY <1>1, LoosePrimed
<1> QED BY <1>2 DEF LooseIn

\* A sequence and the same with one more element.
LEMMA OneLonger ==
  ASSUME NEW S, NEW a \in Seq(S), NEW b \in Seq(S), Len(b) = Len(a) + 1,
         \A i \in 1 .. Len(a) : b[i] = a[i], NEW e, e = b[Len(b)]
  PROVE  b = Append(a, e) /\ b # <<>> /\ a = Front(b)
<1>1. Len(a) \in Nat /\ Len(b) \in 1 .. Len(b)
  BY LenProperties
<1>2. e \in S
  BY <1>1, LenProperties
<1>3. /\ Append(a, e) \in Seq(S) /\ Len(Append(a, e)) = Len(a) + 1
      /\ \A i \in 1 .. Len(a) : Append(a, e)[i] = a[i]
      /\ Append(a, e)[Len(a) + 1] = e
  BY <1>2, AppendProperties
<1>4. \A i \in 1 .. Len(b) : b[i] = Append(a, e)[i]
  <2>1. \A i \in 1 .. Len(b) : i \in 1 .. Len(a) \/ i = Len(a) + 1
    BY <1>1
  <2> QED BY <1>3, <2>1
<1>5. PICK c : c = Append(a, e)
  OBVIOUS
<1>6. b = c
  BY <1>3, <1>4, <1>5, SeqEqual
<1>7. b # <<>>
  BY <1>1
<1>8. PICK f : f = Front(b)
  OBVIOUS
<1>9. PICK m \in Int : m = Len(b) - 1
  BY <1>1
<1>10. f = SubSeq(b, 1, m)
  BY <1>8, <1>9 DEF Front
<1>11. m = Len(a) /\ \A i \in 1 .. m : b[i] \in S
  BY <1>1, <1>9, LenProperties
<1>12. /\ SubSeq(b, 1, m) \in Seq(S)
       /\ Len(SubSeq(b, 1, m)) = IF 1 <= m THEN m - 1 + 1 ELSE 0
       /\ \A i \in 1 .. (m - 1 + 1) : SubSeq(b, 1, m)[i] = b[1 + i - 1]
  <2>1. 1 \in Int
    OBVIOUS
  <2> QED BY <1>11, <2>1, SubSeqProperties
<1>13. f \in Seq(S) /\ Len(f) = Len(a)
  BY <1>1, <1>10, <1>11, <1>12
<1>14. \A i \in 1 .. Len(a) : f[i] = a[i]
  BY <1>1, <1>10, <1>11, <1>12
<1>15. a = f
  BY <1>13, <1>14, SeqEqual
<1> QED BY <1>5, <1>6, <1>7, <1>8, <1>15

\* The callbacks under way are what the calls run, of the innermost only when
\* it is in a callback.
Depth == IF InCallback THEN Len(stack) ELSE Len(stack) - 1
CurrentSeq ==
  /\ Depth \in Nat /\ UnderWay \in Seq(Nodes \cup {NULL}) /\ Len(UnderWay) = Depth
  /\ \A i \in 1 .. Depth : UnderWay[i] = stack[i].cur

\* They are a sequence of nodes as long as that.
LEMMA UnderWayOf == stack \in Seq(Frames) => CurrentSeq
<1> SUFFICES ASSUME stack \in Seq(Frames) PROVE CurrentSeq
  OBVIOUS
<1>1. Len(stack) \in Nat
  BY LenProperties
<1>2. ~InCallback => Len(stack) # 0
  <2>1. ~InCallback => stack # <<>>
    BY DEF InCallback
  <2> QED BY <2>1, EmptySeq
<1>3. PICK u : u = Depth
  OBVIOUS
<1>4. u \in Nat /\ \A i \in 1 .. u : i \in 1 .. Len(stack)
  BY <1>1, <1>2, <1>3 DEF Depth
<1>5. \A i \in 1 .. u : stack[i].cur \in Nodes \cup {NULL}
  BY <1>4, FrameTypes
<1>6. UnderWay = [i \in 1 .. u |-> stack[i].cur]
  BY <1>3 DEF UnderWay, Depth
<1>7. UnderWay \in [1 .. u -> Nodes \cup {NULL}]
  BY <1>5, <1>6
<1>8. UnderWay \in Seq(Nodes \cup {NULL}) /\ Len(UnderWay) = u
  BY <1>4, <1>7
<1> QED BY <1>3, <1>4, <1>6, <1>8 DEF CurrentSeq

\* The same in the next state.
LEMMA UnderWayThen == (stack \in Seq(Frames))' => CurrentSeq'
BY UnderWayOf, PTL

\* Nothing about the callbacks under way changes.
LEMMA UnderWaySame ==
  ASSUME stack \in Seq(Frames), stack' \in Seq(Frames), Depth' = Depth,
         \A i \in 1 .. Depth : stack'[i].cur = stack[i].cur
  PROVE  UnderWay' = UnderWay
<1>1. CurrentSeq /\ CurrentSeq'
  BY UnderWayOf, UnderWayThen
<1>2. PICK u : u = Depth
  OBVIOUS
<1>3. PICK a : a = UnderWay
  OBVIOUS
<1>4. PICK b : b = UnderWay'
  OBVIOUS
<1>5. /\ a \in Seq(Nodes \cup {NULL}) /\ b \in Seq(Nodes \cup {NULL}) /\ Len(a) = u /\ Len(b) = u
      /\ (\A i \in 1 .. u : a[i] = stack[i].cur) /\ \A i \in 1 .. u : b[i] = stack'[i].cur
  BY <1>1, <1>2, <1>3, <1>4 DEF CurrentSeq
<1>6. \A i \in 1 .. Len(a) : a[i] = b[i]
  BY <1>2, <1>5
<1>7. a = b
  BY <1>5, <1>6, SeqEqual
<1> QED BY <1>3, <1>4, <1>7

\* One more callback is under way.
LEMMA UnderWayGrows ==
  ASSUME stack \in Seq(Frames), stack' \in Seq(Frames), Depth' = Depth + 1,
         \A i \in 1 .. Depth : stack'[i].cur = stack[i].cur,
         NEW n, n = stack'[Depth'].cur
  PROVE  UnderWay' = Append(UnderWay, n)
<1>1. CurrentSeq /\ CurrentSeq'
  BY UnderWayOf, UnderWayThen
<1>2. PICK u : u = Depth
  OBVIOUS
<1>3. PICK a : a = UnderWay
  OBVIOUS
<1>4. PICK b : b = UnderWay'
  OBVIOUS
<1>5. /\ u \in Nat /\ a \in Seq(Nodes \cup {NULL}) /\ b \in Seq(Nodes \cup {NULL})
      /\ Len(a) = u /\ Len(b) = u + 1
      /\ (\A i \in 1 .. u : a[i] = stack[i].cur) /\ \A i \in 1 .. (u + 1) : b[i] = stack'[i].cur
  BY <1>1, <1>2, <1>3, <1>4 DEF CurrentSeq
<1>6. (\A i \in 1 .. Len(a) : b[i] = a[i]) /\ n = b[Len(b)]
  <2>1. (\A i \in 1 .. u : stack'[i].cur = stack[i].cur) /\ n = stack'[u + 1].cur
    BY <1>2
  <2>2. u + 1 \in 1 .. (u + 1) /\ \A i \in 1 .. u : i \in 1 .. (u + 1)
    BY <1>5
  <2>3. \A i \in 1 .. u : b[i] = stack'[i].cur
    BY <1>5, <2>2
  <2> QED BY <1>5, <2>1, <2>2, <2>3
<1>7. Len(b) = Len(a) + 1
  BY <1>5
<1>8. b = Append(a, n)
  <2>1. PICK S : S = Nodes \cup {NULL}
    OBVIOUS
  <2>2. a \in Seq(S) /\ b \in Seq(S)
    BY <1>5, <2>1
  <2> QED BY <1>6, <1>7, <2>2, OneLonger
<1> QED BY <1>3, <1>4, <1>8

\* The innermost callback is no longer under way.
LEMMA UnderWayShrinks ==
  ASSUME stack \in Seq(Frames), stack' \in Seq(Frames), Depth = Depth' + 1,
         \A i \in 1 .. Depth' : stack'[i].cur = stack[i].cur
  PROVE  UnderWay # <<>> /\ UnderWay' = Front(UnderWay)
<1>1. CurrentSeq /\ CurrentSeq'
  BY UnderWayOf, UnderWayThen
<1>2. PICK u : u = Depth'
  OBVIOUS
<1>3. PICK b : b = UnderWay
  OBVIOUS
<1>4. PICK a : a = UnderWay'
  OBVIOUS
<1>5. /\ u \in Nat /\ a \in Seq(Nodes \cup {NULL}) /\ b \in Seq(Nodes \cup {NULL})
      /\ Len(a) = u /\ Len(b) = u + 1
      /\ (\A i \in 1 .. u : a[i] = stack'[i].cur) /\ \A i \in 1 .. (u + 1) : b[i] = stack[i].cur
  BY <1>1, <1>2, <1>3, <1>4 DEF CurrentSeq
<1>6. Len(b) = Len(a) + 1 /\ \A i \in 1 .. Len(a) : b[i] = a[i]
  <2>1. \A i \in 1 .. u : stack'[i].cur = stack[i].cur
    BY <1>2
  <2>2. \A i \in 1 .. u : i \in 1 .. (u + 1)
    BY <1>5
  <2>3. \A i \in 1 .. u : b[i] = stack[i].cur
    BY <1>5, <2>2
  <2> QED BY <1>5, <2>1, <2>3
<1>7. PICK e : e = b[Len(b)]
  OBVIOUS
<1>8. b # <<>> /\ a = Front(b)
  <2>1. PICK S : S = Nodes \cup {NULL}
    OBVIOUS
  <2>2. a \in Seq(S) /\ b \in Seq(S)
    BY <1>5, <2>1
  <2> QED BY <1>6, <1>7, <2>2, OneLonger
<1> QED BY <1>3, <1>4, <1>8

(***************************************************************************)
(* The steps of the queue as steps of what it promises.                    *)
(***************************************************************************)
\* A call that has others inside is within a callback, and a node of a session
\* has its callback.
CallInv ==
  /\ \A i \in 1 .. Len(stack) : i # Len(stack) => stack[i].cur # NULL /\ cb[stack[i].cur]
  /\ \A n \in Nodes : sess[n] # NULL => cb[n]

\* The innermost call and its callback.
LEMMA InCallbackOf ==
  stack \in Seq(Frames) =>
    (InCallback <=> \/ Len(stack) = 0
                    \/ stack[Len(stack)].cur # NULL /\ cb[stack[Len(stack)].cur])
<1> SUFFICES ASSUME stack \in Seq(Frames)
             PROVE  InCallback <=> \/ Len(stack) = 0
                                   \/ stack[Len(stack)].cur # NULL /\ cb[stack[Len(stack)].cur]
  OBVIOUS
<1>1. stack = <<>> <=> Len(stack) = 0
  BY EmptySeq
<1> QED BY <1>1 DEF InCallback, Last

\* The same in the next state.
LEMMA InCallbackThen ==
  (stack \in Seq(Frames))' =>
    (InCallback <=> \/ Len(stack) = 0
                    \/ stack[Len(stack)].cur # NULL /\ cb[stack[Len(stack)].cur])'
BY InCallbackOf, PTL

\* The calls and their callbacks stay.
LEMMA StackStays ==
  ASSUME stack \in Seq(Frames), stack' = stack, CallInv,
         \A i \in 1 .. Len(stack) : stack[i].cur # NULL => cb'[stack[i].cur] = cb[stack[i].cur],
         \A n \in Nodes : sess'[n] # NULL => cb'[n]
  PROVE  UnderWay' = UnderWay /\ CallInv'
<1>1. Len(stack) \in Nat /\ (Len(stack) # 0 => Len(stack) \in 1 .. Len(stack))
  BY LenProperties
<1>2. /\ InCallback <=> \/ Len(stack) = 0
                        \/ stack[Len(stack)].cur # NULL /\ cb[stack[Len(stack)].cur]
      /\ InCallback' <=> \/ Len(stack) = 0
                         \/ stack[Len(stack)].cur # NULL /\ cb'[stack[Len(stack)].cur]
  BY InCallbackOf, InCallbackThen
<1>3. InCallback' <=> InCallback
  BY <1>1, <1>2
<1>4. Depth' = Depth
  BY <1>3 DEF Depth
<1>5. UnderWay' = UnderWay
  BY <1>4, UnderWaySame
<1>6. CallInv'
  BY DEF CallInv
<1> QED BY <1>5, <1>6

\* What schedule and schedule_event do for the callers.
LEMMA GrowStep ==
  ASSUME CallInv, NEW n \in Nodes, StepGrows(n), n \in pool \cup held, stack' = stack,
         cb' \in [Nodes -> BOOLEAN],
         \A x \in Nodes : x # n => sess'[x] = sess[x] /\ cb'[x] = cb[x],
         sess'[n] # NULL => cb'[n]
  PROVE  CallInv' /\ [Queue!Next]_(Queue!vars)
<1>1. PICK part, pos, q, w :
        /\ State(part, pos)
        /\ Sound(link', stack', sess', tail', runq', pool', held', backref', q, w)
        /\ Grows(sess', part, pos, q, w, n)
  BY DEF StepGrows
<1>2. /\ stack \in Seq(Frames) /\ Placed(pool, held, stack, part) /\ NULL \notin Sessions
      /\ sess' \in [Nodes -> Sessions \cup {NULL}]
  BY <1>1, EvtcbAssumption DEF State, Sound, Framed, Tailed
<1>3. \A i \in 1 .. Len(stack) : stack[i].cur # n
  BY <1>2, EvtcbAssumption DEF Placed
<1>4. UnderWay' = UnderWay /\ CallInv'
  <2>1. \A x \in Nodes : sess'[x] # NULL => cb'[x]
    BY DEF CallInv
  <2>2. \A i \in 1 .. Len(stack) : stack[i].cur # NULL => stack[i].cur \in Nodes
    BY <1>2, FrameTypes
  <2>3. \A i \in 1 .. Len(stack) : stack[i].cur # NULL => cb'[stack[i].cur] = cb[stack[i].cur]
    BY <1>3, <2>2
  <2> QED BY <1>2, <2>1, <2>3, StackStays
<1>5. /\ part[n] = Out /\ q[n] # Out /\ SameOrder(sess', part, pos, q, w, n)
      /\ \A x \in Nodes : x # n => (q[x] = Out <=> part[x] = Out)
  BY <1>1 DEF Grows
<1>6. /\ \A s \in Sessions : Waiting(s) = Line(sess, part, pos, s)
      /\ \A s \in Sessions : Waiting(s)' = Line(sess', q, w, s)
      /\ Chained(sess, part, pos) /\ Chained(sess', q, w)
  BY <1>1, WaitingLines
<1>7. ASSUME NEW s \in Sessions, s # sess'[n] PROVE Waiting(s)' = Waiting(s)
  <2>1. Elsewhere(sess, part, pos, sess', q, w, n, s)
    BY <1>2, <1>5, <1>7 DEF Elsewhere
  <2>2. Line(sess', q, w, s) = Line(sess, part, pos, s)
    BY <2>1, OtherLines
  <2> QED BY <1>6, <2>2
<1>8. ASSUME NEW s \in Sessions, s = sess'[n] PROVE Waiting(s)' = Append(Waiting(s), n)
  <2>1. Line(sess', q, w, s) = Append(Line(sess, part, pos, s), n)
    <3>1. sess'[n] = s /\ \A x \in Nodes : x # n => sess'[x] = sess[x]
      BY <1>8
    <3> QED BY <1>1, <1>2, <1>6, <3>1, LineGrows
  <2>2. Waiting(s)' = Line(sess', q, w, s) /\ Waiting(s) = Line(sess, part, pos, s)
    BY <1>6
  <2> QED BY <2>1, <2>2
<1>9. Loose = LooseIn(part, sess, cb) /\ Loose' = LooseIn(q, sess', cb')
  BY <1>1, LooseOf, LooseThen
<1>10. Loose' = IF sess'[n] = NULL /\ cb'[n] THEN Loose \cup {n} ELSE Loose
  <2>1. \A x : x \in Loose <=> x \in Nodes /\ part[x] # Out /\ sess[x] = NULL /\ cb[x]
    BY <1>9 DEF LooseIn
  <2>2. \A x : x \in Loose' <=> x \in Nodes /\ q[x] # Out /\ sess'[x] = NULL /\ cb'[x]
    BY <1>9 DEF LooseIn
  <2>3. \A x : x # n => (x \in Loose' <=> x \in Loose)
    BY <1>5, <2>1, <2>2
  <2>4. n \notin Loose /\ (n \in Loose' <=> sess'[n] = NULL /\ cb'[n])
    BY <1>5, <2>1, <2>2
  <2>5. CASE sess'[n] = NULL /\ cb'[n]
    <3>1. \A x : x \in Loose' <=> x \in Loose \cup {n}
      BY <2>3, <2>4, <2>5
    <3>2. Loose' = Loose \cup {n}
      BY <3>1
    <3> QED BY <2>5, <3>2
  <2>6. CASE ~(sess'[n] = NULL /\ cb'[n])
    <3>1. \A x : x \in Loose' <=> x \in Loose
      BY <2>3, <2>4, <2>6
    <3>2. Loose' = Loose
      BY <3>1
    <3> QED BY <2>6, <3>2
  <2> QED BY <2>5, <2>6
<1>11. Queue!Fresh(n)
  <2>1. n \notin Loose
    BY <1>5, <1>9 DEF LooseIn
  <2>2. \A i \in DOMAIN UnderWay : UnderWay[i] # n
    <3>1. CurrentSeq
      BY <1>2, UnderWayOf
    <3>2. \A i \in 1 .. Depth : i \in 1 .. Len(stack)
      BY <1>2, <3>1, LenProperties DEF Depth, CurrentSeq
    <3>3. DOMAIN UnderWay = 1 .. Depth
      BY <3>1, LenProperties DEF CurrentSeq
    <3> QED BY <1>3, <3>1, <3>2, <3>3 DEF CurrentSeq
  <2>3. ASSUME NEW s \in Sessions PROVE \A i \in DOMAIN Waiting(s) : Waiting(s)[i] # n
    <3>1. PICK W, up : W = Row(sess, part, s) /\ up = UpTo(sess, part, pos, s)
      OBVIOUS
    <3>2. Chain(W, up)
      BY <1>6, <3>1 DEF Chained
    <3>3. PICK z : z = Ranked(W, up)
      OBVIOUS
    <3>4. z \in Seq(W) /\ \A i \in 1 .. Len(z) : z[i] \in W
      BY <3>2, <3>3, RankedSeq
    <3>5. n \notin W
      BY <1>5, <3>1 DEF Row
    <3>6. Waiting(s) = z
      BY <1>6, <3>1, <3>3 DEF Line
    <3>7. DOMAIN z = 1 .. Len(z)
      BY <3>4, LenProperties
    <3> QED BY <3>4, <3>5, <3>6, <3>7
  <2>4. \A s \in Sessions : Pending[s] = Waiting(s)
    BY DEF Pending
  <2>5. n \notin Queue!Range(UnderWay)
    BY <2>2 DEF Queue!Range
  <2>6. \A s \in Sessions : n \notin Queue!Range(Pending[s])
    BY <2>3, <2>4 DEF Queue!Range
  <2> QED BY <2>1, <2>5, <2>6 DEF Queue!Fresh
<1>12. \A s \in Sessions : Pending[s] = Waiting(s) /\ Pending'[s] = Waiting(s)'
  BY DEF Pending
<1>13. Pending = [s \in Sessions |-> Pending[s]] /\ Pending' = [s \in Sessions |-> Pending'[s]]
  BY DEF Pending
<1>14. CASE sess'[n] # NULL
  <2>1. PICK s \in Sessions : s = sess'[n]
    BY <1>2, <1>14
  <2>2. Loose' = Loose
    BY <1>10, <1>14
  <2>3. Pending' = [Pending EXCEPT ![s] = Append(@, n)]
    <3>1. \A z \in Sessions : z # s => Pending'[z] = Pending[z]
      BY <1>7, <1>12, <2>1
    <3>2. Pending'[s] = Append(Pending[s], n)
      BY <1>8, <1>12, <2>1
    <3> QED BY <1>13, <3>1, <3>2
  <2>4. Queue!Schedule(n, s)
    BY <1>4, <1>11, <2>2, <2>3 DEF Queue!Schedule
  <2> QED BY <1>4, <2>4 DEF Queue!Next
<1>15. CASE sess'[n] = NULL
  <2>1. Pending' = Pending
    <3>1. \A z \in Sessions : Pending'[z] = Pending[z]
      BY <1>2, <1>7, <1>12, <1>15
    <3> QED BY <1>13, <3>1
  <2>2. CASE cb'[n]
    <3>1. Queue!ScheduleLoose(n)
      BY <1>4, <1>10, <1>11, <1>15, <2>1, <2>2 DEF Queue!ScheduleLoose
    <3> QED BY <1>4, <3>1 DEF Queue!Next
  <2>3. CASE ~cb'[n]
    <3>1. Loose' = Loose
      BY <1>10, <2>3
    <3> QED BY <1>4, <2>1, <3>1 DEF Queue!vars
  <2> QED BY <2>2, <2>3
<1> QED BY <1>14, <1>15

\* What waits stays when only a node that does not wait changes.
LEMMA WaitersStay ==
  ASSUME NEW n \in Nodes, StepStays(n),
         \A x \in Nodes : x # n => sess'[x] = sess[x] /\ cb'[x] = cb[x]
  PROVE  Pending' = Pending /\ Loose' = Loose
<1>1. PICK part, pos :
        /\ State(part, pos) /\ part[n] = Out
        /\ Sound(link', stack', sess', tail', runq', pool', held', backref', part, pos)
  BY DEF StepStays
<1>2. /\ \A s \in Sessions : Waiting(s) = Line(sess, part, pos, s)
      /\ \A s \in Sessions : Waiting(s)' = Line(sess', part, pos, s)
  BY <1>1, WaitingLines
<1>3. ASSUME NEW s \in Sessions PROVE Waiting(s)' = Waiting(s)
  <2>1. SameOrder(sess', part, pos, part, pos, n) /\ s # NULL
    BY EvtcbAssumption DEF SameOrder
  <2>2. Elsewhere(sess, part, pos, sess', part, pos, n, s)
    BY <1>1, <2>1 DEF Elsewhere
  <2>3. Line(sess', part, pos, s) = Line(sess, part, pos, s)
    BY <2>2, OtherLines
  <2> QED BY <1>2, <2>3
<1>4. Loose = LooseIn(part, sess, cb) /\ Loose' = LooseIn(part, sess', cb')
  BY <1>1, LooseOf, LooseThen
<1>5. \A x : x \in Loose <=> x \in Loose'
  BY <1>1, <1>4 DEF LooseIn
<1>6. Loose' = Loose
  BY <1>5
<1> QED BY <1>3, <1>6 DEF Pending

\* get_event_obj and cancel_event show nothing to the callers.
LEMMA StayStep ==
  ASSUME CallInv, NEW n \in Nodes, StepStays(n), n \in pool \cup held, stack' = stack,
         \A x \in Nodes : x # n => sess'[x] = sess[x] /\ cb'[x] = cb[x],
         sess'[n] # NULL => cb'[n]
  PROVE  CallInv' /\ [Queue!Next]_(Queue!vars)
<1>1. PICK part, pos : State(part, pos)
  BY DEF StepStays
<1>2. stack \in Seq(Frames) /\ Placed(pool, held, stack, part)
  BY <1>1 DEF State, Sound, Framed
<1>3. \A i \in 1 .. Len(stack) : stack[i].cur # n
  BY <1>2, EvtcbAssumption DEF Placed
<1>4. UnderWay' = UnderWay /\ CallInv'
  <2>1. \A x \in Nodes : sess'[x] # NULL => cb'[x]
    BY DEF CallInv
  <2>2. \A i \in 1 .. Len(stack) : stack[i].cur # NULL => stack[i].cur \in Nodes
    BY <1>2, FrameTypes
  <2>3. \A i \in 1 .. Len(stack) : stack[i].cur # NULL => cb'[stack[i].cur] = cb[stack[i].cur]
    BY <1>3, <2>2
  <2> QED BY <1>2, <2>1, <2>3, StackStays
<1>5. Pending' = Pending /\ Loose' = Loose
  BY WaitersStay
<1> QED BY <1>4, <1>5 DEF Queue!vars

\* Return ends the callback of its node, if that was not cancelled before it
\* began.
LEMMA ReturnStep ==
  ASSUME CallInv, NEW n \in Nodes, StepStays(n), Ends(n), sess \in [Nodes -> Sessions \cup {NULL}],
         cb \in [Nodes -> BOOLEAN]
  PROVE  CallInv' /\ [Queue!Next]_(Queue!vars)
<1>1. PICK part, pos : State(part, pos)
  BY DEF StepStays
<1>2. stack \in Seq(Frames) /\ Placed(pool, held, stack, part) /\ NULL \notin Nodes
  BY <1>1, EvtcbAssumption DEF State, Sound, Framed
<1>3. PICK d \in Nat :
        /\ d > 0 /\ Len(stack) = d /\ stack' \in Seq(Frames) /\ Len(stack') = d
        /\ stack[d].cur = n /\ stack'[d].cur = NULL
        /\ \A i \in 1 .. d : i # d => stack'[i] = stack[i]
        /\ sess' = [sess EXCEPT ![n] = NULL] /\ cb' = [cb EXCEPT ![n] = FALSE]
  BY DEF Ends
<1>4. \A x \in Nodes : x # n => sess'[x] = sess[x] /\ cb'[x] = cb[x]
  BY <1>3
<1>5. Pending' = Pending /\ Loose' = Loose
  BY <1>4, WaitersStay
<1>6. d # 0 /\ d \in 1 .. d /\ \A i \in 1 .. d : i # d <=> i \in 1 .. (d - 1)
  BY <1>3
<1>7. InCallback <=> cb[n]
  BY <1>2, <1>3, <1>6, InCallbackOf
<1>8. ~InCallback'
  BY <1>3, <1>6, InCallbackThen
<1>9. CallInv'
  <2>1. \A x \in Nodes : sess'[x] # NULL => cb'[x]
    BY <1>3 DEF CallInv
  <2>2. \A i \in 1 .. d : i # d => stack[i].cur # n
    BY <1>2, <1>3, <1>6 DEF Placed
  <2>3. \A i \in 1 .. d : stack[i].cur # NULL => stack[i].cur \in Nodes
    BY <1>2, <1>3, FrameTypes
  <2>4. \A i \in 1 .. d : i # d => stack'[i].cur # NULL /\ cb'[stack'[i].cur]
    BY <1>3, <1>4, <2>2, <2>3 DEF CallInv
  <2> QED BY <1>3, <2>1, <2>4 DEF CallInv
<1>10. Depth' = d - 1
  BY <1>3, <1>8 DEF Depth
<1>11. \A i \in 1 .. (d - 1) : stack'[i].cur = stack[i].cur
  BY <1>3, <1>6
<1>12. CASE cb[n]
  <2>1. Depth = Depth' + 1
    BY <1>3, <1>7, <1>10, <1>12 DEF Depth
  <2>2. UnderWay # <<>> /\ UnderWay' = Front(UnderWay)
    BY <1>2, <1>3, <1>10, <1>11, <2>1, UnderWayShrinks
  <2>3. Queue!Finish
    BY <1>5, <2>2 DEF Queue!Finish, Queue!Front, Front
  <2> QED BY <1>9, <2>3 DEF Queue!Next
<1>13. CASE ~cb[n]
  <2>1. Depth' = Depth
    BY <1>3, <1>7, <1>10, <1>13 DEF Depth
  <2>2. UnderWay' = UnderWay
    BY <1>2, <1>3, <1>10, <1>11, <2>1, UnderWaySame
  <2> QED BY <1>5, <1>9, <2>2 DEF Queue!vars
<1> QED BY <1>12, <1>13

\* removeSessionCb takes all of the session that waits.
LEMMA CloseStep ==
  ASSUME CallInv, NEW s \in Sessions, StepCloses(s), stack' = stack
  PROVE  CallInv' /\ [Queue!Next]_(Queue!vars)
<1>1. PICK part, pos :
        /\ State(part, pos)
        /\ Sound(link', stack', sess', tail', runq', pool', held', backref', part, pos)
        /\ \A x \in Nodes :
             /\ sess[x] # s => sess'[x] = sess[x] /\ cb'[x] = cb[x]
             /\ sess[x] = s /\ part[x] # Out => sess'[x] = NULL /\ ~cb'[x]
             /\ part[x] = Out => cb'[x] = cb[x]
             /\ sess'[x] # NULL => sess'[x] = sess[x] /\ cb'[x] = cb[x]
  BY DEF StepCloses
<1>2. /\ stack \in Seq(Frames) /\ Placed(pool, held, stack, part) /\ s # NULL
      /\ NULL \notin Sessions
  BY <1>1, EvtcbAssumption DEF State, Sound, Framed
<1>3. UnderWay' = UnderWay /\ CallInv'
  <2>1. \A x \in Nodes : sess'[x] # NULL => cb'[x]
    BY <1>1 DEF CallInv
  <2>2. \A i \in 1 .. Len(stack) : stack[i].cur # NULL => stack[i].cur \in Nodes
    BY <1>2, FrameTypes
  <2>3. \A i \in 1 .. Len(stack) : stack[i].cur # NULL => part[stack[i].cur] = Out
    BY <1>2 DEF Placed
  <2>4. \A i \in 1 .. Len(stack) : stack[i].cur # NULL => cb'[stack[i].cur] = cb[stack[i].cur]
    BY <1>1, <2>2, <2>3
  <2> QED BY <1>2, <2>1, <2>4, StackStays
<1>4. /\ \A z \in Sessions : Waiting(z) = Line(sess, part, pos, z)
      /\ \A z \in Sessions : Waiting(z)' = Line(sess', part, pos, z)
  BY <1>1, WaitingLines
<1>5. ASSUME NEW z \in Sessions, z # s PROVE Waiting(z)' = Waiting(z)
  <2>1. \A x \in Nodes : (sess'[x] = z /\ part[x] # Out) <=> (sess[x] = z /\ part[x] # Out)
    BY <1>1, <1>2, <1>5
  <2>2. Line(sess', part, pos, z) = Line(sess, part, pos, z)
    BY <2>1, LineKept
  <2> QED BY <1>4, <2>2
<1>6. Waiting(s)' = <<>>
  <2>1. Row(sess', part, s) = {}
    BY <1>1, <1>2 DEF Row
  <2>2. Line(sess', part, pos, s) = <<>>
    <3>1. Cardinality({}) = 0
      BY FS_EmptySet
    <3> QED BY <2>1, <3>1 DEF Line, Ranked
  <2> QED BY <1>4, <2>2
<1>7. Loose = LooseIn(part, sess, cb) /\ Loose' = LooseIn(part, sess', cb')
  BY <1>1, LooseOf, LooseThen
<1>8. \A x : x \in Loose <=> x \in Loose'
  BY <1>1, <1>2, <1>7 DEF LooseIn
<1>9. Loose' = Loose
  BY <1>8
<1>10. Pending' = [Pending EXCEPT ![s] = <<>>]
  BY <1>5, <1>6 DEF Pending
<1>11. Queue!Close(s)
  BY <1>3, <1>9, <1>10 DEF Queue!Close
<1> QED BY <1>3, <1>11 DEF Queue!Next

\* A call that ends shows nothing to the callers.
LEMMA CallReturnsStep ==
  ASSUME CallInv, CallReturns
  PROVE  CallInv' /\ [Queue!Next]_(Queue!vars)
<1>1. PICK part, pos :
        /\ State(part, pos)
        /\ Sound(link', stack', sess', tail', runq', pool', held', backref', part, pos)
  BY DEF CallReturns
<1>2. /\ stack # <<>> /\ Last(stack).cur = NULL /\ stack' = Front(stack)
      /\ sess' = sess /\ cb' = cb
  BY DEF CallReturns
<1>3. stack \in Seq(Frames) /\ stack' \in Seq(Frames)
  BY <1>1 DEF State, Sound, Framed
<1>4. PICK d \in Nat : d = Len(stack) /\ d > 0
  <2>1. Len(stack) \in Nat /\ Len(stack) # 0
    BY <1>2, <1>3, EmptySeq, LenProperties
  <2> QED BY <2>1
<1>5. Len(stack') = d - 1 /\ \A i \in 1 .. (d - 1) : stack'[i] = stack[i]
  BY <1>2, <1>3, <1>4, TopRemoved
<1>6. stack[d].cur = NULL
  BY <1>2, <1>4 DEF Last
<1>7. ~InCallback
  BY <1>3, <1>4, <1>6, InCallbackOf
<1>8. \A i \in 1 .. (d - 1) : i \in 1 .. d /\ i # d
  BY <1>4
<1>9. \A i \in 1 .. (d - 1) : stack'[i].cur # NULL /\ cb'[stack'[i].cur]
  BY <1>2, <1>4, <1>5, <1>8 DEF CallInv
<1>10. CallInv'
  BY <1>2, <1>5, <1>9 DEF CallInv
<1>11. InCallback'
  <2>1. Len(stack') = 0 \/ Len(stack') \in 1 .. (d - 1)
    BY <1>4, <1>5
  <2> QED BY <1>3, <1>9, <2>1, InCallbackThen
<1>12. Depth' = d - 1 /\ Depth = d - 1
  BY <1>4, <1>5, <1>7, <1>11 DEF Depth
<1>13. UnderWay' = UnderWay
  BY <1>3, <1>5, <1>12, UnderWaySame
<1>14. \A s \in Sessions : Waiting(s)' = Waiting(s)
  BY <1>1, <1>2, WaitingLines
<1>15. Loose' = Loose
  BY <1>1, <1>2, LooseOf, LooseThen
<1> QED BY <1>10, <1>13, <1>14, <1>15 DEF Pending, Queue!vars

\* The calls when a node starts: its callback, unless it was cancelled, is one
\* more under way.
LEMMA BeginsUnderWay ==
  ASSUME CallInv, NEW n \in Nodes, Begins(n), stack \in Seq(Frames), sess' = sess, cb' = cb
  PROVE  /\ CallInv'
         /\ UnderWay' = IF cb[n] THEN Append(UnderWay, n) ELSE UnderWay
<1>1. PICK d \in Nat :
        /\ d > 0 /\ stack' \in Seq(Frames) /\ Len(stack') = d /\ stack'[d].cur = n
        /\ \A i \in 1 .. d : i # d => stack'[i] = stack[i]
        /\ \/ d = Len(stack) + 1 /\ InCallback
           \/ d = Len(stack) /\ stack[d].cur = NULL
  BY DEF Begins
<1>2. /\ Len(stack) \in Nat /\ n # NULL /\ d # 0 /\ d \in 1 .. d
      /\ \A i \in 1 .. d : i # d <=> i \in 1 .. (d - 1)
  BY <1>1, LenProperties, EvtcbAssumption
<1>3. InCallback' <=> cb[n]
  BY <1>1, <1>2, InCallbackThen
<1>4. /\ InCallback <=> \/ Len(stack) = 0
                        \/ stack[Len(stack)].cur # NULL /\ cb[stack[Len(stack)].cur]
  BY InCallbackOf
<1>5. Depth = d - 1
  BY <1>1, <1>2, <1>4 DEF Depth
<1>6. ASSUME NEW i \in 1 .. (d - 1) PROVE stack[i].cur # NULL /\ cb[stack[i].cur]
  <2>1. CASE d = Len(stack) + 1 /\ InCallback
    <3>1. i \in 1 .. Len(stack) /\ Len(stack) # 0
      BY <1>1, <1>2, <2>1
    <3> QED BY <1>4, <2>1, <3>1 DEF CallInv
  <2>2. CASE d = Len(stack)
    <3>1. i \in 1 .. Len(stack) /\ i # Len(stack)
      BY <1>1, <1>2, <2>2
    <3> QED BY <3>1 DEF CallInv
  <2> QED BY <1>1, <2>1, <2>2
<1>7. \A i \in 1 .. (d - 1) : i \in 1 .. d /\ stack'[i] = stack[i]
  BY <1>1, <1>2
<1>8. CallInv'
  <2>1. \A i \in 1 .. d : i # d => stack'[i].cur # NULL /\ cb'[stack'[i].cur]
    BY <1>2, <1>6, <1>7
  <2> QED BY <1>1, <2>1 DEF CallInv
<1>9. CASE cb[n]
  <2>1. Depth' = d
    BY <1>1, <1>3, <1>9 DEF Depth
  <2>2. Depth' = Depth + 1 /\ n = stack'[Depth'].cur
    BY <1>1, <1>5, <2>1
  <2>3. \A i \in 1 .. Depth : stack'[i].cur = stack[i].cur
    BY <1>5, <1>7
  <2>4. UnderWay' = Append(UnderWay, n)
    BY <1>1, <2>2, <2>3, UnderWayGrows
  <2> QED BY <1>8, <1>9, <2>4
<1>10. CASE ~cb[n]
  <2>1. Depth' = Depth
    BY <1>1, <1>3, <1>5, <1>10 DEF Depth
  <2>2. \A i \in 1 .. Depth : stack'[i].cur = stack[i].cur
    BY <1>5, <1>7
  <2>3. UnderWay' = UnderWay
    BY <1>1, <2>1, <2>2, UnderWaySame
  <2> QED BY <1>8, <1>10, <2>3
<1> QED BY <1>9, <1>10

\* The node that a call starts is the first of those that wait for its session.
LEMMA StartStep ==
  ASSUME CallInv, NEW n \in Nodes, StepStarts(n), sess' = sess, cb' = cb
  PROVE  CallInv' /\ [Queue!Next]_(Queue!vars)
<1>1. PICK part, pos, q :
        /\ State(part, pos)
        /\ Sound(link', stack', sess', tail', runq', pool', held', backref', q, pos)
        /\ Shrinks(sess, part, pos, q, pos, n)
  BY DEF StepStarts
<1>2. /\ stack \in Seq(Frames) /\ NULL \notin Sessions /\ Begins(n)
      /\ sess \in [Nodes -> Sessions \cup {NULL}]
  BY <1>1, EvtcbAssumption DEF State, Sound, Framed, Tailed, StepStarts
<1>3. CallInv' /\ UnderWay' = IF cb[n] THEN Append(UnderWay, n) ELSE UnderWay
  BY <1>2, BeginsUnderWay
<1>4. /\ part[n] # Out /\ q[n] = Out /\ SameOrder(sess, part, pos, q, pos, n)
      /\ \A x \in Nodes : x # n => (q[x] = Out <=> part[x] = Out)
  BY <1>1 DEF Shrinks
<1>5. /\ \A s \in Sessions : Waiting(s) = Line(sess, part, pos, s)
      /\ \A s \in Sessions : Waiting(s)' = Line(sess, q, pos, s)
      /\ Chained(sess, part, pos) /\ Chained(sess, q, pos)
  BY <1>1, WaitingLines
<1>6. ASSUME NEW s \in Sessions, s # sess[n] PROVE Waiting(s)' = Waiting(s)
  <2>1. Elsewhere(sess, part, pos, sess, q, pos, n, s)
    BY <1>2, <1>4, <1>6 DEF Elsewhere
  <2>2. Line(sess, q, pos, s) = Line(sess, part, pos, s)
    BY <2>1, OtherLines
  <2> QED BY <1>5, <2>2
<1>7. Loose = LooseIn(part, sess, cb) /\ Loose' = LooseIn(q, sess, cb)
  BY <1>1, LooseOf, LooseThen
<1>8. /\ n \in Loose <=> sess[n] = NULL /\ cb[n]
      /\ \A x : x \in Loose' <=> x \in Loose /\ x # n
  BY <1>4, <1>7 DEF LooseIn
<1>9. \A s \in Sessions : Pending[s] = Waiting(s) /\ Pending'[s] = Waiting(s)'
  BY DEF Pending
<1>10. Pending = [s \in Sessions |-> Pending[s]] /\ Pending' = [s \in Sessions |-> Pending'[s]]
  BY DEF Pending
<1>11. CASE sess[n] # NULL
  <2>1. PICK s \in Sessions : s = sess[n]
    BY <1>2, <1>11
  <2>2. cb[n]
    BY <1>11 DEF CallInv
  <2>3. Loose' = Loose
    BY <1>8, <1>11
  <2>4. /\ Line(sess, part, pos, s) # <<>> /\ Head(Line(sess, part, pos, s)) = n
        /\ Line(sess, q, pos, s) = Tail(Line(sess, part, pos, s))
    BY <1>1, <1>2, <1>5, <2>1, LineShrinks
  <2>5. Pending[s] # <<>> /\ Head(Pending[s]) = n /\ Pending'[s] = Tail(Pending[s])
    BY <1>5, <1>9, <2>4
  <2>6. Pending' = [Pending EXCEPT ![s] = Tail(@)]
    <3>1. \A z \in Sessions : z # s => Pending'[z] = Pending[z]
      BY <1>6, <1>9, <2>1
    <3> QED BY <1>10, <2>5, <3>1
  <2>7. Queue!Start(s)
    BY <1>3, <2>2, <2>3, <2>5, <2>6 DEF Queue!Start
  <2> QED BY <1>3, <2>7 DEF Queue!Next
<1>12. CASE sess[n] = NULL
  <2>1. Pending' = Pending
    <3>1. \A z \in Sessions : Pending'[z] = Pending[z]
      BY <1>2, <1>6, <1>9, <1>12
    <3> QED BY <1>10, <3>1
  <2>2. CASE cb[n]
    <3>1. Loose' = Loose \ {n} /\ n \in Loose
      BY <1>8, <1>12, <2>2
    <3>2. Queue!StartLoose(n)
      BY <1>3, <2>1, <2>2, <3>1 DEF Queue!StartLoose
    <3> QED BY <1>3, <3>2 DEF Queue!Next
  <2>3. CASE ~cb[n]
    <3>1. Loose' = Loose
      BY <1>8, <2>3
    <3> QED BY <1>3, <2>1, <2>3, <3>1 DEF Queue!vars
  <2> QED BY <2>2, <2>3
<1> QED BY <1>11, <1>12

\* At the start nothing waits and nothing is under way.
LEMMA QueueInit == Init => CallInv /\ Queue!Init
<1> SUFFICES ASSUME Init PROVE CallInv /\ Queue!Init
  OBVIOUS
<1>1. /\ stack = <<>> /\ sess = [x \in Nodes |-> NULL] /\ pool = Nodes
      /\ cb = [x \in Nodes |-> FALSE]
  BY DEF Init
<1>2. CallInv
  <2>1. Len(stack) = 0
    BY <1>1
  <2>2. \A i \in 1 .. Len(stack) : FALSE
    BY <2>1
  <2> QED BY <1>1, <2>2 DEF CallInv
<1>3. PICK part, pos : State(part, pos)
  BY InitInv DEF IInv, State
<1>4. ASSUME NEW s \in Sessions PROVE Waiting(s) = <<>>
  <2>1. s # NULL
    BY EvtcbAssumption
  <2>2. Row(sess, part, s) = {}
    BY <1>1, <2>1 DEF Row
  <2>3. Line(sess, part, pos, s) = <<>>
    <3>1. Cardinality({}) = 0
      BY FS_EmptySet
    <3> QED BY <2>2, <3>1 DEF Line, Ranked
  <2>4. Waiting(s) = Line(sess, part, pos, s)
    BY <1>3, WaitingIsLine, WaitingOf DEF State
  <2> QED BY <2>3, <2>4
<1>5. Loose = {}
  <2>1. Loose = LooseIn(part, sess, cb)
    BY <1>3, LooseOf
  <2> QED BY <1>1, <2>1 DEF LooseIn
<1>6. UnderWay = <<>>
  <2>1. InCallback /\ Len(stack) = 0
    BY <1>1 DEF InCallback
  <2> QED BY <1>1, <2>1 DEF UnderWay
<1>7. Pending = [s \in Sessions |-> <<>>]
  BY <1>4 DEF Pending
<1> QED BY <1>2, <1>5, <1>6, <1>7 DEF Queue!Init

\* Every step of the queue is one of what it promises, or shows nothing.
LEMMA NextRefines == IInv /\ CallInv /\ [Next]_vars => CallInv' /\ [Queue!Next]_(Queue!vars)
<1> SUFFICES ASSUME IInv, CallInv, [Next]_vars
             PROVE  CallInv' /\ [Queue!Next]_(Queue!vars)
  OBVIOUS
<1>a. /\ sess \in [Nodes -> Sessions \cup {NULL}] /\ cb \in [Nodes -> BOOLEAN]
      /\ NULL \notin Sessions /\ EventUsers \subseteq Sessions
  BY EvtcbAssumption DEF IInv, Sound, Tailed
<1>1. ASSUME NEW n \in Nodes, NEW s \in Sessions \cup {NULL}, Schedule(n, s) \/ ScheduleOnce(n, s)
      PROVE  CallInv' /\ [Queue!Next]_(Queue!vars)
  <2>1. Schedule(n, s)
    BY <1>1 DEF ScheduleOnce
  <2>2. StepGrows(n) /\ cb' \in [Nodes -> BOOLEAN]
    BY <2>1, ScheduleKeeps DEF IInv
  <2>3. n \in pool \cup held /\ stack' = stack
        /\ sess' = [sess EXCEPT ![n] = s] /\ cb' = [cb EXCEPT ![n] = TRUE]
    BY <2>1 DEF Schedule
  <2>4. (\A x \in Nodes : x # n => sess'[x] = sess[x] /\ cb'[x] = cb[x]) /\ cb'[n]
    BY <1>a, <2>3
  <2> QED BY <2>2, <2>3, <2>4, GrowStep
<1>2. ASSUME NEW n \in Nodes, NEW s \in EventUsers, GetEventObj(n, s)
      PROVE  CallInv' /\ [Queue!Next]_(Queue!vars)
  <2>1. StepStays(n)
    BY <1>2, GetEventObjKeeps
  <2>2. n \in pool \cup held /\ stack' = stack
        /\ sess' = [sess EXCEPT ![n] = s] /\ cb' = [cb EXCEPT ![n] = TRUE]
    BY <1>2 DEF GetEventObj
  <2>3. (\A x \in Nodes : x # n => sess'[x] = sess[x] /\ cb'[x] = cb[x]) /\ cb'[n]
    BY <1>a, <2>2
  <2> QED BY <2>1, <2>2, <2>3, StayStep
<1>3. ASSUME NEW n \in Nodes, NEW s \in EventUsers, CancelEvent(n, s)
      PROVE  CallInv' /\ [Queue!Next]_(Queue!vars)
  <2>1. StepStays(n)
    BY <1>3, CancelEventKeeps
  <2>2. n \in pool \cup held /\ stack' = stack
        /\ sess' = [sess EXCEPT ![n] = NULL] /\ cb' = [cb EXCEPT ![n] = FALSE]
    BY <1>3 DEF CancelEvent, Recycle
  <2>3. (\A x \in Nodes : x # n => sess'[x] = sess[x] /\ cb'[x] = cb[x]) /\ sess'[n] = NULL
    BY <1>a, <2>2
  <2> QED BY <2>1, <2>2, <2>3, StayStep
<1>4. ASSUME NEW n \in Nodes, ScheduleEvent(n)
      PROVE  CallInv' /\ [Queue!Next]_(Queue!vars)
  <2>1. StepGrows(n)
    BY <1>4, ScheduleEventKeeps
  <2>2. n \in pool \cup held /\ stack' = stack /\ sess' = sess /\ cb' = cb
    BY <1>4 DEF ScheduleEvent
  <2>3. sess'[n] # NULL => cb'[n]
    BY <2>2 DEF CallInv
  <2> QED BY <1>a, <2>1, <2>2, <2>3, GrowStep
<1>5. ASSUME NEW s \in Sessions, RemoveSessionCbs(s)
      PROVE  CallInv' /\ [Queue!Next]_(Queue!vars)
  <2>1. StepCloses(s) /\ stack' = stack
    BY <1>5, RemoveSessionCbsKeeps DEF RemoveSessionCbs
  <2> QED BY <2>1, CloseStep
<1>6. ASSUME NEW s \in Sessions, CloseSession(s)
      PROVE  CallInv' /\ [Queue!Next]_(Queue!vars)
  <2>1. StepCloses(s) /\ stack' = stack
    BY <1>6, CloseSessionKeeps DEF CloseSession
  <2> QED BY <2>1, CloseStep
<1>7. ASSUME NEW s \in Sessions, RunSession(s)
      PROVE  CallInv' /\ [Queue!Next]_(Queue!vars)
  <2>1. PICK n \in Nodes : StepStarts(n)
    BY <1>7, RunSessionKeeps
  <2>2. sess' = sess /\ cb' = cb
    BY <1>7 DEF RunSession
  <2> QED BY <2>1, <2>2, StartStep
<1>8. CASE Run
  <2>1. PICK n \in Nodes : StepStarts(n)
    BY <1>8, RunKeeps
  <2>2. sess' = sess /\ cb' = cb
    BY <1>8 DEF Run
  <2> QED BY <2>1, <2>2, StartStep
<1>9. CASE Return
  <2>1. PICK n \in Nodes : StepStays(n) /\ Ends(n)
    BY <1>9, ReturnKeeps
  <2> QED BY <1>a, <2>1, ReturnStep
<1>10. CASE Advance
  <2>1. sess' = sess /\ cb' = cb
    BY <1>10 DEF Advance
  <2>2. CASE \E n \in Nodes : StepStarts(n)
    BY <2>1, <2>2, StartStep
  <2>3. CASE CallReturns
    BY <2>3, CallReturnsStep
  <2> QED BY <1>10, <2>2, <2>3, AdvanceKeeps
<1>11. ASSUME UNCHANGED <<link, sess, cb, tail, runq, stack>>
       PROVE  CallInv' /\ [Queue!Next]_(Queue!vars)
  <2>1. /\ link' = link /\ sess' = sess /\ cb' = cb /\ tail' = tail /\ runq' = runq
        /\ stack' = stack
    BY <1>11
  <2>2. UnderWay' = UnderWay /\ Loose' = Loose
    BY <2>1 DEF UnderWay, InCallback, Loose, Listed, InHand, Along
  <2>3. \A s \in Sessions : Waiting(s)' = Waiting(s)
    BY <2>1, WaitingOf, WaitingThen
  <2>4. CallInv'
    BY <2>1 DEF CallInv
  <2> QED BY <2>2, <2>3, <2>4 DEF Pending, Queue!vars
<1>12. ASSUME NEW s \in Sessions, CloseOverwrites(s)
       PROVE  CallInv' /\ [Queue!Next]_(Queue!vars)
  BY <1>11, <1>12 DEF CloseOverwrites, heads
<1>13. CASE UNCHANGED vars
  BY <1>11, <1>13 DEF vars
<1> QED BY <1>1, <1>2, <1>3, <1>4, <1>5, <1>6, <1>7, <1>8, <1>9, <1>10, <1>12, <1>13 DEF Next

\* EvtcbQue implements CallbackQueue: whatever threads schedule and callbacks
\* schedule, run and close in between, the callbacks of a session start in the
\* order of scheduling, once each, and none that waited when the session was
\* closed starts any more.
THEOREM EvtcbRunsAsPromised == Spec => RunsAsPromised
<1>1. Init => CallInv /\ Queue!Init
  BY QueueInit
<1>2. IInv /\ CallInv /\ [Next]_vars => CallInv' /\ [Queue!Next]_(Queue!vars)
  BY NextRefines
<1> QED BY <1>1, <1>2, EvtcbInductive, PTL DEF Spec, RunsAsPromised, Queue!Spec
=============================================================================
