-------------------------- MODULE ExtWorker_proofs --------------------------
(***************************************************************************)
(* The pools of connections, the assignments and the requests, for any     *)
(* workers, connections, requests and errors, and calls nested to any      *)
(* depth.  Between two callbacks the state is Sound; within one it is      *)
(* Sound but for the connection and the requests that the callers hold.    *)
(* Good(F) says what the calls of a table leave behind and is shown for    *)
(* every depth by induction.                                               *)
(***************************************************************************)
EXTENDS ExtWorker, FiniteSetTheorems, FunctionTheorems, SequenceTheorems,
        WellFoundedInduction, TLAPS

(***************************************************************************)
(* Lists without repetition.                                               *)
(***************************************************************************)
Lists(S) == {q \in Seq(S) : IsInjective(q)}

\* What the provers need to know of a list.
LEMMA ListFacts ==
  ASSUME NEW S, NEW q
  PROVE  q \in Lists(S) <=> /\ q \in Seq(S)
                            /\ \A i, j \in 1 .. Len(q) : q[i] = q[j] => i = j
BY DEF Lists, IsInjective

LEMMA RangeFacts ==
  ASSUME NEW S, NEW q \in Seq(S)
  PROVE  /\ Range(q) \subseteq S
         /\ \A x : x \in Range(q) <=> \E i \in 1 .. Len(q) : q[i] = x
BY DEF Range

LEMMA AppendList ==
  ASSUME NEW S, NEW q \in Lists(S), NEW x \in S, x \notin Range(q)
  PROVE  /\ Append(q, x) \in Lists(S)
         /\ Range(Append(q, x)) = Range(q) \cup {x}
<1>1. q \in Seq(S) /\ \A i, j \in 1 .. Len(q) : q[i] = q[j] => i = j
  BY ListFacts
<1> DEFINE p == Append(q, x)
<1>2. /\ p \in Seq(S) /\ Len(p) = Len(q) + 1 /\ p[Len(q) + 1] = x
      /\ \A i \in 1 .. Len(q) : p[i] = q[i]
  BY <1>1
<1> HIDE DEF p
<1>3. Len(q) \in Nat
  BY <1>1
<1>4. \A i \in 1 .. Len(q) : q[i] # x
  BY <1>1, RangeFacts
<1>5. \A i, j \in 1 .. Len(p) : p[i] = p[j] => i = j
  BY <1>1, <1>2, <1>3, <1>4
<1>6. \A y : y \in Range(p) <=> y \in Range(q) \cup {x}
  <2>1. \A y : y \in Range(p) <=> \E i \in 1 .. Len(p) : p[i] = y
    BY <1>2, RangeFacts
  <2>2. \A y : y \in Range(q) <=> \E i \in 1 .. Len(q) : q[i] = y
    BY <1>1, RangeFacts
  <2>3. ASSUME NEW y, y \in Range(p) PROVE y \in Range(q) \cup {x}
    BY <2>1, <2>2, <2>3, <1>2, <1>3
  <2>4. ASSUME NEW y, y \in Range(q) \cup {x} PROVE y \in Range(p)
    <3>1. CASE y = x
      BY <3>1, <2>1, <1>2, <1>3
    <3>2. CASE y \in Range(q)
      BY <3>2, <2>1, <2>2, <1>2, <1>3
    <3> QED BY <2>4, <3>1, <3>2
  <2> QED BY <2>3, <2>4
<1>7. p \in Lists(S)
  BY <1>2, <1>5, ListFacts
<1> QED BY <1>6, <1>7 DEF p

LEMMA ConsList ==
  ASSUME NEW S, NEW q \in Lists(S), NEW x \in S, x \notin Range(q)
  PROVE  /\ <<x>> \o q \in Lists(S)
         /\ Range(<<x>> \o q) = Range(q) \cup {x}
<1>1. q \in Seq(S) /\ \A i, j \in 1 .. Len(q) : q[i] = q[j] => i = j
  BY ListFacts
<1> DEFINE p == <<x>> \o q
<1>2. /\ p \in Seq(S) /\ Len(p) = Len(q) + 1 /\ p[1] = x
      /\ \A i \in 1 .. Len(q) : p[i + 1] = q[i]
  BY <1>1
<1> HIDE DEF p
<1>3. Len(q) \in Nat
  BY <1>1
<1>4. \A i \in 1 .. Len(q) : q[i] # x
  BY <1>1, RangeFacts
<1>4a. \A i \in 1 .. Len(p) : i # 1 => i - 1 \in 1 .. Len(q) /\ p[i] = q[i - 1]
  <2> TAKE i \in 1 .. Len(p)
  <2> HAVE i # 1
  <2>1. i - 1 \in 1 .. Len(q) /\ (i - 1) + 1 = i
    BY <1>2, <1>3
  <2> QED BY <2>1, <1>2
<1>5. \A i, j \in 1 .. Len(p) : p[i] = p[j] => i = j
  <2> TAKE i, j \in 1 .. Len(p)
  <2> HAVE p[i] = p[j]
  <2>1. CASE i = 1 \/ j = 1
    BY <2>1, <1>2, <1>3, <1>4, <1>4a
  <2>2. CASE i # 1 /\ j # 1
    <3>1. i - 1 = j - 1
      BY <2>2, <1>4a, <1>1
    <3> QED BY <3>1, <1>2, <1>3
  <2> QED BY <2>1, <2>2
<1>6. \A y : y \in Range(p) <=> y \in Range(q) \cup {x}
  <2>1. \A y : y \in Range(p) <=> \E i \in 1 .. Len(p) : p[i] = y
    BY <1>2, RangeFacts
  <2>2. \A y : y \in Range(q) <=> \E i \in 1 .. Len(q) : q[i] = y
    BY <1>1, RangeFacts
  <2>3. ASSUME NEW y, y \in Range(p) PROVE y \in Range(q) \cup {x}
    BY <2>1, <2>2, <2>3, <1>2, <1>3, <1>4a
  <2>4. ASSUME NEW y, y \in Range(q) \cup {x} PROVE y \in Range(p)
    <3>1. CASE y = x
      BY <3>1, <2>1, <1>2, <1>3
    <3>2. CASE y \in Range(q)
      <4>1. PICK i \in 1 .. Len(q) : q[i] = y
        BY <3>2, <2>2
      <4>2. i + 1 \in 1 .. Len(p)
        BY <1>2, <1>3
      <4> QED BY <4>1, <4>2, <2>1, <1>2
    <3> QED BY <2>4, <3>1, <3>2
  <2> QED BY <2>3, <2>4
<1>7. p \in Lists(S)
  BY <1>2, <1>5, ListFacts
<1> QED BY <1>6, <1>7 DEF p

LEMMA TailList ==
  ASSUME NEW S, NEW q \in Lists(S), q # <<>>
  PROVE  /\ Head(q) \in Range(q)
         /\ Tail(q) \in Lists(S)
         /\ Range(Tail(q)) = Range(q) \ {Head(q)}
<1>1. q \in Seq(S) /\ \A i, j \in 1 .. Len(q) : q[i] = q[j] => i = j
  BY ListFacts
<1> DEFINE p == Tail(q)
<1>2. /\ p \in Seq(S) /\ Len(p) = Len(q) - 1 /\ Head(q) = q[1] /\ Len(q) \in Nat \ {0}
      /\ \A i \in 1 .. Len(p) : p[i] = q[i + 1]
  BY <1>1
<1> HIDE DEF p
<1>3. Head(q) \in Range(q)
  BY <1>1, <1>2, RangeFacts
<1>5. \A i, j \in 1 .. Len(p) : p[i] = p[j] => i = j
  <2> TAKE i, j \in 1 .. Len(p)
  <2> HAVE p[i] = p[j]
  <2>1. i + 1 \in 1 .. Len(q) /\ j + 1 \in 1 .. Len(q)
    BY <1>2
  <2>2. i + 1 = j + 1
    BY <2>1, <1>1, <1>2
  <2> QED BY <2>2, <1>2
<1>6. \A y : y \in Range(p) <=> y \in Range(q) \ {Head(q)}
  <2>1. \A y : y \in Range(p) <=> \E i \in 1 .. Len(p) : p[i] = y
    BY <1>2, RangeFacts
  <2>2. \A y : y \in Range(q) <=> \E i \in 1 .. Len(q) : q[i] = y
    BY <1>1, RangeFacts
  <2>3. ASSUME NEW y, y \in Range(p) PROVE y \in Range(q) \ {Head(q)}
    <3>1. PICK i \in 1 .. Len(p) : p[i] = y
      BY <2>1, <2>3
    <3>2. i + 1 \in 1 .. Len(q) /\ i + 1 # 1 /\ 1 \in 1 .. Len(q)
      BY <1>2
    <3>3. q[i + 1] = y
      BY <3>1, <1>2
    <3>4. q[i + 1] # q[1]
      BY <3>2, <1>1
    <3> QED BY <3>2, <3>3, <3>4, <2>2, <1>2
  <2>4. ASSUME NEW y, y \in Range(q) \ {Head(q)} PROVE y \in Range(p)
    <3>1. PICK i \in 1 .. Len(q) : q[i] = y
      BY <2>2, <2>4
    <3>2. i # 1
      BY <3>1, <2>4, <1>2
    <3>3. i - 1 \in 1 .. Len(p) /\ (i - 1) + 1 = i
      BY <3>2, <1>2
    <3> QED BY <3>1, <3>3, <2>1, <1>2
  <2> QED BY <2>3, <2>4
<1>7. p \in Lists(S)
  BY <1>2, <1>5, ListFacts
<1> QED BY <1>3, <1>6, <1>7 DEF p

LEMMA FrontList ==
  ASSUME NEW S, NEW q \in Lists(S), q # <<>>
  PROVE  /\ Last(q) \in Range(q)
         /\ Front(q) \in Lists(S)
         /\ Range(Front(q)) = Range(q) \ {Last(q)}
<1>1. q \in Seq(S) /\ \A i, j \in 1 .. Len(q) : q[i] = q[j] => i = j
  BY ListFacts
<1> DEFINE p == Front(q)
<1>2. /\ p \in Seq(S) /\ Len(p) = Len(q) - 1 /\ Last(q) = q[Len(q)] /\ Len(q) \in Nat \ {0}
      /\ \A i \in 1 .. Len(p) : p[i] = q[i]
  <2>1. Len(q) \in Nat \ {0}
    BY <1>1
  <2>2. PICK n \in Nat : n + 1 = Len(q) /\ n = Len(q) - 1
    BY <2>1
  <2>3. p = SubSeq(q, 1, n)
    BY <2>2 DEF Front
  <2>4. /\ SubSeq(q, 1, n) \in Seq(S) /\ Len(SubSeq(q, 1, n)) = n
        /\ \A i \in 1 .. n : SubSeq(q, 1, n)[i] = q[i]
    BY <1>1, <2>2
  <2> HIDE DEF p
  <2> QED BY <2>1, <2>2, <2>3, <2>4 DEF Last
<1> HIDE DEF p
<1>3. Last(q) \in Range(q)
  BY <1>1, <1>2, RangeFacts
<1>5. \A i, j \in 1 .. Len(p) : p[i] = p[j] => i = j
  BY <1>1, <1>2
<1>6. \A y : y \in Range(p) <=> y \in Range(q) \ {Last(q)}
  <2>1. \A y : y \in Range(p) <=> \E i \in 1 .. Len(p) : p[i] = y
    BY <1>2, RangeFacts
  <2>2. \A y : y \in Range(q) <=> \E i \in 1 .. Len(q) : q[i] = y
    BY <1>1, RangeFacts
  <2>3. ASSUME NEW y, y \in Range(p) PROVE y \in Range(q) \ {Last(q)}
    <3>1. PICK i \in 1 .. Len(p) : p[i] = y
      BY <2>1, <2>3
    <3>2. i \in 1 .. Len(q) /\ i # Len(q) /\ Len(q) \in 1 .. Len(q)
      BY <1>2
    <3>3. q[i] # q[Len(q)]
      BY <3>2, <1>1
    <3> QED BY <3>1, <3>2, <3>3, <2>2, <1>2
  <2>4. ASSUME NEW y, y \in Range(q) \ {Last(q)} PROVE y \in Range(p)
    <3>1. PICK i \in 1 .. Len(q) : q[i] = y
      BY <2>2, <2>4
    <3>2. i # Len(q)
      BY <3>1, <2>4, <1>2
    <3>3. i \in 1 .. Len(p)
      BY <3>2, <1>2
    <3> QED BY <3>1, <3>3, <2>1, <1>2
  <2> QED BY <2>3, <2>4
<1>7. p \in Lists(S)
  BY <1>2, <1>5, ListFacts
<1> QED BY <1>3, <1>6, <1>7 DEF p

\* ls_ptrlist_erase removes x and nothing else.
LEMMA EraseList ==
  ASSUME NEW S, NEW q \in Lists(S), NEW x
  PROVE  /\ Erase(q, x) \in Lists(S)
         /\ Range(Erase(q, x)) = Range(q) \ {x}
<1>1. q \in Seq(S) /\ \A i, j \in 1 .. Len(q) : q[i] = q[j] => i = j
  BY ListFacts
<1> SUFFICES ASSUME x \in Range(q)
             PROVE  /\ Erase(q, x) \in Lists(S)
                    /\ Range(Erase(q, x)) = Range(q) \ {x}
  BY DEF Erase
<1>2. \A y : y \in Range(q) <=> \E i \in 1 .. Len(q) : q[i] = y
  BY <1>1, RangeFacts
<1>3. PICK e \in 1 .. Len(q) : q[e] = x
  BY <1>2
<1>4. Len(q) \in Nat
  BY <1>1
<1>5. PICK n \in Nat : n = Len(q) - 1 /\ Len(q) = n + 1
  BY <1>3, <1>4
<1> DEFINE p == [i \in 1 .. n |-> IF q[i] = x THEN q[n + 1] ELSE q[i]]
<1>6. Erase(q, x) = p
  BY <1>5 DEF Erase, Last
<1>7. \A i \in 1 .. n + 1 : q[i] \in S
  BY <1>1, <1>5
<1>8. \A i \in 1 .. n : p[i] \in S
  BY <1>7
<1>9. p \in Seq(S) /\ Len(p) = n
  BY <1>8
<1>10. \A i \in 1 .. n : p[i] = IF i = e THEN q[n + 1] ELSE q[i]
  BY <1>1, <1>3, <1>5
<1> HIDE DEF p
<1>11. \A i, j \in 1 .. n : p[i] = p[j] => i = j
  BY <1>1, <1>3, <1>5, <1>10
<1>12. \A y : y \in Range(p) <=> \E i \in 1 .. n : p[i] = y
  BY <1>9, RangeFacts
<1>13. ASSUME NEW y, y \in Range(p) PROVE y \in Range(q) \ {x}
  <2>1. PICK i \in 1 .. n : p[i] = y
    BY <1>12, <1>13
  <2>2. CASE i = e
    <3>1. y = q[n + 1] /\ n + 1 \in 1 .. Len(q) /\ n + 1 # e
      BY <2>1, <2>2, <1>5, <1>10
    <3> QED BY <3>1, <1>1, <1>2, <1>3
  <2>3. CASE i # e
    <3>1. y = q[i] /\ i \in 1 .. Len(q)
      BY <2>1, <2>3, <1>5, <1>10
    <3> QED BY <3>1, <2>3, <1>1, <1>2, <1>3
  <2> QED BY <2>2, <2>3
<1>14. ASSUME NEW y, y \in Range(q) \ {x} PROVE y \in Range(p)
  <2>1. PICK i \in 1 .. Len(q) : q[i] = y
    BY <1>2, <1>14
  <2>2. i # e
    BY <2>1, <1>3, <1>14
  <2>3. CASE i = n + 1
    <3>1. e \in 1 .. n /\ p[e] = y
      BY <2>1, <2>2, <2>3, <1>3, <1>5, <1>10
    <3> QED BY <3>1, <1>12
  <2>4. CASE i # n + 1
    <3>1. i \in 1 .. n /\ p[i] = y
      BY <2>1, <2>2, <2>4, <1>5, <1>10
    <3> QED BY <3>1, <1>12
  <2> QED BY <2>3, <2>4
<1>15. p \in Lists(S)
  BY <1>9, <1>11, ListFacts
<1> QED BY <1>6, <1>13, <1>14, <1>15

LEMMA ReverseList ==
  ASSUME NEW S, NEW q \in Lists(S)
  PROVE  Reverse(q) \in Lists(S) /\ Range(Reverse(q)) = Range(q)
<1>1. q \in Seq(S) /\ Len(q) \in Nat /\ \A i, j \in 1 .. Len(q) : q[i] = q[j] => i = j
  BY ListFacts
<1> DEFINE n == Len(q)
           p == Reverse(q)
<1>2. \A i \in 1 .. n : (n - i) + 1 \in 1 .. n /\ q[(n - i) + 1] \in S
  BY <1>1
<1>3. p = [i \in 1 .. n |-> q[(n - i) + 1]]
  BY DEF Reverse
<1>4. p \in Seq(S) /\ Len(p) = n /\ \A i \in 1 .. n : p[i] = q[(n - i) + 1]
  BY <1>1, <1>2, <1>3
<1> HIDE DEF p
<1>5. \A i, j \in 1 .. n : p[i] = p[j] => i = j
  <2> TAKE i, j \in 1 .. n
  <2> HAVE p[i] = p[j]
  <2>1. (n - i) + 1 = (n - j) + 1
    BY <1>1, <1>2, <1>4
  <2> QED BY <2>1, <1>1
<1>6. \A y : y \in Range(q) <=> \E i \in 1 .. n : q[i] = y
  BY <1>1, RangeFacts
<1>7. \A y : y \in Range(p) <=> \E i \in 1 .. n : p[i] = y
  BY <1>4, RangeFacts
<1>8. ASSUME NEW y, y \in Range(p) PROVE y \in Range(q)
  BY <1>8, <1>2, <1>4, <1>6, <1>7
<1>9. ASSUME NEW y, y \in Range(q) PROVE y \in Range(p)
  <2>1. PICK i \in 1 .. n : q[i] = y
    BY <1>6, <1>9
  <2>2. (n - ((n - i) + 1)) + 1 = i /\ (n - i) + 1 \in 1 .. n
    BY <1>1
  <2>3. p[(n - i) + 1] = q[i]
    BY <2>2, <1>4
  <2> QED BY <2>1, <2>2, <2>3, <1>7
<1>10. p \in Lists(S)
  BY <1>4, <1>5, ListFacts
<1> QED BY <1>8, <1>9, <1>10 DEF p

LEMMA ConcatList ==
  ASSUME NEW S, NEW a \in Lists(S), NEW b \in Lists(S), Range(a) \cap Range(b) = {}
  PROVE  /\ a \o b \in Lists(S)
         /\ Range(a \o b) = Range(a) \cup Range(b)
<1>1. a \in Seq(S) /\ Len(a) \in Nat /\ \A i, j \in 1 .. Len(a) : a[i] = a[j] => i = j
  BY ListFacts
<1>2. b \in Seq(S) /\ Len(b) \in Nat /\ \A i, j \in 1 .. Len(b) : b[i] = b[j] => i = j
  BY ListFacts
<1>3. PICK m \in Nat, n \in Nat : m = Len(a) /\ n = Len(b)
  BY <1>1, <1>2
<1> DEFINE p == a \o b
<1>4. /\ p \in Seq(S) /\ Len(p) = m + n
      /\ \A i \in 1 .. m + n : p[i] = IF i <= m THEN a[i] ELSE b[i - m]
  BY <1>1, <1>2, <1>3
<1> HIDE DEF p
<1>5. \A i \in 1 .. m + n : ~(i <= m) => i - m \in 1 .. n
  OBVIOUS
<1>6. /\ \A y : y \in Range(a) <=> \E i \in 1 .. m : a[i] = y
      /\ \A y : y \in Range(b) <=> \E i \in 1 .. n : b[i] = y
      /\ \A y : y \in Range(p) <=> \E i \in 1 .. m + n : p[i] = y
  BY <1>1, <1>2, <1>3, <1>4, RangeFacts
<1>7. \A i \in 1 .. m, j \in 1 .. n : a[i] # b[j]
  BY <1>6
<1>8. \A i, j \in 1 .. m + n : p[i] = p[j] => i = j
  <2> TAKE i, j \in 1 .. m + n
  <2> HAVE p[i] = p[j]
  <2>1. CASE i <= m /\ j <= m
    BY <2>1, <1>1, <1>3, <1>4
  <2>2. CASE ~(i <= m) /\ ~(j <= m)
    <3>1. i - m = j - m
      BY <2>2, <1>2, <1>3, <1>4, <1>5
    <3> QED BY <3>1
  <2>3. CASE i <= m /\ ~(j <= m)
    <3>1. p[i] = a[i] /\ p[j] = b[j - m] /\ i \in 1 .. m /\ j - m \in 1 .. n
      BY <2>3, <1>4, <1>5
    <3> QED BY <3>1, <1>7
  <2>4. CASE ~(i <= m) /\ j <= m
    <3>1. p[j] = a[j] /\ p[i] = b[i - m] /\ j \in 1 .. m /\ i - m \in 1 .. n
      BY <2>4, <1>4, <1>5
    <3> QED BY <3>1, <1>7
  <2> QED BY <2>1, <2>2, <2>3, <2>4
<1>9. ASSUME NEW y, y \in Range(p) PROVE y \in Range(a) \cup Range(b)
  BY <1>9, <1>4, <1>5, <1>6
<1>10. ASSUME NEW y, y \in Range(a) \cup Range(b) PROVE y \in Range(p)
  <2>1. CASE y \in Range(a)
    BY <2>1, <1>4, <1>6
  <2>2. CASE y \in Range(b)
    <3>1. PICK i \in 1 .. n : b[i] = y
      BY <2>2, <1>6
    <3>2. i + m \in 1 .. m + n /\ ~(i + m <= m) /\ (i + m) - m = i
      OBVIOUS
    <3> QED BY <3>1, <3>2, <1>4, <1>6
  <2> QED BY <1>10, <2>1, <2>2
<1>11. p \in Lists(S)
  BY <1>3, <1>4, <1>8, ListFacts
<1> QED BY <1>9, <1>10, <1>11 DEF p

LEMMA RemoveFirstNone ==
  ASSUME NEW S, NEW q \in Lists(S), NEW x, x \notin Range(q)
  PROVE  RemoveFirst(q, x) = q
<1>1. \A i \in 1 .. Len(q) : q[i] # x
  BY ListFacts, RangeFacts
<1> QED BY <1>1 DEF RemoveFirst

\* DLinkQueue::remove
LEMMA RemoveFirstList ==
  ASSUME NEW S, NEW q \in Lists(S), NEW x
  PROVE  /\ RemoveFirst(q, x) \in Lists(S)
         /\ Range(RemoveFirst(q, x)) = Range(q) \ {x}
<1>1. q \in Seq(S) /\ Len(q) \in Nat /\ \A i, j \in 1 .. Len(q) : q[i] = q[j] => i = j
  BY ListFacts
<1>2. \A y : y \in Range(q) <=> \E i \in 1 .. Len(q) : q[i] = y
  BY <1>1, RangeFacts
<1> SUFFICES ASSUME x \in Range(q)
             PROVE  /\ RemoveFirst(q, x) \in Lists(S)
                    /\ Range(RemoveFirst(q, x)) = Range(q) \ {x}
  BY RemoveFirstNone
<1>3. PICK e \in 1 .. Len(q) : q[e] = x
  BY <1>2
<1>4. SelectInSeq(q, LAMBDA v : v = x) = e
  <2>1. {j \in 1 .. Len(q) : q[j] = x} = {e}
    BY <1>1, <1>3
  <2> QED BY <2>1 DEF SelectInSeq, Min
<1>5. RemoveFirst(q, x) = SubSeq(q, 1, e - 1) \o SubSeq(q, e + 1, Len(q))
  BY <1>3, <1>4 DEF RemoveFirst, RemoveAt
<1> DEFINE a == SubSeq(q, 1, e - 1)
           b == SubSeq(q, e + 1, Len(q))
<1>6. /\ a \in Seq(S) /\ Len(a) = e - 1 /\ \A j \in 1 .. e - 1 : a[j] = q[j]
      /\ b \in Seq(S) /\ Len(b) = Len(q) - e /\ \A j \in 1 .. Len(q) - e : b[j] = q[e + j]
  BY <1>1
<1> HIDE DEF a, b
<1>7. \A j \in 1 .. Len(q) - e : e + j \in 1 .. Len(q) /\ e + j > e
  BY <1>1
<1>8. a \in Lists(S)
  <2>1. ASSUME NEW i \in 1 .. Len(a), NEW j \in 1 .. Len(a), a[i] = a[j] PROVE i = j
    <3>1. a[i] = q[i] /\ a[j] = q[j] /\ i \in 1 .. Len(q) /\ j \in 1 .. Len(q)
      BY <1>1, <1>6
    <3> QED BY <2>1, <3>1, <1>1
  <2> QED BY <2>1, <1>6, ListFacts
<1>9. b \in Lists(S)
  <2>1. ASSUME NEW i \in 1 .. Len(b), NEW j \in 1 .. Len(b), b[i] = b[j] PROVE i = j
    <3>1. e + i = e + j
      BY <2>1, <1>1, <1>6, <1>7
    <3> QED BY <3>1, <1>1, <1>6
  <2> QED BY <2>1, <1>6, ListFacts
<1>10. \A y : y \in Range(a) <=> \E i \in 1 .. e - 1 : q[i] = y
  <2>1. \A y : y \in Range(a) <=> \E i \in 1 .. e - 1 : a[i] = y
    BY <1>6, RangeFacts
  <2> QED BY <2>1, <1>6
<1>11. \A y : y \in Range(b) <=> \E i \in 1 .. Len(q) - e : q[e + i] = y
  <2>1. \A y : y \in Range(b) <=> \E i \in 1 .. Len(q) - e : b[i] = y
    BY <1>6, RangeFacts
  <2> QED BY <2>1, <1>6
<1>12. Range(a) \cap Range(b) = {}
  BY <1>1, <1>7, <1>10, <1>11
<1>13. a \o b \in Lists(S) /\ Range(a \o b) = Range(a) \cup Range(b)
  BY <1>8, <1>9, <1>12, ConcatList
<1>14. ASSUME NEW y, y \in Range(a) \cup Range(b) PROVE y \in Range(q) \ {x}
  <2>1. CASE y \in Range(a)
    BY <2>1, <1>1, <1>2, <1>3, <1>10
  <2>2. CASE y \in Range(b)
    BY <2>2, <1>1, <1>2, <1>3, <1>7, <1>11
  <2> QED BY <1>14, <2>1, <2>2
<1>15. ASSUME NEW y, y \in Range(q) \ {x} PROVE y \in Range(a) \cup Range(b)
  <2>1. PICK i \in 1 .. Len(q) : q[i] = y
    BY <1>2, <1>15
  <2>2. i # e
    BY <2>1, <1>3, <1>15
  <2>3. CASE i < e
    BY <2>1, <2>3, <1>10
  <2>4. CASE i > e
    <3>1. i - e \in 1 .. Len(q) - e /\ e + (i - e) = i
      BY <2>4, <1>1
    <3> QED BY <2>1, <3>1, <1>11
  <2> QED BY <2>2, <2>3, <2>4
<1> QED BY <1>5, <1>13, <1>14, <1>15 DEF a, b

\* A list is as long as the set of its elements is large.
LEMMA ListCardinality ==
  ASSUME NEW S, NEW q \in Lists(S)
  PROVE  IsFiniteSet(Range(q)) /\ Cardinality(Range(q)) = Len(q) /\ Len(q) \in Nat
<1>1. q \in Seq(S) /\ Len(q) \in Nat /\ \A i, j \in 1 .. Len(q) : q[i] = q[j] => i = j
  BY ListFacts
<1>2. PICK n \in Nat : n = Len(q)
  BY <1>1
<1>3. IsFiniteSet(1 .. n) /\ Cardinality(1 .. n) = n
  <2>1. IsFiniteSet(1 .. n) /\ Cardinality(1 .. n) = IF 1 > n THEN 0 ELSE n - 1 + 1
    BY FS_Interval
  <2> QED BY <2>1
<1>4. q \in Bijection(1 .. n, Range(q))
  <2>1. q \in [1 .. n -> Range(q)]
    BY <1>1, <1>2 DEF Range
  <2>2. \A y \in Range(q) : \E i \in 1 .. n : q[i] = y
    BY <1>1, <1>2 DEF Range
  <2> QED BY <2>1, <2>2, <1>1, <1>2, Fun_IsBij
<1>5. ExistsBijection(1 .. n, Range(q))
  BY <1>4 DEF ExistsBijection
<1>6. IsFiniteSet(Range(q)) /\ Cardinality(Range(q)) = Cardinality(1 .. n)
  BY <1>3, <1>5, FS_Bijection
<1> QED BY <1>2, <1>3, <1>6

(***************************************************************************)
(* A worker's pool of connections.                                         *)
(***************************************************************************)
\* The connection objects of worker w once n were made
Objects(w, n) == {w} \X (1 .. n)

LEMMA ConnOwner == \A c \in Conns : c[1] \in WorkerSet
BY DEF Conns

LEMMA ObjectFacts ==
  ASSUME NEW w \in WorkerSet, NEW n \in 0 .. MaxConns[w]
  PROVE  /\ Objects(w, n) \subseteq Conns
         /\ \A c \in Objects(w, n) : c[1] = w
         /\ <<w, n + 1>> \in Conns /\ <<w, n + 1>>[1] = w
         /\ <<w, n + 1>> \notin Objects(w, n)
         /\ Objects(w, n + 1) = Objects(w, n) \cup {<<w, n + 1>>}
         /\ IsFiniteSet(Objects(w, n)) /\ Cardinality(Objects(w, n)) = n
<1>1. MaxConns[w] \in Nat /\ n \in Nat /\ n <= MaxConns[w]
  BY ExtWorkerAssumption
<1>2. PICK m \in Nat : m = MaxConns[w]
  BY <1>1
<1>3. \A i \in 1 .. m + 1 : <<w, i>> \in Conns
  BY <1>2 DEF Conns
<1>4. \A c \in Objects(w, n) : c[1] = w /\ c \in Conns
  BY <1>1, <1>2, <1>3 DEF Objects
<1>5. <<w, n + 1>> \in Conns
  BY <1>1, <1>2, <1>3
<1>6. 1 .. n + 1 = 1 .. n \cup {n + 1} /\ n + 1 \notin 1 .. n
  BY <1>1
<1>7. Objects(w, n + 1) = Objects(w, n) \cup {<<w, n + 1>>}
  BY <1>6 DEF Objects
<1>8. <<w, n + 1>> \notin Objects(w, n)
  BY <1>6 DEF Objects
<1>9. IsFiniteSet(1 .. n) /\ Cardinality(1 .. n) = n
  <2>1. IsFiniteSet(1 .. n) /\ Cardinality(1 .. n) = IF 1 > n THEN 0 ELSE n - 1 + 1
    BY FS_Interval, <1>1
  <2> QED BY <2>1, <1>1
<1>10. IsFiniteSet({w}) /\ Cardinality({w}) = 1
  BY FS_Singleton
<1>11. IsFiniteSet(Objects(w, n)) /\ Cardinality(Objects(w, n)) = 1 * n
  BY <1>9, <1>10, FS_Product DEF Objects
<1> QED BY <1>1, <1>4, <1>5, <1>7, <1>8, <1>11

Pool(w, k) ==
  /\ k \in WorkerRec
  /\ k.free \in Lists(Conns) /\ k.bad \in Lists(Conns) /\ k.queue \in Lists(Requests)
  /\ Range(k.free) \subseteq k.conns
  /\ k.conns \cap Range(k.bad) = {}
  /\ k.conns \cup Range(k.bad) = Objects(w, k.made)
  /\ k.made \in 0 .. MaxConns[w] /\ k.max \in 0 .. MaxConns[w]
  /\ Cardinality(k.conns) \in 0 .. k.max
  /\ k.st = "BAD" => Retry[w]

LEMMA PoolConns ==
  ASSUME NEW w \in WorkerSet, NEW k, Pool(w, k)
  PROVE  /\ IsFiniteSet(k.conns) /\ k.conns \subseteq Conns
         /\ Range(k.free) \subseteq Conns /\ Range(k.bad) \subseteq Conns
         /\ \A c \in k.conns \cup Range(k.bad) : c[1] = w
<1>1. k.made \in 0 .. MaxConns[w] /\ k.conns \cup Range(k.bad) = Objects(w, k.made)
  BY DEF Pool
<1>2. /\ IsFiniteSet(Objects(w, k.made)) /\ Objects(w, k.made) \subseteq Conns
      /\ \A c \in Objects(w, k.made) : c[1] = w
  BY <1>1, ObjectFacts
<1>3. k.conns \in SUBSET Objects(w, k.made)
  BY <1>1
<1>4. IsFiniteSet(k.conns)
  BY <1>2, <1>3, FS_Subset
<1>5. Range(k.free) \subseteq k.conns
  BY DEF Pool
<1> QED BY <1>1, <1>2, <1>3, <1>4, <1>5

\* The records that the operations of the pool leave
Without(k, c) ==
  [k EXCEPT !.conns = @ \ {c}, !.free = Erase(@, c),
            !.bad = IF c \in k.conns \cup Range(k.free) THEN Append(@, c) ELSE @]
GivenBack(k, c) == [k EXCEPT !.free = Append(@, c)]
FreeTaken(k) == [k EXCEPT !.free = Front(@)]
Revived(k) == [k EXCEPT !.bad = Front(@), !.conns = @ \cup {Last(k.bad)}]
Extended(k, c) == [k EXCEPT !.made = @ + 1, !.conns = @ \cup {c}]
Limited(k, st, max) == [k EXCEPT !.st = st, !.max = max]
WithQueue(k, q) == [k EXCEPT !.queue = q]
Emptied(k) ==
  [k EXCEPT !.conns = @ \ Range(k.free), !.free = <<>>, !.bad = @ \o Reverse(k.free)]

\* removeConn
LEMMA PoolRemove ==
  ASSUME NEW w \in WorkerSet, NEW k, Pool(w, k), NEW c \in Conns, NEW j, j = Without(k, c)
  PROVE  /\ Pool(w, j)
         /\ j.conns = k.conns \ {c} /\ Range(j.free) = Range(k.free) \ {c}
         /\ j.queue = k.queue /\ j.st = k.st
<1>1. /\ k \in WorkerRec /\ k.free \in Lists(Conns) /\ k.bad \in Lists(Conns)
      /\ k.queue \in Lists(Requests)
      /\ Range(k.free) \subseteq k.conns /\ k.conns \cap Range(k.bad) = {}
      /\ k.conns \cup Range(k.bad) = Objects(w, k.made)
      /\ k.made \in 0 .. MaxConns[w] /\ k.max \in 0 .. MaxConns[w]
      /\ Cardinality(k.conns) \in 0 .. k.max
      /\ k.st = "BAD" => Retry[w]
  BY DEF Pool
<1>2. Erase(k.free, c) \in Lists(Conns) /\ Range(Erase(k.free, c)) = Range(k.free) \ {c}
  BY <1>1, EraseList
<1>3. PICK b \in Lists(Conns) :
        /\ b = IF c \in k.conns \cup Range(k.free) THEN Append(k.bad, c) ELSE k.bad
        /\ Range(b) = IF c \in k.conns THEN Range(k.bad) \cup {c} ELSE Range(k.bad)
  <2>1. CASE c \in k.conns
    <3>1. c \notin Range(k.bad)
      BY <1>1, <2>1
    <3>2. Append(k.bad, c) \in Lists(Conns) /\ Range(Append(k.bad, c)) = Range(k.bad) \cup {c}
      BY <1>1, <3>1, AppendList
    <3> QED BY <2>1, <3>2
  <2>2. CASE c \notin k.conns
    BY <2>2, <1>1
  <2> QED BY <2>1, <2>2
<1>4. IsFiniteSet(k.conns)
  BY PoolConns
<1>5. Cardinality(k.conns \ {c}) = IF c \in k.conns THEN Cardinality(k.conns) - 1 ELSE Cardinality(k.conns)
  BY <1>4, FS_RemoveElement
<1>5a. IsFiniteSet(k.conns \ {c}) /\ Cardinality(k.conns \ {c}) \in Nat
  BY <1>4, FS_RemoveElement, FS_CardinalityType
<1>6. Cardinality(k.conns \ {c}) \in 0 .. k.max
  BY <1>1, <1>5, <1>5a
<1>7. Erase(k.free, c) \in Seq(Conns) /\ b \in Seq(Conns)
  BY <1>2, <1>3 DEF Lists
<1>8. /\ j \in WorkerRec /\ j.conns = k.conns \ {c} /\ j.free = Erase(k.free, c) /\ j.bad = b
      /\ j.queue = k.queue /\ j.st = k.st /\ j.max = k.max /\ j.made = k.made
  BY <1>1, <1>3, <1>7 DEF WorkerRec, Without
<1>9. /\ Range(j.free) \subseteq j.conns /\ j.conns \cap Range(j.bad) = {}
      /\ j.conns \cup Range(j.bad) = Objects(w, j.made)
  BY <1>1, <1>2, <1>3, <1>8
<1>10. Pool(w, j)
  BY <1>1, <1>2, <1>3, <1>6, <1>8, <1>9 DEF Pool
<1> QED BY <1>2, <1>8, <1>10

\* reuse
LEMMA PoolReuse ==
  ASSUME NEW w \in WorkerSet, NEW k, Pool(w, k), NEW c \in k.conns \ Range(k.free), NEW j,
         j = GivenBack(k, c)
  PROVE  /\ Pool(w, j)
         /\ j.conns = k.conns /\ Range(j.free) = Range(k.free) \cup {c}
         /\ j.queue = k.queue /\ j.st = k.st
<1>1. k \in WorkerRec /\ k.free \in Lists(Conns)
  BY DEF Pool
<1>2. c \in Conns
  BY PoolConns
<1>3. Append(k.free, c) \in Lists(Conns) /\ Range(Append(k.free, c)) = Range(k.free) \cup {c}
  BY <1>1, <1>2, AppendList
<1>4. Append(k.free, c) \in Seq(Conns)
  BY <1>3 DEF Lists
<1>5. /\ j \in WorkerRec /\ j.conns = k.conns /\ j.free = Append(k.free, c) /\ j.bad = k.bad
      /\ j.queue = k.queue /\ j.st = k.st /\ j.max = k.max /\ j.made = k.made
  BY <1>1, <1>4 DEF WorkerRec, GivenBack
<1> QED BY <1>3, <1>5 DEF Pool

\* getFreeConn
LEMMA PoolTake ==
  ASSUME NEW w \in WorkerSet, NEW k, Pool(w, k), k.free # <<>>, NEW j,
         j = FreeTaken(k)
  PROVE  /\ Pool(w, j) /\ Last(k.free) \in k.conns
         /\ j.conns = k.conns /\ Range(j.free) = Range(k.free) \ {Last(k.free)}
         /\ j.queue = k.queue /\ j.st = k.st
<1>1. k \in WorkerRec /\ k.free \in Lists(Conns) /\ Range(k.free) \subseteq k.conns
  BY DEF Pool
<1>3. /\ Last(k.free) \in Range(k.free) /\ Front(k.free) \in Lists(Conns)
      /\ Range(Front(k.free)) = Range(k.free) \ {Last(k.free)}
  BY <1>1, FrontList
<1>4. Front(k.free) \in Seq(Conns)
  BY <1>3 DEF Lists
<1>5. /\ j \in WorkerRec /\ j.conns = k.conns /\ j.free = Front(k.free) /\ j.bad = k.bad
      /\ j.queue = k.queue /\ j.st = k.st /\ j.max = k.max /\ j.made = k.made
  BY <1>1, <1>4 DEF WorkerRec, FreeTaken
<1> QED BY <1>1, <1>3, <1>5 DEF Pool

\* regConn of an object that was discarded
LEMMA PoolRevive ==
  ASSUME NEW w \in WorkerSet, NEW k, Pool(w, k), k.bad # <<>>, ~(k.max <= Cardinality(k.conns)),
         NEW j, j = Revived(k)
  PROVE  /\ Pool(w, j) /\ Last(k.bad) \notin k.conns /\ Last(k.bad) \in Conns
         /\ Last(k.bad)[1] = w
         /\ j.conns = k.conns \cup {Last(k.bad)} /\ j.free = k.free
         /\ j.queue = k.queue /\ j.st = k.st
<1>1. /\ k \in WorkerRec /\ k.bad \in Lists(Conns) /\ k.free \in Lists(Conns)
      /\ Range(k.free) \subseteq k.conns /\ k.conns \cap Range(k.bad) = {}
      /\ k.conns \cup Range(k.bad) = Objects(w, k.made)
      /\ Cardinality(k.conns) \in 0 .. k.max /\ k.max \in 0 .. MaxConns[w]
  BY DEF Pool
<1>2. PICK c : c = Last(k.bad)
  OBVIOUS
<1>3. /\ c \in Range(k.bad) /\ Front(k.bad) \in Lists(Conns)
      /\ Range(Front(k.bad)) = Range(k.bad) \ {c}
  BY <1>1, <1>2, FrontList
<1>4. Front(k.bad) \in Seq(Conns)
  BY <1>3 DEF Lists
<1>5. IsFiniteSet(k.conns) /\ c \in Conns /\ c[1] = w /\ c \notin k.conns
  BY <1>1, <1>3, PoolConns
<1>6. Cardinality(k.conns \cup {c}) = Cardinality(k.conns) + 1
  BY <1>5, FS_AddElement
<1>7. Cardinality(k.conns \cup {c}) \in 0 .. k.max
  BY <1>1, <1>6
<1>8. /\ j \in WorkerRec /\ j.conns = k.conns \cup {c} /\ j.free = k.free /\ j.bad = Front(k.bad)
      /\ j.queue = k.queue /\ j.st = k.st /\ j.max = k.max /\ j.made = k.made
  BY <1>1, <1>2, <1>4, <1>5 DEF WorkerRec, Revived
<1>9. /\ Range(j.free) \subseteq j.conns /\ j.conns \cap Range(j.bad) = {}
      /\ j.conns \cup Range(j.bad) = Objects(w, j.made)
  BY <1>1, <1>3, <1>5, <1>8
<1>10. Pool(w, j)
  BY <1>1, <1>3, <1>7, <1>8, <1>9 DEF Pool
<1> QED BY <1>2, <1>5, <1>8, <1>10

\* regConn of a new object
LEMMA PoolCreate ==
  ASSUME NEW w \in WorkerSet, NEW k, Pool(w, k), k.bad = <<>>, ~(k.max <= Cardinality(k.conns)),
         NEW c, c = <<w, k.made + 1>>,
         NEW j, j = Extended(k, c)
  PROVE  /\ Pool(w, j) /\ c \notin k.conns /\ c \in Conns /\ c[1] = w
         /\ j.conns = k.conns \cup {c} /\ j.free = k.free
         /\ j.queue = k.queue /\ j.st = k.st
<1>1. /\ k \in WorkerRec /\ k.bad \in Lists(Conns) /\ k.free \in Lists(Conns)
      /\ Range(k.free) \subseteq k.conns
      /\ k.conns \cup Range(k.bad) = Objects(w, k.made)
      /\ Cardinality(k.conns) \in 0 .. k.max /\ k.max \in 0 .. MaxConns[w]
      /\ k.made \in 0 .. MaxConns[w]
  BY DEF Pool
<1>1a. MaxConns[w] \in Nat
  BY ExtWorkerAssumption
<1>2. Range(k.bad) = {}
  BY DEF Range
<1>3. k.conns = Objects(w, k.made)
  BY <1>1, <1>2
<1>4. /\ c \in Conns /\ c[1] = w /\ c \notin k.conns /\ IsFiniteSet(k.conns)
      /\ Objects(w, k.made + 1) = k.conns \cup {c} /\ Cardinality(k.conns) = k.made
  <2>1. PICK n \in 0 .. MaxConns[w] : n = k.made
    BY <1>1
  <2>2. /\ <<w, n + 1>> \in Conns /\ <<w, n + 1>>[1] = w
        /\ <<w, n + 1>> \notin Objects(w, n)
        /\ Objects(w, n + 1) = Objects(w, n) \cup {<<w, n + 1>>}
        /\ IsFiniteSet(Objects(w, n)) /\ Cardinality(Objects(w, n)) = n
    BY ObjectFacts
  <2>3. c = <<w, n + 1>> /\ k.conns = Objects(w, n)
    BY <2>1, <1>3
  <2> QED BY <2>1, <2>2, <2>3
<1>5. Cardinality(k.conns \cup {c}) = Cardinality(k.conns) + 1
  BY <1>4, FS_AddElement
<1>6. Cardinality(k.conns \cup {c}) \in 0 .. k.max /\ k.made + 1 \in 0 .. MaxConns[w]
  BY <1>1, <1>1a, <1>4, <1>5
<1>7. k.made + 1 \in Nat
  BY <1>1, <1>1a
<1>8. /\ j \in WorkerRec /\ j.conns = k.conns \cup {c} /\ j.free = k.free /\ j.bad = k.bad
      /\ j.queue = k.queue /\ j.st = k.st /\ j.max = k.max /\ j.made = k.made + 1
  BY <1>1, <1>4, <1>7 DEF WorkerRec, Extended
<1>9. /\ Range(j.free) \subseteq j.conns /\ j.conns \cap Range(j.bad) = {}
      /\ j.conns \cup Range(j.bad) = Objects(w, j.made)
  BY <1>1, <1>2, <1>4, <1>8
<1>10. Pool(w, j)
  BY <1>1, <1>6, <1>8, <1>9 DEF Pool
<1> QED BY <1>4, <1>8, <1>10

\* Another state or limit that the connections keep
LEMMA PoolSet ==
  ASSUME NEW w \in WorkerSet, NEW k, Pool(w, k), NEW st \in {"NOTSTARTED", "BAD", "GOOD"},
         st = "BAD" => Retry[w], NEW max \in 0 .. MaxConns[w], Cardinality(k.conns) <= max,
         NEW j, j = Limited(k, st, max)
  PROVE  /\ Pool(w, j)
         /\ j.conns = k.conns /\ j.free = k.free /\ j.queue = k.queue /\ j.st = st
         /\ j.max = max
<1>1. k \in WorkerRec /\ max \in Nat
  BY ExtWorkerAssumption DEF Pool
<1>2. /\ j \in WorkerRec /\ j.conns = k.conns /\ j.free = k.free /\ j.bad = k.bad
      /\ j.queue = k.queue /\ j.st = st /\ j.max = max /\ j.made = k.made
  BY <1>1 DEF WorkerRec, Limited
<1>3. Cardinality(k.conns) \in 0 .. max
  BY <1>1 DEF Pool
<1> QED BY <1>2, <1>3 DEF Pool

LEMMA PoolQueue ==
  ASSUME NEW w \in WorkerSet, NEW k, Pool(w, k), NEW q \in Lists(Requests), NEW j,
         j = WithQueue(k, q)
  PROVE  /\ Pool(w, j)
         /\ j.conns = k.conns /\ j.free = k.free /\ j.queue = q /\ j.st = k.st
<1>1. k \in WorkerRec /\ q \in Seq(Requests)
  BY DEF Pool, Lists
<1>2. /\ j \in WorkerRec /\ j.conns = k.conns /\ j.free = k.free /\ j.bad = k.bad
      /\ j.queue = q /\ j.st = k.st /\ j.max = k.max /\ j.made = k.made
  BY <1>1 DEF WorkerRec, WithQueue
<1> QED BY <1>2 DEF Pool

\* clearConnPool: the free connections are discarded
LEMMA PoolClear ==
  ASSUME NEW w \in WorkerSet, NEW k, Pool(w, k), NEW j, j = Emptied(k)
  PROVE  /\ Pool(w, j)
         /\ j.conns = k.conns \ Range(k.free) /\ Range(j.free) = {}
         /\ j.queue = k.queue /\ j.st = k.st
<1>1. /\ k \in WorkerRec /\ k.bad \in Lists(Conns) /\ k.free \in Lists(Conns)
      /\ Range(k.free) \subseteq k.conns /\ k.conns \cap Range(k.bad) = {}
      /\ k.conns \cup Range(k.bad) = Objects(w, k.made)
      /\ Cardinality(k.conns) \in 0 .. k.max /\ k.max \in 0 .. MaxConns[w]
  BY DEF Pool
<1>2. PICK R : R = Range(k.free)
  OBVIOUS
<1>3. Reverse(k.free) \in Lists(Conns) /\ Range(Reverse(k.free)) = R
  BY <1>1, <1>2, ReverseList
<1>4. Range(k.bad) \cap Range(Reverse(k.free)) = {}
  BY <1>1, <1>2, <1>3
<1>5. PICK b \in Lists(Conns) : b = k.bad \o Reverse(k.free) /\ Range(b) = Range(k.bad) \cup R
  <2>1. PICK a \in Lists(Conns), e \in Lists(Conns) : a = k.bad /\ e = Reverse(k.free)
    BY <1>1, <1>3
  <2>2. Range(a) \cap Range(e) = {}
    BY <2>1, <1>4
  <2>3. a \o e \in Lists(Conns) /\ Range(a \o e) = Range(a) \cup Range(e)
    BY <2>2, ConcatList
  <2> QED BY <2>1, <2>3, <1>3
<1>6. <<>> \in Lists(Conns) /\ Range(<<>>) = {}
  BY DEF Lists, IsInjective, Range
<1>7. IsFiniteSet(k.conns) /\ k.conns \ R \in SUBSET k.conns
  BY PoolConns
<1>8. /\ IsFiniteSet(k.conns \ R) /\ Cardinality(k.conns \ R) <= Cardinality(k.conns)
      /\ Cardinality(k.conns \ R) \in Nat
  BY <1>7, FS_Subset, FS_CardinalityType
<1>9. Cardinality(k.conns \ R) \in 0 .. k.max
  BY <1>1, <1>8
<1>10. b \in Seq(Conns) /\ <<>> \in Seq(Conns)
  BY <1>5, <1>6 DEF Lists
<1>11. /\ j \in WorkerRec /\ j.conns = k.conns \ R /\ j.free = <<>> /\ j.bad = b
      /\ j.queue = k.queue /\ j.st = k.st /\ j.max = k.max /\ j.made = k.made
  BY <1>1, <1>2, <1>5, <1>10 DEF WorkerRec, Emptied
<1>12. /\ Range(j.free) \subseteq j.conns /\ j.conns \cap Range(j.bad) = {}
      /\ j.conns \cup Range(j.bad) = Objects(w, j.made)
  BY <1>1, <1>2, <1>5, <1>6, <1>11
<1>13. Pool(w, j)
  BY <1>1, <1>5, <1>6, <1>9, <1>11, <1>12 DEF Pool
<1> QED BY <1>2, <1>6, <1>11, <1>13

(***************************************************************************)
(* The states between the calls.  A call may have a connection c0 in its   *)
(* hands, and some requests X are in nobody's place, to be placed or       *)
(* answered by a caller.                                                   *)
(***************************************************************************)
Queued(s, w) == Range(s.wk[w].queue)
Placed(s, r) == s.req[r].proc # NULL \/ \E w \in WorkerSet : r \in Queued(s, w)
Over(s, r) == s.req[r].err \/ s.req[r].complete \/ ~s.req[r].alive

\* A request that still can be given to a connection
Underway(s, r) == s.req[r].live /\ ~s.req[r].err /\ ~s.req[r].abort /\ ~s.req[r].complete

Pools(s) == \A w \in WorkerSet : Pool(w, s.wk[w])

Linked(s, c0) ==
  /\ \A c \in Conns, r \in Requests : s.conn[c].req = r <=> s.req[r].proc = c
  /\ \A c \in Conns : s.conn[c].req # NULL => c \in s.wk[c[1]].conns
  /\ \A c \in Conns : c # c0 /\ c \in s.wk[c[1]].conns =>
       (s.conn[c].req = NULL <=> c \in Range(s.wk[c[1]].free))
  /\ c0 # NULL => /\ c0 \in Conns /\ s.conn[c0].req = NULL
                  /\ c0 \in s.wk[c0[1]].conns \ Range(s.wk[c0[1]].free)

Places(s) ==
  /\ \A w \in WorkerSet : \A r \in Queued(s, w) :
       Underway(s, r) /\ s.req[r].w = w /\ s.req[r].proc = NULL
  /\ \A r \in Requests : s.req[r].proc # NULL => Underway(s, r) /\ s.req[r].w = s.req[r].proc[1]

NoneLost(s, X) == \A r \in Requests \ X : s.req[r].live /\ ~Over(s, r) => Placed(s, r)

Sound(s, c0, X) == s \in State /\ Pools(s) /\ Linked(s, c0) /\ Places(s) /\ NoneLost(s, X)

\* A connection with a request, c1 excepted, waits for the network.
Opened(s, c1) ==
  \A c \in Conns : c # c1 /\ s.conn[c].req # NULL => s.conn[c].st \in {"CONNECTING", "PROCESSING"}

Ready(s, c0, X) == Sound(s, c0, X) /\ Opened(s, NULL)

\* Request r is in hand, and can still be given to a connection.
Holding(s, c0, X, r) == r \in Requests /\ Sound(s, c0, X \cup {r}) /\ ~Placed(s, r)
Carrying(s, c0, X, r) == Holding(s, c0, X, r) /\ Underway(s, r)

OpenKept(s, t) == \A c1 : Opened(s, c1) => Opened(t, c1)

\* What nested calls leave alone: the connections without request of other
\* workers that are bad, and requests in nobody's place, except R.
Barred(s, t, w) ==
  \A v \in WorkerSet \ {w} : s.wk[v].st = "BAD" =>
    /\ t.wk[v].st = "BAD"
    /\ \A c \in Conns : c[1] = v /\ s.conn[c].req = NULL => t.conn[c].req = NULL

Spared(s, t, R) ==
  \A r \in Requests \ R : ~Placed(s, r) => ~Placed(t, r) /\ t.req[r] = s.req[r]

Rel(s, t, w, R) == Barred(s, t, w) /\ Spared(s, t, R)

LEMMA RelRefl == ASSUME NEW s, NEW w, NEW R PROVE Rel(s, s, w, R)
BY DEF Rel, Barred, Spared

LEMMA RelWeaker ==
  ASSUME NEW s, NEW t, NEW w, NEW R, NEW v, NEW Q, Rel(s, t, w, R),
         w = v \/ w = NULL \/ (w \in WorkerSet /\ s.wk[w].st # "BAD"),
         \A r \in Requests : r \in R => r \in Q \/ Placed(s, r)
  PROVE  Rel(s, t, v, Q)
<1>1. NULL \notin WorkerSet
  BY ExtWorkerAssumption
<1>2. Barred(s, t, v)
  BY <1>1 DEF Rel, Barred
<1>3. Spared(s, t, Q)
  BY DEF Rel, Spared
<1> QED BY <1>2, <1>3 DEF Rel

LEMMA RelTrans ==
  ASSUME NEW s, NEW t, NEW u, NEW w, NEW R, Rel(s, t, w, R), Rel(t, u, w, R)
  PROVE  Rel(s, u, w, R)
<1>1. Barred(s, u, w)
  BY DEF Rel, Barred
<1>2. Spared(s, u, R)
  BY DEF Rel, Spared
<1> QED BY <1>1, <1>2 DEF Rel

\* The same where R was placed at first.
LEMMA RelThrough ==
  ASSUME NEW s, NEW t, NEW u, NEW w, NEW R, NEW r, Rel(s, t, w, R), Rel(t, u, w, R \cup {r}),
         Placed(s, r)
  PROVE  Rel(s, u, w, R)
<1>1. Barred(s, u, w)
  BY DEF Rel, Barred
<1>2. Spared(s, u, R)
  BY DEF Rel, Spared
<1> QED BY <1>1, <1>2 DEF Rel

(***************************************************************************)
(* Replacing one worker, connection or request.                            *)
(***************************************************************************)
WkOnly(s, t, w, k) ==
  /\ t \in State /\ t.wk[w] = k /\ \A v \in WorkerSet \ {w} : t.wk[v] = s.wk[v]
  /\ t.conn = s.conn /\ t.req = s.req /\ t.faults = s.faults

ConnOnly(s, t, c, x) ==
  /\ t \in State /\ t.conn[c] = x /\ \A d \in Conns \ {c} : t.conn[d] = s.conn[d]
  /\ t.wk = s.wk /\ t.req = s.req

ReqOnly(s, t, r, x) ==
  /\ t \in State /\ t.req[r] = x /\ \A q \in Requests \ {r} : t.req[q] = s.req[q]
  /\ t.wk = s.wk /\ t.conn = s.conn /\ t.faults = s.faults

LEMMA StateTypes ==
  ASSUME NEW s \in State
  PROVE  /\ \A w \in WorkerSet : s.wk[w] \in WorkerRec
         /\ \A c \in Conns : s.conn[c] \in ConnRec
         /\ \A r \in Requests : s.req[r] \in ReqRec
         /\ s.faults \in 0 .. MaxFaults
BY DEF State

LEMMA WkSet ==
  ASSUME NEW s \in State, NEW w \in WorkerSet, NEW k \in WorkerRec, NEW t,
         t = [s EXCEPT !.wk[w] = k]
  PROVE  WkOnly(s, t, w, k)
BY DEF State, WkOnly

LEMMA ConnSet ==
  ASSUME NEW s \in State, NEW c \in Conns, NEW x \in ConnRec, NEW t,
         t = [s EXCEPT !.conn[c] = x]
  PROVE  ConnOnly(s, t, c, x) /\ t.faults = s.faults
BY DEF State, ConnOnly

LEMMA ReqSet ==
  ASSUME NEW s \in State, NEW r \in Requests, NEW x \in ReqRec, NEW t,
         t = [s EXCEPT !.req[r] = x]
  PROVE  ReqOnly(s, t, r, x)
BY DEF State, ReqOnly

(***************************************************************************)
(* What kinds of small steps do to the invariant.                          *)
(***************************************************************************)
\* Requests stay where they are, and only connections without one close.
Quiet(s, t) ==
  /\ t \in State /\ t.req = s.req
  /\ \A v \in WorkerSet : Queued(t, v) = Queued(s, v)
  /\ \A c \in Conns :
       /\ t.conn[c].req = s.conn[c].req
       /\ t.conn[c].st = s.conn[c].st \/ (s.conn[c].req = NULL /\ t.conn[c].st # "PROCESSING")

BadKept(s, t) == \A v \in WorkerSet : s.wk[v].st = "BAD" => t.wk[v].st = "BAD"

LEMMA QuietPlaced ==
  ASSUME NEW s, NEW t, Quiet(s, t), NEW r
  PROVE  /\ Placed(t, r) <=> Placed(s, r)
         /\ Underway(t, r) <=> Underway(s, r)
         /\ Over(t, r) <=> Over(s, r)
BY DEF Quiet, Placed, Underway, Over

LEMMA QuietSound ==
  ASSUME NEW s, NEW t, NEW c0, NEW c1, NEW X, Sound(s, c0, X), Quiet(s, t),
         Pools(t), Linked(t, c1)
  PROVE  Sound(t, c1, X)
<1>1. Places(t)
  BY QuietPlaced DEF Sound, Places, Quiet
<1>2. NoneLost(t, X)
  BY QuietPlaced DEF Sound, NoneLost, Quiet
<1> QED BY <1>1, <1>2 DEF Sound, Quiet

LEMMA QuietOpened ==
  ASSUME NEW s, NEW t, NEW c1, Quiet(s, t), Opened(s, c1)
  PROVE  Opened(t, c1)
BY DEF Quiet, Opened

LEMMA QuietRel ==
  ASSUME NEW s, NEW t, Quiet(s, t), BadKept(s, t), NEW R
  PROVE  Rel(s, t, NULL, R)
<1>1. Barred(s, t, NULL)
  BY DEF Quiet, BadKept, Barred
<1>2. Spared(s, t, R)
  BY QuietPlaced DEF Quiet, Spared
<1> QED BY <1>1, <1>2 DEF Rel

\* A new record of a worker with the same queue
LEMMA WkQuiet ==
  ASSUME NEW s, NEW t, NEW w \in WorkerSet, NEW k, WkOnly(s, t, w, k),
         Range(k.queue) = Range(s.wk[w].queue)
  PROVE  Quiet(s, t)
BY DEF WkOnly, Quiet, Queued

LEMMA WkPools ==
  ASSUME NEW s, NEW t, NEW w \in WorkerSet, NEW k, WkOnly(s, t, w, k), Pools(s), Pool(w, k)
  PROVE  Pools(t)
BY DEF WkOnly, Pools

\* Links are kept if the sets they are about are.
LEMMA SameLinks ==
  ASSUME NEW s, NEW t, NEW c0, Linked(s, c0),
         \A w \in WorkerSet : /\ t.wk[w].conns = s.wk[w].conns
                              /\ Range(t.wk[w].free) = Range(s.wk[w].free),
         \A c \in Conns : t.conn[c].req = s.conn[c].req,
         \A r \in Requests : t.req[r].proc = s.req[r].proc
  PROVE  Linked(t, c0)
<1>1. \A c \in Conns : /\ t.wk[c[1]].conns = s.wk[c[1]].conns
                       /\ Range(t.wk[c[1]].free) = Range(s.wk[c[1]].free)
  BY ConnOwner
<1> QED BY <1>1 DEF Linked

\* A step that changes only flags of connections
LEMMA ConnSound ==
  ASSUME NEW s, NEW t, NEW c \in Conns, NEW x, NEW c0, NEW X, Sound(s, c0, X),
         ConnOnly(s, t, c, x), x.req = s.conn[c].req
  PROVE  Sound(t, c0, X)
<1>1. \A d \in Conns : t.conn[d].req = s.conn[d].req
  BY DEF ConnOnly
<1>2. t \in State /\ t.wk = s.wk /\ t.req = s.req
  BY DEF ConnOnly
<1>3. Linked(t, c0)
  BY <1>1, <1>2, SameLinks DEF Sound
<1>4. Pools(t) /\ Places(t)
  BY <1>2 DEF Sound, Pools, Places, Queued, Underway
<1>5. NoneLost(t, X)
  BY <1>2 DEF Sound, NoneLost, Placed, Queued, Over
<1> QED BY <1>2, <1>3, <1>4, <1>5 DEF Sound

\* Another value of a request in nobody's place
LEMMA ReqSound ==
  ASSUME NEW s, NEW t, NEW r, NEW x, NEW c0, NEW X, Holding(s, c0, X, r),
         ReqOnly(s, t, r, x), x.proc = NULL
  PROVE  /\ Holding(t, c0, X, r)
         /\ ~x.live \/ Over(t, r) => Sound(t, c0, X)
         /\ Rel(s, t, NULL, {r}) /\ OpenKept(s, t)
<1> USE DEF Holding
<1>1. t \in State /\ t.wk = s.wk /\ t.conn = s.conn
  BY DEF ReqOnly
<1>2. \A q \in Requests \ {r} : t.req[q] = s.req[q]
  BY DEF ReqOnly
<1>3. s.req[r].proc = NULL /\ t.req[r].proc = NULL /\ \A w \in WorkerSet : r \notin Queued(s, w)
  BY DEF Placed, ReqOnly
<1>4. Linked(t, c0)
  <2>1. \A q \in Requests : t.req[q].proc = s.req[q].proc
    BY <1>2, <1>3
  <2> QED BY <2>1, <1>1, SameLinks DEF Sound
<1>5. Pools(t)
  BY <1>1 DEF Sound, Pools
<1>6. \A w \in WorkerSet : Queued(t, w) = Queued(s, w) /\ Queued(s, w) \subseteq Requests
  <2>1. \A w \in WorkerSet : s.wk[w].queue \in Seq(Requests)
    BY StateTypes DEF Sound, WorkerRec
  <2> QED BY <2>1, <1>1, RangeFacts DEF Queued
<1>7. Places(t)
  <2>1. \A w \in WorkerSet : \A q \in Queued(t, w) :
          Underway(t, q) /\ t.req[q].w = w /\ t.req[q].proc = NULL
    <3> TAKE w \in WorkerSet
    <3> TAKE q \in Queued(t, w)
    <3>1. q \in Requests \ {r} /\ q \in Queued(s, w)
      BY <1>3, <1>6
    <3>2. Underway(s, q) /\ s.req[q].w = w /\ s.req[q].proc = NULL
      BY <3>1 DEF Sound, Places
    <3> QED BY <3>1, <3>2, <1>2 DEF Underway
  <2>2. \A q \in Requests : t.req[q].proc # NULL => Underway(t, q) /\ t.req[q].w = t.req[q].proc[1]
    BY <1>2, <1>3 DEF Sound, Places, Underway
  <2> QED BY <2>1, <2>2 DEF Places
<1>8. \A q \in Requests : Placed(t, q) <=> Placed(s, q)
  BY <1>2, <1>3, <1>6 DEF Placed
<1>9. NoneLost(t, X \cup {r})
  BY <1>2, <1>8 DEF Sound, NoneLost, Over
<1>10. ASSUME ~x.live \/ Over(t, r) PROVE NoneLost(t, X)
  <2>1. t.req[r] = x
    BY DEF ReqOnly
  <2> QED BY <2>1, <1>9, <1>10 DEF NoneLost, Over
<1>11. Rel(s, t, NULL, {r})
  BY <1>1, <1>2, <1>8 DEF Rel, Barred, Spared
<1>12. OpenKept(s, t)
  BY <1>1 DEF Opened, OpenKept
<1> QED BY <1>1, <1>4, <1>5, <1>7, <1>8, <1>9, <1>10, <1>11, <1>12 DEF Sound

QueueOnly(s, t, w, k) ==
  /\ WkOnly(s, t, w, k) /\ Pool(w, k) /\ k.conns = s.wk[w].conns
  /\ k.free = s.wk[w].free /\ k.st = s.wk[w].st
Entering(s, t, w, r) ==
  QueueOnly(s, t, w, t.wk[w]) /\ Range(t.wk[w].queue) = Range(s.wk[w].queue) \cup {r}
Leaving(s, t, w, r) ==
  /\ QueueOnly(s, t, w, t.wk[w]) /\ Range(t.wk[w].queue) = Range(s.wk[w].queue) \ {r}
  /\ r \in Range(s.wk[w].queue)

\* r enters the queue of the worker it names.
LEMMA EnqueueSound ==
  ASSUME NEW s, NEW t, NEW r, NEW w \in WorkerSet, NEW c0, NEW X,
         Carrying(s, c0, X, r), s.req[r].w = w, Entering(s, t, w, r)
  PROVE  Sound(t, c0, X) /\ Rel(s, t, NULL, {r}) /\ OpenKept(s, t)
<1> USE DEF Carrying, Holding
<1>0. PICK k : /\ k = t.wk[w] /\ QueueOnly(s, t, w, k)
               /\ Range(k.queue) = Range(s.wk[w].queue) \cup {r}
  BY DEF Entering
<1>0a. /\ WkOnly(s, t, w, k) /\ Pool(w, k) /\ k.conns = s.wk[w].conns
       /\ k.free = s.wk[w].free /\ k.st = s.wk[w].st
  BY <1>0 DEF QueueOnly
<1>1. t \in State /\ t.req = s.req /\ t.conn = s.conn /\ t.wk[w] = k
      /\ \A v \in WorkerSet \ {w} : t.wk[v] = s.wk[v]
  BY <1>0a DEF WkOnly
<1>2. Linked(t, c0)
  <2>1. \A v \in WorkerSet : /\ t.wk[v].conns = s.wk[v].conns
                             /\ Range(t.wk[v].free) = Range(s.wk[v].free)
    BY <1>0a, <1>1
  <2> QED BY <2>1, <1>1, SameLinks DEF Sound
<1>3. Pools(t)
  BY <1>0a, WkPools DEF Sound
<1>4. /\ Queued(t, w) = Queued(s, w) \cup {r}
      /\ \A v \in WorkerSet \ {w} : Queued(t, v) = Queued(s, v)
  BY <1>0, <1>1 DEF Queued
<1>5. s.req[r].proc = NULL
  BY DEF Placed
<1>6. \A q : Underway(t, q) <=> Underway(s, q)
  BY <1>1 DEF Underway
<1>7. Places(t)
  <2>1. \A v \in WorkerSet : \A q \in Queued(t, v) :
          Underway(t, q) /\ t.req[q].w = v /\ t.req[q].proc = NULL
    BY <1>1, <1>4, <1>5, <1>6 DEF Sound, Places
  <2>2. \A q \in Requests : t.req[q].proc # NULL => Underway(t, q) /\ t.req[q].w = t.req[q].proc[1]
    BY <1>1, <1>6 DEF Sound, Places
  <2> QED BY <2>1, <2>2 DEF Places
<1>8. \A q \in Requests : Placed(t, q) <=> Placed(s, q) \/ q = r
  BY <1>1, <1>4 DEF Placed
<1>9. NoneLost(t, X)
  BY <1>1, <1>8 DEF Sound, NoneLost, Over
<1>10. Rel(s, t, NULL, {r})
  BY <1>0a, <1>1, <1>8 DEF Rel, Barred, Spared
<1>11. OpenKept(s, t)
  BY <1>1 DEF Opened, OpenKept
<1> QED BY <1>1, <1>2, <1>3, <1>7, <1>9, <1>10, <1>11 DEF Sound

\* r leaves the queue it is in.
LEMMA DequeueSound ==
  ASSUME NEW s, NEW t, NEW r \in Requests, NEW w \in WorkerSet, NEW c0, NEW X,
         Sound(s, c0, X), Leaving(s, t, w, r)
  PROVE  /\ Carrying(t, c0, X, r) /\ t.req[r].w = w
         /\ Over(t, r) => Sound(t, c0, X)
         /\ Placed(s, r) /\ Rel(s, t, NULL, {}) /\ OpenKept(s, t)
<1>0. PICK k : /\ k = t.wk[w] /\ QueueOnly(s, t, w, k)
               /\ Range(k.queue) = Range(s.wk[w].queue) \ {r} /\ r \in Range(s.wk[w].queue)
  BY DEF Leaving
<1>0a. /\ WkOnly(s, t, w, k) /\ Pool(w, k) /\ k.conns = s.wk[w].conns
       /\ k.free = s.wk[w].free /\ k.st = s.wk[w].st
  BY <1>0 DEF QueueOnly
<1>1. t \in State /\ t.req = s.req /\ t.conn = s.conn /\ t.wk[w] = k
      /\ \A v \in WorkerSet \ {w} : t.wk[v] = s.wk[v]
  BY <1>0a DEF WkOnly
<1>2. Linked(t, c0)
  <2>1. \A v \in WorkerSet : /\ t.wk[v].conns = s.wk[v].conns
                             /\ Range(t.wk[v].free) = Range(s.wk[v].free)
    BY <1>0a, <1>1
  <2> QED BY <2>1, <1>1, SameLinks DEF Sound
<1>3. Pools(t)
  BY <1>0a, WkPools DEF Sound
<1>4. /\ Queued(t, w) = Queued(s, w) \ {r} /\ r \in Queued(s, w)
      /\ \A v \in WorkerSet \ {w} : Queued(t, v) = Queued(s, v)
  BY <1>0, <1>1 DEF Queued
<1>5. Underway(s, r) /\ s.req[r].w = w /\ s.req[r].proc = NULL
  BY <1>4 DEF Sound, Places
<1>5a. \A v \in WorkerSet \ {w} : r \notin Queued(s, v)
  BY <1>5 DEF Sound, Places
<1>6. \A q : Underway(t, q) <=> Underway(s, q)
  BY <1>1 DEF Underway
<1>7. Places(t)
  <2>1. \A v \in WorkerSet : \A q \in Queued(t, v) :
          Underway(t, q) /\ t.req[q].w = v /\ t.req[q].proc = NULL
    BY <1>1, <1>4, <1>6 DEF Sound, Places
  <2>2. \A q \in Requests : t.req[q].proc # NULL => Underway(t, q) /\ t.req[q].w = t.req[q].proc[1]
    BY <1>1, <1>6 DEF Sound, Places
  <2> QED BY <2>1, <2>2 DEF Places
<1>8. \A q \in Requests : Placed(t, q) <=> Placed(s, q) /\ q # r
  BY <1>1, <1>4, <1>5, <1>5a DEF Placed
<1>9. NoneLost(t, X \cup {r})
  BY <1>1, <1>8 DEF Sound, NoneLost, Over
<1>9a. Over(t, r) => NoneLost(t, X)
  BY <1>9 DEF NoneLost
<1>10. Placed(s, r)
  BY <1>4 DEF Placed
<1>11. Rel(s, t, NULL, {})
  BY <1>0a, <1>1, <1>8, <1>10 DEF Rel, Barred, Spared
<1>12. OpenKept(s, t)
  BY <1>1 DEF Opened, OpenKept
<1>13. Underway(t, r) /\ t.req[r].w = w /\ ~Placed(t, r)
  BY <1>1, <1>5, <1>6, <1>8
<1>14. Sound(t, c0, X \cup {r}) /\ (Over(t, r) => Sound(t, c0, X))
  BY <1>1, <1>2, <1>3, <1>7, <1>9, <1>9a DEF Sound
<1> QED BY <1>10, <1>11, <1>12, <1>13, <1>14 DEF Carrying, Holding

\* s and t differ in connection c and request r only.
PairOnly(s, t, c, r) ==
  /\ t \in State /\ t.wk = s.wk
  /\ \A d \in Conns \ {c} : t.conn[d] = s.conn[d]
  /\ \A q \in Requests \ {r} : t.req[q] = s.req[q]

\* Connection c is given request r.
LEMMA LinkSound ==
  ASSUME NEW s, NEW t, NEW c \in Conns, NEW r \in Requests, NEW X,
         Carrying(s, c, X, r), s.req[r].w = c[1],
         PairOnly(s, t, c, r), t.conn[c].req = r, t.req[r].proc = c, t.req[r].w = c[1],
         Underway(t, r), t.conn[c].st \in {s.conn[c].st, "DISCONNECTED"}
  PROVE  /\ Sound(t, NULL, X)
         /\ Rel(s, t, c[1], {r})
         /\ Opened(s, NULL) => Opened(t, c)
<1> USE DEF PairOnly, Carrying, Holding
<1>1. NULL \notin Conns /\ NULL \notin Requests
  BY ExtWorkerAssumption
<1>2. s.conn[c].req = NULL /\ c \in s.wk[c[1]].conns \ Range(s.wk[c[1]].free) /\ s.req[r].proc = NULL
  BY <1>1 DEF Sound, Linked, Placed
<1>3. Linked(t, NULL)
  <2>1. ASSUME NEW d \in Conns, NEW q \in Requests
        PROVE  t.conn[d].req = q <=> t.req[q].proc = d
    <3>1. CASE d = c /\ q = r
      BY <3>1
    <3>2. CASE d = c /\ q # r
      <4>1. s.req[q].proc # c
        BY <1>1, <1>2 DEF Sound, Linked
      <4> QED BY <3>2, <4>1
    <3>3. CASE d # c /\ q = r
      <4>1. s.conn[d].req # r
        BY <1>1, <1>2 DEF Sound, Linked
      <4> QED BY <3>3, <4>1
    <3>4. CASE d # c /\ q # r
      BY <3>4 DEF Sound, Linked
    <3> QED BY <3>1, <3>2, <3>3, <3>4
  <2>2. \A d \in Conns : t.conn[d].req # NULL => d \in t.wk[d[1]].conns
    BY <1>2 DEF Sound, Linked
  <2>3. \A d \in Conns : d \in t.wk[d[1]].conns =>
          (t.conn[d].req = NULL <=> d \in Range(t.wk[d[1]].free))
    BY <1>1, <1>2 DEF Sound, Linked
  <2> QED BY <2>1, <2>2, <2>3 DEF Linked
<1>4. Pools(t)
  BY DEF Sound, Pools
<1>5. \A w \in WorkerSet : Queued(t, w) = Queued(s, w) /\ Queued(s, w) \subseteq Requests
                           /\ r \notin Queued(s, w)
  <2>1. \A w \in WorkerSet : s.wk[w].queue \in Seq(Requests)
    BY StateTypes DEF Sound, WorkerRec
  <2>2. \A w \in WorkerSet : r \notin Queued(s, w)
    BY DEF Placed
  <2> QED BY <2>1, <2>2, RangeFacts DEF Queued
<1>6. \A q \in Requests \ {r} : Underway(t, q) <=> Underway(s, q)
  BY DEF Underway
<1>7. Places(t)
  <2>1. \A w \in WorkerSet : \A q \in Queued(t, w) :
          Underway(t, q) /\ t.req[q].w = w /\ t.req[q].proc = NULL
    <3> TAKE w \in WorkerSet
    <3> TAKE q \in Queued(t, w)
    <3>1. q \in Requests \ {r} /\ q \in Queued(s, w)
      BY <1>5
    <3>2. Underway(s, q) /\ s.req[q].w = w /\ s.req[q].proc = NULL
      BY <3>1 DEF Sound, Places
    <3> QED BY <3>1, <3>2, <1>6
  <2>2. \A q \in Requests : t.req[q].proc # NULL => Underway(t, q) /\ t.req[q].w = t.req[q].proc[1]
    BY <1>6 DEF Sound, Places
  <2> QED BY <2>1, <2>2 DEF Places
<1>8. \A q \in Requests \ {r} : Placed(t, q) <=> Placed(s, q)
  BY <1>5 DEF Placed
<1>8a. Placed(t, r)
  BY <1>1 DEF Placed
<1>9. NoneLost(t, X)
  BY <1>8, <1>8a DEF Sound, NoneLost, Over
<1>10. Rel(s, t, c[1], {r})
  <2>1. Barred(s, t, c[1])
    BY DEF Barred
  <2>2. Spared(s, t, {r})
    BY <1>8 DEF Spared
  <2> QED BY <2>1, <2>2 DEF Rel
<1>11. Opened(s, NULL) => Opened(t, c)
  BY <1>1 DEF Opened
<1>12. Sound(t, NULL, X)
  BY <1>3, <1>4, <1>7, <1>9 DEF Sound
<1> QED BY <1>10, <1>11, <1>12

\* Connection c and its request r are separated.
LEMMA UnlinkSound ==
  ASSUME NEW s, NEW t, NEW c \in Conns, NEW r \in Requests, NEW X,
         Sound(s, NULL, X), s.conn[c].req = r,
         PairOnly(s, t, c, r), t.conn[c].req = NULL, t.req[r].proc = NULL
  PROVE  /\ Holding(t, c, X, r)
         /\ ~t.req[r].live \/ Over(t, r) => Sound(t, c, X)
         /\ Rel(s, t, NULL, {})
         /\ Opened(s, c) => Opened(t, NULL)
         /\ s.req[r].proc = c /\ Underway(s, r) /\ s.req[r].w = c[1]
<1> USE DEF PairOnly
<1>1. NULL \notin Conns /\ NULL \notin Requests
  BY ExtWorkerAssumption
<1>2. s.req[r].proc = c /\ c \in s.wk[c[1]].conns \ Range(s.wk[c[1]].free)
  BY <1>1 DEF Sound, Linked
<1>2a. Underway(s, r) /\ s.req[r].w = c[1]
  BY <1>1, <1>2 DEF Sound, Places
<1>3. Linked(t, c)
  <2>1. ASSUME NEW d \in Conns, NEW q \in Requests
        PROVE  t.conn[d].req = q <=> t.req[q].proc = d
    <3>1. CASE d = c /\ q = r
      BY <3>1, <1>1
    <3>2. CASE d = c /\ q # r
      <4>1. s.req[q].proc # c
        BY <3>2 DEF Sound, Linked
      <4> QED BY <3>2, <4>1, <1>1
    <3>3. CASE d # c /\ q = r
      <4>1. s.conn[d].req # r
        BY <3>3, <1>2 DEF Sound, Linked
      <4> QED BY <3>3, <4>1, <1>1
    <3>4. CASE d # c /\ q # r
      BY <3>4 DEF Sound, Linked
    <3> QED BY <3>1, <3>2, <3>3, <3>4
  <2>2. \A d \in Conns : t.conn[d].req # NULL => d \in t.wk[d[1]].conns
    BY <1>2 DEF Sound, Linked
  <2>3. \A d \in Conns : d # c /\ d \in t.wk[d[1]].conns =>
          (t.conn[d].req = NULL <=> d \in Range(t.wk[d[1]].free))
    BY <1>1, <1>2 DEF Sound, Linked
  <2> QED BY <2>1, <2>2, <2>3, <1>2 DEF Linked
<1>4. Pools(t)
  BY DEF Sound, Pools
<1>5. \A w \in WorkerSet : Queued(t, w) = Queued(s, w) /\ Queued(s, w) \subseteq Requests
                           /\ r \notin Queued(s, w)
  <2>1. \A w \in WorkerSet : s.wk[w].queue \in Seq(Requests)
    BY StateTypes DEF Sound, WorkerRec
  <2>2. \A w \in WorkerSet : r \notin Queued(s, w)
    BY <1>1, <1>2 DEF Sound, Places
  <2> QED BY <2>1, <2>2, RangeFacts DEF Queued
<1>6. \A q \in Requests \ {r} : Underway(t, q) <=> Underway(s, q)
  BY DEF Underway
<1>7. Places(t)
  <2>1. \A w \in WorkerSet : \A q \in Queued(t, w) :
          Underway(t, q) /\ t.req[q].w = w /\ t.req[q].proc = NULL
    <3> TAKE w \in WorkerSet
    <3> TAKE q \in Queued(t, w)
    <3>1. q \in Requests \ {r} /\ q \in Queued(s, w)
      BY <1>5
    <3>2. Underway(s, q) /\ s.req[q].w = w /\ s.req[q].proc = NULL
      BY <3>1 DEF Sound, Places
    <3> QED BY <3>1, <3>2, <1>6
  <2>2. \A q \in Requests : t.req[q].proc # NULL => Underway(t, q) /\ t.req[q].w = t.req[q].proc[1]
    BY <1>6 DEF Sound, Places
  <2> QED BY <2>1, <2>2 DEF Places
<1>8. \A q \in Requests \ {r} : Placed(t, q) <=> Placed(s, q)
  BY <1>5 DEF Placed
<1>8a. ~Placed(t, r) /\ Placed(s, r)
  BY <1>1, <1>2, <1>5 DEF Placed
<1>9. NoneLost(t, X \cup {r})
  BY <1>8 DEF Sound, NoneLost, Over
<1>9a. ~t.req[r].live \/ Over(t, r) => NoneLost(t, X)
  BY <1>9 DEF NoneLost
<1>10. Rel(s, t, NULL, {})
  <2>1. Barred(s, t, NULL)
    BY DEF Barred
  <2>2. Spared(s, t, {})
    BY <1>8, <1>8a DEF Spared
  <2> QED BY <2>1, <2>2 DEF Rel
<1>11. Opened(s, c) => Opened(t, NULL)
  BY <1>1 DEF Opened
<1>12. /\ Sound(t, c, X \cup {r})
       /\ ~t.req[r].live \/ Over(t, r) => Sound(t, c, X)
  BY <1>3, <1>4, <1>7, <1>9, <1>9a DEF Sound
<1> QED BY <1>2, <1>2a, <1>8a, <1>10, <1>11, <1>12 DEF Holding

(***************************************************************************)
(* The operations of pool and connector.                                   *)
(***************************************************************************)
LEMMA CloseEffect ==
  ASSUME NEW s \in State, NEW c \in Conns
  PROVE  /\ ConnOnly(s, Close(s, c), c, [s.conn[c] EXCEPT !.st = "DISCONNECTED"])
         /\ Close(s, c).conn[c].st = "DISCONNECTED"
         /\ Close(s, c).conn[c].req = s.conn[c].req
         /\ Close(s, c).faults = s.faults
<1>1. s.conn[c] \in ConnRec
  BY StateTypes
<1> DEFINE x == [s.conn[c] EXCEPT !.st = "DISCONNECTED"]
<1>2. x \in ConnRec /\ x.st = "DISCONNECTED" /\ x.req = s.conn[c].req
  BY <1>1 DEF ConnRec
<1>3. Close(s, c) = [s EXCEPT !.conn[c] = x]
  BY <1>2 DEF Close, State
<1> HIDE DEF x
<1>4. ConnOnly(s, Close(s, c), c, x) /\ Close(s, c).faults = s.faults
  BY <1>2, <1>3, ConnSet
<1>5. Close(s, c).conn[c] = x
  BY <1>4 DEF ConnOnly
<1> QED BY <1>2, <1>4, <1>5 DEF x

\* close of a connection without request
LEMMA CloseQuiet ==
  ASSUME NEW s, NEW c \in Conns, NEW c0, NEW X, Sound(s, c0, X), s.conn[c].req = NULL
  PROVE  /\ Sound(Close(s, c), c0, X) /\ Quiet(s, Close(s, c)) /\ BadKept(s, Close(s, c))
         /\ Close(s, c).conn[c].req = NULL
<1> DEFINE t == Close(s, c)
           x == [s.conn[c] EXCEPT !.st = "DISCONNECTED"]
<1>1. s \in State
  BY DEF Sound
<1>2. ConnOnly(s, t, c, x) /\ t.conn[c].st = "DISCONNECTED" /\ t.conn[c].req = NULL
      /\ x.req = s.conn[c].req
  BY <1>1, CloseEffect, StateTypes DEF ConnRec
<1> HIDE DEF t, x
<1>3. Sound(t, c0, X)
  BY <1>2, ConnSound
<1>4. Quiet(s, t) /\ BadKept(s, t)
  BY <1>2 DEF ConnOnly, Quiet, BadKept, Queued
<1> QED BY <1>2, <1>3, <1>4 DEF t

LEMMA RemoveConnSound ==
  ASSUME NEW s, NEW c \in Conns, NEW c0 \in {NULL, c}, NEW X, Sound(s, c0, X),
         s.conn[c].req = NULL
  PROVE  /\ Sound(RemoveConn(s, c), NULL, X) /\ Quiet(s, RemoveConn(s, c))
         /\ BadKept(s, RemoveConn(s, c)) /\ RemoveConn(s, c).conn = s.conn
<1>1. PICK w \in WorkerSet : w = c[1]
  BY ConnOwner
<1>2. s \in State /\ Pools(s) /\ Linked(s, c0) /\ Pool(w, s.wk[w]) /\ NULL \notin Conns
  BY ExtWorkerAssumption DEF Sound, Pools
<1>3. PICK k : k = s.wk[w] /\ Pool(w, k)
  BY <1>2
<1>4. PICK j : j = Without(k, c)
  OBVIOUS
<1>5. /\ Pool(w, j) /\ j.conns = k.conns \ {c} /\ Range(j.free) = Range(k.free) \ {c}
      /\ j.queue = k.queue /\ j.st = k.st
  BY <1>3, <1>4, PoolRemove
<1> DEFINE t == RemoveConn(s, c)
<1>6. t = [s EXCEPT !.wk[w] = j]
  BY <1>1, <1>3, <1>4 DEF RemoveConn, Without
<1> HIDE DEF t
<1>7. WkOnly(s, t, w, j)
  BY <1>2, <1>5, <1>6, WkSet DEF Pool
<1>8. Quiet(s, t) /\ Pools(t)
  BY <1>2, <1>3, <1>5, <1>7, WkQuiet, WkPools
<1>9. BadKept(s, t) /\ t.conn = s.conn
  BY <1>3, <1>5, <1>7 DEF WkOnly, BadKept
<1>10. Linked(t, NULL)
  <2>1. t.conn = s.conn /\ t.req = s.req /\ t.wk[w] = j
        /\ \A v \in WorkerSet \ {w} : t.wk[v] = s.wk[v]
    BY <1>7 DEF WkOnly
  <2>2. \A d \in Conns : d[1] # w => t.wk[d[1]] = s.wk[d[1]]
    BY <2>1, ConnOwner
  <2>3. \A d \in Conns : t.conn[d].req # NULL => d \in t.wk[d[1]].conns
    <3> TAKE d \in Conns
    <3>1. CASE d[1] = w
      BY <3>1, <2>1, <1>2, <1>3, <1>5 DEF Linked
    <3>2. CASE d[1] # w
      BY <3>2, <2>1, <2>2, <1>2 DEF Linked
    <3> QED BY <3>1, <3>2
  <2>4. \A d \in Conns : d \in t.wk[d[1]].conns =>
          (t.conn[d].req = NULL <=> d \in Range(t.wk[d[1]].free))
    <3> TAKE d \in Conns
    <3>1. CASE d = c
      BY <3>1, <1>1, <1>5, <2>1
    <3>2. CASE d # c /\ d[1] = w
      BY <3>2, <2>1, <1>2, <1>3, <1>5 DEF Linked
    <3>3. CASE d # c /\ d[1] # w
      BY <3>3, <2>1, <2>2, <1>2 DEF Linked
    <3> QED BY <3>1, <3>2, <3>3
  <2>5. \A d \in Conns, r \in Requests : t.conn[d].req = r <=> t.req[r].proc = d
    BY <2>1, <1>2 DEF Linked
  <2> QED BY <2>3, <2>4, <2>5 DEF Linked
<1>11. Sound(t, NULL, X)
  BY <1>8, <1>10, QuietSound
<1> QED BY <1>8, <1>9, <1>11 DEF t

\* The links when the pool of worker w changes
LEMMA WkLinked ==
  ASSUME NEW s, NEW t, NEW w \in WorkerSet, NEW j, WkOnly(s, t, w, j), NEW c0, NEW c1,
         Linked(s, c0), c0 # NULL => c0[1] = w,
         \A d \in Conns : d[1] = w =>
           /\ s.conn[d].req # NULL => d \in j.conns
           /\ d # c1 /\ d \in j.conns => (s.conn[d].req = NULL <=> d \in Range(j.free)),
         c1 # NULL => /\ c1 \in Conns /\ c1[1] = w /\ c1 \in j.conns \ Range(j.free)
                      /\ s.conn[c1].req = NULL
  PROVE  Linked(t, c1)
<1>1. /\ t.conn = s.conn /\ t.req = s.req /\ t.wk[w] = j
      /\ \A v \in WorkerSet \ {w} : t.wk[v] = s.wk[v]
  BY DEF WkOnly
<1>2. NULL \notin Conns /\ \A d \in Conns : d[1] # w => t.wk[d[1]] = s.wk[d[1]]
  BY <1>1, ConnOwner, ExtWorkerAssumption
<1>3. \A d \in Conns : t.conn[d].req # NULL => d \in t.wk[d[1]].conns
  <2> TAKE d \in Conns
  <2>1. CASE d[1] = w
    BY <2>1, <1>1
  <2>2. CASE d[1] # w
    BY <2>2, <1>1, <1>2 DEF Linked
  <2> QED BY <2>1, <2>2
<1>4. \A d \in Conns : d # c1 /\ d \in t.wk[d[1]].conns =>
        (t.conn[d].req = NULL <=> d \in Range(t.wk[d[1]].free))
  <2> TAKE d \in Conns
  <2>1. CASE d[1] = w
    BY <2>1, <1>1
  <2>2. CASE d[1] # w
    BY <2>2, <1>1, <1>2 DEF Linked
  <2> QED BY <2>1, <2>2
<1>5. \A d \in Conns, r \in Requests : t.conn[d].req = r <=> t.req[r].proc = d
  BY <1>1 DEF Linked
<1>6. c1 # NULL => /\ c1 \in Conns /\ t.conn[c1].req = NULL
                   /\ c1 \in t.wk[c1[1]].conns \ Range(t.wk[c1[1]].free)
  BY <1>1
<1> QED BY <1>3, <1>4, <1>5, <1>6 DEF Linked

LEMMA ReuseSound ==
  ASSUME NEW s, NEW c \in Conns, NEW X, Sound(s, c, X)
  PROVE  Sound(Reuse(s, c), NULL, X) /\ Quiet(s, Reuse(s, c)) /\ BadKept(s, Reuse(s, c))
<1>1. PICK w \in WorkerSet : w = c[1]
  BY ConnOwner
<1>2. /\ s \in State /\ Pools(s) /\ Linked(s, c) /\ NULL \notin Conns
      /\ s.conn[c].req = NULL /\ c \in s.wk[w].conns \ Range(s.wk[w].free)
  BY <1>1, ExtWorkerAssumption DEF Sound, Linked
<1>3. PICK k : k = s.wk[w] /\ Pool(w, k)
  BY <1>2 DEF Pools
<1>4. PICK j : j = GivenBack(k, c)
  OBVIOUS
<1>5. c \in k.conns \ Range(k.free)
  BY <1>2, <1>3
<1>6. /\ Pool(w, j) /\ j.conns = k.conns /\ Range(j.free) = Range(k.free) \cup {c}
      /\ j.queue = k.queue /\ j.st = k.st
  BY <1>3, <1>4, <1>5, PoolReuse
<1> DEFINE t == Reuse(s, c)
<1>7. t = [s EXCEPT !.wk[w] = j]
  BY <1>1, <1>2, <1>3, <1>4 DEF Reuse, GivenBack, State
<1> HIDE DEF t
<1>8. WkOnly(s, t, w, j)
  BY <1>2, <1>6, <1>7, WkSet DEF Pool
<1>9. Quiet(s, t) /\ Pools(t)
  BY <1>2, <1>3, <1>6, <1>8, WkQuiet, WkPools
<1>10. BadKept(s, t)
  BY <1>3, <1>6, <1>8 DEF WkOnly, BadKept
<1>11. Linked(t, NULL)
  <2>1. \A d \in Conns : d[1] = w =>
           /\ s.conn[d].req # NULL => d \in j.conns
           /\ d # NULL /\ d \in j.conns => (s.conn[d].req = NULL <=> d \in Range(j.free))
    BY <1>2, <1>3, <1>6 DEF Linked
  <2> QED BY <2>1, <1>1, <1>2, <1>8, WkLinked
<1>12. Sound(t, NULL, X)
  BY <1>9, <1>11, QuietSound
<1> QED BY <1>9, <1>10, <1>12 DEF t

\* A connection c that worker w takes from its pool
Got(s, t, w, c, X) ==
  /\ c \in Conns /\ c[1] = w /\ Sound(t, c, X) /\ Quiet(s, t)
  /\ \A v \in WorkerSet : t.wk[v].st = s.wk[v].st /\ t.wk[v].queue = s.wk[v].queue

LEMMA GotConn ==
  ASSUME NEW s, NEW t, NEW w \in WorkerSet, NEW c \in Conns, NEW j, NEW X, Sound(s, NULL, X),
         c[1] = w, WkOnly(s, t, w, j), Pool(w, j), j.queue = s.wk[w].queue, j.st = s.wk[w].st,
         \/ /\ c \in Range(s.wk[w].free)
            /\ j.conns = s.wk[w].conns /\ Range(j.free) = Range(s.wk[w].free) \ {c}
         \/ /\ c \notin s.wk[w].conns
            /\ j.conns = s.wk[w].conns \cup {c} /\ j.free = s.wk[w].free
  PROVE  Got(s, t, w, c, X)
<1>1. /\ s \in State /\ Pools(s) /\ Linked(s, NULL) /\ NULL \notin Conns
      /\ Range(s.wk[w].free) \subseteq s.wk[w].conns
  BY ExtWorkerAssumption DEF Sound, Pools, Pool
<1>2. Quiet(s, t) /\ Pools(t)
  BY <1>1, WkQuiet, WkPools
<1>3. \A v \in WorkerSet : t.wk[v].st = s.wk[v].st /\ t.wk[v].queue = s.wk[v].queue
  BY DEF WkOnly
<1>4. s.conn[c].req = NULL /\ c \in j.conns \ Range(j.free)
  BY <1>1 DEF Linked
<1>5. \A d \in Conns : d[1] = w =>
           /\ s.conn[d].req # NULL => d \in j.conns
           /\ d # c /\ d \in j.conns => (s.conn[d].req = NULL <=> d \in Range(j.free))
  BY <1>1 DEF Linked
<1>6. Linked(t, c)
  BY <1>1, <1>4, <1>5, WkLinked
<1>7. Sound(t, c, X)
  BY <1>2, <1>6, QuietSound
<1> QED BY <1>2, <1>3, <1>7 DEF Got

LEMMA GetConnSound ==
  ASSUME NEW s, NEW w \in WorkerSet, NEW X, Sound(s, NULL, X)
  PROVE  \/ GetConn(s, w).c = NULL /\ GetConn(s, w).s = s
         \/ Got(s, GetConn(s, w).s, w, GetConn(s, w).c, X)
<1>1. s \in State /\ Pool(w, s.wk[w])
  BY DEF Sound, Pools
<1>2. PICK k : k = s.wk[w] /\ Pool(w, k)
  BY <1>1
<1>3. k.free \in Lists(Conns) /\ Range(k.free) \subseteq k.conns /\ k.conns \subseteq Conns
      /\ \A c \in k.conns : c[1] = w
  BY <1>2, PoolConns DEF Pool
<1>4. CASE k.free # <<>>
  <2>1. PICK c, j, t : c = Last(k.free) /\ j = FreeTaken(k) /\ t = [s EXCEPT !.wk[w] = j]
    OBVIOUS
  <2>2. GetConn(s, w) = [s |-> t, c |-> c]
    BY <1>1, <1>2, <1>4, <2>1 DEF GetConn, FreeTaken, State
  <2>3. /\ Pool(w, j) /\ c \in k.conns
        /\ j.conns = k.conns /\ Range(j.free) = Range(k.free) \ {c}
        /\ j.queue = k.queue /\ j.st = k.st
    BY <1>2, <1>4, <2>1, PoolTake
  <2>4. c \in Range(k.free)
    BY <1>3, <1>4, <2>1, FrontList
  <2>5. WkOnly(s, t, w, j)
    BY <1>1, <2>1, <2>3, WkSet DEF Pool
  <2>6. Got(s, t, w, c, X)
    BY <1>2, <1>3, <2>3, <2>4, <2>5, GotConn
  <2> QED BY <2>2, <2>6
<1>5. CASE k.free = <<>> /\ k.max <= Cardinality(k.conns)
  BY <1>2, <1>5 DEF GetConn
<1>6. CASE k.free = <<>> /\ ~(k.max <= Cardinality(k.conns)) /\ k.bad # <<>>
  <2>1. PICK c, j, t : c = Last(k.bad) /\ j = Revived(k) /\ t = [s EXCEPT !.wk[w] = j]
    OBVIOUS
  <2>2. GetConn(s, w) = [s |-> t, c |-> c]
    BY <1>2, <1>6, <2>1 DEF GetConn, Revived
  <2>3. /\ Pool(w, j) /\ c \notin k.conns /\ c \in Conns /\ c[1] = w
        /\ j.conns = k.conns \cup {c} /\ j.free = k.free
        /\ j.queue = k.queue /\ j.st = k.st
    BY <1>2, <1>6, <2>1, PoolRevive
  <2>5. WkOnly(s, t, w, j)
    BY <1>1, <2>1, <2>3, WkSet DEF Pool
  <2>6. Got(s, t, w, c, X)
    BY <1>2, <2>3, <2>5, GotConn
  <2> QED BY <2>2, <2>6
<1>7. CASE k.free = <<>> /\ ~(k.max <= Cardinality(k.conns)) /\ k.bad = <<>>
  <2>1. PICK c : c = <<w, k.made + 1>>
    OBVIOUS
  <2>1a. PICK j, t : j = Extended(k, c) /\ t = [s EXCEPT !.wk[w] = j]
    OBVIOUS
  <2>2. GetConn(s, w) = [s |-> t, c |-> c]
    BY <1>2, <1>7, <2>1, <2>1a DEF GetConn, Extended
  <2>3. /\ Pool(w, j) /\ c \notin k.conns /\ c \in Conns /\ c[1] = w
        /\ j.conns = k.conns \cup {c} /\ j.free = k.free
        /\ j.queue = k.queue /\ j.st = k.st
    BY <1>2, <1>7, <2>1, <2>1a, PoolCreate
  <2>5. WkOnly(s, t, w, j)
    BY <1>1, <2>1a, <2>3, WkSet DEF Pool
  <2>6. Got(s, t, w, c, X)
    BY <1>2, <2>3, <2>5, GotConn
  <2> QED BY <2>2, <2>6
<1> QED BY <1>4, <1>5, <1>6, <1>7

LEMMA WkSameLinks ==
  ASSUME NEW s, NEW t, NEW w \in WorkerSet, NEW j, WkOnly(s, t, w, j), NEW c0, Linked(s, c0),
         j.conns = s.wk[w].conns, j.free = s.wk[w].free
  PROVE  Linked(t, c0)
<1>1. /\ t.conn = s.conn /\ t.req = s.req /\ t.wk[w] = j
      /\ \A v \in WorkerSet \ {w} : t.wk[v] = s.wk[v]
  BY DEF WkOnly
<1>2. \A v \in WorkerSet : /\ t.wk[v].conns = s.wk[v].conns
                           /\ Range(t.wk[v].free) = Range(s.wk[v].free)
  BY <1>1
<1> QED BY <1>1, <1>2, SameLinks

\* A worker's record with another state and limit
LEMMA LimitSound ==
  ASSUME NEW s, NEW t, NEW w \in WorkerSet, NEW c0, NEW X, Sound(s, c0, X),
         NEW st \in {"NOTSTARTED", "BAD", "GOOD"}, st = "BAD" => Retry[w],
         NEW max \in 0 .. MaxConns[w], Cardinality(s.wk[w].conns) <= max,
         t = [s EXCEPT !.wk[w] = Limited(s.wk[w], st, max)]
  PROVE  /\ Sound(t, c0, X) /\ Quiet(s, t) /\ t.conn = s.conn
         /\ t.wk[w].st = st /\ t.wk[w].max = max
         /\ t.wk[w].queue = s.wk[w].queue /\ t.wk[w].conns = s.wk[w].conns
         /\ t.wk[w].free = s.wk[w].free
         /\ \A v \in WorkerSet \ {w} : t.wk[v] = s.wk[v]
<1>1. s \in State /\ Pools(s) /\ Linked(s, c0)
  BY DEF Sound
<1>2. PICK k : k = s.wk[w] /\ Pool(w, k) /\ Cardinality(k.conns) <= max
  BY <1>1 DEF Pools
<1>3. PICK j : j = Limited(k, st, max) /\ t = [s EXCEPT !.wk[w] = j]
  BY <1>2
<1>4. /\ Pool(w, j) /\ j.conns = k.conns /\ j.free = k.free /\ j.queue = k.queue
      /\ j.st = st /\ j.max = max
  BY <1>2, <1>3, PoolSet
<1>5. WkOnly(s, t, w, j)
  BY <1>1, <1>3, <1>4, WkSet DEF Pool
<1>6. Quiet(s, t) /\ Pools(t)
  BY <1>1, <1>2, <1>4, <1>5, WkQuiet, WkPools
<1>7. /\ t.conn = s.conn /\ t.req = s.req /\ t.wk[w] = j
      /\ \A v \in WorkerSet \ {w} : t.wk[v] = s.wk[v]
  BY <1>5 DEF WkOnly
<1>8. Linked(t, c0)
  <2>1. j.conns = s.wk[w].conns /\ j.free = s.wk[w].free
    BY <1>2, <1>4
  <2> QED BY <2>1, <1>1, <1>5, WkSameLinks
<1>9. Sound(t, c0, X)
  BY <1>6, <1>8, QuietSound
<1> QED BY <1>2, <1>4, <1>6, <1>7, <1>9

LEMMA StartSound ==
  ASSUME NEW s, NEW w \in WorkerSet, NEW c0, NEW X, Sound(s, c0, X)
  PROVE  /\ Sound(Start(s, w), c0, X) /\ Quiet(s, Start(s, w)) /\ BadKept(s, Start(s, w))
         /\ Start(s, w).conn = s.conn
         /\ Start(s, w).wk[w].queue = s.wk[w].queue
         /\ Start(s, w).wk[w].st = "BAD" => s.wk[w].st = "BAD"
         /\ Start(s, w).wk[w].st # "NOTSTARTED"
<1>0. s \in State /\ Pool(w, s.wk[w]) /\ MaxConns[w] \in Nat
  BY ExtWorkerAssumption DEF Sound, Pools
<1>1. CASE s.wk[w].st # "NOTSTARTED"
  <2>1. Quiet(s, s) /\ BadKept(s, s)
    BY <1>0 DEF Quiet, BadKept
  <2> QED BY <1>1, <2>1 DEF Start
<1>2. CASE s.wk[w].st = "NOTSTARTED"
  <2>1. PICK max : max = IF s.wk[w].max < MaxConns[w] THEN MaxConns[w] ELSE s.wk[w].max
    OBVIOUS
  <2>2. max \in 0 .. MaxConns[w] /\ Cardinality(s.wk[w].conns) <= max
    BY <1>0, <2>1 DEF Pool
  <2>3. PICK t : t = [s EXCEPT !.wk[w] = Limited(s.wk[w], "GOOD", max)]
    OBVIOUS
  <2>4. Start(s, w) = t
    BY <1>0, <1>2, <2>1, <2>3 DEF Start, Limited, State
  <2>5. /\ Sound(t, c0, X) /\ Quiet(s, t) /\ t.conn = s.conn /\ t.wk[w].st = "GOOD"
        /\ t.wk[w].queue = s.wk[w].queue /\ \A v \in WorkerSet \ {w} : t.wk[v] = s.wk[v]
    BY <2>2, <2>3, LimitSound
  <2>6. BadKept(s, t)
    BY <2>5, <1>2 DEF BadKept
  <2> QED BY <2>4, <2>5, <2>6
<1> QED BY <1>1, <1>2

\* Taking the first request from a queue
LEMMA PopFrontSound ==
  ASSUME NEW s, NEW w \in WorkerSet, NEW c0, NEW X, Sound(s, c0, X), s.wk[w].queue # <<>>,
         NEW r, r = Head(s.wk[w].queue), NEW t, t = PopFront(s, w)
  PROVE  /\ Carrying(t, c0, X, r) /\ t.req[r].w = w
         /\ ~t.req[r].alive => Sound(t, c0, X)
         /\ Placed(s, r) /\ Rel(s, t, NULL, {}) /\ OpenKept(s, t)
         /\ t.req = s.req /\ t.conn = s.conn
         /\ \A v \in WorkerSet : t.wk[v].st = s.wk[v].st
<1>1. s \in State /\ Pools(s)
  BY DEF Sound
<1>2. PICK k : k = s.wk[w] /\ Pool(w, k) /\ k.queue \in Lists(Requests) /\ k.queue # <<>>
  BY <1>1 DEF Pools, Pool
<1>3. PICK q : q = Tail(k.queue)
  OBVIOUS
<1>4. r \in Range(k.queue) /\ q \in Lists(Requests) /\ Range(q) = Range(k.queue) \ {r}
  BY <1>2, <1>3, TailList
<1>5. r \in Requests
  BY <1>2, <1>4, RangeFacts DEF Lists
<1>6. PICK j : j = WithQueue(k, q)
  OBVIOUS
<1>7. Pool(w, j) /\ j.conns = k.conns /\ j.free = k.free /\ j.queue = q /\ j.st = k.st
  BY <1>2, <1>4, <1>6, PoolQueue
<1>8. t = [s EXCEPT !.wk[w] = j]
  BY <1>1, <1>2, <1>3, <1>6 DEF PopFront, WithQueue, State
<1>9. WkOnly(s, t, w, j)
  BY <1>1, <1>7, <1>8, WkSet DEF Pool
<1>10. /\ r \in Range(s.wk[w].queue)
       /\ j.conns = s.wk[w].conns /\ j.free = s.wk[w].free
       /\ j.st = s.wk[w].st /\ Range(j.queue) = Range(s.wk[w].queue) \ {r}
  BY <1>2, <1>4, <1>7
<1>11. /\ Carrying(t, c0, X, r) /\ t.req[r].w = w
       /\ Over(t, r) => Sound(t, c0, X)
       /\ Placed(s, r) /\ Rel(s, t, NULL, {}) /\ OpenKept(s, t)
  <2>1. Leaving(s, t, w, r)
    <3>1. t.wk[w] = j
      BY <1>9 DEF WkOnly
    <3> QED BY <3>1, <1>7, <1>9, <1>10 DEF Leaving, QueueOnly
  <2> QED BY ZenonT(40), <2>1, <1>5, DequeueSound
<1>12. t.req = s.req /\ t.conn = s.conn /\ \A v \in WorkerSet : t.wk[v].st = s.wk[v].st
  BY <1>9, <1>10 DEF WkOnly
<1> QED BY <1>5, <1>11, <1>12 DEF Over

SetQueue(s, w, q) == [s EXCEPT !.wk[w].queue = q]
AtAnEnd(q, p, r) == q = Append(p, r) \/ q = <<r>> \o p

\* A request at the front or at the end of the queue of its worker
LEMMA QueueSound ==
  ASSUME NEW s, NEW w \in WorkerSet, NEW r, NEW c0, NEW X,
         Carrying(s, c0, X, r), s.req[r].w = w,
         NEW q, AtAnEnd(q, s.wk[w].queue, r), NEW t, t = SetQueue(s, w, q)
  PROVE  /\ Sound(t, c0, X) /\ Rel(s, t, NULL, {r}) /\ OpenKept(s, t)
         /\ t.conn = s.conn /\ t.req = s.req /\ t.wk[w].st = s.wk[w].st
<1>1. s \in State /\ Pools(s) /\ r \in Requests
  BY DEF Sound, Carrying, Holding
<1>2. PICK k : k = s.wk[w] /\ Pool(w, k) /\ k.queue \in Lists(Requests) /\ r \notin Range(k.queue)
  BY <1>1 DEF Pools, Pool, Placed, Queued, Carrying, Holding
<1>3. q \in Lists(Requests) /\ Range(q) = Range(k.queue) \cup {r}
  <2>1. CASE q = Append(k.queue, r)
    BY <2>1, <1>1, <1>2, AppendList
  <2>2. CASE q = <<r>> \o k.queue
    BY <2>2, <1>1, <1>2, ConsList
  <2> QED BY <2>1, <2>2, <1>2 DEF AtAnEnd
<1>4. PICK j : j = WithQueue(k, q) /\ t = [s EXCEPT !.wk[w] = j]
  BY <1>2 DEF SetQueue, WithQueue
<1>5. Pool(w, j) /\ j.conns = k.conns /\ j.free = k.free /\ j.queue = q /\ j.st = k.st
  BY <1>2, <1>3, <1>4, PoolQueue
<1>6. WkOnly(s, t, w, j)
  BY <1>1, <1>4, <1>5, WkSet DEF Pool
<1>7. /\ j.conns = s.wk[w].conns /\ j.free = s.wk[w].free
      /\ j.st = s.wk[w].st /\ Range(j.queue) = Range(s.wk[w].queue) \cup {r}
  BY <1>2, <1>3, <1>5
<1>8. Sound(t, c0, X) /\ Rel(s, t, NULL, {r}) /\ OpenKept(s, t)
  <2>1. Entering(s, t, w, r)
    <3>1. t.wk[w] = j
      BY <1>6 DEF WkOnly
    <3> QED BY <3>1, <1>5, <1>6, <1>7 DEF Entering, QueueOnly
  <2> QED BY <2>1, EnqueueSound
<1> QED BY <1>6, <1>7, <1>8 DEF WkOnly

(***************************************************************************)
(* The load balancer's choice and the connector's flags.                   *)
(***************************************************************************)
\* A set of natural numbers has a least one.
LEMMA LeastNat ==
  ASSUME NEW T, T \subseteq Nat, T # {}
  PROVE  \E n \in T : \A m \in T : n <= m
<1>1. PICK n \in T : \A m \in T : ~ (<<m, n>> \in OpToRel(<, Nat))
  BY NatLessThanWellFounded, WFMin
<1>2. \A m \in T : ~(m < n)
  BY <1>1 DEF OpToRel
<1> QED BY <1>2

\* A set with zero and the successors of its members has all numbers.
LEMMA AllNat ==
  ASSUME NEW T, T \subseteq Nat, 0 \in T, \A n \in T : n + 1 \in T
  PROVE  T = Nat
<1> SUFFICES ASSUME Nat \ T # {} PROVE FALSE
  OBVIOUS
<1>1. PICK n \in Nat \ T : \A m \in Nat \ T : n <= m
  BY LeastNat
<1>2. n # 0 /\ n \in Nat
  BY <1>1
<1>3. n - 1 \in Nat /\ (n - 1) + 1 = n /\ ~(n <= n - 1)
  BY <1>2
<1>4. n - 1 \in T
  BY <1>1, <1>3
<1> QED BY <1>1, <1>3, <1>4

\* The balancer's loop ends with a worker or with none.
LEMMA SelectWorkerPicks ==
  ASSUME NEW s, NEW r
  PROVE  \E v \in WorkerSet \cup {NULL} :
           SelectWorker(s, r) = [s EXCEPT !.req[r].w = v,
                                          !.req[r].track = IF v = NULL THEN @ ELSE @ \cup {v}]
<1> DEFINE N == Len(Workers)
           S == WorkerSet \cup {NULL}
           Better(n, v) == Workers[n] \notin s.req[r].track
                             /\ (v = NULL \/ WorkerLoadLess(s, Workers[n], v))
           Turn(n, v) == IF Better(n, v) THEN Workers[n] ELSE v
           Loop(f) == f = [n \in 0 .. N |-> IF n = 0 THEN NULL ELSE Turn(n, f[n - 1])]
           pick == CHOOSE f : Loop(f)
<1>1. SelectWorker(s, r) = [s EXCEPT !.req[r].w = pick[N],
              !.req[r].track = IF pick[N] = NULL THEN @ ELSE @ \cup {pick[N]}]
  BY DEF SelectWorker
<1>2. N \in Nat /\ \A n \in 1 .. N : Workers[n] \in WorkerSet
  BY ExtWorkerAssumption
<1>3. \A n \in 1 .. N, v \in S : Turn(n, v) \in S
  BY <1>2
<1> HIDE DEF Better, N, S, Turn
<1>4. \E f : Loop(f)
  <2> DEFINE Part(n, f) == /\ f \in [0 .. n -> S] /\ f[0] = NULL
                           /\ \A i \in 1 .. n : f[i] = Turn(i, f[i - 1])
             T == {n \in Nat : n <= N => \E f : Part(n, f)}
  <2>1. 0 \in T
    <3>1. Part(0, [i \in 0 .. 0 |-> NULL])
      BY DEF S
    <3> QED BY <3>1
  <2>2. ASSUME NEW n \in T PROVE n + 1 \in T
    <3>1. n \in Nat /\ n + 1 \in Nat
      OBVIOUS
    <3>2. CASE n + 1 <= N
      <4>1. PICK f : Part(n, f)
        BY <3>1, <3>2, <1>2
      <4>2. f[n] \in S
        BY <3>1, <4>1
      <4>3. Turn(n + 1, f[n]) \in S
        <5>1. n + 1 \in 1 .. N
          BY <3>1, <3>2, <1>2
        <5> QED BY <5>1, <4>2, <1>3
      <4> DEFINE g == [i \in 0 .. n + 1 |-> IF i = n + 1 THEN Turn(n + 1, f[n]) ELSE f[i]]
      <4>4. g \in [0 .. n + 1 -> S]
        BY <3>1, <4>1, <4>3
      <4>5. g[0] = NULL
        BY <3>1, <4>1
      <4>6. \A i \in 1 .. n + 1 : g[i] = Turn(i, g[i - 1])
        <5> TAKE i \in 1 .. n + 1
        <5>1. i \in 0 .. n + 1 /\ i - 1 \in 0 .. n + 1 /\ i - 1 # n + 1
          BY <3>1
        <5>2. g[i - 1] = f[i - 1]
          BY <5>1
        <5>3. CASE i = n + 1
          <6>1. g[i] = Turn(n + 1, f[n]) /\ i - 1 = n
            BY <5>1, <5>3, <3>1
          <6> QED BY <5>2, <5>3, <6>1
        <5>4. CASE i # n + 1
          <6>1. i \in 1 .. n
            BY <5>4, <3>1
          <6>2. g[i] = f[i] /\ f[i] = Turn(i, f[i - 1])
            BY <6>1, <5>1, <5>4, <4>1
          <6> QED BY <6>2, <5>2
        <5> QED BY <5>3, <5>4
      <4>7. Part(n + 1, g)
        BY <4>4, <4>5, <4>6
      <4> QED BY <4>7, <3>1
    <3>3. CASE ~(n + 1 <= N)
      BY <3>1, <3>3
    <3> QED BY <3>2, <3>3
  <2>3. T = Nat
    <3> HIDE DEF Part
    <3>1. T \subseteq Nat
      OBVIOUS
    <3> HIDE DEF T
    <3> QED BY <2>1, <2>2, <3>1, AllNat
  <2>4. PICK f : Part(N, f)
    BY <2>3, <1>2
  <2>5. \A n \in 0 .. N : f[n] = IF n = 0 THEN NULL ELSE Turn(n, f[n - 1])
    BY <2>4, <1>2
  <2>6. Loop(f)
    BY <2>4, <2>5
  <2> QED BY <2>6
<1>5. Loop(pick)
  <2> HIDE DEF Loop
  <2> QED BY <1>4
<1>6. \A n \in 0 .. N : pick[n] = IF n = 0 THEN NULL ELSE Turn(n, pick[n - 1])
  <2> HIDE DEF pick
  <2> QED BY <1>5
<1> HIDE DEF pick
<1>7. pick[N] \in S
  <2> DEFINE T == {n \in Nat : n <= N => pick[n] \in S}
  <2>1. 0 \in T
    BY <1>2, <1>6 DEF S
  <2>2. ASSUME NEW n \in T PROVE n + 1 \in T
    <3>1. n \in Nat /\ n + 1 \in Nat
      OBVIOUS
    <3>2. CASE n + 1 <= N
      <4>1. n \in 0 .. N /\ n + 1 \in 1 .. N /\ n + 1 \in 0 .. N /\ (n + 1) - 1 = n /\ n + 1 # 0
        BY <3>1, <3>2, <1>2
      <4>2. pick[n] \in S
        BY <4>1, <3>1
      <4>3. pick[n + 1] = Turn(n + 1, pick[n])
        BY <4>1, <1>6
      <4> QED BY <4>1, <4>2, <4>3, <3>1, <1>3
    <3>3. CASE ~(n + 1 <= N)
      BY <3>1, <3>3
    <3> QED BY <3>2, <3>3
  <2>3. T = Nat
    <3>1. T \subseteq Nat
      OBVIOUS
    <3> HIDE DEF T
    <3> QED BY <2>1, <2>2, <3>1, AllNat
  <2> QED BY <2>3, <1>2
<1> QED BY <1>1, <1>7 DEF S

\* Another value of a request that keeps its place
LEMMA PlacedReqSound ==
  ASSUME NEW s, NEW t, NEW r \in Requests, NEW x, NEW c0, NEW X, Sound(s, c0, X), Placed(s, r),
         ReqOnly(s, t, r, x), x.proc = s.req[r].proc, x.w = s.req[r].w, Underway(t, r)
  PROVE  Sound(t, c0, X) /\ Rel(s, t, NULL, {}) /\ OpenKept(s, t) /\ Placed(t, r)
<1>1. t \in State /\ t.wk = s.wk /\ t.conn = s.conn /\ t.req[r] = x
  BY DEF ReqOnly
<1>2. \A q \in Requests \ {r} : t.req[q] = s.req[q]
  BY DEF ReqOnly
<1>3. \A q \in Requests : t.req[q].proc = s.req[q].proc /\ t.req[q].w = s.req[q].w
  BY <1>1, <1>2
<1>4. Linked(t, c0)
  BY <1>1, <1>3, SameLinks DEF Sound
<1>5. Pools(t)
  BY <1>1 DEF Sound, Pools
<1>6. \A w \in WorkerSet : Queued(t, w) = Queued(s, w) /\ Queued(s, w) \subseteq Requests
  <2>1. \A w \in WorkerSet : s.wk[w].queue \in Seq(Requests)
    BY StateTypes DEF Sound, WorkerRec
  <2> QED BY <2>1, <1>1, RangeFacts DEF Queued
<1>7. \A q \in Requests : Underway(s, q) => Underway(t, q)
  BY <1>2 DEF Underway
<1>8. Places(t)
  <2>1. \A w \in WorkerSet : \A q \in Queued(t, w) :
          Underway(t, q) /\ t.req[q].w = w /\ t.req[q].proc = NULL
    <3> TAKE w \in WorkerSet
    <3> TAKE q \in Queued(t, w)
    <3>1. q \in Requests /\ q \in Queued(s, w)
      BY <1>6
    <3>2. Underway(s, q) /\ s.req[q].w = w /\ s.req[q].proc = NULL
      BY <3>1 DEF Sound, Places
    <3> QED BY <3>1, <3>2, <1>3, <1>7
  <2>2. \A q \in Requests : t.req[q].proc # NULL => Underway(t, q) /\ t.req[q].w = t.req[q].proc[1]
    BY <1>3, <1>7 DEF Sound, Places
  <2> QED BY <2>1, <2>2 DEF Places
<1>9. \A q \in Requests : Placed(t, q) <=> Placed(s, q)
  BY <1>3, <1>6 DEF Placed
<1>10. NoneLost(t, X)
  <2> SUFFICES ASSUME NEW q \in Requests \ X, t.req[q].live, ~Over(t, q) PROVE Placed(t, q)
    BY DEF NoneLost
  <2>1. CASE q = r
    BY <2>1, <1>9
  <2>2. CASE q # r
    <3>1. s.req[q].live /\ ~Over(s, q)
      BY <2>2, <1>2 DEF Over
    <3> QED BY <3>1, <1>9 DEF Sound, NoneLost
  <2> QED BY <2>1, <2>2
<1>11. Rel(s, t, NULL, {})
  BY <1>1, <1>2, <1>9 DEF Rel, Barred, Spared
<1>12. OpenKept(s, t)
  BY <1>1 DEF Opened, OpenKept
<1> QED BY <1>1, <1>4, <1>5, <1>8, <1>9, <1>10, <1>11, <1>12 DEF Sound

\* t is s with another value of request r that keeps what x and y agree on.
Retagged(s, t, r) ==
  /\ ReqOnly(s, t, r, t.req[r])
  /\ t.req[r].live = s.req[r].live /\ t.req[r].alive = s.req[r].alive
  /\ t.req[r].proc = s.req[r].proc

\* incAttempts and the reset of the connector
LEMMA RetryEffect ==
  ASSUME NEW s \in State, NEW r \in Requests, NEW t, t = ResetConnector(IncAttempts(s, r), r)
  PROVE  /\ Retagged(s, t, r) /\ t.req[r].w = s.req[r].w
         /\ ~t.req[r].err /\ ~t.req[r].abort /\ ~t.req[r].complete
<1>0. MaxAttempts \in Nat
  BY ExtWorkerAssumption DEF MaxAttempts
<1>1. PICK a : a = IF s.req[r].att = MaxAttempts + 2 THEN MaxAttempts ELSE s.req[r].att + 1
  OBVIOUS
<1>2. s.req[r] \in ReqRec
  BY StateTypes
<1>3. a \in 0 .. MaxAttempts + 2
  <2>1. s.req[r].att \in 0 .. MaxAttempts + 2
    BY <1>2 DEF ReqRec
  <2> QED BY <2>1, <1>0, <1>1
<1> DEFINE x == [s.req[r] EXCEPT !.att = a, !.hdr = FALSE, !.abort = FALSE,
                                 !.err = FALSE, !.complete = FALSE]
<1>4. /\ x \in ReqRec /\ x.live = s.req[r].live /\ x.alive = s.req[r].alive
      /\ x.proc = s.req[r].proc /\ x.w = s.req[r].w
      /\ x.err = FALSE /\ x.abort = FALSE /\ x.complete = FALSE
  BY <1>2, <1>3 DEF ReqRec
<1>5. t = [s EXCEPT !.req[r] = x]
  BY <1>1, <1>2 DEF ResetConnector, IncAttempts, State, ReqRec
<1> HIDE DEF x
<1>6. ReqOnly(s, t, r, x)
  BY <1>4, <1>5, ReqSet
<1>7. t.req[r] = x
  BY <1>6 DEF ReqOnly
<1> QED BY <1>4, <1>6, <1>7 DEF Retagged

LEMMA ErrEffect ==
  ASSUME NEW s \in State, NEW r \in Requests, NEW t, t = ErrResponse(s, r)
  PROVE  Retagged(s, t, r) /\ t.req[r].err
<1>2. s.req[r] \in ReqRec
  BY StateTypes
<1> DEFINE x == [s.req[r] EXCEPT !.err = TRUE]
<1>4. /\ x \in ReqRec /\ x.live = s.req[r].live /\ x.alive = s.req[r].alive
      /\ x.proc = s.req[r].proc /\ x.err = TRUE
  BY <1>2 DEF ReqRec
<1>5. t = [s EXCEPT !.req[r] = x]
  BY <1>2 DEF ErrResponse, State, ReqRec
<1> HIDE DEF x
<1>6. ReqOnly(s, t, r, x)
  BY <1>4, <1>5, ReqSet
<1>7. t.req[r] = x
  BY <1>6 DEF ReqOnly
<1> QED BY <1>4, <1>6, <1>7 DEF Retagged

LEMMA SelectEffect ==
  ASSUME NEW s \in State, NEW r \in Requests, NEW t, t = SelectWorker(s, r)
  PROVE  /\ Retagged(s, t, r) /\ t.req[r].w \in WorkerSet \cup {NULL}
         /\ Underway(s, r) => Underway(t, r)
<1>1. PICK v \in WorkerSet \cup {NULL} :
        t = [s EXCEPT !.req[r].w = v, !.req[r].track = IF v = NULL THEN @ ELSE @ \cup {v}]
  BY SelectWorkerPicks
<1>2. s.req[r] \in ReqRec
  BY StateTypes
<1> DEFINE y == IF v = NULL THEN s.req[r].track ELSE s.req[r].track \cup {v}
           x == [s.req[r] EXCEPT !.w = v, !.track = y]
<1>3. y \in SUBSET WorkerSet
  BY <1>2 DEF ReqRec
<1> HIDE DEF y
<1>4. /\ x \in ReqRec /\ x.live = s.req[r].live /\ x.alive = s.req[r].alive
      /\ x.proc = s.req[r].proc /\ x.w = v
      /\ x.err = s.req[r].err /\ x.abort = s.req[r].abort /\ x.complete = s.req[r].complete
  BY <1>2, <1>3 DEF ReqRec
<1>5. t = [s EXCEPT !.req[r] = x]
  BY <1>1, <1>2 DEF State, ReqRec, y
<1> HIDE DEF x
<1>6. ReqOnly(s, t, r, x)
  BY <1>4, <1>5, ReqSet
<1>7. t.req[r] = x
  BY <1>6 DEF ReqOnly
<1> QED BY <1>4, <1>6, <1>7 DEF Retagged, Underway

\* A request in hand with other flags
LEMMA RetaggedSound ==
  ASSUME NEW s, NEW t, NEW r, NEW c0, NEW X, Holding(s, c0, X, r), Retagged(s, t, r)
  PROVE  /\ Holding(t, c0, X, r) /\ (Over(t, r) => Sound(t, c0, X))
         /\ Rel(s, t, NULL, {r}) /\ OpenKept(s, t) /\ t.conn = s.conn /\ t.wk = s.wk
<1>1. PICK x : x = t.req[r] /\ ReqOnly(s, t, r, x) /\ x.proc = NULL
  BY DEF Retagged, Holding, Placed
<1>2. /\ Holding(t, c0, X, r) /\ (Over(t, r) => Sound(t, c0, X))
      /\ Rel(s, t, NULL, {r}) /\ OpenKept(s, t)
  BY <1>1, ReqSound
<1> QED BY <1>1, <1>2 DEF ReqOnly

LEMMA AddRequestEffect ==
  ASSUME NEW s \in State, NEW c \in Conns, NEW r \in Requests, NEW t, t = AddRequest(s, c, r)
  PROVE  /\ PairOnly(s, t, c, r) /\ t.conn[c].req = r /\ t.req[r].proc = c
         /\ t.req[r].w = s.req[r].w /\ t.conn[c].st = s.conn[c].st
         /\ t.req[r].alive = s.req[r].alive /\ (Underway(s, r) => Underway(t, r))
<1>1. s.req[r] \in ReqRec /\ s.conn[c] \in ConnRec
  BY StateTypes
<1> DEFINE x == [s.req[r] EXCEPT !.proc = c]
           y == [s.conn[c] EXCEPT !.req = r, !.sent = "no"]
<1>2. /\ x \in ReqRec /\ x.proc = c /\ x.w = s.req[r].w /\ x.alive = s.req[r].alive
      /\ x.live = s.req[r].live /\ x.err = s.req[r].err /\ x.abort = s.req[r].abort
      /\ x.complete = s.req[r].complete
  BY <1>1 DEF ReqRec
<1>3. y \in ConnRec /\ y.req = r /\ y.st = s.conn[c].st
  BY <1>1 DEF ConnRec
<1>4. t = [[s EXCEPT !.req[r] = x] EXCEPT !.conn[c] = y]
  BY <1>1 DEF AddRequest, State
<1> HIDE DEF x, y
<1>5. PICK u : u = [s EXCEPT !.req[r] = x] /\ ReqOnly(s, u, r, x)
  BY <1>2, ReqSet
<1>6. ConnOnly(u, t, c, y)
  BY <1>3, <1>4, <1>5, ConnSet DEF ReqOnly
<1>7. PairOnly(s, t, c, r) /\ t.conn[c] = y /\ t.req[r] = x
  BY <1>5, <1>6 DEF ReqOnly, ConnOnly, PairOnly
<1> QED BY <1>2, <1>3, <1>7 DEF Underway

LEMMA RemoveRequestEffect ==
  ASSUME NEW s \in State, NEW c \in Conns, NEW r \in Requests, s.conn[c].req = r,
         NEW t, t = RemoveRequest(s, c)
  PROVE  /\ PairOnly(s, t, c, r) /\ t.conn[c].req = NULL /\ t.req[r].proc = NULL
         /\ t.req[r].w = s.req[r].w /\ t.conn[c].st = s.conn[c].st
         /\ (Underway(s, r) => Underway(t, r))
<1>1. s.req[r] \in ReqRec /\ s.conn[c] \in ConnRec /\ NULL \notin Requests
  BY StateTypes, ExtWorkerAssumption
<1> DEFINE x == [s.req[r] EXCEPT !.proc = NULL]
           y == [s.conn[c] EXCEPT !.req = NULL]
<1>2. /\ x \in ReqRec /\ x.proc = NULL /\ x.w = s.req[r].w
      /\ x.live = s.req[r].live /\ x.err = s.req[r].err /\ x.abort = s.req[r].abort
      /\ x.complete = s.req[r].complete
  BY <1>1 DEF ReqRec
<1>3. y \in ConnRec /\ y.req = NULL /\ y.st = s.conn[c].st
  BY <1>1 DEF ConnRec
<1>4. t = [[s EXCEPT !.req[r] = x] EXCEPT !.conn[c] = y]
  BY <1>1 DEF RemoveRequest, State
<1> HIDE DEF x, y
<1>5. PICK u : u = [s EXCEPT !.req[r] = x] /\ ReqOnly(s, u, r, x)
  BY <1>2, ReqSet
<1>6. ConnOnly(u, t, c, y)
  BY <1>3, <1>4, <1>5, ConnSet DEF ReqOnly
<1>7. PairOnly(s, t, c, r) /\ t.conn[c] = y /\ t.req[r] = x
  BY <1>5, <1>6 DEF ReqOnly, ConnOnly, PairOnly
<1> QED BY <1>2, <1>3, <1>7 DEF Underway

LEMMA QuietTrans ==
  ASSUME NEW s, NEW t, NEW u, Quiet(s, t), Quiet(t, u) PROVE Quiet(s, u)
BY DEF Quiet

\* The pool without its free connections, which are closed
LEMMA ClearSound ==
  ASSUME NEW s, NEW w \in WorkerSet, NEW X, Sound(s, NULL, X), NEW t, t = ClearConnPool(s, w)
  PROVE  /\ Sound(t, NULL, X) /\ Quiet(s, t)
         /\ \A v \in WorkerSet : t.wk[v].st = s.wk[v].st
<1>1. s \in State /\ Pools(s) /\ Linked(s, NULL) /\ NULL \notin Conns
  BY ExtWorkerAssumption DEF Sound
<1>2. PICK k : k = s.wk[w] /\ Pool(w, k)
  BY <1>1 DEF Pools
<1>3. PICK j : j = Emptied(k)
  OBVIOUS
<1>4. /\ Pool(w, j) /\ j.conns = k.conns \ Range(k.free) /\ Range(j.free) = {}
      /\ j.queue = k.queue /\ j.st = k.st
  BY <1>2, <1>3, PoolClear
<1> DEFINE cn == [c \in Conns |-> IF c \in Range(s.wk[w].free)
                                  THEN [s.conn[c] EXCEPT !.st = "DISCONNECTED"]
                                  ELSE s.conn[c]]
<1>5. \A c \in Conns : /\ cn[c] \in ConnRec /\ cn[c].req = s.conn[c].req
                       /\ cn[c].st = IF c \in Range(k.free) THEN "DISCONNECTED" ELSE s.conn[c].st
  <2> TAKE c \in Conns
  <2>1. s.conn[c] \in ConnRec
    BY <1>1, StateTypes
  <2> QED BY <2>1, <1>2 DEF ConnRec
<1>6. cn \in [Conns -> ConnRec]
  BY <1>5
<1>7. t = [s EXCEPT !.wk[w] = j, !.conn = cn]
  BY <1>2, <1>3 DEF ClearConnPool, Emptied
<1> HIDE DEF cn
<1>8. j \in WorkerRec
  BY <1>4 DEF Pool
<1>9. /\ t \in State /\ t.conn = cn /\ t.req = s.req /\ t.wk[w] = j
      /\ \A v \in WorkerSet \ {w} : t.wk[v] = s.wk[v]
  BY ZenonT(40), <1>1, <1>6, <1>7, <1>8 DEF State
<1>10. \A v \in WorkerSet : Queued(t, v) = Queued(s, v) /\ t.wk[v].st = s.wk[v].st
  BY <1>2, <1>4, <1>9 DEF Queued
<1>11. \A c \in Conns : c \in Range(k.free) => s.conn[c].req = NULL
  <2>1. Range(k.free) \subseteq k.conns /\ \A c \in k.conns : c[1] = w
    BY <1>2, PoolConns DEF Pool
  <2> QED BY <2>1, <1>1, <1>2 DEF Linked
<1>12. Quiet(s, t)
  <2>1. \A c \in Conns :
          /\ t.conn[c].req = s.conn[c].req
          /\ t.conn[c].st = s.conn[c].st \/ (s.conn[c].req = NULL /\ t.conn[c].st # "PROCESSING")
    BY <1>5, <1>9, <1>11
  <2> QED BY <2>1, <1>9, <1>10 DEF Quiet
<1>13. Pools(t)
  BY <1>1, <1>4, <1>9 DEF Pools
<1>14. Linked(t, NULL)
  <2>1. \A d \in Conns : t.conn[d].req = s.conn[d].req
    BY <1>5, <1>9
  <2>2. \A d \in Conns : d[1] # w => t.wk[d[1]] = s.wk[d[1]]
    BY <1>9, ConnOwner
  <2>3. \A d \in Conns : t.conn[d].req # NULL => d \in t.wk[d[1]].conns
    <3> TAKE d \in Conns
    <3>1. CASE d[1] = w
      BY <3>1, <2>1, <1>1, <1>2, <1>4, <1>9, <1>11 DEF Linked
    <3>2. CASE d[1] # w
      BY <3>2, <2>1, <2>2, <1>1 DEF Linked
    <3> QED BY <3>1, <3>2
  <2>4. \A d \in Conns : d \in t.wk[d[1]].conns =>
          (t.conn[d].req = NULL <=> d \in Range(t.wk[d[1]].free))
    <3> TAKE d \in Conns
    <3>2. CASE d[1] = w
      BY <3>2, <2>1, <1>1, <1>2, <1>4, <1>9 DEF Linked
    <3>3. CASE d[1] # w
      BY <3>3, <2>1, <2>2, <1>1 DEF Linked
    <3> QED BY <3>2, <3>3
  <2>5. \A d \in Conns, r \in Requests : t.conn[d].req = r <=> t.req[r].proc = d
    BY <2>1, <1>1, <1>9 DEF Linked
  <2> QED BY <2>3, <2>4, <2>5 DEF Linked
<1>15. Sound(t, NULL, X)
  BY <1>12, <1>13, <1>14, QuietSound
<1> QED BY <1>10, <1>12, <1>15

LEMMA DecSound ==
  ASSUME NEW s, NEW w \in WorkerSet, NEW X, Sound(s, NULL, X), NEW t, t = DecMaxConn(s, w)
  PROVE  Sound(t, NULL, X) /\ Quiet(s, t) /\ BadKept(s, t)
<1> DEFINE k == s.wk[w]
<1>0. s \in State /\ Pool(w, k) /\ MaxConns[w] \in Nat
  BY ExtWorkerAssumption DEF Sound, Pools
<1>1. CASE k.max > Cardinality(k.conns)
  <2>1. PICK max : max = k.max - 1
    OBVIOUS
  <2>2. /\ max \in 0 .. MaxConns[w] /\ Cardinality(s.wk[w].conns) <= max
        /\ s.wk[w].st \in {"NOTSTARTED", "BAD", "GOOD"} /\ (s.wk[w].st = "BAD" => Retry[w])
    BY SMTT(30), <1>0, <1>1, <2>1 DEF Pool, WorkerRec
  <2>3. t = [s EXCEPT !.wk[w] = Limited(s.wk[w], s.wk[w].st, max)]
    BY <1>0, <1>1, <2>1 DEF DecMaxConn, Limited, State, Pool, WorkerRec
  <2>4. /\ Sound(t, NULL, X) /\ Quiet(s, t) /\ t.wk[w].st = s.wk[w].st
        /\ \A v \in WorkerSet \ {w} : t.wk[v] = s.wk[v]
    BY <2>2, <2>3, LimitSound
  <2> QED BY <2>4 DEF BadKept
<1>2. CASE ~(k.max > Cardinality(k.conns))
  <2>1. t = s
    BY <1>2 DEF DecMaxConn
  <2> QED BY <1>0, <2>1 DEF Quiet, BadKept
<1> QED BY <1>1, <1>2

LEMMA PenaltySound ==
  ASSUME NEW s, NEW w \in WorkerSet, NEW X, Sound(s, NULL, X), NEW error,
         NEW u \in Penalty(s, w, error)
  PROVE  Sound(u, NULL, X) /\ Quiet(s, u) /\ BadKept(s, u)
<1> DEFINE Fine(t) == Sound(t, NULL, X) /\ Quiet(s, t) /\ BadKept(s, t)
<1>0. s \in State /\ Pool(w, s.wk[w]) /\ MaxConns[w] \in Nat
  BY ExtWorkerAssumption DEF Sound, Pools
<1>1. Fine(s)
  BY <1>0 DEF Quiet, BadKept
<1>2. PICK dec : dec = DecMaxConn(s, w) /\ Fine(dec)
  BY DecSound
<1>3. PICK cleared : cleared = ClearConnPool(dec, w) /\ Fine(cleared)
  <2>1. PICK cleared : cleared = ClearConnPool(dec, w)
    OBVIOUS
  <2>2. /\ Sound(cleared, NULL, X) /\ Quiet(dec, cleared)
        /\ \A v \in WorkerSet : cleared.wk[v].st = dec.wk[v].st
    BY <1>2, <2>1, ClearSound
  <2>3. Quiet(s, cleared)
    BY <1>2, <2>2, QuietTrans
  <2>4. BadKept(s, cleared)
    BY <1>2, <2>2 DEF BadKept
  <2> QED BY <2>1, <2>2, <2>3, <2>4
<1>4. ASSUME NEW t, Fine(t) PROVE Fine(Start(t, w))
  <2>1. Sound(Start(t, w), NULL, X) /\ Quiet(t, Start(t, w)) /\ BadKept(t, Start(t, w))
    BY <1>4, StartSound
  <2>2. Quiet(s, Start(t, w)) /\ BadKept(s, Start(t, w))
    BY <1>4, <2>1, QuietTrans DEF BadKept
  <2> QED BY <2>1, <2>2
<1>5. PICK t \in {s, dec, Start(cleared, w), Start(dec, w)} :
        u = IF t.wk[w].max # 0 THEN t
            ELSE [t EXCEPT !.wk[w].st = IF Retry[w] THEN "BAD" ELSE "NOTSTARTED"]
  BY <1>2, <1>3 DEF Penalty
<1>6. Fine(t)
  BY <1>1, <1>2, <1>3, <1>4, <1>5
<1>7. CASE t.wk[w].max # 0
  BY <1>5, <1>6, <1>7
<1>8. CASE t.wk[w].max = 0
  <2>1. PICK st : st = IF Retry[w] THEN "BAD" ELSE "NOTSTARTED"
    OBVIOUS
  <2>2. t \in State /\ Pool(w, t.wk[w])
    BY <1>6 DEF Sound, Pools
  <2>3. /\ st \in {"NOTSTARTED", "BAD", "GOOD"} /\ (st = "BAD" => Retry[w])
        /\ t.wk[w].max \in 0 .. MaxConns[w] /\ Cardinality(t.wk[w].conns) <= t.wk[w].max
    BY <2>1, <2>2, ExtWorkerAssumption DEF Pool
  <2>4. u = [t EXCEPT !.wk[w] = Limited(t.wk[w], st, t.wk[w].max)]
    BY <1>5, <1>8, <2>1, <2>2 DEF Limited, State, Pool, WorkerRec
  <2>5. /\ Sound(u, NULL, X) /\ Quiet(t, u) /\ u.wk[w].st = st
        /\ \A v \in WorkerSet \ {w} : u.wk[v] = t.wk[v]
    BY <1>6, <2>3, <2>4, LimitSound
  <2>6. BadKept(s, u)
    <3>1. s.wk[w].st = "BAD" => st = "BAD"
      BY <1>0, <2>1 DEF Pool
    <3> QED BY <1>6, <2>5, <3>1 DEF BadKept
  <2> QED BY <1>6, <2>5, <2>6, QuietTrans
<1> QED BY <1>7, <1>8

(***************************************************************************)
(* The contract of the calls that lead back to themselves.                 *)
(***************************************************************************)
\* Connection c and request r are in hand, to be brought together.
Offered(s, c, X, r) == Carrying(s, c, X, r) /\ Opened(s, NULL) /\ s.req[r].w = c[1]

\* Request r is placed or answered; unless the result is 0, c was given up.
Assigned(s, o, c, X, r) ==
  /\ Ready(o.s, NULL, X) /\ o.ret \in {-1, 0, 1}
  /\ o.ret # 0 => o.s.conn[c].req = NULL
  /\ Rel(s, o.s, c[1], {r})

Served(s, t, w, X) == Ready(t, NULL, X) /\ Rel(s, t, w, {})

\* The request of c is placed or answered; unless the result is 0, c has none.
Errored(s, o, c, X) ==
  /\ Ready(o.s, NULL, X) /\ o.ret \in {-1, 0, 1} /\ Rel(s, o.s, NULL, {})
  /\ o.ret # 0 => o.s.conn[c].req = NULL

GoodAssign(F) ==
  \A s, X : \A c \in Conns, r \in Requests :
    Offered(s, c, X, r) => \A o \in F.assign[s][c][r] : Assigned(s, o, c, X, r)

GoodPending(F) ==
  \A s, X : \A w \in WorkerSet, c \in Conns \cup {NULL} :
    Ready(s, c, X) /\ (c # NULL => c[1] = w) => \A t \in F.pending[s][w][c] : Served(s, t, w, X)

GoodRecycle(F) ==
  \A s, X : \A c \in Conns :
    Ready(s, c, X) => \A t \in F.recycle[s][c] : Served(s, t, c[1], X)

GoodFail(F) ==
  \A s, X : \A w \in WorkerSet :
    Ready(s, NULL, X) /\ s.wk[w].st = "BAD" => \A t \in F.fail[s][w] : Served(s, t, NULL, X)

GoodError(F) ==
  \A s, X : \A c \in Conns, x \in WriteErrors :
    Sound(s, NULL, X) /\ Opened(s, c) => \A o \in F.error[s][c][x] : Errored(s, o, c, X)

Good(F) ==
  GoodAssign(F) /\ GoodPending(F) /\ GoodRecycle(F) /\ GoodFail(F) /\ GoodError(F)

LEMMA NoCallsGood == Good(NoCalls)
<1>1. GoodAssign(NoCalls)
  <2> SUFFICES ASSUME NEW s \in State, NEW c \in Conns, NEW r \in Requests
               PROVE  NoCalls.assign[s][c][r] = {}
    BY DEF GoodAssign, Offered, Carrying, Holding, Sound
  <2> QED BY DEF NoCalls
<1>2. GoodPending(NoCalls)
  <2> SUFFICES ASSUME NEW s \in State, NEW w \in WorkerSet, NEW c \in Conns \cup {NULL}
               PROVE  NoCalls.pending[s][w][c] = {}
    BY DEF GoodPending, Ready, Sound
  <2> QED BY DEF NoCalls
<1>3. GoodRecycle(NoCalls)
  <2> SUFFICES ASSUME NEW s \in State, NEW c \in Conns PROVE NoCalls.recycle[s][c] = {}
    BY DEF GoodRecycle, Ready, Sound
  <2> QED BY DEF NoCalls
<1>4. GoodFail(NoCalls)
  <2> SUFFICES ASSUME NEW s \in State, NEW w \in WorkerSet PROVE NoCalls.fail[s][w] = {}
    BY DEF GoodFail, Ready, Sound
  <2> QED BY DEF NoCalls
<1>5. GoodError(NoCalls)
  <2> SUFFICES ASSUME NEW s \in State, NEW c \in Conns, NEW x \in WriteErrors
               PROVE  NoCalls.error[s][c][x] = {}
    BY DEF GoodError, Sound
  <2> QED BY DEF NoCalls
<1> QED BY <1>1, <1>2, <1>3, <1>4, <1>5 DEF Good

LEMMA CallsDefined ==
  \A d \in 0 .. MaxDepth : Calls[d] = IF d = 0 THEN NoCalls ELSE CallsAbove(Calls[d - 1])
<1> DEFINE N == MaxDepth
           Loop(f) == f = [n \in 0 .. N |-> IF n = 0 THEN NoCalls ELSE CallsAbove(f[n - 1])]
<1>1. N \in Nat
  BY ExtWorkerAssumption
<1>2. Calls = CHOOSE f : Loop(f)
  BY DEF Calls
<1> HIDE DEF N
<1>4. \E f : Loop(f)
  <2> DEFINE Part(n, f) == /\ f = [i \in 0 .. n |-> f[i]] /\ f[0] = NoCalls
                           /\ \A i \in 1 .. n : f[i] = CallsAbove(f[i - 1])
             T == {n \in Nat : \E f : Part(n, f)}
  <2>1. 0 \in T
    <3>1. Part(0, [i \in 0 .. 0 |-> NoCalls])
      OBVIOUS
    <3> QED BY <3>1
  <2>2. ASSUME NEW n \in T PROVE n + 1 \in T
    <3>1. n \in Nat /\ n + 1 \in Nat
      OBVIOUS
    <3>2. PICK f : Part(n, f)
      OBVIOUS
    <3>3. PICK e : e = CallsAbove(f[n])
      OBVIOUS
    <3>4. PICK g : g = [i \in 0 .. n + 1 |-> IF i = n + 1 THEN e ELSE f[i]]
      OBVIOUS
    <3>5. g = [i \in 0 .. n + 1 |-> g[i]]
      BY <3>4
    <3>6. g[0] = NoCalls
      BY <3>1, <3>2, <3>4
    <3>7. \A i \in 1 .. n + 1 : g[i] = CallsAbove(g[i - 1])
      <4> TAKE i \in 1 .. n + 1
      <4>1. i \in 0 .. n + 1 /\ i - 1 \in 0 .. n + 1 /\ i - 1 # n + 1
        BY <3>1
      <4>2. g[i - 1] = f[i - 1]
        BY <4>1, <3>4
      <4>3. CASE i = n + 1
        <5>1. i - 1 = n
          BY <3>1, <4>3
        <5>2. g[i] = e
          BY <4>1, <4>3, <3>4
        <5> QED BY <4>2, <5>1, <5>2, <3>3
      <4>4. CASE i # n + 1
        <5>1. i \in 1 .. n
          BY <4>4, <3>1
        <5>2. g[i] = f[i] /\ f[i] = CallsAbove(f[i - 1])
          BY <5>1, <4>1, <4>4, <3>2, <3>4
        <5> QED BY <5>2, <4>2
      <4> QED BY <4>3, <4>4
    <3>8. Part(n + 1, g)
      BY <3>5, <3>6, <3>7
    <3> QED BY <3>8, <3>1
  <2>3. T = Nat
    <3> HIDE DEF Part
    <3>1. T \subseteq Nat
      OBVIOUS
    <3> HIDE DEF T
    <3> QED BY <2>1, <2>2, <3>1, AllNat
  <2>4. PICK f : Part(N, f)
    BY <2>3, <1>1
  <2>5. \A n \in 0 .. N : f[n] = IF n = 0 THEN NoCalls ELSE CallsAbove(f[n - 1])
    <3> TAKE n \in 0 .. N
    <3>1. CASE n = 0
      BY <2>4, <3>1
    <3>2. CASE n # 0
      <4>1. n \in 1 .. N
        BY <3>2, <1>1
      <4> QED BY <2>4, <3>2, <4>1
    <3> QED BY <3>1, <3>2
  <2>6. Loop(f)
    BY <2>4, <2>5
  <2> QED BY <2>6
<1>5. Loop(Calls)
  <2> HIDE DEF Loop
  <2> QED BY <1>2, <1>4
<1> QED BY <1>5 DEF N

LEMMA CallsGood ==
  ASSUME \A F : Good(F) => Good(CallsAbove(F))
  PROVE  Good(Nested)
<1> DEFINE T == {d \in Nat : d <= MaxDepth => Good(Calls[d])}
<1>0. MaxDepth \in Nat
  BY ExtWorkerAssumption
<1>1. 0 \in T
  BY <1>0, CallsDefined, NoCallsGood
<1>2. ASSUME NEW d \in T PROVE d + 1 \in T
  <2>1. d \in Nat /\ d + 1 \in Nat
    OBVIOUS
  <2>2. CASE d + 1 <= MaxDepth
    <3>1. d <= MaxDepth /\ d + 1 \in 0 .. MaxDepth /\ d + 1 # 0 /\ (d + 1) - 1 = d
      BY <2>1, <2>2, <1>0
    <3>2. Calls[d + 1] = CallsAbove(Calls[d])
      BY <3>1, CallsDefined
    <3>3. Good(Calls[d])
      BY <3>1
    <3>4. Good(CallsAbove(Calls[d]))
      BY <3>3
    <3> QED BY <2>1, <3>2, <3>4
  <2>3. CASE ~(d + 1 <= MaxDepth)
    BY <2>1, <2>3
  <2> QED BY <2>2, <2>3
<1>3. T = Nat
  <2>1. T \subseteq Nat
    OBVIOUS
  <2> HIDE DEF T
  <2> QED BY <1>1, <1>2, <2>1, AllNat
<1> QED BY <1>0, <1>3 DEF Nested

(***************************************************************************)
(* The same with a request in hand.                                        *)
(***************************************************************************)
LEMMA CarryQuiet ==
  ASSUME NEW s, NEW t, NEW c0, NEW c1, NEW X, NEW r, NEW Y, Carrying(s, c0, X, r), Quiet(s, t),
         Y = X \cup {r}, Sound(t, c1, Y)
  PROVE  Carrying(t, c1, X, r) /\ t.req = s.req
BY QuietPlaced DEF Carrying, Holding, Quiet

LEMMA CarrySound ==
  ASSUME NEW s, NEW c0, NEW X, NEW r, Carrying(s, c0, X, r)
  PROVE  r \in Requests /\ s \in State /\ \E Y : Y = X \cup {r} /\ Sound(s, c0, Y)
BY DEF Carrying, Holding, Sound

LEMMA StartCarry ==
  ASSUME NEW s, NEW w \in WorkerSet, NEW c0, NEW X, NEW r, Carrying(s, c0, X, r),
         NEW t, t = Start(s, w)
  PROVE  /\ Carrying(t, c0, X, r) /\ Quiet(s, t) /\ BadKept(s, t)
         /\ t.conn = s.conn /\ t.req = s.req
<1>1. PICK Y : Y = X \cup {r} /\ Sound(s, c0, Y)
  BY CarrySound
<1>2. Sound(t, c0, Y) /\ Quiet(s, t) /\ BadKept(s, t) /\ t.conn = s.conn
  BY <1>1, StartSound
<1> QED BY <1>1, <1>2, CarryQuiet

LEMMA GetConnCarry ==
  ASSUME NEW s, NEW w \in WorkerSet, NEW X, NEW r, Carrying(s, NULL, X, r),
         NEW t, t = GetConn(s, w).s, NEW c, c = GetConn(s, w).c, c # NULL
  PROVE  /\ c \in Conns /\ c[1] = w /\ Carrying(t, c, X, r) /\ t.req = s.req
         /\ Quiet(s, t) /\ \A v \in WorkerSet : t.wk[v].st = s.wk[v].st
<1>1. PICK Y : Y = X \cup {r} /\ Sound(s, NULL, Y)
  BY CarrySound
<1>2. Got(s, t, w, c, Y)
  BY <1>1, GetConnSound
<1>3. Sound(t, c, Y) /\ Quiet(s, t)
  BY <1>2 DEF Got
<1>4. Carrying(t, c, X, r) /\ t.req = s.req
  BY <1>1, <1>3, CarryQuiet
<1> QED BY <1>2, <1>4 DEF Got

LEMMA RemoveCarry ==
  ASSUME NEW s, NEW c \in Conns, NEW X, NEW r, Carrying(s, c, X, r), s.conn[c].req = NULL,
         NEW t, t = RemoveConn(s, c)
  PROVE  /\ Carrying(t, NULL, X, r) /\ Quiet(s, t) /\ BadKept(s, t)
         /\ t.conn = s.conn /\ t.req = s.req
<1>1. PICK Y : Y = X \cup {r} /\ Sound(s, c, Y)
  BY CarrySound
<1>2. Sound(t, NULL, Y) /\ Quiet(s, t) /\ BadKept(s, t) /\ t.conn = s.conn
  BY <1>1, RemoveConnSound
<1> QED BY <1>1, <1>2, CarryQuiet

LEMMA PenaltyCarry ==
  ASSUME NEW s, NEW w \in WorkerSet, NEW X, NEW r, Carrying(s, NULL, X, r), NEW error,
         NEW u \in Penalty(s, w, error)
  PROVE  Carrying(u, NULL, X, r) /\ Quiet(s, u) /\ BadKept(s, u) /\ u.req = s.req
<1>1. PICK Y : Y = X \cup {r} /\ Sound(s, NULL, Y)
  BY CarrySound
<1>2. Sound(u, NULL, Y) /\ Quiet(s, u) /\ BadKept(s, u)
  BY <1>1, PenaltySound
<1> QED BY <1>1, <1>2, CarryQuiet

LEMMA CloseCarry ==
  ASSUME NEW s, NEW c \in Conns, NEW c0, NEW X, NEW r, Carrying(s, c0, X, r),
         s.conn[c].req = NULL, NEW t, t = Close(s, c)
  PROVE  /\ Carrying(t, c0, X, r) /\ Quiet(s, t) /\ BadKept(s, t) /\ t.req = s.req
         /\ t.conn[c].req = NULL
<1>1. PICK Y : Y = X \cup {r} /\ Sound(s, c0, Y)
  BY CarrySound
<1>2. Sound(t, c0, Y) /\ Quiet(s, t) /\ BadKept(s, t) /\ t.conn[c].req = NULL
  BY <1>1, CloseQuiet
<1> QED BY <1>1, <1>2, CarryQuiet

\* Other flags of a request in hand
LEMMA RetaggedCarry ==
  ASSUME NEW s, NEW t, NEW r, NEW X, Carrying(s, NULL, X, r), Opened(s, NULL),
         Retagged(s, t, r)
  PROVE  /\ Underway(t, r) => Carrying(t, NULL, X, r)
         /\ Over(t, r) => Ready(t, NULL, X)
         /\ Opened(t, NULL) /\ Rel(s, t, NULL, {r}) /\ t.conn = s.conn /\ t.wk = s.wk
<1>1. Holding(s, NULL, X, r)
  BY DEF Carrying
<1>2. /\ Holding(t, NULL, X, r) /\ (Over(t, r) => Sound(t, NULL, X))
      /\ Rel(s, t, NULL, {r}) /\ OpenKept(s, t) /\ t.conn = s.conn /\ t.wk = s.wk
  BY <1>1, RetaggedSound
<1> QED BY <1>2 DEF Carrying, OpenKept, Ready

\* At either end of the queue of its worker
LEMMA QueueCarry ==
  ASSUME NEW s, NEW w \in WorkerSet, NEW r, NEW X,
         Carrying(s, NULL, X, r), s.req[r].w = w, Opened(s, NULL),
         NEW q, AtAnEnd(q, s.wk[w].queue, r), NEW t, t = SetQueue(s, w, q)
  PROVE  /\ Ready(t, NULL, X) /\ Rel(s, t, NULL, {r}) /\ t.conn = s.conn /\ t.req = s.req
         /\ t.wk[w].st = s.wk[w].st
<1>5. /\ Sound(t, NULL, X) /\ Rel(s, t, NULL, {r}) /\ OpenKept(s, t)
      /\ t.conn = s.conn /\ t.req = s.req /\ t.wk[w].st = s.wk[w].st
  BY QueueSound
<1> QED BY <1>5 DEF Ready, OpenKept

LEMMA RelToNull ==
  ASSUME NEW s, NEW t, NEW w \in WorkerSet, NEW R, Rel(s, t, w, R), s.wk[w].st # "BAD"
  PROVE  Rel(s, t, NULL, R)
BY RelWeaker

LEMMA RelFromNull ==
  ASSUME NEW s, NEW t, NEW w, NEW R, Rel(s, t, NULL, R) PROVE Rel(s, t, w, R)
BY RelWeaker

LEMMA RelAdd ==
  ASSUME NEW s, NEW t, NEW w, NEW R, Rel(s, t, w, {}) PROVE Rel(s, t, w, R)
BY RelWeaker

LEMMA RelPlaced ==
  ASSUME NEW s, NEW t, NEW w, NEW r, Rel(s, t, w, {r}), Placed(s, r) PROVE Rel(s, t, w, {})
BY RelWeaker

(***************************************************************************)
(* The operators that are built on the calls.                              *)
(***************************************************************************)
LEMMA FlagsEffect ==
  ASSUME NEW s \in State, NEW r \in Requests, NEW x \in ReqRec, x.live = s.req[r].live,
         x.alive = s.req[r].alive, x.proc = s.req[r].proc, NEW t, t = [s EXCEPT !.req[r] = x]
  PROVE  Retagged(s, t, r) /\ t.req[r] = x
<1>1. ReqOnly(s, t, r, x)
  BY ReqSet
<1>2. t.req[r] = x
  BY <1>1 DEF ReqOnly
<1> QED BY <1>1, <1>2 DEF Retagged

\* releaseProcessor finds nothing to release of a request in nobody's place.
LEMMA ReleaseNothing ==
  ASSUME NEW F, NEW s \in State, Pools(s), NEW r \in Requests, ~Placed(s, r),
         NEW t \in ReleaseProcessor(F, s, r)
  PROVE  t = s
<1>1. s.req[r].proc = NULL
  BY DEF Placed
<1>2. CASE s.req[r].w = NULL
  BY <1>1, <1>2 DEF ReleaseProcessor
<1>3. CASE s.req[r].w # NULL
  <2>1. PICK w \in WorkerSet : w = s.req[r].w
    BY <1>3, StateTypes DEF ReqRec
  <2>2. PICK q : q = s.wk[w].queue /\ q \in Lists(Requests) /\ r \notin Range(q)
    BY DEF Placed, Queued, Pools, Pool
  <2>3. RemoveFirst(q, r) = q
    BY <2>2, RemoveFirstNone
  <2>4. t = [s EXCEPT !.wk[w].queue = q]
    BY <1>1, <1>3, <2>1, <2>2, <2>3 DEF ReleaseProcessor
  <2>5. PICK k : k = [s.wk[w] EXCEPT !.queue = q]
    OBVIOUS
  <2>6. k = s.wk[w]
    BY <2>2, <2>5, StateTypes DEF WorkerRec
  <2>7. t = [s EXCEPT !.wk[w] = k]
    BY <2>4, <2>5
  <2> QED BY <2>6, <2>7 DEF State
<1> QED BY <1>2, <1>3

\* endResponse of a request in hand answers it.
LEMMA EndHeld ==
  ASSUME NEW F, NEW s, NEW r, NEW X, Carrying(s, NULL, X, r), Opened(s, NULL),
         NEW t \in EndResponse(F, s, r)
  PROVE  Ready(t, NULL, X) /\ Rel(s, t, NULL, {r}) /\ t.conn = s.conn /\ t.wk = s.wk
<1>1. /\ s \in State /\ r \in Requests /\ s.req[r] \in ReqRec
      /\ ~s.req[r].complete /\ ~s.req[r].abort
  BY StateTypes DEF Carrying, Holding, Sound, Underway
<1>2. CASE ~s.req[r].hdr
  <2>1. PICK x : x = [s.req[r] EXCEPT !.hdr = TRUE, !.err = TRUE]
    OBVIOUS
  <2>2. /\ x \in ReqRec /\ x.live = s.req[r].live /\ x.alive = s.req[r].alive
        /\ x.proc = s.req[r].proc /\ x.err
    BY <1>1, <2>1 DEF ReqRec
  <2>3. t = ErrResponse([s EXCEPT !.req[r].hdr = TRUE], r)
    BY <1>1, <1>2 DEF EndResponse
  <2>4. t = [s EXCEPT !.req[r] = x]
    BY <1>1, <2>1, <2>3 DEF ErrResponse, State, ReqRec
  <2>5. Retagged(s, t, r) /\ Over(t, r)
    BY <1>1, <2>2, <2>4, FlagsEffect DEF Over
  <2> QED BY <2>5, RetaggedCarry
<1>3. CASE s.req[r].hdr
  <2>1. PICK x : x = [s.req[r] EXCEPT !.complete = TRUE]
    OBVIOUS
  <2>2. /\ x \in ReqRec /\ x.live = s.req[r].live /\ x.alive = s.req[r].alive
        /\ x.proc = s.req[r].proc /\ x.complete
    BY <1>1, <2>1 DEF ReqRec
  <2>3. PICK u : u = [s EXCEPT !.req[r] = x]
    OBVIOUS
  <2>4. t \in ReleaseProcessor(F, u, r)
    BY <1>1, <1>3, <2>1, <2>3 DEF EndResponse
  <2>5. Retagged(s, u, r) /\ Over(u, r)
    BY <1>1, <2>2, <2>3, FlagsEffect DEF Over
  <2>6. /\ Ready(u, NULL, X) /\ Rel(s, u, NULL, {r}) /\ u.conn = s.conn /\ u.wk = s.wk
    BY <2>5, RetaggedCarry
  <2>7. u \in State /\ Pools(u)
    BY <2>6 DEF Ready, Sound
  <2>8. ~Placed(u, r)
    BY <2>5, <2>6 DEF Retagged, Carrying, Holding, Placed, Queued
  <2>9. t = u
    BY <1>1, <2>4, <2>7, <2>8, ReleaseNothing
  <2> QED BY <2>6, <2>9
<1> QED BY <1>2, <1>3

LEMMA QuietReady ==
  ASSUME NEW s, NEW t, Quiet(s, t), BadKept(s, t), NEW R
  PROVE  (Opened(s, NULL) => Opened(t, NULL)) /\ Rel(s, t, NULL, R) /\ t.req = s.req
BY QuietOpened, QuietRel DEF Quiet

\* A call that failed left nothing to drop.
LEMMA DropNothing ==
  ASSUME NEW F, NEW s, NEW o, NEW c, NEW X, NEW r, Assigned(s, o, c, X, r), o.ret # 0
  PROVE  DropRequest(F, o, c) = {o.s}
BY DEF Assigned, DropRequest

\* What processRequest promises of a request in hand
Processed(s, o, X, r) ==
  /\ Rel(s, o.s, NULL, {r})
  /\ \/ /\ o.ret = 503 /\ Carrying(o.s, NULL, X, r) /\ Opened(o.s, NULL)
        /\ o.s.conn = s.conn
     \/ o.ret \in {0, 1} /\ Ready(o.s, NULL, X)

\* The results of processRequest on connection c
OnConn(F, s, c, r) ==
  UNION {Results(IF o.ret = 0 THEN {o.s} ELSE DropRequest(F, o, c),
                 IF o.ret > 0 THEN o.ret ELSE 0) : o \in F.assign[s][c][r]}

\* The ways of processRequest for a worker that was started
ProcessWays(F, t, w, r, o) ==
  \/ t.wk[w].st = "BAD" /\ o = Result(t, 503)
  \/ /\ t.wk[w].st # "BAD" /\ GetConn(t, w).c # NULL
     /\ o \in OnConn(F, GetConn(t, w).s, GetConn(t, w).c, r)
  \/ t.wk[w].st # "BAD" /\ o = Result(SetQueue(t, w, <<r>> \o t.wk[w].queue), 0)
  \/ /\ t.wk[w].st # "BAD"
     /\ \/ o = Result(SetQueue(t, w, Append(t.wk[w].queue, r)), 0)
        \/ o \in Results(F.pending[SetQueue(t, w, Append(t.wk[w].queue, r))][w][NULL], 0)

LEMMA ProcessRequestWays ==
  ASSUME NEW F, NEW s, NEW w, NEW r, NEW retry, NEW o \in ProcessRequest(F, s, w, r, retry),
         NEW t, t = Start(s, w)
  PROVE  ProcessWays(F, t, w, r, o)
<1> DEFINE g == IF retry \/ t.wk[w].queue = <<>> THEN GetConn(t, w) ELSE [s |-> t, c |-> NULL]
           added == [t EXCEPT !.wk[w].queue = Append(@, r)]
<1>1. o \in IF t.wk[w].st = "BAD" THEN {Result(t, 503)}
            ELSE IF g.c # NULL THEN OnConn(F, g.s, g.c, r)
            ELSE IF retry THEN {Result([t EXCEPT !.wk[w].queue = <<r>> \o @], 0)}
            ELSE IF InUse(t, w) < t.wk[w].max THEN Results(F.pending[added][w][NULL], 0)
            ELSE {Result(added, 0)}
  BY Zenon DEF ProcessRequest, OnConn
<1>2. g.c # NULL => g = GetConn(t, w)
  OBVIOUS
<1>3. added = SetQueue(t, w, Append(t.wk[w].queue, r))
  BY DEF SetQueue
<1>4. [t EXCEPT !.wk[w].queue = <<r>> \o @] = SetQueue(t, w, <<r>> \o t.wk[w].queue)
  BY DEF SetQueue
<1> HIDE DEF g, added
<1> QED BY <1>1, <1>2, <1>3, <1>4, Zenon DEF ProcessWays

LEMMA ProcessRequestSound ==
  ASSUME NEW F, Good(F), NEW s, NEW w \in WorkerSet, NEW r, NEW X, Carrying(s, NULL, X, r),
         Opened(s, NULL), s.req[r].w = w, NEW retry, NEW o \in ProcessRequest(F, s, w, r, retry)
  PROVE  Processed(s, o, X, r)
<1>0. r \in Requests
  BY CarrySound
<1>1. PICK t : /\ t = Start(s, w) /\ Carrying(t, NULL, X, r) /\ Opened(t, NULL)
               /\ Rel(s, t, NULL, {r}) /\ t.conn = s.conn /\ t.req[r].w = w
  <2>1. PICK t : t = Start(s, w)
    OBVIOUS
  <2>2. Carrying(t, NULL, X, r) /\ Quiet(s, t) /\ BadKept(s, t) /\ t.conn = s.conn /\ t.req = s.req
    BY <2>1, StartCarry
  <2>3. Opened(t, NULL) /\ Rel(s, t, NULL, {r})
    BY <2>2, QuietReady
  <2> QED BY <2>1, <2>2, <2>3
<1>3. CASE t.wk[w].st = "BAD" /\ o = Result(t, 503)
  <2>1. o = Result(t, 503)
    BY <1>3
  <2>2. o.s = t /\ o.ret = 503
    BY <2>1 DEF Result
  <2> QED BY <1>1, <2>2 DEF Processed
<1>4. CASE /\ t.wk[w].st # "BAD" /\ GetConn(t, w).c # NULL
           /\ o \in OnConn(F, GetConn(t, w).s, GetConn(t, w).c, r)
  <2>2. PICK u, c : u = GetConn(t, w).s /\ c = GetConn(t, w).c
    OBVIOUS
  <2>1. PICK a \in F.assign[u][c][r] :
          o \in Results(IF a.ret = 0 THEN {a.s} ELSE DropRequest(F, a, c),
                        IF a.ret > 0 THEN a.ret ELSE 0)
    <3>1. o \in OnConn(F, u, c, r)
      BY <1>4, <2>2
    <3> QED BY <3>1 DEF OnConn
  <2>3. /\ c \in Conns /\ c[1] = w /\ Carrying(u, c, X, r) /\ u.req = t.req
        /\ Quiet(t, u) /\ \A v \in WorkerSet : u.wk[v].st = t.wk[v].st
    BY <1>1, <1>4, <2>2, GetConnCarry
  <2>4. BadKept(t, u)
    BY <2>3 DEF BadKept
  <2>5. Opened(u, NULL) /\ Rel(t, u, NULL, {r})
    BY <1>1, <2>3, <2>4, QuietReady
  <2>6. Offered(u, c, X, r)
    BY <1>1, <2>3, <2>5 DEF Offered
  <2>7. Assigned(u, a, c, X, r)
    BY <1>0, <2>1, <2>2, <2>3, <2>6 DEF Good, GoodAssign
  <2>8. o \in Results({a.s}, IF a.ret > 0 THEN a.ret ELSE 0)
    BY <2>1, <2>2, <2>7, DropNothing
  <2>9. o.s = a.s /\ o.ret = IF a.ret > 0 THEN a.ret ELSE 0
    BY <2>8 DEF Results, Result
  <2>10. o.ret \in {0, 1} /\ Ready(o.s, NULL, X) /\ Rel(u, o.s, w, {r})
    BY <2>3, <2>7, <2>9 DEF Assigned
  <2>11. Rel(u, o.s, NULL, {r})
    <3>1. u.wk[w].st # "BAD"
      BY <1>4, <2>3
    <3> QED BY <2>10, <3>1, RelToNull
  <2>12. Rel(s, o.s, NULL, {r})
    <3>1. Rel(s, u, NULL, {r})
      BY <1>1, <2>5, RelTrans
    <3> QED BY <3>1, <2>11, RelTrans
  <2> QED BY <2>10, <2>12 DEF Processed
<1>5. CASE t.wk[w].st # "BAD" /\ o = Result(SetQueue(t, w, <<r>> \o t.wk[w].queue), 0)
  <2>1. PICK q : q = <<r>> \o t.wk[w].queue
    OBVIOUS
  <2>2. PICK u : u = SetQueue(t, w, q)
    OBVIOUS
  <2>3. Ready(u, NULL, X) /\ Rel(t, u, NULL, {r})
    <3>1. AtAnEnd(q, t.wk[w].queue, r)
      BY <2>1 DEF AtAnEnd
    <3> QED BY <3>1, <1>1, <2>2, QueueCarry
  <2>4. o = Result(u, 0)
    BY <1>5, <2>1, <2>2
  <2>5. o.s = u /\ o.ret = 0
    BY <2>4 DEF Result
  <2>6. Rel(s, u, NULL, {r})
    BY <1>1, <2>3, RelTrans
  <2> QED BY <2>3, <2>5, <2>6 DEF Processed
<1>6. CASE /\ t.wk[w].st # "BAD"
           /\ \/ o = Result(SetQueue(t, w, Append(t.wk[w].queue, r)), 0)
              \/ o \in Results(F.pending[SetQueue(t, w, Append(t.wk[w].queue, r))][w][NULL], 0)
  <2>1. PICK q : q = Append(t.wk[w].queue, r)
    OBVIOUS
  <2>2. PICK u : u = SetQueue(t, w, q)
    OBVIOUS
  <2>3. Ready(u, NULL, X) /\ Rel(t, u, NULL, {r}) /\ u.wk[w].st = t.wk[w].st
    <3>1. AtAnEnd(q, t.wk[w].queue, r)
      BY <2>1 DEF AtAnEnd
    <3> QED BY <3>1, <1>1, <2>2, QueueCarry
  <2>4. Rel(s, u, NULL, {r})
    BY <1>1, <2>3, RelTrans
  <2>5. o = Result(u, 0) \/ o \in Results(F.pending[u][w][NULL], 0)
    BY <1>6, <2>1, <2>2
  <2>6. CASE o = Result(u, 0)
    <3>1. o.s = u /\ o.ret = 0
      BY <2>6 DEF Result
    <3> QED BY <2>3, <2>4, <3>1 DEF Processed
  <2>7. CASE o \in Results(F.pending[u][w][NULL], 0)
    <3>1. o.s \in F.pending[u][w][NULL] /\ o.ret = 0
      BY <2>7 DEF Results, Result
    <3>2. Served(u, o.s, w, X)
      BY <2>3, <3>1 DEF Good, GoodPending
    <3>3. Rel(u, o.s, NULL, {})
      BY <3>2, <2>3, <1>6, RelToNull DEF Served
    <3>4. Rel(u, o.s, NULL, {r})
      BY <3>3, RelAdd
    <3>5. Rel(s, o.s, NULL, {r})
      BY <2>4, <3>4, RelTrans
    <3> QED BY <3>1, <3>2, <3>5 DEF Processed, Served
  <2> QED BY <2>5, <2>6, <2>7
<1>7. ProcessWays(F, t, w, r, o)
  BY <1>1, ProcessRequestWays
<1> QED BY <1>7, <1>3, <1>4, <1>5, <1>6, Zenon DEF ProcessWays

\* The ways of tryRecover for a request that can go on; inc has it counted.
TryWays(F, inc, r, o) ==
  \/ o = Result(ErrResponse(inc, r), -1)
  \/ \E t \in {SelectWorker(inc, r), Start(inc, inc.req[r].w), inc} :
       \/ t.req[r].w = NULL /\ o = Result(ErrResponse(t, r), -1)
       \/ /\ t.req[r].w # NULL
          /\ \E p \in ProcessRequest(F, t, t.req[r].w, r, TRUE) :
               o = IF p.ret \in {0, 1} THEN Result(p.s, 0) ELSE Result(ErrResponse(p.s, r), -1)

LEMMA TryRecoverWays ==
  ASSUME NEW F, NEW s, NEW r, IsRecoverable(s, r), NEW o \in TryRecover(F, s, r),
         NEW inc, inc = ResetConnector(IncAttempts(s, r), r)
  PROVE  TryWays(F, inc, r, o)
<1> DEFINE att == inc.req[r].att
           lb == s.req[r].lb
           t == IF lb /\ att % 3 = 0 THEN SelectWorker(inc, r)
                ELSE IF att % 3 >= 2 THEN Start(inc, inc.req[r].w)
                ELSE inc
           w == t.req[r].w
<1>1. o \in IF att >= (IF lb THEN MaxAttempts ELSE 3)
            THEN {Result(ErrResponse(inc, r), -1)}
            ELSE IF w = NULL THEN {Result(ErrResponse(t, r), -1)}
            ELSE {IF p.ret \in {0, 1} THEN Result(p.s, 0) ELSE Result(ErrResponse(p.s, r), -1) :
                    p \in ProcessRequest(F, t, w, r, TRUE)}
  BY Zenon DEF TryRecover
<1>2. t \in {SelectWorker(inc, r), Start(inc, inc.req[r].w), inc}
  BY Zenon
<1> HIDE DEF att, lb, t
<1>3. CASE o = Result(ErrResponse(inc, r), -1)
  BY <1>3 DEF TryWays
<1>4. CASE w = NULL /\ o = Result(ErrResponse(t, r), -1)
  BY <1>2, <1>4, Zenon DEF TryWays
<1>5. CASE /\ w # NULL
           /\ o \in {IF p.ret \in {0, 1} THEN Result(p.s, 0) ELSE Result(ErrResponse(p.s, r), -1) :
                       p \in ProcessRequest(F, t, w, r, TRUE)}
  BY <1>2, <1>5, Zenon DEF TryWays
<1> QED BY <1>1, <1>3, <1>4, <1>5, Zenon

\* What tryRecover promises of a request in hand
Recovered(s, o, X, r) ==
  /\ Ready(o.s, NULL, X) /\ Rel(s, o.s, NULL, {r}) /\ o.ret \in {-1, 0}
  /\ o.ret = -1 => o.s.conn = s.conn

LEMMA ErrCarry ==
  ASSUME NEW s, NEW r, NEW X, Carrying(s, NULL, X, r), Opened(s, NULL),
         NEW t, t = ErrResponse(s, r)
  PROVE  Ready(t, NULL, X) /\ Rel(s, t, NULL, {r}) /\ t.conn = s.conn
<1>1. s \in State /\ r \in Requests
  BY CarrySound
<1>2. Retagged(s, t, r) /\ Over(t, r)
  BY <1>1, ErrEffect DEF Over
<1> QED BY <1>2, RetaggedCarry

LEMMA TryRecoverSound ==
  ASSUME NEW F, Good(F), NEW s, NEW r, NEW X, Carrying(s, NULL, X, r),
         Opened(s, NULL), s.req[r].w \in WorkerSet, NEW o \in TryRecover(F, s, r)
  PROVE  Recovered(s, o, X, r)
<1>0. r \in Requests /\ s \in State /\ IsRecoverable(s, r) /\ s.req[r].live
  BY CarrySound DEF Carrying, Underway, IsRecoverable
<1>1. PICK inc : inc = ResetConnector(IncAttempts(s, r), r)
  OBVIOUS
<1> DEFINE Step(t) == /\ Carrying(t, NULL, X, r) /\ Opened(t, NULL) /\ Rel(s, t, NULL, {r})
                      /\ t.conn = s.conn
<1>2. Step(inc) /\ inc.req[r].w \in WorkerSet
  <2>1. /\ Retagged(s, inc, r) /\ inc.req[r].w = s.req[r].w
        /\ ~inc.req[r].err /\ ~inc.req[r].abort /\ ~inc.req[r].complete
    BY <1>0, <1>1, RetryEffect
  <2>2. Underway(inc, r)
    BY <2>1, <1>0 DEF Underway, Retagged
  <2> QED BY <2>1, <2>2, RetaggedCarry
<1>3. \A t \in {SelectWorker(inc, r), Start(inc, inc.req[r].w), inc} :
        Step(t) /\ t.req[r].w \in WorkerSet \cup {NULL}
  <2>1. PICK t : t = SelectWorker(inc, r)
    OBVIOUS
  <2>2. Step(t) /\ t.req[r].w \in WorkerSet \cup {NULL}
    <3>1. inc \in State /\ Underway(inc, r)
      BY <1>2, CarrySound DEF Carrying
    <3>2. Retagged(inc, t, r) /\ Underway(t, r) /\ t.req[r].w \in WorkerSet \cup {NULL}
      BY <1>0, <2>1, <3>1, SelectEffect
    <3>3. Carrying(t, NULL, X, r) /\ Opened(t, NULL) /\ Rel(inc, t, NULL, {r}) /\ t.conn = inc.conn
      BY <1>2, <3>2, RetaggedCarry
    <3>4. Rel(s, t, NULL, {r})
      BY <1>2, <3>3, RelTrans
    <3> QED BY <1>2, <3>2, <3>3, <3>4
  <2>3. PICK u, w : u = Start(inc, w) /\ w = inc.req[r].w /\ w \in WorkerSet
    BY <1>2
  <2>4. Step(u) /\ u.req[r].w \in WorkerSet
    <3>1. /\ Carrying(u, NULL, X, r) /\ Quiet(inc, u) /\ BadKept(inc, u)
          /\ u.conn = inc.conn /\ u.req = inc.req
      BY <1>2, <2>3, StartCarry
    <3>2. Opened(u, NULL) /\ Rel(inc, u, NULL, {r})
      BY <1>2, <3>1, QuietReady
    <3>3. Rel(s, u, NULL, {r})
      BY <1>2, <3>2, RelTrans
    <3> QED BY <1>2, <3>1, <3>2, <3>3
  <2> HIDE DEF Step
  <2> QED BY <1>2, <2>1, <2>2, <2>3, <2>4
<1>5. ASSUME NEW t, Step(t), o = Result(ErrResponse(t, r), -1) PROVE Recovered(s, o, X, r)
  <2>1. PICK u : u = ErrResponse(t, r)
    OBVIOUS
  <2>2. Ready(u, NULL, X) /\ Rel(t, u, NULL, {r}) /\ u.conn = t.conn
    <3>1. Carrying(t, NULL, X, r) /\ Opened(t, NULL)
      BY <1>5
    <3> QED BY <2>1, <3>1, ErrCarry
  <2>3. Rel(s, u, NULL, {r})
    BY <1>5, <2>2, RelTrans
  <2>4. o.s = u /\ o.ret = -1
    BY <1>5, <2>1 DEF Result
  <2> QED BY <1>5, <2>2, <2>3, <2>4 DEF Recovered
<1>4. CASE o = Result(ErrResponse(inc, r), -1)
  <2> HIDE DEF Step
  <2> QED BY <1>2, <1>4, <1>5
<1>6. ASSUME NEW t, Step(t), NEW w \in WorkerSet, w = t.req[r].w,
             NEW p \in ProcessRequest(F, t, w, r, TRUE),
             o = IF p.ret \in {0, 1} THEN Result(p.s, 0) ELSE Result(ErrResponse(p.s, r), -1)
      PROVE  Recovered(s, o, X, r)
  <2>1. Processed(t, p, X, r)
    BY <1>6, ProcessRequestSound
  <2>2. Rel(s, p.s, NULL, {r})
    BY <1>6, <2>1, RelTrans DEF Processed
  <2>3. CASE p.ret \in {0, 1}
    <3>1. o.s = p.s /\ o.ret = 0
      BY <1>6, <2>3 DEF Result
    <3> QED BY <2>1, <2>2, <2>3, <3>1 DEF Processed, Recovered
  <2>4. CASE ~(p.ret \in {0, 1})
    <3>1. Step(p.s)
      BY <1>6, <2>1, <2>2, <2>4 DEF Processed
    <3>2. PICK u : u = p.s
      OBVIOUS
    <3>3. o = Result(ErrResponse(u, r), -1) /\ Step(u)
      BY <1>6, <2>4, <3>1, <3>2
    <3> HIDE DEF Step
    <3> QED BY <3>3, <1>5
  <2> QED BY <2>3, <2>4
<1>7. TryWays(F, inc, r, o)
  BY <1>0, <1>1, TryRecoverWays
<1>8. CASE \E t \in {SelectWorker(inc, r), Start(inc, inc.req[r].w), inc} :
             \/ t.req[r].w = NULL /\ o = Result(ErrResponse(t, r), -1)
             \/ /\ t.req[r].w # NULL
                /\ \E p \in ProcessRequest(F, t, t.req[r].w, r, TRUE) :
                     o = IF p.ret \in {0, 1} THEN Result(p.s, 0)
                         ELSE Result(ErrResponse(p.s, r), -1)
  <2> HIDE DEF Step
  <2>1. PICK t : /\ Step(t) /\ t.req[r].w \in WorkerSet \cup {NULL}
                 /\ \/ t.req[r].w = NULL /\ o = Result(ErrResponse(t, r), -1)
                    \/ /\ t.req[r].w # NULL
                       /\ \E p \in ProcessRequest(F, t, t.req[r].w, r, TRUE) :
                            o = IF p.ret \in {0, 1} THEN Result(p.s, 0)
                                ELSE Result(ErrResponse(p.s, r), -1)
    BY <1>3, <1>8, Zenon
  <2>2. CASE t.req[r].w = NULL /\ o = Result(ErrResponse(t, r), -1)
    BY <1>5, <2>1, <2>2
  <2>3. CASE /\ t.req[r].w # NULL
             /\ \E p \in ProcessRequest(F, t, t.req[r].w, r, TRUE) :
                  o = IF p.ret \in {0, 1} THEN Result(p.s, 0)
                      ELSE Result(ErrResponse(p.s, r), -1)
    <3>1. PICK w \in WorkerSet : w = t.req[r].w
      BY <2>1, <2>3
    <3>2. PICK p \in ProcessRequest(F, t, w, r, TRUE) :
             o = IF p.ret \in {0, 1} THEN Result(p.s, 0) ELSE Result(ErrResponse(p.s, r), -1)
      BY <2>3, <3>1
    <3> QED BY <2>1, <3>1, <3>2, <1>6
  <2> QED BY <2>1, <2>2, <2>3
<1> QED BY <1>4, <1>7, <1>8, Zenon DEF TryWays

\* A worker that turned bad gives up its queue at the end.
ErrorEnds(F, w, p, o) ==
  IF p.s.wk[w].st = "BAD" THEN o \in Results(F.fail[p.s][w], p.ret) ELSE o = p

LEMMA ErrorEndsSound ==
  ASSUME NEW F, Good(F), NEW s, NEW c \in Conns, NEW X, NEW p, Errored(s, p, c, X),
         NEW o, ErrorEnds(F, c[1], p, o)
  PROVE  Errored(s, o, c, X)
<1>1. PICK w \in WorkerSet : w = c[1]
  BY ConnOwner
<1>2. CASE p.s.wk[w].st # "BAD"
  BY <1>1, <1>2 DEF ErrorEnds
<1>3. CASE p.s.wk[w].st = "BAD"
  <2>1. o \in Results(F.fail[p.s][w], p.ret)
    BY <1>1, <1>3 DEF ErrorEnds
  <2>2. o.s \in F.fail[p.s][w] /\ o.ret = p.ret
    BY <2>1 DEF Results, Result
  <2>3. Served(p.s, o.s, NULL, X)
    BY <1>3, <2>2 DEF Errored, Good, GoodFail
  <2>4. Rel(p.s, o.s, NULL, {})
    BY <2>3 DEF Served
  <2>5. Rel(s, o.s, NULL, {})
    BY <2>4, RelTrans DEF Errored
  <2>6. p.s.conn[c].req = NULL => o.s.conn[c].req = NULL
    <3>1. NULL \notin WorkerSet
      BY ExtWorkerAssumption
    <3> QED BY <3>1, <2>4, <1>1, <1>3 DEF Rel, Barred
  <2> QED BY <2>2, <2>3, <2>5, <2>6 DEF Errored, Served
<1> QED BY <1>2, <1>3

\* The ways of connectionError; t has connection and request given up.
ErrorWays(F, t, c, r, error, o) ==
  \/ o = Result(Requeue(t, c[1], r), 1)
  \/ \E u \in {t} \cup Penalty(t, c[1], error) :
       \E p \in IF r = NULL THEN {Result(u, 0)} ELSE TryRecover(F, u, r) :
         ErrorEnds(F, c[1], p, o)

LEMMA ConnectionErrorWays ==
  ASSUME NEW F, NEW s, NEW c, NEW error, NEW used, NEW o \in ConnectionError(F, s, c, error, used)
  PROVE  ErrorWays(F, RemoveConn(RemoveRequest(s, c), c), c, s.conn[c].req, error, o)
<1> DEFINE t == RemoveConn(RemoveRequest(s, c), c)
           r == s.conn[c].req
           Us == IF used THEN {t} ELSE Penalty(t, c[1], error)
           Ps(u) == IF r = NULL THEN {Result(u, 0)} ELSE TryRecover(F, u, r)
           Os(p) == IF p.s.wk[c[1]].st = "BAD" THEN Results(F.fail[p.s][c[1]], p.ret) ELSE {p}
<1>1. o \in IF error = "AGAIN" THEN {Result(Requeue(t, c[1], r), 1)}
            ELSE UNION {Os(p) : p \in UNION {Ps(u) : u \in Us}}
  BY Zenon DEF ConnectionError
<1>2. Us \subseteq {t} \cup Penalty(t, c[1], error)
  BY Zenon
<1>3. \A p : o \in Os(p) => ErrorEnds(F, c[1], p, o)
  BY Zenon DEF ErrorEnds
<1>4. CASE o \in UNION {Os(p) : p \in UNION {Ps(u) : u \in Us}}
  <2>1. PICK u, p : u \in Us /\ p \in Ps(u) /\ o \in Os(p)
    <3> HIDE DEF Us, Ps, Os
    <3> QED BY <1>4
  <2>2. u \in {t} \cup Penalty(t, c[1], error) /\ p \in Ps(u) /\ ErrorEnds(F, c[1], p, o)
    <3> HIDE DEF Us, Ps, Os
    <3> QED BY <1>2, <1>3, <2>1
  <2> QED BY <2>2, Zenon DEF ErrorWays
<1>5. CASE o = Result(Requeue(t, c[1], r), 1)
  BY <1>5 DEF ErrorWays
<1> HIDE DEF Us, Ps, Os
<1> QED BY <1>1, <1>4, <1>5, Zenon

\* A connection without request is removed from the pool.
LEMMA ErrorIdle ==
  ASSUME NEW F, Good(F), NEW s, NEW c \in Conns, NEW X, Sound(s, NULL, X), Opened(s, c),
         s.conn[c].req = NULL, NEW error, NEW used, NEW o \in ConnectionError(F, s, c, error, used)
  PROVE  Errored(s, o, c, X)
<1>1. PICK w \in WorkerSet : w = c[1]
  BY ConnOwner
<1>2. Opened(s, NULL)
  BY DEF Opened
<1>3. PICK t : t = RemoveConn(s, c)
  OBVIOUS
<1>4. Sound(t, NULL, X) /\ Quiet(s, t) /\ BadKept(s, t)
  BY <1>3, RemoveConnSound
<1>5. RemoveRequest(s, c) = s
  BY DEF RemoveRequest
<1>6. ErrorWays(F, t, c, NULL, error, o)
  BY <1>3, <1>5, ConnectionErrorWays
<1>7. ASSUME NEW u \in {t} \cup Penalty(t, w, error)
      PROVE  Ready(u, NULL, X) /\ Rel(s, u, NULL, {}) /\ u.conn[c].req = NULL
  <2>1. Sound(u, NULL, X) /\ Quiet(t, u) /\ BadKept(t, u)
    <3>1. CASE u = t
      BY <3>1, <1>4 DEF Quiet, BadKept
    <3>2. CASE u \in Penalty(t, w, error)
      BY <3>2, <1>4, PenaltySound
    <3> QED BY <3>1, <3>2
  <2>2. Quiet(s, u) /\ BadKept(s, u)
    BY <1>4, <2>1, QuietTrans DEF BadKept
  <2>3. Opened(u, NULL) /\ Rel(s, u, NULL, {})
    BY <1>2, <2>2, QuietReady
  <2> QED BY <2>1, <2>2, <2>3 DEF Ready, Quiet
<1>8. CASE o = Result(Requeue(t, c[1], NULL), 1)
  <2>1. o.s = t /\ o.ret = 1
    BY <1>8 DEF Result, Requeue
  <2> QED BY <2>1, <1>7 DEF Errored
<1>9. ASSUME NEW u \in {t} \cup Penalty(t, w, error), NEW p, p = Result(u, 0),
             ErrorEnds(F, c[1], p, o)
      PROVE  Errored(s, o, c, X)
  <2>1. p.s = u /\ p.ret = 0
    BY <1>9 DEF Result
  <2>2. Errored(s, p, c, X)
    BY <1>7, <1>9, <2>1 DEF Errored
  <2> QED BY <1>9, <2>2, ErrorEndsSound
<1>10. CASE \E u \in {t} \cup Penalty(t, c[1], error) :
              \E p \in IF NULL = NULL THEN {Result(u, 0)} ELSE TryRecover(F, u, NULL) :
                ErrorEnds(F, c[1], p, o)
  BY <1>1, <1>9, <1>10
<1> QED BY <1>6, <1>8, <1>10, Zenon DEF ErrorWays

LEMMA ErrorBusy ==
  ASSUME NEW F, Good(F), NEW s, NEW c \in Conns, NEW X, Sound(s, NULL, X), Opened(s, c),
         NEW r \in Requests, s.conn[c].req = r, NEW error, NEW used, NEW o \in ConnectionError(F, s, c, error, used)
  PROVE  Errored(s, o, c, X)
<1>1. PICK w \in WorkerSet : w = c[1]
  BY ConnOwner
<1>2. s \in State /\ NULL \notin Requests
  BY ExtWorkerAssumption DEF Sound
<1>3. PICK a : a = RemoveRequest(s, c)
  OBVIOUS
<1>4. /\ PairOnly(s, a, c, r) /\ a.conn[c].req = NULL /\ a.req[r].proc = NULL
      /\ a.req[r].w = s.req[r].w /\ a.conn[c].st = s.conn[c].st
      /\ (Underway(s, r) => Underway(a, r))
  BY <1>2, <1>3, RemoveRequestEffect
<1>5. /\ Holding(a, c, X, r) /\ Rel(s, a, NULL, {}) /\ Opened(a, NULL)
      /\ s.req[r].proc = c /\ Underway(s, r) /\ s.req[r].w = c[1]
  BY <1>4, UnlinkSound
<1>6. Carrying(a, c, X, r) /\ a.req[r].w = w /\ Placed(s, r)
  <2>1. s.req[r].proc # NULL
    BY <1>5, ExtWorkerAssumption
  <2> QED BY <1>1, <1>4, <1>5, <2>1 DEF Carrying, Placed
<1>7. PICK t : t = RemoveConn(a, c)
  OBVIOUS
<1>8. Carrying(t, NULL, X, r) /\ Quiet(a, t) /\ BadKept(a, t) /\ t.conn = a.conn /\ t.req = a.req
  BY <1>4, <1>6, <1>7, RemoveCarry
<1>9. ErrorWays(F, t, c, r, error, o)
  BY <1>3, <1>7, ConnectionErrorWays
<1> DEFINE Step(u) == /\ Carrying(u, NULL, X, r) /\ Opened(u, NULL) /\ Rel(s, u, NULL, {})
                      /\ u.conn[c].req = NULL /\ u.req[r].w = w
<1>10. ASSUME NEW u \in {t} \cup Penalty(t, w, error) PROVE Step(u)
  <2>1. Carrying(u, NULL, X, r) /\ Quiet(t, u) /\ BadKept(t, u) /\ u.req = t.req
    <3>1. CASE u = t
      <4>1. t \in State
        BY <1>8, CarrySound
      <4> QED BY <3>1, <4>1, <1>8 DEF Quiet, BadKept
    <3>2. CASE u \in Penalty(t, w, error)
      BY <3>2, <1>8, PenaltyCarry
    <3> QED BY <3>1, <3>2
  <2>2. Quiet(a, u) /\ BadKept(a, u)
    BY <1>8, <2>1, QuietTrans DEF BadKept
  <2>3. Opened(u, NULL) /\ Rel(a, u, NULL, {})
    BY <1>5, <2>2, QuietReady
  <2>4. Rel(s, u, NULL, {})
    BY <1>5, <2>3, RelTrans
  <2> QED BY <1>4, <1>6, <1>8, <2>1, <2>2, <2>3, <2>4 DEF Quiet
<1>11. CASE o = Result(Requeue(t, c[1], r), 1)
  <2>1. Step(t)
    BY <1>10
  <2>2. PICK q : q = <<r>> \o t.wk[w].queue
    OBVIOUS
  <2>3. PICK u : u = SetQueue(t, w, q)
    OBVIOUS
  <2>4. /\ Ready(u, NULL, X) /\ Rel(t, u, NULL, {r}) /\ u.conn = t.conn
    <3>1. AtAnEnd(q, t.wk[w].queue, r)
      BY <2>2 DEF AtAnEnd
    <3> QED BY <3>1, <2>1, <2>3, QueueCarry
  <2>5. Requeue(t, w, r) = u
    BY <1>2, <2>2, <2>3 DEF Requeue, SetQueue
  <2>6. o.s = u /\ o.ret = 1
    BY <1>1, <1>11, <2>5 DEF Result
  <2>7. Rel(s, t, NULL, {r})
    BY <2>1, RelAdd
  <2>8. Rel(s, u, NULL, {r})
    BY <2>4, <2>7, RelTrans
  <2>9. Rel(s, u, NULL, {})
    BY <1>6, <2>8, RelPlaced
  <2> QED BY <2>1, <2>4, <2>6, <2>9 DEF Errored
<1>12. ASSUME NEW u, Step(u), NEW p \in TryRecover(F, u, r), ErrorEnds(F, c[1], p, o)
       PROVE  Errored(s, o, c, X)
  <2>1. Recovered(u, p, X, r)
    BY <1>12, TryRecoverSound
  <2>2. Rel(s, u, NULL, {r})
    BY <1>12, RelAdd
  <2>3. Rel(s, p.s, NULL, {r})
    BY <2>1, <2>2, RelTrans DEF Recovered
  <2>4. Rel(s, p.s, NULL, {})
    BY <1>6, <2>3, RelPlaced
  <2>5. Errored(s, p, c, X)
    BY <1>12, <2>1, <2>4 DEF Recovered, Errored
  <2> QED BY <1>12, <2>5, ErrorEndsSound
<1>13. CASE \E u \in {t} \cup Penalty(t, c[1], error) :
              \E p \in IF r = NULL THEN {Result(u, 0)} ELSE TryRecover(F, u, r) :
                ErrorEnds(F, c[1], p, o)
  <2> HIDE DEF Step
  <2>1. PICK u \in {t} \cup Penalty(t, w, error) :
          \E p \in TryRecover(F, u, r) : ErrorEnds(F, c[1], p, o)
    BY <1>1, <1>2, <1>13
  <2> QED BY <1>10, <1>12, <2>1
<1> QED BY <1>9, <1>11, <1>13, Zenon DEF ErrorWays

LEMMA ConnectionErrorSound ==
  ASSUME NEW F, Good(F), NEW s, NEW c \in Conns, NEW X, Sound(s, NULL, X), Opened(s, c),
         NEW error, NEW used, NEW o \in ConnectionError(F, s, c, error, used)
  PROVE  Errored(s, o, c, X)
<1>1. s.conn[c].req \in Requests \cup {NULL}
  BY StateTypes DEF Sound, ConnRec
<1> QED BY <1>1, ErrorIdle, ErrorBusy

\* Other flags of connection c
LEMMA ConnFlagsSound ==
  ASSUME NEW s, NEW t, NEW c \in Conns, NEW x, NEW X, Sound(s, NULL, X),
         ConnOnly(s, t, c, x), x.req = s.conn[c].req
  PROVE  /\ Sound(t, NULL, X) /\ (Opened(s, c) => Opened(t, c))
         /\ Opened(s, c) /\ x.st \in {"CONNECTING", "PROCESSING"} => Opened(t, NULL)
         /\ Rel(s, t, NULL, {})
<1>1. Sound(t, NULL, X)
  BY ConnSound
<1>2. /\ t.conn[c] = x /\ t.wk = s.wk /\ t.req = s.req
      /\ \A d \in Conns \ {c} : t.conn[d] = s.conn[d]
  BY DEF ConnOnly
<1>3. Opened(s, c) => Opened(t, c)
  BY <1>2 DEF Opened
<1>4. Opened(s, c) /\ x.st \in {"CONNECTING", "PROCESSING"} => Opened(t, NULL)
  BY <1>2 DEF Opened
<1>5. Rel(s, t, NULL, {})
  <2>1. \A d \in Conns : t.conn[d].req = s.conn[d].req
    BY <1>2
  <2>2. Barred(s, t, NULL)
    BY <1>2, <2>1 DEF Barred
  <2>3. Spared(s, t, {})
    BY <1>2 DEF Spared, Placed, Queued
  <2> QED BY <2>2, <2>3 DEF Rel
<1> QED BY <1>1, <1>3, <1>4, <1>5

\* What a network operation on c may change; sts are the states it may leave.
Touched(s, t, c, sts) ==
  \E x : ConnOnly(s, t, c, x) /\ x.req = s.conn[c].req /\ x.st \in sts

LEMMA TouchedSound ==
  ASSUME NEW s, NEW t, NEW c \in Conns, NEW sts, NEW X, Sound(s, NULL, X), Touched(s, t, c, sts)
  PROVE  /\ Sound(t, NULL, X) /\ (Opened(s, c) => Opened(t, c))
         /\ Opened(s, c) /\ sts \subseteq {"CONNECTING", "PROCESSING"} => Opened(t, NULL)
         /\ Rel(s, t, NULL, {})
         /\ t.conn[c].st \in sts /\ t.conn[c].req = s.conn[c].req /\ t.req = s.req
<1>1. PICK x : ConnOnly(s, t, c, x) /\ x.req = s.conn[c].req /\ x.st \in sts
  BY DEF Touched
<1>2. /\ Sound(t, NULL, X) /\ (Opened(s, c) => Opened(t, c))
      /\ Opened(s, c) /\ x.st \in {"CONNECTING", "PROCESSING"} => Opened(t, NULL)
      /\ Rel(s, t, NULL, {})
  BY <1>1, ConnFlagsSound
<1> QED BY <1>1, <1>2 DEF ConnOnly

LEMMA SpendEffect ==
  ASSUME NEW s \in State, s.faults > 0, NEW t, t = Spend(s)
  PROVE  t \in State /\ t.wk = s.wk /\ t.conn = s.conn /\ t.req = s.req
<1>1. s.faults - 1 \in 0 .. MaxFaults
  BY StateTypes, ExtWorkerAssumption
<1>2. t = [s EXCEPT !.faults = s.faults - 1]
  BY DEF Spend
<1> QED BY <1>1, <1>2 DEF State

LEMMA CloseTouches ==
  ASSUME NEW s \in State, NEW c \in Conns, NEW t, t = Close(s, c)
  PROVE  Touched(s, t, c, {"DISCONNECTED"})
<1>1. PICK x : x = [s.conn[c] EXCEPT !.st = "DISCONNECTED"]
  OBVIOUS
<1>2. ConnOnly(s, t, c, x)
  BY <1>1, CloseEffect
<1>3. x.req = s.conn[c].req /\ x.st = "DISCONNECTED"
  <2>1. s.conn[c] \in ConnRec
    BY StateTypes
  <2> QED BY <1>1, <2>1 DEF ConnRec
<1> QED BY <1>2, <1>3 DEF Touched

LEMMA SetTouches ==
  ASSUME NEW s \in State, NEW c \in Conns, NEW x \in ConnRec, x.req = s.conn[c].req,
         NEW sts, x.st \in sts, NEW t, t = [s EXCEPT !.conn[c] = x]
  PROVE  Touched(s, t, c, sts) /\ t \in State /\ t.faults = s.faults
<1>1. ConnOnly(s, t, c, x) /\ t.faults = s.faults
  BY ConnSet
<1> QED BY <1>1 DEF Touched, ConnOnly

LEMMA SpendTouches ==
  ASSUME NEW s \in State, NEW u, NEW c \in Conns, NEW sts, Touched(s, u, c, sts),
         u.faults > 0, NEW t, t = Spend(u)
  PROVE  Touched(s, t, c, sts)
<1>1. PICK x : ConnOnly(s, u, c, x) /\ x.req = s.conn[c].req /\ x.st \in sts
  BY DEF Touched
<1>2. t \in State /\ t.wk = u.wk /\ t.conn = u.conn /\ t.req = u.req
  BY <1>1, SpendEffect DEF ConnOnly
<1> QED BY <1>1, <1>2 DEF Touched, ConnOnly

LEMMA NotTouched ==
  ASSUME NEW s \in State, NEW c \in Conns, NEW sts, s.conn[c].st \in sts
  PROVE  Touched(s, s, c, sts)
BY DEF Touched, ConnOnly

LEMMA FailsOnce ==
  ASSUME NEW s, NEW E, NEW x \in MayFail(s, E) PROVE x \in E /\ s.faults > 0
BY DEF MayFail

LEMMA OutcomeFields ==
  \A z, x, y : z = [s |-> x, error |-> y] => z.s = x /\ z.error = y
OBVIOUS

LEMMA DoWriteTouches ==
  ASSUME NEW s \in State, NEW c \in Conns, NEW o \in DoWrite(s, c)
  PROVE  Touched(s, o.s, c, {s.conn[c].st}) /\ (o.error = "" \/ o.error \in WriteErrors)
<1>1. s.conn[c] \in ConnRec
  BY StateTypes
<1> DEFINE How(y) == [s EXCEPT !.conn[c].sent = y]
           Sent == {"ending", "all", s.conn[c].sent}
<1>2. ASSUME NEW y \in Sent, o.s = How(y)
      PROVE  Touched(s, o.s, c, {s.conn[c].st})
  <2>1. PICK x : x = [s.conn[c] EXCEPT !.sent = y]
    OBVIOUS
  <2>2. x \in ConnRec /\ x.req = s.conn[c].req /\ x.st \in {s.conn[c].st}
    BY <1>1, <2>1 DEF ConnRec
  <2>3. PICK t : t = o.s /\ t = [s EXCEPT !.conn[c] = x]
    BY <1>2, <2>1
  <2>4. Touched(s, t, c, {s.conn[c].st})
    BY <2>2, <2>3, SetTouches
  <2> QED BY <2>3, <2>4
<1>3. ASSUME s.faults > 0, o.s = Spend(s) PROVE Touched(s, o.s, c, {s.conn[c].st})
  <2>1. Touched(s, s, c, {s.conn[c].st})
    BY NotTouched
  <2> QED BY <1>3, <2>1, SpendTouches
<1>4. o \in {[s |-> How(y), error |-> ""] : y \in Sent}
              \cup {[s |-> Spend(s), error |-> x] : x \in MayFail(s, WriteErrors)}
  BY Zenon DEF DoWrite
<1> HIDE DEF How, Sent
<1>5. \/ \E y \in Sent : o = [s |-> How(y), error |-> ""]
      \/ \E x \in MayFail(s, WriteErrors) : o = [s |-> Spend(s), error |-> x]
  BY <1>4, Zenon
<1>6. CASE \E y \in Sent : o = [s |-> How(y), error |-> ""]
  <2>1. PICK y \in Sent : o = [s |-> How(y), error |-> ""]
    BY <1>6
  <2>2. o.s = How(y) /\ o.error = ""
    BY <2>1, OutcomeFields, Zenon
  <2> QED BY <1>2, <2>2
<1>7. CASE \E x \in MayFail(s, WriteErrors) : o = [s |-> Spend(s), error |-> x]
  <2>1. PICK x \in MayFail(s, WriteErrors) : o = [s |-> Spend(s), error |-> x]
    BY <1>7
  <2>2. x \in WriteErrors /\ s.faults > 0
    BY FailsOnce, Zenon
  <2>3. o.s = Spend(s) /\ o.error = x
    BY <2>1, OutcomeFields, Zenon
  <2> QED BY <1>3, <2>2, <2>3
<1> QED BY <1>5, <1>6, <1>7

\* A new socket of c, whose connect is under way or has succeeded
NewSocket(s, c) ==
  [s EXCEPT !.conn[c] = [@ EXCEPT !.st = "CONNECTING", !.toClose = FALSE, !.sent = "no"]]
NoSocket(s, c) ==
  [s EXCEPT !.conn[c] = [@ EXCEPT !.st = "DISCONNECTED", !.toClose = FALSE]]

LEMMA NewTouches ==
  ASSUME NEW s \in State, NEW c \in Conns, NEW t, t = NewSocket(s, c)
  PROVE  Touched(s, t, c, {"CONNECTING"})
<1>1. s.conn[c] \in ConnRec
  BY StateTypes
<1>2. PICK x : x = [s.conn[c] EXCEPT !.st = "CONNECTING", !.toClose = FALSE, !.sent = "no"]
  OBVIOUS
<1>3. x \in ConnRec /\ x.req = s.conn[c].req /\ x.st \in {"CONNECTING"}
  BY <1>1, <1>2 DEF ConnRec
<1>4. t = [s EXCEPT !.conn[c] = x]
  BY <1>2 DEF NewSocket
<1> QED BY <1>3, <1>4, SetTouches

LEMMA ConnectedTouches ==
  ASSUME NEW s \in State, NEW c \in Conns, NEW t, t = [s EXCEPT !.conn[c].st = "PROCESSING"]
  PROVE  Touched(s, t, c, {"PROCESSING"})
<1>1. s.conn[c] \in ConnRec
  BY StateTypes
<1>2. PICK x : x = [s.conn[c] EXCEPT !.st = "PROCESSING"]
  OBVIOUS
<1>3. x \in ConnRec /\ x.req = s.conn[c].req /\ x.st \in {"PROCESSING"}
  BY <1>1, <1>2 DEF ConnRec
<1>4. t = [s EXCEPT !.conn[c] = x]
  BY <1>2
<1> QED BY <1>3, <1>4, SetTouches

\* Touching c when only c may be without network keeps the contract.
LEMMA TouchReady ==
  ASSUME NEW s, NEW t, NEW c \in Conns, NEW y, y \in {"CONNECTING", "PROCESSING"}, NEW X,
         Sound(s, NULL, X), Opened(s, c), Touched(s, t, c, {y})
  PROVE  Ready(t, NULL, X) /\ Opened(t, c) /\ Rel(s, t, NULL, {}) /\ t.conn[c].st = y
<1>1. PICK sts : sts = {y}
  OBVIOUS
<1>2. sts \subseteq {"CONNECTING", "PROCESSING"} /\ Touched(s, t, c, sts)
  BY <1>1
<1>3. /\ Sound(t, NULL, X) /\ Opened(t, c) /\ Opened(t, NULL) /\ Rel(s, t, NULL, {})
      /\ t.conn[c].st \in sts
  BY <1>2, TouchedSound
<1> QED BY <1>1, <1>3 DEF Ready

\* A connect that succeeds at once: the nested onWrite writes, and what it
\* does on an error is one of the calls of F.
LEMMA ConnectedSound ==
  ASSUME NEW F, Good(F), NEW s, NEW c \in Conns, NEW X, Sound(s, NULL, X), Opened(s, c),
         NEW t \in Connected(F, s, c)
  PROVE  Ready(t, NULL, X) /\ Rel(s, t, NULL, {})
<1>1. s \in State
  BY DEF Sound
<1>2. PICK u : u = [s EXCEPT !.conn[c].st = "PROCESSING"]
  OBVIOUS
<1>3. Touched(s, u, c, {"PROCESSING"})
  BY <1>1, <1>2, ConnectedTouches
<1>4. Ready(u, NULL, X) /\ Opened(u, c) /\ Rel(s, u, NULL, {}) /\ u.conn[c].st = "PROCESSING"
  BY <1>3, TouchReady
<1> DEFINE Ts(o) == IF o.error = "" THEN {o.s} ELSE States(F.error[o.s][c][o.error])
<1>5. t \in UNION {Ts(o) : o \in DoWrite(u, c)}
  BY <1>2, Zenon DEF Connected
<1>6. PICK o \in DoWrite(u, c) : t \in Ts(o)
  <2> HIDE DEF Ts
  <2> QED BY <1>5
<1>7. PICK v, x : v = o.s /\ x = o.error
  OBVIOUS
<1>8. u \in State /\ Sound(u, NULL, X)
  BY <1>4 DEF Ready, Sound
<1>9. Touched(u, v, c, {"PROCESSING"}) /\ (x = "" \/ x \in WriteErrors)
  BY <1>4, <1>6, <1>7, <1>8, DoWriteTouches
<1>10. Ready(v, NULL, X) /\ Opened(v, c) /\ Rel(u, v, NULL, {})
  BY <1>4, <1>8, <1>9, TouchReady
<1>11. Rel(s, v, NULL, {})
  BY <1>4, <1>10, RelTrans
<1>12. CASE x = ""
  <2>1. t = v
    BY <1>6, <1>7, <1>12
  <2> QED BY <2>1, <1>10, <1>11
<1>13. CASE x # ""
  <2>1. t \in States(F.error[v][c][x])
    BY <1>6, <1>7, <1>13
  <2>2. PICK e \in F.error[v][c][x] : t = e.s
    BY <2>1, Zenon DEF States
  <2>3. Sound(v, NULL, X) /\ x \in WriteErrors
    BY <1>9, <1>10, <1>13 DEF Ready
  <2>4. Errored(v, e, c, X)
    BY <1>10, <2>2, <2>3 DEF Good, GoodError
  <2>5. Ready(t, NULL, X) /\ Rel(v, t, NULL, {})
    BY <2>2, <2>4 DEF Errored
  <2> QED BY <1>11, <2>5, RelTrans
<1> QED BY <1>12, <1>13

\* The ways of reconnect; v is the state it leaves.
SocketWays(F, s, c, error, v) ==
  \/ error = "" /\ (v = NewSocket(s, c) \/ v \in Connected(F, NewSocket(s, c), c))
  \/ error # "" /\ s.faults > 0 /\ v = Spend(NoSocket(s, c))

LEMMA ReconnectWays ==
  ASSUME NEW F, NEW s, NEW c, NEW o \in Reconnect(F, s, c)
  PROVE  SocketWays(F, s, c, o.error, o.s)
<1> DEFINE new == NewSocket(s, c)
           old == NoSocket(s, c)
           E == {"REFUSED", "AGAIN", "OTHER"}
           Ts == {new} \cup Connected(F, new, c)
<1>1. o \in {[s |-> t, error |-> ""] : t \in Ts}
              \cup {[s |-> Spend(old), error |-> x] : x \in MayFail(s, E)}
  BY Zenon DEF Reconnect, NewSocket, NoSocket
<1> HIDE DEF Ts, E, new, old
<1>2. \/ \E t \in Ts : o = [s |-> t, error |-> ""]
      \/ \E x \in MayFail(s, E) : o = [s |-> Spend(old), error |-> x]
  BY <1>1, Zenon
<1>3. ASSUME NEW t \in Ts, o = [s |-> t, error |-> ""] PROVE o.error = "" /\ o.s \in Ts
  BY <1>3, OutcomeFields, Zenon
<1>4. ASSUME NEW x \in MayFail(s, E), o = [s |-> Spend(old), error |-> x]
      PROVE  o.error # "" /\ s.faults > 0 /\ o.s = Spend(old)
  <2>1. x \in E /\ s.faults > 0
    BY <1>4, FailsOnce, Zenon
  <2>2. x # ""
    BY <2>1 DEF E
  <2>3. o.s = Spend(old) /\ o.error = x
    BY <1>4, OutcomeFields, Zenon
  <2> QED BY <2>1, <2>2, <2>3
<1>5. (o.error = "" /\ o.s \in Ts) \/ (o.error # "" /\ s.faults > 0 /\ o.s = Spend(old))
  BY <1>2, <1>3, <1>4, Zenon
<1>6. o.error = "" /\ o.s \in Ts => o.s = new \/ o.s \in Connected(F, new, c)
  BY Zenon DEF Ts
<1> QED BY <1>5, <1>6, Zenon DEF SocketWays, new, old

LEMMA ReconnectSound ==
  ASSUME NEW F, Good(F), NEW s, NEW c \in Conns, NEW X, Sound(s, NULL, X), Opened(s, c),
         NEW o \in Reconnect(F, s, c), NEW v, v = o.s
  PROVE  /\ Sound(v, NULL, X) /\ Rel(s, v, NULL, {})
         /\ \/ o.error = "" /\ Opened(v, NULL)
            \/ o.error # "" /\ Opened(v, c)
<1>1. s \in State /\ s.conn[c] \in ConnRec
  BY StateTypes DEF Sound
<1>2. PICK new : new = NewSocket(s, c)
  OBVIOUS
<1>3. PICK old : old = NoSocket(s, c)
  OBVIOUS
<1>4. SocketWays(F, s, c, o.error, v)
  BY ReconnectWays
<1>5. CASE o.error = "" /\ (v = new \/ v \in Connected(F, new, c))
  <2>1. Touched(s, new, c, {"CONNECTING"})
    BY <1>1, <1>2, NewTouches
  <2>2. Ready(new, NULL, X) /\ Opened(new, c) /\ Rel(s, new, NULL, {})
    BY <2>1, TouchReady
  <2>3. Sound(new, NULL, X)
    BY <2>2 DEF Ready
  <2>4. CASE v = new
    BY <1>5, <2>2, <2>4 DEF Ready
  <2>5. CASE v \in Connected(F, new, c)
    <3>1. Ready(v, NULL, X) /\ Rel(new, v, NULL, {})
      BY <2>2, <2>3, <2>5, ConnectedSound
    <3>2. Rel(s, v, NULL, {})
      BY <2>2, <3>1, RelTrans
    <3> QED BY <1>5, <3>1, <3>2 DEF Ready
  <2> QED BY <1>5, <2>4, <2>5
<1>6. CASE o.error # "" /\ s.faults > 0 /\ v = Spend(old)
  <2>1. PICK x : x = [s.conn[c] EXCEPT !.st = "DISCONNECTED", !.toClose = FALSE]
    OBVIOUS
  <2>2. PICK sts : sts = {"DISCONNECTED"}
    OBVIOUS
  <2>3. x \in ConnRec /\ x.req = s.conn[c].req /\ x.st \in sts
    BY <1>1, <2>1, <2>2 DEF ConnRec
  <2>4. old = [s EXCEPT !.conn[c] = x]
    BY <1>3, <2>1 DEF NoSocket
  <2>5. Touched(s, old, c, sts) /\ old.faults = s.faults
    BY <1>1, <2>3, <2>4, SetTouches
  <2>6. Touched(s, v, c, sts)
    BY <1>1, <1>6, <2>5, SpendTouches
  <2>7. Sound(v, NULL, X) /\ Opened(v, c) /\ Rel(s, v, NULL, {})
    BY <2>6, TouchedSound
  <2> QED BY <1>6, <2>7
<1> QED BY <1>2, <1>3, <1>4, <1>5, <1>6, Zenon DEF SocketWays

\* The ways of connError; t is closed, inc has the next attempt counted.
RetryWays(F, t, inc, c, r, error, used, o) ==
  \/ o \in ConnectionError(F, t, c, error, used)
  \/ /\ r # NULL
     /\ \E p \in Reconnect(F, inc, c) :
          IF p.error = "" THEN o = Result(p.s, 0)
          ELSE o \in ConnectionError(F, p.s, c, error, FALSE)

LEMMA ConnErrorWays ==
  ASSUME NEW F, NEW s, NEW c, NEW error, NEW used, NEW o \in ConnError(F, s, c, error, used)
  PROVE  RetryWays(F, Close(s, c), ResetConnector(IncAttempts(Close(s, c), s.conn[c].req), s.conn[c].req),
                   c, s.conn[c].req, error, used, o)
<1> DEFINE t == Close(s, c)
           r == s.conn[c].req
           cond == /\ r # NULL /\ used /\ error = "RESET"
                   /\ IsRecoverable(t, r)
                   /\ t.wk[c[1]].free = <<>> \/ t.req[r].att % 3 = 0
           Ps == Reconnect(F, ResetConnector(IncAttempts(t, r), r), c)
           Os(p) == IF p.error = "" THEN {Result(p.s, 0)}
                    ELSE ConnectionError(F, p.s, c, error, FALSE)
<1>1. o \in IF cond THEN UNION {Os(p) : p \in Ps} ELSE ConnectionError(F, t, c, error, used)
  BY Zenon DEF ConnError
<1>2. CASE cond
  <2>1. PICK p \in Ps : o \in Os(p)
    <3> HIDE DEF cond, Ps, Os
    <3> QED BY <1>1, <1>2
  <2>2. r # NULL
    BY <1>2
  <2>3. IF p.error = "" THEN o = Result(p.s, 0) ELSE o \in ConnectionError(F, p.s, c, error, FALSE)
    BY <2>1, Zenon
  <2> QED BY <2>1, <2>2, <2>3, Zenon DEF RetryWays
<1>3. CASE ~cond
  <2>1. o \in ConnectionError(F, t, c, error, used)
    BY <1>1, <1>3, Zenon
  <2> QED BY <2>1, Zenon DEF RetryWays
<1> QED BY <1>2, <1>3

LEMMA ConnErrorSound ==
  ASSUME NEW F, Good(F), NEW s, NEW c \in Conns, NEW X, Sound(s, NULL, X), Opened(s, c),
         NEW error, NEW used, NEW o \in ConnError(F, s, c, error, used)
  PROVE  Errored(s, o, c, X)
<1>1. s \in State /\ NULL \notin Conns
  BY ExtWorkerAssumption DEF Sound
<1>2. PICK t : t = Close(s, c)
  OBVIOUS
<1>3. Touched(s, t, c, {"DISCONNECTED"})
  BY <1>1, <1>2, CloseTouches
<1>4. /\ Sound(t, NULL, X) /\ Opened(t, c) /\ Rel(s, t, NULL, {})
      /\ t.conn[c].st = "DISCONNECTED" /\ t.conn[c].req = s.conn[c].req
  BY SMTT(30), <1>3, TouchedSound
<1> DEFINE Step(u) == Sound(u, NULL, X) /\ Opened(u, c) /\ Rel(s, u, NULL, {})
<1>5. ASSUME NEW u, Step(u), NEW x, NEW b, o \in ConnectionError(F, u, c, x, b)
      PROVE  Errored(s, o, c, X)
  <2>1. Errored(u, o, c, X)
    BY <1>5, ConnectionErrorSound
  <2>2. Rel(s, o.s, NULL, {})
    BY <1>5, <2>1, RelTrans DEF Errored
  <2> QED BY <2>1, <2>2 DEF Errored
<1>6. CASE o \in ConnectionError(F, t, c, error, used)
  BY <1>4, <1>5, <1>6
<1>7. PICK r : r = s.conn[c].req
  OBVIOUS
<1>8. PICK inc : inc = ResetConnector(IncAttempts(t, r), r)
  OBVIOUS
<1>9. CASE /\ r # NULL
           /\ \E p \in Reconnect(F, inc, c) :
                IF p.error = "" THEN o = Result(p.s, 0)
                ELSE o \in ConnectionError(F, p.s, c, error, FALSE)
  <2>1. r \in Requests /\ t \in State
    BY <1>1, <1>4, <1>7, <1>9, StateTypes DEF ConnRec, Sound
  <2>2. t.req[r].proc = c /\ Underway(t, r) /\ Placed(t, r)
    <3>1. t.req[r].proc = c
      BY <1>4, <1>7, <2>1 DEF Sound, Linked
    <3> QED BY <1>1, <1>4, <2>1, <3>1 DEF Sound, Places, Placed
  <2>3. /\ Retagged(t, inc, r) /\ inc.req[r].w = t.req[r].w
        /\ ~inc.req[r].err /\ ~inc.req[r].abort /\ ~inc.req[r].complete
    BY <1>8, <2>1, RetryEffect
  <2>4. PICK x : x = inc.req[r] /\ ReqOnly(t, inc, r, x) /\ x.proc = t.req[r].proc /\ x.w = t.req[r].w
    BY <2>3 DEF Retagged
  <2>5. Underway(inc, r)
    BY <2>2, <2>3 DEF Underway, Retagged
  <2>6. Sound(inc, NULL, X) /\ Rel(t, inc, NULL, {}) /\ OpenKept(t, inc)
    BY <1>4, <2>1, <2>2, <2>4, <2>5, PlacedReqSound
  <2>7. Step(inc)
    <3>1. Rel(s, inc, NULL, {})
      BY <1>4, <2>6, RelTrans
    <3> QED BY <1>4, <2>6, <3>1 DEF OpenKept
  <2>9. PICK p \in Reconnect(F, inc, c) :
          IF p.error = "" THEN o = Result(p.s, 0)
          ELSE o \in ConnectionError(F, p.s, c, error, FALSE)
    BY <1>9
  <2>10. PICK v : v = p.s
    OBVIOUS
  <2>11. /\ Sound(v, NULL, X) /\ Rel(inc, v, NULL, {})
         /\ \/ p.error = "" /\ Opened(v, NULL)
            \/ p.error # "" /\ Opened(v, c)
    BY <2>7, <2>9, <2>10, ReconnectSound
  <2>12. Rel(s, v, NULL, {})
    BY <2>7, <2>11, RelTrans
  <2>13. CASE p.error = ""
    <3>1. o = Result(v, 0)
      BY <2>9, <2>10, <2>13
    <3>2. o.s = v /\ o.ret = 0
      BY <3>1 DEF Result
    <3> QED BY <2>11, <2>12, <2>13, <3>2 DEF Errored, Ready
  <2>14. CASE p.error # ""
    <3>1. o \in ConnectionError(F, v, c, error, FALSE)
      BY <2>9, <2>10, <2>14
    <3>2. Step(v)
      BY <2>11, <2>12, <2>14
    <3> HIDE DEF Step
    <3> QED BY <3>1, <3>2, <1>5
  <2> QED BY <2>13, <2>14
<1>10. RetryWays(F, t, inc, c, r, error, used, o)
  BY <1>2, <1>7, <1>8, ConnErrorWays
<1> QED BY <1>6, <1>9, <1>10, Zenon DEF RetryWays

\* The ways of assignReq; a has connection and request linked.
AssignWays(F, a, c, o) ==
  \E p \in IF a.conn[c].st = "PROCESSING" THEN DoWrite(a, c) ELSE Reconnect(F, a, c) :
    IF p.error = "" THEN o = Result(p.s, 0)
    ELSE \E used : o \in ConnError(F, p.s, c, p.error, used)

Reopened(s, c) == IF s.conn[c].st = "CLOSING" THEN Close(s, c) ELSE s

LEMMA AssignReqWays ==
  ASSUME NEW F, NEW s, NEW c, NEW r, NEW o \in AssignReq(F, s, c, r)
  PROVE  AssignWays(F, AddRequest(Reopened(s, c), c, r), c, o)
<1> DEFINE a == AddRequest(Reopened(s, c), c, r)
           open == a.conn[c].st = "PROCESSING"
           Ps == IF open THEN DoWrite(a, c) ELSE Reconnect(F, a, c)
           Os(p) == IF p.error = "" THEN {Result(p.s, 0)}
                    ELSE ConnError(F, p.s, c, p.error, open)
<1>1. o \in UNION {Os(p) : p \in Ps}
  BY Zenon DEF AssignReq, Reopened
<1>2. PICK p \in Ps : o \in Os(p)
  <2> HIDE DEF Ps, Os
  <2> QED BY <1>1
<1>3. IF p.error = "" THEN o = Result(p.s, 0) ELSE o \in ConnError(F, p.s, c, p.error, open)
  BY <1>2, Zenon
<1> QED BY <1>2, <1>3, Zenon DEF AssignWays

\* The connection in hand is given the request in hand.
LEMMA AssignLinks ==
  ASSUME NEW s, NEW c \in Conns, NEW r \in Requests, NEW X, Offered(s, c, X, r),
         NEW a, a = AddRequest(Reopened(s, c), c, r)
  PROVE  Sound(a, NULL, X) /\ Opened(a, c) /\ Rel(s, a, c[1], {r})
<1>1. Carrying(s, c, X, r) /\ Opened(s, NULL) /\ s.req[r].w = c[1]
  BY DEF Offered
<1>2. NULL \notin Conns
  BY ExtWorkerAssumption
<1>3. s \in State /\ s.conn[c].req = NULL
  BY <1>1, <1>2 DEF Carrying, Holding, Sound, Linked
<1>4. PICK b : b = Reopened(s, c)
  OBVIOUS
<1>5. /\ Carrying(b, c, X, r) /\ Opened(b, NULL) /\ b.req[r].w = c[1] /\ Rel(s, b, c[1], {r})
  <2>1. CASE s.conn[c].st = "CLOSING"
    <3>1. b = Close(s, c)
      BY <1>4, <2>1 DEF Reopened
    <3>2. Carrying(b, c, X, r) /\ Quiet(s, b) /\ BadKept(s, b) /\ b.req = s.req
      BY <1>1, <1>3, <3>1, CloseCarry
    <3>3. Opened(b, NULL) /\ Rel(s, b, NULL, {r})
      BY <1>1, <3>2, QuietReady
    <3>4. Rel(s, b, c[1], {r})
      BY <3>3, RelFromNull
    <3> QED BY <1>1, <3>2, <3>3, <3>4
  <2>2. CASE s.conn[c].st # "CLOSING"
    <3>1. b = s
      BY <1>4, <2>2 DEF Reopened
    <3>2. Rel(s, s, c[1], {r})
      BY RelRefl
    <3> QED BY <1>1, <3>1, <3>2
  <2> QED BY <2>1, <2>2
<1>6. b \in State /\ Underway(b, r)
  BY <1>5, CarrySound DEF Carrying
<1>7. a = AddRequest(b, c, r)
  BY <1>4
<1>8. /\ PairOnly(b, a, c, r) /\ a.conn[c].req = r /\ a.req[r].proc = c
      /\ a.req[r].w = b.req[r].w /\ a.conn[c].st = b.conn[c].st /\ Underway(a, r)
  BY <1>6, <1>7, AddRequestEffect
<1>9. a.req[r].w = c[1] /\ a.conn[c].st \in {b.conn[c].st, "DISCONNECTED"}
  BY <1>5, <1>8
<1>10. Sound(a, NULL, X) /\ Rel(b, a, c[1], {r}) /\ Opened(a, c)
  BY <1>5, <1>8, <1>9, LinkSound
<1>11. Rel(s, a, c[1], {r})
  BY <1>5, <1>10, RelTrans
<1> QED BY <1>10, <1>11

LEMMA AssignReqSound ==
  ASSUME NEW F, Good(F), NEW s, NEW c \in Conns, NEW r \in Requests, NEW X, Offered(s, c, X, r),
         NEW o \in AssignReq(F, s, c, r)
  PROVE  Assigned(s, o, c, X, r)
<1>1. PICK a : a = AddRequest(Reopened(s, c), c, r)
  OBVIOUS
<1>2. Sound(a, NULL, X) /\ Opened(a, c) /\ Rel(s, a, c[1], {r})
  BY <1>1, AssignLinks
<1>3. a \in State
  BY <1>2 DEF Sound
<1>4. AssignWays(F, a, c, o)
  BY <1>1, AssignReqWays
<1>5. PICK p, v, open :
        /\ v = p.s /\ open = (a.conn[c].st = "PROCESSING")
        /\ p \in IF open THEN DoWrite(a, c) ELSE Reconnect(F, a, c)
        /\ IF p.error = "" THEN o = Result(v, 0)
           ELSE \E used : o \in ConnError(F, v, c, p.error, used)
  BY <1>4 DEF AssignWays
<1>6. /\ Sound(v, NULL, X) /\ Opened(v, c) /\ Rel(a, v, NULL, {})
      /\ p.error = "" => Opened(v, NULL)
  <2>1. CASE open
    <3>1. PICK sts : sts = {a.conn[c].st}
      OBVIOUS
    <3>2. Touched(a, v, c, sts)
      BY <1>3, <1>5, <2>1, <3>1, DoWriteTouches
    <3>3. sts \subseteq {"CONNECTING", "PROCESSING"} /\ a.conn[c].st = "PROCESSING"
      BY <1>5, <2>1, <3>1
    <3> QED BY <1>2, <3>2, <3>3, TouchedSound
  <2>2. CASE ~open
    <3>1. p \in Reconnect(F, a, c)
      BY <1>5, <2>2
    <3>2. /\ Sound(v, NULL, X) /\ Rel(a, v, NULL, {})
          /\ \/ p.error = "" /\ Opened(v, NULL)
             \/ p.error # "" /\ Opened(v, c)
      BY <1>2, <1>5, <3>1, ReconnectSound
    <3>3. Opened(v, NULL) => Opened(v, c)
      BY ExtWorkerAssumption DEF Opened
    <3> QED BY <3>2, <3>3
  <2> QED BY <2>1, <2>2
<1>7. Rel(s, v, c[1], {r})
  <2>1. Rel(a, v, c[1], {})
    BY <1>6, RelFromNull
  <2>2. Rel(a, v, c[1], {r})
    BY <2>1, RelAdd
  <2> QED BY <1>2, <2>2, RelTrans
<1>8. CASE p.error = ""
  <2>1. o = Result(v, 0)
    BY <1>5, <1>8
  <2>2. o.s = v /\ o.ret = 0
    BY <2>1 DEF Result
  <2> QED BY <1>6, <1>7, <1>8, <2>2 DEF Assigned, Ready
<1>9. CASE p.error # ""
  <2>1. PICK error, used : o \in ConnError(F, v, c, error, used)
    BY <1>5, <1>9
  <2>2. Errored(v, o, c, X)
    BY <1>6, <2>1, ConnErrorSound
  <2>3. Rel(v, o.s, c[1], {})
    BY <2>2, RelFromNull DEF Errored
  <2>4. Rel(v, o.s, c[1], {r})
    BY <2>3, RelAdd
  <2>5. Rel(s, o.s, c[1], {r})
    BY <1>7, <2>4, RelTrans
  <2> QED BY <2>2, <2>5 DEF Errored, Assigned
<1> QED BY <1>8, <1>9

\* The first request of the queue in hand
LEMMA PopReady ==
  ASSUME NEW s, NEW w \in WorkerSet, NEW c, NEW X, Ready(s, c, X), s.wk[w].queue # <<>>,
         NEW r, r = Head(s.wk[w].queue), NEW t, t = PopFront(s, w)
  PROVE  /\ r \in Requests /\ Carrying(t, c, X, r) /\ t.req[r].w = w /\ Opened(t, NULL)
         /\ (~s.req[r].alive => Ready(t, c, X))
         /\ Rel(s, t, NULL, {}) /\ Placed(s, r) /\ t.req = s.req /\ t.conn = s.conn
         /\ t.wk[w].st = s.wk[w].st
<1>1. Sound(s, c, X) /\ Opened(s, NULL)
  BY DEF Ready
<1>2. /\ Carrying(t, c, X, r) /\ t.req[r].w = w
      /\ ~t.req[r].alive => Sound(t, c, X)
      /\ Placed(s, r) /\ Rel(s, t, NULL, {}) /\ OpenKept(s, t)
      /\ t.req = s.req /\ t.conn = s.conn
      /\ \A v \in WorkerSet : t.wk[v].st = s.wk[v].st
  BY <1>1, PopFrontSound
<1> QED BY <1>1, <1>2 DEF Ready, OpenKept, Carrying, Holding

\* A connection given back
LEMMA ReuseReady ==
  ASSUME NEW s, NEW c \in Conns, NEW X, Ready(s, c, X), NEW t, t = Reuse(s, c)
  PROVE  Ready(t, NULL, X) /\ Rel(s, t, NULL, {})
<1>1. Sound(t, NULL, X) /\ Quiet(s, t) /\ BadKept(s, t)
  BY ReuseSound DEF Ready
<1> QED BY <1>1, QuietReady DEF Ready

\* The request in hand on the connection in hand
LEMMA GiveReady ==
  ASSUME NEW F, Good(F), NEW s, NEW w \in WorkerSet, NEW c \in Conns, c[1] = w, NEW X,
         Ready(s, c, X), s.wk[w].queue # <<>>, NEW r, r = Head(s.wk[w].queue),
         NEW t, t = PopFront(s, w), NEW o \in F.assign[t][c][r]
  PROVE  /\ Ready(o.s, NULL, X) /\ Rel(s, o.s, w, {}) /\ Assigned(t, o, c, X, r)
<1>1. /\ r \in Requests /\ Carrying(t, c, X, r) /\ t.req[r].w = w /\ Opened(t, NULL)
      /\ Rel(s, t, NULL, {}) /\ Placed(s, r)
  BY PopReady
<1>2. Offered(t, c, X, r)
  BY <1>1 DEF Offered
<1>3. Assigned(t, o, c, X, r)
  BY <1>1, <1>2 DEF Good, GoodAssign
<1>4. Ready(o.s, NULL, X) /\ Rel(t, o.s, w, {r})
  BY <1>3 DEF Assigned
<1>5. Rel(s, t, w, {r})
  <2>1. Rel(s, t, w, {})
    BY <1>1, RelFromNull
  <2> QED BY <2>1, RelAdd
<1>6. Rel(s, o.s, w, {r})
  BY <1>4, <1>5, RelTrans
<1>7. Rel(s, o.s, w, {})
  BY <1>1, <1>6, RelPlaced
<1> QED BY <1>3, <1>4, <1>7

\* One turn of the loop of processPending
PendingTurn(F, s, w, c, t) ==
  \/ /\ ~s.req[Head(s.wk[w].queue)].alive
     /\ t \in F.pending[PopFront(s, w)][w][c]
  \/ \E o \in F.assign[PopFront(s, w)][c][Head(s.wk[w].queue)] :
       t \in IF o.ret = 0 THEN F.pending[o.s][w][NULL] ELSE DropRequest(F, o, c)

LEMMA PendingTurnSound ==
  ASSUME NEW F, Good(F), NEW s, NEW w \in WorkerSet, NEW c \in Conns, c[1] = w, NEW X,
         Ready(s, c, X), s.wk[w].queue # <<>>, NEW t, PendingTurn(F, s, w, c, t)
  PROVE  Served(s, t, w, X)
<1>1. PICK r, u : r = Head(s.wk[w].queue) /\ u = PopFront(s, w)
  OBVIOUS
<1>2. r \in Requests /\ (~s.req[r].alive => Ready(u, c, X)) /\ Rel(s, u, NULL, {})
  BY <1>1, PopReady
<1>3. CASE ~s.req[r].alive /\ t \in F.pending[u][w][c]
  <2>1. Served(u, t, w, X)
    BY <1>2, <1>3 DEF Good, GoodPending
  <2>2. Rel(s, u, w, {})
    BY <1>2, RelFromNull
  <2>3. Rel(s, t, w, {})
    BY <2>1, <2>2, RelTrans DEF Served
  <2> QED BY <2>1, <2>3 DEF Served
<1>4. ASSUME NEW o \in F.assign[u][c][r],
             t \in IF o.ret = 0 THEN F.pending[o.s][w][NULL] ELSE DropRequest(F, o, c)
      PROVE  Served(s, t, w, X)
  <2>1. Ready(o.s, NULL, X) /\ Rel(s, o.s, w, {}) /\ Assigned(u, o, c, X, r)
    BY <1>1, <1>4, GiveReady
  <2>2. CASE o.ret = 0
    <3>1. t \in F.pending[o.s][w][NULL]
      BY <1>4, <2>2
    <3>2. Served(o.s, t, w, X)
      BY <2>1, <3>1 DEF Good, GoodPending
    <3>3. Rel(s, t, w, {})
      BY <2>1, <3>2, RelTrans DEF Served
    <3> QED BY <3>2, <3>3 DEF Served
  <2>3. CASE o.ret # 0
    <3>1. t \in {o.s}
      BY <1>4, <2>1, <2>3, DropNothing
    <3> QED BY <2>1, <3>1 DEF Served
  <2> QED BY <2>2, <2>3
<1> QED BY <1>1, <1>3, <1>4 DEF PendingTurn

LEMMA PendingLoopWays ==
  ASSUME NEW F, NEW s, NEW w, NEW c, NEW t \in PendingLoop(F, s, w, c)
  PROVE  \/ s.wk[w].queue = <<>> /\ t = IF c = NULL THEN s ELSE Reuse(s, c)
         \/ c = NULL /\ GetConn(s, w).c = NULL /\ t = s
         \/ s.wk[w].queue # <<>> /\ c # NULL /\ PendingTurn(F, s, w, c, t)
         \/ /\ s.wk[w].queue # <<>> /\ c = NULL /\ GetConn(s, w).c # NULL
            /\ \/ /\ ~s.req[Head(s.wk[w].queue)].alive
                  /\ t \in F.pending[PopFront(GetConn(s, w).s, w)][w][GetConn(s, w).c]
               \/ \E o \in F.assign[PopFront(GetConn(s, w).s, w)][GetConn(s, w).c][Head(s.wk[w].queue)] :
                    t \in IF o.ret = 0 THEN F.pending[o.s][w][NULL]
                          ELSE DropRequest(F, o, GetConn(s, w).c)
<1> DEFINE g == IF c = NULL THEN GetConn(s, w) ELSE [s |-> s, c |-> c]
           r == Head(s.wk[w].queue)
           u == PopFront(g.s, w)
           Ts(o) == IF o.ret = 0 THEN F.pending[o.s][w][NULL] ELSE DropRequest(F, o, g.c)
<1>1. t \in IF s.wk[w].queue = <<>> THEN {IF c = NULL THEN s ELSE Reuse(s, c)}
            ELSE IF g.c = NULL THEN {s}
            ELSE IF ~s.req[r].alive THEN F.pending[u][w][g.c]
            ELSE UNION {Ts(o) : o \in F.assign[u][g.c][r]}
  BY Zenon DEF PendingLoop
<1>2. CASE s.wk[w].queue = <<>>
  BY <1>1, <1>2, Zenon
<1>3. c = NULL => g = GetConn(s, w)
  OBVIOUS
<1>4. c # NULL => g.s = s /\ g.c = c
  OBVIOUS
<1>5. CASE s.wk[w].queue # <<>> /\ g.c = NULL
  <2>1. t = s
    BY <1>1, <1>5
  <2> HIDE DEF g
  <2> QED BY <1>3, <1>4, <1>5, <2>1
<1>6. CASE s.wk[w].queue # <<>> /\ g.c # NULL
  <2>1. \/ ~s.req[r].alive /\ t \in F.pending[u][w][g.c]
        \/ \E o \in F.assign[u][g.c][r] : t \in Ts(o)
    <3> HIDE DEF g, r, u, Ts
    <3> QED BY <1>1, <1>6
  <2>2. CASE c = NULL
    <3>1. g = GetConn(s, w)
      BY <1>3, <2>2
    <3> HIDE DEF g
    <3> QED BY <1>6, <2>1, <2>2, <3>1
  <2>3. CASE c # NULL
    <3>1. g.s = s /\ g.c = c
      BY <1>4, <2>3
    <3> HIDE DEF g
    <3> QED BY <1>6, <2>1, <2>3, <3>1 DEF PendingTurn
  <2> QED BY <2>2, <2>3
<1> QED BY <1>2, <1>5, <1>6

LEMMA PendingLoopSound ==
  ASSUME NEW F, Good(F), NEW s, NEW w \in WorkerSet, NEW c \in Conns \cup {NULL}, NEW X,
         Ready(s, c, X), c # NULL => c[1] = w, NEW t \in PendingLoop(F, s, w, c)
  PROVE  Served(s, t, w, X)
<1>1. CASE s.wk[w].queue = <<>> /\ t = IF c = NULL THEN s ELSE Reuse(s, c)
  <2>1. CASE c = NULL
    <3>1. Rel(s, s, w, {})
      BY RelRefl
    <3> QED BY <1>1, <2>1, <3>1 DEF Served
  <2>2. CASE c # NULL
    <3>1. c \in Conns /\ t = Reuse(s, c)
      BY <1>1, <2>2
    <3>2. Ready(t, NULL, X) /\ Rel(s, t, NULL, {})
      BY <3>1, ReuseReady
    <3> QED BY <3>2, RelFromNull DEF Served
  <2> QED BY <2>1, <2>2
<1>2. CASE c = NULL /\ GetConn(s, w).c = NULL /\ t = s
  <2>1. Rel(s, s, w, {})
    BY RelRefl
  <2> QED BY <1>2, <2>1 DEF Served
<1>3. CASE s.wk[w].queue # <<>> /\ c # NULL /\ PendingTurn(F, s, w, c, t)
  BY <1>3, PendingTurnSound
<1>4. CASE /\ s.wk[w].queue # <<>> /\ c = NULL /\ GetConn(s, w).c # NULL
           /\ \/ /\ ~s.req[Head(s.wk[w].queue)].alive
                 /\ t \in F.pending[PopFront(GetConn(s, w).s, w)][w][GetConn(s, w).c]
              \/ \E o \in F.assign[PopFront(GetConn(s, w).s, w)][GetConn(s, w).c][Head(s.wk[w].queue)] :
                   t \in IF o.ret = 0 THEN F.pending[o.s][w][NULL]
                         ELSE DropRequest(F, o, GetConn(s, w).c)
  <2>1. PICK u, d : u = GetConn(s, w).s /\ d = GetConn(s, w).c
    OBVIOUS
  <2>2. Sound(s, NULL, X) /\ Opened(s, NULL)
    BY <1>4 DEF Ready
  <2>3. Got(s, u, w, d, X)
    <3>1. d # NULL
      BY <1>4, <2>1
    <3> QED BY <2>1, <2>2, <3>1, GetConnSound
  <2>4. /\ d \in Conns /\ d[1] = w /\ Sound(u, d, X) /\ Quiet(s, u) /\ BadKept(s, u)
        /\ u.wk[w].queue = s.wk[w].queue
    BY <2>3 DEF Got, BadKept
  <2>5. Opened(u, NULL) /\ Rel(s, u, NULL, {}) /\ u.req = s.req
    BY <2>2, <2>4, QuietReady
  <2>6. PendingTurn(F, u, w, d, t)
    <3>1. \/ /\ ~u.req[Head(u.wk[w].queue)].alive
             /\ t \in F.pending[PopFront(u, w)][w][d]
          \/ \E o \in F.assign[PopFront(u, w)][d][Head(u.wk[w].queue)] :
               t \in IF o.ret = 0 THEN F.pending[o.s][w][NULL] ELSE DropRequest(F, o, d)
      BY <1>4, <2>1, <2>4, <2>5
    <3> QED BY <3>1 DEF PendingTurn
  <2>7. Ready(u, d, X) /\ u.wk[w].queue # <<>>
    BY <1>4, <2>4, <2>5 DEF Ready
  <2>8. Served(u, t, w, X)
    BY <2>4, <2>6, <2>7, PendingTurnSound
  <2>9. Rel(s, u, w, {})
    BY <2>5, RelFromNull
  <2>10. Rel(s, t, w, {})
    BY <2>8, <2>9, RelTrans DEF Served
  <2> QED BY <2>8, <2>10 DEF Served
<1> QED BY <1>1, <1>2, <1>3, <1>4, PendingLoopWays, Zenon

\* One turn of the loop of recycleConn
RecycleTurn(F, s, c, r, t) ==
  \/ ~s.req[r].alive /\ t \in F.recycle[PopFront(s, c[1])][c]
  \/ \E o \in F.assign[PopFront(s, c[1])][c][r] :
       t \in IF o.ret = 0 \/ o.s.conn[c].req = NULL THEN {o.s}
             ELSE F.recycle[RemoveRequest(o.s, c)][c]

LEMMA RecycleLoopWays ==
  ASSUME NEW F, NEW s, NEW c, NEW t \in RecycleLoop(F, s, c)
  PROVE  \/ t = Reuse(s, c)
         \/ s.wk[c[1]].queue # <<>> /\ RecycleTurn(F, s, c, Head(s.wk[c[1]].queue), t)
<1> DEFINE r == Head(s.wk[c[1]].queue)
           u == PopFront(s, c[1])
           Ts(o) == IF o.ret = 0 \/ o.s.conn[c].req = NULL THEN {o.s}
                    ELSE F.recycle[RemoveRequest(o.s, c)][c]
<1>1. t \in IF s.wk[c[1]].queue = <<>> THEN {Reuse(s, c)}
            ELSE IF ~s.req[r].alive THEN F.recycle[u][c]
            ELSE UNION {Ts(o) : o \in F.assign[u][c][r]}
  BY Zenon DEF RecycleLoop
<1>2. CASE s.wk[c[1]].queue = <<>>
  BY <1>1, <1>2
<1>3. CASE s.wk[c[1]].queue # <<>>
  <2>1. \/ ~s.req[r].alive /\ t \in F.recycle[u][c]
        \/ \E o \in F.assign[u][c][r] : t \in Ts(o)
    <3> HIDE DEF r, u, Ts
    <3> QED BY <1>1, <1>3
  <2> QED BY <1>3, <2>1, Zenon DEF RecycleTurn
<1> QED BY <1>2, <1>3

LEMMA RecycleLoopSound ==
  ASSUME NEW F, Good(F), NEW s, NEW c \in Conns, NEW X, Ready(s, c, X),
         NEW t \in RecycleLoop(F, s, c)
  PROVE  Served(s, t, c[1], X)
<1>0. PICK w \in WorkerSet : w = c[1]
  BY ConnOwner
<1>1. CASE t = Reuse(s, c)
  <2>1. Ready(t, NULL, X) /\ Rel(s, t, NULL, {})
    BY <1>1, ReuseReady
  <2> QED BY <2>1, RelFromNull DEF Served
<1>2. CASE s.wk[c[1]].queue # <<>> /\ RecycleTurn(F, s, c, Head(s.wk[c[1]].queue), t)
  <2>1. PICK r, u : r = Head(s.wk[w].queue) /\ u = PopFront(s, w)
    OBVIOUS
  <2>2. s.wk[w].queue # <<>> /\ c[1] = w
    BY <1>0, <1>2
  <2>3. r \in Requests /\ (~s.req[r].alive => Ready(u, c, X)) /\ Rel(s, u, NULL, {})
    BY <2>1, <2>2, PopReady
  <2>4. RecycleTurn(F, s, c, r, t)
    BY <1>0, <1>2, <2>1
  <2>5. CASE ~s.req[r].alive /\ t \in F.recycle[u][c]
    <3>1. Served(u, t, w, X)
      BY <1>0, <2>3, <2>5 DEF Good, GoodRecycle
    <3>2. Rel(s, u, w, {})
      BY <2>3, RelFromNull
    <3>3. Rel(s, t, w, {})
      BY <3>1, <3>2, RelTrans DEF Served
    <3> QED BY <1>0, <3>1, <3>3 DEF Served
  <2>6. ASSUME NEW o \in F.assign[u][c][r],
               t \in IF o.ret = 0 \/ o.s.conn[c].req = NULL THEN {o.s}
                     ELSE F.recycle[RemoveRequest(o.s, c)][c]
        PROVE  Served(s, t, c[1], X)
    <3>1. Ready(o.s, NULL, X) /\ Rel(s, o.s, w, {}) /\ Assigned(u, o, c, X, r)
      BY <2>1, <2>2, <2>6, GiveReady
    <3>2. o.ret = 0 \/ o.s.conn[c].req = NULL
      BY <3>1 DEF Assigned
    <3>3. t = o.s
      BY <2>6, <3>2
    <3> QED BY <1>0, <3>1, <3>3 DEF Served
  <2> QED BY <2>1, <2>2, <2>4, <2>5, <2>6 DEF RecycleTurn
<1> QED BY <1>1, <1>2, RecycleLoopWays

\* One turn of failOutstandingReqs
FailTurn(F, v, w, r, t) ==
  \E u \in IF ~v.req[r].alive THEN {v}
           ELSE IF v.req[r].lb THEN {o.s : o \in TryRecover(F, v, r)}
           ELSE EndResponse(F, v, r) : t \in F.fail[u][w]

LEMMA FailWays ==
  ASSUME NEW F, NEW s, NEW w, NEW t \in FailOutstandingReqs(F, s, w)
  PROVE  \/ t = s
         \/ s.wk[w].queue # <<>> /\ FailTurn(F, PopFront(s, w), w, Head(s.wk[w].queue), t)
<1> DEFINE r == Head(s.wk[w].queue)
           v == PopFront(s, w)
           Us == IF ~v.req[r].alive THEN {v}
                 ELSE IF v.req[r].lb THEN {o.s : o \in TryRecover(F, v, r)}
                 ELSE EndResponse(F, v, r)
<1>1. t \in IF s.wk[w].queue = <<>> THEN {s} ELSE UNION {F.fail[u][w] : u \in Us}
  BY Zenon DEF FailOutstandingReqs
<1>2. CASE s.wk[w].queue = <<>>
  BY <1>1, <1>2
<1>3. CASE s.wk[w].queue # <<>>
  <2>1. \E u \in Us : t \in F.fail[u][w]
    <3> HIDE DEF Us
    <3> QED BY <1>1, <1>3
  <2> QED BY <1>3, <2>1, Zenon DEF FailTurn
<1> QED BY <1>2, <1>3

LEMMA FailSound ==
  ASSUME NEW F, Good(F), NEW s, NEW w \in WorkerSet, NEW X, Ready(s, NULL, X),
         s.wk[w].st = "BAD", NEW t \in FailOutstandingReqs(F, s, w)
  PROVE  Served(s, t, NULL, X)
<1>1. CASE t = s
  <2>1. Rel(s, s, NULL, {})
    BY RelRefl
  <2> QED BY <1>1, <2>1 DEF Served
<1>2. CASE s.wk[w].queue # <<>> /\ FailTurn(F, PopFront(s, w), w, Head(s.wk[w].queue), t)
  <2>1. PICK r, v : r = Head(s.wk[w].queue) /\ v = PopFront(s, w)
    OBVIOUS
  <2>2. /\ r \in Requests /\ Carrying(v, NULL, X, r) /\ v.req[r].w = w /\ Opened(v, NULL)
        /\ (~s.req[r].alive => Ready(v, NULL, X))
        /\ Rel(s, v, NULL, {}) /\ Placed(s, r) /\ v.req = s.req
    BY <1>2, <2>1, PopReady
  <2>3. Rel(s, v, NULL, {r})
    BY <2>2, RelAdd
  <2>4. PICK u \in IF ~v.req[r].alive THEN {v}
                   ELSE IF v.req[r].lb THEN {o.s : o \in TryRecover(F, v, r)}
                   ELSE EndResponse(F, v, r) : t \in F.fail[u][w]
    BY <1>2, <2>1 DEF FailTurn
  <2>5. Ready(u, NULL, X) /\ Rel(s, u, NULL, {})
    <3>1. CASE ~v.req[r].alive
      BY <2>2, <2>4, <3>1
    <3>2. CASE v.req[r].alive /\ v.req[r].lb
      <4>1. PICK o \in TryRecover(F, v, r) : u = o.s
        BY <2>4, <3>2
      <4>2. Recovered(v, o, X, r)
        BY <2>2, <4>1, TryRecoverSound
      <4>3. Rel(s, u, NULL, {r})
        BY <2>3, <4>1, <4>2, RelTrans DEF Recovered
      <4>4. Rel(s, u, NULL, {})
        BY <2>2, <4>3, RelPlaced
      <4> QED BY <4>1, <4>2, <4>4 DEF Recovered
    <3>3. CASE v.req[r].alive /\ ~v.req[r].lb
      <4>1. u \in EndResponse(F, v, r)
        BY <2>4, <3>3
      <4>2. Ready(u, NULL, X) /\ Rel(v, u, NULL, {r})
        BY <2>2, <4>1, EndHeld
      <4>3. Rel(s, u, NULL, {r})
        BY <2>3, <4>2, RelTrans
      <4>4. Rel(s, u, NULL, {})
        BY <2>2, <4>3, RelPlaced
      <4> QED BY <4>2, <4>4
    <3> QED BY <3>1, <3>2, <3>3
  <2>6. u.wk[w].st = "BAD"
    <3>1. NULL \notin WorkerSet
      BY ExtWorkerAssumption
    <3> QED BY <2>5, <3>1 DEF Rel, Barred
  <2>7. Served(u, t, NULL, X)
    BY <2>4, <2>5, <2>6 DEF Good, GoodFail
  <2>8. Rel(s, t, NULL, {})
    BY <2>5, <2>7, RelTrans DEF Served
  <2> QED BY <2>7, <2>8 DEF Served
<1> QED BY <1>1, <1>2, FailWays

\* The contract carries over to the calls one level above, and so it holds of
\* the calls at every depth.
LEMMA CallsAboveGood == ASSUME NEW F, Good(F) PROVE Good(CallsAbove(F))
<1> DEFINE G == CallsAbove(F)
<1>1. GoodAssign(G)
  <2> SUFFICES ASSUME NEW s, NEW X, NEW c \in Conns, NEW r \in Requests, Offered(s, c, X, r),
                      NEW o \in G.assign[s][c][r]
               PROVE  Assigned(s, o, c, X, r)
    BY DEF GoodAssign
  <2>1. s \in State
    BY DEF Offered, Carrying, Holding, Sound
  <2>2. o \in AssignReq(F, s, c, r)
    BY <2>1 DEF CallsAbove
  <2> QED BY <2>2, AssignReqSound
<1>2. GoodPending(G)
  <2> SUFFICES ASSUME NEW s, NEW X, NEW w \in WorkerSet, NEW c \in Conns \cup {NULL},
                      Ready(s, c, X), c # NULL => c[1] = w, NEW t \in G.pending[s][w][c]
               PROVE  Served(s, t, w, X)
    BY DEF GoodPending
  <2>1. s \in State
    BY DEF Ready, Sound
  <2>2. t \in PendingLoop(F, s, w, c)
    BY <2>1 DEF CallsAbove
  <2> QED BY <2>2, PendingLoopSound
<1>3. GoodRecycle(G)
  <2> SUFFICES ASSUME NEW s, NEW X, NEW c \in Conns, Ready(s, c, X), NEW t \in G.recycle[s][c]
               PROVE  Served(s, t, c[1], X)
    BY DEF GoodRecycle
  <2>1. s \in State
    BY DEF Ready, Sound
  <2>2. t \in RecycleLoop(F, s, c)
    BY <2>1 DEF CallsAbove
  <2> QED BY <2>2, RecycleLoopSound
<1>4. GoodFail(G)
  <2> SUFFICES ASSUME NEW s, NEW X, NEW w \in WorkerSet, Ready(s, NULL, X), s.wk[w].st = "BAD",
                      NEW t \in G.fail[s][w]
               PROVE  Served(s, t, NULL, X)
    BY DEF GoodFail
  <2>1. s \in State
    BY DEF Ready, Sound
  <2>2. t \in FailOutstandingReqs(F, s, w)
    BY <2>1 DEF CallsAbove
  <2> QED BY <2>2, FailSound
<1>5. GoodError(G)
  <2> SUFFICES ASSUME NEW s, NEW X, NEW c \in Conns, NEW x \in WriteErrors,
                      Sound(s, NULL, X), Opened(s, c), NEW o \in G.error[s][c][x]
               PROVE  Errored(s, o, c, X)
    BY DEF GoodError
  <2>1. s \in State
    BY DEF Sound
  <2>2. o \in ConnError(F, s, c, x, TRUE)
    BY <2>1 DEF CallsAbove
  <2> QED BY <2>2, ConnErrorSound
<1> HIDE DEF G
<1>6. Good(G)
  BY <1>1, <1>2, <1>3, <1>4, <1>5 DEF Good
<1> QED BY <1>6 DEF G

LEMMA NestedGood == Good(Nested)
BY CallsAboveGood, CallsGood

(***************************************************************************)
(* The callbacks: from a state between callbacks to the next one.          *)
(***************************************************************************)
LEMMA RecycleConnSound ==
  ASSUME NEW F, Good(F), NEW s, NEW c \in Conns, NEW X, Ready(s, c, X),
         NEW t \in RecycleConn(F, s, c)
  PROVE  Served(s, t, c[1], X)
<1>1. CASE s.conn[c].toClose
  <2>1. PICK w \in WorkerSet : w = c[1]
    BY ConnOwner
  <2>2. Sound(s, c, X) /\ Opened(s, NULL) /\ s.conn[c].req = NULL
    BY ExtWorkerAssumption DEF Ready, Sound, Linked
  <2>3. PICK u : u = Close(s, c)
    OBVIOUS
  <2>4. Sound(u, c, X) /\ Quiet(s, u) /\ BadKept(s, u) /\ u.conn[c].req = NULL
    BY <2>2, <2>3, CloseQuiet
  <2>5. PICK v : v = RemoveConn(u, c)
    OBVIOUS
  <2>6. Sound(v, NULL, X) /\ Quiet(u, v) /\ BadKept(u, v)
    BY <2>4, <2>5, RemoveConnSound
  <2>7. Quiet(s, v) /\ BadKept(s, v)
    BY <2>4, <2>6, QuietTrans DEF BadKept
  <2>8. Opened(v, NULL) /\ Rel(s, v, NULL, {})
    BY <2>2, <2>7, QuietReady
  <2>9. t \in F.pending[v][w][NULL]
    BY <1>1, <2>1, <2>3, <2>5 DEF RecycleConn
  <2>10. Ready(v, NULL, X)
    BY <2>6, <2>8 DEF Ready
  <2>11. Served(v, t, w, X)
    BY <2>9, <2>10 DEF Good, GoodPending
  <2>12. Rel(s, v, w, {})
    BY <2>8, RelFromNull
  <2>13. Rel(s, t, w, {})
    BY <2>11, <2>12, RelTrans DEF Served
  <2> QED BY <2>1, <2>11, <2>13 DEF Served
<1>2. CASE ~s.conn[c].toClose
  <2>1. t \in F.recycle[s][c]
    BY <1>2 DEF RecycleConn
  <2> QED BY <2>1 DEF Good, GoodRecycle
<1> QED BY <1>1, <1>2

\* The state u in which connection c is recycled after v
Parted(v, u, c, r) ==
  /\ u.conn[c].req = NULL /\ u.req[r].proc = NULL
  /\ u.req[r].complete = v.req[r].complete

\* The state in which releaseProcessor recycles the connection of request r
LEMMA ReleaseUnlinks ==
  ASSUME NEW F, NEW v \in State, NEW c \in Conns, NEW r \in Requests, v.req[r].proc = c,
         NEW t \in ReleaseProcessor(F, v, r)
  PROVE  \E u : t \in RecycleConn(F, u, c) /\ PairOnly(v, u, c, r) /\ Parted(v, u, c, r)
<1>1. v.req[r] \in ReqRec /\ v.conn[c] \in ConnRec /\ c # NULL
  BY StateTypes, ExtWorkerAssumption
<1> DEFINE x == [v.req[r] EXCEPT !.proc = NULL]
           y == [v.conn[c] EXCEPT !.req = NULL, !.sent = "no",
                   !.st = IF v.conn[c].sent # "no" /\ v.conn[c].st # "CLOSING"
                          THEN v.conn[c].st ELSE "DISCONNECTED"]
<1>2. x \in ReqRec /\ x.proc = NULL /\ x.complete = v.req[r].complete
  BY <1>1 DEF ReqRec
<1>3. y \in ConnRec /\ y.req = NULL
  BY <1>1 DEF ConnRec
<1>4. PICK a : a = [v EXCEPT !.req[r].proc = NULL]
  OBVIOUS
<1>5. a = [v EXCEPT !.req[r] = x]
  BY <1>4
<1>6. ReqOnly(v, a, r, x)
  <2> HIDE DEF x
  <2> QED BY <1>2, <1>5, ReqSet
<1>7. a \in State /\ a.conn = v.conn /\ a.wk = v.wk
  BY <1>6 DEF ReqOnly
<1>8. PICK u : u = [a EXCEPT !.conn[c] = y]
  OBVIOUS
<1>9. t \in RecycleConn(F, u, c)
  <2>1. t \in ProxyCleanUp(F, a, c)
    BY <1>1, <1>4 DEF ReleaseProcessor
  <2>2. u = [a EXCEPT !.conn[c] = [a.conn[c] EXCEPT !.req = NULL, !.sent = "no",
               !.st = IF a.conn[c].sent # "no" /\ a.conn[c].st # "CLOSING"
                      THEN a.conn[c].st ELSE "DISCONNECTED"]]
    BY <1>7, <1>8
  <2> QED BY <2>1, <2>2 DEF ProxyCleanUp
<1> HIDE DEF x, y
<1>10. ConnOnly(a, u, c, y)
  BY <1>3, <1>7, <1>8, ConnSet
<1>11. PairOnly(v, u, c, r) /\ u.conn[c] = y /\ u.req[r] = x
  BY <1>6, <1>10 DEF ReqOnly, ConnOnly, PairOnly
<1>12. Parted(v, u, c, r)
  BY <1>2, <1>3, <1>11 DEF Parted
<1> QED BY <1>9, <1>11, <1>12

\* A copy v of s in which only connection c and its request r differ: r is
\* marked and c perhaps to be closed, but they are still together.
Marked(s, v, c, r) ==
  /\ PairOnly(s, v, c, r) /\ s.conn[c].req = r /\ v.conn[c].req = r /\ v.req[r].proc = c

LEMMA ReleaseParts ==
  ASSUME NEW s, NEW c \in Conns, NEW r \in Requests, Ready(s, NULL, {}),
         NEW v, Marked(s, v, c, r), NEW t \in ReleaseProcessor(Nested, v, r)
  PROVE  \E u : /\ PairOnly(s, u, c, r) /\ Parted(v, u, c, r)
                /\ Holding(u, c, {}, r) /\ Opened(u, NULL)
                /\ Over(u, r) => Sound(u, c, {})
                /\ t \in RecycleConn(Nested, u, c)
<1>1. v \in State /\ v.req[r].proc = c /\ PairOnly(s, v, c, r) /\ s.conn[c].req = r
  BY DEF Marked, PairOnly
<1>2. PICK u : t \in RecycleConn(Nested, u, c) /\ PairOnly(v, u, c, r) /\ Parted(v, u, c, r)
  BY <1>1, ReleaseUnlinks
<1>3. u.conn[c].req = NULL /\ u.req[r].proc = NULL
  BY <1>2 DEF Parted
<1>4. PairOnly(s, u, c, r)
  BY <1>1, <1>2 DEF PairOnly
<1>5. Sound(s, NULL, {}) /\ Opened(s, c)
  BY ExtWorkerAssumption DEF Ready, Opened
<1>6. /\ Holding(u, c, {}, r) /\ (~u.req[r].live \/ Over(u, r) => Sound(u, c, {}))
      /\ (Opened(s, c) => Opened(u, NULL))
  BY <1>1, <1>2, <1>3, <1>4, <1>5, UnlinkSound
<1> QED BY <1>2, <1>4, <1>5, <1>6

SetComplete(v, r) == [v EXCEPT !.req[r].complete = TRUE]

LEMMA CompleteEffect ==
  ASSUME NEW v \in State, NEW r \in Requests, NEW z, z = SetComplete(v, r)
  PROVE  Retagged(v, z, r) /\ z.req[r].complete
<1>1. v.req[r] \in ReqRec
  BY StateTypes
<1>2. PICK x : x = [v.req[r] EXCEPT !.complete = TRUE]
  OBVIOUS
<1>3. /\ x \in ReqRec /\ x.live = v.req[r].live /\ x.alive = v.req[r].alive
      /\ x.proc = v.req[r].proc
  BY <1>1, <1>2 DEF ReqRec
<1>4. x.complete
  BY <1>1, <1>2 DEF ReqRec
<1>5. z = [v EXCEPT !.req[r] = x]
  BY <1>2 DEF SetComplete
<1>6. ReqOnly(v, z, r, x)
  BY <1>3, <1>5, ReqSet
<1>7. z.req[r] = x
  BY <1>6 DEF ReqOnly
<1> QED BY <1>3, <1>4, <1>6, <1>7 DEF Retagged

\* The end of the response to request r on connection c
LEMMA EndBusy ==
  ASSUME NEW s, NEW c \in Conns, NEW r \in Requests, Ready(s, NULL, {}),
         NEW v, Marked(s, v, c, r), v.req[r].hdr \/ v.req[r].abort, ~v.req[r].complete,
         NEW t \in EndResponse(Nested, v, r)
  PROVE  Ready(t, NULL, {})
<1>1. v \in State /\ PairOnly(s, v, c, r) /\ s \in State
  BY DEF Marked, PairOnly, Ready, Sound
<1>2. PICK z : z = SetComplete(v, r)
  OBVIOUS
<1>14. t \in ReleaseProcessor(Nested, z, r)
  BY <1>2 DEF EndResponse, SetComplete
<1>15. Retagged(v, z, r) /\ z.req[r].complete
  BY <1>1, <1>2, CompleteEffect
<1>3. Marked(s, z, c, r) /\ z.conn = v.conn
  BY <1>15 DEF Marked, PairOnly, Retagged, ReqOnly
<1>4. PICK u : /\ PairOnly(s, u, c, r) /\ Parted(z, u, c, r)
               /\ Holding(u, c, {}, r) /\ Opened(u, NULL)
               /\ Over(u, r) => Sound(u, c, {})
               /\ t \in RecycleConn(Nested, u, c)
  BY <1>14, <1>3, ReleaseParts
<1>5. u.req[r].complete
  BY <1>15, <1>4 DEF Parted
<1>6. Sound(u, c, {}) /\ Ready(u, c, {})
  BY <1>4, <1>5 DEF Over, Ready
<1>7. Served(u, t, c[1], {})
  BY <1>4, <1>6, NestedGood, RecycleConnSound
<1>8. PICK w : w = c[1]
  OBVIOUS
<1>9. Ready(t, NULL, {}) /\ Rel(u, t, w, {})
  BY <1>7, <1>8 DEF Served
<1> QED BY <1>9

LEMMA EventDoneSound ==
  ASSUME NEW u, Ready(u, NULL, {}), NEW c \in Conns, NEW t \in EventDone(u, c)
  PROVE  Ready(t, NULL, {})
<1>1. CASE u.conn[c].st # "CLOSING"
  <2>1. t = u
    BY <1>1 DEF EventDone
  <2> QED BY <2>1
<1>2. CASE u.conn[c].st = "CLOSING"
  <2>1. Sound(u, NULL, {}) /\ Opened(u, NULL) /\ c # NULL
    BY ExtWorkerAssumption DEF Ready
  <2>2. u.conn[c].req = NULL
    BY <1>2, <2>1 DEF Opened
  <2>3. PICK v : v = Close(u, c)
    OBVIOUS
  <2>4. Sound(v, NULL, {}) /\ Quiet(u, v) /\ BadKept(u, v) /\ v.conn[c].req = NULL
    BY <2>1, <2>2, <2>3, CloseQuiet
  <2>5. t = RemoveConn(v, c)
    BY <1>2, <2>2, <2>3 DEF EventDone
  <2>6. Sound(t, NULL, {}) /\ Quiet(v, t) /\ BadKept(v, t)
    BY <2>4, <2>5, RemoveConnSound
  <2>7. Quiet(u, t) /\ BadKept(u, t)
    BY <2>4, <2>6, QuietTrans DEF BadKept
  <2>8. Opened(t, NULL) /\ Rel(u, t, NULL, {})
    BY <2>1, <2>7, QuietReady
  <2> QED BY <2>6, <2>8 DEF Ready
<1> QED BY <1>1, <1>2

LEMMA TouchedTrans ==
  ASSUME NEW s, NEW t, NEW u, NEW c \in Conns, NEW sts, NEW ends,
         Touched(s, t, c, sts), Touched(t, u, c, ends)
  PROVE  Touched(s, u, c, ends)
BY DEF Touched, ConnOnly

\* A change of the connection alone, that leaves it open
LEMMA TouchStep ==
  ASSUME NEW s, NEW t, NEW c \in Conns, NEW sts, Ready(s, NULL, {}), Touched(s, t, c, sts),
         sts \subseteq {"CONNECTING", "PROCESSING"}
  PROVE  Ready(t, NULL, {})
<1>1. Sound(s, NULL, {}) /\ Opened(s, c)
  BY ExtWorkerAssumption DEF Ready, Opened
<1>2. Sound(t, NULL, {}) /\ Opened(t, NULL)
  BY <1>1, TouchedSound
<1> QED BY <1>2 DEF Ready

\* An error after such a change
LEMMA ErrorStep ==
  ASSUME NEW s, NEW u, NEW c \in Conns, NEW sts, Ready(s, NULL, {}), Touched(s, u, c, sts),
         NEW error, NEW used, NEW t \in States(ConnError(Nested, u, c, error, used))
  PROVE  Ready(t, NULL, {})
<1>1. Sound(s, NULL, {}) /\ Opened(s, c) /\ s \in State
  BY ExtWorkerAssumption DEF Ready, Opened, Sound
<1>2. Sound(u, NULL, {}) /\ Opened(u, c)
  BY <1>1, TouchedSound
<1>3. PICK o \in ConnError(Nested, u, c, error, used) : t = o.s
  BY DEF States
<1>4. Errored(u, o, c, {})
  BY <1>2, NestedGood, ConnErrorSound
<1> QED BY <1>3, <1>4 DEF Errored

LEMMA InitConnectedTouches ==
  ASSUME NEW s \in State, NEW c \in Conns, NEW o \in InitConnected(s, c)
  PROVE  \/ o.error = "" /\ Touched(s, o.s, c, {"PROCESSING"})
         \/ o.error # "" /\ Touched(s, o.s, c, {s.conn[c].st})
<1>1. \/ o = [s |-> [s EXCEPT !.conn[c].st = "PROCESSING"], error |-> ""]
      \/ \E x \in MayFail(s, {"OTHER"}) : o = [s |-> Spend(s), error |-> x]
  BY DEF InitConnected
<1>2. CASE o = [s |-> [s EXCEPT !.conn[c].st = "PROCESSING"], error |-> ""]
  <2>1. PICK t : t = [s EXCEPT !.conn[c].st = "PROCESSING"]
    OBVIOUS
  <2>2. o.s = t /\ o.error = ""
    BY <1>2, <2>1
  <2>3. PICK x : x = [s.conn[c] EXCEPT !.st = "PROCESSING"]
    OBVIOUS
  <2>4. x \in ConnRec /\ x.req = s.conn[c].req /\ x.st \in {"PROCESSING"}
    BY <2>3, StateTypes DEF ConnRec
  <2>5. t = [s EXCEPT !.conn[c] = x]
    BY <2>1, <2>3
  <2>6. PICK sts : sts = {"PROCESSING"}
    OBVIOUS
  <2>7. Touched(s, t, c, sts)
    BY <2>4, <2>5, <2>6, SetTouches
  <2> QED BY <2>2, <2>6, <2>7
<1>3. CASE \E x \in MayFail(s, {"OTHER"}) : o = [s |-> Spend(s), error |-> x]
  <2>1. PICK x \in MayFail(s, {"OTHER"}) : o = [s |-> Spend(s), error |-> x]
    BY <1>3
  <2>2. x = "OTHER" /\ s.faults > 0
    BY <2>1, FailsOnce
  <2>3. PICK t : t = Spend(s)
    OBVIOUS
  <2>4. o.s = t /\ o.error = "OTHER"
    BY <2>1, <2>2, <2>3
  <2>5. PICK sts : sts = {s.conn[c].st}
    OBVIOUS
  <2>6. Touched(s, s, c, sts)
    BY <2>5, NotTouched
  <2>7. Touched(s, t, c, sts)
    BY <2>2, <2>3, <2>6, SpendTouches
  <2> QED BY <2>4, <2>5, <2>7
<1> QED BY <1>1, <1>2, <1>3

\* Checked after a change of the connection that leaves it open
LEMMA CheckedStep ==
  ASSUME NEW s, NEW c \in Conns, NEW sts, Ready(s, NULL, {}), NEW o, Touched(s, o.s, c, sts),
         o.error = "" => sts \subseteq {"CONNECTING", "PROCESSING"}, NEW t \in Checked(o, c)
  PROVE  Ready(t, NULL, {})
<1>1. PICK u : u = o.s
  OBVIOUS
<1>2. Touched(s, u, c, sts)
  BY <1>1
<1>3. CASE o.error = ""
  <2>1. t = u
    BY <1>1, <1>3 DEF Checked
  <2> QED BY <1>2, <1>3, <2>1, TouchStep
<1>4. CASE o.error # ""
  <2>1. PICK error : error = o.error
    OBVIOUS
  <2>2. t \in States(ConnError(Nested, u, c, error, TRUE))
    BY <1>1, <1>4, <2>1 DEF Checked
  <2> QED BY <1>2, <2>2, ErrorStep
<1> QED BY <1>3, <1>4

LEMMA InitStep ==
  ASSUME NEW s, NEW c \in Conns, Ready(s, NULL, {}), NEW o \in InitConnected(s, c),
         NEW t \in Checked(o, c)
  PROVE  Ready(t, NULL, {})
<1>1. s \in State
  BY DEF Ready, Sound
<1>2. CASE o.error = "" /\ Touched(s, o.s, c, {"PROCESSING"})
  BY <1>2, CheckedStep
<1>3. CASE o.error # "" /\ Touched(s, o.s, c, {s.conn[c].st})
  BY <1>3, CheckedStep
<1> QED BY <1>1, <1>2, <1>3, InitConnectedTouches

LEMMA WriteStep ==
  ASSUME NEW s, NEW u, NEW c \in Conns, NEW sts, Ready(s, NULL, {}), Touched(s, u, c, sts),
         sts \subseteq {"CONNECTING", "PROCESSING"}, NEW o \in DoWrite(u, c),
         NEW t \in Checked(o, c)
  PROVE  Ready(t, NULL, {})
<1>1. u \in State
  BY DEF Touched, ConnOnly
<1>2. Touched(u, o.s, c, {u.conn[c].st})
  BY <1>1, DoWriteTouches
<1>3. u.conn[c].st \in sts
  BY TouchedSound DEF Ready
<1>4. PICK ends : ends = {u.conn[c].st}
  OBVIOUS
<1>5. PICK v : v = o.s
  OBVIOUS
<1>6. Touched(u, v, c, ends)
  BY <1>2, <1>4, <1>5
<1>7. Touched(s, v, c, ends)
  BY <1>6, TouchedTrans
<1>8. Touched(s, o.s, c, ends) /\ ends \subseteq {"CONNECTING", "PROCESSING"}
  BY <1>3, <1>4, <1>5, <1>7
<1> QED BY <1>8, CheckedStep

LEMMA NowFields ==
  ASSUME NEW s, s = Now PROVE s.wk = wk /\ s.conn = conn /\ s.req = req /\ s.faults = faults
BY DEF Now

\* What all results of a callback satisfy, the next state does.
LEMMA BecomeStep ==
  ASSUME NEW S, Become(S), \A t \in S : Ready(t, NULL, {}) PROVE Ready(Now', NULL, {})
<1>1. PICK t \in S : wk' = t.wk /\ conn' = t.conn /\ req' = t.req /\ faults' = t.faults
  BY DEF Become
<1>2. Ready(t, NULL, {}) /\ t \in State
  BY DEF Ready, Sound
<1>3. t = [wk |-> t.wk, conn |-> t.conn, req |-> t.req, faults |-> t.faults]
  BY <1>2 DEF State
<1>4. Now' = t
  BY <1>1, <1>3 DEF Now
<1> QED BY <1>2, <1>4

LEMMA OnWriteStep ==
  ASSUME Ready(Now, NULL, {}), NEW c \in Conns, OnWrite(c) PROVE Ready(Now', NULL, {})
<1>1. PICK s : s = Now
  OBVIOUS
<1>2. Ready(s, NULL, {}) /\ s \in State /\ s.conn = conn
  BY <1>1, NowFields DEF Ready, Sound
<1> DEFINE ready == IF s.conn[c].st = "CONNECTING" THEN InitConnected(s, c)
                    ELSE {[s |-> s, error |-> ""]}
           all == UNION {IF i.error = "" THEN DoWrite(i.s, c) ELSE {i} : i \in ready}
           S == UNION {Checked(o, c) : o \in all}
<1>3. Become(S) /\ s.conn[c].st \in {"CONNECTING", "PROCESSING"}
  BY <1>1, <1>2 DEF OnWrite
<1>4. ASSUME NEW t \in S PROVE Ready(t, NULL, {})
  <2>1. PICK o \in all : t \in Checked(o, c)
    OBVIOUS
  <2>2. PICK i \in ready : o \in IF i.error = "" THEN DoWrite(i.s, c) ELSE {i}
    OBVIOUS
  <2>3. CASE s.conn[c].st = "CONNECTING"
    <3>1. i \in InitConnected(s, c)
      BY <2>3
    <3>2. CASE i.error # ""
      <4>1. o = i
        BY <2>2, <3>2
      <4> QED BY <1>2, <2>1, <3>1, <4>1, InitStep
    <3>3. CASE i.error = ""
      <4>1. PICK u : u = i.s
        OBVIOUS
      <4>2. PICK sts : sts = {"PROCESSING"}
        OBVIOUS
      <4>3. Touched(s, u, c, sts)
        <5> HIDE DEF all, S, ready
        <5>1. Touched(s, i.s, c, {"PROCESSING"})
          BY <1>2, <3>1, <3>3, InitConnectedTouches
        <5> QED BY <4>1, <4>2, <5>1
      <4>4. o \in DoWrite(u, c) /\ sts \subseteq {"CONNECTING", "PROCESSING"}
        BY <2>2, <3>3, <4>1, <4>2
      <4> HIDE DEF all, S, ready
      <4> QED BY <1>2, <2>1, <4>3, <4>4, WriteStep
    <3> QED BY <3>2, <3>3
  <2>4. CASE s.conn[c].st # "CONNECTING"
    <3>1. i.s = s /\ i.error = ""
      <4>1. i = [s |-> s, error |-> ""]
        BY <2>4
      <4> QED BY <4>1, OutcomeFields, Zenon
    <3>2. PICK sts : sts = {s.conn[c].st}
      OBVIOUS
    <3>3. Touched(s, s, c, sts)
      BY <1>2, <3>2, NotTouched
    <3>4. o \in DoWrite(s, c) /\ sts \subseteq {"CONNECTING", "PROCESSING"}
      BY <1>3, <2>2, <3>1, <3>2
    <3> HIDE DEF all, S, ready
    <3> QED BY <1>2, <2>1, <3>3, <3>4, WriteStep
  <2> QED BY <2>3, <2>4
<1> HIDE DEF S
<1>5. Ready(Now', NULL, {})
  <2>1. PICK T : T = S
    OBVIOUS
  <2>2. Become(T) /\ \A t \in T : Ready(t, NULL, {})
    BY <1>3, <1>4, <2>1
  <2> QED BY <2>2, BecomeStep
<1> QED BY <1>1, <1>5

LEMMA OnSecTimerStep ==
  ASSUME Ready(Now, NULL, {}), NEW c \in Conns, OnSecTimer(c) PROVE Ready(Now', NULL, {})
<1>1. PICK s : s = Now
  OBVIOUS
<1>2. Ready(s, NULL, {}) /\ s \in State /\ s.conn = conn /\ s.faults = faults
  BY <1>1, NowFields DEF Ready, Sound
<1>3. CASE faults > 0 /\ Become(States(ConnError(Nested, Spend(Now), c, "TIMEDOUT", TRUE)))
  <2>1. PICK u : u = Spend(s)
    OBVIOUS
  <2>2. PICK S : S = States(ConnError(Nested, u, c, "TIMEDOUT", TRUE))
    OBVIOUS
  <2>3. Become(S)
    BY <1>1, <1>3, <2>1, <2>2
  <2>4. PICK sts : sts = {s.conn[c].st}
    OBVIOUS
  <2>5. Touched(s, s, c, sts)
    BY <1>2, <2>4, NotTouched
  <2>6. Touched(s, u, c, sts)
    BY <1>2, <1>3, <2>1, <2>5, SpendTouches
  <2>7. ASSUME NEW t \in S PROVE Ready(t, NULL, {})
    BY <1>2, <2>2, <2>6, ErrorStep
  <2> QED BY <1>1, <2>3, <2>7, BecomeStep
<1>4. CASE conn[c].req = NULL /\ Become({RemoveConn(Close(Now, c), c)})
  <2>1. PICK t : t = RemoveConn(Close(s, c), c)
    OBVIOUS
  <2>2. Ready(t, NULL, {})
    <3>1. Sound(s, NULL, {}) /\ Opened(s, NULL) /\ s.conn[c].req = NULL
      BY <1>2, <1>4 DEF Ready
    <3>2. PICK v : v = Close(s, c)
      OBVIOUS
    <3>3. Sound(v, NULL, {}) /\ Quiet(s, v) /\ BadKept(s, v) /\ v.conn[c].req = NULL
      BY <3>1, <3>2, CloseQuiet
    <3>4. t = RemoveConn(v, c)
      BY <2>1, <3>2
    <3>5. Sound(t, NULL, {}) /\ Quiet(v, t) /\ BadKept(v, t)
      BY <3>3, <3>4, RemoveConnSound
    <3>6. Quiet(s, t) /\ BadKept(s, t)
      BY <3>3, <3>5, QuietTrans DEF BadKept
    <3>7. Opened(t, NULL) /\ Rel(s, t, NULL, {})
      BY <3>1, <3>6, QuietReady
    <3>8. Ready(t, NULL, {})
      BY <3>5, <3>7 DEF Ready
    <3> QED BY <3>7, <3>8
  <2>3. PICK S : S = {t}
    OBVIOUS
  <2>4. Become(S)
    BY <1>1, <1>4, <2>1, <2>3
  <2>5. \A v \in S : Ready(v, NULL, {})
    BY <2>2, <2>3
  <2> QED BY <1>1, <2>4, <2>5, BecomeStep
<1> QED BY <1>3, <1>4 DEF OnSecTimer

LEMMA BusyFacts ==
  ASSUME NEW s, Ready(s, NULL, {}), NEW c \in Conns, NEW r \in Requests, s.conn[c].req = r
  PROVE  /\ s \in State /\ s.req[r].proc = c /\ Underway(s, r)
         /\ s.conn[c].st \in {"CONNECTING", "PROCESSING"}
<1>1. s \in State /\ s.req[r].proc = c
  BY DEF Ready, Sound, Linked
<1>2. c # NULL /\ r # NULL
  BY ExtWorkerAssumption
<1>3. Underway(s, r)
  BY <1>1, <1>2 DEF Ready, Sound, Places
<1>4. s.conn[c].st \in {"CONNECTING", "PROCESSING"}
  BY <1>2 DEF Ready, Opened
<1> QED BY <1>1, <1>3, <1>4

SetPair(s, r, x, c, y) == [[s EXCEPT !.req[r] = x] EXCEPT !.conn[c] = y]

LEMMA MarkEffect ==
  ASSUME NEW s \in State, NEW c \in Conns, NEW r \in Requests, s.conn[c].req = r,
         NEW x \in ReqRec, x.proc = c, NEW y \in ConnRec, y.req = r,
         NEW v, v = SetPair(s, r, x, c, y)
  PROVE  Marked(s, v, c, r) /\ v.req[r] = x /\ v.conn[c] = y
<1>1. PICK u : u = [s EXCEPT !.req[r] = x] /\ ReqOnly(s, u, r, x)
  BY ReqSet
<1>2. u \in State
  BY <1>1 DEF ReqOnly
<1>3. v = [u EXCEPT !.conn[c] = y]
  BY <1>1 DEF SetPair
<1>4. ConnOnly(u, v, c, y)
  BY <1>2, <1>3, ConnSet
<1>5. PairOnly(s, v, c, r) /\ v.conn[c] = y /\ v.req[r] = x
  BY <1>1, <1>4 DEF ReqOnly, ConnOnly, PairOnly
<1> QED BY <1>5 DEF Marked

\* Other flags of a connection and its request
LEMMA MarkedSound ==
  ASSUME NEW s, NEW v, NEW c \in Conns, NEW r \in Requests, Ready(s, NULL, {}),
         Marked(s, v, c, r), Underway(v, r), v.req[r].w = s.req[r].w,
         v.conn[c].st \in {"CONNECTING", "PROCESSING"}
  PROVE  Ready(v, NULL, {})
<1>1. /\ s \in State /\ v \in State /\ s.req[r].proc = c /\ v.req[r].proc = c
      /\ v.conn[c].req = s.conn[c].req /\ PairOnly(s, v, c, r) /\ c # NULL
  BY BusyFacts, ExtWorkerAssumption DEF Marked, PairOnly
<1>2. PICK x : x = v.req[r] /\ x \in ReqRec
  BY <1>1, StateTypes
<1>3. PICK u : u = [s EXCEPT !.req[r] = x] /\ ReqOnly(s, u, r, x)
  BY <1>1, <1>2, ReqSet
<1>4. Placed(s, r) /\ Sound(s, NULL, {}) /\ Opened(s, c)
  BY <1>1, ExtWorkerAssumption DEF Placed, Ready, Opened
<1>5. x.proc = s.req[r].proc /\ x.w = s.req[r].w /\ Underway(u, r)
  BY <1>1, <1>2, <1>3 DEF ReqOnly, Underway
<1>6. Sound(u, NULL, {}) /\ OpenKept(s, u)
  BY <1>3, <1>4, <1>5, PlacedReqSound
<1>7. Opened(u, c)
  BY <1>4, <1>6 DEF OpenKept
<1>8. PICK y : y = v.conn[c]
  OBVIOUS
<1>9. ConnOnly(u, v, c, y) /\ y.req = u.conn[c].req
  <2>1. v.req = u.req
    <3>1. v.req = [q \in Requests |-> v.req[q]] /\ u.req = [q \in Requests |-> u.req[q]]
      BY <1>1, <1>3 DEF State, ReqOnly
    <3>2. \A q \in Requests : v.req[q] = u.req[q]
      BY <1>1, <1>2, <1>3 DEF ReqOnly, PairOnly
    <3> QED BY <3>1, <3>2
  <2> QED BY <1>1, <1>3, <1>8, <2>1 DEF ReqOnly, PairOnly, ConnOnly
<1>10. Sound(v, NULL, {}) /\ Opened(v, NULL)
  BY <1>6, <1>7, <1>8, <1>9, ConnFlagsSound
<1> QED BY <1>10 DEF Ready

LEMMA OnTimerStep ==
  ASSUME Ready(Now, NULL, {}), NEW c \in Conns, OnTimer(c) PROVE Ready(Now', NULL, {})
<1>1. PICK s : s = Now
  OBVIOUS
<1>2. Ready(s, NULL, {}) /\ s \in State /\ s.conn = conn /\ s.req = req
  BY <1>1, NowFields DEF Ready, Sound
<1>3. PICK r \in Requests : r = s.conn[c].req /\ s.req[r].hdr
  BY <1>2, StateTypes DEF OnTimer, ConnRec
<1>4. PICK v : v = [s EXCEPT !.conn[c].st = "CLOSING"]
  OBVIOUS
<1>5. PICK S : S = EndResponse(Nested, v, r)
  OBVIOUS
<1>6. Become(S)
  BY <1>1, <1>2, <1>3, <1>4, <1>5 DEF OnTimer
<1>7. s.req[r].proc = c /\ Underway(s, r) /\ s.req[r] \in ReqRec /\ s.conn[c] \in ConnRec
  BY <1>2, <1>3, BusyFacts, StateTypes
<1>8. PICK x : x = s.req[r]
  OBVIOUS
<1>9. PICK y : y = [s.conn[c] EXCEPT !.st = "CLOSING"]
  OBVIOUS
<1>10. /\ y \in ConnRec /\ y.req = s.conn[c].req
       /\ y.st = "CLOSING"
  BY <1>7, <1>9 DEF ConnRec
<1>11. v = SetPair(s, r, x, c, y)
  BY <1>2, <1>4, <1>8, <1>9 DEF State, SetPair
<1>12. Marked(s, v, c, r) /\ v.req[r] = x /\ v.conn[c] = y
  <2>1. s.conn[c].req = r /\ x \in ReqRec /\ x.proc = c /\ y.req = r
    BY <1>3, <1>7, <1>8, <1>10
  <2> QED BY <1>2, <1>10, <1>11, <2>1, MarkEffect
<1>13. v.req[r].hdr /\ ~v.req[r].complete /\ v.conn[c].st # "PROCESSING"
  BY <1>3, <1>7, <1>8, <1>10, <1>12 DEF Underway
<1>14. ASSUME NEW t \in S PROVE Ready(t, NULL, {})
  BY <1>2, <1>5, <1>12, <1>13, EndBusy
<1> QED BY <1>1, <1>6, <1>14, BecomeStep

LEMMA OnErrorStep ==
  ASSUME Ready(Now, NULL, {}), NEW c \in Conns, OnError(c) PROVE Ready(Now', NULL, {})
<1>1. PICK s : s = Now
  OBVIOUS
<1>2. /\ Ready(s, NULL, {}) /\ s \in State /\ s.conn = conn /\ s.req = req
      /\ s.faults = faults
  BY <1>1, NowFields DEF Ready, Sound
<1>3. PICK u : u = [s EXCEPT !.conn[c].st = "CLOSING"]
  OBVIOUS
<1>4. PICK v : v = Spend(u)
  OBVIOUS
<1>5. PICK sts : sts = {"CLOSING"}
  OBVIOUS
<1>6. Touched(s, v, c, sts)
  <2>1. PICK y : y = [s.conn[c] EXCEPT !.st = "CLOSING"]
    OBVIOUS
  <2>2. y \in ConnRec /\ y.req = s.conn[c].req /\ y.st \in sts
    BY <1>2, <1>5, <2>1, StateTypes DEF ConnRec
  <2>3. u = [s EXCEPT !.conn[c] = y]
    BY <1>3, <2>1
  <2>4. Touched(s, u, c, sts) /\ u.faults = s.faults
    BY <1>2, <2>2, <2>3, SetTouches
  <2>5. u.faults > 0
    BY <1>2, <2>4 DEF OnError
  <2> QED BY <1>2, <1>4, <2>4, <2>5, SpendTouches
<1>7. PICK r : r = s.conn[c].req /\ r \in Requests \cup {NULL}
  BY <1>2, StateTypes DEF ConnRec
<1>8. CASE r = NULL
  <2>1. PICK S : S = {v}
    OBVIOUS
  <2>2. Become(S)
    BY <1>1, <1>2, <1>3, <1>4, <1>7, <1>8, <2>1 DEF OnError
  <2>3. Sound(s, NULL, {}) /\ Opened(s, c)
    BY <1>2, ExtWorkerAssumption DEF Ready, Opened
  <2>4. Sound(v, NULL, {}) /\ Opened(v, c) /\ v.conn[c].req = NULL
    BY ZenonT(40), <1>6, <1>7, <1>8, <2>3, TouchedSound
  <2>5. Opened(v, NULL)
    BY <2>4 DEF Opened
  <2>6. Ready(v, NULL, {})
    BY <2>4, <2>5 DEF Ready
  <2>7. \A t \in S : Ready(t, NULL, {})
    BY <2>1, <2>6
  <2> QED BY <1>1, <2>2, <2>7, BecomeStep
<1>9. CASE r \in Requests
  <2>1. r # NULL /\ Underway(s, r)
    BY <1>2, <1>7, <1>9, BusyFacts, ExtWorkerAssumption
  <2>2. ~s.req[r].complete /\ IsRecoverable(s, r)
    BY <2>1 DEF Underway, IsRecoverable
  <2>3. PICK S : S = Broken(v, c)
    OBVIOUS
  <2>4. Become(S)
    <3>1. v = Spend([Now EXCEPT !.conn[c].st = "CLOSING"])
      BY <1>1, <1>3, <1>4
    <3>2. conn[c].req = r /\ ~req[r].complete /\ IsRecoverable(Now, r) /\ r # NULL
      BY <1>1, <1>2, <1>7, <2>1, <2>2
    <3>3. Become(Broken(v, c))
      BY <3>1, <3>2 DEF OnError
    <3> QED BY <2>3, <3>3
  <2>5. ASSUME NEW t \in S PROVE Ready(t, NULL, {})
    <3>1. PICK x : t \in States(ConnError(Nested, v, c, x, TRUE))
      BY <2>3 DEF Broken
    <3> QED BY <1>2, <1>6, <3>1, ErrorStep
  <2> QED BY <1>1, <2>4, <2>5, BecomeStep
<1> QED BY <1>7, <1>8, <1>9

\* The connection breaks within the body: the response ends there, and then
\* the connection is closed, whatever was done with it since.
LEMMA RespResetStep ==
  ASSUME NEW s, Ready(s, NULL, {}), NEW c \in Conns, NEW r \in Requests, s.conn[c].req = r,
         NEW t \in RespReset(s, c)
  PROVE  Ready(t, NULL, {})
<1>1. /\ s \in State /\ s.req[r].proc = c /\ Underway(s, r) /\ s.req[r] \in ReqRec
      /\ s.conn[c] \in ConnRec
  BY BusyFacts, StateTypes
<1> DEFINE st == IF s.conn[c].toClose THEN "CLOSING" ELSE s.conn[c].st
           x == [s.req[r] EXCEPT !.abort = TRUE]
           y == [s.conn[c] EXCEPT !.st = st]
<1>2. x \in ReqRec /\ x.proc = c /\ x.abort /\ ~x.complete
  BY <1>1 DEF ReqRec, Underway
<1>3. y \in ConnRec /\ y.req = r
  BY <1>1 DEF ConnRec
<1>4. PICK v : v = [s EXCEPT !.req[r].abort = TRUE, !.conn[c].st = st]
  OBVIOUS
<1>5. v = SetPair(s, r, x, c, y)
  BY <1>1, <1>4 DEF State, SetPair
<1>6. PICK u \in EndResponse(Nested, v, r) : t \in Broken(u, c)
  BY <1>4 DEF RespReset
<1> HIDE DEF x, y, st
<1>7. Marked(s, v, c, r) /\ v.req[r] = x
  BY <1>1, <1>2, <1>3, <1>5, MarkEffect
<1>8. v.req[r].abort /\ ~v.req[r].complete
  BY <1>2, <1>7
<1>9. Ready(u, NULL, {})
  BY <1>7, <1>8, EndBusy
<1>10. PICK e, o : o \in ConnError(Nested, u, c, e, TRUE) /\ t = o.s
  BY <1>6 DEF Broken, States
<1>11. Sound(u, NULL, {}) /\ Opened(u, c)
  BY <1>9, ExtWorkerAssumption DEF Ready, Opened
<1>12. Errored(u, o, c, {})
  BY <1>10, <1>11, NestedGood, ConnErrorSound
<1> QED BY <1>10, <1>12 DEF Errored

GotHdr(s, c, r, x) == [s EXCEPT !.req[r].hdr = TRUE, !.conn[c].toClose = x]
EndMark(g, c, r, long) ==
  [g EXCEPT !.req[r].abort = @ \/ long,
            !.conn[c].st = IF long \/ g.conn[c].toClose THEN "CLOSING" ELSE @]

\* The header of the response to request r has come on connection c.
HasHdr(s, g, c, r) ==
  /\ Marked(s, g, c, r) /\ Underway(g, r) /\ g.req[r].hdr
  /\ g.req[r].w = s.req[r].w /\ g.conn[c].st = s.conn[c].st

LEMMA GotHdrEffect ==
  ASSUME NEW s, Ready(s, NULL, {}), NEW c \in Conns, NEW r \in Requests, s.conn[c].req = r,
         NEW toClose \in BOOLEAN, NEW g, g = GotHdr(s, c, r, toClose)
  PROVE  HasHdr(s, g, c, r)
<1>1. /\ s \in State /\ s.req[r].proc = c /\ Underway(s, r) /\ s.req[r] \in ReqRec
      /\ s.conn[c] \in ConnRec
  BY BusyFacts, StateTypes
<1> DEFINE x == [s.req[r] EXCEPT !.hdr = TRUE]
           y == [s.conn[c] EXCEPT !.toClose = toClose]
<1>2. /\ x \in ReqRec /\ x.proc = c /\ x.live /\ ~x.err /\ ~x.abort /\ ~x.complete /\ x.hdr
      /\ x.w = s.req[r].w
  BY <1>1 DEF ReqRec, Underway
<1>3. y \in ConnRec /\ y.req = r /\ y.st = s.conn[c].st
  BY <1>1 DEF ConnRec
<1>4. g = SetPair(s, r, x, c, y)
  BY <1>1 DEF State, SetPair, GotHdr
<1> HIDE DEF x, y
<1>5. Marked(s, g, c, r) /\ g.req[r] = x /\ g.conn[c] = y
  BY <1>1, <1>2, <1>3, <1>4, MarkEffect
<1> QED BY <1>2, <1>3, <1>5 DEF HasHdr, Underway

LEMMA EndMarkEffect ==
  ASSUME NEW s, NEW g, NEW c \in Conns, NEW r \in Requests, HasHdr(s, g, c, r),
         NEW long \in BOOLEAN, NEW v, v = EndMark(g, c, r, long)
  PROVE  Marked(s, v, c, r) /\ v.req[r].hdr /\ ~v.req[r].complete
<1>1. /\ g \in State /\ g.req[r].proc = c /\ Underway(g, r) /\ g.conn[c].req = r
      /\ Marked(s, g, c, r) /\ g.req[r].hdr
  BY DEF HasHdr, Marked, PairOnly
<1>2. g.req[r] \in ReqRec /\ g.conn[c] \in ConnRec
  BY <1>1, StateTypes
<1>3. PICK st : st = IF long \/ g.conn[c].toClose THEN "CLOSING" ELSE g.conn[c].st
  OBVIOUS
<1>4. PICK x : x = [g.req[r] EXCEPT !.abort = g.req[r].abort \/ long]
  OBVIOUS
<1>5. PICK y : y = [g.conn[c] EXCEPT !.st = st]
  OBVIOUS
<1>6. x \in ReqRec /\ x.proc = c /\ x.hdr /\ ~x.complete
  BY <1>1, <1>2, <1>4 DEF ReqRec, Underway
<1>7. y \in ConnRec /\ y.req = r
  BY <1>1, <1>2, <1>3, <1>5 DEF ConnRec
<1>8. v = SetPair(g, r, x, c, y)
  BY <1>1, <1>3, <1>4, <1>5 DEF State, SetPair, EndMark
<1>9. Marked(g, v, c, r) /\ v.req[r] = x /\ v.conn[c] = y
  BY <1>1, <1>6, <1>7, <1>8, MarkEffect
<1>10. Marked(s, v, c, r)
  BY <1>1, <1>9 DEF Marked, PairOnly
<1> QED BY <1>6, <1>9, <1>10

RespWays(s, c, r, t) ==
  \/ \E g : /\ \/ s.req[r].hdr /\ g = s
               \/ \E x \in BOOLEAN : g = GotHdr(s, c, r, x)
            /\ t = g \/ \E long \in BOOLEAN : t \in EndResponse(Nested, EndMark(g, c, r, long), r)
  \/ /\ s.faults > 0
     /\ t \in RespReset(Spend(s), c) \/ \E x : t \in States(ConnError(Nested, Spend(s), c, x, TRUE))

LEMMA ProcessRespWays ==
  ASSUME NEW s, NEW c, NEW t \in ProcessResp(s, c)
  PROVE  RespWays(s, c, s.conn[c].req, t)
<1> DEFINE r == s.conn[c].req
           hdr == s.req[r].hdr
           got == IF hdr THEN {s} ELSE {GotHdr(s, c, r, x) : x \in BOOLEAN}
           Ended(g, long) == EndResponse(Nested, EndMark(g, c, r, long), r)
           ended == UNION {Ended(g, FALSE) \cup Ended(g, TRUE) : g \in got}
           failed == UNION {IF hdr /\ x = "RESET" THEN RespReset(Spend(s), c)
                            ELSE States(ConnError(Nested, Spend(s), c, x, TRUE)) :
                              x \in MayFail(s, {"RESET", "OTHER"})}
<1>1. t \in (got \cup ended) \cup failed
  BY Zenon DEF ProcessResp, GotHdr, EndMark
<1>2. CASE t \in got
  BY <1>2 DEF RespWays
<1>3. CASE t \in ended
  <2> HIDE DEF Ended
  <2>1. PICK g \in got : t \in Ended(g, FALSE) \/ t \in Ended(g, TRUE)
    BY <1>3
  <2> USE DEF Ended
  <2>2. \E long \in BOOLEAN : t \in EndResponse(Nested, EndMark(g, c, r, long), r)
    BY <2>1
  <2>3. \/ s.req[r].hdr /\ g = s
        \/ \E x \in BOOLEAN : g = GotHdr(s, c, r, x)
    OBVIOUS
  <2> HIDE DEF got, ended, failed, Ended
  <2> QED BY <2>2, <2>3, Zenon DEF RespWays
<1>4. CASE t \in failed
  <2>1. PICK x \in MayFail(s, {"RESET", "OTHER"}) :
           t \in IF hdr /\ x = "RESET" THEN RespReset(Spend(s), c)
                 ELSE States(ConnError(Nested, Spend(s), c, x, TRUE))
    BY <1>4
  <2>2. s.faults > 0
    BY <2>1, FailsOnce
  <2> QED BY <2>1, <2>2 DEF RespWays
<1> QED BY <1>1, <1>2, <1>3, <1>4

LEMMA SpendStep ==
  ASSUME NEW s, NEW u, Ready(s, NULL, {}), s.faults > 0, u = Spend(s)
  PROVE  Ready(u, NULL, {}) /\ u.conn = s.conn
<1>1. s \in State
  BY DEF Ready, Sound
<1>2. u \in State /\ u.wk = s.wk /\ u.conn = s.conn /\ u.req = s.req
  BY <1>1, SpendEffect
<1>3. Ready(u, NULL, {})
  <2>1. Pools(u) /\ Linked(u, NULL) /\ Opened(u, NULL)
    BY <1>2 DEF Ready, Sound, Pools, Linked, Opened
  <2>2. Places(u)
    BY <1>2 DEF Ready, Sound, Places, Queued, Underway
  <2>3. NoneLost(u, {})
    BY <1>2 DEF Ready, Sound, NoneLost, Queued, Over, Placed
  <2> QED BY <1>2, <2>1, <2>2, <2>3 DEF Ready, Sound
<1> QED BY <1>2, <1>3

LEMMA ProcessRespStep ==
  ASSUME NEW s, Ready(s, NULL, {}), NEW c \in Conns, NEW r \in Requests, s.conn[c].req = r,
         NEW t \in ProcessResp(s, c)
  PROVE  Ready(t, NULL, {})
<1>1. RespWays(s, c, r, t)
  BY ProcessRespWays
<1>2. /\ s \in State /\ s.req[r].proc = c /\ Underway(s, r)
      /\ s.conn[c].st \in {"CONNECTING", "PROCESSING"}
  BY BusyFacts
<1>3. ASSUME NEW g, (s.req[r].hdr /\ g = s) \/ \E x \in BOOLEAN : g = GotHdr(s, c, r, x),
             t = g \/ \E long \in BOOLEAN : t \in EndResponse(Nested, EndMark(g, c, r, long), r)
      PROVE  Ready(t, NULL, {})
  <2>1. HasHdr(s, g, c, r)
    <3>1. CASE s.req[r].hdr /\ g = s
      BY <1>2, <3>1 DEF HasHdr, Marked, PairOnly
    <3>2. CASE \E x \in BOOLEAN : g = GotHdr(s, c, r, x)
      <4>1. PICK x \in BOOLEAN : g = GotHdr(s, c, r, x)
        BY <3>2
      <4> QED BY <4>1, GotHdrEffect
    <3> QED BY <1>3, <3>1, <3>2
  <2>2. CASE t = g
    <3>1. Marked(s, t, c, r) /\ Underway(t, r) /\ t.req[r].w = s.req[r].w
      BY <2>1, <2>2 DEF HasHdr
    <3>2. t.conn[c].st \in {"CONNECTING", "PROCESSING"}
      BY <1>2, <2>1, <2>2 DEF HasHdr
    <3> QED BY <3>1, <3>2, MarkedSound
  <2>3. CASE \E long \in BOOLEAN : t \in EndResponse(Nested, EndMark(g, c, r, long), r)
    <3>1. PICK long \in BOOLEAN : t \in EndResponse(Nested, EndMark(g, c, r, long), r)
      BY <2>3
    <3>2. PICK v : v = EndMark(g, c, r, long)
      OBVIOUS
    <3>3. Marked(s, v, c, r) /\ v.req[r].hdr /\ ~v.req[r].complete
      BY <2>1, <3>2, EndMarkEffect
    <3>4. t \in EndResponse(Nested, v, r)
      BY <3>1, <3>2
    <3> QED BY <3>3, <3>4, EndBusy
  <2> QED BY <1>3, <2>2, <2>3
<1>4. ASSUME s.faults > 0,
             \/ t \in RespReset(Spend(s), c)
             \/ \E x : t \in States(ConnError(Nested, Spend(s), c, x, TRUE))
      PROVE  Ready(t, NULL, {})
  <2>1. PICK u : u = Spend(s)
    OBVIOUS
  <2>2. Ready(u, NULL, {}) /\ u.conn = s.conn
    BY <1>4, <2>1, SpendStep
  <2>3. CASE t \in RespReset(u, c)
    <3>1. u.conn[c].req = r
      BY <2>2
    <3> QED BY <2>2, <2>3, <3>1, RespResetStep
  <2>4. CASE \E x : t \in States(ConnError(Nested, u, c, x, TRUE))
    <3>1. PICK x : t \in States(ConnError(Nested, u, c, x, TRUE))
      BY <2>4
    <3>2. PICK sts : sts = {u.conn[c].st}
      OBVIOUS
    <3>3. Touched(u, u, c, sts)
      BY <2>2, <3>2, NotTouched DEF Ready, Sound
    <3> QED BY <2>2, <3>1, <3>3, ErrorStep
  <2> QED BY <1>4, <2>1, <2>3, <2>4
<1> QED BY <1>1, <1>3, <1>4 DEF RespWays

OnReadStates(s, c) ==
  IF s.conn[c].st = "CONNECTING" THEN UNION {Checked(o, c) : o \in InitConnected(s, c)}
  ELSE IF s.conn[c].st = "CLOSING" THEN {s}
  ELSE IF s.conn[c].req = NULL THEN States(ConnError(Nested, s, c, "RESET", TRUE))
  ELSE ProcessResp(s, c)

LEMMA OnReadStatesStep ==
  ASSUME NEW s, Ready(s, NULL, {}), NEW c \in Conns, s.conn[c].st # "DISCONNECTED",
         NEW t \in OnReadStates(s, c)
  PROVE  Ready(t, NULL, {})
<1>1. s \in State
  BY DEF Ready, Sound
<1>2. s.conn[c].st \in {"CONNECTING", "CLOSING", "PROCESSING"} /\ s.conn[c].req \in Requests \cup {NULL}
  BY <1>1, StateTypes DEF ConnRec
<1>3. CASE s.conn[c].st = "CONNECTING"
  <2>1. PICK o \in InitConnected(s, c) : t \in Checked(o, c)
    <3>1. t \in UNION {Checked(o, c) : o \in InitConnected(s, c)}
      BY <1>3 DEF OnReadStates
    <3> QED BY <3>1
  <2> QED BY <2>1, InitStep
<1>4. CASE s.conn[c].st = "CLOSING"
  <2>1. t = s
    BY <1>4 DEF OnReadStates
  <2> QED BY <2>1
<1>5. CASE s.conn[c].st = "PROCESSING" /\ s.conn[c].req = NULL
  <2>1. t \in States(ConnError(Nested, s, c, "RESET", TRUE))
    BY <1>5 DEF OnReadStates
  <2>2. PICK sts : sts = {s.conn[c].st}
    OBVIOUS
  <2>3. Touched(s, s, c, sts)
    BY <1>1, <2>2, NotTouched
  <2> QED BY <2>1, <2>3, ErrorStep
<1>6. CASE s.conn[c].st = "PROCESSING" /\ s.conn[c].req \in Requests
  <2>1. s.conn[c].req # NULL
    BY <1>6, ExtWorkerAssumption
  <2>2. t \in ProcessResp(s, c)
    BY <1>6, <2>1 DEF OnReadStates
  <2> QED BY <1>6, <2>2, ProcessRespStep
<1> QED BY <1>2, <1>3, <1>4, <1>5, <1>6

LEMMA OnReadStep ==
  ASSUME Ready(Now, NULL, {}), NEW c \in Conns, OnRead(c) PROVE Ready(Now', NULL, {})
<1>1. PICK s : s = Now
  OBVIOUS
<1>2. Ready(s, NULL, {}) /\ s \in State /\ s.conn = conn
  BY <1>1, NowFields DEF Ready, Sound
<1> DEFINE U == UNION {EventDone(u, c) : u \in OnReadStates(s, c)}
<1>3. PICK S : S = U
  OBVIOUS
<1>4. Become(U) /\ s.conn[c].st # "DISCONNECTED"
  BY <1>1, <1>2 DEF OnRead, OnReadStates
<1>5. Become(S)
  BY <1>3, <1>4
<1>6. ASSUME NEW t \in S PROVE Ready(t, NULL, {})
  <2>1. PICK u \in OnReadStates(s, c) : t \in EventDone(u, c)
    BY <1>3
  <2>2. Ready(u, NULL, {})
    BY <1>2, <1>4, OnReadStatesStep
  <2> QED BY <2>1, <2>2, EventDoneSound
<1> QED BY <1>1, <1>5, <1>6, BecomeStep

LEMMA PlacedFacts ==
  ASSUME NEW s, NEW c0, NEW X, Sound(s, c0, X), NEW r \in Requests, Placed(s, r)
  PROVE  Underway(s, r)
BY DEF Sound, Placed, Places

\* A request in nobody's place can be taken in hand.
LEMMA TakeInHand ==
  ASSUME NEW s, NEW c0, NEW X, Sound(s, c0, X), NEW r \in Requests, ~Placed(s, r)
  PROVE  Holding(s, c0, X, r)
BY DEF Holding, Sound, NoneLost

SetReq(s, r, x) == [s EXCEPT !.req[r] = x]

LEMMA SetReqEffect ==
  ASSUME NEW s \in State, NEW r \in Requests, NEW x \in ReqRec, NEW t, t = SetReq(s, r, x)
  PROVE  ReqOnly(s, t, r, x)
BY ReqSet DEF SetReq

LEMMA ClientGoneStep ==
  ASSUME Ready(Now, NULL, {}), NEW r \in Requests, ClientGone(r) PROVE Ready(Now', NULL, {})
<1>1. PICK s : s = Now
  OBVIOUS
<1>2. /\ Ready(s, NULL, {}) /\ s \in State /\ Sound(s, NULL, {}) /\ s.wk = wk
      /\ s.conn = conn /\ s.req = req /\ s.faults = faults /\ Opened(s, NULL)
  BY <1>1, NowFields DEF Ready, Sound
<1>3. PICK x : x = [s.req[r] EXCEPT !.alive = FALSE]
  OBVIOUS
<1>4. s.req[r] \in ReqRec
  BY <1>2, StateTypes
<1>5. /\ x \in ReqRec /\ x.proc = s.req[r].proc /\ x.w = s.req[r].w /\ ~x.alive
      /\ x.live = s.req[r].live /\ x.err = s.req[r].err /\ x.abort = s.req[r].abort
      /\ x.complete = s.req[r].complete
  BY <1>3, <1>4 DEF ReqRec
<1>6. PICK t : t = SetReq(s, r, x)
  OBVIOUS
<1>7. Now' = t
  <2>1. s = [wk |-> wk, conn |-> conn, req |-> req, faults |-> faults]
    BY <1>1 DEF Now
  <2>2. t = [wk |-> wk, conn |-> conn, req |-> [req EXCEPT ![r] = x], faults |-> faults]
    BY <1>6, <2>1 DEF SetReq
  <2>3. req' = [req EXCEPT ![r] = x] /\ wk' = wk /\ conn' = conn /\ faults' = faults
    BY <1>2, <1>3 DEF ClientGone
  <2> QED BY <2>2, <2>3 DEF Now
<1>8. ReqOnly(s, t, r, x)
  BY <1>2, <1>5, <1>6, SetReqEffect
<1>9. t.req[r] = x
  BY <1>8 DEF ReqOnly
<1>10. CASE Placed(s, r)
  <2>1. Underway(t, r)
    BY <1>2, <1>5, <1>9, <1>10, PlacedFacts DEF Underway
  <2>2. Sound(t, NULL, {}) /\ Rel(s, t, NULL, {}) /\ OpenKept(s, t)
    BY <1>2, <1>5, <1>8, <1>10, <2>1, PlacedReqSound
  <2>3. Ready(t, NULL, {})
    BY <1>2, <2>2 DEF Ready, OpenKept
  <2> QED BY <1>1, <1>7, <2>2, <2>3
<1>11. CASE ~Placed(s, r)
  <2>1. Holding(s, NULL, {}, r) /\ x.proc = NULL
    BY <1>2, <1>5, <1>11, TakeInHand DEF Placed
  <2>2. Over(t, r)
    BY <1>5, <1>9 DEF Over
  <2>3. Sound(t, NULL, {}) /\ Rel(s, t, NULL, {r}) /\ OpenKept(s, t)
    BY <1>8, <2>1, <2>2, ReqSound
  <2>4. Ready(t, NULL, {})
    BY <1>2, <2>3 DEF Ready, OpenKept
  <2> QED BY <1>1, <1>7, <2>3, <2>4
<1> QED BY <1>10, <1>11

\* A new request, before its worker is asked
LEMMA NewCarried ==
  ASSUME NEW s, Ready(s, NULL, {}), NEW r \in Requests, ~s.req[r].live, NEW x \in ReqRec,
         x.proc = NULL, x.live, ~x.err, ~x.abort, ~x.complete, NEW t, t = SetReq(s, r, x)
  PROVE  Carrying(t, NULL, {}, r) /\ Opened(t, NULL) /\ Rel(s, t, NULL, {r})
<1>1. s \in State /\ Sound(s, NULL, {}) /\ Opened(s, NULL)
  BY DEF Ready, Sound
<1>2. ~Placed(s, r)
  BY <1>1, PlacedFacts DEF Underway
<1>3. Holding(s, NULL, {}, r)
  BY <1>1, <1>2, TakeInHand
<1>4. ReqOnly(s, t, r, x)
  BY <1>1, SetReqEffect
<1>5. Holding(t, NULL, {}, r) /\ Rel(s, t, NULL, {r}) /\ OpenKept(s, t)
  BY <1>3, <1>4, ReqSound
<1>6. Underway(t, r)
  BY <1>4 DEF ReqOnly, Underway
<1> QED BY <1>1, <1>5, <1>6 DEF Carrying, OpenKept

NewReq(target) == [Idle EXCEPT !.live = TRUE, !.lb = target = LB]

LEMMA IdleFacts ==
  /\ Idle \in ReqRec /\ Idle.proc = NULL /\ ~Idle.live /\ Idle.alive
  /\ ~Idle.err /\ ~Idle.abort /\ ~Idle.complete
<1>1. 0 \in 0 .. MaxAttempts + 2
  BY ExtWorkerAssumption DEF MaxAttempts
<1>2. {} \in SUBSET WorkerSet
  OBVIOUS
<1> QED BY <1>1, <1>2 DEF Idle, ReqRec

LEMMA NewReqFacts ==
  ASSUME NEW target, NEW x, x = NewReq(target)
  PROVE  /\ x \in ReqRec /\ x.proc = NULL /\ x.live /\ x.alive
         /\ ~x.err /\ ~x.abort /\ ~x.complete
<1>1. PICK b \in BOOLEAN : b = (target = LB)
  OBVIOUS
<1>2. x = [Idle EXCEPT !.live = TRUE, !.lb = b]
  BY <1>1 DEF NewReq
<1> QED BY <1>2, IdleFacts DEF ReqRec

SetWorker(s, r, w) == [s EXCEPT !.req[r].w = w]

LEMMA SetWorkerEffect ==
  ASSUME NEW s \in State, NEW r \in Requests, NEW w \in WorkerSet, NEW t, t = SetWorker(s, r, w)
  PROVE  Retagged(s, t, r) /\ t.req[r].w = w /\ (Underway(s, r) => Underway(t, r))
<1>1. s.req[r] \in ReqRec
  BY StateTypes
<1>2. PICK x : x = [s.req[r] EXCEPT !.w = w]
  OBVIOUS
<1>3. /\ x \in ReqRec /\ x.live = s.req[r].live /\ x.alive = s.req[r].alive
      /\ x.proc = s.req[r].proc /\ x.w = w /\ x.err = s.req[r].err
      /\ x.abort = s.req[r].abort /\ x.complete = s.req[r].complete
  BY <1>1, <1>2 DEF ReqRec
<1>4. t = SetReq(s, r, x)
  BY <1>2 DEF SetReq, SetWorker
<1>5. ReqOnly(s, t, r, x)
  BY <1>3, <1>4, SetReqEffect
<1>6. t.req[r] = x
  BY <1>5 DEF ReqOnly
<1> QED BY <1>3, <1>5, <1>6 DEF Retagged, Underway

\* What the session does with a result of processRequest
Answered(o, r) == IF o.ret > 1 THEN ErrResponse(o.s, r) ELSE o.s

LEMMA AnsweredStep ==
  ASSUME NEW u, NEW r \in Requests, Carrying(u, NULL, {}, r), Opened(u, NULL),
         NEW w \in WorkerSet, u.req[r].w = w,
         NEW o \in ProcessRequest(Nested, u, w, r, FALSE), NEW t, t = Answered(o, r)
  PROVE  Ready(t, NULL, {})
<1>1. Processed(u, o, {}, r)
  BY NestedGood, ProcessRequestSound
<1>2. PICK v : v = o.s
  OBVIOUS
<1>6. CASE o.ret = 503 /\ Carrying(o.s, NULL, {}, r) /\ Opened(o.s, NULL)
  <2>1. Carrying(v, NULL, {}, r) /\ Opened(v, NULL) /\ t = ErrResponse(v, r)
    BY <1>2, <1>6 DEF Answered
  <2> QED BY <2>1, ErrCarry
<1>7. CASE o.ret \in {0, 1} /\ Ready(o.s, NULL, {})
  BY <1>2, <1>7 DEF Answered
<1> QED BY <1>1, <1>6, <1>7 DEF Processed

LEMMA ProcessStep ==
  ASSUME Ready(Now, NULL, {}), NEW r \in Requests, NEW target \in Handlers, Process(r, target)
  PROVE  Ready(Now', NULL, {})
<1>1. PICK s : s = Now
  OBVIOUS
<1>2. Ready(s, NULL, {}) /\ s.req = req
  BY <1>1, NowFields
<1>3. PICK x : x = NewReq(target)
  OBVIOUS
<1>4. /\ x \in ReqRec /\ x.proc = NULL /\ x.live /\ x.alive
      /\ ~x.err /\ ~x.abort /\ ~x.complete
  BY <1>3, NewReqFacts
<1>5. PICK new : new = SetReq(s, r, x)
  OBVIOUS
<1>6. ~s.req[r].live
  BY <1>2 DEF Process
<1>7. Carrying(new, NULL, {}, r) /\ Opened(new, NULL) /\ Rel(s, new, NULL, {r})
  BY <1>2, <1>4, <1>5, <1>6, NewCarried
<1>8. new \in State /\ Underway(new, r)
  BY <1>7 DEF Carrying, Holding, Sound
<1>9. PICK u : u = IF target = LB THEN SelectWorker(new, r) ELSE SetWorker(new, r, target)
  OBVIOUS
<1>10. Retagged(new, u, r) /\ u.req[r].w \in WorkerSet \cup {NULL} /\ Underway(u, r)
  <2>1. CASE target = LB
    BY <1>8, <1>9, <2>1, SelectEffect
  <2>2. CASE target # LB
    <3>1. target \in WorkerSet
      BY <2>2, ExtWorkerAssumption
    <3> QED BY <1>8, <1>9, <2>2, <3>1, SetWorkerEffect
  <2> QED BY <2>1, <2>2
<1>11. Carrying(u, NULL, {}, r) /\ Opened(u, NULL) /\ Rel(new, u, NULL, {r})
  BY <1>7, <1>10, RetaggedCarry
<1>12. PICK R : R = {r}
  OBVIOUS
<1>13. Rel(s, u, NULL, R)
  <2>1. Rel(s, new, NULL, R) /\ Rel(new, u, NULL, R)
    BY <1>7, <1>11, <1>12
  <2> QED BY <2>1, RelTrans
<1> DEFINE results == IF u.req[r].w = NULL THEN {Result(u, 500)}
                      ELSE ProcessRequest(Nested, u, u.req[r].w, r, FALSE)
           U == {Answered(o, r) : o \in results}
<1>14. Become(U)
  <2>1. new = [Now EXCEPT !.req[r] = [Idle EXCEPT !.live = TRUE, !.lb = target = LB]]
    BY <1>1, <1>3, <1>5 DEF SetReq, NewReq
  <2>2. u = IF target = LB THEN SelectWorker(new, r) ELSE [new EXCEPT !.req[r].w = target]
    BY <1>9 DEF SetWorker
  <2> QED BY <2>1, <2>2 DEF Process, Answered
<1>15. PICK S : S = U
  OBVIOUS
<1>16. ASSUME NEW t \in S PROVE Ready(t, NULL, {})
  <2>1. PICK o \in results : t = Answered(o, r)
    BY <1>15
  <2>2. CASE u.req[r].w = NULL
    <3>1. o.ret = 500 /\ o.s = u
      BY <2>2 DEF Result
    <3>2. t = ErrResponse(u, r)
      BY <2>1, <3>1 DEF Answered
    <3> QED BY <1>11, <3>2, ErrCarry
  <2>3. CASE u.req[r].w # NULL
    <3>1. PICK w \in WorkerSet : w = u.req[r].w
      BY <1>10, <2>3
    <3>2. o \in ProcessRequest(Nested, u, w, r, FALSE)
      BY <2>3, <3>1
    <3>3. Rel(s, u, NULL, {r}) /\ u.req[r].w = w
      BY <1>12, <1>13, <3>1
    <3> HIDE DEF results, U
    <3> QED BY <1>11, <2>1, <3>2, <3>3, AnsweredStep
  <2> QED BY <2>2, <2>3
<1>17. Become(S)
  BY <1>14, <1>15
<1> QED BY <1>1, <1>16, <1>17, BecomeStep

SetWk(s, w, k) == [s EXCEPT !.wk[w] = k]

\* Another state of the worker, or another limit of its connections
LEMMA LimitStep ==
  ASSUME NEW s, NEW w \in WorkerSet, Sound(s, NULL, {}), Opened(s, NULL),
         NEW st \in {"NOTSTARTED", "GOOD"},
         NEW max \in 0 .. MaxConns[w], s.wk[w].max <= max,
         NEW k, k = Limited(s.wk[w], st, max), NEW t, t = SetWk(s, w, k)
  PROVE  Ready(t, NULL, {}) /\ Quiet(s, t) /\ Rel(s, t, w, {})
<1>1. Pool(w, s.wk[w])
  BY DEF Sound, Pools
<1>2. Cardinality(s.wk[w].conns) <= max
  BY <1>1, ExtWorkerAssumption DEF Pool
<1>3. t = [s EXCEPT !.wk[w] = Limited(s.wk[w], st, max)]
  BY DEF SetWk
<1>4. st \in {"NOTSTARTED", "BAD", "GOOD"} /\ (st = "BAD" => Retry[w])
  OBVIOUS
<1>5. /\ Sound(t, NULL, {}) /\ Quiet(s, t)
      /\ \A v \in WorkerSet \ {w} : t.wk[v] = s.wk[v]
  BY <1>2, <1>3, <1>4, LimitSound
<1>6. Opened(t, NULL)
  BY <1>5, QuietOpened
<1>7. Barred(s, t, w)
  BY <1>5 DEF Quiet, Barred
<1>8. Spared(s, t, {})
  BY <1>5, QuietPlaced DEF Quiet, Spared
<1> QED BY <1>5, <1>6, <1>7, <1>8 DEF Ready, Rel

\* The queue is served after such a change.
LEMMA PendingStep ==
  ASSUME NEW u, NEW w \in WorkerSet, Ready(u, NULL, {}), NEW t \in ProcessPending(u, w)
  PROVE  Ready(t, NULL, {})
<1>1. t \in PendingLoop(Nested, u, w, NULL)
  BY DEF ProcessPending
<1>2. Served(u, t, w, {})
  BY <1>1, NestedGood, PendingLoopSound
<1> QED BY <1>2 DEF Served

LEMMA RetriedReady ==
  ASSUME NEW s, Ready(s, NULL, {}), NEW w \in WorkerSet,
         NEW u, u = Start([s EXCEPT !.wk[w].st = "NOTSTARTED"], w)
  PROVE  Quiet(s, u) /\ Ready(u, NULL, {})
<1>1. Sound(s, NULL, {}) /\ Opened(s, NULL) /\ s \in State /\ Pool(w, s.wk[w])
  BY DEF Ready, Sound, Pools
<1>2. PICK max : max = s.wk[w].max
  OBVIOUS
<1>3. PICK k : k = Limited(s.wk[w], "NOTSTARTED", max)
  OBVIOUS
<1>4. PICK a : a = SetWk(s, w, k)
  OBVIOUS
<1>5. max \in 0 .. MaxConns[w] /\ s.wk[w].max <= max
  <2>1. max \in 0 .. MaxConns[w]
    BY <1>1, <1>2 DEF Pool
  <2>2. MaxConns[w] \in Nat
    BY ExtWorkerAssumption
  <2> QED BY <1>2, <2>1, <2>2
<1>6. Ready(a, NULL, {}) /\ Quiet(s, a)
  BY <1>1, <1>3, <1>4, <1>5, LimitStep
<1>7. s.wk[w] \in WorkerRec
  BY <1>1, StateTypes
<1>8. a = [s EXCEPT !.wk[w].st = "NOTSTARTED"]
  <2>1. k = [s.wk[w] EXCEPT !.st = "NOTSTARTED"]
    BY <1>2, <1>3, <1>7 DEF Limited, WorkerRec
  <2> QED BY <1>4, <2>1 DEF SetWk
<1>9. u = Start(a, w)
  BY <1>8
<1>10. Sound(a, NULL, {}) /\ Opened(a, NULL)
  BY <1>6 DEF Ready
<1>11. Sound(u, NULL, {}) /\ Quiet(a, u) /\ BadKept(a, u)
  BY <1>9, <1>10, StartSound
<1>12. Opened(u, NULL)
  BY <1>10, <1>11, QuietOpened
<1> QED BY <1>6, <1>11, <1>12, QuietTrans DEF Ready

LEMMA RaisedReady ==
  ASSUME NEW s, Ready(s, NULL, {}), NEW w \in WorkerSet, MaxConns[w] > s.wk[w].max,
         s.wk[w].st # "BAD", NEW u, u = [s EXCEPT !.wk[w].max = @ + 1]
  PROVE  Quiet(s, u) /\ Ready(u, NULL, {})
<1>1. Sound(s, NULL, {}) /\ Opened(s, NULL) /\ s \in State /\ Pool(w, s.wk[w])
  BY DEF Ready, Sound, Pools
<1>2. PICK max : max = s.wk[w].max + 1
  OBVIOUS
<1>3. PICK st : st = s.wk[w].st
  OBVIOUS
<1>4. PICK k : k = Limited(s.wk[w], st, max)
  OBVIOUS
<1>5. s.wk[w] \in WorkerRec
  BY <1>1, StateTypes
<1>6. max \in 0 .. MaxConns[w] /\ s.wk[w].max <= max
  <2>1. s.wk[w].max \in 0 .. MaxConns[w] /\ MaxConns[w] \in Nat
    BY <1>1, ExtWorkerAssumption DEF Pool
  <2> QED BY <1>2, <2>1
<1>7. st \in {"NOTSTARTED", "GOOD"}
  BY <1>3, <1>5 DEF WorkerRec
<1>8. u = SetWk(s, w, k)
  <2>1. k = [s.wk[w] EXCEPT !.max = max]
    BY <1>3, <1>4, <1>5 DEF Limited, WorkerRec
  <2> QED BY <1>2, <2>1 DEF SetWk
<1> QED BY <1>1, <1>4, <1>6, <1>7, <1>8, LimitStep

\* The states after resetStats has served the queue of worker w
ServedStates(s, w) ==
  IF s.wk[w].st = "BAD"
  THEN {s} \cup ProcessPending(Start([s EXCEPT !.wk[w].st = "NOTSTARTED"], w), w)
  ELSE (IF s.wk[w].queue # <<>> /\ s.wk[w].max > InUse(s, w) THEN ProcessPending(s, w) ELSE {s})
         \cup (IF s.wk[w].queue # <<>> /\ MaxConns[w] > s.wk[w].max
               THEN ProcessPending([s EXCEPT !.wk[w].max = @ + 1], w) ELSE {})

LEMMA ServedStep ==
  ASSUME NEW s, Ready(s, NULL, {}), NEW w \in WorkerSet, NEW t \in ServedStates(s, w)
  PROVE  Ready(t, NULL, {})
<1>1. s \in State
  BY DEF Ready, Sound
<1>2. CASE t = s
  BY <1>2
<1>3. CASE t \in ProcessPending(Start([s EXCEPT !.wk[w].st = "NOTSTARTED"], w), w)
  <2>1. PICK u : u = Start([s EXCEPT !.wk[w].st = "NOTSTARTED"], w)
    OBVIOUS
  <2>2. Quiet(s, u) /\ Ready(u, NULL, {})
    BY <2>1, RetriedReady
  <2>3. t \in ProcessPending(u, w)
    BY <1>3, <2>1
  <2> QED BY <1>1, <2>2, <2>3, PendingStep
<1>4. CASE t \in ProcessPending(s, w)
  <2>1. Quiet(s, s)
    BY <1>1 DEF Quiet
  <2> QED BY <1>1, <1>4, <2>1, PendingStep
<1>5. CASE /\ s.wk[w].st # "BAD" /\ MaxConns[w] > s.wk[w].max
           /\ t \in ProcessPending([s EXCEPT !.wk[w].max = @ + 1], w)
  <2>1. PICK u : u = [s EXCEPT !.wk[w].max = @ + 1]
    OBVIOUS
  <2>2. Quiet(s, u) /\ Ready(u, NULL, {})
    BY <1>5, <2>1, RaisedReady
  <2>3. t \in ProcessPending(u, w)
    BY <1>5, <2>1
  <2> QED BY <1>1, <2>2, <2>3, PendingStep
<1> QED BY <1>2, <1>3, <1>4, <1>5 DEF ServedStates

LEMMA StoppedStep ==
  ASSUME NEW w \in WorkerSet, NEW u, Ready(u, NULL, {}), NEW t,
         t = [u EXCEPT !.wk[w].st = "NOTSTARTED"]
  PROVE  Ready(t, NULL, {})
<1>1. Sound(u, NULL, {}) /\ Opened(u, NULL) /\ u \in State /\ Pool(w, u.wk[w])
  BY DEF Ready, Sound, Pools
<1>2. PICK max : max = u.wk[w].max
  OBVIOUS
<1>3. PICK k : k = Limited(u.wk[w], "NOTSTARTED", max)
  OBVIOUS
<1>5. max \in 0 .. MaxConns[w] /\ u.wk[w].max <= max
  <2>1. max \in 0 .. MaxConns[w]
    BY <1>1, <1>2 DEF Pool
  <2>2. MaxConns[w] \in Nat
    BY ExtWorkerAssumption
  <2> QED BY <1>2, <2>1, <2>2
<1>6. u.wk[w] \in WorkerRec
  BY <1>1, StateTypes
<1>7. t = SetWk(u, w, k)
  <2>1. k = [u.wk[w] EXCEPT !.st = "NOTSTARTED"]
    BY <1>2, <1>3, <1>6 DEF Limited, WorkerRec
  <2> QED BY <2>1 DEF SetWk
<1> QED BY <1>1, <1>3, <1>5, <1>7, LimitStep

LEMMA ResetStatsStep ==
  ASSUME Ready(Now, NULL, {}), NEW w \in WorkerSet, ResetStats(w) PROVE Ready(Now', NULL, {})
<1>1. PICK s : s = Now
  OBVIOUS
<1>2. Ready(s, NULL, {}) /\ s \in State /\ s.wk = wk
  BY <1>1, NowFields DEF Ready, Sound
<1> DEFINE served == ServedStates(s, w)
           idle == {u \in served : u.wk[w].st = "GOOD" /\ InUse(u, w) = 0}
           U == served \cup {[u EXCEPT !.wk[w].st = "NOTSTARTED"] : u \in idle}
<1>3. Become(U)
  BY <1>1, <1>2 DEF ResetStats, ServedStates, ServeQueue, Waiting
<1>4. PICK S : S = U
  OBVIOUS
<1>5. ASSUME NEW t \in S PROVE Ready(t, NULL, {})
  <2>1. CASE t \in served
    BY <1>2, <2>1, ServedStep
  <2>2. CASE \E u \in idle : t = [u EXCEPT !.wk[w].st = "NOTSTARTED"]
    <3>1. PICK u \in served : t = [u EXCEPT !.wk[w].st = "NOTSTARTED"]
      BY <2>2
    <3>2. Ready(u, NULL, {})
      BY <1>2, <3>1, ServedStep
    <3> HIDE DEF served, idle, U
    <3> QED BY <1>2, <3>1, <3>2, StoppedStep
  <2> QED BY <1>4, <2>1, <2>2
<1>6. Become(S)
  BY <1>3, <1>4
<1> QED BY <1>1, <1>5, <1>6, BecomeStep

\* The last step of cleanUp, with request r in hand
LEMMA IdleSound ==
  ASSUME NEW s, NEW r, Holding(s, NULL, {}, r), Opened(s, NULL), NEW t, t = SetReq(s, r, Idle)
  PROVE  Ready(t, NULL, {}) /\ Rel(s, t, NULL, {r})
<1>1. s \in State /\ r \in Requests
  BY DEF Holding, Sound
<1>2. PICK x : x = Idle /\ x \in ReqRec /\ x.proc = NULL /\ ~x.live
  BY IdleFacts
<1>3. ReqOnly(s, t, r, x)
  BY <1>1, <1>2, SetReqEffect
<1>4. Sound(t, NULL, {}) /\ Rel(s, t, NULL, {r}) /\ OpenKept(s, t)
  BY <1>2, <1>3, ReqSound
<1> QED BY <1>4 DEF OpenKept, Ready

\* It waited nowhere.
LEMMA CleanUpNowhere ==
  ASSUME NEW s, Ready(s, NULL, {}), NEW r \in Requests, ~Placed(s, r),
         NEW t, t = SetReq(s, r, Idle)
  PROVE  Ready(t, NULL, {})
<1>1. Holding(s, NULL, {}, r) /\ Opened(s, NULL)
  BY TakeInHand DEF Ready
<1>2. Ready(t, NULL, {}) /\ Rel(s, t, NULL, {r})
  BY <1>1, IdleSound
<1> QED BY <1>2

\* It waited in the queue of worker w.
LEMMA CleanUpQueued ==
  ASSUME NEW s, Ready(s, NULL, {}), NEW r \in Requests, NEW w \in WorkerSet,
         r \in Range(s.wk[w].queue),
         NEW q, q = RemoveFirst(s.wk[w].queue, r), NEW u, u = SetQueue(s, w, q),
         NEW t, t = SetReq(u, r, Idle)
  PROVE  Ready(t, NULL, {})
<1>1. s \in State /\ Pools(s) /\ Sound(s, NULL, {}) /\ Opened(s, NULL)
  BY DEF Ready, Sound
<1>2. PICK k : k = s.wk[w] /\ Pool(w, k) /\ k.queue \in Lists(Requests)
  BY <1>1 DEF Pools, Pool
<1>3. q \in Lists(Requests) /\ Range(q) = Range(k.queue) \ {r}
  BY <1>2, RemoveFirstList
<1>4. PICK j : j = WithQueue(k, q)
  OBVIOUS
<1>5. Pool(w, j) /\ j.conns = k.conns /\ j.free = k.free /\ j.queue = q /\ j.st = k.st
  BY <1>2, <1>3, <1>4, PoolQueue
<1>6. u = [s EXCEPT !.wk[w] = j]
  BY <1>2, <1>4 DEF WithQueue, SetQueue
<1>7. WkOnly(s, u, w, j)
  BY <1>1, <1>5, <1>6, WkSet DEF Pool
<1>8. Leaving(s, u, w, r)
  <2>1. u.wk[w] = j
    BY <1>7 DEF WkOnly
  <2>2. /\ j.conns = s.wk[w].conns /\ j.free = s.wk[w].free
        /\ j.st = s.wk[w].st /\ Range(j.queue) = Range(s.wk[w].queue) \ {r}
    BY <1>2, <1>3, <1>5
  <2> QED BY <2>1, <2>2, <1>5, <1>7 DEF Leaving, QueueOnly
<1>9. Carrying(u, NULL, {}, r) /\ Rel(s, u, NULL, {}) /\ OpenKept(s, u)
  BY <1>1, <1>8, DequeueSound
<1>10. Holding(u, NULL, {}, r) /\ Opened(u, NULL)
  BY <1>1, <1>9 DEF Carrying, OpenKept
<1>11. Ready(t, NULL, {}) /\ Rel(u, t, NULL, {r})
  BY <1>10, IdleSound
<1>12. PICK R : R = {r}
  OBVIOUS
<1>13. Rel(s, u, NULL, R) /\ Rel(u, t, NULL, R)
  BY <1>9, <1>11, <1>12, RelAdd
<1>14. Rel(s, t, NULL, R)
  BY <1>13, RelTrans
<1> QED BY <1>11, <1>14

\* It was on connection c, which is closed.
LEMMA CleanUpBusy ==
  ASSUME NEW s, Ready(s, NULL, {}), NEW r \in Requests, NEW c \in Conns, s.req[r].proc = c,
         NEW v, Marked(s, v, c, r), v.conn[c].st = "CLOSING",
         NEW z \in ReleaseProcessor(Nested, v, r), NEW t, t = SetReq(z, r, Idle)
  PROVE  Ready(t, NULL, {})
<1>1. PICK u : /\ PairOnly(s, u, c, r) /\ Parted(v, u, c, r)
               /\ Holding(u, c, {}, r) /\ Opened(u, NULL)
               /\ Over(u, r) => Sound(u, c, {})
               /\ z \in RecycleConn(Nested, u, c)
  BY ReleaseParts
<1>3. PICK X : X = {} \cup {r}
  OBVIOUS
<1>4. Ready(u, c, X) /\ ~Placed(u, r) /\ Sound(u, c, X)
  BY <1>1, <1>3 DEF Holding, Ready
<1>5. Served(u, z, c[1], X)
  BY <1>1, <1>4, NestedGood, RecycleConnSound
<1>6. PICK w : w = c[1]
  OBVIOUS
<1>7. Ready(z, NULL, X) /\ Rel(u, z, w, {})
  BY <1>5, <1>6 DEF Served
<1>8. ~Placed(z, r)
  BY <1>4, <1>7 DEF Rel, Spared
<1>9. Holding(z, NULL, {}, r) /\ Opened(z, NULL)
  BY <1>3, <1>7, <1>8 DEF Holding, Ready
<1> QED BY <1>9, IdleSound

\* The states from which cleanUp makes the request idle
Aborted(s, r) ==
  [(IF s.req[r].proc = NULL THEN s ELSE [s EXCEPT !.conn[s.req[r].proc].st = "CLOSING"])
     EXCEPT !.req[r].abort = TRUE]
Released(s, r) ==
  IF s.req[r].complete THEN {s} ELSE ReleaseProcessor(Nested, Aborted(s, r), r)

\* The request had no connection.
LEMMA CleanUpWaiting ==
  ASSUME NEW s, Ready(s, NULL, {}), NEW r \in Requests, s.req[r].proc = NULL,
         NEW u \in ReleaseProcessor(Nested, Aborted(s, r), r), NEW t, t = SetReq(u, r, Idle)
  PROVE  Ready(t, NULL, {})
<1>1. s \in State /\ s.req[r] \in ReqRec /\ Sound(s, NULL, {}) /\ Places(s)
  BY StateTypes DEF Ready, Sound
<1>2. PICK v : v = Aborted(s, r)
  OBVIOUS
<1>3. v = [s EXCEPT !.req[r].abort = TRUE]
  BY <1>2 DEF Aborted
<1>4. v.req[r].proc = NULL /\ v.req[r].w = s.req[r].w
  BY <1>1, <1>3 DEF State, ReqRec
<1>5. PICK w : w = s.req[r].w /\ w \in WorkerSet \cup {NULL}
  BY <1>1 DEF ReqRec
<1>6. \A x \in WorkerSet : r \in Range(s.wk[x].queue) => x = w
  BY <1>1, <1>5 DEF Places, Queued
<1>7. u \in IF w = NULL THEN {v} ELSE {[v EXCEPT !.wk[w].queue = RemoveFirst(@, r)]}
  BY <1>2, <1>4, <1>5 DEF ReleaseProcessor
<1>8. CASE w = NULL
  <2>1. t = [v EXCEPT !.req[r] = Idle]
    BY <1>7, <1>8 DEF SetReq
  <2>2. t = SetReq(s, r, Idle)
    BY <1>1, <1>3, <2>1 DEF SetReq, State
  <2>3. ~Placed(s, r)
    BY <1>6, <1>8, ExtWorkerAssumption DEF Placed, Queued
  <2> QED BY <2>2, <2>3, CleanUpNowhere
<1>9. CASE w \in WorkerSet
  <2>1. PICK q : q = RemoveFirst(s.wk[w].queue, r)
    OBVIOUS
  <2>2. v.wk = s.wk /\ w # NULL
    BY <1>1, <1>3, <1>9, ExtWorkerAssumption DEF State
  <2>3. u = [v EXCEPT !.wk[w].queue = q]
    BY <1>7, <2>1, <2>2
  <2>4. PICK a : a = SetQueue(s, w, q)
    OBVIOUS
  <2>5. t = SetReq(a, r, Idle)
    <3>1. u = [a EXCEPT !.req[r].abort = TRUE]
      BY <1>1, <1>3, <2>3, <2>4 DEF SetQueue, State
    <3>2. a = [wk |-> a.wk, conn |-> a.conn, req |-> a.req, faults |-> a.faults] /\ a.req = s.req
      BY <1>1, <2>4 DEF SetQueue, State
    <3> QED BY <1>1, <3>1, <3>2 DEF SetReq, State
  <2>6. CASE r \in Range(s.wk[w].queue)
    BY <1>9, <2>1, <2>4, <2>5, <2>6, CleanUpQueued
  <2>7. CASE r \notin Range(s.wk[w].queue)
    <3>1. s.wk[w].queue \in Lists(Requests)
      BY <1>1, <1>9 DEF Sound, Pools, Pool
    <3>2. q = s.wk[w].queue
      BY <2>1, <2>7, <3>1, RemoveFirstNone
    <3>3. s.wk[w] \in WorkerRec
      BY <1>1, <1>9, StateTypes
    <3>4. [s.wk[w] EXCEPT !.queue = q] = s.wk[w]
      BY <3>2, <3>3 DEF WorkerRec
    <3>5. a = [s EXCEPT !.wk[w] = s.wk[w]]
      BY <2>4, <3>4 DEF SetQueue
    <3>6. a = s
      BY <1>1, <1>9, <3>5 DEF State
    <3>7. ~Placed(s, r)
      BY <1>6, <2>7 DEF Placed, Queued
    <3> QED BY <2>5, <3>6, <3>7, CleanUpNowhere
  <2> QED BY <2>6, <2>7
<1> QED BY <1>5, <1>8, <1>9

LEMMA AbortedMarked ==
  ASSUME NEW s, Ready(s, NULL, {}), NEW r \in Requests, NEW c \in Conns, s.req[r].proc = c,
         NEW v, v = Aborted(s, r)
  PROVE  Marked(s, v, c, r) /\ v.conn[c].st = "CLOSING"
<1>1. /\ s \in State /\ s.req[r] \in ReqRec /\ s.conn[c] \in ConnRec /\ s.conn[c].req = r
      /\ c # NULL
  BY StateTypes, ExtWorkerAssumption DEF Ready, Sound, Linked
<1> DEFINE x == [s.req[r] EXCEPT !.abort = TRUE]
           y == [s.conn[c] EXCEPT !.st = "CLOSING"]
<1>2. x \in ReqRec /\ x.proc = c
  BY <1>1 DEF ReqRec
<1>3. y \in ConnRec /\ y.req = r /\ y.st = "CLOSING"
  BY <1>1 DEF ConnRec
<1>4. v = [[s EXCEPT !.conn[c].st = "CLOSING"] EXCEPT !.req[r].abort = TRUE]
  BY <1>1 DEF Aborted
<1>5. v = SetPair(s, r, x, c, y)
  BY <1>1, <1>4 DEF State, SetPair
<1> HIDE DEF x, y
<1>6. Marked(s, v, c, r) /\ v.conn[c] = y
  BY <1>1, <1>2, <1>3, <1>5, MarkEffect
<1> QED BY <1>3, <1>6

LEMMA CleanUpStep ==
  ASSUME Ready(Now, NULL, {}), NEW r \in Requests, CleanUp(r) PROVE Ready(Now', NULL, {})
<1>1. PICK s : s = Now
  OBVIOUS
<1>2. Ready(s, NULL, {}) /\ s \in State /\ s.req = req /\ Sound(s, NULL, {})
  BY <1>1, NowFields DEF Ready, Sound
<1> DEFINE U == {SetReq(u, r, Idle) : u \in Released(s, r)}
<1>3. Become(U)
  BY <1>1, <1>2 DEF CleanUp, Released, Aborted, SetReq
<1>4. PICK S : S = U
  OBVIOUS
<1>5. ASSUME NEW t \in S PROVE Ready(t, NULL, {})
  <2>1. PICK u \in Released(s, r) : t = SetReq(u, r, Idle)
    BY <1>4
  <2>2. s.req[r].proc \in Conns \cup {NULL}
    BY <1>2, StateTypes DEF ReqRec
  <2>3. CASE s.req[r].complete
    <3>1. u = s
      BY <2>3 DEF Released
    <3>2. ~Placed(s, r)
      BY <1>2, <2>3, PlacedFacts DEF Underway
    <3> QED BY <1>2, <2>1, <3>1, <3>2, CleanUpNowhere
  <2>4. CASE ~s.req[r].complete /\ s.req[r].proc = NULL
    <3>1. u \in ReleaseProcessor(Nested, Aborted(s, r), r)
      BY <2>4 DEF Released
    <3> QED BY <1>2, <2>1, <2>4, <3>1, CleanUpWaiting
  <2>5. CASE ~s.req[r].complete /\ s.req[r].proc # NULL
    <3>1. PICK c \in Conns : s.req[r].proc = c
      BY <2>2, <2>5
    <3>2. PICK v : v = Aborted(s, r)
      OBVIOUS
    <3>3. u \in ReleaseProcessor(Nested, v, r)
      BY <2>5, <3>2 DEF Released
    <3>4. Marked(s, v, c, r) /\ v.conn[c].st = "CLOSING"
      BY <1>2, <3>1, <3>2, AbortedMarked
    <3> QED BY <1>2, <2>1, <3>1, <3>3, <3>4, CleanUpBusy
  <2> QED BY <2>3, <2>4, <2>5
<1>6. Become(S)
  BY <1>3, <1>4
<1> QED BY <1>1, <1>5, <1>6, BecomeStep

LEMMA NextStep == ASSUME Ready(Now, NULL, {}), Next PROVE Ready(Now', NULL, {})
BY ProcessStep, ClientGoneStep, CleanUpStep, OnReadStep, OnWriteStep, OnErrorStep,
   OnSecTimerStep, OnTimerStep, ResetStatsStep DEF Next

(***************************************************************************)
(* The theorems.                                                           *)
(***************************************************************************)
\* Between two callbacks nothing is in hand.
Between == Ready(Now, NULL, {})

LEMMA EmptyList == ASSUME NEW S PROVE <<>> \in Lists(S)
<1>1. <<>> \in Seq(S) /\ Len(<<>>) = 0
  OBVIOUS
<1>2. \A i, j \in 1 .. 0 : <<>>[i] = <<>>[j] => i = j
  OBVIOUS
<1> QED BY <1>1, <1>2, ListFacts

LEMMA InitPool ==
  ASSUME NEW w \in WorkerSet, NEW k,
         k = [st |-> "NOTSTARTED", max |-> 0, made |-> 0, conns |-> {}, free |-> <<>>,
              bad |-> <<>>, queue |-> <<>>]
  PROVE  Pool(w, k)
<1>1. k \in WorkerRec
  <2>1. {} \in SUBSET Conns /\ <<>> \in Seq(Conns) /\ <<>> \in Seq(Requests) /\ 0 \in Nat
    OBVIOUS
  <2> QED BY <2>1 DEF WorkerRec
<1>2. /\ k.conns = {} /\ k.free = <<>> /\ k.bad = <<>> /\ k.queue = <<>> /\ k.made = 0
      /\ k.max = 0 /\ k.st = "NOTSTARTED"
  OBVIOUS
<1>3. <<>> \in Lists(Conns) /\ <<>> \in Lists(Requests)
  BY EmptyList
<1>4. Range(<<>>) = {}
  BY DEF Range
<1>5. Objects(w, 0) = {}
  BY DEF Objects
<1>6. Cardinality({}) = 0
  BY FS_EmptySet
<1>7. 0 \in 0 .. MaxConns[w] /\ 0 \in 0 .. 0
  BY ExtWorkerAssumption
<1> QED BY <1>1, <1>2, <1>3, <1>4, <1>5, <1>6, <1>7 DEF Pool

LEMMA InitBetween == Init => Between
<1> SUFFICES ASSUME Init PROVE Ready(Now, NULL, {})
  BY DEF Between
<1>1. PICK s : s = Now
  OBVIOUS
<1>2. s.wk = wk /\ s.conn = conn /\ s.req = req /\ s.faults = faults
  BY <1>1, NowFields
<1>3. \A w \in WorkerSet : Pool(w, s.wk[w]) /\ s.wk[w].queue = <<>> /\ s.wk[w].conns = {}
  <2> TAKE w \in WorkerSet
  <2>1. s.wk[w] = [st |-> "NOTSTARTED", max |-> 0, made |-> 0, conns |-> {}, free |-> <<>>,
                   bad |-> <<>>, queue |-> <<>>]
    BY <1>2 DEF Init
  <2>2. Pool(w, s.wk[w])
    BY <2>1, InitPool
  <2> QED BY <2>1, <2>2
<1>4. \A c \in Conns : s.conn[c] = [st |-> "DISCONNECTED", req |-> NULL,
                                    toClose |-> FALSE, sent |-> "no"]
  BY <1>2 DEF Init
<1>5. \A c \in Conns : s.conn[c] \in ConnRec /\ s.conn[c].req = NULL
  <2> TAKE c \in Conns
  <2>1. PICK x : x = s.conn[c]
    OBVIOUS
  <2>2. x = [st |-> "DISCONNECTED", req |-> NULL, toClose |-> FALSE, sent |-> "no"]
    BY <1>4, <2>1
  <2>3. x \in ConnRec /\ x.req = NULL
    BY <2>2 DEF ConnRec
  <2> QED BY <2>1, <2>3
<1>6. \A r \in Requests : s.req[r] = Idle
  BY <1>2 DEF Init
<1>7. \A r \in Requests : s.req[r] \in ReqRec /\ s.req[r].proc = NULL /\ ~s.req[r].live
  BY <1>6, IdleFacts
<1>8. s \in State
  <2>1. s.wk \in [WorkerSet -> WorkerRec]
    BY <1>2, <1>3 DEF Init, Pool
  <2>2. s.conn \in [Conns -> ConnRec] /\ s.req \in [Requests -> ReqRec]
    BY <1>2, <1>5, <1>7 DEF Init
  <2>3. s.faults \in 0 .. MaxFaults
    BY <1>2, ExtWorkerAssumption DEF Init
  <2> QED BY <1>1, <1>2, <2>1, <2>2, <2>3 DEF State, Now
<1>9. Pools(s)
  BY <1>3 DEF Pools
<1>10. Linked(s, NULL)
  BY <1>3, <1>5, <1>7, ConnOwner, ExtWorkerAssumption DEF Linked
<1>11. Places(s)
  <2>1. \A w \in WorkerSet : Queued(s, w) = {}
    BY <1>3 DEF Queued, Range
  <2> QED BY <1>7, <2>1 DEF Places
<1>12. NoneLost(s, {}) /\ Opened(s, NULL)
  BY <1>5, <1>7 DEF NoneLost, Opened
<1> QED BY <1>1, <1>8, <1>9, <1>10, <1>11, <1>12 DEF Ready, Sound

LEMMA StutterStep == ASSUME Ready(Now, NULL, {}), UNCHANGED vars PROVE Ready(Now', NULL, {})
<1>1. Now' = Now
  BY DEF vars, Now
<1> QED BY <1>1

\* The invariant of the callbacks
LEMMA BetweenStep == Between /\ [Next]_vars => Between'
BY NextStep, StutterStep DEF Between

LEMMA AlwaysBetween == Spec => []Between
<1>1. Between /\ [Next]_vars => Between'
  BY BetweenStep
<1> QED BY <1>1, InitBetween, PTL DEF Spec

\* The variables always have the shape that the classes give them, whatever
\* calls were nested: limits are within the configured ones, and the lists of
\* a worker's pool hold objects that the worker made.
THEOREM ExtTypes == Spec => []TypeOK
<1>1. Between => TypeOK
  <2> SUFFICES ASSUME Between PROVE TypeOK
    OBVIOUS
  <2>1. PICK s : s = Now /\ Ready(s, NULL, {})
    BY DEF Between
  <2>2. s \in State /\ Pools(s) /\ s.wk = wk
    BY <2>1, NowFields DEF Ready, Sound
  <2>3. ASSUME NEW w \in WorkerSet
        PROVE  /\ wk[w].max \in 0 .. MaxConns[w]
               /\ wk[w].conns \cup Range(wk[w].free) \cup Range(wk[w].bad)
                    \subseteq {w} \X (1 .. wk[w].made)
    <3>1. Pool(w, wk[w])
      BY <2>2 DEF Pools
    <3> QED BY <3>1 DEF Pool, Objects
  <2> QED BY <2>1, <2>2, <2>3 DEF TypeOK
<1> QED BY <1>1, AlwaysBetween, PTL

\* No nesting of the callbacks registers a connection object twice, frees it
\* twice, loses one, or makes more of them than the lists have room for.
THEOREM ExtPoolSound == Spec => []PoolSound
<1>1. Between => PoolSound
  <2> SUFFICES ASSUME Between, NEW w \in WorkerSet, NEW k, k = wk[w]
               PROVE  /\ Distinct(k.free) /\ Distinct(k.bad)
                      /\ Range(k.free) \subseteq k.conns
                      /\ k.conns \cap Range(k.bad) = {}
                      /\ Cardinality(k.conns) + Len(k.bad) = k.made
                      /\ Cardinality(k.conns) <= k.max
                      /\ k.made <= MaxConns[w]
    BY DEF PoolSound
  <2>1. Pool(w, k)
    <3>1. PICK s : s = Now /\ Ready(s, NULL, {})
      BY DEF Between
    <3>2. Pools(s) /\ s.wk = wk
      BY <3>1, NowFields DEF Ready, Sound
    <3> QED BY <3>2 DEF Pools
  <2>2. k.free \in Lists(Conns) /\ k.bad \in Lists(Conns)
    BY <2>1 DEF Pool
  <2>3. Distinct(k.free) /\ Distinct(k.bad)
    BY <2>2, ListCardinality DEF Distinct
  <2>4. Range(k.free) \subseteq k.conns /\ k.conns \cap Range(k.bad) = {}
    BY <2>1 DEF Pool
  <2>5. k.made \in 0 .. MaxConns[w] /\ Cardinality(k.conns) \in 0 .. k.max
    BY <2>1 DEF Pool
  <2>6. MaxConns[w] \in Nat /\ k.max \in 0 .. MaxConns[w]
    BY <2>1, ExtWorkerAssumption DEF Pool
  <2>7. Cardinality(k.conns) + Len(k.bad) = k.made
    <3>1. PICK A : A = k.conns /\ IsFiniteSet(A)
      BY <2>1, PoolConns
    <3>2. PICK B : B = Range(k.bad) /\ IsFiniteSet(B) /\ Cardinality(B) = Len(k.bad)
      BY <2>2, ListCardinality
    <3>3. A \cap B = {} /\ A \cup B = Objects(w, k.made)
      BY <2>1, <3>1, <3>2 DEF Pool
    <3>4. Cardinality(Objects(w, k.made)) = k.made
      BY <2>5, ObjectFacts
    <3>5. Cardinality(A \cup B) = Cardinality(A) + Cardinality(B) - Cardinality(A \cap B)
      BY <3>1, <3>2, FS_Union
    <3>6. Cardinality(A \cap B) = 0
      BY <3>3, FS_EmptySet
    <3>7. Cardinality(A) \in Nat /\ Cardinality(B) \in Nat
      BY <3>1, <3>2, FS_CardinalityType
    <3>8. k.made = Cardinality(A) + Cardinality(B) - 0
      BY <3>3, <3>4, <3>5, <3>6
    <3>9. Cardinality(A) + Cardinality(B) = k.made
      BY <3>7, <3>8
    <3> QED BY <3>1, <3>2, <3>9
  <2>8. Cardinality(k.conns) <= k.max /\ k.made <= MaxConns[w]
    BY <2>5, <2>6
  <2> QED BY <2>3, <2>4, <2>7, <2>8
<1> QED BY <1>1, AlwaysBetween, PTL

\* Connection and request always agree on each other; a registered connection
\* without request is in the free list, and one with a request has an event to
\* come.
THEOREM ExtAssignments == Spec => []Assignments
<1>1. Between => Assignments
  <2> SUFFICES ASSUME Between PROVE Assignments
    OBVIOUS
  <2>1. PICK s : s = Now /\ Ready(s, NULL, {})
    BY DEF Between
  <2>2. Linked(s, NULL) /\ Opened(s, NULL) /\ s.wk = wk /\ s.conn = conn /\ s.req = req
    BY <2>1, NowFields DEF Ready, Sound
  <2>3. \A c \in Conns, r \in Requests : conn[c].req = r <=> req[r].proc = c
    BY <2>2 DEF Linked
  <2>4. ASSUME NEW c \in Conns
        PROVE  /\ c \in wk[c[1]].conns => (conn[c].req = NULL <=> c \in Range(wk[c[1]].free))
               /\ conn[c].req # NULL => c \in wk[c[1]].conns /\ conn[c].st # "DISCONNECTED"
    <3>1. c # NULL
      BY ExtWorkerAssumption
    <3> QED BY <2>2, <3>1 DEF Linked, Opened
  <2> QED BY <2>3, <2>4 DEF Assignments
<1> QED BY <1>1, AlwaysBetween, PTL

\* No request is ever forgotten or in two places: until it is answered, or its
\* client left, it is on one connection or once in the queue of the worker
\* that it names.
THEOREM ExtRequestsPlaced == Spec => []RequestsPlaced
<1>1. Between => RequestsPlaced
  <2> SUFFICES ASSUME Between, NEW r \in Requests,
                      NEW places, places = {w \in WorkerSet : r \in Range(wk[w].queue)}
               PROVE  /\ \A w \in places : Distinct(wk[w].queue) /\ req[r].w = w
                      /\ places # {} => req[r].live /\ req[r].proc = NULL
                      /\ req[r].live /\ ~Finished(r) => places # {} \/ req[r].proc # NULL
    BY DEF RequestsPlaced
  <2>1. PICK s : s = Now /\ Ready(s, NULL, {})
    BY DEF Between
  <2>2. Pools(s) /\ Places(s) /\ NoneLost(s, {}) /\ s.wk = wk /\ s.req = req
    BY <2>1, NowFields DEF Ready, Sound
  <2>3. ASSUME NEW w \in places
        PROVE  Distinct(wk[w].queue) /\ req[r].w = w /\ req[r].live /\ req[r].proc = NULL
    <3>1. wk[w].queue \in Lists(Requests)
      BY <2>2 DEF Pools, Pool
    <3>2. Distinct(wk[w].queue)
      BY <3>1, ListCardinality DEF Distinct
    <3>3. req[r].w = w /\ req[r].live /\ req[r].proc = NULL
      BY <2>2 DEF Places, Queued, Underway
    <3> QED BY <3>2, <3>3
  <2>4. req[r].live /\ ~Finished(r) => places # {} \/ req[r].proc # NULL
    <3>1. req[r].live /\ ~Finished(r) => Placed(s, r)
      BY <2>2 DEF NoneLost, Over, Finished
    <3> QED BY <2>2, <3>1 DEF Placed, Queued
  <2> QED BY <2>3, <2>4
<1> QED BY <1>1, AlwaysBetween, PTL

=============================================================================
