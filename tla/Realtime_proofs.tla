-------------------------- MODULE Realtime_proofs --------------------------
(***************************************************************************)
(* Theorems about Realtime, for any number of tabs, users, actions and     *)
(* turns.  The invariant follows an action from the queue of a tab through *)
(* the request to the server, and from there over the wire into the other  *)
(* tabs: it is never in two of those places that would have it reduced or  *)
(* logged twice, and while a tab is steady it is in one of them at least.  *)
(***************************************************************************)
EXTENDS Realtime, SequenceTheorems, WellFoundedInduction, TLAPS

-----------------------------------------------------------------------------
(* The inductive invariant.                                                *)

\* The actions of a tab that its user sees done and the server may not know.
Waiting(t) == Range(queue[t]) \union Range(request[t].batch)

\* v could be shown in tab t: nothing is in it twice, the log is the server's,
\* and what was reduced without being logged is an action of the same user.
Sound(t, v) ==
  /\ Once(v.shown) /\ Once(v.log)
  /\ Range(v.shown) \subseteq 1..issued
  /\ Range(v.log) \subseteq Range(server)
  /\ \A n \in Range(v.shown) : Own(t, n) \/ n \in Range(v.log)

\* The server committed only what was dispatched, and once.
Books ==
  /\ \A n \in 1..issued : author[n] \in Tabs
  /\ Once(server) /\ Range(server) \subseteq 1..issued

\* What tab t has in its queue and in its request: its own actions, each in one
\* place, on the server exactly when the request says so; and a tab that owes
\* something has a snapshot to go back to.
InHand(t) ==
  /\ Once(queue[t]) /\ Once(request[t].batch)
  /\ Range(queue[t]) \intersect Range(request[t].batch) = {}
  /\ \A n \in Waiting(t) : n \in 1..issued /\ author[n] = t
  /\ Range(queue[t]) \intersect Range(server) = {}
  /\ request[t].stage \in {"sent", "open", "rejected", "failed"} =>
       Range(request[t].batch) \intersect Range(server) = {}
  /\ request[t].stage \in {"committed", "emitted"} =>
       Range(request[t].batch) \subseteq Range(server)
  /\ request[t].stage = "none" => request[t] = NoRequest
  /\ request[t].stage # "none" => request[t].rollback # NoState
  /\ queue[t] # <<>> /\ request[t] = NoRequest => before[t] # NoState
  /\ queue[t] # <<>> \/ request[t] # NoRequest => Viewing(t)

\* Whatever the store of tab t is or may become without a new action is sound.
States(t) ==
  /\ \A v \in {view[t], before[t], request[t].rollback} : v # NoState => Sound(t, v)
  /\ pull[t] \notin {NoState, Asked} =>
       /\ pull[t].shown = pull[t].log
       /\ Once(pull[t].log) /\ Range(pull[t].log) \subseteq Range(server)
  /\ Range(wire[t]) \subseteq Range(server)

\* A steady tab logs what it shows as soon as the server has it, and whatever
\* the server has that it does not show is another tab's and on its way.
Follows(t) ==
  /\ t \in room /\ Viewing(t)
  /\ Waiting(t) \subseteq Range(view[t].shown)
  /\ Range(view[t].log) \subseteq Range(view[t].shown)
  /\ \A n \in Range(view[t].shown) : n \in Range(view[t].log) \/ n \in Waiting(t)
  /\ \A n \in Range(server) \ Range(view[t].shown) :
       /\ author[n] # t
       /\ \/ n \in Range(wire[t])
          \/ \E u \in Tabs : request[u].stage = "committed" /\ n \in Range(request[u].batch)

IInv ==
  /\ TypeOK /\ Books
  /\ \A t \in Tabs : InHand(t) /\ States(t)
  /\ \A t \in steady : Follows(t)

-----------------------------------------------------------------------------
(* Sequences.                                                              *)

(***************************************************************************)
(* The elements of a sequence are what it has at its positions.            *)
(***************************************************************************)
LEMMA RangeOf ==
  ASSUME NEW S, NEW s \in Seq(S)
  PROVE  /\ Range(s) = {s[i] : i \in 1..Len(s)}
         /\ Range(s) \subseteq S
         /\ \A i \in 1..Len(s) : s[i] \in Range(s)
         /\ \A x \in Range(s) : \E i \in 1..Len(s) : x = s[i]
         /\ Len(s) \in Nat
BY RangeEquality, RangeOfSeq, LenProperties

(***************************************************************************)
(* The empty sequence has no elements.                                     *)
(***************************************************************************)
LEMMA RangeEmpty == Range(<<>>) = {} /\ Once(<<>>)
BY DEF Range, Once

(***************************************************************************)
(* Append adds one element; one that was not there leaves every element    *)
(* single.                                                                 *)
(***************************************************************************)
LEMMA OnAppend ==
  ASSUME NEW S, NEW s \in Seq(S), NEW e \in S
  PROVE  /\ Append(s, e) \in Seq(S)
         /\ Range(Append(s, e)) = Range(s) \union {e}
         /\ Once(s) /\ e \notin Range(s) => Once(Append(s, e))
<1> DEFINE r == Append(s, e)
<1>1. /\ r \in Seq(S) /\ Len(r) = Len(s) + 1 /\ Len(s) \in Nat
      /\ \A i \in 1..Len(s) : r[i] = s[i]
      /\ r[Len(s) + 1] = e
  BY AppendProperties, LenProperties
<1> HIDE DEF r
<1>2. Range(r) = {r[i] : i \in 1..Len(r)} /\ Range(s) = {s[i] : i \in 1..Len(s)}
  BY <1>1, RangeEquality
<1>3. Range(r) = Range(s) \union {e}
  BY <1>1, <1>2
<1>4. ASSUME Once(s), e \notin Range(s) PROVE Once(r)
  BY <1>1, <1>2, <1>4 DEF Once
<1> QED
  BY <1>1, <1>3, <1>4 DEF r

(***************************************************************************)
(* Two sequences in one: the elements of both, single if they were and the *)
(* two share none.                                                         *)
(***************************************************************************)
LEMMA OnConcat ==
  ASSUME NEW S, NEW s \in Seq(S), NEW r \in Seq(S)
  PROVE  /\ s \o r \in Seq(S)
         /\ Range(s \o r) = Range(s) \union Range(r)
         /\ Once(s) /\ Once(r) /\ Range(s) \intersect Range(r) = {} => Once(s \o r)
<1> DEFINE c == s \o r
<1>1. /\ c \in Seq(S) /\ Len(c) = Len(s) + Len(r) /\ Len(s) \in Nat /\ Len(r) \in Nat
      /\ \A i \in 1..Len(c) : c[i] = IF i <= Len(s) THEN s[i] ELSE r[i - Len(s)]
  BY ConcatProperties, LenProperties
<1>2. Range(c) = Range(s) \union Range(r)
  BY RangeConcatenation
<1> HIDE DEF c
<1>3. ASSUME Once(s), Once(r), Range(s) \intersect Range(r) = {} PROVE Once(c)
  <2> SUFFICES ASSUME NEW i \in 1..Len(c), NEW k \in 1..Len(c), c[i] = c[k], i < k
               PROVE  FALSE
    BY <1>1 DEF Once
  <2>1. CASE k <= Len(s)
    BY <1>1, <1>3, <2>1 DEF Once
  <2>2. CASE i > Len(s)
    <3>1. i - Len(s) \in 1..Len(r) /\ k - Len(s) \in 1..Len(r)
      BY <1>1, <2>2
    <3> QED
      BY <1>1, <1>3, <2>2, <3>1 DEF Once
  <2>3. CASE i <= Len(s) /\ k > Len(s)
    <3>1. c[i] = s[i] /\ i \in 1..Len(s) /\ c[k] = r[k - Len(s)] /\ k - Len(s) \in 1..Len(r)
      BY <1>1, <2>3
    <3>2. c[i] \in Range(s) /\ c[k] \in Range(r)
      BY <3>1, RangeOf
    <3> QED
      BY <1>3, <3>2
  <2> QED
    BY <1>1, <2>1, <2>2, <2>3
<1> QED
  BY <1>1, <1>2, <1>3 DEF c

(***************************************************************************)
(* A sequence cut in two, as Send does with the queue: no element is lost  *)
(* or doubled.                                                             *)
(***************************************************************************)
LEMMA OnCut ==
  ASSUME NEW S, NEW s \in Seq(S), NEW n \in 0..Len(s)
  PROVE  /\ SubSeq(s, 1, n) \in Seq(S) /\ SubSeq(s, n + 1, Len(s)) \in Seq(S)
         /\ Range(SubSeq(s, 1, n)) \union Range(SubSeq(s, n + 1, Len(s))) = Range(s)
         /\ Once(s) => /\ Once(SubSeq(s, 1, n)) /\ Once(SubSeq(s, n + 1, Len(s)))
                       /\ Range(SubSeq(s, 1, n)) \intersect Range(SubSeq(s, n + 1, Len(s))) = {}
<1> DEFINE a == SubSeq(s, 1, n)
           b == SubSeq(s, n + 1, Len(s))
<1>0. Len(s) \in Nat /\ \A i \in 1..Len(s) : s[i] \in S
  BY LenProperties, ElementOfSeq
<1>1. a \in Seq(S) /\ Len(a) = n /\ \A i \in 1..n : a[i] = s[i]
  BY <1>0, SubSeqProperties
<1>2. /\ b \in Seq(S) /\ Len(b) = Len(s) - n
      /\ \A i \in 1..(Len(s) - n) : b[i] = s[i + n]
  <2>1. /\ SubSeq(s, n + 1, Len(s)) \in Seq(S)
        /\ Len(SubSeq(s, n + 1, Len(s))) = IF n + 1 <= Len(s) THEN Len(s) - (n + 1) + 1 ELSE 0
        /\ \A i \in 1..(Len(s) - (n + 1) + 1) : SubSeq(s, n + 1, Len(s))[i] = s[(n + 1) + i - 1]
    <3>1. n + 1 \in Int /\ Len(s) \in Int /\ \A i \in (n + 1)..Len(s) : s[i] \in S
      BY <1>0
    <3> QED
      BY <3>1, SubSeqProperties
  <2> QED
    BY <1>0, <2>1
<1> HIDE DEF a, b
<1>3. /\ Range(a) = {a[i] : i \in 1..Len(a)} /\ Range(b) = {b[i] : i \in 1..Len(b)}
      /\ Range(s) = {s[i] : i \in 1..Len(s)}
  <2>1. Range(a) = {a[i] : i \in 1..Len(a)}
    BY <1>1, RangeOf
  <2>2. Range(b) = {b[i] : i \in 1..Len(b)}
    BY <1>2, RangeOf
  <2> QED
    BY <2>1, <2>2, RangeOf
<1>4. Range(a) \union Range(b) = Range(s)
  <2>2. ASSUME NEW i \in 1..Len(s) PROVE s[i] \in Range(a) \union Range(b)
    <3>1. CASE i <= n
      <4>1. i \in 1..Len(a) /\ a[i] = s[i]
        BY <1>0, <1>1, <3>1
      <4> QED
        BY <1>3, <4>1
    <3>2. CASE i > n
      <4>1. i - n \in 1..(Len(s) - n) /\ (i - n) + n = i
        BY <1>0, <3>2
      <4>2. i - n \in 1..Len(b) /\ b[i - n] = s[i]
        BY <1>2, <4>1
      <4> QED
        BY <1>3, <4>2
    <3> QED
      BY <1>0, <3>1, <3>2
  <2>3. Range(a) \subseteq Range(s)
    BY <1>0, <1>1, <1>3
  <2>4. ASSUME NEW i \in 1..Len(b) PROVE b[i] \in Range(s)
    <3>1. i + n \in 1..Len(s) /\ b[i] = s[i + n]
      BY <1>0, <1>2
    <3> QED
      BY <1>3, <3>1
  <2> QED
    BY <1>3, <2>2, <2>3, <2>4
<1>5. ASSUME Once(s) PROVE Once(a) /\ Once(b) /\ Range(a) \intersect Range(b) = {}
  <2>1. Once(a)
    BY <1>0, <1>1, <1>5 DEF Once
  <2>2. Once(b)
    BY <1>0, <1>2, <1>5 DEF Once
  <2>3. Range(a) \intersect Range(b) = {}
    <3> SUFFICES ASSUME NEW i \in 1..Len(a), NEW k \in 1..Len(b), a[i] = b[k] PROVE FALSE
      BY <1>3
    <3>1. s[i] = s[k + n] /\ i \in 1..Len(s) /\ k + n \in 1..Len(s) /\ i # k + n
      BY <1>0, <1>1, <1>2
    <3> QED
      BY <1>5, <3>1 DEF Once
  <2> QED
    BY <2>1, <2>2, <2>3
<1> QED
  BY <1>1, <1>2, <1>4, <1>5 DEF a, b

(***************************************************************************)
(* A sequence is its head and its tail, as Receive takes the wire.         *)
(***************************************************************************)
LEMMA OnTail ==
  ASSUME NEW S, NEW s \in Seq(S), s # <<>>
  PROVE  /\ Head(s) \in Range(s) /\ Tail(s) \in Seq(S)
         /\ Range(s) = Range(Tail(s)) \union {Head(s)}
<1>1. /\ Tail(s) \in Seq(S) /\ Len(Tail(s)) = Len(s) - 1
      /\ \A i \in 1..Len(Tail(s)) : Tail(s)[i] = s[i + 1]
  BY HeadTailProperties
<1>2. Len(s) \in Nat \ {0} /\ Head(s) = s[1]
  BY EmptySeq
<1>3. Range(Tail(s)) = {Tail(s)[i] : i \in 1..Len(Tail(s))} /\ Range(s) = {s[i] : i \in 1..Len(s)}
  BY <1>1, RangeEquality
<1>5. ASSUME NEW i \in 1..Len(s) PROVE s[i] \in Range(Tail(s)) \union {Head(s)}
  <2>1. CASE i # 1
    <3>1. i - 1 \in 1..Len(Tail(s)) /\ (i - 1) + 1 = i
      BY <1>1, <1>2, <2>1
    <3>2. Tail(s)[i - 1] = s[i]
      BY <1>1, <3>1
    <3> QED
      BY <1>3, <3>1, <3>2
  <2> QED
    BY <1>2, <2>1
<1>6. Range(Tail(s)) \union {Head(s)} \subseteq Range(s)
  BY <1>1, <1>2, <1>3
<1> QED
  BY <1>1, <1>2, <1>3, <1>5, <1>6

(***************************************************************************)
(* What appendServerLogEntries leaves: the log and the new entries, none   *)
(* of them twice, whatever the entries are. The loop is shown to define a  *)
(* function, and what it has built up to each entry follows from the entry *)
(* before: both by the least index where that would fail.                  *)
(***************************************************************************)
LEMMA LoggedFacts ==
  ASSUME NEW v \in State, NEW ns \in Seq(Actions)
  PROVE  /\ Logged(v, ns) \in State
         /\ Logged(v, ns).shown = v.shown
         /\ Range(Logged(v, ns).log) = Range(v.log) \union Range(ns)
         /\ Once(v.log) => Once(Logged(v, ns).log)
<1> DEFINE Step(l, n) == IF n \in Range(l) THEN l ELSE Append(l, n)
           IsRun(g, m) == g = [i \in 0..m |-> IF i = 0 THEN v.log ELSE Step(g[i - 1], ns[i])]
           Len0 == Len(ns)
<1>1. Len0 \in Nat /\ \A i \in 1..Len0 : ns[i] \in Actions
  BY LenProperties, ElementOfSeq
<1>2. v.log \in Seq(Actions) /\ v.shown \in Seq(Actions)
  BY DEF State
<1>3. \A m \in 0..Len0 : \E g : IsRun(g, m)
  <2> DEFINE Bad == {m \in 0..Len0 : ~\E g : IsRun(g, m)}
  <2> SUFFICES ASSUME Bad # {} PROVE FALSE
    OBVIOUS
  <2>1. PICK m \in Bad : \A k \in Bad : ~(k < m)
    <3>1. Bad \subseteq Nat
      BY <1>1
    <3> HIDE DEF Bad
    <3>2. PICK m \in Bad : \A k \in Bad : <<k, m>> \notin OpToRel(<, Nat)
      BY <3>1, NatLessThanWellFounded, WFMin
    <3> QED
      BY <3>1, <3>2 DEF OpToRel
  <2>2. m \in 0..Len0 /\ ~\E g : IsRun(g, m)
    OBVIOUS
  <2>3. CASE m = 0
    <3>1. IsRun([i \in 0..m |-> v.log], m)
      BY <2>3
    <3> QED
      BY <2>2, <3>1
  <2>4. CASE m # 0
    <3>1. m - 1 \in 0..Len0 /\ m - 1 < m
      BY <1>1, <2>2, <2>4
    <3>2. PICK g : IsRun(g, m - 1)
      BY <2>1, <3>1
    <3> DEFINE h == [i \in 0..m |-> IF i = m THEN Step(g[m - 1], ns[m]) ELSE g[i]]
    <3>3. \A i \in 0..m : h[i] = IF i = 0 THEN v.log ELSE Step(h[i - 1], ns[i])
      <4> TAKE i \in 0..m
      <4> HIDE DEF Step
      <4>1. CASE i = m
        BY <1>1, <2>2, <2>4, <4>1, <3>1
      <4>2. CASE i # m
        <5>1. i \in 0..(m - 1) /\ (i # 0 => i - 1 \in 0..(m - 1))
          BY <1>1, <2>2, <4>2
        <5>2. g[i] = IF i = 0 THEN v.log ELSE Step(g[i - 1], ns[i])
          BY <3>2, <5>1
        <5> QED
          BY <4>2, <5>1, <5>2, <1>1, <2>2
      <4> QED
        BY <4>1, <4>2
    <3>4. IsRun(h, m)
      <4>1. h = [i \in 0..m |-> h[i]]
        OBVIOUS
      <4> HIDE DEF h, Step
      <4> QED
        BY <3>3, <4>1
    <3> QED
      BY <2>2, <3>4
  <2> QED
    BY <2>3, <2>4
<1> DEFINE run == CHOOSE g : IsRun(g, Len0)
<1>4. IsRun(run, Len0)
  <2> HIDE DEF IsRun
  <2>1. \E g : IsRun(g, Len0)
    BY <1>1, <1>3
  <2> QED
    BY <2>1
<1>5. Logged(v, ns) = [shown |-> v.shown, log |-> run[Len0]]
  BY DEF Logged
<1> HIDE DEF run
<1> DEFINE Good(i) == /\ run[i] \in Seq(Actions)
                      /\ Range(v.log) \subseteq Range(run[i])
                      /\ Range(run[i]) \subseteq Range(v.log) \union Range(ns)
                      /\ \A k \in 1..i : ns[k] \in Range(run[i])
                      /\ Once(v.log) => Once(run[i])
<1>6. \A i \in 0..Len0 : Good(i)
  <2> DEFINE Bad == {i \in 0..Len0 : ~Good(i)}
  <2> SUFFICES ASSUME Bad # {} PROVE FALSE
    OBVIOUS
  <2>1. PICK m \in Bad : \A k \in Bad : ~(k < m)
    <3>1. Bad \subseteq Nat
      BY <1>1
    <3> HIDE DEF Bad
    <3>2. PICK m \in Bad : \A k \in Bad : <<k, m>> \notin OpToRel(<, Nat)
      BY <3>1, NatLessThanWellFounded, WFMin
    <3> QED
      BY <3>1, <3>2 DEF OpToRel
  <2>2. m \in 0..Len0 /\ ~Good(m)
    OBVIOUS
  <2>3. run[m] = IF m = 0 THEN v.log ELSE Step(run[m - 1], ns[m])
    BY <1>4, <2>2
  <2>4. CASE m = 0
    <3>1. run[m] = v.log /\ 1..m = {}
      BY <2>3, <2>4
    <3> QED
      BY <1>2, <2>2, <3>1
  <2>5. CASE m # 0
    <3>1. m - 1 \in 0..Len0 /\ m - 1 < m /\ m \in 1..Len0
      BY <1>1, <2>2, <2>5
    <3>2. Good(m - 1)
      BY <2>1, <3>1
    <3>3. ns[m] \in Actions /\ ns[m] \in Range(ns)
      BY <1>1, <3>1, RangeOf
    <3>4. \A k \in 1..m : k = m \/ k \in 1..(m - 1)
      BY <3>1
    <3>5. CASE ns[m] \in Range(run[m - 1])
      <4>1. run[m] = run[m - 1]
        BY <2>3, <2>5, <3>5
      <4> QED
        BY <2>2, <3>2, <3>4, <3>5, <4>1
    <3>6. CASE ns[m] \notin Range(run[m - 1])
      <4>1. run[m] = Append(run[m - 1], ns[m])
        BY <2>3, <2>5, <3>6
      <4>2. /\ run[m] \in Seq(Actions)
            /\ Range(run[m]) = Range(run[m - 1]) \union {ns[m]}
            /\ Once(run[m - 1]) => Once(run[m])
        BY <3>2, <3>3, <3>6, <4>1, OnAppend
      <4> QED
        BY <2>2, <3>2, <3>3, <3>4, <4>2
    <3> QED
      BY <3>5, <3>6
  <2> QED
    BY <2>4, <2>5
<1>7. Range(run[Len0]) = Range(v.log) \union Range(ns)
  <2>1. Good(Len0)
    BY <1>1, <1>6
  <2>2. \A x \in Range(ns) : \E k \in 1..Len0 : x = ns[k]
    BY RangeOf
  <2> QED
    BY <2>1, <2>2
<1>8. Good(Len0)
  BY <1>1, <1>6
<1> QED
  BY <1>2, <1>5, <1>7, <1>8 DEF State
(***************************************************************************)
(* The server opens the transaction of a batch, or refuses it.             *)
(***************************************************************************)
LEMMA OpenKeeps ==
  ASSUME IInv, NEW t \in Tabs, Open(t) PROVE IInv'
<1> USE DEF Open, Request, facts, tabVars, netVars
<1>1. TypeOK'
  BY DEF IInv, TypeOK, Stages, State
<1>2. Books'
  BY DEF IInv, Books
<1>3. ASSUME NEW u \in Tabs PROVE InHand(u)'
  BY DEF IInv, TypeOK, InHand, Waiting, Viewing, NoRequest
<1>4. ASSUME NEW u \in Tabs PROVE States(u)'
  BY RangeEmpty DEF IInv, TypeOK, Books, States, Sound, Own
<1>5. ASSUME NEW u \in steady' PROVE Follows(u)'
  BY DEF IInv, TypeOK, Follows, Waiting, Viewing
<1> QED
  BY <1>1, <1>2, <1>3, <1>4, <1>5 DEF IInv

(***************************************************************************)
(* The server refuses the batch.                                           *)
(***************************************************************************)
LEMMA RefuseKeeps ==
  ASSUME IInv, NEW t \in Tabs, Refuse(t) PROVE IInv'
<1> USE DEF Refuse, Request, facts, tabVars, netVars
<1>1. TypeOK'
  BY DEF IInv, TypeOK, Stages, State
<1>2. Books'
  BY DEF IInv, Books
<1>3. ASSUME NEW u \in Tabs PROVE InHand(u)'
  BY DEF IInv, TypeOK, InHand, Waiting, Viewing, NoRequest
<1>4. ASSUME NEW u \in Tabs PROVE States(u)'
  BY RangeEmpty DEF IInv, TypeOK, Books, States, Sound, Own
<1>5. ASSUME NEW u \in steady' PROVE Follows(u)'
  BY DEF IInv, TypeOK, Follows, Waiting, Viewing
<1> QED
  BY <1>1, <1>2, <1>3, <1>4, <1>5 DEF IInv

(***************************************************************************)
(* A batch is given up with a 500.                                         *)
(***************************************************************************)
LEMMA FailKeeps ==
  ASSUME IInv, NEW t \in Tabs, Fail(t) PROVE IInv'
<1> USE DEF Fail, Request, facts, tabVars, netVars
<1>1. TypeOK'
  BY DEF IInv, TypeOK, Stages, State
<1>2. Books'
  BY DEF IInv, Books
<1>3. ASSUME NEW u \in Tabs PROVE InHand(u)'
  BY DEF IInv, TypeOK, InHand, Waiting, Viewing, NoRequest
<1>4. ASSUME NEW u \in Tabs PROVE States(u)'
  BY RangeEmpty DEF IInv, TypeOK, Books, States, Sound, Own
<1>5. ASSUME NEW u \in steady' PROVE Follows(u)'
  BY DEF IInv, TypeOK, Follows, Waiting, Viewing
<1> QED
  BY <1>1, <1>2, <1>3, <1>4, <1>5 DEF IInv

(***************************************************************************)
(* A socket connects.                                                      *)
(***************************************************************************)
LEMMA ConnectKeeps ==
  ASSUME IInv, NEW t \in Tabs, Connect(t) PROVE IInv'
<1> USE DEF Connect, facts, tabVars, netVars
<1>1. TypeOK'
  BY DEF IInv, TypeOK, Stages, State
<1>2. Books'
  BY DEF IInv, Books
<1>3. ASSUME NEW u \in Tabs PROVE InHand(u)'
  BY DEF IInv, TypeOK, InHand, Waiting, Viewing, NoRequest
<1>4. ASSUME NEW u \in Tabs PROVE States(u)'
  BY RangeEmpty DEF IInv, TypeOK, Books, States, Sound, Own
<1>5. ASSUME NEW u \in steady' PROVE Follows(u)'
  BY DEF IInv, TypeOK, Follows, Waiting, Viewing
<1> QED
  BY <1>1, <1>2, <1>3, <1>4, <1>5 DEF IInv

(***************************************************************************)
(* A socket is gone, with what was on its wire.                            *)
(***************************************************************************)
LEMMA DropKeeps ==
  ASSUME IInv, NEW t \in Tabs, Drop(t) PROVE IInv'
<1> USE DEF Drop, facts, tabVars, netVars
<1>1. TypeOK'
  BY DEF IInv, TypeOK, Stages, State
<1>2. Books'
  BY DEF IInv, Books
<1>3. ASSUME NEW u \in Tabs PROVE InHand(u)'
  BY DEF IInv, TypeOK, InHand, Waiting, Viewing, NoRequest
<1>4. ASSUME NEW u \in Tabs PROVE States(u)'
  <2>1. Range(wire'[u]) \subseteq Range(server')
    BY RangeEmpty DEF IInv, TypeOK, States
  <2> QED
    BY <2>1 DEF IInv, States, Sound, Own
<1>5. ASSUME NEW u \in steady' PROVE Follows(u)'
  <2>1. u \in steady /\ u # t /\ u \in Tabs
    BY DEF IInv, TypeOK
  <2>2. wire'[u] = wire[u] /\ Follows(u)
    BY <2>1 DEF IInv, TypeOK
  <2> QED
    BY <2>1, <2>2 DEF Follows, Waiting, Viewing
<1> QED
  BY <1>1, <1>2, <1>3, <1>4, <1>5 DEF IInv

(***************************************************************************)
(* A tab opens the party.                                                  *)
(***************************************************************************)
LEMMA OpenPartyKeeps ==
  ASSUME IInv, NEW t \in Tabs, OpenParty(t) PROVE IInv'
<1> USE DEF OpenParty, facts, tabVars, netVars
<1>1. TypeOK'
  BY DEF IInv, TypeOK, Stages, State
<1>2. Books'
  BY DEF IInv, Books
<1>3. ASSUME NEW u \in Tabs PROVE InHand(u)'
  BY DEF IInv, TypeOK, InHand, Waiting, Viewing, NoRequest
<1>4. ASSUME NEW u \in Tabs PROVE States(u)'
  BY RangeEmpty DEF IInv, TypeOK, Books, States, Sound, Own
<1>5. ASSUME NEW u \in steady' PROVE Follows(u)'
  BY DEF IInv, TypeOK, Follows, Waiting, Viewing
<1> QED
  BY <1>1, <1>2, <1>3, <1>4, <1>5 DEF IInv

(***************************************************************************)
(* The server answers a pull.                                              *)
(***************************************************************************)
LEMMA AnswerKeeps ==
  ASSUME IInv, NEW t \in Tabs, Answer(t) PROVE IInv'
<1> USE DEF Answer, ServerState, facts, tabVars, netVars
<1>1. TypeOK'
  BY DEF IInv, TypeOK, Stages, State
<1>2. Books'
  BY DEF IInv, Books
<1>3. ASSUME NEW u \in Tabs PROVE InHand(u)'
  BY DEF IInv, TypeOK, InHand, Waiting, Viewing, NoRequest
<1>4. ASSUME NEW u \in Tabs PROVE States(u)'
  BY RangeEmpty DEF IInv, TypeOK, Books, States, Sound, Own
<1>5. ASSUME NEW u \in steady' PROVE Follows(u)'
  BY DEF IInv, TypeOK, Follows, Waiting, Viewing
<1> QED
  BY <1>1, <1>2, <1>3, <1>4, <1>5 DEF IInv

(***************************************************************************)
(* A user joins or leaves.                                                 *)
(***************************************************************************)
LEMMA MoveKeeps ==
  ASSUME IInv, NEW w \in Users, Move(w) PROVE IInv'
<1> USE DEF Move, facts, tabVars, netVars
<1>1. TypeOK'
  BY DEF IInv, TypeOK, Stages, State
<1>2. Books'
  BY DEF IInv, Books
<1>3. ASSUME NEW u \in Tabs PROVE InHand(u)'
  BY DEF IInv, TypeOK, InHand, Waiting, Viewing, NoRequest
<1>4. ASSUME NEW u \in Tabs PROVE States(u)'
  BY RangeEmpty DEF IInv, TypeOK, Books, States, Sound, Own
<1>5. ASSUME NEW u \in steady' PROVE Follows(u)'
  BY DEF IInv, TypeOK, Follows, Waiting, Viewing
<1> QED
  BY <1>1, <1>2, <1>3, <1>4, <1>5 DEF IInv

-----------------------------------------------------------------------------
(* One action at a time.                                                   *)

(***************************************************************************)
(* A sound state stays sound when actions are dispatched and committed.    *)
(***************************************************************************)
LEMMA SoundStays ==
  ASSUME NEW t, NEW v, Sound(t, v), issued \in Nat, issued' \in Nat, issued <= issued',
         UNCHANGED user, \A n \in 1..issued : author'[n] = author[n],
         Range(server) \subseteq Range(server')
  PROVE  Sound(t, v)'
<1>1. 1..issued \subseteq 1..issued'
  OBVIOUS
<1>2. Range(v.shown) \subseteq 1..issued' /\ Range(v.log) \subseteq Range(server')
  BY <1>1 DEF Sound
<1>3. ASSUME NEW n \in Range(v.shown) PROVE Own(t, n)' \/ n \in Range(v.log)
  <2>1. n \in 1..issued /\ (Own(t, n) \/ n \in Range(v.log))
    BY DEF Sound
  <2> QED
    BY <2>1 DEF Own
<1> QED
  BY <1>2, <1>3 DEF Sound

(***************************************************************************)
(* A batch is committed: no action of it was on the server, and from now   *)
(* on it is on its way to every tab in the room.                           *)
(***************************************************************************)
LEMMA CommitKeeps ==
  ASSUME IInv, NEW t \in Tabs, Commit(t) PROVE IInv'
<1> DEFINE batch == request[t].batch
<1> USE DEF facts, tabVars, netVars
<1>1. /\ batch \in Seq(Actions) /\ server \in Seq(Actions)
      /\ request[t].stage = "open"
      /\ request' = [request EXCEPT ![t] = [stage |-> "committed", batch |-> batch,
                                            rollback |-> request[t].rollback]]
  BY DEF IInv, TypeOK, Commit, Request
<1>2. /\ Once(server) /\ Once(batch) /\ Range(batch) \intersect Range(server) = {}
      /\ \A n \in Range(batch) : n \in 1..issued /\ author[n] = t
  BY <1>1 DEF IInv, Books, InHand, Waiting
<1>3. /\ server' \in Seq(Actions)
      /\ Range(server') = Range(server) \union Range(batch)
      /\ Once(server')
  BY <1>1, <1>2, OnConcat DEF Commit
<1>4. TypeOK'
  BY <1>1, <1>3 DEF IInv, TypeOK, Commit, Stages
<1>5. Books'
  BY <1>2, <1>3 DEF IInv, Books, Commit
<1>6. ASSUME NEW u \in Tabs PROVE InHand(u)'
  <2>1. CASE u = t
    <3>1. request'[t] = [stage |-> "committed", batch |-> batch, rollback |-> request[t].rollback]
      BY <1>1 DEF IInv, TypeOK
    <3>2. InHand(t)
      BY DEF IInv
    <3>3. /\ queue'[t] = queue[t] /\ before'[t] = before[t] /\ view'[t] = view[t]
          /\ author' = author /\ issued' = issued
      BY DEF Commit
    <3>4. Range(queue[t]) \intersect Range(server') = {} /\ Range(batch) \subseteq Range(server')
      BY <1>3, <3>2 DEF InHand
    <3>5. request[t] # NoRequest /\ request'[t] # NoRequest
      BY <1>1, <3>1 DEF NoRequest
    <3> QED
      BY <1>1, <2>1, <3>1, <3>2, <3>3, <3>4, <3>5 DEF InHand, Waiting, Viewing
  <2>2. CASE u # t
    <3>1. request'[u] = request[u] /\ queue'[u] = queue[u] /\ before'[u] = before[u] /\ view'[u] = view[u]
      BY <1>1, <2>2 DEF IInv, TypeOK, Commit
    <3>2. \A n \in Waiting(u) : n \notin Range(batch)
      BY <1>2, <2>2 DEF IInv, InHand
    <3> QED
      BY <1>3, <3>1, <3>2 DEF IInv, InHand, Waiting, Viewing, Commit
  <2> QED
    BY <2>1, <2>2
<1>7. ASSUME NEW u \in Tabs PROVE States(u)'
  <2>1. /\ view'[u] = view[u] /\ before'[u] = before[u] /\ pull'[u] = pull[u] /\ wire'[u] = wire[u]
        /\ request'[u].rollback = request[u].rollback
    BY <1>1 DEF IInv, TypeOK, Commit
  <2>2. ASSUME NEW v \in {view'[u], before'[u], request'[u].rollback}, v # NoState
        PROVE  Sound(u, v)'
    <3>1. Sound(u, v)
      BY <2>1, <2>2 DEF IInv, States
    <3> QED
      BY <1>3, <3>1, SoundStays DEF IInv, TypeOK, Commit
  <2> QED
    BY <1>3, <2>1, <2>2 DEF IInv, States
<1>8. ASSUME NEW u \in steady' PROVE Follows(u)'
  <2>1. /\ u \in Tabs /\ Follows(u) /\ Waiting(u)' = Waiting(u)
        /\ view' = view /\ room' = room /\ wire' = wire /\ author' = author
    BY <1>1 DEF IInv, TypeOK, Commit, Waiting
  <2>2. ASSUME NEW n \in Range(server') \ Range(view'[u].shown)
        PROVE  /\ author'[n] # u
               /\ \/ n \in Range(wire'[u])
                  \/ \E w \in Tabs : request'[w].stage = "committed" /\ n \in Range(request'[w].batch)
    <3>1. CASE n \in Range(server)
      <4>1. author[n] # u
        BY <2>1, <3>1, <2>2 DEF Follows
      <4>2. CASE n \in Range(wire[u])
        BY <2>1, <4>1, <4>2
      <4>3. CASE n \notin Range(wire[u])
        <5>1. PICK w \in Tabs : request[w].stage = "committed" /\ n \in Range(request[w].batch)
          BY <2>1, <2>2, <3>1, <4>3 DEF Follows
        <5>2. request'[w] = request[w]
          BY <1>1, <5>1 DEF IInv, TypeOK
        <5> QED
          BY <2>1, <4>1, <5>1, <5>2
      <4> QED
        BY <4>2, <4>3
    <3>2. CASE n \in Range(batch)
      BY <1>1, <1>2, <2>1, <3>2 DEF Follows, IInv, TypeOK, Waiting
    <3> QED
      BY <1>3, <3>1, <3>2
  <2> QED
    BY <2>1, <2>2 DEF Follows, Viewing
<1> QED
  BY <1>4, <1>5, <1>6, <1>7, <1>8 DEF IInv

(***************************************************************************)
(* The batch goes out: a steady tab is in the room, so it is on its wire.  *)
(***************************************************************************)
LEMMA EmitKeeps ==
  ASSUME IInv, NEW t \in Tabs, Emit(t) PROVE IInv'
<1> DEFINE batch == request[t].batch
<1> USE DEF facts, tabVars
<1>1. /\ batch \in Seq(Actions) /\ server \in Seq(Actions)
      /\ request[t].stage = "committed"
      /\ request' = [request EXCEPT ![t] = [stage |-> "emitted", batch |-> batch,
                                            rollback |-> request[t].rollback]]
  BY DEF IInv, TypeOK, Emit, Request
<1>2. ASSUME NEW u \in Tabs
      PROVE  /\ wire'[u] \in Seq(Actions)
             /\ Range(wire'[u]) = Range(wire[u]) \union (IF u \in room THEN Range(batch) ELSE {})
  BY <1>1, OnConcat DEF IInv, TypeOK, Emit, Sent
<1>3. Range(batch) \subseteq Range(server)
  BY <1>1 DEF IInv, InHand
<1>4. TypeOK'
  <2>1. wire' \in [Tabs -> Seq(Actions)]
    BY <1>2 DEF Emit, Sent
  <2>2. request' \in [Tabs -> [stage : Stages, batch : Seq(Actions),
                               rollback : State \union {NoState}]]
    BY <1>1 DEF IInv, TypeOK, Stages
  <2> QED
    BY <2>1, <2>2 DEF IInv, TypeOK, Emit
<1>5. Books'
  BY DEF IInv, Books, Emit
<1>6. ASSUME NEW u \in Tabs PROVE InHand(u)'
  BY <1>1, <1>3 DEF IInv, TypeOK, InHand, Waiting, Viewing, NoRequest, Emit
<1>7. ASSUME NEW u \in Tabs PROVE States(u)'
  <2>1. Range(wire'[u]) \subseteq Range(server')
    BY <1>2, <1>3 DEF IInv, States, Emit
  <2> QED
    BY <1>1, <2>1 DEF IInv, TypeOK, States, Sound, Own, Emit
<1>8. ASSUME NEW u \in steady' PROVE Follows(u)'
  <2>1. /\ u \in Tabs /\ u \in steady /\ Follows(u) /\ Waiting(u)' = Waiting(u) /\ u \in room
        /\ view' = view /\ room' = room /\ server' = server /\ author' = author
    <3>1. u \in Tabs /\ u \in steady /\ Follows(u) /\ u \in room
      BY DEF IInv, TypeOK, Emit, Follows
    <3>2. request'[u].batch = request[u].batch
      BY <1>1, <3>1 DEF IInv, TypeOK
    <3> QED
      BY <3>1, <3>2 DEF Emit, Waiting
  <2>2. ASSUME NEW n \in Range(server') \ Range(view'[u].shown)
        PROVE  /\ author'[n] # u
               /\ \/ n \in Range(wire'[u])
                  \/ \E w \in Tabs : request'[w].stage = "committed" /\ n \in Range(request'[w].batch)
    <3>1. author[n] # u
      BY <2>1 DEF Follows
    <3>2. CASE n \in Range(wire[u]) \/ n \in Range(batch)
      BY <1>2, <2>1, <3>1, <3>2
    <3>3. CASE ~(n \in Range(wire[u]) \/ n \in Range(batch))
      <4>1. PICK w \in Tabs : request[w].stage = "committed" /\ n \in Range(request[w].batch)
        BY <2>1, <3>3 DEF Follows
      <4>2. request'[w] = request[w]
        BY <1>1, <3>3, <4>1 DEF IInv, TypeOK
      <4> QED
        BY <2>1, <3>1, <4>1, <4>2
    <3> QED
      BY <3>2, <3>3
  <2> QED
    BY <2>1, <2>2 DEF Follows, Viewing
<1> QED
  BY <1>4, <1>5, <1>6, <1>7, <1>8 DEF IInv

(***************************************************************************)
(* The store is replaced by what was pulled, which is what the server had  *)
(* by then; Coming says that the rest will come.                           *)
(***************************************************************************)
LEMMA HydrateKeeps ==
  ASSUME IInv, NEW t \in Tabs, Hydrate(t) PROVE IInv'
<1> USE DEF facts, netVars
<1>1. /\ pull[t] \in State /\ pull[t] # NoState
      /\ view' = [view EXCEPT ![t] = pull[t]] /\ pull' = [pull EXCEPT ![t] = NoState]
      /\ pull[t].shown = pull[t].log
      /\ Once(pull[t].log) /\ Range(pull[t].log) \subseteq Range(server)
  BY DEF IInv, TypeOK, Hydrate, States
<1>2. TypeOK'
  BY <1>1 DEF IInv, TypeOK, Hydrate
<1>3. Books'
  BY DEF IInv, Books, Hydrate
<1>4. ASSUME NEW u \in Tabs PROVE InHand(u)'
  BY <1>1 DEF IInv, TypeOK, InHand, Waiting, Viewing, Hydrate
<1>5. ASSUME NEW u \in Tabs PROVE States(u)'
  <2>1. Sound(t, pull[t])
    BY <1>1 DEF IInv, Books, Sound
  <2>2. /\ view'[u] \in {view[u], pull[t]} /\ (u # t => view'[u] = view[u])
        /\ before'[u] = before[u] /\ request'[u] = request[u] /\ wire'[u] = wire[u]
        /\ pull'[u] = IF u = t THEN NoState ELSE pull[u]
    BY <1>1 DEF IInv, TypeOK, Hydrate
  <2>3. ASSUME NEW v \in {view'[u], before'[u], request'[u].rollback}, v # NoState
        PROVE  Sound(u, v)'
    <3>1. Sound(u, v)
      BY <2>1, <2>2, <2>3 DEF IInv, States
    <3> QED
      BY <3>1 DEF Sound, Own, Hydrate
  <2>4. pull'[u] \notin {NoState, Asked} => pull'[u] = pull[u]
    BY <2>2
  <2>5. States(u) /\ server' = server
    BY DEF IInv, Hydrate
  <2>6. pull'[u] \notin {NoState, Asked} =>
          /\ pull'[u].shown = pull'[u].log
          /\ Once(pull'[u].log) /\ Range(pull'[u].log) \subseteq Range(server')
    BY <2>4, <2>5 DEF States
  <2>7. Range(wire'[u]) \subseteq Range(server')
    BY <2>2, <2>5 DEF States
  <2> QED
    BY <2>3, <2>6, <2>7 DEF States
<1>6. ASSUME NEW u \in steady' PROVE Follows(u)'
  <2>1. CASE u # t
    <3>1. u \in Tabs /\ u \in steady /\ Follows(u)
      BY <2>1 DEF IInv, TypeOK, Hydrate
    <3>2. view'[u] = view[u] /\ Waiting(u)' = Waiting(u)
      BY <1>1, <2>1, <3>1 DEF IInv, TypeOK, Hydrate, Waiting
    <3> QED
      BY <3>1, <3>2 DEF Follows, Viewing, Hydrate
  <2>2. CASE u = t
    <3>1. /\ t \in room /\ Coming(t, pull[t]) /\ queue[t] = <<>> /\ request[t] = NoRequest
          /\ view'[t] = pull[t]
      BY <1>1, <2>2 DEF IInv, TypeOK, Hydrate
    <3>2. Waiting(t) = {}
      BY <3>1, RangeEmpty DEF Waiting, NoRequest
    <3>3. \A n \in Range(server) \ Range(pull[t].shown) :
            /\ author[n] # t
            /\ \/ n \in Range(wire[t])
               \/ \E w \in Tabs : request[w].stage = "committed" /\ n \in Range(request[w].batch)
      BY <3>1 DEF Coming, Own
    <3>4. Waiting(t)' = {}
      BY <3>2 DEF Hydrate, Waiting
    <3> QED
      BY <1>1, <2>2, <3>1, <3>3, <3>4 DEF Follows, Viewing, Hydrate
  <2> QED
    BY <2>1, <2>2
<1> QED
  BY <1>2, <1>3, <1>4, <1>5, <1>6 DEF IInv

(***************************************************************************)
(* The queue is cut in two, the first part is the batch; nobody sees any   *)
(* of it yet.                                                              *)
(***************************************************************************)
LEMMA SendKeeps ==
  ASSUME IInv, NEW t \in Tabs, Send(t) PROVE IInv'
<1> DEFINE n == IF Len(queue[t]) < MAX_BATCH THEN Len(queue[t]) ELSE MAX_BATCH
           batch == SubSeq(queue[t], 1, n)
           rest == SubSeq(queue[t], n + 1, Len(queue[t]))
<1> USE DEF facts, netVars
<1>1. /\ request[t] = NoRequest /\ queue[t] # <<>> /\ queue[t] \in Seq(Actions)
      /\ request' = [request EXCEPT ![t] = [stage |-> "sent", batch |-> batch,
                                            rollback |-> before[t]]]
      /\ queue' = [queue EXCEPT ![t] = rest]
      /\ before' = [before EXCEPT ![t] = NoState]
  BY DEF IInv, TypeOK, Send
<1>2. n \in 0..Len(queue[t])
  BY <1>1, LenProperties, BoundsAssumption
<1>3. /\ Once(queue[t]) /\ Range(queue[t]) \intersect Range(server) = {}
      /\ before[t] # NoState /\ Viewing(t)
      /\ \A m \in Range(queue[t]) : m \in 1..issued /\ author[m] = t
  BY <1>1 DEF IInv, InHand, Waiting
<1> HIDE DEF n
<1>4. /\ batch \in Seq(Actions) /\ rest \in Seq(Actions)
      /\ Range(batch) \union Range(rest) = Range(queue[t])
      /\ Once(batch) /\ Once(rest) /\ Range(batch) \intersect Range(rest) = {}
  BY <1>1, <1>2, <1>3, OnCut
<1> HIDE DEF batch, rest
<1>5. /\ request'[t] = [stage |-> "sent", batch |-> batch, rollback |-> before[t]]
      /\ queue'[t] = rest /\ before'[t] = NoState
      /\ \A u \in Tabs \ {t} : /\ request'[u] = request[u]
                               /\ queue'[u] = queue[u] /\ before'[u] = before[u]
  BY <1>1 DEF IInv, TypeOK
<1>6. TypeOK'
  <2>1. request' \in [Tabs -> [stage : Stages, batch : Seq(Actions),
                               rollback : State \union {NoState}]]
    BY <1>1, <1>4 DEF IInv, TypeOK, Stages
  <2>2. queue' \in [Tabs -> Seq(Actions)] /\ before' \in [Tabs -> State \union {NoState}]
    BY <1>1, <1>4 DEF IInv, TypeOK
  <2> QED
    BY <2>1, <2>2 DEF IInv, TypeOK, Send
<1>7. Books'
  BY DEF IInv, Books, Send
<1>8. ASSUME NEW u \in Tabs PROVE InHand(u)'
  <2>1. CASE u = t
    <3>1. request'[t] # NoRequest /\ request'[t].stage = "sent"
      BY <1>5 DEF NoRequest
    <3>2. Waiting(t)' = Range(queue[t])
      BY <1>4, <1>5 DEF Waiting
    <3>3. server' = server /\ issued' = issued /\ author' = author /\ view' = view
      BY DEF Send
    <3>4. request'[t].batch = batch /\ request'[t].rollback = before[t] /\ queue'[t] = rest
      BY <1>5
    <3>5. /\ \A m \in Waiting(t)' : m \in 1..issued' /\ author'[m] = t
          /\ Range(batch) \intersect Range(server') = {}
          /\ Range(rest) \intersect Range(server') = {}
      BY <1>3, <1>4, <3>2, <3>3
    <3> QED
      BY <1>3, <1>4, <2>1, <3>1, <3>3, <3>4, <3>5 DEF InHand, Viewing
  <2>2. CASE u # t
    <3>1. InHand(u) /\ Waiting(u)' = Waiting(u)
      BY <1>5, <2>2 DEF IInv, Waiting
    <3>2. request'[u] = request[u] /\ queue'[u] = queue[u] /\ before'[u] = before[u]
      BY <1>5, <2>2
    <3> QED
      BY <3>1, <3>2 DEF InHand, Viewing, Send
  <2> QED
    BY <2>1, <2>2
<1>9. ASSUME NEW u \in Tabs PROVE States(u)'
  <2>1. ASSUME NEW v \in {view'[u], before'[u], request'[u].rollback}, v # NoState
        PROVE  Sound(u, v)'
    <3>1. v \in {view[u], before[u], request[u].rollback}
      BY <1>5, <2>1 DEF Send
    <3>2. Sound(u, v)
      BY <2>1, <3>1 DEF IInv, States
    <3> QED
      BY <3>2 DEF Sound, Own, Send
  <2> QED
    BY <2>1 DEF IInv, States, Send
<1>10. ASSUME NEW u \in steady' PROVE Follows(u)'
  <2>1. u \in Tabs /\ Follows(u)
    BY DEF IInv, TypeOK, Send
  <2>2. Waiting(u)' = Waiting(u)
    BY <1>1, <1>4, <1>5, <2>1, RangeEmpty DEF Waiting, NoRequest
  <2>3. ASSUME NEW w \in Tabs, request[w].stage = "committed" PROVE request'[w] = request[w]
    BY <1>1, <1>5, <2>3 DEF NoRequest
  <2> QED
    BY <2>1, <2>2, <2>3 DEF Follows, Viewing, Send
<1> QED
  BY <1>6, <1>7, <1>8, <1>9, <1>10 DEF IInv

(***************************************************************************)
(* An action is reduced and queued: its number is new, so it is nowhere    *)
(* yet.                                                                    *)
(***************************************************************************)
LEMMA DispatchKeeps ==
  ASSUME IInv, NEW t \in Tabs, Dispatch(t) PROVE IInv'
<1>0. PICK n, v : n = issued + 1 /\ v = view[t]
  OBVIOUS
<1> USE DEF facts, netVars
<1>1. /\ n \in Actions /\ issued \in Nat /\ issued' = n /\ v \in State /\ v # NoState
      /\ queue[t] \in Seq(Actions) /\ n \notin 1..issued
      /\ author' = [author EXCEPT ![n] = t]
      /\ before' = [before EXCEPT ![t] = IF @ = NoState THEN v ELSE @]
      /\ view' = [view EXCEPT ![t] = Reduced(v, n)]
      /\ queue' = [queue EXCEPT ![t] = Append(@, n)]
  <2>1. issued \in Nat /\ issued < MaxActions /\ MaxActions \in Nat
    BY BoundsAssumption DEF IInv, TypeOK, Dispatch
  <2>2. n \in Actions /\ n \notin 1..issued
    BY <1>0, <2>1 DEF Actions
  <2>3. view[t] # NoState /\ view[t] \in State
    BY DEF IInv, TypeOK, Dispatch, Viewing
  <2> QED
    BY <1>0, <2>1, <2>2, <2>3 DEF IInv, TypeOK, Dispatch
<1>2. /\ \A m \in 1..issued : author'[m] = author[m]
      /\ author'[n] = t
  BY <1>1 DEF IInv, TypeOK
<1>3. Sound(t, v) /\ n \notin Range(v.shown) /\ n \notin Range(v.log) /\ n \notin Range(server)
  <2>1. Sound(t, v) /\ Range(server) \subseteq 1..issued
    BY <1>0, <1>1 DEF IInv, States, Books
  <2> QED
    BY <1>1, <2>1 DEF Sound
<1>4. n \notin Range(queue[t]) /\ n \notin Range(request[t].batch) /\ Once(queue[t])
  BY <1>1 DEF IInv, InHand, Waiting
<1>5. /\ Append(queue[t], n) \in Seq(Actions)
      /\ Range(Append(queue[t], n)) = Range(queue[t]) \union {n}
      /\ Once(Append(queue[t], n))
  BY <1>1, <1>4, OnAppend
<1>6. /\ Reduced(v, n) \in State /\ Reduced(v, n).log = v.log /\ Reduced(v, n) # NoState
      /\ Range(Reduced(v, n).shown) = Range(v.shown) \union {n}
      /\ Once(Reduced(v, n).shown)
  <2>1. v.shown \in Seq(Actions) /\ v.log \in Seq(Actions)
    BY <1>1 DEF State
  <2>2. /\ Append(v.shown, n) \in Seq(Actions)
        /\ Range(Append(v.shown, n)) = Range(v.shown) \union {n}
        /\ Once(Append(v.shown, n))
    BY <1>1, <1>3, <2>1, OnAppend DEF Sound
  <2>3. Reduced(v, n) \in State
    BY <2>1, <2>2 DEF Reduced, State
  <2> QED
    BY <2>2, <2>3, NoStateAssumption DEF Reduced
<1>7. /\ queue'[t] = Append(queue[t], n) /\ view'[t] = Reduced(v, n)
      /\ before'[t] = IF before[t] = NoState THEN v ELSE before[t]
      /\ request' = request /\ server' = server /\ wire' = wire /\ room' = room
      /\ pull' = pull /\ steady' = steady /\ user' = user
      /\ \A u \in Tabs \ {t} : /\ view'[u] = view[u]
                               /\ queue'[u] = queue[u] /\ before'[u] = before[u]
  BY <1>1 DEF IInv, TypeOK, Dispatch
<1>8. TypeOK'
  <2>1. author' \in [Actions -> Tabs \union {Nobody}] /\ issued' \in 0..MaxActions
    BY <1>1 DEF IInv, TypeOK, Actions
  <2>2. kind' \in [Actions -> AllKinds]
    BY KindsAssumption DEF IInv, TypeOK, Dispatch
  <2>3. /\ queue' \in [Tabs -> Seq(Actions)]
        /\ before' \in [Tabs -> State \union {NoState}]
        /\ view' \in [Tabs -> State \union {NoState}]
    BY <1>1, <1>5, <1>6 DEF IInv, TypeOK
  <2> QED
    BY <2>1, <2>2, <2>3 DEF IInv, TypeOK, Dispatch
<1>9. 1..issued' = 1..issued \union {n} /\ issued \in Nat /\ issued' \in Nat /\ issued <= issued'
  BY <1>0, <1>1
<1>10. Books'
  BY <1>1, <1>2, <1>7, <1>9 DEF IInv, Books
<1>11. ASSUME NEW u \in Tabs PROVE InHand(u)'
  <2>1. CASE u = t
    <3>1. InHand(t)
      BY DEF IInv
    <3>2. Waiting(t)' = Waiting(t) \union {n}
      BY <1>5, <1>7 DEF Waiting
    <3>3. \A m \in Waiting(t)' : m \in 1..issued' /\ author'[m] = t
      BY <1>2, <1>9, <3>1, <3>2 DEF InHand
    <3>4. before'[t] # NoState /\ view'[t] # NoState
      BY <1>1, <1>6, <1>7
    <3>5. /\ Once(queue'[t])
          /\ Range(queue'[t]) \intersect Range(request'[t].batch) = {}
          /\ Range(queue'[t]) \intersect Range(server') = {}
      BY <1>3, <1>4, <1>5, <1>7, <3>1 DEF InHand
    <3> QED
      BY <1>7, <2>1, <3>1, <3>3, <3>4, <3>5 DEF InHand, Viewing
  <2>2. CASE u # t
    <3>1. InHand(u) /\ Waiting(u)' = Waiting(u)
      BY <1>7, <2>2 DEF IInv, Waiting
    <3>2. \A m \in Waiting(u)' : m \in 1..issued' /\ author'[m] = u
      BY <1>2, <1>9, <3>1 DEF InHand
    <3> QED
      BY <1>7, <2>2, <3>1, <3>2 DEF InHand, Viewing
  <2> QED
    BY <2>1, <2>2
<1>12. ASSUME NEW u \in Tabs PROVE States(u)'
  <2>1. ASSUME NEW s, Sound(u, s) PROVE Sound(u, s)'
    BY <1>2, <1>7, <1>9, <2>1, SoundStays
  <2>2. ASSUME u = t PROVE Sound(t, Reduced(v, n))'
    <3>1. Sound(t, v)'
      BY <1>3, <2>1, <2>2
    <3>2. Own(t, n)'
      BY <1>2 DEF Own
    <3> QED
      BY <1>6, <1>9, <3>1, <3>2 DEF Sound
  <2>3. ASSUME NEW s \in {view'[u], before'[u], request'[u].rollback}, s # NoState
        PROVE  Sound(u, s)'
    <3>1. CASE u = t /\ s = Reduced(v, n)
      BY <2>2, <3>1
    <3>2. CASE ~(u = t /\ s = Reduced(v, n))
      <4>1. s \in {view[u], before[u], request[u].rollback}
        BY <1>0, <1>7, <2>3, <3>2
      <4>2. Sound(u, s)
        BY <2>3, <4>1 DEF IInv, States
      <4> QED
        BY <2>1, <4>2
    <3> QED
      BY <3>1, <3>2
  <2>4. States(u) /\ pull'[u] = pull[u] /\ wire'[u] = wire[u] /\ server' = server
    BY <1>7 DEF IInv
  <2> QED
    BY <2>3, <2>4 DEF States
<1>13. ASSUME NEW u \in steady' PROVE Follows(u)'
  <2>1. u \in Tabs /\ u \in steady /\ Follows(u)
    BY <1>7 DEF IInv, TypeOK
  <2>2. \A m \in Range(server) : author'[m] = author[m]
    BY <1>2 DEF IInv, Books
  <2>3. CASE u # t
    <3>1. view'[u] = view[u] /\ Waiting(u)' = Waiting(u)
      BY <1>7, <2>1, <2>3 DEF Waiting
    <3> QED
      BY <1>7, <2>1, <2>2, <3>1 DEF Follows, Viewing
  <2>4. CASE u = t
    <3>1. Waiting(t)' = Waiting(t) \union {n}
      BY <1>5, <1>7 DEF Waiting
    <3>2. /\ Range(view'[t].shown) = Range(view[t].shown) \union {n}
          /\ Range(view'[t].log) = Range(view[t].log) /\ view'[t] # NoState
      BY <1>0, <1>6, <1>7
    <3> QED
      BY <1>7, <2>1, <2>2, <2>4, <3>1, <3>2 DEF Follows, Viewing
  <2> QED
    BY <2>3, <2>4
<1> QED
  BY <1>8, <1>10, <1>11, <1>12, <1>13 DEF IInv

(***************************************************************************)
(* The end of a flight, whatever sound state the store is left in.         *)
(***************************************************************************)
LEMMA LandingKeeps ==
  ASSUME IInv, NEW t \in Tabs, NEW new \in State, new # NoState, Sound(t, new),
         request[t] # NoRequest, view' = [view EXCEPT ![t] = new], Landed(t),
         steady' \subseteq steady
  PROVE  /\ TypeOK' /\ Books' /\ (\A u \in Tabs : InHand(u)' /\ States(u)')
         /\ view'[t] = new /\ Waiting(t)' = Range(queue[t])
         /\ \A u \in Tabs \ {t} : view'[u] = view[u] /\ request'[u] = request[u]
<1> USE DEF facts, netVars
<1>4. /\ request' = [request EXCEPT ![t] = NoRequest]
      /\ before' = [before EXCEPT ![t] = IF queue[t] = <<>> THEN @ ELSE view'[t]]
      /\ UNCHANGED <<facts, server, queue, netVars, pull, turns>>
  BY DEF Landed
<1>5. /\ view'[t] = new /\ request'[t] = NoRequest
      /\ before'[t] \in {before[t], new} /\ (queue[t] # <<>> => before'[t] = new)
      /\ \A u \in Tabs \ {t} : /\ view'[u] = view[u]
                               /\ request'[u] = request[u] /\ before'[u] = before[u]
  BY <1>4 DEF IInv, TypeOK
<1>7. Waiting(t)' = Range(queue[t])
  BY <1>4, <1>5, RangeEmpty DEF Waiting, NoRequest
<1>8. TypeOK'
  <2>1. view' \in [Tabs -> State \union {NoState}]
    BY <1>4 DEF IInv, TypeOK
  <2>2. before' \in [Tabs -> State \union {NoState}]
    BY <1>4, <1>5 DEF IInv, TypeOK
  <2>3. NoRequest \in [stage : Stages, batch : Seq(Actions), rollback : State \union {NoState}]
    BY EmptySeq DEF NoRequest, Stages
  <2> QED
    BY <1>4, <2>1, <2>2, <2>3 DEF IInv, TypeOK
<1>9. Books'
  BY <1>4 DEF IInv, Books
<1>10. ASSUME NEW u \in Tabs PROVE InHand(u)'
  <2>1. CASE u = t
    BY <1>4, <1>5, <1>7, <2>1, RangeEmpty DEF IInv, InHand, Waiting, Viewing, NoRequest
  <2>2. CASE u # t
    BY <1>4, <1>5, <2>2 DEF IInv, InHand, Waiting, Viewing
  <2> QED
    BY <2>1, <2>2
<1>11. ASSUME NEW u \in Tabs PROVE States(u)'
  <2>1. ASSUME NEW s \in {view'[u], before'[u], request'[u].rollback}, s # NoState
        PROVE  Sound(u, s)'
    <3>1. Sound(u, s)
      <4>1. CASE u = t
        <5>1. view'[t] = new /\ before'[t] \in {before[t], new} /\ request'[t].rollback = NoState
          BY <1>5 DEF NoRequest
        <5>2. s \in {before[t], new}
          BY <2>1, <4>1, <5>1
        <5> QED
          BY <2>1, <4>1, <5>2 DEF IInv, States
      <4>2. CASE u # t
        <5>1. s \in {view[u], before[u], request[u].rollback}
          BY <1>5, <2>1, <4>2
        <5> QED
          BY <2>1, <5>1 DEF IInv, States
      <4> QED
        BY <4>1, <4>2
    <3> QED
      BY <1>4, <3>1 DEF Sound, Own
  <2>2. States(u)
    BY DEF IInv
  <2> QED
    BY <1>4, <2>1, <2>2 DEF States
<1> QED
  BY <1>5, <1>7, <1>8, <1>9, <1>10, <1>11

(***************************************************************************)
(* The entries of a batch are logged: the tab shows its actions already.   *)
(***************************************************************************)
LEMMA AppliedKeeps ==
  ASSUME IInv, NEW t \in Tabs, Applied(t) PROVE IInv'
<1>0. PICK v, batch, new : /\ v = view[t] /\ batch = request[t].batch
                           /\ new = Logged(v, batch)
  OBVIOUS
<1>1. /\ request[t].stage = "emitted" /\ request[t] # NoRequest
      /\ batch \in Seq(Actions) /\ v \in State /\ v # NoState
      /\ InHand(t) /\ States(t)
  <2>1. request[t].stage = "emitted" /\ request[t] # NoRequest
    BY DEF Applied, NoRequest
  <2>2. InHand(t) /\ States(t) /\ view[t] # NoState
    BY <2>1 DEF IInv, InHand, Viewing
  <2> QED
    BY <1>0, <2>1, <2>2 DEF IInv, TypeOK
<1>2. /\ Sound(t, v) /\ Range(batch) \subseteq Range(server)
  BY <1>0, <1>1 DEF InHand, States
<1>3. /\ new \in State /\ new # NoState /\ new.shown = v.shown
      /\ Range(new.log) = Range(v.log) \union Range(batch)
      /\ Once(new.log)
  BY <1>0, <1>1, <1>2, LoggedFacts, NoStateAssumption DEF Sound
<1>4. Sound(t, new)
  BY <1>2, <1>3 DEF Sound
<1>5. /\ TypeOK' /\ Books' /\ (\A u \in Tabs : InHand(u)' /\ States(u)')
      /\ view'[t] = new /\ Waiting(t)' = Range(queue[t])
      /\ \A u \in Tabs \ {t} : view'[u] = view[u] /\ request'[u] = request[u]
  BY <1>0, <1>1, <1>3, <1>4, LandingKeeps DEF Applied
<1>6. /\ author' = author /\ server' = server /\ queue' = queue
      /\ room' = room /\ wire' = wire /\ steady' = steady
  BY DEF Applied, Landed, facts, netVars
<1>12. ASSUME NEW u \in steady' PROVE Follows(u)'
  <2>1. u \in Tabs /\ u \in steady /\ Follows(u)
    BY <1>6 DEF IInv, TypeOK
  <2>2. ASSUME NEW w \in Tabs, request[w].stage = "committed" PROVE request'[w] = request[w]
    BY <1>1, <1>5, <2>2
  <2>3. CASE u # t
    <3>1. view'[u] = view[u] /\ Waiting(u)' = Waiting(u)
      BY <1>5, <1>6, <2>1, <2>3 DEF Waiting
    <3> QED
      BY <1>6, <2>1, <2>2, <3>1 DEF Follows, Viewing
  <2>4. CASE u = t
    <3>1. /\ Waiting(t) = Range(queue[t]) \union Range(batch)
          /\ Range(batch) \subseteq Range(v.shown)
      BY <1>0, <2>1, <2>4 DEF Waiting, Follows
    <3> QED
      BY <1>0, <1>3, <1>5, <1>6, <2>1, <2>2, <2>4, <3>1 DEF Follows, Viewing
  <2> QED
    BY <2>3, <2>4
<1> QED
  BY <1>5, <1>12 DEF IInv

(***************************************************************************)
(* The store goes back to the snapshot: no action of the batch is on the   *)
(* server, and a tab that stays steady loses just those.                   *)
(***************************************************************************)
LEMMA RolledBackKeeps ==
  ASSUME IInv, NEW t \in Tabs, RolledBack(t) PROVE IInv'
<1>0. PICK v, batch, new : /\ v = view[t] /\ batch = request[t].batch
                           /\ new = request[t].rollback
  OBVIOUS
<1>1. /\ request[t].stage = "rejected" /\ request[t] # NoRequest
      /\ new \in State /\ new # NoState
      /\ InHand(t) /\ States(t)
      /\ Range(batch) \intersect Range(server) = {}
  <2>1. request[t].stage = "rejected" /\ request[t] # NoRequest
    BY DEF RolledBack, NoRequest
  <2>2. InHand(t) /\ States(t)
    BY DEF IInv
  <2>3. new # NoState /\ Range(batch) \intersect Range(server) = {}
    BY <1>0, <2>1, <2>2 DEF InHand
  <2> QED
    BY <1>0, <2>1, <2>2, <2>3 DEF IInv, TypeOK
<1>2. Sound(t, new)
  BY <1>0, <1>1 DEF States
<1>4. /\ view' = [view EXCEPT ![t] = new] /\ Landed(t)
      /\ steady' \subseteq steady
      /\ t \in steady' => /\ Range(v.shown) = Range(new.shown) \union Range(batch)
                          /\ Range(new.shown) \intersect Range(batch) = {}
                          /\ Range(v.log) = Range(new.log)
  BY <1>0 DEF RolledBack
<1>5. /\ TypeOK' /\ Books' /\ (\A u \in Tabs : InHand(u)' /\ States(u)')
      /\ view'[t] = new /\ Waiting(t)' = Range(queue[t])
      /\ \A u \in Tabs \ {t} : view'[u] = view[u] /\ request'[u] = request[u]
  BY <1>1, <1>2, <1>4, LandingKeeps
<1>6. /\ author' = author /\ server' = server /\ queue' = queue
      /\ room' = room /\ wire' = wire
  BY <1>4 DEF Landed, facts, netVars
<1>12. ASSUME NEW u \in steady' PROVE Follows(u)'
  <2>1. u \in Tabs /\ u \in steady /\ Follows(u)
    BY <1>4, <1>6 DEF IInv, TypeOK
  <2>2. ASSUME NEW w \in Tabs, request[w].stage = "committed" PROVE request'[w] = request[w]
    BY <1>1, <1>5, <2>2
  <2>3. CASE u # t
    <3>1. view'[u] = view[u] /\ Waiting(u)' = Waiting(u)
      BY <1>4, <1>5, <1>6, <2>1, <2>3 DEF Waiting
    <3> QED
      BY <1>6, <2>1, <2>2, <3>1 DEF Follows, Viewing
  <2>4. CASE u = t
    <3>1. /\ Range(v.shown) = Range(new.shown) \union Range(batch)
          /\ Range(new.shown) \intersect Range(batch) = {}
          /\ Range(v.log) = Range(new.log)
      BY <1>4, <2>4
    <3>2. Waiting(t) = Range(queue[t]) \union Range(batch)
      BY <1>0 DEF Waiting
    <3>3. Range(queue[t]) \subseteq Range(new.shown)
      BY <1>0, <1>1, <2>1, <2>4, <3>1, <3>2 DEF Follows, InHand
    <3>4. Range(new.log) \subseteq Range(new.shown)
      BY <1>0, <1>1, <1>2, <2>1, <2>4, <3>1 DEF Follows, Sound
    <3>5. \A n \in Range(new.shown) : n \in Range(new.log) \/ n \in Range(queue[t])
      BY <1>0, <2>1, <2>4, <3>1, <3>2 DEF Follows
    <3>6. \A n \in Range(server) \ Range(new.shown) : n \notin Range(v.shown)
      BY <1>1, <3>1
    <3>7. \A n \in Range(server) \ Range(new.shown) :
            /\ author[n] # t
            /\ \/ n \in Range(wire[t])
               \/ \E w \in Tabs : request'[w].stage = "committed" /\ n \in Range(request'[w].batch)
      BY <1>0, <2>1, <2>2, <2>4, <3>6 DEF Follows
    <3> QED
      BY <1>1, <1>5, <1>6, <2>1, <2>4, <3>3, <3>4, <3>5, <3>7 DEF Follows, Viewing
  <2> QED
    BY <2>3, <2>4
<1> QED
  BY <1>5, <1>12 DEF IInv

(***************************************************************************)
(* A batch that failed stays in the store, and the tab is steady no more.  *)
(***************************************************************************)
LEMMA KeptKeeps ==
  ASSUME IInv, NEW t \in Tabs, Kept(t) PROVE IInv'
<1>0. PICK v : v = view[t]
  OBVIOUS
<1>1. /\ request[t].stage = "failed" /\ request[t] # NoRequest
      /\ v \in State /\ v # NoState /\ Sound(t, v)
  <2>1. request[t].stage = "failed" /\ request[t] # NoRequest
    BY DEF Kept, NoRequest
  <2>2. v # NoState
    BY <1>0, <2>1 DEF IInv, InHand, Viewing
  <2> QED
    BY <1>0, <2>1, <2>2 DEF IInv, TypeOK, States
<1>2. /\ view' = [view EXCEPT ![t] = v] /\ Landed(t) /\ steady' = steady \ {t}
  BY <1>0 DEF Kept, IInv, TypeOK
<1>3. /\ TypeOK' /\ Books' /\ (\A u \in Tabs : InHand(u)' /\ States(u)')
      /\ \A u \in Tabs \ {t} : view'[u] = view[u] /\ request'[u] = request[u]
  BY <1>1, <1>2, LandingKeeps
<1>4. /\ author' = author /\ server' = server /\ queue' = queue
      /\ room' = room /\ wire' = wire
  BY <1>2 DEF Landed, facts, netVars
<1>5. ASSUME NEW u \in steady' PROVE Follows(u)'
  <2>1. u \in Tabs \ {t} /\ Follows(u)
    BY <1>2 DEF IInv, TypeOK
  <2>2. ASSUME NEW w \in Tabs, request[w].stage = "committed" PROVE request'[w] = request[w]
    BY <1>1, <1>3, <2>2
  <2>3. view'[u] = view[u] /\ Waiting(u)' = Waiting(u)
    BY <1>3, <1>4, <2>1 DEF Waiting
  <2> QED
    BY <1>4, <2>1, <2>2, <2>3 DEF Follows, Viewing
<1> QED
  BY <1>3, <1>5 DEF IInv

(***************************************************************************)
(* A broadcast is read: an action that is not in the log was not reduced   *)
(* either, unless it is the user's own.                                    *)
(***************************************************************************)
LEMMA ReceiveKeeps ==
  ASSUME IInv, NEW t \in Tabs, Receive(t) PROVE IInv'
<1>0. PICK n, v, rest : n = Head(wire[t]) /\ v = view[t] /\ rest = Tail(wire[t])
  OBVIOUS
<1> USE DEF facts
<1>1. /\ wire[t] # <<>> /\ wire[t] \in Seq(Actions) /\ wire' = [wire EXCEPT ![t] = rest]
      /\ UNCHANGED <<facts, server, request, queue, before, room, live, pull, turns>>
      /\ n \in Range(server) /\ n \in Actions
      /\ rest \in Seq(Actions) /\ Range(wire[t]) = Range(rest) \union {n}
  <2>1. /\ wire[t] # <<>> /\ wire[t] \in Seq(Actions) /\ wire' = [wire EXCEPT ![t] = rest]
        /\ UNCHANGED <<facts, server, request, queue, before, room, live, pull, turns>>
    BY <1>0 DEF IInv, TypeOK, Receive
  <2>2. /\ n \in Range(wire[t]) /\ rest \in Seq(Actions)
        /\ Range(wire[t]) = Range(rest) \union {n}
    BY <1>0, <2>1, OnTail
  <2>3. Range(wire[t]) \subseteq Range(server) /\ Range(wire[t]) \subseteq Actions
    BY <2>1, RangeOfSeq DEF IInv, States
  <2> QED
    BY <2>1, <2>2, <2>3
<1>2. \/ UNCHANGED <<view, steady>> /\ (v # NoState => n \in Range(v.log))
      \/ /\ v # NoState /\ n \notin Range(v.log) /\ Own(t, n)
         /\ view' = [view EXCEPT ![t] = Logged(v, <<n>>)]
         /\ steady' \subseteq steady /\ (t \in steady' => author[n] = t)
      \/ /\ v # NoState /\ n \notin Range(v.log) /\ ~Own(t, n)
         /\ view' = [view EXCEPT ![t] = Logged(Reduced(v, n), <<n>>)]
         /\ steady' = steady
      \/ UNCHANGED view /\ steady' = steady \ {t}
  BY <1>0 DEF Receive, Viewing
<1>3. v # NoState => v \in State /\ Sound(t, v)
  BY <1>0 DEF IInv, TypeOK, States
<1>4. PICK new : /\ view' = [view EXCEPT ![t] = new] /\ view'[t] = new
                 /\ steady' \subseteq steady
                 /\ new \in State \union {NoState}
                 /\ v # NoState <=> new # NoState
                 /\ v # NoState => Sound(t, new)
                 /\ v # NoState /\ t \in steady' =>
                      /\ Range(new.shown) = Range(v.shown) \union
                           (IF Own(t, n) \/ n \in Range(v.log) THEN {} ELSE {n})
                      /\ Range(new.log) = Range(v.log) \union {n}
                      /\ n \in Range(v.log) \/ ~Own(t, n) \/ author[n] = t
  <2>1. CASE UNCHANGED <<view, steady>> /\ (v # NoState => n \in Range(v.log))
    <3>1. view' = [view EXCEPT ![t] = v] /\ view'[t] = v /\ v \in State \union {NoState}
      BY <1>0, <2>1 DEF IInv, TypeOK
    <3>2. v # NoState /\ t \in steady' =>
            /\ Range(v.shown) = Range(v.shown) \union
                 (IF Own(t, n) \/ n \in Range(v.log) THEN {} ELSE {n})
            /\ Range(v.log) = Range(v.log) \union {n}
            /\ n \in Range(v.log) \/ ~Own(t, n) \/ author[n] = t
      BY <2>1
    <3> QED
      BY <1>3, <2>1, <3>1, <3>2
  <2>2. CASE UNCHANGED view /\ steady' = steady \ {t}
    <3>1. view' = [view EXCEPT ![t] = v] /\ view'[t] = v /\ v \in State \union {NoState}
      BY <1>0, <2>2 DEF IInv, TypeOK
    <3> QED
      BY <1>3, <2>2, <3>1
  <2>3. <<n>> \in Seq(Actions) /\ Range(<<n>>) = {n}
    <3>1. PICK nil : nil = <<>>
      OBVIOUS
    <3>2. <<n>> = Append(nil, n)
      BY <3>1
    <3>3. nil \in Seq(Actions) /\ Range(nil) = {}
      BY <3>1, EmptySeq, RangeEmpty
    <3>4. Append(nil, n) \in Seq(Actions) /\ Range(Append(nil, n)) = {} \union {n}
      BY <1>1, <3>3, OnAppend
    <3> QED
      BY <3>2, <3>4
  <2>4. CASE /\ v # NoState /\ n \notin Range(v.log) /\ Own(t, n)
             /\ view' = [view EXCEPT ![t] = Logged(v, <<n>>)]
             /\ steady' \subseteq steady /\ (t \in steady' => author[n] = t)
    <3>1. PICK new : new = Logged(v, <<n>>)
      OBVIOUS
    <3>2. /\ new \in State /\ new.shown = v.shown /\ Once(new.log)
          /\ Range(new.log) = Range(v.log) \union {n} /\ new # NoState
      BY <1>3, <2>3, <2>4, <3>1, LoggedFacts, NoStateAssumption DEF Sound
    <3>3. Sound(t, new)
      BY <1>1, <1>3, <2>4, <3>2 DEF Sound
    <3>4. view' = [view EXCEPT ![t] = new] /\ view'[t] = new
      BY <2>4, <3>1 DEF IInv, TypeOK
    <3> QED
      BY <2>4, <3>2, <3>3, <3>4
  <2>5. CASE /\ v # NoState /\ n \notin Range(v.log) /\ ~Own(t, n)
             /\ view' = [view EXCEPT ![t] = Logged(Reduced(v, n), <<n>>)]
             /\ steady' = steady
    <3>1. PICK mid, new : mid = Reduced(v, n) /\ new = Logged(mid, <<n>>)
      OBVIOUS
    <3>2. n \notin Range(v.shown)
      BY <1>3, <2>5 DEF Sound
    <3>3. /\ mid \in State /\ mid.log = v.log /\ Once(mid.shown)
          /\ Range(mid.shown) = Range(v.shown) \union {n}
      <4>1. v.shown \in Seq(Actions) /\ v.log \in Seq(Actions)
        BY <1>3, <2>5 DEF State
      <4>2. /\ Append(v.shown, n) \in Seq(Actions) /\ Once(Append(v.shown, n))
            /\ Range(Append(v.shown, n)) = Range(v.shown) \union {n}
        BY <1>1, <1>3, <2>5, <3>2, <4>1, OnAppend DEF Sound
      <4> QED
        BY <3>1, <4>1, <4>2 DEF Reduced, State
    <3>4. /\ new \in State /\ new.shown = mid.shown /\ Once(new.log)
          /\ Range(new.log) = Range(v.log) \union {n} /\ new # NoState
      <4>1. Once(mid.log)
        BY <1>3, <2>5, <3>3 DEF Sound
      <4> QED
        BY <2>3, <3>1, <3>3, <4>1, LoggedFacts, NoStateAssumption
    <3>5. Sound(t, new)
      <4>1. n \in 1..issued
        BY <1>1 DEF IInv, Books
      <4> QED
        BY <1>1, <1>3, <2>5, <3>3, <3>4, <4>1 DEF Sound
    <3>6. view' = [view EXCEPT ![t] = new] /\ view'[t] = new
      BY <2>5, <3>1 DEF IInv, TypeOK
    <3> QED
      BY <2>5, <3>3, <3>4, <3>5, <3>6
  <2> QED
    BY <1>2, <2>1, <2>2, <2>4, <2>5
<1>5. /\ wire'[t] = rest
      /\ \A u \in Tabs \ {t} : wire'[u] = wire[u] /\ view'[u] = view[u]
  BY <1>1, <1>4 DEF IInv, TypeOK
<1>6. TypeOK'
  <2>1. /\ view' \in [Tabs -> State \union {NoState}] /\ wire' \in [Tabs -> Seq(Actions)]
        /\ steady' \subseteq Tabs
    BY <1>1, <1>4 DEF IInv, TypeOK
  <2> QED
    BY <1>1, <2>1 DEF IInv, TypeOK
<1>7. Books'
  BY <1>1 DEF IInv, Books
<1>8. ASSUME NEW u \in Tabs PROVE InHand(u)'
  <2>1. InHand(u) /\ (Viewing(u) => view'[u] # NoState)
    BY <1>0, <1>4, <1>5 DEF IInv, Viewing
  <2> QED
    BY <1>1, <2>1 DEF InHand, Waiting, Viewing
<1>9. ASSUME NEW u \in Tabs PROVE States(u)'
  <2>1. ASSUME NEW s \in {view'[u], before'[u], request'[u].rollback}, s # NoState
        PROVE  Sound(u, s)'
    <3>1. Sound(u, s)
      <4>1. /\ before'[u] = before[u] /\ request'[u].rollback = request[u].rollback
            /\ view'[u] = IF u = t THEN new ELSE view[u]
        BY <1>1, <1>4, <1>5
      <4>2. s \in {view[u], before[u], request[u].rollback} \/ (u = t /\ s = new)
        BY <2>1, <4>1
      <4> QED
        BY <1>4, <2>1, <4>2 DEF IInv, States
    <3> QED
      BY <1>1, <3>1 DEF Sound, Own
  <2>2. States(u)
    BY DEF IInv
  <2>3. Range(wire'[u]) \subseteq Range(server')
    BY <1>1, <1>5, <2>2 DEF States
  <2> QED
    BY <1>1, <2>1, <2>2, <2>3 DEF States
<1>10. ASSUME NEW u \in steady' PROVE Follows(u)'
  <2>1. u \in Tabs /\ u \in steady /\ Follows(u) /\ Waiting(u)' = Waiting(u)
    BY <1>1, <1>4 DEF IInv, TypeOK, Waiting
  <2>2. CASE u # t
    <3>1. view'[u] = view[u] /\ wire'[u] = wire[u]
      BY <1>5, <2>1, <2>2
    <3> QED
      BY <1>1, <2>1, <3>1 DEF Follows, Viewing
  <2>3. CASE u = t
    <3>1. /\ v # NoState /\ new # NoState
          /\ Range(new.shown) = Range(v.shown) \union
               (IF Own(t, n) \/ n \in Range(v.log) THEN {} ELSE {n})
          /\ Range(new.log) = Range(v.log) \union {n}
          /\ n \in Range(v.log) \/ ~Own(t, n) \/ author[n] = t
      BY <1>0, <1>4, <2>1, <2>3 DEF Follows, Viewing
    <3>2. n \in Range(new.shown)
      BY <1>0, <1>1, <2>1, <2>3, <3>1 DEF Follows
    <3>3. \A m \in Range(server) \ Range(new.shown) : m \notin Range(v.shown) /\ m # n
      BY <3>1, <3>2
    <3>4. \A m \in Range(server) \ Range(new.shown) :
            /\ author[m] # t
            /\ \/ m \in Range(rest)
               \/ \E w \in Tabs : request[w].stage = "committed" /\ m \in Range(request[w].batch)
      BY <1>0, <1>1, <2>1, <2>3, <3>3 DEF Follows
    <3>5. \A m \in Range(new.shown) : m \in Range(new.log) \/ m \in Waiting(t)
      BY <1>0, <2>1, <2>3, <3>1 DEF Follows
    <3>6. Range(new.log) \subseteq Range(new.shown) /\ Waiting(t) \subseteq Range(new.shown)
      BY <1>0, <2>1, <2>3, <3>1, <3>2 DEF Follows
    <3> QED
      BY <1>1, <1>4, <1>5, <2>1, <2>3, <3>1, <3>4, <3>5, <3>6 DEF Follows, Viewing
  <2> QED
    BY <2>2, <2>3
<1> QED
  BY <1>6, <1>7, <1>8, <1>9, <1>10 DEF IInv

-----------------------------------------------------------------------------
(* The theorems.                                                           *)

(***************************************************************************)
(* In the beginning no tab has anything.                                   *)
(***************************************************************************)
THEOREM InitOK == Init => IInv
<1> SUFFICES ASSUME Init PROVE IInv
  OBVIOUS
<1> USE DEF Init
<1>1. <<>> \in Seq(Actions) /\ NoRequest \in [stage : Stages, batch : Seq(Actions),
                                              rollback : State \union {NoState}]
  BY EmptySeq DEF NoRequest, Stages
<1>2. TypeOK
  BY <1>1, BoundsAssumption DEF TypeOK, AllKinds
<1>3. Books
  BY RangeEmpty DEF Books
<1>4. ASSUME NEW t \in Tabs PROVE InHand(t)
  BY RangeEmpty DEF InHand, Waiting, NoRequest
<1>5. ASSUME NEW t \in Tabs PROVE States(t)
  BY RangeEmpty DEF States, NoRequest
<1> QED
  BY <1>2, <1>3, <1>4, <1>5 DEF IInv

(***************************************************************************)
(* Every step of a tab, of the server and of a member keeps the invariant. *)
(***************************************************************************)
THEOREM StepOK == IInv /\ [Next]_vars => IInv'
<1> SUFFICES ASSUME IInv, [Next]_vars PROVE IInv'
  OBVIOUS
<1>1. ASSUME NEW t \in Tabs, Client(t) PROVE IInv'
  BY <1>1, DispatchKeeps, SendKeeps, AppliedKeeps, RolledBackKeeps, KeptKeeps, OpenPartyKeeps,
     HydrateKeeps, ConnectKeeps, ReceiveKeeps DEF Client
<1>2. ASSUME NEW t \in Tabs, Server(t) PROVE IInv'
  BY <1>2, OpenKeeps, RefuseKeeps, FailKeeps, CommitKeeps, EmitKeeps, AnswerKeeps DEF Server
<1>3. CASE UNCHANGED vars
  <2> USE <1>3 DEF vars, facts, tabVars, netVars
  <2>1. TypeOK' /\ Books'
    BY DEF IInv, TypeOK, Books
  <2>2. ASSUME NEW t \in Tabs PROVE InHand(t)' /\ States(t)'
    BY DEF IInv, InHand, Waiting, Viewing, States, Sound, Own
  <2>3. ASSUME NEW t \in steady' PROVE Follows(t)'
    BY DEF IInv, Follows, Waiting, Viewing
  <2> QED
    BY <2>1, <2>2, <2>3 DEF IInv
<1> QED
  BY <1>1, <1>2, <1>3, DropKeeps, MoveKeeps DEF Next

(***************************************************************************)
(* The types of Realtime are right at all times.                           *)
(***************************************************************************)
THEOREM TypeCorrect == Spec => []TypeOK
<1>1. IInv => TypeOK
  BY DEF IInv
<1> QED
  BY <1>1, InitOK, StepOK, PTL DEF Spec

(***************************************************************************)
(* However broadcasts, answers, pulls and rollbacks follow each other in   *)
(* applyBroadcast.ts, queue.ts and PartyScopeSync.tsx, no tab ever reduces *)
(* an action twice or holds its entry twice.                               *)
(***************************************************************************)
THEOREM NothingIsTwice == Spec => []NothingTwice
<1>1. IInv => NothingTwice
  BY DEF IInv, States, Sound, NothingTwice, Viewing
<1> QED
  BY <1>1, InitOK, StepOK, PTL DEF Spec

(***************************************************************************)
(* A tab that nothing has made miss an action shows, whenever it has read  *)
(* its wire and owes nothing, what the server has committed and nothing    *)
(* else.                                                                   *)
(***************************************************************************)
THEOREM SteadyFollow == Spec => []SteadyTabsFollow
<1>1. ASSUME IInv, NEW t \in steady, AtRest(t)
      PROVE  /\ Range(view[t].shown) = Range(server)
             /\ Range(view[t].log) = Range(server)
  <2>1. t \in Tabs /\ Follows(t) /\ Sound(t, view[t])
    BY <1>1 DEF IInv, TypeOK, AtRest, States, Viewing
  <2>2. Waiting(t) = {} /\ Range(wire[t]) = {}
    BY <1>1, RangeEmpty DEF AtRest, Waiting, NoRequest
  <2>3. Range(server) \subseteq Range(view[t].shown)
    BY <1>1, <2>1, <2>2 DEF AtRest, Follows
  <2>4. Range(view[t].shown) = Range(view[t].log)
    BY <2>1, <2>2 DEF Follows
  <2> QED
    BY <2>1, <2>3, <2>4 DEF Sound
<1>2. IInv => SteadyTabsFollow
  BY <1>1 DEF SteadyTabsFollow
<1> QED
  BY <1>2, InitOK, StepOK, PTL DEF Spec
=============================================================================
