---------------------------- MODULE Items_proofs ----------------------------
(***************************************************************************)
(* Theorems about the rows of items, for any catalog, party and bound:     *)
(* first of the reducer (Inventory), then of the database (Persistor).     *)
(* The invariant of Inventory is also that of the persistor: an action     *)
(* that does the same as the reducer's is covered by the first part, the   *)
(* others keep it in their own way.                                        *)
(***************************************************************************)
EXTENDS ItemsMC, SumTheorems

-----------------------------------------------------------------------------
(***************************************************************************)
(* A finite set of naturals with an element has a maximum.  A finite set   *)
(* that is minimal among those without one has an element, and without     *)
(* that element it has a maximum or is empty.                              *)
(***************************************************************************)
LEMMA NatMax ==
  ASSUME NEW S \in SUBSET Nat, IsFiniteSet(S), S # {}
  PROVE  Max(S) \in S
<1> DEFINE HasMax(T) == \E x \in T : \A y \in T : x >= y
           Bad == {T \in FiniteSubsetsOf(S) : T # {} /\ ~HasMax(T)}
           R == StrictSubsetOrdering(S)
<1>1. SUFFICES Bad = {}
  BY FS_FiniteSubsetsOfFinite DEF Max
<1>2. SUFFICES ASSUME Bad # {} PROVE FALSE
  OBVIOUS
<1>3. PICK T \in Bad : \A U \in Bad : <<U, T>> \notin R
  <2>1. Bad \subseteq FiniteSubsetsOf(S)
    OBVIOUS
  <2> QED
    BY <1>2, <2>1, FS_StrictSubsetOrderingWellFounded, WFMin
<1>4. T \in SUBSET S /\ IsFiniteSet(T) /\ T # {} /\ ~HasMax(T)
  BY <1>3 DEF FiniteSubsetsOf
<1>5. PICK x \in T : TRUE
  BY <1>4
<1> DEFINE U == T \ {x}
<1>6. U \in SUBSET S /\ IsFiniteSet(U) /\ <<U, T>> \in R
  BY <1>4, <1>5, FS_RemoveElement DEF StrictSubsetOrdering
<1>7. U \notin Bad
  BY <1>3, <1>6
<1>8. CASE U = {}
  BY <1>4, <1>5, <1>8
<1>9. CASE U # {}
  <2>1. PICK m \in U : \A y \in U : m >= y
    BY <1>6, <1>7, <1>9 DEF FiniteSubsetsOf
  <2>2. m \in Nat /\ x \in Nat /\ \A y \in T : y \in Nat
    BY <1>4, <1>5
  <2>3. CASE m >= x
    BY <1>4, <2>1, <2>3
  <2>4. CASE x >= m
    <3>1. \A y \in T : x >= y
      BY <2>1, <2>2, <2>4
    <3> QED
      BY <1>4, <1>5, <3>1
  <2> QED
    BY <2>2, <2>3, <2>4
<1> QED
  BY <1>8, <1>9

-----------------------------------------------------------------------------
(***************************************************************************)
(* Legal(S) is the rows that lie in a stash of S with no more charges than *)
(* their definition allows; what the rules make of rows that are legal is  *)
(* legal again.                                                            *)
(***************************************************************************)
ChargesLegal(r) ==
  r.charges # NoCharges =>
    MaxCharges[r.def] > 0 /\ r.charges <= MaxCharges[r.def]

Legal(S) == {r \in Row : r.stash \in S /\ ChargesLegal(r)}

AllLegal(f, S) == f \in [DOMAIN f -> Legal(S)]

LEMMA RowFields ==
  ASSUME NEW r \in Row
  PROVE  /\ r.def \in Defs /\ r.stash \in Stashes /\ r.parent \in Nat
         /\ r.quantity \in Nat \ {0}
         /\ r.equipped \in BOOLEAN /\ r.attuned \in BOOLEAN
         /\ r.charges \in Nat \union {NoCharges} /\ r.notes \in Notes
BY DEF Row

LEMMA MaxChargesType ==
  ASSUME NEW d \in Defs
  PROVE  MaxCharges[d] \in Nat
BY DefsAssumption

LEMMA WithQuantityFields ==
  ASSUME NEW r \in Row, NEW q \in Nat \ {0}
  PROVE  /\ WithQuantity(r, q) \in Row
         /\ WithQuantity(r, q).def = r.def
         /\ WithQuantity(r, q).stash = r.stash
         /\ WithQuantity(r, q).parent = r.parent
         /\ WithQuantity(r, q).charges = r.charges
BY DEF Row, WithQuantity

LEMMA WithQuantityLegal ==
  ASSUME NEW S, NEW r \in Legal(S), NEW q \in Nat \ {0}
  PROVE  WithQuantity(r, q) \in Legal(S)
BY WithQuantityFields DEF Legal, ChargesLegal

(* The rows that take a flag or are split off.                             *)
LEMMA FlaggedLegal ==
  ASSUME NEW S, NEW r \in Legal(S), NEW q \in Nat \ {0},
         NEW e \in BOOLEAN, NEW a \in BOOLEAN
  PROVE  [r EXCEPT !.quantity = q, !.equipped = e, !.attuned = a] \in Legal(S)
<1> DEFINE n == [r EXCEPT !.quantity = q, !.equipped = e, !.attuned = a]
<1>1. r \in Row
  BY DEF Legal
<1>2. n \in Row /\ n.def = r.def /\ n.stash = r.stash /\ n.charges = r.charges
  BY <1>1 DEF Row
<1> HIDE DEF n
<1>3. n \in Legal(S)
  BY <1>2 DEF Legal, ChargesLegal
<1> QED
  BY <1>3 DEF n

LEMMA EquippedLegal ==
  ASSUME NEW S, NEW r \in Legal(S), NEW b \in BOOLEAN
  PROVE  /\ [r EXCEPT !.equipped = b] \in Legal(S)
         /\ [r EXCEPT !.attuned = b] \in Legal(S)
<1>1. r \in Row
  BY DEF Legal
<1>2. \A n \in Row : n.def = r.def /\ n.stash = r.stash /\ n.charges = r.charges
                       => n \in Legal(S)
  BY DEF Legal, ChargesLegal
<1>3. ASSUME NEW n, n = [r EXCEPT !.equipped = b] \/ n = [r EXCEPT !.attuned = b]
      PROVE  n \in Row /\ n.def = r.def /\ n.stash = r.stash /\ n.charges = r.charges
  BY <1>1, <1>3 DEF Row
<1> QED
  BY <1>2, <1>3

LEMMA IntoLegal ==
  ASSUME NEW S, NEW T, NEW r \in Legal(S), NEW to \in T, T \subseteq Stashes
  PROVE  /\ Into(r, to) \in Legal(T) /\ Into(r, to) \in Row
         /\ Into(r, to).def = r.def /\ Into(r, to).stash = to
         /\ Into(r, to).parent = r.parent
<1>1. r \in Row /\ to \in Stashes
  BY DEF Legal
<1>2. /\ Into(r, to) \in Row
      /\ Into(r, to).def = r.def /\ Into(r, to).stash = to
      /\ Into(r, to).charges = r.charges /\ Into(r, to).parent = r.parent
  BY <1>1 DEF Row, Into
<1> QED
  BY <1>2 DEF Legal, ChargesLegal

LEMMA WithChargesLegal ==
  ASSUME NEW S, NEW r \in Legal(S), NEW c \in Nat, MaxCharges[r.def] > 0,
         c <= MaxCharges[r.def]
  PROVE  WithCharges(r, c) \in Legal(S)
<1>1. r \in Row
  BY DEF Legal
<1>2. /\ WithCharges(r, c) \in Row
      /\ WithCharges(r, c).def = r.def /\ WithCharges(r, c).stash = r.stash
      /\ WithCharges(r, c).charges = c
  BY <1>1 DEF Row, WithCharges
<1> QED
  BY <1>2 DEF Legal, ChargesLegal

LEMMA NewParentType ==
  ASSUME NEW source \in Row, NEW row \in Row, NEW to,
         NEW parent \in Nat \union {Undefined}
  PROVE  NewParent(source, to, parent, row) \in Nat
BY RowFields DEF NewParent, Undefined, NoParent

LEMMA ArrivingFields ==
  ASSUME NEW source \in Row, NEW row \in Row, NEW to,
         NEW parent \in Nat \union {Undefined}
  PROVE  /\ Arriving(source, to, parent, row) \in Row
         /\ Arriving(source, to, parent, row).def = row.def
         /\ Arriving(source, to, parent, row).stash = row.stash
         /\ Arriving(source, to, parent, row).parent
              = NewParent(source, to, parent, row)
         /\ Arriving(source, to, parent, row).charges
              = IF ChargesFilled(source, to) THEN MaxCharges[source.def]
                ELSE row.charges
         /\ Arriving(source, to, parent, row).equipped
              = (row.equipped /\ ~FlagsCleared(source, to))
         /\ Arriving(source, to, parent, row).attuned
              = (row.attuned /\ ~FlagsCleared(source, to))
<1> DEFINE e == row.equipped /\ ~FlagsCleared(source, to)
           a == row.attuned /\ ~FlagsCleared(source, to)
           c == IF ChargesFilled(source, to) THEN MaxCharges[source.def]
                ELSE row.charges
           p == NewParent(source, to, parent, row)
<1>1. e \in BOOLEAN /\ a \in BOOLEAN
  OBVIOUS
<1>2. c \in Nat \union {NoCharges}
  BY RowFields, MaxChargesType
<1>3. p \in Nat
  BY NewParentType
<1> HIDE DEF e, a, c, p
<1>4. Arriving(source, to, parent, row)
        = [row EXCEPT !.equipped = e, !.attuned = a, !.charges = c, !.parent = p]
  BY DEF Arriving, e, a, c, p
<1>5. ASSUME NEW n,
             n = [row EXCEPT !.equipped = e, !.attuned = a, !.charges = c,
                             !.parent = p]
      PROVE  /\ n \in Row /\ n.def = row.def /\ n.stash = row.stash
             /\ n.parent = p /\ n.charges = c /\ n.equipped = e /\ n.attuned = a
  BY <1>1, <1>2, <1>3, <1>5 DEF Row
<1>6. /\ Arriving(source, to, parent, row) \in Row
      /\ Arriving(source, to, parent, row).def = row.def
      /\ Arriving(source, to, parent, row).stash = row.stash
      /\ Arriving(source, to, parent, row).parent = p
      /\ Arriving(source, to, parent, row).charges = c
      /\ Arriving(source, to, parent, row).equipped = e
      /\ Arriving(source, to, parent, row).attuned = a
  BY <1>4, <1>5
<1> QED
  BY <1>6 DEF e, a, c, p

LEMMA ArrivingLegal ==
  ASSUME NEW S, NEW source \in Row, NEW row \in Legal(S), NEW to,
         row.def = source.def, NEW parent \in Nat \union {Undefined}
  PROVE  Arriving(source, to, parent, row) \in Legal(S)
<1>1. row \in Row
  BY DEF Legal
<1>2. MaxCharges[source.def] \in Nat
  BY RowFields, MaxChargesType
<1>3. ChargesFilled(source, to) => MaxCharges[source.def] > 0
  BY DEF ChargesFilled
<1> QED
  BY <1>1, <1>2, <1>3, ArrivingFields DEF Legal, ChargesLegal

-----------------------------------------------------------------------------
(***************************************************************************)
(* The same for the rows of a state.                                       *)
(***************************************************************************)

LEMMA PutDef ==
  ASSUME NEW f, NEW i, NEW r
  PROVE  /\ DOMAIN Put(f, i, r) = DOMAIN f \union {i}
         /\ Put(f, i, r)[i] = r
         /\ \A j \in DOMAIN f \ {i} : Put(f, i, r)[j] = f[j]
BY DEF Put

LEMMA PutLegal ==
  ASSUME NEW S, NEW f, AllLegal(f, S), NEW i, NEW r \in Legal(S)
  PROVE  /\ AllLegal(Put(f, i, r), S)
         /\ DOMAIN Put(f, i, r) = DOMAIN f \union {i}
BY DEF AllLegal, Put

LEMMA ReplaceLegal ==
  ASSUME NEW S, NEW f, AllLegal(f, S), NEW i \in DOMAIN f, NEW r \in Legal(S)
  PROVE  /\ AllLegal(Put(f, i, r), S)
         /\ DOMAIN Put(f, i, r) = DOMAIN f
BY DEF AllLegal, Put

LEMMA DropLegal ==
  ASSUME NEW S, NEW f, AllLegal(f, S), NEW i
  PROVE  /\ AllLegal(Drop(f, i), S)
         /\ DOMAIN Drop(f, i) = DOMAIN f \ {i}
         /\ \A j \in DOMAIN f \ {i} : Drop(f, i)[j] = f[j]
BY DEF AllLegal, Drop

LEMMA LegalRow ==
  ASSUME NEW S, NEW f, AllLegal(f, S), NEW i \in DOMAIN f
  PROVE  /\ f[i] \in Legal(S)
         /\ f[i] \in Row
         /\ f[i].stash \in S
         /\ f[i].quantity \in Nat \ {0}
         /\ f[i].def \in Defs
BY RowFields DEF AllLegal, Legal

LEMMA TakeLegal ==
  ASSUME NEW S, NEW f, AllLegal(f, S), NEW i \in DOMAIN f,
         NEW q \in 1 .. f[i].quantity
  PROVE  /\ AllLegal(Take(f, i, q), S)
         /\ DOMAIN Take(f, i, q) \subseteq DOMAIN f
         /\ DOMAIN f \ {i} \subseteq DOMAIN Take(f, i, q)
         /\ \A j \in DOMAIN f \ {i} : Take(f, i, q)[j] = f[j]
         /\ i \in DOMAIN Take(f, i, q) =>
              Take(f, i, q)[i] = WithQuantity(f[i], f[i].quantity - q)
<1>1. f[i] \in Legal(S) /\ f[i].quantity \in Nat \ {0}
  BY LegalRow
<1>2. CASE q = f[i].quantity
  <2>1. Take(f, i, q) = Drop(f, i)
    BY <1>2 DEF Take
  <2>2. /\ AllLegal(Drop(f, i), S) /\ DOMAIN Drop(f, i) = DOMAIN f \ {i}
        /\ \A j \in DOMAIN f \ {i} : Drop(f, i)[j] = f[j]
    BY DropLegal
  <2> QED
    BY <2>1, <2>2
<1>3. CASE q # f[i].quantity
  <2> DEFINE r == WithQuantity(f[i], f[i].quantity - q)
  <2>1. Take(f, i, q) = Put(f, i, r)
    BY <1>3 DEF Take
  <2>2. f[i].quantity - q \in Nat \ {0}
    BY <1>1, <1>3
  <2>3. r \in Legal(S)
    BY <1>1, <2>2, WithQuantityLegal
  <2> HIDE DEF r
  <2>4. /\ AllLegal(Put(f, i, r), S) /\ DOMAIN Put(f, i, r) = DOMAIN f \union {i}
        /\ Put(f, i, r)[i] = r
        /\ \A j \in DOMAIN f \ {i} : Put(f, i, r)[j] = f[j]
    <3>1. AllLegal(Put(f, i, r), S)
      BY <2>3, PutLegal
    <3>2. /\ DOMAIN Put(f, i, r) = DOMAIN f \union {i} /\ Put(f, i, r)[i] = r
          /\ \A j \in DOMAIN f \ {i} : Put(f, i, r)[j] = f[j]
      BY DEF Put
    <3> QED
      BY <3>1, <3>2
  <2>5. DOMAIN f \union {i} = DOMAIN f
    OBVIOUS
  <2>6. Put(f, i, r)[i] = WithQuantity(f[i], f[i].quantity - q)
    BY <2>4 DEF r
  <2> QED
    BY <2>1, <2>4, <2>5, <2>6
<1> QED
  BY <1>2, <1>3

LEMMA GrowLegal ==
  ASSUME NEW S, NEW f, AllLegal(f, S), NEW i \in DOMAIN f, NEW q \in Nat
  PROVE  AllLegal(Grow(f, i, q), S) /\ DOMAIN Grow(f, i, q) = DOMAIN f
<1>1. f[i] \in Legal(S) /\ f[i].quantity + q \in Nat \ {0}
  BY LegalRow
<1>2. WithQuantity(f[i], f[i].quantity + q) \in Legal(S)
  BY <1>1, WithQuantityLegal
<1> QED
  BY <1>2, PutLegal DEF Grow

LEMMA SameKeyIn ==
  ASSUME NEW f, NEW s, NEW d, NEW n
  PROVE  /\ SameKey(f, s, d, n) \subseteq DOMAIN f
         /\ \A i \in SameKey(f, s, d, n) : f[i].def = d /\ f[i].stash = s
BY DEF SameKey, Lying

LEMMA AcquireNotesType ==
  ASSUME NEW S, NEW f, AllLegal(f, S), IsFiniteSet(DOMAIN f), NEW s, NEW d,
         NEW given \in Notes \union {Undefined}
  PROVE  AcquireNotes(f, s, d, given) \in Notes
<1> DEFINE J == {j \in Lying(f, s) : f[j].def = d /\ f[j].notes > 0}
           N == {f[i].notes : i \in J}
           M == {NoNotes} \union N
<1>1. IsFiniteSet(J)
  BY FS_Subset DEF Lying
<1>2. IsFiniteSet(N)
  <2> DEFINE h == [j \in J |-> f[j].notes]
  <2>1. h \in Surjection(J, N)
    BY DEF Surjection
  <2> QED
    BY <1>1, <2>1, FS_Surjection
<1>3. IsFiniteSet(M)
  <2> HIDE DEF N
  <2>1. IsFiniteSet(N \union {NoNotes})
    BY <1>2, FS_AddElement
  <2>2. M = N \union {NoNotes}
    OBVIOUS
  <2> QED
    BY <2>1, <2>2
<1>4. \A j \in J : f[j].notes \in Nat
  BY LegalRow, RowFields DEF Lying, Notes, FreeText
<1>5. M \in SUBSET Nat /\ M # {}
  BY <1>4 DEF NoNotes
<1>6. Max(M) \in Nat
  BY <1>3, <1>5, NatMax
<1>7. NextContainerNotes(f, d, s) \in Nat
  BY <1>6 DEF NextContainerNotes
<1> QED
  BY <1>7, NotesAssumption DEF AcquireNotes, Notes, NoNotes, Undefined

LEMMA AcquiredLegal ==
  ASSUME NEW S \in SUBSET Stashes, NEW f, AllLegal(f, S), IsFiniteSet(DOMAIN f),
         NEW s \in S, NEW d \in Defs, NEW q \in Nat \ {0},
         NEW given \in Notes \union {Undefined}, NEW new,
         NEW g \in Acquired(f, s, d, q, given, new)
  PROVE  AllLegal(g, S)
<1> DEFINE n == AcquireNotes(f, s, d, given)
           targets == AcquireTargets(f, s, d, n)
           c == InitialCharges(s, d)
           row == [def |-> d, stash |-> s, parent |-> NoParent, quantity |-> q,
                   equipped |-> FALSE, attuned |-> FALSE, charges |-> c,
                   notes |-> n]
<1>1. n \in Notes
  BY AcquireNotesType
<1>2. /\ c \in Nat \union {NoCharges}
      /\ c # NoCharges => MaxCharges[d] > 0 /\ c <= MaxCharges[d]
  BY MaxChargesType DEF InitialCharges, NoCharges
<1> HIDE DEF n, c
<1>3. row \in Row
  BY <1>1, <1>2 DEF Row, NoParent
<1>4. row \in Legal(S)
  BY <1>2, <1>3 DEF Legal, ChargesLegal
<1>5. CASE targets # {}
  <2>1. PICK t \in targets : g = Grow(f, t, q)
    BY <1>5 DEF Acquired, n
  <2>2. t \in DOMAIN f
    BY <2>1, SameKeyIn DEF AcquireTargets
  <2> QED
    BY <2>1, <2>2, GrowLegal
<1>6. CASE targets = {}
  <2>1. g = Put(f, new, row)
    BY <1>6 DEF Acquired, n, c
  <2> QED
    BY <1>4, <2>1, PutLegal
<1> QED
  BY <1>5, <1>6

LEMMA SplitOffLegal ==
  ASSUME NEW S, NEW f, AllLegal(f, S), NEW i \in DOMAIN f,
         NEW q \in 1 .. f[i].quantity - 1, NEW new
  PROVE  AllLegal(SplitOff(f, i, q, new), S)
<1>1. f[i] \in Legal(S) /\ f[i].quantity \in Nat \ {0}
  BY LegalRow
<1>2. q \in 1 .. f[i].quantity /\ q \in Nat \ {0}
  BY <1>1
<1>3. AllLegal(Take(f, i, q), S)
  BY <1>2, TakeLegal
<1>4. [f[i] EXCEPT !.quantity = q, !.equipped = FALSE, !.attuned = FALSE]
        \in Legal(S)
  BY <1>1, <1>2, FlaggedLegal
<1> QED
  BY <1>3, <1>4, PutLegal DEF SplitOff

-----------------------------------------------------------------------------
(***************************************************************************)
(* transfer                                                                *)
(***************************************************************************)
LEMMA MovedWholeLegal ==
  ASSUME NEW S \in SUBSET Stashes, NEW f, AllLegal(f, S), NEW i \in DOMAIN f,
         NEW to \in S, NEW parent \in Nat \union {Undefined}
  PROVE  AllLegal(MovedWhole(f, i, to, parent), S)
<1>1. \A k \in DOMAIN f : f[k] \in Legal(S) /\ f[k] \in Row
  BY LegalRow
<1>2. \A k \in DOMAIN f : /\ Into(f[k], to) \in Legal(S)
                          /\ Into(f[k], to).def = f[k].def
  BY <1>1, IntoLegal
<1>3. Arriving(f[i], to, parent, Into(f[i], to)) \in Legal(S)
  BY <1>1, <1>2, ArrivingLegal
<1> QED
  BY <1>1, <1>2, <1>3 DEF MovedWhole, AllLegal

LEMMA MovedPartLegal ==
  ASSUME NEW S \in SUBSET Stashes, NEW f, AllLegal(f, S), NEW i \in DOMAIN f,
         NEW q \in 1 .. f[i].quantity, NEW to \in S,
         NEW parent \in Nat \union {Undefined}, NEW new
  PROVE  AllLegal(MovedPart(f, i, q, to, parent, new), S)
<1> DEFINE n == WithQuantity(Into(f[i], to), q)
           a == Arriving(f[i], to, parent, n)
<1>1. f[i] \in Legal(S) /\ f[i] \in Row /\ f[i].quantity \in Nat \ {0}
  BY LegalRow
<1>2. q \in Nat \ {0}
  BY <1>1
<1>3. /\ Into(f[i], to) \in Legal(S) /\ Into(f[i], to) \in Row
      /\ Into(f[i], to).def = f[i].def
  BY <1>1, IntoLegal
<1>4. n \in Legal(S) /\ n.def = f[i].def
  BY <1>2, <1>3, WithQuantityLegal, WithQuantityFields
<1> HIDE DEF n
<1>5. a \in Legal(S)
  BY <1>1, <1>4, ArrivingLegal
<1> HIDE DEF a
<1>6. AllLegal(Take(f, i, q), S)
  BY TakeLegal
<1>7. AllLegal(Put(Take(f, i, q), new, a), S)
  BY <1>5, <1>6, PutLegal
<1> QED
  BY <1>7 DEF MovedPart, n, a

StackedRow(f, i, q, to, parent, t) ==
  Arriving(f[i], to, parent, WithQuantity(f[t], f[t].quantity + q))

LEMMA TransferredCases ==
  ASSUME NEW f, NEW i, NEW q, NEW to, NEW parent, NEW new,
         NEW g \in Transferred(f, i, q, to, parent, new)
  PROVE  \/ \E t \in StackTargets(f, i, to) :
              g = Put(Take(f, i, q), t, StackedRow(f, i, q, to, parent, t))
         \/ q = f[i].quantity /\ g = MovedWhole(f, i, to, parent)
         \/ q # f[i].quantity /\ g = MovedPart(f, i, q, to, parent, new)
BY Zenon DEF Transferred, StackedRow

LEMMA StackTargetsIn ==
  ASSUME NEW f, NEW i, NEW to, NEW t \in StackTargets(f, i, to)
  PROVE  /\ t \in DOMAIN f \ {i} /\ f[t].def = f[i].def
         /\ f[t].stash = to /\ f[i].stash # to
BY SameKeyIn DEF StackTargets

LEMMA StackedRowLegal ==
  ASSUME NEW S, NEW f, AllLegal(f, S), NEW i \in DOMAIN f,
         NEW q \in 1 .. f[i].quantity, NEW to,
         NEW parent \in Nat \union {Undefined}, NEW t \in StackTargets(f, i, to)
  PROVE  /\ StackedRow(f, i, q, to, parent, t) \in Legal(S)
         /\ StackedRow(f, i, q, to, parent, t).stash = to
<1> DEFINE w == WithQuantity(f[t], f[t].quantity + q)
<1>1. t \in DOMAIN f /\ f[t].def = f[i].def /\ f[t].stash = to
  BY StackTargetsIn
<1>2. /\ f[t] \in Legal(S) /\ f[t] \in Row /\ f[i] \in Row
      /\ f[t].quantity + q \in Nat \ {0}
  BY <1>1, LegalRow
<1>3. w \in Legal(S) /\ w \in Row /\ w.def = f[t].def /\ w.stash = f[t].stash
  BY <1>2, WithQuantityLegal, WithQuantityFields
<1> HIDE DEF w
<1>4. /\ Arriving(f[i], to, parent, w) \in Legal(S)
      /\ Arriving(f[i], to, parent, w).stash = to
  BY <1>1, <1>2, <1>3, ArrivingLegal, ArrivingFields
<1> QED
  BY <1>4 DEF StackedRow, w

LEMMA TransferredLegal ==
  ASSUME NEW S \in SUBSET Stashes, NEW f, AllLegal(f, S), NEW i \in DOMAIN f,
         NEW q \in 1 .. f[i].quantity, NEW to \in S,
         NEW parent \in Nat \union {Undefined}, NEW new,
         NEW g \in Transferred(f, i, q, to, parent, new)
  PROVE  AllLegal(g, S)
<1>1. ASSUME NEW t \in StackTargets(f, i, to),
             g = Put(Take(f, i, q), t, StackedRow(f, i, q, to, parent, t))
      PROVE  AllLegal(g, S)
  <2> DEFINE h == Take(f, i, q)
             r == StackedRow(f, i, q, to, parent, t)
  <2>1. AllLegal(h, S) /\ r \in Legal(S)
    BY TakeLegal, StackedRowLegal
  <2> HIDE DEF h, r
  <2>2. AllLegal(Put(h, t, r), S)
    BY <2>1, PutLegal
  <2> QED
    BY <1>1, <2>2 DEF h, r
<1>2. AllLegal(MovedWhole(f, i, to, parent), S)
  BY MovedWholeLegal
<1>3. AllLegal(MovedPart(f, i, q, to, parent, new), S)
  BY MovedPartLegal
<1> QED
  BY <1>1, <1>2, <1>3, TransferredCases

-----------------------------------------------------------------------------
(***************************************************************************)
(* Equipment and charges                                                   *)
(***************************************************************************)

LEMMA RestackedLegal ==
  ASSUME NEW S, NEW f, AllLegal(f, S), NEW i \in DOMAIN f, NEW row \in Legal(S),
         NEW g \in Restacked(f, i, row)
  PROVE  AllLegal(g, S) /\ DOMAIN g \subseteq DOMAIN f
<1>1. row.quantity \in Nat
  BY RowFields DEF Legal
<1>2. ASSUME NEW t \in SameKey(f, row.stash, row.def, row.notes) \ {i},
             g = Grow(Drop(f, i), t, row.quantity)
      PROVE  AllLegal(g, S) /\ DOMAIN g \subseteq DOMAIN f
  <2>1. AllLegal(Drop(f, i), S) /\ DOMAIN Drop(f, i) = DOMAIN f \ {i}
    BY DropLegal
  <2>2. t \in DOMAIN Drop(f, i)
    BY <2>1, SameKeyIn
  <2> DEFINE h == Drop(f, i)
  <2> HIDE DEF h
  <2>3. AllLegal(h, S) /\ t \in DOMAIN h
    BY <2>1, <2>2 DEF h
  <2>4. AllLegal(Grow(h, t, row.quantity), S)
        /\ DOMAIN Grow(h, t, row.quantity) = DOMAIN h
    BY <1>1, <2>3, GrowLegal
  <2> QED
    BY <1>2, <2>1, <2>4 DEF h
<1>3. AllLegal(Put(f, i, row), S) /\ DOMAIN Put(f, i, row) = DOMAIN f
  BY ReplaceLegal
<1>4. \/ \E t \in SameKey(f, row.stash, row.def, row.notes) \ {i} :
           g = Grow(Drop(f, i), t, row.quantity)
      \/ g = Put(f, i, row)
  BY Zenon DEF Restacked
<1> QED
  BY <1>2, <1>3, <1>4

LEMMA FlaggedUnitLegal ==
  ASSUME NEW S, NEW f, AllLegal(f, S), NEW i \in DOMAIN f, NEW e \in BOOLEAN,
         NEW a \in BOOLEAN, NEW new
  PROVE  AllLegal(FlaggedUnit(f, i, e, a, new), S)
<1> DEFINE r == [f[i] EXCEPT !.quantity = 1, !.equipped = e, !.attuned = a]
<1>1. f[i] \in Legal(S) /\ f[i].quantity \in Nat \ {0}
  BY LegalRow
<1>2. r \in Legal(S)
  <2>1. 1 \in Nat \ {0}
    OBVIOUS
  <2> QED
    BY <1>1, <2>1, FlaggedLegal, Zenon
<1> HIDE DEF r
<1>3. 1 \in 1 .. f[i].quantity
  BY <1>1
<1>4. AllLegal(Take(f, i, 1), S)
  BY <1>3, TakeLegal
<1>5. AllLegal(Put(Take(f, i, 1), new, r), S)
  BY <1>2, <1>4, PutLegal
<1> QED
  BY <1>5 DEF FlaggedUnit, r

LEMMA EquipmentLegal ==
  ASSUME NEW S, NEW f, AllLegal(f, S), NEW i \in DOMAIN f, NEW new,
         NEW g \in Equipped(f, i, new) \union Attuned(f, i, new)
                     \union Unequipped(f, i) \union Unattuned(f, i)
  PROVE  AllLegal(g, S)
<1>1. AllLegal(FlaggedUnit(f, i, TRUE, FALSE, new), S)
  BY FlaggedUnitLegal
<1>2. AllLegal(FlaggedUnit(f, i, FALSE, TRUE, new), S)
  BY FlaggedUnitLegal
<1>3. ASSUME NEW b \in BOOLEAN,
             \/ g \in Restacked(f, i, [f[i] EXCEPT !.equipped = b])
             \/ g \in Restacked(f, i, [f[i] EXCEPT !.attuned = b])
      PROVE  AllLegal(g, S)
  <2>1. f[i] \in Legal(S)
    BY LegalRow
  <2>2. \A row \in Legal(S) : g \in Restacked(f, i, row) => AllLegal(g, S)
    BY RestackedLegal
  <2>3. /\ [f[i] EXCEPT !.equipped = b] \in Legal(S)
        /\ [f[i] EXCEPT !.attuned = b] \in Legal(S)
    BY <2>1, EquippedLegal
  <2> QED
    BY <1>3, <2>2, <2>3
<1>4. \/ g = FlaggedUnit(f, i, TRUE, FALSE, new)
      \/ g = FlaggedUnit(f, i, FALSE, TRUE, new)
      \/ \E b \in BOOLEAN :
           \/ g \in Restacked(f, i, [f[i] EXCEPT !.equipped = b])
           \/ g \in Restacked(f, i, [f[i] EXCEPT !.attuned = b])
  BY Zenon DEF Equipped, Attuned, Unequipped, Unattuned
<1> QED
  BY <1>1, <1>2, <1>3, <1>4

LEMMA UnflaggedDomain ==
  ASSUME NEW S, NEW f, AllLegal(f, S), NEW i \in DOMAIN f,
         NEW g \in Unequipped(f, i) \union Unattuned(f, i)
  PROVE  DOMAIN g \subseteq DOMAIN f
<1>1. f[i] \in Legal(S)
  BY LegalRow
<1>2. \A row \in Legal(S) : g \in Restacked(f, i, row) => DOMAIN g \subseteq DOMAIN f
  BY RestackedLegal
<1>3. /\ [f[i] EXCEPT !.equipped = FALSE] \in Legal(S)
      /\ [f[i] EXCEPT !.attuned = FALSE] \in Legal(S)
  BY <1>1, EquippedLegal
<1>4. \/ g \in Restacked(f, i, [f[i] EXCEPT !.equipped = FALSE])
      \/ g \in Restacked(f, i, [f[i] EXCEPT !.attuned = FALSE])
  BY Zenon DEF Unequipped, Unattuned
<1> QED
  BY <1>2, <1>3, <1>4

LEMMA RechargedToLegal ==
  ASSUME NEW r \in Row, MaxCharges[r.def] > 0, NEW amount \in Nat \union {Undefined}
  PROVE  /\ RechargedTo(r, amount) \in Nat
         /\ RechargedTo(r, amount) <= MaxCharges[r.def]
<1>1. MaxCharges[r.def] \in Nat /\ r.charges \in Nat \union {NoCharges}
  BY RowFields, MaxChargesType
<1> QED
  BY <1>1 DEF RechargedTo, ChargesLeft, NoCharges, Undefined

LEMMA ChargeUsedLegal ==
  ASSUME NEW S, NEW f, AllLegal(f, S), NEW i \in DOMAIN f, NEW amount,
         CanUseCharge(f[i], amount)
  PROVE  /\ AllLegal(ChargeUsed(f, i, amount), S)
         /\ DOMAIN ChargeUsed(f, i, amount) \subseteq DOMAIN f
<1> DEFINE row == f[i]
<1>1. row \in Legal(S) /\ row \in Row /\ row.quantity \in Nat \ {0}
  BY LegalRow
<1>2. /\ MaxCharges[row.def] \in Nat /\ MaxCharges[row.def] > 0
      /\ row.charges \in Nat /\ row.charges <= MaxCharges[row.def]
      /\ amount \in 1 .. row.charges
  BY <1>1, RowFields, MaxChargesType DEF CanUseCharge, NoCharges, Legal, ChargesLegal
<1>3. CASE ~UsesUp(row, amount)
  <2> DEFINE n == WithCharges(row, row.charges - amount)
  <2>1. row.charges - amount \in Nat /\ row.charges - amount <= MaxCharges[row.def]
    BY <1>2
  <2>2. n \in Legal(S)
    BY <1>1, <1>2, <2>1, WithChargesLegal
  <2>3. ChargeUsed(f, i, amount) = Put(f, i, n)
    BY <1>3, Zenon DEF ChargeUsed
  <2> HIDE DEF n
  <2>4. AllLegal(Put(f, i, n), S) /\ DOMAIN Put(f, i, n) = DOMAIN f
    BY <2>2, ReplaceLegal
  <2> QED
    BY <2>3, <2>4
<1>4. CASE UsesUp(row, amount) /\ row.quantity = 1
  <2>1. ChargeUsed(f, i, amount) = Drop(f, i)
    BY <1>4, Zenon DEF ChargeUsed
  <2>2. AllLegal(Drop(f, i), S) /\ DOMAIN Drop(f, i) = DOMAIN f \ {i}
    BY DropLegal
  <2> QED
    BY <2>1, <2>2
<1>5. CASE UsesUp(row, amount) /\ row.quantity # 1
  <2> DEFINE w == WithQuantity(row, row.quantity - 1)
             n == WithCharges(w, MaxCharges[row.def])
  <2>1. w \in Legal(S) /\ w.def = row.def
    BY <1>1, <1>5, WithQuantityLegal, WithQuantityFields
  <2>2. ChargeUsed(f, i, amount) = Put(f, i, n)
    BY <1>5, Zenon DEF ChargeUsed
  <2> HIDE DEF w
  <2>3. n \in Legal(S)
    BY <1>2, <2>1, WithChargesLegal
  <2> HIDE DEF n
  <2>4. AllLegal(Put(f, i, n), S) /\ DOMAIN Put(f, i, n) = DOMAIN f
    BY <2>3, ReplaceLegal
  <2> QED
    BY <2>2, <2>4
<1> QED
  BY <1>3, <1>4, <1>5

-----------------------------------------------------------------------------
(***************************************************************************)
(* The inductive invariant.  That deleting a stash moves its rows to a     *)
(* stash that exists needs the loot never to be deleted; that the coins    *)
(* are accounted for needs a storage without an id yet, or with one that   *)
(* was deleted, never to come back with an old balance.                    *)
(***************************************************************************)
PurseInv ==
  /\ Inventories \union {PartyStash, RecoveredLoot} \subseteq stashes
  /\ stashes \intersect Storages \subseteq minted
  /\ \A s \in Storages \ minted : coins[s] = 0 /\ coinLog[s] = 0
  /\ \A s \in stashes : coins[s] = coinLog[s]

Inv == /\ TypeOK
       /\ AllLegal(items, stashes)
       /\ PurseInv

LEMMA AllLegalRows ==
  ASSUME NEW f, NEW S, AllLegal(f, S)
  PROVE  f \in [DOMAIN f -> Row]
BY DEF AllLegal, Legal

LEMMA InitInv == ASSUME Init PROVE Inv
<1>1. DOMAIN items = {} /\ items = [i \in {} |-> 0]
  BY DEF Init
<1>2. items \in [DOMAIN items -> Row] /\ AllLegal(items, stashes)
  BY <1>1 DEF AllLegal
<1>3. PurseInv
  BY StashAssumption DEF Init, PurseInv, Stashes
<1>4. TypeOK
  BY <1>1, <1>2, BoundsAssumption DEF Init, TypeOK, RowIds, Stashes
<1> QED
  BY <1>2, <1>3, <1>4 DEF Inv

(* A step that leaves the stashes and the coins alone.                     *)
LEMMA ItemsKept ==
  ASSUME Inv, AllLegal(items', stashes), DOMAIN items' \subseteq RowIds,
         nextId' \in 1 .. MaxRows + 1, itemLog' \in [Defs -> Int],
         UNCHANGED purse
  PROVE  Inv'
<1>1. items' \in [DOMAIN items' -> Row]
  BY AllLegalRows
<1>2. TypeOK'
  BY <1>1 DEF Inv, TypeOK, purse
<1>3. PurseInv'
  BY DEF Inv, PurseInv, purse
<1>4. AllLegal(items, stashes)'
  BY DEF AllLegal, purse
<1> QED
  BY <1>2, <1>3, <1>4 DEF Inv

LEMMA Finite == ASSUME TypeOK PROVE IsFiniteSet(DOMAIN items)
<1>1. IsFiniteSet(RowIds)
  BY BoundsAssumption, FS_Interval DEF RowIds
<1> QED
  BY <1>1, FS_Subset DEF TypeOK

LEMMA InvFacts ==
  ASSUME Inv
  PROVE  /\ TypeOK /\ AllLegal(items, stashes)
         /\ stashes \in SUBSET Stashes /\ IsFiniteSet(DOMAIN items)
         /\ DOMAIN items \subseteq RowIds /\ RowIds \subseteq Nat
         /\ nextId \in 1 .. MaxRows + 1
         /\ itemLog \in [Defs -> Int]
BY Finite DEF Inv, TypeOK, RowIds

(***************************************************************************)
(* The requests that the theorems allow: of any amounts and notes, so that *)
(* the controls of the screens are among them.                             *)
(***************************************************************************)
AnyItemStep(i) ==
  \/ \E q \in Nat \ {0} : Consume(i, q) \/ Split(i, q)
  \/ \E n \in Notes : EditNotes(i, n)
  \/ \E q \in Nat \ {0}, to \in stashes,
        parent \in DOMAIN items \union {NoParent, Undefined} :
          Transfer(i, q, to, parent)

AnyCharacterStep(i) ==
  \/ Equip(i) \/ Unequip(i)
  \/ (\E override \in BOOLEAN : Attune(i, override)) \/ Unattune(i)
  \/ \E amount \in Nat : UseCharge(i, amount)
  \/ \E amount \in Nat \union {Undefined} : RechargeOne(i, amount)

AnyNext ==
  \/ \E s \in stashes, d \in Defs, q \in Nat \ {0},
        given \in Notes \union {Undefined} : Acquire(s, d, q, given)
  \/ \E i \in DOMAIN items : AnyItemStep(i) \/ AnyCharacterStep(i)
  \/ \E s \in Inventories :
       \E amounts \in [DOMAIN items -> Nat \union {Undefined}] :
         RechargeAll(s, amounts)
  \/ PurseStep

LEMMA NextIsAny == ASSUME [Next]_vars PROVE [AnyNext]_vars
<1>1. Quantities \subseteq Nat \ {0} /\ Amounts \subseteq Nat
  BY DEF Quantities, Amounts
<1>2. \A i : ItemStep(i) => AnyItemStep(i)
  BY <1>1, NotesAssumption DEF ItemStep, AnyItemStep
<1>3. \A i : CharacterStep(i) => AnyCharacterStep(i)
  BY <1>1, OverridesAssumption DEF CharacterStep, AnyCharacterStep
<1>4. \A s \in stashes, d \in Defs, q \in Quantities, given \in UserNotes \union {Undefined} :
        Acquire(s, d, q, given) => AnyNext
  BY <1>1, NotesAssumption DEF AnyNext
<1>5. ASSUME NEW s \in Inventories,
             NEW amounts \in [DOMAIN items -> Amounts \union {Undefined}],
             RechargeAll(s, amounts)
      PROVE  AnyNext
  <2>1. amounts \in [DOMAIN items -> Nat \union {Undefined}]
    BY <1>1
  <2> QED
    BY <1>5, <2>1 DEF AnyNext
<1> QED
  BY <1>2, <1>3, <1>4, <1>5 DEF Next, AnyNext

LEMMA LogItemsType ==
  ASSUME itemLog \in [Defs -> Int], NEW d \in Defs, NEW q \in Int, LogItems(d, q)
  PROVE  itemLog' \in [Defs -> Int]
BY DEF LogItems

LEMMA MintType ==
  ASSUME nextId \in 1 .. MaxRows + 1, Mint
  PROVE  /\ DOMAIN items' \subseteq RowIds
         /\ nextId' \in 1 .. MaxRows + 1
BY BoundsAssumption DEF Mint, RowIds

LEMMA ItemStepInv ==
  ASSUME Inv, NEW i \in DOMAIN items, AnyItemStep(i)
  PROVE  Inv'
<1> USE InvFacts
<1>1. ASSUME NEW q \in Nat \ {0}, Consume(i, q)
      PROVE  Inv'
  <2>1. AllLegal(items', stashes) /\ DOMAIN items' \subseteq DOMAIN items
    BY <1>1, TakeLegal DEF Consume
  <2>2. itemLog' \in [Defs -> Int]
    BY <1>1, LegalRow, LogItemsType DEF Consume
  <2> QED
    BY <1>1, <2>1, <2>2, ItemsKept DEF Consume
<1>2. ASSUME NEW q \in Nat \ {0}, Split(i, q)
      PROVE  Inv'
  <2>1. AllLegal(items', stashes)
    BY <1>2, SplitOffLegal DEF Split
  <2> QED
    BY <1>2, <2>1, MintType, ItemsKept DEF Split
<1>3. ASSUME NEW n \in Notes, EditNotes(i, n)
      PROVE  Inv'
  <2> DEFINE r == [items[i] EXCEPT !.notes = n]
  <2>1. items[i] \in Row /\ items[i] \in Legal(stashes) /\ n \in Notes
    BY LegalRow
  <2>2. /\ r \in Row /\ r.def = items[i].def /\ r.stash = items[i].stash
        /\ r.charges = items[i].charges
    BY <2>1 DEF Row
  <2> HIDE DEF r
  <2>3. r \in Legal(stashes)
    BY <2>1, <2>2 DEF Legal, ChargesLegal
  <2>4. items' = Put(items, i, r)
    BY <1>3, Zenon DEF EditNotes, r
  <2>5. AllLegal(items', stashes) /\ DOMAIN items' = DOMAIN items
    BY <2>3, <2>4, ReplaceLegal
  <2> QED
    BY <1>3, <2>5, ItemsKept DEF EditNotes
<1>4. ASSUME NEW q \in Nat \ {0}, NEW to \in stashes,
             NEW parent \in DOMAIN items \union {NoParent, Undefined},
             Transfer(i, q, to, parent)
      PROVE  Inv'
  <2>1. parent \in Nat \union {Undefined}
    BY DEF NoParent
  <2>2. q \in 1 .. items[i].quantity
    BY <1>4 DEF Transfer, CanTransfer
  <2>3. AllLegal(items', stashes)
    BY <1>4, <2>1, <2>2, TransferredLegal DEF Transfer
  <2> QED
    BY <1>4, <2>3, MintType, ItemsKept DEF Transfer
<1> QED
  BY <1>1, <1>2, <1>3, <1>4 DEF AnyItemStep

LEMMA CharacterStepInv ==
  ASSUME Inv, NEW i \in DOMAIN items, AnyCharacterStep(i)
  PROVE  Inv'
<1> USE InvFacts
<1>1. CASE Equip(i) \/ \E override \in BOOLEAN : Attune(i, override)
  <2>1. items' \in Equipped(items, i, nextId) \union Attuned(items, i, nextId)
    BY <1>1 DEF Equip, Attune
  <2>2. AllLegal(items', stashes)
    BY <2>1, EquipmentLegal
  <2>3. Mint /\ UNCHANGED <<itemLog, purse>>
    BY <1>1 DEF Equip, Attune
  <2> QED
    BY <2>2, <2>3, MintType, ItemsKept
<1>2. CASE Unequip(i) \/ Unattune(i)
  <2>1. items' \in Unequipped(items, i) \union Unattuned(items, i)
    BY <1>2 DEF Unequip, Unattune
  <2>2. AllLegal(items', stashes) /\ DOMAIN items' \subseteq DOMAIN items
    BY <2>1, EquipmentLegal, UnflaggedDomain
  <2>3. UNCHANGED <<nextId, itemLog, purse>>
    BY <1>2 DEF Unequip, Unattune
  <2> QED
    BY <2>2, <2>3, ItemsKept
<1>3. ASSUME NEW amount \in Nat, UseCharge(i, amount)
      PROVE  Inv'
  <2>1. AllLegal(items', stashes) /\ DOMAIN items' \subseteq DOMAIN items
    BY <1>3, ChargeUsedLegal DEF UseCharge
  <2>2. itemLog' \in [Defs -> Int]
    BY <1>3, LegalRow, LogItemsType DEF UseCharge
  <2> QED
    BY <1>3, <2>1, <2>2, ItemsKept DEF UseCharge
<1>4. ASSUME NEW amount \in Nat \union {Undefined}, RechargeOne(i, amount)
      PROVE  Inv'
  <2> DEFINE r == WithCharges(items[i], RechargedTo(items[i], amount))
  <2>1. items[i] \in Row /\ items[i] \in Legal(stashes)
    BY LegalRow
  <2>2. amount \in Nat \union {Undefined}
    OBVIOUS
  <2>3. r \in Legal(stashes)
    BY <1>4, <2>1, <2>2, RechargedToLegal, WithChargesLegal DEF RechargeOne
  <2>4. items' = Put(items, i, r)
    BY <1>4 DEF RechargeOne
  <2> HIDE DEF r
  <2>5. AllLegal(items', stashes) /\ DOMAIN items' = DOMAIN items
    BY <2>3, <2>4, ReplaceLegal
  <2> QED
    BY <1>4, <2>5, ItemsKept DEF RechargeOne
<1> QED
  BY <1>1, <1>2, <1>3, <1>4 DEF AnyCharacterStep

LEMMA AcquireInv ==
  ASSUME Inv, NEW s \in stashes, NEW d \in Defs, NEW q \in Nat \ {0},
         NEW given \in Notes \union {Undefined}, Acquire(s, d, q, given)
  PROVE  Inv'
<1> USE InvFacts
<1>1. q \in Nat \ {0}
  OBVIOUS
<1>2. AllLegal(items', stashes)
  BY <1>1, AcquiredLegal DEF Acquire
<1>3. itemLog' \in [Defs -> Int]
  BY <1>1, LogItemsType DEF Acquire
<1> QED
  BY <1>2, <1>3, MintType, ItemsKept DEF Acquire

LEMMA RechargeAllInv ==
  ASSUME Inv, NEW s \in Inventories,
         NEW amounts \in [DOMAIN items -> Nat \union {Undefined}],
         RechargeAll(s, amounts)
  PROVE  Inv'
<1> USE InvFacts
<1>1. ASSUME NEW i \in DOMAIN items, MaxCharges[items[i].def] > 0
      PROVE  WithCharges(items[i], RechargedTo(items[i], amounts[i]))
               \in Legal(stashes)
  <2>1. items[i] \in Row /\ items[i] \in Legal(stashes)
    BY LegalRow
  <2>2. amounts[i] \in Nat \union {Undefined}
    OBVIOUS
  <2> QED
    BY <1>1, <2>1, <2>2, RechargedToLegal, WithChargesLegal
<1>2. \A i \in DOMAIN items : items[i] \in Legal(stashes)
  BY LegalRow
<1>3. AllLegal(items', stashes) /\ DOMAIN items' = DOMAIN items
  BY <1>1, <1>2 DEF RechargeAll, AllLegal
<1> QED
  BY <1>3, ItemsKept DEF RechargeAll

LEMMA CreateStashInv ==
  ASSUME Inv, NEW s \in Storages, CreateStash(s)
  PROVE  Inv'
<1> USE DEF CreateStash
<1>1. stashes \subseteq stashes' /\ stashes' = stashes \union {s}
  OBVIOUS
<1>2. TypeOK'
  BY DEF Inv, TypeOK, Stashes
<1>3. AllLegal(items, stashes)'
  BY <1>1 DEF Inv, AllLegal, Legal
<1>4. PurseInv'
  BY DEF Inv, PurseInv
<1> QED
  BY <1>2, <1>3, <1>4 DEF Inv

(* A stash goes: its rows lie in the stashes that are left, its coins are  *)
(* in the loot.                                                            *)
LEMMA StashDeleted ==
  ASSUME Inv, NEW s \in Storages, s \in stashes, stashes' = stashes \ {s},
         AllLegal(items', stashes'), DOMAIN items' = DOMAIN items,
         coins' = [coins EXCEPT ![RecoveredLoot] = @ + coins[s], ![s] = 0],
         coinLog' = [coinLog EXCEPT ![RecoveredLoot] = @ + coins[s]],
         UNCHANGED <<minted, nextId, itemLog>>
  PROVE  Inv'
<1>1. /\ stashes' = stashes \ {s} /\ stashes' \subseteq Stashes
      /\ RecoveredLoot \in stashes' /\ RecoveredLoot # s
      /\ RecoveredLoot \in Stashes /\ s \in Stashes
  BY StashAssumption DEF Inv, TypeOK, PurseInv, Stashes
<1>2. coins \in [Stashes -> Nat] /\ coinLog \in [Stashes -> Int]
  BY DEF Inv, TypeOK
<1>3. coins[s] \in Nat /\ coins[RecoveredLoot] \in Nat
      /\ coinLog[RecoveredLoot] \in Int
  BY <1>1, <1>2
<1>4. /\ coins' \in [Stashes -> Nat] /\ coinLog' \in [Stashes -> Int]
      /\ coins'[RecoveredLoot] = coins[RecoveredLoot] + coins[s]
      /\ coinLog'[RecoveredLoot] = coinLog[RecoveredLoot] + coins[s]
      /\ \A t \in Stashes \ {s, RecoveredLoot} :
           coins'[t] = coins[t] /\ coinLog'[t] = coinLog[t]
  BY <1>1, <1>2, <1>3
<1>5. TypeOK'
  <2>1. items' \in [DOMAIN items' -> Row]
    BY AllLegalRows
  <2> QED
    BY <1>1, <1>4, <2>1 DEF Inv, TypeOK
<1>6. PurseInv'
  <2>1. stashes' \subseteq Stashes /\ Storages \subseteq Stashes /\ s \in minted
    BY <1>1 DEF Stashes, Inv, PurseInv
  <2>2. \A t \in stashes' : coins'[t] = coinLog'[t]
    BY <1>1, <1>4 DEF Inv, PurseInv
  <2>3. \A t \in Storages \ minted : t \notin {s, RecoveredLoot}
    BY <2>1, StashAssumption
  <2>4. \A t \in Storages \ minted' : coins'[t] = 0 /\ coinLog'[t] = 0
    BY <1>4, <2>1, <2>3 DEF Inv, PurseInv
  <2> QED
    BY <1>1, <2>2, <2>4, StashAssumption DEF Inv, PurseInv
<1> QED
  BY <1>5, <1>6 DEF Inv

LEMMA DeleteStashInv ==
  ASSUME Inv, NEW s \in Storages, DeleteStash(s)
  PROVE  Inv'
<1> USE DEF DeleteStash
<1>1. /\ stashes' = stashes \ {s} /\ stashes' \subseteq Stashes
      /\ RecoveredLoot \in stashes' /\ s \in stashes
  BY StashAssumption DEF Inv, TypeOK, PurseInv, Stashes
<1>2. AllLegal(items', stashes') /\ DOMAIN items' = DOMAIN items
  <2>1. \A i \in DOMAIN items : Into(items[i], RecoveredLoot) \in Legal(stashes')
    BY <1>1, LegalRow, IntoLegal DEF Inv
  <2>2. \A i \in DOMAIN items : items[i].stash # s => items[i] \in Legal(stashes')
    BY <1>1, LegalRow DEF Inv, Legal
  <2> QED
    BY <2>1, <2>2 DEF AllLegal
<1> QED
  BY <1>1, <1>2, StashDeleted

(* Coins that move between stashes there are, with their entries.          *)
LEMMA CurrencyInv ==
  ASSUME Inv, NEW s \in stashes, NEW t \in stashes,
         \/ \E delta \in Int : CurrencyChange(s, delta)
         \/ \E delta \in Nat : CurrencyTransfer(s, t, delta)
  PROVE  Inv'
<1>1. /\ s \in Stashes /\ t \in Stashes /\ stashes \subseteq Stashes
      /\ coins \in [Stashes -> Nat] /\ coinLog \in [Stashes -> Int]
      /\ \A u \in stashes : coins[u] = coinLog[u]
      /\ \A u \in Storages \ minted : u \in Stashes /\ u \notin stashes
  BY DEF Inv, TypeOK, PurseInv, Stashes
<1> DEFINE Balanced ==
     /\ coins' \in [Stashes -> Nat] /\ coinLog' \in [Stashes -> Int]
     /\ \A u \in stashes : coins'[u] = coinLog'[u]
     /\ \A u \in Stashes \ stashes : coins'[u] = coins[u] /\ coinLog'[u] = coinLog[u]
<1>2. Balanced
  <2>1. ASSUME NEW delta \in Int, CurrencyChange(s, delta)
        PROVE  Balanced
    BY <1>1, <2>1 DEF CurrencyChange
  <2>2. ASSUME NEW delta \in Nat, CurrencyTransfer(s, t, delta)
        PROVE  Balanced
    BY <1>1, <2>2 DEF CurrencyTransfer
  <2> QED
    BY <2>1, <2>2
<1>3. UNCHANGED <<items, stashes, minted, nextId, itemLog>>
  BY DEF CurrencyChange, CurrencyTransfer
<1>4. TypeOK' /\ AllLegal(items, stashes)'
  BY <1>2, <1>3 DEF Inv, TypeOK, AllLegal
<1>5. PurseInv'
  BY <1>1, <1>2, <1>3 DEF Inv, PurseInv
<1> QED
  BY <1>4, <1>5 DEF Inv

LEMMA NextInv == ASSUME Inv, [AnyNext]_vars PROVE Inv'
<1>1. CASE UNCHANGED vars
  <2>1. AllLegal(items', stashes) /\ UNCHANGED purse
    BY <1>1 DEF vars, purse, Inv, AllLegal
  <2> QED
    BY <1>1, <2>1, InvFacts, ItemsKept DEF vars
<1>2. CASE PurseStep
  <2>1. ASSUME NEW s \in Storages, CreateStash(s) \/ DeleteStash(s)
        PROVE  Inv'
    BY <2>1, CreateStashInv, DeleteStashInv
  <2>2. ASSUME NEW s \in stashes, NEW t \in stashes,
               \/ \E delta \in -MaxCoins .. MaxCoins : CurrencyChange(s, delta)
               \/ \E delta \in 1 .. MaxCoins : CurrencyTransfer(s, t, delta)
        PROVE  Inv'
    BY <2>2, CurrencyInv, BoundsAssumption
  <2> QED
    BY <1>2, <2>1, <2>2 DEF PurseStep
<1>3. CASE AnyNext /\ ~PurseStep
  BY <1>3, AcquireInv, ItemStepInv, CharacterStepInv, RechargeAllInv DEF AnyNext
<1> QED
  BY <1>1, <1>2, <1>3

(***************************************************************************)
(* What a control hands to the reducer is a request of its kind.           *)
(***************************************************************************)
LEMMA Dispatched ==
  /\ \A s, d, q, given : dispatch(acquire(s, d, q, given)) => Acquire(s, d, q, given)
  /\ \A i, q : dispatch(consume(i, q)) => Consume(i, q)
  /\ \A i, n : dispatch(edit(i, n)) => EditNotes(i, n)
  /\ \A i, q : dispatch(split(i, q)) => Split(i, q)
  /\ \A i, q, to, parent :
       dispatch(transfer(i, q, to, parent)) => Transfer(i, q, to, parent)
  /\ \A i : dispatch(toggle("equip", i)) => Equip(i)
  /\ \A i : dispatch(toggle("unequip", i)) => Unequip(i)
  /\ \A i : dispatch(toggle("unattune", i)) => Unattune(i)
  /\ \A i, override : dispatch(attune(i, override)) => Attune(i, override)
  /\ \A i, amount : dispatch(useCharge(i, amount)) => UseCharge(i, amount)
  /\ \A i, amount : dispatch(recharge(i, amount)) => RechargeOne(i, amount)
<1>1. ASSUME NEW s, NEW d, NEW q, NEW given, dispatch(acquire(s, d, q, given))
      PROVE  Acquire(s, d, q, given)
  BY <1>1 DEF dispatch, acquire
<1>2. ASSUME NEW i, NEW q
      PROVE  /\ dispatch(consume(i, q)) => Consume(i, q)
             /\ dispatch(split(i, q)) => Split(i, q)
  BY DEF dispatch, consume, split
<1>3. ASSUME NEW i, NEW n, dispatch(edit(i, n))
      PROVE  EditNotes(i, n)
  BY <1>3 DEF dispatch, edit
<1>4. ASSUME NEW i, NEW q, NEW to, NEW parent, dispatch(transfer(i, q, to, parent))
      PROVE  Transfer(i, q, to, parent)
  BY <1>4 DEF dispatch, transfer
<1>5. ASSUME NEW i
      PROVE  /\ dispatch(toggle("equip", i)) => Equip(i)
             /\ dispatch(toggle("unequip", i)) => Unequip(i)
             /\ dispatch(toggle("unattune", i)) => Unattune(i)
  BY DEF dispatch, toggle
<1>6. ASSUME NEW i, NEW override, dispatch(attune(i, override))
      PROVE  Attune(i, override)
  BY <1>6 DEF dispatch, attune
<1>7. ASSUME NEW i, NEW amount
      PROVE  /\ dispatch(useCharge(i, amount)) => UseCharge(i, amount)
             /\ dispatch(recharge(i, amount)) => RechargeOne(i, amount)
  BY DEF dispatch, useCharge, recharge
<1> QED
  BY <1>1, <1>2, <1>3, <1>4, <1>5, <1>6, <1>7

(***************************************************************************)
(* The controls of a row, each with what it asks of the reducer.           *)
(***************************************************************************)
OfRow(i) ==
  \/ \E q \in 1 .. items[i].quantity : Consume(i, q)
  \/ \E q \in 1 .. items[i].quantity - 1 : Split(i, q)
  \/ \E given \in {items[i].notes, Undefined} :
       Acquire(items[i].stash, items[i].def, 1, given)
  \/ \E q \in 1 .. items[i].quantity, to \in stashes : Transfer(i, q, to, Undefined)
  \/ \E p \in packTargets(i) :
       ~isContainer(i) /\ Transfer(i, items[i].quantity, items[i].stash, p)
  \/ Transfer(i, items[i].quantity, items[i].stash, NoParent)

OfCharacter(i) ==
  \/ Equip(i) \/ Unequip(i) \/ Unattune(i)
  \/ \E override \in BOOLEAN : Attune(i, override)

OfPage(i) ==
  \/ \E n \in UserNotes : EditNotes(i, n)
  \/ UseCharge(i, 1)
  \/ \E amount \in Nat \union {Undefined} : RechargeOne(i, amount)

LEMMA RowControlled ==
  ASSUME NEW i, items[i].quantity \in Nat \ {0}, NEW listed,
         NEW r \in rowControls(i, listed), dispatch(r)
  PROVE  OfRow(i)
<1>1. CASE r \in PlusMinus(i)
  <2>1. \/ r = consume(i, 1)
        \/ \E given \in {items[i].notes, Undefined} :
             r = acquire(items[i].stash, items[i].def, 1, given)
    BY <1>1 DEF PlusMinus
  <2>2. 1 \in 1 .. items[i].quantity
    OBVIOUS
  <2> QED
    BY <2>1, <2>2, Dispatched DEF OfRow
<1>2. CASE r \in MoveItemModal(i)
  BY <1>2, Dispatched DEF MoveItemModal, moveTargets, OfRow
<1>3. CASE r \in Remove(i)
  <2>1. r = consume(i, items[i].quantity) /\ items[i].quantity \in 1 .. items[i].quantity
    BY <1>3 DEF Remove
  <2> QED
    BY <2>1, Dispatched DEF OfRow
<1>4. CASE r \in SplitModal(i)
  BY <1>4, Dispatched DEF SplitModal, OfRow
<1>5. CASE canPack(i, listed) /\ r \in PackItemModal(i)
  BY <1>5, Dispatched DEF canPack, PackItemModal, OfRow
<1>6. CASE r \in TakeOut(i)
  BY <1>6, Dispatched DEF TakeOut, OfRow
<1> QED
  BY <1>1, <1>2, <1>3, <1>4, <1>5, <1>6, Zenon DEF rowControls

LEMMA CharacterControlled ==
  ASSUME NEW i, NEW user, NEW r \in characterControls(i, user), dispatch(r)
  PROVE  OfCharacter(i)
<1>1. \/ r \in {toggle("equip", i), toggle("unequip", i), toggle("unattune", i)}
      \/ \E override \in BOOLEAN : r = attune(i, override)
  BY DEF characterControls, onToggleEquipped, onToggleAttuned
<1> QED
  BY <1>1, Dispatched DEF OfCharacter

LEMMA PageControlled ==
  ASSUME NEW i, NEW r \in pageControls(i), dispatch(r)
  PROVE  OfPage(i)
<1>1. CASE r \in onSubmit(i)
  BY <1>1, Dispatched DEF onSubmit, OfPage
<1>2. CASE r \in onUseCharge(i)
  BY <1>2, Dispatched DEF onUseCharge, OfPage
<1>3. CASE r \in onRecharge(i) \union onRollSubmit(i)
  <2>1. \E amount \in Nat \union {Undefined} : r = recharge(i, amount)
    BY <1>3 DEF onRecharge, onRollSubmit
  <2> QED
    BY <2>1, Dispatched DEF OfPage
<1> QED
  BY <1>1, <1>2, <1>3 DEF pageControls

(***************************************************************************)
(* A rest of the screens is one with some amounts.                         *)
(***************************************************************************)
LEMMA Rested ==
  ASSUME NEW s, onRest(s) \/ onApply(s)
  PROVE  \E amounts \in [DOMAIN items -> Nat \union {Undefined}] : RechargeAll(s, amounts)
<1>1. CASE onRest(s)
  <2> DEFINE amounts == [i \in DOMAIN items |-> Undefined]
  <2>1. amounts \in [DOMAIN items -> Nat \union {Undefined}]
    OBVIOUS
  <2> QED
    BY <1>1, <2>1 DEF onRest
<1>2. CASE onApply(s)
  <2> DEFINE Rest(rows, rolls) ==
        RechargeAll(s, [i \in DOMAIN items |-> IF i \in rows THEN rolls[i] ELSE Undefined])
  <2>a. PICK rows \in SUBSET eligible(s) : \E rolls \in [rows -> Amounts] : Rest(rows, rolls)
    BY <1>2 DEF onApply
  <2>1. PICK rolls \in [rows -> Amounts] : Rest(rows, rolls)
    BY <2>a
  <2> DEFINE amounts == [i \in DOMAIN items |-> IF i \in rows THEN rolls[i] ELSE Undefined]
  <2>2. Amounts \subseteq Nat
    BY DEF Amounts
  <2>3. amounts \in [DOMAIN items -> Nat \union {Undefined}]
    BY <2>2
  <2> QED
    BY <2>1, <2>3
<1> QED
  BY <1>1, <1>2

LEMMA Screened ==
  ASSUME \A i \in DOMAIN items : items[i].quantity \in Nat \ {0}, ScreensNext
  PROVE  \/ \E i \in DOMAIN items : OfRow(i) \/ OfCharacter(i) \/ OfPage(i)
         \/ \E s \in stashes, d \in Defs, q \in Quantities : Acquire(s, d, q, Undefined)
         \/ \E s \in Inventories :
              \E amounts \in [DOMAIN items -> Nat \union {Undefined}] : RechargeAll(s, amounts)
         \/ PurseStep
<1>1. ASSUME NEW s \in stashes, NEW user \in BOOLEAN, NEW listed \in SUBSET Lying(items, s),
             NEW i \in listed, NEW r \in Offered(i, listed, user), dispatch(r)
      PROVE  i \in DOMAIN items /\ (OfRow(i) \/ OfCharacter(i) \/ OfPage(i))
  <2>1. i \in DOMAIN items
    BY DEF Lying
  <2> QED
    BY <1>1, <2>1, RowControlled, CharacterControlled, PageControlled, Zenon DEF Offered
<1>2. CASE \E s \in stashes, user \in BOOLEAN :
             \E listed \in SUBSET Lying(items, s) : \E i \in listed :
               \E r \in Offered(i, listed, user) : dispatch(r)
  BY <1>1, <1>2
<1>3. CASE \E s \in stashes, d \in Defs, q \in Quantities : dispatch(acquire(s, d, q, Undefined))
  BY <1>3, Dispatched
<1>4. CASE \E s \in Inventories : onRest(s) \/ onApply(s)
  BY <1>4, Rested
<1> QED
  BY <1>2, <1>3, <1>4, Zenon DEF ScreensNext

LEMMA StoreIsAny == ASSUME Inv, [StoreNext]_vars PROVE [AnyNext]_vars
<1> USE InvFacts
<1>1. \A i \in DOMAIN items : /\ items[i].quantity \in Nat \ {0} /\ items[i].def \in Defs
                             /\ items[i].notes \in Notes /\ items[i].stash \in stashes
  BY LegalRow, RowFields
<1>2. ASSUME NEW i \in DOMAIN items, OfRow(i) PROVE AnyNext
  <2>1. ASSUME NEW given \in {items[i].notes, Undefined},
               Acquire(items[i].stash, items[i].def, 1, given)
        PROVE  AnyNext
    BY <1>1, <2>1 DEF AnyNext
  <2>2. ASSUME NEW q \in 1 .. items[i].quantity, Consume(i, q) \/ Split(i, q)
        PROVE  AnyNext
    BY <1>1, <2>2 DEF AnyNext, AnyItemStep
  <2>3. ASSUME NEW q \in 1 .. items[i].quantity, NEW to \in stashes,
               NEW parent \in DOMAIN items \union {NoParent, Undefined},
               Transfer(i, q, to, parent)
        PROVE  AnyNext
    BY <1>1, <2>3 DEF AnyNext, AnyItemStep
  <2>4. /\ items[i].quantity \in 1 .. items[i].quantity /\ items[i].stash \in stashes
        /\ packTargets(i) \subseteq DOMAIN items
        /\ 1 .. items[i].quantity - 1 \subseteq 1 .. items[i].quantity
    BY <1>1 DEF packTargets, Lying
  <2> QED
    BY <1>2, <2>1, <2>2, <2>3, <2>4 DEF OfRow
<1>3. \A i \in DOMAIN items : OfCharacter(i) \/ OfPage(i) => AnyNext
  BY NotesAssumption DEF OfCharacter, OfPage, AnyNext, AnyItemStep, AnyCharacterStep
<1>4. \A s \in stashes, d \in Defs, q \in Quantities : Acquire(s, d, q, Undefined) => AnyNext
  BY DEF Quantities, AnyNext
<1>5. CASE ScreensNext
  <2>1. AnyNext
    BY <1>1, <1>2, <1>3, <1>4, <1>5, Screened DEF AnyNext
  <2> QED
    BY <2>1
<1> QED
  BY <1>5, NextIsAny DEF StoreNext

(***************************************************************************)
(* The inductive invariant: the rows are well-formed, lie in stashes there *)
(* are and keep to the charges of their definitions, and the coins of each *)
(* stash are those of its entries.                                         *)
(***************************************************************************)
THEOREM Invariance == StoreSpec => []Inv
<1>1. Init => Inv
  BY InitInv
<1>2. Inv /\ [StoreNext]_vars => Inv'
  BY NextInv, StoreIsAny
<1> QED
  BY <1>1, <1>2, PTL DEF StoreSpec

(***************************************************************************)
(* The rows, stashes, coins and log are always of their types.             *)
(***************************************************************************)
THEOREM TypeCorrect == StoreSpec => []TypeOK
<1>1. Inv => TypeOK
  BY DEF Inv
<1> QED
  BY <1>1, Invariance, PTL

(***************************************************************************)
(* No transfer, split, acquire or deletion of a stash leaves a row in a    *)
(* stash that is gone.                                                     *)
(***************************************************************************)
THEOREM RowsAlwaysHaveAStash == StoreSpec => []RowsHaveAStash
<1>1. Inv => RowsHaveAStash
  BY LegalRow DEF Inv, RowsHaveAStash
<1> QED
  BY <1>1, Invariance, PTL

(***************************************************************************)
(* Whatever the order of uses, recharges, moves and splits, no row passes  *)
(* the charges of its definition.                                          *)
(***************************************************************************)
THEOREM ChargesStayWithinMax == StoreSpec => []ChargesWithinMax
<1>1. Inv => ChargesWithinMax
  BY LegalRow DEF Inv, ChargesWithinMax, Legal, ChargesLegal
<1> QED
  BY <1>1, Invariance, PTL

(***************************************************************************)
(* The currency entries of the log add up to the coins of every stash.     *)
(***************************************************************************)
THEOREM LogAccounts == StoreSpec => []LogAccountsForCoins
<1>1. Inv => LogAccountsForCoins
  BY DEF Inv, PurseInv, LogAccountsForCoins
<1> QED
  BY <1>1, Invariance, PTL

-----------------------------------------------------------------------------
(***************************************************************************)
(* What a step does to the place of a row: in the steps that are not the   *)
(* full move of a row or the deletion of a stash every row that survives   *)
(* stays in its stash.                                                     *)
(***************************************************************************)
Evolves(f, g, new) ==
  /\ DOMAIN g \subseteq DOMAIN f \union {new}
  /\ \A j \in (DOMAIN f \intersect DOMAIN g) \ {new} : g[j].stash = f[j].stash

LEMMA EvolvesTransitive ==
  ASSUME NEW f, NEW g, NEW h, NEW new, Evolves(f, g, new), Evolves(g, h, new)
  PROVE  Evolves(f, h, new)
BY DEF Evolves

LEMMA PutEvolves ==
  ASSUME NEW f, NEW i, NEW r, NEW new,
         i = new \/ (i \in DOMAIN f /\ r.stash = f[i].stash)
  PROVE  Evolves(f, Put(f, i, r), new)
BY DEF Evolves, Put

LEMMA DropEvolves ==
  ASSUME NEW f, NEW i, NEW new
  PROVE  Evolves(f, Drop(f, i), new)
BY DEF Evolves, Drop

LEMMA GrowEvolves ==
  ASSUME NEW S, NEW f, AllLegal(f, S), NEW i \in DOMAIN f, NEW q \in Nat, NEW new
  PROVE  Evolves(f, Grow(f, i, q), new)
<1>1. f[i] \in Row /\ f[i].quantity + q \in Nat \ {0}
  BY LegalRow
<1>2. WithQuantity(f[i], f[i].quantity + q).stash = f[i].stash
  BY <1>1, WithQuantityFields
<1> QED
  BY <1>2, PutEvolves DEF Grow

LEMMA TakeEvolves ==
  ASSUME NEW S, NEW f, AllLegal(f, S), NEW i \in DOMAIN f,
         NEW q \in 1 .. f[i].quantity, NEW new
  PROVE  Evolves(f, Take(f, i, q), new)
<1>1. f[i] \in Row /\ f[i].quantity \in Nat \ {0}
  BY LegalRow
<1>2. CASE q = f[i].quantity
  BY <1>2, DropEvolves DEF Take
<1>3. CASE q # f[i].quantity
  <2>1. f[i].quantity - q \in Nat \ {0}
    BY <1>1, <1>3
  <2>2. WithQuantity(f[i], f[i].quantity - q).stash = f[i].stash
    BY <1>1, <2>1, WithQuantityFields
  <2> QED
    BY <1>3, <2>2, PutEvolves DEF Take
<1> QED
  BY <1>2, <1>3

LEMMA AcquiredEvolves ==
  ASSUME NEW S, NEW f, AllLegal(f, S), NEW s, NEW d, NEW q \in Nat \ {0}, NEW given,
         NEW new, NEW g \in Acquired(f, s, d, q, given, new)
  PROVE  Evolves(f, g, new)
<1>1. \/ \E t \in DOMAIN f : g = Grow(f, t, q)
      \/ \E r : g = Put(f, new, r)
  <2>1. \A n : AcquireTargets(f, s, d, n) \subseteq DOMAIN f
    BY SameKeyIn DEF AcquireTargets
  <2> QED
    BY <2>1, Zenon DEF Acquired
<1> QED
  BY <1>1, GrowEvolves, PutEvolves

LEMMA SplitOffEvolves ==
  ASSUME NEW S, NEW f, AllLegal(f, S), NEW i \in DOMAIN f,
         NEW q \in 1 .. f[i].quantity - 1, NEW new
  PROVE  Evolves(f, SplitOff(f, i, q, new), new)
<1> DEFINE h == Take(f, i, q)
<1>1. q \in 1 .. f[i].quantity
  BY LegalRow
<1>2. Evolves(f, h, new)
  BY <1>1, TakeEvolves
<1>3. \A r : Evolves(h, Put(h, new, r), new)
  BY PutEvolves
<1>4. \E r : SplitOff(f, i, q, new) = Put(h, new, r)
  BY Zenon DEF SplitOff
<1> HIDE DEF h
<1> QED
  BY <1>2, <1>3, <1>4, EvolvesTransitive

LEMMA FlaggedUnitEvolves ==
  ASSUME NEW S, NEW f, AllLegal(f, S), NEW i \in DOMAIN f, NEW e, NEW a, NEW new
  PROVE  Evolves(f, FlaggedUnit(f, i, e, a, new), new)
<1> DEFINE h == Take(f, i, 1)
<1>1. 1 \in 1 .. f[i].quantity
  BY LegalRow
<1>2. Evolves(f, h, new)
  BY <1>1, TakeEvolves
<1>3. \A r : Evolves(h, Put(h, new, r), new)
  BY PutEvolves
<1>4. \E r : FlaggedUnit(f, i, e, a, new) = Put(h, new, r)
  BY Zenon DEF FlaggedUnit
<1> HIDE DEF h
<1> QED
  BY <1>2, <1>3, <1>4, EvolvesTransitive

LEMMA RestackedEvolves ==
  ASSUME NEW S, NEW f, AllLegal(f, S), NEW i \in DOMAIN f, NEW row \in Legal(S),
         row.stash = f[i].stash, NEW new, NEW g \in Restacked(f, i, row)
  PROVE  Evolves(f, g, new)
<1>1. row.quantity \in Nat
  BY RowFields DEF Legal
<1>2. ASSUME NEW t \in SameKey(f, row.stash, row.def, row.notes) \ {i},
             g = Grow(Drop(f, i), t, row.quantity)
      PROVE  Evolves(f, g, new)
  <2> DEFINE h == Drop(f, i)
  <2>1. AllLegal(h, S) /\ DOMAIN h = DOMAIN f \ {i}
    BY DropLegal
  <2>2. Evolves(f, h, new)
    BY DropEvolves
  <2>3. t \in DOMAIN h
    BY <2>1, SameKeyIn
  <2> HIDE DEF h
  <2>4. Evolves(h, Grow(h, t, row.quantity), new)
    BY <1>1, <2>1, <2>3, GrowEvolves
  <2> QED
    BY <1>2, <2>2, <2>4, EvolvesTransitive DEF h
<1>3. Evolves(f, Put(f, i, row), new)
  BY PutEvolves
<1>4. \/ \E t \in SameKey(f, row.stash, row.def, row.notes) \ {i} :
           g = Grow(Drop(f, i), t, row.quantity)
      \/ g = Put(f, i, row)
  BY Zenon DEF Restacked
<1> QED
  BY <1>2, <1>3, <1>4

LEMMA EquipmentEvolves ==
  ASSUME NEW S, NEW f, AllLegal(f, S), NEW i \in DOMAIN f, NEW new,
         NEW g \in Equipped(f, i, new) \union Attuned(f, i, new)
                     \union Unequipped(f, i) \union Unattuned(f, i)
  PROVE  Evolves(f, g, new)
<1>1. /\ Evolves(f, FlaggedUnit(f, i, TRUE, FALSE, new), new)
      /\ Evolves(f, FlaggedUnit(f, i, FALSE, TRUE, new), new)
  BY FlaggedUnitEvolves
<1>2. ASSUME NEW b \in BOOLEAN,
             \/ g \in Restacked(f, i, [f[i] EXCEPT !.equipped = b])
             \/ g \in Restacked(f, i, [f[i] EXCEPT !.attuned = b])
      PROVE  Evolves(f, g, new)
  <2>1. f[i] \in Legal(S) /\ f[i] \in Row
    BY LegalRow
  <2>2. \A row \in Legal(S) : row.stash = f[i].stash /\ g \in Restacked(f, i, row)
                                => Evolves(f, g, new)
    BY RestackedEvolves
  <2>3. /\ [f[i] EXCEPT !.equipped = b] \in Legal(S)
        /\ [f[i] EXCEPT !.attuned = b] \in Legal(S)
    BY <2>1, EquippedLegal
  <2>4. /\ [f[i] EXCEPT !.equipped = b].stash = f[i].stash
        /\ [f[i] EXCEPT !.attuned = b].stash = f[i].stash
    BY <2>1 DEF Row
  <2> QED
    BY <1>2, <2>2, <2>3, <2>4
<1>3. \/ g = FlaggedUnit(f, i, TRUE, FALSE, new)
      \/ g = FlaggedUnit(f, i, FALSE, TRUE, new)
      \/ \E b \in BOOLEAN :
           \/ g \in Restacked(f, i, [f[i] EXCEPT !.equipped = b])
           \/ g \in Restacked(f, i, [f[i] EXCEPT !.attuned = b])
  BY Zenon DEF Equipped, Attuned, Unequipped, Unattuned
<1> QED
  BY <1>1, <1>2, <1>3

LEMMA WithChargesStash ==
  ASSUME NEW r \in Row, NEW c
  PROVE  WithCharges(r, c).stash = r.stash
BY DEF Row, WithCharges

LEMMA ChargeUsedEvolves ==
  ASSUME NEW S, NEW f, AllLegal(f, S), NEW i \in DOMAIN f, NEW amount, NEW new
  PROVE  Evolves(f, ChargeUsed(f, i, amount), new)
<1> DEFINE row == f[i]
           w == WithQuantity(row, row.quantity - 1)
<1>1. row \in Row /\ row.quantity \in Nat \ {0}
  BY LegalRow
<1>2. CASE ~UsesUp(row, amount)
  <2>1. WithCharges(row, row.charges - amount).stash = f[i].stash
    BY <1>1, WithChargesStash
  <2> QED
    BY <1>2, <2>1, PutEvolves DEF ChargeUsed
<1>3. CASE UsesUp(row, amount) /\ row.quantity = 1
  BY <1>3, DropEvolves DEF ChargeUsed
<1>4. CASE UsesUp(row, amount) /\ row.quantity # 1
  <2>1. row.quantity - 1 \in Nat \ {0}
    BY <1>1, <1>4
  <2>2. w \in Row /\ w.stash = f[i].stash
    BY <1>1, <2>1, WithQuantityFields
  <2>3. WithCharges(w, MaxCharges[row.def]).stash = f[i].stash
    BY <2>2, WithChargesStash
  <2> QED
    BY <1>4, <2>3, PutEvolves DEF ChargeUsed
<1> QED
  BY <1>2, <1>3, <1>4

LEMMA TransferredEvolves ==
  ASSUME NEW S \in SUBSET Stashes, NEW f, AllLegal(f, S), NEW i \in DOMAIN f,
         NEW q \in 1 .. f[i].quantity, NEW to \in S,
         NEW parent \in Nat \union {Undefined}, NEW new,
         NEW g \in Transferred(f, i, q, to, parent, new)
  PROVE  Evolves(f, g, new) \/ g = MovedWhole(f, i, to, parent)
<1> DEFINE h == Take(f, i, q)
<1>1. Evolves(f, h, new)
  BY TakeEvolves
<1>2. ASSUME NEW t \in StackTargets(f, i, to),
             g = Put(Take(f, i, q), t, StackedRow(f, i, q, to, parent, t))
      PROVE  Evolves(f, g, new)
  <2> DEFINE r == StackedRow(f, i, q, to, parent, t)
  <2>1. t \in DOMAIN f \ {i} /\ f[t].stash = to /\ r.stash = to
    BY StackTargetsIn, StackedRowLegal
  <2>2. t \in DOMAIN h /\ h[t] = f[t]
    BY <2>1, TakeLegal
  <2> HIDE DEF h, r
  <2>3. Evolves(h, Put(h, t, r), new)
    BY <2>1, <2>2, PutEvolves
  <2> QED
    BY <1>1, <1>2, <2>3, EvolvesTransitive DEF h, r
<1>3. CASE g = MovedPart(f, i, q, to, parent, new)
  <2>1. \A r : Evolves(h, Put(h, new, r), new)
    BY PutEvolves
  <2>2. \E r : g = Put(h, new, r)
    BY <1>3, Zenon DEF MovedPart
  <2> HIDE DEF h
  <2> QED
    BY <1>1, <2>1, <2>2, EvolvesTransitive
<1> QED
  BY <1>2, <1>3, TransferredCases

(***************************************************************************)
(* The steps by what they do to the place of rows.                         *)
(***************************************************************************)
WholeMove(i, to, parent) ==
  /\ CanPack(items, i, to, parent)
  /\ items' = MovedWhole(items, i, to, parent)

Minting == \/ Mint /\ DOMAIN items' \subseteq DOMAIN items \union {nextId}
           \/ nextId' = nextId /\ DOMAIN items' \subseteq DOMAIN items

Placing ==
  \/ Evolves(items, items', nextId)
  \/ \E i \in DOMAIN items, to \in stashes, parent \in Nat \union {Undefined} :
       WholeMove(i, to, parent)
  \/ \E s \in Storages : DeleteStash(s)

LEMMA MovedWholeDomain ==
  ASSUME NEW f, NEW i, NEW to, NEW parent
  PROVE  DOMAIN MovedWhole(f, i, to, parent) = DOMAIN f
BY DEF MovedWhole

LEMMA ItemStepPlaces ==
  ASSUME Inv, NEW i \in DOMAIN items, AnyItemStep(i)
  PROVE  Minting /\ Placing
<1> USE InvFacts
<1>1. ASSUME NEW q \in Nat \ {0}, Consume(i, q)
      PROVE  Minting /\ Placing
  BY <1>1, TakeLegal, TakeEvolves DEF Consume, Minting, Placing
<1>2. ASSUME NEW q \in Nat \ {0}, Split(i, q)
      PROVE  Minting /\ Placing
  <2>1. Evolves(items, items', nextId)
    BY <1>2, SplitOffEvolves DEF Split
  <2> QED
    BY <1>2, <2>1 DEF Split, Minting, Placing, Evolves
<1>3. ASSUME NEW n \in Notes, EditNotes(i, n)
      PROVE  Minting /\ Placing
  <2> DEFINE r == [items[i] EXCEPT !.notes = n]
  <2>1. items[i] \in Row
    BY LegalRow
  <2>2. r.stash = items[i].stash
    BY <2>1 DEF Row
  <2> HIDE DEF r
  <2>3. items' = Put(items, i, r)
    BY <1>3, Zenon DEF EditNotes, r
  <2>4. Evolves(items, items', nextId)
    BY <2>2, <2>3, PutEvolves
  <2>5. DOMAIN items' = DOMAIN items
    BY <2>3 DEF Put
  <2> QED
    BY <1>3, <2>4, <2>5 DEF EditNotes, Minting, Placing
<1>4. ASSUME NEW q \in Nat \ {0}, NEW to \in stashes,
             NEW parent \in DOMAIN items \union {NoParent, Undefined},
             Transfer(i, q, to, parent)
      PROVE  Minting /\ Placing
  <2>1. parent \in Nat \union {Undefined}
    BY DEF NoParent
  <2>2. q \in 1 .. items[i].quantity /\ CanPack(items, i, to, parent) /\ Mint
    BY <1>4 DEF Transfer, CanTransfer
  <2>3. \/ Evolves(items, items', nextId)
        \/ items' = MovedWhole(items, i, to, parent)
    BY <1>4, <2>1, <2>2, TransferredEvolves DEF Transfer
  <2>4. CASE Evolves(items, items', nextId)
    BY <2>2, <2>4 DEF Minting, Placing, Evolves
  <2>5. CASE items' = MovedWhole(items, i, to, parent)
    <3>1. WholeMove(i, to, parent)
      BY <2>2, <2>5 DEF WholeMove
    <3>2. DOMAIN items' = DOMAIN items
      BY <2>5, MovedWholeDomain
    <3> QED
      BY <2>1, <2>2, <3>1, <3>2 DEF Minting, Placing
  <2> QED
    BY <2>3, <2>4, <2>5
<1> QED
  BY <1>1, <1>2, <1>3, <1>4 DEF AnyItemStep

LEMMA CharacterStepPlaces ==
  ASSUME Inv, NEW i \in DOMAIN items, AnyCharacterStep(i)
  PROVE  Minting /\ Placing
<1> USE InvFacts
<1>1. CASE Equip(i) \/ \E override \in BOOLEAN : Attune(i, override)
  <2>1. items' \in Equipped(items, i, nextId) \union Attuned(items, i, nextId)
    BY <1>1 DEF Equip, Attune
  <2>2. Evolves(items, items', nextId)
    BY <2>1, EquipmentEvolves
  <2>3. Mint
    BY <1>1 DEF Equip, Attune
  <2> QED
    BY <2>2, <2>3 DEF Minting, Placing, Evolves
<1>2. CASE Unequip(i) \/ Unattune(i)
  <2>1. items' \in Unequipped(items, i) \union Unattuned(items, i)
    BY <1>2 DEF Unequip, Unattune
  <2>2. Evolves(items, items', nextId) /\ DOMAIN items' \subseteq DOMAIN items
    BY <2>1, EquipmentEvolves, UnflaggedDomain
  <2>3. nextId' = nextId
    BY <1>2 DEF Unequip, Unattune
  <2> QED
    BY <2>2, <2>3 DEF Minting, Placing
<1>3. ASSUME NEW amount \in Nat, UseCharge(i, amount)
      PROVE  Minting /\ Placing
  <2>1. Evolves(items, items', nextId) /\ DOMAIN items' \subseteq DOMAIN items
    BY <1>3, ChargeUsedEvolves, ChargeUsedLegal DEF UseCharge
  <2> QED
    BY <1>3, <2>1 DEF UseCharge, Minting, Placing
<1>4. ASSUME NEW amount \in Nat \union {Undefined}, RechargeOne(i, amount)
      PROVE  Minting /\ Placing
  <2> DEFINE r == WithCharges(items[i], RechargedTo(items[i], amount))
  <2>1. r.stash = items[i].stash
    BY LegalRow, WithChargesStash
  <2>2. items' = Put(items, i, r)
    BY <1>4 DEF RechargeOne
  <2> HIDE DEF r
  <2>3. Evolves(items, items', nextId)
    BY <2>1, <2>2, PutEvolves
  <2>4. DOMAIN items' = DOMAIN items
    BY <2>2 DEF Put
  <2> QED
    BY <1>4, <2>3, <2>4 DEF RechargeOne, Minting, Placing
<1> QED
  BY <1>1, <1>2, <1>3, <1>4 DEF AnyCharacterStep

LEMMA StepPlaces == ASSUME Inv, [AnyNext]_vars PROVE Minting /\ Placing
<1> USE InvFacts
<1>1. CASE items' = items /\ nextId' = nextId
  BY <1>1 DEF Minting, Placing, Evolves
<1>2. ASSUME NEW s \in stashes, NEW d \in Defs, NEW q \in Nat \ {0},
             NEW given \in Notes \union {Undefined}, Acquire(s, d, q, given)
      PROVE  Minting /\ Placing
  <2>1. q \in Nat \ {0}
    OBVIOUS
  <2>2. Evolves(items, items', nextId)
    BY <1>2, <2>1, AcquiredEvolves DEF Acquire
  <2> QED
    BY <1>2, <2>2 DEF Acquire, Minting, Placing, Evolves
<1>3. ASSUME NEW s \in Inventories,
             NEW amounts \in [DOMAIN items -> Nat \union {Undefined}],
             RechargeAll(s, amounts)
      PROVE  Minting /\ Placing
  <2>1. \A i \in DOMAIN items :
          WithCharges(items[i], RechargedTo(items[i], amounts[i])).stash
            = items[i].stash
    BY LegalRow, WithChargesStash
  <2>2. DOMAIN items' = DOMAIN items
        /\ \A i \in DOMAIN items : items'[i].stash = items[i].stash
    BY <1>3, <2>1 DEF RechargeAll
  <2> QED
    BY <1>3, <2>2 DEF RechargeAll, Minting, Placing, Evolves
<1>4. ASSUME NEW s \in Storages, DeleteStash(s)
      PROVE  Minting /\ Placing
  BY <1>4 DEF DeleteStash, Minting, Placing
<1>5. CASE PurseStep
  <2>1. \/ \E s \in Storages : DeleteStash(s)
        \/ items' = items /\ nextId' = nextId
    BY <1>5 DEF PurseStep, CreateStash, CurrencyChange, CurrencyTransfer
  <2> QED
    BY <1>1, <1>4, <2>1
<1>6. CASE AnyNext /\ ~PurseStep
  BY <1>2, <1>3, <1>6, ItemStepPlaces, CharacterStepPlaces DEF AnyNext
<1>7. CASE UNCHANGED vars
  BY <1>1, <1>7 DEF vars
<1> QED
  BY <1>5, <1>6, <1>7

(* Ids are minted in order, so that the next one is new.                   *)
Fresh == \A i \in DOMAIN items : i < nextId

LEMMA FreshNext == ASSUME Inv, Fresh, [AnyNext]_vars PROVE Fresh'
<1>1. nextId \in Nat /\ DOMAIN items \subseteq Nat
  BY InvFacts, BoundsAssumption
<1>2. Minting
  BY StepPlaces
<1> QED
  BY <1>1, <1>2 DEF Fresh, Minting, Mint

(***************************************************************************)
(* The id that the next action brings along is the id of no row, so that a *)
(* new row never takes the place of another one.                           *)
(***************************************************************************)
THEOREM AlwaysFresh == StoreSpec => [](Inv /\ Fresh)
<1>1. Init => Inv /\ Fresh
  BY InitInv DEF Init, Fresh
<1>2. Inv /\ Fresh /\ [StoreNext]_vars => (Inv /\ Fresh)'
  BY StoreIsAny, NextInv, FreshNext
<1> QED
  BY <1>1, <1>2, PTL DEF StoreSpec

(***************************************************************************)
(* A row changes its stash only with a full move or with the deletion of   *)
(* the stash; in a full move it is the row that moves or one of its        *)
(* contents.                                                               *)
(***************************************************************************)
LEMMA WhatMoves ==
  ASSUME Inv, Fresh, [AnyNext]_vars, NEW i \in DOMAIN items \intersect DOMAIN items',
         items'[i].stash # items[i].stash
  PROVE  \/ \E m \in DOMAIN items, to \in stashes, parent \in Nat \union {Undefined} :
              WholeMove(m, to, parent)
         \/ \E s \in Storages : DeleteStash(s)
<1>1. i # nextId
  BY InvFacts DEF Fresh
<1> QED
  BY <1>1, StepPlaces DEF Placing, Evolves

LEMMA WholeMoveRows ==
  ASSUME Inv, NEW m \in DOMAIN items, NEW to \in stashes,
         NEW parent \in Nat \union {Undefined}, WholeMove(m, to, parent)
  PROVE  /\ DOMAIN items' = DOMAIN items
         /\ items'[m].stash = to
         /\ items'[m].parent = NewParent(items[m], to, parent, items[m])
         /\ FlagsCleared(items[m], to) => Mundane(items'[m])
         /\ Mundane(items[m]) => Mundane(items'[m])
         /\ \A k \in Contents(items, m) \ {m} :
              items'[k].stash = to /\ items'[k].parent = m
         /\ \A k \in DOMAIN items : k # m /\ k \notin Contents(items, m)
              => items'[k] = items[k]
<1> USE InvFacts
<1> DEFINE n == Into(items[m], to)
<1>1. \A k \in DOMAIN items :
        /\ items[k] \in Row /\ Into(items[k], to) \in Row
        /\ Into(items[k], to).stash = to
        /\ Into(items[k], to).parent = items[k].parent
  BY LegalRow, IntoLegal
<1>2. n.equipped = items[m].equipped /\ n.attuned = items[m].attuned
  BY <1>1 DEF Row, Into
<1>3. /\ DOMAIN items' = DOMAIN items
      /\ items'[m] = Arriving(items[m], to, parent, n)
      /\ \A k \in Contents(items, m) \ {m} : items'[k] = Into(items[k], to)
      /\ \A k \in DOMAIN items : k # m /\ k \notin Contents(items, m)
           => items'[k] = items[k]
  BY DEF WholeMove, MovedWhole, Contents
<1>4. n \in Row /\ n.stash = to /\ n.parent = items[m].parent
  BY <1>1
<1> HIDE DEF n
<1>5. /\ items'[m].stash = to
      /\ items'[m].parent = NewParent(items[m], to, parent, n)
      /\ items'[m].equipped = (n.equipped /\ ~FlagsCleared(items[m], to))
      /\ items'[m].attuned = (n.attuned /\ ~FlagsCleared(items[m], to))
  BY <1>1, <1>3, <1>4, ArrivingFields
<1>6. items'[m].parent = NewParent(items[m], to, parent, items[m])
  BY <1>4, <1>5 DEF NewParent
<1>7. \A k \in Contents(items, m) \ {m} :
        items'[k].stash = to /\ items'[k].parent = m
  BY <1>1, <1>3 DEF Contents
<1>8. /\ FlagsCleared(items[m], to) => Mundane(items'[m])
      /\ Mundane(items[m]) => Mundane(items'[m])
  BY <1>2, <1>5, Zenon DEF Mundane
<1> QED
  BY <1>3, <1>5, <1>6, <1>7, <1>8

LEMMA DeletionRows ==
  ASSUME Inv, NEW s \in Storages, DeleteStash(s)
  PROVE  /\ DOMAIN items' = DOMAIN items
         /\ \A i \in DOMAIN items :
              IF items[i].stash = s
              THEN items'[i].stash = RecoveredLoot /\ items'[i].parent = items[i].parent
              ELSE items'[i] = items[i]
         /\ RecoveredLoot # s
<1> USE InvFacts
<1>1. RecoveredLoot \in Stashes /\ RecoveredLoot # s
  BY StashAssumption DEF Stashes
<1>2. \A i \in DOMAIN items : /\ Into(items[i], RecoveredLoot).stash = RecoveredLoot
                              /\ Into(items[i], RecoveredLoot).parent = items[i].parent
  <2>1. Stashes \subseteq Stashes
    OBVIOUS
  <2>2. \A r \in Legal(stashes), to \in Stashes :
          /\ Into(r, to) \in Legal(Stashes)
          /\ Into(r, to).stash = to /\ Into(r, to).parent = r.parent
    BY <2>1, IntoLegal
  <2> QED
    BY <1>1, <2>2, LegalRow
<1> QED
  BY <1>1, <1>2 DEF DeleteStash

(***************************************************************************)
(* The contents of a container that survives a move are still about it,    *)
(* in every step of every behaviour.                                       *)
(***************************************************************************)
THEOREM ContentsAlwaysTravel == StoreSpec => ContentsTravel
<1> DEFINE Step ==
     \A i \in DOMAIN items \intersect DOMAIN items' :
       items[i].parent = NoParent /\ items'[i].stash # items[i].stash =>
         \A k \in Contents(items, i) \ {i} : k \in Contents(items', i)
<1>1. ASSUME Inv, Fresh, [AnyNext]_vars PROVE Step
  <2> SUFFICES ASSUME NEW i \in DOMAIN items \intersect DOMAIN items',
                      items[i].parent = NoParent, items'[i].stash # items[i].stash,
                      NEW k \in Contents(items, i) \ {i}
               PROVE  k \in Contents(items', i)
    OBVIOUS
  <2>1. ASSUME NEW m \in DOMAIN items, NEW to \in stashes,
               NEW parent \in Nat \union {Undefined}, WholeMove(m, to, parent)
        PROVE  k \in Contents(items', i)
    <3>1. m # NoParent
      BY <1>1, InvFacts DEF RowIds, NoParent
    <3>2. i = m
      BY <1>1, <2>1, <3>1, WholeMoveRows DEF Contents
    <3> QED
      BY <1>1, <2>1, <3>2, WholeMoveRows DEF Contents
  <2>2. ASSUME NEW s \in Storages, DeleteStash(s)
        PROVE  k \in Contents(items', i)
    BY <1>1, <2>2, DeletionRows DEF Contents
  <2> QED
    BY <1>1, <2>1, <2>2, WhatMoves
<1> HIDE DEF Step
<1>2. StoreSpec => [][Step]_vars
  <2>1. ASSUME Inv, Fresh, [StoreNext]_vars
        PROVE  [Step]_vars
    BY <1>1, <2>1, StoreIsAny
  <2> QED
    BY <2>1, AlwaysFresh, PTL DEF StoreSpec
<1> QED
  BY <1>2 DEF ContentsTravel, Step

(***************************************************************************)
(* A row that leaves a stash never keeps a reference to a row that stays.  *)
(***************************************************************************)
THEOREM ParentsAreNeverLeftBehind == StoreSpec => NoParentLeftBehind
<1> DEFINE Step ==
     \A i \in DOMAIN items \intersect DOMAIN items' :
       items'[i].stash # items[i].stash =>
         \A p \in Lying(items, items[i].stash) :
           i # p /\ p \in Lying(items', items[i].stash)
             => items'[i].parent # p
<1>1. ASSUME Inv, Fresh, [AnyNext]_vars PROVE Step
  <2> SUFFICES ASSUME NEW i \in DOMAIN items \intersect DOMAIN items',
                      items'[i].stash # items[i].stash,
                      NEW p \in Lying(items, items[i].stash), i # p,
                      p \in Lying(items', items[i].stash)
               PROVE  items'[i].parent # p
    OBVIOUS
  <2>1. p \in DOMAIN items /\ p # NoParent /\ p # Undefined
        /\ items[p].stash = items[i].stash /\ items'[p].stash = items[i].stash
    BY <1>1, InvFacts DEF Lying, RowIds, NoParent, Undefined
  <2>2. ASSUME NEW m \in DOMAIN items, NEW to \in stashes,
               NEW parent \in Nat \union {Undefined}, WholeMove(m, to, parent)
        PROVE  items'[i].parent # p
    <3>1. CASE i = m
      <4>1. items'[i].parent = NewParent(items[i], to, parent, items[i])
            /\ to # items[i].stash
        BY <1>1, <2>2, <3>1, WholeMoveRows
      <4>2. parent = p => FALSE
        BY <2>1, <2>2, <4>1 DEF WholeMove, CanPack
      <4> QED
        BY <2>1, <4>1, <4>2 DEF NewParent
    <3>2. CASE i # m
      <4>1. i \in Contents(items, m) /\ items'[i].parent = m
            /\ items'[m].stash = to /\ items'[i].stash = to
        BY <1>1, <2>2, <3>2, WholeMoveRows
      <4> QED
        BY <2>1, <4>1
    <3> QED
      BY <3>1, <3>2
  <2>3. ASSUME NEW s \in Storages, DeleteStash(s)
        PROVE  items'[i].parent # p
    <3>1. items[i].stash = s
      BY <1>1, <2>3, DeletionRows
    <3>2. items'[p].stash = RecoveredLoot /\ RecoveredLoot # s
      BY <1>1, <2>1, <2>3, <3>1, DeletionRows
    <3> QED
      BY <2>1, <3>1, <3>2
  <2> QED
    BY <1>1, <2>2, <2>3, WhatMoves
<1> HIDE DEF Step
<1>2. StoreSpec => [][Step]_vars
  <2>1. ASSUME Inv, Fresh, [StoreNext]_vars
        PROVE  [Step]_vars
    BY <1>1, <2>1, StoreIsAny
  <2> QED
    BY <2>1, AlwaysFresh, PTL DEF StoreSpec
<1> QED
  BY <1>2 DEF NoParentLeftBehind, Step

(***************************************************************************)
(* Out of an inventory a row takes its flags along only with the container *)
(* it lies in.                                                             *)
(***************************************************************************)
THEOREM FlagsAlwaysStayBehind == StoreSpec => FlagsStayBehind
<1> DEFINE Step ==
     \A i \in DOMAIN items \intersect DOMAIN items' :
       items'[i].stash # items[i].stash
         /\ items[i].stash \in Inventories /\ ~Mundane(items'[i])
       => \E p \in Lying(items, items[i].stash) \ {i} :
            /\ items[i].parent = p
            /\ items'[p].stash = items'[i].stash
<1>1. ASSUME Inv, Fresh, [AnyNext]_vars PROVE Step
  <2> SUFFICES ASSUME NEW i \in DOMAIN items \intersect DOMAIN items',
                      items'[i].stash # items[i].stash,
                      items[i].stash \in Inventories, ~Mundane(items'[i])
               PROVE  \E p \in Lying(items, items[i].stash) \ {i} :
                        items[i].parent = p /\ items'[p].stash = items'[i].stash
    OBVIOUS
  <2>1. ASSUME NEW m \in DOMAIN items, NEW to \in stashes,
               NEW parent \in Nat \union {Undefined}, WholeMove(m, to, parent)
        PROVE  \E p \in Lying(items, items[i].stash) \ {i} :
                 items[i].parent = p /\ items'[p].stash = items'[i].stash
    <3>1. i # m
      <4>1. SUFFICES ASSUME i = m PROVE FALSE
        OBVIOUS
      <4>2. /\ items'[i].stash = to
            /\ FlagsCleared(items[i], to) => Mundane(items'[i])
            /\ Mundane(items[i]) => Mundane(items'[i])
        BY <1>1, <2>1, <4>1, WholeMoveRows
      <4> QED
        BY <4>2 DEF FlagsCleared
    <3>2. i \in Contents(items, m) \ {m}
      BY <1>1, <2>1, <3>1, WholeMoveRows
    <3>3. items'[i].stash = items'[m].stash
      BY <1>1, <2>1, <3>2, WholeMoveRows
    <3> QED
      BY <3>1, <3>2, <3>3 DEF Contents, Lying
  <2>2. ASSUME NEW s \in Storages, DeleteStash(s)
        PROVE  FALSE
    BY <1>1, <2>2, DeletionRows, StashAssumption
  <2> QED
    BY <1>1, <2>1, <2>2, WhatMoves
<1> HIDE DEF Step
<1>2. StoreSpec => [][Step]_vars
  <2>1. ASSUME Inv, Fresh, [StoreNext]_vars
        PROVE  [Step]_vars
    BY <1>1, <2>1, StoreIsAny
  <2> QED
    BY <2>1, AlwaysFresh, PTL DEF StoreSpec
<1> QED
  BY <1>2 DEF FlagsStayBehind, Step

-----------------------------------------------------------------------------
(***************************************************************************)
(* Units and the log.  Count(f, d) is the units of d in the rows f: what a *)
(* rule does to it is what its log entries say.                            *)
(***************************************************************************)
Lot(e, d, q) == IF e = d THEN q ELSE 0

Share(r, d) == Lot(r.def, d, r.quantity)

Shares(f, d) == [i \in DOMAIN f |-> Share(f[i], d)]

Count(f, d) == Total(Shares(f, d), DOMAIN f)

FiniteRows(f) == IsFiniteSet(DOMAIN f) /\ \A i \in DOMAIN f : f[i] \in Row

LEMMA LegalFiniteRows ==
  ASSUME NEW S, NEW f, AllLegal(f, S), IsFiniteSet(DOMAIN f)
  PROVE  FiniteRows(f)
BY LegalRow DEF FiniteRows

LEMMA SharesInt ==
  ASSUME NEW f, FiniteRows(f), NEW d
  PROVE  /\ IsFiniteSet(DOMAIN f) /\ DOMAIN Shares(f, d) = DOMAIN f
         /\ \A i \in DOMAIN f : /\ Shares(f, d)[i] = Share(f[i], d)
                                /\ Shares(f, d)[i] \in Int
<1>1. \A i \in DOMAIN f : f[i].quantity \in Nat
  BY RowFields DEF FiniteRows
<1> QED
  BY <1>1 DEF FiniteRows, Shares, Share, Lot

LEMMA CountInt ==
  ASSUME NEW f, FiniteRows(f), NEW d
  PROVE  Count(f, d) \in Int
BY SharesInt, TotalInt DEF Count

(* Rows of the same definitions and quantities have the same units.        *)
LEMMA CountSame ==
  ASSUME NEW f, FiniteRows(f), NEW g, DOMAIN g = DOMAIN f,
         \A i \in DOMAIN f : g[i].def = f[i].def /\ g[i].quantity = f[i].quantity,
         NEW d
  PROVE  Count(g, d) = Count(f, d)
<1>1. \A i \in DOMAIN f : Shares(f, d)[i] = Shares(g, d)[i]
  BY DEF Shares, Share
<1> QED
  BY <1>1, SharesInt, TotalAgrees DEF Count

LEMMA CountReplace ==
  ASSUME NEW f, FiniteRows(f), NEW i \in DOMAIN f, NEW r \in Row, NEW d
  PROVE  /\ FiniteRows(Put(f, i, r))
         /\ Count(Put(f, i, r), d) = Count(f, d) - Share(f[i], d) + Share(r, d)
<1> DEFINE g == Put(f, i, r)
<1>1. /\ DOMAIN g = DOMAIN f /\ g[i] = r
      /\ \A j \in DOMAIN f \ {i} : g[j] = f[j]
  BY DEF Put
<1> HIDE DEF g
<1>2. FiniteRows(g)
  BY <1>1 DEF FiniteRows
<1>3. \A j \in DOMAIN f : Shares(f, d)[j] \in Int /\ Shares(g, d)[j] \in Int
  BY <1>1, <1>2, SharesInt
<1>4. /\ Shares(f, d)[i] = Share(f[i], d) /\ Shares(g, d)[i] = Share(r, d)
      /\ \A j \in DOMAIN f \ {i} : Shares(g, d)[j] = Shares(f, d)[j]
  BY <1>1 DEF Shares
<1>5. Total(Shares(g, d), DOMAIN f)
        = Total(Shares(f, d), DOMAIN f) - Shares(f, d)[i] + Shares(g, d)[i]
  <2> DEFINE S == DOMAIN f
             u == Shares(f, d)
             v == Shares(g, d)
  <2>1. IsFiniteSet(S) /\ i \in S
    BY DEF FiniteRows
  <2>2. (\A j \in S : u[j] \in Int) /\ v[i] \in Int
    BY <1>3
  <2>3. \A j \in S \ {i} : v[j] = u[j]
    BY <1>4
  <2> HIDE DEF S, u, v
  <2>4. Total(v, S) = Total(u, S) - u[i] + v[i]
    BY <2>1, <2>2, <2>3, TotalReplace
  <2> QED
    BY <2>4 DEF S, u, v
<1> QED
  BY <1>1, <1>2, <1>4, <1>5 DEF Count, g

LEMMA CountInsert ==
  ASSUME NEW f, FiniteRows(f), NEW i, i \notin DOMAIN f, NEW r \in Row, NEW d
  PROVE  /\ FiniteRows(Put(f, i, r))
         /\ Count(Put(f, i, r), d) = Count(f, d) + Share(r, d)
<1> DEFINE g == Put(f, i, r)
<1>1. /\ DOMAIN g = DOMAIN f \union {i} /\ g[i] = r
      /\ \A j \in DOMAIN f : g[j] = f[j]
  BY DEF Put
<1> HIDE DEF g
<1>2. FiniteRows(g)
  BY <1>1, FS_AddElement DEF FiniteRows
<1>3. /\ \A j \in DOMAIN f : Shares(g, d)[j] \in Int
      /\ Shares(g, d)[i] = Share(r, d) /\ Shares(g, d)[i] \in Int
  BY <1>1, <1>2, SharesInt
<1>4. \A j \in DOMAIN f : Shares(g, d)[j] = Shares(f, d)[j]
  BY <1>1 DEF Shares
<1>5. Total(Shares(g, d), DOMAIN f \union {i})
        = Shares(g, d)[i] + Total(Shares(g, d), DOMAIN f)
  BY <1>3, TotalInsert DEF FiniteRows
<1>6. Total(Shares(g, d), DOMAIN f) = Total(Shares(f, d), DOMAIN f)
  BY <1>4, TotalAgrees DEF FiniteRows
<1>7. Total(Shares(f, d), DOMAIN f) \in Int
  BY CountInt DEF Count
<1> QED
  BY <1>1, <1>2, <1>3, <1>5, <1>6, <1>7 DEF Count, g

LEMMA CountDrop ==
  ASSUME NEW f, FiniteRows(f), NEW i \in DOMAIN f, NEW d
  PROVE  /\ FiniteRows(Drop(f, i))
         /\ Count(Drop(f, i), d) = Count(f, d) - Share(f[i], d)
<1> DEFINE g == Drop(f, i)
<1>1. DOMAIN g = DOMAIN f \ {i} /\ \A j \in DOMAIN g : g[j] = f[j]
  BY DEF Drop
<1> HIDE DEF g
<1>2. FiniteRows(g)
  BY <1>1, FS_Subset DEF FiniteRows
<1>3. Count(f, d) = Share(f[i], d) + Total(Shares(f, d), DOMAIN g)
  BY <1>1, SharesInt, TotalRemove DEF Count
<1>4. \A j \in DOMAIN g : Shares(f, d)[j] = Shares(g, d)[j]
  BY <1>1 DEF Shares
<1>5. Total(Shares(f, d), DOMAIN g) = Count(g, d)
  BY <1>2, <1>4, TotalAgrees DEF FiniteRows, Count
<1>6. Count(g, d) \in Int /\ Share(f[i], d) \in Int
  BY <1>2, CountInt, SharesInt
<1> QED
  BY <1>2, <1>3, <1>5, <1>6 DEF g

LEMMA QuantityFields ==
  ASSUME NEW r \in Row, NEW q \in Nat \ {0}
  PROVE  WithQuantity(r, q).quantity = q
BY DEF Row, WithQuantity

LEMMA CountGrow ==
  ASSUME NEW f, FiniteRows(f), NEW i \in DOMAIN f, NEW q \in Nat, NEW d
  PROVE  /\ FiniteRows(Grow(f, i, q))
         /\ Count(Grow(f, i, q), d) = Count(f, d) + Lot(f[i].def, d, q)
<1> DEFINE n == f[i].quantity + q
           r == WithQuantity(f[i], n)
<1>1. f[i] \in Row /\ f[i].quantity \in Nat \ {0} /\ n \in Nat \ {0}
  BY RowFields DEF FiniteRows
<1>2. r \in Row /\ r.def = f[i].def /\ r.quantity = n
  BY <1>1, WithQuantityFields, QuantityFields
<1> HIDE DEF r
<1>3. /\ FiniteRows(Put(f, i, r))
      /\ Count(Put(f, i, r), d) = Count(f, d) - Share(f[i], d) + Share(r, d)
  BY <1>2, CountReplace
<1>4. Count(f, d) \in Int
  BY CountInt
<1>5. Grow(f, i, q) = Put(f, i, r)
  BY DEF Grow, r
<1> QED
  BY <1>1, <1>2, <1>3, <1>4, <1>5 DEF Share, Lot

LEMMA CountTake ==
  ASSUME NEW f, FiniteRows(f), NEW i \in DOMAIN f, NEW q \in 1 .. f[i].quantity,
         NEW d
  PROVE  /\ FiniteRows(Take(f, i, q))
         /\ Count(Take(f, i, q), d) = Count(f, d) - Lot(f[i].def, d, q)
         /\ DOMAIN f \ {i} \subseteq DOMAIN Take(f, i, q)
         /\ DOMAIN Take(f, i, q) \subseteq DOMAIN f
         /\ \A j \in DOMAIN f \ {i} : Take(f, i, q)[j] = f[j]
<1>1. f[i] \in Row /\ f[i].quantity \in Nat \ {0}
  BY RowFields DEF FiniteRows
<1>2. CASE q = f[i].quantity
  <2>1. Take(f, i, q) = Drop(f, i)
    BY <1>2 DEF Take
  <2>2. /\ DOMAIN Drop(f, i) = DOMAIN f \ {i}
        /\ \A j \in DOMAIN f \ {i} : Drop(f, i)[j] = f[j]
    BY DEF Drop
  <2> QED
    BY <1>2, <2>1, <2>2, CountDrop DEF Share
<1>3. CASE q # f[i].quantity
  <2> DEFINE n == f[i].quantity - q
             r == WithQuantity(f[i], n)
  <2>1. n \in Nat \ {0}
    BY <1>1, <1>3
  <2>2. r \in Row /\ r.def = f[i].def /\ r.quantity = n
    BY <1>1, <2>1, WithQuantityFields, QuantityFields
  <2> HIDE DEF r
  <2>3. /\ FiniteRows(Put(f, i, r))
        /\ Count(Put(f, i, r), d) = Count(f, d) - Share(f[i], d) + Share(r, d)
    BY <2>2, CountReplace
  <2>4. Count(f, d) \in Int
    BY CountInt
  <2>5. Take(f, i, q) = Put(f, i, r)
    BY <1>3 DEF Take, r
  <2>6. Count(Take(f, i, q), d) = Count(f, d) - Lot(f[i].def, d, q)
    BY <1>1, <2>1, <2>2, <2>3, <2>4, <2>5 DEF Share, Lot
  <2>7. /\ DOMAIN Put(f, i, r) = DOMAIN f
        /\ \A j \in DOMAIN f \ {i} : Put(f, i, r)[j] = f[j]
    BY DEF Put
  <2> QED
    BY <2>3, <2>5, <2>6, <2>7
<1> QED
  BY <1>2, <1>3

(* A row takes over units of another one, or all of it.                    *)
LEMMA CountMerged ==
  ASSUME NEW f, FiniteRows(f), NEW i \in DOMAIN f, NEW t \in DOMAIN f \ {i},
         f[t].def = f[i].def, NEW q, q = f[i].quantity, NEW d
  PROVE  /\ FiniteRows(Grow(Drop(f, i), t, q))
         /\ Count(Grow(Drop(f, i), t, q), d) = Count(f, d)
<1> DEFINE g == Drop(f, i)
<1>1. t \in DOMAIN g /\ g[t] = f[t]
  BY DEF Drop
<1>2. FiniteRows(g) /\ Count(g, d) = Count(f, d) - Share(f[i], d)
  BY CountDrop
<1>3. f[i].quantity \in Nat
  BY RowFields DEF FiniteRows
<1> HIDE DEF g
<1>4. /\ FiniteRows(Grow(g, t, q))
      /\ Count(Grow(g, t, q), d) = Count(g, d) + Lot(g[t].def, d, q)
  BY <1>1, <1>2, <1>3, CountGrow
<1>5. Count(f, d) \in Int /\ Lot(f[i].def, d, q) \in Int
  BY <1>3, CountInt DEF Lot
<1>6. Count(Grow(g, t, q), d) = Count(f, d)
  BY <1>1, <1>2, <1>4, <1>5 DEF Share
<1> QED
  BY <1>4, <1>6 DEF g

LEMMA CountStacked ==
  ASSUME NEW f, FiniteRows(f), NEW i \in DOMAIN f, NEW t \in DOMAIN f \ {i},
         f[t].def = f[i].def, NEW q \in 1 .. f[i].quantity, NEW r \in Row,
         r.def = f[i].def, r.quantity = f[t].quantity + q, NEW d
  PROVE  /\ FiniteRows(Put(Take(f, i, q), t, r))
         /\ Count(Put(Take(f, i, q), t, r), d) = Count(f, d)
<1> DEFINE g == Take(f, i, q)
<1>1. /\ FiniteRows(g) /\ t \in DOMAIN g /\ g[t] = f[t]
      /\ Count(g, d) = Count(f, d) - Lot(f[i].def, d, q)
  BY CountTake
<1> HIDE DEF g
<1>2. /\ FiniteRows(Put(g, t, r))
      /\ Count(Put(g, t, r), d) = Count(g, d) - Share(g[t], d) + Share(r, d)
  BY <1>1, CountReplace
<1>3. f[t].quantity \in Nat /\ f[i].quantity \in Nat /\ q \in Nat
  BY RowFields DEF FiniteRows
<1>4. Count(f, d) \in Int
  BY CountInt
<1>5. Count(Put(g, t, r), d) = Count(f, d)
  BY <1>1, <1>2, <1>3, <1>4 DEF Share, Lot
<1> QED
  BY <1>2, <1>5 DEF g

(* Units of a row become a row of their own.                               *)
LEMMA CountSplit ==
  ASSUME NEW f, FiniteRows(f), NEW i \in DOMAIN f, NEW q \in 1 .. f[i].quantity,
         NEW new, new \notin DOMAIN f, NEW r \in Row,
         r.def = f[i].def, r.quantity = q, NEW d
  PROVE  /\ FiniteRows(Put(Take(f, i, q), new, r))
         /\ Count(Put(Take(f, i, q), new, r), d) = Count(f, d)
<1> DEFINE g == Take(f, i, q)
<1>1. /\ FiniteRows(g) /\ new \notin DOMAIN g
      /\ Count(g, d) = Count(f, d) - Lot(f[i].def, d, q)
  BY CountTake
<1> HIDE DEF g
<1>2. /\ FiniteRows(Put(g, new, r))
      /\ Count(Put(g, new, r), d) = Count(g, d) + Share(r, d)
  BY <1>1, CountInsert
<1>3. f[i].quantity \in Nat /\ q \in Nat
  BY RowFields DEF FiniteRows
<1>4. Count(f, d) \in Int
  BY CountInt
<1>5. Count(Put(g, new, r), d) = Count(f, d)
  BY <1>1, <1>2, <1>3, <1>4 DEF Share, Lot
<1> QED
  BY <1>2, <1>5 DEF g

-----------------------------------------------------------------------------
(***************************************************************************)
(* The rules: only an acquire, a consume and a used-up charge change the   *)
(* units there are.                                                        *)
(***************************************************************************)
LEMMA AcquiredCount ==
  ASSUME NEW S \in SUBSET Stashes, NEW f, AllLegal(f, S), IsFiniteSet(DOMAIN f),
         NEW s \in S, NEW e \in Defs, NEW q \in Nat \ {0},
         NEW given \in Notes \union {Undefined}, NEW new, new \notin DOMAIN f,
         NEW g \in Acquired(f, s, e, q, given, new), NEW d
  PROVE  Count(g, d) = Count(f, d) + Lot(e, d, q)
<1> DEFINE n == AcquireNotes(f, s, e, given)
           targets == AcquireTargets(f, s, e, n)
           c == InitialCharges(s, e)
           row == [def |-> e, stash |-> s, parent |-> NoParent, quantity |-> q,
                   equipped |-> FALSE, attuned |-> FALSE, charges |-> c,
                   notes |-> n]
<1>1. n \in Notes
  BY AcquireNotesType
<1>2. c \in Nat \union {NoCharges}
  BY MaxChargesType DEF InitialCharges, NoCharges
<1> HIDE DEF n, c
<1>3. row \in Row /\ row.def = e /\ row.quantity = q
  BY <1>1, <1>2 DEF Row, NoParent
<1>4. FiniteRows(f)
  BY LegalFiniteRows
<1>5. CASE targets # {}
  <2>1. PICK t \in targets : g = Grow(f, t, q)
    BY <1>5 DEF Acquired, n
  <2>2. t \in DOMAIN f /\ f[t].def = e
    BY <2>1, SameKeyIn DEF AcquireTargets
  <2> QED
    BY <1>4, <2>1, <2>2, CountGrow
<1>6. CASE targets = {}
  <2>1. g = Put(f, new, row)
    BY <1>6 DEF Acquired, n, c
  <2>2. Share(row, d) = Lot(e, d, q)
    BY <1>3 DEF Share
  <2> HIDE DEF row
  <2> QED
    BY <1>3, <1>4, <2>1, <2>2, CountInsert
<1> QED
  BY <1>5, <1>6

(* Splitting off and flagging a unit make a row of units of another one.   *)
LEMMA SplitOffCount ==
  ASSUME NEW f, FiniteRows(f), NEW i \in DOMAIN f,
         NEW q \in 1 .. f[i].quantity, NEW new, new \notin DOMAIN f, NEW d
  PROVE  /\ Count(SplitOff(f, i, q, new), d) = Count(f, d)
         /\ \A e, a \in BOOLEAN :
              Count(FlaggedUnit(f, i, e, a, new), d) = Count(f, d)
<1>1. f[i] \in Row /\ f[i].quantity \in Nat \ {0}
  BY RowFields DEF FiniteRows
<1>2. q \in Nat \ {0} /\ 1 \in 1 .. f[i].quantity /\ 1 \in Nat \ {0}
  BY <1>1
<1>3. ASSUME NEW p \in 1 .. f[i].quantity, p \in Nat \ {0},
             NEW e \in BOOLEAN, NEW a \in BOOLEAN
      PROVE  Count(Put(Take(f, i, p), new,
                   [f[i] EXCEPT !.quantity = p, !.equipped = e, !.attuned = a]), d)
               = Count(f, d)
  <2>1. ASSUME NEW r,
               r = [f[i] EXCEPT !.quantity = p, !.equipped = e, !.attuned = a]
        PROVE  Count(Put(Take(f, i, p), new, r), d) = Count(f, d)
    <3>1. r \in Row /\ r.def = f[i].def /\ r.quantity = p
      BY <1>1, <1>3, <2>1 DEF Row
    <3> QED
      BY <3>1, CountSplit
  <2> QED
    BY <2>1
<1> QED
  BY <1>2, <1>3, Zenon DEF SplitOff, FlaggedUnit

LEMMA IntoQuantity ==
  ASSUME NEW r \in Row, NEW s
  PROVE  Into(r, s).def = r.def /\ Into(r, s).quantity = r.quantity
BY DEF Row, Into

LEMMA ArrivingQuantity ==
  ASSUME NEW source, NEW row \in Row, NEW to, NEW parent
  PROVE  Arriving(source, to, parent, row).quantity = row.quantity
BY DEF Row, Arriving

LEMMA TransferredCount ==
  ASSUME NEW S \in SUBSET Stashes, NEW f, AllLegal(f, S), IsFiniteSet(DOMAIN f),
         NEW i \in DOMAIN f, NEW q \in 1 .. f[i].quantity, NEW to \in S,
         NEW parent \in Nat \union {Undefined}, NEW new, new \notin DOMAIN f,
         NEW g \in Transferred(f, i, q, to, parent, new), NEW d
  PROVE  Count(g, d) = Count(f, d)
<1>0. FiniteRows(f)
  BY LegalFiniteRows
<1>1. f[i] \in Row /\ f[i].quantity \in Nat \ {0} /\ q \in Nat \ {0}
  BY LegalRow
<1>2. /\ Into(f[i], to) \in Row /\ Into(f[i], to).def = f[i].def
      /\ Into(f[i], to).quantity = f[i].quantity
  BY <1>1, LegalRow, IntoLegal, IntoQuantity
<1>3. ASSUME NEW t \in StackTargets(f, i, to),
             g = Put(Take(f, i, q), t, StackedRow(f, i, q, to, parent, t))
      PROVE  Count(g, d) = Count(f, d)
  <2> DEFINE w == WithQuantity(f[t], f[t].quantity + q)
             r == Arriving(f[i], to, parent, w)
  <2>1. t \in DOMAIN f \ {i} /\ f[t].def = f[i].def
    BY StackTargetsIn
  <2>2. f[t] \in Row /\ f[t].quantity + q \in Nat \ {0}
    BY <1>1, <2>1, LegalRow
  <2>3. w \in Row /\ w.def = f[t].def /\ w.quantity = f[t].quantity + q
    BY <2>2, WithQuantityFields, QuantityFields
  <2> HIDE DEF w
  <2>4. r \in Row /\ r.def = f[i].def /\ r.quantity = f[t].quantity + q
    BY <1>1, <2>1, <2>3, ArrivingFields, ArrivingQuantity
  <2>5. g = Put(Take(f, i, q), t, r)
    BY <1>3 DEF StackedRow, w
  <2> HIDE DEF r
  <2> QED
    BY <1>0, <2>1, <2>4, <2>5, CountStacked
<1>4. Count(MovedWhole(f, i, to, parent), d) = Count(f, d)
  <2> DEFINE h == MovedWhole(f, i, to, parent)
             n == Into(f[i], to)
             r == Arriving(f[i], to, parent, n)
  <2>1. r.def = f[i].def /\ r.quantity = f[i].quantity
    <3>1. n \in Row /\ n.def = f[i].def /\ n.quantity = f[i].quantity
      BY <1>2
    <3> HIDE DEF n
    <3> QED
      BY <1>1, <3>1, ArrivingFields, ArrivingQuantity
  <2>2. \A k \in DOMAIN f : /\ Into(f[k], to).def = f[k].def
                            /\ Into(f[k], to).quantity = f[k].quantity
    BY LegalRow, IntoLegal, IntoQuantity
  <2> HIDE DEF n, r
  <2>3. h = [k \in DOMAIN f |-> IF k = i THEN r
                                ELSE IF k \in Contents(f, i) THEN Into(f[k], to)
                                ELSE f[k]]
    BY DEF MovedWhole, n, r
  <2>4. DOMAIN h = DOMAIN f
        /\ \A k \in DOMAIN f : h[k].def = f[k].def /\ h[k].quantity = f[k].quantity
    BY <2>1, <2>2, <2>3
  <2> HIDE DEF h
  <2>5. Count(h, d) = Count(f, d)
    BY <1>0, <2>4, CountSame
  <2> QED
    BY <2>5 DEF h
<1>5. Count(MovedPart(f, i, q, to, parent, new), d) = Count(f, d)
  <2> DEFINE n == WithQuantity(Into(f[i], to), q)
             r == Arriving(f[i], to, parent, n)
  <2>1. n \in Row /\ n.def = f[i].def /\ n.quantity = q
    BY <1>1, <1>2, WithQuantityFields, QuantityFields
  <2> HIDE DEF n
  <2>2. r \in Row /\ r.def = f[i].def /\ r.quantity = q
    BY <1>1, <2>1, ArrivingFields, ArrivingQuantity
  <2> HIDE DEF r
  <2>3. Count(Put(Take(f, i, q), new, r), d) = Count(f, d)
    BY <1>0, <2>2, CountSplit
  <2> QED
    BY <2>3 DEF MovedPart, n, r
<1> QED
  BY <1>3, <1>4, <1>5, TransferredCases

LEMMA RestackedCount ==
  ASSUME NEW f, FiniteRows(f), NEW i \in DOMAIN f, NEW row \in Row,
         row.def = f[i].def, row.quantity = f[i].quantity,
         NEW g \in Restacked(f, i, row), NEW d
  PROVE  Count(g, d) = Count(f, d)
<1>1. ASSUME NEW t \in SameKey(f, row.stash, row.def, row.notes) \ {i},
             g = Grow(Drop(f, i), t, row.quantity)
      PROVE  Count(g, d) = Count(f, d)
  <2>1. t \in DOMAIN f \ {i} /\ f[t].def = f[i].def
    BY <1>1, SameKeyIn
  <2>2. Count(Grow(Drop(f, i), t, f[i].quantity), d) = Count(f, d)
    BY <2>1, CountMerged
  <2> QED
    BY <1>1, <2>2
<1>2. Count(Put(f, i, row), d) = Count(f, d)
  <2>1. Count(Put(f, i, row), d) = Count(f, d) - Share(f[i], d) + Share(row, d)
    BY CountReplace
  <2>2. Count(f, d) \in Int /\ Share(f[i], d) \in Int
    BY CountInt, SharesInt
  <2> QED
    BY <2>1, <2>2 DEF Share
<1>3. \/ \E t \in SameKey(f, row.stash, row.def, row.notes) \ {i} :
           g = Grow(Drop(f, i), t, row.quantity)
      \/ g = Put(f, i, row)
  BY Zenon DEF Restacked
<1> QED
  BY <1>1, <1>2, <1>3

LEMMA EquipmentCount ==
  ASSUME NEW f, FiniteRows(f), NEW i \in DOMAIN f, NEW new, new \notin DOMAIN f,
         NEW g \in Equipped(f, i, new) \union Attuned(f, i, new)
                     \union Unequipped(f, i) \union Unattuned(f, i), NEW d
  PROVE  Count(g, d) = Count(f, d)
<1>1. f[i] \in Row /\ f[i].quantity \in Nat \ {0}
  BY RowFields DEF FiniteRows
<1>2. \A e, a \in BOOLEAN : Count(FlaggedUnit(f, i, e, a, new), d) = Count(f, d)
  <2>1. 1 \in 1 .. f[i].quantity
    BY <1>1
  <2> QED
    BY <2>1, SplitOffCount
<1>3. ASSUME NEW b \in BOOLEAN,
             \/ g \in Restacked(f, i, [f[i] EXCEPT !.equipped = b])
             \/ g \in Restacked(f, i, [f[i] EXCEPT !.attuned = b])
      PROVE  Count(g, d) = Count(f, d)
  <2>1. ASSUME NEW row, g \in Restacked(f, i, row),
               \/ row = [f[i] EXCEPT !.equipped = b]
               \/ row = [f[i] EXCEPT !.attuned = b]
        PROVE  Count(g, d) = Count(f, d)
    <3>1. row \in Row /\ row.def = f[i].def /\ row.quantity = f[i].quantity
      BY <1>1, <2>1 DEF Row
    <3> QED
      BY <2>1, <3>1, RestackedCount
  <2> QED
    BY <1>3, <2>1
<1>4. \/ g = FlaggedUnit(f, i, TRUE, FALSE, new)
      \/ g = FlaggedUnit(f, i, FALSE, TRUE, new)
      \/ \E b \in BOOLEAN :
           \/ g \in Restacked(f, i, [f[i] EXCEPT !.equipped = b])
           \/ g \in Restacked(f, i, [f[i] EXCEPT !.attuned = b])
  BY Zenon DEF Equipped, Attuned, Unequipped, Unattuned
<1>5. /\ Count(FlaggedUnit(f, i, TRUE, FALSE, new), d) = Count(f, d)
      /\ Count(FlaggedUnit(f, i, FALSE, TRUE, new), d) = Count(f, d)
  BY <1>2, Zenon
<1> QED
  BY <1>3, <1>4, <1>5

LEMMA WithChargesFields ==
  ASSUME NEW r \in Row, NEW c \in Nat \union {NoCharges}
  PROVE  /\ WithCharges(r, c) \in Row /\ WithCharges(r, c).def = r.def
         /\ WithCharges(r, c).quantity = r.quantity
BY DEF Row, WithCharges

LEMMA ChargeUsedCount ==
  ASSUME NEW f, FiniteRows(f), NEW i \in DOMAIN f, NEW amount,
         CanUseCharge(f[i], amount), NEW d
  PROVE  Count(ChargeUsed(f, i, amount), d)
           = Count(f, d) + Lot(f[i].def, d, IF UsesUp(f[i], amount) THEN -1 ELSE 0)
<1> DEFINE row == f[i]
<1>1. row \in Row /\ row.quantity \in Nat \ {0} /\ MaxCharges[row.def] \in Nat
  BY RowFields, MaxChargesType DEF FiniteRows
<1>2. row.charges - amount \in Nat
  BY <1>1, RowFields DEF CanUseCharge, NoCharges
<1>3. Count(f, d) \in Int
  BY CountInt
<1>4. CASE ~UsesUp(row, amount)
  <2> DEFINE n == WithCharges(row, row.charges - amount)
  <2>1. n \in Row /\ n.def = row.def /\ n.quantity = row.quantity
    BY <1>1, <1>2, WithChargesFields
  <2>2. ChargeUsed(f, i, amount) = Put(f, i, n)
    BY <1>4, Zenon DEF ChargeUsed
  <2> HIDE DEF n
  <2>3. Count(Put(f, i, n), d) = Count(f, d) - Share(f[i], d) + Share(n, d)
    BY <2>1, CountReplace
  <2> QED
    BY <1>1, <1>3, <1>4, <2>1, <2>2, <2>3 DEF Share, Lot
<1>5. CASE UsesUp(row, amount) /\ row.quantity = 1
  <2>1. ChargeUsed(f, i, amount) = Drop(f, i)
    BY <1>5, Zenon DEF ChargeUsed
  <2>2. Count(Drop(f, i), d) = Count(f, d) - Share(f[i], d)
    BY CountDrop
  <2> QED
    BY <1>3, <1>5, <2>1, <2>2 DEF Share, Lot
<1>6. CASE UsesUp(row, amount) /\ row.quantity # 1
  <2> DEFINE w == WithQuantity(row, row.quantity - 1)
             n == WithCharges(w, MaxCharges[row.def])
  <2>1. row.quantity - 1 \in Nat \ {0}
    BY <1>1, <1>6
  <2>2. w \in Row /\ w.def = row.def /\ w.quantity = row.quantity - 1
    BY <1>1, <2>1, WithQuantityFields, QuantityFields
  <2>3. ChargeUsed(f, i, amount) = Put(f, i, n)
    BY <1>6, Zenon DEF ChargeUsed
  <2> HIDE DEF w
  <2>4. n \in Row /\ n.def = row.def /\ n.quantity = row.quantity - 1
    BY <1>1, <2>2, WithChargesFields
  <2> HIDE DEF n
  <2>5. Count(Put(f, i, n), d) = Count(f, d) - Share(f[i], d) + Share(n, d)
    BY <2>4, CountReplace
  <2> QED
    BY <1>1, <1>3, <1>6, <2>3, <2>4, <2>5 DEF Share, Lot
<1> QED
  BY <1>4, <1>5, <1>6

-----------------------------------------------------------------------------
(***************************************************************************)
(* The steps: what the rows gain is what the log gains.                    *)
(***************************************************************************)
Logged == \A d \in Defs :
            Count(items', d) - Count(items, d) = itemLog'[d] - itemLog[d]

LEMMA LogItemsLot ==
  ASSUME itemLog \in [Defs -> Int], NEW e \in Defs, NEW q \in Int, LogItems(e, q),
         \A d \in Defs : Count(items, d) \in Int
                         /\ Count(items', d) = Count(items, d) + Lot(e, d, q)
  PROVE  Logged
<1>1. \A d \in Defs : itemLog'[d] = itemLog[d] + Lot(e, d, q)
  BY DEF LogItems, Lot
<1>2. \A d \in Defs : Lot(e, d, q) \in Int /\ itemLog[d] \in Int
  BY DEF Lot
<1> QED
  BY <1>1, <1>2 DEF Logged

LEMMA NothingLogged ==
  ASSUME itemLog \in [Defs -> Int], itemLog' = itemLog,
         \A d \in Defs : Count(items, d) \in Int /\ Count(items', d) = Count(items, d)
  PROVE  Logged
BY DEF Logged

LEMMA ItemsCounted ==
  ASSUME Inv, Fresh
  PROVE  /\ FiniteRows(items) /\ nextId \notin DOMAIN items
         /\ \A d \in Defs : Count(items, d) \in Int
<1>1. FiniteRows(items)
  BY InvFacts, LegalFiniteRows
<1>2. nextId \notin DOMAIN items
  BY InvFacts DEF Fresh
<1> QED
  BY <1>1, <1>2, CountInt

LEMMA ItemStepLogged ==
  ASSUME Inv, Fresh, NEW i \in DOMAIN items, AnyItemStep(i)
  PROVE  Logged
<1> USE InvFacts, ItemsCounted
<1>1. ASSUME NEW q \in Nat \ {0}, Consume(i, q)
      PROVE  Logged
  <2>1. q \in 1 .. items[i].quantity /\ items[i].def \in Defs
    BY <1>1, LegalRow DEF Consume
  <2>2. \A d \in Defs : Count(items', d) = Count(items, d) - Lot(items[i].def, d, q)
    BY <1>1, <2>1, CountTake DEF Consume
  <2>3. q \in Int /\ -q \in Int
    OBVIOUS
  <2>4. \A d \in Defs : Count(items', d) = Count(items, d) + Lot(items[i].def, d, -q)
    BY <2>2, <2>3 DEF Lot
  <2> QED
    BY <1>1, <2>1, <2>3, <2>4, LogItemsLot DEF Consume
<1>2. ASSUME NEW q \in Nat \ {0}, Split(i, q)
      PROVE  Logged
  <2>1. q \in 1 .. items[i].quantity
    BY <1>2, LegalRow DEF Split
  <2>2. \A d \in Defs : Count(items', d) = Count(items, d)
    BY <1>2, <2>1, SplitOffCount DEF Split
  <2> QED
    BY <1>2, <2>2, NothingLogged DEF Split
<1>3. ASSUME NEW n \in Notes, EditNotes(i, n)
      PROVE  Logged
  <2>1. ASSUME NEW r, r = [items[i] EXCEPT !.notes = n], NEW d \in Defs
        PROVE  Count(Put(items, i, r), d) = Count(items, d)
    <3>1. items[i] \in Row /\ n \in Notes
      BY LegalRow
    <3>2. r \in Row /\ r.def = items[i].def /\ r.quantity = items[i].quantity
      BY <2>1, <3>1 DEF Row
    <3>3. Count(Put(items, i, r), d)
            = Count(items, d) - Share(items[i], d) + Share(r, d)
      BY <3>2, CountReplace
    <3>4. Count(items, d) \in Int /\ Share(items[i], d) \in Int
      BY CountInt, SharesInt
    <3> QED
      BY <3>2, <3>3, <3>4 DEF Share
  <2>2. \A d \in Defs : Count(items', d) = Count(items, d)
    BY <1>3, <2>1, Zenon DEF EditNotes
  <2> QED
    BY <1>3, <2>2, NothingLogged DEF EditNotes
<1>4. ASSUME NEW q \in Nat \ {0}, NEW to \in stashes,
             NEW parent \in DOMAIN items \union {NoParent, Undefined},
             Transfer(i, q, to, parent)
      PROVE  Logged
  <2>1. parent \in Nat \union {Undefined}
    BY DEF NoParent
  <2>2. q \in 1 .. items[i].quantity
    BY <1>4 DEF Transfer, CanTransfer
  <2>3. \A d \in Defs : Count(items', d) = Count(items, d)
    BY <1>4, <2>1, <2>2, TransferredCount DEF Transfer
  <2> QED
    BY <1>4, <2>3, NothingLogged DEF Transfer
<1> QED
  BY <1>1, <1>2, <1>3, <1>4 DEF AnyItemStep

LEMMA RechargedRow ==
  ASSUME NEW r \in Row, MaxCharges[r.def] > 0, NEW amount \in Nat \union {Undefined}
  PROVE  /\ WithCharges(r, RechargedTo(r, amount)) \in Row
         /\ WithCharges(r, RechargedTo(r, amount)).def = r.def
         /\ WithCharges(r, RechargedTo(r, amount)).quantity = r.quantity
<1>1. RechargedTo(r, amount) \in Nat \union {NoCharges}
  BY RechargedToLegal
<1> QED
  BY <1>1, WithChargesFields

LEMMA CharacterStepLogged ==
  ASSUME Inv, Fresh, NEW i \in DOMAIN items, AnyCharacterStep(i)
  PROVE  Logged
<1> USE InvFacts, ItemsCounted
<1>1. CASE \/ Equip(i) \/ (\E override \in BOOLEAN : Attune(i, override))
           \/ Unequip(i) \/ Unattune(i)
  <2>1. items' \in Equipped(items, i, nextId) \union Attuned(items, i, nextId)
                     \union Unequipped(items, i) \union Unattuned(items, i)
    BY <1>1 DEF Equip, Attune, Unequip, Unattune
  <2>2. \A d \in Defs : Count(items', d) = Count(items, d)
    BY <2>1, EquipmentCount
  <2>3. itemLog' = itemLog
    BY <1>1 DEF Equip, Attune, Unequip, Unattune
  <2> QED
    BY <2>2, <2>3, NothingLogged
<1>2. ASSUME NEW amount \in Nat, UseCharge(i, amount)
      PROVE  Logged
  <2> DEFINE n == IF UsesUp(items[i], amount) THEN -1 ELSE 0
  <2>1. items[i].def \in Defs /\ n \in Int
    BY LegalRow
  <2>2. \A d \in Defs : Count(items', d) = Count(items, d) + Lot(items[i].def, d, n)
    BY <1>2, ChargeUsedCount DEF UseCharge
  <2>3. LogItems(items[i].def, n)
    BY <1>2 DEF UseCharge
  <2> HIDE DEF n
  <2> QED
    BY <2>1, <2>2, <2>3, LogItemsLot
<1>3. ASSUME NEW amount \in Nat \union {Undefined}, RechargeOne(i, amount)
      PROVE  Logged
  <2> DEFINE r == WithCharges(items[i], RechargedTo(items[i], amount))
  <2>1. amount \in Nat \union {Undefined} /\ items[i] \in Row
    BY LegalRow
  <2>2. r \in Row /\ r.def = items[i].def /\ r.quantity = items[i].quantity
    BY <1>3, <2>1, RechargedRow DEF RechargeOne
  <2>3. items' = Put(items, i, r)
    BY <1>3 DEF RechargeOne
  <2> HIDE DEF r
  <2>4. DOMAIN items' = DOMAIN items
        /\ \A k \in DOMAIN items : /\ items'[k].def = items[k].def
                                   /\ items'[k].quantity = items[k].quantity
    BY <2>2, <2>3 DEF Put
  <2>5. \A d \in Defs : Count(items', d) = Count(items, d)
    BY <2>4, CountSame
  <2> QED
    BY <1>3, <2>5, NothingLogged DEF RechargeOne
<1> QED
  BY <1>1, <1>2, <1>3 DEF AnyCharacterStep

LEMMA NextLogged == ASSUME Inv, Fresh, [AnyNext]_vars PROVE Logged
<1> USE InvFacts, ItemsCounted
<1>1. CASE items' = items /\ itemLog' = itemLog
  BY <1>1, NothingLogged
<1>2. ASSUME NEW s \in stashes, NEW e \in Defs, NEW q \in Nat \ {0},
             NEW given \in Notes \union {Undefined}, Acquire(s, e, q, given)
      PROVE  Logged
  <2>1. q \in Nat \ {0}
    OBVIOUS
  <2>2. \A d \in Defs : Count(items', d) = Count(items, d) + Lot(e, d, q)
    BY <1>2, <2>1, AcquiredCount DEF Acquire
  <2> QED
    BY <1>2, <2>1, <2>2, LogItemsLot DEF Acquire
<1>3. ASSUME NEW s \in Inventories,
             NEW amounts \in [DOMAIN items -> Nat \union {Undefined}],
             RechargeAll(s, amounts)
      PROVE  Logged
  <2>1. ASSUME NEW i \in DOMAIN items, MaxCharges[items[i].def] > 0
        PROVE  /\ WithCharges(items[i], RechargedTo(items[i], amounts[i])).def
                    = items[i].def
               /\ WithCharges(items[i], RechargedTo(items[i], amounts[i])).quantity
                    = items[i].quantity
    <3>1. amounts[i] \in Nat \union {Undefined} /\ items[i] \in Row
      BY LegalRow
    <3> QED
      BY <2>1, <3>1, RechargedRow
  <2>2. DOMAIN items' = DOMAIN items
        /\ \A i \in DOMAIN items : /\ items'[i].def = items[i].def
                                   /\ items'[i].quantity = items[i].quantity
    BY <1>3, <2>1 DEF RechargeAll
  <2>3. \A d \in Defs : Count(items', d) = Count(items, d)
    BY <2>2, CountSame
  <2> QED
    BY <1>3, <2>3, NothingLogged DEF RechargeAll
<1>4. ASSUME NEW s \in Storages, DeleteStash(s)
      PROVE  Logged
  <2>1. \A i \in DOMAIN items :
          /\ Into(items[i], RecoveredLoot).def = items[i].def
          /\ Into(items[i], RecoveredLoot).quantity = items[i].quantity
    BY LegalRow, IntoQuantity
  <2>2. DOMAIN items' = DOMAIN items
        /\ \A i \in DOMAIN items : /\ items'[i].def = items[i].def
                                   /\ items'[i].quantity = items[i].quantity
    BY <1>4, <2>1 DEF DeleteStash
  <2>3. \A d \in Defs : Count(items', d) = Count(items, d)
    BY <2>2, CountSame
  <2> QED
    BY <1>4, <2>3, NothingLogged DEF DeleteStash
<1>5. CASE PurseStep
  <2>1. \/ \E s \in Storages : DeleteStash(s)
        \/ items' = items /\ itemLog' = itemLog
    BY <1>5 DEF PurseStep, CreateStash, CurrencyChange, CurrencyTransfer
  <2> QED
    BY <1>1, <1>4, <2>1
<1>6. CASE AnyNext /\ ~PurseStep
  BY <1>2, <1>3, <1>6, ItemStepLogged, CharacterStepLogged DEF AnyNext
<1>7. CASE UNCHANGED vars
  BY <1>1, <1>7 DEF vars
<1> QED
  BY <1>5, <1>6, <1>7

(***************************************************************************)
(* Units, the sum of the specification, is the count.                      *)
(***************************************************************************)
OfDef(f, d) == {i \in DOMAIN f : f[i].def = d}

LEMMA UnitsTotal ==
  ASSUME NEW S, IsFiniteSet(S)
  PROVE  Units(S) = Total([i \in S |-> items[i].quantity], S)
<1> DEFINE h == [i \in S |-> items[i].quantity]
           sum[T \in SUBSET S] == IF T = {} THEN 0 ELSE
             LET x == CHOOSE x \in T : TRUE IN items[x].quantity + sum[T \ {x}]
<1>1. Units(S) = sum[S]
  BY DEF Units, MapThenSumSet, MapThenFoldSet
<1>2. PICK g : IsSum(g, h, S)
  BY SumExists
<1>3. \A T \in SUBSET S : T # {} => h[Pick(T)] = items[Pick(T)].quantity
  BY PickIn
<1> HIDE DEF h
<1>4. g = [T \in SUBSET S |-> IF T = {} THEN 0 ELSE
             items[Pick(T)].quantity + g[T \ {Pick(T)}]]
  BY <1>2, <1>3 DEF IsSum
<1>5. sum = [T \in SUBSET S |-> IF T = {} THEN 0 ELSE
               LET x == CHOOSE x \in T : TRUE IN items[x].quantity + sum[T \ {x}]]
  <2>1. g = [T \in SUBSET S |-> IF T = {} THEN 0 ELSE
               LET x == CHOOSE x \in T : TRUE IN items[x].quantity + g[T \ {x}]]
    BY <1>4 DEF Pick
  <2> QED
    BY <2>1
<1> HIDE DEF sum
<1>6. sum = [T \in SUBSET S |-> IF T = {} THEN 0 ELSE
               items[Pick(T)].quantity + sum[T \ {Pick(T)}]]
  BY <1>5 DEF Pick
<1>7. IsSum(sum, h, S)
  BY <1>3, <1>6 DEF IsSum
<1>8. Total(h, S) = sum[S]
  BY <1>7, TotalIsSum
<1> QED
  BY <1>1, <1>8 DEF h

LEMMA UnitsCount ==
  ASSUME FiniteRows(items), NEW d
  PROVE  Units({i \in DOMAIN items : items[i].def = d}) = Count(items, d)
<1> DEFINE S == DOMAIN items
           U == {i \in S : items[i].def = d}
           h == [i \in U |-> items[i].quantity]
           f == Shares(items, d)
<1>1. U \in SUBSET S /\ IsFiniteSet(S) /\ IsFiniteSet(U)
  BY FS_Subset DEF FiniteRows
<1>2. \A i \in U : h[i] = f[i]
  BY DEF Shares, Share, Lot
<1>3. (\A i \in S : f[i] \in Int) /\ \A i \in S \ U : f[i] = 0
  BY SharesInt DEF Share, Lot
<1>4. Units(U) = Total(h, U)
  BY <1>1, UnitsTotal
<1> HIDE DEF S, U, h, f
<1>5. Total(h, U) = Total(f, U)
  BY <1>1, <1>2, TotalAgrees
<1>6. Total(f, S) = Total(f, U)
  BY <1>1, <1>3, TotalSupport
<1> QED
  BY <1>4, <1>5, <1>6 DEF Count, S, U, f

(* The units of each definition are those of the log.                      *)
Accounted == \A d \in Defs : Count(items, d) = itemLog[d]

LEMMA NextAccounted == ASSUME Inv, Fresh, Accounted, [AnyNext]_vars PROVE Accounted'
<1>1. ASSUME NEW d \in Defs
      PROVE  Count(items', d) = itemLog'[d]
  <2>1. Count(items', d) - Count(items, d) = itemLog'[d] - itemLog[d]
    BY NextLogged DEF Logged
  <2>2. Count(items, d) \in Int /\ itemLog[d] \in Int
    BY InvFacts, ItemsCounted
  <2>3. Count(items', d) \in Int /\ itemLog'[d] \in Int
    <3>1. Inv'
      BY NextInv
    <3>2. /\ itemLog' \in [Defs -> Int] /\ DOMAIN items' \subseteq RowIds
          /\ items' \in [DOMAIN items' -> Row]
      BY <3>1 DEF Inv, TypeOK
    <3>3. IsFiniteSet(DOMAIN items')
      <4>1. IsFiniteSet(RowIds)
        BY BoundsAssumption, FS_Interval DEF RowIds
      <4> QED
        BY <3>2, <4>1, FS_Subset
    <3>4. FiniteRows(items')
      BY <3>2, <3>3 DEF FiniteRows
    <3> QED
      BY <3>2, <3>4, CountInt
  <2>4. Count(items, d) = itemLog[d]
    BY DEF Accounted
  <2> QED
    BY <2>1, <2>2, <2>3, <2>4
<1>2. \A d \in Defs : Count(items', d) = itemLog'[d]
  BY <1>1
<1> QED
  BY <1>2 DEF Accounted, Count, Shares, Share, Lot

LEMMA InitAccounted == ASSUME Init PROVE Accounted
<1>1. DOMAIN items = {} /\ \A d \in Defs : itemLog[d] = 0
  BY DEF Init
<1>2. ASSUME NEW d PROVE Count(items, d) = 0
  BY <1>1, TotalEmpty DEF Count
<1> QED
  BY <1>1, <1>2 DEF Accounted

(***************************************************************************)
(* The log accounts for every unit: at all times the units of a definition *)
(* in all the stashes together are what the acquire, consume and used-up   *)
(* entries add up to, for any catalog and any number of rows.              *)
(***************************************************************************)
THEOREM ItemsAreAccountedFor == StoreSpec => []LogAccountsForItems
<1>1. Init => Inv /\ Fresh /\ Accounted
  BY InitInv, InitAccounted DEF Init, Fresh
<1>2. Inv /\ Fresh /\ Accounted /\ [StoreNext]_vars => (Inv /\ Fresh /\ Accounted)'
  BY StoreIsAny, NextInv, FreshNext, NextAccounted
<1>3. Inv /\ Fresh /\ Accounted => LogAccountsForItems
  BY ItemsCounted, UnitsCount DEF Accounted, LogAccountsForItems
<1> QED
  BY <1>1, <1>2, <1>3, PTL DEF StoreSpec

-----------------------------------------------------------------------------
(***************************************************************************)
(* Flags                                                                   *)
(***************************************************************************)
Worn(r) == Mundane(r) \/ r.stash \in Inventories

AllWorn(f) == \A j \in DOMAIN f : Worn(f[j])

LEMMA WithQuantityWorn ==
  ASSUME NEW r \in Row, Worn(r), NEW q
  PROVE  Worn(WithQuantity(r, q))
BY DEF Row, Worn, Mundane, WithQuantity

LEMMA WithChargesWorn ==
  ASSUME NEW r \in Row, Worn(r), NEW c
  PROVE  Worn(WithCharges(r, c))
BY DEF Row, Worn, Mundane, WithCharges

LEMMA PutWorn ==
  ASSUME NEW f, AllWorn(f), NEW i, NEW r, Worn(r)
  PROVE  AllWorn(Put(f, i, r))
BY DEF AllWorn, Put

LEMMA DropWorn ==
  ASSUME NEW f, AllWorn(f), NEW i
  PROVE  AllWorn(Drop(f, i))
BY DEF AllWorn, Drop

LEMMA TakeWorn ==
  ASSUME NEW f, AllWorn(f), FiniteRows(f), NEW i \in DOMAIN f, NEW q
  PROVE  AllWorn(Take(f, i, q))
<1>1. Worn(WithQuantity(f[i], f[i].quantity - q))
  BY WithQuantityWorn DEF FiniteRows, AllWorn
<1> QED
  BY <1>1, PutWorn, DropWorn DEF Take

LEMMA GrowWorn ==
  ASSUME NEW f, AllWorn(f), FiniteRows(f), NEW i \in DOMAIN f, NEW q
  PROVE  AllWorn(Grow(f, i, q))
<1>1. Worn(WithQuantity(f[i], f[i].quantity + q))
  BY WithQuantityWorn DEF FiniteRows, AllWorn
<1> QED
  BY <1>1, PutWorn DEF Grow

LEMMA RestackedWorn ==
  ASSUME NEW f, AllWorn(f), FiniteRows(f), NEW i, NEW row, Worn(row),
         NEW g \in Restacked(f, i, row)
  PROVE  AllWorn(g)
<1>1. ASSUME NEW t \in SameKey(f, row.stash, row.def, row.notes) \ {i},
             g = Grow(Drop(f, i), t, row.quantity)
      PROVE  AllWorn(g)
  <2> DEFINE h == Drop(f, i)
  <2>1. t \in DOMAIN h /\ h[t] = f[t] /\ f[t] \in Row /\ AllWorn(h)
    BY <1>1, SameKeyIn, DropWorn DEF Drop, FiniteRows
  <2> HIDE DEF h
  <2>2. Worn(WithQuantity(h[t], h[t].quantity + row.quantity))
    BY <2>1, WithQuantityWorn DEF AllWorn
  <2>3. AllWorn(Grow(h, t, row.quantity))
    BY <2>1, <2>2, PutWorn DEF Grow
  <2> QED
    BY <1>1, <2>3 DEF h
<1>2. AllWorn(Put(f, i, row))
  BY PutWorn
<1>3. \/ \E t \in SameKey(f, row.stash, row.def, row.notes) \ {i} :
           g = Grow(Drop(f, i), t, row.quantity)
      \/ g = Put(f, i, row)
  BY Zenon DEF Restacked
<1> QED
  BY <1>1, <1>2, <1>3

-----------------------------------------------------------------------------
(***************************************************************************)
(* The inductive invariant: that of Inventory, the id that comes next is   *)
(* new, every flag is worn, and the rows add up.                           *)
(***************************************************************************)
AddsUp == \A d \in Defs \ SingleUse : Count(items, d) = itemLog[d]

RowsInv == Inv /\ Fresh /\ AllWorn(items) /\ AddsUp

(* What the persistor does in a way of its own.                            *)
RowsLogged ==
  \A d \in Defs \ SingleUse :
    Count(items', d) - Count(items, d) = itemLog'[d] - itemLog[d]

Written ==
  /\ AllLegal(items', stashes)
  /\ Minting
  /\ AllWorn(items')
  /\ RowsLogged
  /\ itemLog' \in [Defs -> Int]
  /\ UNCHANGED purse

LEMMA RowsFacts ==
  ASSUME RowsInv
  PROVE  /\ TypeOK /\ AllLegal(items, stashes) /\ AllWorn(items)
         /\ stashes \in SUBSET Stashes /\ IsFiniteSet(DOMAIN items)
         /\ DOMAIN items \subseteq RowIds /\ RowIds \subseteq Nat
         /\ nextId \in 1 .. MaxRows + 1
         /\ itemLog \in [Defs -> Int]
         /\ FiniteRows(items) /\ nextId \notin DOMAIN items
         /\ \A d \in Defs : Count(items, d) \in Int
BY InvFacts, ItemsCounted DEF RowsInv

LEMMA InvCounts ==
  ASSUME Inv'
  PROVE  /\ itemLog' \in [Defs -> Int]
         /\ \A d \in Defs : Count(items', d) \in Int
<1>1. /\ itemLog' \in [Defs -> Int] /\ DOMAIN items' \subseteq RowIds
      /\ items' \in [DOMAIN items' -> Row]
  BY DEF Inv, TypeOK
<1>2. IsFiniteSet(DOMAIN items')
  <2>1. IsFiniteSet(RowIds)
    BY BoundsAssumption, FS_Interval DEF RowIds
  <2> QED
    BY <1>1, <2>1, FS_Subset
<1>3. FiniteRows(items')
  BY <1>1, <1>2 DEF FiniteRows
<1> QED
  BY <1>1, <1>3, CountInt

LEMMA RowsNext ==
  ASSUME RowsInv, Inv', Fresh', AllWorn(items'), RowsLogged
  PROVE  RowsInv'
<1>1. ASSUME NEW d \in Defs \ SingleUse
      PROVE  Count(items', d) = itemLog'[d]
  <2>1. /\ Count(items, d) = itemLog[d]
        /\ Count(items', d) - Count(items, d) = itemLog'[d] - itemLog[d]
    BY DEF RowsInv, AddsUp, RowsLogged
  <2>2. /\ Count(items, d) \in Int /\ itemLog[d] \in Int
        /\ Count(items', d) \in Int /\ itemLog'[d] \in Int
    BY RowsFacts, InvCounts
  <2> QED
    BY <2>1, <2>2
<1>2. AddsUp'
  BY <1>1 DEF AddsUp, Count, Shares, Share, Lot
<1>3. AllWorn(items)'
  BY DEF AllWorn, Worn, Mundane
<1> QED
  BY <1>2, <1>3 DEF RowsInv

(* A step that the reducer could have made.                                *)
LEMMA SharedStep ==
  ASSUME RowsInv, [Next]_vars, AllWorn(items')
  PROVE  RowsInv'
<1>1. Inv /\ Fresh /\ [AnyNext]_vars
  BY NextIsAny DEF RowsInv
<1>2. Inv' /\ Fresh' /\ RowsLogged
  BY <1>1, NextInv, FreshNext, NextLogged DEF Logged, RowsLogged
<1> QED
  BY <1>2, RowsNext

LEMMA WrittenStep ==
  ASSUME RowsInv, Written
  PROVE  RowsInv'
<1>1. DOMAIN items' \subseteq RowIds /\ nextId' \in 1 .. MaxRows + 1
  BY RowsFacts, MintType DEF Written, Minting
<1>2. Inv'
  BY <1>1, ItemsKept DEF Written, RowsInv
<1>3. Fresh'
  <2>1. nextId \in Nat /\ DOMAIN items \subseteq Nat
    BY RowsFacts, BoundsAssumption
  <2> QED
    BY <2>1 DEF Fresh, RowsInv, Written, Minting, Mint
<1> QED
  BY <1>2, <1>3, RowsNext DEF Written

(* An inserted row takes the id that comes next.                           *)
LEMMA InsertMints ==
  ASSUME RowsInv, NEW row, Insert(row), DOMAIN items' \subseteq DOMAIN items \union {nextId},
         nextId \in DOMAIN items'
  PROVE  Minting
BY RowsFacts DEF Insert, Minting, Mint

LEMMA RowsUnlogged ==
  ASSUME RowsInv, itemLog' = itemLog,
         \A d \in Defs : Count(items', d) = Count(items, d)
  PROVE  RowsLogged /\ itemLog' \in [Defs -> Int]
BY RowsFacts DEF RowsLogged

-----------------------------------------------------------------------------
(***************************************************************************)
(* The rows that are written.                                              *)
(***************************************************************************)

(* A row with another place and other flags.                               *)
LEMMA CopyLegal ==
  ASSUME NEW S \in SUBSET Stashes, NEW r \in Legal(S), NEW n \in Row,
         n.def = r.def, n.charges = r.charges, n.stash \in S,
         Mundane(n) \/ n.stash \in Inventories
  PROVE  n \in Legal(S) /\ Worn(n)
BY DEF Legal, ChargesLegal, Worn

(* A row inserted as a copy of part of another one.                        *)
LEMMA PartWritten ==
  ASSUME RowsInv, NEW i \in DOMAIN items, NEW q \in 1 .. items[i].quantity,
         NEW r \in Legal(stashes), Worn(r), r.def = items[i].def, r.quantity = q,
         items' = Put(Take(items, i, q), nextId, r), NEW row, Insert(row),
         UNCHANGED <<itemLog, purse>>
  PROVE  Written
<1> USE RowsFacts
<1>1. r \in Row
  BY DEF Legal
<1>2. \A d \in Defs : Count(items', d) = Count(items, d)
  BY <1>1, CountSplit
<1>3. AllLegal(Take(items, i, q), stashes) /\ AllWorn(Take(items, i, q))
  BY TakeLegal, TakeWorn
<1>4. AllLegal(items', stashes) /\ AllWorn(items')
  BY <1>3, PutLegal, PutWorn
<1>5. DOMAIN items' \subseteq DOMAIN items \union {nextId} /\ nextId \in DOMAIN items'
  <2>1. DOMAIN Take(items, i, q) \subseteq DOMAIN items
    BY TakeLegal
  <2> QED
    BY <2>1 DEF Put
<1> QED
  BY <1>2, <1>4, <1>5, InsertMints, RowsUnlogged DEF Written

(* A row that is written where it is, with the same units.                 *)
LEMMA RowWritten ==
  ASSUME RowsInv, NEW i \in DOMAIN items, NEW r \in Legal(stashes), Worn(r),
         r.def = items[i].def, r.quantity = items[i].quantity,
         items' = Put(items, i, r), UNCHANGED <<nextId, purse>>
  PROVE  /\ AllLegal(items', stashes) /\ Minting /\ AllWorn(items')
         /\ \A d \in Defs : Count(items', d) = Count(items, d)
<1> USE RowsFacts
<1>1. AllLegal(items', stashes) /\ AllWorn(items') /\ DOMAIN items' = DOMAIN items
  BY ReplaceLegal, PutWorn
<1>2. \A d \in Defs : Count(items', d) = Count(items, d)
  <2>1. \A k \in DOMAIN items : /\ items'[k].def = items[k].def
                                /\ items'[k].quantity = items[k].quantity
    BY DEF Put
  <2> QED
    BY <1>1, <2>1, CountSame
<1> QED
  BY <1>1, <1>2 DEF Minting

LEMMA AcquireWritten ==
  ASSUME RowsInv, NEW s \in stashes, NEW e \in Defs, NEW q \in Quantities,
         NEW given \in UserNotes \union {Undefined}, persistAcquire(s, e, q, given)
  PROVE  Written
<1> USE RowsFacts
<1> DEFINE n == IF given = Undefined THEN NoNotes ELSE given
           found == SameKey(items, s, e, n)
           row == [def |-> e, stash |-> s, parent |-> NoParent, quantity |-> q,
                   equipped |-> FALSE, attuned |-> FALSE,
                   charges |-> NoCharges, notes |-> n]
<1>1. q \in Nat \ {0} /\ n \in Notes
  BY NotesAssumption DEF Quantities, Notes, NoNotes
<1> HIDE DEF n
<1>2. /\ row \in Row /\ row \in Legal(stashes) /\ Worn(row)
      /\ row.def = e /\ row.quantity = q
  BY <1>1 DEF Row, Legal, ChargesLegal, Worn, Mundane, NoParent
<1>3. LogItems(e, q) /\ UNCHANGED purse
  BY DEF persistAcquire
<1> HIDE DEF row
<1>4. \/ \E t \in found : items' = Grow(items, t, q) /\ UNCHANGED nextId
      \/ items' = Put(items, nextId, row) /\ Insert(row)
  BY Zenon DEF persistAcquire, n, row
<1>5. AllLegal(items', stashes) /\ Minting /\ AllWorn(items')
      /\ \A d \in Defs : Count(items', d) = Count(items, d) + Lot(e, d, q)
  <2>1. ASSUME NEW t \in found, items' = Grow(items, t, q), UNCHANGED nextId
        PROVE  AllLegal(items', stashes) /\ Minting /\ AllWorn(items')
               /\ \A d \in Defs : Count(items', d) = Count(items, d) + Lot(e, d, q)
    <3>1. t \in DOMAIN items /\ items[t].def = e
      BY <2>1, SameKeyIn
    <3>2. /\ AllLegal(items', stashes) /\ DOMAIN items' = DOMAIN items
          /\ AllWorn(items')
      BY <1>1, <2>1, <3>1, GrowLegal, GrowWorn
    <3>3. \A d \in Defs : Count(items', d) = Count(items, d) + Lot(e, d, q)
      BY <1>1, <2>1, <3>1, CountGrow
    <3> QED
      BY <2>1, <3>2, <3>3 DEF Minting
  <2>2. ASSUME items' = Put(items, nextId, row), Insert(row)
        PROVE  AllLegal(items', stashes) /\ Minting /\ AllWorn(items')
               /\ \A d \in Defs : Count(items', d) = Count(items, d) + Lot(e, d, q)
    <3>1. AllLegal(items', stashes) /\ AllWorn(items')
      BY <1>2, <2>2, PutLegal, PutWorn
    <3>2. \A d \in Defs : Count(items', d) = Count(items, d) + Lot(e, d, q)
      BY <1>2, <2>2, CountInsert DEF Share
    <3>3. DOMAIN items' = DOMAIN items \union {nextId}
      BY <2>2 DEF Put
    <3>4. Minting
      BY <2>2, <3>3, InsertMints
    <3> QED
      BY <3>1, <3>2, <3>4
  <2> QED
    BY <1>4, <2>1, <2>2
<1>6. itemLog' \in [Defs -> Int]
  BY <1>1, <1>3, LogItemsType
<1>7. RowsLogged
  <2>1. \A d \in Defs : itemLog'[d] = itemLog[d] + Lot(e, d, q)
    BY <1>1, <1>3 DEF LogItems, Lot
  <2>2. \A d \in Defs : Lot(e, d, q) \in Int /\ itemLog[d] \in Int
    BY <1>1 DEF Lot
  <2> QED
    BY <1>5, <2>1, <2>2 DEF RowsLogged
<1> QED
  BY <1>3, <1>5, <1>6, <1>7 DEF Written

LEMMA TransferWholeWritten ==
  ASSUME RowsInv, NEW i \in DOMAIN items, NEW to \in stashes,
         NEW parent \in Nat \union {Undefined}, TransferWhole(i, to, parent),
         UNCHANGED <<itemLog, purse>>
  PROVE  Written
<1> USE RowsFacts
<1>1. items[i] \in Legal(stashes) /\ items[i] \in Row
      /\ items[i].quantity \in Nat \ {0}
  BY LegalRow
<1>2. ASSUME NEW t \in SameKey(items, to, items[i].def, items[i].notes) \ {i},
             items' = Merged(i, t)
      PROVE  Written
  <2> DEFINE h == Drop(items, i)
             q == items[i].quantity
  <2>1. t \in DOMAIN items \ {i} /\ items[t].def = items[i].def
    BY <1>2, SameKeyIn
  <2>2. \A d \in Defs : Count(items', d) = Count(items, d)
    BY <1>2, <2>1, CountMerged DEF Merged
  <2>3. /\ AllLegal(h, stashes) /\ AllWorn(h) /\ FiniteRows(h)
        /\ t \in DOMAIN h /\ DOMAIN h \subseteq DOMAIN items /\ q \in Nat
    <3>1. AllLegal(h, stashes) /\ DOMAIN h = DOMAIN items \ {i}
      BY DropLegal
    <3>2. AllWorn(h) /\ FiniteRows(h)
      BY DropWorn, CountDrop
    <3> QED
      BY <1>1, <2>1, <3>1, <3>2
  <2>4. items' = Grow(h, t, q)
    BY <1>2 DEF Merged
  <2> HIDE DEF h, q
  <2>5. /\ AllLegal(items', stashes) /\ AllWorn(items') /\ DOMAIN items' = DOMAIN h
    BY <2>3, <2>4, GrowLegal, GrowWorn
  <2>6. Minting
    BY <2>3, <2>5 DEF TransferWhole, Minting
  <2> QED
    BY <2>2, <2>5, <2>6, RowsUnlogged DEF Written
<1>3. CASE items' = Put(items, i, MovedRow(i, to, parent))
  <2> DEFINE p == IF parent = Undefined THEN items[i].parent ELSE parent
             r == MovedRow(i, to, parent)
  <2>1. p \in Nat
    BY <1>1, RowFields
  <2>2. r = [items[i] EXCEPT !.stash = to, !.equipped = FALSE, !.attuned = FALSE,
                             !.parent = p]
    BY Zenon DEF MovedRow
  <2> HIDE DEF p, r
  <2>3. /\ r \in Row /\ r.def = items[i].def /\ r.charges = items[i].charges
        /\ r.stash = to /\ r.quantity = items[i].quantity
        /\ ~r.equipped /\ ~r.attuned
    BY <1>1, <2>1, <2>2 DEF Row
  <2>4. r \in Legal(stashes) /\ Worn(r)
    BY <1>1, <2>3, CopyLegal DEF Mundane
  <2>5. /\ AllLegal(items', stashes) /\ Minting /\ AllWorn(items')
        /\ \A d \in Defs : Count(items', d) = Count(items, d)
    BY <1>3, <2>3, <2>4, RowWritten DEF TransferWhole, r
  <2> QED
    BY <2>5, RowsUnlogged DEF Written
<1>4. \/ \E t \in SameKey(items, to, items[i].def, items[i].notes) \ {i} :
           items' = Merged(i, t)
      \/ items' = Put(items, i, MovedRow(i, to, parent))
  BY Zenon DEF TransferWhole
<1> QED
  BY <1>2, <1>3, <1>4

LEMMA TransferPartWritten ==
  ASSUME RowsInv, NEW i \in DOMAIN items, NEW q \in 1 .. items[i].quantity,
         NEW to \in stashes, NEW parent \in Nat \union {Undefined},
         TransferPart(i, q, to, parent), UNCHANGED <<itemLog, purse>>
  PROVE  Written
<1> USE RowsFacts
<1> DEFINE p == IF parent = Undefined THEN NoParent ELSE parent
<1>1. /\ items[i] \in Legal(stashes) /\ items[i] \in Row
      /\ items[i].quantity \in Nat \ {0}
      /\ q \in Nat \ {0} /\ p \in Nat /\ to \in Stashes
  BY LegalRow DEF NoParent
<1> HIDE DEF p
<1>2. ASSUME NEW r, r = [items[i] EXCEPT
                !.stash = to, !.quantity = q, !.equipped = FALSE, !.attuned = FALSE,
                !.parent = p]
      PROVE  r \in Legal(stashes) /\ Worn(r) /\ r.def = items[i].def /\ r.quantity = q
  <2>1. /\ r \in Row /\ r.def = items[i].def /\ r.charges = items[i].charges
        /\ r.stash = to /\ r.quantity = q /\ ~r.equipped /\ ~r.attuned
    BY <1>1, <1>2 DEF Row
  <2> QED
    BY <1>1, <2>1, CopyLegal DEF Mundane
<1>3. \E r : /\ r = [items[i] EXCEPT
                !.stash = to, !.quantity = q, !.equipped = FALSE, !.attuned = FALSE,
                !.parent = p]
             /\ items' = Put(Take(items, i, q), nextId, r) /\ Insert(r)
  BY Zenon DEF TransferPart, p
<1> QED
  BY <1>2, <1>3, PartWritten

LEMMA FlagWritten ==
  ASSUME RowsInv, NEW i \in DOMAIN items, items[i].stash \in Inventories,
         NEW e \in BOOLEAN, NEW a \in BOOLEAN, NEW flagged,
         flagged = [items[i] EXCEPT !.quantity = 1, !.equipped = e, !.attuned = a],
         FlagUnit(i, flagged), UNCHANGED <<itemLog, purse>>
  PROVE  Written
<1>1. /\ items[i] \in Legal(stashes) /\ items[i] \in Row
      /\ items[i].quantity \in Nat \ {0} /\ items[i].stash \in stashes
  BY RowsFacts, LegalRow
<1>2. /\ flagged \in Row /\ flagged.def = items[i].def
      /\ flagged.charges = items[i].charges /\ flagged.stash = items[i].stash
      /\ flagged.quantity = 1
  <2>1. items[i] \in Row /\ 1 \in Nat \ {0}
    BY <1>1
  <2> QED
    BY <2>1, Zenon DEF Row
<1> USE RowsFacts
<1>3. flagged \in Legal(stashes) /\ Worn(flagged)
  BY <1>1, <1>2 DEF Legal, ChargesLegal, Worn
<1>4. CASE items[i].quantity = 1
  <2>1. items' = Put(items, i, flagged) /\ UNCHANGED nextId
    BY <1>4 DEF FlagUnit
  <2>2. /\ AllLegal(items', stashes) /\ Minting /\ AllWorn(items')
        /\ \A d \in Defs : Count(items', d) = Count(items, d)
    BY <1>2, <1>3, <1>4, <2>1, RowWritten
  <2> QED
    BY <2>2, RowsUnlogged DEF Written
<1>5. CASE items[i].quantity # 1
  <2>1. items' = Put(Take(items, i, 1), nextId, flagged) /\ Insert(flagged)
    BY <1>5 DEF FlagUnit
  <2>2. 1 \in 1 .. items[i].quantity
    BY <1>1
  <2> QED
    BY <1>2, <1>3, <2>1, <2>2, PartWritten
<1> QED
  BY <1>4, <1>5

LEMMA EquipWritten ==
  ASSUME RowsInv, NEW i \in DOMAIN items,
         persistEquip(i) \/ \E override \in Overrides : persistAttune(i, override)
  PROVE  Written
<1>1. /\ items[i].equipped \in BOOLEAN /\ items[i].attuned \in BOOLEAN
  BY RowsFacts, LegalRow, RowFields
<1>2. ASSUME persistEquip(i)
      PROVE  Written
  <2> DEFINE a == items[i].attuned /\ items[i].quantity = 1
  <2>1. a \in BOOLEAN
    BY <1>1
  <2>2. /\ FlagUnit(i, [items[i] EXCEPT !.quantity = 1, !.equipped = TRUE, !.attuned = a])
        /\ items[i].stash \in Inventories /\ UNCHANGED <<itemLog, purse>>
    BY <1>2, Zenon DEF persistEquip
  <2> HIDE DEF a
  <2>3. ASSUME NEW e \in BOOLEAN, NEW flagged, e = TRUE,
          flagged = [items[i] EXCEPT !.quantity = 1, !.equipped = TRUE, !.attuned = a],
          FlagUnit(i, flagged)
        PROVE Written
    BY <2>1, <2>2, <2>3, FlagWritten
  <2> QED
    BY <2>2, <2>3
<1>3. ASSUME NEW override \in Overrides, persistAttune(i, override)
      PROVE  Written
  <2> DEFINE e == items[i].equipped /\ items[i].quantity = 1
  <2>1. e \in BOOLEAN
    BY <1>1
  <2>2. /\ FlagUnit(i, [items[i] EXCEPT !.quantity = 1, !.attuned = TRUE, !.equipped = e])
        /\ items[i].stash \in Inventories /\ UNCHANGED <<itemLog, purse>>
    BY <1>3, Zenon DEF persistAttune
  <2> HIDE DEF e
  <2>3. ASSUME NEW flagged,
          flagged = [items[i] EXCEPT !.quantity = 1, !.attuned = TRUE, !.equipped = e],
          FlagUnit(i, flagged)
        PROVE Written
    <3>1. flagged = [items[i] EXCEPT !.quantity = 1, !.equipped = e, !.attuned = TRUE]
      BY <2>3, RowsFacts, LegalRow DEF Row
    <3> QED
      BY <2>1, <2>2, <2>3, <3>1, FlagWritten
  <2> QED
    BY <2>2, <2>3
<1> QED
  BY <1>2, <1>3

LEMMA UseChargeWritten ==
  ASSUME RowsInv, NEW i \in DOMAIN items, NEW amount, persistUseCharge(i, amount)
  PROVE  Written
<1> USE RowsFacts
<1> DEFINE row == items[i]
           r == WithCharges(row, row.charges - amount)
           n == IF UsesUp(row, amount) THEN -1 ELSE 0
<1>1. /\ row \in Legal(stashes) /\ row \in Row /\ row.quantity \in Nat \ {0}
      /\ row.def \in Defs /\ row.stash \in Inventories /\ CanUseCharge(row, amount)
  BY LegalRow DEF persistUseCharge
<1>2. /\ MaxCharges[row.def] \in Nat /\ MaxCharges[row.def] > 0
      /\ row.charges \in Nat /\ row.charges <= MaxCharges[row.def]
      /\ amount \in 1 .. row.charges
  BY <1>1, RowFields, MaxChargesType DEF CanUseCharge, NoCharges, Legal, ChargesLegal
<1>3. row.charges - amount \in Nat /\ row.charges - amount <= MaxCharges[row.def]
  BY <1>2
<1>4. r \in Legal(stashes) /\ r.def = row.def /\ r.quantity = row.quantity
  BY <1>1, <1>2, <1>3, WithChargesLegal, WithChargesFields
<1>5. Worn(row)
  BY <1>1 DEF Worn
<1>6. Worn(r)
  BY <1>1, <1>5, WithChargesWorn
<1>7. items' = Put(items, i, r) /\ LogItems(row.def, n) /\ UNCHANGED <<nextId, purse>>
  BY DEF persistUseCharge
<1> HIDE DEF r
<1>8. /\ AllLegal(items', stashes) /\ Minting /\ AllWorn(items')
      /\ \A d \in Defs : Count(items', d) = Count(items, d)
  BY <1>4, <1>6, <1>7, RowWritten
<1>9. \A d \in Defs \ SingleUse : itemLog'[d] = itemLog[d]
  BY <1>1, <1>7 DEF LogItems, UsesUp
<1>10. itemLog' \in [Defs -> Int]
  BY <1>1, <1>7, LogItemsType
<1> QED
  BY <1>7, <1>8, <1>9, <1>10 DEF Written, RowsLogged

LEMMA RechargeAllWritten ==
  ASSUME RowsInv, NEW s \in Inventories,
         NEW amounts \in [DOMAIN items -> Amounts \union {Undefined}],
         persistRechargeAll(s, amounts)
  PROVE  Written
<1> USE RowsFacts
<1>1. ASSUME NEW i \in DOMAIN items, MaxCharges[items[i].def] > 0,
             NEW r, r = WithCharges(items[i], RechargedTo(items[i], amounts[i]))
      PROVE  /\ r \in Legal(stashes) /\ Worn(r)
             /\ r.def = items[i].def /\ r.quantity = items[i].quantity
  <2>1. amounts[i] \in Nat \union {Undefined}
    <3>1. Amounts \subseteq Nat
      BY DEF Amounts
    <3> QED
      BY <3>1
  <2>2. items[i] \in Row /\ items[i] \in Legal(stashes) /\ Worn(items[i])
    BY LegalRow DEF AllWorn
  <2>3. /\ RechargedTo(items[i], amounts[i]) \in Nat
        /\ RechargedTo(items[i], amounts[i]) <= MaxCharges[items[i].def]
    BY <1>1, <2>1, <2>2, RechargedToLegal
  <2> QED
    BY <1>1, <2>2, <2>3, WithChargesLegal, WithChargesFields, WithChargesWorn
<1>2. \A i \in DOMAIN items : items[i] \in Legal(stashes) /\ Worn(items[i])
  BY LegalRow DEF AllWorn
<1>3. DOMAIN items' = DOMAIN items
      /\ \A i \in DOMAIN items :
           /\ items'[i] \in Legal(stashes) /\ Worn(items'[i])
           /\ items'[i].def = items[i].def /\ items'[i].quantity = items[i].quantity
  BY <1>1, <1>2 DEF persistRechargeAll
<1>4. AllLegal(items', stashes) /\ AllWorn(items')
  <2>1. items' = [i \in DOMAIN items' |-> items'[i]]
    BY DEF persistRechargeAll
  <2> QED
    BY <1>3, <2>1 DEF AllLegal, AllWorn
<1>5. \A d \in Defs : Count(items', d) = Count(items, d)
  BY <1>3, CountSame
<1> QED
  BY <1>3, <1>4, <1>5, RowsUnlogged DEF persistRechargeAll, Minting, Written

LEMMA DeleteStashRows ==
  ASSUME RowsInv, NEW s \in Storages, persistDeleteStash(s)
  PROVE  RowsInv'
<1> USE RowsFacts
<1> DEFINE bare(i) == Bare(Into(items[i], RecoveredLoot))
<1>1. /\ stashes' = stashes \ {s} /\ s \in stashes
      /\ RecoveredLoot \in stashes' /\ RecoveredLoot \in Stashes
  BY StashAssumption DEF persistDeleteStash, RowsInv, Inv, PurseInv, Stashes
<1>2. ASSUME NEW i \in DOMAIN items
      PROVE  /\ bare(i) \in Legal(stashes') /\ Worn(bare(i))
             /\ bare(i).def = items[i].def /\ bare(i).quantity = items[i].quantity
  <2>1. items[i] \in Legal(stashes) /\ items[i] \in Row
    BY LegalRow
  <2>2. /\ bare(i) \in Row /\ bare(i).stash = RecoveredLoot
        /\ ~bare(i).equipped /\ ~bare(i).attuned
        /\ bare(i).def = items[i].def /\ bare(i).quantity = items[i].quantity
        /\ bare(i).charges = items[i].charges
    BY <1>1, <2>1 DEF Row, Bare, Into, NoParent
  <2> QED
    BY <1>1, <2>1, <2>2 DEF Legal, ChargesLegal, Worn, Mundane
<1>3. \A i \in DOMAIN items : /\ items[i].stash # s => items[i] \in Legal(stashes')
                              /\ Worn(items[i])
  BY <1>1, LegalRow DEF Legal, AllWorn
<1> HIDE DEF bare
<1>4. items' = [i \in DOMAIN items |-> IF items[i].stash = s THEN bare(i) ELSE items[i]]
  BY DEF persistDeleteStash, bare
<1>5. DOMAIN items' = DOMAIN items
      /\ \A i \in DOMAIN items :
           /\ items'[i] \in Legal(stashes') /\ Worn(items'[i])
           /\ items'[i].def = items[i].def /\ items'[i].quantity = items[i].quantity
  BY <1>2, <1>3, <1>4
<1>6. AllLegal(items', stashes') /\ AllWorn(items')
  BY <1>4, <1>5 DEF AllLegal, AllWorn
<1>7. \A d \in Defs : Count(items', d) = Count(items, d)
  BY <1>5, CountSame
<1>8. Inv'
  BY <1>1, <1>5, <1>6, StashDeleted DEF RowsInv, persistDeleteStash
<1>9. Fresh' /\ itemLog' = itemLog
  BY <1>5 DEF Fresh, RowsInv, persistDeleteStash
<1> QED
  BY <1>6, <1>7, <1>8, <1>9, RowsUnlogged, RowsNext

-----------------------------------------------------------------------------
(***************************************************************************)
(* The steps                                                               *)
(***************************************************************************)
LEMMA PersistItemRows ==
  ASSUME RowsInv, NEW i \in DOMAIN items, PersistItem(i)
  PROVE  RowsInv'
<1> USE RowsFacts
<1>1. ASSUME NEW q \in Quantities, persistConsume(i, q)
      PROVE  RowsInv'
  <2>1. [Next]_vars
    BY <1>1 DEF persistConsume, Next, ItemStep
  <2>2. AllWorn(items')
    BY <1>1, TakeWorn DEF persistConsume, Consume
  <2> QED
    BY <2>1, <2>2, SharedStep
<1>2. ASSUME NEW q \in Quantities, persistSplit(i, q)
      PROVE  RowsInv'
  <2>1. items[i] \in Legal(stashes) /\ items[i] \in Row /\ items[i].quantity \in Nat
        /\ q \in 1 .. items[i].quantity /\ q \in Nat \ {0}
        /\ items[i].stash \in stashes
    BY <1>2, LegalRow DEF persistSplit
  <2>2. ASSUME NEW r, r = [items[i] EXCEPT !.quantity = q, !.equipped = FALSE,
                                           !.attuned = FALSE]
        PROVE  r \in Legal(stashes) /\ Worn(r) /\ r.def = items[i].def /\ r.quantity = q
    <3>1. /\ r \in Row /\ r.def = items[i].def /\ r.charges = items[i].charges
          /\ r.stash = items[i].stash /\ r.quantity = q
          /\ ~r.equipped /\ ~r.attuned
      BY <2>1, <2>2 DEF Row
    <3> QED
      BY <2>1, <3>1 DEF Legal, ChargesLegal, Worn, Mundane
  <2>3. \E r : /\ r = [items[i] EXCEPT !.quantity = q, !.equipped = FALSE,
                                       !.attuned = FALSE]
               /\ items' = Put(Take(items, i, q), nextId, r) /\ Insert(r)
               /\ UNCHANGED <<itemLog, purse>>
    BY <1>2, Zenon DEF persistSplit
  <2>4. Written
    BY <2>1, <2>2, <2>3, PartWritten
  <2> QED
    BY <2>4, WrittenStep
<1>3. ASSUME NEW n \in UserNotes, persistEditItemInstance(i, n)
      PROVE  RowsInv'
  <2>1. [Next]_vars
    BY <1>3 DEF persistEditItemInstance, Next, ItemStep
  <2>2. ASSUME NEW r, r = [items[i] EXCEPT !.notes = n]
        PROVE  Worn(r)
    BY <2>2, LegalRow DEF Row, AllWorn, Worn, Mundane
  <2>3. \E r : r = [items[i] EXCEPT !.notes = n] /\ items' = Put(items, i, r)
    BY <1>3, Zenon DEF persistEditItemInstance, EditNotes
  <2>4. AllWorn(items')
    BY <2>2, <2>3, PutWorn
  <2> QED
    BY <2>1, <2>4, SharedStep
<1>4. ASSUME NEW q \in Quantities, NEW to \in stashes,
             NEW parent \in DOMAIN items \union {NoParent, Undefined},
             persistTransfer(i, q, to, parent)
      PROVE  RowsInv'
  <2>1. parent \in Nat \union {Undefined} /\ q \in 1 .. items[i].quantity
    BY <1>4 DEF NoParent, persistTransfer, CanTransfer
  <2>2. Written
    BY <1>4, <2>1, TransferWholeWritten, TransferPartWritten DEF persistTransfer
  <2> QED
    BY <2>2, WrittenStep
<1> QED
  BY <1>1, <1>2, <1>3, <1>4 DEF PersistItem

LEMMA PersistCharacterRows ==
  ASSUME RowsInv, NEW i \in DOMAIN items, PersistCharacter(i)
  PROVE  RowsInv'
<1> USE RowsFacts
<1>1. CASE persistEquip(i) \/ \E override \in Overrides : persistAttune(i, override)
  BY <1>1, EquipWritten, WrittenStep
<1>2. CASE persistUnequip(i) \/ persistUnattune(i)
  <2>1. [Next]_vars
    <3>1. Unequip(i) \/ Unattune(i)
      BY <1>2 DEF persistUnequip, persistUnattune, restackOrPatch, Unequip, Unattune,
                  Unequipped, Unattuned
    <3> QED
      BY <3>1 DEF Next, CharacterStep
  <2>2. ASSUME NEW row, \/ row = [items[i] EXCEPT !.equipped = FALSE]
                        \/ row = [items[i] EXCEPT !.attuned = FALSE]
        PROVE  Worn(row)
    BY <2>2, LegalRow DEF Row, AllWorn, Worn, Mundane
  <2>3. \/ items' \in Restacked(items, i, [items[i] EXCEPT !.equipped = FALSE])
        \/ items' \in Restacked(items, i, [items[i] EXCEPT !.attuned = FALSE])
    BY <1>2, Zenon DEF persistUnequip, persistUnattune, restackOrPatch
  <2>4. AllWorn(items')
    BY <2>2, <2>3, RestackedWorn
  <2> QED
    BY <2>1, <2>4, SharedStep
<1>3. ASSUME NEW amount \in Amounts, persistUseCharge(i, amount)
      PROVE  RowsInv'
  BY <1>3, UseChargeWritten, WrittenStep
<1>4. ASSUME NEW amount \in Amounts \union {Undefined}, persistRechargeOne(i, amount)
      PROVE  RowsInv'
  <2>1. [Next]_vars
    BY <1>4 DEF persistRechargeOne, Next, CharacterStep
  <2>2. AllWorn(items')
    BY <1>4, LegalRow, WithChargesWorn, PutWorn DEF persistRechargeOne, RechargeOne, AllWorn
  <2> QED
    BY <2>1, <2>2, SharedStep
<1> QED
  BY <1>1, <1>2, <1>3, <1>4 DEF PersistCharacter

LEMMA ApplyDeltaRows == ASSUME RowsInv, [applyDelta]_vars PROVE RowsInv'
<1>1. CASE UNCHANGED vars
  <2>1. [Next]_vars /\ AllWorn(items')
    BY <1>1 DEF vars, RowsInv
  <2> QED
    BY <2>1, SharedStep
<1>2. CASE PersistPurse
  <2>1. ASSUME NEW s \in Storages, persistDeleteStash(s)
        PROVE  RowsInv'
    BY <2>1, DeleteStashRows
  <2>2. ASSUME PurseStep, items' = items
        PROVE  RowsInv'
    BY <2>2, SharedStep DEF Next, RowsInv
  <2>3. \/ \E s \in Storages : persistDeleteStash(s)
        \/ PurseStep /\ items' = items
    BY <1>2 DEF PersistPurse, PurseStep, persistCreateStash, persistCurrencyChange,
                persistCurrencyTransfer, CreateStash, CurrencyChange, CurrencyTransfer
  <2> QED
    BY <2>1, <2>2, <2>3
<1>3. ASSUME NEW s \in stashes, NEW d \in Defs, NEW q \in Quantities,
             NEW given \in UserNotes \union {Undefined}, persistAcquire(s, d, q, given)
      PROVE  RowsInv'
  BY <1>3, AcquireWritten, WrittenStep
<1>4. ASSUME NEW s \in Inventories,
             NEW amounts \in [DOMAIN items -> Amounts \union {Undefined}],
             persistRechargeAll(s, amounts)
      PROVE  RowsInv'
  BY <1>4, RechargeAllWritten, WrittenStep
<1> QED
  BY <1>1, <1>2, <1>3, <1>4, PersistItemRows, PersistCharacterRows DEF applyDelta

LEMMA InitRows == ASSUME Init PROVE RowsInv
<1>1. Inv /\ Fresh /\ Accounted
  BY InitInv, InitAccounted DEF Init, Fresh
<1>2. AllWorn(items)
  BY DEF Init, AllWorn
<1> QED
  BY <1>1, <1>2 DEF RowsInv, Accounted, AddsUp

(***************************************************************************)
(* The rows of the database are well-formed, in stashes there are, with    *)
(* charges their definitions allow, worn where they have flags, and as     *)
(* many as the log says.                                                   *)
(***************************************************************************)
THEOREM RowsInvariant == PersistorSpec => []RowsInv
BY InitRows, ApplyDeltaRows, PTL DEF PersistorSpec

(***************************************************************************)
(* The reducer writes the log and the persistor the rows, each by rules of *)
(* its own, and they agree on the units of every definition that is not    *)
(* for a single use.                                                       *)
(***************************************************************************)
THEOREM RowsAlwaysAddUp == PersistorSpec => []RowsAddUp
<1>1. RowsInv => RowsAddUp
  BY RowsFacts, UnitsCount DEF RowsInv, AddsUp, RowsAddUp
<1> QED
  BY <1>1, RowsInvariant, PTL

(***************************************************************************)
(* In the database a row with a flag lies in an inventory: the trigger on  *)
(* the flags refuses nothing that the persistor writes.                    *)
(***************************************************************************)
THEOREM FlagsAreOnlyWorn == PersistorSpec => []FlagsOnlyWorn
<1>1. RowsInv => FlagsOnlyWorn
  BY DEF RowsInv, AllWorn, Worn, FlagsOnlyWorn
<1> QED
  BY <1>1, RowsInvariant, PTL

-----------------------------------------------------------------------------
(***************************************************************************)
(* What the screens make of the parents.  A row that a request leaves or   *)
(* makes lies at the top, where a row of before did that is of the same    *)
(* definition, or in a container of before when it is none itself.         *)
(***************************************************************************)
Packable(f, d, p) == d \notin Containers /\ p \in DOMAIN f /\ f[p].def \in Containers

Descends(f, r) ==
  \/ r.parent = NoParent
  \/ \E i \in DOMAIN f : r.def = f[i].def /\ r.parent = f[i].parent
  \/ Packable(f, r.def, r.parent)

Bequeaths(f, g, new) ==
  \A j \in DOMAIN g : /\ Descends(f, g[j])
                      /\ j # new => j \in DOMAIN f /\ g[j].def = f[j].def

LEMMA SameBequeaths ==
  ASSUME NEW f, NEW new
  PROVE  Bequeaths(f, f, new)
BY DEF Bequeaths, Descends

LEMMA PutBequeaths ==
  ASSUME NEW f, NEW h, NEW new, Bequeaths(f, h, new), NEW j, NEW r, Descends(f, r),
         j = new \/ (j \in DOMAIN f /\ r.def = f[j].def)
  PROVE  Bequeaths(f, Put(h, j, r), new)
BY DEF Bequeaths, Put

LEMMA DropBequeaths ==
  ASSUME NEW f, NEW h, NEW new, Bequeaths(f, h, new), NEW j
  PROVE  Bequeaths(f, Drop(h, j), new)
BY DEF Bequeaths, Drop

(* A row of before with other values in what does not place it.            *)
LEMMA CopyDescends ==
  ASSUME NEW f, NEW i \in DOMAIN f, NEW r, r.def = f[i].def,
         r.parent \in {f[i].parent, NoParent}
  PROVE  Descends(f, r)
BY DEF Descends

LEMMA RowEdits ==
  ASSUME NEW r \in Row, NEW v, NEW w, NEW x
  PROVE  /\ WithQuantity(r, v).def = r.def /\ WithQuantity(r, v).parent = r.parent
         /\ WithCharges(r, v).def = r.def /\ WithCharges(r, v).parent = r.parent
         /\ WithCharges(WithQuantity(r, v), w).def = r.def
         /\ WithCharges(WithQuantity(r, v), w).parent = r.parent
         /\ [r EXCEPT !.notes = v].def = r.def /\ [r EXCEPT !.notes = v].parent = r.parent
         /\ [r EXCEPT !.equipped = v].def = r.def
         /\ [r EXCEPT !.equipped = v].parent = r.parent
         /\ [r EXCEPT !.attuned = v].def = r.def
         /\ [r EXCEPT !.attuned = v].parent = r.parent
         /\ [r EXCEPT !.quantity = v, !.equipped = w, !.attuned = x].def = r.def
         /\ [r EXCEPT !.quantity = v, !.equipped = w, !.attuned = x].parent = r.parent
BY DEF Row, WithQuantity, WithCharges

LEMMA GrowBequeaths ==
  ASSUME NEW S, NEW f, AllLegal(f, S), NEW h, NEW new, Bequeaths(f, h, new),
         NEW t \in DOMAIN f, h[t] = f[t], NEW q
  PROVE  Bequeaths(f, Grow(h, t, q), new)
<1> DEFINE r == WithQuantity(h[t], h[t].quantity + q)
<1>1. r.def = f[t].def /\ r.parent = f[t].parent
  BY LegalRow, RowEdits
<1> HIDE DEF r
<1>2. Descends(f, r)
  BY <1>1, CopyDescends
<1> QED
  BY <1>1, <1>2, PutBequeaths DEF Grow, r

LEMMA TakeBequeaths ==
  ASSUME NEW S, NEW f, AllLegal(f, S), NEW new, NEW i \in DOMAIN f, NEW q
  PROVE  Bequeaths(f, Take(f, i, q), new)
<1> DEFINE r == WithQuantity(f[i], f[i].quantity - q)
<1>1. r.def = f[i].def /\ r.parent = f[i].parent
  BY LegalRow, RowEdits
<1> HIDE DEF r
<1>2. Descends(f, r)
  BY <1>1, CopyDescends
<1>3. Bequeaths(f, Put(f, i, r), new) /\ Bequeaths(f, Drop(f, i), new)
  BY <1>1, <1>2, SameBequeaths, PutBequeaths, DropBequeaths
<1> QED
  BY <1>3 DEF Take, r

LEMMA AcquiredBequeaths ==
  ASSUME NEW S, NEW f, AllLegal(f, S), NEW s, NEW d, NEW q, NEW given, NEW new,
         NEW g \in Acquired(f, s, d, q, given, new)
  PROVE  Bequeaths(f, g, new)
<1>1. \/ \E t \in DOMAIN f : g = Grow(f, t, q)
      \/ \E r : r.parent = NoParent /\ g = Put(f, new, r)
  <2>1. \A n : AcquireTargets(f, s, d, n) \subseteq DOMAIN f
    BY SameKeyIn DEF AcquireTargets
  <2>2. \A n, c : [def |-> d, stash |-> s, parent |-> NoParent, quantity |-> q,
                   equipped |-> FALSE, attuned |-> FALSE, charges |-> c,
                   notes |-> n].parent = NoParent
    OBVIOUS
  <2> QED
    BY <2>1, <2>2, Zenon DEF Acquired
<1>2. \A r : r.parent = NoParent => Descends(f, r)
  BY DEF Descends
<1> QED
  BY <1>1, <1>2, SameBequeaths, GrowBequeaths, PutBequeaths

(* A unit or a part of a row that is a row of its own.                     *)
LEMMA UnitBequeaths ==
  ASSUME NEW S, NEW f, AllLegal(f, S), NEW new, NEW i \in DOMAIN f, NEW q,
         NEW e, NEW a, NEW n
  PROVE  Bequeaths(f, Put(Take(f, i, q), new,
           [f[i] EXCEPT !.quantity = n, !.equipped = e, !.attuned = a]), new)
<1> DEFINE h == Take(f, i, q)
           r == [f[i] EXCEPT !.quantity = n, !.equipped = e, !.attuned = a]
<1>1. Bequeaths(f, h, new)
  BY TakeBequeaths
<1>2. r.def = f[i].def /\ r.parent = f[i].parent
  BY LegalRow, RowEdits
<1> HIDE DEF r, h
<1>3. Descends(f, r)
  BY <1>2, CopyDescends
<1> QED
  BY <1>1, <1>3, PutBequeaths DEF h, r

LEMMA RestackedBequeaths ==
  ASSUME NEW S, NEW f, AllLegal(f, S), NEW new, NEW i \in DOMAIN f, NEW row,
         row.def = f[i].def, row.parent = f[i].parent, NEW g \in Restacked(f, i, row)
  PROVE  Bequeaths(f, g, new)
<1>1. \/ \E t \in SameKey(f, row.stash, row.def, row.notes) \ {i} :
           g = Grow(Drop(f, i), t, row.quantity)
      \/ g = Put(f, i, row)
  BY Zenon DEF Restacked
<1>2. ASSUME NEW t \in SameKey(f, row.stash, row.def, row.notes) \ {i}
      PROVE  Bequeaths(f, Grow(Drop(f, i), t, row.quantity), new)
  <2> DEFINE h == Drop(f, i)
  <2>1. t \in DOMAIN f /\ h[t] = f[t]
    BY SameKeyIn DEF Drop
  <2>2. Bequeaths(f, h, new)
    BY SameBequeaths, DropBequeaths
  <2> HIDE DEF h
  <2>3. Bequeaths(f, Grow(h, t, row.quantity), new)
    BY <2>1, <2>2, GrowBequeaths
  <2> QED
    BY <2>3 DEF h
<1>3. Bequeaths(f, Put(f, i, row), new)
  BY CopyDescends, SameBequeaths, PutBequeaths
<1> QED
  BY <1>1, <1>2, <1>3

LEMMA EquipmentBequeaths ==
  ASSUME NEW S, NEW f, AllLegal(f, S), NEW i \in DOMAIN f, NEW new,
         NEW g \in Equipped(f, i, new) \union Attuned(f, i, new)
                     \union Unequipped(f, i) \union Unattuned(f, i)
  PROVE  Bequeaths(f, g, new)
<1>1. \A e, a : Bequeaths(f, FlaggedUnit(f, i, e, a, new), new)
  BY UnitBequeaths DEF FlaggedUnit
<1>2. ASSUME NEW row, NEW b,
             row = [f[i] EXCEPT !.equipped = b] \/ row = [f[i] EXCEPT !.attuned = b],
             g \in Restacked(f, i, row)
      PROVE  Bequeaths(f, g, new)
  <2>1. f[i] \in Row
    BY LegalRow
  <2>2. row.def = f[i].def /\ row.parent = f[i].parent
    BY <1>2, <2>1 DEF Row
  <2> QED
    BY <1>2, <2>2, RestackedBequeaths
<1>3. \/ \E e, a : g = FlaggedUnit(f, i, e, a, new)
      \/ \E b : \/ g \in Restacked(f, i, [f[i] EXCEPT !.equipped = b])
                \/ g \in Restacked(f, i, [f[i] EXCEPT !.attuned = b])
  BY Zenon DEF Equipped, Attuned, Unequipped, Unattuned
<1> QED
  BY <1>1, <1>2, <1>3

LEMMA ChargeUsedBequeaths ==
  ASSUME NEW S, NEW f, AllLegal(f, S), NEW i \in DOMAIN f, NEW amount, NEW new
  PROVE  Bequeaths(f, ChargeUsed(f, i, amount), new)
<1>1. ASSUME NEW r, r.def = f[i].def, r.parent = f[i].parent
      PROVE  Bequeaths(f, Put(f, i, r), new)
  BY <1>1, CopyDescends, SameBequeaths, PutBequeaths
<1>2. \A v, w : /\ Bequeaths(f, Put(f, i, WithCharges(f[i], v)), new)
                /\ Bequeaths(f, Put(f, i, WithCharges(WithQuantity(f[i], v), w)), new)
  BY <1>1, LegalRow, RowEdits
<1>3. Bequeaths(f, Drop(f, i), new)
  BY SameBequeaths, DropBequeaths
<1> QED
  BY <1>2, <1>3 DEF ChargeUsed

(***************************************************************************)
(* A transfer that names no parent, the top, or a container for a row that *)
(* is none itself.                                                         *)
(***************************************************************************)
Politely(f, i, parent) ==
  parent \in {Undefined, NoParent} \/ Packable(f, f[i].def, parent)

LEMMA ArrivingDescends ==
  ASSUME NEW S, NEW f, AllLegal(f, S), NEW i \in DOMAIN f, NEW k \in DOMAIN f,
         f[k].def = f[i].def, NEW to, NEW parent \in Nat \union {Undefined},
         Politely(f, i, parent), NEW row \in Row,
         row.def = f[k].def, row.parent = f[k].parent
  PROVE  /\ Descends(f, Arriving(f[i], to, parent, row))
         /\ Arriving(f[i], to, parent, row).def = f[k].def
<1> DEFINE r == Arriving(f[i], to, parent, row)
<1>1. r.def = row.def /\ r.parent = NewParent(f[i], to, parent, row)
  BY LegalRow, ArrivingFields
<1> HIDE DEF r
<1>2. r.def = f[k].def /\ \/ r.parent \in {NoParent, f[k].parent}
                          \/ Packable(f, r.def, r.parent)
  BY <1>1 DEF NewParent, Politely
<1>3. Descends(f, r)
  BY <1>2 DEF Descends
<1> QED
  BY <1>2, <1>3 DEF r

LEMMA TransferredBequeaths ==
  ASSUME NEW S \in SUBSET Stashes, NEW f, AllLegal(f, S), NEW i \in DOMAIN f,
         NEW q \in 1 .. f[i].quantity, NEW to \in S,
         NEW parent \in Nat \union {Undefined}, Politely(f, i, parent), NEW new,
         NEW g \in Transferred(f, i, q, to, parent, new)
  PROVE  Bequeaths(f, g, new)
<1> DEFINE h == Take(f, i, q)
<1>1. Bequeaths(f, h, new)
  BY TakeBequeaths
<1>2. ASSUME NEW t \in StackTargets(f, i, to),
             g = Put(Take(f, i, q), t, StackedRow(f, i, q, to, parent, t))
      PROVE  Bequeaths(f, g, new)
  <2> DEFINE w == WithQuantity(f[t], f[t].quantity + q)
             r == StackedRow(f, i, q, to, parent, t)
  <2>1. t \in DOMAIN f /\ f[t].def = f[i].def
    BY StackTargetsIn
  <2>2. f[t] \in Row /\ f[t].quantity + q \in Nat \ {0}
    BY <2>1, LegalRow
  <2>3. w \in Row /\ w.def = f[t].def /\ w.parent = f[t].parent
    BY <2>2, WithQuantityFields
  <2> HIDE DEF w
  <2>4. Descends(f, r) /\ r.def = f[t].def
    BY <2>1, <2>3, ArrivingDescends DEF StackedRow, w
  <2> HIDE DEF h, r
  <2>5. Bequeaths(f, Put(h, t, r), new)
    BY <1>1, <2>1, <2>4, PutBequeaths
  <2> QED
    BY <1>2, <2>5 DEF h, r
<1>3. CASE g = MovedPart(f, i, q, to, parent, new)
  <2> DEFINE w == WithQuantity(Into(f[i], to), q)
             r == Arriving(f[i], to, parent, w)
  <2>1. f[i] \in Row /\ q \in Nat \ {0}
    BY LegalRow
  <2>2. w \in Row /\ w.def = f[i].def /\ w.parent = f[i].parent
    BY <2>1 DEF Row, Into, WithQuantity
  <2> HIDE DEF w
  <2>3. Descends(f, r)
    BY <2>2, ArrivingDescends
  <2> HIDE DEF h, r
  <2>4. Bequeaths(f, Put(h, new, r), new)
    BY <1>1, <2>3, PutBequeaths
  <2> QED
    BY <1>3, <2>4 DEF MovedPart, h, r, w
<1>4. CASE g = MovedWhole(f, i, to, parent)
  <2> DEFINE a == Arriving(f[i], to, parent, Into(f[i], to))
  <2>1. \A k \in DOMAIN f : /\ Into(f[k], to) \in Row
                            /\ Into(f[k], to).def = f[k].def
                            /\ Into(f[k], to).parent = f[k].parent
    BY LegalRow DEF Row, Into
  <2>2. Descends(f, a) /\ a.def = f[i].def
    BY <2>1, ArrivingDescends
  <2>3. \A k \in DOMAIN f : Descends(f, Into(f[k], to)) /\ Descends(f, f[k])
    BY <2>1, CopyDescends
  <2> HIDE DEF a
  <2>4. /\ DOMAIN g = DOMAIN f /\ g[i] = a
        /\ \A k \in DOMAIN f \ {i} : g[k] \in {f[k], Into(f[k], to)}
    BY <1>4 DEF MovedWhole, a
  <2> QED
    BY <2>1, <2>2, <2>3, <2>4 DEF Bequeaths
<1> QED
  BY <1>2, <1>3, <1>4, TransferredCases

(***************************************************************************)
(* By way of the screens only containers at the top hold anything.         *)
(***************************************************************************)
NestedIn(f, next) ==
  \A k \in DOMAIN f :
    /\ f[k].def \in Containers => f[k].parent = NoParent
    /\ f[k].parent # NoParent =>
         /\ f[k].parent < next
         /\ f[k].parent \in DOMAIN f => f[f[k].parent].def \in Containers

Nested == NestedIn(items, nextId)

LEMMA NestedBequeathed ==
  ASSUME NEW f, NEW g, NEW new \in Nat, NEW next \in Nat, new <= next,
         \A k \in DOMAIN f : k \in Nat /\ k < new /\ f[k].parent \in Nat,
         NestedIn(f, new), Bequeaths(f, g, new)
  PROVE  NestedIn(g, next)
<1> SUFFICES ASSUME NEW k \in DOMAIN g
             PROVE  /\ g[k].def \in Containers => g[k].parent = NoParent
                    /\ g[k].parent # NoParent =>
                         /\ g[k].parent < next
                         /\ g[k].parent \in DOMAIN g => g[g[k].parent].def \in Containers
  BY DEF NestedIn
<1> DEFINE p == g[k].parent
<1>1. Descends(f, g[k])
  BY DEF Bequeaths
<1>2. CASE p = NoParent
  BY <1>2
<1>3. CASE p # NoParent
  <2>1. /\ g[k].def \notin Containers
        /\ p \in Nat /\ p < new /\ (p \in DOMAIN f => f[p].def \in Containers)
    <3>1. CASE \E i \in DOMAIN f : g[k].def = f[i].def /\ p = f[i].parent
      BY <1>3, <3>1 DEF NestedIn
    <3>2. CASE Packable(f, g[k].def, p)
      BY <3>2 DEF Packable
    <3> QED
      BY <1>1, <1>3, <3>1, <3>2 DEF Descends
  <2>2. p # new /\ p < next
    BY <2>1
  <2>3. p \in DOMAIN g => g[p].def \in Containers
    BY <2>1, <2>2 DEF Bequeaths
  <2> QED
    BY <2>1, <2>2, <2>3
<1> QED
  BY <1>2, <1>3

LEMMA NestedNext ==
  ASSUME Inv, Fresh, Nested, [ScreensNext]_vars
  PROVE  Nested'
<1> USE InvFacts
<1>1. /\ Inv /\ nextId \in Nat /\ nextId' \in Nat /\ nextId <= nextId'
  <2>1. [AnyNext]_vars
    BY StoreIsAny DEF StoreNext
  <2>2. Minting /\ nextId \in Nat
    BY <2>1, StepPlaces, BoundsAssumption
  <2> QED
    BY <2>2 DEF Minting, Mint
<1>2. \A k \in DOMAIN items : k \in Nat /\ k < nextId /\ items[k].parent \in Nat
  BY LegalRow, RowFields DEF RowIds, Fresh
<1>3. ASSUME Bequeaths(items, items', nextId)
      PROVE  Nested'
  <2>1. NestedIn(items', nextId')
    BY <1>1, <1>2, <1>3, NestedBequeathed DEF Nested
  <2> QED
    BY <2>1 DEF Nested
<1>4. ASSUME NEW s, NEW d, NEW q, NEW given, Acquire(s, d, q, given)
      PROVE  Bequeaths(items, items', nextId)
  BY <1>4, AcquiredBequeaths DEF Acquire
<1>5. ASSUME NEW i \in DOMAIN items, NEW q, NEW to \in stashes,
             NEW parent \in Nat \union {Undefined}, Politely(items, i, parent),
             Transfer(i, q, to, parent)
      PROVE  Bequeaths(items, items', nextId)
  <2>1. q \in 1 .. items[i].quantity
    BY <1>5 DEF Transfer, CanTransfer
  <2> QED
    BY <1>5, <2>1, TransferredBequeaths DEF Transfer
<1>6. ASSUME NEW i \in DOMAIN items, OfRow(i)
      PROVE  Bequeaths(items, items', nextId)
  <2>1. ASSUME NEW q, Consume(i, q)
        PROVE  Bequeaths(items, items', nextId)
    BY <2>1, TakeBequeaths DEF Consume
  <2>2. ASSUME NEW q, Split(i, q)
        PROVE  Bequeaths(items, items', nextId)
    BY <2>2, UnitBequeaths DEF Split, SplitOff
  <2>3. /\ Politely(items, i, Undefined) /\ Politely(items, i, NoParent)
        /\ Undefined \in Nat \union {Undefined} /\ NoParent \in Nat \union {Undefined}
    BY DEF Politely, NoParent
  <2>4. \A p \in packTargets(i) : /\ p \in Nat \union {Undefined}
                                  /\ ~isContainer(i) => Politely(items, i, p)
    BY <1>2 DEF packTargets, isContainer, Lying, Politely, Packable
  <2>5. items[i].stash \in stashes
    BY LegalRow
  <2> QED
    BY <1>4, <1>5, <1>6, <2>1, <2>2, <2>3, <2>4, <2>5 DEF OfRow
<1>7. ASSUME NEW i \in DOMAIN items, OfCharacter(i)
      PROVE  Bequeaths(items, items', nextId)
  <2>1. items' \in Equipped(items, i, nextId) \union Attuned(items, i, nextId)
                    \union Unequipped(items, i) \union Unattuned(items, i)
    BY <1>7 DEF OfCharacter, Equip, Unequip, Attune, Unattune
  <2> QED
    BY <2>1, EquipmentBequeaths
<1>8. ASSUME NEW i \in DOMAIN items, NEW r, items' = Put(items, i, r),
             r.def = items[i].def, r.parent = items[i].parent
      PROVE  Bequeaths(items, items', nextId)
  BY <1>8, CopyDescends, SameBequeaths, PutBequeaths
<1>9. ASSUME NEW i \in DOMAIN items, OfPage(i)
      PROVE  Bequeaths(items, items', nextId)
  <2>1. items[i] \in Row
    BY LegalRow
  <2>2. ASSUME NEW n, EditNotes(i, n)
        PROVE  Bequeaths(items, items', nextId)
    BY <1>8, <2>1, <2>2, RowEdits DEF EditNotes
  <2>3. ASSUME NEW amount, RechargeOne(i, amount)
        PROVE  Bequeaths(items, items', nextId)
    BY <1>8, <2>1, <2>3, RowEdits DEF RechargeOne
  <2>4. CASE UseCharge(i, 1)
    BY <2>4, ChargeUsedBequeaths DEF UseCharge
  <2> QED
    BY <1>9, <2>2, <2>3, <2>4 DEF OfPage
<1>10. ASSUME NEW s, NEW amounts, RechargeAll(s, amounts)
       PROVE  Bequeaths(items, items', nextId)
  <2>1. \A k \in DOMAIN items :
          \A v : /\ WithCharges(items[k], v).def = items[k].def
                /\ WithCharges(items[k], v).parent = items[k].parent
    BY LegalRow, RowEdits
  <2>2. DOMAIN items' = DOMAIN items
        /\ \A k \in DOMAIN items : /\ items'[k].def = items[k].def
                                   /\ items'[k].parent = items[k].parent
    BY <1>10, <2>1 DEF RechargeAll
  <2>3. \A k \in DOMAIN items : Descends(items, items'[k])
    BY <2>2 DEF Descends
  <2> QED
    BY <2>2, <2>3 DEF Bequeaths
<1>11. CASE PurseStep
  <2>1. \A k \in DOMAIN items : /\ Into(items[k], RecoveredLoot).def = items[k].def
                                /\ Into(items[k], RecoveredLoot).parent = items[k].parent
    BY LegalRow DEF Row, Into
  <2>2. DOMAIN items' = DOMAIN items
        /\ \A k \in DOMAIN items : /\ items'[k].def = items[k].def
                                   /\ items'[k].parent = items[k].parent
    BY <1>11, <2>1 DEF PurseStep, DeleteStash, CreateStash, CurrencyChange, CurrencyTransfer
  <2>3. \A k \in DOMAIN items : Descends(items, items'[k])
    BY <2>2 DEF Descends
  <2> QED
    BY <1>3, <2>2, <2>3 DEF Bequeaths
<1>12. CASE UNCHANGED vars
  <2>1. items' = items
    BY <1>12 DEF vars
  <2>2. \A k \in DOMAIN items : Descends(items, items'[k])
    BY <2>1 DEF Descends
  <2> QED
    BY <1>3, <2>1, <2>2 DEF Bequeaths
<1>13. CASE ScreensNext
  <2>1. \A k \in DOMAIN items : items[k].quantity \in Nat \ {0}
    BY LegalRow
  <2>2. \/ \E i \in DOMAIN items : OfRow(i) \/ OfCharacter(i) \/ OfPage(i)
        \/ \E s \in stashes, d \in Defs, q \in Quantities : Acquire(s, d, q, Undefined)
        \/ \E s \in Inventories :
             \E amounts \in [DOMAIN items -> Nat \union {Undefined}] : RechargeAll(s, amounts)
        \/ PurseStep
    BY <1>13, <2>1, Screened
  <2>3. CASE \E i \in DOMAIN items : OfRow(i) \/ OfCharacter(i) \/ OfPage(i)
    BY <1>3, <1>6, <1>7, <1>9, <2>3
  <2>4. CASE \E s \in stashes, d \in Defs, q \in Quantities : Acquire(s, d, q, Undefined)
    BY <1>3, <1>4, <2>4
  <2>5. CASE \E s \in Inventories :
               \E amounts \in [DOMAIN items -> Nat \union {Undefined}] : RechargeAll(s, amounts)
    BY <1>3, <1>10, <2>5
  <2> QED
    BY <1>11, <2>2, <2>3, <2>4, <2>5, Zenon
<1> QED
  BY <1>12, <1>13

(* A row below the top lies right in a row at the top.                     *)
LEMMA NestedShown == ASSUME Inv, Nested PROVE EveryRowIsShown
<1> USE InvFacts
<1> SUFFICES ASSUME NEW s \in stashes, NEW listed \in SUBSET Lying(items, s),
                    NEW matches \in SUBSET listed, NEW k \in matches
             PROVE  k \in tops(listed) \/ \E p \in tops(listed) : k \in children(listed, p)
  BY DEF EveryRowIsShown, displayRows
<1> DEFINE p == items[k].parent
<1>1. k \in listed /\ k \in DOMAIN items /\ listed \subseteq DOMAIN items
  BY DEF Lying
<1>2. CASE p \notin listed
  BY <1>1, <1>2 DEF tops
<1>3. CASE p \in listed
  <2>1. p \in DOMAIN items /\ p # NoParent
    BY <1>1, <1>3 DEF RowIds, NoParent
  <2>2. items[p].parent = NoParent
    BY <1>1, <2>1 DEF Nested, NestedIn
  <2>3. NoParent \notin listed
    BY <1>1 DEF RowIds, NoParent
  <2>4. p \in tops(listed) /\ k \in children(listed, p)
    BY <1>1, <1>3, <2>2, <2>3 DEF tops, children
  <2> QED
    BY <2>4
<1> QED
  BY <1>2, <1>3

-----------------------------------------------------------------------------
(***************************************************************************)
(* What the rows of an inventory weigh.  LoadOf is the weight of each row  *)
(* of S, nothing for the rows elsewhere and those in a flatWeight row.     *)
(***************************************************************************)
Mass(r) == Weight[r.def] * r.quantity

Weighed(f, s) == Lying(f, s) \ Weightless(f, s)

LoadOf(f, s, S) == [k \in S |-> IF k \in Weighed(f, s) THEN Mass(f[k]) ELSE 0]

LEMMA MassNat ==
  ASSUME NEW r \in Row
  PROVE  Mass(r) \in Nat
<1>1. Weight[r.def] \in Nat /\ r.quantity \in Nat
  BY RowFields, DefsAssumption
<1>2. \A m, n \in Nat : m * n \in Nat
  OBVIOUS
<1> QED
  BY <1>1, <1>2 DEF Mass

LEMMA LoadNat ==
  ASSUME NEW f, FiniteRows(f), NEW s, NEW S, DOMAIN f \subseteq S
  PROVE  /\ Weighed(f, s) \subseteq DOMAIN f
         /\ \A k \in S : LoadOf(f, s, S)[k] \in Nat
<1>1. Weighed(f, s) \subseteq DOMAIN f
  BY DEF Weighed, Lying
<1> QED
  BY <1>1, MassNat DEF LoadOf, FiniteRows

LEMMA CarriedSum ==
  ASSUME NEW f, NEW s, IsFiniteSet(Weighed(f, s))
  PROVE  CarriedWeight(f, s) = Total([k \in Weighed(f, s) |-> Mass(f[k])], Weighed(f, s))
<1> DEFINE S == Weighed(f, s)
           h == [k \in S |-> Mass(f[k])]
           sum[T \in SUBSET S] == IF T = {} THEN 0 ELSE
             LET x == CHOOSE x \in T : TRUE
             IN  Weight[f[x].def] * f[x].quantity + sum[T \ {x}]
<1>1. CarriedWeight(f, s) = sum[S]
  BY DEF CarriedWeight, Weighed, MapThenSumSet, MapThenFoldSet
<1>2. PICK g : IsSum(g, h, S)
  BY SumExists
<1>3. \A T \in SUBSET S : T # {} => h[Pick(T)] = Weight[f[Pick(T)].def] * f[Pick(T)].quantity
  BY PickIn DEF Mass
<1> HIDE DEF h, S
<1>4. g = [T \in SUBSET S |-> IF T = {} THEN 0 ELSE
             Weight[f[Pick(T)].def] * f[Pick(T)].quantity + g[T \ {Pick(T)}]]
  BY <1>2, <1>3 DEF IsSum
<1>5. sum = [T \in SUBSET S |-> IF T = {} THEN 0 ELSE
               LET x == CHOOSE x \in T : TRUE
               IN  Weight[f[x].def] * f[x].quantity + sum[T \ {x}]]
  <2>1. g = [T \in SUBSET S |-> IF T = {} THEN 0 ELSE
               LET x == CHOOSE x \in T : TRUE
               IN  Weight[f[x].def] * f[x].quantity + g[T \ {x}]]
    BY <1>4 DEF Pick
  <2> QED
    BY <2>1
<1> HIDE DEF sum
<1>6. sum = [T \in SUBSET S |-> IF T = {} THEN 0 ELSE
               Weight[f[Pick(T)].def] * f[Pick(T)].quantity + sum[T \ {Pick(T)}]]
  BY <1>5 DEF Pick
<1>7. IsSum(sum, h, S)
  BY <1>3, <1>6 DEF IsSum
<1>8. Total(h, S) = sum[S]
  BY <1>7, TotalIsSum DEF S
<1> QED
  BY <1>1, <1>8 DEF h, S

LEMMA CarriedTotal ==
  ASSUME NEW f, FiniteRows(f), NEW s, NEW S, IsFiniteSet(S), DOMAIN f \subseteq S
  PROVE  /\ CarriedWeight(f, s) = Total(LoadOf(f, s, S), S)
         /\ CarriedWeight(f, s) \in Nat
<1> DEFINE C == Weighed(f, s)
           load == LoadOf(f, s, S)
<1>1. C \subseteq S /\ \A k \in S : load[k] \in Nat
  BY LoadNat
<1>2. IsFiniteSet(C)
  BY <1>1, FS_Subset
<1>3. /\ \A k \in S \ C : load[k] = 0
      /\ \A k \in C : load[k] = [j \in C |-> Mass(f[j])][k]
  BY <1>1 DEF LoadOf
<1>4. CarriedWeight(f, s) = Total([k \in C |-> Mass(f[k])], C)
  BY <1>2, CarriedSum
<1> HIDE DEF C, load
<1>5. Total(load, C) = Total([j \in C |-> Mass(f[j])], C)
  BY <1>2, <1>3, TotalAgrees
<1>6. Total(load, S) = Total(load, C)
  <2>1. \A k \in S : load[k] \in Int
    BY <1>1
  <2> QED
    BY <1>1, <1>3, <2>1, TotalSupport
<1>7. Total(load, S) \in Nat
  BY <1>1, TotalNat
<1> QED
  BY <1>4, <1>5, <1>6, <1>7 DEF load

(***************************************************************************)
(* No flatWeight row of an inventory goes; the rows there are left alone   *)
(* or get lighter, but for two.                                            *)
(***************************************************************************)
BagsStay(f, g, s) == \A x \in Lying(f, s) \ Lying(g, s) : f[x].def \notin FlatWeight

Lighter(r, n) == n.def = r.def /\ n.parent = r.parent /\ n.quantity <= r.quantity

Dwindles(f, g, s, T) ==
  \A k \in Lying(g, s) \ T : k \in Lying(f, s) /\ Lighter(f[k], g[k])

LEMMA MassLighter ==
  ASSUME NEW r \in Row, NEW n \in Row, Lighter(r, n)
  PROVE  Mass(n) <= Mass(r)
<1>1. /\ Weight[r.def] \in Nat /\ r.quantity \in Nat /\ n.quantity \in Nat
      /\ n.def = r.def /\ n.quantity <= r.quantity
  BY RowFields, DefsAssumption DEF Lighter
<1>2. \A w, m, k \in Nat : m <= k => w * m <= w * k
  OBVIOUS
<1> QED
  BY <1>1, <1>2 DEF Mass

(* A row that counts counted before.                                       *)
LEMMA CarriedBefore ==
  ASSUME NEW f, NEW g, NEW s, BagsStay(f, g, s),
         \A x \in Lying(f, s) \intersect Lying(g, s) :
           f[x].def \in FlatWeight => g[x].def \in FlatWeight,
         NEW k \in Weighed(g, s), NEW j \in Lying(f, s), f[j].parent = g[k].parent
  PROVE  j \in Weighed(f, s)
BY DEF Weighed, Weightless, BagsStay

LEMMA LoadShrinks ==
  ASSUME NEW f, FiniteRows(f), NEW g, FiniteRows(g), NEW s, NEW T, Dwindles(f, g, s, T),
         BagsStay(f, g, s),
         \A x \in Lying(f, s) \intersect Lying(g, s) :
           f[x].def \in FlatWeight => g[x].def \in FlatWeight,
         NEW S, DOMAIN f \subseteq S, DOMAIN g \subseteq S, NEW k \in S \ T
  PROVE  LoadOf(g, s, S)[k] <= LoadOf(f, s, S)[k]
<1>1. CASE k \in Weighed(g, s)
  <2>1. k \in Lying(g, s) /\ k \in Lying(f, s) /\ Lighter(f[k], g[k])
    BY <1>1 DEF Weighed, Dwindles
  <2>2. k \in Weighed(f, s)
    BY <1>1, <2>1, CarriedBefore DEF Lighter
  <2>3. f[k] \in Row /\ g[k] \in Row
    BY <2>1 DEF Lying, FiniteRows
  <2> QED
    BY <1>1, <2>1, <2>2, <2>3, MassLighter DEF LoadOf
<1>2. CASE k \notin Weighed(g, s)
  <2>1. LoadOf(f, s, S)[k] \in Nat
    BY LoadNat
  <2> QED
    BY <1>2, <2>1 DEF LoadOf
<1> QED
  BY <1>1, <1>2

LEMMA DwindlingLight ==
  ASSUME NEW f, FiniteRows(f), NEW g, FiniteRows(g), NEW s, Dwindles(f, g, s, {}),
         BagsStay(f, g, s)
  PROVE  CarriedWeight(g, s) <= CarriedWeight(f, s)
<1> DEFINE S == DOMAIN f \union DOMAIN g
           u == LoadOf(f, s, S)
           v == LoadOf(g, s, S)
<1>1. IsFiniteSet(S)
  BY FS_Union DEF FiniteRows
<1>2. \A x \in Lying(f, s) \intersect Lying(g, s) :
        f[x].def \in FlatWeight => g[x].def \in FlatWeight
  BY DEF Dwindles, Lighter
<1>3. \A k \in S : v[k] <= u[k]
  BY <1>2, LoadShrinks
<1>4. \A k \in S : u[k] \in Int /\ v[k] \in Int
  BY LoadNat
<1>5. CarriedWeight(f, s) = Total(u, S) /\ CarriedWeight(g, s) = Total(v, S)
  BY <1>1, CarriedTotal
<1> HIDE DEF S, u, v
<1> QED
  BY <1>1, <1>3, <1>4, <1>5, TotalAtMost

(***************************************************************************)
(* Two rows of the same definition in the same place that share the units  *)
(* they had, one of them being new or going with its last unit.            *)
(***************************************************************************)
Held(f, s, k) == IF k \in Lying(f, s) THEN f[k].quantity ELSE 0

Alike(f, s, k, d, p) == k \in Lying(f, s) => f[k].def = d /\ f[k].parent = p

LEMMA PairLoad ==
  ASSUME NEW f, FiniteRows(f), NEW g, FiniteRows(g), NEW s, BagsStay(f, g, s),
         \A x \in Lying(f, s) \intersect Lying(g, s) :
           f[x].def \in FlatWeight => g[x].def \in FlatWeight,
         NEW S, DOMAIN f \subseteq S, DOMAIN g \subseteq S,
         NEW a \in S, NEW b \in S, NEW d \in Defs, NEW p,
         Alike(f, s, a, d, p), Alike(f, s, b, d, p),
         Alike(g, s, a, d, p), Alike(g, s, b, d, p),
         Held(g, s, a) + Held(g, s, b) <= Held(f, s, a) + Held(f, s, b)
  PROVE  LoadOf(g, s, S)[a] + LoadOf(g, s, S)[b]
           <= LoadOf(f, s, S)[a] + LoadOf(f, s, S)[b]
<1> DEFINE flat == \E x \in Lying(f, s) : x = p /\ f[x].def \in FlatWeight
           w == Weight[d]
           u == LoadOf(f, s, S)
           v == LoadOf(g, s, S)
<1>1. /\ w \in Nat
      /\ u[a] \in Nat /\ u[b] \in Nat /\ v[a] \in Nat /\ v[b] \in Nat
  BY LoadNat, DefsAssumption
<1>2. /\ Held(f, s, a) \in Nat /\ Held(f, s, b) \in Nat
      /\ Held(g, s, a) \in Nat /\ Held(g, s, b) \in Nat
  BY RowFields DEF Held, Lying, FiniteRows
<1>3. CASE flat
  <2>1. p \in Lying(g, s) /\ g[p].def \in FlatWeight
    BY <1>3 DEF BagsStay
  <2>2. a \notin Weighed(g, s) /\ b \notin Weighed(g, s)
    BY <2>1 DEF Weighed, Weightless, Alike
  <2>3. v[a] = 0 /\ v[b] = 0
    BY <2>2 DEF LoadOf
  <2> QED
    BY <1>1, <2>3
<1>4. CASE ~flat
  <2>1. ASSUME NEW k \in S, Alike(f, s, k, d, p)
        PROVE  u[k] = w * Held(f, s, k)
    <3>1. CASE k \in Lying(f, s)
      <4>1. k \in Weighed(f, s)
        BY <1>4, <2>1, <3>1 DEF Weighed, Weightless, Alike
      <4> QED
        BY <2>1, <3>1, <4>1 DEF LoadOf, Mass, Held, Alike
    <3>2. CASE k \notin Lying(f, s)
      <4>1. k \notin Weighed(f, s)
        BY <3>2 DEF Weighed
      <4>2. u[k] = 0 /\ Held(f, s, k) = 0
        BY <3>2, <4>1 DEF LoadOf, Held
      <4> QED
        BY <1>1, <4>2
    <3> QED
      BY <3>1, <3>2
  <2>2. ASSUME NEW k \in S, Alike(g, s, k, d, p), Held(g, s, k) \in Nat
        PROVE  v[k] <= w * Held(g, s, k)
    <3>1. CASE k \in Weighed(g, s)
      <4>1. v[k] = w * Held(g, s, k)
        BY <2>2, <3>1 DEF LoadOf, Mass, Held, Alike, Weighed
      <4>2. v[k] \in Nat
        BY LoadNat
      <4> QED
        BY <4>1, <4>2
    <3>2. CASE k \notin Weighed(g, s)
      <4>1. v[k] = 0
        BY <3>2 DEF LoadOf
      <4>2. \A m, n \in Nat : m * n \in Nat
        OBVIOUS
      <4> QED
        BY <1>1, <2>2, <4>1, <4>2
    <3> QED
      BY <3>1, <3>2
  <2>3. /\ u[a] = w * Held(f, s, a) /\ u[b] = w * Held(f, s, b)
        /\ v[a] <= w * Held(g, s, a) /\ v[b] <= w * Held(g, s, b)
    BY <1>2, <2>1, <2>2
  <2>4. \A n, ha, hb, ka, kb \in Nat :
          ka + kb <= ha + hb => n * ka + n * kb <= n * ha + n * hb
    <3>1. \A n, h, k \in Nat : h <= k => n * h <= n * k
      OBVIOUS
    <3>2. \A n, h, k \in Nat : n * (h + k) = n * h + n * k
      OBVIOUS
    <3>3. \A h, k \in Nat : h + k \in Nat
      OBVIOUS
    <3> QED
      BY <3>1, <3>2, <3>3
  <2>5. \A m, n \in Nat : m * n \in Nat
    OBVIOUS
  <2> HIDE DEF u, v, w
  <2>6. w * Held(g, s, a) + w * Held(g, s, b) <= w * Held(f, s, a) + w * Held(f, s, b)
    BY <1>1, <1>2, <2>4
  <2>7. /\ w * Held(g, s, a) \in Nat /\ w * Held(g, s, b) \in Nat
        /\ w * Held(f, s, a) \in Nat /\ w * Held(f, s, b) \in Nat
    BY <1>1, <1>2, <2>5
  <2>8. v[a] + v[b] <= u[a] + u[b]
    BY <1>1, <2>3, <2>6, <2>7
  <2> QED
    BY <2>8 DEF u, v
<1> QED
  BY <1>3, <1>4

LEMMA PairLight ==
  ASSUME NEW f, FiniteRows(f), NEW g, FiniteRows(g), NEW s, BagsStay(f, g, s),
         NEW a, NEW b, a # b, Dwindles(f, g, s, {a, b}), NEW d \in Defs, NEW p,
         Alike(f, s, a, d, p), Alike(f, s, b, d, p),
         Alike(g, s, a, d, p), Alike(g, s, b, d, p),
         Held(g, s, a) + Held(g, s, b) <= Held(f, s, a) + Held(f, s, b)
  PROVE  CarriedWeight(g, s) <= CarriedWeight(f, s)
<1> DEFINE S == (DOMAIN f \union DOMAIN g) \union {a, b}
           u == LoadOf(f, s, S)
           v == LoadOf(g, s, S)
<1>1. IsFiniteSet(S)
  <2>1. IsFiniteSet({a, b})
    <3>1. IsFiniteSet({a})
      BY FS_Singleton
    <3>2. {a, b} = {a} \union {b}
      OBVIOUS
    <3> QED
      BY <3>1, <3>2, FS_AddElement
  <2> QED
    BY <2>1, FS_Union DEF FiniteRows
<1>2. \A x \in Lying(f, s) \intersect Lying(g, s) :
        f[x].def \in FlatWeight => g[x].def \in FlatWeight
  BY DEF Dwindles, Lighter, Alike
<1>3. \A k \in S \ {a, b} : v[k] <= u[k]
  BY <1>2, LoadShrinks
<1>4. \A k \in S : u[k] \in Int /\ v[k] \in Int
  BY LoadNat
<1>5. CarriedWeight(f, s) = Total(u, S) /\ CarriedWeight(g, s) = Total(v, S)
  BY <1>1, CarriedTotal
<1>6. v[a] + v[b] <= u[a] + u[b]
  BY <1>2, PairLoad
<1>7. a \in S /\ b \in S
  OBVIOUS
<1> HIDE DEF S, u, v
<1> DEFINE R == S \ {a, b}
<1>8. IsFiniteSet(S \ {a}) /\ IsFiniteSet(R) /\ (S \ {a}) \ {b} = R /\ b \in S \ {a}
  BY <1>1, <1>7, FS_Subset
<1>9. ASSUME NEW h, \A k \in S : h[k] \in Int
      PROVE  Total(h, S) = h[a] + h[b] + Total(h, R) /\ Total(h, R) \in Int
  <2>1. Total(h, S) = h[a] + Total(h, S \ {a})
    BY <1>1, <1>7, <1>9, TotalRemove
  <2>2. Total(h, S \ {a}) = h[b] + Total(h, (S \ {a}) \ {b})
    BY <1>8, <1>9, TotalRemove
  <2>3. Total(h, S \ {a}) = h[b] + Total(h, R)
    BY <1>8, <2>2
  <2>4. Total(h, R) \in Int
    BY <1>8, <1>9, TotalInt
  <2>5. h[a] \in Int /\ h[b] \in Int
    BY <1>7, <1>9
  <2> HIDE DEF R
  <2> QED
    BY <2>1, <2>3, <2>4, <2>5
<1>10. Total(v, R) <= Total(u, R)
  BY <1>3, <1>4, <1>8, TotalAtMost
<1>11. /\ Total(u, S) = u[a] + u[b] + Total(u, R) /\ Total(u, R) \in Int
       /\ Total(v, S) = v[a] + v[b] + Total(v, R) /\ Total(v, R) \in Int
  BY <1>4, <1>9
<1>12. u[a] \in Int /\ u[b] \in Int /\ v[a] \in Int /\ v[b] \in Int
  BY <1>4, <1>7
<1> HIDE DEF R
<1> QED
  BY <1>5, <1>6, <1>10, <1>11, <1>12

(***************************************************************************)
(* The rules.  The rows of an inventory that a rule leaves get no heavier  *)
(* when its units come from them.                                          *)
(***************************************************************************)
LEMMA PutDwindles ==
  ASSUME NEW f, NEW i \in DOMAIN f, NEW r, r.stash = f[i].stash, Lighter(f[i], r),
         \A k \in DOMAIN f : f[k].quantity \in Nat, NEW s
  PROVE  Dwindles(f, Put(f, i, r), s, {})
BY DEF Dwindles, Put, Lying, Lighter

LEMMA DropDwindles ==
  ASSUME NEW f, NEW i, \A k \in DOMAIN f : f[k].quantity \in Nat, NEW s
  PROVE  Dwindles(f, Drop(f, i), s, {})
BY DEF Dwindles, Drop, Lying, Lighter

LEMMA TakeDwindles ==
  ASSUME NEW S, NEW f, AllLegal(f, S), NEW i \in DOMAIN f, NEW q \in 1 .. f[i].quantity, NEW s
  PROVE  Dwindles(f, Take(f, i, q), s, {})
<1> DEFINE r == WithQuantity(f[i], f[i].quantity - q)
<1>1. \A k \in DOMAIN f : f[k].quantity \in Nat
  BY LegalRow
<1>2. CASE q = f[i].quantity
  BY <1>1, <1>2, DropDwindles DEF Take
<1>3. CASE q # f[i].quantity
  <2>1. f[i] \in Row /\ f[i].quantity \in Nat /\ f[i].quantity - q \in Nat \ {0}
    BY <1>3, LegalRow
  <2>2. r.stash = f[i].stash /\ r.def = f[i].def /\ r.parent = f[i].parent
        /\ r.quantity = f[i].quantity - q
    BY <2>1, WithQuantityFields, QuantityFields
  <2>3. Lighter(f[i], r)
    BY <2>1, <2>2 DEF Lighter
  <2>4. Take(f, i, q) = Put(f, i, r)
    BY <1>3 DEF Take
  <2> HIDE DEF r
  <2> QED
    BY <1>1, <2>2, <2>3, <2>4, PutDwindles
<1> QED
  BY <1>2, <1>3

(* A unit or a part of a row that becomes a row of its own beside it.      *)
LEMMA UnitLight ==
  ASSUME NEW S, NEW f, AllLegal(f, S), IsFiniteSet(DOMAIN f), NEW i \in DOMAIN f,
         NEW q \in 1 .. f[i].quantity, q # f[i].quantity, NEW new, new \notin DOMAIN f,
         NEW e \in BOOLEAN, NEW a \in BOOLEAN, NEW g,
         g = Put(Take(f, i, q), new,
                 [f[i] EXCEPT !.quantity = q, !.equipped = e, !.attuned = a]),
         NEW s, BagsStay(f, g, s)
  PROVE  CarriedWeight(g, s) <= CarriedWeight(f, s)
<1> DEFINE h == Take(f, i, q)
           r == [f[i] EXCEPT !.quantity = q, !.equipped = e, !.attuned = a]
           w == WithQuantity(f[i], f[i].quantity - q)
<1>1. /\ f[i] \in Row /\ f[i].quantity \in Nat /\ q \in Nat \ {0} /\ f[i].def \in Defs
      /\ f[i].quantity - q \in Nat \ {0}
  BY LegalRow
<1>2. /\ r \in Row /\ r.def = f[i].def /\ r.parent = f[i].parent /\ r.stash = f[i].stash
      /\ r.quantity = q
  BY <1>1 DEF Row
<1>3. /\ w \in Row /\ w.def = f[i].def /\ w.parent = f[i].parent /\ w.stash = f[i].stash
      /\ w.quantity = f[i].quantity - q
  BY <1>1, WithQuantityFields, QuantityFields
<1>4. h = Put(f, i, w)
  BY DEF Take
<1> HIDE DEF r, w, h
<1>5. g = Put(h, new, r)
  BY DEF h, r
<1>6. /\ DOMAIN g = DOMAIN f \union {new} /\ g[new] = r /\ g[i] = w
      /\ \A k \in DOMAIN f \ {i} : g[k] = f[k]
  BY <1>4, <1>5 DEF Put
<1>7. FiniteRows(f)
  BY LegalFiniteRows
<1>8. FiniteRows(g)
  BY <1>2, <1>3, <1>6, <1>7, FS_AddElement DEF FiniteRows
<1>9. i # new
  OBVIOUS
<1>10. Dwindles(f, g, s, {i, new})
  BY <1>6, <1>7, RowFields DEF Dwindles, Lying, Lighter, FiniteRows
<1> DEFINE d == f[i].def
           p == f[i].parent
<1>11. /\ Alike(f, s, i, d, p) /\ Alike(f, s, new, d, p)
       /\ Alike(g, s, i, d, p) /\ Alike(g, s, new, d, p)
  BY <1>2, <1>3, <1>6 DEF Alike, Lying
<1>12. Held(g, s, i) + Held(g, s, new) <= Held(f, s, i) + Held(f, s, new)
  BY <1>1, <1>2, <1>3, <1>6 DEF Held, Lying
<1> QED
  BY <1>1, <1>7, <1>8, <1>9, <1>10, <1>11, <1>12, PairLight

LEMMA RestackedLight ==
  ASSUME NEW S, NEW f, AllLegal(f, S), IsFiniteSet(DOMAIN f), NEW i \in DOMAIN f,
         NEW row \in Row, row.def = f[i].def, row.parent = f[i].parent,
         row.stash = f[i].stash, row.quantity = f[i].quantity,
         NEW g \in Restacked(f, i, row), NEW s, BagsStay(f, g, s)
  PROVE  CarriedWeight(g, s) <= CarriedWeight(f, s)
<1>1. FiniteRows(f)
  BY LegalFiniteRows
<1>2. f[i] \in Row /\ f[i].quantity \in Nat \ {0} /\ f[i].def \in Defs
  BY LegalRow
<1>3. ASSUME NEW t \in DOMAIN f \ {i}, f[t].def = row.def, f[t].stash = row.stash,
             f[t].parent = row.parent, g = Grow(Drop(f, i), t, row.quantity)
      PROVE  CarriedWeight(g, s) <= CarriedWeight(f, s)
  <2> DEFINE h == Drop(f, i)
             w == WithQuantity(f[t], f[t].quantity + row.quantity)
  <2>1. /\ DOMAIN h = DOMAIN f \ {i} /\ h[t] = f[t]
        /\ \A k \in DOMAIN h : h[k] = f[k]
    BY DEF Drop
  <2>2. /\ f[t] \in Row /\ f[t].quantity \in Nat
        /\ f[t].quantity + row.quantity \in Nat \ {0}
    BY <1>2, LegalRow
  <2>3. /\ w \in Row /\ w.def = f[t].def /\ w.parent = f[t].parent /\ w.stash = f[t].stash
        /\ w.quantity = f[t].quantity + row.quantity
    BY <2>2, WithQuantityFields, QuantityFields
  <2>4. g = Put(h, t, w)
    BY <1>3, <2>1 DEF Grow
  <2> HIDE DEF h, w
  <2>5. /\ DOMAIN g = DOMAIN f \ {i} /\ g[t] = w
        /\ \A k \in DOMAIN g \ {t} : g[k] = f[k]
    BY <2>1, <2>4 DEF Put
  <2>6. FiniteRows(g)
    BY <1>1, <2>3, <2>5, FS_Subset DEF FiniteRows
  <2>7. Dwindles(f, g, s, {i, t})
    BY <1>1, <2>5, RowFields DEF Dwindles, Lying, Lighter, FiniteRows
  <2> DEFINE d == f[i].def
             p == f[i].parent
  <2>8. /\ Alike(f, s, i, d, p) /\ Alike(f, s, t, d, p)
        /\ Alike(g, s, i, d, p) /\ Alike(g, s, t, d, p)
    BY <1>3, <2>3, <2>5 DEF Alike, Lying
  <2>9. Held(g, s, i) + Held(g, s, t) <= Held(f, s, i) + Held(f, s, t)
    BY <1>2, <1>3, <2>2, <2>3, <2>5 DEF Held, Lying
  <2>10. i # t
    OBVIOUS
  <2> QED
    BY <1>1, <1>2, <2>6, <2>7, <2>8, <2>9, <2>10, PairLight
<1>4. CASE g = Put(f, i, row)
  <2>1. /\ DOMAIN g = DOMAIN f /\ g[i] = row
        /\ \A k \in DOMAIN f \ {i} : g[k] = f[k]
    BY <1>4 DEF Put
  <2>2. FiniteRows(g)
    BY <1>1, <2>1 DEF FiniteRows
  <2>3. \A k \in DOMAIN f : f[k].quantity \in Nat
    BY LegalRow
  <2>4. Lighter(f[i], row)
    BY <1>2 DEF Lighter
  <2>5. Dwindles(f, g, s, {})
    BY <1>4, <2>3, <2>4, PutDwindles
  <2> QED
    BY <1>1, <2>2, <2>5, DwindlingLight
<1>5. \/ g = Put(f, i, row)
      \/ \E t \in DOMAIN f \ {i} :
           /\ f[t].def = row.def /\ f[t].stash = row.stash /\ f[t].parent = row.parent
           /\ g = Grow(Drop(f, i), t, row.quantity)
  <2> DEFINE targets == {t \in SameKey(f, row.stash, row.def, row.notes) \ {i} :
                           /\ f[t].parent = row.parent
                           /\ Mundane(f[t])
                           /\ f[t].charges = NoCharges}
  <2>1. g = Put(f, i, row) \/ \E t \in targets : g = Grow(Drop(f, i), t, row.quantity)
    BY Zenon DEF Restacked
  <2>2. \A t \in targets : /\ t \in DOMAIN f \ {i} /\ f[t].def = row.def
                           /\ f[t].stash = row.stash /\ f[t].parent = row.parent
    BY SameKeyIn
  <2> HIDE DEF targets
  <2> QED
    BY <2>1, <2>2
<1> QED
  BY <1>3, <1>4, <1>5

LEMMA EquipmentLight ==
  ASSUME NEW S, NEW f, AllLegal(f, S), IsFiniteSet(DOMAIN f), NEW i \in DOMAIN f,
         NEW new, new \notin DOMAIN f,
         NEW g \in Equipped(f, i, new) \union Attuned(f, i, new)
                     \union Unequipped(f, i) \union Unattuned(f, i),
         NEW s, BagsStay(f, g, s)
  PROVE  CarriedWeight(g, s) <= CarriedWeight(f, s)
<1>1. f[i] \in Row /\ f[i].quantity \in Nat \ {0}
  BY LegalRow
<1>2. ASSUME NEW e \in BOOLEAN, NEW a \in BOOLEAN, f[i].quantity > 1,
             g = FlaggedUnit(f, i, e, a, new)
      PROVE  CarriedWeight(g, s) <= CarriedWeight(f, s)
  <2>1. 1 \in 1 .. f[i].quantity /\ 1 # f[i].quantity
    BY <1>1, <1>2
  <2>2. g = Put(Take(f, i, 1), new,
                [f[i] EXCEPT !.quantity = 1, !.equipped = e, !.attuned = a])
    BY <1>2, Zenon DEF FlaggedUnit
  <2> QED
    BY <2>1, <2>2, UnitLight
<1>3. ASSUME NEW row, NEW b \in BOOLEAN,
             row = [f[i] EXCEPT !.equipped = b] \/ row = [f[i] EXCEPT !.attuned = b],
             g \in Restacked(f, i, row)
      PROVE  CarriedWeight(g, s) <= CarriedWeight(f, s)
  <2>1. /\ row \in Row /\ row.def = f[i].def /\ row.parent = f[i].parent
        /\ row.stash = f[i].stash /\ row.quantity = f[i].quantity
    BY <1>1, <1>3 DEF Row
  <2> QED
    BY <1>3, <2>1, RestackedLight
<1>4. \/ \E e, a \in BOOLEAN : f[i].quantity > 1 /\ g = FlaggedUnit(f, i, e, a, new)
      \/ \E b \in BOOLEAN : \/ g \in Restacked(f, i, [f[i] EXCEPT !.equipped = b])
                            \/ g \in Restacked(f, i, [f[i] EXCEPT !.attuned = b])
  BY Zenon DEF Equipped, Attuned, Unequipped, Unattuned
<1> QED
  BY <1>2, <1>3, <1>4

(* What arrives elsewhere is none of the business of an inventory.         *)
LEMMA AcquiredElsewhere ==
  ASSUME NEW S, NEW f, AllLegal(f, S), NEW u, NEW d, NEW q \in Nat \ {0}, NEW given,
         NEW new, new \notin DOMAIN f, NEW g \in Acquired(f, u, d, q, given, new),
         NEW s, s # u
  PROVE  Dwindles(f, g, s, {})
<1>1. \A k \in DOMAIN f : f[k] \in Row /\ f[k].quantity \in Nat
  BY LegalRow
<1>2. ASSUME NEW t, NEW r, r.stash = u, t = new \/ (t \in DOMAIN f /\ f[t].stash = u)
      PROVE  Dwindles(f, Put(f, t, r), s, {})
  BY <1>1, <1>2 DEF Dwindles, Put, Lying, Lighter
<1>3. \A t \in DOMAIN f : WithQuantity(f[t], f[t].quantity + q).stash = f[t].stash
  BY <1>1, WithQuantityFields
<1>4. \/ \E t \in DOMAIN f : f[t].stash = u /\ g = Grow(f, t, q)
      \/ \E r : r.stash = u /\ g = Put(f, new, r)
  <2>1. \A n : \A t \in AcquireTargets(f, u, d, n) : t \in DOMAIN f /\ f[t].stash = u
    BY SameKeyIn DEF AcquireTargets
  <2>2. \A n, c : [def |-> d, stash |-> u, parent |-> NoParent, quantity |-> q,
                   equipped |-> FALSE, attuned |-> FALSE, charges |-> c,
                   notes |-> n].stash = u
    OBVIOUS
  <2> QED
    BY <2>1, <2>2, Zenon DEF Acquired
<1> QED
  BY <1>2, <1>3, <1>4 DEF Grow

LEMMA TransferredElsewhere ==
  ASSUME NEW S \in SUBSET Stashes, NEW f, AllLegal(f, S), NEW i \in DOMAIN f,
         NEW q \in 1 .. f[i].quantity, NEW to \in S,
         NEW parent \in Nat \union {Undefined}, NEW new, new \notin DOMAIN f,
         NEW g \in Transferred(f, i, q, to, parent, new), NEW s, s # to
  PROVE  Dwindles(f, g, s, {})
<1> DEFINE h == Take(f, i, q)
<1>1. Dwindles(f, h, s, {})
  BY TakeDwindles
<1>2. \A k \in DOMAIN f : f[k] \in Row /\ f[k].quantity \in Nat
  BY LegalRow
<1>3. \A t, r : r.stash = to => Dwindles(f, Put(h, t, r), s, {})
  BY <1>1 DEF Dwindles, Put, Lying
<1>4. ASSUME NEW t \in StackTargets(f, i, to),
             g = Put(Take(f, i, q), t, StackedRow(f, i, q, to, parent, t))
      PROVE  Dwindles(f, g, s, {})
  BY <1>3, <1>4, StackedRowLegal
<1>5. CASE g = MovedPart(f, i, q, to, parent, new)
  <2> DEFINE w == WithQuantity(Into(f[i], to), q)
             r == Arriving(f[i], to, parent, w)
  <2>1. f[i] \in Row /\ q \in Nat \ {0}
    BY LegalRow
  <2>2. w \in Row /\ w.stash = to
    BY <2>1 DEF Row, Into, WithQuantity
  <2> HIDE DEF w
  <2>3. r.stash = to
    BY <2>1, <2>2, ArrivingFields
  <2>4. g = Put(h, new, r)
    BY <1>5 DEF MovedPart, w
  <2> HIDE DEF h, r
  <2> QED
    BY <1>3, <2>3, <2>4
<1>6. CASE g = MovedWhole(f, i, to, parent)
  <2> DEFINE a == Arriving(f[i], to, parent, Into(f[i], to))
  <2>1. \A k \in DOMAIN f : Into(f[k], to) \in Row /\ Into(f[k], to).stash = to
    BY <1>2 DEF Row, Into
  <2>2. a.stash = to
    BY <1>2, <2>1, ArrivingFields
  <2> HIDE DEF a
  <2>3. /\ DOMAIN g = DOMAIN f /\ g[i] = a
        /\ \A k \in DOMAIN f \ {i} : g[k] \in {f[k], Into(f[k], to)}
    BY <1>6 DEF MovedWhole, a
  <2> QED
    BY <1>2, <2>1, <2>2, <2>3 DEF Dwindles, Lying, Lighter
<1> QED
  BY <1>4, <1>5, <1>6, TransferredCases

LEMMA RowEditsStash ==
  ASSUME NEW r \in Row, NEW v, NEW w
  PROVE  /\ WithCharges(r, v).stash = r.stash /\ WithCharges(r, v).quantity = r.quantity
         /\ WithCharges(WithQuantity(r, v), w).stash = r.stash
         /\ WithCharges(WithQuantity(r, v), w).quantity = v
         /\ [r EXCEPT !.notes = v].stash = r.stash
         /\ [r EXCEPT !.notes = v].quantity = r.quantity
BY DEF Row, WithQuantity, WithCharges

LEMMA ChargeUsedDwindles ==
  ASSUME NEW S, NEW f, AllLegal(f, S), NEW i \in DOMAIN f, NEW amount, NEW s
  PROVE  Dwindles(f, ChargeUsed(f, i, amount), s, {})
<1>1. f[i] \in Row /\ \A k \in DOMAIN f : f[k].quantity \in Nat \ {0}
  BY LegalRow
<1>2. ASSUME NEW r, r.stash = f[i].stash, Lighter(f[i], r)
      PROVE  Dwindles(f, Put(f, i, r), s, {})
  BY <1>1, <1>2, PutDwindles
<1>3. \A v : Dwindles(f, Put(f, i, WithCharges(f[i], v)), s, {})
  BY <1>1, <1>2, RowEdits, RowEditsStash DEF Lighter
<1>4. \A v, w : v <= f[i].quantity =>
        Dwindles(f, Put(f, i, WithCharges(WithQuantity(f[i], v), w)), s, {})
  BY <1>1, <1>2, RowEdits, RowEditsStash DEF Lighter
<1>5. Dwindles(f, Drop(f, i), s, {})
  BY <1>1, DropDwindles
<1> QED
  BY <1>1, <1>3, <1>4, <1>5 DEF ChargeUsed

(***************************************************************************)
(* No step makes an inventory heavier past the threshold: what comes into  *)
(* it is weighed, and everything else leaves it lighter or as it was.      *)
(***************************************************************************)
LEMMA LoadNext ==
  ASSUME Inv, Fresh, [AnyNext]_vars
  PROVE  OverloadNeedsALostBag
<1> SUFFICES ASSUME NEW s \in Inventories, EnforceEncumbrance, BagsStay(items, items', s),
                    CarriedWeight(items', s) > HeavyThreshold,
                    CarriedWeight(items', s) > CarriedWeight(items, s)
             PROVE  FALSE
  BY DEF OverloadNeedsALostBag, BagsStay
<1> USE InvFacts
<1>1. FiniteRows(items) /\ FiniteRows(items')
  <2>1. Inv'
    BY NextInv
  <2>2. TypeOK' /\ AllLegal(items', stashes')
    BY <2>1 DEF Inv, AllLegal
  <2>3. DOMAIN items' \subseteq RowIds
    BY <2>2 DEF TypeOK
  <2>4. IsFiniteSet(RowIds)
    BY BoundsAssumption, FS_Interval DEF RowIds
  <2>5. IsFiniteSet(DOMAIN items')
    BY <2>3, <2>4, FS_Subset
  <2> QED
    BY <2>2, <2>5, LegalFiniteRows
<1>2. /\ CarriedWeight(items, s) \in Nat /\ CarriedWeight(items', s) \in Nat
      /\ HeavyThreshold \in Nat
  BY <1>1, CarriedTotal, CapAssumption DEF FiniteRows
<1>3. /\ \A k \in DOMAIN items : items[k] \in Row /\ items[k].quantity \in Nat \ {0}
      /\ nextId \notin DOMAIN items
  <2>1. nextId \in Nat /\ DOMAIN items \subseteq Nat
    BY BoundsAssumption
  <2> QED
    BY <2>1, LegalRow DEF Fresh
<1>4. ASSUME Dwindles(items, items', s, {})
      PROVE  FALSE
  BY <1>1, <1>2, <1>4, DwindlingLight
<1>5. ASSUME CarriedWeight(items', s) <= CarriedWeight(items, s)
      PROVE  FALSE
  BY <1>2, <1>5
<1>6. ~CanCarry(items', s)
  BY <1>2 DEF CanCarry
<1>7. ASSUME items' = items
      PROVE  FALSE
  BY <1>2, <1>7
<1>8. ASSUME NEW u, NEW d, NEW q \in Nat \ {0}, NEW given, Acquire(u, d, q, given)
      PROVE  FALSE
  <2>1. u # s
    BY <1>6, <1>8 DEF Acquire
  <2> QED
    BY <1>3, <1>4, <1>8, <2>1, AcquiredElsewhere DEF Acquire
<1>9. ASSUME NEW i \in DOMAIN items, NEW r, items' = Put(items, i, r),
             r.stash = items[i].stash, Lighter(items[i], r)
      PROVE  FALSE
  BY <1>3, <1>4, <1>9, PutDwindles
<1>10. ASSUME NEW i \in DOMAIN items, AnyItemStep(i)
       PROVE  FALSE
  <2>1. ASSUME NEW q \in Nat \ {0}, Consume(i, q)
        PROVE  FALSE
    BY <1>4, <2>1, TakeDwindles DEF Consume
  <2>2. ASSUME NEW q \in Nat \ {0}, Split(i, q)
        PROVE  FALSE
    <3>1. q \in 1 .. items[i].quantity /\ q # items[i].quantity
      BY <1>3, <2>2 DEF Split
    <3>2. items' = Put(Take(items, i, q), nextId,
                       [items[i] EXCEPT !.quantity = q, !.equipped = FALSE, !.attuned = FALSE])
      BY <2>2, Zenon DEF Split, SplitOff
    <3> QED
      BY <1>3, <1>5, <3>1, <3>2, UnitLight
  <2>3. ASSUME NEW n, EditNotes(i, n)
        PROVE  FALSE
    <3> DEFINE r == [items[i] EXCEPT !.notes = n]
    <3>1. /\ r.def = items[i].def /\ r.parent = items[i].parent
          /\ r.stash = items[i].stash /\ r.quantity = items[i].quantity
      BY <1>3, RowEdits, RowEditsStash
    <3>2. items' = Put(items, i, r)
      BY <2>3 DEF EditNotes
    <3> HIDE DEF r
    <3> QED
      BY <1>3, <1>9, <3>1, <3>2 DEF Lighter
  <2>4. ASSUME NEW q, NEW to \in stashes,
               NEW parent \in DOMAIN items \union {NoParent, Undefined},
               Transfer(i, q, to, parent)
        PROVE  FALSE
    <3>1. to # s
      BY <1>6, <2>4 DEF Transfer
    <3>2. q \in 1 .. items[i].quantity /\ parent \in Nat \union {Undefined}
      BY <2>4 DEF Transfer, CanTransfer, NoParent
    <3> QED
      BY <1>3, <1>4, <2>4, <3>1, <3>2, TransferredElsewhere DEF Transfer
  <2> QED
    BY <1>10, <2>1, <2>2, <2>3, <2>4 DEF AnyItemStep
<1>11. ASSUME NEW i \in DOMAIN items, AnyCharacterStep(i)
       PROVE  FALSE
  <2>1. CASE Equip(i) \/ Unequip(i) \/ (\E o \in BOOLEAN : Attune(i, o)) \/ Unattune(i)
    <3>1. items' \in Equipped(items, i, nextId) \union Attuned(items, i, nextId)
                      \union Unequipped(items, i) \union Unattuned(items, i)
      BY <2>1 DEF Equip, Unequip, Attune, Unattune
    <3> QED
      BY <1>3, <1>5, <3>1, EquipmentLight
  <2>2. ASSUME NEW amount, UseCharge(i, amount)
        PROVE  FALSE
    BY <1>4, <2>2, ChargeUsedDwindles DEF UseCharge
  <2>3. ASSUME NEW amount, RechargeOne(i, amount)
        PROVE  FALSE
    BY <1>3, <1>9, <2>3, RowEdits, RowEditsStash DEF RechargeOne, Lighter
  <2> QED
    BY <1>11, <2>1, <2>2, <2>3 DEF AnyCharacterStep
<1>12. ASSUME NEW t, NEW amounts, RechargeAll(t, amounts)
       PROVE  FALSE
  <2>1. /\ DOMAIN items' = DOMAIN items
        /\ \A k \in DOMAIN items : \/ items'[k] = items[k]
                                   \/ \E v : items'[k] = WithCharges(items[k], v)
    BY <1>12 DEF RechargeAll
  <2>2. \A k \in DOMAIN items : /\ items'[k].stash = items[k].stash
                                /\ Lighter(items[k], items'[k])
    BY <1>3, <2>1, RowEdits, RowEditsStash DEF Lighter
  <2> QED
    BY <1>4, <2>1, <2>2 DEF Dwindles, Lying
<1>13. ASSUME NEW t \in Storages, DeleteStash(t)
       PROVE  FALSE
  <2>1. \A k \in DOMAIN items : Into(items[k], RecoveredLoot).stash = RecoveredLoot
    BY <1>3 DEF Row, Into
  <2>2. s # RecoveredLoot
    BY StashAssumption
  <2>3. /\ DOMAIN items' = DOMAIN items
        /\ \A k \in DOMAIN items : items'[k] = items[k] \/ items'[k].stash = RecoveredLoot
    BY <1>13, <2>1 DEF DeleteStash
  <2>4. Dwindles(items, items', s, {})
    BY <1>3, <2>2, <2>3 DEF Dwindles, Lying, Lighter
  <2> QED
    BY <1>4, <2>4
<1>14. CASE PurseStep
  BY <1>7, <1>13, <1>14 DEF PurseStep, CreateStash, CurrencyChange, CurrencyTransfer
<1>15. CASE UNCHANGED vars
  BY <1>7, <1>15 DEF vars
<1>16. CASE AnyNext /\ ~PurseStep
  BY <1>8, <1>10, <1>11, <1>12, <1>16 DEF AnyNext
<1> QED
  BY <1>14, <1>15, <1>16

-----------------------------------------------------------------------------
(***************************************************************************)
(* The store and the rows side by side, as TLC explores them.              *)
(***************************************************************************)
ByInv ==
  /\ by \in {"requests", "screens", "rows"}
  /\ by = "rows" => RowsInv
  /\ by # "rows" => Inv /\ Fresh /\ Accounted
  /\ by = "screens" => Nested

(***************************************************************************)
(* Whichever of the two goes on keeps its invariant.                       *)
(***************************************************************************)
THEOREM ByInvariance == SpecBy => []ByInv
<1>1. InitBy => ByInv
  <2>1. Init => RowsInv /\ Inv /\ Accounted
    BY InitRows, InitInv, InitAccounted
  <2>2. Init => Fresh /\ Nested
    BY DEF Init, Fresh, Nested, NestedIn
  <2> QED
    BY <2>1, <2>2 DEF InitBy, ByInv
<1>2. ASSUME ByInv, [NextBy]_<<vars, by>>
      PROVE  ByInv'
  <2>1. /\ by' = by
        /\ by = "rows" => [applyDelta]_vars
        /\ by # "rows" => [StoreNext]_vars
        /\ by = "screens" => [ScreensNext]_vars
    BY <1>2 DEF NextBy, StoreNext, ByInv
  <2>2. CASE by = "rows"
    BY <1>2, <2>1, <2>2, ApplyDeltaRows DEF ByInv
  <2>3. CASE by # "rows"
    <3>1. Inv' /\ Fresh' /\ Accounted'
      BY <1>2, <2>1, <2>3, StoreIsAny, NextInv, FreshNext, NextAccounted DEF ByInv
    <3>2. by = "screens" => Nested'
      BY <1>2, <2>1, NestedNext DEF ByInv
    <3> QED
      BY <1>2, <2>1, <2>3, <3>1, <3>2 DEF ByInv
  <2> QED
    BY <2>2, <2>3
<1> QED
  BY <1>1, <1>2, PTL DEF SpecBy

(***************************************************************************)
(* The units of the rows and of the store are those of the log, and what   *)
(* the database holds never meets the trigger on the flags.                *)
(***************************************************************************)
THEOREM FlagsAreOnlyWornInRows ==
  SpecBy => [](RowsAddUp /\ FlagsOnlyWornInRows)
<1>1. RowsInv => RowsAddUp /\ FlagsOnlyWorn
  BY RowsFacts, UnitsCount
    DEF RowsInv, AddsUp, RowsAddUp, AllWorn, Worn, FlagsOnlyWorn
<1>2. Inv /\ Fresh /\ Accounted => RowsAddUp
  BY ItemsCounted, UnitsCount DEF Accounted, RowsAddUp
<1>3. ByInv => RowsAddUp /\ FlagsOnlyWornInRows
  BY <1>1, <1>2 DEF ByInv, FlagsOnlyWornInRows
<1> QED
  BY <1>3, ByInvariance, PTL

(***************************************************************************)
(* Who only works with the screens finds every row in the table of its     *)
(* stash, whatever filter is set and whatever is searched for.             *)
(***************************************************************************)
THEOREM EveryRowIsAlwaysShown == SpecBy => []EveryRowIsShownByScreens
<1>1. ByInv => EveryRowIsShownByScreens
  BY NestedShown DEF ByInv, EveryRowIsShownByScreens
<1> QED
  BY <1>1, ByInvariance, PTL

(***************************************************************************)
(* Under hard mode an inventory passes the threshold only by losing a bag  *)
(* of holding: no other request makes it heavier unchecked.                *)
(***************************************************************************)
THEOREM OverloadOnlyByALostBag == SpecBy => OverloadOnlyByLosingABagInStore
<1> DEFINE Step == by # "rows" => OverloadNeedsALostBag
<1>1. ASSUME ByInv, [NextBy]_<<vars, by>>
      PROVE  [Step]_vars
  <2>1. by # "rows" => Inv /\ Fresh /\ [AnyNext]_vars
    BY <1>1, StoreIsAny DEF ByInv, NextBy, StoreNext
  <2> QED
    BY <2>1, LoadNext
<1> HIDE DEF Step
<1>2. SpecBy => [][Step]_vars
  BY <1>1, ByInvariance, PTL DEF SpecBy
<1> QED
  BY <1>2 DEF OverloadOnlyByLosingABagInStore, Step
=============================================================================
