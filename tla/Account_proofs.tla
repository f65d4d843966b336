--------------------------- MODULE Account_proofs ---------------------------
(***************************************************************************)
(* Proofs about Account: nobody shares an address or a Discord identity, a *)
(* code lets one request through, an address is proved before it becomes   *)
(* the account's, verify-new replaces an address only for a code from it   *)
(* (unless the address was put there while the change was under way), and  *)
(* a deleted account stays empty.                                          *)
(*                                                                         *)
(* Requests interleave query by query, so the invariant says what each of  *)
(* them holds between two queries (FlowOK), and every step of a request is *)
(* one of a few moves (Moves), which the invariants are proved from.       *)
(***************************************************************************)
EXTENDS Account, FiniteSetTheorems, TLAPS

UserRow == [row : BOOLEAN, email : Emails \union {None}, discord : Snowflakes \union {None},
            named : BOOLEAN, gone : BOOLEAN]
CodeRow == [row : {"live", "expired", "gone"}, for : Purposes, u : Anyone, mail : Emails,
            seen : BOOLEAN, used : Nat]
Change == [mail : Emails, stamped : BOOLEAN]
Flow == [at : Stages, b : Browsers \union {None}, u : Anyone, mail : Emails \union Snowflakes \union {None},
         for : Purposes \union {"none"}, code : Nat, old : SUBSET Nat,
         from : Anyone \union Emails, n : 0..OTP_REQUEST_MAX]
Past == [proved : [Users -> SUBSET Emails], credit : [Users -> [Emails \union {None} -> Int]],
         moved : SUBSET Users, raced : SUBSET Users]

\* The rows are well-formed.
Shapes ==
  /\ users \in [Users -> UserRow]
  /\ accounts \in [Snowflakes -> Anyone] /\ session \in [Browsers -> Anyone] /\ links \in [Browsers -> Anyone]
  /\ codes \in Seq(CodeRow)
  /\ pending \in [Users -> {None} \union Change]
  /\ attempts \in [Emails \X Browsers -> [n : 0..MAX_FAILED_ATTEMPTS, lock : Locks]]
  /\ requests \in [Browsers -> [n : 0..OTP_REQUEST_MAX, lock : Locks, fresh : BOOLEAN]]
  /\ flow \in [Handlers -> Flow]
  /\ past \in Past

\* What a request under way has read, by the step it is about to take.
Coding == {"tally", "count", "ask", "collide", "replace", "insert", "send", "clear", "try", "find",
           "wrong", "lock", "reset", "consume", "upsert", "attach", "swap"}
Linking == {"token", "spend", "adopt", "recognise", "create", "join", "admit", "greet"}
Serving == {"pending", "reset", "enter", "abort", "delete", "token", "spend", "adopt", "join", "admit", "greet"}
Matched(f) == f.at \in {"consume", "upsert", "attach", "swap"} \/ (f.at = "collide" /\ f.for # "current")
FlowOK(f) ==
  /\ f.at = "idle" <=> f = Idle
  /\ f.at # "idle" => f.b \in Browsers
  /\ f.code \in 0..Len(codes)
  /\ f.at \in Coding => f.mail \in Emails /\ f.for \in Purposes /\ (f.for # "otp" => f.u \in Users)
  /\ f.at \in Coding \union {"pending"} => (f.for \in {"current", "new"} => f.from \in Emails)
  /\ f.at \in Linking => f.mail \in Snowflakes /\ f.for = "none"
  /\ f.at \in Serving => f.u \in Users
  /\ f.at \in {"tally", "count"} => f.for \in {"otp", "current"}
  /\ f.at \in {"ask", "replace"} => f.for \in {"otp", "link"}
  /\ f.at = "collide" => f.for # "otp"
  /\ f.at = "pending" => f.for \in {"current", "new", "none"}
  /\ f.at = "consume" => f.for # "new"
  /\ f.at = "upsert" => f.for = "otp"
  /\ f.at = "attach" => f.for = "link"
  /\ f.at = "swap" => f.for = "new"
  /\ f.at = "send" => f.code \in DOMAIN codes
  /\ Matched(f) => /\ f.code \in DOMAIN codes /\ codes[f.code].for = f.for
                   /\ f.for # "otp" => codes[f.code].u = f.u
                   /\ f.for # "current" => codes[f.code].mail = f.mail
FlowsOK == \A i \in Handlers : FlowOK(flow[i])

\* Who is referred to has a row, an address and an identity are of one account.
Rowed(u) == u # None => users[u].row
RefsOK ==
  /\ \A s \in Snowflakes : Rowed(accounts[s])
  /\ \A b \in Browsers : Rowed(session[b])
  /\ \A i \in Handlers : Rowed(flow[i].u)
  /\ \A u \in Users : ~users[u].row => users[u] = NoUser /\ pending[u] = None
Unshared ==
  /\ \A u, v \in Users : users[u].email = users[v].email /\ users[u].email # None => u = v
  /\ \A u, v \in Users : users[u].discord = users[v].discord /\ users[u].discord # None => u = v

UsedOnce == \A c \in DOMAIN codes : codes[c].used = 0 \/ (codes[c].used = 1 /\ codes[c].row = "gone")

\* The codes that could pay for a change, the requests that are in a change,
\* about to be paid, or owed what was.
Live(u) == {c \in DOMAIN codes : codes[c].for = "current" /\ codes[c].u = u /\ codes[c].row # "gone"}
Changes(f, u) == f.u = u /\ f.for \in {"current", "new"} /\ ~(f.for = "new" /\ f.at = "reset")
Paying(f, u) == f.u = u /\ f.for = "current" /\ f.at \in {"try", "find", "consume"}
Owed(f, u) == f.u = u /\ \/ f.for = "current" /\ f.at = "reset"
                         \/ f.for = "new" /\ f.at \in {"insert", "try", "find", "collide", "swap"}
Stamped(u) == pending[u] # None /\ pending[u].stamped

\* While nothing else moves the address, a change that is stamped has been paid
\* for by a code from it.
Funds(u) ==
  /\ \A e \in Emails : past.credit[u][e] >= 0
  /\ \A i \in Handlers : Changes(flow[i], u) => flow[i].from = users[u].email
  /\ pending[u] # None \/ (\E i \in Handlers : Paying(flow[i], u))
     => \A c \in Live(u) : codes[c].mail = users[u].email
  /\ Stamped(u) \/ (\E i \in Handlers : Owed(flow[i], u)) => past.credit[u][users[u].email] >= 1
Funded == \A u \in Users \ past.moved : Funds(u)

LeftAlone == \A u \in Users : users[u].gone /\ u \notin past.raced => \A i \in Handlers : flow[i].u # u

AccountInv == Shapes /\ FlowsOK /\ RefsOK /\ Unshared /\ UsedOnce /\ EmailIsProved /\ Funded /\ LeftAlone /\ DeletedStaysEmpty

-----------------------------------------------------------------------------
(* Who touches what.                                                       *)

Still ==
  /\ users' = users /\ accounts' = accounts /\ session' = session /\ codes' = codes /\ pending' = pending
  /\ links' = links /\ attempts' = attempts /\ requests' = requests /\ past' = past
Reads(i) ==
  \/ Tally(i) \/ CheckLockout(i) \/ Collide(i) \/ FindPending(i) \/ Find(i) \/ Replace(i)
  \/ FindLink(i) \/ Recognise(i)
CodeWriters(i) == Insert(i) \/ Send(i) \/ Clear(i) \/ Consume(i) \/ Swap(i) \/ Abort(i)
Others(b) ==
  \/ SignOut(b) \/ RevokeOthers(b) \/ SetDisplayName(b) \/ InitiateLink(b) \/ ExpireLink(b) \/ Recess(b)
  \/ \E e \in Emails : Unlock(e, b)

\* A query that reads writes nothing.
LEMMA ReadsAreStill ==
  ASSUME NEW i \in Handlers, Reads(i)
  PROVE  Still
<1>1. CASE Tally(i) \/ CheckLockout(i) \/ Collide(i)
  BY <1>1 DEF Tally, CheckLockout, Collide, Still, rows
<1>2. CASE FindPending(i) \/ Find(i) \/ Replace(i)
  BY <1>2 DEF FindPending, Find, Replace, Still, rows
<1>3. CASE FindLink(i) \/ Recognise(i)
  BY <1>3 DEF FindLink, Recognise, Still, rows
<1>4. QED BY <1>1, <1>2, <1>3 DEF Reads

\* A request is taken up by reading the session.
LEMMA CallsAreStill ==
  ASSUME NEW i \in Handlers, NEW b \in Browsers, Call(i, b)
  PROVE  Still
<1>1. ASSUME NEW e \in Emails,
             RequestOtp(i, b, e) \/ RequestLink(i, b, e) \/ StartChange(i, b, e)
               \/ VerifyOtp(i, b, e) \/ VerifyLink(i, b, e)
      PROVE  Still
  BY <1>1 DEF RequestOtp, RequestLink, StartChange, VerifyOtp, VerifyLink, Still, rows
<1>2. ASSUME NEW for \in {"current", "new"}, VerifyChange(i, b, for) PROVE Still
  BY <1>2 DEF VerifyChange, Still, rows
<1>3. ASSUME AskAbort(i, b) \/ AskDelete(i, b) PROVE Still
  BY <1>3 DEF AskAbort, AskDelete, Still, rows
<1>4. ASSUME NEW s \in Snowflakes, LinkCallback(i, b, s) \/ SignInWithDiscord(i, b, s) PROVE Still
  BY <1>4 DEF LinkCallback, SignInWithDiscord, Still, rows
<1>5. QED BY <1>1, <1>2, <1>3, <1>4 DEF Call

\* A step is a request's that writes, another's of a browser, a code that
\* lapses, or it leaves the rows alone.
Writes(i) ==
  \/ Count(i) \/ Insert(i) \/ Send(i) \/ Clear(i) \/ RecordFailedAttempt(i) \/ Lock(i) \/ ResetAttempts(i)
  \/ Consume(i) \/ Upsert(i) \/ Enter(i) \/ Attach(i) \/ Swap(i) \/ Abort(i) \/ Delete(i)
  \/ Spend(i) \/ Adopt(i) \/ CreateUser(i) \/ LinkAccount(i) \/ Admit(i) \/ Greet(i)
LEMMA Steps ==
  ASSUME [Next]_vars
  PROVE  \/ Still
         \/ \E i \in Handlers : Writes(i)
         \/ \E b \in Browsers : Others(b)
         \/ \E c \in DOMAIN codes : Expire(c)
<1>1. ASSUME NEW i \in Handlers, Continue(i) PROVE Writes(i) \/ Reads(i)
  BY <1>1 DEF Continue, Writes, Reads
<1>2. UNCHANGED vars => Still
  BY DEF vars, rows, Still
<1>3. QED BY <1>1, <1>2, ReadsAreStill, CallsAreStill DEF Next, Others

\* A code is issued, sent, dropped or spent by a request, or lapses.
LEMMA CodesWritten ==
  ASSUME [Next]_vars, codes' # codes
  PROVE  (\E i \in Handlers : CodeWriters(i)) \/ \E c \in DOMAIN codes : Expire(c)
<1>1. ASSUME NEW i \in Handlers, Writes(i) PROVE CodeWriters(i)
  <2>1. ASSUME Count(i) \/ RecordFailedAttempt(i) \/ Lock(i) \/ ResetAttempts(i) PROVE FALSE
    BY <2>1 DEF Count, RecordFailedAttempt, Lock, ResetAttempts
  <2>2. ASSUME Upsert(i) \/ Enter(i) \/ Attach(i) \/ Delete(i) PROVE FALSE
    BY <2>2 DEF Upsert, Enter, Attach, Delete
  <2>3. ASSUME Spend(i) \/ Adopt(i) \/ CreateUser(i) \/ LinkAccount(i) \/ Admit(i) \/ Greet(i) PROVE FALSE
    BY <2>3 DEF Spend, Adopt, CreateUser, LinkAccount, Admit, Greet
  <2>4. QED BY <1>1, <2>1, <2>2, <2>3 DEF Writes, CodeWriters
<1>2. ASSUME NEW b \in Browsers, Others(b) PROVE FALSE
  BY <1>2 DEF Others, SignOut, RevokeOthers, SetDisplayName, InitiateLink, ExpireLink, Recess, Unlock
<1>3. QED BY <1>1, <1>2, Steps DEF Still


-----------------------------------------------------------------------------
(* The rows of codes.                                                      *)

LEMMA WithoutCodes ==
  ASSUME codes \in Seq(CodeRow), NEW cs
  PROVE  /\ Without(cs) \in Seq(CodeRow) /\ Len(Without(cs)) = Len(codes)
         /\ \A c \in DOMAIN codes :
              LET n == Without(cs)[c] IN
              /\ n.for = codes[c].for /\ n.u = codes[c].u /\ n.mail = codes[c].mail /\ n.used = codes[c].used
              /\ n.row = IF c \in cs THEN "gone" ELSE codes[c].row
<1>1. ASSUME NEW c \in DOMAIN codes, NEW r \in CodeRow, NEW n, n = [r EXCEPT !.row = "gone"]
      PROVE  n \in CodeRow /\ n.row = "gone" /\ n.for = r.for /\ n.u = r.u /\ n.mail = r.mail /\ n.used = r.used
  BY <1>1 DEF CodeRow
<1>2. ASSUME NEW c \in DOMAIN codes
      PROVE  LET n == Without(cs)[c] IN
             /\ n \in CodeRow
             /\ n.for = codes[c].for /\ n.u = codes[c].u /\ n.mail = codes[c].mail /\ n.used = codes[c].used
             /\ n.row = IF c \in cs THEN "gone" ELSE codes[c].row
  <2>1. codes[c] \in CodeRow
    OBVIOUS
  <2>2. CASE c \in cs
    <3>1. Without(cs)[c] = [codes[c] EXCEPT !.row = "gone"]
      BY <2>2 DEF Without
    <3>2. QED BY <1>1, <2>1, <2>2, <3>1
  <2>3. CASE c \notin cs
    <3>1. Without(cs)[c] = codes[c]
      BY <2>3 DEF Without
    <3>2. QED BY <2>1, <2>3, <3>1
  <2>4. QED BY <2>2, <2>3
<1>3. DOMAIN Without(cs) = 1..Len(codes) /\ Len(codes) \in Nat
  BY DEF Without
<1>4. Without(cs) \in [1..Len(codes) -> CodeRow]
  BY <1>2, <1>3 DEF Without
<1>5. Without(cs) \in Seq(CodeRow) /\ Len(Without(cs)) = Len(codes)
  BY <1>3, <1>4
<1>6. QED BY <1>2, <1>5

\* What became of a code: it is the one it was, spent at most once more.
SameCode(c) ==
  /\ codes'[c].for = codes[c].for /\ codes'[c].u = codes[c].u /\ codes'[c].mail = codes[c].mail
  /\ \/ codes'[c].used = codes[c].used /\ (codes[c].row = "gone" => codes'[c].row = "gone")
     \/ codes[c].row # "gone" /\ codes'[c].row = "gone" /\ codes'[c].used = codes[c].used + 1
CodesGrow ==
  /\ codes' \in Seq(CodeRow) /\ Len(codes) <= Len(codes')
  /\ \A c \in DOMAIN codes : SameCode(c)
  /\ \A c \in DOMAIN codes' \ DOMAIN codes : codes'[c].used = 0

LEMMA CodesKept ==
  ASSUME codes \in Seq(CodeRow), codes' = codes
  PROVE  CodesGrow
BY DEF CodesGrow, SameCode, CodeRow

LEMMA CodesDropped ==
  ASSUME codes \in Seq(CodeRow), NEW cs, codes' = Without(cs)
  PROVE  CodesGrow
BY WithoutCodes DEF CodesGrow, SameCode, CodeRow

LEMMA CodeIssued ==
  ASSUME codes \in Seq(CodeRow), NEW cs, NEW r \in CodeRow, r.used = 0, codes' = Append(Without(cs), r)
  PROVE  CodesGrow
<1>1. Without(cs) \in Seq(CodeRow) /\ Len(Without(cs)) = Len(codes)
  BY WithoutCodes
<1>2. /\ codes' \in Seq(CodeRow) /\ Len(codes') = Len(codes) + 1
      /\ \A c \in DOMAIN codes : codes'[c] = Without(cs)[c]
      /\ codes'[Len(codes) + 1] = r
  BY <1>1
<1>3. \A c \in DOMAIN codes : SameCode(c)
  BY <1>2, WithoutCodes DEF SameCode, CodeRow
<1>4. QED BY <1>2, <1>3 DEF CodesGrow

\* The row of a code before and after, when one of its fields is written.
SameRow(old, new) ==
  /\ new \in CodeRow /\ new.for = old.for /\ new.u = old.u /\ new.mail = old.mail
  /\ \/ new.used = old.used /\ (old.row = "gone" => new.row = "gone")
     \/ old.row # "gone" /\ new.row = "gone" /\ new.used = old.used + 1

LEMMA CodeLapsed ==
  ASSUME NEW r \in CodeRow, r.row # "gone", NEW n, n = [r EXCEPT !.row = "expired"]
  PROVE  SameRow(r, n)
BY DEF SameRow, CodeRow

LEMMA CodeSent ==
  ASSUME NEW r \in CodeRow, NEW n, n = [r EXCEPT !.seen = TRUE]
  PROVE  SameRow(r, n)
BY DEF SameRow, CodeRow

LEMMA CodeSpent ==
  ASSUME NEW r \in CodeRow, r.row # "gone", NEW n, n = [r EXCEPT !.row = "gone", !.used = @ + 1]
  PROVE  SameRow(r, n)
<1>1. ASSUME NEW k \in Nat, n = [r EXCEPT !.row = "gone", !.used = k]
      PROVE  n \in CodeRow /\ n.row = "gone" /\ n.for = r.for /\ n.u = r.u /\ n.mail = r.mail /\ n.used = k
  BY <1>1 DEF CodeRow
<1>2. r.used \in Nat
  BY DEF CodeRow
<1>3. PICK k \in Nat : k = r.used + 1
  BY <1>2
<1>4. n = [r EXCEPT !.row = "gone", !.used = k]
  BY <1>3
<1>5. n \in CodeRow /\ n.row = "gone" /\ n.for = r.for /\ n.u = r.u /\ n.mail = r.mail /\ n.used = k
  BY <1>1, <1>4
<1>6. QED BY <1>3, <1>5 DEF SameRow

LEMMA CodeChanged ==
  ASSUME codes \in Seq(CodeRow), NEW c \in DOMAIN codes, NEW r, codes' = [codes EXCEPT ![c] = r],
         SameRow(codes[c], r)
  PROVE  CodesGrow
<1>1. codes[c] \in CodeRow /\ Len(codes) \in Nat
  OBVIOUS
<1>2. codes' \in Seq(CodeRow) /\ Len(codes') = Len(codes) /\ \A d \in DOMAIN codes : codes'[d] = IF d = c THEN r ELSE codes[d]
  BY <1>1 DEF SameRow
<1>3. ASSUME NEW d \in DOMAIN codes
      PROVE  SameCode(d)
  <2>1. CASE d = c
    BY <1>2, <2>1 DEF SameCode, SameRow
  <2>2. CASE d # c
    <3>1. codes'[d] = codes[d]
      BY <1>2, <2>2
    <3>2. QED BY <3>1 DEF SameCode
  <2>3. QED BY <2>1, <2>2
<1>4. QED BY <1>2, <1>3 DEF CodesGrow

LEMMA CodesStep ==
  ASSUME Shapes, FlowsOK, [Next]_vars
  PROVE  CodesGrow
<1> USE DEF Shapes
<1>1. CASE codes' = codes
  BY <1>1, CodesKept
<1>2. ASSUME NEW i \in Handlers, CodeWriters(i)
      PROVE  CodesGrow
  <2> DEFINE f == flow[i]
  <2>f. f \in Flow /\ FlowOK(f)
    BY DEF FlowsOK
  <2>1. ASSUME Insert(i), codes' # codes PROVE CodesGrow
    <3> DEFINE r == [row |-> "live", for |-> f.for, u |-> f.u, mail |-> Axis(f), seen |-> FALSE, used |-> 0]
    <3>1. \E cs : codes' = Append(Without(cs), r)
      BY <2>1 DEF Insert
    <3>2. r \in CodeRow /\ r.used = 0
      BY <2>1, <2>f DEF Insert, FlowOK, Coding, CodeRow, Flow, Axis
    <3> HIDE DEF r
    <3>3. QED BY <3>1, <3>2, CodeIssued
  <2>2. ASSUME Send(i), codes' # codes PROVE CodesGrow
    <3>1. f.code \in DOMAIN codes
      BY <2>2, <2>f DEF Send, FlowOK
    <3>2. codes' = [codes EXCEPT ![f.code] = [codes[f.code] EXCEPT !.seen = TRUE]]
      BY <2>2 DEF Send
    <3>3. PICK r : r = [codes[f.code] EXCEPT !.seen = TRUE]
      OBVIOUS
    <3>4. SameRow(codes[f.code], r)
      <4>1. codes[f.code] \in CodeRow
        BY <3>1
      <4>2. QED BY <4>1, <3>3, CodeSent
    <3>5. QED BY <3>1, <3>2, <3>3, <3>4, CodeChanged
  <2>3. ASSUME Clear(i) \/ Abort(i), codes' # codes PROVE CodesGrow
    <3>1. \E cs : codes' = Without(cs)
      BY <2>3 DEF Clear, Abort
    <3>2. QED BY <3>1, CodesDropped
  <2>4. ASSUME Consume(i) \/ Swap(i), codes' # codes PROVE CodesGrow
    <3>1. f.code \in DOMAIN codes /\ codes[f.code].row # "gone"
      BY <2>4, <2>f DEF Consume, Swap, FlowOK, Matched
    <3>2. codes' = [codes EXCEPT ![f.code] = [codes[f.code] EXCEPT !.row = "gone", !.used = @ + 1]]
      BY <2>4 DEF Consume, Swap
    <3>3. PICK r : r = [codes[f.code] EXCEPT !.row = "gone", !.used = @ + 1]
      OBVIOUS
    <3>4. SameRow(codes[f.code], r)
      <4>1. codes[f.code] \in CodeRow
        BY <3>1
      <4>2. QED BY <4>1, <3>1, <3>3, CodeSpent
    <3>5. QED BY <3>1, <3>2, <3>3, <3>4, CodeChanged
  <2>5. QED BY <1>1, <1>2, <2>1, <2>2, <2>3, <2>4 DEF CodeWriters
<1>3. ASSUME NEW c \in DOMAIN codes, Expire(c)
      PROVE  CodesGrow
  <2>1. codes' = [codes EXCEPT ![c] = [codes[c] EXCEPT !.row = "expired"]] /\ codes[c].row # "gone"
    BY <1>3 DEF Expire
  <2>2. PICK r : r = [codes[c] EXCEPT !.row = "expired"]
    OBVIOUS
  <2>3. SameRow(codes[c], r)
    <3>1. codes[c] \in CodeRow
      OBVIOUS
    <3>2. QED BY <3>1, <2>1, <2>2, CodeLapsed
  <2>4. QED BY <2>1, <2>2, <2>3, CodeChanged
<1>4. QED BY <1>1, <1>2, <1>3, CodesWritten

\* A code that has been spent once is gone, and stays gone.
LEMMA UsedOnceStep ==
  ASSUME Shapes, UsedOnce, CodesGrow
  PROVE  UsedOnce'
<1>1. ASSUME NEW c \in DOMAIN codes'
      PROVE  codes'[c].used = 0 \/ (codes'[c].used = 1 /\ codes'[c].row = "gone")
  <2>1. CASE c \in DOMAIN codes
    <3>1. SameCode(c)
      BY <2>1 DEF CodesGrow
    <3>2. QED BY <2>1, <3>1 DEF SameCode, UsedOnce
  <2>2. QED BY <2>1 DEF CodesGrow
<1>2. QED BY <1>1 DEF UsedOnce

-----------------------------------------------------------------------------
(* The requests under way.                                                 *)

LEMMA IdleIsAFlow ==
  /\ Idle \in Flow /\ Idle.at = "idle" /\ Idle.b = None /\ Idle.u = None /\ Idle.for = "none" /\ Idle.code = 0
<1>1. 0 \in 0..OTP_REQUEST_MAX
  BY CountsAssumption
<1>2. QED BY <1>1 DEF Idle, Flow, Stages, Anyone

\* Whom a request serves: nobody, somebody who is signed in, who has an address
\* or an Account row, or who is new.
Found(u) ==
  \/ u = None
  \/ u \in Users /\ \E b \in Browsers : session[b] = u
  \/ u \in Users /\ \E s \in Snowflakes : accounts[s] = u
  \/ u \in Users /\ users[u].email # None
  \/ u \in Users /\ ~users[u].row /\ users'[u].row

\* A request that goes on neither takes up a change nor is owed for one, but by
\* what it reads of the pending row or by the code it has just spent.
Tame(i, g, u) ==
  /\ Changes(g, u) => (Changes(flow[i], u) /\ g.from = flow[i].from) \/ g.from = users[u].email
  /\ Paying(g, u) => Paying(flow[i], u) \/ pending[u] # None
  /\ Owed(g, u) => Owed(flow[i], u) \/ Stamped(u) \/ Consume(i)
Moves(i, g) ==
  /\ flow' = [flow EXCEPT ![i] = g]
  /\ FlowOK(g)'
  /\ g.u = flow[i].u \/ Found(g.u)
  /\ \A u \in Users : Tame(i, g, u)

\* What is in order stays in order while codes grow.
LEMMA RecordKept ==
  ASSUME Shapes, CodesGrow, NEW g \in Flow, FlowOK(g)
  PROVE  FlowOK(g)'
<1>1. g.code \in DOMAIN codes => g.code \in DOMAIN codes' /\ SameCode(g.code)
  BY DEF CodesGrow, Shapes
<1>2. g.code \in 0..Len(codes')
  BY DEF FlowOK, CodesGrow, Shapes
<1>3. QED BY <1>1, <1>2 DEF FlowOK, Matched, SameCode

LEMMA OthersKept ==
  ASSUME Shapes, CodesGrow, NEW j \in Handlers, FlowOK(flow[j]), flow'[j] = flow[j]
  PROVE  FlowOK(flow[j])'
<1>1. flow[j].code \in DOMAIN codes => flow[j].code \in DOMAIN codes' /\ SameCode(flow[j].code)
  BY DEF CodesGrow, Shapes
<1>2. flow[j].code \in 0..Len(codes')
  BY DEF FlowOK, CodesGrow, Shapes
<1>3. QED BY <1>1, <1>2 DEF FlowOK, Matched, SameCode

\* A request goes on, with all it has read.
LEMMA GoesOn ==
  ASSUME NEW f \in Flow, NEW x \in Stages, NEW g, g = [f EXCEPT !.at = x]
  PROVE  /\ g \in Flow /\ g.at = x /\ g.b = f.b /\ g.u = f.u /\ g.mail = f.mail /\ g.for = f.for
         /\ g.code = f.code /\ g.old = f.old /\ g.from = f.from /\ g.n = f.n
BY DEF Flow

\* A request that was answered leaves nothing behind.
LEMMA RepliesMove ==
  ASSUME Shapes, CodesGrow, NEW i \in Handlers, flow' = [flow EXCEPT ![i] = Idle]
  PROVE  Moves(i, Idle)
<1>1. Len(codes') \in Nat
  BY DEF CodesGrow
<1>2. FlowOK(Idle)'
  BY <1>1, IdleIsAFlow DEF FlowOK, Coding, Linking, Serving, Matched
<1>3. Found(Idle.u)
  BY IdleIsAFlow DEF Found
<1>4. \A u \in Users : Tame(i, Idle, u)
  BY IdleIsAFlow, NoneAssumption DEF Tame, Changes, Paying, Owed
<1>5. QED BY <1>2, <1>3, <1>4 DEF Moves

\* What a request may go on with.
Follows(i, g) ==
  /\ g \in Flow /\ FlowOK(g)
  /\ g.u = flow[i].u \/ Found(g.u)
  /\ \A u \in Users : Tame(i, g, u)

\* A request that goes on with what it has read.
Keeps(f, g, x) ==
  /\ g.at = x /\ g.b = f.b /\ g.u = f.u /\ g.mail = f.mail /\ g.for = f.for
  /\ g.code = f.code /\ g.from = f.from

LEMMA FollowsMoves ==
  ASSUME Shapes, FlowsOK, CodesGrow, NEW i \in Handlers, NEW g, Follows(i, g), flow' = [flow EXCEPT ![i] = g]
  PROVE  \E h \in Flow : Moves(i, h)
BY RecordKept DEF Follows, Moves

LEMMA ContinueMoves ==
  ASSUME Shapes, FlowsOK, CodesGrow, NEW i \in Handlers, Continue(i)
  PROVE  \E g \in Flow : Moves(i, g)
<1> DEFINE f == flow[i]
           Goal == \E g \in Flow : Moves(i, g)
<1>f. f \in Flow /\ FlowOK(f) /\ Len(codes) \in Nat /\ DOMAIN codes = 1..Len(codes) /\ flow \in [Handlers -> Flow]
  BY DEF Shapes, FlowsOK
<1>i. Idle.at = "idle"
  BY IdleIsAFlow
<1>r. ASSUME Reply(i) PROVE Goal
  BY <1>r, RepliesMove, IdleIsAFlow DEF Reply
<1>w. ASSUME NEW g, Follows(i, g), flow' = [flow EXCEPT ![i] = g] PROVE Goal
  BY <1>w, FollowsMoves
<1>g. ASSUME NEW x \in Stages,
             Goto(i, x) \/ flow' = [flow EXCEPT ![i].at = x],
             \A g \in Flow : Keeps(f, g, x) => FlowOK(g),
             \A g \in Flow : Keeps(f, g, x) => \A u \in Users : Tame(i, g, u)
      PROVE  Goal
  <2>1. PICK g : g = [f EXCEPT !.at = x]
    OBVIOUS
  <2>2. /\ g \in Flow /\ g.at = x /\ g.b = f.b /\ g.u = f.u /\ g.mail = f.mail /\ g.for = f.for
        /\ g.code = f.code /\ g.from = f.from
    BY <1>f, <2>1, GoesOn
  <2>3. Follows(i, g)
    BY <1>g, <2>2 DEF Follows, Keeps
  <2>4. flow' = [flow EXCEPT ![i] = g]
    BY <1>f, <1>g, <2>1 DEF Goto
  <2>5. QED BY <1>w, <2>3, <2>4
<1> HIDE DEF Goal
<1>1. ASSUME Tally(i) PROVE Goal
  <2>1. PICK n : n = IF ~requests[f.b].fresh THEN 1
                     ELSE IF requests[f.b].n < OTP_REQUEST_MAX THEN requests[f.b].n + 1 ELSE OTP_REQUEST_MAX
    OBVIOUS
  <2>2. f.at = "tally" /\ f.b \in Browsers
    BY <1>1, <1>f DEF Tally, FlowOK
  <2>3. n \in 0..OTP_REQUEST_MAX
    <3>1. requests[f.b].n \in 0..OTP_REQUEST_MAX
      BY <2>2 DEF Shapes
    <3>2. QED BY <2>1, <3>1, CountsAssumption
  <2>4. Reply(i) \/ flow' = [flow EXCEPT ![i].at = "count", ![i].n = n]
    BY <1>1, <2>1 DEF Tally
  <2>5. PICK g : g = [f EXCEPT !.at = "count", !.n = n]
    OBVIOUS
  <2>6. /\ g \in Flow /\ g.at = "count" /\ g.b = f.b /\ g.u = f.u /\ g.mail = f.mail /\ g.for = f.for
        /\ g.code = f.code /\ g.from = f.from
    BY <1>f, <2>3, <2>5 DEF Flow, Stages
  <2>7. FlowOK(g) /\ \A u \in Users : Tame(i, g, u)
    BY <1>f, <1>i, <2>2, <2>6 DEF FlowOK, Coding, Linking, Serving, Matched, Tame, Changes, Paying, Owed
  <2>8. CASE flow' = [flow EXCEPT ![i].at = "count", ![i].n = n]
    <3>1. flow' = [flow EXCEPT ![i] = g]
      BY <1>f, <2>5, <2>8
    <3>2. QED BY <1>w, <2>6, <2>7, <3>1 DEF Follows
  <2>9. QED BY <1>r, <2>4, <2>8
<1>2. ASSUME Count(i) PROVE Goal
  <2>1. f.at = "count"
    BY <1>2 DEF Count
  <2>2. ASSUME Goto(i, "ask"), f.for = "otp" PROVE Goal
    <3>1. ASSUME NEW g \in Flow, Keeps(f, g, "ask") PROVE FlowOK(g)
      BY <1>f, <1>i, <2>1, <2>2, <3>1 DEF FlowOK, Coding, Linking, Serving, Matched, Keeps
    <3>2. ASSUME NEW g \in Flow, Keeps(f, g, "ask"), NEW u \in Users PROVE Tame(i, g, u)
      BY <1>f, <1>i, <2>1, <2>2, <3>2 DEF FlowOK, Linking, Tame, Changes, Paying, Owed, Keeps
    <3>3. QED BY <1>g, <2>2, <3>1, <3>2 DEF Stages
  <2>3. ASSUME Goto(i, "collide"), f.for # "otp" PROVE Goal
    <3>1. ASSUME NEW g \in Flow, Keeps(f, g, "collide") PROVE FlowOK(g)
      BY <1>f, <1>i, <2>1, <2>3, <3>1 DEF FlowOK, Coding, Linking, Serving, Matched, Keeps
    <3>2. ASSUME NEW g \in Flow, Keeps(f, g, "collide"), NEW u \in Users PROVE Tame(i, g, u)
      BY <1>f, <1>i, <2>1, <2>3, <3>2 DEF FlowOK, Linking, Tame, Changes, Paying, Owed, Keeps
    <3>3. QED BY <1>g, <2>3, <3>1, <3>2 DEF Stages
  <2>4. QED BY <1>2, <1>r, <2>2, <2>3 DEF Count
<1>3. ASSUME CheckLockout(i) PROVE Goal
  <2>1. f.at \in {"ask", "try"}
    BY <1>3 DEF CheckLockout
  <2>2. ASSUME Goto(i, "replace"), f.at = "ask" PROVE Goal
    <3>1. ASSUME NEW g \in Flow, Keeps(f, g, "replace") PROVE FlowOK(g)
      BY <1>f, <1>i, <2>2, <3>1 DEF FlowOK, Coding, Linking, Serving, Matched, Keeps
    <3>2. ASSUME NEW g \in Flow, Keeps(f, g, "replace"), NEW u \in Users PROVE Tame(i, g, u)
      BY <1>f, <1>i, <2>2, <3>2 DEF FlowOK, Linking, Tame, Changes, Paying, Owed, Keeps
    <3>3. QED BY <1>g, <2>2, <3>1, <3>2 DEF Stages
  <2>3. ASSUME Goto(i, "find"), f.at = "try" PROVE Goal
    <3>1. ASSUME NEW g \in Flow, Keeps(f, g, "find") PROVE FlowOK(g)
      BY <1>f, <1>i, <2>3, <3>1 DEF FlowOK, Coding, Linking, Serving, Matched, Keeps
    <3>2. ASSUME NEW g \in Flow, Keeps(f, g, "find"), NEW u \in Users PROVE Tame(i, g, u)
      BY <1>f, <1>i, <2>3, <3>2 DEF FlowOK, Linking, Tame, Changes, Paying, Owed, Keeps
    <3>3. QED BY <1>g, <2>3, <3>1, <3>2 DEF Stages
  <2>4. QED BY <1>3, <1>r, <2>1, <2>2, <2>3 DEF CheckLockout
<1>4. ASSUME Collide(i) PROVE Goal
  <2>1. f.at = "collide" /\ f.for \in {"current", "link", "new"}
    BY <1>4, <1>f DEF Collide, FlowOK, Coding, Purposes
  <2>2. ASSUME Goto(i, "insert"), f.for = "current" PROVE Goal
    <3>1. ASSUME NEW g \in Flow, Keeps(f, g, "insert") PROVE FlowOK(g)
      BY <1>f, <1>i, <2>1, <2>2, <3>1 DEF FlowOK, Coding, Linking, Serving, Matched, Keeps
    <3>2. ASSUME NEW g \in Flow, Keeps(f, g, "insert"), NEW u \in Users PROVE Tame(i, g, u)
      BY <1>f, <1>i, <2>1, <2>2, <3>2 DEF FlowOK, Linking, Tame, Changes, Paying, Owed, Keeps
    <3>3. QED BY <1>g, <2>2, <3>1, <3>2 DEF Stages
  <2>3. ASSUME Goto(i, "consume"), f.for = "link" PROVE Goal
    <3>1. ASSUME NEW g \in Flow, Keeps(f, g, "consume") PROVE FlowOK(g)
      BY <1>f, <1>i, <2>1, <2>3, <3>1 DEF FlowOK, Coding, Linking, Serving, Matched, Keeps
    <3>2. ASSUME NEW g \in Flow, Keeps(f, g, "consume"), NEW u \in Users PROVE Tame(i, g, u)
      BY <1>f, <1>i, <2>1, <2>3, <3>2 DEF FlowOK, Linking, Tame, Changes, Paying, Owed, Keeps
    <3>3. QED BY <1>g, <2>3, <3>1, <3>2 DEF Stages
  <2>4. ASSUME Goto(i, "swap"), f.for = "new" PROVE Goal
    <3>1. ASSUME NEW g \in Flow, Keeps(f, g, "swap") PROVE FlowOK(g)
      BY <1>f, <1>i, <2>1, <2>4, <3>1 DEF FlowOK, Coding, Linking, Serving, Matched, Keeps
    <3>2. ASSUME NEW g \in Flow, Keeps(f, g, "swap"), NEW u \in Users PROVE Tame(i, g, u)
      BY <1>f, <1>i, <2>1, <2>4, <3>2 DEF FlowOK, Linking, Tame, Changes, Paying, Owed, Keeps
    <3>3. QED BY <1>g, <2>4, <3>1, <3>2 DEF Stages
  <2>5. Reply(i) \/ Goto(i, CASE f.for = "current" -> "insert" [] f.for = "link" -> "consume" [] f.for = "new" -> "swap")
    BY <1>4 DEF Collide
  <2>6. QED BY <1>r, <2>1, <2>2, <2>3, <2>4, <2>5
<1>5. ASSUME FindPending(i) PROVE Goal
  <2>1. f.at = "pending" /\ f.u \in Users /\ f.for \in {"current", "new", "none"}
    BY <1>5, <1>f DEF FindPending, FlowOK, Serving
  <2>2. CASE Reply(i)
    BY <1>r, <2>2
  <2>3. CASE ~Reply(i)
    <3>1. PICK x \in {"abort", "try"} : x = IF f.for = "none" THEN "abort" ELSE "try"
      OBVIOUS
    <3>2. PICK e : e = pending[f.u].mail
      OBVIOUS
    <3>3. /\ pending[f.u] # None /\ (f.for = "new" => pending[f.u].stamped)
          /\ flow' = [flow EXCEPT ![i].at = x, ![i].mail = e]
      BY <1>5, <2>3, <3>1, <3>2 DEF FindPending
    <3>4. e \in Emails
      BY <2>1, <3>2, <3>3 DEF Shapes, Change
    <3>5. PICK g : g = [f EXCEPT !.at = x, !.mail = e]
      OBVIOUS
    <3>s. x \in Stages
      BY <3>1 DEF Stages
    <3>6. /\ g \in Flow /\ g.at = x /\ g.b = f.b /\ g.u = f.u /\ g.mail = e /\ g.for = f.for
          /\ g.code = f.code /\ g.from = f.from
      BY <1>f, <3>s, <3>4, <3>5 DEF Flow
    <3>7. FlowOK(g)
      BY <1>f, <1>i, <2>1, <3>1, <3>4, <3>6 DEF FlowOK, Coding, Linking, Serving, Matched, Purposes
    <3>8. ASSUME NEW u \in Users PROVE Tame(i, g, u)
      BY <2>1, <3>1, <3>3, <3>6 DEF Tame, Changes, Paying, Owed, Stamped
    <3>9. flow' = [flow EXCEPT ![i] = g]
      BY <1>f, <3>3, <3>5
    <3>10. QED BY <1>w, <3>6, <3>7, <3>8, <3>9 DEF Follows
  <2>4. QED BY <2>2, <2>3
<1>6. ASSUME Find(i) PROVE Goal
  <2>1. f.at = "find"
    BY <1>6 DEF Find
  <2>2. RowsOf(f) \subseteq DOMAIN codes
    BY DEF RowsOf, Rows
  <2>3. \A c \in RowsOf(f) : /\ codes[c].for = f.for /\ (f.for # "otp" => codes[c].u = f.u)
                             /\ (f.for # "current" => codes[c].mail = f.mail)
    BY DEF RowsOf, Rows
  <2>4. ASSUME NEW c \in RowsOf(f) \union {0}, NEW x \in {"wrong", "collide", "consume"},
               x # "wrong" => c \in RowsOf(f) /\ x = IF f.for \in {"link", "new"} THEN "collide" ELSE "consume",
               flow' = [flow EXCEPT ![i].code = c, ![i].at = x]
        PROVE  Goal
    <3>1. PICK g : g = [f EXCEPT !.code = c, !.at = x]
      OBVIOUS
    <3>2. c \in Nat /\ c \in 0..Len(codes)
      BY <1>f, <2>2
    <3>3. /\ g \in Flow /\ g.at = x /\ g.b = f.b /\ g.u = f.u /\ g.mail = f.mail /\ g.for = f.for
          /\ g.code = c /\ g.from = f.from
      BY <1>f, <3>1, <3>2 DEF Flow, Stages
    <3>4. FlowOK(g)
      BY <1>f, <1>i, <2>1, <2>2, <2>3, <2>4, <3>2, <3>3 DEF FlowOK, Coding, Linking, Serving, Matched, Purposes
    <3>5. \A u \in Users : Tame(i, g, u)
      BY <2>1, <2>4, <3>3 DEF Tame, Changes, Paying, Owed
    <3>6. flow' = [flow EXCEPT ![i] = g]
      BY <1>f, <2>4, <3>1
    <3>7. QED BY <1>w, <3>3, <3>4, <3>5, <3>6 DEF Follows
  <2>5. CASE \E c \in RowsOf(f) : flow' = [flow EXCEPT ![i].code = c,
                                                       ![i].at = IF f.for \in {"link", "new"} THEN "collide" ELSE "consume"]
    BY <2>4, <2>5
  <2>6. CASE \E c \in IF RowsOf(f) = {} THEN {0} ELSE RowsOf(f) : flow' = [flow EXCEPT ![i].code = c, ![i].at = "wrong"]
    BY <2>4, <2>6
  <2>7. QED BY <1>6, <2>5, <2>6 DEF Find
<1>7. ASSUME Replace(i) PROVE Goal
  <2>1. f.at = "replace" /\ flow' = [flow EXCEPT ![i] = [f EXCEPT !.at = "insert", !.old = RowsOf(f)]]
    BY <1>7, <1>f DEF Replace
  <2>2. RowsOf(f) \in SUBSET Nat
    BY <1>f DEF RowsOf, Rows
  <2>3. PICK g : g = [f EXCEPT !.at = "insert", !.old = RowsOf(f)]
    OBVIOUS
  <2>4. /\ g \in Flow /\ g.at = "insert" /\ g.b = f.b /\ g.u = f.u /\ g.mail = f.mail /\ g.for = f.for
        /\ g.code = f.code /\ g.from = f.from
    BY <1>f, <2>2, <2>3 DEF Flow, Stages
  <2>5. FlowOK(g) /\ \A u \in Users : Tame(i, g, u)
    BY <1>f, <1>i, <2>1, <2>4 DEF FlowOK, Coding, Linking, Serving, Matched, Tame, Changes, Paying, Owed
  <2>6. QED BY <1>w, <2>1, <2>3, <2>4, <2>5 DEF Follows
<1>8. ASSUME Insert(i) PROVE Goal
  <2>1. f.at = "insert"
    BY <1>8 DEF Insert
  <2>2. CASE Reply(i)
    BY <1>r, <2>2
  <2>3. CASE ~Reply(i)
    <3>1. PICK k \in Nat : k = Len(codes) + 1
      BY <1>f
    <3>2. flow' = [flow EXCEPT ![i].at = "send", ![i].code = k] /\ \E cs, r : codes' = Append(Without(cs), r)
      BY <1>8, <2>3, <3>1 DEF Insert
    <3>3. Len(codes') = k /\ DOMAIN codes' = 1..k
      BY <1>f, <3>1, <3>2, WithoutCodes DEF Shapes
    <3>4. PICK g : g = [f EXCEPT !.at = "send", !.code = k]
      OBVIOUS
    <3>5. /\ g \in Flow /\ g.at = "send" /\ g.b = f.b /\ g.u = f.u /\ g.mail = f.mail /\ g.for = f.for
          /\ g.code = k /\ g.from = f.from
      BY <1>f, <3>4 DEF Flow, Stages
    <3>6. FlowOK(g)'
      BY <1>f, <1>i, <2>1, <3>1, <3>3, <3>5 DEF FlowOK, Coding, Linking, Serving, Matched
    <3>7. \A u \in Users : Tame(i, g, u)
      BY <2>1, <3>5 DEF Tame, Changes, Paying, Owed
    <3>8. flow' = [flow EXCEPT ![i] = g]
      BY <1>f, <3>2, <3>4
    <3>9. QED BY <3>5, <3>6, <3>7, <3>8 DEF Moves, Goal
  <2>4. QED BY <2>2, <2>3
<1>9. ASSUME Send(i) \/ Lock(i) PROVE Goal
  <2>1. f.at \in {"send", "lock"} /\ (Reply(i) \/ Goto(i, "clear"))
    BY <1>9 DEF Send, Lock
  <2>2. ASSUME Goto(i, "clear") PROVE Goal
    <3>1. ASSUME NEW g \in Flow, Keeps(f, g, "clear") PROVE FlowOK(g)
      BY <1>f, <1>i, <2>1, <2>2, <3>1 DEF FlowOK, Coding, Linking, Serving, Matched, Keeps
    <3>2. ASSUME NEW g \in Flow, Keeps(f, g, "clear"), NEW u \in Users PROVE Tame(i, g, u)
      BY <1>f, <1>i, <2>1, <2>2, <3>2 DEF FlowOK, Linking, Tame, Changes, Paying, Owed, Keeps
    <3>3. QED BY <1>g, <2>2, <3>1, <3>2 DEF Stages
  <2>3. QED BY <1>r, <2>1, <2>2
<1>10. ASSUME RecordFailedAttempt(i) PROVE Goal
  <2>1. f.at = "wrong" /\ (Reply(i) \/ Goto(i, "lock"))
    BY <1>10 DEF RecordFailedAttempt
  <2>2. ASSUME Goto(i, "lock") PROVE Goal
    <3>1. ASSUME NEW g \in Flow, Keeps(f, g, "lock") PROVE FlowOK(g)
      BY <1>f, <1>i, <2>1, <2>2, <3>1 DEF FlowOK, Coding, Linking, Serving, Matched, Keeps
    <3>2. ASSUME NEW g \in Flow, Keeps(f, g, "lock"), NEW u \in Users PROVE Tame(i, g, u)
      BY <1>f, <1>i, <2>1, <2>2, <3>2 DEF FlowOK, Linking, Tame, Changes, Paying, Owed, Keeps
    <3>3. QED BY <1>g, <2>2, <3>1, <3>2 DEF Stages
  <2>3. QED BY <1>r, <2>1, <2>2
<1>11. ASSUME ResetAttempts(i) PROVE Goal
  <2>1. f.at = "reset"
    BY <1>11 DEF ResetAttempts
  <2>2. ASSUME Goto(i, "enter"), f.for = "otp" PROVE Goal
    <3>1. ASSUME NEW g \in Flow, Keeps(f, g, "enter") PROVE FlowOK(g)
      BY <1>f, <1>i, <2>1, <2>2, <3>1 DEF FlowOK, Coding, Linking, Serving, Matched, Keeps
    <3>2. ASSUME NEW g \in Flow, Keeps(f, g, "enter"), NEW u \in Users PROVE Tame(i, g, u)
      BY <1>f, <1>i, <2>1, <2>2, <3>2 DEF FlowOK, Linking, Tame, Changes, Paying, Owed, Keeps
    <3>3. QED BY <1>g, <2>2, <3>1, <3>2 DEF Stages
  <2>3. ASSUME flow' = [flow EXCEPT ![i].at = "insert", ![i].for = "new"], f.for = "current" PROVE Goal
    <3>1. PICK g : g = [f EXCEPT !.at = "insert", !.for = "new"]
      OBVIOUS
    <3>2. /\ g \in Flow /\ g.at = "insert" /\ g.b = f.b /\ g.u = f.u /\ g.mail = f.mail /\ g.for = "new"
          /\ g.code = f.code /\ g.from = f.from
      BY <1>f, <3>1 DEF Flow, Stages, Purposes
    <3>3. FlowOK(g)
      BY <1>f, <1>i, <2>1, <2>3, <3>2 DEF FlowOK, Coding, Linking, Serving, Matched, Purposes
    <3>4. \A u \in Users : Tame(i, g, u)
      BY <2>1, <2>3, <3>2 DEF Tame, Changes, Paying, Owed
    <3>5. flow' = [flow EXCEPT ![i] = g]
      BY <1>f, <2>3, <3>1
    <3>6. QED BY <1>w, <3>2, <3>3, <3>4, <3>5 DEF Follows
  <2>4. f.for \in {"otp", "current"} \/ f.for \notin {"otp", "current"}
    OBVIOUS
  <2>5. QED BY <1>11, <1>r, <2>2, <2>3, <2>4 DEF ResetAttempts
<1>12. ASSUME Consume(i) PROVE Goal
  <2>1. f.at = "consume" /\ f.for \in {"otp", "link", "current"}
    BY <1>12, <1>f DEF Consume, FlowOK, Coding, Purposes
  <2>2. ASSUME Goto(i, "upsert"), f.for = "otp" PROVE Goal
    <3>1. ASSUME NEW g \in Flow, Keeps(f, g, "upsert") PROVE FlowOK(g)
      BY <1>f, <1>i, <2>1, <2>2, <3>1 DEF FlowOK, Coding, Linking, Serving, Matched, Keeps
    <3>2. ASSUME NEW g \in Flow, Keeps(f, g, "upsert"), NEW u \in Users PROVE Tame(i, g, u)
      BY <1>f, <1>i, <2>1, <2>2, <3>2 DEF FlowOK, Linking, Tame, Changes, Paying, Owed, Keeps
    <3>3. QED BY <1>g, <2>2, <3>1, <3>2 DEF Stages
  <2>3. ASSUME Goto(i, "attach"), f.for = "link" PROVE Goal
    <3>1. ASSUME NEW g \in Flow, Keeps(f, g, "attach") PROVE FlowOK(g)
      BY <1>f, <1>i, <2>1, <2>3, <3>1 DEF FlowOK, Coding, Linking, Serving, Matched, Keeps
    <3>2. ASSUME NEW g \in Flow, Keeps(f, g, "attach"), NEW u \in Users PROVE Tame(i, g, u)
      BY <1>f, <1>i, <2>1, <2>3, <3>2 DEF FlowOK, Linking, Tame, Changes, Paying, Owed, Keeps
    <3>3. QED BY <1>g, <2>3, <3>1, <3>2 DEF Stages
  <2>4. ASSUME Goto(i, "reset"), f.for = "current" PROVE Goal
    <3>1. ASSUME NEW g \in Flow, Keeps(f, g, "reset") PROVE FlowOK(g)
      BY <1>12, <1>f, <1>i, <2>1, <2>4, <3>1 DEF FlowOK, Coding, Linking, Serving, Matched, Keeps
    <3>2. ASSUME NEW g \in Flow, Keeps(f, g, "reset"), NEW u \in Users PROVE Tame(i, g, u)
      BY <1>12, <1>f, <1>i, <2>1, <2>4, <3>2 DEF FlowOK, Linking, Tame, Changes, Paying, Owed, Keeps
    <3>3. QED BY <1>g, <2>4, <3>1, <3>2 DEF Stages
  <2>5. Reply(i) \/ Goto(i, CASE f.for = "otp" -> "upsert" [] f.for = "link" -> "attach" [] f.for = "current" -> "reset")
    BY <1>12 DEF Consume
  <2>6. QED BY <1>r, <2>1, <2>2, <2>3, <2>4, <2>5
<1>13. ASSUME Upsert(i) PROVE Goal
  <2>1. f.at = "upsert" /\ f.for = "otp" /\ f.mail \in Emails
    BY <1>13, <1>f DEF Upsert, FlowOK, Coding
  <2>2. PICK u \in IF OfEmail(f.mail) # {} THEN OfEmail(f.mail) ELSE Fresh :
          /\ flow' = [flow EXCEPT ![i].at = "reset", ![i].u = u]
          /\ users' = IF OfEmail(f.mail) # {} THEN users
                      ELSE [users EXCEPT ![u] = [NoUser EXCEPT !.row = TRUE, !.email = f.mail]]
    BY <1>13 DEF Upsert
  <2>3. u \in Users
    BY <2>2 DEF OfEmail, Fresh
  <2>4. Found(u)
    <3>1. CASE OfEmail(f.mail) # {}
      BY <2>1, <2>2, <3>1, NoneAssumption DEF OfEmail, Found
    <3>2. CASE OfEmail(f.mail) = {}
      <4>1. u \in Users /\ ~users[u].row
        BY <2>2, <3>2 DEF Fresh
      <4>2. users'[u].row
        BY <2>2, <3>2, <4>1 DEF Shapes, NoUser
      <4>3. QED BY <4>1, <4>2 DEF Found
    <3>3. QED BY <3>1, <3>2
  <2>5. PICK g : g = [f EXCEPT !.at = "reset", !.u = u]
    OBVIOUS
  <2>6. /\ g \in Flow /\ g.at = "reset" /\ g.b = f.b /\ g.u = u /\ g.mail = f.mail /\ g.for = f.for
        /\ g.code = f.code /\ g.from = f.from
    BY <1>f, <2>3, <2>5 DEF Flow, Stages, Anyone
  <2>7. FlowOK(g) /\ \A v \in Users : Tame(i, g, v)
    BY <1>f, <1>i, <2>1, <2>3, <2>6 DEF FlowOK, Coding, Linking, Serving, Matched, Tame, Changes, Paying, Owed
  <2>8. flow' = [flow EXCEPT ![i] = g]
    BY <1>f, <2>2, <2>5
  <2>9. QED BY <1>w, <2>4, <2>6, <2>7, <2>8 DEF Follows
<1>14. ASSUME Attach(i) \/ Swap(i) PROVE Goal
  <2>1. /\ f.at \in {"attach", "swap"} /\ f.for # "current" /\ f.for # "otp" /\ f.u \in Users
        /\ Reply(i) \/ Goto(i, "reset")
    BY <1>14, <1>f DEF Attach, Swap, FlowOK, Coding
  <2>2. ASSUME Goto(i, "reset") PROVE Goal
    <3>1. ASSUME NEW g \in Flow, Keeps(f, g, "reset") PROVE FlowOK(g)
      BY <1>f, <1>i, <2>1, <2>2, <3>1 DEF FlowOK, Coding, Linking, Serving, Matched, Keeps
    <3>2. ASSUME NEW g \in Flow, Keeps(f, g, "reset"), NEW u \in Users PROVE Tame(i, g, u)
      BY <1>f, <1>i, <2>1, <2>2, <3>2 DEF FlowOK, Linking, Tame, Changes, Paying, Owed, Keeps
    <3>3. QED BY <1>g, <2>2, <3>1, <3>2 DEF Stages
  <2>3. QED BY <1>r, <2>1, <2>2
<1>15. ASSUME FindLink(i) PROVE Goal
  <2>1. f.at = "token" /\ f.b \in Browsers
    BY <1>15, <1>f DEF FindLink, FlowOK
  <2>2. PICK t : t = links[f.b]
    OBVIOUS
  <2>3. t \in Anyone
    BY <2>1, <2>2 DEF Shapes
  <2>4. Reply(i) \/ flow' = [flow EXCEPT ![i].at = "spend", ![i].from = t]
    BY <1>15, <2>2 DEF FindLink
  <2>5. PICK g : g = [f EXCEPT !.at = "spend", !.from = t]
    OBVIOUS
  <2>6. g \in Flow /\ g.at = "spend" /\ g.b = f.b /\ g.u = f.u /\ g.mail = f.mail /\ g.for = f.for /\ g.code = f.code
    BY <1>f, <2>3, <2>5 DEF Flow, Stages
  <2>7. FlowOK(g)
    BY <1>f, <1>i, <2>1, <2>6 DEF FlowOK, Coding, Linking, Serving, Matched
  <2>8. g.for = "none"
    BY <1>f, <2>1, <2>6 DEF FlowOK, Linking
  <2>9. \A u \in Users : Tame(i, g, u)
    BY <2>8 DEF Tame, Changes, Paying, Owed
  <2>10. CASE flow' = [flow EXCEPT ![i].at = "spend", ![i].from = t]
    <3>1. flow' = [flow EXCEPT ![i] = g]
      BY <1>f, <2>5, <2>10
    <3>2. QED BY <1>w, <2>6, <2>7, <2>9, <3>1 DEF Follows
  <2>11. QED BY <1>r, <2>4, <2>10
<1>16. ASSUME Spend(i) PROVE Goal
  <2>1. f.at = "spend" /\ (Reply(i) \/ Goto(i, "adopt"))
    BY <1>16 DEF Spend
  <2>2. ASSUME Goto(i, "adopt") PROVE Goal
    <3>1. ASSUME NEW g \in Flow, Keeps(f, g, "adopt") PROVE FlowOK(g)
      BY <1>f, <1>i, <2>1, <2>2, <3>1 DEF FlowOK, Coding, Linking, Serving, Matched, Keeps
    <3>2. ASSUME NEW g \in Flow, Keeps(f, g, "adopt"), NEW u \in Users PROVE Tame(i, g, u)
      BY <1>f, <1>i, <2>1, <2>2, <3>2 DEF FlowOK, Linking, Tame, Changes, Paying, Owed, Keeps
    <3>3. QED BY <1>g, <2>2, <3>1, <3>2 DEF Stages
  <2>3. QED BY <1>r, <2>1, <2>2
<1>17. ASSUME Recognise(i) PROVE Goal
  <2>1. f.at = "recognise" /\ f.mail \in Snowflakes /\ f.u \in Anyone /\ f.b \in Browsers
    BY <1>17, <1>f DEF Recognise, FlowOK, Linking, Flow
  <2>n. f.for = "none"
    BY <1>f, <2>1 DEF FlowOK, Linking
  <2>2. PICK u : u = accounts[f.mail]
    OBVIOUS
  <2>3. u \in Anyone
    BY <2>1, <2>2 DEF Shapes
  <2>4. ASSUME Goto(i, "create") PROVE Goal
    <3>1. ASSUME NEW g \in Flow, Keeps(f, g, "create") PROVE FlowOK(g)
      BY <1>f, <1>i, <2>1, <2>4, <3>1 DEF FlowOK, Coding, Linking, Serving, Matched, Keeps
    <3>2. ASSUME NEW g \in Flow, Keeps(f, g, "create"), NEW v \in Users PROVE Tame(i, g, v)
      BY <1>f, <1>i, <2>1, <2>4, <3>2 DEF FlowOK, Linking, Tame, Changes, Paying, Owed, Keeps
    <3>3. QED BY <1>g, <2>4, <3>1, <3>2 DEF Stages
  <2>5. ASSUME NEW x \in {"join", "greet"}, Goto(i, x), f.u # None PROVE Goal
    <3>0. f.u \in Users
      BY <2>1, <2>5 DEF Anyone
    <3>1. ASSUME NEW g \in Flow, Keeps(f, g, x) PROVE FlowOK(g)
      BY <1>f, <1>i, <2>1, <2>n, <2>5, <3>0, <3>1 DEF FlowOK, Coding, Linking, Serving, Matched, Keeps
    <3>2. ASSUME NEW g \in Flow, Keeps(f, g, x), NEW v \in Users PROVE Tame(i, g, v)
      BY <2>n, <3>2 DEF Tame, Changes, Paying, Owed, Keeps
    <3>3. QED BY <1>g, <2>5, <3>1, <3>2 DEF Stages
  <2>6. ASSUME flow' = [flow EXCEPT ![i].at = "admit", ![i].u = u], u # None PROVE Goal
    <3>1. u \in Users /\ Found(u)
      BY <2>1, <2>2, <2>3, <2>6 DEF Anyone, Found
    <3>2. PICK g : g = [f EXCEPT !.at = "admit", !.u = u]
      OBVIOUS
    <3>3. /\ g \in Flow /\ g.at = "admit" /\ g.b = f.b /\ g.u = u /\ g.mail = f.mail /\ g.for = f.for
          /\ g.code = f.code /\ g.from = f.from
      BY <1>f, <2>3, <3>2 DEF Flow, Stages
    <3>4. FlowOK(g) /\ \A v \in Users : Tame(i, g, v)
      BY <1>f, <1>i, <2>1, <2>n, <3>1, <3>3 DEF FlowOK, Coding, Linking, Serving, Matched, Tame, Changes, Paying, Owed
    <3>5. flow' = [flow EXCEPT ![i] = g]
      BY <1>f, <2>6, <3>2
    <3>6. QED BY <1>w, <3>1, <3>3, <3>4, <3>5 DEF Follows
  <2>7. CASE u = None
    <3>1. Goto(i, IF f.u = None THEN "create" ELSE "join")
      BY <1>17, <2>2, <2>7 DEF Recognise
    <3>2. QED BY <2>4, <2>5, <3>1
  <2>8. CASE u # None
    <3>1. /\ f.u = None => flow' = [flow EXCEPT ![i].at = "admit", ![i].u = u]
          /\ f.u = u => Goto(i, "greet")
          /\ f.u \notin {None, u} => Reply(i)
      BY <1>17, <2>2, <2>8 DEF Recognise
    <3>2. QED BY <1>r, <2>5, <2>6, <2>8, <3>1
  <2>9. QED BY <2>7, <2>8
<1>18. ASSUME CreateUser(i) PROVE Goal
  <2>1. f.at = "create" /\ f.mail \in Snowflakes /\ f.for = "none" /\ f.b \in Browsers
    BY <1>18, <1>f DEF CreateUser, FlowOK, Linking
  <2>2. ASSUME NEW u \in Fresh, flow' = [flow EXCEPT ![i].at = "join", ![i].u = u],
               users' = [users EXCEPT ![u] = [NoUser EXCEPT !.row = TRUE, !.discord = f.mail, !.named = TRUE]]
        PROVE  Goal
    <3>1. u \in Users /\ ~users[u].row
      BY DEF Fresh
    <3>2. users'[u].row
      BY <2>2, <3>1 DEF Shapes, NoUser
    <3>3. Found(u)
      BY <3>1, <3>2 DEF Found
    <3>4. PICK g : g = [f EXCEPT !.at = "join", !.u = u]
      OBVIOUS
    <3>5. /\ g \in Flow /\ g.at = "join" /\ g.b = f.b /\ g.u = u /\ g.mail = f.mail /\ g.for = f.for
          /\ g.code = f.code /\ g.from = f.from
      BY <1>f, <3>1, <3>4 DEF Flow, Stages, Anyone
    <3>6. FlowOK(g) /\ \A v \in Users : Tame(i, g, v)
      BY <1>f, <1>i, <2>1, <3>1, <3>5 DEF FlowOK, Coding, Linking, Serving, Matched, Tame, Changes, Paying, Owed
    <3>7. flow' = [flow EXCEPT ![i] = g]
      BY <1>f, <2>2, <3>4
    <3>8. QED BY <1>w, <3>3, <3>5, <3>6, <3>7 DEF Follows
  <2>3. QED BY <1>18, <1>r, <2>2 DEF CreateUser
<1>19. ASSUME LinkAccount(i) \/ Admit(i) PROVE Goal
  <2>1. f.at \in {"join", "admit"} /\ (Reply(i) \/ Goto(i, "admit") \/ Goto(i, "greet"))
    BY <1>19 DEF LinkAccount, Admit
  <2>2. ASSUME NEW x \in {"admit", "greet"}, Goto(i, x) PROVE Goal
    <3>1. ASSUME NEW g \in Flow, Keeps(f, g, x) PROVE FlowOK(g)
      BY <1>f, <1>i, <2>1, <2>2, <3>1 DEF FlowOK, Coding, Linking, Serving, Matched, Keeps
    <3>2. ASSUME NEW g \in Flow, Keeps(f, g, x), NEW u \in Users PROVE Tame(i, g, u)
      BY <1>f, <1>i, <2>1, <2>2, <3>2 DEF FlowOK, Linking, Tame, Changes, Paying, Owed, Keeps
    <3>3. QED BY <1>g, <2>2, <3>1, <3>2 DEF Stages
  <2>3. QED BY <1>r, <2>1, <2>2
<1>20. ASSUME Clear(i) \/ Enter(i) \/ Abort(i) \/ Delete(i) \/ Adopt(i) \/ Greet(i) PROVE Goal
  BY <1>20, <1>r DEF Clear, Enter, Abort, Delete, Adopt, Greet
<1>21. Goal
  BY <1>1, <1>2, <1>3, <1>4, <1>5, <1>6, <1>7, <1>8, <1>9, <1>10, <1>11, <1>12, <1>13, <1>14, <1>15, <1>16, <1>17,
     <1>18, <1>19, <1>20 DEF Continue
<1>22. QED BY <1>21 DEF Goal

\* A request is taken up with what the session says.
LEMMA CallMoves ==
  ASSUME Shapes, FlowsOK, CodesGrow, NEW i \in Handlers, NEW b \in Browsers, Call(i, b)
  PROVE  \E g \in Flow : Moves(i, g)
<1> DEFINE Goal == \E g \in Flow : Moves(i, g)
           Anew(g, x) == g \in Flow /\ g.at = x /\ g.b = b /\ g.code = 0
<1>s. /\ session[b] \in Anyone /\ Len(codes) \in Nat /\ Idle.at = "idle"
      /\ (session[b] # None => session[b] \in Users /\ users[session[b]].email \in Emails \union {None})
  BY IdleIsAFlow DEF Shapes, Anyone, UserRow
<1>f. Found(None) /\ Found(session[b])
  BY <1>s DEF Found, Anyone
<1>w. ASSUME NEW g, Begin(i, g), Follows(i, g) PROVE Goal
  BY <1>w, FollowsMoves DEF Begin
<1>n. 0 \in 0..OTP_REQUEST_MAX
  BY CountsAssumption
<1> HIDE DEF Goal
<1>1. ASSUME NEW e \in Emails, RequestOtp(i, b, e) PROVE Goal
  <2>1. PICK g : g = [Idle EXCEPT !.at = "tally", !.b = b, !.mail = e, !.for = "otp"]
    OBVIOUS
  <2>2. Anew(g, "tally") /\ g.u = None /\ g.mail = e /\ g.for = "otp"
    BY <1>n, <2>1 DEF Idle, Flow, Stages, Purposes, Anyone
  <2>3. FlowOK(g) /\ \A u \in Users : Tame(i, g, u)
    BY <1>s, <2>2 DEF FlowOK, Coding, Linking, Serving, Matched, Purposes, Tame, Changes, Paying, Owed
  <2>4. QED BY <1>1, <1>f, <1>w, <2>1, <2>2, <2>3 DEF RequestOtp, Follows
<1>2. ASSUME NEW e \in Emails, RequestLink(i, b, e) PROVE Goal
  <2>1. PICK g : g = [Idle EXCEPT !.at = "ask", !.b = b, !.u = session[b], !.mail = e, !.for = "link"]
    OBVIOUS
  <2>2. Anew(g, "ask") /\ g.u = session[b] /\ g.mail = e /\ g.for = "link"
    BY <1>n, <1>s, <2>1 DEF Idle, Flow, Stages, Purposes, Anyone
  <2>3. session[b] \in Users
    BY <1>2, <1>s DEF RequestLink
  <2>4. FlowOK(g) /\ \A u \in Users : Tame(i, g, u)
    BY <1>s, <2>2, <2>3 DEF FlowOK, Coding, Linking, Serving, Matched, Purposes, Tame, Changes, Paying, Owed
  <2>5. QED BY <1>2, <1>f, <1>w, <2>1, <2>2, <2>4 DEF RequestLink, Follows
<1>3. ASSUME NEW e \in Emails, StartChange(i, b, e) PROVE Goal
  <2>1. PICK g : g = [Idle EXCEPT !.at = "tally", !.b = b, !.u = session[b], !.mail = e, !.for = "current",
                                  !.from = users[session[b]].email]
    OBVIOUS
  <2>2. session[b] \in Users /\ users[session[b]].email \in Emails
    BY <1>3, <1>s DEF StartChange
  <2>3. /\ Anew(g, "tally") /\ g.u = session[b] /\ g.mail = e /\ g.for = "current"
        /\ g.from = users[session[b]].email
    BY <1>n, <1>s, <2>1, <2>2 DEF Idle, Flow, Stages, Purposes, Anyone
  <2>4. FlowOK(g) /\ \A u \in Users : Tame(i, g, u)
    BY <1>s, <2>2, <2>3 DEF FlowOK, Coding, Linking, Serving, Matched, Purposes, Tame, Changes, Paying, Owed
  <2>5. QED BY <1>3, <1>f, <1>w, <2>1, <2>3, <2>4 DEF StartChange, Follows
<1>4. ASSUME NEW e \in Emails, NEW u \in {None, session[b]}, NEW for \in {"otp", "link"},
             for = "link" => u # None, Begin(i, Entered(b, u, e, for))
      PROVE  Goal
  <2>1. PICK g : g = [Idle EXCEPT !.at = "try", !.b = b, !.u = u, !.mail = e, !.for = for]
    OBVIOUS
  <2>2. u \in Anyone /\ (for = "link" => u \in Users)
    BY <1>4, <1>s DEF Anyone
  <2>3. Anew(g, "try") /\ g.u = u /\ g.mail = e /\ g.for = for
    BY <1>n, <2>1, <2>2 DEF Idle, Flow, Stages, Purposes, Anyone
  <2>4. FlowOK(g) /\ \A v \in Users : Tame(i, g, v)
    BY <1>s, <2>2, <2>3 DEF FlowOK, Coding, Linking, Serving, Matched, Purposes, Tame, Changes, Paying, Owed
  <2>5. QED BY <1>4, <1>f, <1>w, <2>1, <2>3, <2>4 DEF Entered, Follows
<1>5. ASSUME NEW for \in {"current", "new"}, VerifyChange(i, b, for) PROVE Goal
  <2>1. PICK g : g = [Idle EXCEPT !.at = "pending", !.b = b, !.u = session[b], !.for = for,
                                  !.from = users[session[b]].email]
    OBVIOUS
  <2>2. session[b] \in Users /\ users[session[b]].email \in Emails
    BY <1>5, <1>s DEF VerifyChange
  <2>3. Anew(g, "pending") /\ g.u = session[b] /\ g.for = for /\ g.from = users[session[b]].email
    BY <1>n, <1>s, <2>1, <2>2 DEF Idle, Flow, Stages, Purposes, Anyone
  <2>4. FlowOK(g) /\ \A u \in Users : Tame(i, g, u)
    BY <1>s, <2>2, <2>3 DEF FlowOK, Coding, Linking, Serving, Matched, Purposes, Tame, Changes, Paying, Owed
  <2>5. QED BY <1>5, <1>f, <1>w, <2>1, <2>3, <2>4 DEF VerifyChange, Follows
<1>6. ASSUME NEW x \in {"pending", "delete"}, session[b] # None,
             Begin(i, [Idle EXCEPT !.at = x, !.b = b, !.u = session[b]])
      PROVE  Goal
  <2>1. PICK g : g = [Idle EXCEPT !.at = x, !.b = b, !.u = session[b]]
    OBVIOUS
  <2>2. session[b] \in Users /\ x \in Stages
    BY <1>6, <1>s DEF Stages
  <2>3. Anew(g, x) /\ g.u = session[b] /\ g.for = "none"
    BY <1>n, <1>s, <2>1, <2>2 DEF Idle, Flow, Anyone
  <2>4. FlowOK(g) /\ \A u \in Users : Tame(i, g, u)
    BY <1>s, <2>2, <2>3 DEF FlowOK, Coding, Linking, Serving, Matched, Tame, Changes, Paying, Owed
  <2>5. QED BY <1>6, <1>f, <1>w, <2>1, <2>3, <2>4 DEF Follows
<1>7. ASSUME NEW s \in Snowflakes, LinkCallback(i, b, s) PROVE Goal
  <2>1. PICK g : g = [Idle EXCEPT !.at = "token", !.b = b, !.u = session[b], !.mail = s]
    OBVIOUS
  <2>2. session[b] \in Users
    BY <1>7, <1>s DEF LinkCallback
  <2>3. Anew(g, "token") /\ g.u = session[b] /\ g.mail = s /\ g.for = "none"
    BY <1>n, <1>s, <2>1 DEF Idle, Flow, Stages, Anyone
  <2>4. FlowOK(g) /\ \A u \in Users : Tame(i, g, u)
    BY <1>s, <2>2, <2>3 DEF FlowOK, Coding, Linking, Serving, Matched, Tame, Changes, Paying, Owed
  <2>5. QED BY <1>7, <1>f, <1>w, <2>1, <2>3, <2>4 DEF LinkCallback, Follows
<1>8. ASSUME NEW s \in Snowflakes, SignInWithDiscord(i, b, s) PROVE Goal
  <2>1. PICK g : g = [Idle EXCEPT !.at = "recognise", !.b = b, !.u = session[b], !.from = session[b], !.mail = s]
    OBVIOUS
  <2>3. Anew(g, "recognise") /\ g.u = session[b] /\ g.mail = s /\ g.for = "none"
    BY <1>n, <1>s, <2>1 DEF Idle, Flow, Stages, Anyone
  <2>4. FlowOK(g) /\ \A u \in Users : Tame(i, g, u)
    BY <1>s, <2>3 DEF FlowOK, Coding, Linking, Serving, Matched, Tame, Changes, Paying, Owed
  <2>5. QED BY <1>8, <1>f, <1>w, <2>1, <2>3, <2>4 DEF SignInWithDiscord, Follows
<1>9. ASSUME NEW e \in Emails, VerifyOtp(i, b, e) \/ VerifyLink(i, b, e) PROVE Goal
  BY <1>9, <1>4 DEF VerifyOtp, VerifyLink
<1>10. ASSUME AskAbort(i, b) \/ AskDelete(i, b) PROVE Goal
  BY <1>10, <1>6 DEF AskAbort, AskDelete
<1>11. Goal
  BY <1>1, <1>2, <1>3, <1>5, <1>7, <1>8, <1>9, <1>10 DEF Call
<1>12. QED BY <1>11 DEF Goal

\* The rest of the steps leave the requests alone.
LEMMA FlowsMove ==
  ASSUME Shapes, FlowsOK, [Next]_vars
  PROVE  flow' = flow \/ \E i \in Handlers, g \in Flow : Moves(i, g)
<1>1. CodesGrow
  BY CodesStep
<1>2. ASSUME NEW b \in Browsers, Others(b) PROVE flow' = flow
  BY <1>2 DEF Others, SignOut, RevokeOthers, SetDisplayName, InitiateLink, ExpireLink, Recess, Unlock
<1>3. ASSUME NEW c \in DOMAIN codes, Expire(c) PROVE flow' = flow
  BY <1>3 DEF Expire
<1>4. QED BY <1>1, <1>2, <1>3, ContinueMoves, CallMoves DEF Next, vars, Others

LEMMA FlowsStep ==
  ASSUME Shapes, FlowsOK, [Next]_vars
  PROVE  flow' \in [Handlers -> Flow] /\ FlowsOK'
<1>1. CodesGrow
  BY CodesStep
<1>2. CASE flow' = flow
  BY <1>1, <1>2, OthersKept DEF FlowsOK, Shapes
<1>3. ASSUME NEW i \in Handlers, NEW g \in Flow, Moves(i, g) PROVE flow' \in [Handlers -> Flow] /\ FlowsOK'
  <2>1. flow' \in [Handlers -> Flow] /\ flow'[i] = g /\ \A j \in Handlers \ {i} : flow'[j] = flow[j]
    BY <1>3 DEF Moves, Shapes
  <2>2. FlowOK(flow[i])'
    BY <1>3, <2>1 DEF Moves, FlowOK, Matched
  <2>3. \A j \in Handlers \ {i} : FlowOK(flow[j])'
    BY <1>1, <2>1, OthersKept DEF FlowsOK
  <2>4. QED BY <2>1, <2>2, <2>3 DEF FlowsOK
<1>4. QED BY <1>2, <1>3, FlowsMove

LEMMA Serves ==
  ASSUME Shapes, FlowsOK, [Next]_vars, NEW j \in Handlers
  PROVE  flow'[j].u = flow[j].u \/ Found(flow'[j].u)
BY FlowsMove DEF Moves, Shapes

-----------------------------------------------------------------------------
(* The people.                                                             *)

\* A step writes the row of one user at most, with an address and an identity
\* that nobody else has.  Who has been served by no request keeps both.
Written(u, r) ==
  /\ r \in UserRow /\ r.row
  /\ r.email \in {users[u].email, None} \/ \A v \in Users \ {u} : users[v].email # r.email
  /\ r.discord \in {users[u].discord, None} \/ \A v \in Users \ {u} : users[v].discord # r.discord
  /\ r.gone => users[u].gone \/ \E i \in Handlers : Delete(i) /\ flow[i].u = u
  /\ \/ r.email = users[u].email /\ r.discord = users[u].discord
     \/ ~users[u].row
     \/ \E i \in Handlers : flow[i].u = u
OneUserWritten == users' = users \/ \E u \in Users, r \in UserRow : users' = [users EXCEPT ![u] = r] /\ Written(u, r)

LEMMA Addressed ==
  ASSUME Shapes, NEW i \in Handlers, NEW u \in Users, flow[i].u = u, users[u].row, NEW e \in Emails,
         OfEmail(e) \ {u} = {}, NEW r, r = [users[u] EXCEPT !.email = e]
  PROVE  r \in UserRow /\ Written(u, r)
<1>1. users[u] \in UserRow
  BY DEF Shapes
<1>2. /\ r \in UserRow /\ r.row = users[u].row /\ r.email = e /\ r.discord = users[u].discord
      /\ r.gone = users[u].gone
  BY <1>1 DEF UserRow
<1>3. QED BY <1>1, <1>2 DEF Written, OfEmail

LEMMA Identified ==
  ASSUME Shapes, NEW i \in Handlers, NEW u \in Users, flow[i].u = u, users[u].row, NEW s \in Snowflakes,
         OfDiscord(s) \ {u} = {}, NEW r,
         r = [users[u] EXCEPT !.discord = s] \/ r = [users[u] EXCEPT !.discord = s, !.named = TRUE]
  PROVE  r \in UserRow /\ Written(u, r)
<1>1. users[u] \in UserRow
  BY DEF Shapes
<1>2. /\ r \in UserRow /\ r.row = users[u].row /\ r.email = users[u].email /\ r.discord = s
      /\ r.gone = users[u].gone
  BY <1>1 DEF UserRow
<1>3. QED BY <1>1, <1>2 DEF Written, OfDiscord

LEMMA UsersWritten ==
  ASSUME Shapes, FlowsOK, RefsOK, [Next]_vars
  PROVE  OneUserWritten
<1> USE DEF OneUserWritten
<1>1. ASSUME NEW i \in Handlers, Writes(i) PROVE OneUserWritten
  <2> DEFINE f == flow[i]
  <2>f. /\ f \in Flow /\ FlowOK(f) /\ (f.u \in Users => users[f.u].row)
        /\ users \in [Users -> UserRow]
    BY NoneAssumption DEF Shapes, FlowsOK, RefsOK, Rowed
  <2>1. ASSUME Upsert(i) PROVE OneUserWritten
    <3>1. CASE OfEmail(f.mail) # {}
      BY <2>1, <3>1 DEF Upsert
    <3>2. CASE OfEmail(f.mail) = {}
      <4>1. PICK u \in Fresh : users' = [users EXCEPT ![u] = [NoUser EXCEPT !.row = TRUE, !.email = f.mail]]
        BY <2>1, <3>2 DEF Upsert
      <4>2. PICK r : r = [NoUser EXCEPT !.row = TRUE, !.email = f.mail]
        OBVIOUS
      <4>3. f.mail \in Emails
        BY <2>1, <2>f DEF Upsert, FlowOK, Coding
      <4>4. r \in UserRow /\ r.row /\ r.email = f.mail /\ r.discord = None /\ ~r.gone
        BY <4>2, <4>3 DEF NoUser, UserRow
      <4>5. u \in Users /\ ~users[u].row
        BY <4>1 DEF Fresh
      <4>6. Written(u, r)
        BY <3>2, <4>4, <4>5 DEF Written, OfEmail
      <4>7. QED BY <4>1, <4>2, <4>4, <4>5, <4>6
    <3>3. QED BY <3>1, <3>2
  <2>2. ASSUME Attach(i) \/ Swap(i), users' # users PROVE OneUserWritten
    <3>1. f.u \in Users /\ f.mail \in Emails
      BY <2>2, <2>f DEF Attach, Swap, FlowOK, Coding
    <3>2. users' = [users EXCEPT ![f.u].email = f.mail] /\ OfEmail(f.mail) \ {f.u} = {}
      BY <2>2 DEF Attach, Swap
    <3>3. PICK u \in Users : u = f.u
      BY <3>1
    <3>4. PICK r : r = [users[u] EXCEPT !.email = f.mail]
      OBVIOUS
    <3>5. r \in UserRow /\ Written(u, r)
      BY <2>f, <3>1, <3>2, <3>3, <3>4, Addressed
    <3>6. users' = [users EXCEPT ![u] = r]
      BY <2>f, <3>2, <3>3, <3>4
    <3>7. QED BY <3>5, <3>6
  <2>3. ASSUME Delete(i) PROVE OneUserWritten
    <3>1. f.u \in Users
      BY <2>3, <2>f DEF Delete, FlowOK, Serving
    <3>2. users' = [users EXCEPT ![f.u] = [NoUser EXCEPT !.row = TRUE, !.named = TRUE, !.gone = TRUE]]
      BY <2>3 DEF Delete
    <3>3. PICK r : r = [NoUser EXCEPT !.row = TRUE, !.named = TRUE, !.gone = TRUE]
      OBVIOUS
    <3>4. r \in UserRow /\ r.row /\ r.email = None /\ r.discord = None
      BY <3>3 DEF NoUser, UserRow
    <3>5. Written(f.u, r)
      BY <2>3, <3>1, <3>4 DEF Written
    <3>6. QED BY <3>1, <3>2, <3>3, <3>4, <3>5
  <2>4. ASSUME Adopt(i) \/ Greet(i), users' # users PROVE OneUserWritten
    <3>1. f.u \in Users /\ f.mail \in Snowflakes
      BY <2>4, <2>f DEF Adopt, Greet, FlowOK, Serving, Linking
    <3>2. PICK u \in Users : u = f.u
      BY <3>1
    <3>3. /\ OfDiscord(f.mail) \ {u} = {}
          /\ \/ users' = [users EXCEPT ![u].discord = f.mail]
             \/ users' = [users EXCEPT ![u].discord = f.mail, ![u].named = TRUE]
      BY <2>4, <3>2 DEF Adopt, Greet
    <3>4. CASE users' = [users EXCEPT ![u].discord = f.mail]
      <4>1. PICK r : r = [users[u] EXCEPT !.discord = f.mail]
        OBVIOUS
      <4>2. r \in UserRow /\ Written(u, r)
        BY <2>f, <3>1, <3>2, <3>3, <4>1, Identified
      <4>3. users' = [users EXCEPT ![u] = r]
        BY <2>f, <3>4, <4>1
      <4>4. QED BY <4>2, <4>3
    <3>5. CASE users' = [users EXCEPT ![u].discord = f.mail, ![u].named = TRUE]
      <4>1. PICK r : r = [users[u] EXCEPT !.discord = f.mail, !.named = TRUE]
        OBVIOUS
      <4>2. r \in UserRow /\ Written(u, r)
        BY <2>f, <3>1, <3>2, <3>3, <4>1, Identified
      <4>3. users' = [users EXCEPT ![u] = r]
        BY <2>f, <3>5, <4>1
      <4>4. QED BY <4>2, <4>3
    <3>6. QED BY <3>3, <3>4, <3>5
  <2>5. ASSUME CreateUser(i), users' # users PROVE OneUserWritten
    <3>1. /\ OfDiscord(f.mail) = {} /\ f.mail \in Snowflakes
          /\ \E u \in Fresh :
               users' = [users EXCEPT ![u] = [NoUser EXCEPT !.row = TRUE, !.discord = f.mail, !.named = TRUE]]
      BY <2>5, <2>f DEF CreateUser, FlowOK, Linking
    <3>2. PICK u \in Fresh :
            users' = [users EXCEPT ![u] = [NoUser EXCEPT !.row = TRUE, !.discord = f.mail, !.named = TRUE]]
      BY <3>1
    <3>3. PICK r : r = [NoUser EXCEPT !.row = TRUE, !.discord = f.mail, !.named = TRUE]
      OBVIOUS
    <3>4. r \in UserRow /\ r.row /\ r.email = None /\ r.discord = f.mail /\ ~r.gone
      BY <3>1, <3>3 DEF NoUser, UserRow
    <3>5. u \in Users /\ ~users[u].row
      BY DEF Fresh
    <3>6. Written(u, r)
      BY <3>1, <3>4, <3>5 DEF Written, OfDiscord
    <3>7. QED BY <3>2, <3>3, <3>4, <3>5, <3>6
  <2>6. ASSUME Count(i) \/ Insert(i) \/ Send(i) \/ Clear(i) \/ RecordFailedAttempt(i) \/ Lock(i) \/ ResetAttempts(i)
        PROVE  users' = users
    BY <2>6 DEF Count, Insert, Send, Clear, RecordFailedAttempt, Lock, ResetAttempts
  <2>7. ASSUME Consume(i) \/ Enter(i) \/ Abort(i) \/ Spend(i) \/ LinkAccount(i) \/ Admit(i) PROVE users' = users
    BY <2>7 DEF Consume, Enter, Abort, Spend, LinkAccount, Admit
  <2>8. QED BY <1>1, <2>1, <2>2, <2>3, <2>4, <2>5, <2>6, <2>7 DEF Writes
<1>3. ASSUME NEW b \in Browsers, SetDisplayName(b) PROVE OneUserWritten
  <2>1. PICK u : u = session[b]
    OBVIOUS
  <2>2. u \in Users /\ users[u].row /\ users \in [Users -> UserRow] /\ users' = [users EXCEPT ![u].named = TRUE]
    BY <1>3, <2>1 DEF SetDisplayName, RefsOK, Rowed, Shapes, Anyone
  <2>3. PICK r : r = [users[u] EXCEPT !.named = TRUE]
    OBVIOUS
  <2>4. /\ r \in UserRow /\ r.row /\ r.email = users[u].email /\ r.discord = users[u].discord
        /\ r.gone = users[u].gone
    BY <2>2, <2>3 DEF UserRow
  <2>5. Written(u, r)
    BY <2>4 DEF Written
  <2>6. users' = [users EXCEPT ![u] = r]
    BY <2>2, <2>3
  <2>7. QED BY <2>2, <2>4, <2>5, <2>6
<1>4. ASSUME NEW b \in Browsers, Others(b) PROVE users' = users \/ SetDisplayName(b)
  BY <1>4 DEF Others, SignOut, RevokeOthers, InitiateLink, ExpireLink, Recess, Unlock
<1>5. ASSUME NEW c \in DOMAIN codes, Expire(c) PROVE users' = users
  BY <1>5 DEF Expire
<1>6. QED BY <1>1, <1>3, <1>4, <1>5, Steps DEF Still

\* A browser is signed out, or in by a request that serves its user.
SessionsOK ==
  /\ session' \in [Browsers -> Anyone]
  /\ \A b \in Browsers : \/ session'[b] = session[b] \/ session'[b] = None
                         \/ session'[b] \in Users /\ \E i \in Handlers : flow[i].u = session'[b]
\* A Discord identity signs in to the user it did, or to one whom a request serves.
AccountsOK ==
  /\ accounts' \in [Snowflakes -> Anyone]
  /\ \A s \in Snowflakes : \/ accounts'[s] = accounts[s] \/ accounts'[s] = None
                           \/ accounts'[s] \in Users /\ \E i \in Handlers : flow[i].u = accounts'[s]
\* A change is pending for whom it was, or for whom a request serves.
PendingOK ==
  /\ pending' \in [Users -> {None} \union Change]
  /\ \A u \in Users : pending'[u] = None \/ pending[u] # None \/ \E i \in Handlers : flow[i].u = u

LEMMA SessionsWritten ==
  ASSUME Shapes, FlowsOK, [Next]_vars
  PROVE  SessionsOK
<1>0. session \in [Browsers -> Anyone] /\ None \in Anyone
  BY DEF Shapes, Anyone
<1>1. CASE session' = session
  BY <1>0, <1>1 DEF SessionsOK
<1>2. ASSUME NEW i \in Handlers, Enter(i) \/ Admit(i) PROVE SessionsOK
  <2>1. flow[i].u \in Users
    BY <1>2 DEF Enter, Admit, FlowsOK, FlowOK, Serving
  <2>2. session' = [session EXCEPT ![flow[i].b] = flow[i].u]
    BY <1>2 DEF Enter, Admit
  <2>3. session' \in [Browsers -> Anyone]
    BY <1>0, <2>1, <2>2 DEF Anyone
  <2>4. ASSUME NEW b \in Browsers PROVE session'[b] = session[b] \/ session'[b] = flow[i].u
    BY <1>0, <2>2
  <2>5. QED BY <2>1, <2>3, <2>4 DEF SessionsOK
<1>3. ASSUME NEW i \in Handlers, Delete(i) PROVE SessionsOK
  <2>1. session' = [b \in Browsers |-> IF session[b] = flow[i].u THEN None ELSE session[b]]
    BY <1>0, <1>3 DEF Delete, Cleared
  <2>2. QED BY <1>0, <2>1 DEF SessionsOK
<1>4. ASSUME NEW b \in Browsers, SignOut(b) \/ RevokeOthers(b) PROVE SessionsOK
  BY <1>0, <1>4 DEF SignOut, RevokeOthers, SessionsOK
<1>5. ASSUME NEW i \in Handlers,
             Count(i) \/ Insert(i) \/ Send(i) \/ Clear(i) \/ RecordFailedAttempt(i) \/ Lock(i) \/ ResetAttempts(i)
      PROVE  session' = session
  BY <1>5 DEF Count, Insert, Send, Clear, RecordFailedAttempt, Lock, ResetAttempts
<1>6. ASSUME NEW i \in Handlers, Consume(i) \/ Upsert(i) \/ Attach(i) \/ Swap(i) \/ Abort(i) \/ Spend(i)
      PROVE  session' = session
  BY <1>6 DEF Consume, Upsert, Attach, Swap, Abort, Spend
<1>7. ASSUME NEW i \in Handlers, Adopt(i) \/ CreateUser(i) \/ LinkAccount(i) \/ Greet(i)
      PROVE  session' = session
  BY <1>7 DEF Adopt, CreateUser, LinkAccount, Greet
<1>8. ASSUME NEW b \in Browsers, Others(b), ~SignOut(b), ~RevokeOthers(b) PROVE session' = session
  BY <1>8 DEF Others, SetDisplayName, InitiateLink, ExpireLink, Recess, Unlock
<1>9. ASSUME NEW c \in DOMAIN codes, Expire(c) PROVE session' = session
  BY <1>9 DEF Expire
<1>10. ASSUME NEW i \in Handlers, Writes(i) PROVE SessionsOK
  BY <1>1, <1>2, <1>3, <1>5, <1>6, <1>7, <1>10 DEF Writes
<1>11. QED BY <1>1, <1>4, <1>8, <1>9, <1>10, Steps DEF Still

LEMMA AccountsWritten ==
  ASSUME Shapes, FlowsOK, [Next]_vars
  PROVE  AccountsOK
<1>0. accounts \in [Snowflakes -> Anyone] /\ None \in Anyone
  BY DEF Shapes, Anyone
<1>1. ASSUME NEW i \in Handlers, Delete(i) PROVE AccountsOK
  <2>1. accounts' = [s \in Snowflakes |-> IF accounts[s] = flow[i].u THEN None ELSE accounts[s]]
    BY <1>0, <1>1 DEF Delete, Cleared
  <2>2. QED BY <1>0, <2>1 DEF AccountsOK
<1>2. ASSUME NEW i \in Handlers, LinkAccount(i), accounts' # accounts PROVE AccountsOK
  <2>1. flow[i].u \in Users
    BY <1>2 DEF LinkAccount, FlowsOK, FlowOK, Serving
  <2>2. accounts' = [accounts EXCEPT ![flow[i].mail] = flow[i].u]
    BY <1>2 DEF LinkAccount
  <2>3. accounts' \in [Snowflakes -> Anyone]
    BY <1>0, <2>1, <2>2 DEF Anyone
  <2>4. ASSUME NEW s \in Snowflakes PROVE accounts'[s] = accounts[s] \/ accounts'[s] = flow[i].u
    BY <1>0, <2>2
  <2>5. QED BY <2>1, <2>3, <2>4 DEF AccountsOK
<1>3. CASE accounts' = accounts
  BY <1>0, <1>3 DEF AccountsOK
<1>4. ASSUME NEW i \in Handlers,
             Count(i) \/ Insert(i) \/ Send(i) \/ Clear(i) \/ RecordFailedAttempt(i) \/ Lock(i) \/ ResetAttempts(i)
      PROVE  accounts' = accounts
  BY <1>4 DEF Count, Insert, Send, Clear, RecordFailedAttempt, Lock, ResetAttempts
<1>5. ASSUME NEW i \in Handlers, Consume(i) \/ Upsert(i) \/ Enter(i) \/ Attach(i) \/ Swap(i) \/ Abort(i)
      PROVE  accounts' = accounts
  BY <1>5 DEF Consume, Upsert, Enter, Attach, Swap, Abort
<1>6. ASSUME NEW i \in Handlers, Spend(i) \/ Adopt(i) \/ CreateUser(i) \/ Admit(i) \/ Greet(i)
      PROVE  accounts' = accounts
  BY <1>6 DEF Spend, Adopt, CreateUser, Admit, Greet
<1>7. ASSUME NEW b \in Browsers, Others(b) PROVE accounts' = accounts
  BY <1>7 DEF Others, SignOut, RevokeOthers, SetDisplayName, InitiateLink, ExpireLink, Recess, Unlock
<1>8. ASSUME NEW c \in DOMAIN codes, Expire(c) PROVE accounts' = accounts
  BY <1>8 DEF Expire
<1>9. ASSUME NEW i \in Handlers, Writes(i) PROVE AccountsOK
  BY <1>1, <1>2, <1>3, <1>4, <1>5, <1>6, <1>9 DEF Writes
<1>10. QED BY <1>3, <1>7, <1>8, <1>9, Steps DEF Still

LEMMA PendingWritten ==
  ASSUME Shapes, FlowsOK, [Next]_vars
  PROVE  PendingOK
<1>0. pending \in [Users -> {None} \union Change]
  BY DEF Shapes
<1>1. ASSUME NEW i \in Handlers, Insert(i), pending' # pending PROVE PendingOK
  <2> DEFINE f == flow[i]
  <2>1. f.at = "insert" /\ f.mail \in Emails /\ (f.for # "otp" => f.u \in Users)
    BY <1>1 DEF Insert, FlowsOK, FlowOK, Coding
  <2>2. CASE f.for = "current"
    <3>1. pending' = [pending EXCEPT ![f.u] = [mail |-> f.mail, stamped |-> FALSE]]
      BY <1>1, <2>2 DEF Insert
    <3>2. [mail |-> f.mail, stamped |-> FALSE] \in Change
      BY <2>1 DEF Change
    <3>3. QED BY <1>0, <2>1, <2>2, <3>1, <3>2 DEF PendingOK
  <2>3. CASE f.for = "new"
    <3>1. pending' = [pending EXCEPT ![f.u] = [pending[f.u] EXCEPT !.stamped = TRUE]] /\ pending[f.u] # None
      BY <1>1, <2>3 DEF Insert
    <3>2. pending[f.u] \in Change
      BY <1>0, <2>1, <2>3, <3>1
    <3>3. ASSUME NEW p \in Change, NEW q, q = [p EXCEPT !.stamped = TRUE] PROVE q \in Change
      BY <3>3 DEF Change
    <3>4. [pending[f.u] EXCEPT !.stamped = TRUE] \in Change
      BY <3>2, <3>3, Zenon
    <3>5. QED BY <1>0, <2>1, <2>3, <3>1, <3>4 DEF PendingOK
  <2>4. QED BY <1>1, <2>2, <2>3 DEF Insert
<1>2. ASSUME NEW i \in Handlers, Swap(i) \/ Abort(i) \/ Delete(i) PROVE PendingOK
  BY <1>0, <1>2 DEF Swap, Abort, Delete, PendingOK
<1>3. CASE pending' = pending
  BY <1>0, <1>3 DEF PendingOK
<1>4. ASSUME NEW i \in Handlers,
             Count(i) \/ Send(i) \/ Clear(i) \/ RecordFailedAttempt(i) \/ Lock(i) \/ ResetAttempts(i) \/ Consume(i)
      PROVE  pending' = pending
  BY <1>4 DEF Count, Send, Clear, RecordFailedAttempt, Lock, ResetAttempts, Consume
<1>5. ASSUME NEW i \in Handlers, Upsert(i) \/ Enter(i) \/ Attach(i) \/ Spend(i) \/ Adopt(i) PROVE pending' = pending
  BY <1>5 DEF Upsert, Enter, Attach, Spend, Adopt
<1>6. ASSUME NEW i \in Handlers, CreateUser(i) \/ LinkAccount(i) \/ Admit(i) \/ Greet(i) PROVE pending' = pending
  BY <1>6 DEF CreateUser, LinkAccount, Admit, Greet
<1>7. ASSUME NEW b \in Browsers, Others(b) PROVE pending' = pending
  BY <1>7 DEF Others, SignOut, RevokeOthers, SetDisplayName, InitiateLink, ExpireLink, Recess, Unlock
<1>8. ASSUME NEW c \in DOMAIN codes, Expire(c) PROVE pending' = pending
  BY <1>8 DEF Expire
<1>9. ASSUME NEW i \in Handlers, Writes(i) PROVE PendingOK
  BY <1>1, <1>2, <1>3, <1>4, <1>5, <1>6, <1>9 DEF Writes
<1>10. QED BY <1>3, <1>7, <1>8, <1>9, Steps DEF Still

\* Counters of attempts stay within their limits.
AttemptsOK == attempts' \in [Emails \X Browsers -> [n : 0..MAX_FAILED_ATTEMPTS, lock : Locks]]
LEMMA AttemptsWritten ==
  ASSUME Shapes, FlowsOK, [Next]_vars
  PROVE  AttemptsOK
<1> DEFINE Row == [n : 0..MAX_FAILED_ATTEMPTS, lock : Locks]
<1>0. attempts \in [Emails \X Browsers -> Row]
  BY DEF Shapes
<1>n. NoAttempts \in Row
  BY CountsAssumption DEF NoAttempts, Locks
<1>a. ASSUME NEW i \in Handlers, flow[i].at \in Coding PROVE <<Axis(flow[i]), flow[i].b>> \in Emails \X Browsers
  <2>1. FlowOK(flow[i]) /\ flow[i].at # "idle"
    BY <1>a DEF FlowsOK, Coding
  <2>2. Axis(flow[i]) \in Emails /\ flow[i].b \in Browsers
    BY <1>a, <2>1 DEF FlowOK, Axis
  <2>3. QED BY <2>2
<1>r. ASSUME NEW i \in Handlers, ResetAttempts(i) PROVE AttemptsOK
  <2>1. attempts' = [attempts EXCEPT ![<<Axis(flow[i]), flow[i].b>>] = NoAttempts]
    BY <1>r DEF ResetAttempts
  <2>2. QED BY <1>0, <1>n, <2>1 DEF AttemptsOK
<1>1. ASSUME NEW i \in Handlers, RecordFailedAttempt(i) PROVE AttemptsOK
  <2>1. PICK a \in Emails \X Browsers : a = <<Axis(flow[i]), flow[i].b>>
    BY <1>1, <1>a DEF RecordFailedAttempt, Coding
  <2>2. attempts[a] \in Row
    BY <1>0
  <2>3. attempts[a].n \in 0..MAX_FAILED_ATTEMPTS /\ attempts[a].lock \in Locks
    BY <2>2
  <2>4. PICK k : k = IF attempts[a].n + 1 > MAX_FAILED_ATTEMPTS THEN MAX_FAILED_ATTEMPTS ELSE attempts[a].n + 1
    OBVIOUS
  <2>5. k \in 0..MAX_FAILED_ATTEMPTS
    BY <2>3, <2>4, CountsAssumption
  <2>6. attempts' = [attempts EXCEPT ![a].n = k]
    <3>1. attempts' = [attempts EXCEPT ![<<Axis(flow[i]), flow[i].b>>].n =
                         IF attempts[<<Axis(flow[i]), flow[i].b>>].n + 1 > MAX_FAILED_ATTEMPTS
                           THEN MAX_FAILED_ATTEMPTS ELSE attempts[<<Axis(flow[i]), flow[i].b>>].n + 1]
      BY <1>1, Zenon DEF RecordFailedAttempt
    <3>2. QED BY <2>1, <2>4, <3>1, Zenon
  <2>7. ASSUME NEW r \in Row, NEW q, q = [r EXCEPT !.n = k] PROVE q \in Row
    BY <2>5, <2>7
  <2>8. [attempts[a] EXCEPT !.n = k] \in Row
    BY <2>2, <2>7, Zenon
  <2>9. attempts' = [attempts EXCEPT ![a] = [attempts[a] EXCEPT !.n = k]]
    BY <1>0, <2>6
  <2>10. QED BY <1>0, <2>8, <2>9 DEF AttemptsOK
<1>2. ASSUME NEW i \in Handlers, Lock(i), attempts' # attempts PROVE AttemptsOK
  <2>1. PICK a \in Emails \X Browsers : a = <<Axis(flow[i]), flow[i].b>>
    BY <1>2, <1>a DEF Lock, Coding
  <2>2. attempts[a] \in Row
    BY <1>0
  <2>3. attempts' = [attempts EXCEPT ![a] = [attempts[a] EXCEPT !.lock = "now"]]
    BY <1>0, <1>2, <2>1 DEF Lock
  <2>4. ASSUME NEW r \in Row, NEW q, q = [r EXCEPT !.lock = "now"] PROVE q \in Row
    BY <2>4 DEF Locks
  <2>5. [attempts[a] EXCEPT !.lock = "now"] \in Row
    BY <2>2, <2>4, Zenon
  <2>6. QED BY <1>0, <2>3, <2>5 DEF AttemptsOK
<1>4. ASSUME NEW i \in Handlers, Swap(i), attempts' # attempts PROVE AttemptsOK
  <2>1. attempts' = [r \in DOMAIN attempts |->
                       IF r[1] = flow[i].from THEN NoAttempts ELSE attempts[r]]
    BY <1>4 DEF Swap
  <2>2. QED BY <1>0, <1>n, <2>1 DEF AttemptsOK
<1>5. ASSUME NEW e \in Emails, NEW b \in Browsers, Unlock(e, b) PROVE AttemptsOK
  <2>1. PICK a \in Emails \X Browsers : a = <<e, b>>
    OBVIOUS
  <2>2. attempts[a] \in Row
    BY <1>0
  <2>3. \/ attempts' = [attempts EXCEPT ![a] = [attempts[a] EXCEPT !.lock = "over"]]
        \/ attempts' = [attempts EXCEPT ![a] = NoAttempts]
    BY <1>5, <2>1 DEF Unlock
  <2>4. ASSUME NEW r \in Row, NEW q, q = [r EXCEPT !.lock = "over"] PROVE q \in Row
    BY <2>4 DEF Locks
  <2>5. [attempts[a] EXCEPT !.lock = "over"] \in Row
    BY <2>2, <2>4, Zenon
  <2>6. QED BY <1>0, <1>n, <2>3, <2>5 DEF AttemptsOK
<1>6. ASSUME attempts' = attempts PROVE AttemptsOK
  BY <1>0, <1>6 DEF AttemptsOK
<1>7. ASSUME NEW i \in Handlers, Count(i) \/ Insert(i) \/ Send(i) \/ Clear(i) \/ Consume(i) \/ Upsert(i)
      PROVE  attempts' = attempts
  BY <1>7 DEF Count, Insert, Send, Clear, Consume, Upsert
<1>8. ASSUME NEW i \in Handlers, Enter(i) \/ Attach(i) \/ Abort(i) \/ Delete(i) \/ Spend(i) \/ Adopt(i)
      PROVE  attempts' = attempts
  BY <1>8 DEF Enter, Attach, Abort, Delete, Spend, Adopt
<1>9. ASSUME NEW i \in Handlers, CreateUser(i) \/ LinkAccount(i) \/ Admit(i) \/ Greet(i) PROVE attempts' = attempts
  BY <1>9 DEF CreateUser, LinkAccount, Admit, Greet
<1>10. ASSUME NEW b \in Browsers, Others(b), \A e \in Emails : ~Unlock(e, b) PROVE attempts' = attempts
  BY <1>10 DEF Others, SignOut, RevokeOthers, SetDisplayName, InitiateLink, ExpireLink, Recess
<1>11. ASSUME NEW c \in DOMAIN codes, Expire(c) PROVE attempts' = attempts
  BY <1>11 DEF Expire
<1> HIDE DEF Row
<1>12. ASSUME NEW i \in Handlers, Writes(i) PROVE AttemptsOK
  BY <1>r, <1>1, <1>2, <1>4, <1>6, <1>7, <1>8, <1>9, <1>12 DEF Writes
<1>13. QED BY <1>5, <1>6, <1>10, <1>11, <1>12, Steps DEF Still

\* The counter of requests, and the cookies of links, likewise.
TalliesOK ==
  /\ requests' \in [Browsers -> [n : 0..OTP_REQUEST_MAX, lock : Locks, fresh : BOOLEAN]]
  /\ links' \in [Browsers -> Anyone]
LEMMA TalliesWritten ==
  ASSUME Shapes, FlowsOK, [Next]_vars
  PROVE  TalliesOK
<1> DEFINE Row == [n : 0..OTP_REQUEST_MAX, lock : Locks, fresh : BOOLEAN]
<1>0. requests \in [Browsers -> Row] /\ links \in [Browsers -> Anyone] /\ session \in [Browsers -> Anyone]
  BY DEF Shapes
<1>1. ASSUME NEW i \in Handlers, Count(i) PROVE TalliesOK
  <2>1. flow[i].n \in 0..OTP_REQUEST_MAX
    BY DEF Shapes, Flow
  <2>2. \E l \in Locks : [n |-> flow[i].n, fresh |-> TRUE, lock |-> l] \in Row
                        /\ requests' = [requests EXCEPT ![flow[i].b] = [n |-> flow[i].n, fresh |-> TRUE, lock |-> l]]
    BY <1>1, <2>1 DEF Count, Locks
  <2>3. links' = links
    BY <1>1 DEF Count
  <2>4. QED BY <1>0, <2>2, <2>3 DEF TalliesOK
<1>2. ASSUME NEW b \in Browsers, Recess(b) PROVE TalliesOK
  <2>1. requests[b] \in Row
    BY <1>0
  <2>2. PICK k \in BOOLEAN : k = (requests[b].lock = "now")
    OBVIOUS
  <2>3. requests' = [requests EXCEPT ![b].lock = "no", ![b].fresh = k] /\ links' = links
    BY <1>2, <2>2 DEF Recess
  <2>4. ASSUME NEW r \in Row, NEW q, q = [r EXCEPT !.lock = "no", !.fresh = k] PROVE q \in Row
    BY <2>4 DEF Locks
  <2>5. [requests[b] EXCEPT !.lock = "no", !.fresh = k] \in Row
    BY <2>1, <2>4, Zenon
  <2>6. requests' = [requests EXCEPT ![b] = [requests[b] EXCEPT !.lock = "no", !.fresh = k]]
    BY <1>0, <2>3
  <2>7. QED BY <1>0, <2>3, <2>5, <2>6 DEF TalliesOK
<1>3. ASSUME requests' = requests, links' = links PROVE TalliesOK
  BY <1>0, <1>3 DEF TalliesOK
<1>4. ASSUME NEW i \in Handlers, Spend(i) \/ Delete(i) PROVE TalliesOK
  <2>1. requests' = requests
    BY <1>4 DEF Spend, Delete
  <2>2. links' \in [Browsers -> Anyone]
    BY <1>0, <1>4 DEF Spend, Delete, Cleared, Anyone
  <2>3. QED BY <1>0, <2>1, <2>2 DEF TalliesOK
<1>5. ASSUME NEW b \in Browsers, InitiateLink(b) \/ ExpireLink(b) PROVE TalliesOK
  <2>1. requests' = requests
    BY <1>5 DEF InitiateLink, ExpireLink
  <2>2. links' \in [Browsers -> Anyone]
    BY <1>0, <1>5 DEF InitiateLink, ExpireLink, Anyone
  <2>3. QED BY <1>0, <2>1, <2>2 DEF TalliesOK
<1>6. ASSUME NEW i \in Handlers,
             Insert(i) \/ Send(i) \/ Clear(i) \/ RecordFailedAttempt(i) \/ Lock(i) \/ ResetAttempts(i) \/ Consume(i)
      PROVE  requests' = requests /\ links' = links
  BY <1>6 DEF Insert, Send, Clear, RecordFailedAttempt, Lock, ResetAttempts, Consume
<1>7. ASSUME NEW i \in Handlers, Upsert(i) \/ Enter(i) \/ Attach(i) \/ Swap(i) \/ Abort(i) \/ Adopt(i)
      PROVE  requests' = requests /\ links' = links
  BY <1>7 DEF Upsert, Enter, Attach, Swap, Abort, Adopt
<1>8. ASSUME NEW i \in Handlers, CreateUser(i) \/ LinkAccount(i) \/ Admit(i) \/ Greet(i)
      PROVE  requests' = requests /\ links' = links
  BY <1>8 DEF CreateUser, LinkAccount, Admit, Greet
<1>9. ASSUME NEW b \in Browsers, SignOut(b) \/ RevokeOthers(b) \/ SetDisplayName(b) \/ \E e \in Emails : Unlock(e, b)
      PROVE  requests' = requests /\ links' = links
  BY <1>9 DEF SignOut, RevokeOthers, SetDisplayName, Unlock
<1>10. ASSUME NEW c \in DOMAIN codes, Expire(c) PROVE requests' = requests /\ links' = links
  BY <1>10 DEF Expire
<1> HIDE DEF Row
<1>11. ASSUME NEW i \in Handlers, Writes(i) PROVE TalliesOK
  BY <1>1, <1>3, <1>4, <1>6, <1>7, <1>8, <1>11 DEF Writes
<1>12. QED BY <1>2, <1>3, <1>5, <1>9, <1>10, <1>11, Steps DEF Others, Still

-----------------------------------------------------------------------------
(* What happened.                                                          *)

\* It is only ever added to, but the addresses proved when one changes hands.
PastOK == past' \in Past /\ past.moved \subseteq past'.moved /\ past.raced \subseteq past'.raced

\* The credit of a user at an address becomes k, the rest is as it was.
Credited(c, u, e, k) ==
  \A v \in Users : \A x \in Emails \union {None} :
    c[v][x] = IF v = u /\ x = e THEN k ELSE past.credit[v][x]

LEMMA CreditChanged ==
  ASSUME past \in Past, NEW u \in Users, NEW e \in Emails \union {None}, NEW k \in Int, NEW c,
         c = [past.credit EXCEPT ![u][e] = k]
  PROVE  c \in [Users -> [Emails \union {None} -> Int]] /\ Credited(c, u, e, k)
<1>1. past.credit \in [Users -> [Emails \union {None} -> Int]]
  BY DEF Past
<1>2. PICK d : d = [past.credit[u] EXCEPT ![e] = k]
  OBVIOUS
<1>3. past.credit[u] \in [Emails \union {None} -> Int]
  BY <1>1
<1>4. d \in [Emails \union {None} -> Int] /\ \A x \in Emails \union {None} : d[x] = IF x = e THEN k ELSE past.credit[u][x]
  BY <1>2, <1>3
<1>5. c = [past.credit EXCEPT ![u] = d]
  BY <1>1, <1>2
<1>6. QED BY <1>1, <1>4, <1>5 DEF Credited

\* The four records, together again.
LEMMA PastTogether ==
  ASSUME NEW a \in [Users -> SUBSET Emails], NEW d \in [Users -> [Emails \union {None} -> Int]],
         NEW m \in SUBSET Users, NEW r \in SUBSET Users
  PROVE  [proved |-> a, credit |-> d, moved |-> m, raced |-> r] \in Past
BY DEF Past

\* What each of the steps that are recorded adds.
LEMMA ConsumePast ==
  ASSUME Shapes, FlowsOK, NEW i \in Handlers, Consume(i), past' # past
  PROVE  /\ flow[i].for = "current" /\ flow[i].u \in Users /\ codes[flow[i].code].mail \in Emails
         /\ past' \in Past /\ past'.proved = past.proved /\ past'.moved = past.moved /\ past'.raced = past.raced
         /\ Credited(past'.credit, flow[i].u, codes[flow[i].code].mail,
                     past.credit[flow[i].u][codes[flow[i].code].mail] + 1)
<1> DEFINE f == flow[i]
<1>0. past \in Past /\ past.credit \in [Users -> [Emails \union {None} -> Int]]
  BY DEF Shapes, Past
<1>1. f.at = "consume" /\ f.for = "current"
  BY DEF Consume
<1>2. f.u \in Users /\ f.code \in DOMAIN codes
  <2>1. FlowOK(f) /\ f.at \in Coding /\ Matched(f)
    BY <1>1 DEF FlowsOK, Coding, Matched
  <2>2. f.u \in Users
    BY <1>1, <2>1 DEF FlowOK, Matched
  <2>3. f.code \in DOMAIN codes
    BY <2>1 DEF FlowOK
  <2>4. QED BY <2>2, <2>3
<1>3. codes[f.code].mail \in Emails
  <2>1. codes \in Seq(CodeRow)
    BY DEF Shapes
  <2>2. PICK c \in DOMAIN codes : c = f.code
    BY <1>2
  <2>3. codes[c] \in CodeRow
    BY <2>1
  <2>4. QED BY <2>2, <2>3 DEF CodeRow
<1>4. PICK u \in Users, e \in Emails : u = f.u /\ e = codes[f.code].mail
  BY <1>2, <1>3
<1>5. past.credit[u][e] \in Int
  BY <1>0
<1>6. PICK k \in Int : k = past.credit[u][e] + 1
  BY <1>5
<1>7. past' = [past EXCEPT !.credit[u][e] = k]
  BY <1>4, <1>6 DEF Consume
<1>8. /\ past'.proved = past.proved /\ past'.moved = past.moved /\ past'.raced = past.raced
      /\ past'.credit = [past.credit EXCEPT ![u][e] = k]
  BY <1>0, <1>7 DEF Past
<1>9. Credited(past'.credit, u, e, k)
  BY <1>0, <1>8, CreditChanged
<1>10. past' \in Past
  <2>0. past = [proved |-> past.proved, credit |-> past.credit, moved |-> past.moved, raced |-> past.raced]
    BY <1>0 DEF Past
  <2>1. PICK a, d : a = past.proved /\ d = [past.credit EXCEPT ![u][e] = k]
    OBVIOUS
  <2>2. a \in [Users -> SUBSET Emails]
    BY <1>0, <2>1 DEF Past
  <2>3. d \in [Users -> [Emails \union {None} -> Int]]
    BY <1>0, <2>1, CreditChanged DEF Past
  <2>4. past' = [proved |-> a, credit |-> d, moved |-> past.moved, raced |-> past.raced]
    BY <1>7, <2>0, <2>1
  <2>5. past.moved \in SUBSET Users /\ past.raced \in SUBSET Users
    BY <1>0 DEF Past
  <2>6. QED BY <1>0, <2>2, <2>3, <2>4, <2>5, PastTogether
<1>11. QED BY <1>1, <1>2, <1>3, <1>4, <1>6, <1>8, <1>9, <1>10

LEMMA SwapPast ==
  ASSUME Shapes, FlowsOK, NEW i \in Handlers, Swap(i), users' # users \/ past' # past
  PROVE  /\ flow[i].u \in Users /\ flow[i].mail \in Emails /\ pending' = [pending EXCEPT ![flow[i].u] = None]
         /\ users' = [users EXCEPT ![flow[i].u].email = flow[i].mail]
         /\ past' \in Past /\ past'.proved = [past.proved EXCEPT ![flow[i].u] = {flow[i].mail}]
         /\ past'.moved = IF Changing(i, flow[i].u) THEN past.moved \union {flow[i].u} ELSE past.moved
         /\ past'.raced = past.raced
         /\ Credited(past'.credit, flow[i].u, users[flow[i].u].email,
                     past.credit[flow[i].u][users[flow[i].u].email] - 1)
<1> DEFINE f == flow[i]
<1>0. past \in Past /\ past.credit \in [Users -> [Emails \union {None} -> Int]] /\ users \in [Users -> UserRow]
  BY DEF Shapes, Past
<1>1. f.at = "swap"
  BY DEF Swap
<1>2. f.u \in Users /\ f.mail \in Emails /\ codes[f.code].mail = f.mail
  BY <1>1 DEF FlowsOK, FlowOK, Coding, Matched
<1>3. PICK u \in Users, e \in Emails \union {None} : u = f.u /\ e = users[f.u].email
  BY <1>0, <1>2 DEF UserRow
<1>5. past.credit[u][e] \in Int
  BY <1>0
<1>6. PICK k \in Int : k = past.credit[u][e] - 1
  BY <1>5
<1>7. PICK es \in SUBSET Emails : es = {f.mail}
  BY <1>2
<1>8. PICK ms \in SUBSET Users : ms = IF Changing(i, u) THEN past.moved \union {u} ELSE past.moved
  BY <1>0 DEF Past
<1>9. past' = [past EXCEPT !.credit[u][e] = k, !.proved[u] = es, !.moved = ms]
  BY <1>2, <1>3, <1>6, <1>7, <1>8 DEF Swap, Replaced
<1>10. /\ past'.proved = [past.proved EXCEPT ![u] = es] /\ past'.moved = ms /\ past'.raced = past.raced
       /\ past'.credit = [past.credit EXCEPT ![u][e] = k]
  BY <1>0, <1>9 DEF Past
<1>11. Credited(past'.credit, u, e, k)
  BY <1>0, <1>10, CreditChanged
<1>12. past' \in Past
  <2>0. past = [proved |-> past.proved, credit |-> past.credit, moved |-> past.moved, raced |-> past.raced]
    BY <1>0 DEF Past
  <2>1. PICK a, d : a = [past.proved EXCEPT ![u] = es] /\ d = [past.credit EXCEPT ![u][e] = k]
    OBVIOUS
  <2>2. a \in [Users -> SUBSET Emails]
    BY <1>0, <2>1 DEF Past
  <2>3. d \in [Users -> [Emails \union {None} -> Int]]
    BY <1>0, <2>1, CreditChanged DEF Past
  <2>4. past' = [proved |-> a, credit |-> d, moved |-> ms, raced |-> past.raced]
    BY <1>9, <2>0, <2>1
  <2>5. past.moved \in SUBSET Users /\ past.raced \in SUBSET Users
    BY <1>0 DEF Past
  <2>6. QED BY <1>0, <2>2, <2>3, <2>4, <2>5, PastTogether
<1>13. users' = [users EXCEPT ![u].email = f.mail] /\ pending' = [pending EXCEPT ![u] = None]
  BY <1>3 DEF Swap
<1>14. QED BY <1>2, <1>3, <1>6, <1>7, <1>8, <1>10, <1>11, <1>12, <1>13

LEMMA AttachPast ==
  ASSUME Shapes, FlowsOK, NEW i \in Handlers, Attach(i), OfEmail(flow[i].mail) \ {flow[i].u} = {}
  PROVE  /\ flow[i].u \in Users /\ flow[i].mail \in Emails
         /\ users' = [users EXCEPT ![flow[i].u].email = flow[i].mail]
         /\ past' \in Past /\ past'.proved = [past.proved EXCEPT ![flow[i].u] = past.proved[flow[i].u] \union {flow[i].mail}]
         /\ past'.moved = IF pending[flow[i].u] # None \/ Changing(i, flow[i].u)
                            THEN past.moved \union {flow[i].u} ELSE past.moved
         /\ past'.raced = past.raced /\ past'.credit = past.credit
<1> DEFINE f == flow[i]
<1>0. past \in Past /\ past.proved \in [Users -> SUBSET Emails]
  BY DEF Shapes, Past
<1>1. f.at = "attach"
  BY DEF Attach
<1>2. f.u \in Users /\ f.mail \in Emails /\ f.for = "link"
  BY <1>1 DEF FlowsOK, FlowOK, Coding
<1>3. codes[f.code].mail = f.mail
  BY <1>1, <1>2 DEF FlowsOK, FlowOK, Matched
<1>4. PICK u \in Users : u = f.u
  BY <1>2
<1>5. PICK es \in SUBSET Emails : es = past.proved[u] \union {f.mail}
  BY <1>0, <1>2
<1>6. PICK ms \in SUBSET Users : ms = IF pending[u] # None \/ Changing(i, u) THEN past.moved \union {u} ELSE past.moved
  BY <1>0 DEF Past
<1>7. past' = [past EXCEPT !.proved[u] = es, !.moved = ms] /\ users' = [users EXCEPT ![u].email = f.mail]
  BY <1>3, <1>4, <1>5, <1>6 DEF Attach
<1>8. /\ past'.proved = [past.proved EXCEPT ![u] = es] /\ past'.moved = ms /\ past'.raced = past.raced
      /\ past'.credit = past.credit
  BY <1>0, <1>7 DEF Past
<1>9. past' \in Past
  <2>0. past = [proved |-> past.proved, credit |-> past.credit, moved |-> past.moved, raced |-> past.raced]
    BY <1>0 DEF Past
  <2>1. PICK a, d : a = [past.proved EXCEPT ![u] = es] /\ d = past.credit
    OBVIOUS
  <2>2. a \in [Users -> SUBSET Emails]
    BY <1>0, <2>1 DEF Past
  <2>3. d \in [Users -> [Emails \union {None} -> Int]]
    BY <1>0, <2>1 DEF Past
  <2>4. past' = [proved |-> a, credit |-> d, moved |-> ms, raced |-> past.raced]
    BY <1>7, <2>0, <2>1
  <2>5. past.moved \in SUBSET Users /\ past.raced \in SUBSET Users
    BY <1>0 DEF Past
  <2>6. QED BY <1>0, <2>2, <2>3, <2>4, <2>5, PastTogether
<1>10. QED BY <1>2, <1>4, <1>5, <1>6, <1>7, <1>8, <1>9

LEMMA UpsertPast ==
  ASSUME Shapes, FlowsOK, NEW i \in Handlers, Upsert(i)
  PROVE  \E u \in Users :
           /\ flow[i].mail \in Emails
           /\ users' = users \/ (u \in Fresh /\ users' = [users EXCEPT ![u] = [NoUser EXCEPT !.row = TRUE, !.email = flow[i].mail]])
           /\ past' \in Past /\ past'.proved = [past.proved EXCEPT ![u] = past.proved[u] \union {flow[i].mail}]
           /\ past'.moved = past.moved /\ past'.raced = past.raced /\ past'.credit = past.credit
<1> DEFINE f == flow[i]
<1>0. past \in Past /\ past.proved \in [Users -> SUBSET Emails]
  BY DEF Shapes, Past
<1>1. f.at = "upsert"
  BY DEF Upsert
<1>2. f.mail \in Emails /\ f.for = "otp" /\ codes[f.code].mail = f.mail
  BY <1>1 DEF FlowsOK, FlowOK, Coding, Matched
<1>3. PICK u \in IF OfEmail(f.mail) # {} THEN OfEmail(f.mail) ELSE Fresh :
        /\ past' = [past EXCEPT !.proved[u] = past.proved[u] \union {codes[f.code].mail}]
        /\ users' = IF OfEmail(f.mail) # {} THEN users
                    ELSE [users EXCEPT ![u] = [NoUser EXCEPT !.row = TRUE, !.email = f.mail]]
  BY DEF Upsert
<1>4. u \in Users
  BY <1>3 DEF OfEmail, Fresh
<1>5. PICK es \in SUBSET Emails : es = past.proved[u] \union {f.mail}
  BY <1>0, <1>2, <1>4
<1>6. past' = [past EXCEPT !.proved[u] = es]
  BY <1>2, <1>3, <1>5
<1>7. /\ past'.proved = [past.proved EXCEPT ![u] = es] /\ past'.moved = past.moved /\ past'.raced = past.raced
      /\ past'.credit = past.credit
  BY <1>0, <1>6 DEF Past
<1>8. past' \in Past
  <2>0. past = [proved |-> past.proved, credit |-> past.credit, moved |-> past.moved, raced |-> past.raced]
    BY <1>0 DEF Past
  <2>1. PICK a, d : a = [past.proved EXCEPT ![u] = es] /\ d = past.credit
    OBVIOUS
  <2>2. a \in [Users -> SUBSET Emails]
    BY <1>0, <2>1 DEF Past
  <2>3. d \in [Users -> [Emails \union {None} -> Int]]
    BY <1>0, <2>1 DEF Past
  <2>4. past' = [proved |-> a, credit |-> d, moved |-> past.moved, raced |-> past.raced]
    BY <1>6, <2>0, <2>1
  <2>5. past.moved \in SUBSET Users /\ past.raced \in SUBSET Users
    BY <1>0 DEF Past
  <2>6. QED BY <1>0, <2>2, <2>3, <2>4, <2>5, PastTogether
<1>9. QED BY <1>2, <1>3, <1>4, <1>5, <1>7, <1>8

LEMMA DeletePast ==
  ASSUME Shapes, FlowsOK, NEW i \in Handlers, Delete(i)
  PROVE  /\ flow[i].u \in Users /\ pending' = [pending EXCEPT ![flow[i].u] = None]
         /\ users' = [users EXCEPT ![flow[i].u] = [NoUser EXCEPT !.row = TRUE, !.named = TRUE, !.gone = TRUE]]
         /\ past' \in Past /\ past'.proved = [past.proved EXCEPT ![flow[i].u] = {}]
         /\ past'.moved = IF pending[flow[i].u] # None \/ Changing(i, flow[i].u)
                            THEN past.moved \union {flow[i].u} ELSE past.moved
         /\ past'.raced = IF \E j \in Handlers \ {i} : flow[j].u = flow[i].u
                            THEN past.raced \union {flow[i].u} ELSE past.raced
         /\ past'.credit = past.credit
<1> DEFINE f == flow[i]
<1>0. past \in Past /\ past.moved \in SUBSET Users /\ past.raced \in SUBSET Users
  BY DEF Shapes, Past
<1>1. f.at = "delete"
  BY DEF Delete
<1>2. f.u \in Users
  BY <1>1 DEF FlowsOK, FlowOK, Serving
<1>3. PICK u \in Users : u = f.u
  BY <1>2
<1>4. PICK ms \in SUBSET Users : ms = IF pending[u] # None \/ Changing(i, u) THEN past.moved \union {u} ELSE past.moved
  BY <1>0
<1>5. PICK rs \in SUBSET Users : rs = IF \E j \in Handlers \ {i} : flow[j].u = u THEN past.raced \union {u} ELSE past.raced
  BY <1>0
<1>6. past' = [past EXCEPT !.proved[u] = {}, !.moved = ms, !.raced = rs]
  <2>1. past' = Forgotten(i, u)
    BY <1>3 DEF Delete
  <2>2. QED BY <1>4, <1>5, <2>1, Zenon DEF Forgotten
<1>7. /\ past'.proved = [past.proved EXCEPT ![u] = {}] /\ past'.moved = ms /\ past'.raced = rs
      /\ past'.credit = past.credit
  BY <1>0, <1>6 DEF Past
<1>8. past' \in Past
  <2>0. past = [proved |-> past.proved, credit |-> past.credit, moved |-> past.moved, raced |-> past.raced]
    BY <1>0 DEF Past
  <2>1. PICK a, d : a = [past.proved EXCEPT ![u] = {}] /\ d = past.credit
    OBVIOUS
  <2>2. a \in [Users -> SUBSET Emails]
    BY <1>0, <2>1 DEF Past
  <2>3. d \in [Users -> [Emails \union {None} -> Int]]
    BY <1>0, <2>1 DEF Past
  <2>4. past' = [proved |-> a, credit |-> d, moved |-> ms, raced |-> rs]
    BY <1>6, <2>0, <2>1
  <2>5. past.moved \in SUBSET Users /\ past.raced \in SUBSET Users
    BY <1>0 DEF Past
  <2>6. QED BY <1>0, <2>2, <2>3, <2>4, <2>5, PastTogether
<1>9. users' = [users EXCEPT ![u] = [NoUser EXCEPT !.row = TRUE, !.named = TRUE, !.gone = TRUE]]
  BY <1>3 DEF Delete
<1>10. pending' = [pending EXCEPT ![u] = None]
  BY <1>3 DEF Delete
<1>11. QED BY <1>3, <1>4, <1>5, <1>7, <1>8, <1>9, <1>10

\* Nothing else is recorded.
LEMMA PastWritten ==
  ASSUME [Next]_vars, past' # past
  PROVE  \E i \in Handlers : Consume(i) \/ Swap(i) \/ Attach(i) \/ Upsert(i) \/ Delete(i)
<1>1. ASSUME NEW i \in Handlers,
             Count(i) \/ Insert(i) \/ Send(i) \/ Clear(i) \/ RecordFailedAttempt(i) \/ Lock(i) \/ ResetAttempts(i)
      PROVE  past' = past
  BY <1>1 DEF Count, Insert, Send, Clear, RecordFailedAttempt, Lock, ResetAttempts
<1>2. ASSUME NEW i \in Handlers, Enter(i) \/ Abort(i) \/ Spend(i) \/ Adopt(i) PROVE past' = past
  BY <1>2 DEF Enter, Abort, Spend, Adopt
<1>3. ASSUME NEW i \in Handlers, CreateUser(i) \/ LinkAccount(i) \/ Admit(i) \/ Greet(i) PROVE past' = past
  BY <1>3 DEF CreateUser, LinkAccount, Admit, Greet
<1>4. ASSUME NEW b \in Browsers, Others(b) PROVE past' = past
  BY <1>4 DEF Others, SignOut, RevokeOthers, SetDisplayName, InitiateLink, ExpireLink, Recess, Unlock
<1>5. ASSUME NEW c \in DOMAIN codes, Expire(c) PROVE past' = past
  BY <1>5 DEF Expire
<1>6. QED BY <1>1, <1>2, <1>3, <1>4, <1>5, Steps DEF Writes, Still


\* The address of a user moves when his code for it, or his deletion, or the
\* first code of a newcomer gets there.
Moved(i, v) ==
  \/ (Swap(i) \/ Attach(i)) /\ users' # users /\ flow[i].u = v
  \/ Upsert(i) /\ v \in Fresh
  \/ Delete(i) /\ flow[i].u = v
LEMMA EmailsWritten ==
  ASSUME Shapes, FlowsOK, RefsOK, [Next]_vars, NEW v \in Users, \A i \in Handlers : ~Moved(i, v)
  PROVE  users'[v].email = users[v].email
<1>0. users \in [Users -> UserRow]
  BY DEF Shapes
<1>1. CASE users' = users
  BY <1>1
<1>2. ASSUME NEW i \in Handlers, Swap(i) \/ Attach(i), users' # users PROVE users'[v].email = users[v].email
  <2>1. PICK u \in Users : u = flow[i].u
    BY <1>2 DEF Swap, Attach, FlowsOK, FlowOK, Coding
  <2>2. PICK e : users' = [users EXCEPT ![u].email = e]
    BY <1>2, <2>1 DEF Swap, Attach
  <2>3. v # u
    BY <1>2, <2>1 DEF Moved
  <2>4. QED BY <1>0, <2>2, <2>3
<1>3. ASSUME NEW i \in Handlers, Upsert(i), users' # users PROVE users'[v].email = users[v].email
  <2>1. PICK u, r : u \in Fresh /\ users' = [users EXCEPT ![u] = r]
    BY <1>3 DEF Upsert
  <2>2. v # u
    BY <1>3, <2>1 DEF Moved
  <2>3. QED BY <1>0, <2>1, <2>2
<1>4. ASSUME NEW i \in Handlers, Delete(i) PROVE users'[v].email = users[v].email
  <2>1. PICK r : users' = [users EXCEPT ![flow[i].u] = r]
    BY <1>4 DEF Delete
  <2>2. v # flow[i].u
    BY <1>4 DEF Moved
  <2>3. QED BY <1>0, <2>1, <2>2
<1>5. ASSUME NEW i \in Handlers, Adopt(i) \/ Greet(i), users' # users PROVE users'[v].email = users[v].email
  <2>1. \/ users' = [users EXCEPT ![flow[i].u].discord = flow[i].mail]
        \/ users' = [users EXCEPT ![flow[i].u].discord = flow[i].mail, ![flow[i].u].named = TRUE]
    BY <1>5 DEF Adopt, Greet
  <2>2. users[v] \in UserRow
    BY <1>0
  <2>3. QED BY <1>0, <2>1, <2>2 DEF UserRow
<1>6. ASSUME NEW i \in Handlers, CreateUser(i), users' # users PROVE users'[v].email = users[v].email
  <2>1. PICK u \in Fresh :
          users' = [users EXCEPT ![u] = [NoUser EXCEPT !.row = TRUE, !.discord = flow[i].mail, !.named = TRUE]]
    BY <1>6 DEF CreateUser
  <2>2. u \in Users /\ users[u] = NoUser
    BY DEF Fresh, RefsOK
  <2>3. PICK r : r = [NoUser EXCEPT !.row = TRUE, !.discord = flow[i].mail, !.named = TRUE]
    OBVIOUS
  <2>4. r.email = NoUser.email
    BY <2>3 DEF NoUser
  <2>5. users' = [users EXCEPT ![u] = r]
    BY <2>1, <2>3
  <2>6. QED BY <1>0, <2>2, <2>4, <2>5
<1>7. ASSUME NEW b \in Browsers, SetDisplayName(b) PROVE users'[v].email = users[v].email
  <2>1. users' = [users EXCEPT ![session[b]].named = TRUE]
    BY <1>7 DEF SetDisplayName
  <2>2. users[v] \in UserRow
    BY <1>0
  <2>3. QED BY <1>0, <2>1, <2>2 DEF UserRow
<1>8. ASSUME NEW i \in Handlers,
             Count(i) \/ Insert(i) \/ Send(i) \/ Clear(i) \/ RecordFailedAttempt(i) \/ Lock(i) \/ ResetAttempts(i)
      PROVE  users' = users
  BY <1>8 DEF Count, Insert, Send, Clear, RecordFailedAttempt, Lock, ResetAttempts
<1>9. ASSUME NEW i \in Handlers, Consume(i) \/ Enter(i) \/ Abort(i) \/ Spend(i) \/ LinkAccount(i) \/ Admit(i)
      PROVE  users' = users
  BY <1>9 DEF Consume, Enter, Abort, Spend, LinkAccount, Admit
<1>10. ASSUME NEW b \in Browsers, Others(b) PROVE users' = users \/ SetDisplayName(b)
  BY <1>10 DEF Others, SignOut, RevokeOthers, InitiateLink, ExpireLink, Recess, Unlock
<1>11. ASSUME NEW c \in DOMAIN codes, Expire(c) PROVE users' = users
  BY <1>11 DEF Expire
<1>12. ASSUME NEW i \in Handlers, Writes(i) PROVE users'[v].email = users[v].email
  BY <1>1, <1>2, <1>3, <1>4, <1>5, <1>6, <1>8, <1>9, <1>12 DEF Writes
<1>13. QED BY <1>1, <1>7, <1>10, <1>11, <1>12, Steps DEF Still

LEMMA ProvedWritten ==
  ASSUME Shapes, FlowsOK, RefsOK, EmailIsProved, [Next]_vars
  PROVE  PastOK /\ EmailIsProved'
<1> DEFINE Goal == PastOK /\ EmailIsProved'
<1>0. /\ past \in Past /\ past.proved \in [Users -> SUBSET Emails] /\ users \in [Users -> UserRow]
      /\ past.moved \in SUBSET Users /\ past.raced \in SUBSET Users
  BY DEF Shapes, Past
<1>1. ASSUME NEW i \in Handlers, Swap(i), users' # users \/ past' # past PROVE Goal
  <2>1. PastOK
    BY <1>0, <1>1, SwapPast DEF PastOK
  <2>2. PICK u \in Users, e \in Emails : /\ users' = [users EXCEPT ![u].email = e]
                                         /\ past'.proved = [past.proved EXCEPT ![u] = {e}]
    BY <1>1, SwapPast
  <2>3. ASSUME NEW v \in Users PROVE users'[v].email # None => users'[v].email \in past'.proved[v]
    <3>1. users[u] \in UserRow
      BY <1>0
    <3>2. users'[v].email = IF v = u THEN e ELSE users[v].email
      BY <1>0, <2>2, <3>1 DEF UserRow
    <3>3. past'.proved[v] = IF v = u THEN {e} ELSE past.proved[v]
      BY <1>0, <2>2
    <3>4. QED BY <3>2, <3>3 DEF EmailIsProved
  <2>4. QED BY <2>1, <2>3 DEF EmailIsProved
<1>2. ASSUME NEW i \in Handlers, Attach(i), users' # users \/ past' # past PROVE Goal
  <2>0. OfEmail(flow[i].mail) \ {flow[i].u} = {}
    BY <1>2 DEF Attach
  <2>1. PastOK
    BY <1>0, <1>2, <2>0, AttachPast DEF PastOK
  <2>2. PICK u \in Users, e \in Emails : /\ users' = [users EXCEPT ![u].email = e]
                                         /\ past'.proved = [past.proved EXCEPT ![u] = past.proved[u] \union {e}]
    BY <1>2, <2>0, AttachPast
  <2>3. ASSUME NEW v \in Users PROVE users'[v].email # None => users'[v].email \in past'.proved[v]
    <3>1. users[u] \in UserRow
      BY <1>0
    <3>2. users'[v].email = IF v = u THEN e ELSE users[v].email
      BY <1>0, <2>2, <3>1 DEF UserRow
    <3>3. past'.proved[v] = IF v = u THEN past.proved[u] \union {e} ELSE past.proved[v]
      BY <1>0, <2>2
    <3>4. QED BY <3>2, <3>3 DEF EmailIsProved
  <2>4. QED BY <2>1, <2>3 DEF EmailIsProved
<1>3. ASSUME NEW i \in Handlers, Upsert(i) PROVE Goal
  <2>1. PICK u \in Users :
           /\ flow[i].mail \in Emails
           /\ \/ users' = users
              \/ users' = [users EXCEPT ![u] = [NoUser EXCEPT !.row = TRUE, !.email = flow[i].mail]]
           /\ past' \in Past /\ past'.proved = [past.proved EXCEPT ![u] = past.proved[u] \union {flow[i].mail}]
           /\ past'.moved = past.moved /\ past'.raced = past.raced
    BY <1>3, UpsertPast
  <2>2. PastOK
    BY <1>0, <2>1 DEF PastOK
  <2>3. PICK e \in Emails : e = flow[i].mail
    BY <2>1
  <2>4. PICK r : r = [NoUser EXCEPT !.row = TRUE, !.email = e]
    OBVIOUS
  <2>5. r.email = e
    BY <2>4 DEF NoUser
  <2>6. ASSUME NEW v \in Users PROVE users'[v].email # None => users'[v].email \in past'.proved[v]
    <3>1. users'[v].email = users[v].email \/ (v = u /\ users'[v].email = e)
      <4>1. users' = users \/ users' = [users EXCEPT ![u] = r]
        BY <2>1, <2>3, <2>4
      <4>2. QED BY <1>0, <2>5, <4>1
    <3>2. past'.proved[v] = IF v = u THEN past.proved[u] \union {e} ELSE past.proved[v]
      BY <1>0, <2>1, <2>3
    <3>3. QED BY <3>1, <3>2 DEF EmailIsProved
  <2>7. QED BY <2>2, <2>6 DEF EmailIsProved
<1>4. ASSUME NEW i \in Handlers, Delete(i) PROVE Goal
  <2>1. PastOK
    BY <1>0, <1>4, DeletePast DEF PastOK
  <2>2. PICK u \in Users :
          /\ users' = [users EXCEPT ![u] = [NoUser EXCEPT !.row = TRUE, !.named = TRUE, !.gone = TRUE]]
          /\ past'.proved = [past.proved EXCEPT ![u] = {}]
    BY <1>4, DeletePast
  <2>3. PICK r : r = [NoUser EXCEPT !.row = TRUE, !.named = TRUE, !.gone = TRUE]
    OBVIOUS
  <2>4. r.email = None
    BY <2>3 DEF NoUser
  <2>5. ASSUME NEW v \in Users PROVE users'[v].email # None => users'[v].email \in past'.proved[v]
    <3>1. users'[v].email = IF v = u THEN None ELSE users[v].email
      <4>1. users' = [users EXCEPT ![u] = r]
        BY <2>2, <2>3
      <4>2. QED BY <1>0, <2>4, <4>1
    <3>2. v # u => past'.proved[v] = past.proved[v]
      BY <1>0, <2>2
    <3>3. QED BY <3>1, <3>2 DEF EmailIsProved
  <2>6. QED BY <2>1, <2>5 DEF EmailIsProved
<1> HIDE DEF Goal
<1>5. ASSUME \A i \in Handlers : /\ ~(Swap(i) /\ (users' # users \/ past' # past))
                                 /\ ~(Attach(i) /\ (users' # users \/ past' # past))
                                 /\ ~Upsert(i) /\ ~Delete(i)
      PROVE  Goal
  <2>1. \A v \in Users : users'[v].email = users[v].email
    BY <1>5, EmailsWritten DEF Moved
  <2>2. past' \in Past /\ past'.proved = past.proved /\ past'.moved = past.moved /\ past'.raced = past.raced
    <3>1. CASE past' = past
      BY <1>0, <3>1
    <3>2. CASE past' # past
      <4>1. PICK i \in Handlers : Consume(i)
        BY <1>5, <3>2, PastWritten
      <4>2. QED BY <3>2, <4>1, ConsumePast
    <3>3. QED BY <3>1, <3>2
  <2>3. PastOK
    BY <2>2 DEF PastOK
  <2>4. EmailIsProved'
    BY <2>1, <2>2 DEF EmailIsProved
  <2>5. QED BY <2>3, <2>4 DEF Goal
<1>6. Goal
  BY <1>1, <1>2, <1>3, <1>4, <1>5
<1>7. QED BY <1>6 DEF Goal

-----------------------------------------------------------------------------
(* The parts of the invariant are preserved.                               *)

LEMMA ShapesStep ==
  ASSUME Shapes, FlowsOK, RefsOK, EmailIsProved, [Next]_vars
  PROVE  Shapes'
<1>1. users' \in [Users -> UserRow]
  BY UsersWritten DEF OneUserWritten, Shapes
<1>2. codes' \in Seq(CodeRow)
  BY CodesStep DEF CodesGrow
<1>3. QED
  BY <1>1, <1>2, FlowsStep, SessionsWritten, AccountsWritten, PendingWritten, AttemptsWritten, TalliesWritten,
     ProvedWritten
  DEF Shapes, SessionsOK, AccountsOK, PendingOK, AttemptsOK, TalliesOK, PastOK

\* Rows are never taken away, and who has none has nothing.
LEMMA RefsStep ==
  ASSUME Shapes, FlowsOK, RefsOK, [Next]_vars
  PROVE  RefsOK'
<1>0. users \in [Users -> UserRow] /\ None \notin Users
  BY NoneAssumption DEF Shapes
<1>1. \A u \in Users : (users[u].row => users'[u].row) /\ (users'[u].row \/ users'[u] = users[u])
  BY <1>0, UsersWritten DEF OneUserWritten, Written
<1>2. \A s \in Snowflakes : accounts[s] # None => accounts[s] \in Users /\ users[accounts[s]].row
  BY DEF Shapes, RefsOK, Rowed, Anyone
<1>3. \A b \in Browsers : session[b] # None => session[b] \in Users /\ users[session[b]].row
  BY DEF Shapes, RefsOK, Rowed, Anyone
<1>4. \A i \in Handlers : flow[i].u # None => flow[i].u \in Users /\ users[flow[i].u].row
  BY DEF Shapes, RefsOK, Rowed, Anyone, Flow
<1>5. ASSUME NEW s \in Snowflakes PROVE Rowed(accounts[s])'
  <2>1. \/ accounts'[s] = accounts[s] \/ accounts'[s] = None
        \/ accounts'[s] \in Users /\ \E i \in Handlers : flow[i].u = accounts'[s]
    BY AccountsWritten DEF AccountsOK
  <2>2. QED BY <1>0, <1>1, <1>2, <1>4, <2>1 DEF Rowed
<1>6. ASSUME NEW b \in Browsers PROVE Rowed(session[b])'
  <2>1. \/ session'[b] = session[b] \/ session'[b] = None
        \/ session'[b] \in Users /\ \E i \in Handlers : flow[i].u = session'[b]
    BY SessionsWritten DEF SessionsOK
  <2>2. QED BY <1>0, <1>1, <1>3, <1>4, <2>1 DEF Rowed
<1>7. ASSUME NEW i \in Handlers PROVE Rowed(flow[i].u)'
  <2>1. flow'[i].u = flow[i].u \/ Found(flow'[i].u)
    BY Serves
  <2>2. \A u \in Users : users[u].email # None => users[u].row
    BY DEF RefsOK, NoUser
  <2>3. ASSUME NEW u, Found(u) PROVE u = None \/ (u \in Users /\ users'[u].row)
    BY <1>1, <1>2, <1>3, <2>2, <2>3, <1>0 DEF Found
  <2>4. QED BY <1>1, <1>4, <2>1, <2>3 DEF Rowed
<1>8. ASSUME NEW u \in Users, ~users'[u].row PROVE users'[u] = NoUser /\ pending'[u] = None
  <2>1. users'[u] = users[u] /\ ~users[u].row
    BY <1>1, <1>8
  <2>2. users[u] = NoUser /\ pending[u] = None /\ \A i \in Handlers : flow[i].u # u
    BY <1>0, <1>4, <2>1 DEF RefsOK
  <2>3. QED BY <2>1, <2>2, PendingWritten DEF PendingOK
<1>9. QED BY <1>5, <1>6, <1>7, <1>8 DEF RefsOK

LEMMA UnsharedStep ==
  ASSUME Shapes, FlowsOK, RefsOK, Unshared, [Next]_vars
  PROVE  Unshared'
<1>0. users \in [Users -> UserRow]
  BY DEF Shapes
<1>1. CASE users' = users
  BY <1>1 DEF Unshared
<1>2. ASSUME NEW w \in Users, NEW r \in UserRow, users' = [users EXCEPT ![w] = r], Written(w, r)
      PROVE  Unshared'
  <2>1. \A v \in Users : users'[v] = IF v = w THEN r ELSE users[v]
    BY <1>0, <1>2
  <2>2. \A v \in Users \ {w} : r.email # None => users[v].email # r.email
    BY <1>2 DEF Written, Unshared
  <2>3. \A v \in Users \ {w} : r.discord # None => users[v].discord # r.discord
    BY <1>2 DEF Written, Unshared
  <2>4. QED BY <2>1, <2>2, <2>3 DEF Unshared
<1>3. QED BY <1>1, <1>2, UsersWritten DEF OneUserWritten

\* Whoever was deleted with no request of his under way is served no more.
LEMMA LeftAloneStep ==
  ASSUME Shapes, FlowsOK, RefsOK, LeftAlone, DeletedStaysEmpty, EmailIsProved, [Next]_vars
  PROVE  LeftAlone' /\ DeletedStaysEmpty'
<1>0. users \in [Users -> UserRow] /\ None \notin Users /\ flow \in [Handlers -> Flow]
  BY NoneAssumption DEF Shapes
<1>r. past.raced \subseteq past'.raced
  BY ProvedWritten DEF PastOK
<1>1. ASSUME NEW u \in Users, users'[u].gone, u \notin past'.raced, users[u].gone
      PROVE  /\ \A i \in Handlers : flow'[i].u # u
             /\ users'[u].email = None /\ users'[u].discord = None
             /\ \A b \in Browsers : session'[b] # u
             /\ \A s \in Snowflakes : accounts'[s] # u
  <2>1. /\ \A i \in Handlers : flow[i].u # u
        /\ users[u].email = None /\ users[u].discord = None
        /\ \A b \in Browsers : session[b] # u
        /\ \A s \in Snowflakes : accounts[s] # u
    BY <1>1, <1>r DEF LeftAlone, DeletedStaysEmpty
  <2>2. users[u].row
    BY <1>1 DEF RefsOK, NoUser
  <2>3. \A i \in Handlers : flow'[i].u # u
    BY <1>0, <2>1, <2>2, Serves DEF Found
  <2>4. users'[u].email = None /\ users'[u].discord = None
    BY <1>0, <2>1, <2>2, UsersWritten DEF OneUserWritten, Written
  <2>5. \A b \in Browsers : session'[b] # u
    BY <1>0, <2>1, SessionsWritten DEF SessionsOK
  <2>6. \A s \in Snowflakes : accounts'[s] # u
    BY <1>0, <2>1, AccountsWritten DEF AccountsOK
  <2>7. QED BY <2>3, <2>4, <2>5, <2>6
<1>2. ASSUME NEW u \in Users, users'[u].gone, u \notin past'.raced, ~users[u].gone
      PROVE  /\ \A i \in Handlers : flow'[i].u # u
             /\ users'[u].email = None /\ users'[u].discord = None
             /\ \A b \in Browsers : session'[b] # u
             /\ \A s \in Snowflakes : accounts'[s] # u
  <2>1. PICK i \in Handlers : Delete(i) /\ flow[i].u = u
    BY <1>0, <1>2, UsersWritten DEF OneUserWritten, Written
  <2>2. \A j \in Handlers \ {i} : flow[j].u # u
    <3>1. past'.raced = IF \E j \in Handlers \ {i} : flow[j].u = u THEN past.raced \union {u} ELSE past.raced
      BY <2>1, DeletePast
    <3>2. QED BY <1>2, <3>1
  <2>3. flow'[i] = Idle /\ \A j \in Handlers \ {i} : flow'[j] = flow[j]
    BY <1>0, <2>1 DEF Delete, Reply
  <2>4. \A j \in Handlers : flow'[j].u # u
    BY <1>0, <2>2, <2>3, IdleIsAFlow
  <2>5. users'[u].email = None /\ users'[u].discord = None
    <3>1. PICK r : r = [NoUser EXCEPT !.row = TRUE, !.named = TRUE, !.gone = TRUE]
      OBVIOUS
    <3>2. r.email = None /\ r.discord = None
      BY <3>1 DEF NoUser
    <3>3. users' = [users EXCEPT ![u] = r]
      BY <2>1, <3>1 DEF Delete
    <3>4. QED BY <1>0, <3>2, <3>3
  <2>6. \A b \in Browsers : session'[b] # u
    BY <1>0, <2>1 DEF Delete, Cleared, Shapes
  <2>7. \A s \in Snowflakes : accounts'[s] # u
    BY <1>0, <2>1 DEF Delete, Cleared, Shapes
  <2>8. QED BY <2>4, <2>5, <2>6, <2>7
<1>3. LeftAlone'
  BY <1>1, <1>2 DEF LeftAlone
<1>4. DeletedStaysEmpty'
  BY <1>1, <1>2 DEF DeletedStaysEmpty
<1>5. QED BY <1>3, <1>4


-----------------------------------------------------------------------------
(* What pays for a change.                                                 *)

\* A request goes on with a change it was in, or takes one up at the address
\* that is; it is paid only while a change is pending, and owed only what was
\* paid.
LEMMA FlowsFund ==
  ASSUME Shapes, FlowsOK, [Next]_vars, NEW u \in Users, NEW j \in Handlers
  PROVE  /\ Changes(flow'[j], u) => \/ Changes(flow[j], u) /\ flow'[j].from = flow[j].from
                                    \/ flow'[j].from = users[u].email
         /\ Paying(flow'[j], u) => Paying(flow[j], u) \/ pending[u] # None
         /\ Owed(flow'[j], u) => Owed(flow[j], u) \/ Stamped(u) \/ Consume(j)
<1>1. CASE flow'[j] = flow[j]
  BY <1>1
<1>2. ASSUME NEW g \in Flow, Moves(j, g)
      PROVE  /\ Changes(flow'[j], u) => \/ Changes(flow[j], u) /\ flow'[j].from = flow[j].from
                                        \/ flow'[j].from = users[u].email
             /\ Paying(flow'[j], u) => Paying(flow[j], u) \/ pending[u] # None
             /\ Owed(flow'[j], u) => Owed(flow[j], u) \/ Stamped(u) \/ Consume(j)
  <2>1. flow'[j] = g
    BY <1>2 DEF Moves, Shapes
  <2>2. Tame(j, g, u)
    BY <1>2 DEF Moves
  <2>3. QED BY <2>1, <2>2 DEF Tame
<1>3. ASSUME NEW i \in Handlers, NEW g \in Flow, Moves(i, g), i # j PROVE flow'[j] = flow[j]
  BY <1>3 DEF Moves, Shapes
<1>4. QED BY <1>1, <1>2, <1>3, FlowsMove

\* A code for the address that is comes back: the change is paid for.
LEMMA ConsumePays ==
  ASSUME Shapes, FlowsOK, [Next]_vars, NEW u \in Users, Funds(u), NEW j \in Handlers, Consume(j), Owed(flow'[j], u)
  PROVE  past'.credit[u][users[u].email] >= 1
<1> DEFINE f == flow[j]
<1>0. f \in Flow /\ FlowOK(f) /\ flow \in [Handlers -> Flow]
  BY DEF Shapes, FlowsOK
<1>1. /\ f.at = "consume" /\ codes[f.code].row # "gone"
      /\ \E x \in {"upsert", "attach", "reset"} : flow' = [flow EXCEPT ![j].at = x]
  <2>1. ASSUME Reply(j) PROVE FALSE
    <3>1. flow'[j] = Idle
      BY <1>0, <2>1 DEF Reply
    <3>2. QED BY <3>1, IdleIsAFlow DEF Owed
  <2>2. f.for \in {"otp", "link", "current"}
    BY <1>0 DEF Consume, FlowOK, Coding, Purposes
  <2>3. QED BY <2>1, <2>2 DEF Consume, Goto
<1>2. flow'[j].u = f.u /\ flow'[j].for = f.for
  BY <1>0, <1>1 DEF Flow
<1>3. f.u = u /\ f.for = "current"
  BY <1>0, <1>1, <1>2 DEF Owed, FlowOK
<1>4. f.code \in Live(u)
  <2>1. f.code \in DOMAIN codes /\ codes[f.code].for = "current" /\ codes[f.code].u = u
    <3>1. Matched(f)
      BY <1>1 DEF Matched
    <3>2. QED BY <1>0, <1>3, <3>1 DEF FlowOK
  <2>2. QED BY <1>1, <2>1 DEF Live
<1>5. Paying(f, u)
  BY <1>1, <1>3 DEF Paying
<1>6. codes[f.code].mail = users[u].email
  BY <1>4, <1>5 DEF Funds
<1>7. PICK e \in Emails : e = users[u].email
  <2>1. f.code \in DOMAIN codes /\ codes \in Seq(CodeRow)
    BY <1>4 DEF Live, Shapes
  <2>2. PICK c \in DOMAIN codes : c = f.code
    BY <2>1
  <2>3. codes[c] \in CodeRow
    BY <2>1
  <2>4. QED BY <1>6, <2>2, <2>3 DEF CodeRow
<1>8. past.credit \in [Users -> [Emails \union {None} -> Int]] /\ past \in Past
  BY DEF Shapes, Past
<1>9. PICK k : k = past.credit[u][e] + 1
  OBVIOUS
<1>10. past' = [past EXCEPT !.credit[u][e] = k]
  BY <1>1, <1>3, <1>6, <1>7, <1>9 DEF Consume
<1>11. past'.credit = [past.credit EXCEPT ![u][e] = k]
  BY <1>8, <1>10 DEF Past
<1>12. past'.credit[u][e] = k
  BY <1>8, <1>11
<1>13. past.credit[u][e] \in Int /\ past.credit[u][e] >= 0
  BY <1>8 DEF Funds
<1>14. QED BY <1>7, <1>9, <1>12, <1>13

\* The changes of a user stay funded while his address and his credit stay.
LEMMA Funding ==
  ASSUME Shapes, FlowsOK, [Next]_vars, NEW u \in Users, Funds(u),
         users'[u].email = users[u].email, past' \in Past,
         \A e \in Emails \union {None} : past'.credit[u][e] >= past.credit[u][e],
         pending'[u] # None \/ (\E j \in Handlers : Paying(flow'[j], u))
           => \A c \in Live(u)' : codes'[c].mail = users[u].email,
         Stamped(u)' => past.credit[u][users[u].email] >= 1
  PROVE  Funds(u)'
<1>0. /\ past.credit \in [Users -> [Emails \union {None} -> Int]] /\ past'.credit \in [Users -> [Emails \union {None} -> Int]]
      /\ users \in [Users -> UserRow]
  BY DEF Shapes, Past
<1>e. PICK a \in Emails \union {None} : a = users[u].email
  BY <1>0 DEF UserRow
<1>i. \A e \in Emails \union {None} : past.credit[u][e] \in Int /\ past'.credit[u][e] \in Int
  BY <1>0
<1>1. \A e \in Emails : past'.credit[u][e] >= 0
  BY <1>i DEF Funds
<1>2. ASSUME NEW j \in Handlers, Changes(flow'[j], u) PROVE flow'[j].from = users'[u].email
  BY <1>2, FlowsFund DEF Funds
<1>3. pending'[u] # None \/ (\E j \in Handlers : Paying(flow'[j], u))
        => \A c \in Live(u)' : codes'[c].mail = users'[u].email
  OBVIOUS
<1>4. ASSUME past.credit[u][users[u].email] >= 1 PROVE past'.credit[u][users'[u].email] >= 1
  <2>1. past'.credit[u][a] >= 1
    BY <1>i, <1>e, <1>4
  <2>2. QED BY <1>e, <2>1
<1>5. ASSUME Stamped(u)' PROVE past'.credit[u][users'[u].email] >= 1
  BY <1>4, <1>5
<1>6. ASSUME NEW j \in Handlers, Owed(flow'[j], u) PROVE past'.credit[u][users'[u].email] >= 1
  <2>1. CASE Consume(j)
    BY <1>6, <2>1, ConsumePays
  <2>2. CASE Owed(flow[j], u) \/ Stamped(u)
    BY <1>4, <2>2 DEF Funds
  <2>3. QED BY <1>6, <2>1, <2>2, FlowsFund
<1>7. QED BY <1>1, <1>2, <1>3, <1>5, <1>6 DEF Funds

\* Who has no change under way and none pending is owed nothing.
LEMMA NoChange ==
  ASSUME NEW u \in Users, pending'[u] = None, \A e \in Emails : past'.credit[u][e] >= 0,
         \A j \in Handlers : flow'[j].u = u /\ flow'[j].for \in {"current", "new"} => flow'[j].for = "new" /\ flow'[j].at = "reset"
  PROVE  Funds(u)'
<1>1. \A j \in Handlers : ~Changes(flow'[j], u) /\ ~Paying(flow'[j], u) /\ ~Owed(flow'[j], u)
  BY DEF Changes, Paying, Owed
<1>2. ~Stamped(u)'
  BY DEF Stamped
<1>3. QED BY <1>1, <1>2 DEF Funds

\* The rows a change is paid from are written by its start and by verify-current.
Issues(i, u) == Insert(i) /\ flow[i].u = u /\ flow[i].for \in {"current", "new"}
LEMMA PendingKept ==
  ASSUME Shapes, FlowsOK, [Next]_vars, NEW u \in Users, \A i \in Handlers : ~Issues(i, u)
  PROVE  pending'[u] \in {pending[u], None}
<1>0. pending \in [Users -> {None} \union Change]
  BY DEF Shapes
<1>1. ASSUME NEW i \in Handlers, Insert(i) PROVE pending'[u] = pending[u]
  <2>1. CASE flow[i].for \notin {"current", "new"} \/ pending' = pending
    BY <1>1, <2>1 DEF Insert
  <2>2. CASE flow[i].for \in {"current", "new"} /\ pending' # pending
    <3>1. u # flow[i].u
      BY <1>1, <2>2 DEF Issues
    <3>2. PICK p : pending' = [pending EXCEPT ![flow[i].u] = p]
      BY <1>1, <2>2 DEF Insert
    <3>3. QED BY <1>0, <3>1, <3>2
  <2>3. QED BY <2>1, <2>2
<1>2. ASSUME NEW i \in Handlers, Swap(i) \/ Abort(i) \/ Delete(i) PROVE pending'[u] \in {pending[u], None}
  BY <1>0, <1>2 DEF Swap, Abort, Delete
<1>3. ASSUME NEW i \in Handlers,
             Count(i) \/ Send(i) \/ Clear(i) \/ RecordFailedAttempt(i) \/ Lock(i) \/ ResetAttempts(i) \/ Consume(i)
      PROVE  pending' = pending
  BY <1>3 DEF Count, Send, Clear, RecordFailedAttempt, Lock, ResetAttempts, Consume
<1>4. ASSUME NEW i \in Handlers, Upsert(i) \/ Enter(i) \/ Attach(i) \/ Spend(i) \/ Adopt(i) PROVE pending' = pending
  BY <1>4 DEF Upsert, Enter, Attach, Spend, Adopt
<1>5. ASSUME NEW i \in Handlers, CreateUser(i) \/ LinkAccount(i) \/ Admit(i) \/ Greet(i) PROVE pending' = pending
  BY <1>5 DEF CreateUser, LinkAccount, Admit, Greet
<1>6. ASSUME NEW b \in Browsers, Others(b) PROVE pending' = pending
  BY <1>6 DEF Others, SignOut, RevokeOthers, SetDisplayName, InitiateLink, ExpireLink, Recess, Unlock
<1>7. ASSUME NEW c \in DOMAIN codes, Expire(c) PROVE pending' = pending
  BY <1>7 DEF Expire
<1>8. ASSUME NEW i \in Handlers, Writes(i) PROVE pending'[u] \in {pending[u], None}
  BY <1>1, <1>2, <1>3, <1>4, <1>5, <1>8 DEF Writes
<1>9. QED BY <1>6, <1>7, <1>8, Steps DEF Still

LEMMA Appended ==
  ASSUME codes \in Seq(CodeRow), NEW w \in Seq(CodeRow), Len(w) = Len(codes), NEW x \in CodeRow, codes' = Append(w, x)
  PROVE  /\ DOMAIN codes' = 1..(Len(codes) + 1) /\ codes'[Len(codes) + 1] = x
         /\ \A c \in DOMAIN codes : codes'[c] = w[c]
<1>1. /\ codes' \in Seq(CodeRow) /\ Len(codes') = Len(codes) + 1
      /\ \A c \in DOMAIN codes : codes'[c] = w[c]
      /\ codes'[Len(codes) + 1] = x
  OBVIOUS
<1>2. QED BY <1>1

\* What an insertion adds, and what it leaves.
LEMMA Inserted ==
  ASSUME Shapes, FlowsOK, NEW i \in Handlers, Insert(i), flow[i].for = "new" => pending[flow[i].u] # None
  PROVE  /\ DOMAIN codes' = DOMAIN codes \union {Len(codes) + 1} /\ Len(codes) + 1 \notin DOMAIN codes
         /\ codes'[Len(codes) + 1].for = flow[i].for /\ codes'[Len(codes) + 1].u = flow[i].u
         /\ codes'[Len(codes) + 1].mail = Axis(flow[i])
         /\ flow[i].for \in {"current", "new"} => \A c \in RowsOf(flow[i]) : c \in DOMAIN codes => codes'[c].row = "gone"
<1> DEFINE f == flow[i]
           r == [row |-> "live", for |-> f.for, u |-> f.u, mail |-> Axis(f), seen |-> FALSE, used |-> 0]
<1>0. codes \in Seq(CodeRow) /\ Len(codes) \in Nat /\ DOMAIN codes = 1..Len(codes)
  BY DEF Shapes
<1>1. PICK cs : /\ codes' = Append(Without(cs), r)
                /\ f.for \in {"current", "new"} => cs = RowsOf(f)
  BY DEF Insert
<1>2. Without(cs) \in Seq(CodeRow) /\ Len(Without(cs)) = Len(codes) /\ \A c \in DOMAIN codes : c \in cs => Without(cs)[c].row = "gone"
  BY <1>0, WithoutCodes
<1>3. r.for = f.for /\ r.u = f.u /\ r.mail = Axis(f)
  OBVIOUS
<1>r. r \in CodeRow
  BY DEF Insert, FlowsOK, FlowOK, Coding, CodeRow, Axis, Shapes, Flow
<1> HIDE DEF r
<1>4. /\ DOMAIN codes' = 1..(Len(codes) + 1) /\ codes'[Len(codes) + 1] = r
      /\ \A c \in DOMAIN codes : codes'[c] = Without(cs)[c]
  <2>1. PICK w \in Seq(CodeRow), x \in CodeRow : w = Without(cs) /\ x = r
    BY <1>2, <1>r
  <2>2. codes' = Append(w, x) /\ Len(w) = Len(codes)
    BY <1>1, <1>2, <2>1
  <2>3. QED BY <1>0, <1>2, <2>1, <2>2, Appended
<1>5. DOMAIN codes' = DOMAIN codes \union {Len(codes) + 1} /\ Len(codes) + 1 \notin DOMAIN codes
  BY <1>0, <1>4
<1>6. QED BY <1>1, <1>2, <1>3, <1>4, <1>5

LEMMA LiveKept ==
  ASSUME Shapes, FlowsOK, [Next]_vars, NEW u \in Users,
         \A i \in Handlers : ~(Insert(i) /\ flow[i].u = u /\ flow[i].for = "current")
  PROVE  \A c \in Live(u)' : c \in Live(u) /\ codes'[c].mail = codes[c].mail
<1>0. CodesGrow /\ codes \in Seq(CodeRow) /\ codes' \in Seq(CodeRow)
  BY CodesStep DEF CodesGrow, Shapes
<1>1. ASSUME NEW c \in DOMAIN codes, c \in Live(u)' PROVE c \in Live(u) /\ codes'[c].mail = codes[c].mail
  <2>1. SameCode(c)
    BY <1>0, <1>1 DEF CodesGrow
  <2>2. QED BY <1>1, <2>1 DEF Live, SameCode
<1>2. ASSUME NEW c \in Live(u)', c \notin DOMAIN codes PROVE FALSE
  <2>1. codes' # codes /\ DOMAIN codes' # DOMAIN codes
    BY <1>2 DEF Live
  <2>2. ASSUME NEW i \in Handlers, Insert(i) PROVE FALSE
    <3>0. flow[i].for = "new" => pending[flow[i].u] # None
      BY <2>1, <2>2 DEF Insert
    <3>1. c = Len(codes) + 1 /\ codes'[c].for = flow[i].for /\ codes'[c].u = flow[i].u
      BY <1>2, <2>2, <3>0, Inserted DEF Live
    <3>2. QED BY <1>2, <2>2, <3>1 DEF Live
  <2>3. ASSUME NEW i \in Handlers, Send(i) \/ Clear(i) \/ Consume(i) \/ Swap(i) \/ Abort(i)
        PROVE  DOMAIN codes' = DOMAIN codes
    BY <2>3 DEF Send, Clear, Consume, Swap, Abort, Without
  <2>4. ASSUME NEW d \in DOMAIN codes, Expire(d) PROVE DOMAIN codes' = DOMAIN codes
    BY <2>4 DEF Expire
  <2>5. QED BY <2>1, <2>2, <2>3, <2>4, CodesWritten DEF CodeWriters
<1>3. QED BY <1>1, <1>2

LEMMA CreditKept ==
  ASSUME Shapes, FlowsOK, [Next]_vars, NEW u \in Users,
         \A i \in Handlers : ~(Swap(i) /\ flow[i].u = u /\ past' # past)
  PROVE  \A e \in Emails \union {None} : past'.credit[u][e] >= past.credit[u][e]
<1>0. \A v \in Users : \A e \in Emails \union {None} : past.credit[v][e] \in Int
  BY DEF Shapes, Past
<1>1. CASE past'.credit = past.credit
  BY <1>0, <1>1
<1>2. ASSUME NEW i \in Handlers, Consume(i), past' # past
      PROVE  \A e \in Emails \union {None} : past'.credit[u][e] >= past.credit[u][e]
  <2>1. PICK v \in Users, a \in Emails : Credited(past'.credit, v, a, past.credit[v][a] + 1)
    BY <1>2, ConsumePast
  <2>2. QED BY <1>0, <2>1 DEF Credited
<1>3. ASSUME NEW i \in Handlers, Swap(i), past' # past
      PROVE  \A e \in Emails \union {None} : past'.credit[u][e] >= past.credit[u][e]
  <2>1. PICK v, a, k : v = flow[i].u /\ Credited(past'.credit, v, a, k)
    BY <1>3, SwapPast
  <2>2. u # v
    BY <1>3, <2>1
  <2>3. QED BY <1>0, <2>1, <2>2 DEF Credited
<1>4. ASSUME NEW i \in Handlers, Attach(i), past' # past PROVE past'.credit = past.credit
  <2>1. OfEmail(flow[i].mail) \ {flow[i].u} = {}
    BY <1>4 DEF Attach
  <2>2. QED BY <1>4, <2>1, AttachPast
<1>5. ASSUME NEW i \in Handlers, Upsert(i) \/ Delete(i) PROVE past'.credit = past.credit
  BY <1>5, UpsertPast, DeletePast
<1>6. QED BY <1>1, <1>2, <1>3, <1>4, <1>5, PastWritten

\* The handler of a change that is under way keeps its account from changing
\* hands unnoticed.
LEMMA OnlyHis ==
  ASSUME Shapes, NEW u \in Users, NEW i \in Handlers, ~Changing(i, u), NEW j \in Handlers \ {i},
         flow'[j] = flow[j], flow'[j].u = u
  PROVE  flow'[j].for \notin {"current", "new"}
BY DEF Changing

LEMMA FundedStep ==
  ASSUME Shapes, FlowsOK, RefsOK, Funded, PastOK, [Next]_vars
  PROVE  Funded'
<1> SUFFICES ASSUME NEW u \in Users, u \notin past'.moved PROVE Funds(u)'
  BY DEF Funded
<1>0. /\ Funds(u) /\ u \notin past.moved /\ flow \in [Handlers -> Flow] /\ pending \in [Users -> {None} \union Change]
      /\ past' \in Past /\ users \in [Users -> UserRow] /\ None \notin Users
      /\ \A v \in Users : \A e \in Emails \union {None} : past.credit[v][e] \in Int
      /\ \A e \in Emails : past.credit[u][e] >= 0
  <2>1. past \in Past /\ past' \in Past /\ past.moved \subseteq past'.moved /\ None \notin Users
    BY NoneAssumption DEF PastOK, Shapes
  <2>2. flow \in [Handlers -> Flow] /\ pending \in [Users -> {None} \union Change] /\ users \in [Users -> UserRow]
    BY DEF Shapes
  <2>3. \A v \in Users : \A e \in Emails \union {None} : past.credit[v][e] \in Int
    BY <2>1 DEF Past
  <2>4. u \notin past.moved /\ Funds(u)
    BY <2>1 DEF Funded
  <2>5. \A e \in Emails : past.credit[u][e] >= 0
    BY <2>4 DEF Funds
  <2>6. QED BY <2>1, <2>2, <2>3, <2>4, <2>5
<1>k. \A i \in Handlers : FlowOK(flow[i])
  BY DEF FlowsOK
<1>1. ASSUME NEW i \in Handlers, Swap(i), flow[i].u = u, users' # users \/ past' # past PROVE Funds(u)'
  <2>1. /\ pending' = [pending EXCEPT ![u] = None] /\ ~Changing(i, u)
        /\ Credited(past'.credit, u, users[u].email, past.credit[u][users[u].email] - 1)
    BY <1>1, SwapPast
  <2>2. flow[i].at = "swap" /\ flow' = [flow EXCEPT ![i].at = "reset"]
    BY <1>1 DEF Swap, Goto
  <2>3. flow[i].for = "new"
    BY <1>k, <2>2 DEF FlowOK
  <2>4. flow'[i].at = "reset" /\ flow'[i].for = "new" /\ \A j \in Handlers \ {i} : flow'[j] = flow[j]
    BY <1>0, <2>2, <2>3 DEF Flow
  <2>5. past.credit[u][users[u].email] >= 1
    BY <1>0, <1>1, <2>2, <2>3 DEF Funds, Owed
  <2>6. \A e \in Emails : past'.credit[u][e] >= 0
    BY <1>0, <2>1, <2>5 DEF Credited
  <2>7. pending'[u] = None
    BY <1>0, <2>1
  <2>8. QED BY <2>1, <2>4, <2>6, <2>7, OnlyHis, NoChange
<1>2. ASSUME NEW i \in Handlers, Attach(i), flow[i].u = u, users' # users PROVE Funds(u)'
  <2>1. OfEmail(flow[i].mail) \ {flow[i].u} = {}
    BY <1>2 DEF Attach
  <2>2. pending[u] = None /\ ~Changing(i, u) /\ past'.credit = past.credit
    BY <1>2, <2>1, AttachPast
  <2>3. flow[i].at = "attach" /\ flow' = [flow EXCEPT ![i].at = "reset"] /\ pending' = pending
    BY <1>2, <2>1 DEF Attach, Goto
  <2>4. flow[i].for = "link"
    BY <1>k, <2>3 DEF FlowOK
  <2>5. flow'[i].for = "link" /\ \A j \in Handlers \ {i} : flow'[j] = flow[j]
    BY <1>0, <2>3, <2>4 DEF Flow
  <2>6. QED BY <1>0, <2>2, <2>3, <2>5, OnlyHis, NoChange
<1>3. ASSUME NEW i \in Handlers, Delete(i), flow[i].u = u PROVE Funds(u)'
  <2>1. pending' = [pending EXCEPT ![u] = None] /\ ~Changing(i, u) /\ past'.credit = past.credit
    BY <1>3, DeletePast
  <2>2. flow'[i].for = "none" /\ \A j \in Handlers \ {i} : flow'[j] = flow[j]
    BY <1>0, <1>3, IdleIsAFlow DEF Delete, Reply
  <2>3. pending'[u] = None
    BY <1>0, <2>1
  <2>4. QED BY <1>0, <2>1, <2>2, <2>3, OnlyHis, NoChange
<1>4. ASSUME NEW i \in Handlers, Upsert(i), u \in Fresh PROVE Funds(u)'
  <2>1. pending[u] = None /\ \A j \in Handlers : flow[j].u # u
    BY <1>0, <1>4 DEF Fresh, RefsOK, Rowed
  <2>2. past'.credit = past.credit
    BY <1>4, UpsertPast
  <2>3. pending' = pending /\ flow[i].at = "upsert" /\ \E v : flow' = [flow EXCEPT ![i].at = "reset", ![i].u = v]
    BY <1>4 DEF Upsert
  <2>4. flow[i].for = "otp"
    BY <1>k, <2>3 DEF FlowOK
  <2>5. flow'[i].for = "otp" /\ \A j \in Handlers \ {i} : flow'[j] = flow[j]
    BY <1>0, <2>3, <2>4 DEF Flow
  <2>6. QED BY <1>0, <2>1, <2>2, <2>3, <2>5, NoChange
<1>c. ASSUME NEW i \in Handlers, Insert(i)
      PROVE  /\ users'[u].email = users[u].email
             /\ \A e \in Emails \union {None} : past'.credit[u][e] >= past.credit[u][e]
  BY <1>0, <1>c DEF Insert
<1>5. ASSUME NEW i \in Handlers, Insert(i), flow[i].u = u, flow[i].for = "current" PROVE Funds(u)'
  <2>1. DOMAIN codes' = DOMAIN codes \union {Len(codes) + 1} /\ codes'[Len(codes) + 1].mail = flow[i].from
        /\ \A c \in RowsOf(flow[i]) : c \in DOMAIN codes => codes'[c].row = "gone"
    BY <1>5, Inserted DEF Axis
  <2>2. flow[i].from = users[u].email
    BY <1>0, <1>5 DEF Funds, Changes, Insert
  <2>3. ASSUME NEW c \in Live(u)' PROVE codes'[c].mail = users[u].email
    <3>1. CASE c = Len(codes) + 1
      BY <2>1, <2>2, <3>1
    <3>2. CASE c \in DOMAIN codes
      <4>1. SameCode(c)
        BY <3>2, CodesStep DEF CodesGrow
      <4>2. c \in RowsOf(flow[i])
        BY <1>5, <2>3, <3>2, <4>1 DEF Live, SameCode, RowsOf, Rows
      <4>3. QED BY <2>1, <2>3, <3>2, <4>2 DEF Live
    <3>3. QED BY <2>1, <2>3, <3>1, <3>2 DEF Live
  <2>4. ~Stamped(u)'
    <3>1. pending' = [pending EXCEPT ![u] = [mail |-> flow[i].mail, stamped |-> FALSE]]
      BY <1>5 DEF Insert
    <3>2. pending'[u] = [mail |-> flow[i].mail, stamped |-> FALSE]
      BY <1>0, <3>1
    <3>3. QED BY <3>2 DEF Stamped
  <2>5. QED BY <1>0, <1>5, <1>c, <2>3, <2>4, Funding
<1>6. ASSUME \A i \in Handlers : ~(Insert(i) /\ flow[i].u = u /\ flow[i].for = "current"),
             NEW i \in Handlers, Insert(i), flow[i].u = u, flow[i].for = "new"
      PROVE  Funds(u)'
  <2>1. \A c \in Live(u)' : c \in Live(u) /\ codes'[c].mail = codes[c].mail
    BY <1>6, LiveKept
  <2>2. past.credit[u][users[u].email] >= 1
    BY <1>0, <1>6 DEF Funds, Owed, Insert
  <2>3. pending'[u] # None => pending[u] # None
    BY <1>6 DEF Insert
  <2>4. pending'[u] # None \/ (\E j \in Handlers : Paying(flow'[j], u))
          => \A c \in Live(u)' : codes'[c].mail = users[u].email
    BY <1>0, <2>1, <2>3, FlowsFund DEF Funds
  <2>5. QED BY <1>0, <1>6, <1>c, <2>2, <2>4, Funding
<1>7. ASSUME \A i \in Handlers : ~Moved(i, u),
             \A i \in Handlers : ~(Swap(i) /\ flow[i].u = u /\ past' # past),
             \A i \in Handlers : ~Issues(i, u)
      PROVE  Funds(u)'
  <2>1. users'[u].email = users[u].email
    BY <1>7, EmailsWritten
  <2>2. \A e \in Emails \union {None} : past'.credit[u][e] >= past.credit[u][e]
    BY <1>7, CreditKept
  <2>3. pending'[u] \in {pending[u], None}
    BY <1>7, PendingKept
  <2>4. \A c \in Live(u)' : c \in Live(u) /\ codes'[c].mail = codes[c].mail
    BY <1>7, LiveKept DEF Issues
  <2>5. pending'[u] # None \/ (\E j \in Handlers : Paying(flow'[j], u))
          => \A c \in Live(u)' : codes'[c].mail = users[u].email
    BY <1>0, <2>3, <2>4, FlowsFund DEF Funds
  <2>6. Stamped(u)' => past.credit[u][users[u].email] >= 1
    BY <1>0, <2>3 DEF Funds, Stamped
  <2>7. QED BY <1>0, <2>1, <2>2, <2>5, <2>6, Funding
<1>8. QED BY <1>1, <1>2, <1>3, <1>4, <1>5, <1>6, <1>7 DEF Moved, Issues

-----------------------------------------------------------------------------
(* The theorems.                                                           *)

LEMMA InitAccountInv == Init => AccountInv
<1> SUFFICES ASSUME Init PROVE AccountInv
  OBVIOUS
<1>0. PICK here \in SUBSET Users :
        \E e \in [here -> Emails] :
          /\ \A u, v \in here : e[u] = e[v] => u = v
          /\ users = [u \in Users |-> IF u \in here
                        THEN [NoUser EXCEPT !.row = TRUE, !.email = e[u], !.named = TRUE] ELSE NoUser]
          /\ session \in {NoOne} \union [Browsers -> here]
          /\ past = [proved |-> [u \in Users |-> IF u \in here THEN {e[u]} ELSE {}],
                     credit |-> [u \in Users |-> [a \in Emails \union {None} |-> 0]], moved |-> {}, raced |-> {}]
  BY DEF Init
<1>1. PICK e \in [here -> Emails] :
        /\ \A u, v \in here : e[u] = e[v] => u = v
        /\ users = [u \in Users |-> IF u \in here
                      THEN [NoUser EXCEPT !.row = TRUE, !.email = e[u], !.named = TRUE] ELSE NoUser]
        /\ session \in {NoOne} \union [Browsers -> here]
        /\ past = [proved |-> [u \in Users |-> IF u \in here THEN {e[u]} ELSE {}],
                   credit |-> [u \in Users |-> [a \in Emails \union {None} |-> 0]], moved |-> {}, raced |-> {}]
  BY <1>0
<1>2. /\ accounts = [s \in Snowflakes |-> None] /\ codes = <<>> /\ pending = [u \in Users |-> None]
      /\ links = NoOne /\ attempts = [r \in Emails \X Browsers |-> NoAttempts]
      /\ requests = [b \in Browsers |-> NoRequests] /\ flow = [i \in Handlers |-> Idle]
  BY DEF Init
<1>3. ASSUME NEW u \in here
      PROVE  /\ users[u] \in UserRow /\ users[u].row /\ users[u].email = e[u] /\ e[u] \in Emails
             /\ users[u].discord = None /\ ~users[u].gone
  <2>1. users[u] = [NoUser EXCEPT !.row = TRUE, !.email = e[u], !.named = TRUE] /\ e[u] \in Emails
    BY <1>1
  <2>2. QED BY <2>1 DEF NoUser, UserRow
<1>4. /\ NoUser \in UserRow /\ ~NoUser.row /\ NoUser.email = None /\ NoUser.discord = None /\ ~NoUser.gone
      /\ \A u \in Users \ here : users[u] = NoUser
  BY <1>1 DEF NoUser, UserRow
<1>7. Shapes
  <2>1. users \in [Users -> UserRow]
    <3>1. \E x : users = [u \in Users |-> IF u \in here THEN [NoUser EXCEPT !.row = TRUE, !.email = x[u], !.named = TRUE]
                                          ELSE NoUser]
      BY <1>1
    <3>2. users = [u \in Users |-> users[u]]
      BY <3>1
    <3>3. \A u \in Users : users[u] \in UserRow
      BY <1>3, <1>4
    <3>4. QED BY <3>2, <3>3
  <2>2. session \in [Browsers -> Anyone]
    BY <1>1 DEF NoOne, Anyone
  <2>3. past \in Past
    <3>1. PICK p \in [Users -> SUBSET Emails] : p = [u \in Users |-> IF u \in here THEN {e[u]} ELSE {}]
      <4>1. \A u \in Users : (IF u \in here THEN {e[u]} ELSE {}) \in SUBSET Emails
        BY <1>3
      <4>2. QED BY <4>1
    <3>2. PICK d \in [Users -> [Emails \union {None} -> Int]] : d = [u \in Users |-> [a \in Emails \union {None} |-> 0]]
      <4>1. PICK z : z = [a \in Emails \union {None} |-> 0]
        OBVIOUS
      <4>2. z \in [Emails \union {None} -> Int]
        BY <4>1
      <4>3. [u \in Users |-> z] \in [Users -> [Emails \union {None} -> Int]]
        BY <4>2
      <4>4. QED BY <4>1, <4>3
    <3>3. past = [proved |-> p, credit |-> d, moved |-> {}, raced |-> {}]
      BY <1>1, <3>1, <3>2
    <3>4. QED BY <3>3, PastTogether
  <2>4. NoAttempts \in [n : 0..MAX_FAILED_ATTEMPTS, lock : Locks]
    BY CountsAssumption DEF NoAttempts, Locks
  <2>5. NoRequests \in [n : 0..OTP_REQUEST_MAX, lock : Locks, fresh : BOOLEAN]
    BY CountsAssumption DEF NoRequests, Locks
  <2>6. codes \in Seq(CodeRow)
    BY <1>2
  <2>7. QED BY <1>2, <2>1, <2>2, <2>3, <2>4, <2>5, <2>6, IdleIsAFlow DEF Shapes, NoOne, Anyone
<1>8. FlowsOK
  <2>1. Len(codes) = 0
    BY <1>2
  <2>2. FlowOK(Idle)
    BY <2>1, IdleIsAFlow DEF FlowOK, Coding, Linking, Serving, Matched
  <2>3. QED BY <1>2, <2>2 DEF FlowsOK
<1>9. RefsOK
  <2>1. \A b \in Browsers : session[b] = None \/ session[b] \in here
    BY <1>1 DEF NoOne
  <2>2. \A b \in Browsers : Rowed(session[b])
    BY <1>3, <2>1 DEF Rowed
  <2>3. \A u \in Users : ~users[u].row => users[u] = NoUser
    BY <1>3, <1>4
  <2>4. QED BY <1>2, <2>2, <2>3, IdleIsAFlow DEF RefsOK, Rowed
<1>10. Unshared
  <2>1. \A u \in Users : users[u].email # None => u \in here /\ users[u].email = e[u]
    BY <1>3, <1>4
  <2>2. \A u \in Users : users[u].discord = None
    <3>1. ASSUME NEW u \in Users \ here PROVE users[u].discord = None
      BY <1>4
    <3>2. QED BY <1>3, <3>1
  <2>3. ASSUME NEW u \in Users, NEW v \in Users, users[u].email = users[v].email, users[u].email # None PROVE u = v
    <3>1. u \in here /\ v \in here /\ e[u] = e[v]
      BY <2>1, <2>3
    <3>2. \A x, y \in here : e[x] = e[y] => x = y
      BY <1>1
    <3>3. QED BY <3>1, <3>2
  <2>4. QED BY <2>2, <2>3 DEF Unshared
<1>11. UsedOnce
  BY <1>2 DEF UsedOnce
<1>12. EmailIsProved
  <2>1. \A u \in Users : past.proved[u] = IF u \in here THEN {e[u]} ELSE {}
    BY <1>1
  <2>2. ASSUME NEW u \in Users, users[u].email # None PROVE users[u].email \in past.proved[u]
    <3>1. u \in here
      BY <1>4, <2>2
    <3>2. QED BY <1>3, <2>1, <3>1
  <2>3. QED BY <2>2 DEF EmailIsProved
<1>13. Funded
  <2>1. ASSUME NEW u \in Users PROVE \A a \in Emails : past.credit[u][a] >= 0
    <3>1. past.credit = [v \in Users |-> [a \in Emails \union {None} |-> 0]]
      BY <1>1
    <3>2. past.credit[u] = [a \in Emails \union {None} |-> 0]
      BY <3>1
    <3>3. QED BY <3>2
  <2>2. \A u \in Users, i \in Handlers : ~Changes(flow[i], u) /\ ~Paying(flow[i], u) /\ ~Owed(flow[i], u)
    BY <1>2, IdleIsAFlow, NoneAssumption DEF Changes, Paying, Owed
  <2>3. \A u \in Users : pending[u] = None /\ ~Stamped(u)
    BY <1>2 DEF Stamped
  <2>4. QED BY <2>1, <2>2, <2>3 DEF Funded, Funds
<1>14. LeftAlone /\ DeletedStaysEmpty
  BY <1>3, <1>4 DEF LeftAlone, DeletedStaysEmpty
<1>15. QED BY <1>7, <1>8, <1>9, <1>10, <1>11, <1>12, <1>13, <1>14 DEF AccountInv

LEMMA StepAccountInv == AccountInv /\ [Next]_vars => AccountInv'
<1> SUFFICES ASSUME AccountInv, [Next]_vars PROVE AccountInv'
  OBVIOUS
<1> USE DEF AccountInv
<1>1. Shapes'
  BY ShapesStep
<1>2. FlowsOK'
  BY FlowsStep
<1>3. RefsOK'
  BY RefsStep
<1>4. Unshared'
  BY UnsharedStep
<1>5. UsedOnce'
  BY CodesStep, UsedOnceStep
<1>6. EmailIsProved'
  BY ProvedWritten
<1>7. Funded'
  BY FundedStep, ProvedWritten
<1>8. LeftAlone' /\ DeletedStaysEmpty'
  BY LeftAloneStep
<1>9. QED BY <1>1, <1>2, <1>3, <1>4, <1>5, <1>6, <1>7, <1>8

\* Whatever requests run together, the invariant holds.
THEOREM AccountInvariant == Spec => []AccountInv
<1>1. Init => AccountInv
  BY InitAccountInv
<1>2. AccountInv /\ [Next]_vars => AccountInv'
  BY StepAccountInv
<1>3. QED BY <1>1, <1>2, PTL DEF Spec

\* Every variable has the shape of its rows, and neither an address nor a
\* Discord identity belongs to two accounts.
THEOREM AccountTypes == Spec => []TypeOK
<1>1. AccountInv => TypeOK
  <2> SUFFICES ASSUME AccountInv PROVE TypeOK
    OBVIOUS
  <2> USE DEF AccountInv
  <2>1. ASSUME NEW S, \A u, v \in S : u = v PROVE Cardinality(S) <= 1
    <3>1. CASE S = {}
      BY <3>1, FS_EmptySet
    <3>2. CASE S # {}
      <4>1. PICK u \in S : S = {u}
        BY <2>1, <3>2
      <4>2. Cardinality({u}) = 1
        BY FS_Singleton
      <4>3. QED BY <4>1, <4>2
    <3>3. QED BY <3>1, <3>2
  <2>2. \A e \in Emails : Cardinality(OfEmail(e)) <= 1
    <3>1. ASSUME NEW e \in Emails PROVE \A u, v \in OfEmail(e) : u = v
      BY NoneAssumption DEF OfEmail, Unshared
    <3>2. QED BY <2>1, <3>1
  <2>3. \A s \in Snowflakes : Cardinality(OfDiscord(s)) <= 1
    <3>1. ASSUME NEW s \in Snowflakes PROVE \A u, v \in OfDiscord(s) : u = v
      BY NoneAssumption DEF OfDiscord, Unshared
    <3>2. QED BY <2>1, <3>1
  <2>4. \A i \in Handlers : /\ flow[i].at \in Stages /\ flow[i].code \in 0..Len(codes)
                            /\ flow[i].at = "idle" <=> flow[i] = Idle
    BY DEF Shapes, Flow, FlowsOK, FlowOK
  <2>5. \A u \in Fresh : users[u] = NoUser /\ pending[u] = None
    BY DEF RefsOK, Fresh
  <2>6. \A c \in DOMAIN codes : codes[c] \in CodeRow
    BY DEF Shapes
  <2>7. QED BY <2>2, <2>3, <2>4, <2>5, <2>6 DEF TypeOK, Shapes, UserRow, CodeRow, Change
<1>2. QED BY <1>1, AccountInvariant, PTL

\* However many requests carry the same code, it lets one of them through
\* (the delete by token in verify-otp and its siblings, auth/routes.ts).
THEOREM CodesWorkOnce == Spec => []CodeWorksOnce
<1>1. AccountInv => CodeWorksOnce
  BY DEF AccountInv, UsedOnce, CodeWorksOnce
<1>2. QED BY <1>1, AccountInvariant, PTL

\* The address of an account is one whose mailbox a code came back from.
THEOREM EmailsAreProved == Spec => []EmailIsProved
<1>1. AccountInv => EmailIsProved
  BY DEF AccountInv
<1>2. QED BY <1>1, AccountInvariant, PTL

\* verify-new replaces no address without a code of its own from it (auth/
\* routes.ts, change/verify-current and change/verify-new) - unless the address
\* was put there while the change was under way: link/verify-otp asks for none,
\* and the code of a change goes to the address its start read.
THEOREM ChangesStayFunded == Spec => []ChangesAreFunded
<1>1. AccountInv => ChangesAreFunded
  BY DEF AccountInv, Funded, Funds, ChangesAreFunded
<1>2. QED BY <1>1, AccountInvariant, PTL

\* Nobody is signed in to a deleted account again, and it gets no address and
\* no Discord identity, unless a request of its own was under way.
THEOREM DeletedAccountsStayEmpty == Spec => []DeletedStaysEmpty
<1>1. AccountInv => DeletedStaysEmpty
  BY DEF AccountInv
<1>2. QED BY <1>1, AccountInvariant, PTL
=============================================================================
