------------------------------ MODULE Account ------------------------------
(***************************************************************************)
(* Accounts: sign-in by an emailed code or by Discord, the second address  *)
(* or Discord identity of an account, the change of its address, sessions, *)
(* lockouts and deletion (apps/server/src/auth, users/routes.ts).          *)
(*                                                                         *)
(* A handler of a code, of a change or of a Discord sign-in is one action  *)
(* per query, interleaved with the other handlers; what it read before an  *)
(* await is in its flow.  A code is the number of its issue.  A browser is *)
(* also an IP address.  Auth.js is external: its Discord callback is       *)
(* modelled from the adapter and the signIn event the repository gives it. *)
(***************************************************************************)
EXTENDS Integers, Sequences, FiniteSets

CONSTANTS
  Users, Emails, Snowflakes, Browsers,
  Handlers,    \* the requests that can be under way at once
  None,
  MAX_FAILED_ATTEMPTS,  \* 5
  OTP_REQUEST_MAX,      \* 10
  Menus        \* inputs: [ops |-> the operations tried together, accounts |-> a bound on those
               \* there are at first], with bounds on the requests made (calls), on those
               \* under way at once (hands) and on the codes issued (codes)

ASSUME NoneAssumption == None \notin Users \union Emails \union Snowflakes
ASSUME HandlersAssumption == IsFiniteSet(Handlers)
ASSUME CountsAssumption == MAX_FAILED_ATTEMPTS \in Nat \ {0} /\ OTP_REQUEST_MAX \in Nat \ {0}

VARIABLES
  menu,      \* the operations tried
  users,     \* User rows
  accounts,  \* Account rows: the user a Discord identity signs in to
  session,   \* browser -> the user of the session its cookie names
  codes,     \* VerificationToken rows, by issue; mail is where the code was sent
  pending,   \* PendingEmailChange, by user
  links,     \* browser -> the user of its PendingDiscordLink
  attempts,  \* EmailAuthAttempt, by address and browser
  requests,  \* the row of attempts that counts the requests of a browser
  flow,      \* handler -> the request it runs
  calls,     \* requests so far
  past       \* what happened, for the properties

rows == <<users, accounts, session, codes, pending, links, attempts, requests>>
vars == <<menu, rows, flow, calls, past>>

NoUser == [row |-> FALSE, email |-> None, discord |-> None, named |-> FALSE, gone |-> FALSE]
NoAttempts == [n |-> 0, lock |-> "no"]
NoRequests == [n |-> 0, lock |-> "no", fresh |-> FALSE]
Idle == [at |-> "idle", b |-> None, u |-> None, mail |-> None, for |-> "none",
         code |-> 0, old |-> {}, from |-> None, n |-> 0]

OfEmail(e) == {u \in Users : users[u].email = e}
OfDiscord(s) == {u \in Users : users[u].discord = s}
Fresh == {u \in Users : ~users[u].row}

\* A lock on the address or on the caller.
Locked(e, b) ==
  \/ requests[b].lock = "now"
  \/ \E f \in Emails, c \in Browsers : (f = e \/ c = b) /\ attempts[f, c].lock = "now"

\* The rows of an identifier: a purpose and, but for sign-in, an account.
Rows(for, u, e) ==
  {c \in DOMAIN codes : /\ codes[c].row # "gone" /\ codes[c].for = for
                        /\ for # "otp" => codes[c].u = u
                        /\ for # "current" => codes[c].mail = e}
RowsOf(f) == Rows(f.for, f.u, f.mail)
\* The address a leg is about: codes go there, attempts count there.
Axis(f) == IF f.for = "current" THEN f.from ELSE f.mail
Without(cs) == [c \in DOMAIN codes |-> IF c \in cs THEN [codes[c] EXCEPT !.row = "gone"] ELSE codes[c]]

Begin(i, f) ==
  /\ flow[i] = Idle /\ calls < menu.calls
  /\ Cardinality({j \in Handlers : flow[j] # Idle}) < menu.hands
  /\ flow' = [flow EXCEPT ![i] = f] /\ calls' = calls + 1
Goto(i, at) == flow' = [flow EXCEPT ![i].at = at] /\ UNCHANGED calls
Reply(i) == flow' = [flow EXCEPT ![i] = Idle] /\ UNCHANGED calls

-----------------------------------------------------------------------------
(* Codes on request.                                                       *)

RequestOtp(i, b, e) ==
  /\ "otp" \in menu.ops
  /\ Begin(i, [Idle EXCEPT !.at = "tally", !.b = b, !.mail = e, !.for = "otp"])
  /\ UNCHANGED <<menu, rows, past>>

RequestLink(i, b, e) ==
  /\ "link" \in menu.ops /\ session[b] # None
  /\ Begin(i, [Idle EXCEPT !.at = "ask", !.b = b, !.u = session[b], !.mail = e, !.for = "link"])
  /\ UNCHANGED <<menu, rows, past>>

\* change/start: the address to change is the one of the session as it was read.
StartChange(i, b, e) ==
  LET u == session[b] IN
  /\ "change" \in menu.ops /\ u # None /\ users[u].email \notin {None, e}
  /\ Begin(i, [Idle EXCEPT !.at = "tally", !.b = b, !.u = u, !.mail = e, !.for = "current", !.from = users[u].email])
  /\ UNCHANGED <<menu, rows, past>>

\* recordOtpRequest reads the row of the caller ...
Tally(i) ==
  LET f == flow[i]
      r == requests[f.b]
      n == IF ~r.fresh THEN 1 ELSE IF r.n < OTP_REQUEST_MAX THEN r.n + 1 ELSE OTP_REQUEST_MAX IN
  /\ f.at = "tally"
  /\ IF r.lock = "now" THEN Reply(i)
     ELSE flow' = [flow EXCEPT ![i].at = "count", ![i].n = n] /\ UNCHANGED calls
  /\ UNCHANGED <<menu, rows, past>>

\* ... and writes what it counted.
Count(i) ==
  LET f == flow[i]
      lock == f.n >= OTP_REQUEST_MAX IN
  /\ f.at = "count"
  /\ requests' = [requests EXCEPT ![f.b] = [n |-> f.n, fresh |-> TRUE, lock |-> IF lock THEN "now" ELSE "no"]]
  /\ IF lock THEN Reply(i) ELSE Goto(i, IF f.for = "otp" THEN "ask" ELSE "collide")
  /\ UNCHANGED <<menu, users, accounts, session, codes, pending, links, attempts, past>>

\* checkLockout, before a code is issued or looked up.
CheckLockout(i) ==
  LET f == flow[i] IN
  /\ f.at \in {"ask", "try"}
  /\ IF Locked(Axis(f), f.b) THEN Reply(i) ELSE Goto(i, IF f.at = "ask" THEN "replace" ELSE "find")
  /\ UNCHANGED <<menu, rows, past>>

\* Is the new address another account's?
Collide(i) ==
  LET f == flow[i] IN
  /\ f.at = "collide"
  /\ IF OfEmail(f.mail) \ {f.u} # {} THEN Reply(i)
     ELSE Goto(i, CASE f.for = "current" -> "insert" [] f.for = "link" -> "consume" [] f.for = "new" -> "swap")
  /\ UNCHANGED <<menu, rows, past>>

\* The deleteMany of the transaction: it sees no row another one has not
\* committed.  (The transactions of a change wait for each other on its row.)
Replace(i) ==
  /\ flow[i].at = "replace"
  /\ flow' = [flow EXCEPT ![i].at = "insert", ![i].old = RowsOf(flow[i])]
  /\ UNCHANGED <<menu, rows, calls, past>>

\* The code is created and the transaction commits.  Of a change, the pending
\* row is written first: by start whatever it was, by verify-current if it is
\* still there.
Insert(i) ==
  LET f == flow[i]
      old == IF f.for \in {"otp", "link"} THEN f.old ELSE RowsOf(f)
      row == [row |-> "live", for |-> f.for, u |-> f.u, mail |-> Axis(f), seen |-> FALSE, used |-> 0]
  IN
  /\ f.at = "insert" /\ Len(codes) < menu.codes
  /\ IF f.for = "new" /\ pending[f.u] = None
       THEN Reply(i) /\ UNCHANGED <<codes, pending>>
       ELSE /\ codes' = Append(Without(old), row)
            /\ pending' = CASE f.for = "current" -> [pending EXCEPT ![f.u] = [mail |-> f.mail, stamped |-> FALSE]]
                            [] f.for = "new" -> [pending EXCEPT ![f.u].stamped = TRUE]
                            [] OTHER -> pending
            /\ flow' = [flow EXCEPT ![i].at = "send", ![i].code = Len(codes) + 1]
            /\ UNCHANGED calls
  /\ UNCHANGED <<menu, users, accounts, session, links, attempts, requests, past>>

Send(i) ==
  /\ flow[i].at = "send"
  /\ \/ codes' = [codes EXCEPT ![flow[i].code].seen = TRUE] /\ Reply(i)
     \/ "lapses" \in menu.ops /\ UNCHANGED codes /\ Goto(i, "clear")
  /\ UNCHANGED <<menu, users, accounts, session, pending, links, attempts, requests, past>>

\* deleteMany of the identifier: the mail was not sent, or the code is burned.
Clear(i) ==
  /\ flow[i].at = "clear"
  /\ codes' = Without(RowsOf(flow[i])) /\ Reply(i)
  /\ UNCHANGED <<menu, users, accounts, session, pending, links, attempts, requests, past>>

-----------------------------------------------------------------------------
(* A code comes back.                                                      *)

Entered(b, u, e, for) == [Idle EXCEPT !.at = "try", !.b = b, !.u = u, !.mail = e, !.for = for]

VerifyOtp(i, b, e) ==
  /\ "otp" \in menu.ops
  /\ Begin(i, Entered(b, None, e, "otp"))
  /\ UNCHANGED <<menu, rows, past>>

VerifyLink(i, b, e) ==
  /\ "link" \in menu.ops /\ session[b] # None
  /\ Begin(i, Entered(b, session[b], e, "link"))
  /\ UNCHANGED <<menu, rows, past>>

\* verify-current and verify-new read the address of the session first.
VerifyChange(i, b, for) ==
  LET u == session[b] IN
  /\ "change" \in menu.ops /\ u # None /\ users[u].email # None
  /\ Begin(i, [Idle EXCEPT !.at = "pending", !.b = b, !.u = u, !.for = for, !.from = users[u].email])
  /\ UNCHANGED <<menu, rows, past>>

(* Mutant: verify-new does not ask for the stamp. *)
FindPendingUnstamped(i) ==
  LET f == flow[i] IN
  /\ f.at = "pending"
  /\ IF pending[f.u] = None THEN Reply(i)
     ELSE flow' = [flow EXCEPT ![i].at = "try", ![i].mail = pending[f.u].mail] /\ UNCHANGED calls
  /\ UNCHANGED <<menu, rows, past>>

\* The pending change is read: none, or another one than the request names.
FindPending(i) ==
  LET f == flow[i]
      p == pending[f.u] IN
  /\ f.at = "pending"
  /\ \/ Reply(i)
     \/ /\ p # None /\ (f.for = "new" => p.stamped)
        /\ flow' = [flow EXCEPT ![i].at = IF f.for = "none" THEN "abort" ELSE "try", ![i].mail = p.mail]
        /\ UNCHANGED calls
  /\ UNCHANGED <<menu, rows, past>>

\* The row of the identifier is compared with what was typed.
Find(i) ==
  LET f == flow[i]
      right == {c \in RowsOf(f) : codes[c].row = "live" /\ codes[c].seen} IN
  /\ f.at = "find" /\ UNCHANGED calls
  /\ \/ \E c \in right : flow' = [flow EXCEPT ![i].code = c,
                                            ![i].at = IF f.for \in {"link", "new"} THEN "collide" ELSE "consume"]
     \/ /\ "typos" \in menu.ops \/ right = {}
        /\ \E c \in IF RowsOf(f) = {} THEN {0} ELSE RowsOf(f) :
             flow' = [flow EXCEPT ![i].code = c, ![i].at = "wrong"]
  /\ UNCHANGED <<menu, rows, past>>

RecordFailedAttempt(i) ==
  LET f == flow[i]
      n == attempts[Axis(f), f.b].n + 1 IN
  /\ f.at = "wrong"
  /\ attempts' = [attempts EXCEPT ![<<Axis(f), f.b>>].n = IF n > MAX_FAILED_ATTEMPTS THEN MAX_FAILED_ATTEMPTS ELSE n]
  /\ IF n >= MAX_FAILED_ATTEMPTS THEN Goto(i, "lock") ELSE Reply(i)
  /\ UNCHANGED <<menu, users, accounts, session, codes, pending, links, requests, past>>

\* The update fails, and the request with it, if the row is gone by now.
Lock(i) ==
  LET f == flow[i] IN
  /\ f.at = "lock"
  /\ IF attempts[Axis(f), f.b] = NoAttempts
       THEN Reply(i) /\ UNCHANGED attempts
       ELSE /\ attempts' = [attempts EXCEPT ![<<Axis(f), f.b>>].lock = "now"]
            /\ IF f.code = 0 THEN Reply(i) ELSE Goto(i, "clear")
  /\ UNCHANGED <<menu, users, accounts, session, codes, pending, links, requests, past>>

\* resetAttempts; verify-current goes on to the code for the address of the
\* change it read.
ResetAttempts(i) ==
  LET f == flow[i] IN
  /\ f.at = "reset"
  /\ attempts' = [attempts EXCEPT ![<<Axis(f), f.b>>] = NoAttempts]
  /\ CASE f.for = "otp" -> Goto(i, "enter")
       [] f.for = "current" -> flow' = [flow EXCEPT ![i].at = "insert", ![i].for = "new"] /\ UNCHANGED calls
       [] OTHER -> Reply(i)
  /\ UNCHANGED <<menu, users, accounts, session, codes, pending, links, requests, past>>

(* Mutant: deleteMany, which no missing row makes fail. *)
ConsumeIfThere(i) ==
  LET f == flow[i] IN
  /\ f.at = "consume"
  /\ codes' = [codes EXCEPT ![f.code].row = "gone", ![f.code].used = @ + 1]
  /\ Goto(i, CASE f.for = "otp" -> "upsert" [] f.for = "link" -> "attach" [] f.for = "current" -> "reset")
  /\ UNCHANGED <<menu, users, accounts, session, pending, links, attempts, requests, past>>

\* delete by token: it fails if the row is gone.
Consume(i) ==
  LET f == flow[i] IN
  /\ f.at = "consume"
  /\ IF codes[f.code].row = "gone"
       THEN Reply(i) /\ UNCHANGED <<codes, past>>
       ELSE /\ codes' = [codes EXCEPT ![f.code].row = "gone", ![f.code].used = @ + 1]
            /\ Goto(i, CASE f.for = "otp" -> "upsert" [] f.for = "link" -> "attach" [] f.for = "current" -> "reset")
            /\ past' = IF f.for = "current" THEN [past EXCEPT !.credit[f.u][codes[f.code].mail] = @ + 1] ELSE past
  /\ UNCHANGED <<menu, users, accounts, session, pending, links, attempts, requests>>

\* The account of the address, or a new one without a name.
Upsert(i) ==
  LET f == flow[i]
      known == OfEmail(f.mail) IN
  /\ f.at = "upsert"
  /\ \E u \in IF known # {} THEN known ELSE Fresh :
       /\ users' = IF known # {} THEN users
                   ELSE [users EXCEPT ![u] = [NoUser EXCEPT !.row = TRUE, !.email = f.mail]]
       /\ past' = [past EXCEPT !.proved[u] = @ \union {codes[f.code].mail}]
       /\ flow' = [flow EXCEPT ![i].at = "reset", ![i].u = u]
  /\ UNCHANGED <<menu, accounts, session, codes, pending, links, attempts, requests, calls>>

\* createSessionForUser.
Enter(i) ==
  LET f == flow[i] IN
  /\ f.at = "enter" /\ Reply(i)
  /\ session' = [session EXCEPT ![f.b] = f.u]
  /\ UNCHANGED <<menu, users, accounts, codes, pending, links, attempts, requests, past>>

\* Another request of the account has a change of its address under way.
Changing(i, u) == \E j \in Handlers \ {i} : flow[j].u = u /\ flow[j].for \in {"current", "new"}

\* user.update: it throws if the address is another account's by now.
Attach(i) ==
  LET f == flow[i] IN
  /\ f.at = "attach"
  /\ IF OfEmail(f.mail) \ {f.u} = {}
       THEN /\ users' = [users EXCEPT ![f.u].email = f.mail]
            /\ past' = [past EXCEPT !.proved[f.u] = @ \union {codes[f.code].mail},
                                    !.moved = IF pending[f.u] # None \/ Changing(i, f.u) THEN @ \union {f.u} ELSE @]
            /\ Goto(i, "reset")
       ELSE Reply(i) /\ UNCHANGED <<users, past>>
  /\ UNCHANGED <<menu, accounts, session, codes, pending, links, attempts, requests>>

\* An address replaced by the change flow takes a code that came back from it.
Replaced(i, u, c) ==
  [past EXCEPT !.credit[u][users[u].email] = @ - 1, !.proved[u] = {codes[c].mail},
               !.moved = IF Changing(i, u) THEN @ \union {u} ELSE @]

(* Mutant: the address is the one that is pending at the commit. *)
SwapToPending(i) ==
  LET f == flow[i] IN
  /\ f.at = "swap" /\ Reply(i)
  /\ IF codes[f.code].row # "gone" /\ pending[f.u] # None
       THEN /\ OfEmail(pending[f.u].mail) \ {f.u} = {}
            /\ codes' = [codes EXCEPT ![f.code].row = "gone", ![f.code].used = @ + 1]
            /\ users' = [users EXCEPT ![f.u].email = pending[f.u].mail]
            /\ pending' = [pending EXCEPT ![f.u] = None]
            /\ past' = Replaced(i, f.u, f.code)
       ELSE UNCHANGED <<codes, users, pending, past>>
  /\ UNCHANGED <<menu, accounts, session, links, attempts, requests>>

\* The transaction of verify-new.
Swap(i) ==
  LET f == flow[i] IN
  /\ f.at = "swap"
  /\ IF codes[f.code].row # "gone" /\ pending[f.u] # None /\ OfEmail(f.mail) \ {f.u} = {}
       THEN /\ codes' = [codes EXCEPT ![f.code].row = "gone", ![f.code].used = @ + 1]
            /\ users' = [users EXCEPT ![f.u].email = f.mail]
            /\ pending' = [pending EXCEPT ![f.u] = None]
            /\ attempts' = [r \in DOMAIN attempts |-> IF r[1] = f.from THEN NoAttempts ELSE attempts[r]]
            /\ past' = Replaced(i, f.u, f.code)
            /\ Goto(i, "reset")
       ELSE Reply(i) /\ UNCHANGED <<codes, users, pending, attempts, past>>
  /\ UNCHANGED <<menu, accounts, session, links, requests>>

\* change/abort: the change that was read is the one whose codes go, the one
\* that goes is whichever is pending.
AskAbort(i, b) ==
  /\ "change" \in menu.ops /\ session[b] # None
  /\ Begin(i, [Idle EXCEPT !.at = "pending", !.b = b, !.u = session[b]])
  /\ UNCHANGED <<menu, rows, past>>
Abort(i) ==
  LET f == flow[i] IN
  /\ f.at = "abort" /\ Reply(i)
  /\ IF pending[f.u] = None
       THEN UNCHANGED <<pending, codes>>
       ELSE /\ pending' = [pending EXCEPT ![f.u] = None]
            /\ codes' = Without(Rows("current", f.u, None) \union Rows("new", f.u, f.mail))
  /\ UNCHANGED <<menu, users, accounts, session, links, attempts, requests, past>>

-----------------------------------------------------------------------------
(* Sessions, names, deletion.                                              *)

\* The cookie is dropped with the row, or the session has lapsed when it is read.
SignOut(b) ==
  /\ "sessions" \in menu.ops /\ session[b] # None
  /\ session' = [session EXCEPT ![b] = None]
  /\ UNCHANGED <<menu, users, accounts, codes, pending, links, attempts, requests, flow, calls, past>>

RevokeOthers(b) ==
  /\ "sessions" \in menu.ops /\ session[b] # None /\ users[session[b]].named
  /\ \E c \in Browsers \ {b} : session[c] = session[b]
  /\ session' = [c \in Browsers |-> IF c # b /\ session[c] = session[b] THEN None ELSE session[c]]
  /\ UNCHANGED <<menu, users, accounts, codes, pending, links, attempts, requests, flow, calls, past>>

SetDisplayName(b) ==
  /\ "delete" \in menu.ops /\ session[b] # None /\ ~users[session[b]].named
  /\ users' = [users EXCEPT ![session[b]].named = TRUE]
  /\ UNCHANGED <<menu, accounts, session, codes, pending, links, attempts, requests, flow, calls, past>>

\* The parties are left first (Party), then the account is emptied.
AskDelete(i, b) ==
  /\ "delete" \in menu.ops /\ session[b] # None /\ users[session[b]].named
  /\ Begin(i, [Idle EXCEPT !.at = "delete", !.b = b, !.u = session[b]])
  /\ UNCHANGED <<menu, rows, past>>
Forgotten(i, u) ==
  [past EXCEPT !.proved[u] = {},
               !.moved = IF pending[u] # None \/ Changing(i, u) THEN @ \union {u} ELSE @,
               !.raced = IF \E j \in Handlers \ {i} : flow[j].u = u THEN @ \union {u} ELSE @]
Cleared(f, u) == [x \in DOMAIN f |-> IF f[x] = u THEN None ELSE f[x]]
(* Mutant: the Account rows are left. *)
DeleteKeepingLogin(i) ==
  LET u == flow[i].u IN
  /\ flow[i].at = "delete" /\ Reply(i)
  /\ users' = [users EXCEPT ![u] = [NoUser EXCEPT !.row = TRUE, !.named = TRUE, !.gone = TRUE]]
  /\ session' = Cleared(session, u)
  /\ pending' = [pending EXCEPT ![u] = None]
  /\ links' = Cleared(links, u)
  /\ past' = Forgotten(i, u)
  /\ UNCHANGED <<menu, accounts, codes, attempts, requests>>
Delete(i) ==
  LET u == flow[i].u IN
  /\ flow[i].at = "delete" /\ Reply(i)
  /\ users' = [users EXCEPT ![u] = [NoUser EXCEPT !.row = TRUE, !.named = TRUE, !.gone = TRUE]]
  /\ session' = Cleared(session, u)
  /\ accounts' = Cleared(accounts, u)
  /\ pending' = [pending EXCEPT ![u] = None]
  /\ links' = Cleared(links, u)
  /\ past' = Forgotten(i, u)
  /\ UNCHANGED <<menu, codes, attempts, requests>>

-----------------------------------------------------------------------------
(* Discord.                                                                *)

\* link/initiate and link/start: the row, and the cookie of the browser.
InitiateLink(b) ==
  /\ "discord" \in menu.ops /\ session[b] # None
  /\ links' = [links EXCEPT ![b] = session[b]]
  /\ UNCHANGED <<menu, users, accounts, session, codes, pending, attempts, requests, flow, calls, past>>

\* The sweeps: of link rows, and of locks that are over.
ExpireLink(b) ==
  /\ links[b] # None /\ links' = [links EXCEPT ![b] = None]
  /\ UNCHANGED <<menu, users, accounts, session, codes, pending, attempts, requests, flow, calls, past>>

\* The callback: the session, then the row; mail is the identity Discord will tell.
LinkCallback(i, b, s) ==
  /\ "discord" \in menu.ops /\ session[b] # None
  /\ Begin(i, [Idle EXCEPT !.at = "token", !.b = b, !.u = session[b], !.mail = s])
  /\ UNCHANGED <<menu, rows, past>>
FindLink(i) ==
  LET f == flow[i] IN
  /\ f.at = "token"
  /\ IF links[f.b] = None THEN Reply(i)
     ELSE flow' = [flow EXCEPT ![i].at = "spend", ![i].from = links[f.b]] /\ UNCHANGED calls
  /\ UNCHANGED <<menu, rows, past>>

\* The row goes whatever follows; Discord answers or does not.
Spend(i) ==
  LET f == flow[i] IN
  /\ f.at = "spend"
  /\ links' = [links EXCEPT ![f.b] = IF links[f.b] = f.from THEN None ELSE links[f.b]]
  /\ \/ f.from = f.u /\ Goto(i, "adopt")
     \/ Reply(i)
  /\ UNCHANGED <<menu, users, accounts, session, codes, pending, attempts, requests, past>>

\* Refused if another account has the identity.
Adopt(i) ==
  LET f == flow[i] IN
  /\ f.at = "adopt" /\ Reply(i)
  /\ users' = IF OfDiscord(f.mail) \ {f.u} = {}
                THEN [users EXCEPT ![f.u].discord = f.mail, ![f.u].named = TRUE] ELSE users
  /\ UNCHANGED <<menu, accounts, session, codes, pending, links, attempts, requests, past>>

\* The callback of Auth.js: the session, then getUserByAccount.  An identity
\* that is known signs in to its user, one that is not is linked to the user of
\* the session, or to a new user.
SignInWithDiscord(i, b, s) ==
  /\ "discord" \in menu.ops
  /\ Begin(i, [Idle EXCEPT !.at = "recognise", !.b = b, !.u = session[b], !.from = session[b], !.mail = s])
  /\ UNCHANGED <<menu, rows, past>>
Recognise(i) ==
  LET f == flow[i]
      u == accounts[f.mail] IN
  /\ f.at = "recognise"
  /\ CASE u = None -> Goto(i, IF f.u = None THEN "create" ELSE "join")
       [] u # None /\ f.u = None -> flow' = [flow EXCEPT ![i].at = "admit", ![i].u = u] /\ UNCHANGED calls
       [] u # None /\ f.u = u -> Goto(i, "greet")
       [] u # None /\ f.u \notin {None, u} -> Reply(i)
  /\ UNCHANGED <<menu, rows, past>>

\* createUser fails if a user has the identity already.
CreateUser(i) ==
  LET f == flow[i] IN
  /\ f.at = "create"
  /\ IF OfDiscord(f.mail) # {}
       THEN Reply(i) /\ UNCHANGED users
       ELSE \E u \in Fresh :
              /\ users' = [users EXCEPT ![u] = [NoUser EXCEPT !.row = TRUE, !.discord = f.mail, !.named = TRUE]]
              /\ flow' = [flow EXCEPT ![i].at = "join", ![i].u = u]
              /\ UNCHANGED calls
  /\ UNCHANGED <<menu, accounts, session, codes, pending, links, attempts, requests, past>>

\* linkAccount fails if the identity has an Account row by now.
LinkAccount(i) ==
  LET f == flow[i] IN
  /\ f.at = "join"
  /\ IF accounts[f.mail] # None
       THEN Reply(i) /\ UNCHANGED accounts
       ELSE /\ accounts' = [accounts EXCEPT ![f.mail] = f.u]
            /\ Goto(i, IF f.from = None THEN "admit" ELSE "greet")
  /\ UNCHANGED <<menu, users, session, codes, pending, links, attempts, requests, past>>

\* createSession.
Admit(i) ==
  LET f == flow[i] IN
  /\ f.at = "admit" /\ Goto(i, "greet")
  /\ session' = [session EXCEPT ![f.b] = f.u]
  /\ UNCHANGED <<menu, users, accounts, codes, pending, links, attempts, requests, past>>

\* The signIn event: the update throws if another user has the identity.
Greet(i) ==
  LET f == flow[i] IN
  /\ f.at = "greet" /\ Reply(i)
  /\ users' = IF OfDiscord(f.mail) \ {f.u} = {} THEN [users EXCEPT ![f.u].discord = f.mail] ELSE users
  /\ UNCHANGED <<menu, accounts, session, codes, pending, links, attempts, requests, past>>

-----------------------------------------------------------------------------
(* Time.                                                                   *)

Expire(c) ==
  /\ "lapses" \in menu.ops
  /\ codes[c].row = "live" /\ codes' = [codes EXCEPT ![c].row = "expired"]
  /\ UNCHANGED <<menu, users, accounts, session, pending, links, attempts, requests, flow, calls, past>>

\* A lock ends; the row keeps its count until the sweep takes it.
Unlock(e, b) ==
  /\ "lapses" \in menu.ops /\ attempts[e, b].lock # "no"
  /\ attempts' = [attempts EXCEPT ![<<e, b>>] = IF attempts[e, b].lock = "now" THEN [attempts[e, b] EXCEPT !.lock = "over"]
                                               ELSE NoAttempts]
  /\ UNCHANGED <<menu, users, accounts, session, codes, pending, links, requests, flow, calls, past>>

Recess(b) ==
  /\ "lapses" \in menu.ops /\ requests[b].fresh
  /\ requests' = [requests EXCEPT ![b].lock = "no", ![b].fresh = (requests[b].lock = "now")]
  /\ UNCHANGED <<menu, users, accounts, session, codes, pending, links, attempts, flow, calls, past>>

-----------------------------------------------------------------------------
NoOne == [b \in Browsers |-> None]

\* Nobody yet, or accounts with an address each, and nobody signed in or every
\* browser to one of them.
Init ==
  /\ menu \in Menus
  /\ \E here \in {us \in SUBSET Users : Cardinality(us) <= menu.accounts} :
     \E e \in {es \in [here -> Emails] : \A u, v \in here : es[u] = es[v] => u = v} :
       /\ users = [u \in Users |-> IF u \in here
                     THEN [NoUser EXCEPT !.row = TRUE, !.email = e[u], !.named = TRUE] ELSE NoUser]
       /\ session \in {NoOne} \union [Browsers -> here]
       /\ past = [proved |-> [u \in Users |-> IF u \in here THEN {e[u]} ELSE {}],
                  credit |-> [u \in Users |-> [a \in Emails \union {None} |-> 0]], moved |-> {}, raced |-> {}]
  /\ accounts = [s \in Snowflakes |-> None]
  /\ codes = <<>>
  /\ pending = [u \in Users |-> None]
  /\ links = NoOne
  /\ attempts = [r \in Emails \X Browsers |-> NoAttempts]
  /\ requests = [b \in Browsers |-> NoRequests]
  /\ flow = [i \in Handlers |-> Idle]
  /\ calls = 0

Call(i, b) ==
  \/ \E e \in Emails : \/ RequestOtp(i, b, e) \/ RequestLink(i, b, e) \/ StartChange(i, b, e)
                       \/ VerifyOtp(i, b, e) \/ VerifyLink(i, b, e)
  \/ \E for \in {"current", "new"} : VerifyChange(i, b, for)
  \/ AskAbort(i, b) \/ AskDelete(i, b)
  \/ \E s \in Snowflakes : LinkCallback(i, b, s) \/ SignInWithDiscord(i, b, s)

Continue(i) ==
  \/ Tally(i) \/ Count(i) \/ CheckLockout(i) \/ Collide(i) \/ FindPending(i) \/ Find(i)
  \/ Replace(i) \/ Insert(i) \/ Send(i) \/ Clear(i)
  \/ RecordFailedAttempt(i) \/ Lock(i) \/ ResetAttempts(i)
  \/ Consume(i) \/ Upsert(i) \/ Enter(i) \/ Attach(i) \/ Swap(i) \/ Abort(i) \/ Delete(i)
  \/ FindLink(i) \/ Spend(i) \/ Adopt(i)
  \/ Recognise(i) \/ CreateUser(i) \/ LinkAccount(i) \/ Admit(i) \/ Greet(i)

Next ==
  \/ \E i \in Handlers : Continue(i) \/ \E b \in Browsers : Call(i, b)
  \/ \E b \in Browsers : \/ SignOut(b) \/ RevokeOthers(b) \/ SetDisplayName(b)
                         \/ InitiateLink(b) \/ ExpireLink(b) \/ Recess(b)
                         \/ \E e \in Emails : Unlock(e, b)
  \/ \E c \in DOMAIN codes : Expire(c)

Spec == Init /\ [][Next]_vars

-----------------------------------------------------------------------------
Purposes == {"otp", "link", "current", "new"}
Stages == {"idle", "tally", "count", "ask", "collide", "replace", "insert", "send", "clear",
           "pending", "try", "find", "wrong", "lock", "reset", "consume", "upsert", "enter", "attach", "swap",
           "abort", "delete", "token", "spend", "adopt", "recognise", "create", "join", "admit", "greet"}
Anyone == Users \union {None}
Locks == {"no", "now", "over"}

\* Every variable has the shape of its rows.  No address and no Discord
\* identity belongs to two accounts, no row of the table is there for an
\* account that is not.
TypeOK ==
  /\ users \in [Users -> [row : BOOLEAN, email : Emails \union {None}, discord : Snowflakes \union {None},
                         named : BOOLEAN, gone : BOOLEAN]]
  /\ accounts \in [Snowflakes -> Anyone] /\ session \in [Browsers -> Anyone] /\ links \in [Browsers -> Anyone]
  /\ \A c \in DOMAIN codes :
       codes[c] \in [row : {"live", "expired", "gone"}, for : Purposes, u : Anyone, mail : Emails,
                    seen : BOOLEAN, used : Nat]
  /\ pending \in [Users -> {None} \union [mail : Emails, stamped : BOOLEAN]]
  /\ attempts \in [Emails \X Browsers -> [n : 0..MAX_FAILED_ATTEMPTS, lock : Locks]]
  /\ requests \in [Browsers -> [n : 0..OTP_REQUEST_MAX, lock : Locks, fresh : BOOLEAN]]
  /\ \A i \in Handlers : /\ flow[i].at \in Stages /\ flow[i].code \in 0..Len(codes)
                         /\ flow[i].at = "idle" <=> flow[i] = Idle
  /\ \A e \in Emails : Cardinality(OfEmail(e)) <= 1
  /\ \A s \in Snowflakes : Cardinality(OfDiscord(s)) <= 1
  /\ \A u \in Fresh : users[u] = NoUser /\ pending[u] = None

\* "Atomically consume the token so a concurrent request can't reuse it"
\* (auth/routes.ts, verify-otp): whatever requests run together, a code lets
\* one of them through.
CodeWorksOnce == \A c \in DOMAIN codes : codes[c].used <= 1

\* The address of an account is one whose mailbox a code came back from, for
\* this account and since it last changed hands: not an address that another
\* tab put into the pending change in the meantime.
EmailIsProved == \A u \in Users : users[u].email # None => users[u].email \in past.proved[u]

\* verify-new replaces no address without a code of its own from the address it
\* replaces: two tabs, an abandoned change or a code left over from one never
\* change it twice on one such code.  Not so when the address was put there
\* while the change was under way: link/verify-otp asks for no code from the
\* address it replaces, and the code of a change goes to the address that its
\* start read from the session.
ChangesAreFunded ==
  \A u \in Users \ past.moved : \A e \in Emails : past.credit[u][e] >= 0

\* A deleted account has no session, address, Discord identity or Account row,
\* so nobody is ever signed in to it again - but through a request of its own
\* that was under way when it was deleted.
DeletedStaysEmpty ==
  \A u \in Users :
    users[u].gone /\ u \notin past.raced
    => /\ users[u].email = None /\ users[u].discord = None
       /\ u \notin {session[b] : b \in Browsers} \union {accounts[s] : s \in Snowflakes}

=============================================================================
