---------------------------- MODULE AccountTokens ----------------------------
(***************************************************************************)
(* The Claude accounts of the program and their rotating tokens: the       *)
(* watcher of the live login (src-tauri/src/cli_accounts/live_sync.rs), the *)
(* account switch and the filing rules (cli_accounts/mod.rs, claude.rs,    *)
(* token_owner.rs), an isolated login (staging.rs) and the usage poll that *)
(* refreshes the tokens of accounts nobody is logged into                  *)
(* (commands/usage.rs).                                                    *)
(*                                                                         *)
(* The live login is two files that other processes write: the name in     *)
(* ~/.claude.json and the token in the credential store.  Every account    *)
(* has a stored copy of both.  A token is refreshed once; after that it is *)
(* spent and its successor works.  Whoever refreshes a token from a copy   *)
(* makes every other copy of it useless.  The program asks the provider    *)
(* whose token it is before it files one, and remembers the answer.        *)
(*                                                                         *)
(* One mutex serialises what changes the stored copies: the capture, the   *)
(* watcher's tick and the switch hold it for several steps, and job is the *)
(* one that does.  The CLI and the provider's answers know no mutex.       *)
(***************************************************************************)
EXTENDS Naturals

CONSTANTS
  Accounts,   \* of the provider; those with a stored copy are registered
  NoAccount,
  LoggedIn,   \* those that may be live when the program starts
  MaxTokens,  \* bound: tokens the provider issues for one account
  MaxOps,     \* bound: what the user, the CLI and the poll timer start
  Acts        \* which of them happen

ASSUME TokenAssumption ==
  /\ NoAccount \notin Accounts /\ LoggedIn \subseteq Accounts
  /\ MaxTokens \in Nat \ {0} /\ MaxOps \in Nat

\* Access and refresh token of one pair are one token here.
Tokens == Accounts \X (1..MaxTokens)
NoToken == <<NoAccount, 0>>
Owner(t) == t[1]

Copies == [name : Accounts, token : Tokens]
NoCopy == [name |-> NoAccount, token |-> NoToken]
Login(t) == [name |-> Owner(t), token |-> t]

VARIABLES
  \* Outside the program.
  live,      \* the two files of the live login
  cli,       \* the token a CLI process holds in memory
  pending,   \* the name a login has still to write
  issued,    \* tokens issued for each account
  spent,     \* tokens refreshed away
  \* On disk, under the mutex.
  snap,      \* the copy of each registered account
  orphans,   \* copies of logins that were not registered
  rejected,  \* accounts marked: the provider refused to refresh the copy
  foreign,   \* accounts marked: the copy holds somebody else's token
  \* In memory.
  known,     \* tokens whose owner is remembered
  moved,     \* the watched files differ from the stamps of the two readers
  watch,     \* the watcher thread
  job,       \* the holder of the mutex
  use,       \* the usage poll, at the row of one account
  ops        \* how much has been started

outside == <<live, cli, pending, issued, spent>>
stored == <<snap, orphans, rejected, foreign>>
vars == <<outside, stored, known, moved, watch, job, use, ops>>

Watchers == [at : {"top", "asking", "sync"}, unverified : BOOLEAN,
             token : Tokens \cup {NoToken}]

\* id is the name a job took the login for, text the name it will save.
Jobs == [at : {"free", "token", "text", "id", "file", "load", "put_token", "put_name"},
         by : {"nobody", "watch", "register", "recapture", "user", "switch"},
         id : Accounts \cup {NoAccount}, token : Tokens \cup {NoToken},
         text : Accounts \cup {NoAccount}, target : Accounts \cup {NoAccount},
         original : Tokens \cup {NoToken}]
Free == [at |-> "free", by |-> "nobody", id |-> NoAccount, token |-> NoToken,
         text |-> NoAccount, target |-> NoAccount, original |-> NoToken]

Uses == [at : {"idle", "source", "gate", "check", "shares", "ask", "write", "flag",
               "recapture", "capture", "mark"},
         row : Accounts \cup {NoAccount}, token : Tokens \cup {NoToken},
         next : Tokens \cup {NoToken}, refreshed : BOOLEAN, marked : BOOLEAN]
Idle == [at |-> "idle", row |-> NoAccount, token |-> NoToken, next |-> NoToken,
         refreshed |-> FALSE, marked |-> FALSE]

TypeOK ==
  /\ live \in [name : Accounts \cup {NoAccount}, token : Tokens \cup {NoToken}]
  /\ cli \in Tokens \cup {NoToken}
  /\ pending \in Accounts \cup {NoAccount}
  /\ issued \in [Accounts -> 1..MaxTokens]
  /\ spent \subseteq Tokens /\ known \subseteq Tokens
  /\ snap \in [Accounts -> Copies \cup {NoCopy}]
  /\ orphans \subseteq Copies
  /\ rejected \subseteq Accounts /\ foreign \subseteq Accounts
  /\ moved \in [sync : BOOLEAN, warm : BOOLEAN]
  /\ watch \in Watchers /\ job \in Jobs /\ use \in Uses
  /\ ops \in 0..MaxOps
  /\ job.at \in {"text", "id", "file"} => job.token \in Tokens
  /\ use.at \in {"gate", "check", "shares", "ask", "write"} => use.token \in Tokens

-----------------------------------------------------------------------------
(* The stored copies and the rules by which a login is filed *)

Registered(a) == snap[a] # NoCopy

\* Its owner is remembered, or the provider can say: the token works.
Answerable(t) == t \in known \/ t \notin spent

\* What the owner of the token says about a login that claims to be id.
Verdict(id, t) ==
  IF t \notin known THEN "unverified" ELSE IF Owner(t) = id THEN "matches" ELSE "foreign"

\* (Mutant: the name in the copy is not compared.)
FilingOnce(id, text, t) ==
  CASE Verdict(id, t) = "unverified" -> "unverified"
    [] Verdict(id, t) = "matches" -> "claimed"
    [] Verdict(id, t) = "foreign" -> IF Registered(Owner(t)) THEN "to_owner" ELSE "foreign"

\* Where a captured login belongs.  The name was read twice.
Filing(id, text, t) ==
  CASE text # id \/ Verdict(id, t) = "unverified" -> "unverified"
    [] text = id /\ Verdict(id, t) = "matches" -> "claimed"
    [] text = id /\ Verdict(id, t) = "foreign" ->
         IF Registered(Owner(t)) THEN "to_owner" ELSE "foreign"

\* The copy of a is replaced, and what was noted about the old one with it.
Filed(a, copy) ==
  /\ snap' = [snap EXCEPT ![a] = copy]
  /\ rejected' = rejected \ {a}
  /\ foreign' = foreign \ {a}

\* Only the credentials move; the copy must name the owner itself.
Replaceable(t) == snap[Owner(t)].name = Owner(t)
Replaced(t) == Filed(Owner(t), [snap[Owner(t)] EXCEPT !.token = t])

\* The files of the live login are written: both readers will see it.
Wrote(login) ==
  /\ live' = login
  /\ moved' = [sync |-> TRUE, warm |-> TRUE]

\* (Mutant: the stamps are kept.)
Remembered == moved

\* The stamps are dropped, so that the next tick looks again.
Forgotten == [moved EXCEPT !.sync = TRUE]

Fresh(a) == <<a, issued[a] + 1>>
MayIssue(a) == issued[a] < MaxTokens
Issued(a) == issued' = [issued EXCEPT ![a] = @ + 1]

Started(act) == act \in Acts /\ ops < MaxOps /\ ops' = ops + 1

\* The program starts beside a live login and a CLI that runs with it.  Any
\* account may be stored, by an earlier version perhaps, which filed by the name
\* alone.  Accounts are interchangeable: it need not try every one.
Init ==
  /\ \E a \in LoggedIn :
       /\ live = Login(<<a, 1>>)
       /\ snap \in [Accounts -> Copies \cup {NoCopy}]
       /\ \A b \in Accounts :
            snap[b] \in {NoCopy, Login(<<b, 1>>), Login(<<a, 1>>), [Login(<<a, 1>>) EXCEPT !.name = b]}
  /\ cli = live.token /\ pending = NoAccount
  /\ issued = [a \in Accounts |-> 1]
  /\ spent = {} /\ orphans = {} /\ rejected = {} /\ foreign = {} /\ known = {}
  /\ moved = [sync |-> TRUE, warm |-> TRUE]
  /\ watch = [at |-> "top", unverified |-> TRUE, token |-> NoToken]
  /\ job = Free /\ use = Idle /\ ops = 0

-----------------------------------------------------------------------------
(* The CLI, a login and the provider, as far as they reach these files *)

\* A CLI process starts with the live token; it keeps it when the files change.
CliStart ==
  /\ Started("cli")
  /\ live.token # NoToken /\ cli' = live.token
  /\ UNCHANGED <<live, pending, issued, spent, stored, known, moved, watch, job, use>>

\* It refreshes what it holds and writes the token, never the name.
CliRotate ==
  /\ cli \notin spent \cup {NoToken} /\ MayIssue(Owner(cli))
  /\ Issued(Owner(cli)) /\ spent' = spent \cup {cli}
  /\ cli' = Fresh(Owner(cli))
  /\ Wrote([live EXCEPT !.token = Fresh(Owner(cli))])
  /\ UNCHANGED <<pending, stored, known, watch, job, use, ops>>

\* A login writes the token first, then the name.
CliLogin(a) ==
  /\ Started("login")
  /\ MayIssue(a) /\ Issued(a) /\ pending = NoAccount /\ pending' = a
  /\ Wrote([live EXCEPT !.token = Fresh(a)])
  /\ UNCHANGED <<cli, spent, stored, known, watch, job, use>>

CliNames ==
  /\ pending # NoAccount /\ pending' = NoAccount
  /\ Wrote([live EXCEPT !.name = pending])
  /\ UNCHANGED <<cli, issued, spent, stored, known, watch, job, use, ops>>

\* The name may stay behind.
CliLogout ==
  /\ Started("logout")
  /\ live.token # NoToken
  /\ \E name \in {live.name, NoAccount} : Wrote([name |-> name, token |-> NoToken])
  /\ UNCHANGED <<cli, pending, issued, spent, stored, known, watch, job, use>>

-----------------------------------------------------------------------------
(* The watcher: one loop of prewarm and tick *)

\* The owner of a new live token is asked for, outside the mutex.
WatchWarm ==
  /\ watch.at = "top" /\ job.by \notin {"watch", "register"}
  /\ moved' = [moved EXCEPT !.warm = FALSE]
  /\ watch' =
       IF (moved.warm \/ watch.unverified) /\ live.token \notin known \cup {NoToken}
       THEN [watch EXCEPT !.at = "asking", !.token = live.token]
       ELSE [watch EXCEPT !.at = "sync", !.unverified = FALSE]
  /\ UNCHANGED <<outside, stored, known, job, use, ops>>

\* The provider knows the owner of a token that works.
WatchAnswered ==
  /\ watch.at = "asking" /\ Answerable(watch.token)
  /\ known' = known \cup {watch.token}
  /\ watch' = [at |-> "sync", unverified |-> FALSE, token |-> NoToken]
  /\ UNCHANGED <<outside, stored, moved, job, use, ops>>

\* Without an answer the next round asks again.
WatchUnanswered ==
  /\ watch.at = "asking"
  /\ watch' = [at |-> "sync", unverified |-> TRUE, token |-> NoToken]
  /\ UNCHANGED <<outside, stored, known, moved, job, use, ops>>

\* Nothing moved, or the mutex is taken: the next round looks again.
WatchSkip ==
  /\ watch.at = "sync" /\ (~moved.sync \/ job.at # "free")
  /\ watch' = [watch EXCEPT !.at = "top"]
  /\ UNCHANGED <<outside, stored, known, moved, job, use, ops>>

\* The tick takes the mutex, notes the stamps and reads the name.
WatchEnter ==
  /\ watch.at = "sync" /\ moved.sync /\ job.at = "free"
  /\ moved' = [moved EXCEPT !.sync = FALSE]
  /\ watch' = [watch EXCEPT !.at = "top"]
  /\ job' = IF live.name = NoAccount THEN Free
            ELSE [Free EXCEPT !.at = "token", !.by = "watch", !.id = live.name]
  /\ UNCHANGED <<outside, stored, known, use, ops>>

\* What the tick captured is filed, or looked at again later.
WatchFile ==
  /\ job.at = "file" /\ job.by = "watch"
  /\ \/ /\ Filing(job.id, job.text, job.token) = "claimed" /\ Registered(job.id)
        /\ Filed(job.id, [name |-> job.text, token |-> job.token])
        /\ job' = Free /\ UNCHANGED moved
     \/ /\ Filing(job.id, job.text, job.token) = "claimed" /\ ~Registered(job.id)
        /\ job' = [Free EXCEPT !.at = "token", !.by = "register"]
        /\ UNCHANGED <<snap, rejected, foreign, moved>>
     \/ /\ Filing(job.id, job.text, job.token) = "to_owner" /\ Replaceable(job.token)
        /\ Replaced(job.token)
        /\ job' = Free /\ UNCHANGED moved
     \/ /\ Filing(job.id, job.text, job.token) = "foreign"
        /\ job' = Free /\ UNCHANGED <<snap, rejected, foreign, moved>>
     \/ /\ \/ Filing(job.id, job.text, job.token) = "unverified"
           \/ Filing(job.id, job.text, job.token) = "to_owner" /\ ~Replaceable(job.token)
        /\ moved' = Forgotten
        /\ job' = Free /\ UNCHANGED <<snap, rejected, foreign>>
  /\ UNCHANGED <<outside, orphans, known, watch, use, ops>>

-----------------------------------------------------------------------------
(* The captures: every holder of the mutex reads token and name in steps *)

\* A recapture that came to nothing: the account is marked, but only once.
NotRecaptured == IF use.marked THEN Idle ELSE [use EXCEPT !.at = "mark"]

\* A capture that does not succeed; the watcher looks again at some of its own.
CaptureFailed(retry) ==
  /\ job' = Free
  /\ moved' = IF job.by \in retry THEN Forgotten ELSE moved
  /\ use' = IF job.by = "recapture" THEN NotRecaptured ELSE use

\* (Mutant: a missing token is captured.)
JobTokenBlind ==
  /\ job.at = "token"
  /\ job' = [job EXCEPT !.at = "text", !.token = live.token]
  /\ UNCHANGED <<outside, stored, known, moved, watch, use, ops>>

\* Without a token nobody is logged in: that ends a tick, a capture, a switch.
JobToken ==
  /\ job.at = "token"
  /\ \/ /\ live.token # NoToken
        /\ job' = [job EXCEPT !.at = "text", !.token = live.token]
        /\ UNCHANGED <<moved, use>>
     \/ /\ live.token = NoToken /\ CaptureFailed({"register"})
  /\ UNCHANGED <<outside, stored, known, watch, ops>>

\* A capture of its own reads the name twice, the others have read it before.
JobText ==
  /\ job.at = "text"
  /\ \/ /\ live.name # NoAccount
        /\ job' = [job EXCEPT !.text = live.name,
                              !.at = IF job.by \in {"watch", "switch"} THEN "file" ELSE "id"]
        /\ UNCHANGED <<moved, use>>
     \/ /\ live.name = NoAccount /\ CaptureFailed({"watch", "register"})
  /\ UNCHANGED <<outside, stored, known, watch, ops>>

CaptureIdentity ==
  /\ job.at = "id"
  /\ job' = [job EXCEPT !.id = live.name, !.at = "file"]
  /\ UNCHANGED <<outside, stored, known, moved, watch, use, ops>>

\* The account is registered by its first copy.  Only an owner that is known
\* and agrees with both names will do.
CaptureSave ==
  /\ job.at = "file" /\ job.by \in {"register", "recapture", "user"}
  /\ \/ /\ Filing(job.id, job.text, job.token) = "claimed"
        /\ Filed(job.id, [name |-> job.text, token |-> job.token])
        /\ use' = IF job.by = "recapture" THEN Idle ELSE use
        /\ job' = Free /\ UNCHANGED moved
     \/ /\ Filing(job.id, job.text, job.token) # "claimed"
        /\ CaptureFailed({"register"}) /\ UNCHANGED <<snap, rejected, foreign>>
  /\ UNCHANGED <<outside, orphans, known, watch, ops>>

\* The user registers the live login.
UserCapture ==
  /\ Started("capture")
  /\ job.at = "free" /\ job' = [Free EXCEPT !.at = "token", !.by = "user"]
  /\ UNCHANGED <<outside, stored, known, moved, watch, use>>

\* A login into a directory of its own: one process wrote name and token, so
\* the copy is saved although nobody has asked for its owner.
StagedLogin(a) ==
  /\ Started("staged")
  /\ job.at = "free" /\ MayIssue(a) /\ Issued(a)
  /\ Filed(a, Login(Fresh(a)))
  /\ UNCHANGED <<live, cli, pending, spent, orphans, known, moved, watch, job, use>>

\* The user registers or discards a copy that was set aside, or removes one.
ResolveOrphan(o) ==
  /\ Started("manage")
  /\ job.at = "free" /\ o \in orphans /\ orphans' = orphans \ {o}
  /\ \/ UNCHANGED snap
     \/ ~Registered(o.name) /\ snap' = [snap EXCEPT ![o.name] = o]
  /\ UNCHANGED <<outside, rejected, foreign, known, moved, watch, job, use>>

Remove(a) ==
  /\ Started("manage")
  /\ job.at = "free" /\ Registered(a)
  /\ Filed(a, NoCopy)
  /\ UNCHANGED <<outside, orphans, known, moved, watch, job, use>>

-----------------------------------------------------------------------------
(* The switch: it files the live login and restores the copy of the target *)

SwitchBegin(a) ==
  /\ Started("switch")
  /\ job.at = "free" /\ Registered(a)
  /\ job' = [Free EXCEPT !.at = IF live.name = NoAccount THEN "load" ELSE "token",
                         !.by = "switch", !.id = live.name, !.target = a]
  /\ UNCHANGED <<outside, stored, known, moved, watch, use>>

\* What cannot be filed is given up with a warning.
SwitchFile ==
  /\ job.at = "file" /\ job.by = "switch"
  /\ \/ /\ Filing(job.id, job.text, job.token) = "claimed" /\ Registered(job.id)
        /\ Filed(job.id, [name |-> job.text, token |-> job.token])
        /\ UNCHANGED orphans
     \/ /\ Filing(job.id, job.text, job.token) = "claimed" /\ ~Registered(job.id)
        /\ orphans' = orphans \cup {[name |-> job.text, token |-> job.token]}
        /\ UNCHANGED <<snap, rejected, foreign>>
     \/ /\ Filing(job.id, job.text, job.token) = "to_owner" /\ Replaceable(job.token)
        /\ Replaced(job.token) /\ UNCHANGED orphans
     \/ /\ \/ Filing(job.id, job.text, job.token) \in {"foreign", "unverified"}
           \/ Filing(job.id, job.text, job.token) = "to_owner" /\ ~Replaceable(job.token)
        /\ UNCHANGED stored
  /\ job' = [Free EXCEPT !.at = "load", !.by = "switch", !.target = job.target]
  /\ UNCHANGED <<outside, known, moved, watch, use, ops>>

\* A copy that is marked, or turns out to hold somebody else's token, is refused.
SwitchLoad ==
  LET t == snap[job.target].token IN
  /\ job.at = "load"
  /\ foreign' = IF Verdict(job.target, t) = "foreign" THEN foreign \cup {job.target} ELSE foreign
  /\ job' = IF job.target \in foreign' THEN Free ELSE [job EXCEPT !.at = "put_token"]
  /\ UNCHANGED <<outside, snap, orphans, rejected, known, moved, watch, use, ops>>

SwitchPutToken ==
  /\ job.at = "put_token"
  /\ Wrote([live EXCEPT !.token = snap[job.target].token])
  /\ job' = [job EXCEPT !.at = "put_name", !.original = live.token]
  /\ UNCHANGED <<cli, pending, issued, spent, stored, known, watch, use, ops>>

\* If the name cannot be written the token is put back.
SwitchPutName ==
  /\ job.at = "put_name"
  /\ \/ Wrote([live EXCEPT !.name = snap[job.target].name])
     \/ "unwritable" \in Acts /\ Wrote([live EXCEPT !.token = job.original])
  /\ job' = Free
  /\ UNCHANGED <<cli, pending, issued, spent, stored, known, watch, use, ops>>

-----------------------------------------------------------------------------
(* The usage poll *)

\* The poll asks whose token is live, to show its numbers at the active row.
UseLive ==
  /\ Started("usage")
  /\ use.at = "idle" /\ live.token \notin spent \cup {NoToken}
  /\ known' = known \cup {live.token}
  /\ UNCHANGED <<outside, stored, moved, watch, job, use>>

\* A row that nobody is logged into, when the rows are planned.
UsePlan(a) ==
  /\ Started("usage")
  /\ use.at = "idle" /\ Registered(a) /\ live.name # a /\ a \notin rejected \cup foreign
  /\ use' = [Idle EXCEPT !.at = "source", !.row = a]
  /\ UNCHANGED <<outside, stored, known, moved, watch, job>>

\* Its copy is read; whether its clock has run out is not modelled.
UseSource ==
  /\ use.at = "source"
  /\ \E next \in {"gate", "check"} :
       use' = IF Registered(use.row)
              THEN [use EXCEPT !.at = next, !.token = snap[use.row].token]
              ELSE Idle
  /\ UNCHANGED <<outside, stored, known, moved, watch, job, ops>>

\* Numbers are fetched for the owner of the row only.  A token that is refused
\* is refreshed, once.
UseGate ==
  /\ use.at = "gate"
  /\ \/ /\ Answerable(use.token)
        /\ known' = known \cup {use.token}
        /\ \/ Owner(use.token) = use.row /\ use' = Idle
           \/ Owner(use.token) = use.row /\ ~use.refreshed /\ use' = [use EXCEPT !.at = "check"]
           \/ Owner(use.token) # use.row /\ use' = [Idle EXCEPT !.at = "flag", !.row = use.row]
     \/ /\ use.token \notin known /\ UNCHANGED known
        /\ use' \in {Idle} \cup (IF use.refreshed THEN {} ELSE {[use EXCEPT !.at = "check"]})
  /\ UNCHANGED <<outside, stored, moved, watch, job, ops>>

UseFlag ==
  /\ use.at = "flag" /\ job.at = "free"
  /\ foreign' = IF Registered(use.row) THEN foreign \cup {use.row} ELSE foreign
  /\ use' = Idle
  /\ UNCHANGED <<outside, snap, orphans, rejected, known, moved, watch, job, ops>>

\* Right before the refresh the live name is read again, then the live token.
UseCheck ==
  /\ use.at = "check"
  /\ use' = IF live.name = use.row THEN Idle ELSE [use EXCEPT !.at = "shares"]
  /\ UNCHANGED <<outside, stored, known, moved, watch, job, ops>>

UseShares ==
  /\ use.at = "shares"
  /\ use' = IF live.token = use.token THEN Idle ELSE [use EXCEPT !.at = "ask"]
  /\ UNCHANGED <<outside, stored, known, moved, watch, job, ops>>

\* The provider refreshes the token if it is not spent; the answer may be lost.
\* The successor has the same owner.
UseAsk ==
  /\ use.at = "ask"
  /\ \/ LET a == Owner(use.token) IN
        /\ use.token \notin spent /\ MayIssue(a) /\ Issued(a)
        /\ spent' = spent \cup {use.token}
        /\ \/ /\ known' = IF use.token \in known THEN known \cup {Fresh(a)} ELSE known
              /\ use' = [use EXCEPT !.at = "write", !.next = Fresh(a), !.refreshed = TRUE]
           \/ "lost" \in Acts /\ use' = Idle /\ UNCHANGED known
     \/ /\ use.token \in spent /\ use' = [Idle EXCEPT !.at = "recapture", !.row = use.row]
        /\ UNCHANGED <<issued, spent, known>>
     \/ use' = Idle /\ UNCHANGED <<issued, spent, known>>
  /\ UNCHANGED <<live, cli, pending, stored, moved, watch, job, ops>>

\* The successor is stored unless the copy has changed, and used after that.
UseWrite ==
  /\ use.at = "write" /\ job.at = "free"
  /\ \/ /\ Registered(use.row) /\ snap[use.row].token = use.token
        /\ snap' = [snap EXCEPT ![use.row].token = use.next]
        /\ use' = [use EXCEPT !.at = "gate", !.token = use.next, !.next = NoToken]
     \/ /\ snap[use.row].token # use.token
        /\ use' = Idle /\ UNCHANGED snap
  /\ UNCHANGED <<outside, orphans, rejected, foreign, known, moved, watch, job, ops>>

\* The refresh was refused.  If the account is live by now its login is
\* captured; if not it is marked, and looked at once more.
UseRecapture ==
  /\ use.at = "recapture"
  /\ \/ /\ live.name = use.row /\ live.token # NoToken
        /\ Answerable(live.token)
        /\ known' = known \cup {live.token}
        /\ use' = IF Owner(live.token) = use.row THEN [use EXCEPT !.at = "capture"] ELSE NotRecaptured
     \/ use' = NotRecaptured /\ UNCHANGED known
  /\ UNCHANGED <<outside, stored, moved, watch, job, ops>>

UseCapture ==
  /\ use.at = "capture" /\ job.at = "free"
  /\ job' = [Free EXCEPT !.at = "token", !.by = "recapture"]
  /\ UNCHANGED <<outside, stored, known, moved, watch, use, ops>>

UseMark ==
  /\ use.at = "mark" /\ job.at = "free"
  /\ rejected' = IF Registered(use.row) THEN rejected \cup {use.row} ELSE rejected
  /\ use' = [use EXCEPT !.at = "recapture", !.marked = TRUE]
  /\ UNCHANGED <<outside, snap, orphans, foreign, known, moved, watch, job, ops>>

-----------------------------------------------------------------------------
\* The process ends, whatever it was doing, and starts again.
Restart ==
  /\ Started("restart")
  /\ known' = {} /\ moved' = [sync |-> TRUE, warm |-> TRUE]
  /\ watch' = [at |-> "top", unverified |-> TRUE, token |-> NoToken]
  /\ job' = Free /\ use' = Idle
  /\ UNCHANGED <<outside, stored>>

Watching ==
  \/ WatchWarm \/ WatchAnswered \/ WatchUnanswered \/ WatchSkip \/ WatchEnter \/ WatchFile

Holding ==
  \/ WatchFile \/ JobToken \/ JobText \/ CaptureIdentity \/ CaptureSave
  \/ SwitchFile \/ SwitchLoad \/ SwitchPutToken \/ SwitchPutName

Next ==
  \/ CliStart \/ CliRotate \/ CliNames \/ CliLogout
  \/ Watching \/ Holding
  \/ UserCapture \/ UseLive \/ UseSource \/ UseGate \/ UseFlag \/ UseCheck \/ UseShares
  \/ UseAsk \/ UseWrite \/ UseRecapture \/ UseCapture \/ UseMark
  \/ \E a \in Accounts :
       CliLogin(a) \/ StagedLogin(a) \/ Remove(a) \/ SwitchBegin(a) \/ UsePlan(a)
  \/ \E o \in orphans : ResolveOrphan(o)
  \/ Restart

Spec == Init /\ [][Next]_vars

\* The watcher's loop goes on, whoever holds the mutex gives it back, and an
\* owner that is asked for again and again is answered sometime.  Nobody has to
\* log in or switch, and a poll may hang.
Fairness ==
  /\ WF_vars(Watching) /\ WF_vars(Holding)
  /\ SF_vars(WatchAnswered) /\ SF_vars(WatchEnter)

FairSpec == Spec /\ Fairness

-----------------------------------------------------------------------------
\* The copy of a is not a's: it names somebody else or holds their token.
Misfiled(a) == Registered(a) /\ (snap[a].name # a \/ Owner(snap[a].token) # a)

(* Whatever the CLI, logins, switches and refreshes do to the two files       *)
(* while they are read, no copy ever comes to pair an account with another    *)
(* name or somebody else's token; one that already does may stay.             *)
NeverMisfiled == [][\A a \in Accounts : Misfiled(a)' => Misfiled(a)]_vars

\* Somebody is logged in: name and token belong together, and the token works.
LoggedInNow == live.token \notin spent \cup {NoToken} /\ live.name = Owner(live.token)

(* A login that was written is found by the watcher and stored, unless it is  *)
(* undone or its token is spent before: however often the provider does not   *)
(* answer, another process writes while the watcher reads, the mutex is taken *)
(* or the program starts again.                                               *)
LiveIsFiled == LoggedInNow /\ moved.sync ~> (LoggedInNow => snap[live.name] = live)

(* "Never refresh an account the CLI is logged into" (usage/credentials.rs):  *)
(* no refresh spends the token that the live login goes on holding.           *)
NeverSpendsLive == [][\A t \in spent' \ spent : live'.token # t]_vars
=============================================================================
