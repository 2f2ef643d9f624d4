------------------------ MODULE AccountTokens_proofs ------------------------
(***************************************************************************)
(* Proofs about AccountTokens: its types, and that no stored copy comes to *)
(* pair an account with another name or somebody else's token.             *)
(***************************************************************************)
EXTENDS AccountTokens, TLAPS

-----------------------------------------------------------------------------
(* The inductive invariant *)

\* The target of a switch is an account, and only a switch restores a copy.
SwitchHasTarget ==
  /\ job.by = "switch" => job.target \in Accounts
  /\ job.at \in {"load", "put_token", "put_name"} => job.by = "switch"

\* The watcher asks for tokens, the poll is at the row of an account, and stays
\* there while its capture runs.
QuestionsNamed ==
  /\ watch.at = "asking" => watch.token \in Tokens
  /\ use.at # "idle" => use.row \in Accounts
  /\ job.by = "recapture" => use.at = "capture"

\* A refresh has not changed whose token it is.
SameLineage ==
  use.at = "write" => use.next \in Tokens /\ Owner(use.next) = Owner(use.token)

\* A copy is set aside under its owner's name only.
OrphansOwned == \A o \in orphans : o.name = Owner(o.token)

IInv == TypeOK /\ SwitchHasTarget /\ QuestionsNamed /\ SameLineage /\ OrphansOwned

-----------------------------------------------------------------------------
(* Tokens and copies *)

LEMMA Names == NoAccount \notin Accounts /\ NoToken \notin Tokens /\ NoCopy \notin Copies
  BY TokenAssumption DEF NoToken, Tokens, NoCopy, Copies

LEMMA TokenType ==
  ASSUME NEW t \in Tokens
  PROVE  Owner(t) \in Accounts /\ Login(t) \in Copies /\ Login(t).name = Owner(t)
                               /\ Login(t).token = t
  BY DEF Tokens, Owner, Login, Copies

LEMMA FreshType ==
  ASSUME NEW a \in Accounts, issued \in [Accounts -> 1..MaxTokens], MayIssue(a)
  PROVE  /\ Fresh(a) \in Tokens /\ Owner(Fresh(a)) = a
         /\ Issued(a) => issued' \in [Accounts -> 1..MaxTokens]
<1>1. MaxTokens \in Nat /\ issued[a] \in 1..MaxTokens /\ issued[a] < MaxTokens
  BY TokenAssumption DEF MayIssue
<1>2. issued[a] + 1 \in 1..MaxTokens
  BY <1>1
<1>3. Fresh(a) \in Tokens /\ Owner(Fresh(a)) = a
  BY <1>2 DEF Fresh, Tokens, Owner
<1> QED
  BY <1>2, <1>3 DEF Issued

LEMMA CopyType ==
  ASSUME NEW c \in Copies \cup {NoCopy}
  PROVE  /\ c # NoCopy => c.name \in Accounts /\ c.token \in Tokens
         /\ c.name \in Accounts \cup {NoAccount} /\ c.token \in Tokens \cup {NoToken}
         /\ c.name \in Accounts => c # NoCopy
         /\ \A t \in Tokens : c # NoCopy =>
              /\ [c EXCEPT !.token = t] \in Copies
              /\ [c EXCEPT !.token = t].name = c.name /\ [c EXCEPT !.token = t].token = t
         /\ \A a \in Accounts, t \in Tokens : [name |-> a, token |-> t] \in Copies
  BY Names DEF Copies, NoCopy

\* A login is filed as its own only when both names and the owner agree.
LEMMA ClaimedOwner ==
  ASSUME NEW id, NEW text, NEW t \in Tokens, Filing(id, text, t) = "claimed"
  PROVE  text = id /\ id \in Accounts /\ Owner(t) = id
  BY TokenType DEF Filing, Verdict

LEMMA OwnerRegistered ==
  ASSUME TypeOK, NEW t \in Tokens, Replaceable(t)
  PROVE  /\ Registered(Owner(t))
         /\ [snap[Owner(t)] EXCEPT !.token = t] \in Copies
         /\ [snap[Owner(t)] EXCEPT !.token = t].name = Owner(t)
         /\ [snap[Owner(t)] EXCEPT !.token = t].token = t
  BY CopyType, TokenType DEF TypeOK, Replaceable, Registered

LEMMA FiledType ==
  ASSUME TypeOK, NEW a \in Accounts, NEW c \in Copies \cup {NoCopy}, Filed(a, c)
  PROVE  /\ snap' \in [Accounts -> Copies \cup {NoCopy}]
         /\ rejected' \subseteq Accounts /\ foreign' \subseteq Accounts
  BY DEF TypeOK, Filed

-----------------------------------------------------------------------------
(* What a step may do to a copy *)

\* It leaves it, removes it, files a login under its owner's name, or replaces
\* a token by another one of the same owner.
FilesRight ==
  \A a \in Accounts :
    \/ snap'[a] \in {snap[a], NoCopy}
    \/ snap'[a].name = a /\ Owner(snap'[a].token) = a
    \/ /\ Registered(a)
       /\ snap'[a].name = snap[a].name /\ Owner(snap'[a].token) = Owner(snap[a].token)

LEMMA Unfiled == ASSUME UNCHANGED snap PROVE FilesRight
  BY DEF FilesRight

LEMMA FiledRight ==
  ASSUME TypeOK, NEW a \in Accounts, NEW c \in Copies \cup {NoCopy}, Filed(a, c),
         c = NoCopy \/ (c.name = a /\ Owner(c.token) = a)
  PROVE  FilesRight
  BY DEF TypeOK, Filed, FilesRight

\* A verified capture is filed under the name that owns its token.
LEMMA ClaimFiled ==
  ASSUME TypeOK, NEW id, NEW text, NEW t \in Tokens, Filing(id, text, t) = "claimed",
         Filed(id, [name |-> text, token |-> t])
  PROVE  /\ FilesRight
         /\ snap' \in [Accounts -> Copies \cup {NoCopy}]
         /\ rejected' \subseteq Accounts /\ foreign' \subseteq Accounts
<1> DEFINE c == [name |-> text, token |-> t]
<1>1. text = id /\ id \in Accounts /\ Owner(t) = id
  BY ClaimedOwner
<1>2. c \in Copies /\ c.name = id /\ Owner(c.token) = id
  BY <1>1 DEF Copies
<1> QED
  BY <1>1, <1>2, FiledRight, FiledType

\* A foreign token goes to the copy that names its owner.
LEMMA OwnerFiled ==
  ASSUME TypeOK, NEW t \in Tokens, Replaceable(t), Replaced(t)
  PROVE  /\ FilesRight
         /\ snap' \in [Accounts -> Copies \cup {NoCopy}]
         /\ rejected' \subseteq Accounts /\ foreign' \subseteq Accounts
<1> DEFINE c == [snap[Owner(t)] EXCEPT !.token = t]
<1>1. Owner(t) \in Accounts
  BY TokenType
<1>2. c \in Copies /\ c.name = Owner(t) /\ Owner(c.token) = Owner(t)
  BY OwnerRegistered
<1>3. Filed(Owner(t), c)
  BY DEF Replaced
<1> QED
  BY <1>1, <1>2, <1>3, FiledRight, FiledType

-----------------------------------------------------------------------------
(* The start *)

LEMMA InitTypes == ASSUME Init PROVE IInv
<1>1. PICK a \in LoggedIn : live = Login(<<a, 1>>)
  BY DEF Init
<1>2. a \in Accounts /\ \A b \in Accounts : <<b, 1>> \in Tokens
  BY TokenAssumption DEF Tokens
<1>3. live \in Copies /\ live.token \in Tokens
  BY <1>1, <1>2, TokenType
<1>4. live \in [name : Accounts \cup {NoAccount}, token : Tokens \cup {NoToken}]
  BY <1>3 DEF Copies
<1>5. issued \in [Accounts -> 1..MaxTokens] /\ ops \in 0..MaxOps
  BY TokenAssumption DEF Init
<1>6. Free \in Jobs /\ Idle \in Uses
  BY DEF Free, Jobs, Idle, Uses
<1>7. snap \in [Accounts -> Copies \cup {NoCopy}]
  BY DEF Init
<1>8. watch \in Watchers /\ moved \in [sync : BOOLEAN, warm : BOOLEAN]
  BY DEF Init, Watchers
<1>9. TypeOK
  BY <1>3, <1>4, <1>5, <1>6, <1>7, <1>8 DEF Init, TypeOK, Free, Idle
<1> QED
  BY <1>9 DEF Init, IInv, SwitchHasTarget, QuestionsNamed, SameLineage, OrphansOwned, Free, Idle

-----------------------------------------------------------------------------
(* The CLI and logins write outside the program *)

LEMMA StartedType == ASSUME TypeOK, NEW act, Started(act) PROVE ops' \in 0..MaxOps
  BY TokenAssumption DEF TypeOK, Started

LEMMA WroteType ==
  ASSUME TypeOK,
         NEW login \in [name : Accounts \cup {NoAccount}, token : Tokens \cup {NoToken}],
         Wrote(login)
  PROVE  /\ live' \in [name : Accounts \cup {NoAccount}, token : Tokens \cup {NoToken}]
         /\ moved' \in [sync : BOOLEAN, warm : BOOLEAN]
  BY DEF Wrote

\* Steps that leave the copies, the watcher, the mutex and the poll alone.
LEMMA OutsideKeeps ==
  ASSUME IInv, UNCHANGED <<stored, watch, job, use>>,
         live' \in [name : Accounts \cup {NoAccount}, token : Tokens \cup {NoToken}],
         cli' \in Tokens \cup {NoToken}, pending' \in Accounts \cup {NoAccount},
         issued' \in [Accounts -> 1..MaxTokens], spent' \subseteq Tokens, known' \subseteq Tokens,
         moved' \in [sync : BOOLEAN, warm : BOOLEAN], ops' \in 0..MaxOps
  PROVE  IInv' /\ FilesRight
<1>1. TypeOK'
  BY DEF IInv, TypeOK, stored
<1>2. SwitchHasTarget' /\ QuestionsNamed' /\ SameLineage' /\ OrphansOwned'
  BY DEF IInv, SwitchHasTarget, QuestionsNamed, SameLineage, OrphansOwned, stored
<1> QED
  BY <1>1, <1>2, Unfiled DEF IInv, stored

LEMMA LiveType ==
  ASSUME TypeOK
  PROVE  /\ live.name \in Accounts \cup {NoAccount} /\ live.token \in Tokens \cup {NoToken}
         /\ \A t \in Tokens \cup {NoToken} : [live EXCEPT !.token = t] \in
              [name : Accounts \cup {NoAccount}, token : Tokens \cup {NoToken}]
         /\ \A a \in Accounts \cup {NoAccount} : [live EXCEPT !.name = a] \in
              [name : Accounts \cup {NoAccount}, token : Tokens \cup {NoToken}]
  BY DEF TypeOK

LEMMA CliSteps ==
  ASSUME IInv, CliStart \/ CliRotate \/ CliNames \/ CliLogout \/ UseLive
                 \/ \E a \in Accounts : CliLogin(a)
  PROVE  IInv' /\ FilesRight
<1> USE DEF IInv
<1>1. CASE CliStart
  BY <1>1, OutsideKeeps, LiveType, StartedType DEF CliStart, TypeOK
<1>2. CASE CliRotate
  <2> DEFINE t == Fresh(Owner(cli))
  <2>1. cli \in Tokens /\ Owner(cli) \in Accounts
    BY <1>2, TokenType DEF CliRotate, TypeOK
  <2>2. t \in Tokens /\ issued' \in [Accounts -> 1..MaxTokens]
    BY <1>2, <2>1, FreshType DEF CliRotate, TypeOK
  <2>3. /\ live' \in [name : Accounts \cup {NoAccount}, token : Tokens \cup {NoToken}]
        /\ moved' \in [sync : BOOLEAN, warm : BOOLEAN]
    BY <1>2, <2>2, LiveType, WroteType DEF CliRotate
  <2> QED
    BY <1>2, <2>1, <2>2, <2>3, OutsideKeeps DEF CliRotate, TypeOK
<1>3. CASE CliNames
  <2>1. /\ live' \in [name : Accounts \cup {NoAccount}, token : Tokens \cup {NoToken}]
        /\ moved' \in [sync : BOOLEAN, warm : BOOLEAN]
    BY <1>3, LiveType, WroteType DEF CliNames, TypeOK
  <2> QED
    BY <1>3, <2>1, OutsideKeeps DEF CliNames, TypeOK
<1>4. CASE CliLogout
  <2>1. /\ live' \in [name : Accounts \cup {NoAccount}, token : Tokens \cup {NoToken}]
        /\ moved' \in [sync : BOOLEAN, warm : BOOLEAN]
    BY <1>4, LiveType, WroteType DEF CliLogout
  <2> QED
    BY <1>4, <2>1, OutsideKeeps, StartedType DEF CliLogout, TypeOK
<1>5. CASE UseLive
  BY <1>5, OutsideKeeps, LiveType, StartedType DEF UseLive, TypeOK, outside
<1>6. ASSUME NEW a \in Accounts, CliLogin(a) PROVE IInv' /\ FilesRight
  <2>1. Fresh(a) \in Tokens /\ issued' \in [Accounts -> 1..MaxTokens]
    BY <1>6, FreshType DEF CliLogin, TypeOK
  <2>2. /\ live' \in [name : Accounts \cup {NoAccount}, token : Tokens \cup {NoToken}]
        /\ moved' \in [sync : BOOLEAN, warm : BOOLEAN]
    BY <1>6, <2>1, LiveType, WroteType DEF CliLogin
  <2> QED
    BY <1>6, <2>1, <2>2, OutsideKeeps, StartedType DEF CliLogin, TypeOK
<1> QED
  BY <1>1, <1>2, <1>3, <1>4, <1>5, <1>6

-----------------------------------------------------------------------------
(* The watcher *)

LEMMA JobTypes ==
  /\ Free \in Jobs /\ Free.by = "nobody" /\ Free.at = "free"
  /\ \A j \in Jobs : [j EXCEPT !.at = "put_token"] \in Jobs /\ [j EXCEPT !.at = "text"] \in Jobs
  /\ \A j \in Jobs, t \in Tokens : [j EXCEPT !.at = "text", !.token = t] \in Jobs
  /\ \A j \in Jobs, a \in Accounts \cup {NoAccount} :
       /\ [j EXCEPT !.id = a, !.at = "file"] \in Jobs
       /\ \A at \in {"file", "id"} : [j EXCEPT !.text = a, !.at = at] \in Jobs
  /\ \A j \in Jobs, t \in Tokens \cup {NoToken} :
       [j EXCEPT !.at = "put_name", !.original = t] \in Jobs
  BY DEF Free, Jobs

LEMMA NewJobTypes ==
  /\ \A by \in {"register", "recapture", "user"} :
       [Free EXCEPT !.at = "token", !.by = by] \in Jobs
  /\ \A a \in Accounts \cup {NoAccount} :
       /\ [Free EXCEPT !.at = "token", !.by = "watch", !.id = a] \in Jobs
       /\ [Free EXCEPT !.at = "load", !.by = "switch", !.target = a] \in Jobs
       /\ \A b \in Accounts, at \in {"load", "token"} :
            [Free EXCEPT !.at = at, !.by = "switch", !.id = a, !.target = b] \in Jobs
  BY DEF Free, Jobs

\* Steps that leave the copies, the mutex and the poll alone.
LEMMA WatchKeeps ==
  ASSUME IInv, UNCHANGED <<outside, stored, job, use, ops>>,
         known' \subseteq Tokens, moved' \in [sync : BOOLEAN, warm : BOOLEAN],
         watch' \in Watchers, watch'.at = "asking" => watch'.token \in Tokens
  PROVE  IInv' /\ FilesRight
<1>1. TypeOK'
  BY DEF IInv, TypeOK, stored, outside
<1>2. SwitchHasTarget' /\ QuestionsNamed' /\ SameLineage' /\ OrphansOwned'
  BY DEF IInv, SwitchHasTarget, QuestionsNamed, SameLineage, OrphansOwned, stored
<1> QED
  BY <1>1, <1>2, Unfiled DEF IInv, stored

LEMMA WatchSteps ==
  ASSUME IInv, WatchWarm \/ WatchAnswered \/ WatchUnanswered \/ WatchSkip \/ WatchEnter
  PROVE  IInv' /\ FilesRight
<1> USE DEF IInv
<1>1. CASE WatchWarm
  <2>1. /\ [moved EXCEPT !.warm = FALSE] \in [sync : BOOLEAN, warm : BOOLEAN]
        /\ [watch EXCEPT !.at = "sync", !.unverified = FALSE] \in Watchers
        /\ [watch EXCEPT !.at = "sync", !.unverified = FALSE].at = "sync"
        /\ live.token \notin {NoToken} =>
             /\ [watch EXCEPT !.at = "asking", !.token = live.token] \in Watchers
             /\ [watch EXCEPT !.at = "asking", !.token = live.token].token \in Tokens
    BY LiveType DEF TypeOK, Watchers
  <2>2. watch' \in Watchers /\ (watch'.at = "asking" => watch'.token \in Tokens)
    BY <1>1, <2>1 DEF WatchWarm
  <2> QED
    BY <1>1, <2>1, <2>2, WatchKeeps DEF WatchWarm, TypeOK
<1>2. CASE WatchAnswered
  <2>1. known' \subseteq Tokens
    BY <1>2 DEF WatchAnswered, TypeOK, QuestionsNamed
  <2>2. watch' \in Watchers /\ watch'.at = "sync"
    BY <1>2 DEF WatchAnswered, Watchers
  <2> QED
    BY <1>2, <2>1, <2>2, WatchKeeps DEF WatchAnswered, TypeOK
<1>3. CASE WatchUnanswered
  <2>1. watch' \in Watchers /\ watch'.at = "sync"
    BY <1>3 DEF WatchUnanswered, Watchers
  <2> QED
    BY <1>3, <2>1, WatchKeeps DEF WatchUnanswered, TypeOK
<1>4. CASE WatchSkip
  <2>1. watch' \in Watchers /\ watch'.at = "top"
    BY <1>4 DEF WatchSkip, TypeOK, Watchers
  <2> QED
    BY <1>4, <2>1, WatchKeeps DEF WatchSkip, TypeOK
<1>5. CASE WatchEnter
  <2>1. /\ watch' \in Watchers /\ watch'.at = "top"
        /\ moved' \in [sync : BOOLEAN, warm : BOOLEAN]
    BY <1>5 DEF WatchEnter, TypeOK, Watchers
  <2>2. job' \in Jobs /\ job'.at \in {"free", "token"} /\ job'.by \in {"nobody", "watch"}
    <3>1. CASE live.name = NoAccount
      BY <1>5, <3>1, JobTypes DEF WatchEnter
    <3>2. CASE live.name # NoAccount
      <4> DEFINE j == [Free EXCEPT !.at = "token", !.by = "watch", !.id = live.name]
      <4>1. j \in Jobs
        BY LiveType, NewJobTypes
      <4>2. j.at = "token" /\ j.by = "watch"
        BY DEF Free
      <4> QED
        BY <1>5, <3>2, <4>1, <4>2 DEF WatchEnter
    <3> QED
      BY <3>1, <3>2
  <2>3. TypeOK'
    BY <1>5, <2>1, <2>2 DEF WatchEnter, TypeOK, stored, outside
  <2>4. SwitchHasTarget' /\ QuestionsNamed' /\ SameLineage' /\ OrphansOwned'
    BY <1>5, <2>1, <2>2 DEF WatchEnter, SwitchHasTarget, QuestionsNamed, SameLineage, OrphansOwned, stored
  <2> QED
    BY <1>5, <2>3, <2>4, Unfiled DEF WatchEnter, stored
<1> QED
  BY <1>1, <1>2, <1>3, <1>4, <1>5

-----------------------------------------------------------------------------
(* The holder of the mutex *)

LEMMA PollTypes ==
  ASSUME IInv
  PROVE  /\ Idle \in Uses /\ Idle.at = "idle"
         /\ use.at # "idle" =>
              /\ NotRecaptured \in Uses /\ NotRecaptured.at \in {"idle", "mark"}
              /\ NotRecaptured.at = "mark" => NotRecaptured.row \in Accounts
  BY DEF IInv, TypeOK, QuestionsNamed, NotRecaptured, Idle, Uses

\* Steps of the holder that change no more than the copies, the poll and the stamps.
LEMMA HolderKeeps ==
  ASSUME IInv, UNCHANGED <<outside, orphans, known, watch, ops>>,
         FilesRight, snap' \in [Accounts -> Copies \cup {NoCopy}],
         rejected' \subseteq Accounts, foreign' \subseteq Accounts,
         moved' \in [sync : BOOLEAN, warm : BOOLEAN],
         job' \in Jobs, SwitchHasTarget', job'.at \in {"text", "id", "file"} => job'.token \in Tokens,
         job'.by = "recapture" => use' = use /\ use.at = "capture",
         use' = use \/ (use.at = "capture" /\ use' \in {Idle, NotRecaptured})
  PROVE  IInv' /\ FilesRight
<1>1. /\ use' \in Uses
      /\ use'.at \in {"gate", "check", "shares", "ask", "write"} => use' = use
      /\ use'.at # "idle" => use'.row \in Accounts
  BY PollTypes DEF IInv, TypeOK, QuestionsNamed
<1>2. TypeOK'
  BY <1>1 DEF IInv, TypeOK, outside
<1>3. QuestionsNamed' /\ SameLineage' /\ OrphansOwned'
  BY <1>1 DEF IInv, QuestionsNamed, SameLineage, OrphansOwned
<1> QED
  BY <1>2, <1>3 DEF IInv

\* A capture that comes to nothing.
LEMMA FailureKeeps ==
  ASSUME IInv, NEW retry, CaptureFailed(retry), UNCHANGED <<outside, stored, known, watch, ops>>
  PROVE  IInv' /\ FilesRight
<1>1. job' = Free /\ job'.by = "nobody" /\ job'.at = "free" /\ job' \in Jobs
  BY JobTypes DEF CaptureFailed
<1>2. SwitchHasTarget'
  BY <1>1 DEF SwitchHasTarget
<1>3. moved' \in [sync : BOOLEAN, warm : BOOLEAN]
  BY DEF CaptureFailed, Forgotten, IInv, TypeOK
<1>4. use' = use \/ (use.at = "capture" /\ use' \in {Idle, NotRecaptured})
  BY DEF CaptureFailed, IInv, QuestionsNamed
<1>5. FilesRight /\ snap' \in [Accounts -> Copies \cup {NoCopy}]
        /\ rejected' \subseteq Accounts /\ foreign' \subseteq Accounts
  BY Unfiled DEF stored, IInv, TypeOK
<1> QED
  BY <1>1, <1>2, <1>3, <1>4, <1>5, HolderKeeps DEF stored

LEMMA WatchFileKeeps == ASSUME IInv, WatchFile PROVE IInv' /\ FilesRight
<1> DEFINE n == Filing(job.id, job.text, job.token)
<1> USE DEF IInv
<1>1. job.token \in Tokens /\ job.by = "watch" /\ use' = use
  BY DEF WatchFile, TypeOK
<1>2. /\ job' \in Jobs /\ SwitchHasTarget' /\ job'.by # "recapture"
      /\ job'.at \notin {"text", "id", "file"}
  <2>1. /\ [Free EXCEPT !.at = "token", !.by = "register"] \in Jobs
        /\ [Free EXCEPT !.at = "token", !.by = "register"].at = "token"
        /\ [Free EXCEPT !.at = "token", !.by = "register"].by = "register"
    BY NewJobTypes DEF Free
  <2>2. job' \in {Free, [Free EXCEPT !.at = "token", !.by = "register"]}
    BY DEF WatchFile
  <2> QED
    BY <2>1, <2>2, JobTypes DEF SwitchHasTarget
<1>3. moved' \in [sync : BOOLEAN, warm : BOOLEAN]
  BY DEF WatchFile, Forgotten, TypeOK
<1>4. /\ FilesRight /\ snap' \in [Accounts -> Copies \cup {NoCopy}]
      /\ rejected' \subseteq Accounts /\ foreign' \subseteq Accounts
  <2>1. CASE n = "claimed" /\ Filed(job.id, [name |-> job.text, token |-> job.token])
    BY <1>1, <2>1, ClaimFiled
  <2>2. CASE Replaceable(job.token) /\ Replaced(job.token)
    BY <1>1, <2>2, OwnerFiled
  <2>3. CASE UNCHANGED <<snap, rejected, foreign>>
    BY <2>3, Unfiled DEF TypeOK
  <2> QED
    BY <2>1, <2>2, <2>3 DEF WatchFile
<1> QED
  BY <1>1, <1>2, <1>3, <1>4, HolderKeeps DEF WatchFile

LEMMA JobTokenKeeps == ASSUME IInv, JobToken PROVE IInv' /\ FilesRight
<1>1. CASE live.token # NoToken /\ job' = [job EXCEPT !.at = "text", !.token = live.token]
             /\ UNCHANGED <<moved, use>>
  <2>1. live.token \in Tokens /\ job \in Jobs
    BY <1>1, LiveType DEF IInv, TypeOK
  <2>2. job' \in Jobs /\ job'.at = "text" /\ job'.token \in Tokens
          /\ job'.by = job.by /\ job'.target = job.target
    BY <1>1, <2>1 DEF Jobs
  <2>3. SwitchHasTarget'
    BY <2>2 DEF IInv, SwitchHasTarget
  <2> QED
    BY <1>1, <2>2, <2>3, HolderKeeps, Unfiled DEF JobToken, stored, IInv, TypeOK, QuestionsNamed
<1> QED
  BY <1>1, FailureKeeps DEF JobToken

LEMMA JobTextKeeps == ASSUME IInv, JobText PROVE IInv' /\ FilesRight
<1>1. CASE /\ live.name # NoAccount /\ UNCHANGED <<moved, use>>
           /\ job' = [job EXCEPT !.text = live.name,
                                 !.at = IF job.by \in {"watch", "switch"} THEN "file" ELSE "id"]
  <2>1. live.name \in Accounts /\ job \in Jobs /\ job.token \in Tokens
    BY <1>1, LiveType DEF IInv, TypeOK, JobText
  <2>2. job' \in Jobs /\ job'.at \in {"id", "file"} /\ job'.token = job.token
          /\ job'.by = job.by /\ job'.target = job.target
    BY <1>1, <2>1 DEF Jobs
  <2>3. SwitchHasTarget'
    BY <2>2 DEF IInv, SwitchHasTarget
  <2> QED
    BY <1>1, <2>1, <2>2, <2>3, HolderKeeps, Unfiled DEF JobText, stored, IInv, TypeOK, QuestionsNamed
<1> QED
  BY <1>1, FailureKeeps DEF JobText

LEMMA IdentityKeeps == ASSUME IInv, CaptureIdentity PROVE IInv' /\ FilesRight
<1>1. live.name \in Accounts \cup {NoAccount} /\ job \in Jobs /\ job.token \in Tokens
  BY LiveType DEF IInv, TypeOK, CaptureIdentity
<1>2. job' \in Jobs /\ job'.at = "file" /\ job'.token = job.token
        /\ job'.by = job.by /\ job'.target = job.target
  BY <1>1 DEF Jobs, CaptureIdentity
<1>3. SwitchHasTarget'
  BY <1>2 DEF IInv, SwitchHasTarget
<1> QED
  BY <1>1, <1>2, <1>3, HolderKeeps, Unfiled
  DEF CaptureIdentity, stored, IInv, TypeOK, QuestionsNamed

LEMMA CaptureSaveKeeps == ASSUME IInv, CaptureSave PROVE IInv' /\ FilesRight
<1> DEFINE n == Filing(job.id, job.text, job.token)
<1>1. CASE /\ n = "claimed" /\ Filed(job.id, [name |-> job.text, token |-> job.token])
           /\ use' = IF job.by = "recapture" THEN Idle ELSE use
           /\ job' = Free /\ UNCHANGED moved
  <2>1. job.token \in Tokens
    BY DEF CaptureSave, IInv, TypeOK
  <2>2. /\ FilesRight /\ snap' \in [Accounts -> Copies \cup {NoCopy}]
        /\ rejected' \subseteq Accounts /\ foreign' \subseteq Accounts
    BY <1>1, <2>1, ClaimFiled DEF IInv
  <2>3. job' \in Jobs /\ job'.at = "free" /\ job'.by = "nobody" /\ SwitchHasTarget'
    BY <1>1, JobTypes DEF SwitchHasTarget
  <2>4. use' = use \/ (use.at = "capture" /\ use' \in {Idle, NotRecaptured})
    BY <1>1 DEF IInv, QuestionsNamed
  <2> QED
    BY <1>1, <2>2, <2>3, <2>4, HolderKeeps DEF CaptureSave, IInv, TypeOK
<1>2. CASE CaptureFailed({"register"}) /\ UNCHANGED <<snap, rejected, foreign>>
  BY <1>2, FailureKeeps DEF CaptureSave, stored
<1> QED
  BY <1>1, <1>2 DEF CaptureSave

\* The mutex is taken, or a job goes on; nothing else changes.
LEMMA JobKeeps ==
  ASSUME IInv, UNCHANGED <<outside, snap, orphans, rejected, known, moved, watch, use>>,
         foreign' \subseteq Accounts, ops' \in 0..MaxOps,
         job' \in Jobs, SwitchHasTarget', job'.at \notin {"text", "id", "file"},
         job'.by = "recapture" => use.at = "capture"
  PROVE  IInv' /\ FilesRight
<1>1. TypeOK'
  BY DEF IInv, TypeOK, outside
<1>2. QuestionsNamed' /\ SameLineage' /\ OrphansOwned'
  BY DEF IInv, QuestionsNamed, SameLineage, OrphansOwned
<1> QED
  BY <1>1, <1>2, Unfiled DEF IInv

LEMMA TakeSteps ==
  ASSUME IInv, UserCapture \/ UseCapture \/ \E a \in Accounts : SwitchBegin(a)
  PROVE  IInv' /\ FilesRight
<1> USE DEF IInv
<1>1. CASE UserCapture
  <2> DEFINE j == [Free EXCEPT !.at = "token", !.by = "user"]
  <2>1. j \in Jobs /\ j.at = "token" /\ j.by = "user"
    BY NewJobTypes DEF Free
  <2> QED
    BY <1>1, <2>1, JobKeeps, StartedType DEF UserCapture, SwitchHasTarget, stored, TypeOK
<1>2. CASE UseCapture
  <2> DEFINE j == [Free EXCEPT !.at = "token", !.by = "recapture"]
  <2>1. j \in Jobs /\ j.at = "token" /\ j.by = "recapture"
    BY NewJobTypes DEF Free
  <2> QED
    BY <1>2, <2>1, JobKeeps DEF UseCapture, SwitchHasTarget, stored, TypeOK
<1>3. ASSUME NEW a \in Accounts, SwitchBegin(a) PROVE IInv' /\ FilesRight
  <2> DEFINE at == IF live.name = NoAccount THEN "load" ELSE "token"
             j == [Free EXCEPT !.at = at, !.by = "switch", !.id = live.name, !.target = a]
  <2>1. j \in Jobs
    BY NewJobTypes, LiveType
  <2>2. j.at \in {"load", "token"} /\ j.by = "switch" /\ j.target = a
    BY DEF Free
  <2>3. job' = j
    BY <1>3 DEF SwitchBegin
  <2>4. SwitchHasTarget'
    BY <1>3, <2>2, <2>3 DEF SwitchHasTarget
  <2> HIDE DEF j
  <2> QED
    BY <1>3, <2>1, <2>2, <2>3, <2>4, JobKeeps, StartedType DEF SwitchBegin, stored, TypeOK
<1> QED
  BY <1>1, <1>2, <1>3

-----------------------------------------------------------------------------
(* The user manages the copies *)

\* The mutex is free: only the copies change.
LEMMA ManageKeeps ==
  ASSUME IInv, UNCHANGED <<live, cli, pending, spent, known, moved, watch, job, use>>,
         issued' \in [Accounts -> 1..MaxTokens], ops' \in 0..MaxOps,
         FilesRight, snap' \in [Accounts -> Copies \cup {NoCopy}], orphans' \subseteq orphans,
         rejected' \subseteq Accounts, foreign' \subseteq Accounts
  PROVE  IInv' /\ FilesRight
<1>1. TypeOK'
  BY DEF IInv, TypeOK
<1>2. SwitchHasTarget' /\ QuestionsNamed' /\ SameLineage' /\ OrphansOwned'
  BY DEF IInv, SwitchHasTarget, QuestionsNamed, SameLineage, OrphansOwned
<1> QED
  BY <1>1, <1>2 DEF IInv

LEMMA ManageSteps ==
  ASSUME IInv, \/ \E a \in Accounts : StagedLogin(a) \/ Remove(a)
               \/ \E o \in orphans : ResolveOrphan(o)
  PROVE  IInv' /\ FilesRight
<1> USE DEF IInv
<1>1. ASSUME NEW a \in Accounts, StagedLogin(a) PROVE IInv' /\ FilesRight
  <2> DEFINE c == Login(Fresh(a))
  <2>1. /\ issued' \in [Accounts -> 1..MaxTokens]
        /\ c \in Copies /\ c.name = a /\ Owner(c.token) = a
    BY <1>1, FreshType, TokenType DEF StagedLogin, TypeOK
  <2>2. Filed(a, c)
    BY <1>1 DEF StagedLogin
  <2> HIDE DEF c
  <2>3. /\ FilesRight /\ snap' \in [Accounts -> Copies \cup {NoCopy}]
        /\ rejected' \subseteq Accounts /\ foreign' \subseteq Accounts
    BY <2>1, <2>2, FiledRight, FiledType
  <2> QED
    BY <1>1, <2>1, <2>3, ManageKeeps, StartedType DEF StagedLogin
<1>2. ASSUME NEW a \in Accounts, Remove(a) PROVE IInv' /\ FilesRight
  <2>1. /\ FilesRight /\ snap' \in [Accounts -> Copies \cup {NoCopy}]
        /\ rejected' \subseteq Accounts /\ foreign' \subseteq Accounts
    BY <1>2, FiledRight, FiledType DEF Remove
  <2> QED
    BY <1>2, <2>1, ManageKeeps, StartedType DEF Remove, TypeOK, outside
<1>3. ASSUME NEW o \in orphans, ResolveOrphan(o) PROVE IInv' /\ FilesRight
  <2>1. o \in Copies /\ o.name \in Accounts /\ o.name = Owner(o.token)
    BY DEF TypeOK, Copies, OrphansOwned
  <2>2. /\ FilesRight /\ snap' \in [Accounts -> Copies \cup {NoCopy}]
    BY <1>3, <2>1 DEF ResolveOrphan, FilesRight, TypeOK
  <2> QED
    BY <1>3, <2>1, <2>2, ManageKeeps, StartedType DEF ResolveOrphan, TypeOK, outside
<1> QED
  BY <1>1, <1>2, <1>3

-----------------------------------------------------------------------------
(* The switch *)

LEMMA SwitchFileKeeps == ASSUME IInv, SwitchFile PROVE IInv' /\ FilesRight
<1> DEFINE n == Filing(job.id, job.text, job.token)
           j == [Free EXCEPT !.at = "load", !.by = "switch", !.target = job.target]
<1> USE DEF IInv
<1>1. job.token \in Tokens /\ job.target \in Accounts
  BY DEF SwitchFile, TypeOK, SwitchHasTarget
<1>2. j \in Jobs /\ j.at = "load" /\ j.by = "switch" /\ j.target = job.target
  BY <1>1, NewJobTypes DEF Free
<1>3. job' = j
  BY DEF SwitchFile
<1> HIDE DEF j
<1>4. /\ FilesRight /\ snap' \in [Accounts -> Copies \cup {NoCopy}]
      /\ rejected' \subseteq Accounts /\ foreign' \subseteq Accounts
  <2>1. CASE n = "claimed" /\ Filed(job.id, [name |-> job.text, token |-> job.token])
    BY <1>1, <2>1, ClaimFiled
  <2>2. CASE Replaceable(job.token) /\ Replaced(job.token)
    BY <1>1, <2>2, OwnerFiled
  <2>3. CASE UNCHANGED <<snap, rejected, foreign>>
    BY <2>3, Unfiled DEF TypeOK
  <2> QED
    BY <2>1, <2>2, <2>3 DEF SwitchFile, stored
<1>5. orphans' \subseteq Copies /\ OrphansOwned'
  <2> DEFINE c == [name |-> job.text, token |-> job.token]
  <2>1. CASE n = "claimed" /\ orphans' = orphans \cup {c}
    <3>1. job.text \in Accounts /\ Owner(job.token) = job.text
      BY <1>1, <2>1, ClaimedOwner
    <3>2. c \in Copies /\ c.name = Owner(c.token)
      BY <1>1, <3>1 DEF Copies
    <3> QED
      BY <2>1, <3>2 DEF TypeOK, OrphansOwned
  <2>2. CASE UNCHANGED orphans
    BY <2>2 DEF TypeOK, OrphansOwned
  <2> QED
    BY <2>1, <2>2 DEF SwitchFile, stored
<1>6. TypeOK'
  BY <1>2, <1>3, <1>4, <1>5 DEF SwitchFile, TypeOK, outside
<1>7. SwitchHasTarget' /\ QuestionsNamed' /\ SameLineage'
  BY <1>1, <1>2, <1>3 DEF SwitchFile, SwitchHasTarget, QuestionsNamed, SameLineage
<1> QED
  BY <1>4, <1>5, <1>6, <1>7

LEMMA SwitchLoadKeeps == ASSUME IInv, SwitchLoad PROVE IInv' /\ FilesRight
<1> USE DEF IInv
<1>1. job.by = "switch" /\ job.target \in Accounts /\ job \in Jobs
  BY DEF SwitchLoad, SwitchHasTarget, TypeOK
<1>2. foreign' \subseteq Accounts
  BY <1>1 DEF SwitchLoad, TypeOK
<1>3. job' = Free \/ job' = [job EXCEPT !.at = "put_token"]
  BY DEF SwitchLoad
<1>4. /\ job' \in Jobs /\ job'.at \in {"free", "put_token"} /\ job'.by \in {"nobody", "switch"}
      /\ SwitchHasTarget'
  BY <1>1, <1>3 DEF Free, Jobs, SwitchHasTarget
<1> QED
  BY <1>2, <1>4, JobKeeps DEF SwitchLoad, TypeOK

LEMMA SwitchPutKeeps == ASSUME IInv, SwitchPutToken \/ SwitchPutName PROVE IInv' /\ FilesRight
<1> USE DEF IInv
<1>1. job.by = "switch" /\ job.target \in Accounts /\ job \in Jobs
  BY DEF SwitchPutToken, SwitchPutName, SwitchHasTarget, TypeOK
<1>2. /\ snap[job.target].name \in Accounts \cup {NoAccount}
      /\ snap[job.target].token \in Tokens \cup {NoToken} /\ job.original \in Tokens \cup {NoToken}
  BY <1>1, CopyType DEF TypeOK, Jobs
<1>3. /\ live' \in [name : Accounts \cup {NoAccount}, token : Tokens \cup {NoToken}]
      /\ moved' \in [sync : BOOLEAN, warm : BOOLEAN]
  BY <1>2, LiveType, WroteType DEF SwitchPutToken, SwitchPutName
<1>4. /\ job' \in Jobs /\ SwitchHasTarget' /\ job'.at \notin {"text", "id", "file"}
      /\ job'.by # "recapture"
  <2>1. CASE job' = Free
    BY <2>1, JobTypes DEF SwitchHasTarget
  <2>2. CASE job' = [job EXCEPT !.at = "put_name", !.original = live.token]
    <3>1. live.token \in Tokens \cup {NoToken}
      BY LiveType
    <3> QED
      BY <1>1, <2>2, <3>1 DEF Jobs, SwitchHasTarget
  <2> QED
    BY <2>1, <2>2 DEF SwitchPutToken, SwitchPutName
<1>5. UNCHANGED <<cli, pending, issued, spent, stored, known, watch, use, ops>>
  BY DEF SwitchPutToken, SwitchPutName
<1>6. TypeOK'
  BY <1>3, <1>4, <1>5 DEF TypeOK, stored
<1>7. QuestionsNamed' /\ SameLineage' /\ OrphansOwned'
  BY <1>4, <1>5 DEF QuestionsNamed, SameLineage, OrphansOwned, stored
<1> QED
  BY <1>4, <1>5, <1>6, <1>7, Unfiled DEF stored

-----------------------------------------------------------------------------
(* The usage poll *)

\* What the poll may become.
PollNamed ==
  /\ use' \in Uses
  /\ use'.at # "idle" => use'.row \in Accounts
  /\ use'.at \in {"gate", "check", "shares", "ask", "write"} => use'.token \in Tokens
  /\ use'.at = "write" => use'.next \in Tokens /\ Owner(use'.next) = Owner(use'.token)

\* Steps of the poll, which waits for no capture.
LEMMA PollKeeps ==
  ASSUME IInv, UNCHANGED <<live, cli, pending, orphans, moved, watch, job>>,
         use.at # "capture", PollNamed,
         issued' \in [Accounts -> 1..MaxTokens], spent' \subseteq Tokens, known' \subseteq Tokens,
         FilesRight, snap' \in [Accounts -> Copies \cup {NoCopy}],
         rejected' \subseteq Accounts, foreign' \subseteq Accounts, ops' \in 0..MaxOps
  PROVE  IInv' /\ FilesRight
<1>1. TypeOK'
  BY DEF IInv, TypeOK, PollNamed
<1>2. SwitchHasTarget' /\ QuestionsNamed' /\ SameLineage' /\ OrphansOwned'
  BY DEF IInv, SwitchHasTarget, QuestionsNamed, SameLineage, OrphansOwned, PollNamed
<1> QED
  BY <1>1, <1>2 DEF IInv

LEMMA PollEnds ==
  ASSUME IInv, use' = Idle \/ (use.at # "idle" /\ use' = NotRecaptured)
  PROVE  PollNamed
  BY PollTypes DEF PollNamed

\* The poll goes on at the same row.
LEMMA PollGoesOn ==
  ASSUME IInv, use.at # "idle",
         NEW at \in {"gate", "check", "shares", "ask", "flag", "recapture", "capture", "mark"},
         use' = [use EXCEPT !.at = at],
         at \in {"gate", "check", "shares", "ask"} => use.token \in Tokens
  PROVE  PollNamed
  BY DEF IInv, TypeOK, QuestionsNamed, Uses, PollNamed

\* The poll is at the row, without a token.
LEMMA PollAtRow ==
  ASSUME NEW a \in Accounts, NEW at \in {"source", "flag", "recapture"},
         use' = [Idle EXCEPT !.at = at, !.row = a]
  PROVE  PollNamed
  BY DEF Idle, Uses, PollNamed

\* Steps that change neither the tokens nor the copies.
LEMMA PollReads ==
  ASSUME IInv, UNCHANGED <<outside, stored, moved, watch, job>>,
         use.at # "capture", PollNamed, known' \subseteq Tokens, ops' \in 0..MaxOps
  PROVE  IInv' /\ FilesRight
<1>1. /\ issued' \in [Accounts -> 1..MaxTokens] /\ spent' \subseteq Tokens
      /\ snap' \in [Accounts -> Copies \cup {NoCopy}]
      /\ rejected' \subseteq Accounts /\ foreign' \subseteq Accounts
  BY DEF IInv, TypeOK, outside, stored
<1> QED
  BY <1>1, PollKeeps, Unfiled DEF outside, stored

LEMMA PollReadSteps ==
  ASSUME IInv, \/ UseSource \/ UseGate \/ UseCheck \/ UseShares \/ UseRecapture
               \/ \E a \in Accounts : UsePlan(a)
  PROVE  IInv' /\ FilesRight
<1> USE DEF IInv
<1>1. ASSUME NEW a \in Accounts, UsePlan(a) PROVE IInv' /\ FilesRight
  BY <1>1, PollAtRow, PollReads, StartedType DEF UsePlan, TypeOK
<1>2. CASE UseSource
  <2>1. use.row \in Accounts
    BY <1>2 DEF UseSource, QuestionsNamed
  <2>2. CASE ~Registered(use.row)
    BY <1>2, <2>2, PollEnds, PollReads DEF UseSource, TypeOK
  <2>3. CASE Registered(use.row)
    <3>1. snap[use.row].token \in Tokens
      BY <2>1, <2>3, CopyType DEF TypeOK, Registered
    <3>2. PICK next \in {"gate", "check"} :
            use' = [use EXCEPT !.at = next, !.token = snap[use.row].token]
      BY <1>2, <2>3 DEF UseSource
    <3>3. PollNamed
      BY <2>1, <3>1, <3>2 DEF TypeOK, Uses, PollNamed
    <3> QED
      BY <1>2, <3>3, PollReads DEF UseSource, TypeOK
  <2> QED
    BY <2>2, <2>3
<1>3. CASE UseGate
  <2>1. use.token \in Tokens /\ use.row \in Accounts
    BY <1>3 DEF UseGate, TypeOK, QuestionsNamed
  <2>2. known' \subseteq Tokens
    BY <1>3, <2>1 DEF UseGate, TypeOK
  <2>3. \/ use' = Idle \/ use' = [use EXCEPT !.at = "check"]
        \/ use' = [Idle EXCEPT !.at = "flag", !.row = use.row]
    BY <1>3 DEF UseGate
  <2>4. PollNamed
    BY <1>3, <2>1, <2>3, PollEnds, PollGoesOn, PollAtRow DEF UseGate
  <2> QED
    BY <1>3, <2>2, <2>4, PollReads DEF UseGate, TypeOK
<1>4. CASE UseCheck
  <2>1. use.token \in Tokens /\ (use' = Idle \/ use' = [use EXCEPT !.at = "shares"])
    BY <1>4 DEF UseCheck, TypeOK
  <2>2. PollNamed
    BY <1>4, <2>1, PollEnds, PollGoesOn DEF UseCheck
  <2> QED
    BY <1>4, <2>2, PollReads DEF UseCheck, TypeOK
<1>5. CASE UseShares
  <2>1. use.token \in Tokens /\ (use' = Idle \/ use' = [use EXCEPT !.at = "ask"])
    BY <1>5 DEF UseShares, TypeOK
  <2>2. PollNamed
    BY <1>5, <2>1, PollEnds, PollGoesOn DEF UseShares
  <2> QED
    BY <1>5, <2>2, PollReads DEF UseShares, TypeOK
<1>6. CASE UseRecapture
  <2>1. known' \subseteq Tokens
    BY <1>6, LiveType DEF UseRecapture, TypeOK
  <2>2. use' = NotRecaptured \/ use' = [use EXCEPT !.at = "capture"]
    BY <1>6 DEF UseRecapture
  <2>3. PollNamed
    BY <1>6, <2>2, PollEnds, PollGoesOn DEF UseRecapture
  <2> QED
    BY <1>6, <2>1, <2>3, PollReads DEF UseRecapture, TypeOK
<1> QED
  BY <1>1, <1>2, <1>3, <1>4, <1>5, <1>6

LEMMA UseAskKeeps == ASSUME IInv, UseAsk PROVE IInv' /\ FilesRight
<1> DEFINE a == Owner(use.token)
<1> USE DEF IInv
<1>1. use.token \in Tokens /\ use.row \in Accounts /\ a \in Accounts /\ use.at = "ask"
  BY TokenType DEF UseAsk, TypeOK, QuestionsNamed
<1>2. CASE /\ use' = [Idle EXCEPT !.at = "recapture", !.row = use.row] \/ use' = Idle
           /\ UNCHANGED <<issued, spent, known>>
  <2>1. PollNamed
    BY <1>1, <1>2, PollEnds, PollAtRow
  <2> QED
    BY <1>1, <1>2, <2>1, PollReads DEF UseAsk, TypeOK, outside
<1>3. CASE /\ MayIssue(a) /\ Issued(a) /\ spent' = spent \cup {use.token}
           /\ \/ /\ known' = IF use.token \in known THEN known \cup {Fresh(a)} ELSE known
                 /\ use' = [use EXCEPT !.at = "write", !.next = Fresh(a), !.refreshed = TRUE]
              \/ use' = Idle /\ UNCHANGED known
  <2>1. Fresh(a) \in Tokens /\ Owner(Fresh(a)) = a /\ issued' \in [Accounts -> 1..MaxTokens]
    BY <1>1, <1>3, FreshType DEF TypeOK
  <2>2. known' \subseteq Tokens /\ spent' \subseteq Tokens
    BY <1>1, <1>3, <2>1 DEF TypeOK
  <2>3. ASSUME use' = [use EXCEPT !.at = "write", !.next = Fresh(a), !.refreshed = TRUE]
        PROVE  PollNamed
    <3> DEFINE f == Fresh(a)
    <3> HIDE DEF f
    <3>1. f \in Tokens /\ Owner(f) = Owner(use.token)
      BY <2>1 DEF f
    <3>2. use' = [use EXCEPT !.at = "write", !.next = f, !.refreshed = TRUE]
      BY <2>3 DEF f
    <3>3. /\ use' \in Uses /\ use'.at = "write"
          /\ use'.row = use.row /\ use'.token = use.token /\ use'.next = f
      BY <3>1, <3>2 DEF TypeOK, Uses
    <3> QED
      BY <1>1, <3>1, <3>3 DEF PollNamed
  <2>4. use' = Idle => PollNamed
    BY PollEnds
  <2>5. PollNamed
    BY <1>3, <2>3, <2>4
  <2> QED
    BY <1>1, <2>1, <2>2, <2>5, PollKeeps, Unfiled DEF UseAsk, TypeOK, stored
<1> QED
  BY <1>2, <1>3 DEF UseAsk

\* The successor replaces a token of the same owner.
LEMMA UseWriteKeeps == ASSUME IInv, UseWrite PROVE IInv' /\ FilesRight
<1> USE DEF IInv
<1>1. /\ use.row \in Accounts /\ use.token \in Tokens
      /\ use.next \in Tokens /\ Owner(use.next) = Owner(use.token)
  BY DEF UseWrite, TypeOK, QuestionsNamed, SameLineage
<1>2. CASE use' = Idle /\ UNCHANGED snap
  <2>1. PollNamed
    BY <1>2, PollEnds
  <2> QED
    BY <1>2, <2>1, PollReads DEF UseWrite, TypeOK, stored
<1>3. CASE /\ Registered(use.row) /\ snap[use.row].token = use.token
           /\ snap' = [snap EXCEPT ![use.row].token = use.next]
           /\ use' = [use EXCEPT !.at = "gate", !.token = use.next, !.next = NoToken]
  <2> DEFINE c == [snap[use.row] EXCEPT !.token = use.next]
  <2>1. c \in Copies /\ c.name = snap[use.row].name /\ c.token = use.next
    BY <1>1, <1>3, CopyType DEF TypeOK, Registered
  <2>2. snap' = [snap EXCEPT ![use.row] = c]
    BY <1>3
  <2> HIDE DEF c
  <2>3. FilesRight /\ snap' \in [Accounts -> Copies \cup {NoCopy}]
    BY <1>1, <1>3, <2>1, <2>2 DEF FilesRight, TypeOK
  <2>4. PollNamed
    BY <1>1, <1>3 DEF TypeOK, Uses, PollNamed
  <2> QED
    BY <2>3, <2>4, PollKeeps DEF UseWrite, TypeOK, outside
<1> QED
  BY <1>2, <1>3 DEF UseWrite

LEMMA MarkSteps == ASSUME IInv, UseFlag \/ UseMark PROVE IInv' /\ FilesRight
<1> USE DEF IInv
<1>1. use.row \in Accounts
  BY DEF UseFlag, UseMark, QuestionsNamed
<1>2. rejected' \subseteq Accounts /\ foreign' \subseteq Accounts
  BY <1>1 DEF UseFlag, UseMark, TypeOK
<1>3. PollNamed
  <2>1. CASE UseFlag
    BY <2>1, PollEnds DEF UseFlag
  <2>2. CASE UseMark
    BY <1>1, <2>2 DEF UseMark, TypeOK, Uses, PollNamed
  <2> QED
    BY <2>1, <2>2
<1> QED
  BY <1>2, <1>3, PollKeeps, Unfiled DEF UseFlag, UseMark, TypeOK, outside

-----------------------------------------------------------------------------
(* Every step *)

LEMMA RestartKeeps == ASSUME IInv, Restart PROVE IInv' /\ FilesRight
<1>1. /\ job' \in Jobs /\ use' \in Uses /\ watch' \in Watchers
      /\ job'.by = "nobody" /\ job'.at = "free" /\ use'.at = "idle" /\ watch'.at = "top"
  BY DEF Restart, Free, Jobs, Idle, Uses, Watchers
<1>2. TypeOK'
  BY <1>1, StartedType DEF Restart, IInv, TypeOK, outside, stored
<1>3. SwitchHasTarget' /\ QuestionsNamed' /\ SameLineage' /\ OrphansOwned'
  BY <1>1 DEF Restart, IInv, SwitchHasTarget, QuestionsNamed, SameLineage, OrphansOwned, stored
<1> QED
  BY <1>2, <1>3, Unfiled DEF Restart, IInv, stored

LEMMA Stutters == ASSUME IInv, UNCHANGED vars PROVE IInv' /\ FilesRight
<1>1. TypeOK'
  BY DEF vars, outside, stored, IInv, TypeOK
<1>2. SwitchHasTarget' /\ QuestionsNamed' /\ SameLineage' /\ OrphansOwned'
  BY DEF vars, stored, IInv, SwitchHasTarget, QuestionsNamed, SameLineage, OrphansOwned
<1> QED
  BY <1>1, <1>2, Unfiled DEF vars, stored, IInv

LEMMA Inductive == ASSUME IInv, [Next]_vars PROVE IInv' /\ FilesRight
<1>1. CASE CliStart \/ CliRotate \/ CliNames \/ CliLogout \/ UseLive \/ \E a \in Accounts : CliLogin(a)
  BY <1>1, CliSteps
<1>2. CASE Watching
  BY <1>2, WatchSteps, WatchFileKeeps DEF Watching
<1>3. CASE Holding
  BY <1>3, WatchFileKeeps, JobTokenKeeps, JobTextKeeps, IdentityKeeps, CaptureSaveKeeps,
     SwitchFileKeeps, SwitchLoadKeeps, SwitchPutKeeps DEF Holding
<1>4. CASE UserCapture \/ UseCapture \/ \E a \in Accounts : SwitchBegin(a)
  BY <1>4, TakeSteps
<1>5. CASE \/ \E a \in Accounts : StagedLogin(a) \/ Remove(a)
           \/ \E o \in orphans : ResolveOrphan(o)
  BY <1>5, ManageSteps
<1>6. CASE \/ UseSource \/ UseGate \/ UseCheck \/ UseShares \/ UseRecapture
           \/ \E a \in Accounts : UsePlan(a)
  BY <1>6, PollReadSteps
<1>7. CASE UseAsk \/ UseWrite \/ UseFlag \/ UseMark
  BY <1>7, UseAskKeeps, UseWriteKeeps, MarkSteps
<1>8. CASE Restart
  BY <1>8, RestartKeeps
<1>9. CASE UNCHANGED vars
  BY <1>9, Stutters
<1> QED
  BY <1>1, <1>2, <1>3, <1>4, <1>5, <1>6, <1>7, <1>8, <1>9 DEF Next

\* A copy that was right is not made wrong by what a step may do.
LEMMA StaysRight ==
  ASSUME TypeOK, TypeOK', FilesRight
  PROVE  \A a \in Accounts : Misfiled(a)' => Misfiled(a)
<1> SUFFICES ASSUME NEW a \in Accounts, Misfiled(a)' PROVE Misfiled(a)
  OBVIOUS
<1>1. snap'[a] # NoCopy /\ (snap'[a].name # a \/ Owner(snap'[a].token) # a)
  BY DEF Misfiled, Registered
<1> QED
  BY <1>1 DEF FilesRight, Misfiled, Registered

(* Every variable of the accounts has its type in every state, for any set of *)
(* accounts and any bounds; what a job or a poll holds is a token whenever it *)
(* is used as one.                                                            *)
THEOREM Typed == Spec => []TypeOK
<1>1. Init => IInv
  BY InitTypes
<1>2. IInv /\ [Next]_vars => IInv'
  BY Inductive
<1>3. IInv => TypeOK
  BY DEF IInv
<1> QED
  BY <1>1, <1>2, <1>3, PTL DEF Spec

(* No step of the program, the CLI or a login makes a stored copy pair an     *)
(* account with another name or somebody else's token, however many accounts, *)
(* tokens and operations there are: a login is filed only under the name that *)
(* was read twice and that the provider gives for the token.                  *)
THEOREM NeverPaired == Spec => NeverMisfiled
<1>1. Init => IInv
  BY InitTypes
<1>2. IInv /\ [Next]_vars => IInv'
  BY Inductive
<1>3. IInv /\ IInv' /\ [Next]_vars => [\A a \in Accounts : Misfiled(a)' => Misfiled(a)]_vars
  BY Inductive, StaysRight DEF IInv
<1> QED
  BY <1>1, <1>2, <1>3, PTL DEF Spec, NeverMisfiled
=============================================================================
