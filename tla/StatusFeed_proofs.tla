-------------------------- MODULE StatusFeed_proofs --------------------------
(***************************************************************************)
(* Theorems about StatusFeed, for any number of sessions, subscribers and  *)
(* changes: the state keeps its types, a subscriber in step with nothing   *)
(* under way knows every revision, a window whose first read succeeded     *)
(* misses nothing, and only an overflow makes a subscriber lose its step.  *)
(***************************************************************************)
EXTENDS StatusFeed, WellFoundedInduction, SequenceTheorems, TLAPS

-----------------------------------------------------------------------------
(* The inductive invariant.                                                  *)

Frames == Delta \cup Snapshot \cup {Resync}
Revisions == [Sessions -> Nat]

\* All a subscriber has still to read, in its order.
Sent(c) == IF c \in Remote THEN wire[c] ELSE <<>>
Coming(c) == Sent(c) \o queue[c].events

\* No revision of the frame is newer than these; each is newer than these, or
\* for a snapshot not older.
NotAhead(frame, known) ==
  /\ frame.kind = "delta" => frame.rev <= known[frame.session]
  /\ frame.kind = "snapshot" => \A s \in Sessions : frame.known[s] <= known[s]
Newer(frame, known) ==
  /\ frame.kind = "delta" => known[frame.session] < frame.rev
  /\ frame.kind = "snapshot" => \A s \in Sessions : known[s] <= frame.known[s]

\* The two frames were made one after the other.
Before(one, other) ==
  /\ one.kind = "snapshot" => Newer(other, one.known)
  /\ other.kind = "snapshot" => NotAhead(one, other.known)
  /\ one.kind = "delta" /\ other.kind = "delta" /\ one.session = other.session
       => one.rev < other.rev

\* The frames were made in their order, after what the subscriber knows.
Dated(frames, m, revs) ==
  /\ \A s \in Sessions : m.known[s] <= revs[s]
  /\ \A i \in DOMAIN frames : NotAhead(frames[i], revs) /\ Newer(frames[i], m.known)
  /\ \A i, j \in DOMAIN frames : i < j => Before(frames[i], frames[j])

\* A change comes right after the frame with the number before it.
Linked(frames, m, i) ==
  frames[i].kind = "delta" =>
    IF i = 1 THEN m.synced /\ frames[i].seq = m.seq + 1
    ELSE frames[i - 1].kind # "resync" /\ frames[i].seq = frames[i - 1].seq + 1
Numbered(frames, m) == \A i \in DOMAIN frames : Linked(frames, m, i)

\* The last frame has the last number.
Reaches(frames, m, number) ==
  IF frames = <<>> THEN m.synced /\ m.seq = number
  ELSE frames[Len(frames)].kind # "resync" /\ frames[Len(frames)].seq = number

\* The revision of each session is known or will be read.
Tells(frame, s, r) ==
  \/ frame.kind = "delta" /\ frame.session = s /\ frame.rev = r
  \/ frame.kind = "snapshot" /\ frame.known[s] = r
Complete(frames, m, revs) ==
  \A s \in Sessions :
    m.known[s] = revs[s] \/ \E i \in DOMAIN frames : Tells(frames[i], s, revs[s])

Follows(frames, m, revs, number, needs) ==
  /\ Dated(frames, m, revs) /\ Numbered(frames, m)
  /\ ~ needs => Reaches(frames, m, number) /\ Complete(frames, m, revs)

InStep(c) ==
  /\ queue[c].open => Follows(Coming(c), mirror[c], rev, seq, queue[c].needs)
  /\ queue[c].needs => queue[c].events = <<>>
  /\ c \in Local => /\ mirror[c].synced = ~ mirror[c].pending
                    /\ mirror[c].pending => queue[c].open
Following == \A c \in Subscribers : InStep(c)

\* What the window has still to show: changes in the order of their numbers.
Unseen == page.buffered \o mail
InPost(events, revs, number) ==
  /\ \A i \in DOMAIN events : events[i].seq <= number /\ events[i].rev <= revs[events[i].session]
  /\ \A i, j \in DOMAIN events : i < j => events[i].seq < events[j].seq

\* The completion of an earlier run stands for a session that is behind it.
Stands(known, s, revs) == known[s] = Kept[s] /\ revs[s] < Kept[s]

\* The revision of a session is known or shown by a change after the first ones
\* and after the number that was read.
Shows(read, known, s, events, first, revs) ==
  \/ known[s] = revs[s]
  \/ \E i \in DOMAIN events :
       /\ first < i /\ read < events[i].seq
       /\ events[i].session = s /\ events[i].rev = revs[s]

Covers(read, known, events, first, revs, number) ==
  /\ read <= number
  /\ \A s \in Sessions :
       \/ Stands(known, s, revs)
       \/ known[s] <= revs[s] /\ Shows(read, known, s, events, first, revs)

Posted == InPost(Unseen, rev, seq)
Paged ==
  /\ page.at = "asked" =>
       answer \in Snapshot /\ Covers(answer.seq, answer.known, Unseen, 0, rev, seq)
  /\ page.at = "ready" => page.buffered = <<>>
  /\ page.at = "ready" /\ ~ page.failed =>
       page.epoch /\ Covers(page.seq, page.known, Unseen, 0, rev, seq)

Published == published = rev

Inv ==
  /\ TypeOK /\ Published /\ Following /\ Posted /\ Paged

-----------------------------------------------------------------------------
(* Recursion over the natural numbers.                                       *)

\* A set of numbers that holds 0 and is closed under the successor.
LEMMA Numbers ==
  ASSUME NEW S, S \subseteq Nat, 0 \in S, \A i \in S : i + 1 \in S
  PROVE  S = Nat
<1>1. SUFFICES ASSUME Nat \ S # {} PROVE FALSE
  OBVIOUS
<1> DEFINE R == OpToRel(<, Nat)
<1>2. PICK n \in Nat \ S : \A m \in Nat \ S : ~ (<<m, n>> \in R)
  BY <1>1, NatLessThanWellFounded, WFMin
<1>3. n \in Nat /\ n \notin S /\ \A m \in Nat \ S : ~ (m < n)
  <2>1. n \in Nat \ S
    BY <1>2
  <2>2. \A m \in Nat \ S : ~ (m < n)
    BY <1>2 DEF OpToRel
  <2> QED
    BY <2>1, <2>2
<1> HIDE DEF R
<1>4. n # 0 /\ n - 1 \in Nat
  BY <1>3
<1>5. n - 1 \in S
  BY <1>3, <1>4
<1>6. (n - 1) + 1 = n
  BY <1>3
<1> QED
  BY <1>3, <1>5, <1>6

\* The functions that start from the base and take n steps.
Built(T, n, base, step) ==
  {f \in [0..n -> T] : f[0] = base /\ \A i \in 1..n : f[i] = step[i][f[i - 1]]}

\* Every number of steps leads somewhere: a least one that does not has a
\* predecessor that does.
LEMMA Stages ==
  ASSUME NEW T, NEW n \in Nat, NEW base \in T, NEW step \in [Nat -> [T -> T]]
  PROVE  Built(T, n, base, step) # {}
<1> DEFINE To(k) == Built(T, k, base, step)
           S == {k \in Nat : To(k) # {}}
<1>1. To(0) # {}
  <2> DEFINE f == [i \in 0..0 |-> base]
  <2>1. f \in [0..0 -> T] /\ f[0] = base
    OBVIOUS
  <2>2. 1..0 = {}
    OBVIOUS
  <2>3. f \in To(0)
    BY <2>1, <2>2 DEF Built
  <2> QED
    BY <2>3
<1>2. ASSUME NEW k \in Nat, To(k) # {} PROVE To(k + 1) # {}
  <2>1. PICK f : f \in To(k)
    BY <1>2
  <2>2. f \in [0..k -> T] /\ f[0] = base /\ \A i \in 1..k : f[i] = step[i][f[i - 1]]
    BY <2>1 DEF Built
  <2> DEFINE t == step[k + 1][f[k]]
             g == [i \in 0..(k + 1) |-> IF i = k + 1 THEN t ELSE f[i]]
  <2>3. t \in T
    <3>1. f[k] \in T /\ step[k + 1] \in [T -> T]
      BY <2>2
    <3> QED
      BY <3>1
  <2>4. g \in [0..(k + 1) -> T]
    <3> HIDE DEF t
    <3> QED
      BY <2>2, <2>3
  <2>5. g[0] = base
    BY <2>2
  <2>6. ASSUME NEW i \in 1..(k + 1) PROVE g[i] = step[i][g[i - 1]]
    <3>1. g[i - 1] = f[i - 1]
      OBVIOUS
    <3>2. CASE i = k + 1
      BY <3>1, <3>2
    <3>3. CASE i # k + 1
      <4>1. i \in 1..k
        BY <3>3
      <4> QED
        BY <2>2, <3>1, <3>3, <4>1
    <3> QED
      BY <3>2, <3>3
  <2>7. g \in To(k + 1)
    <3> HIDE DEF g
    <3> QED
      BY <2>4, <2>5, <2>6 DEF Built
  <2> QED
    BY <2>7
<1> HIDE DEF To
<1>3. S = Nat
  <2>1. 0 \in S /\ \A i \in S : i + 1 \in S
    BY <1>1, <1>2
  <2>2. S \subseteq Nat
    OBVIOUS
  <2> HIDE DEF S
  <2> QED
    BY <2>1, <2>2, Numbers
<1> QED
  BY <1>3 DEF To

\* Two functions that start alike and take the same steps agree.
LEMMA SameStages ==
  ASSUME NEW n \in Nat, NEW f, NEW g, f[0] = g[0],
         \A i \in 0..(n - 1) : f[i] = g[i] => f[i + 1] = g[i + 1]
  PROVE  \A i \in 0..n : f[i] = g[i]
<1> DEFINE S == {i \in Nat : i \in 0..n => f[i] = g[i]}
<1>1. 0 \in S
  OBVIOUS
<1>2. ASSUME NEW i \in S PROVE i + 1 \in S
  <2>1. SUFFICES ASSUME i + 1 \in 0..n PROVE f[i + 1] = g[i + 1]
    OBVIOUS
  <2>2. i \in 0..n /\ i \in 0..(n - 1)
    BY <2>1
  <2> QED
    BY <2>2
<1>3. S = Nat
  <2>1. S \subseteq Nat
    OBVIOUS
  <2> HIDE DEF S
  <2> QED
    BY <1>1, <1>2, <2>1, Numbers
<1> QED
  BY <1>3

-----------------------------------------------------------------------------
(* The changes that are published.                                           *)

\* The order of the sessions is a sequence of them.
LEMMA Ordered ==
  Len(Order) \in Nat /\ Order \in Seq(Sessions) /\ \A i \in 1..Len(Order) : Order[i] \in Sessions
  BY OrderAssumption

\* The recursive definition as a list of stages.
LEMMA InOrderStages ==
  ASSUME NEW some
  PROVE  \E f \in [0..Len(Order) -> Seq(Sessions)] :
           /\ f[0] = <<>> /\ InOrder(some) = f[Len(Order)]
           /\ \A i \in 1..Len(Order) :
                f[i] = IF Order[i] \in some THEN Append(f[i - 1], Order[i]) ELSE f[i - 1]
<1> DEFINE n == Len(Order)
           T == Seq(Sessions)
           step == [i \in Nat |-> [a \in T |->
                      IF i \in 1..n /\ Order[i] \in some THEN Append(a, Order[i]) ELSE a]]
           Rec(f) == [i \in 0..n |-> IF i = 0 THEN <<>>
                                     ELSE IF Order[i] \in some THEN Append(f[i - 1], Order[i])
                                     ELSE f[i - 1]]
           first == CHOOSE f : f = Rec(f)
<1>1. step \in [Nat -> [T -> T]] /\ <<>> \in T /\ n \in Nat
  BY Ordered
<1>2. PICK f \in [0..n -> T] : f[0] = <<>> /\ \A i \in 1..n : f[i] = step[i][f[i - 1]]
  <2> DEFINE base == <<>>
  <2>1. base \in T /\ step \in [Nat -> [T -> T]] /\ n \in Nat
    BY <1>1
  <2> HIDE DEF n, step, T, base
  <2>2. Built(T, n, base, step) # {}
    BY <2>1, Stages
  <2> QED
    BY <2>2 DEF base, Built
<1>3. \A i \in 1..n : f[i] = IF Order[i] \in some THEN Append(f[i - 1], Order[i]) ELSE f[i - 1]
  <2> TAKE i \in 1..n
  <2>1. f[i - 1] \in T /\ i \in Nat
    BY Ordered
  <2>2. step[i][f[i - 1]] = IF Order[i] \in some THEN Append(f[i - 1], Order[i]) ELSE f[i - 1]
    BY <2>1
  <2> QED
    BY <2>2, <1>2
<1>4. f = Rec(f)
  <2>1. f = [i \in 0..n |-> f[i]]
    BY <1>2
  <2>2. \A i \in 0..n : f[i] = IF i = 0 THEN <<>>
                               ELSE IF Order[i] \in some THEN Append(f[i - 1], Order[i])
                               ELSE f[i - 1]
    <3> TAKE i \in 0..n
    <3>1. CASE i = 0
      BY <3>1, <1>2
    <3>2. CASE i # 0
      <4>1. i \in 1..n
        BY <3>2, Ordered
      <4> HIDE DEF n
      <4> QED
        BY <3>2, <4>1, <1>3
    <3> QED
      BY <3>1, <3>2
  <2> QED
    BY <2>1, <2>2
<1>5. first = Rec(first)
  <2> HIDE DEF Rec
  <2> QED
    BY <1>4
<1>6. InOrder(some) = first[n]
  BY DEF InOrder
<1>7. \A i \in 0..n : first[i] = f[i]
  <2> HIDE DEF first
  <2>1. \A i \in 0..n : first[i] = Rec(first)[i]
    BY <1>5
  <2>2. first[0] = f[0]
    <3>1. 0 \in 0..n
      BY <1>1
    <3> QED
      BY <2>1, <3>1, <1>2
  <2>3. ASSUME NEW i \in 0..(n - 1), first[i] = f[i] PROVE first[i + 1] = f[i + 1]
    <3>1. i + 1 \in 1..n /\ i + 1 \in 0..n /\ (i + 1) - 1 = i /\ i + 1 # 0
      BY Ordered
    <3>2. first[i + 1] = IF Order[i + 1] \in some THEN Append(first[i], Order[i + 1]) ELSE first[i]
      BY <2>1, <3>1
    <3>3. f[i + 1] = IF Order[i + 1] \in some THEN Append(f[i], Order[i + 1]) ELSE f[i]
      BY <3>1, <1>3
    <3> QED
      BY <2>3, <3>2, <3>3
  <2>4. n \in Nat
    BY <1>1
  <2> HIDE DEF n
  <2> QED
    BY <2>2, <2>3, <2>4, SameStages, Zenon
<1>8. InOrder(some) = f[n]
  <2>1. n \in 0..n
    BY <1>1
  <2> HIDE DEF first, n
  <2> QED
    BY <1>6, <1>7, <2>1
<1> HIDE DEF first, step
<1> QED
  BY <1>2, <1>3, <1>8

\* Each of the sessions once, and no other.
LEMMA InOrderOnce ==
  ASSUME NEW some
  PROVE  /\ InOrder(some) \in Seq(Sessions)
         /\ \A i \in DOMAIN InOrder(some) : InOrder(some)[i] \in some
         /\ \A i, j \in DOMAIN InOrder(some) : InOrder(some)[i] = InOrder(some)[j] => i = j
         /\ \A s \in Sessions \cap some : \E i \in DOMAIN InOrder(some) : InOrder(some)[i] = s
<1> DEFINE n == Len(Order)
<1>1. PICK f \in [0..n -> Seq(Sessions)] :
        /\ f[0] = <<>> /\ InOrder(some) = f[n]
        /\ \A i \in 1..n : f[i] = IF Order[i] \in some THEN Append(f[i - 1], Order[i]) ELSE f[i - 1]
  BY InOrderStages
<1> DEFINE Sound(k) ==
             /\ \A i \in DOMAIN f[k] : f[k][i] \in some /\ \E j \in 1..k : f[k][i] = Order[j]
             /\ \A i, j \in DOMAIN f[k] : f[k][i] = f[k][j] => i = j
             /\ \A j \in 1..k : Order[j] \in some => \E i \in DOMAIN f[k] : f[k][i] = Order[j]
           S == {k \in Nat : k \in 0..n => Sound(k)}
<1>2. 0 \in S
  <2>1. Sound(0)
    BY <1>1
  <2> QED
    BY <2>1
<1>3. ASSUME NEW k \in Nat, k + 1 \in 0..n, Sound(k) PROVE Sound(k + 1)
  <2>1. k + 1 \in 1..n /\ (k + 1) - 1 = k /\ k \in 0..n /\ f[k] \in Seq(Sessions)
    BY <1>3, <1>1
  <2>2. f[k + 1] = IF Order[k + 1] \in some THEN Append(f[k], Order[k + 1]) ELSE f[k]
    BY <2>1, <1>1
  <2>3. CASE Order[k + 1] \notin some
    <3>1. f[k + 1] = f[k]
      BY <2>2, <2>3
    <3>2. \A j \in 1..(k + 1) : j \in 1..k \/ j = k + 1
      BY <2>1
    <3>3. \A j \in 1..k : j \in 1..(k + 1)
      OBVIOUS
    <3>4. \A i \in DOMAIN f[k] : f[k][i] \in some /\ \E j \in 1..(k + 1) : f[k][i] = Order[j]
      BY <1>3, <3>3
    <3>5. \A i, j \in DOMAIN f[k] : f[k][i] = f[k][j] => i = j
      BY <1>3
    <3>6. \A j \in 1..(k + 1) : Order[j] \in some => \E i \in DOMAIN f[k] : f[k][i] = Order[j]
      BY <1>3, <2>3, <3>2
    <3> QED
      BY <3>1, <3>4, <3>5, <3>6
  <2>4. CASE Order[k + 1] \in some
    <3> DEFINE a == f[k]
               b == f[k + 1]
               e == Order[k + 1]
               m == Len(a)
    <3>1. a \in Seq(Sessions) /\ m \in Nat /\ b = Append(a, e) /\ e \in Sessions /\ e \in some
      BY <2>1, <2>2, <2>4, Ordered
    <3>2. Len(b) = m + 1 /\ b[m + 1] = e /\ \A i \in 1..m : b[i] = a[i]
      <4> HIDE DEF a, b, e
      <4> QED
        BY <3>1, AppendProperties
    <3>3. DOMAIN b = 1..(m + 1) /\ DOMAIN a = 1..m
      <4> HIDE DEF a, b, e
      <4>1. b \in Seq(Sessions)
        BY <3>1, AppendProperties
      <4> QED
        BY <3>1, <3>2, <4>1, LenProperties
    <3>4. \A i \in 1..m : a[i] \in some /\ a[i] # e /\ \E j \in 1..k : a[i] = Order[j]
      <4>1. ASSUME NEW j \in 1..k PROVE Order[j] # e
        <5>1. j \in DOMAIN Order /\ k + 1 \in DOMAIN Order /\ j # k + 1
          BY <2>1, OrderAssumption
        <5> QED
          BY <5>1, OrderAssumption
      <4> QED
        BY <1>3, <3>3, <4>1
    <3>5. \A i, j \in 1..m : a[i] = a[j] => i = j
      BY <1>3, <3>3
    <3>6. \A j \in 1..k : Order[j] \in some => \E i \in 1..m : a[i] = Order[j]
      BY <1>3, <3>3
    <3> HIDE DEF a, b, e, m
    <3>7. \A i \in 1..(m + 1) : i = m + 1 \/ i \in 1..m
      BY <3>1
    <3>8. \A i \in 1..m : i \in 1..(m + 1)
      BY <3>1
    <3>9. m + 1 \in 1..(m + 1)
      BY <3>1
    <3>10. \A i \in DOMAIN b : b[i] \in some /\ \E j \in 1..(k + 1) : b[i] = Order[j]
      BY <3>1, <3>2, <3>3, <3>4, <3>7 DEF e
    <3>11. \A i, j \in DOMAIN b : b[i] = b[j] => i = j
      BY <3>2, <3>3, <3>4, <3>5, <3>7
    <3>12. \A j \in 1..(k + 1) : Order[j] \in some => \E i \in DOMAIN b : b[i] = Order[j]
      <4> TAKE j \in 1..(k + 1)
      <4>1. CASE j = k + 1
        BY <4>1, <3>2, <3>3, <3>9 DEF e
      <4>2. CASE j # k + 1
        <5>1. j \in 1..k
          BY <4>2
        <5> QED
          BY <5>1, <3>2, <3>3, <3>6, <3>8
      <4> QED
        BY <4>1, <4>2
    <3> QED
      BY <3>10, <3>11, <3>12 DEF b
  <2> QED
    BY <2>3, <2>4
<1> HIDE DEF Sound
<1>4. S = Nat
  <2>1. \A k \in S : k + 1 \in S
    BY <1>3, Ordered
  <2>2. S \subseteq Nat
    OBVIOUS
  <2> HIDE DEF S
  <2> QED
    BY <1>2, <2>1, <2>2, Numbers
<1>5. Sound(n)
  BY <1>4, Ordered
<1>6. ASSUME NEW s \in Sessions PROVE \E j \in 1..n : Order[j] = s
  <2>1. DOMAIN Order = 1..n
    BY OrderAssumption
  <2> QED
    BY <2>1 DEF Sessions
<1>7. InOrder(some) = f[n] /\ f[n] \in Seq(Sessions)
  BY <1>1, Ordered
<1>8. \A s \in Sessions \cap some : \E i \in DOMAIN f[n] : f[n][i] = s
  BY <1>5, <1>6 DEF Sound
<1> QED
  BY <1>5, <1>7, <1>8 DEF Sound

\* The changes of some sessions, numbered from the given number.
News(events, changed, revs, number) ==
  /\ events \in Seq(Delta)
  /\ \A i \in DOMAIN events :
       /\ events[i].seq = number + i
       /\ events[i].session \in changed /\ events[i].rev = revs[events[i].session] + 1
  /\ \A i, j \in DOMAIN events : events[i].session = events[j].session => i = j
  /\ \A s \in changed : \E i \in DOMAIN events : events[i].session = s

\* publish sends one change for each session that changed.
LEMMA EventsType ==
  ASSUME NEW changed \in SUBSET Sessions, rev \in Revisions, seq \in Nat, Published
  PROVE  News(Events(changed), changed, rev, seq)
<1> DEFINE some == {s \in changed : published[s] <= rev[s]}
           news == InOrder(some)
           events == [i \in DOMAIN news |->
             [kind |-> "delta", seq |-> seq + i, session |-> news[i], rev |-> rev[news[i]] + 1]]
<1>1. Events(changed) = events
  BY DEF Events
<1>2. some = changed
  BY DEF Published, Revisions
<1>3. /\ news \in Seq(Sessions)
      /\ \A i \in DOMAIN news : news[i] \in changed
      /\ \A i, j \in DOMAIN news : news[i] = news[j] => i = j
      /\ \A s \in changed : \E i \in DOMAIN news : news[i] = s
  BY <1>2, InOrderOnce
<1> HIDE DEF some, news
<1>4. Len(news) \in Nat /\ DOMAIN news = 1..Len(news)
  BY <1>3
<1>5. \A i \in DOMAIN news :
        [kind |-> "delta", seq |-> seq + i, session |-> news[i], rev |-> rev[news[i]] + 1] \in Delta
  BY <1>3, <1>4 DEF Delta, Revisions
<1>6. events \in Seq(Delta)
  BY <1>4, <1>5
<1>7. /\ DOMAIN events = DOMAIN news
      /\ \A i \in DOMAIN news : events[i].seq = seq + i /\ events[i].session = news[i]
                                /\ events[i].rev = rev[news[i]] + 1
  OBVIOUS
<1> HIDE DEF events
<1> QED
  BY <1>1, <1>3, <1>6, <1>7 DEF News

-----------------------------------------------------------------------------
(* What a subscriber has still to read.                                      *)

\* What a frame is, by its kind.
LEMMA FrameTypes ==
  ASSUME NEW f \in Frames
  PROVE  /\ f.kind \in {"delta", "snapshot", "resync"}
         /\ f.kind = "delta" => f \in Delta /\ f.seq \in Nat /\ f.session \in Sessions
                                            /\ f.rev \in Nat
         /\ f.kind = "snapshot" => f \in Snapshot /\ f.seq \in Nat /\ f.known \in Revisions
         /\ f.kind = "resync" => f = Resync
  BY DEF Frames, Delta, Snapshot, Resync, Revisions

\* What a change is.
LEMMA DeltaTypes ==
  ASSUME NEW f \in Delta
  PROVE  /\ f.kind = "delta" /\ f.seq \in Nat /\ f.session \in Sessions /\ f.rev \in Nat
         /\ f \in Frames
  BY DEF Delta, Frames

\* What a snapshot is.
LEMMA SnapshotTypes ==
  ASSUME NEW f \in Snapshot
  PROVE  f.kind = "snapshot" /\ f.seq \in Nat /\ f.known \in Revisions /\ f \in Frames
  BY DEF Snapshot, Frames, Revisions

\* What a subscriber knows.
LEMMA MirrorTypes ==
  ASSUME NEW m \in Mirror
  PROVE  m.synced \in BOOLEAN /\ m.pending \in BOOLEAN /\ m.seq \in Nat /\ m.known \in Revisions
  BY DEF Mirror, Revisions

\* A frame not ahead of some revisions is not ahead of later ones.
LEMMA NotAheadGrows ==
  ASSUME NEW f \in Frames, NEW r \in Revisions, NEW r2 \in Revisions,
         \A s \in Sessions : r[s] <= r2[s], NotAhead(f, r)
  PROVE  NotAhead(f, r2)
<1>1. CASE f.kind = "delta"
  <2>1. f.rev \in Nat /\ f.session \in Sessions /\ f.rev <= r[f.session] /\ r[f.session] <= r2[f.session]
    BY <1>1, FrameTypes DEF NotAhead
  <2>2. r[f.session] \in Nat /\ r2[f.session] \in Nat
    BY <2>1 DEF Revisions
  <2>3. f.rev <= r2[f.session]
    BY <2>1, <2>2
  <2> QED
    BY <1>1, <2>3 DEF NotAhead
<1>2. CASE f.kind = "snapshot"
  <2>1. f.known \in Revisions /\ \A s \in Sessions : f.known[s] <= r[s]
    BY <1>2, FrameTypes DEF NotAhead
  <2>2. \A s \in Sessions : f.known[s] <= r2[s]
    BY <2>1 DEF Revisions
  <2> QED
    BY <1>2, <2>2 DEF NotAhead
<1>3. CASE f.kind = "resync"
  BY <1>3 DEF NotAhead
<1> QED
  BY <1>1, <1>2, <1>3, FrameTypes

\* A change that brings a session past all its revisions is newer than what
\* these allow.
LEMMA NewerThanOld ==
  ASSUME NEW f \in Frames, NEW e \in Delta, NEW r \in Revisions, NotAhead(f, r),
         e.rev = r[e.session] + 1
  PROVE  Before(f, e)
<1>1. e.kind = "delta" /\ e.session \in Sessions /\ r[e.session] \in Nat
  BY DeltaTypes DEF Revisions
<1>2. CASE f.kind = "delta"
  <2>1. f.rev \in Nat /\ f.rev <= r[f.session]
    BY <1>2, FrameTypes DEF NotAhead
  <2>2. f.session = e.session => f.rev < e.rev
    BY <1>1, <2>1
  <2> QED
    BY <1>1, <1>2, <2>2 DEF Before
<1>3. CASE f.kind = "snapshot"
  <2>1. f.known \in Revisions /\ f.known[e.session] <= r[e.session]
    BY <1>1, <1>3, FrameTypes DEF NotAhead
  <2>2. f.known[e.session] < e.rev
    BY <1>1, <2>1 DEF Revisions
  <2> QED
    BY <1>1, <1>3, <2>2 DEF Before, Newer
<1>4. CASE f.kind = "resync"
  BY <1>1, <1>4 DEF Before
<1> QED
  BY <1>2, <1>3, <1>4, FrameTypes

\* Later revisions do not disturb a subscriber that needs a snapshot.
LEMMA DatedLater ==
  ASSUME NEW F \in Seq(Frames), NEW m \in Mirror, NEW r \in Revisions, NEW r2 \in Revisions,
         \A s \in Sessions : r[s] <= r2[s], Dated(F, m, r)
  PROVE  Dated(F, m, r2)
<1>1. \A s \in Sessions : m.known[s] <= r2[s]
  BY MirrorTypes DEF Dated, Revisions
<1>2. \A i \in DOMAIN F : NotAhead(F[i], r2)
  BY NotAheadGrows DEF Dated
<1> QED
  BY <1>1, <1>2 DEF Dated

\* What is left when the queue is emptied was in order.
LEMMA Cut ==
  ASSUME NEW F \in Seq(Frames), NEW E \in Seq(Frames), NEW m \in Mirror, NEW r \in Revisions,
         Dated(F \o E, m, r), Numbered(F \o E, m)
  PROVE  Dated(F, m, r) /\ Numbered(F, m)
<1> DEFINE G == F \o E
<1>1. \A i \in DOMAIN F : i \in DOMAIN G /\ G[i] = F[i]
  OBVIOUS
<1>2. \A i \in DOMAIN F : i > 1 => i - 1 \in DOMAIN F
  OBVIOUS
<1>3. Dated(G, m, r) /\ Numbered(G, m)
  OBVIOUS
<1> HIDE DEF G
<1>4. Dated(F, m, r)
  BY <1>1, <1>3 DEF Dated
<1>5. Numbered(F, m)
  <2> SUFFICES ASSUME NEW i \in DOMAIN F PROVE Linked(F, m, i)
    BY DEF Numbered
  <2>1. i # 1 => G[i - 1] = F[i - 1]
    <3>1. i # 1 => i > 1
      OBVIOUS
    <3> QED
      BY <1>1, <1>2, <3>1
  <2> QED
    BY <1>1, <1>3, <2>1 DEF Numbered, Linked
<1> QED
  BY <1>4, <1>5

\* Changes are appended to what is still to read.
LEMMA Grows ==
  ASSUME NEW F \in Seq(Frames), NEW m \in Mirror, NEW r \in Revisions, NEW k \in Nat,
         NEW changed \in SUBSET Sessions, NEW ev, News(ev, changed, r, k),
         NEW r2 \in Revisions,
         \A s \in Sessions : r2[s] = IF s \in changed THEN r[s] + 1 ELSE r[s],
         Follows(F, m, r, k, FALSE)
  PROVE  Follows(F \o ev, m, r2, k + Len(ev), FALSE)
<1> DEFINE G == F \o ev
           n == Len(F)
<1>1. ev \in Seq(Delta) /\ ev \in Seq(Frames) /\ n \in Nat /\ Len(ev) \in Nat
  BY DeltaTypes DEF News
<1>2. /\ G \in Seq(Frames) /\ DOMAIN G = 1..(n + Len(ev))
      /\ DOMAIN F = 1..n /\ DOMAIN ev = 1..Len(ev) /\ Len(G) = n + Len(ev)
      /\ \A i \in DOMAIN F : G[i] = F[i]
      /\ \A i \in DOMAIN ev : G[n + i] = ev[i]
      /\ \A i \in DOMAIN G : i \in DOMAIN F \/ (i > n /\ i - n \in DOMAIN ev /\ n + (i - n) = i)
  BY <1>1
<1>3. \A i \in DOMAIN G : \/ i \in DOMAIN F /\ G[i] = F[i]
                          \/ i > n /\ i - n \in DOMAIN ev /\ G[i] = ev[i - n]
  <2> TAKE i \in DOMAIN G
  <2>1. CASE i \in DOMAIN F
    BY <1>2, <2>1
  <2>2. CASE i \notin DOMAIN F
    <3>1. i > n /\ i - n \in DOMAIN ev /\ n + (i - n) = i
      BY <1>2, <2>2
    <3>2. G[n + (i - n)] = ev[i - n]
      BY <1>2, <3>1
    <3> QED
      BY <3>1, <3>2
  <2> QED
    BY <2>1, <2>2
<1>4. \A s \in Sessions : r[s] \in Nat /\ r2[s] \in Nat /\ m.known[s] \in Nat /\ r[s] <= r2[s]
  <2>1. m.known \in Revisions
    BY MirrorTypes
  <2>2. \A s \in Sessions : r[s] \in Nat /\ r2[s] \in Nat /\ m.known[s] \in Nat
    BY <2>1 DEF Revisions
  <2>3. \A s \in Sessions : r[s] <= r2[s]
    BY <2>2
  <2> QED
    BY <2>2, <2>3
<1>5. \A i \in DOMAIN ev : /\ ev[i] \in Delta /\ ev[i].kind = "delta" /\ ev[i].session \in Sessions
                           /\ ev[i].session \in changed /\ ev[i].rev = r[ev[i].session] + 1
                           /\ ev[i].seq = k + i
  BY <1>1, DeltaTypes DEF News
<1>6. Dated(F, m, r) /\ Numbered(F, m) /\ Reaches(F, m, k) /\ Complete(F, m, r)
  BY DEF Follows
<1>7. Dated(F, m, r2)
  BY <1>4, <1>6, DatedLater
<1> HIDE DEF G, n
<1>8. Dated(G, m, r2)
  <2>1. \A s \in Sessions : m.known[s] <= r2[s]
    BY <1>7 DEF Dated
  <2>2. ASSUME NEW i \in DOMAIN ev PROVE NotAhead(ev[i], r2) /\ Newer(ev[i], m.known)
    <3>1. ev[i].rev = r2[ev[i].session]
      BY <1>5
    <3>2. m.known[ev[i].session] < ev[i].rev
      BY <1>4, <1>5, <1>6 DEF Dated
    <3>3. ev[i].rev <= r2[ev[i].session]
      BY <1>4, <1>5, <3>1
    <3> QED
      BY <1>5, <3>2, <3>3 DEF NotAhead, Newer
  <2>3. \A i \in DOMAIN G : NotAhead(G[i], r2) /\ Newer(G[i], m.known)
    BY <1>3, <1>7, <2>2 DEF Dated
  <2>4. ASSUME NEW i \in DOMAIN G, NEW j \in DOMAIN G, i < j PROVE Before(G[i], G[j])
    <3>1. CASE j \in DOMAIN F
      <4>1. i \in DOMAIN F
        <5>1. i \in Nat /\ 1 <= i /\ j \in Nat /\ j <= n
          BY <1>1, <1>2, <3>1
        <5> QED
          BY <1>1, <1>2, <2>4, <5>1
      <4> QED
        BY <1>2, <1>7, <2>4, <3>1, <4>1 DEF Dated
    <3>2. CASE i \in DOMAIN F /\ j \notin DOMAIN F
      <4>1. j - n \in DOMAIN ev /\ G[j] = ev[j - n]
        BY <1>3, <3>2
      <4>2. NotAhead(F[i], r) /\ F[i] \in Frames /\ G[i] = F[i]
        BY <1>2, <1>6, <3>2 DEF Dated
      <4> QED
        BY <1>5, <4>1, <4>2, NewerThanOld
    <3>3. CASE i \notin DOMAIN F /\ j \notin DOMAIN F
      <4>1. /\ i - n \in DOMAIN ev /\ j - n \in DOMAIN ev
            /\ G[i] = ev[i - n] /\ G[j] = ev[j - n]
        BY <1>3, <3>3
      <4>2. i - n # j - n
        BY <1>1, <1>2, <2>4
      <4>3. ev[i - n].session # ev[j - n].session
        BY <4>1, <4>2 DEF News
      <4> QED
        BY <1>5, <4>1, <4>3 DEF Before
    <3> QED
      BY <3>1, <3>2, <3>3
  <2> QED
    BY <2>1, <2>3, <2>4 DEF Dated
<1>9. Numbered(G, m)
  <2> SUFFICES ASSUME NEW i \in DOMAIN G PROVE Linked(G, m, i)
    BY DEF Numbered
  <2>1. CASE i \in DOMAIN F
    <3>1. i > 1 => i - 1 \in DOMAIN F
      BY <1>1, <1>2, <2>1
    <3>2. G[i] = F[i] /\ (i > 1 => G[i - 1] = F[i - 1])
      BY <1>2, <2>1, <3>1
    <3> QED
      BY <1>2, <1>6, <2>1, <3>2 DEF Numbered, Linked
  <2>2. CASE i \notin DOMAIN F
    <3>1. i - n \in DOMAIN ev /\ G[i] = ev[i - n] /\ i \in Int /\ i > n
      BY <1>1, <1>2, <1>3, <2>2
    <3>2. G[i].seq = k + (i - n) /\ G[i].kind = "delta"
      BY <1>5, <3>1
    <3>3. CASE i = n + 1
      <4>1. G[i].seq = k + 1
        BY <1>1, <3>2, <3>3
      <4>2. CASE n = 0
        <5>1. m.synced /\ m.seq = k
          BY <1>2, <1>6, <4>2 DEF Reaches, n
        <5> QED
          BY <3>3, <4>1, <4>2, <5>1 DEF Linked
      <4>3. CASE n # 0
        <5>1. n \in DOMAIN F /\ G[i - 1] = F[n] /\ F # <<>>
          BY <1>1, <1>2, <3>3, <4>3 DEF n
        <5>2. F[n].kind # "resync" /\ F[n].seq = k
          BY <1>6, <5>1 DEF Reaches, n
        <5> QED
          BY <1>1, <3>3, <4>1, <4>3, <5>1, <5>2 DEF Linked
      <4> QED
        BY <4>2, <4>3
    <3>4. CASE i # n + 1
      <4>1. (i - 1) - n \in DOMAIN ev /\ i - 1 \in DOMAIN G /\ i > 1 /\ i - 1 \notin DOMAIN F
        BY <1>1, <1>2, <3>1, <3>4
      <4>2. G[i - 1] = ev[(i - 1) - n]
        BY <1>3, <4>1
      <4>3. G[i - 1].kind = "delta" /\ G[i - 1].seq = k + ((i - 1) - n)
        BY <1>5, <4>1, <4>2
      <4>4. G[i].seq = G[i - 1].seq + 1
        BY <1>1, <3>1, <3>2, <4>3
      <4> QED
        BY <3>1, <4>1, <4>3, <4>4 DEF Linked
    <3> QED
      BY <3>3, <3>4
  <2> QED
    BY <2>1, <2>2
<1>10. Reaches(G, m, k + Len(ev))
  <2>1. CASE ev = <<>>
    <3>1. G = F /\ Len(ev) = 0
      BY <2>1, <1>1 DEF G
    <3> QED
      BY <1>6, <3>1
  <2>2. CASE ev # <<>>
    <3>1. Len(ev) \in DOMAIN ev /\ Len(ev) > 0
      BY <1>1, <2>2
    <3>2. G[n + Len(ev)] = ev[Len(ev)]
      BY <1>2, <3>1
    <3>3. Len(G) = n + Len(ev) /\ G # <<>>
      BY <1>1, <1>2, <3>1
    <3> QED
      BY <1>5, <3>1, <3>2, <3>3 DEF Reaches
  <2> QED
    BY <2>1, <2>2
<1>11. Complete(G, m, r2)
  <2> SUFFICES ASSUME NEW s \in Sessions
               PROVE m.known[s] = r2[s] \/ \E i \in DOMAIN G : Tells(G[i], s, r2[s])
    BY DEF Complete
  <2>1. CASE s \in changed
    <3>1. PICK i \in DOMAIN ev : ev[i].session = s
      BY <2>1 DEF News
    <3>2. Tells(ev[i], s, r2[s])
      BY <1>5, <2>1, <3>1 DEF Tells
    <3>3. n + i \in DOMAIN G /\ G[n + i] = ev[i]
      BY <1>1, <1>2
    <3> QED
      BY <3>2, <3>3
  <2>2. CASE s \notin changed
    <3>1. r2[s] = r[s]
      BY <2>2
    <3>2. \A i \in DOMAIN F : i \in DOMAIN G
      BY <1>1, <1>2
    <3> QED
      BY <1>2, <1>6, <3>1, <3>2 DEF Complete
  <2> QED
    BY <2>1, <2>2
<1> QED
  BY <1>8, <1>9, <1>10, <1>11, <1>2 DEF Follows, G

\* A snapshot of the present brings any subscriber into step.
LEMMA Refreshed ==
  ASSUME NEW F \in Seq(Frames), NEW m \in Mirror, NEW r \in Revisions, NEW k \in Nat,
         NEW f \in Snapshot, f.known = r, f.seq = k, Dated(F, m, r), Numbered(F, m)
  PROVE  Follows(Append(F, f), m, r, k, FALSE)
<1> DEFINE G == Append(F, f)
           n == Len(F)
<1>1. f \in Frames /\ f.kind = "snapshot" /\ n \in Nat
  BY SnapshotTypes
<1>2. /\ G \in Seq(Frames) /\ Len(G) = n + 1 /\ DOMAIN G = 1..(n + 1) /\ DOMAIN F = 1..n
      /\ G[n + 1] = f /\ \A i \in 1..n : G[i] = F[i]
  BY <1>1
<1>3. \A i \in DOMAIN G : i \in Nat /\ 1 <= i /\ (i = n + 1 \/ i \in DOMAIN F)
  BY <1>1, <1>2
<1> HIDE DEF G, n
<1>4. Dated(G, m, r)
  <2>1. \A s \in Sessions : m.known[s] <= r[s] /\ r[s] \in Nat
    BY DEF Dated, Revisions
  <2>2. NotAhead(f, r) /\ Newer(f, m.known)
    BY <1>1, <2>1 DEF NotAhead, Newer
  <2>3. \A i \in DOMAIN G : NotAhead(G[i], r) /\ Newer(G[i], m.known)
    BY <1>2, <1>3, <2>2 DEF Dated
  <2>4. ASSUME NEW i \in DOMAIN G, NEW j \in DOMAIN G, i < j PROVE Before(G[i], G[j])
    <3>1. i \in DOMAIN F
      BY <1>1, <1>2, <2>4
    <3>2. CASE j \in DOMAIN F
      BY <1>2, <2>4, <3>1, <3>2 DEF Dated
    <3>3. CASE j = n + 1
      <4>1. NotAhead(F[i], f.known) /\ F[i] \in Frames
        BY <1>2, <3>1 DEF Dated
      <4>2. G[i].kind = "snapshot" => Newer(f, G[i].known)
        <5>1. SUFFICES ASSUME G[i].kind = "snapshot" PROVE Newer(f, G[i].known)
          OBVIOUS
        <5>2. \A s \in Sessions : G[i].known[s] <= f.known[s]
          BY <1>2, <3>1, <4>1, <5>1 DEF NotAhead
        <5> QED
          BY <1>1, <5>2 DEF Newer
      <4> QED
        BY <1>1, <1>2, <3>1, <3>3, <4>1, <4>2 DEF Before
    <3> QED
      BY <1>3, <3>2, <3>3
  <2> QED
    BY <2>1, <2>3, <2>4 DEF Dated
<1>5. Numbered(G, m)
  <2> SUFFICES ASSUME NEW i \in DOMAIN G PROVE Linked(G, m, i)
    BY DEF Numbered
  <2>1. CASE i = n + 1
    BY <1>1, <1>2, <2>1 DEF Linked
  <2>2. CASE i \in DOMAIN F
    <3>1. i # 1 => i - 1 \in 1..n
      BY <1>1, <1>2, <2>2
    <3>2. G[i] = F[i] /\ (i # 1 => G[i - 1] = F[i - 1])
      BY <1>2, <2>2, <3>1
    <3> QED
      BY <2>2, <3>2 DEF Numbered, Linked
  <2> QED
    BY <1>3, <2>1, <2>2
<1>6. Reaches(G, m, k)
  BY <1>1, <1>2 DEF Reaches
<1>7. Complete(G, m, r)
  <2>1. n + 1 \in DOMAIN G
    BY <1>1, <1>2
  <2> QED
    BY <1>1, <1>2, <2>1 DEF Complete, Tells
<1> QED
  BY <1>4, <1>5, <1>6, <1>7 DEF Follows, G

\* The call to read a snapshot comes last.
LEMMA Called ==
  ASSUME NEW F \in Seq(Frames), NEW m \in Mirror, NEW r \in Revisions,
         Dated(F, m, r), Numbered(F, m)
  PROVE  Dated(Append(F, Resync), m, r) /\ Numbered(Append(F, Resync), m)
<1> DEFINE G == Append(F, Resync)
           n == Len(F)
<1>1. Resync \in Frames /\ Resync.kind = "resync" /\ n \in Nat
  BY DEF Resync, Frames
<1>2. /\ G \in Seq(Frames) /\ Len(G) = n + 1 /\ DOMAIN G = 1..(n + 1) /\ DOMAIN F = 1..n
      /\ G[n + 1] = Resync /\ \A i \in 1..n : G[i] = F[i]
  BY <1>1
<1>3. \A i \in DOMAIN G : i \in Nat /\ 1 <= i /\ (i = n + 1 \/ i \in DOMAIN F)
  BY <1>1, <1>2
<1> HIDE DEF G, n
<1>4. NotAhead(Resync, r) /\ Newer(Resync, m.known)
  BY <1>1 DEF NotAhead, Newer
<1>5. Dated(G, m, r)
  <2>1. \A i \in DOMAIN G : NotAhead(G[i], r) /\ Newer(G[i], m.known)
    BY <1>2, <1>3, <1>4 DEF Dated
  <2>2. ASSUME NEW i \in DOMAIN G, NEW j \in DOMAIN G, i < j PROVE Before(G[i], G[j])
    <3>1. i \in DOMAIN F
      BY <1>1, <1>2, <2>2
    <3>2. CASE j \in DOMAIN F
      BY <1>2, <2>2, <3>1, <3>2 DEF Dated
    <3>3. CASE j = n + 1
      BY <1>1, <1>2, <3>3 DEF Before, Newer
    <3> QED
      BY <1>3, <3>2, <3>3
  <2> QED
    BY <2>1, <2>2 DEF Dated
<1>6. Numbered(G, m)
  <2> SUFFICES ASSUME NEW i \in DOMAIN G PROVE Linked(G, m, i)
    BY DEF Numbered
  <2>1. CASE i = n + 1
    BY <1>1, <1>2, <2>1 DEF Linked
  <2>2. CASE i \in DOMAIN F
    <3>1. i # 1 => i - 1 \in 1..n
      BY <1>1, <1>2, <2>2
    <3>2. G[i] = F[i] /\ (i # 1 => G[i - 1] = F[i - 1])
      BY <1>2, <2>2, <3>1
    <3> QED
      BY <2>2, <3>2 DEF Numbered, Linked
  <2> QED
    BY <1>3, <2>1, <2>2
<1> QED
  BY <1>5, <1>6 DEF G

\* What a subscriber in step reads next fits.
LEMMA HeadFits ==
  ASSUME NEW F \in Seq(Frames), F # <<>>, NEW m \in Mirror, NEW r \in Revisions,
         Dated(F, m, r), Numbered(F, m), F[1].kind = "delta"
  PROVE  m.synced /\ F[1].seq = m.seq + 1 /\ F[1].rev > m.known[F[1].session]
<1>1. 1 \in DOMAIN F /\ F[1] \in Frames
  OBVIOUS
<1>2. F[1].rev \in Nat /\ F[1].session \in Sessions /\ m.known[F[1].session] \in Nat
  BY <1>1, FrameTypes, MirrorTypes DEF Revisions
<1>3. Linked(F, m, 1) /\ Newer(F[1], m.known)
  BY <1>1 DEF Numbered, Dated
<1> QED
  BY <1>2, <1>3 DEF Linked, Newer

\* What a subscriber knows after it has read a frame.
Reads(m, f) ==
  IF f.kind = "snapshot" THEN Synced(f) ELSE IF f.kind = "delta" THEN Applied(m, f) ELSE Lost(m)

\* A subscriber that reads a frame still knows one revision of each session.
LEMMA ReadsType ==
  ASSUME NEW m \in Mirror, NEW f \in Frames
  PROVE  Reads(m, f) \in Mirror
<1>1. CASE f.kind = "snapshot"
  BY <1>1, FrameTypes DEF Reads, Synced, Mirror, Revisions
<1>2. CASE f.kind = "delta"
  BY <1>2, FrameTypes DEF Reads, Applied, Mirror, Revisions
<1>3. CASE f.kind = "resync"
  BY <1>3 DEF Reads, Lost, Mirror
<1> QED
  BY <1>1, <1>2, <1>3, FrameTypes

\* Reading the first frame leaves the rest a continuation of what is known.
LEMMA ReadsHead ==
  ASSUME NEW F \in Seq(Frames), F # <<>>, NEW m \in Mirror, NEW r \in Revisions, NEW k \in Nat,
         NEW needs \in BOOLEAN, Follows(F, m, r, k, needs)
  PROVE  Follows(Tail(F), Reads(m, F[1]), r, k, needs)
<1> DEFINE f == F[1]
           G == Tail(F)
           x == Reads(m, f)
           n == Len(F)
<1>1. /\ n \in Nat /\ n > 0 /\ DOMAIN F = 1..n /\ f \in Frames /\ 1 \in DOMAIN F
      /\ G \in Seq(Frames) /\ Len(G) = n - 1 /\ DOMAIN G = 1..(n - 1)
      /\ \A i \in DOMAIN G : i + 1 \in DOMAIN F /\ 1 < i + 1 /\ G[i] = F[i + 1]
  BY HeadTailProperties
<1>2. x \in Mirror /\ x.known \in Revisions /\ m.known \in Revisions /\ m.seq \in Nat
  BY <1>1, ReadsType, MirrorTypes
<1>3. Dated(F, m, r) /\ Numbered(F, m)
  BY DEF Follows
<1>4. /\ f.kind = "snapshot" => x.known = f.known /\ x.synced /\ x.seq = f.seq
      /\ f.kind = "delta" => /\ x.synced = m.synced /\ x.seq = f.seq
                             /\ \A s \in Sessions :
                                  x.known[s] = IF s = f.session THEN f.rev ELSE m.known[s]
      /\ f.kind = "resync" => x.known = m.known
  <2>1. CASE f.kind = "snapshot"
    BY <2>1 DEF Reads, Synced
  <2>2. CASE f.kind = "delta"
    BY <1>1, <2>2, FrameTypes DEF Reads, Applied, Mirror, Revisions
  <2>3. CASE f.kind = "resync"
    BY <2>3 DEF Reads, Lost, Mirror
  <2> QED
    BY <1>1, <2>1, <2>2, <2>3, FrameTypes
<1>5. f.kind = "delta" => m.synced /\ f.seq = m.seq + 1 /\ f.rev > m.known[f.session]
  BY <1>3, HeadFits
<1>6. NotAhead(f, r) /\ Newer(f, m.known) /\ \A s \in Sessions : m.known[s] <= r[s]
  BY <1>1, <1>3 DEF Dated
<1>7. \A i \in DOMAIN G : G[i] \in Frames /\ NotAhead(G[i], r) /\ Newer(G[i], m.known) /\ Before(f, G[i])
  BY <1>1, <1>3 DEF Dated
<1> HIDE DEF f, G, x, n
<1>8. Dated(G, x, r)
  <2>1. \A s \in Sessions : x.known[s] <= r[s]
    <3>1. CASE f.kind = "snapshot"
      BY <1>4, <1>6, <3>1 DEF NotAhead
    <3>2. CASE f.kind = "delta"
      BY <1>4, <1>6, <3>2 DEF NotAhead
    <3>3. CASE f.kind = "resync"
      BY <1>4, <1>6, <3>3
    <3> QED
      BY <1>1, <3>1, <3>2, <3>3, FrameTypes
  <2>2. ASSUME NEW i \in DOMAIN G PROVE Newer(G[i], x.known)
    <3>1. CASE f.kind = "snapshot"
      BY <1>4, <1>7, <3>1 DEF Before
    <3>2. CASE f.kind = "delta"
      <4>1. G[i].kind = "delta" => x.known[G[i].session] < G[i].rev
        BY <1>4, <1>7, <3>2, FrameTypes DEF Before, Newer
      <4>2. G[i].kind = "snapshot" => \A s \in Sessions : x.known[s] <= G[i].known[s]
        BY <1>4, <1>7, <3>2 DEF Before, Newer, NotAhead
      <4> QED
        BY <4>1, <4>2 DEF Newer
    <3>3. CASE f.kind = "resync"
      BY <1>4, <1>7, <3>3
    <3> QED
      BY <1>1, <3>1, <3>2, <3>3, FrameTypes
  <2>3. \A i, j \in DOMAIN G : i < j => Before(G[i], G[j])
    <3> TAKE i, j \in DOMAIN G
    <3> HAVE i < j
    <3>1. i + 1 < j + 1
      BY <1>1
    <3> QED
      BY <1>1, <1>3, <3>1 DEF Dated
  <2> QED
    BY <1>7, <2>1, <2>2, <2>3 DEF Dated
<1>9. Numbered(G, x)
  <2> SUFFICES ASSUME NEW i \in DOMAIN G PROVE Linked(G, x, i)
    BY DEF Numbered
  <2>0. i \in Nat /\ i >= 1
    BY <1>1
  <2>1. Linked(F, m, i + 1) /\ i + 1 # 1 /\ (i + 1) - 1 = i /\ G[i] = F[i + 1]
    BY <1>1, <1>3, <2>0 DEF Numbered
  <2>2. CASE i = 1
    <3>1. F[i] = f
      BY <2>2 DEF f
    <3>2. f.kind # "resync" => x.synced /\ x.seq = f.seq
      BY <1>1, <1>4, <1>5, FrameTypes
    <3> QED
      BY <2>1, <2>2, <3>1, <3>2 DEF Linked
  <2>3. CASE i # 1
    <3>1. i - 1 \in DOMAIN G /\ (i - 1) + 1 = i
      BY <1>1, <2>3
    <3>2. G[i - 1] = F[i]
      BY <1>1, <3>1
    <3> QED
      BY <2>1, <2>3, <3>2 DEF Linked
  <2> QED
    BY <2>2, <2>3
<1>10. ASSUME ~ needs PROVE Reaches(G, x, k)
  <2>1. F[n].kind # "resync" /\ F[n].seq = k
    BY <1>10 DEF Follows, Reaches, n
  <2>2. CASE n = 1
    <3>1. F[n] = f /\ G = <<>>
      BY <1>1, <2>2 DEF f
    <3>2. x.synced /\ x.seq = k
      BY <1>1, <1>4, <1>5, <2>1, <3>1, FrameTypes
    <3> QED
      BY <3>1, <3>2 DEF Reaches
  <2>3. CASE n # 1
    <3>1. n - 1 \in DOMAIN G /\ (n - 1) + 1 = n
      BY <1>1, <2>3
    <3>2. G[n - 1] = F[n] /\ G # <<>>
      BY <1>1, <3>1
    <3> QED
      BY <1>1, <2>1, <3>2 DEF Reaches
  <2> QED
    BY <2>2, <2>3
<1>11. ASSUME ~ needs PROVE Complete(G, x, r)
  <2> SUFFICES ASSUME NEW s \in Sessions
               PROVE x.known[s] = r[s] \/ \E i \in DOMAIN G : Tells(G[i], s, r[s])
    BY DEF Complete
  <2>1. m.known[s] = r[s] \/ \E i \in DOMAIN F : Tells(F[i], s, r[s])
    BY <1>11 DEF Follows, Complete
  <2>2. r[s] \in Nat /\ m.known[s] \in Nat /\ x.known[s] \in Nat
    BY <1>2 DEF Revisions
  <2>3. CASE m.known[s] = r[s]
    <3>1. CASE f.kind = "snapshot"
      <4>1. r[s] <= f.known[s] /\ f.known[s] <= r[s] /\ f.known[s] \in Nat
        BY <1>4, <1>2, <1>6, <2>3, <3>1 DEF Newer, NotAhead, Revisions
      <4>2. f.known[s] = r[s]
        BY <2>2, <4>1
      <4> QED
        BY <1>4, <3>1, <4>2
    <3>2. CASE f.kind = "delta"
      <4>1. f.session \in Sessions /\ f.rev \in Nat
        BY <1>1, <3>2, FrameTypes
      <4>2. s = f.session => m.known[s] < f.rev /\ f.rev <= r[s]
        BY <1>6, <3>2 DEF Newer, NotAhead
      <4>3. s # f.session
        BY <2>2, <2>3, <4>1, <4>2
      <4> QED
        BY <1>4, <2>3, <3>2, <4>3
    <3>3. CASE f.kind = "resync"
      BY <1>4, <2>3, <3>3
    <3> QED
      BY <1>1, <3>1, <3>2, <3>3, FrameTypes
  <2>4. CASE \E i \in DOMAIN F : Tells(F[i], s, r[s])
    <3>1. PICK i \in DOMAIN F : Tells(F[i], s, r[s])
      BY <2>4
    <3>2. CASE i = 1
      BY <1>4, <3>1, <3>2 DEF Tells, f
    <3>3. CASE i # 1
      <4>1. i - 1 \in DOMAIN G /\ (i - 1) + 1 = i
        BY <1>1, <3>3
      <4>2. G[i - 1] = F[i]
        BY <1>1, <4>1
      <4> QED
        BY <3>1, <4>1, <4>2
    <3> QED
      BY <3>2, <3>3
  <2> QED
    BY <2>1, <2>3, <2>4
<1> QED
  BY <1>8, <1>9, <1>10, <1>11 DEF Follows, G, x, f

-----------------------------------------------------------------------------
(* Sessions change.                                                          *)

\* Without news nothing has changed.
LEMMA NoChange ==
  ASSUME NEW changed \in SUBSET Sessions, NEW r \in Revisions, NEW k \in Nat,
         NEW ev, News(ev, changed, r, k), ev = <<>>
  PROVE  changed = {}
  BY DEF News

\* What Change does to the revisions, the numbers and the published revisions.
LEMMA ChangeFacts ==
  ASSUME NEW changed \in SUBSET Sessions, NEW reset, TypeOK, Published, Change(changed, reset)
  PROVE  /\ rev \in Revisions /\ rev' \in Revisions /\ seq \in Nat /\ seq' \in Nat /\ Published'
         /\ News(Events(changed), changed, rev, seq) /\ seq' = seq + Len(Events(changed))
         /\ \A s \in Sessions : rev'[s] = IF s \in changed THEN rev[s] + 1 ELSE rev[s]
         /\ \A s \in Sessions : rev[s] <= rev'[s]
<1>1. rev \in Revisions /\ seq \in Nat
  BY DEF TypeOK, Revisions
<1>2. News(Events(changed), changed, rev, seq)
  BY <1>1, EventsType
<1>3. /\ rev' = [s \in Sessions |-> IF s \in changed THEN rev[s] + 1 ELSE rev[s]]
      /\ published' = [s \in Sessions |-> IF s \in changed THEN rev'[s] ELSE published[s]]
      /\ seq' = seq + Len(Events(changed))
  BY DEF Change
<1>4. rev' \in Revisions /\ \A s \in Sessions : rev[s] <= rev'[s]
  BY <1>1, <1>3 DEF Revisions
<1>5. published' = rev'
  BY <1>1, <1>3, <1>4 DEF Published, Revisions
<1>6. seq' \in Nat
  BY <1>1, <1>2, <1>3 DEF News
<1> QED
  BY <1>1, <1>2, <1>3, <1>4, <1>5, <1>6 DEF Published

\* A queue that takes changes stays a queue, within its capacity.
LEMMA PushedType ==
  ASSUME NEW q \in Queue, Len(q.events) <= Capacity, NEW ev \in Seq(Delta),
         q.needs => q.events = <<>>
  PROVE  /\ Pushed(q, ev) \in Queue /\ Len(Pushed(q, ev).events) <= Capacity
         /\ Pushed(q, ev).open = q.open
         /\ Pushed(q, ev).needs => Pushed(q, ev).events = <<>>
<1>1. q.events \in Seq(Delta) /\ Capacity \in Nat
  BY LimitsAssumption DEF Queue
<1>2. CASE ev = <<>> \/ q.needs \/ ~ q.open
  BY <1>2 DEF Pushed
<1>3. CASE ~ (ev = <<>> \/ q.needs \/ ~ q.open) /\ Len(q.events) + Len(ev) <= Capacity
  <2>1. Pushed(q, ev) = [q EXCEPT !.events = q.events \o ev]
    BY <1>3 DEF Pushed
  <2>2. q.events \o ev \in Seq(Delta) /\ Len(q.events \o ev) <= Capacity
    BY <1>1, <1>3
  <2> QED
    BY <1>3, <2>1, <2>2 DEF Queue
<1>4. CASE ~ (ev = <<>> \/ q.needs \/ ~ q.open) /\ ~ (Len(q.events) + Len(ev) <= Capacity)
  <2>1. Pushed(q, ev) = [q EXCEPT !.events = <<>>, !.needs = TRUE, !.told = FALSE]
    BY <1>4 DEF Pushed
  <2>2. <<>> \in Seq(Delta) /\ Len(<<>>) = 0 /\ 0 <= Capacity
    BY <1>1
  <2>3. Pushed(q, ev) \in Queue /\ Pushed(q, ev).events = <<>> /\ Pushed(q, ev).open = q.open
    BY <2>1, <2>2 DEF Queue
  <2> QED
    BY <2>2, <2>3
<1> QED
  BY <1>2, <1>3, <1>4

\* A subscriber that is pushed the changes still follows.
LEMMA PushedFollows ==
  ASSUME NEW W \in Seq(Frames), NEW q \in Queue, q.open, q.needs => q.events = <<>>,
         NEW m \in Mirror, NEW r \in Revisions, NEW r2 \in Revisions, NEW k \in Nat,
         NEW changed \in SUBSET Sessions, NEW ev, News(ev, changed, r, k),
         \A s \in Sessions : r2[s] = IF s \in changed THEN r[s] + 1 ELSE r[s],
         Follows(W \o q.events, m, r, k, q.needs)
  PROVE  Follows(W \o Pushed(q, ev).events, m, r2, k + Len(ev), Pushed(q, ev).needs)
<1>1. /\ q.events \in Seq(Frames) /\ ev \in Seq(Frames) /\ ev \in Seq(Delta)
      /\ W \o q.events \in Seq(Frames) /\ q.needs \in BOOLEAN
  BY DeltaTypes DEF Queue, News
<1>2. \A s \in Sessions : r[s] <= r2[s]
  BY DEF Revisions
<1>3. Dated(W \o q.events, m, r) /\ Numbered(W \o q.events, m)
  BY DEF Follows
<1>4. CASE ev = <<>>
  <2>1. r2 = r /\ k + Len(ev) = k /\ Pushed(q, ev) = q
    BY <1>4, NoChange DEF Revisions, Pushed
  <2> QED
    BY <2>1
<1>5. CASE ev # <<>> /\ q.needs
  <2>1. Pushed(q, ev) = q
    BY <1>5 DEF Pushed
  <2>2. Dated(W \o q.events, m, r2)
    BY <1>1, <1>2, <1>3, DatedLater
  <2> QED
    BY <1>3, <1>5, <2>1, <2>2 DEF Follows
<1>6. CASE ev # <<>> /\ ~ q.needs /\ Len(q.events) + Len(ev) <= Capacity
  <2>1. Pushed(q, ev) = [q EXCEPT !.events = q.events \o ev]
    BY <1>6 DEF Pushed
  <2>2. Pushed(q, ev).events = q.events \o ev /\ Pushed(q, ev).needs = FALSE
    BY <1>1, <1>6, <2>1 DEF Queue
  <2>3. (W \o q.events) \o ev = W \o (q.events \o ev)
    <3> DEFINE E == q.events
    <3>1. E \in Seq(Frames)
      BY <1>1
    <3> HIDE DEF E
    <3>2. (W \o E) \o ev = W \o (E \o ev)
      BY <1>1, <3>1, ConcatAssociative
    <3> QED
      BY <3>2 DEF E
  <2>4. Follows(W \o q.events, m, r, k, FALSE)
    BY <1>1, <1>6
  <2>5. Follows((W \o q.events) \o ev, m, r2, k + Len(ev), FALSE)
    BY <1>1, <2>4, Grows
  <2> QED
    BY <2>2, <2>3, <2>5
<1>7. CASE ev # <<>> /\ ~ q.needs /\ ~ (Len(q.events) + Len(ev) <= Capacity)
  <2>1. Pushed(q, ev) = [q EXCEPT !.events = <<>>, !.needs = TRUE, !.told = FALSE]
    BY <1>7 DEF Pushed
  <2>2. Pushed(q, ev).events = <<>> /\ Pushed(q, ev).needs = TRUE
    BY <2>1 DEF Queue
  <2>3. W \o <<>> = W
    OBVIOUS
  <2>4. Dated(W, m, r) /\ Numbered(W, m)
    BY <1>1, <1>3, Cut
  <2>5. Dated(W, m, r2)
    BY <1>2, <2>4, DatedLater
  <2> QED
    BY <2>2, <2>3, <2>4, <2>5 DEF Follows
<1> QED
  BY <1>4, <1>5, <1>6, <1>7

\* The types of what one subscriber has waiting, and knows.
LEMMA SubscriberTypes ==
  ASSUME TypeOK, NEW c \in Subscribers
  PROVE  /\ queue[c] \in Queue /\ queue[c].events \in Seq(Delta) /\ queue[c].needs \in BOOLEAN
         /\ queue[c].open \in BOOLEAN /\ queue[c].told \in BOOLEAN
         /\ Len(queue[c].events) <= Capacity /\ mirror[c] \in Mirror
         /\ Sent(c) \in Seq(Frames) /\ Coming(c) \in Seq(Frames)
<1>1. /\ queue[c] \in Queue /\ queue[c].events \in Seq(Delta) /\ queue[c].needs \in BOOLEAN
      /\ queue[c].open \in BOOLEAN /\ queue[c].told \in BOOLEAN
      /\ Len(queue[c].events) <= Capacity /\ mirror[c] \in Mirror
  BY DEF TypeOK, Queue
<1>2. Sent(c) \in Seq(Frames)
  BY DEF TypeOK, Sent, Frames
<1>3. queue[c].events \in Seq(Frames)
  BY <1>1, DeltaTypes
<1> QED
  BY <1>1, <1>2, <1>3 DEF Coming

\* Nothing of the subscriber changes.
LEMMA Untouched ==
  ASSUME NEW c \in Subscribers, InStep(c), rev' = rev, seq' = seq, queue'[c] = queue[c],
         mirror'[c] = mirror[c], wire'[c] = wire[c] \/ c \notin Remote
  PROVE  InStep(c)'
<1>1. Sent(c)' = Sent(c)
  BY DEF Sent
<1>2. Coming(c)' = Coming(c)
  BY <1>1 DEF Coming
<1> QED
  BY <1>2 DEF InStep

\* Sessions change; the subscriber reads no snapshot.
LEMMA Hears ==
  ASSUME NEW changed \in SUBSET Sessions, NEW reset, TypeOK, Published, Change(changed, reset),
         NEW c \in Subscribers, c \notin reset, InStep(c),
         mirror'[c] = mirror[c], wire'[c] = wire[c] \/ c \notin Remote
  PROVE  InStep(c)'
<1> DEFINE ev == Events(changed)
           q == queue[c]
<1>1. queue'[c] = Pushed(q, ev)
  BY DEF Change
<1>2. /\ q \in Queue /\ Len(q.events) <= Capacity /\ mirror[c] \in Mirror
      /\ Sent(c) \in Seq(Frames) /\ (q.needs => q.events = <<>>)
  BY SubscriberTypes DEF InStep
<1>3. /\ rev \in Revisions /\ rev' \in Revisions /\ seq \in Nat
      /\ News(ev, changed, rev, seq) /\ seq' = seq + Len(ev)
      /\ \A s \in Sessions : rev'[s] = IF s \in changed THEN rev[s] + 1 ELSE rev[s]
  BY ChangeFacts
<1>4. ev \in Seq(Delta)
  BY <1>3 DEF News
<1>5. Sent(c)' = Sent(c)
  BY DEF Sent
<1> HIDE DEF ev
<1>6. Pushed(q, ev).open = q.open /\ (Pushed(q, ev).needs => Pushed(q, ev).events = <<>>)
  BY <1>2, <1>4, PushedType
<1>7. ASSUME q.open
      PROVE Follows(Sent(c) \o Pushed(q, ev).events, mirror[c], rev', seq', Pushed(q, ev).needs)
  <2>1. Follows(Sent(c) \o q.events, mirror[c], rev, seq, q.needs)
    BY <1>7 DEF InStep, Coming
  <2> QED
    BY <1>2, <1>3, <1>7, <2>1, PushedFollows
<1> QED
  BY <1>1, <1>5, <1>6, <1>7 DEF InStep, Coming

-----------------------------------------------------------------------------
(* Snapshots.                                                                *)

\* What a snapshot taken now says.
LEMMA TakenType ==
  ASSUME rev' \in Revisions, seq' \in Nat
  PROVE  Taken \in Snapshot /\ Taken.known = rev' /\ Taken.seq = seq' /\ Taken \in Frames
                            /\ Taken.kind = "snapshot"
  BY DEF Taken, Snapshot, Revisions, Frames

\* An emptied queue.
LEMMA OpenedType ==
  /\ Opened \in Queue /\ Opened.open = TRUE /\ Opened.needs = FALSE /\ Opened.told = FALSE
  /\ Opened.events = <<>>
<1>1. <<>> \in Seq(Delta)
  OBVIOUS
<1>2. /\ Closed \in Queue /\ Closed.needs = FALSE /\ Closed.told = FALSE
      /\ Closed.events = <<>>
  BY <1>1 DEF Closed, Queue
<1> QED
  BY <1>2 DEF Opened, Queue

\* A client that has read nothing.
LEMMA BlankType ==
  Blank \in Mirror /\ ~ Blank.synced /\ ~ Blank.pending /\ Blank.known = Unknown /\ Blank.seq = 0
                   /\ \A s \in Sessions : Unknown[s] = 0
  BY DEF Blank, Mirror, Unknown

\* A snapshot is put after all that was sent.
LEMMA Resnapshots ==
  ASSUME NEW changed \in SUBSET Sessions, NEW reset, TypeOK, Published, Change(changed, reset),
         NEW c \in Subscribers, c \in reset, c \in Remote, queue[c].open, InStep(c),
         mirror'[c] = mirror[c], wire'[c] = Append(wire[c], Taken)
  PROVE  InStep(c)'
<1>1. queue'[c] = Opened
  BY DEF Change
<1>2. /\ mirror[c] \in Mirror /\ wire[c] \in Seq(Frames) /\ Sent(c) = wire[c]
      /\ queue[c].events \in Seq(Frames)
  BY SubscriberTypes, DeltaTypes DEF Sent
<1>3. /\ rev \in Revisions /\ rev' \in Revisions /\ seq' \in Nat
      /\ \A s \in Sessions : rev[s] <= rev'[s]
  BY ChangeFacts
<1>4. Dated(wire[c] \o queue[c].events, mirror[c], rev) /\ Numbered(wire[c] \o queue[c].events, mirror[c])
  BY <1>2 DEF InStep, Coming, Follows
<1>5. Dated(wire[c], mirror[c], rev') /\ Numbered(wire[c], mirror[c])
  BY <1>2, <1>3, <1>4, Cut, DatedLater
<1>6. Taken \in Snapshot /\ Taken.known = rev' /\ Taken.seq = seq' /\ Taken \in Frames
  BY <1>3, TakenType
<1>7. Follows(Append(wire[c], Taken), mirror[c], rev', seq', FALSE)
  <2> DEFINE f == Taken
  <2>1. f \in Snapshot /\ f.known = rev' /\ f.seq = seq'
    BY <1>6
  <2> HIDE DEF f
  <2>2. Follows(Append(wire[c], f), mirror[c], rev', seq', FALSE)
    BY <1>2, <1>3, <1>5, <2>1, Refreshed
  <2> QED
    BY <2>2 DEF f
<1>8. Coming(c)' = Append(wire[c], Taken)
  <2>1. Append(wire[c], Taken) \in Seq(Frames)
    BY <1>2, <1>6
  <2>2. Append(wire[c], Taken) \o <<>> = Append(wire[c], Taken)
    BY <2>1
  <2> QED
    BY <1>1, <2>2, OpenedType DEF Coming, Sent
<1>9. c \notin Local
  BY SubscribersAssumption
<1>10. queue'[c].needs = FALSE /\ queue'[c].open = TRUE
  BY <1>1, OpenedType
<1> QED
  BY <1>7, <1>8, <1>9, <1>10 DEF InStep

\* The first snapshot of a connection.
LEMMA Subscribes ==
  ASSUME NEW changed \in SUBSET Sessions, NEW reset, TypeOK, Published, Change(changed, reset),
         NEW c \in Subscribers, c \in reset, c \in Remote,
         mirror'[c] = Blank, wire'[c] = <<Taken>>
  PROVE  InStep(c)'
<1>1. queue'[c] = Opened
  BY DEF Change
<1>2. /\ rev \in Revisions /\ rev' \in Revisions /\ seq' \in Nat
  BY ChangeFacts
<1>3. Taken \in Snapshot /\ Taken.known = rev' /\ Taken.seq = seq' /\ Taken \in Frames
  BY <1>2, TakenType
<1>4. Follows(<<Taken>>, Blank, rev', seq', FALSE)
  <2> DEFINE f == Taken
             m == Blank
  <2>1. f \in Snapshot /\ f.known = rev' /\ f.seq = seq'
    BY <1>3
  <2>2. m \in Mirror /\ \A s \in Sessions : m.known[s] = 0
    BY BlankType
  <2> HIDE DEF f, m
  <2>3. Dated(<<>>, m, rev')
    BY <1>2, <2>2 DEF Dated, Revisions
  <2>4. Numbered(<<>>, m)
    BY DEF Numbered
  <2>5. <<>> \in Seq(Frames)
    OBVIOUS
  <2>6. Follows(Append(<<>>, f), m, rev', seq', FALSE)
    BY <1>2, <2>1, <2>2, <2>3, <2>4, <2>5, Refreshed
  <2>7. Append(<<>>, f) = <<f>>
    OBVIOUS
  <2> QED
    BY <2>6, <2>7 DEF f, m
<1>5. Coming(c)' = <<Taken>>
  <2>1. <<Taken>> \o <<>> = <<Taken>>
    BY <1>3
  <2> QED
    BY <1>1, <2>1, OpenedType DEF Coming, Sent
<1>6. c \notin Local
  BY SubscribersAssumption
<1>10. queue'[c].needs = FALSE /\ queue'[c].open = TRUE
  BY <1>1, OpenedType
<1> QED
  BY <1>4, <1>5, <1>6, <1>10 DEF InStep

\* A task reads the snapshot itself.
LEMMA Rereads ==
  ASSUME NEW changed \in SUBSET Sessions, NEW reset, TypeOK, Published, Change(changed, reset),
         NEW c \in Subscribers, c \in reset, c \in Local, mirror'[c] = Synced(Taken)
  PROVE  InStep(c)'
<1>1. queue'[c] = Opened
  BY DEF Change
<1>2. rev' \in Revisions /\ seq' \in Nat
  BY ChangeFacts
<1>3. Taken \in Snapshot /\ Taken.known = rev' /\ Taken.seq = seq' /\ Taken \in Frames
  BY <1>2, TakenType
<1> DEFINE m == Synced(Taken)
<1>4. m.synced = TRUE /\ m.pending = FALSE /\ m.seq = seq' /\ m.known = rev'
  BY <1>3 DEF Synced
<1>5. c \notin Remote
  BY SubscribersAssumption
<1>6. Coming(c)' = <<>>
  BY <1>1, <1>5, OpenedType DEF Coming, Sent
<1> HIDE DEF m
<1>7. Follows(<<>>, m, rev', seq', FALSE)
  <2>1. Dated(<<>>, m, rev')
    BY <1>2, <1>4 DEF Dated, Revisions
  <2>2. Numbered(<<>>, m) /\ Reaches(<<>>, m, seq') /\ Complete(<<>>, m, rev')
    BY <1>4 DEF Numbered, Reaches, Complete
  <2> QED
    BY <2>1, <2>2 DEF Follows
<1>8. mirror'[c] = m
  BY DEF m
<1>10. queue'[c].needs = FALSE /\ queue'[c].open = TRUE
  BY <1>1, OpenedType
<1> QED
  BY <1>4, <1>6, <1>7, <1>8, <1>10 DEF InStep

-----------------------------------------------------------------------------
(* A frame is forwarded, observed or taken.                                  *)

\* What recv returns: the resync first, else the oldest change.
LEMMA ReceivedTypes ==
  ASSUME TypeOK, NEW c \in Subscribers, InStep(c), Waiting(c)
  PROVE  /\ Received(c) \in Frames
         /\ \/ /\ queue[c].needs /\ ~ queue[c].told /\ Received(c) = Resync
               /\ Dequeued(c) = [queue EXCEPT ![c].told = TRUE] /\ queue[c].events = <<>>
            \/ /\ queue[c].events # <<>> /\ Received(c) = Head(queue[c].events)
               /\ Dequeued(c) = [queue EXCEPT ![c].events = Tail(@)] /\ ~ queue[c].needs
               /\ Received(c) \in Delta /\ Received(c).kind = "delta"
<1>1. queue[c].needs => queue[c].events = <<>>
  BY DEF InStep
<1>2. CASE queue[c].needs /\ ~ queue[c].told
  BY <1>1, <1>2 DEF Received, Dequeued, Frames
<1>3. CASE ~ (queue[c].needs /\ ~ queue[c].told)
  <2>1. queue[c].events # <<>> /\ ~ queue[c].needs
    BY <1>1, <1>3 DEF Waiting
  <2>2. Head(queue[c].events) \in Delta
    BY <2>1, SubscriberTypes
  <2>3. Received(c) = Head(queue[c].events) /\ Dequeued(c) = [queue EXCEPT ![c].events = Tail(@)]
    BY <1>3 DEF Received, Dequeued
  <2>4. Received(c) \in Frames /\ Received(c).kind = "delta"
    BY <2>2, <2>3, DeltaTypes
  <2> QED
    BY <2>1, <2>2, <2>3, <2>4
<1> QED
  BY <1>2, <1>3

\* A frame that goes from the queue to the wire changes nothing of what is coming.
LEMMA Forwards ==
  ASSUME TypeOK, NEW c \in Remote, InStep(c), Forward(c)
  PROVE  InStep(c)'
<1>1. c \in Subscribers /\ c \notin Local
  BY SubscribersAssumption DEF Subscribers
<1>2. /\ Waiting(c) /\ queue[c].open /\ wire'[c] = Append(wire[c], Received(c)) /\ queue' = Dequeued(c)
      /\ rev' = rev /\ seq' = seq /\ mirror'[c] = mirror[c]
  BY <1>1 DEF Forward, Room, store, TypeOK
<1> DEFINE W == wire[c]
           E == queue[c].events
<1>3. /\ W \in Seq(Frames) /\ E \in Seq(Frames) /\ mirror[c] \in Mirror /\ rev \in Revisions
      /\ queue[c] \in Queue
  BY <1>1, SubscriberTypes, DeltaTypes DEF Sent, TypeOK, Revisions
<1>4. Follows(W \o E, mirror[c], rev, seq, queue[c].needs)
  BY <1>2 DEF InStep, Coming, Sent
<1>5. Coming(c)' = wire'[c] \o queue'[c].events
  BY DEF Coming, Sent
<1>6. CASE queue[c].events # <<>> /\ Received(c) = Head(queue[c].events)
           /\ Dequeued(c) = [queue EXCEPT ![c].events = Tail(@)] /\ ~ queue[c].needs
  <2>1. queue'[c] = [queue[c] EXCEPT !.events = Tail(E)]
    BY <1>1, <1>2, <1>6 DEF TypeOK
  <2>2. queue'[c].events = Tail(E) /\ queue'[c].open /\ queue'[c].needs = queue[c].needs
    BY <1>2, <1>3, <2>1 DEF Queue
  <2>3. Append(W, Head(E)) \o Tail(E) = W \o E
    <3>1. W \in Seq(Frames) /\ E \in Seq(Frames) /\ E # <<>>
      BY <1>3, <1>6
    <3> HIDE DEF W, E
    <3> QED
      BY <3>1
  <2> QED
    BY <1>1, <1>2, <1>4, <1>5, <1>6, <2>2, <2>3 DEF InStep
<1>7. CASE queue[c].needs /\ ~ queue[c].told /\ Received(c) = Resync
           /\ Dequeued(c) = [queue EXCEPT ![c].told = TRUE] /\ queue[c].events = <<>>
  <2>1. queue'[c] = [queue[c] EXCEPT !.told = TRUE]
    BY <1>1, <1>2, <1>7 DEF TypeOK
  <2>2. queue'[c].events = <<>> /\ queue'[c].open /\ queue'[c].needs
    BY <1>2, <1>3, <1>7, <2>1 DEF Queue
  <2>3. W \o E = W /\ Append(W, Resync) \o <<>> = Append(W, Resync)
    BY <1>3, <1>7 DEF Frames
  <2>4. Dated(W, mirror[c], rev) /\ Numbered(W, mirror[c])
    BY <1>4, <2>3 DEF Follows
  <2>5. Dated(Append(W, Resync), mirror[c], rev) /\ Numbered(Append(W, Resync), mirror[c])
    BY <1>3, <2>4, Called
  <2> QED
    BY <1>1, <1>2, <1>5, <1>7, <2>2, <2>3, <2>5 DEF InStep, Follows
<1> QED
  BY <1>1, <1>2, <1>6, <1>7, ReceivedTypes

\* What the client makes of the frame is what the frame says.
LEMMA ObservesHead ==
  ASSUME TypeOK, NEW c \in Remote, InStep(c), Observe(c)
  PROVE  /\ mirror'[c] = Reads(mirror[c], Head(wire[c])) /\ Head(wire[c]) \in Frames
         /\ mirror[c].synced /\ ~ mirror'[c].synced => Head(wire[c]) = Resync
<1>1. c \in Subscribers /\ c \notin Local
  BY SubscribersAssumption DEF Subscribers
<1> DEFINE f == Head(wire[c])
           m == mirror[c]
           F == Coming(c)
<1>2. /\ wire[c] # <<>> /\ wire[c] \in Seq(Frames) /\ queue[c].open /\ m \in Mirror
      /\ queue[c].events \in Seq(Frames)
  BY <1>1, SubscriberTypes, DeltaTypes DEF Observe, Sent
<1>3. f \in Frames /\ F \in Seq(Frames) /\ F # <<>> /\ F[1] = f
  <2> DEFINE W == wire[c]
             E == queue[c].events
  <2>1. F = W \o E
    BY DEF Coming, Sent
  <2>2. W # <<>> /\ W \in Seq(Frames) /\ E \in Seq(Frames) /\ f = Head(W)
    BY <1>2
  <2> HIDE DEF W, E, F, f
  <2> QED
    BY <2>1, <2>2
<1>4. f.kind = "delta" => Fits(m, f)
  <2>1. Dated(F, m, rev) /\ Numbered(F, m) /\ rev \in Revisions
    BY <1>2 DEF InStep, Follows, TypeOK, Revisions
  <2> HIDE DEF F, m, f
  <2>2. F[1].kind = "delta" => m.synced /\ F[1].seq = m.seq + 1 /\ F[1].rev > m.known[F[1].session]
    BY <1>2, <1>3, <2>1, HeadFits
  <2> QED
    BY <1>3, <2>2 DEF Fits
<1>5. mirror'[c] = IF f.kind = "snapshot" THEN Synced(f)
                   ELSE IF f.kind = "delta" /\ Fits(m, f) THEN Applied(m, f) ELSE Lost(m)
  BY <1>1 DEF Observe, TypeOK
<1>6. mirror'[c] = Reads(m, f)
  BY <1>4, <1>5 DEF Reads
<1>7. ASSUME m.synced, ~ mirror'[c].synced PROVE f = Resync
  <2>1. f.kind # "snapshot"
    BY <1>6, <1>7 DEF Reads, Synced
  <2>2. f.kind = "delta" => Reads(m, f).synced = m.synced
    BY <1>2 DEF Reads, Applied, Mirror
  <2> QED
    BY <1>3, <1>6, <1>7, <2>1, <2>2, FrameTypes
<1> QED
  BY <1>3, <1>6, <1>7

\* A client that reads a frame stays in step with what is coming.
LEMMA Observes ==
  ASSUME TypeOK, NEW c \in Remote, InStep(c), Observe(c)
  PROVE  InStep(c)'
<1>1. c \in Subscribers /\ c \notin Local
  BY SubscribersAssumption DEF Subscribers
<1> DEFINE W == wire[c]
           E == queue[c].events
           m == mirror[c]
<1>2. /\ queue'[c] = queue[c] /\ rev' = rev /\ seq' = seq /\ wire'[c] = Tail(W)
      /\ W # <<>> /\ queue[c].open
  BY <1>1 DEF Observe, feed, store, TypeOK
<1>3. /\ W \in Seq(Frames) /\ E \in Seq(Frames) /\ m \in Mirror /\ rev \in Revisions /\ seq \in Nat
      /\ queue[c].needs \in BOOLEAN
  BY <1>1, SubscriberTypes, DeltaTypes DEF Sent, TypeOK, Revisions
<1>4. mirror'[c] = Reads(m, Head(W))
  BY ObservesHead
<1>5. Follows(W \o E, m, rev, seq, queue[c].needs)
  BY <1>2 DEF InStep, Coming, Sent
<1>6. Coming(c)' = Tail(W) \o E
  BY <1>2 DEF Coming, Sent
<1> HIDE DEF W, E, m
<1>7. /\ W \o E \in Seq(Frames) /\ W \o E # <<>> /\ (W \o E)[1] = Head(W)
      /\ Tail(W \o E) = Tail(W) \o E
  BY <1>2, <1>3
<1>8. Follows(Tail(W \o E), Reads(m, (W \o E)[1]), rev, seq, queue[c].needs)
  BY <1>3, <1>5, <1>7, ReadsHead
<1> QED
  BY <1>1, <1>2, <1>4, <1>6, <1>7, <1>8 DEF InStep

\* What a task takes it reads as a client would; only a resync costs it the step.
LEMMA TakesHead ==
  ASSUME TypeOK, NEW c \in Local, InStep(c), Take(c)
  PROVE  /\ mirror'[c] = Reads(mirror[c], Received(c)) /\ Received(c) \in Frames
         /\ mirror[c].synced /\ ~ mirror'[c].synced => Received(c) = Resync
<1>1. c \in Subscribers /\ c \notin Remote
  BY SubscribersAssumption DEF Subscribers
<1> DEFINE f == Received(c)
           m == mirror[c]
           F == Coming(c)
<1>2. /\ Waiting(c) /\ queue[c].open /\ m \in Mirror /\ queue[c].events \in Seq(Frames)
      /\ rev \in Revisions /\ f \in Frames
  BY <1>1, SubscriberTypes, DeltaTypes, ReceivedTypes DEF Take, Waiting, TypeOK, Revisions
<1>3. mirror'[c] = IF f.kind = "delta" /\ f.seq = m.seq + 1 THEN Applied(m, f) ELSE Lost(m)
  BY <1>1 DEF Take, TypeOK
<1>4. f.kind = "delta" => m.synced /\ f.seq = m.seq + 1
  <2> SUFFICES ASSUME f.kind = "delta" PROVE m.synced /\ f.seq = m.seq + 1
    OBVIOUS
  <2>1. queue[c].events # <<>> /\ f = Head(queue[c].events)
    <3>1. Resync.kind # "delta"
      BY DEF Resync
    <3> QED
      BY <1>1, <1>2, <3>1, ReceivedTypes
  <2>2. F = queue[c].events
    BY <1>1, <1>2 DEF Coming, Sent
  <2>3. Dated(F, m, rev) /\ Numbered(F, m)
    BY <1>2 DEF InStep, Follows
  <2>4. F \in Seq(Frames) /\ F # <<>> /\ F[1] = f
    BY <1>2, <2>1, <2>2
  <2> HIDE DEF F, m, f
  <2> QED
    BY <1>2, <2>3, <2>4, HeadFits
<1>5. f.kind # "snapshot"
  <2>1. Resync.kind = "resync"
    BY DEF Resync
  <2> QED
    BY <1>1, <1>2, <2>1, ReceivedTypes
<1>6. mirror'[c] = Reads(m, f)
  BY <1>3, <1>4, <1>5 DEF Reads
<1>7. ASSUME m.synced, ~ mirror'[c].synced PROVE f = Resync
  <2>1. f.kind = "delta" => Reads(m, f).synced = m.synced
    BY <1>2 DEF Reads, Applied, Mirror
  <2> QED
    BY <1>2, <1>5, <1>6, <1>7, <2>1, FrameTypes
<1> QED
  BY <1>2, <1>6, <1>7

\* A task that takes an event stays in step with what is coming.
LEMMA Takes ==
  ASSUME TypeOK, NEW c \in Local, InStep(c), Take(c)
  PROVE  InStep(c)'
<1>1. c \in Subscribers /\ c \notin Remote
  BY SubscribersAssumption DEF Subscribers
<1> DEFINE E == queue[c].events
           m == mirror[c]
           f == Received(c)
<1>2. /\ Waiting(c) /\ queue[c].open /\ ~ m.pending /\ queue' = Dequeued(c)
      /\ rev' = rev /\ seq' = seq
  BY DEF Take, Waiting, store
<1>3. /\ E \in Seq(Frames) /\ m \in Mirror /\ rev \in Revisions /\ queue[c] \in Queue /\ seq \in Nat
      /\ m.synced = ~ m.pending /\ queue[c].needs \in BOOLEAN
  BY <1>1, SubscriberTypes, DeltaTypes DEF TypeOK, Revisions, InStep
<1>4. mirror'[c] = Reads(m, f) /\ f \in Frames
  BY TakesHead
<1>5. Follows(E, m, rev, seq, queue[c].needs)
  <2>1. Coming(c) = E
    BY <1>1, <1>3 DEF Coming, Sent
  <2> QED
    BY <1>2, <2>1 DEF InStep
<1>6. Coming(c)' = <<>> \o queue'[c].events
  BY <1>1 DEF Coming, Sent
<1>7. CASE queue[c].events # <<>> /\ Received(c) = Head(queue[c].events)
           /\ Dequeued(c) = [queue EXCEPT ![c].events = Tail(@)] /\ ~ queue[c].needs
           /\ Received(c).kind = "delta"
  <2>1. queue'[c] = [queue[c] EXCEPT !.events = Tail(E)]
    BY <1>1, <1>2, <1>7 DEF TypeOK
  <2>2. queue'[c].events = Tail(E) /\ queue'[c].open /\ queue'[c].needs = queue[c].needs
    BY <1>2, <1>3, <2>1 DEF Queue
  <2>3. f.kind = "delta" /\ E[1] = f /\ E # <<>> /\ Tail(E) \in Seq(Frames)
    BY <1>3, <1>7
  <2>4. Reads(m, f).synced = m.synced /\ Reads(m, f).pending = m.pending
    BY <1>3, <2>3 DEF Reads, Applied, Mirror
  <2>5. <<>> \o Tail(E) = Tail(E)
    BY <2>3
  <2> HIDE DEF E, m, f
  <2>6. Follows(Tail(E), Reads(m, f), rev, seq, queue[c].needs)
    BY <1>3, <1>5, <2>3, ReadsHead
  <2> QED
    BY <1>1, <1>2, <1>3, <1>4, <1>6, <1>7, <2>2, <2>4, <2>5, <2>6 DEF InStep
<1>8. CASE queue[c].needs /\ ~ queue[c].told /\ Received(c) = Resync
           /\ Dequeued(c) = [queue EXCEPT ![c].told = TRUE] /\ queue[c].events = <<>>
  <2>1. queue'[c] = [queue[c] EXCEPT !.told = TRUE]
    BY <1>1, <1>2, <1>8 DEF TypeOK
  <2>2. queue'[c].events = <<>> /\ queue'[c].open /\ queue'[c].needs
    BY <1>2, <1>3, <1>8, <2>1 DEF Queue
  <2>3. Reads(m, f) = Lost(m)
    BY <1>8 DEF Reads, Resync
  <2>4. Lost(m).known = m.known /\ Lost(m).synced = FALSE /\ Lost(m).pending = TRUE
    BY <1>3 DEF Lost, Mirror
  <2>5. Dated(<<>>, Lost(m), rev) /\ Numbered(<<>>, Lost(m))
    BY <1>5, <2>4 DEF Follows, Dated, Numbered
  <2>6. <<>> \o <<>> = <<>>
    OBVIOUS
  <2> QED
    BY <1>1, <1>2, <1>4, <1>6, <1>8, <2>2, <2>3, <2>4, <2>5, <2>6 DEF InStep, Follows
<1> QED
  BY <1>1, <1>2, <1>7, <1>8, ReceivedTypes

-----------------------------------------------------------------------------
(* The window.                                                               *)

\* What a page is.
LEMMA PageTypes ==
  ASSUME NEW p \in PageState
  PROVE  /\ p.at \in {"off", "listening", "asked", "ready"} /\ p.epoch \in BOOLEAN
         /\ p.failed \in BOOLEAN /\ p.seq \in Nat /\ p.known \in Revisions
         /\ p.buffered \in Seq(Delta)
  BY DEF PageState, Revisions

\* The completions of an earlier run, and a change, leave revisions.
LEMMA RetainedType ==
  ASSUME NEW known \in Revisions
  PROVE  /\ Retained(known) \in Revisions
         /\ \A s \in Sessions : Retained(known)[s] = IF known[s] = 0 THEN Kept[s] ELSE known[s]
  BY KeptAssumption DEF Retained, Revisions

LEMMA AppliesType ==
  ASSUME NEW known \in Revisions, NEW e \in Delta
  PROVE  /\ Applies(known, e) \in Revisions
         /\ \A s \in Sessions : s # e.session => Applies(known, e)[s] = known[s]
         /\ Applies(known, e)[e.session] =
              IF e.rev < known[e.session] THEN known[e.session] ELSE e.rev
<1>1. e.session \in Sessions /\ e.rev \in Nat
  BY DeltaTypes
<1> QED
  BY <1>1 DEF Applies, Revisions

\* A page that shows a change is still a page.
LEMMA ShownType ==
  ASSUME NEW p \in PageState, NEW e \in Delta
  PROVE  /\ Shown(p, e) \in PageState /\ Shown(p, e).at = p.at /\ Shown(p, e).failed = p.failed
         /\ Shown(p, e).buffered = p.buffered
<1>1. e.seq \in Nat /\ e.session \in Sessions /\ e.rev \in Nat
  BY DeltaTypes
<1>2. CASE p.epoch /\ e.seq <= p.seq
  BY <1>2 DEF Shown
<1>3. CASE ~ (p.epoch /\ e.seq <= p.seq)
  <2> DEFINE known == IF p.epoch THEN p.known ELSE Unknown
             after == Retained(Applies(known, e))
  <2>1. known \in Revisions
    BY PageTypes DEF Unknown, Revisions
  <2>2. after \in [Sessions -> Nat]
    <3> HIDE DEF known
    <3> QED
      BY <1>1, <2>1, AppliesType, RetainedType DEF Revisions
  <2>3. Shown(p, e) = [p EXCEPT !.epoch = TRUE, !.seq = e.seq, !.known = after]
    BY <1>3 DEF Shown
  <2> HIDE DEF after
  <2> QED
    BY <1>1, <2>2, <2>3 DEF PageState
<1> QED
  BY <1>2, <1>3

\* The replay as a list of stages.
LEMMA ReplayStages ==
  ASSUME NEW p \in PageState, NEW events \in Seq(Delta)
  PROVE  \E f \in [0..Len(events) -> PageState] :
           /\ f[0] = p /\ Replayed(p, events) = [f[Len(events)] EXCEPT !.buffered = <<>>]
           /\ \A i \in 1..Len(events) : f[i] = Shown(f[i - 1], events[i])
<1> DEFINE n == Len(events)
           step == [i \in Nat |-> [a \in PageState |-> IF i \in 1..n THEN Shown(a, events[i]) ELSE a]]
           Rec(f) == [i \in 0..n |-> IF i = 0 THEN p ELSE Shown(f[i - 1], events[i])]
           shown == CHOOSE f : f = Rec(f)
<1>1. n \in Nat /\ \A i \in 1..n : events[i] \in Delta
  OBVIOUS
<1>2. step \in [Nat -> [PageState -> PageState]]
  <2>1. \A i \in Nat : \A a \in PageState : (IF i \in 1..n THEN Shown(a, events[i]) ELSE a) \in PageState
    BY <1>1, ShownType
  <2> QED
    BY <2>1
<1>3. PICK f \in [0..n -> PageState] : f[0] = p /\ \A i \in 1..n : f[i] = step[i][f[i - 1]]
  <2> HIDE DEF n, step
  <2>1. Built(PageState, n, p, step) # {}
    BY <1>1, <1>2, Stages
  <2> QED
    BY <2>1 DEF Built
<1>4. \A i \in 1..n : f[i] = Shown(f[i - 1], events[i])
  <2> TAKE i \in 1..n
  <2>1. f[i - 1] \in PageState /\ i \in Nat
    BY <1>1
  <2>2. step[i][f[i - 1]] = Shown(f[i - 1], events[i])
    BY <2>1
  <2> QED
    BY <2>2, <1>3
<1>5. f = Rec(f)
  <2>1. f = [i \in 0..n |-> f[i]]
    BY <1>3
  <2>2. \A i \in 0..n : f[i] = IF i = 0 THEN p ELSE Shown(f[i - 1], events[i])
    <3> TAKE i \in 0..n
    <3>1. CASE i = 0
      BY <3>1, <1>3
    <3>2. CASE i # 0
      <4>1. i \in 1..n
        BY <3>2, <1>1
      <4> HIDE DEF n
      <4> QED
        BY <3>2, <4>1, <1>4
    <3> QED
      BY <3>1, <3>2
  <2> QED
    BY <2>1, <2>2
<1>6. shown = Rec(shown)
  <2> HIDE DEF Rec
  <2> QED
    BY <1>5
<1>7. Replayed(p, events) = [shown[n] EXCEPT !.buffered = <<>>]
  BY DEF Replayed
<1>8. \A i \in 0..n : shown[i] = f[i]
  <2> HIDE DEF shown
  <2>1. \A i \in 0..n : shown[i] = Rec(shown)[i]
    BY <1>6
  <2>2. shown[0] = f[0]
    <3>1. 0 \in 0..n
      BY <1>1
    <3> QED
      BY <2>1, <3>1, <1>3
  <2>3. ASSUME NEW i \in 0..(n - 1), shown[i] = f[i] PROVE shown[i + 1] = f[i + 1]
    <3>1. i + 1 \in 1..n /\ i + 1 \in 0..n /\ (i + 1) - 1 = i /\ i + 1 # 0
      BY <1>1
    <3>2. shown[i + 1] = Shown(shown[i], events[i + 1])
      BY <2>1, <3>1
    <3>3. f[i + 1] = Shown(f[i], events[i + 1])
      BY <3>1, <1>4
    <3> QED
      BY <2>3, <3>2, <3>3
  <2> HIDE DEF n
  <2> QED
    BY <1>1, <2>2, <2>3, SameStages, Zenon
<1>9. Replayed(p, events) = [f[n] EXCEPT !.buffered = <<>>]
  <2>1. n \in 0..n
    BY <1>1
  <2> HIDE DEF shown, n
  <2> QED
    BY <1>7, <1>8, <2>1
<1> HIDE DEF shown, step
<1> QED
  BY <1>3, <1>4, <1>9

\* A completion of an earlier run takes a session that has no row out of the
\* window's sight for a while, or leaves it on its way.
LEMMA KeptCovers ==
  ASSUME NEW s \in Sessions, NEW known, NEW after, NEW r, NEW read, NEW P, NEW i,
         r[s] \in Nat, known[s] \in Nat, Kept[s] \in Nat,
         known[s] <= r[s], Shows(read, known, s, P, i, r),
         after[s] = IF known[s] = 0 THEN Kept[s] ELSE known[s]
  PROVE  Stands(after, s, r) \/ (after[s] <= r[s] /\ Shows(read, after, s, P, i, r))
<1>1. CASE after[s] = known[s]
  BY <1>1 DEF Shows
<1>2. CASE after[s] = Kept[s] /\ r[s] < Kept[s]
  BY <1>2 DEF Stands
<1>3. CASE known[s] = 0 /\ after[s] = Kept[s] /\ Kept[s] # 0 /\ Kept[s] <= r[s]
  <2>1. known[s] # r[s]
    BY <1>3
  <2> QED
    BY <1>3, <2>1 DEF Shows
<1> QED
  BY <1>1, <1>2, <1>3

\* Showing the next change keeps the window on its way to the present.
LEMMA ShownCovers ==
  ASSUME NEW p \in PageState, p.epoch = TRUE, NEW P \in Seq(Delta), NEW r \in Revisions,
         NEW k \in Nat, NEW i \in Nat, i + 1 \in DOMAIN P, InPost(P, r, k),
         Covers(p.seq, p.known, P, i, r, k)
  PROVE  LET q == Shown(p, P[i + 1]) IN q.epoch = TRUE /\ Covers(q.seq, q.known, P, i + 1, r, k)
<1> DEFINE e == P[i + 1]
           q == Shown(p, e)
<1>1. e \in Delta /\ e.seq \in Nat /\ e.session \in Sessions /\ e.rev \in Nat
  BY DeltaTypes
<1>2. p.seq \in Nat /\ p.known \in Revisions /\ e.seq <= k /\ e.rev <= r[e.session]
  BY PageTypes DEF InPost
<1>3. \A j \in DOMAIN P : j \in Nat /\ P[j].seq \in Nat /\ (i < j => j = i + 1 \/ i + 1 < j)
  <2> TAKE j \in DOMAIN P
  <2>1. j \in Nat /\ P[j] \in Delta
    OBVIOUS
  <2> QED
    BY <2>1, DeltaTypes
<1>4. \A s \in Sessions : /\ r[s] \in Nat /\ p.known[s] \in Nat /\ Kept[s] \in Nat
                          /\ \/ Stands(p.known, s, r)
                             \/ p.known[s] <= r[s] /\ Shows(p.seq, p.known, s, P, i, r)
  BY <1>2, KeptAssumption DEF Covers, Revisions
<1>5. CASE e.seq <= p.seq
  <2>1. q = p
    BY <1>5 DEF Shown
  <2>2. ASSUME NEW s \in Sessions, Shows(p.seq, p.known, s, P, i, r)
        PROVE  Shows(p.seq, p.known, s, P, i + 1, r)
    <3>1. SUFFICES ASSUME p.known[s] # r[s]
                   PROVE  \E j \in DOMAIN P : /\ i + 1 < j /\ p.seq < P[j].seq
                                              /\ P[j].session = s /\ P[j].rev = r[s]
      BY DEF Shows
    <3>2. PICK j \in DOMAIN P : i < j /\ p.seq < P[j].seq /\ P[j].session = s /\ P[j].rev = r[s]
      BY <2>2, <3>1 DEF Shows
    <3>3. j # i + 1
      BY <1>1, <1>2, <1>5, <3>2
    <3>4. i + 1 < j
      BY <1>3, <3>2, <3>3
    <3> QED
      BY <3>2, <3>4
  <2>3. Covers(p.seq, p.known, P, i + 1, r, k)
    BY <1>4, <2>2 DEF Covers
  <2> QED
    BY <2>1, <2>3
<1>6. CASE ~ (e.seq <= p.seq)
  <2> DEFINE applied == Applies(p.known, e)
             after == Retained(applied)
  <2>1. q = [p EXCEPT !.epoch = TRUE, !.seq = e.seq, !.known = after]
    BY <1>6 DEF Shown
  <2>2. q.epoch = TRUE /\ q.seq = e.seq /\ q.known = after
    BY <2>1 DEF PageState
  <2>3. /\ \A s \in Sessions : s # e.session => applied[s] = p.known[s]
        /\ applied[e.session] = IF e.rev < p.known[e.session] THEN p.known[e.session] ELSE e.rev
        /\ applied \in Revisions
    BY <1>1, <1>2, AppliesType
  <2> HIDE DEF applied, e, q
  <2>4. \A s \in Sessions : after[s] = IF applied[s] = 0 THEN Kept[s] ELSE applied[s]
    BY <2>3, RetainedType
  <2> HIDE DEF after
  <2>5. ASSUME NEW s \in Sessions, Stands(p.known, s, r)
        PROVE  Stands(after, s, r)
    <3>1. p.known[s] = Kept[s] /\ r[s] < Kept[s] /\ Kept[s] # 0
      BY <1>4, <2>5 DEF Stands
    <3>2. applied[s] = p.known[s]
      <4>1. s = e.session => e.rev < p.known[s]
        BY <1>1, <1>2, <1>4, <3>1
      <4> QED
        BY <2>3, <4>1
    <3> QED
      BY <2>4, <3>1, <3>2 DEF Stands
  <2>6. ASSUME NEW s \in Sessions, p.known[s] <= r[s], Shows(p.seq, p.known, s, P, i, r)
        PROVE  applied[s] <= r[s] /\ applied[s] \in Nat /\ Shows(e.seq, applied, s, P, i + 1, r)
    <3>1. applied[s] <= r[s] /\ applied[s] \in Nat
      BY <1>1, <1>2, <1>4, <2>3, <2>6 DEF Revisions
    <3>2. CASE p.known[s] = r[s]
      <4>1. applied[s] = r[s]
        BY <1>1, <1>2, <1>4, <2>3, <3>2
      <4> QED
        BY <3>1, <4>1 DEF Shows
    <3>3. CASE p.known[s] # r[s]
      <4>1. PICK j \in DOMAIN P : i < j /\ p.seq < P[j].seq /\ P[j].session = s /\ P[j].rev = r[s]
        BY <2>6, <3>3 DEF Shows
      <4>2. CASE j = i + 1
        <5>1. e.session = s /\ e.rev = r[s]
          BY <4>1, <4>2 DEF e
        <5>2. applied[s] = r[s]
          BY <1>1, <1>4, <2>3, <2>6, <5>1
        <5> QED
          BY <3>1, <5>2 DEF Shows
      <4>3. CASE i + 1 < j
        <5>1. e.seq < P[j].seq
          BY <4>3 DEF InPost, e
        <5> QED
          BY <3>1, <4>1, <4>3, <5>1 DEF Shows
      <4> QED
        BY <1>3, <4>1, <4>2, <4>3
    <3> QED
      BY <3>2, <3>3
  <2>7. ASSUME NEW s \in Sessions
        PROVE  Stands(after, s, r) \/ (after[s] <= r[s] /\ Shows(e.seq, after, s, P, i + 1, r))
    <3>1. CASE Stands(p.known, s, r)
      BY <2>5, <3>1
    <3>2. CASE p.known[s] <= r[s] /\ Shows(p.seq, p.known, s, P, i, r)
      <4>1. applied[s] <= r[s] /\ applied[s] \in Nat /\ Shows(e.seq, applied, s, P, i + 1, r)
        BY <2>6, <3>2
      <4>2. after[s] = IF applied[s] = 0 THEN Kept[s] ELSE applied[s]
        BY <2>4
      <4> QED
        BY <4>1, <4>2, KeptCovers, <1>4
    <3> QED
      BY <1>4, <3>1, <3>2
  <2>8. Covers(e.seq, after, P, i + 1, r, k)
    BY <1>2, <2>7 DEF Covers
  <2> QED
    BY <2>2, <2>8 DEF e, q
<1> QED
  BY <1>5, <1>6

\* So is one that shows all that was buffered.
LEMMA ReplayType ==
  ASSUME NEW p \in PageState, NEW events \in Seq(Delta)
  PROVE  /\ Replayed(p, events) \in PageState /\ Replayed(p, events).at = p.at
         /\ Replayed(p, events).failed = p.failed /\ Replayed(p, events).buffered = <<>>
<1> DEFINE n == Len(events)
<1>1. PICK f \in [0..n -> PageState] :
        /\ f[0] = p /\ Replayed(p, events) = [f[n] EXCEPT !.buffered = <<>>]
        /\ \A i \in 1..n : f[i] = Shown(f[i - 1], events[i])
  BY ReplayStages
<1> DEFINE S == {i \in Nat : i \in 0..n => f[i].at = p.at /\ f[i].failed = p.failed}
<1>2. n \in Nat /\ \A i \in 1..n : events[i] \in Delta
  OBVIOUS
<1>3. 0 \in S
  BY <1>1
<1>4. ASSUME NEW i \in S PROVE i + 1 \in S
  <2>1. SUFFICES ASSUME i + 1 \in 0..n PROVE f[i + 1].at = p.at /\ f[i + 1].failed = p.failed
    OBVIOUS
  <2>2. i \in 0..n /\ i + 1 \in 1..n /\ (i + 1) - 1 = i
    BY <1>2, <2>1
  <2>3. f[i] \in PageState /\ f[i + 1] = Shown(f[i], events[i + 1]) /\ events[i + 1] \in Delta
    BY <1>1, <1>2, <2>2
  <2>4. f[i].at = p.at /\ f[i].failed = p.failed
    BY <2>2
  <2>5. f[i + 1].at = f[i].at /\ f[i + 1].failed = f[i].failed
    BY <2>3, ShownType
  <2> QED
    BY <2>4, <2>5
<1>5. S = Nat
  <2>1. S \subseteq Nat
    OBVIOUS
  <2> HIDE DEF S
  <2> QED
    BY <1>3, <1>4, <2>1, Numbers
<1>6. f[n] \in PageState /\ f[n].at = p.at /\ f[n].failed = p.failed
  BY <1>1, <1>2, <1>5
<1>7. <<>> \in Seq(Delta)
  OBVIOUS
<1> QED
  BY <1>1, <1>6, <1>7 DEF PageState

\* A replay from a snapshot leaves to show only what has not arrived.
LEMMA ReplayCovers ==
  ASSUME NEW p \in PageState, p.epoch = TRUE, NEW B \in Seq(Delta), NEW M \in Seq(Delta),
         NEW r \in Revisions, NEW k \in Nat, InPost(B \o M, r, k),
         Covers(p.seq, p.known, B \o M, 0, r, k)
  PROVE  LET q == Replayed(p, B) IN q.epoch = TRUE /\ Covers(q.seq, q.known, B \o M, Len(B), r, k)
<1> DEFINE n == Len(B)
           P == B \o M
<1>1. PICK f \in [0..n -> PageState] :
        /\ f[0] = p /\ Replayed(p, B) = [f[n] EXCEPT !.buffered = <<>>]
        /\ \A i \in 1..n : f[i] = Shown(f[i - 1], B[i])
  BY ReplayStages
<1>2. /\ n \in Nat /\ P \in Seq(Delta) /\ \A i \in 1..n : i \in DOMAIN P /\ P[i] = B[i]
      /\ InPost(P, r, k)
  OBVIOUS
<1> HIDE DEF n, P
<1> DEFINE Along(i) == f[i].epoch = TRUE /\ Covers(f[i].seq, f[i].known, P, i, r, k)
           S == {i \in Nat : i \in 0..n => Along(i)}
<1>3. 0 \in S
  BY <1>1 DEF P
<1> HIDE DEF Along
<1>4. ASSUME NEW i \in S PROVE i + 1 \in S
  <2>1. SUFFICES ASSUME i + 1 \in 0..n
                 PROVE  Along(i + 1)
    OBVIOUS
  <2>2. i \in Nat /\ i \in 0..n /\ i + 1 \in 1..n /\ (i + 1) - 1 = i
    BY <1>2, <2>1
  <2>3. f[i] \in PageState /\ f[i + 1] = Shown(f[i], P[i + 1]) /\ i + 1 \in DOMAIN P
    BY <1>1, <1>2, <2>2
  <2>4. f[i].epoch = TRUE /\ Covers(f[i].seq, f[i].known, P, i, r, k)
    BY <2>2 DEF Along
  <2> DEFINE x == f[i]
             y == f[i + 1]
  <2>5. x \in PageState /\ x.epoch = TRUE /\ Covers(x.seq, x.known, P, i, r, k)
    BY <2>3, <2>4
  <2>6. y = Shown(x, P[i + 1])
    BY <2>3
  <2> HIDE DEF x, y, S
  <2>7. LET q == Shown(x, P[i + 1]) IN q.epoch = TRUE /\ Covers(q.seq, q.known, P, i + 1, r, k)
    BY <1>2, <2>2, <2>3, <2>5, ShownCovers
  <2>8. y.epoch = TRUE /\ Covers(y.seq, y.known, P, i + 1, r, k)
    BY <2>6, <2>7
  <2> QED
    BY <2>8 DEF y, Along
<1>5. S = Nat
  <2>1. S \subseteq Nat
    OBVIOUS
  <2> HIDE DEF S
  <2> QED
    BY <1>3, <1>4, <2>1, Numbers
<1>6. f[n] \in PageState /\ f[n].epoch = TRUE /\ Covers(f[n].seq, f[n].known, P, n, r, k)
  <2>1. n \in 0..n
    BY <1>2
  <2> QED
    BY <1>1, <1>2, <1>5, <2>1 DEF Along
<1>7. LET q == Replayed(p, B) IN q.epoch = TRUE /\ q.seq = f[n].seq /\ q.known = f[n].known
  BY <1>1, <1>6 DEF PageState
<1> QED
  BY <1>6, <1>7 DEF n, P

\* What has arrived is forgotten.
LEMMA CoversRest ==
  ASSUME NEW B \in Seq(Delta), NEW M \in Seq(Delta), NEW r, NEW k, NEW read, NEW known,
         Covers(read, known, B \o M, Len(B), r, k)
  PROVE  Covers(read, known, M, 0, r, k)
<1> DEFINE n == Len(B)
           P == B \o M
<1>1. /\ n \in Nat /\ DOMAIN P = 1..(n + Len(M)) /\ DOMAIN M = 1..Len(M) /\ Len(M) \in Nat
      /\ \A i \in DOMAIN M : P[n + i] = M[i]
  OBVIOUS
<1>2. Covers(read, known, P, n, r, k)
  OBVIOUS
<1> HIDE DEF n, P
<1>3. ASSUME NEW s \in Sessions, Shows(read, known, s, P, n, r)
      PROVE  Shows(read, known, s, M, 0, r)
  <2>1. SUFFICES ASSUME known[s] # r[s]
                 PROVE \E i \in DOMAIN M : 0 < i /\ read < M[i].seq /\ M[i].session = s /\ M[i].rev = r[s]
    BY DEF Shows
  <2>2. PICK j \in DOMAIN P : n < j /\ read < P[j].seq /\ P[j].session = s /\ P[j].rev = r[s]
    BY <1>3, <2>1 DEF Shows
  <2>3. j - n \in DOMAIN M /\ 0 < j - n /\ n + (j - n) = j
    BY <1>1, <2>2
  <2>4. M[j - n] = P[j]
    BY <1>1, <2>3
  <2> QED
    BY <2>2, <2>3, <2>4
<1> QED
  BY <1>2, <1>3 DEF Covers

\* What is left of the post is the post of a later moment.
LEMMA PostRest ==
  ASSUME NEW B \in Seq(Delta), NEW M \in Seq(Delta), NEW r, NEW k, InPost(B \o M, r, k)
  PROVE  InPost(M, r, k)
<1> DEFINE n == Len(B)
           P == B \o M
<1>1. /\ n \in Nat /\ DOMAIN M = 1..Len(M) /\ Len(M) \in Nat
      /\ \A i \in DOMAIN M : n + i \in DOMAIN P /\ P[n + i] = M[i]
  OBVIOUS
<1>2. InPost(P, r, k)
  OBVIOUS
<1> HIDE DEF n, P
<1>3. \A i \in DOMAIN M : M[i].seq <= k /\ M[i].rev <= r[M[i].session]
  BY <1>1, <1>2 DEF InPost
<1>4. \A i, j \in DOMAIN M : i < j => M[i].seq < M[j].seq
  <2> TAKE i, j \in DOMAIN M
  <2> HAVE i < j
  <2>1. n + i < n + j
    BY <1>1
  <2> QED
    BY <1>1, <1>2, <2>1 DEF InPost
<1> QED
  BY <1>3, <1>4 DEF InPost

\* Changes are appended to what the window has still to show.
LEMMA PostGrows ==
  ASSUME NEW P \in Seq(Delta), NEW r \in Revisions, NEW r2 \in Revisions, NEW k \in Nat,
         NEW changed \in SUBSET Sessions, NEW ev, News(ev, changed, r, k),
         \A s \in Sessions : r2[s] = IF s \in changed THEN r[s] + 1 ELSE r[s],
         InPost(P, r, k)
  PROVE  /\ P \o ev \in Seq(Delta) /\ InPost(P \o ev, r2, k + Len(ev))
         /\ \A read \in Nat, known \in Revisions :
              Covers(read, known, P, 0, r, k) => Covers(read, known, P \o ev, 0, r2, k + Len(ev))
<1> DEFINE Q == P \o ev
           n == Len(P)
<1>1. ev \in Seq(Delta) /\ n \in Nat /\ Len(ev) \in Nat
  BY DEF News
<1>2. /\ Q \in Seq(Delta) /\ DOMAIN Q = 1..(n + Len(ev)) /\ DOMAIN P = 1..n
      /\ DOMAIN ev = 1..Len(ev)
      /\ \A i \in DOMAIN P : i \in DOMAIN Q /\ Q[i] = P[i]
      /\ \A i \in DOMAIN ev : n + i \in DOMAIN Q /\ Q[n + i] = ev[i]
  BY <1>1
<1> HIDE DEF Q, n
<1>3. \A i \in DOMAIN Q : \/ i \in DOMAIN P /\ Q[i] = P[i]
                          \/ i > n /\ i - n \in DOMAIN ev /\ Q[i] = ev[i - n]
  <2> TAKE i \in DOMAIN Q
  <2>1. CASE i \in DOMAIN P
    BY <1>2, <2>1
  <2>2. CASE i \notin DOMAIN P
    <3>1. i > n /\ i - n \in DOMAIN ev /\ n + (i - n) = i
      BY <1>1, <1>2, <2>2
    <3>2. Q[n + (i - n)] = ev[i - n]
      BY <1>2, <3>1
    <3> QED
      BY <3>1, <3>2
  <2> QED
    BY <2>1, <2>2
<1>4. \A i \in DOMAIN P : /\ P[i] \in Delta /\ P[i].seq \in Nat /\ P[i].session \in Sessions
                          /\ P[i].rev \in Nat /\ P[i].seq <= k /\ P[i].rev <= r[P[i].session]
  BY DeltaTypes DEF InPost
<1>5. \A i \in DOMAIN ev : /\ ev[i] \in Delta /\ ev[i].session \in Sessions /\ ev[i].seq = k + i
                           /\ ev[i].session \in changed /\ ev[i].rev = r[ev[i].session] + 1
                           /\ i \in Nat /\ 1 <= i /\ i <= Len(ev)
  BY <1>1, <1>2, DeltaTypes DEF News
<1>6. \A s \in Sessions : r[s] \in Nat /\ r2[s] \in Nat /\ r[s] <= r2[s]
  BY DEF Revisions
<1>7. InPost(Q, r2, k + Len(ev))
  <2>1. ASSUME NEW i \in DOMAIN P PROVE P[i].seq <= k + Len(ev) /\ P[i].rev <= r2[P[i].session]
    <3>1. /\ P[i].seq \in Nat /\ P[i].rev \in Nat /\ P[i].seq <= k /\ P[i].rev <= r[P[i].session]
          /\ r[P[i].session] \in Nat /\ r2[P[i].session] \in Nat
          /\ r[P[i].session] <= r2[P[i].session]
      BY <1>4, <1>6
    <3> QED
      BY <1>1, <3>1
  <2>2. ASSUME NEW i \in DOMAIN ev PROVE ev[i].seq <= k + Len(ev) /\ ev[i].rev <= r2[ev[i].session]
    <3>1. ev[i].rev = r2[ev[i].session] /\ r2[ev[i].session] \in Nat
      BY <1>5, <1>6
    <3> QED
      BY <1>1, <1>5, <3>1
  <2>3. \A i \in DOMAIN Q : Q[i].seq <= k + Len(ev) /\ Q[i].rev <= r2[Q[i].session]
    BY <1>3, <2>1, <2>2
  <2>4. ASSUME NEW i \in DOMAIN Q, NEW j \in DOMAIN Q, i < j PROVE Q[i].seq < Q[j].seq
    <3>1. CASE j \in DOMAIN P
      <4>1. i \in DOMAIN P
        BY <1>1, <1>2, <2>4, <3>1
      <4> QED
        BY <1>2, <2>4, <3>1, <4>1 DEF InPost
    <3>2. CASE i \in DOMAIN P /\ j \notin DOMAIN P
      <4>1. j - n \in DOMAIN ev /\ Q[j] = ev[j - n] /\ Q[i] = P[i]
        BY <1>3, <1>2, <3>2
      <4> QED
        BY <1>4, <1>5, <3>2, <4>1
    <3>3. CASE i \notin DOMAIN P /\ j \notin DOMAIN P
      <4>1. /\ i - n \in DOMAIN ev /\ Q[i] = ev[i - n]
            /\ j - n \in DOMAIN ev /\ Q[j] = ev[j - n]
        BY <1>3, <3>3
      <4>2. i - n < j - n /\ i - n \in Int /\ j - n \in Int
        BY <1>1, <1>2, <2>4
      <4>3. Q[i].seq = k + (i - n) /\ Q[j].seq = k + (j - n)
        BY <1>5, <4>1
      <4> QED
        BY <4>2, <4>3
    <3> QED
      BY <3>1, <3>2, <3>3
  <2> QED
    BY <2>3, <2>4 DEF InPost
<1>8. ASSUME NEW read \in Nat, NEW known \in Revisions, Covers(read, known, P, 0, r, k)
      PROVE  Covers(read, known, Q, 0, r2, k + Len(ev))
  <2>1. /\ read <= k /\ read <= k + Len(ev)
        /\ \A s \in Sessions : known[s] \in Nat /\ Kept[s] \in Nat
    BY <1>1, <1>8, KeptAssumption DEF Covers, Revisions
  <2>2. ASSUME NEW s \in Sessions, s \in changed
        PROVE  Shows(read, known, s, Q, 0, r2)
    <3>1. PICK i \in DOMAIN ev : ev[i].session = s
      BY <2>2 DEF News
    <3>2. ev[i].rev = r2[s] /\ read < ev[i].seq
      BY <1>5, <2>1, <2>2, <3>1
    <3>3. n + i \in DOMAIN Q /\ Q[n + i] = ev[i] /\ 0 < n + i
      BY <1>1, <1>2, <1>5
    <3> QED
      BY <3>1, <3>2, <3>3 DEF Shows
  <2>3. ASSUME NEW s \in Sessions, s \notin changed, Shows(read, known, s, P, 0, r)
        PROVE  Shows(read, known, s, Q, 0, r2)
    <3>1. r2[s] = r[s]
      BY <2>3
    <3>2. CASE known[s] = r[s]
      BY <3>1, <3>2 DEF Shows
    <3>3. CASE known[s] # r[s]
      <4>1. PICK i \in DOMAIN P : 0 < i /\ read < P[i].seq /\ P[i].session = s /\ P[i].rev = r[s]
        BY <2>3, <3>3 DEF Shows
      <4> QED
        BY <1>2, <3>1, <4>1 DEF Shows
    <3> QED
      BY <3>2, <3>3
  <2>4. ASSUME NEW s \in Sessions
        PROVE  Stands(known, s, r2) \/ (known[s] <= r2[s] /\ Shows(read, known, s, Q, 0, r2))
    <3>1. CASE Stands(known, s, r)
      <4>1. CASE s \in changed
        <5>1. known[s] = Kept[s] /\ r2[s] <= Kept[s]
          BY <1>6, <2>1, <3>1, <4>1 DEF Stands
        <5>2. CASE r2[s] = Kept[s]
          BY <1>6, <5>1, <5>2, <4>1, <2>2
        <5>3. CASE r2[s] # Kept[s]
          BY <1>6, <2>1, <5>1, <5>3 DEF Stands
        <5> QED
          BY <5>2, <5>3
      <4>2. CASE s \notin changed
        BY <3>1, <4>2 DEF Stands
      <4> QED
        BY <4>1, <4>2
    <3>2. CASE known[s] <= r[s] /\ Shows(read, known, s, P, 0, r)
      <4>1. known[s] <= r2[s]
        BY <1>6, <2>1, <3>2
      <4> QED
        BY <2>2, <2>3, <3>2, <4>1
    <3> QED
      BY <1>8, <3>1, <3>2 DEF Covers
  <2> QED
    BY <2>1, <2>4 DEF Covers
<1> QED
  BY <1>2, <1>7, <1>8 DEF Q

\* The types of what the page has not seen.
LEMMA UnseenTypes ==
  ASSUME TypeOK
  PROVE  /\ page \in PageState /\ page.buffered \in Seq(Delta) /\ mail \in Seq(Delta)
         /\ Unseen \in Seq(Delta)
  BY PageTypes DEF TypeOK, Unseen

\* Sessions change; the window hears of them once it listens.
LEMMA Emits ==
  ASSUME NEW changed \in SUBSET Sessions, NEW reset, TypeOK, Published, Change(changed, reset),
         mail' = Emitted(changed), Posted, page'.buffered = page.buffered
  PROVE  /\ mail' \in Seq(Delta) /\ Posted'
         /\ page.at # "off" =>
              \A read \in Nat, known \in Revisions :
                Covers(read, known, Unseen, 0, rev, seq) => Covers(read, known, Unseen', 0, rev', seq')
<1> DEFINE ev == Events(changed)
           P == Unseen
<1>1. P \in Seq(Delta) /\ page.buffered \in Seq(Delta) /\ mail \in Seq(Delta)
  BY UnseenTypes
<1>2. /\ rev \in Revisions /\ rev' \in Revisions /\ seq \in Nat
      /\ News(ev, changed, rev, seq) /\ seq' = seq + Len(ev) /\ InPost(P, rev, seq)
      /\ \A s \in Sessions : rev'[s] = IF s \in changed THEN rev[s] + 1 ELSE rev[s]
  BY ChangeFacts DEF Posted
<1>3. ev \in Seq(Delta)
  BY <1>2 DEF News
<1>4. Unseen' = page.buffered \o mail'
  BY DEF Unseen
<1>5. CASE page.at = "off"
  <2>1. mail' = mail /\ Unseen' = P
    BY <1>4, <1>5 DEF Emitted, Unseen
  <2>2. InPost(P, rev', seq')
    <3>1. \A i \in DOMAIN P : P[i] \in Delta /\ P[i].seq <= seq /\ P[i].rev <= rev[P[i].session]
      BY <1>1, <1>2 DEF InPost
    <3>2. \A i \in DOMAIN P : /\ P[i].session \in Sessions /\ P[i].seq \in Nat /\ P[i].rev \in Nat
      BY <3>1, DeltaTypes
    <3>3. seq' \in Nat /\ seq <= seq'
      BY <1>2, <1>3
    <3>4. \A i \in DOMAIN P : P[i].seq <= seq'
      BY <1>2, <3>1, <3>2, <3>3
    <3>5. \A s \in Sessions : rev[s] \in Nat /\ rev'[s] \in Nat /\ rev[s] <= rev'[s]
      BY <1>2 DEF Revisions
    <3>6. ASSUME NEW i \in DOMAIN P PROVE P[i].rev <= rev'[P[i].session]
      <4>1. /\ P[i].rev \in Nat /\ P[i].rev <= rev[P[i].session] /\ rev[P[i].session] \in Nat
            /\ rev'[P[i].session] \in Nat /\ rev[P[i].session] <= rev'[P[i].session]
        BY <3>1, <3>2, <3>5
      <4> QED
        BY <4>1
    <3> QED
      BY <1>2, <3>4, <3>6 DEF InPost
  <2> QED
    BY <1>1, <1>5, <2>1, <2>2 DEF Posted
<1>6. CASE page.at # "off"
  <2>1. mail' = mail \o ev
    BY <1>6 DEF Emitted
  <2>2. Unseen' = P \o ev
    <3> DEFINE B == page.buffered
    <3>1. B \in Seq(Delta)
      BY <1>1
    <3> HIDE DEF B, ev
    <3>2. mail \in Seq(Delta) /\ ev \in Seq(Delta)
      BY <1>1, <1>3
    <3>3. (B \o mail) \o ev = B \o (mail \o ev)
      BY <3>1, <3>2, ConcatAssociative, SMTT(30)
    <3> QED
      BY <1>4, <2>1, <3>3 DEF B, Unseen
  <2>3. mail' \in Seq(Delta)
    BY <1>1, <1>3, <2>1
  <2> HIDE DEF ev, P
  <2>4. /\ InPost(P \o ev, rev', seq')
        /\ \A read \in Nat, known \in Revisions :
              Covers(read, known, P, 0, rev, seq) => Covers(read, known, P \o ev, 0, rev', seq')
    BY <1>1, <1>2, PostGrows
  <2> QED
    BY <2>2, <2>3, <2>4 DEF Posted, P
<1> QED
  BY <1>5, <1>6

\* The types of what the page and its answer know.
LEMMA AnswerTypes ==
  ASSUME TypeOK
  PROVE  /\ page.seq \in Nat /\ page.known \in Revisions
         /\ answer \in Snapshot => answer.seq \in Nat /\ answer.known \in Revisions
  BY PageTypes, SnapshotTypes DEF TypeOK

\* The window waits for its answer, or has it, while sessions change.
LEMMA EmitsPaged ==
  ASSUME NEW changed \in SUBSET Sessions, NEW reset, TypeOK, Published, Change(changed, reset),
         mail' = Emitted(changed), Posted, Paged, page' = page, answer' = answer
  PROVE  mail' \in Seq(Delta) /\ Posted' /\ Paged'
<1>1. /\ mail' \in Seq(Delta) /\ Posted'
      /\ page.at # "off" =>
              \A read \in Nat, known \in Revisions :
                Covers(read, known, Unseen, 0, rev, seq) => Covers(read, known, Unseen', 0, rev', seq')
  BY Emits
<1>2. CASE page.at = "asked"
  <2>1. Covers(answer.seq, answer.known, Unseen, 0, rev, seq) /\ answer \in Snapshot
    BY <1>2 DEF Paged
  <2>2. Covers(answer.seq, answer.known, Unseen', 0, rev', seq')
    BY <1>1, <1>2, <2>1, AnswerTypes
  <2> QED
    BY <1>1, <1>2, <2>1, <2>2 DEF Paged
<1>3. CASE page.at = "ready" /\ ~ page.failed
  <2>1. Covers(page.seq, page.known, Unseen, 0, rev, seq) /\ page.epoch /\ page.buffered = <<>>
    BY <1>3 DEF Paged
  <2>2. Covers(page.seq, page.known, Unseen', 0, rev', seq')
    BY <1>1, <1>3, <2>1, AnswerTypes
  <2> QED
    BY <1>1, <1>3, <2>1, <2>2 DEF Paged
<1>4. CASE ~ (page.at = "asked" \/ (page.at = "ready" /\ ~ page.failed))
  BY <1>1, <1>4 DEF Paged
<1> QED
  BY <1>2, <1>3, <1>4

\* The page asks: what it has not seen yet is covered by the snapshot or follows it.
LEMMA ReadsForPage ==
  ASSUME TypeOK, Published, Posted, Paged, ReadForPage
  PROVE  mail' \in Seq(Delta) /\ Posted' /\ Paged' /\ page' \in PageState /\ answer' \in Snapshot
<1>1. PICK changed \in SUBSET Sessions : Change(changed, {}) /\ mail' = Emitted(changed)
  BY DEF ReadForPage, Reconcile
<1>2. /\ page.at = "listening" /\ page' = [page EXCEPT !.at = "asked"] /\ page \in PageState
      /\ answer' = Taken
  BY DEF ReadForPage, TypeOK
<1>3. page'.buffered = page.buffered /\ page'.at = "asked" /\ page' \in PageState
  BY <1>2 DEF PageState
<1>4. mail' \in Seq(Delta) /\ Posted'
  BY <1>1, <1>3, Emits
<1>5. rev' \in Revisions /\ seq' \in Nat
  BY <1>1, ChangeFacts
<1>6. answer' \in Snapshot /\ answer'.known = rev' /\ answer'.seq = seq'
  BY <1>2, <1>5, TakenType
<1>7. Covers(answer'.seq, answer'.known, Unseen', 0, rev', seq')
  BY <1>5, <1>6 DEF Covers, Shows, Revisions
<1> QED
  BY <1>3, <1>4, <1>6, <1>7 DEF Paged

\* The page has its answer, or has been told there is none.
LEMMA Answered ==
  ASSUME TypeOK, Posted, Paged, PageAnswered
  PROVE  Posted' /\ Paged' /\ page' \in PageState /\ answer' \in Snapshot \cup {Resync}
<1> DEFINE B == page.buffered
           M == mail
           known == Retained(answer.known)
           good == [page EXCEPT !.at = "ready", !.epoch = TRUE, !.seq = answer.seq,
                                !.known = known]
           bad == [page EXCEPT !.at = "ready", !.failed = TRUE]
<1>1. /\ page.at = "asked" /\ mail' = mail /\ rev' = rev /\ seq' = seq
      /\ (page' = Replayed(good, B) \/ page' = Replayed(bad, B)) /\ answer' = NoAnswer
  BY DEF PageAnswered, store, feed
<1>2. /\ answer \in Snapshot /\ Covers(answer.seq, answer.known, B \o M, 0, rev, seq)
      /\ InPost(B \o M, rev, seq) /\ B \in Seq(Delta) /\ M \in Seq(Delta) /\ page \in PageState
      /\ rev \in Revisions /\ seq \in Nat /\ answer.seq \in Nat /\ answer.known \in Revisions
  BY <1>1, UnseenTypes, AnswerTypes DEF Paged, Posted, Unseen, TypeOK, Revisions
<1>10. /\ known \in Revisions
       /\ \A s \in Sessions : known[s] = IF answer.known[s] = 0 THEN Kept[s] ELSE answer.known[s]
  BY <1>2, RetainedType
<1> HIDE DEF known
<1>3. /\ good \in PageState /\ good.at = "ready" /\ good.epoch = TRUE /\ good.seq = answer.seq
      /\ good.known = known /\ good.failed = page.failed
  BY <1>2, <1>10 DEF PageState, Revisions
<1>4. bad \in PageState /\ bad.at = "ready" /\ bad.failed = TRUE
  BY <1>2 DEF PageState
<1> HIDE DEF good, bad, B, M
<1>5. page' \in PageState /\ page'.at = "ready" /\ page'.buffered = <<>>
  BY <1>1, <1>2, <1>3, <1>4, ReplayType
<1>6. Unseen' = M
  BY <1>1, <1>2, <1>5 DEF Unseen, M
<1>7. InPost(M, rev, seq)
  BY <1>2, PostRest
<1>11. Covers(answer.seq, known, B \o M, 0, rev, seq)
  <2> DEFINE P == B \o M
  <2>1. Covers(answer.seq, answer.known, P, 0, rev, seq)
    BY <1>2
  <2> HIDE DEF P
  <2>2. ASSUME NEW s \in Sessions
        PROVE  Stands(known, s, rev) \/ (known[s] <= rev[s] /\ Shows(answer.seq, known, s, P, 0, rev))
    <3>1. /\ rev[s] \in Nat /\ answer.known[s] \in Nat /\ Kept[s] \in Nat
          /\ known[s] = IF answer.known[s] = 0 THEN Kept[s] ELSE answer.known[s]
      BY <1>2, <1>10, KeptAssumption DEF Revisions
    <3>2. CASE Stands(answer.known, s, rev)
      BY <3>1, <3>2 DEF Stands
    <3>3. CASE answer.known[s] <= rev[s] /\ Shows(answer.seq, answer.known, s, P, 0, rev)
      BY <3>1, <3>3, KeptCovers
    <3> QED
      BY <2>1, <3>2, <3>3 DEF Covers
  <2>3. Covers(answer.seq, known, P, 0, rev, seq)
    BY <2>1, <2>2 DEF Covers
  <2> QED
    BY <2>3 DEF P
<1>8. CASE page' = Replayed(good, B)
  <2>1. page'.epoch = TRUE /\ Covers(page'.seq, page'.known, B \o M, Len(B), rev, seq)
    BY <1>2, <1>3, <1>8, <1>11, ReplayCovers
  <2>2. Covers(page'.seq, page'.known, M, 0, rev, seq)
    BY <1>2, <2>1, CoversRest
  <2> QED
    BY <1>1, <1>5, <1>6, <1>7, <2>1, <2>2 DEF Paged, Posted, NoAnswer
<1>9. CASE page' = Replayed(bad, B)
  <2>1. page'.failed
    BY <1>2, <1>4, <1>9, ReplayType
  <2> QED
    BY <1>1, <1>5, <1>6, <1>7, <2>1 DEF Paged, Posted, NoAnswer
<1> QED
  BY <1>1, <1>8, <1>9

\* A change reaches the page.
LEMMA Delivers ==
  ASSUME TypeOK, Posted, Paged, Deliver
  PROVE  Posted' /\ Paged' /\ page' \in PageState /\ mail' \in Seq(Delta)
<1> DEFINE B == page.buffered
           M == mail
           e == Head(mail)
<1>1. /\ M # <<>> /\ mail' = Tail(M) /\ rev' = rev /\ seq' = seq /\ answer' = answer
      /\ page' = IF page.at = "ready" THEN Shown(page, e) ELSE [page EXCEPT !.buffered = Append(B, e)]
  BY DEF Deliver, store, feed
<1>2. /\ InPost(B \o M, rev, seq) /\ B \in Seq(Delta) /\ M \in Seq(Delta) /\ page \in PageState
      /\ rev \in Revisions /\ seq \in Nat
  BY UnseenTypes DEF Posted, Unseen, TypeOK, Revisions
<1>3. e \in Delta /\ Tail(M) \in Seq(Delta)
  BY <1>1, <1>2
<1>4. CASE page.at # "ready"
  <2>1. page' = [page EXCEPT !.buffered = Append(B, e)]
    BY <1>1, <1>4
  <2>2. Append(B, e) \in Seq(Delta)
    BY <1>2, <1>3
  <2>3. page' \in PageState /\ page'.buffered = Append(B, e) /\ page'.at = page.at
    <3> HIDE DEF B, e
    <3> QED
      BY <1>2, <2>1, <2>2 DEF PageState
  <2>4. Append(B, e) \o Tail(M) = B \o M
    <3> HIDE DEF B, M
    <3> QED
      BY <1>1, <1>2 DEF M
  <2>5. Unseen' = Unseen
    BY <1>1, <2>3, <2>4 DEF Unseen
  <2> QED
    BY <1>1, <1>3, <1>4, <2>3, <2>5 DEF Posted, Paged
<1>5. CASE page.at = "ready"
  <2>1. B = <<>>
    BY <1>5 DEF Paged
  <2>2. page' = Shown(page, e)
    BY <1>1, <1>5
  <2>3. page' \in PageState /\ page'.at = "ready" /\ page'.failed = page.failed /\ page'.buffered = <<>>
    BY <1>2, <1>3, <1>5, <2>1, <2>2, ShownType
  <2>4. Unseen = M /\ Unseen' = Tail(M)
    BY <1>1, <1>2, <1>3, <2>1, <2>3 DEF Unseen
  <2> DEFINE H == <<e>>
             T == Tail(M)
  <2>5. H \in Seq(Delta) /\ T \in Seq(Delta) /\ Len(H) = 1 /\ H \o T = M
    BY <1>1, <1>2, <1>3
  <2>6. InPost(M, rev, seq)
    BY <2>4 DEF Posted
  <2> HIDE DEF H, T
  <2>7. InPost(T, rev, seq)
    BY <2>5, <2>6, PostRest
  <2>8. ASSUME ~ page.failed
        PROVE  page'.epoch = TRUE /\ Covers(page'.seq, page'.known, T, 0, rev, seq)
    <3>1. page.epoch = TRUE /\ Covers(page.seq, page.known, M, 0, rev, seq)
      BY <1>2, <1>5, <2>4, <2>8, PageTypes DEF Paged
    <3>2. 0 + 1 \in DOMAIN M /\ M[0 + 1] = e
      BY <1>1, <1>2
    <3> HIDE DEF M, e
    <3>3. LET q == Shown(page, M[0 + 1]) IN q.epoch = TRUE /\ Covers(q.seq, q.known, M, 0 + 1, rev, seq)
      BY <1>2, <2>6, <3>1, <3>2, ShownCovers
    <3>4. page'.epoch = TRUE /\ Covers(page'.seq, page'.known, H \o T, Len(H), rev, seq)
      BY <2>2, <2>5, <3>2, <3>3
    <3>5. Covers(page'.seq, page'.known, T, 0, rev, seq)
      BY <2>5, <3>4, CoversRest
    <3> QED
      BY <3>4, <3>5
  <2>9. Unseen' = T /\ mail' = T
    BY <1>1, <2>4 DEF T
  <2> QED
    BY <1>1, <2>3, <2>5, <2>7, <2>8, <2>9 DEF Posted, Paged
<1> QED
  BY <1>4, <1>5

-----------------------------------------------------------------------------
(* Types.                                                                    *)

\* The parts of the type invariant that a reconciliation can disturb.
StoreTyped ==
  /\ rev \in [Sessions -> Nat] /\ published \in [Sessions -> Nat] /\ seq \in Nat
  /\ busy \in [Sessions -> BOOLEAN] /\ late \in [Sessions -> BOOLEAN]
  /\ quiet \in [Sessions -> BOOLEAN]
  /\ heard \in [Sessions -> {"nothing", "fresh", "old"}]
  /\ input \in 0..MaxInput
FeedTyped ==
  /\ queue \in [Subscribers -> Queue]
  /\ \A c \in Subscribers : Len(queue[c].events) <= Capacity
WorkerTyped ==
  worker \in [at : {"arm", "pass", "sleep", "wait"}, woken : BOOLEAN, watch : BOOLEAN]
    /\ permit \in BOOLEAN
ConnectionsTyped ==
  /\ cast \in Casts
  /\ wire \in [Remote -> Seq(Delta \cup Snapshot \cup {Resync})]
  /\ asked \in [Remote -> Nat]
  /\ mirror \in [Subscribers -> Mirror]
WindowTyped == page \in PageState /\ mail \in Seq(Delta) /\ answer \in Snapshot \cup {Resync}

\* The type invariant, by part.
LEMMA Typed ==
  TypeOK <=> StoreTyped /\ FeedTyped /\ WorkerTyped /\ ConnectionsTyped /\ WindowTyped
BY DEF TypeOK, StoreTyped, FeedTyped, WorkerTyped, ConnectionsTyped, WindowTyped

\* A change keeps the types of the store and the feed.
LEMMA ChangeTypes ==
  ASSUME NEW changed \in SUBSET Sessions, NEW reset, TypeOK, Published, Following,
         Change(changed, reset)
  PROVE  /\ FeedTyped' /\ rev' \in [Sessions -> Nat] /\ published' \in [Sessions -> Nat]
         /\ seq' \in Nat
<1>1. /\ rev' \in Revisions /\ seq' \in Nat /\ Published'
      /\ News(Events(changed), changed, rev, seq)
  BY ChangeFacts
<1> DEFINE ev == Events(changed)
<1>2. ev \in Seq(Delta)
  BY <1>1 DEF News
<1>3. queue' = [c \in Subscribers |-> IF c \in reset THEN Opened ELSE Pushed(queue[c], ev)]
  BY DEF Change
<1> HIDE DEF ev
<1>4. ASSUME NEW c \in Subscribers
      PROVE  Pushed(queue[c], ev) \in Queue /\ Len(Pushed(queue[c], ev).events) <= Capacity
  <2>1. /\ queue[c] \in Queue /\ Len(queue[c].events) <= Capacity
        /\ queue[c].needs => queue[c].events = <<>>
    BY SubscriberTypes DEF Following, InStep
  <2> QED
    BY <1>2, <2>1, PushedType
<1>5. Len(Opened.events) <= Capacity
  BY OpenedType, LimitsAssumption
<1>6. FeedTyped'
  BY <1>3, <1>4, <1>5, OpenedType DEF FeedTyped
<1> QED
  BY <1>1, <1>6 DEF Revisions, Published

\* A reconciliation keeps the types, and is a change of what was due.
LEMMA ReconcileTypes ==
  ASSUME NEW which \in SUBSET Sessions, NEW reset, TypeOK, Published, Following,
         Reconcile(which, reset)
  PROVE  /\ StoreTyped' /\ FeedTyped'
         /\ \E changed \in SUBSET Sessions : Change(changed, reset) /\ mail' = Emitted(changed)
<1> DEFINE changed == {s \in which : Due(s)}
<1>1. changed \in SUBSET Sessions /\ Change(changed, reset) /\ mail' = Emitted(changed)
  BY DEF Reconcile
<1>2. /\ FeedTyped' /\ rev' \in [Sessions -> Nat] /\ published' \in [Sessions -> Nat]
      /\ seq' \in Nat
  BY <1>1, ChangeTypes
<1>3. \A s \in Sessions : /\ NewLate(s) \in BOOLEAN /\ NewQuiet(s) \in BOOLEAN
                          /\ NewHeard(s) \in {"nothing", "fresh", "old"}
  BY DEF TypeOK, NewLate, NewQuiet, NewHeard
<1>4. /\ late' = [s \in Sessions |-> IF s \in which THEN NewLate(s) ELSE late[s]]
      /\ heard' = [s \in Sessions |-> IF s \in which THEN NewHeard(s) ELSE heard[s]]
      /\ quiet' = [s \in Sessions |-> IF s \in which THEN NewQuiet(s) ELSE quiet[s]]
      /\ busy' = busy /\ input' = input
  BY DEF Reconcile
<1>5. /\ late' \in [Sessions -> BOOLEAN] /\ heard' \in [Sessions -> {"nothing", "fresh", "old"}]
      /\ quiet' \in [Sessions -> BOOLEAN]
  BY <1>3, <1>4 DEF TypeOK
<1>6. StoreTyped'
  BY <1>2, <1>4, <1>5 DEF StoreTyped, TypeOK
<1> QED
  BY <1>1, <1>2, <1>6

\* A call keeps the worker's types.
LEMMA RescheduledTypes ==
  ASSUME TypeOK, NEW which, Rescheduled(which)
  PROVE  WorkerTyped'
<1> DEFINE wake == \E s \in which : busy[s] /\ (Due(s) \/ heard[s] # "nothing")
<1>1. Notified(wake)
  BY DEF Rescheduled
<1>2. wake \in BOOLEAN
  OBVIOUS
<1> HIDE DEF wake
<1>3. /\ worker' = [worker EXCEPT !.woken = @ \/ (wake /\ worker.at # "arm")]
      /\ permit' = (permit \/ (wake /\ worker.at = "arm"))
  BY <1>1 DEF Notified
<1> QED
  BY <1>3 DEF WorkerTyped, TypeOK

-----------------------------------------------------------------------------
(* Every step keeps the invariant.                                           *)

\* The invariant holds at the start.
LEMMA StartsWell ==
  ASSUME Init
  PROVE  Inv
<1>1. StoreTyped /\ Published
  <2>1. Unknown \in [Sessions -> Nat] /\ MaxInput \in Nat
    BY LimitsAssumption DEF Unknown
  <2> QED
    BY <2>1 DEF Init, StoreTyped, Published
<1>2. \A c \in Subscribers :
        /\ queue[c] \in Queue /\ queue[c].needs = FALSE /\ queue[c].events = <<>>
        /\ queue[c].open => c \in Local
  <2>1. <<>> \in Seq(Delta)
    OBVIOUS
  <2>2. /\ Closed \in Queue /\ Closed.needs = FALSE /\ Closed.events = <<>> /\ Closed.open = FALSE
    BY <2>1 DEF Closed, Queue
  <2>3. \A c \in Subscribers : queue[c] = IF c \in Local \cap cast THEN Opened ELSE Closed
    BY DEF Init
  <2> QED
    BY <2>2, <2>3, OpenedType
<1>3. FeedTyped
  <2>1. \A c \in Subscribers : Len(queue[c].events) <= Capacity
    BY <1>2, LimitsAssumption
  <2> QED
    BY <1>2, <2>1 DEF Init, FeedTyped
<1>4. WorkerTyped
  BY DEF Init, WorkerTyped
<1>5. \A c \in Subscribers : /\ mirror[c] \in Mirror /\ mirror[c].synced = (c \in Local)
                             /\ mirror[c].pending = FALSE /\ mirror[c].seq = 0
                             /\ mirror[c].known = Unknown
  <2> SUFFICES ASSUME NEW c \in Subscribers
               PROVE  /\ mirror[c] \in Mirror /\ mirror[c].synced = (c \in Local)
                      /\ mirror[c].pending = FALSE /\ mirror[c].seq = 0
                      /\ mirror[c].known = Unknown
    OBVIOUS
  <2> DEFINE local == c \in Local
  <2>1. mirror[c] = [Blank EXCEPT !.synced = local]
    BY DEF Init
  <2>2. local \in BOOLEAN
    OBVIOUS
  <2> HIDE DEF local
  <2>3. Blank \in Mirror /\ Blank.pending = FALSE /\ Blank.seq = 0 /\ Blank.known = Unknown
    BY BlankType DEF Blank
  <2>4. /\ mirror[c] \in Mirror /\ mirror[c].synced = local
        /\ mirror[c].pending = FALSE /\ mirror[c].seq = 0
        /\ mirror[c].known = Unknown
    BY <2>1, <2>2, <2>3 DEF Mirror
  <2> QED
    BY <2>4 DEF local
<1>6. ConnectionsTyped
  <2>1. wire \in [Remote -> Seq(Delta \cup Snapshot \cup {Resync})] /\ asked \in [Remote -> Nat]
    BY DEF Init
  <2> QED
    BY <1>5, <2>1 DEF Init, ConnectionsTyped
<1>7. WindowTyped /\ page.at = "off" /\ page.buffered = <<>> /\ mail = <<>>
  <2>1. <<>> \in Seq(Delta)
    OBVIOUS
  <2>2. NewPage \in PageState /\ NewPage.at = "off" /\ NewPage.buffered = <<>>
    BY <2>1, KeptAssumption DEF NewPage, PageState
  <2> QED
    BY <2>1, <2>2 DEF Init, WindowTyped, NoAnswer
<1>8. TypeOK
  BY <1>1, <1>3, <1>4, <1>6, <1>7, Typed
<1>9. Posted /\ Paged
  BY <1>7 DEF Posted, Paged, Unseen, InPost
<1>10. ASSUME NEW c \in Subscribers PROVE InStep(c)
  <2>1. ASSUME queue[c].open PROVE Follows(Coming(c), mirror[c], rev, seq, queue[c].needs)
    <3>1. c \in Local /\ c \notin Remote
      BY <1>2, <2>1, SubscribersAssumption
    <3>2. Coming(c) = <<>>
      BY <1>2, <3>1 DEF Coming, Sent
    <3>3. mirror[c].synced /\ mirror[c].seq = seq /\ mirror[c].known = rev /\ rev = Unknown
      BY <1>5, <3>1 DEF Init
    <3>4. Dated(<<>>, mirror[c], rev)
      BY <3>3 DEF Dated, Unknown
    <3>5. Numbered(<<>>, mirror[c]) /\ Reaches(<<>>, mirror[c], seq) /\ Complete(<<>>, mirror[c], rev)
      BY <3>3 DEF Numbered, Reaches, Complete
    <3> QED
      BY <3>2, <3>4, <3>5 DEF Follows
  <2> QED
    BY <1>2, <1>5, <2>1 DEF InStep
<1> QED
  BY <1>1, <1>8, <1>9, <1>10 DEF Inv, Following

\* Nothing but the store's own bookkeeping, or nothing at all, changes.
LEMMA Quietly ==
  ASSUME Inv, TypeOK', UNCHANGED <<rev, published, seq, queue, wire, mirror, page, mail, answer>>
  PROVE  Inv'
<1>1. Published' /\ Posted' /\ Paged'
  BY DEF Inv, Published, Posted, Paged, Unseen
<1>2. ASSUME NEW c \in Subscribers PROVE InStep(c)'
  BY Untouched DEF Inv, Following
<1> QED
  BY <1>1, <1>2 DEF Inv, Following

\* The feed of one subscriber changes, and nothing of the store or the window.
LEMMA OneSubscriber ==
  ASSUME Inv, TypeOK', NEW c \in Subscribers, InStep(c)',
         UNCHANGED <<rev, published, seq, page, mail, answer>>,
         \A d \in Subscribers \ {c} : /\ queue'[d] = queue[d] /\ mirror'[d] = mirror[d]
                                      /\ d \in Remote => wire'[d] = wire[d]
  PROVE  Inv'
<1>1. Published' /\ Posted' /\ Paged'
  BY DEF Inv, Published, Posted, Paged, Unseen
<1>2. ASSUME NEW d \in Subscribers PROVE InStep(d)'
  BY Untouched DEF Inv, Following
<1> QED
  BY <1>1, <1>2 DEF Inv, Following

\* Sessions change and every subscriber but one may be pushed the change.
LEMMA Everybody ==
  ASSUME Inv, TypeOK', NEW changed \in SUBSET Sessions, NEW reset,
         Change(changed, reset), Posted', Paged',
         \A d \in Subscribers \ reset : /\ mirror'[d] = mirror[d]
                                        /\ d \in Remote => wire'[d] = wire[d],
         \A d \in Subscribers \cap reset : InStep(d)'
  PROVE  Inv'
<1>1. Published'
  BY ChangeFacts DEF Inv
<1>2. ASSUME NEW d \in Subscribers PROVE InStep(d)'
  BY Hears DEF Inv, Following
<1> QED
  BY <1>1, <1>2 DEF Inv, Following

\* Evidence.
LEMMA IngestStep ==
  ASSUME Inv, NEW s \in Sessions, NEW working \in BOOLEAN, Ingest(s, working)
  PROVE  Inv'
<1>1. TypeOK /\ Published /\ Following /\ Posted /\ Paged
  BY DEF Inv
<1>2. /\ Change({s}, {}) /\ mail' = Emitted({s}) /\ page' = page /\ answer' = answer
      /\ cast' = cast /\ wire' = wire /\ asked' = asked /\ mirror' = mirror
  BY DEF Ingest, connections
<1>3. {s} \in SUBSET Sessions
  OBVIOUS
<1>4. /\ FeedTyped' /\ rev' \in [Sessions -> Nat] /\ published' \in [Sessions -> Nat]
      /\ seq' \in Nat
  BY <1>1, <1>2, <1>3, ChangeTypes
<1>5. mail' \in Seq(Delta) /\ Posted' /\ Paged'
  BY <1>1, <1>2, <1>3, EmitsPaged
<1>6. StoreTyped'
  <2> DEFINE old == IF heard[s] # "nothing" THEN heard[s] = "old" ELSE late[s]
  <2>1. old \in BOOLEAN
    BY <1>1 DEF TypeOK
  <2>2. /\ input > 0 /\ input' = input - 1
        /\ busy' = [busy EXCEPT ![s] = working] /\ late' = [late EXCEPT ![s] = old]
        /\ heard' = [heard EXCEPT ![s] = "nothing"]
        /\ quiet' = [quiet EXCEPT ![s] = working /\ old]
    BY DEF Ingest
  <2> HIDE DEF old
  <2>3. input' \in 0..MaxInput
    BY <1>1, <2>2, LimitsAssumption DEF TypeOK
  <2>4. /\ busy' \in [Sessions -> BOOLEAN] /\ late' \in [Sessions -> BOOLEAN]
        /\ quiet' \in [Sessions -> BOOLEAN] /\ heard' \in [Sessions -> {"nothing", "fresh", "old"}]
    BY <1>1, <2>1, <2>2 DEF TypeOK
  <2> QED
    BY <1>4, <2>3, <2>4 DEF StoreTyped
<1>7. WorkerTyped'
  <2> DEFINE folded == heard[s] # "nothing"
             wake == working # busy[s] \/ (working /\ (folded \/ quiet'[s] # quiet[s]))
  <2>1. Notified(wake)
    BY DEF Ingest
  <2>2. wake \in BOOLEAN
    OBVIOUS
  <2> HIDE DEF wake
  <2>3. /\ worker' = [worker EXCEPT !.woken = @ \/ (wake /\ worker.at # "arm")]
        /\ permit' = (permit \/ (wake /\ worker.at = "arm"))
    BY <2>1 DEF Notified
  <2> QED
    BY <1>1, <2>3 DEF WorkerTyped, TypeOK
<1>8. TypeOK'
  BY <1>1, <1>2, <1>4, <1>5, <1>6, <1>7, Typed DEF TypeOK, StoreTyped, FeedTyped, WorkerTyped
<1> QED
  BY <1>1, <1>2, <1>3, <1>5, <1>8, Everybody

\* A reconciliation of which no subscriber reads anything.
LEMMA Reconciles ==
  ASSUME Inv, NEW which \in SUBSET Sessions, Reconcile(which, {}), WorkerTyped',
         UNCHANGED <<cast, wire, asked, mirror>>, UNCHANGED <<page, answer>> \/ ReadForPage
  PROVE  Inv'
<1>1. TypeOK /\ Published /\ Following /\ Posted /\ Paged
  BY DEF Inv
<1>2. StoreTyped' /\ FeedTyped'
  BY <1>1, ReconcileTypes
<1>3. PICK changed \in SUBSET Sessions : Change(changed, {}) /\ mail' = Emitted(changed)
  BY <1>1, ReconcileTypes
<1>4. mail' \in Seq(Delta) /\ Posted' /\ Paged' /\ page' \in PageState
      /\ answer' \in Snapshot \cup {Resync}
  <2>1. CASE page' = page /\ answer' = answer
    BY <1>1, <1>3, <2>1, EmitsPaged DEF TypeOK
  <2>2. CASE ReadForPage
    BY <1>1, <2>2, ReadsForPage
  <2> QED
    BY <2>1, <2>2
<1>5. TypeOK'
  BY <1>1, <1>2, <1>4 DEF TypeOK, StoreTyped, FeedTyped, WorkerTyped
<1> QED
  BY <1>1, <1>3, <1>4, <1>5, Everybody

\* A reconciliation and a snapshot for one subscriber.
LEMMA Snapshots ==
  ASSUME Inv, NEW c \in Subscribers, Reconcile(Sessions, {c}), Rescheduled(Sessions),
         cast' = cast, wire' \in [Remote -> Seq(Delta \cup Snapshot \cup {Resync})],
         asked' \in [Remote -> Nat], mirror' \in [Subscribers -> Mirror],
         UNCHANGED <<page, answer>>,
         \A d \in Subscribers \ {c} : /\ mirror'[d] = mirror[d]
                                      /\ d \in Remote => wire'[d] = wire[d],
         InStep(c)'
  PROVE  Inv'
<1>1. TypeOK /\ Published /\ Following /\ Posted /\ Paged
  BY DEF Inv
<1>2. Sessions \in SUBSET Sessions
  OBVIOUS
<1>3. StoreTyped' /\ FeedTyped'
  BY <1>1, <1>2, ReconcileTypes
<1>4. PICK changed \in SUBSET Sessions : Change(changed, {c}) /\ mail' = Emitted(changed)
  BY <1>1, <1>2, ReconcileTypes
<1>5. mail' \in Seq(Delta) /\ Posted' /\ Paged'
  BY <1>1, <1>4, EmitsPaged
<1>6. WorkerTyped'
  BY <1>1, RescheduledTypes
<1>7. TypeOK'
  BY <1>1, <1>3, <1>5, <1>6 DEF TypeOK, StoreTyped, FeedTyped, WorkerTyped
<1> QED
  BY <1>1, <1>4, <1>5, <1>7, Everybody

\* A client comes: it starts from a snapshot.
LEMMA SubscribeStep ==
  ASSUME Inv, NEW c \in Remote, Subscribe(c)
  PROVE  Inv'
<1>1. TypeOK /\ Published /\ Following /\ c \in Subscribers /\ Sessions \in SUBSET Sessions
  BY DEF Inv, Subscribers
<1>2. /\ Reconcile(Sessions, {c}) /\ Rescheduled(Sessions) /\ cast' = cast
      /\ wire' = [wire EXCEPT ![c] = <<Taken>>] /\ asked' = [asked EXCEPT ![c] = 0]
      /\ mirror' = [mirror EXCEPT ![c] = Blank] /\ page' = page /\ answer' = answer
  BY DEF Subscribe
<1>3. PICK changed \in SUBSET Sessions : Change(changed, {c})
  BY <1>1, <1>2, ReconcileTypes
<1>4. Taken \in Frames
  <2>1. rev' \in Revisions /\ seq' \in Nat
    BY <1>1, <1>3, ChangeFacts
  <2> QED
    BY <2>1, TakenType
<1>5. <<Taken>> \in Seq(Frames)
  BY <1>4
<1>6. /\ wire' \in [Remote -> Seq(Delta \cup Snapshot \cup {Resync})]
      /\ asked' \in [Remote -> Nat] /\ mirror' \in [Subscribers -> Mirror]
      /\ mirror'[c] = Blank /\ wire'[c] = <<Taken>>
      /\ \A d \in Subscribers \ {c} : /\ mirror'[d] = mirror[d]
                                      /\ d \in Remote => wire'[d] = wire[d]
  BY <1>1, <1>2, <1>5, BlankType DEF TypeOK, Frames
<1>7. InStep(c)'
  BY <1>1, <1>3, <1>6, Subscribes
<1> QED
  BY <1>1, <1>2, <1>6, <1>7, Snapshots

\* A snapshot for a client that is there already.
LEMMA ResnapshotStep ==
  ASSUME Inv, NEW c \in Remote, Resnapshot(c), asked' \in [Remote -> Nat]
  PROVE  Inv'
<1>1. TypeOK /\ Published /\ Following /\ c \in Subscribers /\ Sessions \in SUBSET Sessions
  BY DEF Inv, Subscribers
<1>2. /\ queue[c].open /\ Reconcile(Sessions, {c}) /\ Rescheduled(Sessions) /\ cast' = cast
      /\ wire' = [wire EXCEPT ![c] = Append(wire[c], Taken)] /\ mirror' = mirror
      /\ page' = page /\ answer' = answer
  BY DEF Resnapshot, Room
<1>3. PICK changed \in SUBSET Sessions : Change(changed, {c})
  BY <1>1, <1>2, ReconcileTypes
<1>4. Taken \in Frames
  <2>1. rev' \in Revisions /\ seq' \in Nat
    BY <1>1, <1>3, ChangeFacts
  <2> QED
    BY <2>1, TakenType
<1>5. Append(wire[c], Taken) \in Seq(Frames)
  <2>1. wire[c] \in Seq(Frames)
    BY <1>1 DEF TypeOK, Frames
  <2> QED
    BY <1>4, <2>1
<1>6. /\ wire' \in [Remote -> Seq(Delta \cup Snapshot \cup {Resync})]
      /\ mirror' \in [Subscribers -> Mirror] /\ wire'[c] = Append(wire[c], Taken)
      /\ \A d \in Subscribers \ {c} : /\ mirror'[d] = mirror[d]
                                      /\ d \in Remote => wire'[d] = wire[d]
  BY <1>1, <1>2, <1>5 DEF TypeOK, Frames
<1>7. InStep(c)'
  BY <1>1, <1>2, <1>3, <1>6, Resnapshots DEF Following
<1> QED
  BY <1>1, <1>2, <1>6, <1>7, Snapshots

\* A task reads a snapshot.
LEMMA RereadStep ==
  ASSUME Inv, NEW c \in Local, Reread(c)
  PROVE  Inv'
<1>1. TypeOK /\ Published /\ Following /\ c \in Subscribers /\ Sessions \in SUBSET Sessions
  BY DEF Inv, Subscribers
<1>2. /\ Reconcile(Sessions, {c}) /\ Rescheduled(Sessions) /\ cast' = cast /\ wire' = wire
      /\ asked' = asked /\ mirror' = [mirror EXCEPT ![c] = Synced(Taken)]
      /\ page' = page /\ answer' = answer
  BY DEF Reread
<1>3. PICK changed \in SUBSET Sessions : Change(changed, {c})
  BY <1>1, <1>2, ReconcileTypes
<1>4. Synced(Taken) \in Mirror
  <2>1. rev' \in Revisions /\ seq' \in Nat
    BY <1>1, <1>3, ChangeFacts
  <2>2. Taken.seq \in Nat /\ Taken.known \in [Sessions -> Nat]
    BY <2>1, TakenType DEF Revisions
  <2> QED
    BY <2>2 DEF Synced, Mirror
<1>5. /\ mirror' \in [Subscribers -> Mirror] /\ mirror'[c] = Synced(Taken)
      /\ \A d \in Subscribers \ {c} : mirror'[d] = mirror[d]
  <2> DEFINE m == Synced(Taken)
  <2>1. mirror' = [mirror EXCEPT ![c] = m] /\ m \in Mirror /\ mirror \in [Subscribers -> Mirror]
    BY <1>1, <1>2, <1>4 DEF TypeOK
  <2> HIDE DEF m
  <2>2. /\ mirror' \in [Subscribers -> Mirror] /\ mirror'[c] = m
        /\ \A d \in Subscribers \ {c} : mirror'[d] = mirror[d]
    BY <1>1, <2>1
  <2> QED
    BY <2>2 DEF m
<1>6. InStep(c)'
  BY <1>1, <1>3, <1>5, Rereads
<1>7. /\ wire' \in [Remote -> Seq(Delta \cup Snapshot \cup {Resync})] /\ asked' \in [Remote -> Nat]
      /\ \A d \in Subscribers \ {c} : /\ mirror'[d] = mirror[d]
                                      /\ d \in Remote => wire'[d] = wire[d]
  BY <1>1, <1>2, <1>5 DEF TypeOK
<1> QED
  BY <1>1, <1>2, <1>5, <1>6, <1>7, Snapshots

\* A client goes.
LEMMA LeaveStep ==
  ASSUME Inv, NEW c \in Remote, Leave(c)
  PROVE  Inv'
<1>1. TypeOK /\ c \in Subscribers /\ c \notin Local
  BY SubscribersAssumption DEF Inv, Subscribers
<1>2. queue' = [queue EXCEPT ![c] = Closed]
  BY DEF Leave
<1>3. /\ Closed \in Queue /\ Closed.needs = FALSE /\ Closed.open = FALSE /\ Closed.events = <<>>
  <2>1. <<>> \in Seq(Delta)
    OBVIOUS
  <2> QED
    BY <2>1 DEF Closed, Queue
<1>4. FeedTyped' /\ queue'[c] = Closed /\ \A d \in Subscribers \ {c} : queue'[d] = queue[d]
  BY <1>1, <1>2, <1>3, LimitsAssumption DEF FeedTyped, TypeOK
<1>5. InStep(c)'
  <2>1. queue'[c].open = FALSE /\ queue'[c].needs = FALSE
    BY <1>3, <1>4
  <2> QED
    BY <1>1, <2>1 DEF InStep
<1>6. TypeOK'
  BY <1>1, <1>4, Typed DEF Leave, store, connections, window, TypeOK, FeedTyped
<1> QED
  BY <1>1, <1>4, <1>5, <1>6, OneSubscriber DEF Leave, store, connections, window

\* What recv leaves of a queue.
LEMMA DequeuedTypes ==
  ASSUME Inv, NEW c \in Subscribers, Waiting(c), queue' = Dequeued(c)
  PROVE  FeedTyped' /\ \A d \in Subscribers \ {c} : queue'[d] = queue[d]
<1>1. TypeOK /\ InStep(c) /\ queue \in [Subscribers -> Queue]
  BY DEF Inv, Following, TypeOK
<1>2. queue[c] \in Queue /\ queue[c].events \in Seq(Delta) /\ Len(queue[c].events) <= Capacity
  BY <1>1, SubscriberTypes
<1>3. CASE Dequeued(c) = [queue EXCEPT ![c].told = TRUE]
  <2>1. [queue[c] EXCEPT !.told = TRUE] \in Queue
        /\ [queue[c] EXCEPT !.told = TRUE].events = queue[c].events
    BY <1>2 DEF Queue
  <2>2. /\ queue' \in [Subscribers -> Queue] /\ queue'[c].events = queue[c].events
        /\ \A d \in Subscribers \ {c} : queue'[d] = queue[d]
    BY <1>1, <1>3, <2>1
  <2> QED
    BY <1>1, <2>2 DEF FeedTyped, TypeOK
<1>4. CASE Dequeued(c) = [queue EXCEPT ![c].events = Tail(@)] /\ queue[c].events # <<>>
  <2> DEFINE rest == Tail(queue[c].events)
  <2>1. rest \in Seq(Delta) /\ Len(rest) <= Capacity
    <3>1. Len(rest) = Len(queue[c].events) - 1 /\ Capacity \in Nat /\ rest \in Seq(Delta)
      BY <1>2, <1>4, LimitsAssumption
    <3>2. Len(queue[c].events) \in Nat
      BY <1>2
    <3> QED
      BY <1>2, <3>1, <3>2
  <2>2. queue' = [queue EXCEPT ![c].events = rest]
    BY <1>4
  <2> HIDE DEF rest
  <2>3. [queue[c] EXCEPT !.events = rest] \in Queue
        /\ [queue[c] EXCEPT !.events = rest].events = rest
    BY <1>2, <2>1 DEF Queue
  <2>4. /\ queue' \in [Subscribers -> Queue] /\ queue'[c].events = rest
        /\ \A d \in Subscribers \ {c} : queue'[d] = queue[d]
    BY <1>1, <2>2, <2>3
  <2> QED
    BY <1>1, <2>1, <2>4 DEF FeedTyped, TypeOK
<1> QED
  BY <1>1, <1>3, <1>4, ReceivedTypes

\* A frame is written to a connection.
LEMMA ForwardStep ==
  ASSUME Inv, NEW c \in Remote, Forward(c)
  PROVE  Inv'
<1>1. TypeOK /\ InStep(c) /\ c \in Subscribers
  BY DEF Inv, Following, Subscribers
<1>2. /\ Waiting(c) /\ queue' = Dequeued(c) /\ mirror' = mirror
      /\ wire' = [wire EXCEPT ![c] = Append(wire[c], Received(c))]
  BY DEF Forward
<1>3. FeedTyped' /\ \A d \in Subscribers \ {c} : queue'[d] = queue[d]
  BY <1>1, <1>2, DequeuedTypes
<1>4. Received(c) \in Frames
  BY <1>1, <1>2, ReceivedTypes
<1>5. Append(wire[c], Received(c)) \in Seq(Frames)
  <2>1. wire[c] \in Seq(Frames)
    BY <1>1 DEF TypeOK, Frames
  <2> QED
    BY <1>4, <2>1
<1>6. /\ wire' \in [Remote -> Seq(Delta \cup Snapshot \cup {Resync})]
      /\ \A d \in Subscribers \ {c} : d \in Remote => wire'[d] = wire[d]
  BY <1>1, <1>2, <1>5 DEF TypeOK, Frames
<1>7. TypeOK'
  BY <1>1, <1>3, <1>6 DEF Forward, store, window, TypeOK, FeedTyped
<1>8. InStep(c)'
  BY <1>1, Forwards
<1> QED
  BY <1>1, <1>2, <1>3, <1>6, <1>7, <1>8, OneSubscriber DEF Forward, store, window

\* A client reads a frame.
LEMMA ObserveStep ==
  ASSUME Inv, NEW c \in Remote, Observe(c)
  PROVE  Inv'
<1>1. TypeOK /\ InStep(c) /\ c \in Subscribers
  BY DEF Inv, Following, Subscribers
<1>2. /\ wire[c] # <<>> /\ queue' = queue /\ wire' = [wire EXCEPT ![c] = Tail(wire[c])]
      /\ \E asks \in BOOLEAN : asked' = [asked EXCEPT ![c] = IF asks THEN asked[c] + 1 ELSE asked[c]]
      /\ \E m : mirror' = [mirror EXCEPT ![c] = m]
  BY DEF Observe, feed
<1>3. mirror'[c] = Reads(mirror[c], Head(wire[c])) /\ Head(wire[c]) \in Frames
  BY <1>1, ObservesHead
<1>4. mirror'[c] \in Mirror
  BY <1>1, <1>3, ReadsType, SubscriberTypes
<1>5. mirror' \in [Subscribers -> Mirror] /\ \A d \in Subscribers \ {c} : mirror'[d] = mirror[d]
  BY <1>1, <1>2, <1>4 DEF TypeOK
<1>6. Tail(wire[c]) \in Seq(Delta \cup Snapshot \cup {Resync})
  BY <1>1, <1>2 DEF TypeOK
<1>7. /\ wire' \in [Remote -> Seq(Delta \cup Snapshot \cup {Resync})]
      /\ \A d \in Subscribers \ {c} : d \in Remote => wire'[d] = wire[d]
  BY <1>1, <1>2, <1>6 DEF TypeOK
<1>8. asked' \in [Remote -> Nat]
  BY <1>1, <1>2 DEF TypeOK
<1>9. TypeOK'
  BY <1>1, <1>5, <1>7, <1>8 DEF Observe, store, feed, window, TypeOK
<1>10. InStep(c)'
  BY <1>1, Observes
<1> QED
  BY <1>1, <1>2, <1>5, <1>7, <1>9, <1>10, OneSubscriber DEF Observe, store, feed, window

\* A task takes an event.
LEMMA TakeStep ==
  ASSUME Inv, NEW c \in Local, Take(c)
  PROVE  Inv'
<1>1. TypeOK /\ InStep(c) /\ c \in Subscribers
  BY DEF Inv, Following, Subscribers
<1>2. /\ Waiting(c) /\ queue' = Dequeued(c) /\ wire' = wire
      /\ \E m : mirror' = [mirror EXCEPT ![c] = m]
  BY DEF Take
<1>3. FeedTyped' /\ \A d \in Subscribers \ {c} : queue'[d] = queue[d]
  BY <1>1, <1>2, DequeuedTypes
<1>4. mirror'[c] \in Mirror
  BY <1>1, TakesHead, ReadsType, SubscriberTypes
<1>5. mirror' \in [Subscribers -> Mirror] /\ \A d \in Subscribers \ {c} : mirror'[d] = mirror[d]
  BY <1>1, <1>2, <1>4 DEF TypeOK
<1>6. TypeOK'
  BY <1>1, <1>3, <1>5 DEF Take, store, window, TypeOK, FeedTyped
<1>7. InStep(c)'
  BY <1>1, Takes
<1> QED
  BY <1>1, <1>2, <1>3, <1>5, <1>6, <1>7, OneSubscriber DEF Take, store, window

\* The window alone moves.
LEMMA PageStep ==
  ASSUME Inv, Listen \/ PageAnswered \/ Deliver
  PROVE  Inv'
<1>1. TypeOK /\ Posted /\ Paged /\ Following /\ Published
  BY DEF Inv
<1>2. UNCHANGED <<store, worker, permit, feed, connections>>
  BY DEF Listen, PageAnswered, Deliver
<1>3. Posted' /\ Paged' /\ page' \in PageState /\ mail' \in Seq(Delta)
      /\ answer' \in Snapshot \cup {Resync}
  <2>1. CASE Listen
    <3>1. /\ page' = [page EXCEPT !.at = "listening"] /\ mail' = mail /\ answer' = answer
          /\ rev' = rev /\ seq' = seq /\ page \in PageState
      BY <1>1, <2>1 DEF Listen, store, feed, TypeOK
    <3>2. page' \in PageState /\ page'.buffered = page.buffered /\ page'.at = "listening"
      BY <3>1 DEF PageState
    <3> QED
      BY <1>1, <3>1, <3>2 DEF Posted, Paged, Unseen, TypeOK
  <2>2. CASE PageAnswered
    BY <1>1, <2>2, Answered DEF PageAnswered, TypeOK
  <2>3. CASE Deliver
    BY <1>1, <2>3, Delivers DEF Deliver, TypeOK
  <2> QED
    BY <2>1, <2>2, <2>3
<1>4. TypeOK'
  BY <1>1, <1>2, <1>3 DEF TypeOK, store, feed, connections
<1>5. ASSUME NEW c \in Subscribers PROVE InStep(c)'
  BY <1>1, <1>2, Untouched DEF Following, store, feed, connections
<1>6. Published'
  BY <1>1, <1>2 DEF Published, store, feed
<1> QED
  BY <1>3, <1>4, <1>5, <1>6 DEF Inv, Following

\* Output, time and the worker's own steps.
LEMMA QuietStep ==
  ASSUME Inv, NEW s \in Sessions, Output(s) \/ Elapse(s)
  PROVE  Inv'
<1>1. TypeOK /\ MaxInput \in Nat
  BY LimitsAssumption DEF Inv
<1>2. heard' \in [Sessions -> {"nothing", "fresh", "old"}] /\ late' \in [Sessions -> BOOLEAN]
      /\ input' \in 0..MaxInput
  <2>1. /\ heard \in [Sessions -> {"nothing", "fresh", "old"}] /\ late \in [Sessions -> BOOLEAN]
        /\ input \in 0..MaxInput
    BY <1>1 DEF TypeOK
  <2>2. ASSUME Output(s) PROVE input' \in 0..MaxInput
    BY <1>1, <2>1, <2>2 DEF Output
  <2>3. ASSUME Output(s)
        PROVE  /\ heard' \in [Sessions -> {"nothing", "fresh", "old"}]
               /\ late' \in [Sessions -> BOOLEAN]
    BY <2>1, <2>3 DEF Output
  <2>4. ASSUME Elapse(s)
        PROVE  /\ heard' \in [Sessions -> {"nothing", "fresh", "old"}]
               /\ late' \in [Sessions -> BOOLEAN]
               /\ input' \in 0..MaxInput
    BY <2>1, <2>4 DEF Elapse
  <2> QED
    BY <2>2, <2>3, <2>4
<1>3. UNCHANGED <<rev, busy, quiet, worker, permit, feed, connections, window>>
  BY DEF Output, Elapse
<1>4. TypeOK'
  BY <1>1, <1>2, <1>3 DEF TypeOK, feed, connections, window
<1> QED
  BY <1>3, <1>4, Quietly DEF feed, connections, window

\* The worker's steps that look at no session.
LEMMA WorkerStep ==
  ASSUME Inv, Arm \/ Sleep \/ Wake
  PROVE  Inv'
<1>1. TypeOK
  BY DEF Inv
<1>2. WorkerTyped'
  BY <1>1 DEF Arm, Sleep, Wake, WorkerTyped, TypeOK
<1>3. UNCHANGED <<store, feed, connections, window>>
  BY DEF Arm, Sleep, Wake
<1>4. TypeOK'
  BY <1>1, <1>2, <1>3 DEF TypeOK, WorkerTyped, store, feed, connections, window
<1> QED
  BY <1>3, <1>4, Quietly DEF store, feed, connections, window

\* Every step of the specification keeps the invariant.
LEMMA Inductive ==
  ASSUME Inv, [Next]_vars
  PROVE  Inv'
<1>1. TypeOK
  BY DEF Inv
<1>2. ASSUME NEW s \in Sessions, Look(s) PROVE Inv'
  <2>1. Reconcile({s}, {}) /\ Rescheduled({s}) /\ {s} \in SUBSET Sessions
    BY <1>2 DEF Look
  <2>2. WorkerTyped'
    BY <1>1, <2>1, RescheduledTypes
  <2> QED
    BY <1>2, <2>1, <2>2, Reconciles DEF Look, connections
<1>3. ASSUME Pass PROVE Inv'
  <2>1. Reconcile(Sessions, {}) /\ Sessions \in SUBSET Sessions
    BY <1>3 DEF Pass
  <2>2. WorkerTyped'
    BY <1>1, <1>3 DEF Pass, WorkerTyped, TypeOK
  <2> QED
    BY <1>3, <2>1, <2>2, Reconciles DEF Pass, connections
<1>4. ASSUME ReadForPage PROVE Inv'
  <2>1. Reconcile(Sessions, {}) /\ Rescheduled(Sessions) /\ Sessions \in SUBSET Sessions
    BY <1>4 DEF ReadForPage
  <2>2. WorkerTyped'
    BY <1>1, <2>1, RescheduledTypes
  <2> QED
    BY <1>4, <2>1, <2>2, Reconciles DEF ReadForPage, connections
<1>5. ASSUME NEW c \in Remote, Answer(c) \/ Periodic(c) PROVE Inv'
  <2>1. Resnapshot(c)
    BY <1>5 DEF Answer, Periodic
  <2>2. asked \in [Remote -> Nat]
    BY <1>1 DEF TypeOK
  <2>3. ASSUME Answer(c) PROVE asked' \in [Remote -> Nat]
    <3>1. asked[c] \in Nat /\ asked[c] > 0
      BY <2>2, <2>3 DEF Answer
    <3>2. asked[c] - 1 \in Nat
      BY <3>1
    <3>3. asked' = [asked EXCEPT ![c] = asked[c] - 1]
      BY <2>3 DEF Answer
    <3> QED
      BY <2>2, <3>2, <3>3
  <2>4. ASSUME Periodic(c) PROVE asked' \in [Remote -> Nat]
    BY <2>2, <2>4 DEF Periodic
  <2>5. asked' \in [Remote -> Nat]
    BY <1>5, <2>3, <2>4
  <2> QED
    BY <2>1, <2>5, ResnapshotStep
<1>6. ASSUME UNCHANGED vars PROVE Inv'
  <2>1. TypeOK'
    BY <1>1, <1>6 DEF TypeOK, vars
  <2> QED
    BY <1>6, <2>1, Quietly DEF vars
<1>7. ASSUME NEW s \in Sessions,
             Output(s) \/ Elapse(s) \/ Look(s) \/ \E b \in BOOLEAN : Ingest(s, b)
      PROVE  Inv'
  BY <1>2, <1>7, QuietStep, IngestStep
<1>8. ASSUME Quieting PROVE Inv'
  BY <1>3, <1>8, WorkerStep DEF Quieting
<1>9. ASSUME NEW c \in Remote, Connection(c) PROVE Inv'
  BY <1>5, <1>9, SubscribeStep, LeaveStep, ForwardStep, ObserveStep DEF Connection
<1>10. ASSUME NEW c \in Local, Task(c) PROVE Inv'
  BY <1>10, TakeStep, RereadStep DEF Task
<1>11. ASSUME Paging PROVE Inv'
  BY <1>4, <1>11, PageStep DEF Paging
<1> QED
  BY <1>6, <1>7, <1>8, <1>9, <1>10, <1>11 DEF Next

-----------------------------------------------------------------------------
(* The theorems.                                                             *)

(* The inductive invariant holds: what is numbered, queued, sent and buffered *)
(* continues what its receiver knows, up to what status_feed.rs published.   *)
THEOREM Invariance == Spec => []Inv
<1>1. Init => Inv
  BY StartsWell
<1>2. Inv /\ [Next]_vars => Inv'
  BY Inductive
<1> QED
  BY <1>1, <1>2, PTL DEF Spec

(* The store, the feed, its queues, its connections and the window keep      *)
(* their types; no queue exceeds its capacity.                               *)
THEOREM TypesKept == Spec => []TypeOK
<1>1. Inv => TypeOK
  BY DEF Inv
<1> QED
  BY <1>1, Invariance, PTL

(* A subscriber in step with nothing under way knows the latest revision of  *)
(* every session: what status_feed.rs pushes, drops on overflow and replaces *)
(* by a snapshot adds up to the store.                                       *)
THEOREM MirrorsCurrent == Spec => []MirrorIsCurrent
<1>1. Inv => MirrorIsCurrent
  <2> SUFFICES ASSUME Inv, NEW c \in Subscribers, queue[c].open, mirror[c].synced, ~ Underway(c)
               PROVE  mirror[c].known = rev
    BY DEF MirrorIsCurrent
  <2>1. queue[c].events = <<>> /\ ~ queue[c].needs /\ (c \in Remote => wire[c] = <<>>)
    BY DEF Underway
  <2>2. Coming(c) = <<>>
    BY <2>1 DEF Coming, Sent
  <2>3. Complete(<<>>, mirror[c], rev)
    BY <2>1, <2>2 DEF Inv, Following, InStep, Follows
  <2>4. \A s \in Sessions : mirror[c].known[s] = rev[s]
    BY <2>3 DEF Complete
  <2>5. mirror[c].known \in Revisions /\ rev \in Revisions
    BY MirrorTypes DEF Inv, TypeOK, Revisions
  <2> QED
    BY <2>4, <2>5 DEF Revisions
<1> QED
  BY <1>1, Invariance, PTL

(* A window whose first read succeeded and that has shown all its mail shows *)
(* every session at its latest revision, whatever changed between its        *)
(* listening, the snapshot and the answer, or still at the later revision of *)
(* an earlier run, of which it kept a completion.                            *)
THEOREM WindowsCurrent == Spec => []WindowIsCurrent
<1>1. Inv => WindowIsCurrent
  <2> SUFFICES ASSUME Inv, page.at = "ready", ~ page.failed, mail = <<>>
               PROVE  \A s \in Sessions :
                        page.known[s] = rev[s] \/ (page.known[s] = Kept[s] /\ rev[s] < Kept[s])
    BY DEF WindowIsCurrent
  <2>1. page.buffered = <<>> /\ Covers(page.seq, page.known, Unseen, 0, rev, seq)
    BY DEF Inv, Paged
  <2>2. Unseen = <<>>
    BY <2>1 DEF Unseen
  <2> QED
    BY <2>1, <2>2 DEF Covers, Shows, Stands
<1> QED
  BY <1>1, Invariance, PTL

(* A subscriber loses its step only by reading that its queue overflowed:    *)
(* every change it is sent follows the one before it.                        *)
THEOREM OnlyResync == Spec => OnlyResyncLosesStep
<1> DEFINE Loses(c) ==
             mirror[c].synced /\ ~ mirror'[c].synced /\ queue[c].open /\ queue'[c].open
               => \/ c \in Local /\ Received(c) = Resync
                  \/ c \in Remote /\ Head(wire[c]) = Resync
<1>1. ASSUME Inv, [Next]_vars, NEW c \in Subscribers PROVE Loses(c)
  <2> SUFFICES ASSUME mirror[c].synced, ~ mirror'[c].synced, queue[c].open
               PROVE  \/ c \in Local /\ Received(c) = Resync
                      \/ c \in Remote /\ Head(wire[c]) = Resync
    OBVIOUS
  <2>1. TypeOK /\ InStep(c) /\ mirror \in [Subscribers -> Mirror]
    BY <1>1 DEF Inv, Following, TypeOK
  <2>2. mirror'[c] # mirror[c]
    OBVIOUS
  <2>3. CASE \E d \in Remote : Observe(d)
    <3>1. PICK d \in Remote : Observe(d)
      BY <2>3
    <3>2. d = c
      BY <2>1, <2>2, <3>1 DEF Observe
    <3> QED
      BY <2>1, <3>1, <3>2, ObservesHead
  <2>4. CASE \E d \in Local : Take(d)
    <3>1. PICK d \in Local : Take(d)
      BY <2>4
    <3>2. d = c
      BY <2>1, <2>2, <3>1 DEF Take
    <3> QED
      BY <2>1, <3>1, <3>2, TakesHead
  <2>5. CASE \E d \in Remote : Subscribe(d)
    <3>1. PICK d \in Remote : Subscribe(d)
      BY <2>5
    <3>2. d = c
      BY <2>1, <2>2, <3>1 DEF Subscribe
    <3> QED
      BY <3>1, <3>2 DEF Subscribe
  <2>6. CASE \E d \in Local : Reread(d)
    <3>1. PICK d \in Local : Reread(d)
      BY <2>6
    <3>2. d \in Subscribers /\ (d = c => mirror'[c].synced = TRUE)
      BY <2>1, <3>1 DEF Reread, Synced, Subscribers
    <3>3. d # c => mirror'[c] = mirror[c]
      BY <2>1, <3>1 DEF Reread
    <3> QED
      BY <2>2, <3>2, <3>3
  <2>7. \/ mirror' = mirror
        \/ \E d \in Remote : Observe(d) \/ Subscribe(d)
        \/ \E d \in Local : Task(d)
    BY <1>1 DEF Next, Output, Elapse, Look, Ingest, Quieting, Arm, Pass, Sleep, Wake,
                Connection, Leave, Forward, Answer, Periodic, Resnapshot, Paging, Listen,
                ReadForPage, PageAnswered, Deliver, connections, vars
  <2> QED
    BY <2>2, <2>3, <2>4, <2>5, <2>6, <2>7 DEF Task
<1>2. ASSUME Inv, [Next]_vars
      PROVE  [\A c \in Subscribers : Loses(c)]_mirror
  BY <1>1, <1>2
<1>3. Inv /\ [Next]_vars => [\A c \in Subscribers : Loses(c)]_mirror
  BY <1>2
<1> QED
  BY <1>3, Invariance, PTL DEF Spec, OnlyResyncLosesStep

=============================================================================
