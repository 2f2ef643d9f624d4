------------------------ MODULE OutputStream_proofs ------------------------
(***************************************************************************)
(* Proofs about OutputStream: types, that no output is lost unnoticed but  *)
(* where a pump spent the flag on an older read, and, until a batch is     *)
(* written beside a read, that the screen has no holes and that nothing is *)
(* shown twice before a recovery.  Sizes of queues, windows and budgets,   *)
(* what goes wrong and how often are arbitrary.                            *)
(***************************************************************************)
EXTENDS OutputStream, SequenceTheorems, FiniteSetTheorems, WellFoundedInduction, TLAPS

-----------------------------------------------------------------------------
(* Helpers.                                                                  *)

LEMMA Sizes ==
  /\ MaxOutput \in Nat \ {0} /\ QueueCap \in Nat \ {0} /\ BatchMax \in Nat \ {0}
  /\ Window \in Nat \ {0} /\ StaleLimit \in Nat \ {0} /\ PendingCap \in Nat \ {0}
  /\ HiddenBudget \in Nat /\ MaxTroubles \in Nat
  BY Bounds

\* A set of numbers that is not empty has a smallest one.
LEMMA Smallest ==
  ASSUME NEW S, S \subseteq Nat, S # {}
  PROVE  Min(S) \in S /\ \A y \in S : Min(S) <= y
<1> DEFINE R == OpToRel(<, Nat)
<1>1. PICK x \in S : \A y \in S : ~ (<<y, x>> \in R)
  BY NatLessThanWellFounded, WFMin
<1>2. \A y \in S : ~ (y < x)
  BY <1>1 DEF OpToRel
<1>3. \A y \in S : x <= y
  BY <1>2
<1> HIDE DEF R
<1> QED
  BY <1>3 DEF Min

\* So has a bounded one a largest.
LEMMA Largest ==
  ASSUME NEW n \in Nat, NEW S, S \subseteq 0..n, S # {}
  PROVE  Max(S) \in S /\ \A y \in S : y <= Max(S)
<1> DEFINE T == {n - y : y \in S}
<1>1. T \subseteq Nat /\ T # {}
  <2>1. \A y \in S : n - y \in Nat
    OBVIOUS
  <2> QED
    BY <2>1
<1> HIDE DEF T
<1>2. Min(T) \in T /\ \A t \in T : Min(T) <= t
  BY <1>1, Smallest
<1>3. PICK x \in S : \A y \in S : n - x <= n - y
  BY <1>2 DEF T
<1>4. \A y \in S : x >= y
  BY <1>3
<1> QED
  BY <1>4 DEF Max

LEMMA MaxOfTwo ==
  ASSUME NEW a \in Nat, NEW b \in Nat
  PROVE  Max({a, b}) \in {a, b} /\ a <= Max({a, b}) /\ b <= Max({a, b})
<1>1. \E x \in {a, b} : \A y \in {a, b} : x >= y
  OBVIOUS
<1> DEFINE m == Max({a, b})
<1>2. m \in {a, b} /\ \A y \in {a, b} : m >= y
  BY <1>1 DEF Max
<1> QED
  BY <1>2

LEMMA MinOfTwo ==
  ASSUME NEW a \in Nat, NEW b \in Nat
  PROVE  Min({a, b}) \in {a, b} /\ Min({a, b}) <= a /\ Min({a, b}) <= b
<1>1. \E x \in {a, b} : \A y \in {a, b} : x <= y
  OBVIOUS
<1> DEFINE m == Min({a, b})
<1>2. m \in {a, b} /\ \A y \in {a, b} : m <= y
  BY <1>1 DEF Min
<1> QED
  BY <1>2

\* What Retained keeps is an end of the parked batches.
LEMMA RetainedIsTail ==
  ASSUME NEW batches \in Seq(Batch)
  PROVE  \E m \in 1..(Len(batches) + 1) :
           Retained(batches) = SubSeq(batches, m, Len(batches))
<1> DEFINE weight(i) == FoldSeq(LAMBDA b, n : n + Size(b.range), 0, SubSeq(batches, i, Len(batches)))
           fits(i) == i > Len(batches) \/ weight(i) <= PendingCap
           S == {i \in 1..(Len(batches) + 1) : fits(i)}
<1>1. S \subseteq Nat /\ Len(batches) + 1 \in S
  <2>1. Len(batches) \in Nat
    OBVIOUS
  <2> HIDE DEF weight
  <2> QED
    BY <2>1
<1>2. Retained(batches) = SubSeq(batches, Min(S), Len(batches))
  BY DEF Retained
<1>3. S \subseteq 1..(Len(batches) + 1)
  OBVIOUS
<1> HIDE DEF S
<1>4. Min(S) \in S
  BY <1>1, Smallest
<1> QED
  BY <1>2, <1>3, <1>4

LEMMA RetainedType ==
  ASSUME NEW batches \in Seq(Batch)
  PROVE  /\ Retained(batches) \in Seq(Batch)
         /\ \A i \in DOMAIN Retained(batches) :
              \E j \in DOMAIN batches : Retained(batches)[i] = batches[j]
<1>1. PICK m \in 1..(Len(batches) + 1) : Retained(batches) = SubSeq(batches, m, Len(batches))
  BY RetainedIsTail
<1>2. Len(batches) \in Nat /\ \A i \in m..Len(batches) : batches[i] \in Batch
  BY LenProperties
<1>3. /\ SubSeq(batches, m, Len(batches)) \in Seq(Batch)
      /\ \A i \in 1..(Len(batches) - m + 1) :
           SubSeq(batches, m, Len(batches))[i] = batches[m + i - 1]
      /\ DOMAIN SubSeq(batches, m, Len(batches)) = 1..(Len(batches) - m + 1)
  <2>1. m \in Int /\ Len(batches) \in Int
    BY <1>2
  <2> QED
    BY <1>2, <2>1, SubSeqProperties, LenProperties
<1> QED
  BY <1>1, <1>2, <1>3

-----------------------------------------------------------------------------
(* The invariant.                                                            *)

\* A channel is replaced once for every recovery.
Recovered ==
  /\ flow.gen <= spent + 1
  /\ attach = "requested" => flow.gen <= spent

\* The pane does not write a batch while it reads the scrollback, or history
\* tells; and it does neither while it attaches.
OneWriter ==
  /\ pump.pc = "write" => sync.pc = "none" \/ term.mixed
  /\ attach # "none" => pump.pc = "idle" /\ sync.pc = "none" /\ ~ term.ready

\* The chunks, and the ranges of the batches, in a list.
Items(s) == {s[i] : i \in DOMAIN s}
Ranges(s) == {s[i].range : i \in DOMAIN s}

\* What the forwarder has before it.
Parts == Items(carry) \cup Items(queue)

\* Nothing is on its way, or claimed by the pane, before it was printed; what
\* a read brings reaches as far as the pane already is, unless a batch was
\* written beside a read.
Printed ==
  /\ \A r \in Parts \cup Ranges(channel) \cup Ranges(term.pending) : r.to <= written
  /\ fwd.pc # "idle" => fwd.batch.range.to <= written
  /\ pump.pc = "write" => pump.batch.range.to <= written
  /\ term.synced <= written
  /\ sync.pc \in {"have", "write"} =>
       sync.end <= written /\ (~ term.mixed => term.synced <= sync.end)

\* The queue to the pane is short, and has room for one more when a post fails.
Carried ==
  /\ Len(carry) <= 2
  /\ fwd.pc # "idle" => Len(carry) <= 1

\* How far the screen reaches: to the end of the write under way.
Top ==
  IF pump.pc = "write" THEN Max({term.synced, pump.batch.range.to})
  ELSE IF sync.pc = "write" THEN sync.end ELSE term.synced

\* Each chunk comes after all earlier ones.
Ordered(s) == \A i \in DOMAIN s : \A c \in 1..(s[i] - 1) : \E j \in 1..(i - 1) : s[j] = c
Filled(s, n) == \A c \in 1..n : \E i \in DOMAIN s : s[i] = c
Once(s) == \A i, j \in DOMAIN s : s[i] = s[j] => i = j

Painted == Ordered(screen) /\ Filled(screen, Top)
PaintedOnce ==
  flow.gen = 1 /\ attach # "requested" =>
    Once(screen) /\ \A i \in DOMAIN screen : screen[i] <= Top

\* The last chunk decides: when it is not lost unnoticed, none is.
LastIsKnown ==
  term.synced < written /\ term.doubt < written =>
    \/ ResyncOwed
    \/ sync.pc \in {"have", "write"} /\ written <= sync.end
    \/ \E r \in Travelling : r.to = written

-----------------------------------------------------------------------------
(* The forwarder collects a batch.                                           *)

\* Chunks that adjoin one another end ever later.
LEMMA Adjoining ==
  ASSUME NEW s \in Seq(Range2), NEW n \in 1..Len(s), \A i \in 2..n : s[i].from = s[i-1].to
  PROVE  /\ s[1].from < s[n].to
         /\ \A i \in 1..n : s[i].to <= s[n].to
<1>1. \A i \in 1..n : s[i] \in Range2
  BY ElementOfSeq
<1>2. \A i \in 1..n : s[i].from \in Nat /\ s[i].to \in Nat /\ s[i].from < s[i].to
  BY <1>1, Sizes DEF Range2, Offset
<1>3. n \in Nat /\ 1 <= n
  BY LenProperties
<1>4. \A i \in 1..n : s[1].from < s[i].to
  <2> DEFINE Bad == {i \in 1..n : ~ s[1].from < s[i].to}
  <2> SUFFICES ASSUME Bad # {} PROVE FALSE
    OBVIOUS
  <2>1. Min(Bad) \in Bad /\ \A j \in Bad : Min(Bad) <= j
    <3>1. Bad \subseteq Nat
      BY <1>3
    <3> HIDE DEF Bad
    <3> QED
      BY <3>1, Smallest
  <2>2. PICK i \in Bad : \A j \in Bad : i <= j
    BY <2>1
  <2>3. i \in 1..n /\ ~ s[1].from < s[i].to
    OBVIOUS
  <2>4. i # 1
    BY <1>2, <1>3, <2>3
  <2>5. i - 1 \in 1..n /\ i - 1 \notin Bad /\ i \in 2..n
    BY <2>2, <2>3, <2>4, <1>3
  <2>6. s[1].from < s[i - 1].to /\ s[i].from = s[i - 1].to
    BY <2>5
  <2> QED
    BY <1>2, <1>3, <2>3, <2>5, <2>6
<1>5. \A i \in 1..n : s[i].to <= s[n].to
  <2> DEFINE Bad == {i \in 1..n : ~ s[i].to <= s[n].to}
  <2> SUFFICES ASSUME Bad # {} PROVE FALSE
    OBVIOUS
  <2>1. Max(Bad) \in Bad /\ \A j \in Bad : j <= Max(Bad)
    <3>1. Bad \subseteq 0..n
      BY <1>3
    <3> HIDE DEF Bad
    <3> QED
      BY <3>1, <1>3, Largest
  <2>2. PICK i \in Bad : \A j \in Bad : j <= i
    BY <2>1
  <2>3. i \in 1..n /\ ~ s[i].to <= s[n].to
    OBVIOUS
  <2>4. i # n
    BY <1>2, <1>3, <2>3
  <2>5. i + 1 \in 1..n /\ i + 1 \notin Bad /\ i + 1 \in 2..n
    BY <2>2, <2>3, <2>4, <1>3
  <2>6. s[i + 1].to <= s[n].to /\ s[i + 1].from = s[i].to
    BY <2>5
  <2> QED
    BY <1>2, <1>3, <2>3, <2>5, <2>6
<1> QED
  BY <1>3, <1>4, <1>5

LEMMA Concatenated ==
  ASSUME NEW s \in Seq(Range2), NEW t \in Seq(Range2)
  PROVE  /\ s \o t \in Seq(Range2) /\ Len(s \o t) = Len(s) + Len(t)
         /\ Len(s) \in Nat /\ Len(t) \in Nat
         /\ Items(s \o t) = Items(s) \cup Items(t)
<1>1. /\ Len(s) \in Nat /\ Len(t) \in Nat /\ DOMAIN s = 1..Len(s) /\ DOMAIN t = 1..Len(t)
      /\ s \o t \in Seq(Range2) /\ Len(s \o t) = Len(s) + Len(t)
      /\ \A i \in 1..(Len(s) + Len(t)) :
           (s \o t)[i] = IF i <= Len(s) THEN s[i] ELSE t[i - Len(s)]
  BY LenProperties, ConcatProperties
<1>2. DOMAIN (s \o t) = 1..(Len(s) + Len(t))
  BY <1>1, LenProperties
<1>3. ASSUME NEW i \in DOMAIN (s \o t)
      PROVE  (s \o t)[i] \in {s[j] : j \in DOMAIN s} \cup {t[j] : j \in DOMAIN t}
  <2>1. CASE i <= Len(s)
    BY <1>1, <1>2, <2>1
  <2>2. CASE ~ i <= Len(s)
    <3>1. i - Len(s) \in DOMAIN t
      BY <1>1, <1>2, <2>2
    <3> QED
      BY <1>1, <1>2, <2>2, <3>1
  <2> QED
    BY <2>1, <2>2
<1>4. ASSUME NEW j \in DOMAIN s PROVE j \in DOMAIN (s \o t) /\ (s \o t)[j] = s[j]
  BY <1>1, <1>2
<1>5. ASSUME NEW j \in DOMAIN t
      PROVE  j + Len(s) \in DOMAIN (s \o t) /\ (s \o t)[j + Len(s)] = t[j]
  <2>1. j + Len(s) \in 1..(Len(s) + Len(t)) /\ ~ (j + Len(s) <= Len(s)) /\ j + Len(s) - Len(s) = j
    BY <1>1
  <2> QED
    BY <1>1, <1>2, <2>1
<1>6. Items(s) \cup Items(t) \subseteq Items(s \o t)
  BY <1>4, <1>5 DEF Items
<1>7. Items(s \o t) \subseteq Items(s) \cup Items(t)
  BY <1>3 DEF Items
<1> QED
  BY <1>1, <1>6, <1>7

Slice(s, m, n) == {s[j] : j \in m..n}

LEMMA SubSequence ==
  ASSUME NEW S, NEW s \in Seq(S), NEW m \in Nat, NEW n \in Nat, 1 <= m, n <= Len(s)
  PROVE  /\ SubSeq(s, m, n) \in Seq(S)
         /\ Len(SubSeq(s, m, n)) = IF m <= n THEN n - m + 1 ELSE 0
         /\ Items(SubSeq(s, m, n)) = Slice(s, m, n)
<1>1. Len(s) \in Nat /\ \A j \in m..n : s[j] \in S
  BY LenProperties
<1>2. /\ SubSeq(s, m, n) \in Seq(S)
      /\ Len(SubSeq(s, m, n)) = IF m <= n THEN n - m + 1 ELSE 0
      /\ \A i \in 1..(n - m + 1) : SubSeq(s, m, n)[i] = s[m + i - 1]
  <2>1. m \in Int /\ n \in Int
    OBVIOUS
  <2> QED
    BY <1>1, <2>1, SubSeqProperties
<1>3. DOMAIN SubSeq(s, m, n) = 1..(n - m + 1)
  BY <1>2, LenProperties
<1>4. \A i \in 1..(n - m + 1) : m + i - 1 \in m..n
  OBVIOUS
<1>5. \A j \in m..n : j - m + 1 \in 1..(n - m + 1) /\ m + (j - m + 1) - 1 = j
  OBVIOUS
<1>6. ASSUME NEW i \in 1..(n - m + 1) PROVE SubSeq(s, m, n)[i] \in {s[j] : j \in m..n}
  BY <1>2, <1>4
<1>7. ASSUME NEW j \in m..n PROVE s[j] \in {SubSeq(s, m, n)[i] : i \in 1..(n - m + 1)}
  BY <1>2, <1>5
<1> QED
  BY <1>2, <1>3, <1>6, <1>7 DEF Items, Slice

LEMMA Collected ==
  ASSUME queue \in Seq(Range2), carry \in Seq(Range2), Len(carry) <= 2, Collect
  PROVE  /\ fwd'.pc = "reserve" /\ fwd' = [pc |-> "reserve", batch |-> fwd'.batch]
         /\ fwd'.batch.range \in Range2
         /\ fwd'.batch = [NoBatch EXCEPT !.range = fwd'.batch.range]
         /\ carry' \in Seq(Range2) /\ Len(carry') <= 1
         /\ queue' \in Seq(Range2) /\ Len(queue') <= Len(queue)
         /\ Parts' \subseteq Parts
         /\ \E r \in Parts : fwd'.batch.range.to = r.to
         /\ \A r \in Parts : r.to <= fwd'.batch.range.to \/ r \in Parts'
<1> DEFINE source == carry \o queue
           S == {n \in 1..Len(source) : \A i \in 2..n :
                   /\ source[i].from = source[i-1].to
                   /\ source[i-1].to - source[1].from < BatchMax}
           count == Max(S)
           whole == [from |-> source[1].from, to |-> source[count].to]
           looksOn == count < Len(source) /\ Size(whole) < BatchMax
           taken == IF looksOn THEN count + 1 ELSE count
           cut == Max({taken, Len(carry)})
<1>1. /\ source # <<>>
      /\ fwd' = [pc |-> "reserve", batch |-> [NoBatch EXCEPT !.range = whole]]
      /\ carry' = SubSeq(source, count + 1, cut)
      /\ queue' = SubSeq(source, cut + 1, Len(source))
  BY DEF Collect
<1>2. /\ source \in Seq(Range2) /\ Len(source) = Len(carry) + Len(queue)
      /\ Len(carry) \in Nat /\ Len(queue) \in Nat
      /\ Parts = {source[i] : i \in 1..Len(source)}
  <2>1. source \in Seq(Range2) /\ DOMAIN source = 1..Len(source)
    BY Concatenated, LenProperties
  <2> QED
    BY <2>1, Concatenated DEF Parts, Items
<1> HIDE DEF source
<1>3. Len(source) \in Nat /\ 1 <= Len(source)
  <2>1. Len(source) # 0
    BY <1>1, <1>2, EmptySeq
  <2> QED
    BY <1>2, <2>1
<1>4. S \subseteq 0..Len(source) /\ 1 \in S
  BY <1>3
<1>5. count \in S
  <2>1. S # {}
    BY <1>4
  <2> HIDE DEF S
  <2> QED
    BY <1>3, <1>4, <2>1, Largest
<1>6. count \in 1..Len(source) /\ \A i \in 2..count : source[i].from = source[i-1].to
  BY <1>5
<1> HIDE DEF S, count
<1>7. source[1].from < source[count].to /\ \A i \in 1..count : source[i].to <= source[count].to
  BY <1>2, <1>6, Adjoining
<1>8. whole \in Range2
  <2>1. 1 \in 1..Len(source)
    BY <1>3
  <2>2. source[1] \in Range2 /\ source[count] \in Range2
    BY <1>2, <1>6, <2>1, ElementOfSeq
  <2> QED
    BY <1>7, <2>2 DEF Range2
<1>9. taken \in Nat /\ count <= taken /\ taken <= Len(source) /\ taken <= count + 1
  BY <1>3, <1>6
<1> HIDE DEF taken
<1>10. cut \in {taken, Len(carry)} /\ taken <= cut /\ Len(carry) <= cut
  BY <1>2, <1>9, MaxOfTwo
<1> HIDE DEF cut
<1>11. cut \in Nat /\ cut <= Len(source) /\ cut - count <= 1 /\ count <= cut /\ count \in Nat
  BY <1>2, <1>3, <1>6, <1>9, <1>10
<1>12. /\ carry' \in Seq(Range2)
       /\ Len(carry') = IF count + 1 <= cut THEN cut - (count + 1) + 1 ELSE 0
       /\ Items(carry') = Slice(source, count + 1, cut)
  <2>1. count + 1 \in Nat /\ cut \in Nat /\ 1 <= count + 1 /\ cut <= Len(source)
    BY <1>3, <1>11
  <2>2. carry' = SubSeq(source, count + 1, cut)
    BY <1>1
  <2> DEFINE sub == SubSeq(source, count + 1, cut)
  <2>3. /\ sub \in Seq(Range2)
        /\ Len(sub) = IF count + 1 <= cut THEN cut - (count + 1) + 1 ELSE 0
        /\ Items(sub) = Slice(source, count + 1, cut)
    BY <1>2, <2>1, SubSequence
  <2>4. carry' = sub
    BY <2>2
  <2> HIDE DEF sub
  <2> QED
    BY <2>3, <2>4
<1>13. /\ queue' \in Seq(Range2)
       /\ Len(queue') = IF cut + 1 <= Len(source) THEN Len(source) - (cut + 1) + 1 ELSE 0
       /\ Items(queue') = Slice(source, cut + 1, Len(source))
  <2>1. cut + 1 \in Nat /\ Len(source) \in Nat /\ 1 <= cut + 1 /\ Len(source) <= Len(source)
    BY <1>3, <1>11
  <2>2. queue' = SubSeq(source, cut + 1, Len(source))
    BY <1>1
  <2> DEFINE sub == SubSeq(source, cut + 1, Len(source))
  <2>3. /\ sub \in Seq(Range2)
        /\ Len(sub) = IF cut + 1 <= Len(source) THEN Len(source) - (cut + 1) + 1 ELSE 0
        /\ Items(sub) = Slice(source, cut + 1, Len(source))
    BY <1>2, <2>1, SubSequence
  <2>4. queue' = sub
    BY <2>2
  <2> HIDE DEF sub
  <2> QED
    BY <2>3, <2>4
<1>14. Parts' = {source[j] : j \in (count + 1)..cut} \cup {source[j] : j \in (cut + 1)..Len(source)}
  BY <1>12, <1>13 DEF Parts, Items, Slice
<1>15. fwd'.pc = "reserve" /\ fwd'.batch.range = whole /\ fwd'.batch = [NoBatch EXCEPT !.range = whole]
  BY <1>1 DEF NoBatch
<1>16. Len(carry') <= 1 /\ Len(queue') <= Len(queue)
  BY <1>2, <1>3, <1>10, <1>11, <1>12, <1>13
<1>17. Parts' \subseteq Parts
  BY <1>2, <1>3, <1>11, <1>14
<1>18. \E r \in Parts : whole.to = r.to
  BY <1>2, <1>6
<1>19. \A r \in Parts : r.to <= whole.to \/ r \in Parts'
  <2>1. ASSUME NEW i \in 1..Len(source) PROVE source[i].to <= whole.to \/ source[i] \in Parts'
    <3>1. CASE i <= count
      BY <1>7, <3>1
    <3>2. CASE ~ i <= count
      BY <1>3, <1>11, <1>14, <3>2
    <3> QED
      BY <3>1, <3>2
  <2> QED
    BY <1>2, <2>1
<1> QED
  BY <1>1, <1>8, <1>12, <1>13, <1>15, <1>16, <1>17, <1>18, <1>19


-----------------------------------------------------------------------------
(* Types.                                                                    *)

FwdTyped ==
  /\ fwd \in [pc : {"idle", "reserve", "send"}, batch : Held]
  /\ fwd.pc = "reserve" => fwd.batch.range \in Range2
  /\ fwd.pc = "send" => fwd.batch \in Batch

QueuesTyped ==
  /\ written \in Offset
  /\ queue \in Seq(Range2) /\ Len(queue) <= QueueCap
  /\ carry \in Seq(Range2) /\ Carried

FlowTyped ==
  /\ flow \in FlowState
  /\ IsFiniteSet(flow.inflight) /\ Cardinality(flow.inflight) <= Window

ChannelTyped ==
  /\ channel \in Seq(Batch) /\ \A i \in DOMAIN channel : channel[i].gen = flow.gen
  /\ gap \in BOOLEAN

PumpTyped ==
  /\ pump \in [pc : {"idle", "sync", "loop", "write"}, batch : Held]
  /\ pump.pc = "write" => pump.batch \in Batch
SyncTyped ==
  sync \in [pc : {"none", "read", "have", "write"}, end : Offset, by : {"pump", "attach"}]
ViewTyped ==
  /\ view \in {"shown", "window", "pane"} /\ attach \in {"none", "requested", "replaced"}
  /\ fresh \in BOOLEAN /\ spent \in 0..MaxTroubles

Typed ==
  /\ FwdTyped /\ QueuesTyped /\ FlowTyped /\ ChannelTyped /\ PumpTyped /\ SyncTyped
  /\ ViewTyped /\ term \in Terminal /\ screen \in Seq(Chunk) /\ Recovered

LEMMA TypedMeans == Typed => TypeOK
  BY DEF Typed, TypeOK, FwdTyped, QueuesTyped, FlowTyped, ChannelTyped, PumpTyped, SyncTyped,
         ViewTyped, Carried

LEMMA NoBatchHeld == NoBatch \in Held
<1>1. MaxOutput \in Nat /\ MaxTroubles \in Nat
  BY Sizes
<1> QED
  BY <1>1 DEF NoBatch, Held, Gen, Offset

LEMMA BatchHeld == Batch \subseteq Held
  BY DEF Batch, Held, Range2, Seqno

LEMMA ChunksOf ==
  ASSUME NEW from \in Offset, NEW to \in Offset
  PROVE  /\ Chunks([from |-> from, to |-> to]) \in Seq(Chunk)
         /\ from <= to => Len(Chunks([from |-> from, to |-> to])) = to - from
         /\ \A i \in 1..(to - from) : Chunks([from |-> from, to |-> to])[i] = from + i
<1>1. MaxOutput \in Nat
  BY Sizes
<1>2. from \in Nat /\ to \in Nat /\ to <= MaxOutput /\ to - from \in Int
  BY <1>1 DEF Offset
<1>3. Chunks([from |-> from, to |-> to]) = [i \in 1..(to - from) |-> from + i]
  BY DEF Chunks, Size
<1>4. \A i \in 1..(to - from) : from + i \in Chunk
  BY <1>1, <1>2 DEF Chunk
<1>5. CASE from <= to
  <2>1. to - from \in Nat
    BY <1>2, <1>5
  <2>2. [i \in 1..(to - from) |-> from + i] \in Seq(Chunk)
    BY <1>4, <2>1
  <2>3. Len([i \in 1..(to - from) |-> from + i]) = to - from
    BY <2>1
  <2> QED
    BY <1>3, <2>2, <2>3
<1>6. CASE ~ from <= to
  <2>1. 1..(to - from) = 1..0
    BY <1>2, <1>6
  <2>2. [i \in 1..0 |-> from + i] \in Seq(Chunk)
    OBVIOUS
  <2> QED
    BY <1>3, <1>6, <2>1, <2>2
<1> QED
  BY <1>5, <1>6

LEMMA InitTyped == Init => Typed
<1> SUFFICES ASSUME Init PROVE Typed
  OBVIOUS
<1>1. NoBatch \in Held /\ 0 \in Offset /\ 1 \in Gen /\ 1 \in Seqno
  BY NoBatchHeld, Sizes DEF Offset, Gen, Seqno
<1>2. FwdTyped /\ PumpTyped /\ SyncTyped
  BY <1>1 DEF Init, FwdTyped, PumpTyped, SyncTyped
<1>3. QueuesTyped
  <2>1. <<>> \in Seq(Range2) /\ Len(<<>>) = 0 /\ 0 <= QueueCap
    BY Sizes
  <2> QED
    BY <1>1, <2>1 DEF Init, QueuesTyped, Carried
<1>4. FlowTyped
  <2>1. flow = NewFlow(1) /\ IsFiniteSet({}) /\ Cardinality({}) = 0
    BY FS_EmptySet DEF Init
  <2>2. HiddenBudget \in 0..HiddenBudget /\ 0 \in 0..StaleLimit /\ 0 <= Window
    BY Sizes
  <2> QED
    BY <1>1, <2>1, <2>2 DEF FlowTyped, FlowState, NewFlow
<1>5. ChannelTyped
  <2>1. <<>> \in Seq(Batch) /\ DOMAIN <<>> = 1..0
    OBVIOUS
  <2>2. channel = <<>> /\ gap = FALSE
    BY DEF Init
  <2>3. \A i \in DOMAIN channel : FALSE
    BY <2>1, <2>2
  <2> QED
    BY <2>1, <2>2, <2>3 DEF ChannelTyped
<1>6. ViewTyped /\ term \in Terminal /\ screen \in Seq(Chunk)
  <2>1. <<>> \in Seq(Batch) /\ <<>> \in Seq(Chunk) /\ 0 \in 0..MaxTroubles
    BY Sizes
  <2> QED
    BY <1>1, <2>1 DEF Init, ViewTyped, Terminal
<1>7. Recovered
  BY DEF Init, Recovered, NewFlow
<1> QED
  BY <1>2, <1>3, <1>4, <1>5, <1>6, <1>7 DEF Typed

LEMMA ReadTypes == ASSUME Typed, Read PROVE Typed'
<1>1. MaxOutput \in Nat /\ written \in Offset /\ written < MaxOutput /\ written' = written + 1
  BY Sizes DEF Typed, QueuesTyped, Read
<1>2. [from |-> written, to |-> written + 1] \in Range2 /\ written' \in Offset
  BY <1>1 DEF Range2, Offset
<1>3. QueuesTyped'
  <2>1. queue' \in Seq(Range2) /\ Len(queue') <= QueueCap
    <3>1. queue \in Seq(Range2) /\ Len(queue) <= QueueCap
      BY DEF Typed, QueuesTyped
    <3>2. CASE Len(queue) < QueueCap
      <4>1. queue' = Append(queue, [from |-> written, to |-> written + 1])
        BY <3>2 DEF Read
      <4>2. queue' \in Seq(Range2) /\ Len(queue') = Len(queue) + 1 /\ Len(queue) \in Nat
        BY <1>2, <3>1, <4>1, AppendProperties, LenProperties
      <4> QED
        BY <3>2, <4>2, Sizes
    <3>3. CASE ~ Len(queue) < QueueCap
      BY <3>1, <3>3 DEF Read
    <3> QED
      BY <3>2, <3>3
  <2> QED
    BY <1>2, <2>1 DEF Typed, QueuesTyped, Carried, Read
<1>4. FlowTyped' /\ flow'.gen = flow.gen
  <2>1. flow \in FlowState
    BY DEF Typed, FlowTyped
  <2>2. flow' = flow \/ flow' = [flow EXCEPT !.dropped = TRUE]
    BY DEF Read
  <2>3. flow' \in FlowState /\ flow'.inflight = flow.inflight /\ flow'.gen = flow.gen
    BY <2>1, <2>2 DEF FlowState
  <2> QED
    BY <2>3 DEF Typed, FlowTyped
<1>5. FwdTyped' /\ ChannelTyped' /\ PumpTyped' /\ SyncTyped'
  BY <1>4 DEF Typed, Read, wire, FwdTyped, ChannelTyped, PumpTyped, SyncTyped
<1>6. ViewTyped' /\ term' \in Terminal /\ screen' \in Seq(Chunk) /\ Recovered'
  BY <1>4 DEF Typed, Read, ViewTyped, Recovered
<1> QED
  BY <1>3, <1>4, <1>5, <1>6 DEF Typed

LEMMA CollectTypes == ASSUME Typed, Collect PROVE Typed'
<1>1. UNCHANGED <<written, flow, pane, wire, spent>> /\ fwd.pc = "idle"
  BY DEF Collect
<1>2. queue \in Seq(Range2) /\ carry \in Seq(Range2) /\ Len(carry) <= 2 /\ Len(queue) <= QueueCap
  BY DEF Typed, QueuesTyped, Carried
<1>3. /\ fwd'.pc = "reserve" /\ fwd' = [pc |-> "reserve", batch |-> fwd'.batch]
      /\ fwd'.batch.range \in Range2
      /\ fwd'.batch = [NoBatch EXCEPT !.range = fwd'.batch.range]
      /\ carry' \in Seq(Range2) /\ Len(carry') <= 1
      /\ queue' \in Seq(Range2) /\ Len(queue') <= Len(queue)
  BY <1>2, Collected
<1>4. FwdTyped'
  <2>1. fwd'.batch \in Held
    BY <1>3, NoBatchHeld DEF Held, Range2
  <2> QED
    BY <1>3, <2>1 DEF FwdTyped
<1>5. QueuesTyped'
  <2>1. Len(queue') <= QueueCap
    <3>1. Len(queue') \in Nat /\ Len(queue) \in Nat /\ QueueCap \in Nat
      BY <1>2, <1>3, Sizes, LenProperties
    <3> QED
      BY <1>2, <1>3, <3>1
  <2>2. Len(carry') <= 2
    <3>1. Len(carry') \in Nat
      BY <1>3, LenProperties
    <3> QED
      BY <1>3, <3>1
  <2> QED
    BY <1>1, <1>3, <2>1, <2>2 DEF Typed, QueuesTyped, Carried
<1>6. FlowTyped' /\ ChannelTyped' /\ PumpTyped' /\ SyncTyped' /\ ViewTyped'
  BY <1>1 DEF Typed, FlowTyped, ChannelTyped, PumpTyped, SyncTyped, ViewTyped, pane, wire
<1>7. term' \in Terminal /\ screen' \in Seq(Chunk) /\ Recovered'
  BY <1>1 DEF Typed, Recovered, pane
<1> QED
  BY <1>4, <1>5, <1>6, <1>7 DEF Typed

\* Forgiving late batches leaves the channel's generation and what it owes.
LEMMA Forgiven ==
  ASSUME FlowTyped, NEW k \in {0} \cup flow.inflight, NEW f, f = Forgive(flow, k)
  PROVE  /\ f \in FlowState /\ IsFiniteSet(f.inflight) /\ Cardinality(f.inflight) <= Window
         /\ f.gen = flow.gen /\ f.next = flow.next /\ f.visible = flow.visible
         /\ f.budget = flow.budget /\ f.dropped = flow.dropped
<1>1. CASE k = 0
  BY <1>1 DEF Forgive, FlowTyped
<1>2. CASE k # 0
  <2> DEFINE kept == {n \in flow.inflight : n > k}
             late == Min({flow.stale + 1, StaleLimit})
  <2>1. f = [flow EXCEPT !.inflight = kept, !.stale = late]
    BY <1>2 DEF Forgive
  <2>2. flow \in FlowState /\ IsFiniteSet(flow.inflight) /\ Cardinality(flow.inflight) <= Window
    BY DEF FlowTyped
  <2>3. kept \subseteq flow.inflight /\ flow.inflight \subseteq Seqno
    BY <2>2 DEF FlowState
  <2>4. late \in 0..StaleLimit
    <3>1. flow.stale \in 0..StaleLimit
      BY <2>2 DEF FlowState
    <3>2. flow.stale + 1 \in Nat /\ StaleLimit \in Nat
      BY <3>1, Sizes
    <3> QED
      BY <3>1, <3>2, MinOfTwo
  <2> HIDE DEF kept, late
  <2>5. IsFiniteSet(kept) /\ Cardinality(kept) <= Window
    <3>1. IsFiniteSet(kept) /\ Cardinality(kept) <= Cardinality(flow.inflight)
      BY <2>2, <2>3, FS_Subset
    <3>2. Cardinality(kept) \in Nat /\ Cardinality(flow.inflight) \in Nat /\ Window \in Nat
      BY <2>2, <3>1, Sizes, FS_CardinalityType
    <3> QED
      BY <2>2, <3>1, <3>2
  <2>6. f.inflight = kept
    BY <2>1, <2>2 DEF FlowState
  <2>7. f \in FlowState
    BY <2>1, <2>2, <2>3, <2>4 DEF FlowState
  <2>8. /\ f.gen = flow.gen /\ f.next = flow.next /\ f.visible = flow.visible
        /\ f.budget = flow.budget /\ f.dropped = flow.dropped
    BY <2>1, <2>2 DEF FlowState
  <2> QED
    BY <2>5, <2>6, <2>7, <2>8
<1> QED
  BY <1>1, <1>2

LEMMA ExpiredKeeps ==
  ASSUME Typed, NEW k, Expired(k)
  PROVE  fwd.pc = "reserve" /\ spent' \in 0..MaxTroubles /\ spent <= spent' /\ spent \in Nat
<1>1. spent \in 0..MaxTroubles /\ MaxTroubles \in Nat
  BY Sizes DEF Typed, ViewTyped
<1>2. \/ spent' = spent
      \/ spent < MaxTroubles /\ spent' = spent + 1
  BY DEF Expired, Spend
<1>3. fwd.pc = "reserve"
  BY DEF Expired
<1>4. CASE spent' = spent
  BY <1>1, <1>3, <1>4
<1>5. CASE spent < MaxTroubles /\ spent' = spent + 1
  BY <1>1, <1>3, <1>5
<1> QED
  BY <1>2, <1>4, <1>5

LEMMA SpentMore ==
  ASSUME Typed, flow'.gen = flow.gen, attach' = attach, spent' \in Nat, spent <= spent'
  PROVE  Recovered'
<1>1. flow.gen \in Nat /\ spent \in Nat
  BY Sizes DEF Typed, FlowTyped, FlowState, Gen, ViewTyped
<1> QED
  BY <1>1 DEF Typed, Recovered

LEMMA AutoConsumeTypes ==
  ASSUME Typed, NEW k \in {0} \cup flow.inflight, AutoConsume(k) PROVE Typed'
<1> DEFINE f == Forgive(flow, k)
<1>1. /\ Expired(k) /\ flow' = [f EXCEPT !.dropped = TRUE]
      /\ fwd' = [pc |-> "idle", batch |-> NoBatch]
      /\ UNCHANGED <<written, queue, carry, pane, wire>>
  BY DEF AutoConsume
<1>2. /\ f \in FlowState /\ IsFiniteSet(f.inflight) /\ Cardinality(f.inflight) <= Window
      /\ f.gen = flow.gen
  BY Forgiven DEF Typed
<1> HIDE DEF f
<1>3. FlowTyped' /\ flow'.gen = flow.gen
  <2>1. flow' \in FlowState /\ flow'.inflight = f.inflight /\ flow'.gen = f.gen
    BY <1>1, <1>2 DEF FlowState
  <2> QED
    BY <1>2, <2>1 DEF FlowTyped
<1>4. fwd.pc = "reserve" /\ spent' \in 0..MaxTroubles /\ spent <= spent'
  BY <1>1, ExpiredKeeps
<1>5. FwdTyped'
  BY <1>1, NoBatchHeld DEF FwdTyped
<1>6. QueuesTyped'
  BY <1>1 DEF Typed, QueuesTyped, Carried
<1>7. ChannelTyped' /\ PumpTyped' /\ SyncTyped'
  BY <1>1, <1>3 DEF Typed, ChannelTyped, PumpTyped, SyncTyped, pane, wire
<1>8. ViewTyped' /\ term' \in Terminal /\ screen' \in Seq(Chunk) /\ attach' = attach
  BY <1>1, <1>4 DEF Typed, ViewTyped, pane
<1>9. Recovered'
  BY <1>3, <1>4, <1>8, SpentMore
<1> QED
  BY <1>3, <1>5, <1>6, <1>7, <1>8, <1>9 DEF Typed

LEMMA GrantTypes ==
  ASSUME Typed, NEW k \in {0} \cup flow.inflight, Grant(k) PROVE Typed'
<1> DEFINE f == Forgive(flow, k)
           size == Size(fwd.batch.range)
<1>1. /\ Expired(k) /\ ~Refused(f, size) /\ ~Full(f)
      /\ flow' = [f EXCEPT !.next = @ + 1, !.dropped = FALSE,
                           !.inflight = @ \cup {f.next},
                           !.budget = IF f.visible THEN @ ELSE @ - size]
      /\ fwd' = [pc |-> "send", batch |-> [range |-> fwd.batch.range, gen |-> f.gen,
                                           seq |-> f.next, resync |-> f.dropped]]
      /\ UNCHANGED <<written, queue, carry, pane, wire>>
  BY DEF Grant
<1>2. /\ f \in FlowState /\ IsFiniteSet(f.inflight) /\ Cardinality(f.inflight) <= Window
      /\ f.gen = flow.gen
  BY Forgiven DEF Typed
<1>3. fwd.pc = "reserve" /\ spent' \in 0..MaxTroubles /\ spent <= spent'
  BY <1>1, ExpiredKeeps
<1>4. fwd.batch.range \in Range2
  BY <1>3 DEF Typed, FwdTyped
<1>5. size \in Nat
  BY <1>4, Sizes DEF Size, Range2, Offset
<1> HIDE DEF f, size
<1>6. f.next \in Seqno /\ f.gen \in Gen /\ f.dropped \in BOOLEAN /\ f.budget \in 0..HiddenBudget
      /\ f.visible \in BOOLEAN /\ f.inflight \subseteq Seqno
  BY <1>2 DEF FlowState
<1>7. (IF f.visible THEN f.budget ELSE f.budget - size) \in 0..HiddenBudget
  <2>1. CASE f.visible
    BY <1>6, <2>1
  <2>2. CASE ~ f.visible
    <3>1. ~ f.budget < size
      BY <1>1, <2>2 DEF Refused
    <3> QED
      BY <1>5, <1>6, <2>2, <3>1, Sizes
  <2> QED
    BY <2>1, <2>2
<1>8. flow' \in FlowState
  <2>1. f.next + 1 \in Seqno /\ f.inflight \cup {f.next} \subseteq Seqno
    BY <1>6 DEF Seqno
  <2> QED
    BY <1>1, <1>2, <1>7, <2>1 DEF FlowState
<1>9. flow'.inflight = f.inflight \cup {f.next} /\ flow'.gen = flow.gen
  BY <1>1, <1>2 DEF FlowState
<1>10. FlowTyped'
  <2>1. /\ IsFiniteSet(f.inflight \cup {f.next})
        /\ Cardinality(f.inflight \cup {f.next}) = Cardinality(f.inflight)
           \/ Cardinality(f.inflight \cup {f.next}) = Cardinality(f.inflight) + 1
    BY <1>2, FS_AddElement
  <2>2. ~ Cardinality(f.inflight) >= Window /\ Cardinality(f.inflight) \in Nat /\ Window \in Nat
    BY <1>1, <1>2, Sizes, FS_CardinalityType DEF Full
  <2> QED
    BY <1>8, <1>9, <2>1, <2>2 DEF FlowTyped
<1>11. FwdTyped'
  <2>1. fwd'.batch \in Batch
    BY <1>1, <1>4, <1>6 DEF Batch
  <2> QED
    BY <1>1, <2>1, BatchHeld DEF FwdTyped
<1>12. QueuesTyped'
  BY <1>1, <1>3 DEF Typed, QueuesTyped, Carried
<1>13. ChannelTyped' /\ PumpTyped' /\ SyncTyped'
  BY <1>1, <1>9 DEF Typed, ChannelTyped, PumpTyped, SyncTyped, pane, wire
<1>14. ViewTyped' /\ term' \in Terminal /\ screen' \in Seq(Chunk) /\ attach' = attach
  BY <1>1, <1>3 DEF Typed, ViewTyped, pane
<1>15. Recovered'
  BY <1>3, <1>9, <1>14, SpentMore
<1> QED
  BY <1>10, <1>11, <1>12, <1>13, <1>14, <1>15 DEF Typed

LEMMA SendTypes == ASSUME Typed, Send PROVE Typed'
<1>1. /\ fwd.pc = "send" /\ fwd.batch.gen = flow.gen
      /\ channel' = Append(channel, fwd.batch)
      /\ fwd' = [pc |-> "idle", batch |-> NoBatch]
      /\ UNCHANGED <<written, queue, carry, flow, pane, gap, ack, signals, spent>>
  BY DEF Send
<1>2. fwd.batch \in Batch /\ channel \in Seq(Batch) /\ \A i \in DOMAIN channel : channel[i].gen = flow.gen
  BY <1>1 DEF Typed, FwdTyped, ChannelTyped
<1>3. ChannelTyped'
  <2>1. /\ channel' \in Seq(Batch) /\ DOMAIN channel = 1..Len(channel) /\ Len(channel) \in Nat
        /\ DOMAIN channel' = 1..(Len(channel) + 1)
        /\ \A i \in 1..Len(channel) : channel'[i] = channel[i]
        /\ channel'[Len(channel) + 1] = fwd.batch
    BY <1>1, <1>2, AppendProperties, LenProperties
  <2>2. ASSUME NEW i \in DOMAIN channel' PROVE channel'[i].gen = flow.gen
    <3>1. CASE i \in 1..Len(channel)
      BY <1>2, <2>1, <3>1
    <3>2. CASE i = Len(channel) + 1
      BY <1>1, <2>1, <3>2
    <3> QED
      BY <2>1, <3>1, <3>2
  <2> QED
    BY <1>1, <2>1, <2>2 DEF Typed, ChannelTyped
<1>4. FwdTyped'
  BY <1>1, NoBatchHeld DEF FwdTyped
<1>5. QueuesTyped'
  BY <1>1 DEF Typed, QueuesTyped, Carried
<1>6. FlowTyped' /\ PumpTyped' /\ SyncTyped' /\ ViewTyped'
  BY <1>1 DEF Typed, FlowTyped, PumpTyped, SyncTyped, ViewTyped, pane
<1>7. term' \in Terminal /\ screen' \in Seq(Chunk) /\ Recovered'
  BY <1>1 DEF Typed, Recovered, pane
<1> QED
  BY <1>3, <1>4, <1>5, <1>6, <1>7 DEF Typed

LEMMA SendReplacedTypes == ASSUME Typed, SendReplaced PROVE Typed'
<1>1. /\ fwd' = [pc |-> "idle", batch |-> NoBatch]
      /\ UNCHANGED <<written, queue, carry, flow, pane, wire, spent>>
  BY DEF SendReplaced
<1>2. FwdTyped'
  BY <1>1, NoBatchHeld DEF FwdTyped
<1>3. QueuesTyped'
  BY <1>1 DEF Typed, QueuesTyped, Carried
<1>4. FlowTyped' /\ ChannelTyped' /\ PumpTyped' /\ SyncTyped' /\ ViewTyped'
  BY <1>1 DEF Typed, FlowTyped, ChannelTyped, PumpTyped, SyncTyped, ViewTyped, pane, wire
<1>5. term' \in Terminal /\ screen' \in Seq(Chunk) /\ Recovered'
  BY <1>1 DEF Typed, Recovered, pane
<1> QED
  BY <1>2, <1>3, <1>4, <1>5 DEF Typed

LEMMA SpendMore ==
  ASSUME Typed, NEW k, Spend(k)
  PROVE  spent' \in 0..MaxTroubles /\ spent' = spent + 1 /\ spent \in Nat
<1>1. spent \in 0..MaxTroubles /\ MaxTroubles \in Nat
  BY Sizes DEF Typed, ViewTyped
<1>2. spent < MaxTroubles /\ spent' = spent + 1
  BY DEF Spend
<1> QED
  BY <1>1, <1>2

LEMMA SendFailsTypes == ASSUME Typed, SendFails PROVE Typed'
<1>1. /\ fwd.pc = "send" /\ Spend("fail")
      /\ flow' = [flow EXCEPT !.dropped = TRUE, !.inflight = @ \ {fwd.batch.seq}]
      /\ carry' = <<fwd.batch.range>> \o carry
      /\ fwd' = [pc |-> "idle", batch |-> NoBatch]
      /\ UNCHANGED <<written, queue, pane, wire>>
  BY DEF SendFails
<1>2. spent' \in 0..MaxTroubles /\ spent' = spent + 1 /\ spent \in Nat
  BY <1>1, SpendMore
<1>3. FwdTyped'
  BY <1>1, NoBatchHeld DEF FwdTyped
<1>4. QueuesTyped'
  <2>1. fwd.batch.range \in Range2
    BY <1>1 DEF Typed, FwdTyped, Batch
  <2>2. carry \in Seq(Range2) /\ Len(carry) <= 1
    BY <1>1 DEF Typed, QueuesTyped, Carried
  <2>3. <<fwd.batch.range>> \in Seq(Range2) /\ Len(<<fwd.batch.range>>) = 1
    BY <2>1
  <2>4. carry' \in Seq(Range2) /\ Len(carry') = 1 + Len(carry) /\ Len(carry) \in Nat
    BY <1>1, <2>2, <2>3, Concatenated
  <2>5. Len(carry') <= 2
    BY <2>2, <2>4
  <2> QED
    BY <1>1, <2>4, <2>5 DEF Typed, QueuesTyped, Carried
<1>5. FlowTyped' /\ flow'.gen = flow.gen
  <2>1. flow \in FlowState /\ IsFiniteSet(flow.inflight) /\ Cardinality(flow.inflight) <= Window
    BY DEF Typed, FlowTyped
  <2>2. flow' \in FlowState /\ flow'.inflight = flow.inflight \ {fwd.batch.seq} /\ flow'.gen = flow.gen
    BY <1>1, <2>1 DEF FlowState
  <2>3. flow'.inflight \subseteq flow.inflight
    BY <2>2
  <2>4. /\ IsFiniteSet(flow'.inflight)
        /\ Cardinality(flow'.inflight) <= Cardinality(flow.inflight)
        /\ Cardinality(flow'.inflight) \in Nat /\ Cardinality(flow.inflight) \in Nat
    BY <2>1, <2>3, FS_Subset, FS_CardinalityType
  <2> QED
    BY <2>1, <2>2, <2>4, Sizes DEF FlowTyped
<1>6. ChannelTyped' /\ PumpTyped' /\ SyncTyped'
  BY <1>1, <1>5 DEF Typed, ChannelTyped, PumpTyped, SyncTyped, pane, wire
<1>7. ViewTyped' /\ term' \in Terminal /\ screen' \in Seq(Chunk) /\ attach' = attach
  BY <1>1, <1>2 DEF Typed, ViewTyped, pane
<1>8. Recovered'
  BY <1>2, <1>5, <1>7, SpentMore
<1> QED
  BY <1>3, <1>4, <1>5, <1>6, <1>7, <1>8 DEF Typed

\* An acknowledgement and a visibility signal change the window only.
LEMMA FlowTypes ==
  ASSUME Typed, flow' \in FlowState, flow'.inflight \subseteq flow.inflight,
         flow'.gen = flow.gen, UNCHANGED <<written, queue, carry, fwd, pane, channel, gap, spent>>
  PROVE  Typed'
<1>1. FlowTyped'
  <2>1. IsFiniteSet(flow.inflight) /\ Cardinality(flow.inflight) <= Window
    BY DEF Typed, FlowTyped
  <2>2. /\ IsFiniteSet(flow'.inflight)
        /\ Cardinality(flow'.inflight) <= Cardinality(flow.inflight)
        /\ Cardinality(flow'.inflight) \in Nat /\ Cardinality(flow.inflight) \in Nat
    BY <2>1, FS_Subset, FS_CardinalityType
  <2> QED
    BY <2>1, <2>2, Sizes DEF FlowTyped
<1>2. FwdTyped'
  BY DEF Typed, FwdTyped
<1>3. QueuesTyped'
  BY DEF Typed, QueuesTyped, Carried
<1>4. ChannelTyped' /\ PumpTyped' /\ SyncTyped' /\ ViewTyped'
  BY DEF Typed, ChannelTyped, PumpTyped, SyncTyped, ViewTyped, pane
<1>5. term' \in Terminal /\ screen' \in Seq(Chunk) /\ Recovered'
  BY DEF Typed, Recovered, pane
<1> QED
  BY <1>1, <1>2, <1>3, <1>4, <1>5 DEF Typed

LEMMA AckTypes == ASSUME Typed, Ack PROVE Typed'
<1>1. flow \in FlowState
  BY DEF Typed, FlowTyped
<1>2. \/ flow' = flow
      \/ flow' = [flow EXCEPT !.stale = 0, !.inflight = {n \in @ : n > ack.seq}]
  BY DEF Ack
<1>3. /\ flow' \in FlowState /\ flow'.inflight \subseteq flow.inflight
      /\ flow'.gen = flow.gen /\ flow'.dropped = flow.dropped
  <2>1. CASE flow' = flow
    BY <1>1, <2>1
  <2>2. CASE flow' = [flow EXCEPT !.stale = 0, !.inflight = {n \in @ : n > ack.seq}]
    <3>1. {n \in flow.inflight : n > ack.seq} \subseteq flow.inflight /\ 0 \in 0..StaleLimit
      BY Sizes
    <3> QED
      BY <1>1, <2>2, <3>1 DEF FlowState
  <2> QED
    BY <1>2, <2>1, <2>2
<1> QED
  BY <1>3, FlowTypes DEF Ack

LEMMA SignalArrivesTypes == ASSUME Typed, SignalArrives PROVE Typed'
<1>1. flow \in FlowState
  BY DEF Typed, FlowTyped
<1>2. \/ flow' = flow
      \/ flow' = [flow EXCEPT !.visible = TRUE, !.stale = 0, !.budget = HiddenBudget]
      \/ flow' = [flow EXCEPT !.visible = FALSE, !.inflight = {}]
  BY DEF SignalArrives
<1>3. 0 \in 0..StaleLimit /\ HiddenBudget \in 0..HiddenBudget
  BY Sizes
<1>4. /\ flow' \in FlowState /\ flow'.inflight \subseteq flow.inflight
      /\ flow'.gen = flow.gen /\ flow'.dropped = flow.dropped
  BY <1>1, <1>2, <1>3 DEF FlowState
<1> QED
  BY <1>4, FlowTypes DEF SignalArrives

\* What only the pane does leaves the rest.
LEMMA PaneTypes ==
  ASSUME Typed, UNCHANGED <<backend, channel, gap>>,
         PumpTyped', SyncTyped', ViewTyped', term' \in Terminal, screen' \in Seq(Chunk),
         Recovered'
  PROVE  Typed'
<1>1. QueuesTyped'
  BY DEF Typed, QueuesTyped, Carried, backend
<1>2. FwdTyped' /\ FlowTyped' /\ ChannelTyped'
  BY DEF Typed, FwdTyped, FlowTyped, ChannelTyped, backend
<1> QED
  BY <1>1, <1>2 DEF Typed

LEMMA Gone ==
  ASSUME NEW S, NEW s \in Seq(S), s # <<>>
  PROVE  /\ Head(s) \in S /\ Head(s) = s[1] /\ 1 \in DOMAIN s
         /\ Tail(s) \in Seq(S) /\ Len(Tail(s)) = Len(s) - 1
         /\ \A i \in DOMAIN Tail(s) : i + 1 \in DOMAIN s /\ Tail(s)[i] = s[i + 1]
         /\ \A i \in DOMAIN s : i = 1 \/ (i - 1 \in DOMAIN Tail(s) /\ Tail(s)[i - 1] = s[i])
<1>1. Len(s) \in Nat /\ Len(s) # 0 /\ DOMAIN s = 1..Len(s)
  BY LenProperties, EmptySeq
<1>2. /\ Tail(s) \in Seq(S) /\ Head(s) = s[1] /\ Head(s) \in S
      /\ Len(Tail(s)) = Len(s) - 1
      /\ \A i \in 1..Len(Tail(s)) : Tail(s)[i] = s[i + 1]
  BY <1>1, HeadTailProperties
<1>3. DOMAIN Tail(s) = 1..Len(Tail(s))
  BY <1>2, LenProperties
<1> QED
  BY <1>1, <1>2, <1>3

LEMMA SetViewTypes ==
  ASSUME Typed, NEW v \in {"shown", "window", "pane"}, SetView(v) PROVE Typed'
<1>1. spent' \in 0..MaxTroubles /\ spent' = spent + 1 /\ spent \in Nat
  BY SpendMore DEF SetView
<1>2. term' \in Terminal
  <2>1. term \in Terminal
    BY DEF Typed
  <2>2. \/ term' = term
        \/ term' = [term EXCEPT !.visible = (v = "shown"), !.resync = @ \/ v = "pane"]
    BY DEF SetView
  <2>3. term.resync \in BOOLEAN
    BY <2>1 DEF Terminal
  <2>4. (term.resync \/ v = "pane") \in BOOLEAN /\ (v = "shown") \in BOOLEAN
    OBVIOUS
  <2> QED
    BY <2>1, <2>2, <2>4 DEF Terminal
<1>3. UNCHANGED <<backend, channel, gap, attach, pump, sync, screen, fresh>> /\ view' = v
  BY DEF SetView
<1>4. PumpTyped' /\ SyncTyped' /\ ViewTyped' /\ screen' \in Seq(Chunk)
  BY <1>1, <1>3 DEF Typed, PumpTyped, SyncTyped, ViewTyped
<1>5. Recovered'
  BY <1>1, <1>3, SpentMore DEF backend
<1> QED
  BY <1>2, <1>3, <1>4, <1>5, PaneTypes

\* A batch that arrives is parked with the others.
LEMMA Parked ==
  ASSUME Typed, channel # <<>>
  PROVE  /\ Head(channel) \in Batch /\ term.pending \in Seq(Batch)
         /\ Append(term.pending, Head(channel)) \in Seq(Batch)
         /\ Retained(Append(term.pending, Head(channel))) \in Seq(Batch)
<1>1. channel \in Seq(Batch) /\ term.pending \in Seq(Batch)
  BY DEF Typed, ChannelTyped, Terminal
<1>2. Head(channel) \in Batch
  BY <1>1, Gone
<1>3. Append(term.pending, Head(channel)) \in Seq(Batch)
  BY <1>1, <1>2, AppendProperties
<1> QED
  BY <1>1, <1>2, <1>3, RetainedType

LEMMA TakenTypes ==
  ASSUME Typed, channel # <<>>, channel' = Tail(channel), gap' \in BOOLEAN, flow' = flow
  PROVE  ChannelTyped'
<1>1. channel \in Seq(Batch) /\ \A i \in DOMAIN channel : channel[i].gen = flow.gen
  BY DEF Typed, ChannelTyped
<1>2. /\ Tail(channel) \in Seq(Batch)
      /\ \A i \in DOMAIN Tail(channel) : i + 1 \in DOMAIN channel /\ Tail(channel)[i] = channel[i + 1]
  BY <1>1, Gone
<1> QED
  BY <1>1, <1>2 DEF ChannelTyped

LEMMA DeliverTypes == ASSUME Typed, Deliver PROVE Typed'
<1> DEFINE b == Head(channel)
           parked == Append(term.pending, b)
           kept == Retained(parked)
           flagged == term.resync \/ b.resync \/ gap
<1>1. /\ channel # <<>> /\ channel' = Tail(channel) /\ gap' = FALSE
      /\ UNCHANGED <<backend, view, attach, pump, sync, screen, fresh, spent>>
      /\ \/ term' = [term EXCEPT !.resync = TRUE]
         \/ term' = [term EXCEPT !.pending = kept, !.resync = flagged \/ kept # parked]
  BY DEF Deliver
<1>2. kept \in Seq(Batch)
  BY <1>1, Parked
<1>3. (flagged \/ kept # parked) \in BOOLEAN
  OBVIOUS
<1> HIDE DEF kept, flagged, parked
<1>4. term' \in Terminal
  BY <1>1, <1>2, <1>3 DEF Typed, Terminal
<1>5. ChannelTyped'
  BY <1>1, TakenTypes DEF backend
<1>6. FwdTyped' /\ FlowTyped' /\ PumpTyped' /\ SyncTyped' /\ ViewTyped'
  BY <1>1 DEF Typed, FwdTyped, FlowTyped, PumpTyped, SyncTyped, ViewTyped, backend
<1>7. QueuesTyped' /\ screen' \in Seq(Chunk) /\ Recovered'
  BY <1>1 DEF Typed, QueuesTyped, Carried, Recovered, backend
<1> QED
  BY <1>4, <1>5, <1>6, <1>7 DEF Typed

LEMMA DeliverStaleTypes == ASSUME Typed, DeliverStale PROVE Typed'
<1>1. /\ channel # <<>> /\ channel' = Tail(channel)
      /\ UNCHANGED <<backend, pane, gap, spent>>
  BY DEF DeliverStale
<1>2. ChannelTyped'
  BY <1>1, TakenTypes DEF Typed, ChannelTyped, backend
<1>3. FwdTyped' /\ FlowTyped' /\ PumpTyped' /\ SyncTyped' /\ ViewTyped'
  BY <1>1 DEF Typed, FwdTyped, FlowTyped, PumpTyped, SyncTyped, ViewTyped, backend, pane
<1>4. QueuesTyped' /\ screen' \in Seq(Chunk) /\ Recovered' /\ term' \in Terminal
  BY <1>1 DEF Typed, QueuesTyped, Carried, Recovered, backend, pane
<1> QED
  BY <1>2, <1>3, <1>4 DEF Typed

LEMMA LoseTypes == ASSUME Typed, Lose PROVE Typed'
<1>1. /\ channel # <<>> /\ channel' = Tail(channel) /\ gap' = TRUE
      /\ UNCHANGED <<backend, pane>>
  BY DEF Lose
<1>2. spent' \in 0..MaxTroubles /\ spent' = spent + 1 /\ spent \in Nat
  BY SpendMore DEF Lose
<1>3. ChannelTyped'
  BY <1>1, TakenTypes DEF backend
<1>4. FwdTyped' /\ FlowTyped' /\ PumpTyped' /\ SyncTyped' /\ ViewTyped'
  BY <1>1, <1>2 DEF Typed, FwdTyped, FlowTyped, PumpTyped, SyncTyped, ViewTyped, backend, pane
<1>5. QueuesTyped' /\ screen' \in Seq(Chunk) /\ term' \in Terminal
  BY <1>1 DEF Typed, QueuesTyped, Carried, backend, pane
<1>6. Recovered'
  BY <1>1, <1>2, SpentMore DEF backend, pane
<1> QED
  BY <1>3, <1>4, <1>5, <1>6 DEF Typed

LEMMA SyncSnapshotTypes == ASSUME Typed, SyncSnapshot PROVE Typed'
<1>1. /\ sync' = [sync EXCEPT !.pc = "have", !.end = written]
      /\ UNCHANGED <<backend, wire, view, term, attach, pump, screen, fresh, spent>>
  BY DEF SyncSnapshot
<1>2. SyncTyped'
  <2>1. written \in Offset
    BY DEF Typed, QueuesTyped
  <2> QED
    BY <1>1, <2>1 DEF Typed, SyncTyped
<1>3. PumpTyped' /\ ViewTyped' /\ term' \in Terminal /\ screen' \in Seq(Chunk) /\ Recovered'
  BY <1>1 DEF Typed, PumpTyped, ViewTyped, Recovered, backend
<1> QED
  BY <1>1, <1>2, <1>3, PaneTypes DEF wire

LEMMA SyncEndsTypes ==
  ASSUME Typed, NEW ok \in BOOLEAN, NEW end \in Offset, SyncEnds(ok, end)
  PROVE  /\ SyncTyped' /\ term' \in Terminal
         /\ sync'.pc = "none" /\ term'.synced = end /\ term'.pending = term.pending
         /\ term'.ready = term.ready /\ term'.resync = (term.resync \/ ~ ok)
         /\ term'.mixed = term.mixed /\ term.doubt <= term'.doubt
         /\ end < term.synced => term.synced <= term'.doubt
<1> DEFINE doubt == IF end < term.synced THEN Max({term.doubt, term.synced}) ELSE term.doubt
<1>1. /\ sync' = [sync EXCEPT !.pc = "none", !.end = 0, !.by = "pump"]
      /\ term' = [term EXCEPT !.synced = end, !.resync = @ \/ ~ ok, !.doubt = doubt]
  BY DEF SyncEnds
<1>2. 0 \in Offset /\ term \in Terminal /\ SyncTyped
  BY Sizes DEF Typed, Offset
<1>5. term.doubt \in Offset /\ term.synced \in Offset
  BY <1>2 DEF Terminal
<1>6. doubt \in Offset /\ term.doubt <= doubt /\ (end < term.synced => term.synced <= doubt)
  BY <1>5, Sizes, MaxOfTwo DEF Offset
<1> HIDE DEF doubt
<1>3. (term.resync \/ ~ ok) \in BOOLEAN
  OBVIOUS
<1>4. SyncTyped' /\ sync'.pc = "none"
  BY <1>1, <1>2 DEF SyncTyped
<1> QED
  BY <1>1, <1>2, <1>3, <1>4, <1>6 DEF Terminal

LEMMA SyncFailsTypes == ASSUME Typed, SyncFails PROVE Typed'
<1>1. /\ SyncEnds(FALSE, term.synced)
      /\ UNCHANGED <<backend, wire, view, attach, pump, screen, fresh>>
  BY DEF SyncFails
<1>2. spent' \in 0..MaxTroubles /\ spent <= spent'
  <2>1. spent' = spent \/ Spend("fail")
    BY DEF SyncFails
  <2>2. spent \in 0..MaxTroubles
    BY DEF Typed, ViewTyped
  <2>3. CASE spent' = spent
    BY <2>2, <2>3, Sizes
  <2>4. CASE Spend("fail")
    BY <2>4, SpendMore
  <2> QED
    BY <2>1, <2>3, <2>4
<1>3. term.synced \in Offset
  BY DEF Typed, Terminal
<1>4. SyncTyped' /\ term' \in Terminal
  BY <1>1, <1>3, SyncEndsTypes
<1>5. PumpTyped' /\ ViewTyped' /\ screen' \in Seq(Chunk)
  BY <1>1, <1>2 DEF Typed, PumpTyped, ViewTyped
<1>6. Recovered'
  BY <1>1, <1>2, SpentMore DEF backend
<1> QED
  BY <1>1, <1>4, <1>5, <1>6, PaneTypes DEF wire

\* What a read writes: the whole scrollback, or what lies after the pane's
\* offset.
ReadFrom == IF term.synced > 0 /\ term.synced <= sync.end THEN term.synced ELSE 0

LEMMA SyncPlans ==
  ASSUME Typed, SyncPlan
  PROVE  /\ sync.pc = "have" /\ CanWrite
         /\ UNCHANGED <<backend, wire, view, attach, pump, fresh, spent>>
         /\ \/ ReadFrom = sync.end /\ SyncEnds(TRUE, sync.end) /\ UNCHANGED screen
            \/ /\ ReadFrom # sync.end /\ sync' = [sync EXCEPT !.pc = "write"] /\ UNCHANGED term
               /\ screen' = (IF ReadFrom = 0 THEN <<>> ELSE screen)
                              \o Chunks([from |-> ReadFrom, to |-> sync.end])
<1>1. term.synced \in Offset
  BY DEF Typed, Terminal
<1>2. term.synced \in Nat
  BY <1>1, Sizes DEF Offset
<1>3. (term.synced > 0 /\ term.synced <= sync.end) <=> ReadFrom # 0
  BY <1>2 DEF ReadFrom
<1> QED
  BY <1>3 DEF SyncPlan, ReadFrom

LEMMA SyncPlanTypes == ASSUME Typed, SyncPlan PROVE Typed'
<1>1. UNCHANGED <<backend, wire, view, attach, pump, fresh, spent>>
  BY SyncPlans
<1>2. sync.end \in Offset /\ ReadFrom \in Offset /\ screen \in Seq(Chunk) /\ term \in Terminal
  BY Sizes DEF Typed, SyncTyped, Terminal, ReadFrom, Offset
<1>3. SyncTyped' /\ term' \in Terminal /\ screen' \in Seq(Chunk)
  <2>1. CASE SyncEnds(TRUE, sync.end) /\ UNCHANGED screen
    BY <1>2, <2>1, SyncEndsTypes
  <2>2. CASE /\ sync' = [sync EXCEPT !.pc = "write"] /\ UNCHANGED term
             /\ screen' = (IF ReadFrom = 0 THEN <<>> ELSE screen)
                            \o Chunks([from |-> ReadFrom, to |-> sync.end])
    <3>1. Chunks([from |-> ReadFrom, to |-> sync.end]) \in Seq(Chunk)
      BY <1>2, ChunksOf
    <3>2. (IF ReadFrom = 0 THEN <<>> ELSE screen) \in Seq(Chunk)
      BY <1>2
    <3>3. screen' \in Seq(Chunk)
      BY <2>2, <3>1, <3>2, ConcatProperties
    <3> QED
      BY <1>2, <2>2, <3>3 DEF Typed, SyncTyped
  <2> QED
    BY <2>1, <2>2, SyncPlans
<1>4. PumpTyped' /\ ViewTyped' /\ Recovered'
  BY <1>1 DEF Typed, PumpTyped, ViewTyped, Recovered, backend
<1> QED
  BY <1>1, <1>3, <1>4, PaneTypes DEF wire

LEMMA SyncWrittenTypes == ASSUME Typed, SyncWritten PROVE Typed'
<1>1. /\ SyncEnds(CanWrite, sync.end) /\ fresh' = TRUE
      /\ UNCHANGED <<backend, wire, view, attach, pump, screen, spent>>
  BY DEF SyncWritten
<1>2. sync.end \in Offset /\ CanWrite \in BOOLEAN
  BY DEF Typed, SyncTyped, CanWrite
<1>3. SyncTyped' /\ term' \in Terminal
  BY <1>1, <1>2, SyncEndsTypes
<1>4. PumpTyped' /\ ViewTyped' /\ screen' \in Seq(Chunk) /\ Recovered'
  BY <1>1 DEF Typed, PumpTyped, ViewTyped, Recovered, backend
<1> QED
  BY <1>1, <1>3, <1>4, PaneTypes DEF wire

LEMMA PumpStartTypes == ASSUME Typed, PumpStart PROVE Typed'
<1>1. /\ pump.pc = "idle"
      /\ UNCHANGED <<backend, wire, view, attach, screen, fresh, spent>>
      /\ \/ /\ \E d \in {term.doubt, written} :
                  term' = [term EXCEPT !.resync = FALSE, !.doubt = d]
            /\ pump' = [pump EXCEPT !.pc = "sync"]
            /\ \/ sync' = [pc |-> "read", end |-> 0, by |-> "pump"]
               \/ sync' = sync
         \/ pump' = [pump EXCEPT !.pc = "loop"] /\ UNCHANGED <<term, sync>>
  BY DEF PumpStart
<1>2. PumpTyped'
  BY <1>1 DEF Typed, PumpTyped
<1>3. SyncTyped'
  <2>1. 0 \in Offset
    BY Sizes DEF Offset
  <2> QED
    BY <1>1, <2>1 DEF Typed, SyncTyped
<1>4. term' \in Terminal
  <2>1. term \in Terminal /\ term.doubt \in Offset /\ written \in Offset
    BY DEF Typed, QueuesTyped, Terminal
  <2>2. ASSUME NEW d \in {term.doubt, written},
               term' = [term EXCEPT !.resync = FALSE, !.doubt = d]
        PROVE  term' \in Terminal
    <3>1. d \in Offset
      BY <2>1, <2>2
    <3> QED
      BY <2>1, <2>2, <3>1 DEF Terminal
  <2> QED
    BY <1>1, <2>1, <2>2
<1>5. ViewTyped' /\ screen' \in Seq(Chunk) /\ Recovered'
  BY <1>1 DEF Typed, ViewTyped, Recovered, backend
<1> QED
  BY <1>1, <1>2, <1>3, <1>4, <1>5, PaneTypes DEF wire

LEMMA PumpSyncedTypes == ASSUME Typed, PumpSynced PROVE Typed'
<1>1. /\ pump' = [pump EXCEPT !.pc = IF term.resync THEN "idle" ELSE "loop"]
      /\ UNCHANGED <<backend, wire, view, term, attach, sync, screen, fresh, spent>>
  BY DEF PumpSynced
<1>2. PumpTyped'
  BY <1>1 DEF Typed, PumpTyped
<1>3. SyncTyped' /\ term' \in Terminal /\ ViewTyped' /\ screen' \in Seq(Chunk) /\ Recovered'
  BY <1>1 DEF Typed, SyncTyped, ViewTyped, Recovered, backend
<1> QED
  BY <1>1, <1>2, <1>3, PaneTypes DEF wire

LEMMA PumpDiscardsTypes == ASSUME Typed, PumpDiscards PROVE Typed'
<1> DEFINE asks == term.resync \/ view = "pane" \/ Head(term.pending).range.from > term.synced
<1>1. /\ term.pending # <<>>
      /\ term' = [term EXCEPT !.pending = Tail(@), !.resync = asks]
      /\ UNCHANGED <<backend, channel, gap, view, attach, pump, sync, screen, fresh, spent>>
  BY DEF PumpDiscards
<1>2. asks \in BOOLEAN
  OBVIOUS
<1> HIDE DEF asks
<1>3. term \in Terminal /\ term.pending \in Seq(Batch)
  BY DEF Typed, Terminal
<1>4. Tail(term.pending) \in Seq(Batch)
  BY <1>1, <1>3, Gone
<1>5. term' \in Terminal
  BY <1>1, <1>2, <1>3, <1>4 DEF Terminal
<1>6. SyncTyped' /\ PumpTyped' /\ ViewTyped' /\ screen' \in Seq(Chunk) /\ Recovered'
  BY <1>1 DEF Typed, SyncTyped, PumpTyped, ViewTyped, Recovered, backend
<1> QED
  BY <1>1, <1>5, <1>6, PaneTypes

LEMMA PumpWritesTypes == ASSUME Typed, PumpWrites PROVE Typed'
<1> DEFINE b == Head(term.pending)
           from == Max({b.range.from, term.synced})
<1>1. /\ term.pending # <<>>
      /\ term' = [term EXCEPT !.pending = Tail(@), !.mixed = @ \/ sync.pc # "none"]
      /\ screen' = screen \o Chunks([from |-> from, to |-> b.range.to])
      /\ pump' = [pc |-> "write", batch |-> b]
      /\ UNCHANGED <<backend, wire, view, attach, sync, fresh, spent>>
  BY DEF PumpWrites
<1>2. term \in Terminal /\ term.pending \in Seq(Batch) /\ term.synced \in Offset
  BY DEF Typed, Terminal
<1>3. b \in Batch /\ Tail(term.pending) \in Seq(Batch)
  BY <1>1, <1>2, Gone
<1> HIDE DEF b
<1>4. b.range.from \in Offset /\ b.range.to \in Offset
  BY <1>3 DEF Batch, Range2
<1>5. from \in Offset
  <2>1. b.range.from \in Nat /\ term.synced \in Nat
    BY <1>2, <1>4, Sizes DEF Offset
  <2> QED
    BY <1>2, <1>4, <2>1, MaxOfTwo
<1> HIDE DEF from
<1>6. screen' \in Seq(Chunk)
  <2>1. Chunks([from |-> from, to |-> b.range.to]) \in Seq(Chunk) /\ screen \in Seq(Chunk)
    BY <1>4, <1>5, ChunksOf DEF Typed
  <2> QED
    BY <1>1, <2>1, ConcatProperties
<1>7. term' \in Terminal
  <2> DEFINE m == term.mixed \/ sync.pc # "none"
  <2>1. m \in BOOLEAN
    OBVIOUS
  <2>2. term' = [term EXCEPT !.pending = Tail(@), !.mixed = m]
    BY <1>1
  <2> HIDE DEF m
  <2> QED
    BY <1>2, <1>3, <2>1, <2>2 DEF Terminal
<1>8. PumpTyped'
  BY <1>1, <1>3, BatchHeld DEF PumpTyped
<1>9. SyncTyped' /\ ViewTyped' /\ Recovered'
  BY <1>1 DEF Typed, SyncTyped, ViewTyped, Recovered, backend
<1> QED
  BY <1>1, <1>6, <1>7, <1>8, <1>9, PaneTypes DEF wire

LEMMA PumpWrittenTypes == ASSUME Typed, PumpWritten PROVE Typed'
<1> DEFINE end == Max({term.synced, pump.batch.range.to})
<1>1. /\ pump.pc = "write"
      /\ term' = [term EXCEPT !.synced = end]
      /\ pump' = [pc |-> "loop", batch |-> NoBatch]
      /\ fresh' = TRUE
      /\ UNCHANGED <<backend, channel, gap, view, attach, sync, screen, spent>>
  BY DEF PumpWritten
<1>2. term \in Terminal /\ term.synced \in Offset /\ pump.batch.range.to \in Offset
  BY <1>1 DEF Typed, Terminal, PumpTyped, Batch, Range2
<1>3. end \in Offset
  <2>1. term.synced \in Nat /\ pump.batch.range.to \in Nat
    BY <1>2, Sizes DEF Offset
  <2> QED
    BY <1>2, <2>1, MaxOfTwo
<1> HIDE DEF end
<1>4. term' \in Terminal
  BY <1>1, <1>2, <1>3 DEF Terminal
<1>5. PumpTyped'
  BY <1>1, NoBatchHeld DEF PumpTyped
<1>6. SyncTyped' /\ ViewTyped' /\ screen' \in Seq(Chunk) /\ Recovered'
  BY <1>1 DEF Typed, SyncTyped, ViewTyped, Recovered, backend
<1> QED
  BY <1>1, <1>4, <1>5, <1>6, PaneTypes

LEMMA PumpStopsTypes == ASSUME Typed, PumpStops PROVE Typed'
<1>1. /\ pump' = [pump EXCEPT !.pc = "idle"]
      /\ UNCHANGED <<backend, channel, gap, view, term, attach, sync, screen, fresh, spent>>
  BY DEF PumpStops
<1>2. PumpTyped'
  BY <1>1 DEF Typed, PumpTyped
<1>3. SyncTyped' /\ term' \in Terminal /\ ViewTyped' /\ screen' \in Seq(Chunk) /\ Recovered'
  BY <1>1 DEF Typed, SyncTyped, ViewTyped, Recovered, backend
<1> QED
  BY <1>1, <1>2, <1>3, PaneTypes

LEMMA RecoverTypes == ASSUME Typed, Recover PROVE Typed'
<1>1. /\ attach' = "requested" /\ attach = "none" /\ Spend("recover")
      /\ term' = [term EXCEPT !.ready = FALSE, !.pending = <<>>, !.resync = TRUE]
      /\ pump' = [pc |-> "idle", batch |-> NoBatch]
      /\ sync' = [pc |-> "none", end |-> 0, by |-> "pump"]
      /\ UNCHANGED <<backend, channel, gap, view, screen, fresh>>
  BY DEF Recover
<1>2. spent' \in 0..MaxTroubles /\ spent' = spent + 1 /\ spent \in Nat
  BY <1>1, SpendMore
<1>3. term' \in Terminal
  <2>1. <<>> \in Seq(Batch)
    OBVIOUS
  <2> QED
    BY <1>1, <2>1 DEF Typed, Terminal
<1>4. PumpTyped' /\ SyncTyped'
  BY <1>1, NoBatchHeld, Sizes DEF PumpTyped, SyncTyped, Offset
<1>5. ViewTyped' /\ screen' \in Seq(Chunk)
  BY <1>1, <1>2 DEF Typed, ViewTyped
<1>6. Recovered'
  <2>1. flow.gen \in Nat /\ flow' = flow
    BY <1>1, Sizes DEF Typed, FlowTyped, FlowState, Gen, backend
  <2> QED
    BY <1>1, <1>2, <2>1 DEF Typed, Recovered
<1> QED
  BY <1>1, <1>3, <1>4, <1>5, <1>6, PaneTypes

LEMMA ReplaceChannelTypes == ASSUME Typed, ReplaceChannel PROVE Typed'
<1>1. /\ attach = "requested" /\ attach' = "replaced"
      /\ flow' = NewFlow(flow.gen + 1)
      /\ channel' = <<>> /\ gap' = FALSE
      /\ UNCHANGED <<written, queue, carry, fwd, view, term, pump, sync, screen, fresh, spent>>
  BY DEF ReplaceChannel
<1>2. flow.gen \in Nat /\ flow.gen >= 1 /\ flow.gen <= spent /\ spent \in 0..MaxTroubles
  BY <1>1, Sizes DEF Typed, FlowTyped, FlowState, Gen, Recovered, ViewTyped
<1>3. flow.gen + 1 \in Gen
  BY <1>2, Sizes DEF Gen
<1>4. FlowTyped' /\ flow'.gen = flow.gen + 1
  <2>1. IsFiniteSet({}) /\ Cardinality({}) = 0 /\ 0 <= Window
    BY FS_EmptySet, Sizes
  <2>2. HiddenBudget \in 0..HiddenBudget /\ 0 \in 0..StaleLimit /\ 1 \in Seqno
    BY Sizes DEF Seqno
  <2>3. flow' = [gen |-> flow.gen + 1, next |-> 1, inflight |-> {}, visible |-> TRUE,
                 budget |-> HiddenBudget, stale |-> 0, dropped |-> FALSE]
    BY <1>1 DEF NewFlow
  <2> QED
    BY <1>3, <2>1, <2>2, <2>3 DEF FlowTyped, FlowState
<1>5. ChannelTyped'
  <2>1. <<>> \in Seq(Batch) /\ DOMAIN <<>> = 1..0
    OBVIOUS
  <2>2. \A i \in DOMAIN channel' : FALSE
    BY <1>1, <2>1
  <2> QED
    BY <1>1, <2>1, <2>2 DEF ChannelTyped
<1>6. FwdTyped' /\ PumpTyped' /\ SyncTyped' /\ ViewTyped' /\ term' \in Terminal /\ screen' \in Seq(Chunk)
  BY <1>1 DEF Typed, FwdTyped, PumpTyped, SyncTyped, ViewTyped
<1>7. QueuesTyped'
  BY <1>1 DEF Typed, QueuesTyped, Carried
<1>8. Recovered'
  BY <1>1, <1>2, <1>4 DEF Recovered
<1> QED
  BY <1>4, <1>5, <1>6, <1>7, <1>8 DEF Typed

LEMMA AttachedTypes == ASSUME Typed, Attached PROVE Typed'
<1>1. /\ attach = "replaced" /\ attach' = "none"
      /\ term' = [term EXCEPT !.ready = TRUE, !.channel = flow.gen,
                              !.visible = (view = "shown"), !.resync = view # "shown"]
      /\ \/ sync' = [pc |-> "read", end |-> 0, by |-> "attach"]
         \/ sync' = sync
      /\ fresh' = TRUE
      /\ UNCHANGED <<backend, channel, gap, view, pump, screen, spent>>
  BY DEF Attached
<1>2. term' \in Terminal
  <2>1. term \in Terminal /\ flow.gen \in Gen
    BY DEF Typed, FlowTyped, FlowState
  <2>2. (view = "shown") \in BOOLEAN /\ (view # "shown") \in BOOLEAN
    OBVIOUS
  <2> QED
    BY <1>1, <2>1, <2>2 DEF Terminal
<1>3. SyncTyped'
  BY <1>1, Sizes DEF Typed, SyncTyped, Offset
<1>4. PumpTyped' /\ ViewTyped' /\ screen' \in Seq(Chunk)
  BY <1>1 DEF Typed, PumpTyped, ViewTyped
<1>5. Recovered'
  BY <1>1 DEF Typed, Recovered, backend
<1> QED
  BY <1>1, <1>2, <1>3, <1>4, <1>5, PaneTypes

LEMMA StillTypes == ASSUME Typed, UNCHANGED vars PROVE Typed'
<1>1. QueuesTyped'
  BY DEF Typed, QueuesTyped, Carried, vars, backend
<1>2. FwdTyped' /\ FlowTyped' /\ ChannelTyped' /\ PumpTyped' /\ SyncTyped' /\ ViewTyped'
  BY DEF Typed, FwdTyped, FlowTyped, ChannelTyped, PumpTyped, SyncTyped, ViewTyped,
         vars, backend, pane, wire
<1>3. term' \in Terminal /\ screen' \in Seq(Chunk) /\ Recovered'
  BY DEF Typed, Recovered, vars, backend, pane
<1> QED
  BY <1>1, <1>2, <1>3 DEF Typed

LEMMA Views == {"shown"} \cup Hidings \subseteq {"shown", "window", "pane"}
  BY Bounds

LEMMA StepTypes == Typed /\ [Next]_vars => Typed'
<1> SUFFICES ASSUME Typed, [Next]_vars PROVE Typed'
  OBVIOUS
<1>1. ASSUME Forwarder PROVE Typed'
  <2>1. CASE \E k \in {0} \cup flow.inflight : AutoConsume(k) \/ Grant(k)
    BY <2>1, AutoConsumeTypes, GrantTypes
  <2>2. CASE Collect \/ Send \/ SendReplaced \/ SendFails
    BY <2>2, CollectTypes, SendTypes, SendReplacedTypes, SendFailsTypes
  <2> QED
    BY <1>1, <2>1, <2>2 DEF Forwarder, Reserve
<1>2. ASSUME Wire PROVE Typed'
  BY <1>2, DeliverTypes, DeliverStaleTypes, AckTypes, SignalArrivesTypes DEF Wire
<1>3. ASSUME Sync PROVE Typed'
  BY <1>3, SyncSnapshotTypes, SyncFailsTypes, SyncPlanTypes, SyncWrittenTypes DEF Sync
<1>4. ASSUME Pump PROVE Typed'
  BY <1>4, PumpStartTypes, PumpSyncedTypes, PumpDiscardsTypes, PumpWritesTypes,
     PumpWrittenTypes, PumpStopsTypes DEF Pump
<1>5. ASSUME Attach \/ Recover PROVE Typed'
  BY <1>5, ReplaceChannelTypes, AttachedTypes, RecoverTypes DEF Attach
<1>6. ASSUME Read \/ Lose PROVE Typed'
  BY <1>6, ReadTypes, LoseTypes
<1>7. ASSUME NEW v \in {"shown"} \cup Hidings, SetView(v) PROVE Typed'
  BY <1>7, Views, SetViewTypes
<1>8. ASSUME UNCHANGED vars PROVE Typed'
  BY <1>8, StillTypes
<1> QED
  BY <1>1, <1>2, <1>3, <1>4, <1>5, <1>6, <1>7, <1>8 DEF Next, System

\* The types hold: the window of unacknowledged batches, the queue and the
\* forwarder's carry keep their limits, and there is no generation beyond the
\* recoveries that were made.
THEOREM TypesKept == Spec => []TypeOK
<1>1. Spec => []Typed
  BY InitTyped, StepTypes, PTL DEF Spec
<1> QED
  BY <1>1, TypedMeans, PTL

-----------------------------------------------------------------------------
(* Lists: what appending, taking the head and keeping a tail make of them.   *)

LEMMA Appended ==
  ASSUME NEW S, NEW s \in Seq(S), NEW e \in S
  PROVE  /\ Append(s, e) \in Seq(S) /\ Len(s) \in Nat
         /\ DOMAIN s = 1..Len(s) /\ DOMAIN Append(s, e) = 1..(Len(s) + 1)
         /\ \A i \in 1..Len(s) : Append(s, e)[i] = s[i]
         /\ Append(s, e)[Len(s) + 1] = e
  BY AppendProperties, LenProperties

LEMMA AppendedItems ==
  ASSUME NEW s \in Seq(Range2), NEW e \in Range2
  PROVE  Items(Append(s, e)) = Items(s) \cup {e}
<1>1. /\ Len(s) \in Nat
      /\ DOMAIN s = 1..Len(s) /\ DOMAIN Append(s, e) = 1..(Len(s) + 1)
      /\ \A i \in 1..Len(s) : Append(s, e)[i] = s[i]
      /\ Append(s, e)[Len(s) + 1] = e
  BY Appended
<1>2. 1..(Len(s) + 1) = 1..Len(s) \cup {Len(s) + 1}
  BY <1>1
<1>3. Items(s) \cup {e} \subseteq Items(Append(s, e))
  BY <1>1, <1>2 DEF Items
<1>4. Items(Append(s, e)) \subseteq Items(s) \cup {e}
  BY <1>1, <1>2 DEF Items
<1> QED
  BY <1>3, <1>4

\* Does a batch of the list ask for a read of the scrollback?
Marked(s) == \E i \in DOMAIN s : s[i].resync

LEMMA AppendedBatch ==
  ASSUME NEW s \in Seq(Batch), NEW e \in Batch
  PROVE  /\ Ranges(Append(s, e)) = Ranges(s) \cup {e.range}
         /\ Marked(Append(s, e)) <=> Marked(s) \/ e.resync
<1>1. /\ Len(s) \in Nat
      /\ DOMAIN s = 1..Len(s) /\ DOMAIN Append(s, e) = 1..(Len(s) + 1)
      /\ \A i \in 1..Len(s) : Append(s, e)[i] = s[i]
      /\ Append(s, e)[Len(s) + 1] = e
  BY Appended
<1>2. 1..(Len(s) + 1) = 1..Len(s) \cup {Len(s) + 1}
  BY <1>1
<1>3. Ranges(s) \cup {e.range} \subseteq Ranges(Append(s, e))
  BY <1>1, <1>2 DEF Ranges
<1>4. Ranges(Append(s, e)) \subseteq Ranges(s) \cup {e.range}
  BY <1>1, <1>2 DEF Ranges
<1>5. Marked(Append(s, e)) <=> Marked(s) \/ e.resync
  BY <1>1, <1>2 DEF Marked
<1> QED
  BY <1>3, <1>4, <1>5

LEMMA GoneBatch ==
  ASSUME NEW s \in Seq(Batch), s # <<>>
  PROVE  /\ Head(s) \in Batch
         /\ Ranges(s) = {Head(s).range} \cup Ranges(Tail(s))
         /\ Marked(s) <=> Marked(Tail(s)) \/ Head(s).resync
<1>1. /\ Head(s) \in Batch /\ Head(s) = s[1] /\ 1 \in DOMAIN s
      /\ \A i \in DOMAIN Tail(s) : i + 1 \in DOMAIN s /\ Tail(s)[i] = s[i + 1]
      /\ \A i \in DOMAIN s : i = 1 \/ (i - 1 \in DOMAIN Tail(s) /\ Tail(s)[i - 1] = s[i])
  BY Gone
<1>2. {Head(s).range} \cup Ranges(Tail(s)) \subseteq Ranges(s)
  BY <1>1 DEF Ranges
<1>3. Ranges(s) \subseteq {Head(s).range} \cup Ranges(Tail(s))
  <2>1. ASSUME NEW i \in DOMAIN s PROVE s[i].range \in {Head(s).range} \cup Ranges(Tail(s))
    <3>1. CASE i = 1
      BY <1>1, <3>1
    <3>2. CASE i - 1 \in DOMAIN Tail(s) /\ Tail(s)[i - 1] = s[i]
      BY <3>2 DEF Ranges
    <3> QED
      BY <1>1, <3>1, <3>2
  <2> QED
    BY <2>1 DEF Ranges
<1>4. Marked(s) <=> Marked(Tail(s)) \/ Head(s).resync
  BY <1>1 DEF Marked
<1> QED
  BY <1>1, <1>2, <1>3, <1>4

LEMMA RetainedRanges ==
  ASSUME NEW s \in Seq(Batch)
  PROVE  Ranges(Retained(s)) \subseteq Ranges(s)
  BY RetainedType DEF Ranges

\* What is on its way, and where.
Claimed ==
  IF fwd.pc = "reserve" \/ (fwd.pc = "send" /\ fwd.batch.gen = flow.gen)
  THEN {fwd.batch.range} ELSE {}
Writing == IF pump.pc = "write" THEN {pump.batch.range} ELSE {}
Owing == fwd.pc = "send" /\ fwd.batch.gen = flow.gen /\ fwd.batch.resync

LEMMA TravellingIs ==
  Travelling = Parts \cup Ranges(channel) \cup Ranges(term.pending) \cup Claimed \cup Writing
  BY DEF Travelling, Parts, Items, Ranges, Claimed, Writing

LEMMA OwedIs ==
  ResyncOwed <=> \/ flow.dropped \/ gap \/ term.resync \/ attach # "none" \/ sync.pc = "read"
                 \/ Owing \/ Marked(channel)
  BY DEF ResyncOwed, Owing, Marked

-----------------------------------------------------------------------------
(* The invariant is kept.                                                    *)

Inv ==
  /\ Typed /\ OneWriter /\ Printed /\ LastIsKnown
  /\ ~ term.mixed => Painted /\ PaintedOnce

LEMMA Numbers ==
  ASSUME Typed
  PROVE  /\ written \in Nat /\ written <= MaxOutput /\ MaxOutput \in Nat
         /\ term.synced \in Offset /\ term.synced \in Nat
         /\ sync.end \in Offset /\ sync.end \in Nat
         /\ pump.pc = "write" => pump.batch.range \in Range2 /\ pump.batch.range.to \in Nat
         /\ screen \in Seq(Chunk) /\ flow.gen \in Nat
<1>1. MaxOutput \in Nat /\ MaxTroubles \in Nat
  BY Sizes
<1>2. written \in Offset /\ term.synced \in Offset /\ sync.end \in Offset /\ screen \in Seq(Chunk)
  BY DEF Typed, QueuesTyped, Terminal, SyncTyped
<1>3. pump.pc = "write" => pump.batch.range \in Range2
  BY DEF Typed, PumpTyped, Batch
<1>4. flow.gen \in Gen
  BY DEF Typed, FlowTyped, FlowState
<1> QED
  BY <1>1, <1>2, <1>3, <1>4 DEF Offset, Range2, Gen

LEMMA InitInv == Init => Inv
<1> SUFFICES ASSUME Init PROVE Inv
  OBVIOUS
<1>1. Typed
  BY InitTyped
<1>2. DOMAIN <<>> = 1..0
  OBVIOUS
<1>3. OneWriter
  BY DEF Init, OneWriter
<1>4. queue = <<>> /\ carry = <<>> /\ channel = <<>> /\ term.pending = <<>> /\ screen = <<>>
      /\ written = 0 /\ term.synced = 0 /\ fwd.pc = "idle" /\ pump.pc = "idle" /\ sync.pc = "none"
  BY DEF Init
<1>5. Printed
  <2>1. Items(<<>>) = {} /\ Ranges(<<>>) = {}
    BY <1>2 DEF Items, Ranges
  <2> QED
    BY <1>4, <2>1 DEF Printed, Parts
<1>6. Top = 0
  BY <1>4 DEF Top
<1>7. \A i \in DOMAIN screen : FALSE
  BY <1>2, <1>4
<1>8. Painted /\ PaintedOnce
  BY <1>6, <1>7 DEF Painted, PaintedOnce, Ordered, Filled, Once
<1>9. LastIsKnown
  BY <1>4 DEF LastIsKnown
<1> QED
  BY <1>1, <1>3, <1>5, <1>8, <1>9 DEF Inv

\* History only grows: what was mixed stays so, and what was in doubt.
LEMMA HistoryKept ==
  ASSUME Typed, [Next]_vars
  PROVE  /\ term.mixed => term'.mixed
         /\ written' = written /\ term'.doubt < written => term.doubt < written
<1> DEFINE Kept == /\ term.mixed => term'.mixed
                   /\ written' = written /\ term'.doubt < written => term.doubt < written
<1>1. /\ term \in Terminal /\ term.doubt \in Nat /\ written \in Nat
      /\ term.synced \in Offset /\ sync.end \in Offset /\ CanWrite \in BOOLEAN
  BY Numbers, Sizes DEF Typed, Terminal, Offset, CanWrite
<1>2. ASSUME term'.mixed = term.mixed, term'.doubt = term.doubt PROVE Kept
  BY <1>2
<1>3. ASSUME Forwarder \/ Read \/ Ack \/ SignalArrives \/ Lose \/ DeliverStale PROVE Kept
  BY <1>2, <1>3 DEF Forwarder, Collect, Reserve, AutoConsume, Grant, Send, SendReplaced,
       SendFails, Read, Ack, SignalArrives, Lose, DeliverStale, pane
<1>4. ASSUME Deliver PROVE Kept
  BY <1>1, <1>2, <1>4 DEF Deliver, Terminal
<1>5. ASSUME NEW v, SetView(v) PROVE Kept
  BY <1>1, <1>2, <1>5 DEF SetView, Terminal
<1>6. ASSUME NEW ok \in BOOLEAN, NEW end \in Offset, SyncEnds(ok, end) PROVE Kept
  <2>1. term'.mixed = term.mixed /\ term.doubt <= term'.doubt /\ term' \in Terminal
    BY <1>6, SyncEndsTypes
  <2>2. term'.doubt \in Nat
    BY <2>1, Sizes DEF Terminal, Offset
  <2> QED
    BY <1>1, <2>1, <2>2
<1>7. ASSUME Sync PROVE Kept
  <2>1. CASE SyncSnapshot
    BY <1>2, <2>1 DEF SyncSnapshot
  <2>2. CASE SyncFails
    BY <1>1, <1>6, <2>2 DEF SyncFails
  <2>3. CASE SyncPlan
    BY <1>1, <1>2, <1>6, <2>3, SyncPlans
  <2>4. CASE SyncWritten
    BY <1>1, <1>6, <2>4 DEF SyncWritten
  <2> QED
    BY <1>7, <2>1, <2>2, <2>3, <2>4 DEF Sync
<1>8. ASSUME PumpStart PROVE Kept
  <2>1. term'.mixed = term.mixed /\ term'.doubt \in {term.doubt, written}
    BY <1>1, <1>8 DEF PumpStart, Terminal
  <2> QED
    BY <1>1, <2>1
<1>9. ASSUME PumpSynced \/ PumpStops PROVE Kept
  BY <1>2, <1>9 DEF PumpSynced, PumpStops
<1>10. ASSUME PumpDiscards PROVE Kept
  BY <1>1, <1>2, <1>10 DEF PumpDiscards, Terminal
<1>11. ASSUME PumpWrites PROVE Kept
  BY <1>1, <1>11 DEF PumpWrites, Terminal
<1>12. ASSUME PumpWritten PROVE Kept
  BY <1>1, <1>2, <1>12 DEF PumpWritten, Terminal
<1>13. ASSUME Recover \/ ReplaceChannel \/ Attached PROVE Kept
  BY <1>1, <1>2, <1>13 DEF Recover, ReplaceChannel, Attached, Terminal
<1>14. ASSUME UNCHANGED vars PROVE Kept
  BY <1>2, <1>14 DEF vars, pane
<1> QED
  BY <1>3, <1>4, <1>5, <1>7, <1>8, <1>9, <1>10, <1>11, <1>12, <1>13, <1>14
     DEF Next, System, Wire, Pump, Attach

\* A pane that may write is attached; one that reads does not write batches.
LEMMA OneWriterKept ==
  ASSUME Typed, OneWriter, [Next]_vars
  PROVE  OneWriter'
<1> USE DEF OneWriter
<1>0. term.mixed => term'.mixed
  BY HistoryKept
<1>1. term \in Terminal /\ SyncTyped /\ PumpTyped
  BY DEF Typed
<1>2. ASSUME Forwarder \/ Read PROVE OneWriter'
  BY <1>0, <1>2 DEF Forwarder, Collect, Reserve, AutoConsume, Grant, Send, SendReplaced, SendFails,
       Read, pane
<1>3. ASSUME Ack \/ SignalArrives \/ Lose \/ DeliverStale PROVE OneWriter'
  BY <1>0, <1>3 DEF Ack, SignalArrives, Lose, DeliverStale, pane
<1>4. ASSUME Deliver PROVE OneWriter'
  <2>1. UNCHANGED <<attach, pump, sync>> /\ term'.ready = term.ready
    BY <1>1, <1>4 DEF Deliver, Terminal
  <2> QED
    BY <1>0, <2>1
<1>5. ASSUME NEW v, SetView(v) PROVE OneWriter'
  <2>1. UNCHANGED <<attach, pump, sync>> /\ term'.ready = term.ready
    BY <1>1, <1>5 DEF SetView, Terminal
  <2> QED
    BY <1>0, <2>1
<1>6. ASSUME SyncSnapshot PROVE OneWriter'
  BY <1>1, <1>6 DEF SyncSnapshot, SyncTyped
<1>7. ASSUME NEW ok \in BOOLEAN, NEW end \in Offset, SyncEnds(ok, end), attach' = attach, pump' = pump
      PROVE  OneWriter'
  <2>1. sync'.pc = "none" /\ term'.ready = term.ready
    BY <1>7, SyncEndsTypes
  <2> QED
    BY <1>0, <1>7, <2>1
<1>8. ASSUME SyncFails PROVE OneWriter'
  <2>1. term.synced \in Offset
    BY Numbers
  <2> QED
    BY <1>7, <1>8, <2>1 DEF SyncFails
<1>9. ASSUME SyncPlan PROVE OneWriter'
  <2>1. sync.pc = "have" /\ UNCHANGED <<attach, pump>> /\ sync.end \in Offset
    BY <1>9, SyncPlans, Numbers
  <2>2. CASE SyncEnds(TRUE, sync.end)
    BY <1>7, <2>1, <2>2
  <2>3. CASE sync' = [sync EXCEPT !.pc = "write"] /\ UNCHANGED term
    BY <2>1, <2>3
  <2> QED
    BY <1>9, <2>2, <2>3, SyncPlans
<1>10. ASSUME SyncWritten PROVE OneWriter'
  <2>1. sync.end \in Offset /\ CanWrite \in BOOLEAN
    BY <1>1, Numbers DEF CanWrite, Terminal
  <2> QED
    BY <1>7, <1>10, <2>1 DEF SyncWritten
<1>11. ASSUME PumpStart PROVE OneWriter'
  <2>1. term.ready /\ attach' = attach /\ pump.pc = "idle"
    BY <1>11 DEF PumpStart, CanWrite
  <2>2. pump'.pc \in {"sync", "loop"}
    BY <1>1, <1>11 DEF PumpStart, PumpTyped
  <2> QED
    BY <2>1, <2>2
<1>12. ASSUME PumpSynced PROVE OneWriter'
  BY <1>1, <1>12 DEF PumpSynced, PumpTyped
<1>13. ASSUME PumpDiscards PROVE OneWriter'
  <2>1. UNCHANGED <<attach, pump, sync>> /\ term'.ready = term.ready
    BY <1>1, <1>13 DEF PumpDiscards, Terminal
  <2> QED
    BY <1>0, <2>1
<1>14. ASSUME PumpWrites PROVE OneWriter'
  <2>1. /\ UNCHANGED <<attach, sync>> /\ pump.pc = "loop"
        /\ sync.pc # "none" => term'.mixed
    BY <1>1, <1>14 DEF PumpWrites, Terminal
  <2> QED
    BY <2>1
<1>15. ASSUME PumpWritten PROVE OneWriter'
  <2>1. UNCHANGED <<attach, sync>> /\ pump.pc = "write" /\ pump'.pc = "loop"
    BY <1>15 DEF PumpWritten
  <2> QED
    BY <2>1
<1>16. ASSUME PumpStops PROVE OneWriter'
  BY <1>1, <1>16 DEF PumpStops, PumpTyped
<1>17. ASSUME Recover PROVE OneWriter'
  BY <1>1, <1>17 DEF Recover, Terminal
<1>18. ASSUME ReplaceChannel PROVE OneWriter'
  BY <1>18 DEF ReplaceChannel
<1>19. ASSUME Attached PROVE OneWriter'
  <2>1. attach # "none" /\ attach' = "none" /\ pump' = pump
    BY <1>19 DEF Attached
  <2> QED
    BY <2>1
<1>20. ASSUME UNCHANGED vars PROVE OneWriter'
  BY <1>20 DEF vars, pane
<1> QED
  BY <1>2, <1>3, <1>4, <1>5, <1>6, <1>8, <1>9, <1>10, <1>11, <1>12, <1>13, <1>14, <1>15, <1>16,
     <1>17, <1>18, <1>19, <1>20 DEF Next, System, Wire, Sync, Pump, Attach

\* What is done to the pane's offset: nothing, or it follows a read or a write.
LEMMA PrintedKept ==
  ASSUME Typed, OneWriter, Printed, [Next]_vars
  PROVE  Printed'
<1> USE DEF Printed
<1>0. term.mixed => term'.mixed
  BY HistoryKept
<1>1. /\ written \in Nat /\ term.synced \in Nat /\ sync.end \in Nat
      /\ term \in Terminal /\ SyncTyped /\ PumpTyped
  BY Numbers DEF Typed
<1>2. queue \in Seq(Range2) /\ carry \in Seq(Range2) /\ Len(carry) <= 2
  BY DEF Typed, QueuesTyped, Carried
<1>3. ASSUME Read PROVE Printed'
  <2>1. written < MaxOutput /\ written' = written + 1 /\ MaxOutput \in Nat
    BY <1>3, Sizes DEF Read
  <2>2. [from |-> written, to |-> written + 1] \in Range2
    BY <1>1, <2>1 DEF Range2, Offset
  <2>3. Items(queue') \subseteq Items(queue) \cup {[from |-> written, to |-> written + 1]}
    BY <1>2, <1>3, <2>2, AppendedItems DEF Read
  <2>4. ASSUME NEW r \in Parts' PROVE r.to <= written'
    <3>1. CASE r \in Parts
      <4>1. r \in Range2
        BY <1>2, <3>1, ElementOfSeq DEF Parts, Items
      <4>2. r.to \in Nat /\ r.to <= written
        BY <3>1, <4>1, Sizes DEF Range2, Offset
      <4> QED
        BY <1>1, <2>1, <4>2
    <3>2. CASE r = [from |-> written, to |-> written + 1]
      BY <1>1, <2>1, <3>2
    <3> QED
      BY <1>3, <2>3, <3>1, <3>2 DEF Parts, Read
  <2>5. UNCHANGED <<fwd, channel, term, pump, sync>>
    BY <1>3 DEF Read, wire
  <2>6. ASSUME NEW r \in Ranges(channel) \cup Ranges(term.pending) PROVE r.to <= written'
    <3>1. channel \in Seq(Batch) /\ term.pending \in Seq(Batch)
      BY <1>1 DEF Typed, ChannelTyped, Terminal
    <3>2. r \in Range2
      <4>1. \A i \in DOMAIN channel : channel[i] \in Batch
        BY <3>1, LenProperties, ElementOfSeq
      <4>2. \A i \in DOMAIN term.pending : term.pending[i] \in Batch
        BY <3>1, LenProperties, ElementOfSeq
      <4>3. \A b \in Batch : b.range \in Range2
        BY DEF Batch
      <4>4. r \in Ranges(channel) \/ r \in Ranges(term.pending)
        OBVIOUS
      <4> QED
        BY <4>1, <4>2, <4>3, <4>4 DEF Ranges
    <3>3. r.to \in Nat /\ r.to <= written
      BY <3>2, Sizes DEF Range2, Offset
    <3> QED
      BY <1>1, <2>1, <3>3
  <2>7. fwd.pc # "idle" => fwd.batch.range.to <= written'
    <3>1. ASSUME fwd.pc # "idle" PROVE fwd.batch.range.to <= written'
      <4>1. fwd.batch \in Held
        BY DEF Typed, FwdTyped
      <4>2. fwd.batch.range.to \in Nat
        BY <4>1, Sizes DEF Held, Offset
      <4> QED
        BY <1>1, <2>1, <3>1, <4>2
    <3> QED
      BY <3>1
  <2>8. pump.pc = "write" => pump.batch.range.to <= written'
    BY <1>1, <2>1, Numbers
  <2>9. /\ term.synced <= written'
        /\ sync.pc \in {"have", "write"} =>
             sync.end <= written' /\ (~ term.mixed => term.synced <= sync.end)
    BY <1>1, <2>1
  <2> QED
    BY <2>4, <2>5, <2>6, <2>7, <2>8, <2>9
<1>4. ASSUME Collect PROVE Printed'
  <2>1. Parts' \subseteq Parts /\ \E r \in Parts : fwd'.batch.range.to = r.to
    BY <1>2, <1>4, Collected
  <2>2. UNCHANGED <<written, channel, term, pump, sync>>
    BY <1>4 DEF Collect, pane, wire
  <2> QED
    BY <2>1, <2>2
<1>5. ASSUME NEW k, AutoConsume(k) PROVE Printed'
  <2>1. /\ fwd'.pc = "idle"
        /\ UNCHANGED <<written, queue, carry, channel, term, pump, sync>>
    BY <1>5 DEF AutoConsume, pane, wire
  <2> QED
    BY <2>1 DEF Parts
<1>6. ASSUME NEW k, Grant(k) PROVE Printed'
  <2>1. /\ fwd'.batch.range = fwd.batch.range /\ fwd.pc = "reserve"
        /\ UNCHANGED <<written, queue, carry, channel, term, pump, sync>>
    BY <1>6 DEF Grant, Expired, pane, wire
  <2> QED
    BY <2>1 DEF Parts
<1>7. ASSUME Send PROVE Printed'
  <2>1. /\ fwd.pc = "send" /\ fwd'.pc = "idle" /\ channel' = Append(channel, fwd.batch)
        /\ UNCHANGED <<written, queue, carry, term, pump, sync>>
    BY <1>7 DEF Send, pane
  <2>2. Ranges(channel') = Ranges(channel) \cup {fwd.batch.range}
    BY <2>1, AppendedBatch DEF Typed, ChannelTyped, FwdTyped
  <2> QED
    BY <2>1, <2>2 DEF Parts
<1>8. ASSUME SendReplaced PROVE Printed'
  <2>1. /\ fwd'.pc = "idle"
        /\ UNCHANGED <<written, queue, carry, channel, term, pump, sync>>
    BY <1>8 DEF SendReplaced, pane, wire
  <2> QED
    BY <2>1 DEF Parts
<1>9. ASSUME SendFails PROVE Printed'
  <2>1. /\ fwd.pc = "send" /\ fwd'.pc = "idle" /\ carry' = <<fwd.batch.range>> \o carry
        /\ UNCHANGED <<written, queue, channel, term, pump, sync>>
    BY <1>9 DEF SendFails, pane, wire
  <2>2. fwd.batch.range \in Range2
    BY <2>1 DEF Typed, FwdTyped, Batch
  <2>3. <<fwd.batch.range>> \in Seq(Range2) /\ Items(<<fwd.batch.range>>) = {fwd.batch.range}
    BY <2>2 DEF Items
  <2>4. Items(carry') = {fwd.batch.range} \cup Items(carry)
    BY <1>2, <2>1, <2>3, Concatenated
  <2> QED
    BY <2>1, <2>4 DEF Parts
<1>10. ASSUME Ack \/ SignalArrives PROVE Printed'
  <2>1. UNCHANGED <<written, queue, carry, fwd, channel, term, pump, sync>>
    BY <1>10 DEF Ack, SignalArrives, pane
  <2> QED
    BY <2>1 DEF Parts
<1>11. ASSUME Lose \/ DeliverStale PROVE Printed'
  <2>1. /\ channel # <<>> /\ channel' = Tail(channel)
        /\ UNCHANGED <<written, queue, carry, fwd, term, pump, sync>>
    BY <1>11 DEF Lose, DeliverStale, pane, backend
  <2>2. Ranges(channel') \subseteq Ranges(channel)
    BY <2>1, GoneBatch DEF Typed, ChannelTyped
  <2> QED
    BY <2>1, <2>2 DEF Parts
<1>12. ASSUME Deliver PROVE Printed'
  <2> DEFINE parked == Append(term.pending, Head(channel))
  <2>1. /\ channel # <<>> /\ channel' = Tail(channel)
        /\ UNCHANGED <<written, queue, carry, fwd, pump, sync>>
    BY <1>12 DEF Deliver, backend
  <2>2. /\ term'.synced = term.synced
        /\ term'.pending \in {term.pending, Retained(parked)}
    BY <1>1, <1>12 DEF Deliver, Terminal
  <2>3. Ranges(channel) = {Head(channel).range} \cup Ranges(Tail(channel))
    BY <2>1, GoneBatch DEF Typed, ChannelTyped
  <2>4. Ranges(Retained(parked)) \subseteq Ranges(term.pending) \cup {Head(channel).range}
    BY <2>1, Parked, RetainedRanges, AppendedBatch
  <2>5. Ranges(term'.pending) \subseteq Ranges(term.pending) \cup {Head(channel).range}
    BY <2>2, <2>4
  <2> QED
    BY <1>0, <2>1, <2>2, <2>3, <2>5 DEF Parts
<1>13. ASSUME NEW v, SetView(v) PROVE Printed'
  <2>1. /\ term'.synced = term.synced /\ term'.pending = term.pending
        /\ UNCHANGED <<written, queue, carry, fwd, channel, pump, sync>>
    BY <1>1, <1>13 DEF SetView, Terminal, backend
  <2> QED
    BY <1>0, <2>1 DEF Parts
<1>14. ASSUME SyncSnapshot PROVE Printed'
  <2>1. /\ sync'.end = written
        /\ UNCHANGED <<written, queue, carry, fwd, channel, term, pump>>
    BY <1>1, <1>14 DEF SyncSnapshot, SyncTyped, backend, wire
  <2> QED
    BY <1>1, <2>1 DEF Parts
<1>15. ASSUME NEW ok \in BOOLEAN, NEW end \in Offset, SyncEnds(ok, end), end <= written,
              UNCHANGED <<backend, channel, pump>>
       PROVE  Printed'
  <2>1. sync'.pc = "none" /\ term'.synced = end /\ term'.pending = term.pending
    BY <1>15, SyncEndsTypes
  <2> QED
    BY <1>15, <2>1 DEF Parts, backend
<1>16. ASSUME SyncFails PROVE Printed'
  <2>1. term.synced \in Offset
    BY Numbers
  <2> QED
    BY <1>15, <1>16, <2>1 DEF SyncFails, wire
<1>17. ASSUME SyncPlan PROVE Printed'
  <2>1. sync.pc = "have" /\ UNCHANGED <<backend, channel, pump>> /\ sync.end \in Offset
    BY <1>17, SyncPlans, Numbers DEF wire
  <2>2. CASE SyncEnds(TRUE, sync.end)
    BY <1>15, <2>1, <2>2
  <2>3. CASE sync' = [sync EXCEPT !.pc = "write"] /\ UNCHANGED term
    <3>1. sync'.end = sync.end
      BY <1>1, <2>3 DEF SyncTyped
    <3> QED
      BY <2>1, <2>3, <3>1 DEF Parts, backend
  <2> QED
    BY <1>17, <2>2, <2>3, SyncPlans
<1>18. ASSUME SyncWritten PROVE Printed'
  <2>1. sync.pc = "write" /\ sync.end \in Offset /\ CanWrite \in BOOLEAN
    BY <1>1, <1>18, Numbers DEF SyncWritten, CanWrite, Terminal
  <2> QED
    BY <1>15, <1>18, <2>1 DEF SyncWritten, wire
<1>19. ASSUME PumpStart PROVE Printed'
  <2>1. /\ term'.synced = term.synced /\ term'.pending = term.pending
        /\ UNCHANGED <<written, queue, carry, fwd, channel>>
    BY <1>1, <1>19 DEF PumpStart, Terminal, backend, wire
  <2>2. pump'.pc # "write" /\ (sync' = sync \/ sync'.pc = "read")
    BY <1>1, <1>19 DEF PumpStart, PumpTyped
  <2> QED
    BY <1>0, <2>1, <2>2 DEF Parts
<1>20. ASSUME PumpSynced \/ PumpStops PROVE Printed'
  <2>1. /\ pump'.pc # "write"
        /\ UNCHANGED <<written, queue, carry, fwd, channel, term, sync>>
    BY <1>1, <1>20 DEF PumpSynced, PumpStops, PumpTyped, backend, wire
  <2> QED
    BY <2>1 DEF Parts
<1>21. ASSUME PumpDiscards PROVE Printed'
  <2>1. /\ term.pending # <<>> /\ term'.pending = Tail(term.pending) /\ term'.synced = term.synced
        /\ UNCHANGED <<written, queue, carry, fwd, channel, pump, sync>>
    BY <1>1, <1>21 DEF PumpDiscards, Terminal, backend
  <2>2. Ranges(term'.pending) \subseteq Ranges(term.pending)
    BY <1>1, <2>1, GoneBatch DEF Terminal
  <2> QED
    BY <1>0, <2>1, <2>2 DEF Parts
<1>22. ASSUME PumpWrites PROVE Printed'
  <2>1. /\ term.pending # <<>> /\ term'.pending = Tail(term.pending) /\ term'.synced = term.synced
        /\ pump'.batch = Head(term.pending)
        /\ UNCHANGED <<written, queue, carry, fwd, channel, sync>>
    BY <1>1, <1>22 DEF PumpWrites, Terminal, backend, wire
  <2>2. Ranges(term.pending) = {Head(term.pending).range} \cup Ranges(Tail(term.pending))
    BY <1>1, <2>1, GoneBatch DEF Terminal
  <2> QED
    BY <1>0, <2>1, <2>2 DEF Parts
<1>23. ASSUME PumpWritten PROVE Printed'
  <2> DEFINE end == Max({term.synced, pump.batch.range.to})
  <2>1. /\ pump.pc = "write" /\ pump'.pc = "loop"
        /\ term'.pending = term.pending /\ term'.synced = end
        /\ UNCHANGED <<written, queue, carry, fwd, channel, sync>>
    BY <1>1, <1>23 DEF PumpWritten, Terminal, backend
  <2>2. end \in {term.synced, pump.batch.range.to}
    BY <1>1, <2>1, Numbers, MaxOfTwo
  <2>3. end <= written
    BY <2>1, <2>2
  <2>4. sync.pc = "none" \/ term'.mixed
    BY <1>0, <2>1 DEF OneWriter
  <2> HIDE DEF end
  <2> QED
    BY <2>1, <2>3, <2>4 DEF Parts
<1>24. ASSUME Recover PROVE Printed'
  <2>1. /\ pump'.pc = "idle" /\ sync'.pc = "none" /\ term'.pending = <<>>
        /\ term'.synced = term.synced
        /\ UNCHANGED <<written, queue, carry, fwd, channel>>
    BY <1>1, <1>24 DEF Recover, Terminal, backend
  <2>2. DOMAIN <<>> = 1..0
    OBVIOUS
  <2>3. Ranges(term'.pending) = {}
    BY <2>1, <2>2 DEF Ranges
  <2> QED
    BY <2>1, <2>3 DEF Parts
<1>25. ASSUME ReplaceChannel PROVE Printed'
  <2>1. /\ channel' = <<>>
        /\ UNCHANGED <<written, queue, carry, fwd, term, pump, sync>>
    BY <1>25 DEF ReplaceChannel
  <2>2. DOMAIN <<>> = 1..0
    OBVIOUS
  <2>3. Ranges(channel') = {}
    BY <2>1, <2>2 DEF Ranges
  <2> QED
    BY <2>1, <2>3 DEF Parts
<1>26. ASSUME Attached PROVE Printed'
  <2>1. /\ term'.pending = term.pending /\ term'.synced = term.synced
        /\ (sync' = sync \/ sync'.pc = "read")
        /\ UNCHANGED <<written, queue, carry, fwd, channel, pump>>
    BY <1>1, <1>26 DEF Attached, Terminal, backend
  <2> QED
    BY <1>0, <2>1 DEF Parts
<1>27. ASSUME UNCHANGED vars PROVE Printed'
  BY <1>27 DEF vars, pane, backend, wire, Parts
<1>28. ASSUME Forwarder PROVE Printed'
  BY <1>4, <1>5, <1>6, <1>7, <1>8, <1>9, <1>28 DEF Forwarder, Reserve
<1>29. ASSUME Wire \/ Lose \/ Read \/ (\E v \in {"shown"} \cup Hidings : SetView(v)) PROVE Printed'
  BY <1>3, <1>10, <1>11, <1>12, <1>13, <1>29 DEF Wire
<1>30. ASSUME Sync PROVE Printed'
  BY <1>14, <1>16, <1>17, <1>18, <1>30 DEF Sync
<1>31. ASSUME Pump PROVE Printed'
  BY <1>19, <1>20, <1>21, <1>22, <1>23, <1>31 DEF Pump
<1>32. ASSUME Attach \/ Recover PROVE Printed'
  BY <1>24, <1>25, <1>26, <1>32 DEF Attach
<1> HIDE DEF Printed
<1> QED
  BY <1>27, <1>28, <1>29, <1>30, <1>31, <1>32 DEF Next, System

\* Writing the chunks that follow keeps the order, fills as far as they reach,
\* and repeats nothing.
LEMMA Continued ==
  ASSUME NEW s \in Seq(Chunk), NEW from \in Offset, NEW to \in Offset, from <= to,
         Ordered(s), Filled(s, from)
  PROVE  LET t == s \o Chunks([from |-> from, to |-> to])
         IN /\ Ordered(t) /\ Filled(t, to)
            /\ Once(s) /\ (\A i \in DOMAIN s : s[i] <= from)
                 => Once(t) /\ \A i \in DOMAIN t : t[i] <= to
<1> DEFINE u == Chunks([from |-> from, to |-> to])
           t == s \o u
<1>1. from \in Nat /\ to \in Nat /\ to - from \in Nat
  BY Sizes DEF Offset
<1>2. u \in Seq(Chunk) /\ Len(u) = to - from /\ \A i \in 1..(to - from) : u[i] = from + i
  BY ChunksOf
<1> HIDE DEF u
<1>3. Len(s) \in Nat /\ DOMAIN s = 1..Len(s) /\ \A i \in 1..Len(s) : s[i] \in Chunk
  BY LenProperties, ElementOfSeq
<1>4. \A i \in 1..Len(s) : s[i] \in Nat
  BY <1>3, Sizes DEF Chunk
<1>5. /\ t \in Seq(Chunk) /\ Len(t) = Len(s) + (to - from)
      /\ \A i \in 1..(Len(s) + (to - from)) : t[i] = IF i <= Len(s) THEN s[i] ELSE u[i - Len(s)]
  <2>1. /\ s \o u \in Seq(Chunk) /\ Len(s \o u) = Len(s) + Len(u)
        /\ \A i \in 1..(Len(s) + Len(u)) :
             (s \o u)[i] = IF i <= Len(s) THEN s[i] ELSE u[i - Len(s)]
    BY <1>2, ConcatProperties
  <2> QED
    BY <1>2, <2>1
<1>6. DOMAIN t = 1..(Len(s) + (to - from))
  BY <1>5, LenProperties
<1> HIDE DEF t
<1>7. \A i \in 1..Len(s) : i \in DOMAIN t /\ t[i] = s[i]
  BY <1>1, <1>3, <1>5, <1>6
<1>8. ASSUME NEW i \in DOMAIN t, i > Len(s) PROVE t[i] = from + (i - Len(s)) /\ i - Len(s) \in 1..(to - from)
  <2>1. i - Len(s) \in 1..(to - from) /\ ~ i <= Len(s)
    BY <1>1, <1>3, <1>6, <1>8
  <2> QED
    BY <1>2, <1>5, <1>6, <2>1
<1>9. ASSUME NEW c \in (from + 1)..to
      PROVE  Len(s) + (c - from) \in DOMAIN t /\ t[Len(s) + (c - from)] = c
  <2> DEFINE i == Len(s) + (c - from)
  <2>1. i \in DOMAIN t /\ i > Len(s) /\ from + (i - Len(s)) = c
    BY <1>1, <1>3, <1>6
  <2> HIDE DEF i
  <2>2. t[i] = from + (i - Len(s))
    BY <1>8, <2>1
  <2> QED
    BY <2>1, <2>2 DEF i
<1>10. ASSUME NEW c \in 1..from PROVE \E j \in 1..Len(s) : t[j] = c
  BY <1>3, <1>7 DEF Filled
<1>11. Filled(t, to)
  <2>1. ASSUME NEW c \in 1..to PROVE \E i \in DOMAIN t : t[i] = c
    <3>1. CASE c <= from
      <4>1. c \in 1..from
        BY <1>1, <3>1
      <4> QED
        BY <1>7, <1>10, <4>1
    <3>2. CASE ~ c <= from
      <4>1. c \in (from + 1)..to
        BY <1>1, <3>2
      <4> QED
        BY <1>9, <4>1
    <3> QED
      BY <3>1, <3>2
  <2> QED
    BY <2>1 DEF Filled
<1>12. Ordered(t)
  <2>1. ASSUME NEW i \in DOMAIN t, NEW c \in 1..(t[i] - 1)
        PROVE  \E j \in 1..(i - 1) : t[j] = c
    <3>1. CASE i <= Len(s)
      <4>1. i \in DOMAIN s /\ t[i] = s[i]
        BY <1>3, <1>6, <1>7, <3>1
      <4>2. PICK j \in 1..(i - 1) : s[j] = c
        BY <4>1 DEF Ordered
      <4>3. j \in 1..Len(s)
        BY <1>3, <4>1
      <4> QED
        BY <1>7, <4>2, <4>3
    <3>2. CASE ~ i <= Len(s)
      <4>1. i \in Nat /\ i > Len(s)
        BY <1>3, <1>6, <3>2
      <4>2. t[i] = from + (i - Len(s)) /\ i - Len(s) \in 1..(to - from)
        BY <1>8, <4>1
      <4>3. CASE c <= from
        <5>1. c \in 1..from
          BY <1>1, <4>2, <4>3
        <5>2. PICK j \in 1..Len(s) : t[j] = c
          BY <1>10, <5>1
        <5>3. j \in 1..(i - 1)
          BY <1>3, <4>1
        <5> QED
          BY <5>2, <5>3
      <4>4. CASE ~ c <= from
        <5>1. c \in (from + 1)..to /\ c < t[i]
          BY <1>1, <4>2, <4>4
        <5>2. t[Len(s) + (c - from)] = c
          BY <1>9, <5>1
        <5>3. Len(s) + (c - from) \in 1..(i - 1)
          BY <1>1, <1>3, <4>1, <4>2, <5>1
        <5> QED
          BY <5>2, <5>3
      <4> QED
        BY <4>3, <4>4
    <3> QED
      BY <3>1, <3>2
  <2> QED
    BY <2>1 DEF Ordered
<1>13. ASSUME Once(s), \A i \in DOMAIN s : s[i] <= from
       PROVE  Once(t) /\ \A i \in DOMAIN t : t[i] <= to
  <2>1. ASSUME NEW i \in DOMAIN t PROVE t[i] <= to
    <3>1. CASE i <= Len(s)
      <4>1. i \in 1..Len(s)
        BY <1>6, <3>1
      <4>2. t[i] = s[i] /\ s[i] <= from /\ s[i] \in Nat
        BY <1>3, <1>4, <1>7, <1>13, <4>1
      <4> QED
        BY <1>1, <4>2
    <3>2. CASE ~ i <= Len(s)
      <4>1. i > Len(s)
        BY <1>3, <1>6, <3>2
      <4> QED
        BY <1>1, <1>8, <4>1
    <3> QED
      BY <3>1, <3>2
  <2>2. ASSUME NEW i \in DOMAIN t, NEW j \in DOMAIN t, t[i] = t[j] PROVE i = j
    <3>0. i \in Nat /\ j \in Nat /\ i >= 1 /\ j >= 1
      BY <1>6
    <3>1. CASE i <= Len(s) /\ j <= Len(s)
      <4>1. i \in DOMAIN s /\ j \in DOMAIN s /\ s[i] = s[j]
        BY <1>3, <1>7, <2>2, <3>0, <3>1
      <4> QED
        BY <1>13, <4>1 DEF Once
    <3>2. ASSUME NEW a \in DOMAIN t, NEW b \in DOMAIN t, a <= Len(s), b > Len(s) PROVE t[a] < t[b]
      <4>1. a \in 1..Len(s)
        BY <1>6, <3>2
      <4>2. t[a] = s[a] /\ s[a] <= from /\ s[a] \in Nat
        BY <1>3, <1>4, <1>7, <1>13, <4>1
      <4>3. t[b] = from + (b - Len(s)) /\ b - Len(s) \in 1..(to - from)
        BY <1>8, <3>2
      <4> QED
        BY <1>1, <4>2, <4>3
    <3>3. CASE i > Len(s) /\ j > Len(s)
      <4>1. t[i] = from + (i - Len(s)) /\ t[j] = from + (j - Len(s))
        BY <1>8, <3>3
      <4>2. from + (i - Len(s)) = from + (j - Len(s))
        BY <2>2, <4>1
      <4>3. from \in Nat /\ Len(s) \in Nat
        BY <1>1, <1>3
      <4> QED
        BY <3>0, <4>2, <4>3
    <3>4. \A i1 \in DOMAIN t : t[i1] \in Nat
      <4>1. \A i1 \in DOMAIN t : t[i1] \in Chunk
        BY <1>5, <1>6, ElementOfSeq
      <4> QED
        BY <4>1, Sizes DEF Chunk
    <3>5. CASE i <= Len(s) /\ j > Len(s)
      <4>1. t[i] < t[j] /\ t[i] \in Nat
        BY <3>2, <3>4, <3>5
      <4> QED
        BY <2>2, <4>1
    <3>6. CASE i > Len(s) /\ j <= Len(s)
      <4>1. t[j] < t[i] /\ t[i] \in Nat
        BY <3>2, <3>4, <3>6
      <4> QED
        BY <2>2, <4>1
    <3> QED
      BY <1>3, <3>0, <3>1, <3>3, <3>5, <3>6
  <2> QED
    BY <2>1, <2>2 DEF Once
<1> QED
  BY <1>11, <1>12, <1>13 DEF t, u

\* As far as the screen reaches when nothing is being written.
LEMMA Reach ==
  ASSUME Typed, OneWriter, Printed, ~ term.mixed
  PROVE  /\ Top \in Offset /\ term.synced <= Top /\ Top \in Nat
         /\ pump.pc # "write" /\ sync.pc # "write" => Top = term.synced
         /\ pump.pc # "write" /\ sync.pc = "write" => Top = sync.end
         /\ pump.pc = "write" => sync.pc # "write"
<1>1. /\ term.synced \in Offset /\ term.synced \in Nat /\ sync.end \in Offset /\ sync.end \in Nat
      /\ pump.pc = "write" => pump.batch.range \in Range2 /\ pump.batch.range.to \in Nat
  BY Numbers
<1>2. CASE pump.pc = "write"
  <2>1. pump.batch.range.to \in Offset
    BY <1>1, <1>2 DEF Range2
  <2>2. Top = Max({term.synced, pump.batch.range.to})
    BY <1>2 DEF Top
  <2>3. Top \in {term.synced, pump.batch.range.to} /\ term.synced <= Top
    BY <1>1, <1>2, <2>2, MaxOfTwo
  <2> QED
    BY <1>1, <1>2, <2>1, <2>3 DEF OneWriter
<1>3. CASE pump.pc # "write"
  BY <1>1, <1>3 DEF Top, Printed
<1> QED
  BY <1>2, <1>3

Reaches ==
  /\ Top \in Nat
  /\ pump.pc # "write" /\ sync.pc # "write" => Top = term.synced
  /\ pump.pc # "write" /\ sync.pc = "write" => Top = sync.end

LEMMA ReachesWhenUnmixed == Typed /\ OneWriter /\ Printed /\ ~ term.mixed => Reaches
  BY Reach DEF Reaches

\* Nothing is written, and the screen reaches no farther.
LEMMA SameScreen ==
  ASSUME Painted, screen' = screen, Top \in Nat, Top' \in Nat, Top' <= Top
  PROVE  Painted'
<1>1. 1..Top' \subseteq 1..Top
  OBVIOUS
<1> QED
  BY <1>1 DEF Painted, Ordered, Filled

LEMMA SameOnce ==
  ASSUME PaintedOnce, screen' = screen, Top' = Top, flow'.gen = flow.gen,
         attach' # "requested" => attach # "requested"
  PROVE  PaintedOnce'
  BY DEF PaintedOnce, Once

\* The screen reaches as far as before when the pane's own steps are none.
LEMMA SameTop ==
  ASSUME pump' = pump, sync' = sync, term'.synced = term.synced
  PROVE  Top' = Top
  BY DEF Top

\* A write to the terminal carries on where the screen ends.
LEMMA Extended ==
  ASSUME Typed, NEW s \in Seq(Chunk), NEW from \in Offset, NEW to \in Offset, from <= to,
         Ordered(s), Filled(s, from),
         flow.gen = 1 /\ attach # "requested" => Once(s) /\ \A i \in DOMAIN s : s[i] <= from,
         screen' = s \o Chunks([from |-> from, to |-> to]), Top' = to,
         flow' = flow, attach' = attach
  PROVE  Painted' /\ PaintedOnce'
<1> DEFINE t == s \o Chunks([from |-> from, to |-> to])
<1>1. /\ Ordered(t) /\ Filled(t, to)
      /\ Once(s) /\ (\A i \in DOMAIN s : s[i] <= from)
           => Once(t) /\ \A i \in DOMAIN t : t[i] <= to
  BY Continued
<1>2. screen' = t
  OBVIOUS
<1> HIDE DEF t
<1>3. Painted'
  <2>1. Ordered(screen)'
    BY <1>1, <1>2 DEF Ordered
  <2>2. Filled(screen, Top)'
    <3>1. 1..Top' = 1..to
      OBVIOUS
    <3> QED
      BY <1>1, <1>2, <3>1 DEF Filled
  <2> QED
    BY <2>1, <2>2 DEF Painted
<1>4. PaintedOnce'
  BY <1>1, <1>2 DEF PaintedOnce, Once
<1> QED
  BY <1>3, <1>4

LEMMA PaintedKept ==
  ASSUME Typed, OneWriter, Printed, ~ term.mixed, ~ term'.mixed, Painted, PaintedOnce,
         [Next]_vars
  PROVE  Painted' /\ PaintedOnce'
<1>1. Typed' /\ OneWriter' /\ Printed'
  BY StepTypes, OneWriterKept, PrintedKept
<1>2. /\ Top \in Nat /\ term.synced <= Top
      /\ pump.pc # "write" /\ sync.pc # "write" => Top = term.synced
      /\ pump.pc # "write" /\ sync.pc = "write" => Top = sync.end
      /\ pump.pc = "write" => sync.pc # "write"
  BY Reach
<1>3. /\ Top' \in Nat
      /\ pump'.pc # "write" /\ sync'.pc # "write" => Top' = term'.synced
      /\ pump'.pc # "write" /\ sync'.pc = "write" => Top' = sync'.end
  <2>1. (~ term.mixed)'
    OBVIOUS
  <2>2. Reaches'
    BY <1>1, <2>1, ReachesWhenUnmixed, PTL
  <2> QED
    BY <2>2 DEF Reaches
<1>4. /\ term.synced \in Offset /\ term.synced \in Nat /\ sync.end \in Offset /\ sync.end \in Nat
      /\ term \in Terminal /\ SyncTyped /\ PumpTyped /\ screen \in Seq(Chunk)
  BY Numbers DEF Typed
<1>5. ASSUME screen' = screen, Top' = Top, flow'.gen = flow.gen,
             attach' # "requested" => attach # "requested"
      PROVE  Painted' /\ PaintedOnce'
  BY <1>2, <1>5, SameScreen, SameOnce
<1>6. ASSUME UNCHANGED <<screen, pump, sync, attach>>, term'.synced = term.synced, flow'.gen = flow.gen
      PROVE  Painted' /\ PaintedOnce'
  BY <1>5, <1>6, SameTop
<1>7. ASSUME Forwarder PROVE Painted' /\ PaintedOnce'
  <2>1. UNCHANGED pane
    BY <1>7 DEF Forwarder, Collect, Reserve, AutoConsume, Grant, Send, SendReplaced, SendFails
  <2>2. flow \in FlowState
    BY DEF Typed, FlowTyped
  <2>3. flow'.gen = flow.gen
    <3>1. CASE flow' = flow
      BY <3>1
    <3>2. ASSUME NEW k \in {0} \cup flow.inflight, AutoConsume(k) \/ Grant(k) PROVE flow'.gen = flow.gen
      <4> DEFINE f == Forgive(flow, k)
      <4>1. f \in FlowState /\ f.gen = flow.gen
        BY Forgiven DEF Typed
      <4>2. \/ flow' = [f EXCEPT !.dropped = TRUE]
            \/ flow' = [f EXCEPT !.next = @ + 1, !.dropped = FALSE,
                                 !.inflight = @ \cup {f.next},
                                 !.budget = IF f.visible THEN @ ELSE @ - Size(fwd.batch.range)]
        BY <3>2 DEF AutoConsume, Grant
      <4> HIDE DEF f
      <4> QED
        BY <4>1, <4>2 DEF FlowState
    <3>3. CASE SendFails
      BY <2>2, <3>3 DEF SendFails, FlowState
    <3> QED
      BY <1>7, <3>1, <3>2, <3>3 DEF Forwarder, Reserve, Collect, Send, SendReplaced
  <2> QED
    BY <1>6, <2>1, <2>3 DEF pane
<1>8. ASSUME Read PROVE Painted' /\ PaintedOnce'
  <2>1. flow'.gen = flow.gen
    BY <1>8 DEF Read, Typed, FlowTyped, FlowState
  <2> QED
    BY <1>6, <1>8, <2>1 DEF Read
<1>9. ASSUME Ack \/ SignalArrives PROVE Painted' /\ PaintedOnce'
  <2>1. flow'.gen = flow.gen
    BY <1>9 DEF Ack, SignalArrives, Typed, FlowTyped, FlowState
  <2> QED
    BY <1>6, <1>9, <2>1 DEF Ack, SignalArrives, pane
<1>10. ASSUME Lose \/ DeliverStale PROVE Painted' /\ PaintedOnce'
  BY <1>6, <1>10 DEF Lose, DeliverStale, pane, backend
<1>11. ASSUME Deliver PROVE Painted' /\ PaintedOnce'
  <2>1. term'.synced = term.synced
    BY <1>4, <1>11 DEF Deliver, Terminal
  <2> QED
    BY <1>6, <1>11, <2>1 DEF Deliver, backend
<1>12. ASSUME NEW v, SetView(v) PROVE Painted' /\ PaintedOnce'
  <2>1. term'.synced = term.synced
    BY <1>4, <1>12 DEF SetView, Terminal
  <2> QED
    BY <1>6, <1>12, <2>1 DEF SetView, backend
<1>13. ASSUME SyncSnapshot PROVE Painted' /\ PaintedOnce'
  <2>1. sync.pc = "read" /\ sync'.pc = "have" /\ UNCHANGED <<term, pump, screen, flow, attach>>
    BY <1>4, <1>13 DEF SyncSnapshot, SyncTyped, backend
  <2>2. Top' = Top
    BY <2>1 DEF Top
  <2> QED
    BY <1>5, <2>1, <2>2
<1>14. ASSUME SyncFails PROVE Painted' /\ PaintedOnce'
  <2>1. sync'.pc = "none" /\ term'.synced = term.synced
    BY <1>4, <1>14, SyncEndsTypes DEF SyncFails
  <2>2. sync.pc \in {"read", "have"} /\ UNCHANGED <<pump, screen, flow, attach>>
    BY <1>14 DEF SyncFails, backend
  <2>3. Top' = Top
    BY <2>1, <2>2 DEF Top
  <2> QED
    BY <1>5, <2>2, <2>3
<1>15. ASSUME SyncPlan PROVE Painted' /\ PaintedOnce'
  <2>1. sync.pc = "have" /\ UNCHANGED <<pump, flow, attach>> /\ pump.pc # "write"
    BY <1>15, SyncPlans DEF backend, OneWriter
  <2>2. ReadFrom = term.synced /\ term.synced <= sync.end
    BY <1>4, <2>1 DEF Printed, ReadFrom
  <2>3. Top = term.synced
    BY <1>2, <2>1
  <2>4. CASE SyncEnds(TRUE, sync.end) /\ ReadFrom = sync.end /\ screen' = screen
    <3>1. sync'.pc = "none" /\ term'.synced = sync.end
      BY <1>4, <2>4, SyncEndsTypes
    <3>2. Top' = Top
      BY <1>3, <2>1, <2>2, <2>3, <2>4, <3>1
    <3> QED
      BY <1>5, <2>1, <2>4, <3>2
  <2>5. CASE /\ ReadFrom # sync.end /\ sync' = [sync EXCEPT !.pc = "write"] /\ UNCHANGED term
             /\ screen' = (IF ReadFrom = 0 THEN <<>> ELSE screen)
                            \o Chunks([from |-> ReadFrom, to |-> sync.end])
    <3> DEFINE s == IF ReadFrom = 0 THEN <<>> ELSE screen
    <3>1. sync'.pc = "write" /\ sync'.end = sync.end
      BY <1>4, <2>5 DEF SyncTyped
    <3>2. Top' = sync.end
      BY <1>3, <2>1, <3>1
    <3>3. s \in Seq(Chunk)
      BY <1>4
    <3>4. /\ Ordered(s) /\ Filled(s, term.synced)
          /\ flow.gen = 1 /\ attach # "requested"
               => Once(s) /\ \A i \in DOMAIN s : s[i] <= term.synced
      <4>1. CASE ReadFrom = 0
        <5>1. DOMAIN s = 1..0 /\ term.synced = 0
          BY <2>2, <4>1
        <5>2. \A i \in DOMAIN s : FALSE
          BY <5>1
        <5> HIDE DEF s
        <5> QED
          BY <5>1, <5>2 DEF Ordered, Filled, Once
      <4>2. CASE ReadFrom # 0
        <5>1. s = screen
          BY <4>2
        <5> QED
          BY <2>3, <5>1 DEF Painted, PaintedOnce
      <4> QED
        BY <4>1, <4>2
    <3>5. screen' = s \o Chunks([from |-> term.synced, to |-> sync.end])
      BY <2>2, <2>5
    <3> HIDE DEF s
    <3> QED
      BY <1>4, <2>1, <2>2, <3>2, <3>3, <3>4, <3>5, Extended
  <2> QED
    BY <1>15, <2>4, <2>5, SyncPlans
<1>16. ASSUME SyncWritten PROVE Painted' /\ PaintedOnce'
  <2>1. CanWrite \in BOOLEAN
    BY <1>4 DEF CanWrite, Terminal
  <2>2. sync'.pc = "none" /\ term'.synced = sync.end
    BY <1>4, <1>16, <2>1, SyncEndsTypes DEF SyncWritten
  <2>3. sync.pc = "write" /\ UNCHANGED <<pump, screen, flow, attach>>
    BY <1>16 DEF SyncWritten, backend
  <2>4. pump.pc # "write"
    BY <2>3 DEF OneWriter
  <2>5. Top' = Top
    BY <1>2, <1>3, <2>2, <2>3, <2>4
  <2> QED
    BY <1>5, <2>3, <2>5
<1>17. ASSUME PumpStart PROVE Painted' /\ PaintedOnce'
  <2>1. pump'.pc # "write" /\ term'.synced = term.synced /\ pump.pc # "write"
    BY <1>4, <1>17 DEF PumpStart, PumpTyped, Terminal
  <2>2. /\ sync' = sync \/ (sync'.pc # "write" /\ sync.pc # "write")
        /\ UNCHANGED <<screen, flow, attach>>
    BY <1>17 DEF PumpStart, backend
  <2>3. Top' = Top
    BY <1>2, <1>3, <2>1, <2>2
  <2> QED
    BY <1>5, <2>2, <2>3
<1>18. ASSUME PumpSynced \/ PumpStops PROVE Painted' /\ PaintedOnce'
  <2>1. pump'.pc # "write" /\ pump.pc # "write" /\ UNCHANGED <<term, sync, screen, flow, attach>>
    BY <1>4, <1>18 DEF PumpSynced, PumpStops, PumpTyped, backend
  <2>2. Top' = Top
    BY <2>1 DEF Top
  <2> QED
    BY <1>5, <2>1, <2>2
<1>19. ASSUME PumpDiscards PROVE Painted' /\ PaintedOnce'
  <2>1. term'.synced = term.synced
    BY <1>4, <1>19 DEF PumpDiscards, Terminal
  <2> QED
    BY <1>6, <1>19, <2>1 DEF PumpDiscards, backend
<1>20. ASSUME PumpWrites PROVE Painted' /\ PaintedOnce'
  <2> DEFINE b == Head(term.pending)
             from == Max({b.range.from, term.synced})
  <2>1. /\ term.pending # <<>> /\ pump.pc = "loop"
        /\ b.range.from <= term.synced /\ term.synced < b.range.to
        /\ screen' = screen \o Chunks([from |-> from, to |-> b.range.to])
        /\ pump' = [pc |-> "write", batch |-> b]
        /\ UNCHANGED <<flow, attach, sync>>
    BY <1>20 DEF PumpWrites, backend
  <2>2. term'.synced = term.synced
    BY <1>4, <1>20 DEF PumpWrites, Terminal
  <2>3. b \in Batch
    BY <1>4, <2>1, GoneBatch DEF Terminal
  <2> HIDE DEF b
  <2>4. b.range.from \in Nat /\ b.range.to \in Nat /\ b.range.to \in Offset
    BY <2>3, Sizes DEF Batch, Range2, Offset
  <2>5. from = term.synced
    <3>1. from \in {b.range.from, term.synced} /\ term.synced <= from
      BY <1>4, <2>4, MaxOfTwo
    <3> HIDE DEF from
    <3> QED
      BY <1>4, <2>1, <2>4, <3>1
  <2> HIDE DEF from
  <2>6. sync.pc = "none"
    BY <1>4, <1>20 DEF PumpWrites, Terminal
  <2>7. Top = term.synced
    BY <1>2, <2>1, <2>6
  <2>8. Top' = b.range.to
    <3>1. Top' = Max({term'.synced, b.range.to})
      BY <2>1 DEF Top
    <3> DEFINE m == Max({term'.synced, b.range.to})
    <3>2. m \in {term'.synced, b.range.to} /\ b.range.to <= m
      BY <1>4, <2>2, <2>4, MaxOfTwo
    <3> HIDE DEF m
    <3>3. m = b.range.to
      BY <1>4, <2>1, <2>2, <2>4, <3>2
    <3> QED
      BY <3>1, <3>3 DEF m
  <2>9. /\ Ordered(screen) /\ Filled(screen, term.synced)
        /\ flow.gen = 1 /\ attach # "requested"
             => Once(screen) /\ \A i \in DOMAIN screen : screen[i] <= term.synced
    BY <2>7 DEF Painted, PaintedOnce
  <2>10. term.synced <= b.range.to /\ screen' = screen \o Chunks([from |-> term.synced, to |-> b.range.to])
    BY <1>4, <2>1, <2>4, <2>5
  <2> QED
    BY <1>4, <2>1, <2>4, <2>8, <2>9, <2>10, Extended
<1>21. ASSUME PumpWritten PROVE Painted' /\ PaintedOnce'
  <2>1. /\ pump.pc = "write" /\ pump'.pc = "loop"
        /\ term'.synced = Max({term.synced, pump.batch.range.to})
        /\ UNCHANGED <<screen, flow, attach, sync>>
    BY <1>4, <1>21 DEF PumpWritten, Terminal, backend
  <2>2. sync'.pc # "write"
    BY <1>2, <2>1
  <2>3. Top' = Top
    <3>1. Top = Max({term.synced, pump.batch.range.to})
      BY <2>1 DEF Top
    <3> QED
      BY <1>3, <2>1, <2>2, <3>1
  <2> QED
    BY <1>5, <2>1, <2>3
<1>22. ASSUME Recover PROVE Painted' /\ PaintedOnce'
  <2>1. /\ pump'.pc = "idle" /\ sync'.pc = "none" /\ term'.synced = term.synced
        /\ screen' = screen /\ attach' = "requested"
    BY <1>4, <1>22 DEF Recover, Terminal
  <2>2. Top' = term.synced
    BY <1>3, <2>1
  <2>3. Painted'
    BY <1>2, <1>3, <2>1, <2>2, SameScreen
  <2> QED
    BY <2>1, <2>3 DEF PaintedOnce
<1>23. ASSUME ReplaceChannel PROVE Painted' /\ PaintedOnce'
  <2>1. UNCHANGED <<screen, pump, sync, term>> /\ flow' = NewFlow(flow.gen + 1)
    BY <1>23 DEF ReplaceChannel
  <2>2. Top' = Top
    BY <2>1, SameTop
  <2>3. flow.gen \in Nat /\ flow.gen >= 1 /\ flow'.gen = flow.gen + 1
    BY <2>1, Sizes DEF Typed, FlowTyped, FlowState, Gen, NewFlow
  <2>4. flow'.gen # 1
    BY <2>3
  <2> QED
    BY <1>2, <2>1, <2>2, <2>4, SameScreen DEF PaintedOnce
<1>24. ASSUME Attached PROVE Painted' /\ PaintedOnce'
  <2>1. /\ attach = "replaced" /\ attach' = "none" /\ term'.synced = term.synced
        /\ UNCHANGED <<flow, pump, screen>>
        /\ sync' = sync \/ sync'.pc = "read"
    BY <1>4, <1>24 DEF Attached, Terminal, backend
  <2>2. pump.pc # "write" /\ sync.pc # "write" /\ sync'.pc # "write"
    BY <2>1 DEF OneWriter
  <2>3. Top' = Top
    BY <1>2, <1>3, <2>1, <2>2
  <2> QED
    BY <1>5, <2>1, <2>3
<1>25. ASSUME UNCHANGED vars PROVE Painted' /\ PaintedOnce'
  BY <1>6, <1>25 DEF vars, pane, backend
<1>26. ASSUME Wire \/ Lose \/ Read \/ (\E v \in {"shown"} \cup Hidings : SetView(v))
       PROVE  Painted' /\ PaintedOnce'
  BY <1>8, <1>9, <1>10, <1>11, <1>12, <1>26 DEF Wire
<1>27. ASSUME Sync PROVE Painted' /\ PaintedOnce'
  BY <1>13, <1>14, <1>15, <1>16, <1>27 DEF Sync
<1>28. ASSUME Pump PROVE Painted' /\ PaintedOnce'
  BY <1>17, <1>18, <1>19, <1>20, <1>21, <1>28 DEF Pump
<1>29. ASSUME Attach \/ Recover PROVE Painted' /\ PaintedOnce'
  BY <1>22, <1>23, <1>24, <1>29 DEF Attach
<1> QED
  BY <1>7, <1>25, <1>26, <1>27, <1>28, <1>29 DEF Next, System

\* Whatever happens to the last chunk: somebody owes a read, a read that goes
\* on brings it, or it is on its way.
LEMMA StillOwed ==
  ASSUME LastIsKnown, written' = written,
         ResyncOwed => ResyncOwed' \/ written <= term'.synced,
         \A r \in Travelling : r.to = written =>
            r \in Travelling' \/ ResyncOwed' \/ written <= term'.synced,
         sync.pc \in {"have", "write"} /\ written <= sync.end =>
            \/ sync'.pc \in {"have", "write"} /\ written <= sync'.end
            \/ ResyncOwed' \/ written <= term'.synced,
         term'.synced < written /\ term'.doubt < written =>
            term.synced < written /\ term.doubt < written,
         written \in Nat, term'.synced \in Nat
  PROVE  LastIsKnown'
<1> SUFFICES ASSUME term'.synced < written, term'.doubt < written,
                    ~ ResyncOwed',
                    ~ (sync'.pc \in {"have", "write"} /\ written <= sync'.end)
             PROVE  \E r \in Travelling' : r.to = written
  BY DEF LastIsKnown
<1>1. ~ (written <= term'.synced) /\ term.synced < written /\ term.doubt < written
  OBVIOUS
<1>2. ~ ResyncOwed
  BY <1>1
<1>3. ~ (sync.pc \in {"have", "write"} /\ written <= sync.end)
  BY <1>1
<1>4. PICK r \in Travelling : r.to = written
  BY <1>1, <1>2, <1>3 DEF LastIsKnown
<1> QED
  BY <1>1, <1>4

LEMMA LastKept ==
  ASSUME Typed, OneWriter, Printed, LastIsKnown, [Next]_vars
  PROVE  LastIsKnown'
<1>0. written' = written /\ term'.doubt < written => term.doubt < written
  BY HistoryKept
<1>1. Typed'
  BY StepTypes
<1>2. /\ written \in Nat /\ term.synced \in Nat /\ sync.end \in Nat /\ sync.end \in Offset
      /\ term.synced \in Offset
      /\ term \in Terminal /\ SyncTyped /\ PumpTyped /\ flow \in FlowState
  BY Numbers DEF Typed, FlowTyped
<1>3. term'.synced \in Nat
  <2>1. (term.synced \in Nat)'
    BY <1>1, Numbers, PTL
  <2> QED
    BY <2>1
<1>39. term.doubt \in Nat /\ term'.doubt \in Nat
  BY <1>1, Sizes DEF Typed, Terminal, Offset
<1>4. queue \in Seq(Range2) /\ carry \in Seq(Range2) /\ Len(carry) <= 2
  BY DEF Typed, QueuesTyped, Carried
<1>5. /\ Travelling = Parts \cup Ranges(channel) \cup Ranges(term.pending) \cup Claimed \cup Writing
      /\ Travelling' = (Parts \cup Ranges(channel) \cup Ranges(term.pending) \cup Claimed \cup Writing)'
  <2>1. (Travelling = Parts \cup Ranges(channel) \cup Ranges(term.pending) \cup Claimed \cup Writing)'
    BY TravellingIs, PTL
  <2> QED
    BY <2>1, TravellingIs
<1>6. /\ ResyncOwed <=> \/ flow.dropped \/ gap \/ term.resync \/ attach # "none" \/ sync.pc = "read"
                        \/ Owing \/ Marked(channel)
      /\ ResyncOwed' <=> (\/ flow.dropped \/ gap \/ term.resync \/ attach # "none" \/ sync.pc = "read"
                          \/ Owing \/ Marked(channel))'
  BY OwedIs, PTL
<1> HIDE DEF Travelling, ResyncOwed
\* Steps that do not touch what the pane and the wire hold.
<1>7. ASSUME ResyncOwed', written' = written PROVE LastIsKnown'
  BY <1>7 DEF LastIsKnown
<1>8. ASSUME UNCHANGED <<written, sync>>, term'.synced = term.synced,
             ResyncOwed => ResyncOwed',
             \A r \in Travelling : r.to = written => r \in Travelling' \/ ResyncOwed'
      PROVE  LastIsKnown'
  BY <1>0, <1>2, <1>8, StillOwed
<1>9. ASSUME Read PROVE LastIsKnown'
  <2>1. CASE Len(queue) < QueueCap
    <3> DEFINE r == [from |-> written, to |-> written + 1]
    <3>1. queue' = Append(queue, r) /\ written' = written + 1
      BY <1>9, <2>1 DEF Read
    <3>2. r \in Range2
      BY <1>2, <1>9, Sizes DEF Range2, Offset, Read
    <3>3. Items(queue') = Items(queue) \cup {r}
      BY <1>4, <3>1, <3>2, AppendedItems
    <3>4. r \in Travelling' /\ r.to = written'
      BY <1>5, <3>1, <3>3 DEF Parts
    <3> QED
      BY <3>4 DEF LastIsKnown
  <2>2. CASE ~ Len(queue) < QueueCap
    <3>1. flow'.dropped
      BY <1>2, <1>9, <2>2 DEF Read, FlowState
    <3> QED
      BY <1>6, <3>1 DEF LastIsKnown
  <2> QED
    BY <2>1, <2>2
<1>10. ASSUME Collect PROVE LastIsKnown'
  <2>1. /\ fwd.pc = "idle" /\ UNCHANGED <<written, flow, channel, gap, term, attach, pump, sync>>
        /\ fwd'.pc = "reserve"
        /\ \E r \in Parts : fwd'.batch.range.to = r.to
        /\ \A r \in Parts : r.to <= fwd'.batch.range.to \/ r \in Parts'
        /\ fwd'.batch.range \in Range2
    BY <1>4, <1>10, Collected DEF Collect, pane, wire
  <2>2. fwd'.batch.range \in Travelling'
    BY <1>5, <2>1 DEF Claimed
  <2>3. fwd'.batch.range.to <= written /\ fwd'.batch.range.to \in Nat
    <3>1. fwd'.batch.range.to \in Nat
      BY <2>1, Sizes DEF Range2, Offset
    <3> QED
      BY <2>1, <3>1 DEF Printed
  <2>4. ResyncOwed => ResyncOwed'
    BY <1>6, <2>1 DEF Owing
  <2>5. ASSUME term.synced < written, term.doubt < written, ~ ResyncOwed,
               ~ (sync.pc \in {"have", "write"} /\ written <= sync.end)
        PROVE  \E r \in Travelling' : r.to = written
    <3>1. PICK r \in Travelling : r.to = written
      BY <2>5 DEF LastIsKnown
    <3>2. CASE r \in Parts
      <4>1. CASE written <= fwd'.batch.range.to
        BY <1>2, <2>2, <2>3, <4>1
      <4>2. CASE r \in Parts'
        BY <1>5, <3>1, <4>2
      <4> QED
        BY <2>1, <3>1, <3>2, <4>1, <4>2
    <3>3. CASE r \notin Parts
      <4>1. r \in Travelling'
        BY <1>5, <2>1, <3>1, <3>3 DEF Claimed, Writing
      <4> QED
        BY <3>1, <4>1
    <3> QED
      BY <3>2, <3>3
  <2>6. CASE ResyncOwed
    BY <1>7, <2>1, <2>4, <2>6
  <2> QED
    BY <2>1, <2>5, <2>6 DEF LastIsKnown
<1>11. ASSUME NEW k \in {0} \cup flow.inflight, AutoConsume(k) PROVE LastIsKnown'
  <2> DEFINE f == Forgive(flow, k)
  <2>1. f \in FlowState
    BY Forgiven DEF Typed
  <2>2. flow' = [f EXCEPT !.dropped = TRUE] /\ written' = written
    BY <1>11 DEF AutoConsume
  <2> HIDE DEF f
  <2>3. flow'.dropped
    BY <2>1, <2>2 DEF FlowState
  <2> QED
    BY <1>6, <1>7, <2>2, <2>3
<1>12. ASSUME NEW k \in {0} \cup flow.inflight, Grant(k) PROVE LastIsKnown'
  <2> DEFINE f == Forgive(flow, k)
  <2>1. f \in FlowState /\ f.gen = flow.gen /\ f.dropped = flow.dropped
    BY Forgiven DEF Typed
  <2>2. /\ fwd.pc = "reserve"
        /\ flow' = [f EXCEPT !.next = @ + 1, !.dropped = FALSE,
                             !.inflight = @ \cup {f.next},
                             !.budget = IF f.visible THEN @ ELSE @ - Size(fwd.batch.range)]
        /\ fwd' = [pc |-> "send", batch |-> [range |-> fwd.batch.range, gen |-> f.gen,
                                             seq |-> f.next, resync |-> f.dropped]]
        /\ UNCHANGED <<written, queue, carry, channel, gap, term, attach, pump, sync>>
    BY <1>12 DEF Grant, Expired, pane, wire
  <2> HIDE DEF f
  <2>3. flow'.gen = f.gen
    BY <2>1, <2>2 DEF FlowState
  <2>4. fwd'.pc = "send" /\ fwd'.batch.gen = flow'.gen /\ fwd'.batch.range = fwd.batch.range
        /\ fwd'.batch.resync = flow.dropped
    BY <2>1, <2>2, <2>3
  <2>5. ResyncOwed => ResyncOwed'
    BY <1>6, <2>2, <2>4 DEF Owing
  <2>6. Travelling \subseteq Travelling'
    BY <1>5, <2>2, <2>4 DEF Parts, Claimed, Writing
  <2> QED
    BY <1>8, <2>2, <2>5, <2>6
<1>13. ASSUME Send PROVE LastIsKnown'
  <2>1. /\ fwd.pc = "send" /\ fwd'.pc = "idle" /\ channel' = Append(channel, fwd.batch)
        /\ UNCHANGED <<written, queue, carry, flow, gap, term, attach, pump, sync>>
    BY <1>13 DEF Send, pane
  <2>2. /\ Ranges(channel') = Ranges(channel) \cup {fwd.batch.range}
        /\ Marked(channel') <=> Marked(channel) \/ fwd.batch.resync
    BY <2>1, AppendedBatch DEF Typed, ChannelTyped, FwdTyped
  <2>3. ResyncOwed => ResyncOwed'
    BY <1>6, <2>1, <2>2 DEF Owing
  <2>4. Travelling \subseteq Travelling'
    BY <1>5, <2>1, <2>2 DEF Parts, Claimed, Writing
  <2> QED
    BY <1>8, <2>1, <2>3, <2>4
<1>14. ASSUME SendReplaced PROVE LastIsKnown'
  <2>1. /\ fwd.pc = "send" /\ fwd.batch.gen # flow.gen /\ fwd'.pc = "idle"
        /\ UNCHANGED <<written, queue, carry, flow, channel, gap, term, attach, pump, sync>>
    BY <1>14 DEF SendReplaced, pane, wire
  <2>2. ResyncOwed => ResyncOwed'
    BY <1>6, <2>1 DEF Owing
  <2>3. Travelling \subseteq Travelling'
    BY <1>5, <2>1 DEF Parts, Claimed, Writing
  <2> QED
    BY <1>8, <2>1, <2>2, <2>3
<1>15. ASSUME SendFails PROVE LastIsKnown'
  <2>1. flow'.dropped /\ written' = written
    BY <1>2, <1>15 DEF SendFails, FlowState
  <2> QED
    BY <1>6, <1>7, <2>1
<1>16. ASSUME Ack \/ SignalArrives PROVE LastIsKnown'
  <2>1. flow'.dropped = flow.dropped /\ flow'.gen = flow.gen
    BY <1>2, <1>16 DEF Ack, SignalArrives, FlowState
  <2>2. UNCHANGED <<written, queue, carry, fwd, channel, gap, term, attach, pump, sync>>
    BY <1>16 DEF Ack, SignalArrives, pane
  <2>3. ResyncOwed => ResyncOwed'
    BY <1>6, <2>1, <2>2 DEF Owing
  <2>4. Travelling \subseteq Travelling'
    BY <1>5, <2>1, <2>2 DEF Parts, Claimed, Writing
  <2> QED
    BY <1>8, <2>2, <2>3, <2>4
<1>17. ASSUME NEW v, SetView(v) PROVE LastIsKnown'
  <2>1. /\ term'.synced = term.synced /\ term'.pending = term.pending
        /\ term.resync => term'.resync
    BY <1>2, <1>17 DEF SetView, Terminal
  <2>2. UNCHANGED <<written, queue, carry, fwd, flow, channel, gap, attach, pump, sync>>
    BY <1>17 DEF SetView, backend
  <2>3. ResyncOwed => ResyncOwed'
    BY <1>6, <2>1, <2>2 DEF Owing
  <2>4. Travelling \subseteq Travelling'
    BY <1>5, <2>1, <2>2 DEF Parts, Claimed, Writing
  <2> QED
    BY <1>8, <2>1, <2>2, <2>3, <2>4
<1>18. ASSUME Deliver PROVE LastIsKnown'
  <2> DEFINE b == Head(channel)
             parked == Append(term.pending, b)
             kept == Retained(parked)
             flagged == term.resync \/ b.resync \/ gap
  <2>1. /\ channel # <<>> /\ channel' = Tail(channel)
        /\ UNCHANGED <<written, queue, carry, fwd, flow, attach, pump, sync>>
        /\ \/ term' = [term EXCEPT !.resync = TRUE]
           \/ term' = [term EXCEPT !.pending = kept, !.resync = flagged \/ kept # parked]
    BY <1>18 DEF Deliver, backend
  <2>2. /\ b \in Batch
        /\ Ranges(channel) = {b.range} \cup Ranges(Tail(channel))
        /\ Marked(channel) <=> Marked(Tail(channel)) \/ b.resync
    BY <2>1, GoneBatch DEF Typed, ChannelTyped
  <2>3. Ranges(parked) = Ranges(term.pending) \cup {b.range}
    BY <1>2, <2>2, AppendedBatch DEF Terminal
  <2> HIDE DEF b, parked, kept
  <2>4. CASE term' = [term EXCEPT !.resync = TRUE] \/ flagged \/ kept # parked
    <3>1. term'.resync
      <4>1. CASE term' = [term EXCEPT !.resync = TRUE]
        BY <1>2, <4>1 DEF Terminal
      <4>2. CASE term' = [term EXCEPT !.pending = kept, !.resync = flagged \/ kept # parked]
        <5>1. CASE flagged \/ kept # parked
          BY <1>2, <4>2, <5>1 DEF Terminal
        <5>2. CASE term' = [term EXCEPT !.resync = TRUE]
          BY <4>1, <5>2
        <5> QED
          BY <2>4, <5>1, <5>2
      <4> QED
        BY <2>1, <4>1, <4>2
    <3> QED
      BY <1>6, <1>7, <2>1, <3>1
  <2>5. CASE ~ (term' = [term EXCEPT !.resync = TRUE] \/ flagged \/ kept # parked)
    <3>1. term'.pending = parked /\ term'.synced = term.synced /\ ~ flagged
      BY <1>2, <2>1, <2>5 DEF Terminal
    <3>2. ResyncOwed => ResyncOwed'
      BY <1>6, <2>1, <2>2, <3>1 DEF Owing
    <3>3. Travelling \subseteq Travelling'
      BY <1>5, <2>1, <2>2, <2>3, <3>1 DEF Parts, Claimed, Writing
    <3> QED
      BY <1>8, <2>1, <3>1, <3>2, <3>3
  <2> QED
    BY <2>4, <2>5
<1>19. ASSUME DeliverStale PROVE LastIsKnown'
  <2>1. attach' # "none" /\ written' = written
    BY <1>19 DEF DeliverStale, pane, backend
  <2> QED
    BY <1>6, <1>7, <2>1
<1>20. ASSUME Lose PROVE LastIsKnown'
  <2>1. gap' /\ written' = written
    BY <1>20 DEF Lose, backend
  <2> QED
    BY <1>6, <1>7, <2>1
<1>21. ASSUME SyncSnapshot PROVE LastIsKnown'
  <2>1. written' = written /\ sync'.pc = "have" /\ sync'.end = written
    BY <1>2, <1>21 DEF SyncSnapshot, SyncTyped, backend
  <2> QED
    BY <1>2, <2>1 DEF LastIsKnown
<1>22. ASSUME SyncFails PROVE LastIsKnown'
  <2>1. term'.resync /\ written' = written
    BY <1>2, <1>22, SyncEndsTypes DEF SyncFails, backend
  <2> QED
    BY <1>6, <1>7, <2>1
\* A read that ends has brought what it promised.
<1>23. ASSUME NEW ok \in BOOLEAN, SyncEnds(ok, sync.end), sync.pc \in {"have", "write"},
              UNCHANGED <<backend, wire, attach, pump>>
       PROVE  LastIsKnown'
  <2>1. /\ term'.synced = sync.end /\ term'.pending = term.pending
        /\ term.resync => term'.resync
        /\ sync.end < term.synced => term.synced <= term'.doubt
    BY <1>2, <1>23, SyncEndsTypes
  <2>2. UNCHANGED <<written, queue, carry, fwd, flow, channel, gap, attach, pump>>
    BY <1>23 DEF backend, wire
  <2>3. ResyncOwed => ResyncOwed'
    BY <1>6, <1>23, <2>1, <2>2 DEF Owing
  <2>4. Travelling \subseteq Travelling'
    BY <1>5, <2>1, <2>2 DEF Parts, Claimed, Writing
  <2>6. term'.synced < written /\ term'.doubt < written =>
          term.synced < written /\ term.doubt < written
    BY <1>0, <1>2, <1>39, <2>1, <2>2
  <2>7. written <= sync.end => written <= term'.synced
    BY <2>1
  <2> QED
    BY <1>2, <1>3, <2>2, <2>3, <2>4, <2>6, <2>7, StillOwed
<1>24. ASSUME SyncPlan PROVE LastIsKnown'
  <2>1. sync.pc = "have" /\ UNCHANGED <<backend, wire, attach, pump>>
    BY <1>24, SyncPlans
  <2>2. CASE SyncEnds(TRUE, sync.end)
    BY <1>23, <2>1, <2>2
  <2>3. CASE sync' = [sync EXCEPT !.pc = "write"] /\ UNCHANGED term
    <3>1. sync'.pc = "write" /\ sync'.end = sync.end
      BY <1>2, <2>3 DEF SyncTyped
    <3>2. UNCHANGED <<written, queue, carry, fwd, flow, channel, gap, attach, pump>>
      BY <2>1 DEF backend, wire
    <3>3. ResyncOwed => ResyncOwed'
      BY <1>6, <2>1, <2>3, <3>1, <3>2 DEF Owing
    <3>4. Travelling \subseteq Travelling'
      BY <1>5, <2>3, <3>2 DEF Parts, Claimed, Writing
    <3> QED
      BY <1>0, <1>2, <1>3, <2>3, <3>1, <3>2, <3>3, <3>4, StillOwed
  <2> QED
    BY <1>24, <2>2, <2>3, SyncPlans
<1>25. ASSUME SyncWritten PROVE LastIsKnown'
  <2>1. CanWrite \in BOOLEAN
    BY <1>2 DEF CanWrite, Terminal
  <2> QED
    BY <1>23, <1>25, <2>1 DEF SyncWritten
\* The flag that a pump takes starts a read, or is lost with an older one.
<1>26. ASSUME PumpStart PROVE LastIsKnown'
  <2>1. UNCHANGED <<written, queue, carry, fwd, flow, channel, gap, attach>> /\ pump.pc = "idle"
    BY <1>26 DEF PumpStart, backend, wire
  <2>2. CASE term.resync /\ sync.pc \in {"none", "read"}
    <3>1. sync'.pc = "read"
      BY <1>26, <2>2 DEF PumpStart
    <3> QED
      BY <1>6, <1>7, <2>1, <3>1
  <2>3. CASE term.resync /\ sync.pc \in {"have", "write"} /\ sync.end < written
    <3>1. term'.doubt = written
      BY <1>2, <1>26, <2>3 DEF PumpStart, Terminal
    <3> QED
      BY <1>2, <2>1, <3>1 DEF LastIsKnown
  <2>4. CASE term.resync /\ sync.pc \in {"have", "write"} /\ ~ (sync.end < written)
    <3>1. sync' = sync
      BY <1>26, <2>4 DEF PumpStart
    <3> QED
      BY <1>2, <2>1, <2>4, <3>1 DEF LastIsKnown
  <2>5. CASE ~ term.resync
    <3>1. UNCHANGED <<term, sync>>
      BY <1>26, <2>5 DEF PumpStart
    <3>2. ResyncOwed => ResyncOwed'
      BY <1>6, <2>1, <3>1 DEF Owing
    <3>3. Travelling \subseteq Travelling'
      BY <1>5, <2>1, <3>1 DEF Parts, Claimed, Writing
    <3> QED
      BY <1>8, <2>1, <3>1, <3>2, <3>3
  <2> QED
    BY <1>2, <2>2, <2>3, <2>4, <2>5 DEF SyncTyped
<1>27. ASSUME PumpSynced \/ PumpStops PROVE LastIsKnown'
  <2>1. UNCHANGED <<written, queue, carry, fwd, flow, channel, gap, attach, term, sync>> /\ pump.pc # "write"
    BY <1>27 DEF PumpSynced, PumpStops, backend, wire
  <2>2. ResyncOwed => ResyncOwed'
    BY <1>6, <2>1 DEF Owing
  <2>3. Travelling \subseteq Travelling'
    BY <1>5, <2>1 DEF Parts, Claimed, Writing
  <2> QED
    BY <1>8, <2>1, <2>2, <2>3
<1>28. ASSUME PumpDiscards PROVE LastIsKnown'
  <2> DEFINE b == Head(term.pending)
             asks == term.resync \/ view = "pane" \/ b.range.from > term.synced
  <2>1. /\ term.pending # <<>>
        /\ asks \/ b.range.to <= term.synced
        /\ term' = [term EXCEPT !.pending = Tail(@), !.resync = asks]
        /\ UNCHANGED <<written, queue, carry, fwd, flow, channel, gap, attach, pump, sync>>
    BY <1>28 DEF PumpDiscards, backend
  <2>2. Ranges(term.pending) = {b.range} \cup Ranges(Tail(term.pending)) /\ b \in Batch
    BY <1>2, <2>1, GoneBatch DEF Terminal
  <2> HIDE DEF b
  <2>3. asks \in BOOLEAN
    OBVIOUS
  <2>4. CASE asks
    <3>1. term'.resync
      BY <1>2, <2>1, <2>4 DEF Terminal
    <3> QED
      BY <1>6, <1>7, <2>1, <3>1
  <2>5. CASE ~ asks
    <3>1. b.range.to <= term.synced /\ ~ term.resync
      BY <2>1, <2>5
    <3>2. term'.pending = Tail(term.pending) /\ term'.synced = term.synced
      BY <1>2, <2>1 DEF Terminal
    <3>3. ResyncOwed => ResyncOwed'
      BY <1>6, <2>1, <3>1 DEF Owing
    <3>4. Travelling \subseteq Travelling' \cup {b.range}
      BY <1>5, <2>1, <2>2, <3>2 DEF Parts, Claimed, Writing
    <3>5. b.range.to = written => written <= term'.synced
      BY <3>1, <3>2
    <3> QED
      BY <1>0, <1>2, <2>1, <3>2, <3>3, <3>4, <3>5, StillOwed
  <2> QED
    BY <2>4, <2>5
<1>29. ASSUME PumpWrites PROVE LastIsKnown'
  <2>1. /\ term.pending # <<>> /\ pump.pc = "loop"
        /\ pump' = [pc |-> "write", batch |-> Head(term.pending)]
        /\ term' = [term EXCEPT !.pending = Tail(@), !.mixed = @ \/ sync.pc # "none"]
        /\ UNCHANGED <<written, queue, carry, fwd, flow, channel, gap, attach, sync>>
    BY <1>29 DEF PumpWrites, backend, wire
  <2>2. Ranges(term.pending) = {Head(term.pending).range} \cup Ranges(Tail(term.pending))
    BY <1>2, <2>1, GoneBatch DEF Terminal
  <2>3. /\ term'.pending = Tail(term.pending) /\ term'.synced = term.synced
        /\ term'.resync = term.resync
    BY <1>2, <2>1 DEF Terminal
  <2>4. ResyncOwed => ResyncOwed'
    BY <1>6, <2>1, <2>3 DEF Owing
  <2>5. Travelling \subseteq Travelling'
    BY <1>5, <2>1, <2>2, <2>3 DEF Parts, Claimed, Writing
  <2> QED
    BY <1>8, <2>1, <2>3, <2>4, <2>5
<1>30. ASSUME PumpWritten PROVE LastIsKnown'
  <2> DEFINE end == Max({term.synced, pump.batch.range.to})
  <2>1. /\ pump.pc = "write" /\ pump' = [pc |-> "loop", batch |-> NoBatch]
        /\ term' = [term EXCEPT !.synced = end]
        /\ UNCHANGED <<written, queue, carry, fwd, flow, channel, gap, attach, sync>>
    BY <1>30 DEF PumpWritten, backend
  <2>2. pump.batch.range.to \in Nat
    BY <2>1, Numbers
  <2>3. end \in Nat /\ term.synced <= end /\ pump.batch.range.to <= end
    BY <1>2, <2>2, MaxOfTwo
  <2> HIDE DEF end
  <2>4. /\ term'.synced = end /\ term'.pending = term.pending /\ term'.resync = term.resync
    BY <1>2, <2>1 DEF Terminal
  <2>5. ResyncOwed => ResyncOwed'
    BY <1>6, <2>1, <2>4 DEF Owing
  <2>6. Travelling \subseteq Travelling' \cup {pump.batch.range}
    BY <1>5, <2>1, <2>4 DEF Parts, Claimed, Writing
  <2>7. term'.synced < written /\ term'.doubt < written =>
          term.synced < written /\ term.doubt < written
    BY <1>0, <1>2, <2>1, <2>3, <2>4
  <2>8. pump.batch.range.to = written => written <= term'.synced
    BY <2>3, <2>4
  <2> QED
    BY <1>2, <1>3, <2>1, <2>5, <2>6, <2>7, <2>8, StillOwed
<1>31. ASSUME Recover \/ ReplaceChannel PROVE LastIsKnown'
  <2>1. attach' # "none" /\ written' = written
    BY <1>31 DEF Recover, ReplaceChannel, backend
  <2> QED
    BY <1>6, <1>7, <2>1
<1>32. ASSUME Attached PROVE LastIsKnown'
  <2>1. written' = written /\ (view = "shown" => sync'.pc = "read")
    BY <1>32 DEF Attached, backend
  <2>2. term'.resync = (view # "shown")
    BY <1>2, <1>32 DEF Attached, Terminal
  <2> QED
    BY <1>6, <1>7, <2>1, <2>2
<1>33. ASSUME UNCHANGED vars PROVE LastIsKnown'
  BY <1>33 DEF vars, backend, pane, wire, LastIsKnown, ResyncOwed, Travelling
<1>34. ASSUME Forwarder PROVE LastIsKnown'
  BY <1>10, <1>11, <1>12, <1>13, <1>14, <1>15, <1>34 DEF Forwarder, Reserve
<1>35. ASSUME Wire \/ Lose \/ Read \/ (\E v \in {"shown"} \cup Hidings : SetView(v)) PROVE LastIsKnown'
  BY <1>9, <1>16, <1>17, <1>18, <1>19, <1>20, <1>35 DEF Wire
<1>36. ASSUME Sync PROVE LastIsKnown'
  BY <1>21, <1>22, <1>24, <1>25, <1>36 DEF Sync
<1>37. ASSUME Pump PROVE LastIsKnown'
  BY <1>26, <1>27, <1>28, <1>29, <1>30, <1>37 DEF Pump
<1>38. ASSUME Attach \/ Recover PROVE LastIsKnown'
  BY <1>31, <1>32, <1>38 DEF Attach
<1> QED
  BY <1>33, <1>34, <1>35, <1>36, <1>37, <1>38 DEF Next, System

LEMMA StepInv == Inv /\ [Next]_vars => Inv'
<1> SUFFICES ASSUME Inv, [Next]_vars PROVE Inv'
  OBVIOUS
<1> USE DEF Inv
<1>1. Typed'
  BY StepTypes
<1>2. OneWriter'
  BY OneWriterKept
<1>3. Printed'
  BY PrintedKept
<1>4. ASSUME ~ term'.mixed PROVE Painted' /\ PaintedOnce'
  <2>1. ~ term.mixed
    BY <1>4, HistoryKept
  <2> QED
    BY <1>4, <2>1, PaintedKept
<1>5. LastIsKnown'
  BY LastKept
<1> QED
  BY <1>1, <1>2, <1>3, <1>4, <1>5

LEMMA InvAlways == Spec => []Inv
<1>1. Inv /\ [Next]_vars => Inv'
  BY StepInv
<1> QED
  BY <1>1, InitInv, PTL DEF Spec

-----------------------------------------------------------------------------
(* What follows.                                                             *)

\* No output is lost unnoticed (session.rs, "never silently lost"): a chunk the
\* pane does not have is on its way, lies before a batch that is, or a read of
\* the scrollback is owed or brings it; unless it was printed before a pump took
\* the flag for a read that had its bytes, or a read set the pane's offset back.
THEOREM LossNoticed == Spec => []LossIsKnown
<1>1. Inv => LossIsKnown
  <2> SUFFICES ASSUME Inv, NEW c \in (Max({term.synced, term.doubt}) + 1)..written
               PROVE  \/ ResyncOwed
                      \/ sync.pc \in {"have", "write"} /\ c <= sync.end
                      \/ \E r \in Travelling : c <= r.to
    BY DEF LossIsKnown
  <2> DEFINE top == Max({term.synced, term.doubt})
  <2>1. /\ written \in Nat /\ term.synced \in Nat /\ sync.end \in Nat /\ term.doubt \in Nat
    BY Numbers, Sizes DEF Inv, Typed, Terminal, Offset
  <2>2. top \in Nat /\ term.synced <= top /\ term.doubt <= top
    BY <2>1, MaxOfTwo
  <2>3. c \in (top + 1)..written
    OBVIOUS
  <2> HIDE DEF top
  <2>4. term.synced < written /\ term.doubt < written /\ c <= written /\ c \in Nat
    BY <2>1, <2>2, <2>3
  <2>5. \/ ResyncOwed
        \/ sync.pc \in {"have", "write"} /\ written <= sync.end
        \/ \E r \in Travelling : r.to = written
    BY <2>4 DEF Inv, LastIsKnown
  <2> QED
    BY <2>1, <2>4, <2>5
<1> QED
  BY <1>1, InvAlways, PTL

\* What a pane discards as already present is present: everything up to its
\* offset is on the screen, each chunk after all earlier ones, until a batch is
\* written beside a read.
THEOREM ScreenComplete == Spec => []ScreenIsComplete
<1>1. Inv => ScreenIsComplete
  <2> SUFFICES ASSUME Inv, ~ term.mixed PROVE ScreenIsComplete
    BY DEF ScreenIsComplete
  <2>1. term.synced <= Top /\ Top \in Nat /\ term.synced \in Nat
    BY Reach, Numbers DEF Inv
  <2>2. 1..term.synced \subseteq 1..Top
    BY <2>1
  <2> QED
    BY <2>2 DEF Inv, Painted, Ordered, Filled, ScreenIsComplete
<1> QED
  BY <1>1, InvAlways, PTL

\* Nothing is shown twice until a pane is recovered or a batch is written beside
\* a read: a batch and a read of the scrollback that overlap are cut at the same
\* offset, also when a pump has joined the read.
THEOREM ShownAtMostOnce == Spec => []ShownOnceUntilRecovery
<1>1. Inv => ShownOnceUntilRecovery
  BY DEF Inv, PaintedOnce, Once, ShownOnceUntilRecovery, ShownOnce
<1> QED
  BY <1>1, InvAlways, PTL
=============================================================================
