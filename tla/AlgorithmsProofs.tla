--------------------------- MODULE AlgorithmsProofs ----------------------------
(***************************************************************************)
(* Theorems about the algorithms of the pipeline for every value of their  *)
(* constants: any galleries and thresholds, any frames, grids and hands,   *)
(* any evaluation, any limit and window, any number of scans that confirm. *)
(***************************************************************************)
EXTENDS Algorithms, CameraRunnerProofs, FiniteSetsExt, SequenceTheorems, FiniteSetTheorems,
        FunctionTheorems, WellFoundedInduction

-------------------------------------------------------------------------------
(* Extremes of finite sets, and counting *)

\* A number that depends on the elements of a set is least for one of them.
LEMMA LeastOf ==
    ASSUME NEW S, S # {}, NEW f, \A x \in S : f[x] \in Nat
    PROVE  \E m \in S : \A x \in S : f[m] <= f[x]
<1> DEFINE T == {f[x] : x \in S}
           Less == OpToRel(<, Nat)
<1>1. T # {} /\ T \subseteq Nat
  OBVIOUS
<1>2. PICK l \in T : \A y \in T : ~(<<y, l>> \in Less)
  BY <1>1, NatLessThanWellFounded, WFMin, Zenon
<1>3. PICK m \in S : f[m] = l
  OBVIOUS
<1>4. ASSUME NEW x \in S PROVE f[m] <= f[x]
  <2>1. f[x] \in Nat /\ l \in Nat /\ ~(f[x] < l)
    BY <1>1, <1>2 DEF OpToRel
  <2>2. QED
    BY <1>3, <2>1
<1>5. QED
  BY <1>4

LEMMA FiniteMax ==
    ASSUME NEW S, S \subseteq Int, IsFiniteSet(S), S # {}
    PROVE  Max(S) \in S /\ \A y \in S : Max(S) >= y
<1> DEFINE Above(x) == {y \in S : y > x}
           f == [x \in S |-> Cardinality(Above(x))]
<1>1. ASSUME NEW x \in S PROVE IsFiniteSet(Above(x)) /\ f[x] \in Nat
  BY FS_Subset, FS_CardinalityType
<1>2. PICK m \in S : \A x \in S : f[m] <= f[x]
  <2> HIDE DEF f
  <2>1. QED
    BY <1>1, LeastOf
<1>3. ASSUME NEW y \in S PROVE m >= y
  <2> SUFFICES ASSUME y > m PROVE FALSE
    OBVIOUS
  <2>0. y \in Int /\ m \in Int
    OBVIOUS
  <2>1. Above(y) \subseteq Above(m) /\ y \in Above(m) /\ y \notin Above(y)
    <3>1. \A z \in S : z > y => z > m
      BY <2>0
    <3>2. ~(y > y)
      BY <2>0
    <3>3. QED
      BY <3>1, <3>2
  <2>2. Cardinality(Above(y)) <= Cardinality(Above(m))
        /\ Cardinality(Above(y)) # Cardinality(Above(m))
    <3> HIDE DEF Above
    <3>1. QED
      BY <1>1, <2>1, FS_Subset
  <2>3. f[y] < f[m] /\ f[y] \in Nat /\ f[m] \in Nat
    BY <1>1, <2>2
  <2> HIDE DEF f
  <2>4. QED
    BY <1>2, <2>3
<1>4. QED
  BY <1>3 DEF Max

LEMMA FiniteMin ==
    ASSUME NEW S, S \subseteq Int, IsFiniteSet(S), S # {}
    PROVE  Min(S) \in S /\ \A y \in S : Min(S) <= y
<1> DEFINE Below(x) == {y \in S : y < x}
           f == [x \in S |-> Cardinality(Below(x))]
<1>1. ASSUME NEW x \in S PROVE IsFiniteSet(Below(x)) /\ f[x] \in Nat
  BY FS_Subset, FS_CardinalityType
<1>2. PICK m \in S : \A x \in S : f[m] <= f[x]
  <2> HIDE DEF f
  <2>1. QED
    BY <1>1, LeastOf
<1>3. ASSUME NEW y \in S PROVE m <= y
  <2> SUFFICES ASSUME y < m PROVE FALSE
    OBVIOUS
  <2>0. y \in Int /\ m \in Int
    OBVIOUS
  <2>1. Below(y) \subseteq Below(m) /\ y \in Below(m) /\ y \notin Below(y)
    <3>1. \A z \in S : z < y => z < m
      BY <2>0
    <3>2. ~(y < y)
      BY <2>0
    <3>3. QED
      BY <3>1, <3>2
  <2>2. Cardinality(Below(y)) <= Cardinality(Below(m))
        /\ Cardinality(Below(y)) # Cardinality(Below(m))
    <3> HIDE DEF Below
    <3>1. QED
      BY <1>1, <2>1, FS_Subset
  <2>3. f[y] < f[m] /\ f[y] \in Nat /\ f[m] \in Nat
    BY <1>1, <2>2
  <2> HIDE DEF f
  <2>4. QED
    BY <1>2, <2>3
<1>4. QED
  BY <1>3 DEF Min

LEMMA MinOfTwo ==
    ASSUME NEW a \in Int, NEW b \in Int
    PROVE  Min({a, b}) = IF a <= b THEN a ELSE b
BY DEF Min

LEMMA MaxOfTwo ==
    ASSUME NEW a \in Int, NEW b \in Int
    PROVE  Max({a, b}) = IF a >= b THEN a ELSE b
BY DEF Max


\* An operator of a library means the same wherever it is used.
LEMMA LimiterSame == \A S : R!Cardinality(S) = Cardinality(S)
BY DEF R!Cardinality, Cardinality

LEMMA NamingSame ==
    \A S : N!Cardinality(S) = Cardinality(S) /\ N!Max(S) = Max(S) /\ N!Min(S) = Min(S)
BY DEF N!Cardinality, Cardinality, N!Max, Max, N!Min, Min

LEMMA RatingSame ==
    \A S : /\ E!Cardinality(S) = Cardinality(S) /\ E!IsFiniteSet(S) = IsFiniteSet(S)
           /\ E!Max(S) = Max(S) /\ E!Min(S) = Min(S)
BY DEF E!Cardinality, Cardinality, E!IsFiniteSet, IsFiniteSet, E!Max, Max, E!Min, Min

-------------------------------------------------------------------------------
(* RateLimiter *)

\* What is in a sequence is no more than it is long.
LEMMA RangeIsShort ==
    ASSUME NEW S, NEW seq \in Seq(S), NEW T,
           \A x \in T : \E i \in 1 .. Len(seq) : seq[i] = x
    PROVE  Cardinality(T) <= Len(seq)
<1> DEFINE Found == {seq[i] : i \in 1 .. Len(seq)}
           f == [i \in 1 .. Len(seq) |-> seq[i]]
<1>1. Len(seq) \in Nat
  BY LenProperties
<1>2. f \in Surjection(1 .. Len(seq), Found)
  BY DEF Surjection
<1>3. ExistsSurjection(1 .. Len(seq), Found)
  BY <1>2 DEF ExistsSurjection
<1>4. IsFiniteSet(Found) /\ Cardinality(Found) <= Len(seq)
  BY <1>1, <1>3, FS_NatSurjection, FS_SurjCardinalityBound
<1>5. T \subseteq Found
  OBVIOUS
<1>6. IsFiniteSet(T) /\ Cardinality(T) <= Cardinality(Found)
  BY <1>4, <1>5, FS_Subset
<1>7. Cardinality(T) \in Nat /\ Cardinality(Found) \in Nat
  BY <1>4, <1>6, FS_CardinalityType
<1>8. QED
  BY <1>1, <1>4, <1>6, <1>7

\* The end of a sequence of hits is one, and has every hit that comes after its start.
LEMMA SuffixKeeps ==
    ASSUME NEW seq \in Seq(R!Hit), NEW n \in 0 .. Len(seq)
    PROVE  /\ SubSeq(seq, n + 1, Len(seq)) \in Seq(R!Hit)
           /\ \A i \in n + 1 .. Len(seq) :
                 \E j \in 1 .. Len(SubSeq(seq, n + 1, Len(seq))) :
                    SubSeq(seq, n + 1, Len(seq))[j] = seq[i]
<1> DEFINE tail == SubSeq(seq, n + 1, Len(seq))
<1>1. Len(seq) \in Nat /\ \A i \in 1 .. Len(seq) : seq[i] \in R!Hit
  BY LenProperties, ElementOfSeq
<1>2. \A i \in n + 1 .. Len(seq) : seq[i] \in R!Hit
  BY <1>1
<1>3. /\ tail \in Seq(R!Hit)
      /\ Len(tail) = IF n + 1 <= Len(seq) THEN Len(seq) - (n + 1) + 1 ELSE 0
      /\ \A i \in 1 .. Len(seq) - (n + 1) + 1 : tail[i] = seq[n + 1 + i - 1]
  BY <1>1, <1>2, SubSeqProperties
<1>4. ASSUME NEW i \in n + 1 .. Len(seq)
      PROVE  \E j \in 1 .. Len(tail) : tail[j] = seq[i]
  <2>1. i - n \in 1 .. Len(tail) /\ i - n \in 1 .. Len(seq) - (n + 1) + 1
    BY <1>1, <1>3
  <2>2. tail[i - n] = seq[i]
    BY <1>1, <1>3, <2>1
  <2>3. QED
    BY <2>1, <2>2
<1>5. QED
  BY <1>3, <1>4

FinitelyServed == \A c \in Clients : IsFiniteSet(served[c])

\* Nobody was served in the future, and whoever was within a window of now is still
\* remembered: only what a time not later than now calls expired is dropped.
Remembered ==
    \A c \in Clients : \A h \in served[c] :
        /\ h.at <= clock
        /\ h.at > clock - Window => \E i \in 1 .. Len(hits[c]) : hits[c][i] = h

LimiterInv == R!TypeOK /\ FinitelyServed /\ Remembered /\ R!WindowIsBounded

\* The live hits of a client, at a time not later than now, have every hit served within
\* a window of now.
LEMMA LiveKeeps ==
    ASSUME R!Limits, LimiterInv, NEW c \in Clients, NEW now \in Nat, now <= clock,
           NEW live \in R!Suffixes(c), R!IsLive(live, c, now)
    PROVE  /\ live \in Seq(R!Hit)
           /\ \A h \in served[c] :
                 h.at > clock - Window => \E j \in 1 .. Len(live) : live[j] = h
<1>1. PICK n \in 0 .. Len(hits[c]) :
         /\ \A i \in 1 .. n : R!Expired(hits[c][i], now)
         /\ live = SubSeq(hits[c], n + 1, Len(hits[c]))
  BY DEF R!IsLive
<1>2. hits[c] \in Seq(R!Hit)
  BY DEF LimiterInv, R!TypeOK
<1>3. live \in Seq(R!Hit)
  BY <1>1, <1>2, SuffixKeeps
<1>4. ASSUME NEW h \in served[c], h.at > clock - Window
      PROVE  \E j \in 1 .. Len(live) : live[j] = h
  <2>1. PICK i \in 1 .. Len(hits[c]) : hits[c][i] = h
    BY <1>4 DEF LimiterInv, Remembered
  <2>2. h.at \in Nat /\ clock \in Nat /\ Window \in Nat
    BY DEF R!Limits, LimiterInv, R!TypeOK, R!Hit
  <2>3. i \notin 1 .. n
    BY <1>1, <1>4, <2>1, <2>2 DEF R!Expired
  <2>4. Len(hits[c]) \in Nat
    BY <1>2, LenProperties
  <2>5. i \in n + 1 .. Len(hits[c])
    BY <2>3, <2>4
  <2>6. QED
    BY <1>1, <1>2, <2>1, <2>5, SuffixKeeps
<1>5. QED
  BY <1>3, <1>4

LEMMA LimiterInit ==
    ASSUME R!Limits, R!Init
    PROVE  LimiterInv
<1>1. R!TypeOK
  BY DEF R!Init, R!TypeOK
<1>2. FinitelyServed /\ Remembered
  BY FS_EmptySet DEF R!Init, FinitelyServed, Remembered
<1>3. R!WindowIsBounded
  <2>1. \A c \in Clients : \A end \in 0 .. clock : R!InWindow(c, end) = {}
    BY DEF R!Init, R!InWindow
  <2>2. QED
    BY <2>1, FS_EmptySet, LimiterSame DEF R!Limits, R!WindowIsBounded
<1>4. QED
  BY <1>1, <1>2, <1>3 DEF LimiterInv

LEMMA TickKeeps ==
    ASSUME R!Limits, LimiterInv, R!Tick
    PROVE  LimiterInv'
<1>1. clock \in Nat /\ clock' = clock + 1 /\ UNCHANGED <<waiting, hits, served>>
  BY DEF LimiterInv, R!TypeOK, R!Tick
<1>2. R!TypeOK'
  <2>1. ASSUME NEW t \in Threads, waiting[t] # R!Nobody
        PROVE  waiting[t].now <= clock + 1 /\ clock + 1 - waiting[t].now <= MaxLag
    <3>1. waiting[t].now \in Nat /\ waiting[t].now <= clock /\ clock - waiting[t].now < MaxLag
      BY <2>1 DEF LimiterInv, R!TypeOK, R!Tick
    <3>2. QED
      BY <1>1, <3>1 DEF R!Limits
  <2>2. QED
    BY <1>1, <2>1 DEF LimiterInv, R!TypeOK
<1>3. FinitelyServed'
  BY <1>1 DEF LimiterInv, FinitelyServed
<1>4. Remembered'
  <2>1. Window \in Nat
    BY DEF R!Limits
  <2>2. Remembered /\ \A c \in Clients : \A h \in served[c] : h.at \in Nat
    BY DEF LimiterInv, R!TypeOK, R!Hit
  <2>3. ASSUME NEW c \in Clients, NEW h \in served[c]
        PROVE  /\ h.at <= clock'
               /\ h.at > clock' - Window => \E i \in 1 .. Len(hits'[c]) : hits'[c][i] = h
    <3>1. /\ h.at <= clock
          /\ h.at > clock - Window => \E i \in 1 .. Len(hits[c]) : hits[c][i] = h
      BY <2>2 DEF Remembered
    <3>2. h.at \in Nat
      BY <2>2
    <3>3. h.at <= clock' /\ (h.at > clock' - Window => h.at > clock - Window)
      BY ONLY <1>1, <2>1, <3>1, <3>2
    <3>4. hits' = hits
      BY <1>1
    <3>5. QED
      BY <3>1, <3>3, <3>4
  <2>4. served' = served
    BY <1>1
  <2>5. QED
    BY ONLY <2>3, <2>4 DEF Remembered
<1>5. R!WindowIsBounded'
  <2> SUFFICES ASSUME NEW c \in Clients, NEW end \in 0 .. clock + 1
               PROVE  Cardinality(R!InWindow(c, end)) <= MaxRequests
    BY <1>1, LimiterSame DEF R!WindowIsBounded, R!InWindow
  <2>1. CASE end \in 0 .. clock
    BY <2>1, LimiterSame DEF LimiterInv, R!WindowIsBounded
  <2>2. CASE end = clock + 1
    <3>1. R!InWindow(c, end) \subseteq R!InWindow(c, clock)
      BY <1>1, <2>2 DEF R!Limits, R!InWindow, LimiterInv, Remembered, R!TypeOK, R!Hit
    <3>2. R!InWindow(c, clock) \subseteq served[c] /\ IsFiniteSet(served[c])
      BY DEF R!InWindow, LimiterInv, FinitelyServed
    <3>3. /\ IsFiniteSet(R!InWindow(c, clock))
          /\ IsFiniteSet(R!InWindow(c, end))
          /\ Cardinality(R!InWindow(c, end)) <= Cardinality(R!InWindow(c, clock))
      BY <3>1, <3>2, FS_Subset
    <3>4. Cardinality(R!InWindow(c, clock)) <= MaxRequests
      BY <1>1, LimiterSame DEF LimiterInv, R!WindowIsBounded
    <3>5. QED
      BY <3>3, <3>4, FS_CardinalityType DEF R!Limits
  <2>3. QED
    BY <1>1, <2>1, <2>2
<1>6. QED
  BY <1>2, <1>3, <1>4, <1>5 DEF LimiterInv

LEMMA ReadClockKeeps ==
    ASSUME R!Limits, LimiterInv, NEW t \in Threads, NEW c \in Clients, R!ReadClock(t, c)
    PROVE  LimiterInv'
<1>1. UNCHANGED <<clock, hits, served>>
  BY DEF R!ReadClock
<1>2. R!TypeOK'
  BY DEF R!Limits, LimiterInv, R!TypeOK, R!ReadClock
<1>3. FinitelyServed' /\ Remembered' /\ R!WindowIsBounded'
  BY <1>1 DEF LimiterInv, FinitelyServed, Remembered, R!WindowIsBounded, R!InWindow
<1>4. QED
  BY <1>2, <1>3 DEF LimiterInv

LEMMA RefuseKeeps ==
    ASSUME R!Limits, LimiterInv, NEW t \in Threads, R!Refuse(t)
    PROVE  LimiterInv'
<1> DEFINE c == waiting[t].client
           now == waiting[t].now
<1>1. c \in Clients /\ now \in Nat /\ now <= clock
  BY DEF LimiterInv, R!TypeOK, R!Refuse
<1>2. PICK live \in R!Suffixes(c) : R!IsLive(live, c, now) /\ hits' = [hits EXCEPT ![c] = live]
  BY DEF R!Refuse
<1>3. /\ live \in Seq(R!Hit)
      /\ \A h \in served[c] : h.at > clock - Window => \E j \in 1 .. Len(live) : live[j] = h
  BY <1>1, <1>2, LiveKeeps
<1>4. waiting' = [waiting EXCEPT ![t] = R!Nobody] /\ UNCHANGED <<clock, served>>
  BY DEF R!Refuse
<1>5. R!TypeOK'
  BY <1>1, <1>2, <1>3, <1>4 DEF LimiterInv, R!TypeOK
<1>6. FinitelyServed' /\ R!WindowIsBounded'
  BY <1>4 DEF LimiterInv, FinitelyServed, R!WindowIsBounded, R!InWindow
<1>7. Remembered'
  BY <1>1, <1>2, <1>3, <1>4 DEF LimiterInv, R!TypeOK, Remembered
<1>8. QED
  BY <1>5, <1>6, <1>7 DEF LimiterInv

\* Whoever is served fills at most the last place of any window that ends now or later,
\* since the live hits have every other hit of that window.
LEMMA ServeKeeps ==
    ASSUME R!Limits, LimiterInv, NEW t \in Threads, R!Serve(t)
    PROVE  LimiterInv'
<1> DEFINE c == waiting[t].client
           now == waiting[t].now
           hit == [number |-> Cardinality(served[c]), at |-> now]
<1>1. /\ c \in Clients /\ now \in Nat /\ now <= clock /\ clock - now <= MaxLag
      /\ clock \in Nat
  BY DEF LimiterInv, R!TypeOK, R!Serve
<1>2. PICK live \in R!Suffixes(c) :
         /\ R!IsLive(live, c, now)
         /\ Len(live) < MaxRequests
         /\ hits' = [hits EXCEPT ![c] = Append(live, hit)]
         /\ served' = [served EXCEPT ![c] = @ \cup {hit}]
  BY LimiterSame DEF R!Serve
<1>3. /\ live \in Seq(R!Hit)
      /\ \A h \in served[c] : h.at > clock - Window => \E j \in 1 .. Len(live) : live[j] = h
  BY <1>1, <1>2, LiveKeeps
<1>4. waiting' = [waiting EXCEPT ![t] = R!Nobody] /\ UNCHANGED clock
  BY DEF R!Serve
<1>5. hit \in R!Hit /\ hit.at = now
  BY <1>1, FS_CardinalityType DEF R!Hit, LimiterInv, FinitelyServed
<1> HIDE DEF hit, c, now
<1>6. /\ Append(live, hit) \in Seq(R!Hit)
      /\ Len(live) \in Nat
      /\ Len(Append(live, hit)) = Len(live) + 1
      /\ \A i \in 1 .. Len(live) : Append(live, hit)[i] = live[i]
      /\ Append(live, hit)[Len(live) + 1] = hit
  BY <1>3, <1>5, AppendProperties, LenProperties
<1>7. hits'[c] = Append(live, hit) /\ served'[c] = served[c] \cup {hit}
  BY <1>1, <1>2 DEF LimiterInv, R!TypeOK
<1>8. \A d \in Clients \ {c} : hits'[d] = hits[d] /\ served'[d] = served[d]
  BY <1>2 DEF LimiterInv, R!TypeOK
<1>9. \A h \in served'[c] :
         h.at > clock - Window => \E i \in 1 .. Len(hits'[c]) : hits'[c][i] = h
  <2> SUFFICES ASSUME NEW h \in served'[c], h.at > clock - Window
               PROVE  \E i \in 1 .. Len(hits'[c]) : hits'[c][i] = h
    OBVIOUS
  <2>1. CASE h = hit
    <3>1. Len(live) + 1 \in 1 .. Len(hits'[c]) /\ hits'[c][Len(live) + 1] = hit
      BY <1>6, <1>7
    <3>2. QED
      BY <2>1, <3>1
  <2>2. CASE h \in served[c]
    <3>1. PICK j \in 1 .. Len(live) : live[j] = h
      BY <1>3, <2>2
    <3>2. j \in 1 .. Len(hits'[c]) /\ hits'[c][j] = h
      BY <1>6, <1>7, <3>1
    <3>3. QED
      BY <3>2
  <2>3. QED
    BY <1>7, <2>1, <2>2
<1>10. R!TypeOK'
  <2>1. (hits \in [Clients -> Seq(R!Hit)])'
    BY <1>2, <1>6 DEF LimiterInv, R!TypeOK
  <2>2. (served \in [Clients -> SUBSET R!Hit])'
    BY <1>2, <1>5 DEF LimiterInv, R!TypeOK
  <2>3. QED
    BY <1>4, <2>1, <2>2 DEF LimiterInv, R!TypeOK
<1>11. FinitelyServed'
  BY <1>7, <1>8, FS_AddElement DEF LimiterInv, FinitelyServed
<1>12. Remembered'
  <2>1. \A h \in served'[c] : h.at <= clock
    BY <1>1, <1>5, <1>7 DEF LimiterInv, Remembered
  <2>2. QED
    BY <1>1, <1>4, <1>8, <1>9, <2>1 DEF LimiterInv, Remembered
<1>13. R!WindowIsBounded'
  <2> SUFFICES ASSUME NEW d \in Clients, NEW end \in 0 .. clock
               PROVE  Cardinality(R!InWindow(d, end)') <= MaxRequests
    BY <1>4, LimiterSame DEF R!WindowIsBounded, R!InWindow
  <2>1. Cardinality(R!InWindow(d, end)) <= MaxRequests
    BY LimiterSame DEF LimiterInv, R!WindowIsBounded
  <2>2. CASE d # c \/ ~(end - Window + MaxLag < now /\ now <= end)
    <3>1. R!InWindow(d, end)' = R!InWindow(d, end)
      BY <1>5, <1>7, <1>8, <2>2 DEF R!InWindow
    <3>2. QED
      BY <2>1, <3>1
  <2>3. CASE d = c /\ end - Window + MaxLag < now /\ now <= end
    <3>1. \A h \in R!InWindow(d, end)' : \E i \in 1 .. Len(hits'[c]) : hits'[c][i] = h
      <4> SUFFICES ASSUME NEW h \in R!InWindow(d, end)'
                   PROVE  \E i \in 1 .. Len(hits'[c]) : hits'[c][i] = h
        OBVIOUS
      <4>1. h \in served'[c] /\ end - Window + MaxLag < h.at
        BY <2>3 DEF R!InWindow
      <4>2. h.at \in Nat
        BY <1>1, <1>10, <4>1 DEF R!TypeOK, R!Hit
      <4>3. h.at > clock - Window
        BY <1>1, <2>3, <4>1, <4>2 DEF R!Limits
      <4>4. QED
        BY <1>9, <4>1, <4>3
    <3>2. Cardinality(R!InWindow(d, end)') <= Len(hits'[c])
      BY <1>6, <1>7, <3>1, RangeIsShort
    <3>3. Len(hits'[c]) <= MaxRequests
      BY <1>2, <1>6, <1>7 DEF R!Limits
    <3>4. R!InWindow(d, end)' \subseteq served'[c] /\ IsFiniteSet(served'[c])
      BY <1>11, <2>3 DEF R!InWindow, FinitelyServed
    <3>5. Cardinality(R!InWindow(d, end)') \in Nat
      BY <3>4, FS_Subset, FS_CardinalityType
    <3>6. QED
      BY <1>6, <1>7, <2>3, <3>2, <3>3, <3>5 DEF R!Limits
  <2>4. QED
    BY <2>2, <2>3
<1>14. QED
  BY <1>10, <1>11, <1>12, <1>13 DEF LimiterInv

LEMMA LimiterStep ==
    ASSUME R!Limits, LimiterInv, [R!Next]_(R!vars)
    PROVE  LimiterInv'
<1>1. CASE UNCHANGED R!vars
  BY <1>1 DEF R!vars, LimiterInv, R!TypeOK, FinitelyServed, Remembered, R!WindowIsBounded, R!InWindow
<1>2. CASE R!Next
  BY <1>2, TickKeeps, ReadClockKeeps, RefuseKeeps, ServeKeeps DEF R!Next
<1>3. QED
  BY <1>1, <1>2

\* What LimiterStep keeps is true throughout: the hits remembered are those in the window.
THEOREM LimiterInvariance ==
    ASSUME R!Limits
    PROVE  R!Spec => []LimiterInv
<1>1. R!Init => LimiterInv
  BY LimiterInit
<1>2. LimiterInv /\ [R!Next]_(R!vars) => LimiterInv'
  BY LimiterStep
<1>3. QED
  BY <1>1, <1>2, PTL DEF R!Spec

\* RateLimiter.allow keeps its limit: no client is served more than MaxRequests times in
\* any window, less the lag of the threads.
THEOREM LimitHolds ==
    ASSUME R!Limits
    PROVE  R!Spec => []R!WindowIsBounded
<1>1. LimiterInv => R!WindowIsBounded
  BY DEF LimiterInv
<1>2. QED
  BY <1>1, LimiterInvariance, PTL

-------------------------------------------------------------------------------
(* Webcam *)

\* The scans since the last that saw what is reported are those that are pending.
PendingDisagree ==
    /\ badge = reported
    /\ pending <= Len(palms)
    /\ \A i \in 0 .. pending - 1 : palms[Len(palms) - i] # reported
    /\ pending < Len(palms) => palms[Len(palms) - pending] = reported

PageInv == W!TypeOK /\ PendingDisagree /\ W!BadgeIsLastConfirmed

LEMMA PageInit ==
    ASSUME W!Debounced, W!Init
    PROVE  PageInv
<1>1. palms = <<>> /\ Len(palms) = 0 /\ palms \in Seq(BOOLEAN)
  BY EmptySeq DEF W!Init
<1>2. /\ frame_index = 0 /\ socket = "receive" /\ reported = FALSE /\ pending = 0
      /\ badge = FALSE /\ received = 0
  BY DEF W!Init
<1>3. W!TypeOK /\ PendingDisagree
  <2>1. 0 \in 0 .. 0 /\ 0 \in 0 .. ConfirmFrames - 1 /\ 0 \in 0 .. MaxMessages
    BY DEF W!Debounced
  <2>2. W!TypeOK
    BY <1>1, <1>2, <2>1 DEF W!TypeOK
  <2>3. PendingDisagree
    <3>1. 0 <= 0 /\ ~(0 < 0) /\ 0 .. 0 - 1 = {}
      OBVIOUS
    <3>2. QED
      BY <1>1, <1>2, <3>1 DEF PendingDisagree
  <2>4. QED
    BY <2>2, <2>3
<1>4. W!Confirmations = {}
  BY <1>1 DEF W!Confirmations, W!Debounced
<1>5. QED
  BY <1>2, <1>3, <1>4 DEF PageInv, W!BadgeIsLastConfirmed

\* The page sends what is not scanned.
LEMMA ReceiveKeeps ==
    ASSUME W!Debounced, PageInv, W!ReceiveGarbage \/ W!ReceiveFrame
    PROVE  PageInv'
<1>1. UNCHANGED <<reported, pending, badge, palms>>
  BY DEF W!ReceiveGarbage, W!ReceiveFrame
<1>2. PendingDisagree'
  BY <1>1 DEF PageInv, PendingDisagree
<1>3. W!BadgeIsLastConfirmed'
  BY <1>1 DEF PageInv, W!BadgeIsLastConfirmed, W!Confirmations
<1>4. W!TypeOK'
  BY <1>1 DEF PageInv, W!TypeOK, W!ReceiveGarbage, W!ReceiveFrame, W!Debounced
<1>5. QED
  BY <1>2, <1>3, <1>4 DEF PageInv

\* A scan ends a run of scans alike, or leaves those that ended one as they were.
LEMMA ConfirmationsGrow ==
    ASSUME W!Debounced, palms \in Seq(BOOLEAN), NEW detected \in BOOLEAN,
           palms' = Append(palms, detected)
    PROVE  LET N1 == Len(palms) + 1
           IN  /\ W!Confirmations \subseteq 1 .. Len(palms)
               /\ W!Confirmations' =
                     IF /\ N1 >= ConfirmFrames
                        /\ \A i \in 0 .. ConfirmFrames - 1 : palms'[N1 - i] = detected
                     THEN W!Confirmations \cup {N1}
                     ELSE W!Confirmations
<1> DEFINE N1 == Len(palms) + 1
           Alike(seq, n) == \A i \in 0 .. ConfirmFrames - 1 : seq[n - i] = seq[n]
<1>1. /\ Len(palms) \in Nat /\ Len(palms') = N1 /\ palms'[N1] = detected
      /\ \A i \in 1 .. Len(palms) : palms'[i] = palms[i]
  BY AppendProperties, LenProperties
<1>2. ConfirmFrames \in Nat /\ ConfirmFrames >= 1
  BY DEF W!Debounced
<1>3. \A n \in ConfirmFrames .. Len(palms) : Alike(palms', n) = Alike(palms, n)
  <2> SUFFICES ASSUME NEW n \in ConfirmFrames .. Len(palms)
               PROVE  \A i \in 0 .. ConfirmFrames - 1 :
                         palms'[n - i] = palms[n - i] /\ palms'[n] = palms[n]
    BY Zenon
  <2>1. n \in 1 .. Len(palms) /\ \A i \in 0 .. ConfirmFrames - 1 : n - i \in 1 .. Len(palms)
    BY <1>1, <1>2
  <2>2. QED
    BY <1>1, <2>1
<1>4. /\ W!Confirmations = {n \in ConfirmFrames .. Len(palms) : Alike(palms, n)}
      /\ W!Confirmations' = {n \in ConfirmFrames .. N1 : Alike(palms', n)}
  BY <1>1 DEF W!Confirmations
<1>5. Alike(palms', N1) = \A i \in 0 .. ConfirmFrames - 1 : palms'[N1 - i] = detected
  BY <1>1
<1> HIDE DEF Alike
<1>6. \A n : n \in ConfirmFrames .. N1 <=>
               n \in ConfirmFrames .. Len(palms) \/ (n = N1 /\ N1 >= ConfirmFrames)
  BY <1>1, <1>2
<1>7. W!Confirmations \subseteq 1 .. Len(palms)
  BY <1>1, <1>2, <1>4
<1>8. W!Confirmations' = IF N1 >= ConfirmFrames /\ Alike(palms', N1)
                         THEN W!Confirmations \cup {N1} ELSE W!Confirmations
  BY <1>1, <1>3, <1>4, <1>6
<1>9. QED
  BY <1>5, <1>7, <1>8

\* A badge changes when, and only when, the scans that disagree with it are a run.
LEMMA SendKeeps ==
    ASSUME W!Debounced, PageInv, NEW detected \in BOOLEAN, W!SendPayload(detected)
    PROVE  PageInv'
<1> DEFINE N1 == Len(palms) + 1
           Run == /\ N1 >= ConfirmFrames
                  /\ \A i \in 0 .. ConfirmFrames - 1 : palms'[N1 - i] = detected
<1>1. /\ palms \in Seq(BOOLEAN) /\ reported \in BOOLEAN /\ pending \in 0 .. ConfirmFrames - 1
      /\ badge = reported /\ pending <= Len(palms)
  BY DEF PageInv, W!TypeOK, PendingDisagree
<1>2. /\ W!Update(detected) /\ badge' = reported' /\ palms' = Append(palms, detected)
      /\ socket' = "receive" /\ UNCHANGED <<frame_index, received>>
  BY DEF W!SendPayload
<1>3. ConfirmFrames \in Nat /\ ConfirmFrames >= 1
  BY DEF W!Debounced
<1>4. /\ palms' \in Seq(BOOLEAN) /\ Len(palms) \in Nat /\ Len(palms') = N1
      /\ palms'[N1] = detected
      /\ \A i \in 1 .. Len(palms) : palms'[i] = palms[i]
      /\ \A i \in 1 .. Len(palms) : palms[i] \in BOOLEAN
  BY <1>1, <1>2, AppendProperties, LenProperties, ElementOfSeq
<1>5. /\ W!Confirmations \subseteq 1 .. Len(palms)
      /\ W!Confirmations' = IF Run THEN W!Confirmations \cup {N1} ELSE W!Confirmations
  BY <1>1, <1>2, ConfirmationsGrow
<1>6. badge' = IF Run THEN detected ELSE badge
  <2>1. CASE detected = reported
    BY <1>1, <1>2, <2>1 DEF W!Update
  <2>2. CASE detected # reported /\ pending + 1 < ConfirmFrames
    <3>1. reported' = reported
      BY <1>1, <1>2, <1>3, <2>2 DEF W!Update
    <3>2. ASSUME N1 >= ConfirmFrames
          PROVE  palms'[N1 - (pending + 1)] = reported /\ pending + 1 \in 0 .. ConfirmFrames - 1
      <4>1. pending < Len(palms) /\ Len(palms) - pending \in 1 .. Len(palms)
        BY <1>1, <1>3, <1>4, <2>2, <3>2
      <4>2. palms[Len(palms) - pending] = reported
        BY <4>1 DEF PageInv, PendingDisagree
      <4>3. N1 - (pending + 1) = Len(palms) - pending
        BY <1>1, <1>4
      <4>4. pending + 1 \in 0 .. ConfirmFrames - 1
        BY <1>1, <1>3, <2>2
      <4>5. QED
        BY <1>4, <4>1, <4>2, <4>3, <4>4
    <3>3. ~Run
      BY <2>2, <3>2
    <3>4. QED
      BY <1>1, <1>2, <3>1, <3>3
  <2>3. CASE detected # reported /\ pending + 1 >= ConfirmFrames
    <3>1. reported' = detected
      BY <1>1, <1>2, <2>3 DEF W!Update
    <3>2. N1 >= ConfirmFrames /\ pending = ConfirmFrames - 1
      BY <1>1, <1>3, <1>4, <2>3
    <3>3. ASSUME NEW i \in 0 .. ConfirmFrames - 1
          PROVE  palms'[N1 - i] = detected
      <4>1. CASE i = 0
        BY <1>4, <4>1
      <4>2. CASE i # 0
        <5>1. /\ i - 1 \in 0 .. pending - 1 /\ N1 - i = Len(palms) - (i - 1)
              /\ Len(palms) - (i - 1) \in 1 .. Len(palms)
          BY <1>1, <1>3, <1>4, <3>2, <4>2
        <5>2. palms[Len(palms) - (i - 1)] # reported
          BY <5>1 DEF PageInv, PendingDisagree
        <5>3. palms[Len(palms) - (i - 1)] = detected
          BY <1>1, <1>4, <2>3, <5>1, <5>2
        <5>4. QED
          BY <1>4, <5>1, <5>3
      <4>3. QED
        BY <4>1, <4>2
    <3>4. QED
      BY <1>2, <3>1, <3>2, <3>3
  <2>4. QED
    BY <1>1, <1>3, <2>1, <2>2, <2>3
<1>7. W!BadgeIsLastConfirmed'
  <2>1. badge = \E n \in W!Confirmations : palms[n] /\ \A o \in W!Confirmations : o <= n
    BY DEF PageInv, W!BadgeIsLastConfirmed
  <2>2. badge' = \E n \in W!Confirmations' : palms'[n] /\ \A o \in W!Confirmations' : o <= n
    <3>1. CASE Run
      <4>1. \A n \in W!Confirmations' : (\A o \in W!Confirmations' : o <= n) <=> n = N1
        BY <1>4, <1>5, <3>1
      <4>2. N1 \in W!Confirmations'
        BY <1>5, <3>1
      <4>3. badge' = detected
        BY <1>6, <3>1
      <4> HIDE DEF N1
      <4>4. QED
        BY <1>4, <4>1, <4>2, <4>3
    <3>2. CASE ~Run
      <4>1. W!Confirmations' = W!Confirmations /\ badge' = badge
        BY <1>5, <1>6, <3>2
      <4>2. \A n \in W!Confirmations : palms'[n] = palms[n]
        BY <1>4, <1>5
      <4>3. QED
        BY <2>1, <4>1, <4>2
    <3>3. QED
      BY <3>1, <3>2
  <2>3. QED
    BY <2>2 DEF W!BadgeIsLastConfirmed
<1>8. PendingDisagree'
  <2>1. CASE pending' = 0 /\ detected = reported'
    BY <1>2, <1>4, <2>1 DEF PendingDisagree
  <2>2. CASE pending' = pending + 1 /\ reported' = reported /\ detected # reported
    <3>1. pending' <= Len(palms')
      BY <1>1, <1>4, <2>2
    <3>2. ASSUME NEW i \in 0 .. pending
          PROVE  palms'[N1 - i] # reported
      <4>1. CASE i = 0
        BY <1>4, <2>2, <4>1
      <4>2. CASE i # 0
        <5>1. /\ i - 1 \in 0 .. pending - 1 /\ N1 - i = Len(palms) - (i - 1)
              /\ Len(palms) - (i - 1) \in 1 .. Len(palms)
          BY <1>1, <1>3, <1>4, <4>2
        <5>2. palms[Len(palms) - (i - 1)] # reported
          BY <5>1 DEF PageInv, PendingDisagree
        <5>3. QED
          BY <1>4, <5>1, <5>2
      <4>3. QED
        BY <4>1, <4>2
    <3>3. ASSUME pending + 1 < N1
          PROVE  palms'[N1 - (pending + 1)] = reported
      <4>1. /\ pending < Len(palms) /\ N1 - (pending + 1) = Len(palms) - pending
            /\ Len(palms) - pending \in 1 .. Len(palms)
        BY <1>1, <1>4, <3>3
      <4>2. palms[Len(palms) - pending] = reported
        BY <4>1 DEF PageInv, PendingDisagree
      <4>3. QED
        BY <1>4, <4>1, <4>2
    <3>4. pending' - 1 = pending
      BY <1>1, <2>2
    <3>5. QED
      BY <1>2, <1>4, <2>2, <3>1, <3>2, <3>3, <3>4 DEF PendingDisagree
  <2>3. QED
    BY <1>1, <1>2, <1>3, <2>1, <2>2 DEF W!Update
<1>9. W!TypeOK'
  BY <1>1, <1>2, <1>3, <1>4 DEF PageInv, W!TypeOK, W!Update
<1>10. QED
  BY <1>7, <1>8, <1>9 DEF PageInv

LEMMA PageStep ==
    ASSUME W!Debounced, PageInv, [W!Next]_(W!vars)
    PROVE  PageInv'
<1>1. CASE UNCHANGED W!vars
  BY <1>1 DEF W!vars, PageInv, PendingDisagree, W!TypeOK, W!BadgeIsLastConfirmed,
              W!Confirmations
<1>2. CASE W!Next
  BY <1>2, ReceiveKeeps, SendKeeps DEF W!Next
<1>3. QED
  BY <1>1, <1>2

\* What PageStep keeps is true throughout: the scans that are pending are those that
\* disagree with the badge.
THEOREM PageInvariance ==
    ASSUME W!Debounced
    PROVE  W!Spec => []PageInv
<1>1. W!Init => PageInv
  BY PageInit
<1>2. PageInv /\ [W!Next]_(W!vars) => PageInv'
  BY PageStep
<1>3. QED
  BY <1>1, <1>2, PTL DEF W!Spec

-------------------------------------------------------------------------------
(* PalmScan *)

LEMMA Division ==
    ASSUME NEW a \in Int, NEW d \in Nat \ {0}
    PROVE  a \div d \in Int /\ d * (a \div d) <= a /\ a < d * (a \div d) + d
OBVIOUS

LEMMA ProductOrder ==
    ASSUME NEW d \in Nat \ {0}, NEW x \in Int, NEW y \in Int, d * x < d * y
    PROVE  x < y
<1>1. x >= y => d * x >= d * y
  OBVIOUS
<1>2. d * x \in Int /\ d * y \in Int
  OBVIOUS
<1>3. QED
  BY <1>1, <1>2

\* Rounding down costs less than one.
LEMMA QuotientOfSum ==
    ASSUME NEW a \in Int, NEW b \in Int, NEW d \in Nat \ {0}
    PROVE  (a + b) \div d <= a \div d + b \div d + 1
<1> DEFINE q == (a + b) \div d
           qa == a \div d
           qb == b \div d
<1>1. q \in Int /\ d * q <= a + b
  BY Division
<1>2. qa \in Int /\ a < d * qa + d
  BY Division
<1>3. qb \in Int /\ b < d * qb + d
  BY Division
<1> HIDE DEF q, qa, qb
<1>4. d * q < d * (qa + qb + 2)
  <2>1. d * (qa + qb + 2) = d * qa + d * qb + d + d
    BY <1>2, <1>3
  <2>2. d * q \in Int /\ d * qa \in Int /\ d * qb \in Int
    BY <1>1, <1>2, <1>3
  <2>3. QED
    BY <1>1, <1>2, <1>3, <2>1, <2>2
<1>5. q < qa + qb + 2
  <2>1. qa + qb + 2 \in Int
    BY <1>2, <1>3
  <2>2. QED
    BY <1>1, <1>4, <2>1, ProductOrder
<1>6. q <= qa + qb + 1
  BY <1>1, <1>2, <1>3, <1>5
<1>7. QED
  BY <1>6 DEF q, qa, qb

LEMMA QuotientAtLeast ==
    ASSUME NEW a \in Int, NEW d \in Nat \ {0}, NEW x \in Int, d * x <= a
    PROVE  x <= a \div d
<1> DEFINE q == a \div d
<1>1. q \in Int /\ a < d * q + d
  BY Division
<1> HIDE DEF q
<1>2. d * x < d * (q + 1)
  <2>1. d * (q + 1) = d * q + d /\ d * q \in Int /\ d * x \in Int
    BY <1>1
  <2>2. QED
    BY <1>1, <2>1
<1>3. x < q + 1
  BY <1>1, <1>2, ProductOrder
<1>4. QED
  BY <1>1, <1>3 DEF q

LEMMA QuotientAtMost ==
    ASSUME NEW a \in Int, NEW d \in Nat \ {0}, NEW x \in Int, a <= d * x
    PROVE  a \div d <= x
<1> DEFINE q == a \div d
<1>1. q \in Int /\ d * q <= a
  BY Division
<1> HIDE DEF q
<1>2. d * q < d * (x + 1)
  <2>1. d * (x + 1) = d * x + d /\ d * q \in Int /\ d * x \in Int
    BY <1>1
  <2>2. QED
    BY <1>1, <2>1
<1>3. q < x + 1
  BY <1>1, <1>2, ProductOrder
<1>4. QED
  BY <1>1, <1>3 DEF q

\* Along one side, some tile with its pads holds a hand that is no longer than two pads,
\* and is as long as a padded tile may be: the last tile that begins no later than the
\* hand, since the next one begins two pads before the end of this one.
LEMMA SomeTileHolds ==
    ASSUME P!Scannable, grid \in Grids, NEW length \in Nat \ {0}, NEW size \in Nat \ {0},
           NEW from \in 0 .. length - size, size * 100 * grid <= 2 * Overlap * length
    PROVE  \E n \in 0 .. grid - 1 :
              /\ P!Tile(length, n)[1] <= from
              /\ from + size <= P!Tile(length, n)[2]
              /\ P!Length(P!Tile(length, n)) <= P!Padded(length)
<1> DEFINE d == 100 * grid
           Front(n) == length * (100 * n - Overlap)
           Back(n) == length * (100 * (n + 1) + Overlap)
           Early == {n \in 0 .. grid - 1 : Front(n) <= d * from}
           f == [n \in Early |-> grid - n]
<1>1. /\ grid \in Nat \ {0} /\ Overlap \in Nat /\ d \in Nat \ {0}
      /\ from \in Nat /\ from + size <= length
  BY DEF P!Scannable
<1>2. ASSUME NEW n \in Int
      PROVE  /\ Front(n) \in Int /\ Back(n) \in Int
             /\ Back(n) = Front(n) + length * (100 + 2 * Overlap)
             /\ Back(n) = Front(n + 1) + 2 * Overlap * length
             /\ Back(grid - 1) = d * length + Overlap * length
  BY <1>1
<1>3. 0 \in Early
  <2>1. Front(0) = 0 - length * Overlap /\ length * Overlap >= 0 /\ d * from >= 0
    BY <1>1
  <2>2. QED
    BY <1>1, <1>2, <2>1
<1>4. PICK n \in Early : \A m \in Early : n >= m
  <2>1. \A m \in Early : f[m] \in Nat
    BY <1>1
  <2>2. PICK n \in Early : \A m \in Early : f[n] <= f[m]
    <3> HIDE DEF f, Early
    <3>1. QED
      BY <1>3, <2>1, LeastOf
  <2>3. ASSUME NEW m \in Early PROVE n >= m
    <3>1. f[n] <= f[m] /\ f[n] = grid - n /\ f[m] = grid - m /\ n \in Int /\ m \in Int
      BY <2>2
    <3> HIDE DEF f, Early
    <3>2. QED
      BY <1>1, <3>1
  <2>4. QED
    BY <2>3
<1>5. n \in 0 .. grid - 1 /\ Front(n) <= d * from
  OBVIOUS
<1>6. d * (from + size) <= Back(n) /\ from + size <= length
  <2>1. CASE n = grid - 1
    <3>1. Back(n) = d * length + Overlap * length /\ Overlap * length >= 0
      BY <1>1, <1>2, <2>1
    <3>2. d * (from + size) <= d * length
      BY <1>1
    <3>3. d * length \in Int /\ d * (from + size) \in Int /\ Overlap * length \in Int
      BY <1>1
    <3>4. QED
      BY <1>1, <3>1, <3>2, <3>3
  <2>2. CASE n # grid - 1
    <3>1. n + 1 \in 0 .. grid - 1 /\ n + 1 \notin Early
      BY <1>1, <1>4, <2>2
    <3>2. Front(n + 1) > d * from
      BY <1>1, <1>2, <3>1
    <3>3. Back(n) = Front(n + 1) + 2 * Overlap * length /\ Front(n + 1) \in Int
      <4>1. n \in Int /\ n + 1 \in Int
        BY <1>5
      <4> HIDE DEF Front, Back
      <4>2. QED
        BY <1>2, <4>1
    <3>4. d * (from + size) = d * from + size * 100 * grid
      BY <1>1
    <3>5. d * from \in Int /\ size * 100 * grid \in Int /\ 2 * Overlap * length \in Int
      BY <1>1
    <3> HIDE DEF Front, Back, d
    <3>6. QED
      BY <1>1, <3>2, <3>3, <3>4, <3>5
  <2>3. QED
    BY <2>1, <2>2
<1> DEFINE from0 == P!Most(0, Front(n))
           pads == length * (100 + 2 * Overlap)
<1>7. Front(n) \in Int /\ Back(n) \in Int /\ pads \in Int /\ Back(n) = Front(n) + pads
  BY <1>1, <1>2
<1>8. P!Tile(length, n) = <<from0 \div d, P!Least(length, Back(n) \div d)>>
  BY DEF P!Tile
<1>9. P!Padded(length) = pads \div d + 1
  BY DEF P!Padded
<1> HIDE DEF Front, Back, d, pads
<1>10. from0 \in Int /\ from0 <= d * from /\ Front(n) <= from0
  <2>1. d * from >= 0 /\ d * from \in Int
    BY <1>1
  <2>2. QED
    BY <1>5, <1>7, <2>1 DEF P!Most
<1> HIDE DEF from0
<1>11. from0 \div d <= from
  BY <1>1, <1>10, QuotientAtMost
<1>12. from + size <= Back(n) \div d
  <2>1. from + size \in Int
    BY <1>1
  <2>2. QED
    BY <1>1, <1>6, <1>7, <2>1, QuotientAtLeast
<1>13. Back(n) \div d <= from0 \div d + pads \div d + 1
  <2>1. Back(n) \div d <= (from0 + pads) \div d
    <3>1. d * (Back(n) \div d) <= Back(n) /\ Back(n) \div d \in Int
      BY <1>1, <1>7, Division
    <3>2. d * (Back(n) \div d) \in Int
      BY <1>1, <3>1
    <3>3. d * (Back(n) \div d) <= from0 + pads /\ from0 + pads \in Int
      BY <1>7, <1>10, <3>1, <3>2
    <3>4. QED
      BY <1>1, <3>1, <3>3, QuotientAtLeast
  <2>2. (from0 + pads) \div d <= from0 \div d + pads \div d + 1
    BY <1>1, <1>7, <1>10, QuotientOfSum
  <2>3. /\ Back(n) \div d \in Int /\ from0 \div d \in Int /\ pads \div d \in Int
        /\ (from0 + pads) \div d \in Int
    <3>1. from0 + pads \in Int
      BY <1>7, <1>10
    <3>2. QED
      BY <1>1, <1>7, <1>10, <3>1, Division
  <2>4. QED
    BY <2>1, <2>2, <2>3
<1>14. Back(n) \div d \in Int /\ from0 \div d \in Int /\ pads \div d \in Int
  BY <1>1, <1>7, <1>10, Division
<1> DEFINE a == from0 \div d
           b == Back(n) \div d
           c == pads \div d
<1>15. /\ P!Tile(length, n)[1] = a
       /\ P!Tile(length, n)[2] = IF length < b THEN length ELSE b
       /\ P!Length(P!Tile(length, n)) = (IF length < b THEN length ELSE b) - a
  BY <1>8 DEF P!Least, P!Length
<1> HIDE DEF a, b, c
<1>16. /\ a <= from
       /\ from + size <= IF length < b THEN length ELSE b
       /\ (IF length < b THEN length ELSE b) - a <= c + 1
  BY <1>1, <1>6, <1>11, <1>12, <1>13, <1>14 DEF a, b, c
<1>17. P!Padded(length) = c + 1
  BY <1>9 DEF c
<1>18. QED
  BY <1>5, <1>15, <1>16, <1>17

\* Whatever fits the pads clears in some region.
LEMMA SomeRegionClears ==
    ASSUME P!Scannable, shape \in Shapes, grid \in Grids, hand \in P!Places(shape),
           P!Fits(shape[1]), P!Fits(shape[2])
    PROVE  \E k \in P!Regions : P!Clears(k)
<1>1. /\ grid \in Nat \ {0} /\ Reach \in Nat /\ Overlap \in Nat
      /\ shape[1] \in Nat \ {0} /\ shape[2] \in Nat \ {0}
  BY DEF P!Scannable
<1>2. PICK s \in Hands : hand \in [size : {s}, top : 0 .. shape[1] - s, left : 0 .. shape[2] - s]
  BY DEF P!Places
<1>3. /\ hand.size \in Nat \ {0} /\ hand.top \in 0 .. shape[1] - hand.size
      /\ hand.left \in 0 .. shape[2] - hand.size
  BY <1>2 DEF P!Scannable
<1>4. /\ hand.size * 100 * grid <= 2 * Overlap * shape[1]
      /\ hand.size * 100 * grid <= 2 * Overlap * shape[2]
      /\ P!Padded(shape[1]) <= Reach * hand.size
      /\ P!Padded(shape[2]) <= Reach * hand.size
  BY DEF P!Fits
<1>5. CASE grid = 1
  <2>1. ASSUME NEW side \in Nat \ {0} PROVE side <= P!Padded(side)
    <3>1. 100 * side <= side * (100 + 2 * Overlap) /\ side * (100 + 2 * Overlap) \in Int
      BY <1>1
    <3>2. side <= (side * (100 + 2 * Overlap)) \div 100
      BY <3>1, QuotientAtLeast
    <3>3. (side * (100 + 2 * Overlap)) \div 100 \in Int
      BY <3>1, Division
    <3>4. P!Padded(side) = (side * (100 + 2 * Overlap)) \div 100 + 1
      BY <1>5 DEF P!Padded
    <3>5. QED
      BY <3>2, <3>3, <3>4
  <2>2. ASSUME NEW side \in Nat \ {0} PROVE P!Padded(side) \in Int
    <3>1. side * (100 + 2 * Overlap) \in Int /\ 100 * grid \in Nat \ {0}
      BY <1>1
    <3>2. (side * (100 + 2 * Overlap)) \div (100 * grid) \in Int
      BY <3>1, Division
    <3>3. QED
      BY <3>2 DEF P!Padded
  <2>3. Reach * hand.size \in Int
    BY <1>1, <1>3
  <2>4. shape[1] <= Reach * hand.size /\ shape[2] <= Reach * hand.size
    BY <1>1, <1>4, <2>1, <2>2, <2>3
  <2>5. P!Region(0) = << <<0, shape[1]>>, <<0, shape[2]>> >>
    BY DEF P!Region
  <2>6. P!Clears(0)
    BY <1>1, <1>3, <2>4, <2>5 DEF P!Clears, P!Inside, P!Length, P!Most
  <2>7. 0 \in P!Regions
    BY <1>5 DEF P!Regions
  <2>8. QED
    BY <2>6, <2>7
<1>6. CASE grid # 1
  <2>1. PICK m \in 0 .. grid - 1 :
           /\ P!Tile(shape[1], m)[1] <= hand.top
           /\ hand.top + hand.size <= P!Tile(shape[1], m)[2]
           /\ P!Length(P!Tile(shape[1], m)) <= P!Padded(shape[1])
    BY <1>1, <1>3, <1>4, SomeTileHolds
  <2>2. PICK n \in 0 .. grid - 1 :
           /\ P!Tile(shape[2], n)[1] <= hand.left
           /\ hand.left + hand.size <= P!Tile(shape[2], n)[2]
           /\ P!Length(P!Tile(shape[2], n)) <= P!Padded(shape[2])
    BY <1>1, <1>3, <1>4, SomeTileHolds
  <2> DEFINE k == grid * m + n + 1
  <2>3. /\ k - 1 = grid * m + n /\ k # 0 /\ k \in 0 .. grid * grid
    <3>1. grid * m \in Nat /\ grid * m <= grid * (grid - 1) /\ grid * (grid - 1) = grid * grid - grid
      BY <1>1
    <3>2. grid * grid \in Int
      BY <1>1
    <3>3. QED
      BY <1>1, <3>1, <3>2
  <2>4. (k - 1) \div grid = m /\ (k - 1) % grid = n
    <3>1. grid * m + n \in Int /\ m \in Int /\ n \in Int /\ grid * m \in Int
      BY <1>1
    <3>2. (grid * m + n) \div grid >= m
      BY <1>1, <3>1, QuotientAtLeast
    <3>3. (grid * m + n) \div grid < m + 1
      <4>1. grid * ((grid * m + n) \div grid) <= grid * m + n /\ (grid * m + n) \div grid \in Int
        BY <1>1, <3>1, Division
      <4>2. grid * m + n < grid * (m + 1)
        BY <1>1
      <4>3. grid * ((grid * m + n) \div grid) < grid * (m + 1)
        <5>1. grid * ((grid * m + n) \div grid) \in Int /\ grid * (m + 1) \in Int
          BY <1>1, <4>1
        <5>2. QED
          BY <3>1, <4>1, <4>2, <5>1
      <4>4. QED
        BY <1>1, <3>1, <4>1, <4>3, ProductOrder
    <3>4. (grid * m + n) \div grid = m
      <4> DEFINE q == (grid * m + n) \div grid
      <4>1. q \in Int /\ q >= m /\ q < m + 1
        BY <1>1, <3>1, <3>2, <3>3, Division
      <4> HIDE DEF q
      <4>2. q = m
        BY <3>1, <4>1
      <4>3. QED
        BY <4>2 DEF q
    <3>5. (grid * m + n) % grid = (grid * m + n) - grid * ((grid * m + n) \div grid)
      BY <1>1, <3>1
    <3>6. (grid * m + n) % grid = n
      BY <3>1, <3>4, <3>5
    <3>7. QED
      BY <2>3, <3>4, <3>6
  <2> HIDE DEF k
  <2>5. P!Region(k) = << P!Tile(shape[1], m), P!Tile(shape[2], n) >>
    BY <2>3, <2>4 DEF P!Region
  <2> DEFINE a == P!Length(P!Tile(shape[1], m))
             b == P!Length(P!Tile(shape[2], n))
  <2>6. a <= P!Padded(shape[1]) /\ b <= P!Padded(shape[2])
    BY <2>1, <2>2
  <2>7. /\ a \in Int /\ b \in Int /\ Reach * hand.size \in Int
        /\ P!Padded(shape[1]) \in Int /\ P!Padded(shape[2]) \in Int
    <3>1. ASSUME NEW side \in Nat \ {0}, NEW t \in Int
          PROVE  P!Padded(side) \in Int /\ P!Length(P!Tile(side, t)) \in Int
      <4>1. /\ side * (100 + 2 * Overlap) \in Int /\ 100 * grid \in Nat \ {0}
            /\ side * (100 * t - Overlap) \in Int /\ side * (100 * (t + 1) + Overlap) \in Int
        BY <1>1
      <4>2. P!Most(0, side * (100 * t - Overlap)) \in Int
        BY <4>1 DEF P!Most
      <4>3. /\ (side * (100 + 2 * Overlap)) \div (100 * grid) \in Int
            /\ P!Most(0, side * (100 * t - Overlap)) \div (100 * grid) \in Int
            /\ (side * (100 * (t + 1) + Overlap)) \div (100 * grid) \in Int
        BY <4>1, <4>2, Division
      <4>4. P!Least(side, (side * (100 * (t + 1) + Overlap)) \div (100 * grid)) \in Int
        BY <4>3 DEF P!Least
      <4>5. P!Padded(side) = (side * (100 + 2 * Overlap)) \div (100 * grid) + 1
        BY DEF P!Padded
      <4>6. P!Length(P!Tile(side, t)) =
               P!Least(side, (side * (100 * (t + 1) + Overlap)) \div (100 * grid))
               - P!Most(0, side * (100 * t - Overlap)) \div (100 * grid)
        BY DEF P!Length, P!Tile
      <4>7. QED
        BY <4>3, <4>4, <4>5, <4>6
    <3>2. Reach * hand.size \in Int /\ m \in Int /\ n \in Int
      BY <1>1, <1>3
    <3>3. QED
      BY <1>1, <3>1, <3>2
  <2>8. P!Most(a, b) <= Reach * hand.size
    <3> HIDE DEF a, b
    <3>1. QED
      BY <1>4, <2>6, <2>7 DEF P!Most
  <2>9. P!Clears(k)
    BY <2>1, <2>2, <2>5, <2>8 DEF P!Clears, P!Inside
  <2>10. k \in P!Regions
    BY <1>6, <2>3 DEF P!Regions
  <2>11. QED
    BY <2>9, <2>10
<1>7. QED
  BY <1>5, <1>6

\* While nothing was found, every region up to the next was tried.
CropsInv ==
    /\ shape \in Shapes /\ grid \in Grids /\ hand \in P!Places(shape)
    /\ next \in Nat
    /\ best => done
    /\ ~best => \A k \in 0 .. next - 1 : ~P!Clears(k)
    /\ done /\ ~best => next \notin P!Regions

LEMMA CropsStep ==
    ASSUME CropsInv, [P!Next]_(P!vars)
    PROVE  CropsInv'
<1>1. CASE UNCHANGED P!vars
  BY <1>1 DEF P!vars, CropsInv, P!Places, P!Clears, P!Region, P!Regions, P!Tile, P!Inside,
              P!Length
<1>2. CASE P!Next
  <2>1. /\ ~done /\ best' = P!Clears(next) /\ next' = next + 1
        /\ done' = (best' \/ next' \notin P!Regions) /\ UNCHANGED <<shape, grid, hand>>
    BY <1>2 DEF P!Next, P!Score
  <2>2. \A k : P!Clears(k)' = P!Clears(k)
    BY <2>1 DEF P!Clears, P!Region, P!Tile, P!Inside, P!Length
  <2>3. P!Regions' = P!Regions /\ P!Places(shape)' = P!Places(shape)
    BY <2>1 DEF P!Regions, P!Places
  <2>4. next \in Nat /\ ~best
    BY <2>1 DEF CropsInv
  <2>5. \A k \in 0 .. next' - 1 : k \in 0 .. next - 1 \/ k = next
    BY <2>1, <2>4
  <2>6. ~best' => \A k \in 0 .. next' - 1 : ~P!Clears(k)'
    <3>1. ~best => \A k \in 0 .. next - 1 : ~P!Clears(k)
      BY DEF CropsInv
    <3>2. QED
      BY <2>1, <2>2, <2>4, <2>5, <3>1
  <2>7. next' \in Nat /\ (best' => done') /\ (done' /\ ~best' => next' \notin P!Regions')
    <3>1. next' \in Nat
      BY <2>1, <2>4
    <3>2. best' => done'
      BY <2>1, Zenon
    <3>3. done' /\ ~best' => next' \notin P!Regions
      BY <2>1, Zenon
    <3>4. QED
      BY <2>3, <3>1, <3>2, <3>3, Zenon
  <2>8. shape' \in Shapes /\ grid' \in Grids /\ hand' \in P!Places(shape)'
    BY <2>1, <2>3 DEF CropsInv
  <2>9. QED
    BY <2>6, <2>7, <2>8 DEF CropsInv
<1>3. QED
  BY <1>1, <1>2

\* What CropsStep keeps is true throughout: what was not found was looked for everywhere.
THEOREM CropsInvariance == P!Spec => []CropsInv
<1>1. P!Init => CropsInv
  BY DEF P!Init, CropsInv
<1>2. CropsInv /\ [P!Next]_(P!vars) => CropsInv'
  BY CropsStep
<1>3. QED
  BY <1>1, <1>2, PTL DEF P!Spec

LEMMA CropsInvImplies ==
    ASSUME P!Scannable, CropsInv
    PROVE  P!HandIsSeen
<1> SUFFICES ASSUME done, P!Fits(shape[1]), P!Fits(shape[2]), ~best
             PROVE  FALSE
  BY DEF P!HandIsSeen
<1>1. PICK k \in P!Regions : P!Clears(k)
  BY SomeRegionClears DEF CropsInv
<1>2. next \in Nat /\ next \notin P!Regions /\ k \notin 0 .. next - 1
  BY <1>1 DEF CropsInv
<1>3. grid \in Nat /\ grid * grid \in Int
  BY DEF CropsInv, P!Scannable
<1>4. CASE grid = 1
  BY <1>1, <1>2, <1>4 DEF P!Regions
<1>5. CASE grid # 1
  <2>1. k \in 0 .. grid * grid /\ next \notin 0 .. grid * grid
    BY <1>1, <1>2, <1>5 DEF P!Regions
  <2>2. QED
    BY <1>2, <1>3, <2>1
<1>6. QED
  BY <1>4, <1>5

-------------------------------------------------------------------------------
(* FaceIndex *)

\* Who shares a value with few is one of few, if there are few values.
LEMMA FibreBound ==
    ASSUME NEW D, D \subseteq Nat, IsFiniteSet(D), NEW V, IsFiniteSet(V), NEW f \in [D -> V],
           NEW n \in Nat, \A v \in V : Cardinality({i \in D : f[i] = v}) <= n
    PROVE  Cardinality(D) <= Cardinality(V) * n
<1> DEFINE Fibre(v) == {i \in D : f[i] = v}
           Before(i) == {j \in D : f[j] = f[i] /\ j < i}
           rank == [i \in D |-> Cardinality(Before(i))]
           cell == [i \in D |-> <<f[i], rank[i]>>]
           Cells == V \X (0 .. n - 1)
<1>1. ASSUME NEW v \in V
      PROVE  IsFiniteSet(Fibre(v)) /\ Cardinality(Fibre(v)) \in Nat /\ Cardinality(Fibre(v)) <= n
  BY FS_Subset, FS_CardinalityType
<1>2. ASSUME NEW i \in D
      PROVE  IsFiniteSet(Before(i)) /\ rank[i] \in 0 .. n - 1
  <2>1. Before(i) \subseteq Fibre(f[i]) /\ i \in Fibre(f[i]) /\ i \notin Before(i) /\ f[i] \in V
    <3>1. i \in Nat /\ ~(i < i)
      OBVIOUS
    <3>2. QED
      BY <3>1, Zenon
  <2>2. /\ IsFiniteSet(Before(i)) /\ Cardinality(Before(i)) <= Cardinality(Fibre(f[i]))
        /\ Cardinality(Before(i)) # Cardinality(Fibre(f[i]))
    <3> HIDE DEF Fibre, Before
    <3>1. QED
      BY <1>1, <2>1, FS_Subset
  <2>3. Cardinality(Before(i)) \in Nat
    BY <2>2, FS_CardinalityType
  <2>4. rank[i] = Cardinality(Before(i))
    OBVIOUS
  <2> HIDE DEF rank, Before, Fibre
  <2>5. QED
    BY <1>1, <2>1, <2>2, <2>3, <2>4
<1>3. ASSUME NEW i \in D, NEW j \in D, f[i] = f[j], i < j
      PROVE  rank[i] # rank[j]
  <2>1. Before(i) \subseteq Before(j)
    <3>1. \A k \in D : k < i => k < j
      BY <1>3
    <3>2. QED
      BY <1>3, <3>1, Zenon
  <2>2. i \in Before(j) /\ i \notin Before(i)
    BY <1>3
  <2>3. Cardinality(Before(i)) # Cardinality(Before(j))
    <3> HIDE DEF Before
    <3>1. QED
      BY <1>2, <2>1, <2>2, FS_Subset
  <2>4. QED
    BY <2>3
<1>4. cell \in Injection(D, Cells)
  <2>1. cell \in [D -> Cells]
    <3> HIDE DEF rank
    <3>1. QED
      BY <1>2
  <2>2. ASSUME NEW i \in D, NEW j \in D, cell[i] = cell[j]
        PROVE  i = j
    <3>1. f[i] = f[j] /\ rank[i] = rank[j]
      <4> HIDE DEF rank
      <4>1. QED
        BY <2>2
    <3>2. ~(i < j) /\ ~(j < i)
      BY <1>3, <3>1
    <3>3. QED
      BY <3>2
  <2> HIDE DEF cell, Cells
  <2>3. QED
    BY <2>1, <2>2, Fun_IsInj
<1>5. IsFiniteSet(Cells) /\ Cardinality(Cells) = Cardinality(V) * n
  <2>1. IsFiniteSet(0 .. n - 1) /\ Cardinality(0 .. n - 1) = n
    BY FS_Interval
  <2>2. QED
    BY <2>1, FS_Product
<1>6. QED
  BY <1>4, <1>5, FS_Injection

\* A gallery: rows of employees.
Gallery(g) == g \in Seq([code : N!CodesOf(g) \ {N!Nobody}, score : Int])

LEMMA GalleryRows ==
    ASSUME NEW g, Gallery(g)
    PROVE  /\ Len(g) \in Nat /\ DOMAIN g = 1 .. Len(g)
           /\ IsFiniteSet(DOMAIN g) /\ Cardinality(DOMAIN g) = Len(g)
           /\ \A i \in DOMAIN g : /\ g[i].score \in Int
                                  /\ g[i].code \in N!CodesOf(g) /\ g[i].code # N!Nobody
           /\ IsFiniteSet(N!CodesOf(g)) /\ Cardinality(N!CodesOf(g)) \in Nat
           /\ \A c \in N!CodesOf(g) : \E i \in DOMAIN g : g[i].code = c
<1> DEFINE Row == [code : N!CodesOf(g) \ {N!Nobody}, score : Int]
<1>1. g \in Seq(Row)
  BY DEF Gallery
<1> HIDE DEF Row
<1>2. Len(g) \in Nat /\ DOMAIN g = 1 .. Len(g) /\ \A i \in DOMAIN g : g[i] \in Row
  BY <1>1, LenProperties, ElementOfSeq
<1>3. IsFiniteSet(DOMAIN g) /\ Cardinality(DOMAIN g) = Len(g)
  BY <1>2, FS_Interval
<1>4. \A i \in DOMAIN g : /\ g[i].score \in Int
                          /\ g[i].code \in N!CodesOf(g) /\ g[i].code # N!Nobody
  BY <1>2 DEF Row
<1>5. \A c \in N!CodesOf(g) : \E i \in DOMAIN g : g[i].code = c
  BY DEF N!CodesOf
<1>6. IsFiniteSet(N!CodesOf(g))
  <2> DEFINE f == [i \in DOMAIN g |-> g[i].code]
  <2>1. f \in [DOMAIN g -> N!CodesOf(g)] /\ \A c \in N!CodesOf(g) : \E i \in DOMAIN g : f[i] = c
    BY <1>4, <1>5
  <2> HIDE DEF f
  <2>2. f \in Surjection(DOMAIN g, N!CodesOf(g))
    BY <2>1, Fun_IsSurj
  <2>3. QED
    BY <1>3, <2>2, FS_Surjection
<1>7. QED
  BY <1>2, <1>3, <1>4, <1>5, <1>6, FS_CardinalityType

\* The rows before a row in the order of the search.
Ahead(g, i) == {j \in DOMAIN g : N!Nearer(g, j, i)}

LEMMA NearerOrders ==
    ASSUME NEW g, Gallery(g), NEW i \in DOMAIN g, NEW j \in DOMAIN g
    PROVE  /\ ~N!Nearer(g, i, i)
           /\ i # j => N!Nearer(g, i, j) \/ N!Nearer(g, j, i)
           /\ N!Nearer(g, i, j) => g[i].score >= g[j].score
           /\ N!Nearer(g, i, j) => Ahead(g, i) \subseteq Ahead(g, j)
           /\ IsFiniteSet(Ahead(g, i)) /\ Cardinality(Ahead(g, i)) \in Nat
           /\ N!Nearer(g, i, j) => Cardinality(Ahead(g, i)) < Cardinality(Ahead(g, j))
<1>1. Len(g) \in Nat /\ DOMAIN g = 1 .. Len(g) /\ \A k \in DOMAIN g : g[k].score \in Int
  BY GalleryRows
<1>2. i \in Int /\ j \in Int /\ g[i].score \in Int /\ g[j].score \in Int
  BY <1>1
<1>3. /\ ~N!Nearer(g, i, i)
      /\ i # j => N!Nearer(g, i, j) \/ N!Nearer(g, j, i)
      /\ N!Nearer(g, i, j) => g[i].score >= g[j].score
  BY <1>2 DEF N!Nearer
<1>4. ASSUME NEW k \in DOMAIN g, N!Nearer(g, k, i), N!Nearer(g, i, j)
      PROVE  N!Nearer(g, k, j)
  <2>1. k \in Int /\ g[k].score \in Int
    BY <1>1
  <2>2. QED
    BY <1>2, <1>4, <2>1 DEF N!Nearer
<1>5. N!Nearer(g, i, j) => Ahead(g, i) \subseteq Ahead(g, j)
  BY <1>4 DEF Ahead
<1>6. \A k \in DOMAIN g : IsFiniteSet(Ahead(g, k)) /\ Cardinality(Ahead(g, k)) \in Nat
  <2>1. IsFiniteSet(DOMAIN g) /\ \A k \in DOMAIN g : Ahead(g, k) \subseteq DOMAIN g
    BY GalleryRows DEF Ahead
  <2>2. QED
    BY <2>1, FS_Subset, FS_CardinalityType
<1>7. N!Nearer(g, i, j) => Cardinality(Ahead(g, i)) < Cardinality(Ahead(g, j))
  <2> SUFFICES ASSUME N!Nearer(g, i, j)
               PROVE  Cardinality(Ahead(g, i)) < Cardinality(Ahead(g, j))
    OBVIOUS
  <2>1. i \in Ahead(g, j) /\ i \notin Ahead(g, i)
    BY <1>3 DEF Ahead
  <2>2. /\ Cardinality(Ahead(g, i)) <= Cardinality(Ahead(g, j))
        /\ Cardinality(Ahead(g, i)) # Cardinality(Ahead(g, j))
    BY <1>5, <1>6, <2>1, FS_Subset
  <2>3. QED
    BY <1>6, <2>2
<1>8. QED
  BY <1>3, <1>5, <1>6, <1>7

\* The nearest rows are as many as were asked for, if there are so many, and no row that
\* is nearer than one of them is left out.
LEMMA NearestIsPrefix ==
    ASSUME NEW g, Gallery(g), NEW n \in Nat
    PROVE  /\ N!Nearest(g, n) \subseteq DOMAIN g
           /\ \A i \in N!Nearest(g, n), j \in DOMAIN g :
                 N!Nearer(g, j, i) => j \in N!Nearest(g, n)
           /\ n >= Len(g) => N!Nearest(g, n) = DOMAIN g
           /\ n <= Len(g) => Cardinality(N!Nearest(g, n)) >= n
<1> DEFINE near == N!Nearest(g, n)
           f == [i \in DOMAIN g |-> Cardinality(Ahead(g, i))]
<1>1. near = {i \in DOMAIN g : Cardinality(Ahead(g, i)) < n}
  BY NamingSame DEF N!Nearest, Ahead
<1>2. /\ Len(g) \in Nat /\ DOMAIN g = 1 .. Len(g)
      /\ IsFiniteSet(DOMAIN g) /\ Cardinality(DOMAIN g) = Len(g)
  BY GalleryRows
<1> HIDE DEF near
<1>3. near \subseteq DOMAIN g /\ IsFiniteSet(near) /\ Cardinality(near) \in Nat
  BY <1>1, <1>2, FS_Subset, FS_CardinalityType
<1>4. ASSUME NEW i \in near, NEW j \in DOMAIN g, N!Nearer(g, j, i)
      PROVE  j \in near
  <2>1. /\ Cardinality(Ahead(g, j)) < Cardinality(Ahead(g, i))
        /\ Cardinality(Ahead(g, j)) \in Nat /\ Cardinality(Ahead(g, i)) \in Nat
    BY <1>3, <1>4, NearerOrders
  <2>2. QED
    BY <1>1, <2>1
<1>5. ASSUME n >= Len(g)
      PROVE  near = DOMAIN g
  <2>1. ASSUME NEW i \in DOMAIN g PROVE Cardinality(Ahead(g, i)) < n
    <3>1. Ahead(g, i) \subseteq DOMAIN g /\ i \notin Ahead(g, i)
      BY NearerOrders DEF Ahead
    <3>2. Cardinality(Ahead(g, i)) <= Len(g) /\ Cardinality(Ahead(g, i)) # Len(g)
      BY <1>2, <3>1, FS_Subset
    <3>3. Cardinality(Ahead(g, i)) \in Nat
      BY NearerOrders
    <3>4. QED
      BY <1>2, <1>5, <3>2, <3>3
  <2>2. QED
    BY <1>1, <2>1
<1>6. ASSUME n <= Len(g)
      PROVE  Cardinality(near) >= n
  <2>1. CASE near = DOMAIN g
    BY <1>2, <1>6, <2>1
  <2>2. CASE near # DOMAIN g
    <3>1. DOMAIN g \ near # {}
      BY <1>3, <2>2
    <3>2. \A i \in DOMAIN g \ near : f[i] \in Nat
      BY NearerOrders
    <3>3. PICK m \in DOMAIN g \ near : \A i \in DOMAIN g \ near : f[m] <= f[i]
      <4> HIDE DEF f
      <4>1. QED
        BY <3>1, <3>2, LeastOf
    <3>4. ASSUME NEW j \in Ahead(g, m) PROVE j \in near
      <4>1. j \in DOMAIN g /\ N!Nearer(g, j, m)
        BY DEF Ahead
      <4>2. f[j] < f[m] /\ f[j] \in Nat /\ f[m] \in Nat
        BY <4>1, NearerOrders
      <4> HIDE DEF f
      <4>3. QED
        BY <3>3, <4>1, <4>2
    <3>5. Cardinality(Ahead(g, m)) <= Cardinality(near)
      BY <1>3, <3>4, FS_Subset
    <3>6. Cardinality(Ahead(g, m)) >= n /\ Cardinality(Ahead(g, m)) \in Nat
      BY <1>1, NearerOrders
    <3>7. QED
      BY <1>3, <3>5, <3>6
  <2>3. QED
    BY <2>1, <2>2
<1>7. QED
  BY <1>3, <1>4, <1>5, <1>6 DEF near

\* The best score of an employee is that of a row, and no row of that employee has more.
LEMMA BestIsARow ==
    ASSUME NEW g, Gallery(g), NEW pool, pool \subseteq DOMAIN g, NEW k \in pool
    PROVE  LET c == g[k].code
           IN  /\ N!BestOf(g, pool, c) \in Int
               /\ \E i \in pool : g[i].code = c /\ g[i].score = N!BestOf(g, pool, c)
               /\ \A i \in pool : g[i].code = c => g[i].score <= N!BestOf(g, pool, c)
<1> DEFINE c == g[k].code
           mine == {j \in pool : g[j].code = c}
           S == {g[i].score : i \in mine}
           f == [i \in mine |-> g[i].score]
<1>1. IsFiniteSet(mine) /\ mine \subseteq DOMAIN g
  BY GalleryRows, FS_Subset
<1>2. \A i \in mine : g[i].score \in Int
  BY <1>1, GalleryRows
<1>3. S \subseteq Int /\ S # {}
  BY <1>2
<1>4. IsFiniteSet(S)
  <2>1. f \in [mine -> S] /\ \A s \in S : \E i \in mine : f[i] = s
    OBVIOUS
  <2> HIDE DEF f, S, mine
  <2>2. f \in Surjection(mine, S)
    BY <2>1, Fun_IsSurj
  <2>3. QED
    BY <1>1, <2>2, FS_Surjection
<1>5. Max(S) \in S /\ \A s \in S : Max(S) >= s
  <2> HIDE DEF S
  <2>1. QED
    BY <1>3, <1>4, FiniteMax
<1>6. N!BestOf(g, pool, c) = Max(S)
  BY NamingSame DEF N!BestOf
<1> DEFINE m == Max(S)
<1>7. m \in S /\ m \in Int /\ \A s \in S : s <= m
  <2>1. m \in Int
    BY <1>3, <1>5
  <2>2. \A s \in S : s <= m
    BY <1>3, <1>5, <2>1
  <2>3. QED
    BY <1>5, <2>1, <2>2
<1> HIDE DEF m
<1>8. /\ m \in Int
      /\ \E i \in pool : g[i].code = c /\ g[i].score = m
      /\ \A i \in pool : g[i].code = c => g[i].score <= m
  BY <1>7
<1>9. QED
  BY <1>6, <1>8 DEF m

\* A pool of the nearest has the best of whoever is in it, and nobody outside is nearer.
LEMMA PoolHasBest ==
    ASSUME NEW g, Gallery(g), NEW pool, pool \subseteq DOMAIN g, NEW k \in pool,
           \A i \in pool, j \in DOMAIN g : N!Nearer(g, j, i) => j \in pool
    PROVE  /\ N!BestOf(g, pool, g[k].code) = N!BestOf(g, DOMAIN g, g[k].code)
           /\ \A j \in DOMAIN g \ pool : g[j].score <= N!BestOf(g, pool, g[k].code)
<1> DEFINE c == g[k].code
           b == N!BestOf(g, pool, c)
           top == N!BestOf(g, DOMAIN g, c)
<1>1. \A i \in DOMAIN g : g[i].score \in Int
  BY GalleryRows
<1>2. /\ b \in Int
      /\ \E i \in pool : g[i].code = c /\ g[i].score = b
      /\ \A i \in pool : g[i].code = c => g[i].score <= b
  BY BestIsARow
<1>3. /\ top \in Int
      /\ \E i \in DOMAIN g : g[i].code = c /\ g[i].score = top
      /\ \A i \in DOMAIN g : g[i].code = c => g[i].score <= top
  BY BestIsARow
<1> HIDE DEF c, b, top
<1>4. PICK i \in pool : g[i].code = c /\ g[i].score = b
  BY <1>2
<1>5. ASSUME NEW j \in DOMAIN g \ pool
      PROVE  g[j].score <= b
  <2>1. ~N!Nearer(g, j, i) /\ i # j /\ i \in DOMAIN g /\ j \in DOMAIN g
    BY <1>4
  <2>2. N!Nearer(g, i, j)
    BY <2>1, NearerOrders
  <2>3. g[i].score >= g[j].score
    BY <2>1, <2>2, NearerOrders
  <2>4. QED
    BY <1>1, <1>4, <2>1, <2>3
<1>6. b <= top
  BY <1>3, <1>4
<1>7. top <= b
  <2>1. PICK j \in DOMAIN g : g[j].code = c /\ g[j].score = top
    BY <1>3
  <2>2. QED
    BY <1>2, <1>5, <2>1
<1>8. b = top
  BY <1>2, <1>3, <1>6, <1>7
<1>9. QED
  BY <1>5, <1>8 DEF c, b, top

CodesIn(g, pool) == {g[i].code : i \in pool}

\* The pool has room for K employees: no employee has more rows than MostRows.
LEMMA PoolHasK ==
    ASSUME N!Searchable, NEW g, Gallery(g), g # <<>>
    PROVE  LET pool == N!Nearest(g, N!PoolSize(g))
           IN  /\ pool \subseteq DOMAIN g
               /\ \A i \in pool, j \in DOMAIN g : N!Nearer(g, j, i) => j \in pool
               /\ IsFiniteSet(CodesIn(g, pool)) /\ CodesIn(g, pool) \subseteq N!CodesOf(g)
               /\ CodesIn(g, pool) = N!CodesOf(g) \/ Cardinality(CodesIn(g, pool)) >= K
<1> DEFINE size == N!PoolSize(g)
           pool == N!Nearest(g, size)
           codes == CodesIn(g, pool)
           most == N!MostRows(g)
           Count == {Cardinality(N!RowsOf(g, c)) : c \in N!CodesOf(g)}
<1>1. /\ Len(g) \in Nat /\ DOMAIN g = 1 .. Len(g) /\ IsFiniteSet(DOMAIN g)
      /\ \A i \in DOMAIN g : g[i].code \in N!CodesOf(g)
      /\ IsFiniteSet(N!CodesOf(g)) /\ \A c \in N!CodesOf(g) : \E i \in DOMAIN g : g[i].code = c
  BY GalleryRows
<1>2. K \in Nat /\ K >= 2
  BY DEF N!Searchable
<1>3. Len(g) >= 1
  BY <1>1, EmptySeq DEF Gallery
<1>4. \A c \in N!CodesOf(g) :
         IsFiniteSet(N!RowsOf(g, c)) /\ Cardinality(N!RowsOf(g, c)) \in Nat
  BY <1>1, FS_Subset, FS_CardinalityType DEF N!RowsOf
<1>5. /\ most \in Nat
      /\ \A c \in N!CodesOf(g) : Cardinality(N!RowsOf(g, c)) <= most
  <2> DEFINE f == [c \in N!CodesOf(g) |-> Cardinality(N!RowsOf(g, c))]
  <2>1. f \in [N!CodesOf(g) -> Count] /\ \A n \in Count : \E c \in N!CodesOf(g) : f[c] = n
    OBVIOUS
  <2>2. Count \subseteq Nat
    BY <1>4
  <2>3. Count # {}
    BY <1>1, <1>3
  <2>4. IsFiniteSet(Count)
    <3> HIDE DEF f, Count
    <3>1. f \in Surjection(N!CodesOf(g), Count)
      BY <2>1, Fun_IsSurj
    <3>2. QED
      BY <1>1, <3>1, FS_Surjection
  <2>5. most = Max(Count)
    BY NamingSame DEF N!MostRows
  <2>6. \A c \in N!CodesOf(g) : Cardinality(N!RowsOf(g, c)) \in Count
    OBVIOUS
  <2> HIDE DEF Count, most
  <2>7. Count \subseteq Int
    BY <2>2
  <2>8. Max(Count) \in Count /\ \A n \in Count : Max(Count) >= n
    BY <2>3, <2>4, <2>7, FiniteMax
  <2>9. \A n \in Count : n \in Nat /\ n <= most
    BY <2>2, <2>5, <2>8
  <2>10. QED
    BY <2>2, <2>5, <2>6, <2>8, <2>9
<1> HIDE DEF most
<1> DEFINE tens == K * 10
           room == K * most * 2
           wide == IF tens >= room THEN tens ELSE room
<1>6. tens \in Nat /\ room \in Nat /\ K * most \in Nat /\ room >= K * most
  BY <1>2, <1>5
<1>7. size = IF Len(g) <= wide THEN Len(g) ELSE wide
  <2>1. Max({tens, room}) = wide
    BY <1>6, MaxOfTwo
  <2>2. wide \in Nat
    BY <1>6
  <2>3. size = Min({Len(g), Max({tens, room})})
    BY NamingSame DEF N!PoolSize, most
  <2> HIDE DEF wide, tens, room, size
  <2>4. Len(g) \in Int /\ wide \in Int
    BY <1>1, <2>2
  <2>5. Min({Len(g), wide}) = IF Len(g) <= wide THEN Len(g) ELSE wide
    BY <2>4, MinOfTwo
  <2>6. QED
    BY <2>1, <2>3, <2>5
<1>8. size \in Nat /\ size <= Len(g) /\ (size = Len(g) \/ size >= room)
  <2>1. tens \in Nat /\ room \in Nat /\ Len(g) \in Nat
    BY <1>1, <1>6
  <2> HIDE DEF tens, room, size
  <2>2. wide \in Nat /\ wide >= room
    BY <2>1
  <2> HIDE DEF wide
  <2>3. QED
    BY <1>7, <2>1, <2>2
<1> HIDE DEF size
<1>9. /\ pool \subseteq DOMAIN g
      /\ \A i \in pool, j \in DOMAIN g : N!Nearer(g, j, i) => j \in pool
      /\ size >= Len(g) => pool = DOMAIN g
      /\ Cardinality(pool) >= size
  BY <1>8, NearestIsPrefix
<1> HIDE DEF pool
<1>10. codes \subseteq N!CodesOf(g) /\ IsFiniteSet(codes) /\ Cardinality(codes) \in Nat
  BY <1>1, <1>9, FS_Subset, FS_CardinalityType DEF CodesIn
<1>11. CASE size = Len(g)
  <2>1. pool = DOMAIN g
    BY <1>1, <1>9, <1>11
  <2>2. codes = N!CodesOf(g)
    BY <2>1 DEF CodesIn, N!CodesOf
  <2>3. QED
    BY <1>9, <1>10, <2>2 DEF pool, size
<1>12. CASE size >= room
  <2>1. pool \subseteq Nat /\ IsFiniteSet(pool) /\ Cardinality(pool) \in Nat
    BY <1>1, <1>9, FS_Subset, FS_CardinalityType
  <2> DEFINE f == [i \in pool |-> g[i].code]
  <2>2. ASSUME NEW c \in codes
        PROVE  Cardinality({i \in pool : f[i] = c}) <= most
    <3>1. {i \in pool : f[i] = c} \subseteq N!RowsOf(g, c)
      BY <1>9 DEF N!RowsOf
    <3>2. c \in N!CodesOf(g)
      BY <1>10
    <3> HIDE DEF f
    <3>3. Cardinality({i \in pool : f[i] = c}) <= Cardinality(N!RowsOf(g, c))
      BY <1>4, <3>1, <3>2, FS_Subset
    <3>4. IsFiniteSet({i \in pool : f[i] = c})
      BY <2>1, FS_Subset
    <3>5. Cardinality({i \in pool : f[i] = c}) \in Nat
      BY <3>4, FS_CardinalityType
    <3>6. Cardinality(N!RowsOf(g, c)) <= most /\ Cardinality(N!RowsOf(g, c)) \in Nat
      BY <1>4, <1>5, <3>2
    <3> DEFINE few == Cardinality({i \in pool : f[i] = c})
    <3>7. few \in Nat /\ few <= Cardinality(N!RowsOf(g, c))
      BY <3>3, <3>5
    <3> HIDE DEF few
    <3>8. few <= most
      BY <1>5, <3>6, <3>7
    <3>9. QED
      BY <3>8 DEF few
  <2>3. f \in [pool -> codes]
    BY DEF CodesIn
  <2> HIDE DEF f, codes
  <2>4. Cardinality(pool) <= Cardinality(codes) * most
    BY <1>5, <1>10, <2>1, <2>2, <2>3, FibreBound
  <2>5. Cardinality(codes) >= K
    <3> DEFINE n == Cardinality(codes)
               p == Cardinality(pool)
    <3>1. n \in Nat /\ p \in Nat /\ p <= n * most /\ p >= K * most * 2
      BY <1>6, <1>8, <1>9, <1>12, <1>10, <2>1, <2>4 DEF codes
    <3>2. most >= 1
      <4>1. 1 \in DOMAIN g
        BY <1>1, <1>3
      <4>2. g[1].code \in N!CodesOf(g) /\ 1 \in N!RowsOf(g, g[1].code)
        BY <1>1, <4>1 DEF N!RowsOf
      <4>3. Cardinality(N!RowsOf(g, g[1].code)) # 0
        BY <1>4, <4>2, FS_EmptySet
      <4>4. QED
        BY <1>4, <1>5, <4>2, <4>3
    <3> HIDE DEF n, p
    <3>3. ASSUME n < K PROVE FALSE
      <4>1. n * most <= K * most
        BY <1>2, <1>5, <3>1, <3>3
      <4>2. K * most >= 1
        BY <1>2, <1>5, <3>2
      <4>3. n * most \in Nat /\ K * most \in Nat /\ K * most * 2 = K * most + K * most
        BY <1>2, <1>5, <3>1
      <4>4. QED
        BY <3>1, <4>1, <4>2, <4>3
    <3>4. n >= K
      BY <1>2, <3>1, <3>3
    <3>5. QED
      BY <3>4 DEF n
  <2>6. QED
    BY <1>9, <1>10, <2>5 DEF pool, size, codes
<1>13. QED
  BY <1>8, <1>11, <1>12

\* What the search went through.
Pooled(g) == IF g = <<>> THEN {} ELSE N!Nearest(g, N!PoolSize(g))

GoodPool(g, pool) ==
    /\ pool \subseteq DOMAIN g
    /\ \A i \in pool, j \in DOMAIN g : N!Nearer(g, j, i) => j \in pool
    /\ IsFiniteSet(CodesIn(g, pool)) /\ CodesIn(g, pool) \subseteq N!CodesOf(g)
    /\ CodesIn(g, pool) = N!CodesOf(g) \/ Cardinality(CodesIn(g, pool)) >= K

LEMMA PoolIsGood ==
    ASSUME N!Searchable, NEW g, Gallery(g)
    PROVE  GoodPool(g, Pooled(g))
<1>1. CASE g = <<>>
  <2>1. DOMAIN g = {}
    BY <1>1
  <2>2. Pooled(g) = {} /\ CodesIn(g, {}) = {} /\ N!CodesOf(g) = {}
    BY <1>1, <2>1 DEF Pooled, CodesIn, N!CodesOf
  <2>3. QED
    BY <2>1, <2>2, FS_EmptySet DEF GoodPool
<1>2. CASE g # <<>>
  BY <1>2, PoolHasK DEF GoodPool, Pooled
<1>3. QED
  BY <1>1, <1>2

\* A sorted set of results is a sequence of them with nobody missing.
LEMMA SortedHasAll ==
    ASSUME NEW results, IsFiniteSet(results), NEW order \in N!Sorted(results)
    PROVE  /\ Len(order) = Cardinality(results) /\ Len(order) \in Nat
           /\ DOMAIN order = 1 .. Len(order)
           /\ \A n \in 1 .. Len(order) : order[n] \in results
           /\ \A r \in results : \E n \in 1 .. Len(order) : order[n] = r
           /\ \A m, n \in 1 .. Len(order) :
                 m < n => order[m] # order[n] /\ order[m].score >= order[n].score
<1> DEFINE size == Cardinality(results)
<1>1. size \in Nat
  BY FS_CardinalityType
<1>2. order \in [1 .. size -> results]
  BY NamingSame DEF N!Sorted
<1>3. \A m, n \in DOMAIN order :
         m < n => order[m] # order[n] /\ order[m].score >= order[n].score
  BY DEF N!Sorted
<1> HIDE DEF size
<1>4. Len(order) = size /\ DOMAIN order = 1 .. size
  BY <1>1, <1>2, LenProperties DEF Seq
<1>5. ASSUME NEW m \in 1 .. size, NEW n \in 1 .. size, order[m] = order[n]
      PROVE  m = n
  <2>1. ~(m < n) /\ ~(n < m)
    BY <1>3, <1>4, <1>5
  <2>2. QED
    BY <1>1, <2>1
<1>6. order \in Injection(1 .. size, results)
  BY <1>2, <1>5, Fun_IsInj
<1>7. Cardinality(1 .. size) = size
  BY <1>1, FS_Interval
<1>8. order \in Surjection(1 .. size, results)
  BY <1>6, <1>7, FS_Injection DEF size
<1>9. \A r \in results : \E n \in 1 .. size : order[n] = r
  BY <1>8 DEF Surjection
<1>10. QED
  BY <1>1, <1>2, <1>3, <1>4, <1>9 DEF size

\* What AnswerIsTopK says, with what it rests on: the answer is of different employees,
\* the best first.
TopK(g, top) ==
    /\ Len(top) = Min({K, Cardinality(N!CodesOf(g))})
    /\ Len(top) \in Nat /\ Len(top) <= K /\ DOMAIN top = 1 .. Len(top)
    /\ \A n \in 1 .. Len(top) :
          /\ top[n].code \in N!CodesOf(g)
          /\ top[n].score = N!BestOf(g, DOMAIN g, top[n].code)
    /\ \A m, n \in 1 .. Len(top) :
          m < n => top[m].code # top[n].code /\ top[m].score >= top[n].score
    /\ \A c \in N!CodesOf(g) \ {top[n].code : n \in 1 .. Len(top)} :
          \A n \in 1 .. Len(top) : top[n].score >= N!BestOf(g, DOMAIN g, c)

LEMMA GroupIsTopK ==
    ASSUME N!Searchable, NEW g, Gallery(g), NEW pool, GoodPool(g, pool),
           NEW order \in N!Sorted(N!BestPerEmployee(g, pool))
    PROVE  TopK(g, SubSeq(order, 1, Min({K, Len(order)})))
<1> DEFINE results == N!BestPerEmployee(g, pool)
           codes == CodesIn(g, pool)
           bestOf(c) == N!BestOf(g, DOMAIN g, c)
           size == Len(order)
           short == Min({K, size})
           top == SubSeq(order, 1, short)
<1>1. K \in Nat /\ K >= 2
  BY DEF N!Searchable
<1>2. /\ IsFiniteSet(codes) /\ Cardinality(codes) \in Nat /\ codes \subseteq N!CodesOf(g)
      /\ IsFiniteSet(N!CodesOf(g)) /\ Cardinality(N!CodesOf(g)) \in Nat
      /\ Cardinality(codes) <= Cardinality(N!CodesOf(g))
      /\ codes = N!CodesOf(g) \/ Cardinality(codes) >= K
  BY GalleryRows, FS_Subset, FS_CardinalityType DEF GoodPool
<1>3. ASSUME NEW c \in codes
      PROVE  /\ N!BestOf(g, pool, c) = bestOf(c) /\ bestOf(c) \in Int
             /\ \A j \in DOMAIN g \ pool : g[j].score <= bestOf(c)
  <2>1. PICK k \in pool : g[k].code = c
    BY DEF CodesIn
  <2>2. k \in DOMAIN g /\ pool \subseteq DOMAIN g
    BY <2>1 DEF GoodPool
  <2>3. \A i \in pool, j \in DOMAIN g : N!Nearer(g, j, i) => j \in pool
    BY DEF GoodPool
  <2>4. /\ N!BestOf(g, pool, c) = bestOf(c)
        /\ \A j \in DOMAIN g \ pool : g[j].score <= N!BestOf(g, pool, c)
    BY <2>1, <2>2, <2>3, PoolHasBest
  <2>5. bestOf(c) \in Int
    BY <2>1, <2>2, BestIsARow
  <2>6. QED
    BY <2>4, <2>5
<1> HIDE DEF bestOf
<1> DEFINE f == [c \in codes |-> [code |-> c, score |-> bestOf(c)]]
<1>4. results = {f[c] : c \in codes}
  <2>1. results = {[code |-> c, score |-> N!BestOf(g, pool, c)] : c \in codes}
    BY DEF N!BestPerEmployee, CodesIn
  <2> HIDE DEF results, codes
  <2>2. QED
    BY <1>3, <2>1
<1>5. IsFiniteSet(results) /\ Cardinality(results) = Cardinality(codes)
  <2>1. f \in [codes -> results] /\ \A r \in results : \E c \in codes : f[c] = r
    <3> HIDE DEF f, codes, results
    <3>1. DOMAIN f = codes /\ f = [c \in codes |-> f[c]]
      BY DEF f
    <3>2. QED
      BY <1>4, <3>1
  <2>2. \A c, d \in codes : f[c] = f[d] => c = d
    <3>1. \A c \in codes : f[c].code = c
      OBVIOUS
    <3> HIDE DEF f, codes
    <3>2. QED
      BY <3>1
  <2> HIDE DEF f, codes, results
  <2>3. f \in Surjection(codes, results) /\ f \in Injection(codes, results)
    BY <2>1, <2>2, Fun_IsSurj, Fun_IsInj
  <2>4. QED
    BY <1>2, <2>3, FS_Surjection
<1>6. \A r \in results : r.code \in codes /\ r.score = bestOf(r.code)
  <2>1. \A c \in codes : f[c].code = c /\ f[c].score = bestOf(c)
    OBVIOUS
  <2> HIDE DEF f, codes, results
  <2>2. QED
    BY <1>4, <2>1
<1>7. \A c \in codes : \E r \in results : r.code = c
  <2>1. \A c \in codes : f[c].code = c
    OBVIOUS
  <2> HIDE DEF f, codes, results
  <2>2. QED
    BY <1>4, <2>1
<1>8. \A r, s \in results : r.code = s.code => r = s
  <2>1. \A c \in codes : f[c].code = c
    OBVIOUS
  <2> HIDE DEF f, codes, results
  <2>2. QED
    BY <1>4, <2>1
<1> HIDE DEF f
<1>9. /\ size = Cardinality(results) /\ size \in Nat /\ DOMAIN order = 1 .. size
      /\ \A n \in 1 .. size : order[n] \in results
      /\ \A r \in results : \E n \in 1 .. size : order[n] = r
      /\ \A m, n \in 1 .. size :
            m < n => order[m] # order[n] /\ order[m].score >= order[n].score
  BY <1>5, SortedHasAll
<1> HIDE DEF results, codes, size
<1>10. short = (IF K <= size THEN K ELSE size)
  BY <1>1, <1>9, MinOfTwo
<1> HIDE DEF short
<1>11. short \in Nat /\ short <= K /\ short <= size
  BY <1>1, <1>9, <1>10
<1>12. /\ Len(top) = short /\ DOMAIN top = 1 .. short
       /\ \A n \in 1 .. short : top[n] = order[n]
  <2>1. \A n \in 1 .. short : order[n] \in results
    BY <1>9, <1>11
  <2>2. /\ top \in Seq(results) /\ Len(top) = (IF 1 <= short THEN short - 1 + 1 ELSE 0)
        /\ \A n \in 1 .. short - 1 + 1 : top[n] = order[1 + n - 1]
    BY <1>11, <2>1, SubSeqProperties
  <2>3. Len(top) = short
    BY <1>11, <2>2
  <2>4. \A n \in 1 .. short : n \in 1 .. short - 1 + 1 /\ 1 + n - 1 = n
    BY <1>11
  <2>5. DOMAIN top = 1 .. short
    BY <2>2, <2>3, LenProperties
  <2>6. QED
    BY <2>2, <2>3, <2>4, <2>5
<1> HIDE DEF top
<1>13. short = Min({K, Cardinality(N!CodesOf(g))})
  <2> DEFINE n == Cardinality(N!CodesOf(g))
  <2>1. n \in Nat /\ size <= n /\ (size = n \/ size >= K)
    BY <1>2, <1>5, <1>9
  <2> HIDE DEF n
  <2>2. Min({K, n}) = (IF K <= n THEN K ELSE n)
    BY <1>1, <2>1, MinOfTwo
  <2>3. short = Min({K, n})
    BY <1>1, <1>9, <1>10, <2>1, <2>2
  <2>4. QED
    BY <2>3 DEF n
<1>14. \A n \in 1 .. short : /\ n \in 1 .. size /\ top[n] \in results
                             /\ top[n].code \in codes /\ top[n].score = bestOf(top[n].code)
  BY <1>6, <1>9, <1>11, <1>12
<1>15. ASSUME NEW m \in 1 .. short, NEW n \in 1 .. short, m < n
       PROVE  top[m].code # top[n].code /\ top[m].score >= top[n].score
  <2>1. /\ top[m] = order[m] /\ top[n] = order[n] /\ m \in 1 .. size /\ n \in 1 .. size
        /\ order[m] \in results /\ order[n] \in results
    BY <1>9, <1>12, <1>14
  <2>2. order[m] # order[n] /\ order[m].score >= order[n].score
    BY <1>9, <1>15, <2>1
  <2>3. QED
    BY <1>8, <2>1, <2>2
<1>16. ASSUME NEW c \in N!CodesOf(g), c \notin {top[n].code : n \in 1 .. short},
              NEW n \in 1 .. short
       PROVE  top[n].score >= bestOf(c)
  <2>1. CASE c \in codes
    <3>1. PICK r \in results : r.code = c
      BY <1>7, <2>1
    <3>2. PICK m \in 1 .. size : order[m] = r
      BY <1>9
    <3>3. m \notin 1 .. short
      BY <1>12, <1>16, <3>1, <3>2
    <3>4. n \in 1 .. size /\ n < m
      BY <1>9, <1>11, <3>3
    <3>5. order[n].score >= order[m].score
      BY <1>9, <3>4
    <3>6. order[m].score = bestOf(c)
      BY <1>6, <3>1, <3>2
    <3>7. QED
      BY <1>12, <3>5, <3>6
  <2>2. CASE c \notin codes
    <3>1. PICK k \in DOMAIN g : g[k].code = c
      BY GalleryRows
    <3>2. PICK i \in DOMAIN g : g[i].code = c /\ g[i].score = bestOf(c)
      BY <3>1, BestIsARow DEF bestOf
    <3>3. i \notin pool
      BY <2>2, <3>2 DEF codes, CodesIn
    <3>4. g[i].score <= bestOf(top[n].code)
      BY <1>3, <1>14, <3>3
    <3>5. bestOf(top[n].code) \in Int /\ g[i].score \in Int
      BY <1>3, <1>14, GalleryRows
    <3>6. QED
      BY <1>14, <3>2, <3>4, <3>5
  <2>3. QED
    BY <2>1, <2>2
<1>17. TopK(g, top)
  <2>1. \A n \in 1 .. short : top[n].code \in N!CodesOf(g)
    BY <1>2, <1>14
  <2>2. QED
    BY <1>11, <1>12, <1>13, <1>14, <1>15, <1>16, <2>1 DEF TopK, bestOf
<1>18. QED
  BY <1>17 DEF top, short, size

\* The answer tells whether the gallery has a clear winner, and who it is.
LEMMA PassesIsClear ==
    ASSUME N!Searchable, NEW g, Gallery(g), NEW top, TopK(g, top)
    PROVE  IF N!Passes(top) THEN N!ClearWinner(g, top[1].code)
           ELSE \A c \in N!CodesOf(g) : ~N!ClearWinner(g, c)
<1> DEFINE bestOf(c) == N!BestOf(g, DOMAIN g, c)
           codes == N!CodesOf(g)
           size == Len(top)
<1>1. K \in Nat /\ K >= 2 /\ Threshold \in Int /\ Margin \in Int
  BY DEF N!Searchable
<1>2. /\ IsFiniteSet(codes) /\ Cardinality(codes) \in Nat
      /\ \A i \in DOMAIN g : g[i].code \in codes /\ g[i].score \in Int
  BY GalleryRows
<1>3. ASSUME NEW c \in codes
      PROVE  /\ bestOf(c) \in Int
             /\ \E i \in DOMAIN g : g[i].code = c /\ g[i].score = bestOf(c)
             /\ \A i \in DOMAIN g : g[i].code = c => g[i].score <= bestOf(c)
  <2>1. PICK k \in DOMAIN g : g[k].code = c
    BY GalleryRows
  <2>2. QED
    BY <2>1, BestIsARow
<1>4. /\ size = Min({K, Cardinality(codes)}) /\ size \in Nat /\ DOMAIN top = 1 .. size
      /\ \A n \in 1 .. size : top[n].code \in codes /\ top[n].score = bestOf(top[n].code)
      /\ \A m, n \in 1 .. size :
            m < n => top[m].code # top[n].code /\ top[m].score >= top[n].score
      /\ \A c \in codes \ {top[n].code : n \in 1 .. size} :
            \A n \in 1 .. size : top[n].score >= bestOf(c)
  BY DEF TopK
<1>5. \A c : N!ClearWinner(g, c) <=>
                /\ c \in codes
                /\ bestOf(c) >= Threshold
                /\ \A i \in DOMAIN g : g[i].code # c => bestOf(c) - g[i].score >= Margin
  BY DEF N!ClearWinner
<1>6. N!Passes(top) <=> /\ size >= 1
                        /\ top[1].score >= Threshold
                        /\ size >= 2 => top[1].score - top[2].score >= Margin
  <2>1. top # <<>> <=> size >= 1
    BY <1>4
  <2>2. QED
    BY <2>1 DEF N!Passes
<1> HIDE DEF bestOf, codes, size
<1>7. \A n \in 1 .. size : top[n].score \in Int
  BY <1>3, <1>4
\* Nobody is ahead of the first.
<1>8. ASSUME size >= 1, NEW c \in codes
      PROVE  top[1].score >= bestOf(c)
  <2>1. 1 \in 1 .. size
    BY <1>4, <1>8
  <2>2. CASE c \in {top[n].code : n \in 1 .. size}
    <3>1. PICK n \in 1 .. size : top[n].code = c
      BY <2>2
    <3>2. n = 1 \/ 1 < n
      BY <1>4
    <3>3. top[1].score >= top[n].score
      <4>1. top[1].score \in Int
        BY <1>7, <2>1
      <4>2. 1 < n => top[1].score >= top[n].score
        BY <1>4, <2>1
      <4>3. QED
        BY <3>2, <4>1, <4>2
    <3>4. QED
      BY <1>4, <3>1, <3>3
  <2>3. CASE c \notin {top[n].code : n \in 1 .. size}
    BY <1>4, <2>1, <2>3
  <2>4. QED
    BY <2>2, <2>3
\* Nobody but the first is ahead of the second.
<1>9. ASSUME size >= 2, NEW c \in codes, c # top[1].code
      PROVE  top[2].score >= bestOf(c)
  <2>1. 2 \in 1 .. size
    BY <1>4, <1>9
  <2>2. CASE c \in {top[n].code : n \in 1 .. size}
    <3>1. PICK n \in 1 .. size : top[n].code = c
      BY <2>2
    <3>2. n = 2 \/ 2 < n
      BY <1>4, <1>9, <3>1
    <3>3. top[2].score >= top[n].score
      <4>1. top[2].score \in Int
        BY <1>7, <2>1
      <4>2. 2 < n => top[2].score >= top[n].score
        BY <1>4, <2>1
      <4>3. QED
        BY <3>2, <4>1, <4>2
    <3>4. QED
      BY <1>4, <3>1, <3>3
  <2>3. CASE c \notin {top[n].code : n \in 1 .. size}
    BY <1>4, <2>1, <2>3
  <2>4. QED
    BY <2>2, <2>3
\* A gallery of two has a runner-up.
<1>10. ASSUME NEW c \in codes, NEW d \in codes, c # d
       PROVE  size >= 2
  <2>1. Cardinality({c, d}) = 2 /\ IsFiniteSet({c, d})
    <3>1. IsFiniteSet({c}) /\ Cardinality({c}) = 1 /\ {c} \cup {d} = {c, d} /\ d \notin {c}
      BY <1>10, FS_Singleton
    <3>2. IsFiniteSet({c} \cup {d}) /\ Cardinality({c} \cup {d}) = 1 + 1
      BY <3>1, FS_AddElement
    <3>3. QED
      BY <3>1, <3>2
  <2>2. Cardinality(codes) >= 2
    <3>1. {c, d} \subseteq codes
      OBVIOUS
    <3>2. Cardinality({c, d}) <= Cardinality(codes)
      BY <1>2, <3>1, FS_Subset
    <3>3. QED
      BY <1>2, <2>1, <3>2
  <2>3. size = (IF K <= Cardinality(codes) THEN K ELSE Cardinality(codes))
    BY <1>1, <1>2, <1>4, MinOfTwo
  <2>4. QED
    BY <1>1, <1>2, <2>2, <2>3
<1>11. ASSUME N!Passes(top)
       PROVE  N!ClearWinner(g, top[1].code)
  <2> DEFINE c == top[1].code
  <2>1. 1 \in 1 .. size /\ size >= 1
    BY <1>4, <1>6, <1>11
  <2>2. c \in codes /\ top[1].score = bestOf(c) /\ bestOf(c) >= Threshold /\ bestOf(c) \in Int
    BY <1>3, <1>4, <1>6, <1>11, <2>1
  <2>3. ASSUME NEW i \in DOMAIN g, g[i].code # c
        PROVE  bestOf(c) - g[i].score >= Margin
    <3>1. g[i].code \in codes /\ g[i].score \in Int
      BY <1>2
    <3>2. size >= 2
      BY <1>10, <2>2, <2>3, <3>1
    <3>3. top[2].score >= bestOf(g[i].code)
      BY <1>9, <2>3, <3>1, <3>2
    <3>4. g[i].score <= bestOf(g[i].code) /\ bestOf(g[i].code) \in Int
      BY <1>3, <3>1
    <3>5. top[1].score - top[2].score >= Margin
      BY <1>6, <1>11, <3>2
    <3>6. top[2].score \in Int
      <4>1. 2 \in 1 .. size
        BY <1>4, <3>2
      <4>2. QED
        BY <1>7, <4>1
    <3>7. QED
      BY <1>1, <2>2, <3>1, <3>3, <3>4, <3>5, <3>6
  <2>4. QED
    BY <1>5, <2>2, <2>3
<1>12. ASSUME NEW c, N!ClearWinner(g, c)
       PROVE  N!Passes(top)
  <2>1. /\ c \in codes /\ bestOf(c) >= Threshold /\ bestOf(c) \in Int
        /\ \A i \in DOMAIN g : g[i].code # c => bestOf(c) - g[i].score >= Margin
    BY <1>3, <1>5, <1>12
  <2>2. size >= 1
    <3>1. Cardinality(codes) # 0
      BY <1>2, <2>1, FS_EmptySet
    <3>2. size = (IF K <= Cardinality(codes) THEN K ELSE Cardinality(codes))
      BY <1>1, <1>2, <1>4, MinOfTwo
    <3>3. QED
      BY <1>1, <1>2, <3>1, <3>2
  <2>3. top[1].score >= bestOf(c) /\ top[1].score \in Int /\ 1 \in 1 .. size
    <3>1. 1 \in 1 .. size
      BY <1>4, <2>2
    <3>2. QED
      BY <1>7, <1>8, <2>1, <2>2, <3>1
  <2>4. ASSUME NEW n \in 1 .. size, top[n].code # c
        PROVE  bestOf(c) - top[n].score >= Margin
    <3>1. top[n].code \in codes /\ top[n].score = bestOf(top[n].code)
      BY <1>4
    <3>2. PICK i \in DOMAIN g : g[i].code = top[n].code /\ g[i].score = top[n].score
      BY <1>3, <3>1
    <3>3. QED
      BY <2>1, <2>4, <3>2
  <2>5. ASSUME size >= 2
        PROVE  top[1].score - top[2].score >= Margin
    <3>1. /\ 2 \in 1 .. size /\ top[2].score \in Int /\ top[1].score >= top[2].score
          /\ top[1].code # top[2].code
      <4>1. 2 \in 1 .. size
        BY <1>4, <2>5
      <4>2. QED
        <5>1. 1 < 2 => top[1].code # top[2].code /\ top[1].score >= top[2].score
          BY <1>4, <2>3, <4>1
        <5>2. QED
          BY <1>7, <4>1, <5>1
    <3>2. CASE top[2].code = c
      <4>1. bestOf(c) - top[1].score >= Margin
        BY <2>3, <2>4, <3>1, <3>2
      <4>2. QED
        BY <1>1, <2>1, <2>3, <3>1, <4>1
    <3>3. CASE top[2].code # c
      <4>1. bestOf(c) - top[2].score >= Margin
        BY <2>4, <3>1, <3>3
      <4>2. QED
        BY <1>1, <2>1, <2>3, <3>1, <4>1
    <3>4. QED
      BY <3>2, <3>3
  <2>6. QED
    BY <1>1, <1>6, <2>1, <2>2, <2>3, <2>5
<1>13. QED
  BY <1>11, <1>12

\* What the search knows in each of its steps.
NamingInv ==
    /\ index \in Galleries
    /\ rows \in Galleries \cup {<<>>}
    /\ search \in {"idle", "group", "gate", "done"}
    /\ search = "idle" => rows = <<>>
    /\ candidates = IF search = "idle" THEN {} ELSE Pooled(rows)
    /\ IF search \in {"gate", "done"} THEN TopK(rows, answer) ELSE answer = <<>>
    /\ name = IF search = "done" /\ N!Passes(answer) THEN answer[1].code ELSE N!Nobody

LEMMA GalleriesAre ==
    ASSUME N!Searchable, NEW g \in Galleries \cup {<<>>}
    PROVE  Gallery(g)
<1>1. <<>> \in Seq([code : N!CodesOf(<<>>) \ {N!Nobody}, score : Int])
  OBVIOUS
<1>2. QED
  BY <1>1 DEF Gallery, N!Searchable

LEMMA NamingStep ==
    ASSUME N!Searchable, NamingInv, [N!Next]_(N!vars)
    PROVE  NamingInv'
<1> USE DEF NamingInv
<1>1. CASE UNCHANGED N!vars
  <2>1. UNCHANGED <<index, search, candidates, rows, answer, name>>
    BY <1>1 DEF N!vars
  <2>2. QED
    BY <2>1 DEF Pooled, N!PoolSize, TopK
<1>2. CASE N!Rebuild
  <2>1. index' \in Galleries /\ UNCHANGED <<search, candidates, rows, answer, name>>
    BY <1>2 DEF N!Rebuild
  <2>2. QED
    BY <2>1 DEF Pooled, N!PoolSize, TopK
<1>3. CASE N!Lookup
  <2>1. /\ search = "idle" /\ search' = "group" /\ rows' = index
        /\ candidates' = Pooled(index) /\ UNCHANGED <<index, answer, name>>
    BY <1>3 DEF N!Lookup, Pooled
  <2>2. QED
    BY <2>1
<1>4. CASE N!Group
  <2>1. /\ search = "group" /\ search' = "gate" /\ UNCHANGED <<index, candidates, rows, name>>
        /\ \E order \in N!Sorted(N!BestPerEmployee(rows, candidates)) :
              answer' = SubSeq(order, 1, N!Min({K, Len(order)}))
    BY <1>4 DEF N!Group
  <2>2. PICK order \in N!Sorted(N!BestPerEmployee(rows, candidates)) :
           answer' = SubSeq(order, 1, Min({K, Len(order)}))
    BY <2>1, NamingSame
  <2>3. Gallery(rows) /\ GoodPool(rows, candidates)
    BY <2>1, GalleriesAre, PoolIsGood
  <2>4. TopK(rows, answer')
    BY <2>2, <2>3, GroupIsTopK
  <2>5. QED
    BY <2>1, <2>4 DEF TopK
<1>5. CASE N!Match
  <2>1. /\ search = "gate" /\ search' = "done" /\ UNCHANGED <<index, candidates, rows, answer>>
        /\ name' = IF N!Passes(answer) THEN answer[1].code ELSE N!Nobody
    BY <1>5 DEF N!Match
  <2>2. QED
    <3>1. N!Passes(answer)' = N!Passes(answer)
      BY <2>1 DEF N!Passes
    <3>2. TopK(rows, answer)' = TopK(rows, answer) /\ Pooled(rows)' = Pooled(rows)
      BY <2>1 DEF TopK, Pooled, N!PoolSize
    <3>3. TopK(rows, answer) /\ candidates = Pooled(rows)
      BY <2>1
    <3>4. name' = IF N!Passes(answer)' THEN answer'[1].code ELSE N!Nobody
      BY <2>1, <3>1
    <3>5. index' \in Galleries /\ rows' \in Galleries \cup {<<>>}
      BY <2>1
    <3> QED
      BY <2>1, <3>2, <3>3, <3>4, <3>5
<1>6. CASE N!NextFace
  <2>1. /\ search' = "idle" /\ rows' = <<>> /\ candidates' = {} /\ answer' = <<>>
        /\ name' = N!Nobody /\ UNCHANGED index
    BY <1>6 DEF N!NextFace
  <2>2. QED
    BY <2>1
<1>7. QED
  BY <1>1, <1>2, <1>3, <1>4, <1>5, <1>6 DEF N!Next

\* What NamingStep keeps is true throughout: the search is of one gallery, whatever the
\* index is rebuilt to meanwhile.
THEOREM NamingInvariance ==
    ASSUME N!Searchable
    PROVE  N!Spec => []NamingInv
<1>1. N!Init => NamingInv
  BY DEF N!Init, NamingInv
<1>2. NamingInv /\ [N!Next]_(N!vars) => NamingInv'
  BY NamingStep
<1>3. QED
  BY <1>1, <1>2, PTL DEF N!Spec

LEMMA NamingInvImplies ==
    ASSUME N!Searchable, NamingInv
    PROVE  N!TypeOK /\ N!AnswerIsTopK /\ N!NamedAfterClearWinner
<1>1. Gallery(rows) /\ GoodPool(rows, Pooled(rows))
  BY GalleriesAre, PoolIsGood DEF NamingInv
<1>2. ASSUME search \in {"gate", "done"}
      PROVE  TopK(rows, answer)
  BY <1>2 DEF NamingInv
<1>3. N!AnswerIsTopK
  <2> SUFFICES ASSUME search \in {"gate", "done"}
               PROVE  /\ Len(answer) = Min({K, Cardinality(N!CodesOf(rows))})
                      /\ \A n \in DOMAIN answer :
                            answer[n].score = N!BestOf(rows, DOMAIN rows, answer[n].code)
                      /\ \A c \in N!CodesOf(rows) \ {answer[n].code : n \in DOMAIN answer} :
                            \A n \in DOMAIN answer :
                               answer[n].score >= N!BestOf(rows, DOMAIN rows, c)
    BY NamingSame DEF N!AnswerIsTopK
  <2>1. TopK(rows, answer)
    BY <1>2
  <2>2. QED
    BY <2>1 DEF TopK
<1>4. N!NamedAfterClearWinner
  <2> SUFFICES ASSUME search = "done"
               PROVE  IF name = N!Nobody
                      THEN \A c \in N!CodesOf(rows) : ~N!ClearWinner(rows, c)
                      ELSE N!ClearWinner(rows, name)
    BY DEF N!NamedAfterClearWinner
  <2>1. /\ TopK(rows, answer)
        /\ name = IF N!Passes(answer) THEN answer[1].code ELSE N!Nobody
    BY DEF NamingInv
  <2>2. IF N!Passes(answer) THEN N!ClearWinner(rows, answer[1].code)
        ELSE \A c \in N!CodesOf(rows) : ~N!ClearWinner(rows, c)
    BY <1>1, <2>1, PassesIsClear
  <2>3. \A c \in N!CodesOf(rows) : c # N!Nobody
    BY <1>1, GalleryRows
  <2>4. \A c : N!ClearWinner(rows, c) => c \in N!CodesOf(rows)
    BY DEF N!ClearWinner
  <2>5. QED
    BY <2>1, <2>2, <2>3, <2>4
<1>5. N!TypeOK
  <2>1. candidates \subseteq DOMAIN rows
    <3>1. {} \subseteq DOMAIN rows
      OBVIOUS
    <3>2. Pooled(rows) \subseteq DOMAIN rows
      BY <1>1 DEF GoodPool
    <3>3. QED
      BY <3>1, <3>2 DEF NamingInv
  <2>2. Len(answer) <= K
    <3>1. CASE search \in {"gate", "done"}
      BY <1>2, <3>1 DEF TopK
    <3>2. CASE search \notin {"gate", "done"}
      <4>1. answer = <<>> /\ Len(<<>>) = 0
        BY <3>2 DEF NamingInv
      <4>2. QED
        BY <4>1 DEF N!Searchable
    <3>3. QED
      BY <3>1, <3>2
  <2>3. name \in {N!Nobody} \cup N!CodesOf(rows)
    <3>1. CASE search = "done" /\ N!Passes(answer)
      <4>1. TopK(rows, answer) /\ name = answer[1].code
        BY <3>1 DEF NamingInv
      <4>2. N!ClearWinner(rows, answer[1].code)
        BY <1>1, <3>1, <4>1, PassesIsClear
      <4>3. QED
        BY <4>1, <4>2 DEF N!ClearWinner
    <3>2. CASE ~(search = "done" /\ N!Passes(answer))
      BY <3>2 DEF NamingInv
    <3>3. QED
      BY <3>1, <3>2
  <2>4. QED
    BY <2>1, <2>2, <2>3 DEF NamingInv, N!TypeOK
<1>6. QED
  BY <1>3, <1>4, <1>5

-------------------------------------------------------------------------------
(* Evaluation: counting *)

\* The elements of a sequence that are in a set.
Share(seq, V) == {i \in DOMAIN seq : seq[i] \in V}

LEMMA ShareOfSequence ==
    ASSUME NEW S, NEW seq \in Seq(S), NEW V
    PROVE  IsFiniteSet(Share(seq, V)) /\ Cardinality(Share(seq, V)) \in Nat
<1>1. Len(seq) \in Nat /\ DOMAIN seq = 1 .. Len(seq)
  BY LenProperties
<1>2. IsFiniteSet(DOMAIN seq) /\ Share(seq, V) \subseteq DOMAIN seq
  BY <1>1, FS_Interval DEF Share
<1>3. QED
  BY <1>2, FS_Subset, FS_CardinalityType

LEMMA DisjointUnion ==
    ASSUME NEW A, NEW B, IsFiniteSet(A), IsFiniteSet(B), A \cap B = {}
    PROVE  /\ IsFiniteSet(A \cup B)
           /\ Cardinality(A \cup B) = Cardinality(A) + Cardinality(B)
<1>1. Cardinality(A \cap B) = 0
  BY FS_EmptySet
<1>2. /\ IsFiniteSet(A \cup B)
      /\ Cardinality(A \cup B) = Cardinality(A) + Cardinality(B) - Cardinality(A \cap B)
  BY FS_Union
<1>3. Cardinality(A) \in Nat /\ Cardinality(B) \in Nat
  BY FS_CardinalityType
<1>4. QED
  BY <1>1, <1>2, <1>3

\* Two sequences one after the other share what they share.
LEMMA ShareOfTwo ==
    ASSUME NEW S, NEW s1 \in Seq(S), NEW s2 \in Seq(S), NEW V
    PROVE  Cardinality(Share(s1 \o s2, V)) = Cardinality(Share(s1, V)) + Cardinality(Share(s2, V))
<1> DEFINE both == s1 \o s2
           moved == {i + Len(s1) : i \in Share(s2, V)}
           f == [i \in Share(s2, V) |-> i + Len(s1)]
<1>1. /\ Len(s1) \in Nat /\ DOMAIN s1 = 1 .. Len(s1)
      /\ Len(s2) \in Nat /\ DOMAIN s2 = 1 .. Len(s2)
  BY LenProperties
<1>2. /\ both \in Seq(S) /\ Len(both) = Len(s1) + Len(s2) /\ DOMAIN both = 1 .. Len(s1) + Len(s2)
      /\ \A i \in 1 .. Len(s1) + Len(s2) :
            both[i] = IF i <= Len(s1) THEN s1[i] ELSE s2[i - Len(s1)]
  BY <1>1, ConcatProperties, LenProperties
<1> HIDE DEF both
<1>3. Share(both, V) = Share(s1, V) \cup moved
  <2>1. ASSUME NEW i \in Share(both, V) PROVE i \in Share(s1, V) \cup moved
    <3>1. i \in 1 .. Len(s1) + Len(s2) /\ both[i] \in V
      BY <1>2 DEF Share
    <3>2. CASE i <= Len(s1)
      <4>1. i \in 1 .. Len(s1) /\ s1[i] \in V
        BY <1>1, <1>2, <3>1, <3>2
      <4>2. QED
        BY <1>1, <4>1 DEF Share
    <3>3. CASE ~(i <= Len(s1))
      <4>1. /\ i - Len(s1) \in 1 .. Len(s2) /\ s2[i - Len(s1)] \in V
            /\ (i - Len(s1)) + Len(s1) = i
        BY <1>1, <1>2, <3>1, <3>3
      <4>2. i - Len(s1) \in Share(s2, V)
        BY <1>1, <4>1 DEF Share
      <4>3. QED
        BY <4>1, <4>2
    <3>4. QED
      BY <3>2, <3>3
  <2>2. ASSUME NEW i \in Share(s1, V) PROVE i \in Share(both, V)
    <3>1. i \in 1 .. Len(s1) /\ s1[i] \in V
      BY <1>1 DEF Share
    <3>2. i \in 1 .. Len(s1) + Len(s2) /\ i <= Len(s1)
      BY <1>1, <3>1
    <3>3. QED
      BY <1>2, <3>1, <3>2 DEF Share
  <2>3. ASSUME NEW j \in Share(s2, V) PROVE j + Len(s1) \in Share(both, V)
    <3>1. j \in 1 .. Len(s2) /\ s2[j] \in V
      BY <1>1 DEF Share
    <3>2. /\ j + Len(s1) \in 1 .. Len(s1) + Len(s2) /\ ~(j + Len(s1) <= Len(s1))
          /\ (j + Len(s1)) - Len(s1) = j
      BY <1>1, <3>1
    <3>3. both[j + Len(s1)] = s2[j]
      BY <1>2, <3>2
    <3>4. QED
      BY <1>2, <3>1, <3>2, <3>3 DEF Share
  <2>4. QED
    BY <2>1, <2>2, <2>3
<1>4. \A i \in Share(s1, V) : i \in Int /\ i <= Len(s1)
  BY <1>1 DEF Share
<1>5. \A i \in Share(s2, V) : i \in Int /\ i >= 1
  BY <1>1 DEF Share
<1>6. Share(s1, V) \cap moved = {}
  BY <1>1, <1>4, <1>5
<1>7. IsFiniteSet(Share(s1, V)) /\ IsFiniteSet(Share(s2, V))
  BY ShareOfSequence
<1>8. IsFiniteSet(moved) /\ Cardinality(moved) = Cardinality(Share(s2, V))
  <2>1. f \in [Share(s2, V) -> moved] /\ \A m \in moved : \E i \in Share(s2, V) : f[i] = m
    OBVIOUS
  <2>2. \A i, j \in Share(s2, V) : f[i] = f[j] => i = j
    BY <1>1, <1>5
  <2> HIDE DEF f, moved
  <2>3. f \in Surjection(Share(s2, V), moved) /\ f \in Injection(Share(s2, V), moved)
    BY <2>1, <2>2, Fun_IsSurj, Fun_IsInj
  <2>4. QED
    BY <1>7, <2>3, FS_Surjection
<1>9. QED
  BY <1>3, <1>6, <1>7, <1>8, DisjointUnion DEF both

LEMMA ShareOfOne ==
    ASSUME NEW x, NEW V
    PROVE  Cardinality(Share(<<x>>, V)) = IF x \in V THEN 1 ELSE 0
<1>1. CASE x \in V
  <2>1. Share(<<x>>, V) = {1}
    BY <1>1 DEF Share
  <2>2. QED
    BY <1>1, <2>1, FS_Singleton
<1>2. CASE x \notin V
  <2>1. Share(<<x>>, V) = {}
    BY <1>2 DEF Share
  <2>2. QED
    BY <1>2, <2>1, FS_EmptySet
<1>3. QED
  BY <1>1, <1>2

LEMMA ShareOfNone ==
    ASSUME NEW V
    PROVE  Cardinality(Share(<<>>, V)) = 0
<1>1. Share(<<>>, V) = {}
  BY DEF Share
<1>2. QED
  BY <1>1, FS_EmptySet

\* A finite set can be put in an order.
LEMMA InSomeOrder ==
    ASSUME NEW S, IsFiniteSet(S)
    PROVE  \E g \in [1 .. Cardinality(S) -> S] : \A a, b \in DOMAIN g : g[a] = g[b] => a = b
<1> DEFINE size == Cardinality(S)
<1>1. PICK g \in Bijection(1 .. size, S) : TRUE
  BY FS_CardinalityType, Fun_ExistsBij
<1>2. g \in [1 .. size -> S] /\ \A a, b \in 1 .. size : g[a] = g[b] => a = b
  BY <1>1, Fun_BijectionProperties
<1>3. QED
  BY <1>2

\* A set in some order shares what it shares.
LEMMA ShareOfSet ==
    ASSUME NEW S, IsFiniteSet(S), NEW f, NEW V,
           NEW order, order = E!SetToSeq(S),
           NEW seq, DOMAIN seq = DOMAIN order, \A i \in DOMAIN order : seq[i] = f[order[i]],
           NEW mine, \A x : x \in mine <=> x \in S /\ f[x] \in V
    PROVE  /\ order \in [1 .. Cardinality(S) -> S]
           /\ Cardinality(Share(seq, V)) = Cardinality(mine)
<1> DEFINE size == Cardinality(S)
           h == [i \in Share(seq, V) |-> order[i]]
<1>1. order = CHOOSE g \in [1 .. size -> S] : \A a, b \in DOMAIN g : g[a] = g[b] => a = b
  BY DEF E!SetToSeq, E!IsInjective, E!Cardinality, Cardinality
<1>2. size \in Nat
  BY FS_CardinalityType
<1>3. \E g \in [1 .. size -> S] : \A a, b \in DOMAIN g : g[a] = g[b] => a = b
  BY InSomeOrder
<1>4. /\ order \in [1 .. size -> S]
      /\ \A a, b \in 1 .. size : order[a] = order[b] => a = b
  BY <1>1, <1>3
<1>5. \A x \in S : \E i \in 1 .. size : order[i] = x
  <2>1. IsFiniteSet(1 .. size) /\ Cardinality(1 .. size) = size
    BY <1>2, FS_Interval
  <2> HIDE DEF size
  <2>2. order \in Injection(1 .. size, S)
    BY <1>4, Fun_IsInj
  <2>3. order \in Surjection(1 .. size, S)
    BY <2>1, <2>2, FS_Injection DEF size
  <2>4. QED
    BY <2>3 DEF Surjection
<1>6. Share(seq, V) = {i \in 1 .. size : f[order[i]] \in V}
  BY <1>4 DEF Share
<1>7. h \in [Share(seq, V) -> mine] /\ \A x \in mine : \E i \in Share(seq, V) : h[i] = x
  <2>1. \A i \in Share(seq, V) : order[i] \in mine
    BY <1>4, <1>6
  <2>2. ASSUME NEW x \in mine PROVE \E i \in Share(seq, V) : order[i] = x
    <3>1. PICK i \in 1 .. size : order[i] = x
      BY <1>5
    <3>2. QED
      BY <1>6, <3>1
  <2>3. QED
    BY <2>1, <2>2
<1>8. \A i, j \in Share(seq, V) : h[i] = h[j] => i = j
  BY <1>4, <1>6
<1>9. IsFiniteSet(Share(seq, V))
  <2>1. IsFiniteSet(1 .. size) /\ Share(seq, V) \subseteq 1 .. size
    BY <1>2, <1>6, FS_Interval
  <2>2. QED
    BY <2>1, FS_Subset
<1>10. Cardinality(mine) = Cardinality(Share(seq, V))
  <2> HIDE DEF h
  <2>1. h \in Surjection(Share(seq, V), mine) /\ h \in Injection(Share(seq, V), mine)
    BY <1>7, <1>8, Fun_IsSurj, Fun_IsInj
  <2>2. QED
    BY <1>9, <2>1, FS_Surjection
<1>11. QED
  BY <1>4, <1>10

\* What adds up one by one is the sum, whatever the order the sum is taken in.
Line(lines, b) == IF b \in E!BucketLabels THEN lines[b] ELSE 0

SumStep(lines, S, sum) ==
    sum = [s \in SUBSET S |-> IF s = {} THEN 0
                              ELSE LET x == CHOOSE x \in s : TRUE
                                   IN  Line(lines, x) + sum[s \ {x}]]

AddsUp(lines, S, total) ==
    /\ total = [s \in SUBSET S |-> total[s]]
    /\ total[{}] = 0
    /\ \A s \in SUBSET S : \A x \in s : total[s] = Line(lines, x) + total[s \ {x}]

LEMMA SumIs ==
    ASSUME NEW S, S = E!Buckets, IsFiniteSet(S), NEW lines, NEW total, AddsUp(lines, S, total)
    PROVE  E!Printed(lines) = total[S]
<1>0. /\ total = [s \in SUBSET S |-> total[s]] /\ total[{}] = 0
      /\ \A s \in SUBSET S : \A x \in s : total[s] = Line(lines, x) + total[s \ {x}]
  BY DEF AddsUp
<1>1. SumStep(lines, S, total)
  <2> DEFINE other == [s \in SUBSET S |-> IF s = {} THEN 0
                                         ELSE LET x == CHOOSE x \in s : TRUE
                                              IN  Line(lines, x) + total[s \ {x}]]
  <2>1. ASSUME NEW s \in SUBSET S PROVE total[s] = other[s]
    <3>1. CASE s = {}
      BY <1>0, <3>1
    <3>2. CASE s # {}
      <4>1. PICK x : x = CHOOSE y \in s : TRUE
        OBVIOUS
      <4>2. x \in s
        BY <3>2, <4>1
      <4>3. other[s] = Line(lines, x) + total[s \ {x}]
        BY <3>2, <4>1
      <4>4. QED
        BY <1>0, <4>2, <4>3
    <3>3. QED
      BY <3>1, <3>2
  <2>2. total = other
    <3>1. \A s \in SUBSET S : total[s] = other[s]
      BY <2>1
    <3>2. other = [s \in SUBSET S |-> other[s]]
      OBVIOUS
    <3> HIDE DEF other
    <3>3. QED
      BY <1>0, <3>1, <3>2
  <2>3. QED
    BY <2>2 DEF SumStep
<1> DEFINE sum == CHOOSE sum : SumStep(lines, S, sum)
<1>2. SumStep(lines, S, sum)
  BY <1>1
<1>3. E!Printed(lines) = sum[S]
  BY DEF E!Printed, E!MapThenSumSet, E!MapThenFoldSet, SumStep, Line
<1> HIDE DEF sum
<1>4. \A s \in SUBSET S :
         /\ s = {} => sum[s] = 0
         /\ s # {} => \E x \in s : sum[s] = Line(lines, x) + sum[s \ {x}]
  <2>1. SUFFICES ASSUME NEW s \in SUBSET S
                 PROVE  /\ s = {} => sum[s] = 0
                        /\ s # {} => \E x \in s : sum[s] = Line(lines, x) + sum[s \ {x}]
    OBVIOUS
  <2>2. sum[s] = IF s = {} THEN 0 ELSE LET x == CHOOSE x \in s : TRUE IN Line(lines, x) + sum[s \ {x}]
    BY <1>2 DEF SumStep
  <2>3. PICK x : x = CHOOSE y \in s : TRUE
    OBVIOUS
  <2>4. s # {} => x \in s
    BY <2>3
  <2>5. s # {} => sum[s] = Line(lines, x) + sum[s \ {x}]
    BY <2>2, <2>3
  <2>6. QED
    BY <2>2, <2>4, <2>5
\* A smallest set that they differ in would be smaller.
<1>5. ASSUME sum[S] # total[S] PROVE FALSE
  <2> DEFINE wrong == {s \in SUBSET S : sum[s] # total[s]}
             f == [s \in wrong |-> Cardinality(s)]
  <2>1. \A s \in SUBSET S : IsFiniteSet(s) /\ Cardinality(s) \in Nat
    BY FS_Subset, FS_CardinalityType
  <2>2. S \in wrong /\ \A s \in wrong : f[s] \in Nat
    BY <1>5, <2>1
  <2>3. PICK m \in wrong : \A s \in wrong : f[m] <= f[s]
    <3> HIDE DEF f, wrong
    <3>1. QED
      BY <2>2, LeastOf
  <2>4. m \in SUBSET S /\ m # {}
    BY <1>0, <1>4
  <2>5. PICK x \in m : sum[m] = Line(lines, x) + sum[m \ {x}]
    BY <1>4, <2>4
  <2>6. m \ {x} \in wrong
    <3>1. m \ {x} \in SUBSET S
      BY <2>4
    <3>2. total[m] = Line(lines, x) + total[m \ {x}]
      BY <1>0, <2>4
    <3>3. sum[m] # total[m]
      OBVIOUS
    <3>4. sum[m \ {x}] # total[m \ {x}]
      BY <2>5, <3>2, <3>3
    <3>5. QED
      BY <3>1, <3>4
  <2>7. Cardinality(m \ {x}) = Cardinality(m) - 1
    BY <2>1, <2>4, FS_RemoveElement
  <2>8. f[m] <= f[m \ {x}] /\ f[m] = Cardinality(m) /\ f[m \ {x}] = Cardinality(m \ {x})
    BY <2>3, <2>6
  <2>9. QED
    BY <2>1, <2>4, <2>7, <2>8
<1>6. QED
  BY <1>3, <1>5

-------------------------------------------------------------------------------
(* Evaluation: the rates *)

\* What a face adds.
Shown == [labels : Directories \cup {{}}, scores : [Employees -> Scores]]

RatingTyped ==
    /\ genuine \in Seq(Scores) /\ impostor \in Seq(Scores)
    /\ scored \in Seq(Shown)
    /\ at.labels \in Directories \cup {{}}

\* The faces of somebody enrolled; those of them that are rejected at a threshold.
Faces == {shown \in Shown : E!Present(shown.labels) # {}}
Unmatched(t) == {shown \in Faces : \A e \in E!Present(shown.labels) : shown.scores[e] < t}

\* There is a score for each such face, and one for each stranger it was compared with;
\* at every threshold as many of them are under it, or not, as faces or strangers are.
Counted ==
    /\ Len(genuine) <= Len(scored)
    /\ Len(impostor) = Cardinality(E!Strangers)
    /\ IsFiniteSet(E!Strangers)
    /\ \A t \in Int :
          /\ E!Rejected(t) = Cardinality(Share(scored, Unmatched(t)))
          /\ E!Accepted(t) = E!Mistaken(t)

Under(t) == {x \in Int : x < t}
Over(t) == {x \in Int : x >= t}

LEMMA RatesAreShares ==
    ASSUME E!Measurable, RatingTyped, NEW t \in Int
    PROVE  /\ E!Rejected(t) = Cardinality(Share(genuine, Under(t)))
           /\ E!Accepted(t) = Cardinality(Share(impostor, Over(t)))
<1>1. /\ DOMAIN genuine = 1 .. Len(genuine) /\ DOMAIN impostor = 1 .. Len(impostor)
      /\ \A i \in DOMAIN genuine : genuine[i] \in Int
      /\ \A i \in DOMAIN impostor : impostor[i] \in Int
  <2>1. Scores \subseteq Int /\ genuine \in Seq(Scores) /\ impostor \in Seq(Scores)
    BY DEF RatingTyped, E!Measurable
  <2>2. DOMAIN genuine = 1 .. Len(genuine) /\ DOMAIN impostor = 1 .. Len(impostor)
    BY <2>1, LenProperties
  <2>3. \A i \in DOMAIN genuine : genuine[i] \in Scores
    BY <2>1, <2>2, ElementOfSeq
  <2>4. \A i \in DOMAIN impostor : impostor[i] \in Scores
    BY <2>1, <2>2, ElementOfSeq
  <2>5. QED
    BY <2>1, <2>2, <2>3, <2>4
<1>2. {i \in DOMAIN genuine : genuine[i] < t} = Share(genuine, Under(t))
  BY <1>1 DEF Share, Under
<1>3. {i \in DOMAIN impostor : impostor[i] >= t} = Share(impostor, Over(t))
  BY <1>1 DEF Share, Over
<1>4. QED
  BY <1>2, <1>3, RatingSame DEF E!Rejected, E!Accepted

LEMMA EmployeesAre ==
    ASSUME E!Measurable, NEW labels
    PROVE  /\ IsFiniteSet(E!Present(labels)) /\ E!Present(labels) \subseteq Employees
           /\ IsFiniteSet(E!Absent(labels)) /\ E!Absent(labels) \subseteq Employees
           /\ Cardinality(E!Absent(labels)) \in Nat
<1>1. IsFiniteSet(Employees)
  BY RatingSame DEF E!Measurable
<1>2. E!Present(labels) \subseteq Employees /\ E!Absent(labels) \subseteq Employees
  BY DEF E!Present, E!Absent
<1>3. QED
  BY <1>1, <1>2, FS_Subset, FS_CardinalityType

\* The best score of the employees in shot is under a threshold when they all are.
LEMMA GenuineIsBest ==
    ASSUME E!Measurable, NEW labels, NEW scores \in [Employees -> Scores], NEW t \in Int
    PROVE  /\ E!GenuineOf(scores, labels) \in Seq(Scores)
           /\ Len(E!GenuineOf(scores, labels)) <= 1
           /\ Cardinality(Share(E!GenuineOf(scores, labels), Under(t))) =
                 IF /\ E!Present(labels) # {}
                    /\ \A e \in E!Present(labels) : scores[e] < t
                 THEN 1 ELSE 0
<1> DEFINE here == E!Present(labels)
           S == {scores[e] : e \in here}
           f == [e \in here |-> scores[e]]
<1>1. IsFiniteSet(here) /\ here \subseteq Employees
  BY EmployeesAre
<1>2. CASE here = {}
  <2>1. E!GenuineOf(scores, labels) = <<>>
    BY <1>2 DEF E!GenuineOf
  <2>2. <<>> \in Seq(Scores) /\ Len(<<>>) = 0
    OBVIOUS
  <2>3. QED
    BY <1>2, <2>1, <2>2, ShareOfNone
<1>3. CASE here # {}
  <2>1. S \subseteq Int /\ S \subseteq Scores /\ S # {}
    BY <1>1, <1>3 DEF E!Measurable
  <2>2. IsFiniteSet(S)
    <3>1. f \in [here -> S] /\ \A s \in S : \E e \in here : f[e] = s
      OBVIOUS
    <3> HIDE DEF f, S, here
    <3>2. f \in Surjection(here, S)
      BY <3>1, Fun_IsSurj
    <3>3. QED
      BY <1>1, <3>2, FS_Surjection
  <2> DEFINE m == Max(S)
  <2>3. m \in S /\ \A s \in S : m >= s
    <3> HIDE DEF S
    <3>1. QED
      BY <2>1, <2>2, FiniteMax
  <2>4. E!GenuineOf(scores, labels) = <<m>>
    BY <1>3, RatingSame DEF E!GenuineOf
  <2> HIDE DEF m
  <2>5. m \in Scores /\ m \in Int
    BY <2>1, <2>3
  <2>6. m \in Under(t) <=> \A e \in here : scores[e] < t
    <3>1. ASSUME m < t, NEW e \in here PROVE scores[e] < t
      <4>1. scores[e] \in S /\ scores[e] \in Int
        BY <2>1
      <4>2. m >= scores[e]
        BY <2>3, <4>1
      <4>3. QED
        BY <2>5, <3>1, <4>1, <4>2
    <3>2. PICK e \in here : m = scores[e]
      BY <2>3
    <3>3. QED
      BY <2>5, <3>1, <3>2 DEF Under
  <2>7. <<m>> \in Seq(Scores) /\ Len(<<m>>) = 1
    BY <2>5
  <2>8. QED
    BY <1>3, <2>4, <2>6, <2>7, ShareOfOne
<1>4. QED
  BY <1>2, <1>3

LEMMA ImpostorsAreAll ==
    ASSUME E!Measurable, NEW labels, NEW scores \in [Employees -> Scores], NEW t \in Int
    PROVE  LET I == E!ImpostorsOf(scores, labels)
           IN  /\ I \in Seq(Scores)
               /\ Len(I) = Cardinality(E!Absent(labels))
               /\ Cardinality(Share(I, Over(t))) =
                     Cardinality({e \in E!Absent(labels) : scores[e] >= t})
<1> DEFINE I == E!ImpostorsOf(scores, labels)
           absent == E!Absent(labels)
           order == E!SetToSeq(absent)
           n == Cardinality(absent)
<1>1. IsFiniteSet(absent) /\ absent \subseteq Employees /\ n \in Nat
  BY EmployeesAre
<1>2. I = [i \in DOMAIN order |-> scores[order[i]]]
  BY DEF E!ImpostorsOf
<1>3. /\ order \in [1 .. n -> absent]
      /\ Cardinality(Share(I, Over(t))) = Cardinality({e \in absent : scores[e] \in Over(t)})
  <2> DEFINE mine == {e \in absent : scores[e] \in Over(t)}
  <2>1. order = E!SetToSeq(absent)
    OBVIOUS
  <2>2. \A x : x \in mine <=> x \in absent /\ scores[x] \in Over(t)
    OBVIOUS
  <2> HIDE DEF absent, I, order, mine
  <2>3. DOMAIN I = DOMAIN order /\ \A i \in DOMAIN order : I[i] = scores[order[i]]
    BY <1>2
  <2>4. order \in [1 .. n -> absent] /\ Cardinality(Share(I, Over(t))) = Cardinality(mine)
    BY <1>1, <2>1, <2>2, <2>3, ShareOfSet, SMTT(20)
  <2>5. QED
    BY <2>4 DEF mine
<1> HIDE DEF I, order
<1>4. I \in [1 .. n -> Scores]
  BY <1>1, <1>2, <1>3
<1>5. I \in Seq(Scores) /\ Len(I) = n
  <2> HIDE DEF n
  <2>1. I \in Seq(Scores)
    BY <1>1, <1>4 DEF Seq
  <2>2. DOMAIN I = 1 .. n
    BY <1>4
  <2>3. QED
    BY <1>1, <2>1, <2>2, LenProperties
<1>6. {e \in absent : scores[e] \in Over(t)} = {e \in absent : scores[e] >= t}
  BY <1>1 DEF Over, E!Measurable
<1>7. QED
  BY <1>3, <1>5, <1>6 DEF I

\* The employees that the faces of a sequence were compared with and are not of.
Pairs(seq) == {pair \in (DOMAIN seq) \X Employees : pair[2] \notin seq[pair[1]].labels}
WrongPairs(seq, t) == {pair \in Pairs(seq) : seq[pair[1]].scores[pair[2]] >= t}

LEMMA PairsOfAppend ==
    ASSUME E!Measurable, NEW seq \in Seq(Shown), NEW shown \in Shown, NEW t \in Int,
           IsFiniteSet(Pairs(seq))
    PROVE  LET absent == E!Absent(shown.labels)
               more == Append(seq, shown)
           IN  /\ IsFiniteSet(Pairs(more))
               /\ Cardinality(Pairs(more)) = Cardinality(Pairs(seq)) + Cardinality(absent)
               /\ Cardinality(WrongPairs(more, t)) =
                     Cardinality(WrongPairs(seq, t))
                     + Cardinality({e \in absent : shown.scores[e] >= t})
<1> DEFINE absent == E!Absent(shown.labels)
           more == Append(seq, shown)
           n == Len(seq) + 1
           With(A) == {<<n, e>> : e \in A}
           over == {e \in absent : shown.scores[e] >= t}
<1>1. /\ Len(seq) \in Nat /\ DOMAIN seq = 1 .. Len(seq) /\ n \in Nat
      /\ DOMAIN more = 1 .. n /\ more[n] = shown
      /\ \A i \in 1 .. Len(seq) : more[i] = seq[i]
  <2>1. /\ Len(seq) \in Nat /\ DOMAIN seq = 1 .. Len(seq)
    BY LenProperties
  <2>2. more \in Seq(Shown) /\ Len(more) = Len(seq) + 1 /\ more[Len(seq) + 1] = shown
        /\ \A i \in 1 .. Len(seq) : more[i] = seq[i]
    BY AppendProperties
  <2>3. DOMAIN more = 1 .. Len(seq) + 1
    BY <2>2, LenProperties
  <2>4. QED
    BY <2>1, <2>2, <2>3
<1>2. absent = {e \in Employees : e \notin shown.labels} /\ IsFiniteSet(absent)
  BY EmployeesAre DEF E!Absent
<1>3. ASSUME NEW A, IsFiniteSet(A)
      PROVE  IsFiniteSet(With(A)) /\ Cardinality(With(A)) = Cardinality(A)
  <2> DEFINE f == [e \in A |-> <<n, e>>]
  <2>1. /\ f \in [A -> With(A)] /\ \A p \in With(A) : \E e \in A : f[e] = p
        /\ \A d, e \in A : f[d] = f[e] => d = e
    OBVIOUS
  <2> HIDE DEF f, With
  <2>2. f \in Surjection(A, With(A)) /\ f \in Injection(A, With(A))
    BY <2>1, Fun_IsSurj, Fun_IsInj
  <2>3. QED
    BY <1>3, <2>2, FS_Surjection
<1> HIDE DEF more, n
<1>4. n \notin 1 .. Len(seq) /\ \A i : i \in 1 .. n <=> i \in 1 .. Len(seq) \/ i = n
  BY <1>1 DEF n
<1>5. \A i, e : <<i, e>> \in Pairs(more) <=> <<i, e>> \in Pairs(seq) \/ (i = n /\ e \in absent)
  BY <1>1, <1>2, <1>4 DEF Pairs
<1>6. \A p : p \in Pairs(more) \/ p \in Pairs(seq) => \E i, e : p = <<i, e>>
  BY DEF Pairs
<1>7. Pairs(more) = Pairs(seq) \cup With(absent)
  <2>1. \A i, e : <<i, e>> \in With(absent) <=> i = n /\ e \in absent
    OBVIOUS
  <2>2. \A p \in With(absent) : \E i, e : p = <<i, e>>
    OBVIOUS
  <2> HIDE DEF With, absent
  <2>3. \A p : p \in Pairs(more) <=> p \in Pairs(seq) \/ p \in With(absent)
    BY <1>5, <1>6, <2>1, <2>2
  <2>4. QED
    BY <2>3
<1>8. \A p \in Pairs(seq) : p[1] \in 1 .. Len(seq)
  BY <1>1 DEF Pairs
<1>9. Pairs(seq) \cap With(absent) = {}
  BY <1>4, <1>8
<1>10. WrongPairs(more, t) = WrongPairs(seq, t) \cup With(over)
  <2>1. \A p \in Pairs(seq) : more[p[1]] = seq[p[1]]
    BY <1>1, <1>8
  <2>2. \A p \in With(absent) : more[p[1]] = shown /\ (p \in With(over) <=> shown.scores[p[2]] >= t)
    BY <1>1
  <2>3. With(over) \subseteq With(absent)
    OBVIOUS
  <2> HIDE DEF With, absent, over
  <2>4. QED
    BY <1>7, <2>1, <2>2, <2>3 DEF WrongPairs
<1>11. WrongPairs(seq, t) \cap With(over) = {}
  <2>1. With(over) \subseteq With(absent) /\ WrongPairs(seq, t) \subseteq Pairs(seq)
    BY DEF WrongPairs
  <2> HIDE DEF With, absent, over
  <2>2. QED
    BY <1>9, <2>1
<1>12. /\ IsFiniteSet(over) /\ IsFiniteSet(WrongPairs(seq, t))
       /\ IsFiniteSet(With(over)) /\ Cardinality(With(over)) = Cardinality(over)
       /\ IsFiniteSet(With(absent)) /\ Cardinality(With(absent)) = Cardinality(absent)
  <2>1. over \subseteq absent /\ WrongPairs(seq, t) \subseteq Pairs(seq)
    BY DEF WrongPairs
  <2> HIDE DEF With, absent, over
  <2>2. IsFiniteSet(over) /\ IsFiniteSet(WrongPairs(seq, t))
    BY <1>2, <2>1, FS_Subset
  <2>3. QED
    BY <1>2, <1>3, <2>2
<1> HIDE DEF With, absent, over
<1>13. /\ IsFiniteSet(Pairs(more))
       /\ Cardinality(Pairs(more)) = Cardinality(Pairs(seq)) + Cardinality(absent)
  BY <1>7, <1>9, <1>12, DisjointUnion
<1>14. Cardinality(WrongPairs(more, t)) = Cardinality(WrongPairs(seq, t)) + Cardinality(over)
  BY <1>10, <1>11, <1>12, DisjointUnion
<1>15. QED
  BY <1>13, <1>14 DEF more, absent, over

\* A face adds to the rates what its people, and the strangers, score.
LEMMA ScoreFaceCounts ==
    ASSUME E!Measurable, RatingTyped, Counted,
           NEW width \in Widths, NEW scores \in [Employees -> Scores],
           E!ScoreFace(width, scores)
    PROVE  RatingTyped' /\ Counted'
<1> DEFINE labels == at.labels
           shown == [labels |-> labels, scores |-> scores]
           G == E!GenuineOf(scores, labels)
           I == E!ImpostorsOf(scores, labels)
<1>1. /\ genuine' = genuine \o G /\ impostor' = impostor \o I
      /\ scored' = Append(scored, shown) /\ at' = at
  BY DEF E!ScoreFace
<1>2. /\ genuine \in Seq(Scores) /\ impostor \in Seq(Scores) /\ scored \in Seq(Shown)
      /\ shown \in Shown /\ shown.labels = labels /\ shown.scores = scores
  BY DEF RatingTyped, Shown
<1>3. /\ G \in Seq(Scores) /\ Len(G) <= 1 /\ Len(G) \in Nat
      /\ I \in Seq(Scores) /\ Len(I) = Cardinality(E!Absent(labels))
      /\ Cardinality(E!Absent(labels)) \in Nat
  <2>1. 0 \in Int
    OBVIOUS
  <2>2. G \in Seq(Scores) /\ Len(G) <= 1
    BY <2>1, GenuineIsBest
  <2>3. I \in Seq(Scores) /\ Len(I) = Cardinality(E!Absent(labels))
    BY <2>1, ImpostorsAreAll
  <2>4. QED
    BY <2>2, <2>3, EmployeesAre, LenProperties
<1>4. /\ genuine' \in Seq(Scores) /\ Len(genuine') = Len(genuine) + Len(G)
      /\ impostor' \in Seq(Scores) /\ Len(impostor') = Len(impostor) + Len(I)
      /\ scored' \in Seq(Shown) /\ Len(scored') = Len(scored) + 1
      /\ Len(genuine) \in Nat /\ Len(impostor) \in Nat /\ Len(scored) \in Nat
  BY <1>1, <1>2, <1>3, ConcatProperties, AppendProperties, LenProperties
<1>5. RatingTyped'
  BY <1>1, <1>4 DEF RatingTyped, Shown
<1> HIDE DEF shown, G, I
<1>6. /\ E!Strangers = Pairs(scored) /\ E!Strangers' = Pairs(scored')
      /\ \A t : E!Mistaken(t) = Cardinality(WrongPairs(scored, t))
      /\ \A t : E!Mistaken(t)' = Cardinality(WrongPairs(scored', t))
  BY RatingSame DEF E!Strangers, E!Mistaken, Pairs, WrongPairs
<1>7. IsFiniteSet(Pairs(scored)) /\ Len(impostor) = Cardinality(Pairs(scored))
  BY <1>6 DEF Counted
<1>8. ASSUME NEW t \in Int
      PROVE  /\ IsFiniteSet(Pairs(scored'))
             /\ Cardinality(Pairs(scored')) =
                   Cardinality(Pairs(scored)) + Cardinality(E!Absent(labels))
             /\ Cardinality(WrongPairs(scored', t)) =
                   Cardinality(WrongPairs(scored, t))
                   + Cardinality({e \in E!Absent(labels) : scores[e] >= t})
  BY <1>1, <1>2, <1>7, PairsOfAppend
<1>9. IsFiniteSet(Pairs(scored')) /\ Len(impostor') = Cardinality(Pairs(scored'))
  <2>1. 0 \in Int
    OBVIOUS
  <2>2. QED
    BY <1>3, <1>4, <1>7, <1>8, <2>1
<1>10. ASSUME NEW t \in Int
       PROVE  E!Accepted(t)' = E!Mistaken(t)'
  <2>1. E!Accepted(t)' = Cardinality(Share(impostor', Over(t)))
    <3>1. DOMAIN impostor' = 1 .. Len(impostor')
      BY <1>4, LenProperties
    <3>2. \A i \in DOMAIN impostor' : impostor'[i] \in Int
      BY <1>4, <3>1, ElementOfSeq DEF E!Measurable
    <3>3. {i \in DOMAIN impostor' : impostor'[i] >= t} = Share(impostor', Over(t))
      BY <3>2 DEF Share, Over
    <3>4. QED
      BY <3>3, RatingSame DEF E!Accepted
  <2>2. Cardinality(Share(impostor', Over(t))) =
           Cardinality(Share(impostor, Over(t))) + Cardinality(Share(I, Over(t)))
    BY <1>1, <1>2, <1>3, ShareOfTwo
  <2>3. Cardinality(Share(I, Over(t))) = Cardinality({e \in E!Absent(labels) : scores[e] >= t})
    BY ImpostorsAreAll DEF I
  <2>4. E!Accepted(t) = Cardinality(Share(impostor, Over(t)))
    BY RatesAreShares
  <2>5. E!Accepted(t) = E!Mistaken(t)
    BY DEF Counted
  <2>6. QED
    BY <1>6, <1>8, <2>1, <2>2, <2>3, <2>4, <2>5
<1>11. ASSUME NEW t \in Int
       PROVE  E!Rejected(t)' = Cardinality(Share(scored', Unmatched(t)))
  <2>1. E!Rejected(t)' = Cardinality(Share(genuine', Under(t)))
    <3>1. DOMAIN genuine' = 1 .. Len(genuine')
      BY <1>4, LenProperties
    <3>2. \A i \in DOMAIN genuine' : genuine'[i] \in Int
      BY <1>4, <3>1, ElementOfSeq DEF E!Measurable
    <3>3. {i \in DOMAIN genuine' : genuine'[i] < t} = Share(genuine', Under(t))
      BY <3>2 DEF Share, Under
    <3>4. QED
      BY <3>3, RatingSame DEF E!Rejected
  <2>2. Cardinality(Share(genuine', Under(t))) =
           Cardinality(Share(genuine, Under(t))) + Cardinality(Share(G, Under(t)))
    BY <1>1, <1>2, <1>3, ShareOfTwo
  <2>3. Cardinality(Share(scored', Unmatched(t))) =
           Cardinality(Share(scored, Unmatched(t))) + Cardinality(Share(<<shown>>, Unmatched(t)))
    <3>1. <<shown>> \in Seq(Shown) /\ scored' = scored \o <<shown>>
      BY <1>1, <1>2, AppendIsConcat
    <3>2. QED
      BY <1>2, <3>1, ShareOfTwo
  <2>4. shown \in Unmatched(t) <=> /\ E!Present(labels) # {}
                                   /\ \A e \in E!Present(labels) : scores[e] < t
    BY <1>2 DEF Unmatched, Faces
  <2>5. Cardinality(Share(G, Under(t))) = Cardinality(Share(<<shown>>, Unmatched(t)))
    BY <2>4, GenuineIsBest, ShareOfOne DEF G
  <2>6. E!Rejected(t) = Cardinality(Share(genuine, Under(t)))
    BY RatesAreShares
  <2>7. E!Rejected(t) = Cardinality(Share(scored, Unmatched(t)))
    BY DEF Counted
  <2>8. QED
    BY <2>1, <2>2, <2>3, <2>5, <2>6, <2>7
<1>12. Len(genuine') <= Len(scored')
  <2>1. Len(genuine) <= Len(scored)
    BY DEF Counted
  <2>2. QED
    BY <1>3, <1>4, <2>1
<1>13. Counted'
  <2>1. \A t \in Int : Unmatched(t)' = Unmatched(t)
    BY DEF Unmatched, Faces, E!Present
  <2>2. QED
    BY <1>6, <1>9, <1>10, <1>11, <1>12, <2>1 DEF Counted
<1>14. QED
  BY <1>5, <1>13

-------------------------------------------------------------------------------
(* Evaluation: the tables *)

LEMMA BucketsAre ==
    ASSUME E!Measurable
    PROVE  IsFiniteSet(E!Buckets) /\ E!Buckets \subseteq E!BucketLabels
<1>1. /\ IsFiniteSet(Widths) /\ Widths \subseteq Nat
      /\ Edges \in Seq(Nat) /\ Edges # <<>>
  BY RatingSame DEF E!Measurable
<1>2. Len(Edges) \in Nat /\ Len(Edges) >= 1
  BY <1>1, LenProperties, EmptySeq
<1>3. IsFiniteSet(E!Buckets)
  <2> DEFINE f == [width \in Widths |-> E!BucketOf(width)]
  <2>1. f \in [Widths -> E!Buckets] /\ \A b \in E!Buckets : \E width \in Widths : f[width] = b
    BY DEF E!Buckets
  <2> HIDE DEF f
  <2>2. f \in Surjection(Widths, E!Buckets)
    BY <2>1, Fun_IsSurj
  <2>3. QED
    BY <1>1, <2>2, FS_Surjection
<1>4. ASSUME NEW width \in Widths PROVE E!BucketOf(width) \in E!BucketLabels
  <2> DEFINE below == {i \in 1 .. Len(Edges) : Edges[i] <= width}
  <2>1. CASE below = {}
    <3>1. E!BucketOf(width) = <<0, Edges[1]>>
      BY <2>1 DEF E!BucketOf
    <3>2. QED
      BY <3>1 DEF E!BucketLabels
  <2>2. CASE below # {}
    <3>1. IsFiniteSet(below) /\ below \subseteq Int
      <4>1. IsFiniteSet(1 .. Len(Edges))
        BY <1>2, FS_Interval
      <4>2. QED
        BY <4>1, FS_Subset
    <3> DEFINE i == Max(below)
    <3>2. i \in below
      <4> HIDE DEF below
      <4>1. QED
        BY <2>2, <3>1, FiniteMax
    <3>3. E!BucketOf(width) = <<Edges[i], IF i = Len(Edges) THEN 0 ELSE Edges[i + 1]>>
      BY <2>2, RatingSame DEF E!BucketOf
    <3> HIDE DEF i
    <3>4. i \in 1 .. Len(Edges) /\ (i # Len(Edges) => i \in 1 .. Len(Edges) - 1)
      BY <1>2, <3>2
    <3>5. QED
      BY <3>3, <3>4 DEF E!BucketLabels
  <2>3. QED
    BY <2>1, <2>2
<1>5. QED
  BY <1>3, <1>4 DEF E!Buckets

\* The lines of a table tell the buckets of so many faces.
Tallied(lines, n) ==
    \E tally \in Seq(E!Buckets) :
        /\ Len(tally) = n
        /\ \A b \in E!Buckets : lines[b] = Cardinality(Share(tally, {b}))

LEMMA TalliedAddsUp ==
    ASSUME E!Measurable, NEW lines, NEW n, Tallied(lines, n)
    PROVE  E!Printed(lines) = n
<1>1. PICK tally \in Seq(E!Buckets) :
         /\ Len(tally) = n
         /\ \A b \in E!Buckets : lines[b] = Cardinality(Share(tally, {b}))
  BY DEF Tallied
<1> DEFINE total == [s \in SUBSET E!Buckets |-> Cardinality(Share(tally, s))]
<1>2. total[{}] = 0
  <2>1. Share(tally, {}) = {}
    BY DEF Share
  <2>2. QED
    BY <2>1, FS_EmptySet
<1>3. ASSUME NEW s \in SUBSET E!Buckets, NEW x \in s
      PROVE  total[s] = Line(lines, x) + total[s \ {x}]
  <2>1. x \in E!Buckets /\ x \in E!BucketLabels
    BY BucketsAre
  <2>2. Line(lines, x) = Cardinality(Share(tally, {x}))
    BY <1>1, <2>1 DEF Line
  <2>3. /\ Share(tally, s) = Share(tally, {x}) \cup Share(tally, s \ {x})
        /\ Share(tally, {x}) \cap Share(tally, s \ {x}) = {}
    BY DEF Share
  <2>4. IsFiniteSet(Share(tally, {x})) /\ IsFiniteSet(Share(tally, s \ {x}))
    BY ShareOfSequence
  <2>5. Cardinality(Share(tally, s)) =
           Cardinality(Share(tally, {x})) + Cardinality(Share(tally, s \ {x}))
    BY <2>3, <2>4, DisjointUnion
  <2>6. s \ {x} \in SUBSET E!Buckets
    OBVIOUS
  <2>7. QED
    BY <2>2, <2>5, <2>6
<1>4. DOMAIN total = SUBSET E!Buckets /\ total = [s \in SUBSET E!Buckets |-> total[s]]
  OBVIOUS
<1>5. total[E!Buckets] = n
  <2>1. Len(tally) \in Nat /\ DOMAIN tally = 1 .. Len(tally)
        /\ \A i \in DOMAIN tally : tally[i] \in E!Buckets
    BY LenProperties, ElementOfSeq
  <2>2. Share(tally, E!Buckets) = 1 .. Len(tally)
    BY <2>1 DEF Share
  <2>3. Cardinality(1 .. Len(tally)) = Len(tally)
    BY <2>1, FS_Interval
  <2>4. QED
    BY <1>1, <2>2, <2>3
<1> HIDE DEF total
<1>6. \A s \in SUBSET E!Buckets : \A x \in s : total[s] = Line(lines, x) + total[s \ {x}]
  BY <1>3
<1>7. E!Printed(lines) = total[E!Buckets]
  <2>1. IsFiniteSet(E!Buckets)
    BY BucketsAre
  <2>2. PICK S, sums : S = E!Buckets /\ sums = total
    OBVIOUS
  <2>3. AddsUp(lines, S, sums)
    BY <1>2, <1>4, <1>6, <2>2 DEF AddsUp
  <2>4. E!Printed(lines) = sums[S]
    BY <2>1, <2>2, <2>3, SumIs
  <2>5. QED
    BY <2>2, <2>4
<1>8. QED
  BY <1>5, <1>7

LEMMA TalliedGrows ==
    ASSUME NEW lines, NEW n, Tallied(lines, n), NEW more \in Seq(E!Buckets), NEW lines2,
           \A b \in E!Buckets : lines2[b] = lines[b] + Cardinality(Share(more, {b}))
    PROVE  Tallied(lines2, n + Len(more))
<1>1. PICK tally \in Seq(E!Buckets) :
         /\ Len(tally) = n
         /\ \A b \in E!Buckets : lines[b] = Cardinality(Share(tally, {b}))
  BY DEF Tallied
<1>2. tally \o more \in Seq(E!Buckets) /\ Len(tally \o more) = n + Len(more)
  BY <1>1, ConcatProperties
<1>3. \A b \in E!Buckets : lines2[b] = Cardinality(Share(tally \o more, {b}))
  <2> SUFFICES ASSUME NEW b \in E!Buckets
               PROVE  lines2[b] = Cardinality(Share(tally \o more, {b}))
    OBVIOUS
  <2>1. Cardinality(Share(tally \o more, {b})) =
           Cardinality(Share(tally, {b})) + Cardinality(Share(more, {b}))
    BY ShareOfTwo
  <2>2. QED
    BY <1>1, <2>1
<1>4. QED
  BY <1>2, <1>3 DEF Tallied

LEMMA TalliedNone ==
    ASSUME NEW lines, \A b \in E!Buckets : lines[b] = 0
    PROVE  Tallied(lines, 0)
<1>1. <<>> \in Seq(E!Buckets) /\ Len(<<>>) = 0
  OBVIOUS
<1>2. \A b \in E!Buckets : lines[b] = Cardinality(Share(<<>>, {b}))
  BY ShareOfNone
<1>3. QED
  BY <1>1, <1>2 DEF Tallied

Totals == [b \in E!Buckets |-> rank1.buckets[b].total]
Hits == [b \in E!Buckets |-> rank1.buckets[b].hits]

Tables ==
    /\ references \in [E!Buckets -> Nat]
    /\ found \in [Sizes -> [E!Buckets -> Nat]]
    /\ \A size \in Sizes, b \in E!Buckets : found[size][b] <= references[b]
    /\ widths \in Nat /\ Tallied(references, widths)
    /\ rank1 \in [buckets : [E!Buckets -> [hits : Nat, total : Nat]], hits : Nat, total : Nat]
    /\ Tallied(Totals, rank1.total)
    /\ Tallied(Hits, rank1.hits)

\* The inductive invariant.
RatingInv ==
    /\ at.frame \in 0 .. MaxFrames
    /\ pass \in {"frame", "detect", "faces", "report"}
    /\ RatingTyped /\ Counted /\ Tables

LEMMA RatingInit ==
    ASSUME E!Measurable, E!Init
    PROVE  RatingInv
<1>1. /\ at.frame = 0 /\ at.labels = {} /\ pass = "frame" /\ widths = 0
      /\ references = [b \in E!Buckets |-> 0]
      /\ found = [size \in Sizes |-> [b \in E!Buckets |-> 0]]
      /\ genuine = <<>> /\ impostor = <<>> /\ scored = <<>>
      /\ rank1 = [buckets |-> [b \in E!Buckets |-> [hits |-> 0, total |-> 0]],
                  hits |-> 0, total |-> 0]
  BY DEF E!Init
<1>2. /\ <<>> \in Seq(Scores) /\ <<>> \in Seq(Shown) /\ Len(<<>>) = 0 /\ DOMAIN <<>> = {}
  OBVIOUS
<1>3. RatingTyped
  BY <1>1, <1>2 DEF RatingTyped
<1>4. E!Strangers = {} /\ \A t : E!Mistaken(t) = 0
  <2>1. E!Strangers = {}
    BY <1>1, <1>2 DEF E!Strangers
  <2>2. \A t : E!Mistaken(t) = Cardinality({})
    BY <2>1, RatingSame DEF E!Mistaken
  <2>3. QED
    BY <2>1, <2>2, FS_EmptySet
<1>5. \A t : E!Rejected(t) = 0 /\ E!Accepted(t) = 0
  <2>1. \A t : E!Rejected(t) = Cardinality({}) /\ E!Accepted(t) = Cardinality({})
    BY <1>1, <1>2, RatingSame DEF E!Rejected, E!Accepted
  <2>2. QED
    BY <2>1, FS_EmptySet
<1>6. Counted
  <2>1. \A t : Cardinality(Share(scored, Unmatched(t))) = 0
    BY <1>1, ShareOfNone
  <2>2. 0 <= 0 /\ Cardinality({}) = 0 /\ IsFiniteSet({})
    BY FS_EmptySet
  <2>3. QED
    BY <1>1, <1>2, <1>4, <1>5, <2>1, <2>2 DEF Counted
<1>7. Tables
  <2>1. \A b \in E!Buckets : references[b] = 0 /\ Totals[b] = 0 /\ Hits[b] = 0
    BY <1>1 DEF Totals, Hits
  <2>2. Tallied(references, 0) /\ Tallied(Totals, 0) /\ Tallied(Hits, 0)
    BY <2>1, TalliedNone
  <2>3. rank1.total = 0 /\ rank1.hits = 0
    BY <1>1
  <2>4. QED
    BY <1>1, <2>2, <2>3 DEF Tables
<1>8. at.frame \in 0 .. MaxFrames
  BY <1>1 DEF E!Measurable
<1>9. QED
  BY <1>1, <1>3, <1>6, <1>7, <1>8 DEF RatingInv

\* What scores no face leaves the rates alone.
LEMMA RatesStay ==
    ASSUME RatingTyped, Counted, UNCHANGED <<genuine, impostor, scored>>,
           at'.labels \in Directories \cup {{}}
    PROVE  RatingTyped' /\ Counted'
<1>1. RatingTyped'
  BY DEF RatingTyped, Shown
<1>2. E!Strangers' = E!Strangers
  BY DEF E!Strangers
<1>3. \A t : /\ E!Rejected(t)' = E!Rejected(t) /\ E!Accepted(t)' = E!Accepted(t)
             /\ E!Mistaken(t)' = E!Mistaken(t) /\ Share(scored, Unmatched(t))' = Share(scored, Unmatched(t))
  BY <1>2 DEF E!Rejected, E!Accepted, E!Mistaken, Share, Unmatched, Faces, E!Present
<1>4. QED
  BY <1>1, <1>2, <1>3 DEF Counted

LEMMA TablesStay ==
    ASSUME Tables, UNCHANGED <<references, found, widths, rank1>>
    PROVE  Tables'
BY DEF Tables, Tallied, Share, Totals, Hits

\* The reference pass counts each of its faces in the bucket it is in.
LEMMA DetectTallies ==
    ASSUME E!Measurable, Tables, NEW n \in 0 .. MaxReferences, NEW faces \in [1 .. n -> Widths],
           NEW matches \in [Sizes -> [1 .. n -> 0 .. 2]], E!Detect(faces, matches)
    PROVE  Tables'
<1> DEFINE more == [i \in 1 .. n |-> E!BucketOf(faces[i])]
<1>1. /\ widths' = widths + Len(faces)
      /\ references' = [b \in E!Buckets |-> references[b] + Cardinality(E!InBucket(faces, b))]
      /\ found' = [size \in Sizes |-> [b \in E!Buckets |->
                     found[size][b]
                     + Cardinality({i \in E!InBucket(faces, b) : matches[size][i] > 0})]]
      /\ UNCHANGED rank1
  BY RatingSame DEF E!Detect
<1>2. n \in Nat /\ Len(faces) = n /\ DOMAIN faces = 1 .. n
  <2>1. n \in Nat
    BY DEF E!Measurable
  <2>2. faces \in Seq(Widths) /\ DOMAIN faces = 1 .. n
    BY <2>1 DEF Seq
  <2>3. QED
    BY <2>1, <2>2, LenProperties
<1>3. more \in Seq(E!Buckets) /\ Len(more) = n /\ DOMAIN more = 1 .. n
  <2>1. more \in [1 .. n -> E!Buckets]
    BY DEF E!Buckets
  <2> HIDE DEF more
  <2>2. more \in Seq(E!Buckets) /\ DOMAIN more = 1 .. n
    BY <1>2, <2>1 DEF Seq
  <2>3. QED
    BY <1>2, <2>2, LenProperties
<1>4. \A b \in E!Buckets : E!InBucket(faces, b) = Share(more, {b})
  BY <1>2 DEF E!InBucket, Share
<1> HIDE DEF more
<1>5. \A b : IsFiniteSet(Share(more, {b})) /\ Cardinality(Share(more, {b})) \in Nat
  BY <1>3, ShareOfSequence
<1>6. /\ references \in [E!Buckets -> Nat] /\ found \in [Sizes -> [E!Buckets -> Nat]]
      /\ \A size \in Sizes, b \in E!Buckets : found[size][b] <= references[b]
      /\ widths \in Nat /\ Tallied(references, widths)
  BY DEF Tables
<1>7. \A b \in E!Buckets : references'[b] = references[b] + Cardinality(Share(more, {b}))
  BY <1>1, <1>4
<1>8. Tallied(references', widths') /\ widths' \in Nat
  <2>1. Tallied(references', widths + Len(more))
    BY <1>3, <1>6, <1>7, TalliedGrows
  <2>2. widths' = widths + Len(more) /\ widths' \in Nat
    BY <1>1, <1>2, <1>3, <1>6
  <2>3. QED
    BY <2>1, <2>2
<1>9. references' \in [E!Buckets -> Nat]
  <2>1. \A b \in E!Buckets : references[b] + Cardinality(Share(more, {b})) \in Nat
    BY <1>5, <1>6
  <2>2. QED
    BY <1>1, <1>4, <2>1
<1>10. ASSUME NEW size \in Sizes, NEW b \in E!Buckets
       PROVE  found'[size][b] \in Nat /\ found'[size][b] <= references'[b]
  <2> DEFINE hit == {i \in E!InBucket(faces, b) : matches[size][i] > 0}
  <2>1. hit \subseteq Share(more, {b})
    BY <1>4
  <2>2. IsFiniteSet(hit) /\ Cardinality(hit) <= Cardinality(Share(more, {b}))
    <3> HIDE DEF hit
    <3>1. QED
      BY <1>5, <2>1, FS_Subset
  <2>3. Cardinality(hit) \in Nat
    <3> HIDE DEF hit
    <3>1. QED
      BY <2>2, FS_CardinalityType
  <2>4. found'[size][b] = found[size][b] + Cardinality(hit)
    BY <1>1
  <2> HIDE DEF hit
  <2>5. found[size][b] \in Nat /\ references[b] \in Nat /\ found[size][b] <= references[b]
    BY <1>6
  <2> DEFINE few == Cardinality(hit)
             many == Cardinality(Share(more, {b}))
  <2>6. /\ few \in Nat /\ many \in Nat /\ few <= many
        /\ found'[size][b] = found[size][b] + few /\ references'[b] = references[b] + many
    BY <1>5, <1>7, <2>2, <2>3, <2>4
  <2> HIDE DEF few, many
  <2>7. QED
    BY <2>5, <2>6
<1>11. found' \in [Sizes -> [E!Buckets -> Nat]]
  <2> DEFINE g(size, b) == found[size][b]
                + Cardinality({i \in E!InBucket(faces, b) : matches[size][i] > 0})
  <2>1. found' = [size \in Sizes |-> [b \in E!Buckets |-> g(size, b)]]
    BY <1>1
  <2>2. \A size \in Sizes : \A b \in E!Buckets : g(size, b) = found'[size][b]
    BY <2>1
  <2> HIDE DEF g
  <2>3. \A size \in Sizes : \A b \in E!Buckets : g(size, b) \in Nat
    BY <1>10, <2>2
  <2>4. QED
    BY <2>1, <2>3
<1>12. /\ rank1' = rank1 /\ Totals' = Totals /\ Hits' = Hits
       /\ rank1 \in [buckets : [E!Buckets -> [hits : Nat, total : Nat]], hits : Nat, total : Nat]
       /\ Tallied(Totals, rank1.total) /\ Tallied(Hits, rank1.hits)
  BY <1>1 DEF Tables, Totals, Hits
<1>13. QED
  BY <1>8, <1>9, <1>10, <1>11, <1>12 DEF Tables

\* A face adds one to the table of ranks, in its bucket and in all, and a hit if it is one.
LEMMA RankTallies ==
    ASSUME E!Measurable, Tables, NEW width \in Widths, NEW hit \in BOOLEAN,
           E!NoteRank1(width, hit), UNCHANGED <<references, found, widths>>
    PROVE  Tables'
<1> DEFINE bucket == E!BucketOf(width)
           n == IF hit THEN 1 ELSE 0
           old == rank1.buckets
           new == [old EXCEPT ![bucket] = [hits |-> @.hits + n, total |-> @.total + 1]]
           more == IF hit THEN <<bucket>> ELSE <<>>
<1>1. rank1' = [buckets |-> new, hits |-> rank1.hits + n, total |-> rank1.total + 1]
  BY DEF E!NoteRank1
<1>2. bucket \in E!Buckets /\ n \in Nat
  BY DEF E!Buckets
<1>3. /\ old \in [E!Buckets -> [hits : Nat, total : Nat]]
      /\ rank1.hits \in Nat /\ rank1.total \in Nat
      /\ Tallied(Totals, rank1.total) /\ Tallied(Hits, rank1.hits)
  BY DEF Tables
<1>4. <<bucket>> \in Seq(E!Buckets) /\ Len(<<bucket>>) = 1
  BY <1>2
<1>5. more \in Seq(E!Buckets) /\ Len(more) = n
  BY <1>2
<1>6. \A b : /\ Cardinality(Share(<<bucket>>, {b})) = (IF bucket = b THEN 1 ELSE 0)
             /\ Cardinality(Share(more, {b})) = (IF bucket = b THEN n ELSE 0)
  <2>1. \A b : Cardinality(Share(<<bucket>>, {b})) = (IF bucket = b THEN 1 ELSE 0)
    BY ShareOfOne
  <2>2. \A b : Cardinality(Share(<<>>, {b})) = 0
    BY ShareOfNone
  <2> HIDE DEF bucket
  <2>3. QED
    BY <2>1, <2>2
<1> HIDE DEF bucket, n, old, more
<1>7. /\ new \in [E!Buckets -> [hits : Nat, total : Nat]]
      /\ \A b \in E!Buckets :
            /\ new[b].total = old[b].total + (IF bucket = b THEN 1 ELSE 0)
            /\ new[b].hits = old[b].hits + (IF bucket = b THEN n ELSE 0)
  BY <1>2, <1>3
<1> HIDE DEF new
<1>8. rank1'.buckets = new /\ rank1'.hits = rank1.hits + n /\ rank1'.total = rank1.total + 1
  BY <1>1
<1>9. \A b \in E!Buckets :
         /\ Totals[b] = old[b].total /\ Hits[b] = old[b].hits
         /\ Totals'[b] = new[b].total /\ Hits'[b] = new[b].hits
  BY <1>8 DEF Totals, Hits, old
<1>10. Tallied(Totals', rank1.total + Len(<<bucket>>))
  <2>1. \A b \in E!Buckets : Totals'[b] = Totals[b] + Cardinality(Share(<<bucket>>, {b}))
    BY <1>6, <1>7, <1>9
  <2>2. QED
    BY <1>3, <1>4, <2>1, TalliedGrows
<1>11. Tallied(Hits', rank1.hits + Len(more))
  <2>1. \A b \in E!Buckets : Hits'[b] = Hits[b] + Cardinality(Share(more, {b}))
    BY <1>6, <1>7, <1>9
  <2>2. QED
    BY <1>3, <1>5, <2>1, TalliedGrows
<1>12. Tallied(Totals', rank1'.total) /\ Tallied(Hits', rank1'.hits)
  BY <1>4, <1>5, <1>8, <1>10, <1>11
<1>13. rank1' \in [buckets : [E!Buckets -> [hits : Nat, total : Nat]], hits : Nat, total : Nat]
  BY <1>1, <1>2, <1>3, <1>7
<1>14. /\ references' = references /\ found' = found /\ widths' = widths
       /\ Tallied(references', widths') = Tallied(references, widths)
  OBVIOUS
<1>15. QED
  BY <1>12, <1>13, <1>14 DEF Tables

LEMMA RatingStep ==
    ASSUME E!Measurable, RatingInv, [E!Next]_(E!vars)
    PROVE  RatingInv'
<1>0. RatingTyped /\ Counted /\ Tables /\ at.labels \in Directories \cup {{}}
      /\ at.frame \in 0 .. MaxFrames /\ MaxFrames \in Nat
  BY DEF RatingInv, RatingTyped, E!Measurable
<1>1. CASE UNCHANGED E!vars
  <2>1. UNCHANGED <<at, pass, references, widths, found, genuine, impostor, rank1, scored>>
    BY <1>1 DEF E!vars
  <2>2. RatingTyped' /\ Counted' /\ Tables'
    BY <1>0, <2>1, RatesStay, TablesStay
  <2>3. QED
    BY <2>1, <2>2 DEF RatingInv
<1>2. ASSUME NEW labels \in Directories, E!ReadFrame(labels) PROVE RatingInv'
  <2>1. /\ at.frame < MaxFrames /\ at' = [frame |-> at.frame + 1, labels |-> labels]
        /\ pass' \in {"detect", "frame"}
        /\ UNCHANGED <<references, widths, found, genuine, impostor, rank1, scored>>
    BY <1>2 DEF E!ReadFrame
  <2>2. at'.labels \in Directories \cup {{}} /\ at'.frame \in 0 .. MaxFrames
    BY <1>0, <2>1
  <2>3. RatingTyped' /\ Counted' /\ Tables'
    BY <1>0, <2>1, <2>2, RatesStay, TablesStay
  <2>4. QED
    BY <2>1, <2>2, <2>3 DEF RatingInv
<1>3. ASSUME NEW n \in 0 .. MaxReferences, NEW faces \in [1 .. n -> Widths],
             NEW matches \in [Sizes -> [1 .. n -> 0 .. 2]], E!Detect(faces, matches)
      PROVE  RatingInv'
  <2>1. pass' = "faces" /\ UNCHANGED <<at, genuine, impostor, rank1, scored>>
    BY <1>3 DEF E!Detect
  <2>2. Tables'
    BY <1>0, <1>3, DetectTallies
  <2>3. RatingTyped' /\ Counted'
    BY <1>0, <2>1, RatesStay
  <2>4. QED
    BY <1>0, <2>1, <2>2, <2>3 DEF RatingInv
<1>4. ASSUME NEW width \in Widths, NEW scores \in [Employees -> Scores],
             E!ScoreFace(width, scores)
      PROVE  RatingInv'
  <2>1. /\ UNCHANGED <<at, pass, references, widths, found>>
        /\ \/ UNCHANGED rank1
           \/ \E hit \in BOOLEAN : E!NoteRank1(width, hit)
    <3>1. /\ UNCHANGED <<at, pass, references, widths, found>>
          /\ at.labels # {} => \E first \in Employees : E!NoteRank1(width, first \in at.labels)
          /\ at.labels = {} => UNCHANGED rank1
      BY <1>4, Zenon DEF E!ScoreFace
    <3>2. ASSUME NEW first \in Employees, E!NoteRank1(width, first \in at.labels)
          PROVE  E!NoteRank1(width, TRUE) \/ E!NoteRank1(width, FALSE)
      <4>1. CASE first \in at.labels
        BY <3>2, <4>1 DEF E!NoteRank1
      <4>2. CASE first \notin at.labels
        BY <3>2, <4>2 DEF E!NoteRank1
      <4>3. QED
        BY <4>1, <4>2
    <3>3. QED
      BY <3>1, <3>2, Zenon
  <2>2. RatingTyped' /\ Counted'
    BY <1>0, <1>4, ScoreFaceCounts
  <2>3. Tables'
    BY <1>0, <2>1, TablesStay, RankTallies
  <2>4. QED
    BY <2>1, <2>2, <2>3 DEF RatingInv
<1>5. ASSUME E!EndFrame \/ E!Finish PROVE RatingInv'
  <2>1. /\ pass' \in {"frame", "report"}
        /\ UNCHANGED <<at, references, widths, found, genuine, impostor, rank1, scored>>
    BY <1>5 DEF E!EndFrame, E!Finish
  <2>2. RatingTyped' /\ Counted' /\ Tables'
    BY <1>0, <2>1, RatesStay, TablesStay
  <2>3. QED
    BY <2>1, <2>2 DEF RatingInv
<1>6. QED
  BY <1>1, <1>2, <1>3, <1>4, <1>5 DEF E!Next

\* What RatingStep keeps is true throughout: the tables tally the faces, and the scores
\* are those of the people in shot and of the strangers.
THEOREM RatingInvariance ==
    ASSUME E!Measurable
    PROVE  E!Spec => []RatingInv
<1>1. E!Init => RatingInv
  BY RatingInit
<1>2. RatingInv /\ [E!Next]_(E!vars) => RatingInv'
  BY RatingStep
<1>3. QED
  BY <1>1, <1>2, PTL DEF E!Spec

-------------------------------------------------------------------------------
(* Evaluation: the report *)

\* The lowest threshold that accepts few enough strangers also rejects the fewest faces.
LEMMA LowestIsKindest ==
    ASSUME E!Measurable, RatingTyped, Counted
    PROVE  E!OperatingPointIsLowest
<1> SUFFICES ASSUME NEW target \in Targets
             PROVE  LET allowed == {t \in Thresholds :
                               E!Mistaken(t) * target[2] <= target[1] * Cardinality(E!Strangers)}
                    IN  E!ThresholdAtFar(target) = IF allowed = {} THEN {} ELSE {Min(allowed)}
  BY RatingSame DEF E!OperatingPointIsLowest
<1> DEFINE allowed == {t \in Thresholds :
                          E!Mistaken(t) * target[2] <= target[1] * Cardinality(E!Strangers)}
           kindest == {t \in allowed : \A o \in allowed : E!Rejected(t) <= E!Rejected(o)}
           lowest == {t \in kindest : \A o \in kindest : t <= o}
<1>1. Thresholds \subseteq Int /\ IsFiniteSet(Thresholds)
  BY RatingSame DEF E!Measurable
<1>2. allowed = {t \in Thresholds : E!Accepted(t) * target[2] <= target[1] * Len(impostor)}
  BY <1>1 DEF Counted
<1>3. E!ThresholdAtFar(target) = lowest
  BY <1>2 DEF E!ThresholdAtFar
<1>4. allowed \subseteq Int /\ IsFiniteSet(allowed)
  BY <1>1, FS_Subset
<1> HIDE DEF allowed
<1>5. ASSUME NEW t \in Int PROVE E!Rejected(t) \in Nat
  <2>1. E!Rejected(t) = Cardinality(Share(genuine, Under(t)))
    BY RatesAreShares
  <2>2. QED
    BY <2>1, ShareOfSequence DEF RatingTyped
<1>6. ASSUME NEW t \in Int, NEW o \in Int, t <= o
      PROVE  E!Rejected(t) <= E!Rejected(o)
  <2>1. /\ E!Rejected(t) = Cardinality(Share(genuine, Under(t)))
        /\ E!Rejected(o) = Cardinality(Share(genuine, Under(o)))
    BY RatesAreShares
  <2>2. Under(t) \subseteq Under(o)
    BY <1>6 DEF Under
  <2>3. Share(genuine, Under(t)) \subseteq Share(genuine, Under(o))
    BY <2>2 DEF Share
  <2>4. IsFiniteSet(Share(genuine, Under(o)))
    BY ShareOfSequence DEF RatingTyped
  <2>5. QED
    BY <2>1, <2>3, <2>4, FS_Subset
<1>7. ASSUME allowed = {} PROVE lowest = {}
  BY <1>7
<1>8. ASSUME allowed # {} PROVE lowest = {Min(allowed)}
  <2> DEFINE m == Min(allowed)
  <2>1. m \in allowed /\ m \in Int /\ \A t \in allowed : t \in Int /\ m <= t
    BY <1>4, <1>8, FiniteMin
  <2> HIDE DEF m
  <2>2. m \in kindest
    BY <1>6, <2>1
  <2>3. \A t \in kindest : t \in Int /\ m <= t
    BY <2>1
  <2> HIDE DEF kindest
  <2>4. lowest = {m}
    <3>1. m \in lowest
      BY <2>2, <2>3
    <3>2. ASSUME NEW t \in lowest PROVE t = m
      <4>1. t \in Int /\ m <= t /\ t <= m
        BY <2>2, <2>3
      <4>2. QED
        BY <2>1, <4>1
    <3>3. QED
      BY <3>1, <3>2
  <2>5. QED
    BY <2>4 DEF m
<1> HIDE DEF lowest
<1>9. E!ThresholdAtFar(target) = IF allowed = {} THEN {} ELSE {Min(allowed)}
  BY <1>3, <1>7, <1>8
<1>10. QED
  BY <1>9 DEF allowed

\* A face's people are under a threshold in the property as in the invariant.
LEMMA FacesAreShares ==
    ASSUME E!Measurable, RatingTyped, Counted
    PROVE  E!RatesArePeoples
<1> SUFFICES ASSUME NEW t \in Thresholds
             PROVE  /\ E!Rejected(t) =
                          Cardinality({i \in DOMAIN scored :
                              /\ E!Present(scored[i].labels) # {}
                              /\ \A e \in E!Present(scored[i].labels) : scored[i].scores[e] < t})
                    /\ E!Accepted(t) = E!Mistaken(t)
  BY RatingSame DEF E!RatesArePeoples
<1>1. t \in Int
  BY DEF E!Measurable
<1>2. \A i \in DOMAIN scored : scored[i] \in Shown
  BY LenProperties, ElementOfSeq DEF RatingTyped
<1>3. Share(scored, Unmatched(t)) =
         {i \in DOMAIN scored :
             /\ E!Present(scored[i].labels) # {}
             /\ \A e \in E!Present(scored[i].labels) : scored[i].scores[e] < t}
  BY <1>2 DEF Share, Unmatched, Faces
<1>4. QED
  BY <1>1, <1>3 DEF Counted

LEMMA RatingInvImplies ==
    ASSUME E!Measurable, RatingInv
    PROVE  /\ E!TypeOK /\ E!TablesAddUp /\ E!RatesArePeoples
           /\ E!OperatingPointIsLowest
<1>1. RatingTyped /\ Counted /\ Tables
  BY DEF RatingInv
<1>2. E!TypeOK
  BY <1>1 DEF RatingInv, RatingTyped, Counted, Tables, E!TypeOK
<1>3. E!Printed(references) = widths
  BY <1>1, TalliedAddsUp DEF Tables
<1>4. E!Printed(Totals) = rank1.total /\ E!Printed(Hits) = rank1.hits
  BY <1>1, TalliedAddsUp DEF Tables
<1>5. E!TablesAddUp
  BY <1>1, <1>3, <1>4 DEF E!TablesAddUp, Tables, Totals, Hits
<1>6. QED
  BY <1>1, <1>2, <1>5, LowestIsKindest, FacesAreShares


-------------------------------------------------------------------------------
(* The composition *)

\* A step is a step of the algorithm this behaviour is about, and the others stand still.
LEMMA AlgorithmsStepOfOne ==
    ASSUME [AlgorithmsNext]_all
    PROVE  /\ [Next]_vars
           /\ [R!Next]_(R!vars)
           /\ [N!Next]_(N!vars)
           /\ [E!Next]_(E!vars)
           /\ [W!Next]_(W!vars)
           /\ [P!Next]_(P!vars)
BY DEF AlgorithmsNext, OfLimiter, OfNaming, OfRating, OfPage, OfCrops, OfCamera, all,
       hitting, naming, rating, page, crops, R!vars, N!vars, E!vars, W!vars, P!vars

\* A behaviour of the algorithms is one of each.
THEOREM AlgorithmsCompose ==
    AlgorithmsSpec => Spec /\ R!Spec /\ N!Spec /\ E!Spec /\ W!Spec /\ P!Spec
<1>1. AlgorithmsInit => Init /\ R!Init /\ N!Init /\ E!Init /\ W!Init /\ P!Init
  BY DEF AlgorithmsInit
<1>2. [AlgorithmsNext]_all =>
         /\ [Next]_vars
         /\ [R!Next]_(R!vars)
         /\ [N!Next]_(N!vars)
         /\ [E!Next]_(E!vars)
         /\ [W!Next]_(W!vars)
         /\ [P!Next]_(P!vars)
  BY AlgorithmsStepOfOne
<1>3. QED
  BY <1>1, <1>2, PTL
     DEF AlgorithmsSpec, Spec, R!Spec, N!Spec, E!Spec, W!Spec, P!Spec

\* However its threads interleave, and however late one reads the clock, the limiter
\* serves no client more than the limit in a window.
THEOREM AlgorithmsLimit == AlgorithmsSpec => []WindowIsBounded
<1>1. LimiterInv => WindowIsBounded
  BY DEF LimiterInv, WindowIsBounded
<1>2. R!Spec => []LimiterInv
  BY LimiterInvariance, AlgorithmsAssumption
<1>3. QED
  BY <1>1, <1>2, AlgorithmsCompose, PTL

\* The pool of neighbours, however many photos an employee has, gives the best K employees
\* of one gallery with the score of each one's best photo, and no other.
THEOREM AlgorithmsTopK == AlgorithmsSpec => []AnswerIsTopK
<1>1. NamingInv => AnswerIsTopK
  BY NamingInvImplies, AlgorithmsAssumption DEF AnswerIsTopK
<1>2. N!Spec => []NamingInv
  BY NamingInvariance, AlgorithmsAssumption
<1>3. QED
  BY <1>1, <1>2, AlgorithmsCompose, PTL

\* A face is named after an employee who is alike enough and ahead of every other one.
THEOREM AlgorithmsName == AlgorithmsSpec => []NamedAfterClearWinner
<1>1. NamingInv => NamedAfterClearWinner
  BY NamingInvImplies, AlgorithmsAssumption DEF NamedAfterClearWinner
<1>2. N!Spec => []NamingInv
  BY NamingInvariance, AlgorithmsAssumption
<1>3. QED
  BY <1>1, <1>2, AlgorithmsCompose, PTL

\* The tables of a report add up to the faces it counted, its rates are those of the
\* people in shot, and the threshold it recommends is the lowest that meets the target.
THEOREM AlgorithmsReport == AlgorithmsSpec => []ReportIsTrue
<1>1. RatingInv => ReportIsTrue
  BY RatingInvImplies, AlgorithmsAssumption DEF ReportIsTrue
<1>2. E!Spec => []RatingInv
  BY RatingInvariance, AlgorithmsAssumption
<1>3. QED
  BY <1>1, <1>2, AlgorithmsCompose, PTL

\* The palm badge is what the last scans that agreed saw, for any number of them.
THEOREM AlgorithmsBadge == AlgorithmsSpec => []BadgeIsLastConfirmed
<1>1. PageInv => BadgeIsLastConfirmed
  BY DEF PageInv, BadgeIsLastConfirmed
<1>2. W!Spec => []PageInv
  BY PageInvariance, AlgorithmsAssumption
<1>3. QED
  BY <1>1, <1>2, AlgorithmsCompose, PTL

\* A hand that fits the pads and fills enough of a tile is seen wherever it is in a
\* frame of any size, cut by any grid.
THEOREM AlgorithmsHand == AlgorithmsSpec => []HandIsSeen
<1>1. CropsInv => HandIsSeen
  BY CropsInvImplies, AlgorithmsAssumption DEF HandIsSeen
<1>2. P!Spec => []CropsInv
  BY CropsInvariance, AlgorithmsAssumption
<1>3. QED
  BY <1>1, <1>2, AlgorithmsCompose, PTL

\* The camera keeps its rules in the composition: one loop, a status that tells what the
\* loop does, and no frame of a run that ended.
THEOREM AlgorithmsCamera ==
    AlgorithmsSpec => [](AtMostOneLoop /\ StatusIsTrue /\ StoppedHubIsEmpty)
<1>1. Spec => []AtMostOneLoop
  BY OneLoop, AlgorithmsAssumption
<1>2. Spec => []StatusIsTrue
  BY StatusTrue, AlgorithmsAssumption
<1>3. Spec => []StoppedHubIsEmpty
  BY HubEmpty, AlgorithmsAssumption
<1>4. QED
  BY <1>1, <1>2, <1>3, AlgorithmsCompose, PTL
=============================================================================
