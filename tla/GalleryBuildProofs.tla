-------------------------- MODULE GalleryBuildProofs --------------------------
(***************************************************************************)
(* Theorems about GalleryBuild for every listing of employees and any      *)
(* number of edits, failures, reloads, kills and models: what is served    *)
(* is of one model, of the right employee and of a photo that is new       *)
(* enough, and whoever could be reached is in it.                          *)
(***************************************************************************)
EXTENDS GalleryBuild, SequenceTheorems, WellFoundedInduction, TLAPS

-------------------------------------------------------------------------------
(* Selected, and the last row with a key *)

\* Induction over the natural numbers, of a set.
LEMMA NatSetInduction ==
    ASSUME NEW S, 0 \in S, \A n \in Nat : n \in S => n + 1 \in S
    PROVE  Nat \subseteq S
<1> DEFINE T == {n \in Nat : n \notin S}
           R == OpToRel(<, Nat)
<1>1. SUFFICES ASSUME T # {} PROVE FALSE
  OBVIOUS
<1>2. PICK m \in T : \A y \in T : ~(<<y, m>> \in R)
  BY <1>1, NatLessThanWellFounded, WFMin, Zenon
<1>3. m \in Nat /\ m # 0 /\ m - 1 \in Nat
  OBVIOUS
<1>4. <<m - 1, m>> \in R
  BY <1>3 DEF OpToRel
<1>5. m - 1 \in S
  BY <1>2, <1>3, <1>4
<1>6. QED
  BY <1>3, <1>5

\* One element more: what the function of Selected makes of s up to n.
Longer(s, wanted, n, f) ==
    f = [i \in 0 .. n |->
            IF i = 0 THEN <<>>
            ELSE IF s[i] \in wanted THEN Append(f[i - 1], s[i]) ELSE f[i - 1]]

LEMMA LongerExists ==
    ASSUME NEW s, NEW wanted, NEW n \in Nat
    PROVE  \E f : Longer(s, wanted, n, f)
<1> DEFINE D == {m \in Nat : \E f : Longer(s, wanted, m, f)}
<1>1. 0 \in D
  <2> DEFINE f == [i \in 0 .. 0 |-> <<>>]
  <2>1. f = [i \in 0 .. 0 |-> IF i = 0 THEN <<>> ELSE IF s[i] \in wanted THEN Append(f[i - 1], s[i]) ELSE f[i - 1]]
    OBVIOUS
  <2>2. Longer(s, wanted, 0, f)
    BY <2>1 DEF Longer
  <2>3. QED
    BY <2>2
<1>2. ASSUME NEW m \in Nat, m \in D
      PROVE  m + 1 \in D
  <2>1. PICK f : Longer(s, wanted, m, f)
    BY <1>2
  <2> DEFINE last == IF s[m + 1] \in wanted THEN Append(f[m], s[m + 1]) ELSE f[m]
             g == [i \in 0 .. m + 1 |-> IF i = m + 1 THEN last ELSE f[i]]
  <2>2. DOMAIN f = 0 .. m /\ \A i \in 0 .. m : f[i] = IF i = 0 THEN <<>>
            ELSE IF s[i] \in wanted THEN Append(f[i - 1], s[i]) ELSE f[i - 1]
    BY <2>1 DEF Longer
  <2>3. ASSUME NEW i \in 0 .. m + 1
        PROVE  g[i] = IF i = 0 THEN <<>>
                      ELSE IF s[i] \in wanted THEN Append(g[i - 1], s[i]) ELSE g[i - 1]
    <3>1. CASE i = m + 1
      <4>1. i # 0 /\ i - 1 = m /\ m # m + 1 /\ m \in 0 .. m + 1
        BY <3>1
      <4>2. g[i] = last /\ g[i - 1] = f[m]
        BY <3>1, <4>1
      <4>3. QED
        BY <3>1, <4>1, <4>2
    <3>2. CASE i # m + 1 /\ i # 0
      <4>1. i \in 0 .. m /\ i - 1 \in 0 .. m + 1 /\ i - 1 # m + 1
        BY <3>2
      <4>2. g[i] = f[i] /\ g[i - 1] = f[i - 1]
        BY <3>2, <4>1
      <4>3. QED
        BY <2>2, <3>2, <4>1, <4>2
    <3>3. CASE i = 0
      BY <2>2, <3>3
    <3>4. QED
      BY <3>1, <3>2, <3>3
  <2>4. g = [i \in 0 .. m + 1 |-> IF i = 0 THEN <<>>
                      ELSE IF s[i] \in wanted THEN Append(g[i - 1], s[i]) ELSE g[i - 1]]
    <3>1. DOMAIN g = 0 .. m + 1 /\ g = [i \in 0 .. m + 1 |-> g[i]]
      OBVIOUS
    <3> HIDE DEF g
    <3>2. QED
      BY <2>3, <3>1, Zenon
  <2>5. Longer(s, wanted, m + 1, g)
    BY <2>4, Zenon DEF Longer
  <2>6. \E h : Longer(s, wanted, m + 1, h)
    BY <2>5, Zenon
  <2>7. m + 1 \in Nat
    OBVIOUS
  <2>8. QED
    BY <2>6, <2>7, Zenon
<1> HIDE DEF D
<1>3. Nat \subseteq D
  BY <1>1, <1>2, NatSetInduction
<1>4. QED
  BY <1>3 DEF D

\* Selected answers the elements of s that are wanted, and no others; each of the type of s.
LEMMA SelectedElements ==
    ASSUME NEW S, NEW s \in Seq(S), NEW wanted
    PROVE  /\ Selected(s, wanted) \in Seq(S)
           /\ \A x : (\E k \in DOMAIN Selected(s, wanted) : Selected(s, wanted)[k] = x)
                        <=> (\E i \in DOMAIN s : s[i] = x) /\ x \in wanted
<1>1. Len(s) \in Nat /\ DOMAIN s = 1 .. Len(s)
  BY LenProperties
<1>2. PICK f : Longer(s, wanted, Len(s), f) /\ Selected(s, wanted) = f[Len(s)]
  <2> DEFINE g == CHOOSE f : Longer(s, wanted, Len(s), f)
  <2>1. Longer(s, wanted, Len(s), g)
    BY <1>1, LongerExists, Zenon
  <2>2. Selected(s, wanted) = g[Len(s)]
    BY Zenon DEF Selected, Longer
  <2>3. QED
    BY <2>1, <2>2, Zenon
<1>3. \A i \in 0 .. Len(s) : f[i] = IF i = 0 THEN <<>>
            ELSE IF s[i] \in wanted THEN Append(f[i - 1], s[i]) ELSE f[i - 1]
  BY <1>2 DEF Longer
<1> DEFINE
      Right(n) == /\ f[n] \in Seq(S)
                  /\ \A x : (\E k \in DOMAIN f[n] : f[n][k] = x)
                               <=> (\E i \in 1 .. n : s[i] = x) /\ x \in wanted
      D == {n \in Nat : n \in 0 .. Len(s) => Right(n)}
<1>4. 0 \in D
  <2>1. f[0] = <<>>
    BY <1>1, <1>3
  <2>2. f[0] \in Seq(S) /\ DOMAIN f[0] = {}
    <3>1. <<>> \in Seq(S) /\ DOMAIN <<>> = {}
      OBVIOUS
    <3>2. QED
      BY <2>1, <3>1, Zenon
  <2>3. 1 .. 0 = {}
    OBVIOUS
  <2>4. Right(0)
    BY <2>2, <2>3, Zenon
  <2>5. QED
    BY <2>4
<1>5. ASSUME NEW n \in Nat, n \in D
      PROVE  n + 1 \in D
  <2> SUFFICES ASSUME n + 1 \in 0 .. Len(s)
               PROVE  Right(n + 1)
    <3>1. n + 1 \in Nat
      OBVIOUS
    <3>2. QED
      BY <3>1, Zenon
  <2>0. n \in 0 .. Len(s) /\ n + 1 \in DOMAIN s
    BY <1>1
  <2>1. Right(n) /\ s[n + 1] \in S
    <3>1. Right(n)
      BY <1>5, <2>0, Zenon
    <3>2. s[n + 1] \in S
      BY <2>0, ElementOfSeq
    <3>3. QED
      BY <3>1, <3>2
  <2>2. f[n + 1] = IF s[n + 1] \in wanted THEN Append(f[n], s[n + 1]) ELSE f[n]
    <3>1. n + 1 # 0 /\ (n + 1) - 1 = n
      OBVIOUS
    <3>2. QED
      BY <1>3, <3>1
  <2>3. \A x : (\E i \in 1 .. n + 1 : s[i] = x) <=> (\E i \in 1 .. n : s[i] = x) \/ x = s[n + 1]
    <3>1. 1 .. n + 1 = (1 .. n) \cup {n + 1}
      OBVIOUS
    <3>2. QED
      BY <3>1
  <2>4. CASE s[n + 1] \notin wanted
    BY <2>1, <2>2, <2>3, <2>4
  <2>5. CASE s[n + 1] \in wanted
    <3>1. PICK h \in Seq(S), e \in S : h = f[n] /\ e = s[n + 1]
      BY <2>1
    <3>2. f[n + 1] = Append(h, e)
      BY <2>2, <2>5, <3>1
    <3>3. /\ Append(h, e) \in Seq(S)
          /\ \A x : (\E k \in DOMAIN Append(h, e) : Append(h, e)[k] = x)
                       <=> (\E k \in DOMAIN h : h[k] = x) \/ x = e
      <4>1. /\ Append(h, e) \in Seq(S) /\ Len(h) \in Nat
            /\ DOMAIN Append(h, e) = 1 .. Len(h) + 1 /\ DOMAIN h = 1 .. Len(h)
            /\ \A k \in 1 .. Len(h) : Append(h, e)[k] = h[k]
            /\ Append(h, e)[Len(h) + 1] = e
        BY LenProperties
      <4>2. 1 .. Len(h) + 1 = (1 .. Len(h)) \cup {Len(h) + 1}
        BY <4>1
      <4> DEFINE a == Append(h, e)
                 m == Len(h)
      <4>3. \A k \in 1 .. m : a[k] = h[k]
        BY <4>1
      <4>4. a[m + 1] = e
        BY <4>1
      <4>5. DOMAIN a = (DOMAIN h) \cup {m + 1} /\ DOMAIN h = 1 .. m
        BY <4>1, <4>2
      <4> HIDE DEF a, m
      <4>6. \A x : (\E k \in DOMAIN a : a[k] = x) <=> (\E k \in DOMAIN h : h[k] = x) \/ x = e
        BY <4>3, <4>4, <4>5, Zenon
      <4>7. QED
        BY <4>1, <4>6 DEF a
    <3>4. \A x : (\E k \in DOMAIN h : h[k] = x) <=> (\E i \in 1 .. n : s[i] = x) /\ x \in wanted
      BY <2>1, <3>1
    <3>5. e \in wanted /\ \A x : (\E i \in 1 .. n + 1 : s[i] = x) <=> (\E i \in 1 .. n : s[i] = x) \/ x = e
      BY <2>3, <2>5, <3>1
    <3>6. PICK g : g = Append(h, e)
      OBVIOUS
    <3>7. /\ g \in Seq(S)
          /\ \A x : (\E k \in DOMAIN g : g[k] = x)
                       <=> (\E i \in 1 .. n + 1 : s[i] = x) /\ x \in wanted
      <4>1. \A x : (\E k \in DOMAIN g : g[k] = x) <=> (\E k \in DOMAIN h : h[k] = x) \/ x = e
        BY <3>3, <3>6
      <4>2. QED
        BY <3>3, <3>4, <3>5, <3>6, <4>1, Zenon
    <3>8. f[n + 1] = g
      BY <3>2, <3>6
    <3>9. QED
      BY <3>7, <3>8
  <2>6. QED
    BY <2>4, <2>5
<1> HIDE DEF D
<1>6. Nat \subseteq D
  BY <1>4, <1>5, NatSetInduction
<1>7. Right(Len(s))
  <2>1. Len(s) \in D /\ Len(s) \in 0 .. Len(s)
    BY <1>1, <1>6
  <2>2. QED
    BY <2>1, Zenon DEF D
<1>8. QED
  BY <1>1, <1>2, <1>7

\* Whatever holds of a row of a sequence has a last row it holds of.
LEMMA LastRow ==
    ASSUME NEW S, NEW s \in Seq(S), NEW k, NEW i \in DOMAIN s, s[i] = k
    PROVE  \E l \in DOMAIN s : s[l] = k /\ \A j \in DOMAIN s : s[j] = k => j <= l
<1> DEFINE Behind == {n \in Nat : \E l \in DOMAIN s : s[l] = k /\ n = Len(s) - l}
<1>1. DOMAIN s = 1 .. Len(s) /\ Len(s) \in Nat
  BY LenProperties
<1>2. Len(s) - i \in Behind
  BY <1>1
<1>3. PICK m \in Behind : \A n \in Behind : ~(<<n, m>> \in OpToRel(<, Nat))
  BY <1>2, NatLessThanWellFounded, WFMin, Zenon
<1>4. PICK l \in DOMAIN s : s[l] = k /\ m = Len(s) - l
  BY <1>3
<1>5. ASSUME NEW j \in DOMAIN s, s[j] = k
      PROVE  j <= l
  <2>1. Len(s) - j \in Behind /\ Len(s) - j \in Nat /\ m \in Nat
    <3>1. m \in Nat
      BY <1>3, Zenon
    <3>2. Len(s) - j \in Nat
      BY <1>1
    <3>3. Len(s) - j \in Behind
      BY <1>5, <3>2
    <3>4. QED
      BY <3>1, <3>2, <3>3
  <2>2. ~(<<Len(s) - j, m>> \in OpToRel(<, Nat))
    BY <1>3, <2>1, Zenon
  <2>3. ~(Len(s) - j < m)
    BY <2>1, <2>2 DEF OpToRel
  <2>4. QED
    BY <1>1, <1>4, <2>3
<1>6. QED
  BY <1>4, <1>5

-------------------------------------------------------------------------------
(* The inductive invariant *)

Fields == DOMAIN Idle

SpentTyped ==
    /\ DOMAIN spent = {"edits", "reloads", "outages", "faults"}
    /\ spent.edits \in 0 .. MaxEdits

Typed ==
    /\ SpentTyped
    /\ photo \in [Employees -> 0 .. spent.edits + 1]
    /\ TypeOK

-------------------------------------------------------------------------------
(* What a step leaves alone, and the two lists it may compute *)

\* One build takes a step to a place, and the other does not.
Others(b) == \A c \in Builders : c # b => build'[c] = build[c]

Kept(b) ==
    /\ DOMAIN build' = Builders
    /\ DOMAIN build'[b] = Fields
    /\ Others(b)

\* What names the save of a build.
SameSave(b) ==
    /\ build'[b].fingerprint = build[b].fingerprint
    /\ build'[b].listing = build[b].listing

Moved(b, place) ==
    /\ Kept(b)
    /\ SameSave(b)
    /\ build'[b].pc = place
    /\ build'[b].refs = build[b].refs
    /\ build'[b].cached = build[b].cached
    /\ build'[b].entries = build[b].entries
    /\ build'[b].reached = build[b].reached

LEMMA MovesOn ==
    ASSUME DOMAIN build = Builders, NEW b \in Builders, DOMAIN build[b] = Fields, NEW place,
           build' = [build EXCEPT ![b].pc = place]
    PROVE  Moved(b, place)
BY DEF Moved, Kept, SameSave, Others, Fields, Idle

LEMMA Domains ==
    ASSUME Typed
    PROVE  DOMAIN build = Builders /\ \A b \in Builders : DOMAIN build[b] = Fields
BY DEF Typed, TypeOK, BuildTyped, Fields

LEMMA EndsIdle ==
    ASSUME DOMAIN build = Builders, NEW b \in Builders, build' = [build EXCEPT ![b] = Idle]
    PROVE  Kept(b) /\ build'[b] = Idle
BY DEF Kept, Others, Fields

LEMMA Starts ==
    ASSUME DOMAIN build = Builders, NEW b \in Builders, build' = [build EXCEPT ![b] = Started]
    PROVE  Kept(b) /\ build'[b] = Started
BY DEF Kept, Others, Fields, Idle, Started

\* A restart leaves a build at boot and nothing else.
LEMMA StartsOver ==
    ASSUME Restart
    PROVE  DOMAIN build' = Builders /\ \A b \in Builders : build'[b] \in {Started, Idle}
BY DEF Restart

\* The fields of a build that has nothing yet.
LEMMA NothingYet ==
    /\ DOMAIN Idle = Fields /\ DOMAIN Started = Fields
    /\ Idle.pc = "idle" /\ Started.pc = "start"
    /\ \A x \in {Idle, Started} :
          /\ x.fingerprint = 0 /\ x.refs = <<>> /\ x.entries = <<>> /\ x.cached = <<>>
          /\ x.listing = 0 /\ x.reached = {}
BY DEF Idle, Started, Fields

\* Whoever is listed has a photo.
LEMMA ThereHavePhotos ==
    ASSUME NEW reached \in SUBSET Employees
    PROVE  /\ There(reached) \in Seq(Employees)
           /\ \A i \in DOMAIN There(reached) : photo[There(reached)[i]] # NoPhoto
<1>1. Listing \in Seq(Employees)
  BY BuildAssumption DEF Employees
<1> DEFINE wanted == {e \in reached : photo[e] # NoPhoto}
<1>2. /\ Selected(Listing, wanted) \in Seq(Employees)
      /\ \A x : (\E k \in DOMAIN Selected(Listing, wanted) : Selected(Listing, wanted)[k] = x)
                    => x \in wanted
  BY <1>1, SelectedElements, Zenon
<1>3. There(reached) = Selected(Listing, wanted)
  BY DEF There
<1> HIDE DEF wanted
<1>4. \A i \in DOMAIN There(reached) : There(reached)[i] \in wanted
  BY <1>2, <1>3, Zenon
<1>5. QED
  BY <1>2, <1>3, <1>4 DEF wanted

\* List: the photos there are, each at its edition, under a number no save has had.
Lists(b) ==
    /\ Kept(b)
    /\ build[b].pc = "list" /\ build'[b].pc = "listed"
    /\ build'[b].entries = build[b].entries
    /\ build'[b].fingerprint = build[b].fingerprint
    /\ build'[b].listing = listings + 1 /\ listings' = listings + 1
    /\ build'[b].reached \subseteq Employees
    /\ \E x : spent' = [spent EXCEPT !.outages = x]
    /\ \E answered \in SUBSET Employees, there \in Seq(Employees) :
          /\ \A i \in DOMAIN there : photo[there[i]] # NoPhoto
          /\ build'[b].refs = [i \in DOMAIN there |-> Ref(there[i], answered)]

LEMMA ListLists ==
    ASSUME Typed, NEW b \in Builders, List(b)
    PROVE  Lists(b)
<1>1. PICK reached \in SUBSET Employees, answered \in SUBSET Employees :
        /\ spent' = [spent EXCEPT !.outages = @ + (Outages(reached) + Outages(answered \cup Untagged))]
        /\ build' = [build EXCEPT
              ![b].pc = "listed", ![b].listing = listings + 1, ![b].reached = reached,
              ![b].refs = [i \in DOMAIN There(reached) |-> Ref(There(reached)[i], answered)]]
  BY Zenon DEF List
<1> DEFINE there == There(reached)
<1>2. \E x : spent' = [spent EXCEPT !.outages = x]
  BY <1>1, Zenon
<1>3. there \in Seq(Employees) /\ \A i \in DOMAIN there : photo[there[i]] # NoPhoto
  BY ThereHavePhotos
<1>4. PICK refs : refs = [i \in DOMAIN there |-> Ref(there[i], answered)]
  OBVIOUS
<1>5. build' = [build EXCEPT ![b].pc = "listed", ![b].listing = listings + 1,
                             ![b].reached = reached, ![b].refs = refs]
  BY <1>1, <1>4
<1> HIDE DEF there
<1>6. /\ Kept(b) /\ build'[b].pc = "listed" /\ build'[b].entries = build[b].entries
      /\ build'[b].fingerprint = build[b].fingerprint
      /\ build'[b].listing = listings + 1 /\ build'[b].reached \subseteq Employees
      /\ build'[b].refs = refs
  BY <1>5, Domains DEF Kept, Others, Fields, Idle
<1>7. build[b].pc = "list" /\ listings' = listings + 1
  BY DEF List
<1>8. \E a \in SUBSET Employees, s \in Seq(Employees) :
          /\ \A i \in DOMAIN s : photo[s[i]] # NoPhoto
          /\ build'[b].refs = [i \in DOMAIN s |-> Ref(s[i], a)]
  BY <1>3, <1>4, <1>6, Zenon
<1>9. QED
  BY <1>2, <1>6, <1>7, <1>8, Zenon DEF Lists

\* What Embed makes of a listed photo, and of which ones.
EntryOf(b, r) ==
    [code |-> r.code, key |-> r.key,
     vector |-> IF r.key \in DOMAIN build[b].cached THEN build[b].cached[r.key]
                                                    ELSE Embedding(r.code)]

Good(b, r, reached) ==
    \/ r.key \in DOMAIN build[b].cached
    \/ photo[r.code] # NoPhoto /\ r.code \in reached

\* The entries are those of the good photos of the list.
GoodOnes(b, reached, entries) ==
    /\ entries = [n \in DOMAIN entries |-> entries[n]]
    /\ \E n \in Nat : DOMAIN entries = 1 .. n
    /\ \A n \in DOMAIN entries : \E i \in DOMAIN build[b].refs :
          Good(b, build[b].refs[i], reached) /\ entries[n] = EntryOf(b, build[b].refs[i])
    /\ \A i \in DOMAIN build[b].refs : Good(b, build[b].refs[i], reached) =>
          \E n \in DOMAIN entries : entries[n] = EntryOf(b, build[b].refs[i])

LEMMA EntriesAreGood ==
    ASSUME NEW b \in Builders, build[b].refs \in Seq(Refs),
           NEW reached \in SUBSET Employees, NEW entries, entries = EntriesOf(b, reached)
    PROVE  GoodOnes(b, reached, entries)
<1> DEFINE refs == build[b].refs
           wanted == {r \in Range(refs) : Good(b, r, reached)}
           kept == Selected(refs, wanted)
<1>1. /\ kept \in Seq(Refs)
      /\ \A x : (\E k \in DOMAIN kept : kept[k] = x) <=> (\E i \in DOMAIN refs : refs[i] = x) /\ x \in wanted
  BY SelectedElements
<1>2. entries = [i \in DOMAIN kept |-> EntryOf(b, kept[i])]
  BY Zenon DEF EntriesOf, Good, EntryOf
<1>3. \E n \in Nat : DOMAIN kept = 1 .. n
  BY <1>1, LenProperties, Zenon
<1>4. \A x : x \in wanted <=> (\E i \in DOMAIN refs : refs[i] = x) /\ Good(b, x, reached)
  BY Zenon DEF Range
<1> HIDE DEF kept, wanted, refs
<1>5. DOMAIN entries = DOMAIN kept /\ \A n \in DOMAIN kept : entries[n] = EntryOf(b, kept[n])
  BY <1>2
<1>6. \A n \in DOMAIN entries : \E i \in DOMAIN refs :
          Good(b, refs[i], reached) /\ entries[n] = EntryOf(b, refs[i])
  <2> TAKE n \in DOMAIN entries
  <2>1. PICK i \in DOMAIN refs : refs[i] = kept[n] /\ kept[n] \in wanted
    BY <1>1, <1>5, Zenon
  <2>2. Good(b, refs[i], reached)
    BY <1>4, <2>1, Zenon
  <2>3. QED
    BY <1>5, <2>1, <2>2, Zenon
<1>7. \A i \in DOMAIN refs : Good(b, refs[i], reached) =>
          \E n \in DOMAIN entries : entries[n] = EntryOf(b, refs[i])
  <2> SUFFICES ASSUME NEW i \in DOMAIN refs, Good(b, refs[i], reached)
               PROVE  \E n \in DOMAIN entries : entries[n] = EntryOf(b, refs[i])
    OBVIOUS
  <2>1. PICK k \in DOMAIN kept : kept[k] = refs[i]
    BY <1>1, <1>4, Zenon
  <2>2. QED
    BY <1>5, <2>1, Zenon
<1>8. entries = [n \in DOMAIN entries |-> entries[n]]
  BY <1>2
<1>9. QED
  BY <1>3, <1>5, <1>6, <1>7, <1>8, Zenon DEF refs, GoodOnes

Embeds(b) ==
    /\ Kept(b)
    /\ SameSave(b)
    /\ build[b].pc = "embedding"
    /\ build'[b].pc = "tmp vectors"
    /\ build'[b].refs = build[b].refs
    /\ \E x : spent' = [spent EXCEPT !.outages = x]
    /\ \E reached \in SUBSET Employees :
          /\ build'[b].reached = build[b].reached \cap reached
          /\ GoodOnes(b, reached, build'[b].entries)

LEMMA EmbedEmbeds ==
    ASSUME Typed, NEW b \in Builders, Embed(b)
    PROVE  Embeds(b)
<1>1. PICK reached \in SUBSET Employees :
        /\ spent' = [spent EXCEPT !.outages = @ + Outages(reached)]
        /\ build' = [build EXCEPT ![b].pc = "tmp vectors", ![b].entries = EntriesOf(b, reached),
                                  ![b].cached = <<>>, ![b].reached = @ \cap reached]
  BY Zenon DEF Embed
<1>2. PICK entries : entries = EntriesOf(b, reached)
  OBVIOUS
<1>3. build' = [build EXCEPT ![b].pc = "tmp vectors", ![b].entries = entries,
                             ![b].cached = <<>>, ![b].reached = @ \cap reached]
  BY <1>1, <1>2
<1>4. DOMAIN build = Builders /\ DOMAIN build[b] = Fields /\ build[b].refs \in Seq(Refs)
  BY Domains DEF Typed, TypeOK, BuildTyped
<1>5. /\ Kept(b) /\ SameSave(b)
      /\ build'[b].pc = "tmp vectors" /\ build'[b].entries = entries
      /\ build'[b].refs = build[b].refs /\ build'[b].reached = build[b].reached \cap reached
  BY <1>3, <1>4 DEF Kept, SameSave, Others, Fields, Idle
<1>6. \E x : spent' = [spent EXCEPT !.outages = x]
  BY <1>1, Zenon
<1>7. build[b].pc = "embedding"
  BY DEF Embed
<1>8. GoodOnes(b, reached, entries)
  BY <1>2, <1>4, EntriesAreGood
<1>9. QED
  BY <1>5, <1>6, <1>7, <1>8, Zenon DEF Embeds

\* LoadVectors: a vector of each key of a manifest that is usable, the one of a row with that
\* key; the files of two saves do not go unnoticed.
Loads(b) ==
    /\ Kept(b)
    /\ SameSave(b)
    /\ build[b].pc = "loading"
    /\ build'[b].pc = "embedding"
    /\ build'[b].refs = build[b].refs /\ build'[b].entries = build[b].entries
    /\ build'[b].reached = build[b].reached
    /\ mixed' \in BOOLEAN /\ (~mixed' => ~mixed)
    /\ \A k \in DOMAIN build'[b].cached :
          /\ build[b].cached.model = build[b].fingerprint
          /\ ~mixed' => build[b].cached.save = vectors.save
          /\ \E l \in DOMAIN build[b].cached.keys :
                /\ build[b].cached.keys[l] = k
                /\ l \in DOMAIN vectors.rows
                /\ build'[b].cached[k] = vectors.rows[l]

LEMMA LoadLoads ==
    ASSUME Typed, NEW b \in Builders, LoadVectors(b)
    PROVE  Loads(b)
<1> DEFINE m == build[b].cached
           usable == Usable(m, vectors.rows, build[b].fingerprint)
           keys == IF usable THEN Range(m.keys) ELSE {}
           Row(k) == CHOOSE i \in DOMAIN m.keys :
                        m.keys[i] = k /\ \A j \in DOMAIN m.keys : m.keys[j] = k => j <= i
<1>1. DOMAIN build = Builders /\ DOMAIN build[b] = Fields /\ build[b].pc = "loading"
  BY Domains DEF LoadVectors
<1>2. m \in Manifests /\ m.keys \in Seq(Keys) /\ vectors.rows \in Seq(Vectors)
  BY <1>1 DEF Typed, TypeOK, BuildTyped, Manifests, VectorFiles
<1>3. PICK cached : cached = [k \in keys |-> vectors.rows[Row(k)]]
  OBVIOUS
<1>4. /\ build' = [build EXCEPT ![b].pc = "embedding", ![b].cached = cached]
      /\ mixed' = (mixed \/ (usable /\ m.save # vectors.save))
  BY <1>3, Zenon DEF LoadVectors
<1>5. /\ Kept(b) /\ SameSave(b) /\ build'[b].pc = "embedding" /\ build'[b].cached = cached
      /\ build'[b].refs = build[b].refs /\ build'[b].entries = build[b].entries
      /\ build'[b].reached = build[b].reached
  BY <1>1, <1>4 DEF Kept, SameSave, Others, Fields, Idle
<1>6. ASSUME NEW k \in DOMAIN cached
      PROVE  /\ usable
             /\ \E l \in DOMAIN m.keys :
                   m.keys[l] = k /\ l \in DOMAIN vectors.rows /\ cached[k] = vectors.rows[l]
  <2>1. k \in keys /\ cached[k] = vectors.rows[Row(k)]
    BY <1>3
  <2>2. usable /\ k \in Range(m.keys)
    BY <2>1
  <2>3. PICK i \in DOMAIN m.keys : m.keys[i] = k
    BY <2>2 DEF Range
  <2>4. \E l \in DOMAIN m.keys : m.keys[l] = k /\ \A j \in DOMAIN m.keys : m.keys[j] = k => j <= l
    BY <1>2, <2>3, LastRow
  <2>5. Row(k) \in DOMAIN m.keys /\ m.keys[Row(k)] = k
    BY <2>4, Zenon
  <2>6. DOMAIN m.keys = DOMAIN vectors.rows
    <3>1. Len(m.keys) = Len(vectors.rows)
      BY <2>2, Zenon DEF Usable
    <3>2. DOMAIN m.keys = 1 .. Len(m.keys) /\ DOMAIN vectors.rows = 1 .. Len(vectors.rows)
      BY <1>2, LenProperties
    <3>3. QED
      BY <3>1, <3>2
  <2>7. QED
    BY <2>1, <2>2, <2>5, <2>6, Zenon
<1>7. mixed' \in BOOLEAN /\ (~mixed' => ~mixed)
  BY <1>4, Zenon DEF Typed, TypeOK
<1>8. usable => m.model = build[b].fingerprint /\ (~mixed' => m.save = vectors.save)
  BY <1>4, Zenon DEF Usable
<1> HIDE DEF usable, keys, Row
<1>9. QED
  BY <1>1, <1>5, <1>6, <1>7, <1>8, Zenon DEF Loads

-------------------------------------------------------------------------------
(* The types *)

LEMMA FreshIsTyped ==
    ASSUME NEW x \in {Started, Idle}
    PROVE  BuildTyped(x)
<1>1. /\ DOMAIN x = DOMAIN Idle /\ x.fingerprint = 0 /\ x.listing = 0 /\ x.reached = {}
      /\ x.pc \in {"idle", "start"} /\ (x.pc = "idle" => x = Idle)
  BY NothingYet
<1>2. x.refs \in Seq(Refs) /\ x.entries \in Seq(Entries)
  <2>1. <<>> \in Seq(Refs) /\ <<>> \in Seq(Entries)
    OBVIOUS
  <2>2. x.refs = <<>> /\ x.entries = <<>>
    BY NothingYet
  <2>3. QED
    BY <2>1, <2>2, Zenon
<1>3. x.fingerprint \in (IF x.pc \in {"idle", "start"} THEN {0} ELSE Models)
  BY <1>1
<1>4. x.listing \in Nat /\ x.reached \subseteq Employees /\ x.pc \in Steps
  <2>1. x.listing = 0 /\ x.reached = {} /\ (x.pc = "idle" \/ x.pc = "start")
    BY <1>1
  <2>2. x.listing \in Nat /\ x.pc \in Steps
    <3>1. 0 \in Nat
      OBVIOUS
    <3>2. "idle" \in Steps /\ "start" \in Steps
      BY DEF Steps
    <3>3. QED
      BY <2>1, <3>1, <3>2, Zenon
  <2>3. x.reached \subseteq Employees
    BY <2>1, Zenon
  <2>4. QED
    BY <2>2, <2>3
<1>5. x.pc # "loading" /\ x.pc # "embedding"
  BY <1>1
<1>6. QED
  BY <1>1, <1>2, <1>3, <1>4, <1>5, Zenon DEF BuildTyped

LEMMA InitTyped ==
    ASSUME Init
    PROVE  Typed
<1>1. SpentTyped /\ photo \in [Employees -> 0 .. spent.edits + 1]
  <2>1. /\ DOMAIN spent = {"edits", "reloads", "outages", "faults"}
        /\ spent.edits = 0
    BY DEF Init
  <2>2. photo \in [Employees -> {0, 1}]
    BY DEF Init, NoPhoto
  <2>3. SpentTyped
    BY <2>1, BuildAssumption DEF SpentTyped
  <2>4. 0 .. spent.edits + 1 = {0, 1}
    BY <2>1
  <2>5. QED
    BY <2>2, <2>3, <2>4
<1>2. photo \in [Employees -> 0 .. MaxEdits + 1]
  <2>1. spent.edits = 0
    BY DEF Init
  <2>2. 0 .. 1 \subseteq 0 .. MaxEdits + 1
    BY BuildAssumption
  <2>3. QED
    BY <1>1, <2>1, <2>2
<1>3. /\ files \in Models /\ models \in Models \cup {NotLoaded} /\ misnamed \subseteq Models
      /\ listings \in Nat /\ mixed \in BOOLEAN
  <2>1. files = 1 /\ models = 0 /\ misnamed = {} /\ listings = 0 /\ mixed = FALSE
    BY DEF Init, NotLoaded
  <2>2. 1 \in Models
    BY BuildAssumption DEF Models
  <2>3. QED
    BY <2>1, <2>2 DEF NotLoaded
<1>4. /\ vectors \in VectorFiles /\ manifest \in Manifests
      /\ gallery \in Seq(Entries) /\ shown.refs \in Seq(Refs) /\ shown.reached \subseteq Employees
  BY BuildAssumption DEF Init, NothingShown, VectorFiles, Manifests
<1>5. /\ DOMAIN tmp = {"vectors", "manifest"} /\ tmp.vectors = {} /\ tmp.manifest = {}
  BY DEF Init
<1>6. DOMAIN build = Builders
  BY DEF Init
<1>7. ASSUME NEW b \in Builders
      PROVE  BuildTyped(build[b])
  <2>1. build[b] \in {Started, Idle}
    BY DEF Init
  <2>2. QED
    BY <2>1, FreshIsTyped
<1>8. TypeOK
  BY <1>2, <1>3, <1>4, <1>5, <1>6, <1>7 DEF TypeOK
<1>9. QED
  BY <1>1, <1>8 DEF Typed

\* A step of one build leaves the other as typed as it was.
LEMMA OthersTyped ==
    ASSUME Typed, NEW b \in Builders, Kept(b), NEW c \in Builders, c # b
    PROVE  BuildTyped(build'[c])
<1>1. build'[c] = build[c] /\ BuildTyped(build[c])
  BY DEF Typed, TypeOK, Kept, Others
<1>2. QED
  BY <1>1 DEF BuildTyped

\* A step to a place that says nothing of what is cached.
LEMMA MovedTyped ==
    ASSUME Typed, NEW b \in Builders, build[b].pc \notin {"idle", "start"},
           NEW place \in Steps \ {"idle", "start", "loading", "embedding"}, Moved(b, place)
    PROVE  \A c \in Builders : BuildTyped(build'[c])
<1>1. BuildTyped(build'[b])
  BY DEF Typed, TypeOK, Moved, SameSave, Kept, BuildTyped, Fields
<1>2. Kept(b)
  BY DEF Moved
<1>3. QED
  BY <1>1, <1>2, OthersTyped

LEMMA IdleTyped ==
    ASSUME Typed, NEW b \in Builders, Kept(b), build'[b] \in {Idle, Started}
    PROVE  \A c \in Builders : BuildTyped(build'[c])
<1>1. BuildTyped(build'[b])
  BY FreshIsTyped
<1>2. QED
  BY <1>1, OthersTyped

\* What a step of a build does not change is as typed as before.
LEMMA StepTyped ==
    ASSUME Typed, \A c \in Builders : BuildTyped(build'[c]), DOMAIN build' = Builders,
           photo' = photo, files' = files, models' = models, misnamed' \subseteq Models,
           SpentTyped', spent'.edits = spent.edits,
           vectors' \in VectorFiles, manifest' \in Manifests,
           DOMAIN tmp' = {"vectors", "manifest"},
           \A f \in tmp'.vectors : f \in VectorFiles,
           \A f \in tmp'.manifest : f \in Manifests,
           gallery' \in Seq(Entries), shown'.refs \in Seq(Refs), shown'.reached \subseteq Employees,
           listings' \in Nat, mixed' \in BOOLEAN
    PROVE  Typed'
<1>1. photo' \in [Employees -> 0 .. spent'.edits + 1]
  BY DEF Typed
<1>2. TypeOK'
  BY Zenon DEF Typed, TypeOK
<1>3. QED
  BY <1>1, <1>2 DEF Typed

\* The same, of a step that writes no file and serves nothing.
LEMMA QuietTyped ==
    ASSUME Typed, \A c \in Builders : BuildTyped(build'[c]), DOMAIN build' = Builders,
           photo' = photo, files' = files, models' = models, misnamed' \subseteq Models,
           SpentTyped', spent'.edits = spent.edits, UNCHANGED <<disk, gallery, shown>>,
           listings' \in Nat, mixed' \in BOOLEAN
    PROVE  Typed'
<1>1. /\ vectors' \in VectorFiles /\ manifest' \in Manifests /\ DOMAIN tmp' = {"vectors", "manifest"}
      /\ \A f \in tmp'.vectors : f \in VectorFiles
      /\ \A f \in tmp'.manifest : f \in Manifests
      /\ gallery' \in Seq(Entries) /\ shown'.refs \in Seq(Refs) /\ shown'.reached \subseteq Employees
  BY Zenon DEF Typed, TypeOK, disk
<1>2. QED
  BY <1>1, StepTyped

LEMMA HistoryTyped ==
    ASSUME Typed
    PROVE  misnamed \subseteq Models /\ listings \in Nat /\ mixed \in BOOLEAN /\ SpentTyped
BY DEF Typed, TypeOK

LEMMA OneBudget ==
    ASSUME Typed, NEW x, \/ spent' = spent
                         \/ spent' = [spent EXCEPT !.reloads = x]
                         \/ spent' = [spent EXCEPT !.outages = x]
                         \/ spent' = [spent EXCEPT !.faults = x]
    PROVE  SpentTyped' /\ spent'.edits = spent.edits
BY DEF Typed, SpentTyped

LEMMA FingerprintTyped ==
    ASSUME Typed, NEW b \in Builders, TakeFingerprint(b)
    PROVE  Typed'
<1>1. /\ Kept(b) /\ build'[b] = [build[b] EXCEPT !.pc = "list", !.fingerprint = files]
  BY Domains DEF TakeFingerprint, Kept, Others, Fields, Idle
<1>2. BuildTyped(build[b]) /\ files \in Models
  BY DEF Typed, TypeOK
<1>3. BuildTyped(build'[b])
  BY <1>1, <1>2 DEF BuildTyped, Steps, Idle
<1>4. \A c \in Builders : BuildTyped(build'[c])
  BY <1>1, <1>3, OthersTyped
<1>5. misnamed' \subseteq Models
  BY HistoryTyped, <1>2 DEF TakeFingerprint
<1>6. SpentTyped' /\ spent'.edits = spent.edits
  BY OneBudget DEF TakeFingerprint
<1>7. QED
  BY <1>1, <1>4, <1>5, <1>6, QuietTyped, HistoryTyped DEF TakeFingerprint, history, Kept

LEMMA ListTyped ==
    ASSUME Typed, NEW b \in Builders, List(b)
    PROVE  Typed'
<1>1. Lists(b)
  BY ListLists
<1>2. PICK answered \in SUBSET Employees, there \in Seq(Employees) :
        /\ \A i \in DOMAIN there : photo[there[i]] # NoPhoto
        /\ build'[b].refs = [i \in DOMAIN there |-> Ref(there[i], answered)]
  BY <1>1, Zenon DEF Lists
<1>3. Len(there) \in Nat /\ DOMAIN there = 1 .. Len(there)
  BY LenProperties
<1>4. ASSUME NEW i \in DOMAIN there
      PROVE  Ref(there[i], answered) \in Refs
  <2>1. PICK e \in Employees : e = there[i]
    BY <1>3, ElementOfSeq
  <2>2. photo[e] \in 1 .. MaxEdits + 1
    BY <1>2, <2>1, BuildAssumption DEF Typed, SpentTyped, NoPhoto
  <2>3. \A told : Key(e, told) \in Keys
    BY <2>2, BuildAssumption DEF Key, Keys
  <2>4. (e \in answered \ Untagged) \in BOOLEAN
    OBVIOUS
  <2>5. QED
    BY <2>1, <2>2, <2>3, <2>4 DEF Ref, Refs, Editions
<1>5. build'[b].refs \in Seq(Refs)
  BY <1>2, <1>3, <1>4, IsASeq
<1>6. listings' \in Nat /\ build'[b].listing \in Nat
  BY <1>1, HistoryTyped DEF Lists
<1>7. BuildTyped(build'[b])
  <2>1. BuildTyped(build[b]) /\ build[b].pc = "list" /\ build'[b].pc = "listed"
    BY <1>1 DEF Typed, TypeOK, Lists
  <2>2. build'[b].entries \in Seq(Entries) /\ build'[b].fingerprint \in Models
    BY <1>1, <2>1 DEF BuildTyped, Lists
  <2>3. QED
    BY <1>1, <1>5, <1>6, <2>1, <2>2 DEF BuildTyped, Lists, Kept, Steps, Fields
<1>8. \A c \in Builders : BuildTyped(build'[c])
  BY <1>1, <1>7, OthersTyped DEF Lists
<1>9. SpentTyped' /\ spent'.edits = spent.edits
  BY <1>1, OneBudget DEF Lists
<1>10. QED
  BY <1>1, <1>6, <1>8, <1>9, QuietTyped, HistoryTyped DEF List, loaded, Lists, Kept

LEMMA LoadManifestTyped ==
    ASSUME Typed, NEW b \in Builders, LoadManifest(b)
    PROVE  Typed'
<1>1. Kept(b) /\ build'[b] = [build[b] EXCEPT !.pc = "loading", !.cached = manifest]
  BY Domains DEF LoadManifest, Kept, Others, Fields, Idle
<1>2. BuildTyped(build[b]) /\ manifest \in Manifests /\ build[b].pc = "listed"
  BY DEF Typed, TypeOK, LoadManifest
<1>3. BuildTyped(build'[b])
  BY <1>1, <1>2 DEF BuildTyped, Steps, Idle
<1>4. \A c \in Builders : BuildTyped(build'[c])
  BY <1>1, <1>3, OthersTyped
<1>5. SpentTyped' /\ spent'.edits = spent.edits
  BY OneBudget DEF LoadManifest
<1>6. QED
  BY <1>1, <1>4, <1>5, QuietTyped, HistoryTyped DEF LoadManifest, loaded, history, Kept

LEMMA LoadVectorsTyped ==
    ASSUME Typed, NEW b \in Builders, LoadVectors(b)
    PROVE  Typed'
<1>1. Loads(b)
  BY LoadLoads
<1>2. BuildTyped(build[b]) /\ build[b].cached.keys \in Seq(Keys) /\ vectors.rows \in Seq(Vectors)
  BY <1>1 DEF Typed, TypeOK, BuildTyped, Loads, Manifests, VectorFiles
<1>3. ASSUME NEW k \in DOMAIN build'[b].cached
      PROVE  k \in Keys /\ build'[b].cached[k] \in Vectors
  <2>1. PICK l \in DOMAIN build[b].cached.keys :
          /\ build[b].cached.keys[l] = k
          /\ l \in DOMAIN vectors.rows
          /\ build'[b].cached[k] = vectors.rows[l]
    BY <1>1, <1>3 DEF Loads
  <2>2. k \in Keys
    BY <1>2, <2>1, LenProperties, ElementOfSeq
  <2>3. vectors.rows[l] \in Vectors
    BY <1>2, <2>1, LenProperties, ElementOfSeq
  <2>4. QED
    BY <2>1, <2>2, <2>3
<1>4. BuildTyped(build'[b])
  BY <1>1, <1>2, <1>3 DEF Loads, Kept, SameSave, BuildTyped, Steps, Fields
<1>5. \A c \in Builders : BuildTyped(build'[c])
  BY <1>1, <1>4, OthersTyped DEF Loads
<1>6. SpentTyped' /\ spent'.edits = spent.edits
  BY OneBudget DEF LoadVectors
<1>7. QED
  BY <1>1, <1>5, <1>6, QuietTyped, HistoryTyped DEF LoadVectors, loaded, Loads, Kept

LEMMA EmbedTyped ==
    ASSUME Typed, models # NotLoaded, NEW b \in Builders, Embed(b)
    PROVE  Typed'
<1>1. Embeds(b)
  BY EmbedEmbeds
<1>2. PICK reached \in SUBSET Employees :
        /\ build'[b].reached = build[b].reached \cap reached
        /\ GoodOnes(b, reached, build'[b].entries)
  BY <1>1, Zenon DEF Embeds
<1>0. BuildTyped(build[b])
  BY DEF Typed, TypeOK
<1>3. ASSUME NEW n \in DOMAIN build'[b].entries
      PROVE  build'[b].entries[n] \in Entries
  <2>1. PICK i \in DOMAIN build[b].refs :
          Good(b, build[b].refs[i], reached) /\ build'[b].entries[n] = EntryOf(b, build[b].refs[i])
    BY <1>2, Zenon DEF GoodOnes
  <2>2. PICK r \in Refs : r = build[b].refs[i]
    BY <1>0, LenProperties, ElementOfSeq DEF BuildTyped
  <2>3. CASE r.key \in DOMAIN build[b].cached
    <3>1. build[b].cached[r.key] \in Vectors
      BY <1>0, <1>1, <2>3 DEF BuildTyped, Embeds
    <3>2. QED
      BY <2>1, <2>2, <2>3, <3>1 DEF EntryOf, Entries, Refs
  <2>4. CASE r.key \notin DOMAIN build[b].cached
    <3>1. photo[r.code] \in Editions
      BY <2>1, <2>2, <2>4, BuildAssumption
      DEF Good, Typed, SpentTyped, NoPhoto, Editions, Refs
    <3>2. Embedding(r.code) \in Vectors
      BY <2>2, <3>1 DEF Embedding, Vectors, Refs, Typed, TypeOK
    <3>3. QED
      BY <2>1, <2>2, <2>4, <3>2 DEF EntryOf, Entries, Refs
  <2>5. QED
    BY <2>3, <2>4
<1>4. build'[b].entries \in Seq(Entries)
  <2>1. build'[b].entries = [n \in DOMAIN build'[b].entries |-> build'[b].entries[n]]
    BY <1>2, Zenon DEF GoodOnes
  <2>2. PICK n \in Nat : DOMAIN build'[b].entries = 1 .. n
    BY <1>2, Zenon DEF GoodOnes
  <2>3. QED
    BY <1>3, <2>1, <2>2, IsASeq
<1>5. BuildTyped(build'[b])
  BY <1>0, <1>1, <1>2, <1>4 DEF Embeds, Kept, SameSave, BuildTyped, Steps, Fields
<1>6. \A c \in Builders : BuildTyped(build'[c])
  BY <1>1, <1>5, OthersTyped DEF Embeds
<1>7. SpentTyped' /\ spent'.edits = spent.edits
  BY <1>1, OneBudget DEF Embeds
<1>8. QED
  BY <1>1, <1>6, <1>7, QuietTyped, HistoryTyped DEF Embed, loaded, history, Embeds, Kept

\* The rows and the keys a save writes.
LEMMA SavedTyped ==
    ASSUME Typed, NEW b \in Builders
    PROVE  /\ RowsOf(build[b].entries) \in Seq(Vectors)
           /\ KeysOf(build[b].entries) \in Seq(Keys)
           /\ DOMAIN RowsOf(build[b].entries) = DOMAIN build[b].entries
           /\ DOMAIN KeysOf(build[b].entries) = DOMAIN build[b].entries
<1>1. PICK entries \in Seq(Entries) : entries = build[b].entries
  BY DEF Typed, TypeOK, BuildTyped
<1>2. PICK n \in Nat : DOMAIN entries = 1 .. n /\ \A i \in 1 .. n : entries[i] \in Entries
  BY LenProperties, ElementOfSeq
<1>3. \A i \in 1 .. n : entries[i].vector \in Vectors /\ entries[i].key \in Keys
  BY <1>2 DEF Entries
<1>4. RowsOf(entries) \in Seq(Vectors) /\ KeysOf(entries) \in Seq(Keys)
  BY <1>2, <1>3, IsASeq DEF RowsOf, KeysOf
<1>5. QED
  BY <1>1, <1>4 DEF RowsOf, KeysOf

\* Where a save stands.
Saving == {"tmp vectors", "vectors", "tmp manifest", "manifest"}

\* The order of a save: its vectors, put in place, and then its manifest.
Writes(b) ==
    \/ /\ build'[b].pc = "vectors" /\ vectors' = vectors /\ manifest' = manifest
       /\ tmp'.vectors = {[save |-> build[b].listing, rows |-> RowsOf(build[b].entries)]}
    \/ /\ build'[b].pc = "tmp manifest" /\ build[b].pc = "vectors"
       /\ vectors' \in tmp.vectors /\ manifest' = manifest
    \/ /\ build'[b].pc = "manifest" /\ build[b].pc = "tmp manifest"
       /\ vectors' = vectors /\ manifest' = manifest
    \/ /\ build'[b].pc = "saved" /\ vectors' = vectors
       /\ manifest' = manifest \/ (build[b].pc = "manifest" /\ manifest' \in tmp.manifest)

\* A step of a save: one of its two files is written or put in place, or it gives up.
Saves(b) ==
    /\ build[b].pc \in Saving
    /\ \E place \in {"vectors", "tmp manifest", "manifest", "saved"} : Moved(b, place)
    /\ UNCHANGED <<photo, loaded, gallery, shown, history>>
    /\ \E x : spent' = spent \/ spent' = [spent EXCEPT !.faults = x]
    /\ DOMAIN tmp' = {"vectors", "manifest"}
    /\ Writes(b)
    /\ \A f \in tmp'.vectors :
          \/ f \in tmp.vectors
          \/ f = [save |-> build[b].listing, rows |-> RowsOf(build[b].entries)]
          \/ f = [save |-> build[b].listing, rows |-> <<>>]
    /\ \A f \in tmp'.manifest :
          \/ f \in tmp.manifest
          \/ f = [save |-> build[b].listing, model |-> build[b].fingerprint,
                  keys |-> KeysOf(build[b].entries)]
          \/ f = [save |-> build[b].listing, model |-> 0, keys |-> <<>>]

LEMMA SaveSaves ==
    ASSUME Typed, NEW b \in Builders,
           \/ WriteVectors(b) \/ ReplaceVectors(b) \/ WriteManifest(b) \/ ReplaceManifest(b)
           \/ TakenAway(b) \/ SaveFails(b)
    PROVE  Saves(b)
<1> DEFINE Places == {"vectors", "tmp manifest", "manifest", "saved"}
<1>1. DOMAIN tmp = {"vectors", "manifest"} /\ DOMAIN build = Builders /\ DOMAIN build[b] = Fields
  BY Domains DEF Typed, TypeOK
<1>2. /\ build[b].pc \in Saving
      /\ UNCHANGED <<photo, loaded, gallery, shown, history>>
      /\ \E x : spent' = spent \/ spent' = [spent EXCEPT !.faults = x]
  BY Zenon DEF Saving, WriteVectors, ReplaceVectors, WriteManifest, ReplaceManifest, TakenAway, SaveFails
<1>3. \E place \in Places : build' = [build EXCEPT ![b].pc = place]
  BY Zenon DEF WriteVectors, ReplaceVectors, WriteManifest, ReplaceManifest, TakenAway, SaveFails
<1>4. \E place \in Places : Moved(b, place)
  BY <1>1, <1>3, MovesOn
<1> DEFINE vfile == [save |-> build[b].listing, rows |-> RowsOf(build[b].entries)]
           vshort == [save |-> build[b].listing, rows |-> <<>>]
           mfile == [save |-> build[b].listing, model |-> build[b].fingerprint,
                     keys |-> KeysOf(build[b].entries)]
           mshort == [save |-> build[b].listing, model |-> 0, keys |-> <<>>]
           Named(t, p) ==
               /\ DOMAIN t = {"vectors", "manifest"}
               /\ \A f \in t.vectors : f \in tmp.vectors \/ f = vfile \/ f = vshort
               /\ \A f \in t.manifest : f \in tmp.manifest \/ f = mfile \/ f = mshort
<1>5. /\ vectors' = vectors \/ vectors' \in tmp.vectors
      /\ manifest' = manifest \/ manifest' \in tmp.manifest
      /\ \/ tmp' = tmp
         \/ tmp' = [tmp EXCEPT !.vectors = {}]
         \/ tmp' = [tmp EXCEPT !.manifest = {}]
         \/ tmp' = [tmp EXCEPT !.vectors = {vfile}]
         \/ tmp' = [tmp EXCEPT !.manifest = {mfile}]
         \/ tmp' = [tmp EXCEPT !.vectors = {vshort}]
         \/ tmp' = [tmp EXCEPT !.manifest = {mshort}]
  <2>1. CASE SaveFails(b)
    <3>1. CutShort(b) \subseteq {[tmp EXCEPT !.vectors = {vshort}], [tmp EXCEPT !.manifest = {mshort}]}
      <4> HIDE DEF vshort, mshort
      <4>1. build[b].pc \in Saving
        BY <1>2
      <4>2. QED
        BY <4>1 DEF CutShort, Saving, vshort, mshort
    <3>2. vectors' = vectors /\ manifest' = manifest /\ tmp' \in {tmp} \cup CutShort(b)
      BY <2>1 DEF SaveFails
    <3> HIDE DEF vshort, mshort
    <3>3. QED
      BY <3>1, <3>2
  <2>2. CASE TakenAway(b)
    BY <2>2 DEF TakenAway, disk
  <2>3. CASE WriteVectors(b) \/ ReplaceVectors(b) \/ WriteManifest(b) \/ ReplaceManifest(b)
    BY <2>3, Zenon DEF WriteVectors, ReplaceVectors, WriteManifest, ReplaceManifest
  <2>4. QED
    BY <2>1, <2>2, <2>3
<1>8. Writes(b)
  <2>1. ASSUME NEW place, build' = [build EXCEPT ![b].pc = place]
        PROVE  build'[b].pc = place
    BY <1>1, <2>1 DEF Fields, Idle
  <2>2. CASE WriteVectors(b)
    BY <1>1, <2>1, <2>2 DEF WriteVectors, Writes
  <2>3. CASE ReplaceVectors(b)
    BY <2>1, <2>3 DEF ReplaceVectors, Writes
  <2>4. CASE WriteManifest(b)
    BY <2>1, <2>4 DEF WriteManifest, Writes
  <2>5. CASE ReplaceManifest(b)
    BY <2>1, <2>5 DEF ReplaceManifest, Writes
  <2>6. CASE TakenAway(b) \/ SaveFails(b)
    BY <2>1, <2>6 DEF TakenAway, SaveFails, disk, Writes
  <2>7. QED
    BY <2>2, <2>3, <2>4, <2>5, <2>6
<1> HIDE DEF vfile, vshort, mfile, mshort
<1>6. /\ DOMAIN tmp' = {"vectors", "manifest"}
      /\ \A f \in tmp'.vectors : f \in tmp.vectors \/ f = vfile \/ f = vshort
      /\ \A f \in tmp'.manifest : f \in tmp.manifest \/ f = mfile \/ f = mshort
  BY <1>1, <1>5
<1>7. QED
  BY <1>2, <1>4, <1>6, <1>8, Zenon DEF Saves, vfile, vshort, mfile, mshort

LEMMA SavesTyped ==
    ASSUME Typed, NEW b \in Builders, Saves(b)
    PROVE  Typed'
<1>1. /\ build[b].pc \in Saving /\ Kept(b)
      /\ \E place \in {"vectors", "tmp manifest", "manifest", "saved"} : Moved(b, place)
  BY DEF Saves, Moved
<1>2. \A c \in Builders : BuildTyped(build'[c])
  BY <1>1, MovedTyped DEF Steps, Saving
<1>3. /\ vectors \in VectorFiles /\ \A f \in tmp.vectors : f \in VectorFiles
      /\ manifest \in Manifests /\ \A f \in tmp.manifest : f \in Manifests
      /\ build[b].listing \in Nat /\ build[b].fingerprint \in Models
  BY <1>1 DEF Typed, TypeOK, BuildTyped, Saving
<1>4. /\ RowsOf(build[b].entries) \in Seq(Vectors) /\ KeysOf(build[b].entries) \in Seq(Keys)
      /\ <<>> \in Seq(Vectors) /\ <<>> \in Seq(Keys)
  BY SavedTyped
<1>5. vectors' \in VectorFiles /\ manifest' \in Manifests
  BY <1>3, Zenon DEF Saves, Writes
<1>6. ASSUME NEW f \in tmp'.vectors
      PROVE  f \in VectorFiles
  <2>1. \/ f \in tmp.vectors
        \/ f = [save |-> build[b].listing, rows |-> RowsOf(build[b].entries)]
        \/ f = [save |-> build[b].listing, rows |-> <<>>]
    BY Zenon DEF Saves
  <2>2. \A rows \in Seq(Vectors) : [save |-> build[b].listing, rows |-> rows] \in VectorFiles
    BY <1>3 DEF VectorFiles
  <2>3. QED
    BY <1>3, <1>4, <2>1, <2>2, Zenon
<1>7. ASSUME NEW f \in tmp'.manifest
      PROVE  f \in Manifests
  <2>1. 0 \in 0 .. MaxModels /\ build[b].fingerprint \in 0 .. MaxModels
    BY <1>3, BuildAssumption DEF Models
  <2>2. \/ f \in tmp.manifest
        \/ f = [save |-> build[b].listing, model |-> build[b].fingerprint,
                keys |-> KeysOf(build[b].entries)]
        \/ f = [save |-> build[b].listing, model |-> 0, keys |-> <<>>]
    BY Zenon DEF Saves
  <2>3. \A m \in 0 .. MaxModels, keys \in Seq(Keys) :
           [save |-> build[b].listing, model |-> m, keys |-> keys] \in Manifests
    BY <1>3 DEF Manifests
  <2>4. QED
    BY <1>3, <1>4, <2>1, <2>2, <2>3, Zenon
<1>8. SpentTyped' /\ spent'.edits = spent.edits
  BY OneBudget DEF Saves
<1>9. /\ photo' = photo /\ files' = files /\ models' = models /\ misnamed' = misnamed
      /\ gallery' = gallery /\ shown' = shown /\ listings' = listings /\ mixed' = mixed
      /\ DOMAIN tmp' = {"vectors", "manifest"} /\ DOMAIN build' = Builders
  BY <1>1 DEF Saves, loaded, history, Kept
<1>10. gallery' \in Seq(Entries) /\ shown'.refs \in Seq(Refs) /\ shown'.reached \subseteq Employees
  BY <1>9 DEF Typed, TypeOK
<1>11. QED
  BY <1>2, <1>5, <1>6, <1>7, <1>8, <1>9, <1>10, StepTyped, HistoryTyped

\* A build that has begun has the models.
Ready == \A b \in Builders : build[b].pc \notin {"idle", "start"} => models # NotLoaded

\* What a step of a build does to the places, beyond those two.
LEMMA ReadyStays ==
    ASSUME Ready, NEW b \in Builders, Kept(b), models' = models,
           build'[b].pc \in {"idle", "start"} \/ build[b].pc \notin {"idle", "start"}
    PROVE  Ready'
BY DEF Ready, Kept, Others

LEMMA EndTyped ==
    ASSUME Typed, NEW b \in Builders, Kept(b), build'[b] = Idle,
           UNCHANGED <<photo, loaded, disk, history>>,
           SpentTyped' /\ spent'.edits = spent.edits,
           gallery' \in Seq(Entries), shown'.refs \in Seq(Refs), shown'.reached \subseteq Employees
    PROVE  Typed'
<1>1. \A c \in Builders : BuildTyped(build'[c])
  BY IdleTyped
<1>2. /\ vectors' \in VectorFiles /\ manifest' \in Manifests /\ DOMAIN tmp' = {"vectors", "manifest"}
      /\ \A f \in tmp'.vectors : f \in VectorFiles
      /\ \A f \in tmp'.manifest : f \in Manifests
  BY Zenon DEF Typed, TypeOK, disk
<1>3. QED
  BY <1>1, <1>2, StepTyped, HistoryTyped DEF Kept, loaded, history

LEMMA WorldTyped ==
    ASSUME Typed, (\E e \in Employees : Edit(e)) \/ Deploy \/ LoadModels
    PROVE  Typed'
<1>1. CASE \E e \in Employees : Edit(e)
  <2>1. PICK e \in Employees : Edit(e)
    BY <1>1
  <2>2. /\ SpentTyped' /\ spent'.edits = spent.edits + 1 /\ spent.edits \in Nat
    BY <2>1, BuildAssumption DEF Edit, Typed, SpentTyped
  <2>3. photo' \in [Employees -> 0 .. spent'.edits + 1]
    BY <2>1, <2>2 DEF Edit, Typed, NoPhoto
  <2>4. photo' \in [Employees -> 0 .. MaxEdits + 1]
    BY <2>2, <2>3, BuildAssumption DEF SpentTyped
  <2>5. TypeOK'
    BY <2>1, <2>4, Zenon DEF Edit, loaded, disk, history, Typed, TypeOK
  <2>6. QED
    BY <2>2, <2>3, <2>5 DEF Typed
<1>2. CASE Deploy \/ LoadModels
  <2>1. files' \in Models /\ models' \in Models \cup {NotLoaded}
    <3>1. files \in Models /\ models \in Models \cup {NotLoaded}
      BY DEF Typed, TypeOK
    <3>2. CASE LoadModels
      BY <3>1, <3>2 DEF LoadModels
    <3>3. CASE Deploy
      <4>1. files' \in 1 .. MaxModels \/ files' \in files + 1 .. MaxModels
        BY <3>3 DEF Deploy
      <4>2. QED
        BY <3>1, <3>3, <4>1, BuildAssumption DEF Deploy, Models
    <3>4. QED
      BY <1>2, <3>2, <3>3
  <2>2. UNCHANGED <<photo, misnamed, disk, gallery, build, shown, history, spent>>
    BY <1>2, Zenon DEF Deploy, LoadModels
  <2>3. TypeOK'
    BY <2>1, <2>2, Zenon DEF disk, history, Typed, TypeOK
  <2>4. SpentTyped' /\ photo' \in [Employees -> 0 .. spent'.edits + 1]
    BY <2>2 DEF Typed, SpentTyped
  <2>5. QED
    BY <2>3, <2>4 DEF Typed
<1>3. QED
  BY <1>1, <1>2

LEMMA RestartTyped ==
    ASSUME Typed, Restart
    PROVE  Typed'
<1>1. DOMAIN build' = Builders /\ \A b \in Builders : BuildTyped(build'[b])
  BY StartsOver, FreshIsTyped
<1>2. SpentTyped' /\ spent'.edits = spent.edits
  BY DEF Restart, Typed, SpentTyped
<1>3. gallery' \in Seq(Entries) /\ shown'.refs \in Seq(Refs) /\ shown'.reached \subseteq Employees
  BY DEF Restart, NothingShown
<1>4. /\ files' \in Models /\ models' \in Models \cup {NotLoaded} /\ misnamed' \subseteq Models
      /\ listings' \in Nat /\ mixed' \in BOOLEAN
      /\ vectors' \in VectorFiles /\ manifest' \in Manifests /\ DOMAIN tmp' = {"vectors", "manifest"}
      /\ \A f \in tmp'.vectors : f \in VectorFiles
      /\ \A f \in tmp'.manifest : f \in Manifests
  BY DEF Restart, Typed, TypeOK, disk, history
<1>5. /\ photo' \in [Employees -> 0 .. MaxEdits + 1]
      /\ photo' \in [Employees -> 0 .. spent'.edits + 1]
  BY <1>2 DEF Restart, Typed, TypeOK
<1>6. TypeOK'
  BY <1>1, <1>3, <1>4, <1>5, Zenon DEF TypeOK
<1>7. QED
  BY <1>2, <1>5, <1>6 DEF Typed

LEMMA TypedStep ==
    ASSUME Typed, Ready, Next
    PROVE  Typed'
<1>1. ASSUME Reload
      PROVE  Typed'
  <2>1. "reload" \in Builders
    BY DEF Builders
  <2>2. Kept("reload") /\ build'["reload"] = Started
    BY <1>1, <2>1, Domains, Starts DEF Reload
  <2>3. \A b \in Builders : BuildTyped(build'[b])
    BY <2>1, <2>2, IdleTyped
  <2>4. SpentTyped' /\ spent'.edits = spent.edits
    BY <1>1 DEF Reload, Typed, SpentTyped
  <2>5. QED
    BY <1>1, <2>2, <2>3, <2>4, QuietTyped, HistoryTyped DEF Reload, loaded, history, Kept
<1>2. ASSUME NEW b \in Builders, BuildFails(b)
      PROVE  Typed'
  <2>1. Kept(b) /\ build'[b] = Idle
    BY <1>2, Domains, EndsIdle DEF BuildFails
  <2>2. SpentTyped' /\ spent'.edits = spent.edits
    BY <1>2 DEF BuildFails, Typed, SpentTyped
  <2>3. gallery' \in Seq(Entries) /\ shown'.refs \in Seq(Refs) /\ shown'.reached \subseteq Employees
    BY <1>2 DEF BuildFails, Typed, TypeOK
  <2>4. QED
    BY <1>2, <2>1, <2>2, <2>3, EndTyped DEF BuildFails
<1>3. ASSUME NEW b \in Builders, ServeNobody(b)
      PROVE  Typed'
  <2>1. Kept(b) /\ build'[b] = Idle
    BY <1>3, Domains, EndsIdle DEF ServeNobody, Swap
  <2>2. SpentTyped' /\ spent'.edits = spent.edits
    BY <1>3, OneBudget DEF ServeNobody
  <2>3. gallery' \in Seq(Entries) /\ shown'.refs \in Seq(Refs) /\ shown'.reached \subseteq Employees
    BY <1>3 DEF ServeNobody, Swap, Typed, TypeOK, BuildTyped
  <2>4. QED
    BY <1>3, <2>1, <2>2, <2>3, EndTyped DEF ServeNobody
<1>4. ASSUME NEW b \in Builders, Serve(b)
      PROVE  Typed'
  <2>1. Kept(b) /\ build'[b] = Idle
    BY <1>4, Domains, EndsIdle DEF Serve, Swap
  <2>2. SpentTyped' /\ spent'.edits = spent.edits
    BY <1>4, OneBudget DEF Serve
  <2>3. gallery' \in Seq(Entries) /\ shown'.refs \in Seq(Refs) /\ shown'.reached \subseteq Employees
    BY <1>4 DEF Serve, Swap, Typed, TypeOK, BuildTyped
  <2>4. QED
    BY <1>4, <2>1, <2>2, <2>3, EndTyped DEF Serve
<1>5. ASSUME NEW b \in Builders, Embed(b)
      PROVE  Typed'
  BY <1>5, EmbedTyped DEF Embed, Ready
<1>6. ASSUME NEW b \in Builders, BuildStep(b)
      PROVE  Typed'
  BY <1>2, <1>3, <1>4, <1>5, <1>6, FingerprintTyped, ListTyped, LoadManifestTyped,
     LoadVectorsTyped, SaveSaves, SavesTyped, Zenon
  DEF BuildStep
<1>7. QED
  BY <1>1, <1>6, WorldTyped, RestartTyped DEF Next

LEMMA ReadyStep ==
    ASSUME Typed, Ready, Next
    PROVE  Ready'
<1>1. ASSUME NEW e \in Employees, Edit(e)
      PROVE  Ready'
  BY <1>1 DEF Edit, loaded, Ready
<1>2. CASE Deploy
  BY <1>2 DEF Deploy, Ready
<1>3. CASE LoadModels
  <2>1. files \in Models
    BY DEF Typed, TypeOK
  <2>2. models' # NotLoaded
    BY <1>3, <2>1, BuildAssumption DEF LoadModels, Models, NotLoaded
  <2>3. QED
    BY <2>2 DEF Ready
<1>4. CASE Restart
  BY <1>4, StartsOver, NothingYet DEF Ready
<1>5. CASE Reload
  <2>1. "reload" \in Builders
    BY DEF Builders
  <2>2. Kept("reload") /\ build'["reload"] = Started
    BY <1>5, <2>1, Domains, Starts DEF Reload
  <2>3. QED
    BY <1>5, <2>1, <2>2, NothingYet, ReadyStays DEF Reload, loaded
<1>6. ASSUME NEW b \in Builders, TakeFingerprint(b)
      PROVE  Ready'
  BY <1>6 DEF TakeFingerprint, Ready
<1>7. ASSUME NEW b \in Builders, BuildFails(b) \/ ServeNobody(b) \/ Serve(b)
      PROVE  Ready'
  <2>1. Kept(b) /\ build'[b] = Idle
    BY <1>7, Domains, EndsIdle DEF BuildFails, ServeNobody, Serve, Swap
  <2>2. QED
    BY <1>7, <2>1, NothingYet, ReadyStays DEF BuildFails, ServeNobody, Serve, loaded
<1>8. ASSUME NEW b \in Builders,
             \/ List(b) \/ LoadManifest(b) \/ LoadVectors(b) \/ Embed(b) \/ Saves(b)
      PROVE  Ready'
  <2>1. Kept(b) /\ models' = models
    BY <1>8, Domains, ListLists, LoadLoads, EmbedEmbeds
    DEF List, Lists, LoadManifest, LoadVectors, Loads, Embed, Embeds, Saves, Moved, loaded, Kept, Others,
        Fields, Idle
  <2>2. build[b].pc \notin {"idle", "start"}
    BY <1>8 DEF List, LoadManifest, LoadVectors, Embed, Saves, Saving
  <2>3. QED
    BY <2>1, <2>2, ReadyStays
<1>9. ASSUME NEW b \in Builders, BuildStep(b)
      PROVE  Ready'
  BY <1>6, <1>7, <1>8, <1>9, SaveSaves, Zenon DEF BuildStep
<1>10. QED
  BY <1>1, <1>2, <1>3, <1>4, <1>5, <1>9 DEF Next

LEMMA InitReady ==
    ASSUME Init
    PROVE  Ready
BY NothingYet DEF Init, Ready

\* GalleryBuild.tla: the types of the photos, the models, the two files and their temporaries,
\* the gallery and all a build works with, for every listing and any bounds.
THEOREM TypeCorrect == Spec => []TypeOK
<1>1. Typed /\ Ready /\ UNCHANGED vars => Typed' /\ Ready'
  BY DEF vars, loaded, disk, history, Typed, SpentTyped, TypeOK, Ready
<1>2. Typed /\ Ready /\ Next => Typed' /\ Ready'
  BY TypedStep, ReadyStep
<1>3. Init => Typed /\ Ready
  BY InitTyped, InitReady
<1>4. Typed => TypeOK
  BY DEF Typed
<1>5. QED
  BY <1>1, <1>2, <1>3, <1>4, PTL DEF Spec

-------------------------------------------------------------------------------
(* The lists and what is drawn from them *)

\* What was listed is no newer than the photo of now, and a key that was told its version
\* tells the edition listed; a code is listed in one way.
Truthful(refs, ph, edits) ==
    /\ \A i \in DOMAIN refs :
          /\ refs[i].key.of = refs[i].code
          /\ refs[i].edition <= edits + 1
          /\ refs[i].key.version <= refs[i].edition
          /\ ph[refs[i].code] # NoPhoto => ph[refs[i].code] >= refs[i].edition
          /\ refs[i].told => refs[i].key.version = refs[i].edition
    /\ \A i, j \in DOMAIN refs : refs[i].code = refs[j].code => refs[i] = refs[j]

\* Every entry is of a listed photo.
Drawn(entries, refs) ==
    \A n \in DOMAIN entries : \E i \in DOMAIN refs :
        entries[n].code = refs[i].code /\ entries[n].key = refs[i].key

\* Whoever was reached has an entry, or a photo that changed since.
Enrolled(entries, refs, reached, ph) ==
    \A i \in DOMAIN refs : refs[i].code \in reached =>
        \/ \E n \in DOMAIN entries : entries[n].code = refs[i].code
        \/ ph[refs[i].code] # refs[i].edition

Embedded == Saving \cup {"saved"}

BuildListed(b) ==
    /\ Truthful(build[b].refs, photo, spent.edits)
    /\ Drawn(build[b].entries, build[b].refs)
    /\ IF build[b].pc \in Embedded
       THEN Enrolled(build[b].entries, build[b].refs, build[b].reached, photo)
       ELSE build[b].entries = <<>>

ShownListed ==
    /\ Truthful(shown.refs, photo, spent.edits)
    /\ Drawn(gallery, shown.refs)
    /\ Enrolled(gallery, shown.refs, shown.reached, photo)

Listed == ShownListed /\ \A b \in Builders : BuildListed(b)

\* What holds of nobody.
LEMMA NobodyListed ==
    ASSUME NEW ph, NEW edits, NEW refs, NEW entries, refs = <<>>, entries = <<>>
    PROVE  /\ Truthful(refs, ph, edits) /\ Drawn(entries, refs)
           /\ \A reached : Enrolled(entries, refs, reached, ph)
BY DEF Truthful, Drawn, Enrolled

LEMMA FreshListed ==
    ASSUME NEW b \in Builders, build[b] \in {Started, Idle}
    PROVE  BuildListed(b)
<1>1. build[b].refs = <<>> /\ build[b].entries = <<>> /\ build[b].pc \in {"start", "idle"}
  BY NothingYet
<1>2. build[b].pc \notin Embedded
  BY <1>1 DEF Embedded, Saving
<1>3. QED
  BY <1>1, <1>2, NobodyListed DEF BuildListed

\* A build that ends: what is served stays, or is what the build has made of its list.
Ends(b) ==
    /\ Kept(b) /\ build'[b] = Idle
    /\ UNCHANGED <<photo, loaded, disk, history>>
    /\ spent'.edits = spent.edits
    /\ \/ UNCHANGED <<gallery, shown>>
       \/ /\ gallery' = build[b].entries
          /\ shown' = [refs |-> build[b].refs, reached |-> build[b].reached]
          /\ build[b].pc = "saved" \/ (build[b].refs = <<>> /\ build[b].entries = <<>>)

LEMMA EndEnds ==
    ASSUME Typed, Listed, NEW b \in Builders, BuildFails(b) \/ ServeNobody(b) \/ Serve(b)
    PROVE  Ends(b)
<1>1. Kept(b) /\ build'[b] = Idle
  BY Domains, EndsIdle DEF BuildFails, ServeNobody, Serve, Swap
<1>2. UNCHANGED <<photo, loaded, disk, history>> /\ spent'.edits = spent.edits
  BY DEF BuildFails, ServeNobody, Serve, Typed, SpentTyped
<1>3. CASE BuildFails(b)
  BY <1>1, <1>2, <1>3 DEF BuildFails, Ends
<1>4. CASE Serve(b)
  BY <1>1, <1>2, <1>4 DEF Serve, Swap, Ends
<1>5. CASE ServeNobody(b)
  <2>1. build[b].pc = "listed" /\ build[b].refs = <<>> /\ build[b].pc \notin Embedded
    BY <1>5 DEF ServeNobody, Embedded, Saving
  <2>2. build[b].entries = <<>>
    BY <2>1 DEF Listed, BuildListed
  <2>3. QED
    BY <1>1, <1>2, <1>5, <2>1, <2>2 DEF ServeNobody, Swap, Ends
<1>6. QED
  BY <1>3, <1>4, <1>5

\* Every step of a build is one of these.
LEMMA BuildStepIs ==
    ASSUME Typed, Listed, NEW b \in Builders, BuildStep(b)
    PROVE  TakeFingerprint(b) \/ List(b) \/ LoadManifest(b) \/ LoadVectors(b) \/ Embed(b)
           \/ Saves(b) \/ Ends(b)
BY SaveSaves, EndEnds, Zenon DEF BuildStep

\* What any step does to the photos and to the edits.
Grows ==
    /\ spent'.edits >= spent.edits /\ spent'.edits \in Nat
    /\ photo' \in [Employees -> Nat]
    /\ \A e \in Employees :
          photo'[e] = photo[e] \/ photo'[e] = NoPhoto \/ photo'[e] > spent.edits + 1

LEMMA StepGrows ==
    ASSUME Typed, Ready, Listed, Next
    PROVE  Grows
<1>0. photo' \in [Employees -> Nat]
  <2>1. Typed'
    BY TypedStep
  <2>2. QED
    BY <2>1 DEF Typed, SpentTyped
<1>1. ASSUME NEW e \in Employees, Edit(e)
      PROVE  Grows
  <2>1. spent'.edits = spent.edits + 1 /\ spent.edits \in Nat
    BY <1>1 DEF Edit, Typed, SpentTyped
  <2>2. \A x \in Employees :
          photo'[x] = photo[x] \/ photo'[x] = NoPhoto \/ photo'[x] > spent.edits + 1
    BY <1>1, <2>1 DEF Edit, Typed
  <2>3. QED
    BY <1>0, <2>1, <2>2 DEF Grows
<1>2. ASSUME photo' = photo, spent'.edits = spent.edits
      PROVE  Grows
  BY <1>0, <1>2 DEF Typed, SpentTyped, Grows
<1>3. CASE Deploy \/ LoadModels \/ Restart \/ Reload
  BY <1>2, <1>3 DEF Deploy, LoadModels, Restart, Reload, Typed, SpentTyped
<1>4. ASSUME NEW b \in Builders, BuildStep(b)
      PROVE  Grows
  <2>1. CASE TakeFingerprint(b) \/ LoadManifest(b) \/ LoadVectors(b)
    BY <1>2, <2>1 DEF TakeFingerprint, LoadManifest, LoadVectors
  <2>2. CASE List(b)
    BY <1>2, <2>2, ListLists, OneBudget DEF List, Lists
  <2>3. CASE Embed(b)
    BY <1>2, <2>3, EmbedEmbeds, OneBudget DEF Embed, Embeds
  <2>4. CASE Saves(b)
    BY <1>2, <2>4, OneBudget DEF Saves
  <2>5. CASE Ends(b)
    BY <1>2, <2>5 DEF Ends
  <2>6. QED
    BY <1>4, <2>1, <2>2, <2>3, <2>4, <2>5, BuildStepIs
<1>5. QED
  BY <1>1, <1>3, <1>4 DEF Next

LEMMA TruthfulStays ==
    ASSUME Typed, Grows, NEW refs \in Seq(Refs), Truthful(refs, photo, spent.edits)
    PROVE  Truthful(refs, photo', spent'.edits)
<1>1. \A i \in DOMAIN refs : refs[i] \in Refs
  BY LenProperties, ElementOfSeq
<1>2. spent.edits \in Nat
  BY DEF Typed, SpentTyped
<1>3. ASSUME NEW i \in DOMAIN refs
      PROVE  /\ refs[i].key.of = refs[i].code
             /\ refs[i].edition <= spent'.edits + 1
             /\ refs[i].key.version <= refs[i].edition
             /\ photo'[refs[i].code] # NoPhoto => photo'[refs[i].code] >= refs[i].edition
             /\ refs[i].told => refs[i].key.version = refs[i].edition
  <2>1. PICK r \in Refs : r = refs[i]
    BY <1>1
  <2>2. /\ r.key.of = r.code /\ r.edition <= spent.edits + 1 /\ r.key.version <= r.edition
        /\ photo[r.code] # NoPhoto => photo[r.code] >= r.edition
        /\ r.told => r.key.version = r.edition
    BY <2>1 DEF Truthful
  <2>3. r.code \in Employees /\ r.edition \in Nat
    BY BuildAssumption DEF Refs, Editions
  <2>4. photo'[r.code] = photo[r.code] \/ photo'[r.code] = NoPhoto \/ photo'[r.code] > spent.edits + 1
    BY <2>3 DEF Grows
  <2>5. photo'[r.code] # NoPhoto => photo'[r.code] >= r.edition
    <3>1. CASE photo'[r.code] = photo[r.code]
      BY <2>2, <3>1
    <3>2. CASE photo'[r.code] > spent.edits + 1
      <4>1. photo'[r.code] \in Nat
        BY <2>3 DEF Grows
      <4>2. QED
        BY <1>2, <2>2, <2>3, <3>2, <4>1
    <3>3. QED
      BY <2>4, <3>1, <3>2
  <2>6. r.edition <= spent'.edits + 1
    BY <1>2, <2>2, <2>3 DEF Grows
  <2>7. QED
    BY <2>1, <2>2, <2>5, <2>6, Zenon
<1>4. QED
  BY <1>3 DEF Truthful

LEMMA EnrolledStays ==
    ASSUME Typed, Grows, NEW refs \in Seq(Refs), Truthful(refs, photo, spent.edits),
           NEW entries, NEW reached, Enrolled(entries, refs, reached, photo)
    PROVE  Enrolled(entries, refs, reached, photo')
<1>1. ASSUME NEW i \in DOMAIN refs, photo[refs[i].code] # refs[i].edition
      PROVE  photo'[refs[i].code] # refs[i].edition
  <2>1. PICK r \in Refs : r = refs[i]
    BY LenProperties, ElementOfSeq
  <2>2. r.edition <= spent.edits + 1
    BY <2>1 DEF Truthful
  <2>3. r.code \in Employees /\ r.edition \in Nat \ {0}
    BY BuildAssumption DEF Refs, Editions
  <2>4. photo'[r.code] = photo[r.code] \/ photo'[r.code] = NoPhoto \/ photo'[r.code] > spent.edits + 1
    BY <2>3 DEF Grows
  <2>5. spent.edits \in Nat /\ photo'[r.code] \in Nat
    BY <2>3 DEF Typed, SpentTyped, Grows
  <2>6. QED
    BY <1>1, <2>1, <2>2, <2>3, <2>4, <2>5 DEF NoPhoto
<1>2. QED
  BY <1>1 DEF Enrolled

\* What a build has listed and embedded stays so while the photos change.
LEMMA KeptListed ==
    ASSUME Typed, Listed, Grows, NEW b \in Builders,
           build'[b].refs = build[b].refs, build'[b].entries = build[b].entries,
           (build'[b].pc \in Embedded) <=> (build[b].pc \in Embedded),
           build'[b].reached = build[b].reached
    PROVE  BuildListed(b)'
<1>1. PICK refs \in Seq(Refs) : refs = build[b].refs
  BY DEF Typed, TypeOK, BuildTyped
<1>2. Truthful(refs, photo', spent'.edits)
  BY <1>1, TruthfulStays DEF Listed, BuildListed
<1>3. build[b].pc \in Embedded => Enrolled(build[b].entries, refs, build[b].reached, photo')
  BY <1>1, EnrolledStays DEF Listed, BuildListed
<1>4. QED
  BY <1>1, <1>2, <1>3 DEF Listed, BuildListed

LEMMA OthersListed ==
    ASSUME Typed, Listed, Grows, NEW b \in Builders, Kept(b), NEW c \in Builders, c # b
    PROVE  BuildListed(c)'
<1>1. build'[c] = build[c]
  BY DEF Kept, Others
<1>2. QED
  BY <1>1, KeptListed

\* What is served stays as good as it was while the photos change.
LEMMA ShownStays ==
    ASSUME Typed, Listed, Grows, shown' = shown, gallery' = gallery
    PROVE  ShownListed'
<1>1. PICK refs \in Seq(Refs) : refs = shown.refs
  BY DEF Typed, TypeOK
<1>2. Truthful(refs, photo', spent'.edits) /\ Enrolled(gallery, refs, shown.reached, photo')
  BY <1>1, TruthfulStays, EnrolledStays DEF Listed, ShownListed
<1>3. QED
  BY <1>1, <1>2 DEF Listed, ShownListed

LEMMA ListListed ==
    ASSUME Typed, Listed, Grows, NEW b \in Builders, List(b)
    PROVE  Listed'
<1>1. Lists(b) /\ photo' = photo /\ shown' = shown /\ gallery' = gallery
  BY ListLists DEF List
<1>2. PICK answered \in SUBSET Employees, there \in Seq(Employees) :
        /\ \A i \in DOMAIN there : photo[there[i]] # NoPhoto
        /\ build'[b].refs = [i \in DOMAIN there |-> Ref(there[i], answered)]
  BY <1>1, Zenon DEF Lists
<1>3. PICK refs : refs = build'[b].refs
  OBVIOUS
<1>4. DOMAIN refs = DOMAIN there /\ \A i \in DOMAIN refs : refs[i] = Ref(there[i], answered)
  BY <1>2, <1>3
<1>5. ASSUME NEW i \in DOMAIN refs
      PROVE  /\ refs[i].key.of = refs[i].code
             /\ refs[i].edition <= spent'.edits + 1
             /\ refs[i].key.version <= refs[i].edition
             /\ photo'[refs[i].code] # NoPhoto => photo'[refs[i].code] >= refs[i].edition
             /\ refs[i].told => refs[i].key.version = refs[i].edition
  <2>1. PICK e \in Employees : e = there[i]
    BY <1>4, LenProperties, ElementOfSeq
  <2>2. refs[i] = Ref(e, answered)
    BY <1>4, <2>1
  <2>3. photo[e] \in Nat /\ photo[e] <= spent.edits + 1 /\ spent.edits \in Nat
    BY DEF Typed, SpentTyped
  <2>4. /\ refs[i].code = e /\ refs[i].key.of = e /\ refs[i].edition = photo[e]
        /\ refs[i].told = (e \in answered \ Untagged)
        /\ refs[i].key.version = (IF e \in answered \ Untagged THEN photo[e] ELSE 0)
    BY <2>2 DEF Ref, Key
  <2>5. spent'.edits \in Nat /\ spent'.edits >= spent.edits
    BY DEF Grows
  <2>6. /\ refs[i].edition <= spent'.edits + 1 /\ refs[i].key.version <= refs[i].edition
        /\ photo'[refs[i].code] >= refs[i].edition
    BY <1>1, <2>3, <2>4, <2>5
  <2>7. QED
    BY <2>4, <2>6
<1>6. ASSUME NEW i \in DOMAIN refs, NEW j \in DOMAIN refs, refs[i].code = refs[j].code
      PROVE  refs[i] = refs[j]
  <2>1. refs[i] = Ref(there[i], answered) /\ refs[j] = Ref(there[j], answered)
    BY <1>4
  <2>2. there[i] = there[j]
    BY <1>6, <2>1 DEF Ref
  <2>3. QED
    BY <2>1, <2>2
<1>7. Truthful(refs, photo', spent'.edits)
  BY <1>5, <1>6 DEF Truthful
<1>8. BuildListed(b)'
  <2>1. build'[b].pc \notin Embedded /\ build[b].pc \notin Embedded
    BY <1>1 DEF Lists, Embedded, Saving
  <2>2. build'[b].entries = <<>>
    BY <1>1, <2>1 DEF Lists, Listed, BuildListed
  <2>3. \A s : s = <<>> => Drawn(s, refs)
    BY DEF Drawn
  <2>4. QED
    BY <1>3, <1>7, <2>1, <2>2, <2>3 DEF BuildListed
<1>9. QED
  BY <1>1, <1>8, OthersListed, ShownStays DEF Listed, Lists

LEMMA EmbedListed ==
    ASSUME Typed, Listed, Grows, NEW b \in Builders, Embed(b)
    PROVE  Listed'
<1>1. Embeds(b) /\ photo' = photo /\ shown' = shown /\ gallery' = gallery
  BY EmbedEmbeds DEF Embed
<1>2. PICK reached \in SUBSET Employees :
        /\ build'[b].reached = build[b].reached \cap reached
        /\ GoodOnes(b, reached, build'[b].entries)
  BY <1>1, Zenon DEF Embeds
<1>3. PICK refs \in Seq(Refs) : refs = build[b].refs
  BY DEF Typed, TypeOK, BuildTyped
<1>4. PICK entries : entries = build'[b].entries
  OBVIOUS
<1>5. /\ \A n \in DOMAIN entries : \E i \in DOMAIN refs : entries[n] = EntryOf(b, refs[i])
      /\ \A i \in DOMAIN refs : Good(b, refs[i], reached) =>
            \E n \in DOMAIN entries : entries[n] = EntryOf(b, refs[i])
  BY <1>2, <1>3, <1>4, Zenon DEF GoodOnes
<1>6. Drawn(entries, refs)
  BY <1>5 DEF Drawn, EntryOf
<1>7. Enrolled(entries, refs, build'[b].reached, photo)
  <2> SUFFICES ASSUME NEW i \in DOMAIN refs, refs[i].code \in build'[b].reached,
                      photo[refs[i].code] = refs[i].edition
               PROVE  \E n \in DOMAIN entries : entries[n].code = refs[i].code
    BY DEF Enrolled
  <2>1. refs[i].edition # NoPhoto
    <3>1. refs[i] \in Refs
      BY LenProperties, ElementOfSeq
    <3>2. QED
      BY <3>1, BuildAssumption DEF Refs, Editions, NoPhoto
  <2>2. Good(b, refs[i], reached)
    BY <1>2, <2>1 DEF Good
  <2>3. QED
    BY <1>5, <2>2 DEF EntryOf
<1>8. Truthful(refs, photo', spent'.edits)
  BY <1>3, TruthfulStays DEF Listed, BuildListed
<1>9. BuildListed(b)'
  <2>1. build'[b].pc \in Embedded
    BY <1>1 DEF Embeds, Embedded, Saving
  <2>2. build'[b].refs = refs
    BY <1>1, <1>3 DEF Embeds
  <2>3. QED
    BY <1>1, <1>4, <1>6, <1>7, <1>8, <2>1, <2>2 DEF BuildListed
<1>10. QED
  BY <1>1, <1>9, OthersListed, ShownStays DEF Listed, Embeds

\* A step of a build that neither lists nor embeds nor ends.
LEMMA MovedListed ==
    ASSUME Typed, Listed, Grows, NEW b \in Builders,
           TakeFingerprint(b) \/ LoadManifest(b) \/ LoadVectors(b) \/ Saves(b)
    PROVE  Listed'
<1>1. shown' = shown /\ gallery' = gallery
  BY DEF TakeFingerprint, LoadManifest, LoadVectors, Saves
<1>2. /\ Kept(b) /\ build'[b].refs = build[b].refs /\ build'[b].entries = build[b].entries
      /\ build'[b].reached = build[b].reached
  BY Domains, LoadLoads
  DEF TakeFingerprint, LoadManifest, Loads, Saves, Moved, Kept, Others, Fields, Idle
<1>3. (build'[b].pc \in Embedded) <=> (build[b].pc \in Embedded)
  <2>1. CASE TakeFingerprint(b) \/ LoadManifest(b)
    BY <2>1, Domains DEF TakeFingerprint, LoadManifest, Embedded, Saving, Fields, Idle
  <2>2. CASE LoadVectors(b)
    BY <2>2, LoadLoads DEF Loads, Embedded, Saving
  <2>3. CASE Saves(b)
    BY <2>3 DEF Saves, Moved, Embedded, Saving
  <2>4. QED
    BY <2>1, <2>2, <2>3
<1>4. \A c \in Builders : BuildListed(c)'
  BY <1>2, <1>3, KeptListed, OthersListed
<1>5. QED
  BY <1>1, <1>4, ShownStays DEF Listed

LEMMA EndListed ==
    ASSUME Typed, Listed, Grows, NEW b \in Builders, Ends(b)
    PROVE  Listed'
<1>1. \A c \in Builders : BuildListed(c)'
  <2>1. BuildListed(b)'
    <3>1. build'[b].refs = <<>> /\ build'[b].entries = <<>> /\ build'[b].pc = "idle"
      BY NothingYet DEF Ends
    <3>2. build'[b].pc \notin Embedded
      BY <3>1 DEF Embedded, Saving
    <3>3. QED
      BY <3>1, <3>2, NobodyListed DEF BuildListed
  <2>2. QED
    BY <2>1, OthersListed DEF Ends
<1>2. ShownListed'
  <2>1. CASE UNCHANGED <<gallery, shown>>
    BY <2>1, ShownStays
  <2>2. CASE /\ gallery' = build[b].entries
             /\ shown' = [refs |-> build[b].refs, reached |-> build[b].reached]
             /\ build[b].pc = "saved" \/ (build[b].refs = <<>> /\ build[b].entries = <<>>)
    <3>1. shown'.refs = build[b].refs /\ shown'.reached = build[b].reached /\ photo' = photo
      BY <2>2 DEF Ends
    <3>2. PICK refs \in Seq(Refs) : refs = build[b].refs
      BY DEF Typed, TypeOK, BuildTyped
    <3>3. Truthful(refs, photo', spent'.edits) /\ Drawn(build[b].entries, refs)
      BY <3>2, TruthfulStays DEF Listed, BuildListed
    <3>4. Enrolled(build[b].entries, refs, build[b].reached, photo)
      BY <2>2, <3>2, NobodyListed DEF Listed, BuildListed, Embedded
    <3>5. QED
      BY <2>2, <3>1, <3>2, <3>3, <3>4 DEF ShownListed
  <2>3. QED
    BY <2>1, <2>2 DEF Ends
<1>3. QED
  BY <1>1, <1>2 DEF Listed

LEMMA ListedStep ==
    ASSUME Typed, Ready, Listed, Next
    PROVE  Listed'
<1> Grows
  BY StepGrows
<1>1. CASE (\E e \in Employees : Edit(e)) \/ Deploy \/ LoadModels
  <2>1. shown' = shown /\ gallery' = gallery /\ build' = build
    BY <1>1 DEF Edit, Deploy, LoadModels
  <2>2. QED
    BY <2>1, KeptListed, ShownStays DEF Listed
<1>2. CASE Restart
  <2>1. gallery' = <<>> /\ shown'.refs = <<>>
    BY <1>2 DEF Restart, NothingShown
  <2>2. ShownListed'
    BY <2>1, NobodyListed DEF ShownListed
  <2>3. ASSUME NEW b \in Builders
        PROVE  BuildListed(b)'
    <3>1. build'[b].refs = <<>> /\ build'[b].entries = <<>> /\ build'[b].pc \in {"start", "idle"}
      BY <1>2, StartsOver, NothingYet
    <3>2. build'[b].pc \notin Embedded
      BY <3>1 DEF Embedded, Saving
    <3>3. QED
      BY <3>1, <3>2, NobodyListed DEF BuildListed
  <2>4. QED
    BY <2>2, <2>3 DEF Listed
<1>3. CASE Reload
  <2>1. "reload" \in Builders
    BY DEF Builders
  <2>2. Kept("reload") /\ build'["reload"] = Started
    BY <1>3, <2>1, Domains, Starts DEF Reload
  <2>3. BuildListed("reload")'
    <3>1. /\ build'["reload"].refs = <<>> /\ build'["reload"].entries = <<>>
          /\ build'["reload"].pc = "start"
      BY <2>2, NothingYet
    <3>2. build'["reload"].pc \notin Embedded
      BY <3>1 DEF Embedded, Saving
    <3>3. QED
      BY <3>1, <3>2, NobodyListed DEF BuildListed
  <2>4. QED
    BY <1>3, <2>1, <2>2, <2>3, OthersListed, ShownStays DEF Reload, Listed
<1>4. ASSUME NEW b \in Builders, BuildStep(b)
      PROVE  Listed'
  BY <1>4, BuildStepIs, ListListed, EmbedListed, MovedListed, EndListed, Zenon
<1>5. QED
  BY <1>1, <1>2, <1>3, <1>4 DEF Next

LEMMA InitListed ==
    ASSUME Init
    PROVE  Listed
<1>1. gallery = <<>> /\ shown.refs = <<>>
  BY DEF Init, NothingShown
<1>2. \A b \in Builders : build[b] \in {Started, Idle}
  BY DEF Init
<1>3. QED
  BY <1>1, <1>2, NobodyListed, FreshListed DEF Listed, ShownListed

Known == Typed /\ Ready /\ Listed

LEMMA KnownStep ==
    ASSUME Known, [Next]_vars
    PROVE  Known'
<1>1. UNCHANGED vars => Known'
  BY DEF Known, vars, loaded, disk, history, Typed, SpentTyped, TypeOK, Ready, Listed, ShownListed,
         BuildListed
<1>2. Next => Known'
  BY TypedStep, ReadyStep, ListedStep DEF Known
<1>3. QED
  BY <1>1, <1>2

LEMMA InitKnown == Init => Known
BY InitTyped, InitReady, InitListed DEF Known

\* GalleryBuild.tla: whoever was listed and could be reached is served, or has another
\* photo by now, for any number of failures, edits and builds.
THEOREM ReachedServed == Spec => []ReachableAreEnrolled
<1>1. Known => ReachableAreEnrolled
  <2> SUFFICES ASSUME ShownListed, NEW r \in Range(shown.refs), r.code \in shown.reached,
                      photo[r.code] = r.edition
               PROVE  r.code \in {g.code : g \in Served}
    BY DEF Known, Listed, ReachableAreEnrolled
  <2>1. PICK i \in DOMAIN shown.refs : r = shown.refs[i]
    BY DEF Range
  <2>2. PICK n \in DOMAIN gallery : gallery[n].code = r.code
    BY <2>1 DEF ShownListed, Enrolled
  <2>3. QED
    BY <2>2 DEF Served, Range
<1>2. QED
  BY <1>1, InitKnown, KnownStep, PTL DEF Spec

-------------------------------------------------------------------------------
(* One model, when no model files of before are put back *)

\* The models of this process, or those it would load.
Current == IF models = NotLoaded THEN files ELSE models

\* The rows are of the models m, unless a cache may have been named after them wrongly.
Of(m, wrong, rows) == m \in wrong \/ \A i \in DOMAIN rows : rows[i].model = m

\* A fingerprint is of files there have been; one of newer models than m is misnamed.
Named(f, m, wrong, high) == f <= high /\ (f > m => f \in wrong)

BuildOf(x, m, wrong, high, rows, temps) ==
    /\ Of(m, wrong, RowsOf(x.entries))
    /\ Named(x.fingerprint, m, wrong, high)
    /\ x.pc \notin {"idle", "start"} => x.fingerprint >= m
    /\ x.pc = "loading" => (x.cached.model >= m => Of(m, wrong, rows))
    /\ x.pc = "embedding" => Of(m, wrong, x.cached)
    /\ x.pc \in {"tmp manifest", "manifest"} => Of(m, wrong, rows)
    /\ x.pc = "vectors" => \A f \in temps : Of(m, wrong, f.rows)

\* Vectors under a manifest that could be taken for one of the models m are of those.
FilesOf(m, wrong, high, rows, man, temps) ==
    /\ man.model >= m => Of(m, wrong, rows)
    /\ Named(man.model, m, wrong, high)
    /\ \A f \in temps : Named(f.model, m, wrong, high)

BuildsOf == \A b \in Builders :
    BuildOf(build[b], Current, misnamed, files, vectors.rows, tmp.vectors)

OneModel ==
    /\ models <= files
    /\ models = NotLoaded => gallery = <<>>
    /\ Of(Current, misnamed, RowsOf(gallery))
    /\ FilesOf(Current, misnamed, files, vectors.rows, manifest, tmp.manifest)
    /\ BuildsOf

\* The numbers there are.
LEMMA ModelNumbers ==
    ASSUME Typed
    PROVE  /\ files \in Nat /\ models \in Nat /\ Current \in Nat /\ manifest.model \in Nat
           /\ \A f \in tmp.manifest : f.model \in Nat
           /\ \A b \in Builders : build[b].fingerprint \in Nat
<1>1. files \in Nat /\ models \in Nat
  BY DEF Typed, TypeOK, Models, NotLoaded
<1>2. manifest.model \in Nat /\ \A f \in tmp.manifest : f.model \in Nat
  BY DEF Typed, TypeOK, Manifests
<1>3. \A b \in Builders : build[b].fingerprint \in Nat
  <2>1. \A b \in Builders : build[b].fingerprint \in {0} \/ build[b].fingerprint \in Models
    BY DEF Typed, TypeOK, BuildTyped
  <2>2. QED
    BY <2>1 DEF Models
<1>4. QED
  BY <1>1, <1>2, <1>3 DEF Current

LEMMA NoRowsOf ==
    ASSUME NEW m, NEW wrong, NEW entries, entries = <<>>
    PROVE  Of(m, wrong, entries) /\ Of(m, wrong, RowsOf(entries))
BY DEF Of, RowsOf

\* A build that has done nothing says nothing of any models.
LEMMA NothingOf ==
    ASSUME NEW x, x.pc \in {"idle", "start"}, x.fingerprint = 0, x.entries = <<>>,
           NEW m \in Nat, NEW wrong, NEW high \in Nat, NEW rows, NEW temps
    PROVE  BuildOf(x, m, wrong, high, rows, temps)
<1>1. Of(m, wrong, RowsOf(x.entries))
  BY NoRowsOf
<1>2. Named(x.fingerprint, m, wrong, high)
  <2>1. Named(0, m, wrong, high)
    BY DEF Named
  <2>2. QED
    BY <2>1, Zenon
<1>3. QED
  BY <1>1, <1>2, Zenon DEF BuildOf

\* More fingerprints misnamed, newer files, and rows that are the same or of the models.
LEMMA BuildOfStays ==
    ASSUME NEW x, x.fingerprint \in Nat, NEW m, NEW wrong, NEW more, wrong \subseteq more,
           NEW high \in Nat, NEW higher \in Nat, high <= higher,
           NEW rows, NEW rows2, rows2 = rows \/ Of(m, more, rows2),
           NEW temps, NEW temps2, \A f \in temps2 : f \in temps \/ Of(m, more, f.rows),
           BuildOf(x, m, wrong, high, rows, temps)
    PROVE  BuildOf(x, m, more, higher, rows2, temps2)
<1>1. \A r : Of(m, wrong, r) => Of(m, more, r)
  BY DEF Of
<1>2. Named(x.fingerprint, m, more, higher)
  <2>1. PICK f \in Nat : f = x.fingerprint
    OBVIOUS
  <2>2. Named(f, m, wrong, high)
    BY <2>1 DEF BuildOf
  <2>3. Named(f, m, more, higher)
    BY <2>2 DEF Named
  <2>4. QED
    BY <2>1, <2>3
<1>3. Of(m, wrong, rows) => Of(m, more, rows2)
  BY <1>1
<1>4. (\A f \in temps : Of(m, wrong, f.rows)) => \A f \in temps2 : Of(m, more, f.rows)
  BY <1>1, Zenon
<1>5. QED
  BY <1>1, <1>2, <1>3, <1>4, Zenon DEF BuildOf

\* While one process runs, rows of its models replace rows of whatever models, and so in the
\* temporary file.
SameProcess ==
    /\ files' = files /\ models' = models
    /\ misnamed \subseteq misnamed'
    /\ vectors' = vectors \/ Of(Current, misnamed', vectors'.rows)
    /\ \A f \in tmp'.vectors : f \in tmp.vectors \/ Of(Current, misnamed', f.rows)

LEMMA OthersOf ==
    ASSUME Typed, OneModel, SameProcess, NEW b \in Builders, build'[b] = build[b]
    PROVE  BuildOf(build'[b], Current', misnamed', files', vectors'.rows, tmp'.vectors)
<1>1. Current' = Current
  BY DEF SameProcess, Current
<1>2. PICK m, x, rows2, temps2, more :
        /\ m = Current /\ x = build[b] /\ rows2 = vectors'.rows /\ temps2 = tmp'.vectors
        /\ more = misnamed'
  OBVIOUS
<1>3. /\ x.fingerprint \in Nat /\ files \in Nat /\ misnamed \subseteq more
      /\ rows2 = vectors.rows \/ Of(m, more, rows2)
      /\ \A f \in temps2 : f \in tmp.vectors \/ Of(m, more, f.rows)
      /\ BuildOf(x, m, misnamed, files, vectors.rows, tmp.vectors)
  BY <1>2, ModelNumbers DEF SameProcess, OneModel, BuildsOf
<1>4. BuildOf(x, m, more, files, rows2, temps2)
  BY <1>3, BuildOfStays
<1>5. QED
  BY <1>1, <1>2, <1>4 DEF SameProcess

\* What is served, and the files, when no step of the build touches them.
LEMMA ServedStays ==
    ASSUME Typed, OneModel, SameProcess, gallery' = gallery
    PROVE  /\ models' <= files'
           /\ models' = NotLoaded => gallery' = <<>>
           /\ Of(Current', misnamed', RowsOf(gallery'))
<1>1. Current' = Current
  BY DEF SameProcess, Current
<1>2. QED
  BY <1>1 DEF SameProcess, OneModel, Of

LEMMA FilesStay ==
    ASSUME Typed, OneModel, SameProcess, vectors' = vectors, manifest' = manifest,
           tmp'.manifest = tmp.manifest
    PROVE  FilesOf(Current', misnamed', files', vectors'.rows, manifest', tmp'.manifest)
<1>1. Current' = Current
  BY DEF SameProcess, Current
<1>2. QED
  BY <1>1 DEF SameProcess, OneModel, FilesOf, Of, Named

\* A step of a build that touches no file and serves nothing.
LEMMA QuietOf ==
    ASSUME Typed, OneModel, NEW b \in Builders, Kept(b), UNCHANGED <<files, models, disk, gallery>>,
           misnamed \subseteq misnamed',
           BuildOf(build'[b], Current, misnamed', files, vectors.rows, tmp.vectors)
    PROVE  OneModel'
<1>1. SameProcess /\ Current' = Current
  BY DEF SameProcess, disk, Current
<1>2. \A c \in Builders : c # b =>
         BuildOf(build'[c], Current', misnamed', files', vectors'.rows, tmp'.vectors)
  BY <1>1, OthersOf DEF Kept, Others
<1>3. BuildOf(build'[b], Current', misnamed', files', vectors'.rows, tmp'.vectors)
  BY <1>1 DEF disk
<1>4. BuildsOf'
  BY <1>2, <1>3 DEF BuildsOf
<1>5. QED
  BY <1>1, <1>4, ServedStays, FilesStay DEF OneModel, disk

LEMMA WorldOneModel ==
    ASSUME ~RollsBack, Typed, Ready, Listed, OneModel, Deploy \/ LoadModels
    PROVE  OneModel'
<1>1. UNCHANGED <<misnamed, disk, gallery, build>>
  BY DEF Deploy, LoadModels
<1>2. files \in Nat /\ models \in Nat /\ MaxModels \in Nat
  BY ModelNumbers, BuildAssumption
<1>3. CASE LoadModels
  <2>1. models = NotLoaded /\ models' = files /\ files' = files
    BY <1>3 DEF LoadModels
  <2>2. Current' = Current
    BY <2>1 DEF Current, NotLoaded
  <2>3. models' <= files' /\ gallery' = <<>>
    BY <1>1, <1>2, <2>1 DEF OneModel
  <2>4. QED
    BY <1>1, <2>1, <2>2, <2>3 DEF OneModel, BuildsOf, disk
<1>4. CASE Deploy
  <2>1. files' \in Nat /\ files < files' /\ models' = models
    <3>1. files' \in files + 1 .. MaxModels
      BY <1>4 DEF Deploy
    <3>2. QED
      BY <1>2, <1>4, <3>1 DEF Deploy
  <2>2. models' <= files'
    BY <1>2, <2>1 DEF OneModel
  <2>3. CASE models = NotLoaded
    <3>1. Current' = files' /\ Current = files
      BY <2>1, <2>3 DEF Current
    <3>2. gallery' = <<>> /\ Of(Current', misnamed', RowsOf(gallery'))
      BY <1>1, <2>3, NoRowsOf DEF OneModel
    <3>3. FilesOf(Current', misnamed', files', vectors'.rows, manifest', tmp'.manifest)
      BY <1>1, <1>2, <2>1, <3>1, ModelNumbers DEF OneModel, FilesOf, Named, disk
    <3>4. ASSUME NEW b \in Builders
          PROVE  BuildOf(build'[b], Current', misnamed', files', vectors'.rows, tmp'.vectors)
      <4>1. build[b].pc \in {"idle", "start"}
        BY <2>3 DEF Ready
      <4>2. build[b].fingerprint = 0 /\ build[b].entries = <<>>
        BY <4>1 DEF Typed, TypeOK, BuildTyped, Listed, BuildListed, Embedded, Saving
      <4>3. PICK x, m, high, rows, temps :
              /\ x = build[b] /\ m = Current' /\ high = files' /\ rows = vectors'.rows
              /\ temps = tmp'.vectors
        OBVIOUS
      <4>4. BuildOf(x, m, misnamed, high, rows, temps)
        BY <2>1, <3>1, <4>1, <4>2, <4>3, NothingOf
      <4>5. QED
        BY <1>1, <4>3, <4>4
    <3>5. QED
      BY <2>2, <3>2, <3>3, <3>4 DEF OneModel, BuildsOf
  <2>4. CASE models # NotLoaded
    <3>1. Current' = Current /\ Current = models
      BY <2>1, <2>4 DEF Current
    <3>2. FilesOf(Current', misnamed', files', vectors'.rows, manifest', tmp'.manifest)
      BY <1>1, <1>2, <2>1, <3>1, ModelNumbers DEF OneModel, FilesOf, Named, disk
    <3>3. ASSUME NEW b \in Builders
          PROVE  BuildOf(build'[b], Current', misnamed', files', vectors'.rows, tmp'.vectors)
      <4>1. PICK m, high : m = Current /\ high = files'
        OBVIOUS
      <4>2. /\ BuildOf(build[b], m, misnamed, files, vectors.rows, tmp.vectors)
            /\ high \in Nat /\ files <= high /\ build[b].fingerprint \in Nat
        BY <1>2, <2>1, <4>1, ModelNumbers DEF OneModel, BuildsOf
      <4>3. BuildOf(build[b], m, misnamed, high, vectors.rows, tmp.vectors)
        BY <1>2, <4>2, BuildOfStays
      <4>4. QED
        BY <1>1, <3>1, <4>1, <4>3 DEF disk
    <3>4. QED
      BY <1>1, <2>1, <2>2, <2>4, <3>1, <3>2, <3>3 DEF OneModel, BuildsOf
  <2>5. QED
    BY <2>3, <2>4
<1>5. QED
  BY <1>3, <1>4

LEMMA RestartOneModel ==
    ASSUME Typed, OneModel, Restart
    PROVE  OneModel'
<1>1. /\ models' = 0 /\ gallery' = <<>> /\ UNCHANGED <<files, misnamed, disk>>
  BY DEF Restart, NotLoaded
<1>2. files \in Nat /\ models \in Nat /\ manifest.model \in Nat /\ Current \in Nat
  BY ModelNumbers
<1>3. Current' = files /\ Current <= files /\ models' <= files'
  BY <1>1, <1>2 DEF Current, NotLoaded, OneModel
<1>4. FilesOf(files, misnamed, files, vectors.rows, manifest, tmp.manifest)
  <2>1. Named(manifest.model, files, misnamed, files)
    BY <1>2, <1>3 DEF OneModel, FilesOf, Named
  <2>2. \A f \in tmp.manifest : Named(f.model, files, misnamed, files)
    BY <1>2, <1>3, ModelNumbers DEF OneModel, FilesOf, Named
  <2>3. ASSUME manifest.model >= files
        PROVE  Of(files, misnamed, vectors.rows)
    <3>1. manifest.model = files
      BY <1>2, <2>1, <2>3 DEF Named
    <3>2. CASE Current = files
      BY <2>3, <3>2 DEF OneModel, FilesOf
    <3>3. CASE Current # files
      BY <1>2, <1>3, <3>1, <3>3 DEF OneModel, FilesOf, Named, Of
    <3>4. QED
      BY <3>2, <3>3
  <2>4. QED
    BY <2>1, <2>2, <2>3 DEF FilesOf
<1>5. ASSUME NEW b \in Builders
      PROVE  BuildOf(build'[b], files, misnamed, files, vectors.rows, tmp.vectors)
  <2>1. PICK x : x = build'[b]
    OBVIOUS
  <2>2. x.pc \in {"idle", "start"} /\ x.fingerprint = 0 /\ x.entries = <<>>
    BY <2>1, StartsOver, NothingYet
  <2>3. BuildOf(x, files, misnamed, files, vectors.rows, tmp.vectors)
    BY <1>2, <2>2, NothingOf
  <2>4. QED
    BY <2>1, <2>3
<1>6. Of(Current', misnamed', RowsOf(gallery'))
  BY <1>1, NoRowsOf
<1>7. QED
  BY <1>1, <1>3, <1>4, <1>5, <1>6 DEF OneModel, BuildsOf, disk

LEMMA FingerprintOneModel ==
    ASSUME Typed, OneModel, NEW b \in Builders, TakeFingerprint(b)
    PROVE  OneModel'
<1>1. /\ models # NotLoaded /\ UNCHANGED <<files, models, disk, gallery>>
      /\ misnamed' = misnamed \cup ({files} \ {models}) /\ build[b].pc = "start"
  BY DEF TakeFingerprint
<1>2. /\ Kept(b) /\ build'[b].pc = "list" /\ build'[b].fingerprint = files
      /\ build'[b].entries = build[b].entries
  BY Domains DEF TakeFingerprint, Kept, Others, Fields, Idle
<1>3. files \in Nat /\ models \in Nat /\ Current = models /\ models <= files
  BY <1>1, ModelNumbers DEF OneModel, Current
<1>4. Named(files, Current, misnamed', files) /\ files >= Current
  BY <1>1, <1>3 DEF Named
<1>5. Of(Current, misnamed', RowsOf(build[b].entries))
  BY <1>1 DEF OneModel, BuildsOf, BuildOf, Of
<1>6. BuildOf(build'[b], Current, misnamed', files', vectors.rows, tmp.vectors)
  BY <1>1, <1>2, <1>4, <1>5 DEF BuildOf
<1>7. QED
  BY <1>1, <1>2, <1>6, QuietOf

LEMMA ListOneModel ==
    ASSUME Typed, OneModel, NEW b \in Builders, List(b)
    PROVE  OneModel'
<1>1. Lists(b) /\ UNCHANGED <<files, models, misnamed, disk, gallery>>
  BY ListLists DEF List, loaded
<1>2. /\ Kept(b) /\ build'[b].pc = "listed" /\ build[b].pc = "list"
      /\ build'[b].fingerprint = build[b].fingerprint /\ build'[b].entries = build[b].entries
  BY <1>1 DEF Lists
<1>3. BuildOf(build'[b], Current, misnamed', files', vectors.rows, tmp.vectors)
  BY <1>1, <1>2 DEF OneModel, BuildsOf, BuildOf
<1>4. QED
  BY <1>1, <1>2, <1>3, QuietOf

LEMMA LoadOneModel ==
    ASSUME Typed, OneModel, NEW b \in Builders, LoadManifest(b) \/ LoadVectors(b)
    PROVE  OneModel'
<1>1. UNCHANGED <<files, models, misnamed, disk, gallery>>
  BY DEF LoadManifest, LoadVectors, loaded
<1>2. CASE LoadManifest(b)
  <2>1. /\ Kept(b) /\ build'[b].pc = "loading" /\ build[b].pc = "listed"
        /\ build'[b].fingerprint = build[b].fingerprint /\ build'[b].entries = build[b].entries
        /\ build'[b].cached = manifest
    BY <1>2, Domains DEF LoadManifest, Kept, Others, Fields, Idle
  <2>2. BuildOf(build'[b], Current, misnamed', files', vectors.rows, tmp.vectors)
    BY <1>1, <2>1 DEF OneModel, BuildsOf, BuildOf, FilesOf
  <2>3. QED
    BY <1>1, <2>1, <2>2, QuietOf
<1>3. CASE LoadVectors(b)
  <2>1. Loads(b)
    BY <1>3, LoadLoads
  <2>2. /\ Kept(b) /\ build'[b].pc = "embedding" /\ build[b].pc = "loading"
        /\ build'[b].fingerprint = build[b].fingerprint /\ build'[b].entries = build[b].entries
    BY <2>1 DEF Loads, SameSave
  <2>3. BuildOf(build[b], Current, misnamed, files, vectors.rows, tmp.vectors)
    BY DEF OneModel, BuildsOf
  <2>4. Of(Current, misnamed, build'[b].cached)
    <3> SUFFICES ASSUME Current \notin misnamed, NEW k \in DOMAIN build'[b].cached
                 PROVE  build'[b].cached[k].model = Current
      BY Zenon DEF Of
    <3>1. /\ build[b].cached.model = build[b].fingerprint
          /\ \E l \in DOMAIN vectors.rows : build'[b].cached[k] = vectors.rows[l]
      BY <2>1 DEF Loads
    <3>2. build[b].cached.model >= Current
      BY <2>2, <2>3, <3>1 DEF BuildOf
    <3>3. Of(Current, misnamed, vectors.rows)
      BY <2>2, <2>3, <3>2 DEF BuildOf
    <3>4. QED
      BY <3>1, <3>3 DEF Of
  <2>5. BuildOf(build'[b], Current, misnamed', files', vectors.rows, tmp.vectors)
    BY <1>1, <2>2, <2>3, <2>4 DEF BuildOf
  <2>6. QED
    BY <1>1, <2>2, <2>5, QuietOf
<1>4. QED
  BY <1>2, <1>3

LEMMA EmbedOneModel ==
    ASSUME Typed, Ready, OneModel, NEW b \in Builders, Embed(b)
    PROVE  OneModel'
<1>1. Embeds(b) /\ UNCHANGED <<files, models, misnamed, disk, gallery>>
  BY EmbedEmbeds DEF Embed, loaded
<1>2. /\ Kept(b) /\ build'[b].pc = "tmp vectors" /\ build[b].pc = "embedding"
      /\ build'[b].fingerprint = build[b].fingerprint
  BY <1>1 DEF Embeds, SameSave
<1>3. models # NotLoaded /\ Current = models
  BY <1>2 DEF Ready, Current
<1>4. BuildOf(build[b], Current, misnamed, files, vectors.rows, tmp.vectors)
  BY DEF OneModel, BuildsOf
<1>5. PICK reached : GoodOnes(b, reached, build'[b].entries)
  BY <1>1 DEF Embeds
<1>6. PICK entries : entries = build'[b].entries
  OBVIOUS
<1>7. Of(Current, misnamed, RowsOf(entries))
  <2> SUFFICES ASSUME Current \notin misnamed, NEW n \in DOMAIN entries
               PROVE  entries[n].vector.model = Current
    BY DEF Of, RowsOf
  <2>1. PICK r : entries[n] = EntryOf(b, r)
    BY <1>5, <1>6, Zenon DEF GoodOnes
  <2>2. r.key \in DOMAIN build[b].cached => build[b].cached[r.key].model = Current
    BY <1>2, <1>4 DEF BuildOf, Of
  <2>3. QED
    BY <1>3, <2>1, <2>2 DEF EntryOf, Embedding
<1>8. BuildOf(build'[b], Current, misnamed', files', vectors.rows, tmp.vectors)
  BY <1>1, <1>2, <1>4, <1>6, <1>7 DEF BuildOf
<1>9. QED
  BY <1>1, <1>2, <1>8, QuietOf

LEMMA SaveOneModel ==
    ASSUME Typed, OneModel, NEW b \in Builders, Saves(b)
    PROVE  OneModel'
<1> DEFINE m == Current
           rows == RowsOf(build[b].entries)
<1>1. UNCHANGED <<files, models, misnamed, gallery>> /\ Current' = Current
  BY DEF Saves, loaded, Current
<1>2. BuildOf(build[b], m, misnamed, files, vectors.rows, tmp.vectors)
  BY DEF OneModel, BuildsOf
<1>3. Of(m, misnamed, rows) /\ Named(build[b].fingerprint, m, misnamed, files)
  BY <1>2 DEF BuildOf
<1>4. /\ vectors' = vectors \/ Of(m, misnamed, vectors'.rows)
      /\ build'[b].pc = "tmp manifest" => Of(m, misnamed, vectors'.rows)
  BY <1>2 DEF Saves, Writes, BuildOf
<1>5. \A f \in tmp'.vectors : f \in tmp.vectors \/ Of(m, misnamed, f.rows)
  <2>1. \A f \in tmp'.vectors : f \in tmp.vectors \/ f.rows = rows \/ f.rows = <<>>
    <3> SUFFICES ASSUME NEW f \in tmp'.vectors
                 PROVE  f \in tmp.vectors \/ f.rows = rows \/ f.rows = <<>>
      OBVIOUS
    <3>1. \/ f \in tmp.vectors
          \/ f = [save |-> build[b].listing, rows |-> rows]
          \/ f = [save |-> build[b].listing, rows |-> <<>>]
      BY Zenon DEF Saves
    <3> HIDE DEF rows
    <3>2. QED
      BY <3>1
  <2>2. QED
    BY <1>3, <2>1, NoRowsOf
<1>6. build'[b].pc = "vectors" => \A f \in tmp'.vectors : Of(m, misnamed, f.rows)
  <2>1. build'[b].pc = "vectors" => tmp'.vectors = {[save |-> build[b].listing, rows |-> rows]}
    BY DEF Saves, Writes
  <2>2. QED
    BY <1>3, <2>1
<1>7. SameProcess
  BY <1>1, <1>4, <1>5 DEF SameProcess
<1>8. /\ Kept(b) /\ build'[b].entries = build[b].entries
      /\ build'[b].fingerprint = build[b].fingerprint /\ build'[b].pc \notin {"loading", "embedding"}
      /\ build[b].pc \notin {"idle", "start"}
  BY DEF Saves, Moved, SameSave, Saving
<1>9. build'[b].pc = "manifest" => Of(m, misnamed, vectors'.rows)
  BY <1>2 DEF Saves, Writes, BuildOf
<1>10. BuildOf(build'[b], m, misnamed, files, vectors'.rows, tmp'.vectors)
  BY <1>2, <1>3, <1>4, <1>6, <1>8, <1>9 DEF BuildOf
<1>11. \A c \in Builders : c # b =>
          BuildOf(build'[c], Current', misnamed', files', vectors'.rows, tmp'.vectors)
  BY <1>7, <1>8, OthersOf DEF Kept, Others
<1>12. BuildsOf'
  BY <1>1, <1>10, <1>11 DEF BuildsOf
<1>13. FilesOf(m, misnamed, files, vectors'.rows, manifest', tmp'.manifest)
  <2>1. FilesOf(m, misnamed, files, vectors.rows, manifest, tmp.manifest)
    BY DEF OneModel
  <2>2. m \in Nat /\ files \in Nat
    BY ModelNumbers
  <2>3. \A f \in tmp'.manifest : Named(f.model, m, misnamed, files)
    <3>1. \A f \in tmp'.manifest : f \in tmp.manifest \/ f.model = build[b].fingerprint \/ f.model = 0
      <4> SUFFICES ASSUME NEW f \in tmp'.manifest
                   PROVE  f \in tmp.manifest \/ f.model = build[b].fingerprint \/ f.model = 0
        OBVIOUS
      <4>1. PICK keys : keys = KeysOf(build[b].entries)
        OBVIOUS
      <4>2. \/ f \in tmp.manifest
            \/ f = [save |-> build[b].listing, model |-> build[b].fingerprint, keys |-> keys]
            \/ f = [save |-> build[b].listing, model |-> 0, keys |-> <<>>]
        BY <4>1, Zenon DEF Saves
      <4>3. QED
        BY <4>2
    <3>2. Named(0, m, misnamed, files)
      BY <2>2 DEF Named
    <3>3. QED
      BY <1>3, <2>1, <3>1, <3>2 DEF FilesOf
  <2>4. Named(manifest'.model, m, misnamed, files)
    BY <2>1 DEF Saves, Writes, FilesOf
  <2>5. manifest' = manifest \/ Of(m, misnamed, vectors'.rows)
    BY <1>2 DEF Saves, Writes, BuildOf
  <2>6. manifest'.model >= m => Of(m, misnamed, vectors'.rows)
    BY <1>4, <2>1, <2>5 DEF FilesOf
  <2>7. QED
    BY <2>3, <2>4, <2>6 DEF FilesOf
<1> HIDE DEF m
<1>14. QED
  BY <1>1, <1>7, <1>12, <1>13, ServedStays DEF OneModel, m

LEMMA EndOneModel ==
    ASSUME Typed, Ready, OneModel, NEW b \in Builders, Ends(b)
    PROVE  OneModel'
<1>1. UNCHANGED <<files, models, misnamed, disk>> /\ Current' = Current /\ Kept(b)
  BY DEF Ends, loaded, Current
<1>2. SameProcess
  BY <1>1 DEF SameProcess, disk
<1>3. BuildOf(build'[b], Current', misnamed', files', vectors'.rows, tmp'.vectors)
  <2>1. PICK x, m, high, rows, temps :
          /\ x = build'[b] /\ m = Current' /\ high = files' /\ rows = vectors'.rows
          /\ temps = tmp'.vectors
    OBVIOUS
  <2>2. /\ x.pc \in {"idle", "start"} /\ x.fingerprint = 0 /\ x.entries = <<>>
        /\ m \in Nat /\ high \in Nat
    BY <1>1, <2>1, NothingYet, ModelNumbers DEF Ends
  <2>3. BuildOf(x, m, misnamed, high, rows, temps)
    BY <2>2, NothingOf
  <2>4. QED
    BY <1>1, <2>1, <2>3
<1>4. BuildsOf'
  BY <1>1, <1>2, <1>3, OthersOf DEF BuildsOf, Kept, Others
<1>5. FilesOf(Current', misnamed', files', vectors'.rows, manifest', tmp'.manifest)
  BY <1>1, <1>2, FilesStay DEF disk
<1>6. CASE gallery' = gallery
  BY <1>2, <1>4, <1>5, <1>6, ServedStays DEF OneModel
<1>7. CASE /\ gallery' = build[b].entries
           /\ build[b].pc = "saved" \/ build[b].entries = <<>>
  <2>1. Of(Current, misnamed, RowsOf(build[b].entries))
    BY DEF OneModel, BuildsOf, BuildOf
  <2>2. models = NotLoaded => build[b].entries = <<>>
    BY <1>7 DEF Ready
  <2>3. models <= files
    BY DEF OneModel
  <2>4. QED
    BY <1>1, <1>4, <1>5, <1>7, <2>1, <2>2, <2>3 DEF OneModel
<1>8. QED
  BY <1>6, <1>7 DEF Ends

LEMMA OneModelStep ==
    ASSUME ~RollsBack, Known, OneModel, Next
    PROVE  OneModel'
<1> Typed /\ Ready /\ Listed
  BY DEF Known
<1>1. CASE \E e \in Employees : Edit(e)
  <2>1. UNCHANGED <<loaded, disk, gallery, build>>
    BY <1>1, Zenon DEF Edit
  <2>2. Current' = Current
    BY <2>1 DEF loaded, Current
  <2>3. QED
    BY <2>1, <2>2 DEF loaded, disk, OneModel, BuildsOf
<1>2. CASE Reload
  <2>1. "reload" \in Builders
    BY DEF Builders
  <2>2. Kept("reload") /\ build'["reload"] = Started /\ UNCHANGED <<files, models, misnamed, disk, gallery>>
    BY <1>2, <2>1, Domains, Starts DEF Reload, loaded
  <2>3. PICK x : x = build'["reload"]
    OBVIOUS
  <2>4. x.pc \in {"idle", "start"} /\ x.fingerprint = 0 /\ x.entries = <<>>
    BY <2>2, <2>3, NothingYet
  <2>5. BuildOf(x, Current, misnamed, files, vectors.rows, tmp.vectors)
    BY <2>4, NothingOf, ModelNumbers
  <2>6. QED
    BY <2>1, <2>2, <2>3, <2>5, QuietOf
<1>3. ASSUME NEW b \in Builders, BuildStep(b)
      PROVE  OneModel'
  BY <1>3, BuildStepIs, FingerprintOneModel, ListOneModel, LoadOneModel, EmbedOneModel,
     SaveOneModel, EndOneModel, Zenon
<1>4. QED
  BY <1>1, <1>2, <1>3, WorldOneModel, RestartOneModel DEF Next

LEMMA InitOneModel ==
    ASSUME Init
    PROVE  OneModel
<1>1. /\ files = 1 /\ models = 0 /\ gallery = <<>> /\ vectors.rows = <<>>
      /\ manifest.model = 0 /\ tmp.manifest = {}
  BY DEF Init, NotLoaded
<1>2. Current = 1
  BY <1>1 DEF Current, NotLoaded
<1>3. FilesOf(Current, misnamed, files, vectors.rows, manifest, tmp.manifest)
  BY <1>1, <1>2 DEF FilesOf, Named
<1>4. ASSUME NEW b \in Builders
      PROVE  BuildOf(build[b], Current, misnamed, files, vectors.rows, tmp.vectors)
  <2>1. build[b] \in {Started, Idle}
    BY DEF Init
  <2>2. build[b].pc \in {"idle", "start"} /\ build[b].fingerprint = 0 /\ build[b].entries = <<>>
    BY <2>1, NothingYet
  <2>3. QED
    BY <1>1, <1>2, <2>2, NothingOf
<1>5. QED
  BY <1>1, <1>3, <1>4, NoRowsOf DEF OneModel, BuildsOf

\* embedding_cache.py load: as long as no model files of before are put back, no vector of
\* other models is served, unless a cache was saved under the name of model files that its
\* process had not loaded; whatever overlaps, fails, or is killed between the files.
THEOREM ServedOfOneModel ==
    ASSUME ~RollsBack
    PROVE  Spec => []GalleryIsOneModel
<1>1. Known /\ OneModel => GalleryIsOneModel
  <2> SUFFICES ASSUME OneModel, models \notin misnamed, NEW n \in DOMAIN gallery
               PROVE  gallery[n].vector.model = models
    BY DEF GalleryIsOneModel, Served, Range
  <2>1. models # NotLoaded
    BY DEF OneModel
  <2>2. QED
    BY <2>1 DEF OneModel, Current, Of, RowsOf
<1>2. OneModel /\ UNCHANGED vars => OneModel'
  BY DEF vars, loaded, disk, history, OneModel, BuildsOf, Current
<1>3. Init => Known /\ OneModel
  BY InitKnown, InitOneModel
<1>4. Known /\ OneModel /\ [Next]_vars => Known' /\ OneModel'
  BY <1>2, KnownStep, OneModelStep
<1>5. QED
  BY <1>1, <1>3, <1>4, PTL DEF Spec

-------------------------------------------------------------------------------
(* The right employee, until a build takes the files of two saves for one cache *)

Fits(v, k) == v.of = k.of /\ v.edition >= k.version

AllFit(entries) == \A n \in DOMAIN entries : Fits(entries[n].vector, entries[n].key)

\* What there is of vectors, and of keys: the files, their temporaries, and a manifest read.
RowFiles == {vectors} \cup tmp.vectors

Reading == {b \in Builders : build[b].pc = "loading"}

KeyFiles == {manifest} \cup tmp.manifest \cup {build[b].cached : b \in Reading}

\* The two files of one save go together, row by row.
Pair(r, k) ==
    r.save = k.save => \A i \in DOMAIN r.rows \cap DOMAIN k.keys : Fits(r.rows[i], k.keys[i])

\* A file under the number of a build is of the entries of that build, row by row.
RowsBy(x, r) ==
    x.listing # 0 /\ r.save = x.listing =>
        /\ x.pc \in Embedded
        /\ \A i \in DOMAIN r.rows \cap DOMAIN x.entries : r.rows[i] = x.entries[i].vector

KeysBy(x, k) ==
    x.listing # 0 /\ k.save = x.listing =>
        /\ x.pc \in Embedded
        /\ \A i \in DOMAIN k.keys \cap DOMAIN x.entries : k.keys[i] = x.entries[i].key

Begun == {"listed", "loading", "embedding"} \cup Embedded

Own(x, rfiles, kfiles, last) ==
    /\ AllFit(x.entries)
    /\ x.pc = "embedding" => \A k \in DOMAIN x.cached : Fits(x.cached[k], k)
    /\ x.pc \in Begun => x.listing # 0
    /\ x.listing <= last
    /\ \A r \in rfiles : RowsBy(x, r)
    /\ \A k \in kfiles : KeysBy(x, k)

Apart == \A b, c \in Builders : b # c /\ build[b].listing = build[c].listing => build[b].listing = 0

Numbered(rfiles, kfiles, last) ==
    /\ \A r \in rfiles : r.save <= last
    /\ \A k \in kfiles : k.save <= last

Paired(rfiles, kfiles) == \A r \in rfiles, k \in kfiles : Pair(r, k)

Together ==
    /\ AllFit(gallery)
    /\ Apart
    /\ Numbered(RowFiles, KeyFiles, listings)
    /\ Paired(RowFiles, KeyFiles)
    /\ \A b \in Builders : Own(build[b], RowFiles, KeyFiles, listings)

LEMMA NothingFits ==
    ASSUME NEW entries, entries = <<>>
    PROVE  AllFit(entries)
BY DEF AllFit

\* The numbers of the saves.
LEMMA SaveNumbers ==
    ASSUME Typed
    PROVE  /\ listings \in Nat
           /\ \A r \in RowFiles : r.save \in Nat
           /\ \A k \in KeyFiles : k.save \in Nat
           /\ \A b \in Builders : build[b].listing \in Nat
<1>1. \A r \in RowFiles : r \in VectorFiles
  BY DEF RowFiles, Typed, TypeOK
<1>2. \A k \in KeyFiles : k \in Manifests
  BY DEF KeyFiles, Reading, Typed, TypeOK, BuildTyped
<1>3. listings \in Nat /\ \A b \in Builders : build[b].listing \in Nat
  BY DEF Typed, TypeOK, BuildTyped
<1>4. QED
  BY <1>1, <1>2, <1>3 DEF VectorFiles, Manifests

\* A build that has done nothing owns nothing.
LEMMA NothingOwned ==
    ASSUME NEW x \in {Started, Idle}, NEW rfiles, NEW kfiles, NEW last \in Nat
    PROVE  Own(x, rfiles, kfiles, last)
<1>1. x.listing = 0 /\ x.entries = <<>> /\ (x.pc = "idle" \/ x.pc = "start")
  BY NothingYet
<1>2. x.pc \notin Begun /\ x.pc # "embedding"
  BY <1>1 DEF Begun, Embedded, Saving
<1>3. AllFit(x.entries)
  BY <1>1, NothingFits
<1>4. 0 <= last
  OBVIOUS
<1>5. QED
  BY <1>1, <1>2, <1>3, <1>4, Zenon DEF Own, RowsBy, KeysBy

\* Fewer files, and more listings.
LEMMA OwnStays ==
    ASSUME NEW x, x.listing \in Nat, NEW rfiles, NEW kfiles, NEW rfiles2, NEW kfiles2,
           rfiles2 \subseteq rfiles, kfiles2 \subseteq kfiles,
           NEW last \in Nat, NEW last2 \in Nat, last <= last2,
           Own(x, rfiles, kfiles, last)
    PROVE  Own(x, rfiles2, kfiles2, last2)
<1>1. x.listing <= last2
  BY DEF Own
<1>2. QED
  BY <1>1, Zenon DEF Own

\* A step of one build that writes no file.
LEMMA QuietTogether ==
    ASSUME Typed, Together, NEW b \in Builders, Kept(b), disk' = disk,
           build'[b].pc = "loading" => build'[b].cached = manifest,
           listings' \in Nat, listings <= listings', AllFit(gallery'),
           \/ build'[b].listing \in {0, build[b].listing}
           \/ build'[b].listing \in Nat /\ build'[b].listing > listings,
           \A rfiles, kfiles : rfiles = RowFiles /\ kfiles \subseteq KeyFiles =>
               Own(build'[b], rfiles, kfiles, listings')
    PROVE  Together'
<1>1. RowFiles' = RowFiles /\ manifest' = manifest /\ tmp' = tmp
  BY DEF RowFiles, disk
<1>2. KeyFiles' \subseteq KeyFiles
  <2>1. ASSUME NEW c \in Builders, build'[c].pc = "loading"
        PROVE  build'[c].cached \in KeyFiles
    <3>1. CASE c = b
      BY <2>1, <3>1 DEF KeyFiles
    <3>2. CASE c # b
      <4>1. build'[c] = build[c]
        BY <3>2 DEF Kept, Others
      <4>2. QED
        BY <2>1, <4>1 DEF KeyFiles, Reading
    <3>3. QED
      BY <3>1, <3>2
  <2>2. \A k \in KeyFiles' : k \in KeyFiles
    <3>1. TAKE k \in KeyFiles'
    <3>2. CASE k \in {manifest} \cup tmp.manifest
      BY <3>2 DEF KeyFiles
    <3>3. CASE k \notin {manifest} \cup tmp.manifest
      <4>1. \E c \in Builders : build'[c].pc = "loading" /\ k = build'[c].cached
        BY <1>1, <3>3 DEF KeyFiles, Reading
      <4>2. QED
        BY <2>1, <4>1
    <3>4. QED
      BY <3>2, <3>3
  <2>3. QED
    BY <2>2
<1>3. PICK rfiles, kfiles, kfiles2, last, last2 :
        /\ rfiles = RowFiles /\ kfiles = KeyFiles /\ kfiles2 = KeyFiles' /\ last = listings
        /\ last2 = listings'
  OBVIOUS
<1>4. /\ last \in Nat /\ last2 \in Nat /\ last <= last2 /\ kfiles2 \subseteq kfiles
      /\ \A r \in rfiles : r.save \in Nat
      /\ \A k \in kfiles : k.save \in Nat
  BY <1>2, <1>3, SaveNumbers
<1>5. Numbered(rfiles, kfiles2, last2)
  <2>1. Numbered(rfiles, kfiles, last)
    BY <1>3 DEF Together
  <2>2. QED
    BY <1>4, <2>1 DEF Numbered
<1>6. Paired(rfiles, kfiles2)
  BY <1>3, <1>4 DEF Together, Paired
<1>7. ASSUME NEW c \in Builders
      PROVE  Own(build'[c], rfiles, kfiles2, last2)
  <2>1. CASE c = b
    BY <1>3, <1>4, <2>1
  <2>2. CASE c # b
    <3>1. build'[c] = build[c] /\ build[c].listing \in Nat
      BY <2>2, SaveNumbers DEF Kept, Others
    <3>2. Own(build[c], rfiles, kfiles, last)
      BY <1>3 DEF Together
    <3>3. Own(build[c], rfiles, kfiles2, last2)
      BY <1>4, <3>1, <3>2, OwnStays
    <3>4. QED
      BY <3>1, <3>3
  <2>3. QED
    BY <2>1, <2>2
<1>8. Apart'
  <2>1. ASSUME NEW c \in Builders, c # b, build'[c].listing = build'[b].listing
        PROVE  build'[c].listing = 0
    <3>1. build'[c] = build[c] /\ build[c].listing \in Nat /\ build[c].listing <= listings
      BY <2>1, SaveNumbers DEF Kept, Others, Together, Own
    <3>2. build[c].listing = build[b].listing => build[c].listing = 0
      BY <2>1 DEF Together, Apart
    <3>3. QED
      BY <2>1, <3>1, <3>2, SaveNumbers
  <2>2. \A c \in Builders : c # b => build'[c] = build[c]
    BY DEF Kept, Others
  <2>3. ASSUME NEW c \in Builders, NEW d \in Builders, c # d, build'[c].listing = build'[d].listing
        PROVE  build'[c].listing = 0
    <3>1. CASE c = b \/ d = b
      BY <2>1, <2>3, <3>1
    <3>2. CASE c # b /\ d # b
      BY <2>2, <2>3, <3>2 DEF Together, Apart
    <3>3. QED
      BY <3>1, <3>2
  <2>4. QED
    BY <2>3 DEF Apart
<1>9. QED
  BY <1>1, <1>3, <1>5, <1>6, <1>7, <1>8 DEF Together

\* What a build owns, after a step that keeps its number and its entries.
LEMMA OwnMoves ==
    ASSUME NEW x, NEW y, y.entries = x.entries, y.listing = x.listing,
           y.pc = "embedding" => \A k \in DOMAIN y.cached : Fits(y.cached[k], k),
           y.pc \in Begun => x.pc \in Begun, x.pc \in Embedded => y.pc \in Embedded,
           NEW rfiles, NEW kfiles, NEW last, Own(x, rfiles, kfiles, last)
    PROVE  Own(y, rfiles, kfiles, last)
<1>1. \A r : RowsBy(x, r) => RowsBy(y, r)
  BY DEF RowsBy
<1>2. \A k : KeysBy(x, k) => KeysBy(y, k)
  BY DEF KeysBy
<1>3. QED
  BY <1>1, <1>2, Zenon DEF Own

\* What a step of a build that writes nothing has to show of that build.
LEMMA StillTogether ==
    ASSUME Typed, Together, NEW b \in Builders, Kept(b), UNCHANGED <<disk, listings, gallery>>,
           build'[b].entries = build[b].entries, build'[b].listing = build[b].listing,
           build'[b].pc = "loading" => build'[b].cached = manifest,
           build'[b].pc = "embedding" => \A k \in DOMAIN build'[b].cached : Fits(build'[b].cached[k], k),
           build'[b].pc \in Begun => build[b].pc \in Begun,
           build[b].pc \in Embedded => build'[b].pc \in Embedded
    PROVE  Together'
<1>1. ASSUME NEW rfiles, NEW kfiles, rfiles = RowFiles, kfiles \subseteq KeyFiles
      PROVE  Own(build'[b], rfiles, kfiles, listings')
  <2>1. Own(build[b], RowFiles, KeyFiles, listings) /\ listings \in Nat /\ build[b].listing \in Nat
    BY SaveNumbers DEF Together
  <2>2. PICK x, y, all, last : x = build[b] /\ y = build'[b] /\ all = KeyFiles /\ last = listings
    OBVIOUS
  <2>3. Own(x, rfiles, kfiles, last)
    BY <1>1, <2>1, <2>2, OwnStays
  <2>4. Own(y, rfiles, kfiles, last)
    BY <2>2, <2>3, OwnMoves
  <2>5. QED
    BY <2>2, <2>4
<1>2. AllFit(gallery') /\ listings' \in Nat /\ listings <= listings'
  BY SaveNumbers DEF Together
<1>3. QED
  BY <1>1, <1>2, QuietTogether, Zenon

LEMMA FreshTogether ==
    ASSUME Typed, Together, NEW b \in Builders, Kept(b), UNCHANGED <<disk, listings>>,
           build'[b] \in {Started, Idle}, AllFit(gallery')
    PROVE  Together'
<1>1. build'[b].pc # "loading" /\ build'[b].listing = 0
  BY NothingYet
<1>2. listings \in Nat /\ listings' = listings
  BY SaveNumbers
<1>3. \A rfiles, kfiles : Own(build'[b], rfiles, kfiles, listings')
  <2>1. PICK x \in {Started, Idle} : x = build'[b]
    OBVIOUS
  <2>2. \A rfiles, kfiles : Own(x, rfiles, kfiles, listings)
    BY <1>2, NothingOwned
  <2>3. QED
    BY <1>2, <2>1, <2>2
<1>4. build'[b].listing \in {0, build[b].listing} /\ listings' \in Nat /\ listings <= listings'
  BY <1>1, <1>2
<1>5. QED
  BY <1>1, <1>3, <1>4, QuietTogether, Zenon

LEMMA ListTogether ==
    ASSUME Typed, Listed, Together, NEW b \in Builders, List(b)
    PROVE  Together'
<1>1. Lists(b) /\ disk' = disk /\ gallery' = gallery
  BY ListLists DEF List
<1>2. /\ Kept(b) /\ build'[b].pc = "listed" /\ build[b].pc = "list"
      /\ build'[b].entries = build[b].entries
      /\ build'[b].listing = listings + 1 /\ listings' = listings + 1
  BY <1>1 DEF Lists
<1>3. listings \in Nat /\ listings' \in Nat /\ listings <= listings' /\ listings + 1 > listings
  BY <1>2, SaveNumbers
<1>4. AllFit(build[b].entries) /\ AllFit(gallery')
  BY <1>1 DEF Together, Own
<1>5. ASSUME NEW rfiles, NEW kfiles, rfiles = RowFiles, kfiles \subseteq KeyFiles
      PROVE  Own(build'[b], rfiles, kfiles, listings')
  <2>1. \A r \in rfiles : r.save # listings + 1
    BY <1>3, <1>5, SaveNumbers DEF Together, Numbered
  <2>2. \A k \in kfiles : k.save # listings + 1
    BY <1>3, <1>5, SaveNumbers DEF Together, Numbered
  <2>3. /\ \A r \in rfiles : RowsBy(build'[b], r)
        /\ \A k \in kfiles : KeysBy(build'[b], k)
    BY <1>2, <2>1, <2>2 DEF RowsBy, KeysBy
  <2>4. build'[b].listing # 0 /\ build'[b].listing <= listings'
    BY <1>2, <1>3
  <2>5. AllFit(build'[b].entries) /\ build'[b].pc # "embedding"
    BY <1>2, <1>4
  <2>6. QED
    BY <2>3, <2>4, <2>5, Zenon DEF Own
<1>6. build'[b].pc # "loading" /\ build'[b].listing \in Nat /\ build'[b].listing > listings
  BY <1>2, <1>3
<1>7. QED
  BY <1>1, <1>2, <1>3, <1>4, <1>5, <1>6, QuietTogether, Zenon

LEMMA LoadTogether ==
    ASSUME Typed, Together, NEW b \in Builders, LoadManifest(b) \/ LoadVectors(b), ~mixed'
    PROVE  Together'
<1>1. UNCHANGED <<disk, listings, gallery>>
  BY DEF LoadManifest, LoadVectors, history
<1>2. CASE LoadManifest(b)
  <2>1. /\ Kept(b) /\ build'[b].pc = "loading" /\ build[b].pc = "listed"
        /\ build'[b].listing = build[b].listing /\ build'[b].entries = build[b].entries
        /\ build'[b].cached = manifest
    BY <1>2, Domains DEF LoadManifest, Kept, Others, Fields, Idle
  <2>2. build[b].pc \in Begun /\ build[b].pc \notin Embedded /\ build'[b].pc # "embedding"
    BY <2>1 DEF Begun, Embedded, Saving
  <2>3. QED
    BY <1>1, <2>1, <2>2, StillTogether, Zenon
<1>3. CASE LoadVectors(b)
  <2>1. Loads(b)
    BY <1>3, LoadLoads
  <2>2. /\ Kept(b) /\ build'[b].pc = "embedding" /\ build[b].pc = "loading"
        /\ build'[b].listing = build[b].listing /\ build'[b].entries = build[b].entries
    BY <2>1 DEF Loads, SameSave
  <2>3. ASSUME NEW k \in DOMAIN build'[b].cached
        PROVE  Fits(build'[b].cached[k], k)
    <3>1. PICK l \in DOMAIN build[b].cached.keys :
            /\ build[b].cached.keys[l] = k
            /\ l \in DOMAIN vectors.rows
            /\ build'[b].cached[k] = vectors.rows[l]
      BY <2>1, <2>3 DEF Loads
    <3>2. build[b].cached.save = vectors.save
      BY <2>1, <2>3 DEF Loads
    <3>3. Pair(vectors, build[b].cached)
      BY <2>2 DEF Together, Paired, RowFiles, KeyFiles, Reading
    <3>4. QED
      BY <3>1, <3>2, <3>3 DEF Pair
  <2>4. build[b].pc \in Begun /\ build[b].pc \notin Embedded /\ build'[b].pc # "loading"
    BY <2>2 DEF Begun, Embedded, Saving
  <2>5. QED
    BY <1>1, <2>2, <2>3, <2>4, StillTogether, Zenon
<1>4. QED
  BY <1>2, <1>3

LEMMA EmbedTogether ==
    ASSUME Typed, Listed, Together, NEW b \in Builders, Embed(b)
    PROVE  Together'
<1>1. Embeds(b) /\ UNCHANGED <<disk, listings, gallery>>
  BY EmbedEmbeds DEF Embed, history
<1>2. PICK reached : GoodOnes(b, reached, build'[b].entries)
  BY <1>1 DEF Embeds
<1>3. PICK entries : entries = build'[b].entries
  OBVIOUS
<1>4. ASSUME NEW n \in DOMAIN entries
      PROVE  Fits(entries[n].vector, entries[n].key)
  <2>1. PICK i \in DOMAIN build[b].refs :
          Good(b, build[b].refs[i], reached) /\ entries[n] = EntryOf(b, build[b].refs[i])
    BY <1>2, <1>3, Zenon DEF GoodOnes
  <2>2. PICK r \in Refs : r = build[b].refs[i]
    BY LenProperties, ElementOfSeq DEF Typed, TypeOK, BuildTyped
  <2>3. CASE r.key \in DOMAIN build[b].cached
    <3>1. Fits(build[b].cached[r.key], r.key)
      BY <1>1, <2>3 DEF Together, Own, Embeds
    <3>2. QED
      BY <2>1, <2>2, <2>3, <3>1 DEF EntryOf
  <2>4. CASE r.key \notin DOMAIN build[b].cached
    <3>1. photo[r.code] # NoPhoto
      BY <2>1, <2>2, <2>4 DEF Good
    <3>2. /\ r.key.of = r.code /\ r.key.version <= r.edition
          /\ photo[r.code] # NoPhoto => photo[r.code] >= r.edition
      BY <2>1, <2>2 DEF Listed, BuildListed, Truthful
    <3>3. r.key.version \in Nat /\ r.edition \in Nat /\ r.code \in Employees /\ photo[r.code] \in Nat
      BY BuildAssumption DEF Refs, Keys, Editions, Typed, SpentTyped
    <3>4. photo[r.code] >= r.key.version
      BY <3>1, <3>2, <3>3
    <3>5. QED
      BY <2>1, <2>2, <2>4, <3>2, <3>4 DEF EntryOf, Embedding, Fits
  <2>5. QED
    BY <2>3, <2>4
<1>5. AllFit(entries)
  BY <1>4 DEF AllFit
<1>6. /\ Kept(b) /\ build[b].pc = "embedding" /\ build'[b].pc = "tmp vectors"
      /\ build'[b].listing = build[b].listing
  BY <1>1 DEF Embeds, SameSave
<1>7. build[b].pc \notin Embedded /\ build[b].pc \in Begun /\ build'[b].pc \in Embedded
  BY <1>6 DEF Embedded, Begun, Saving
<1>8. ASSUME NEW rfiles, NEW kfiles, rfiles = RowFiles, kfiles \subseteq KeyFiles
      PROVE  Own(build'[b], rfiles, kfiles, listings')
  <2>1. Own(build[b], RowFiles, KeyFiles, listings)
    BY DEF Together
  <2>2. \A r \in rfiles : RowsBy(build'[b], r)
    BY <1>6, <1>7, <1>8, <2>1 DEF Own, RowsBy
  <2>3. \A k \in kfiles : KeysBy(build'[b], k)
    BY <1>6, <1>7, <1>8, <2>1 DEF Own, KeysBy
  <2>4. build'[b].listing # 0 /\ build'[b].listing <= listings' /\ build'[b].pc # "embedding"
    BY <1>1, <1>6, <1>7, <2>1 DEF Own
  <2>5. QED
    BY <1>3, <1>5, <2>2, <2>3, <2>4, Zenon DEF Own
<1>9. AllFit(gallery') /\ listings' \in Nat /\ listings <= listings' /\ build'[b].pc # "loading"
  <2>1. listings \in Nat /\ listings' = listings
    BY <1>1, SaveNumbers
  <2>2. AllFit(gallery') /\ build'[b].pc # "loading"
    BY <1>1, <1>6 DEF Together
  <2>3. QED
    BY <2>1, <2>2
<1>10. build'[b].listing \in {0, build[b].listing} /\ disk' = disk
  BY <1>1, <1>6
<1>11. QED
  BY <1>6, <1>8, <1>9, <1>10, QuietTogether, Zenon

\* A file of the entries of b, under its number, or an empty one.
Fresh(x, rfiles, kfiles) ==
    /\ \A r \in rfiles : r.save = x.listing /\ (r.rows = <<>> \/ r.rows = RowsOf(x.entries))
    /\ \A k \in kfiles : k.save = x.listing /\ (k.keys = <<>> \/ k.keys = KeysOf(x.entries))

LEMMA FreshFiles ==
    ASSUME Typed, NEW b \in Builders, Saves(b)
    PROVE  \E rfiles, kfiles :
              /\ Fresh(build[b], rfiles, kfiles)
              /\ RowFiles' \subseteq RowFiles \cup rfiles /\ KeyFiles' \subseteq KeyFiles \cup kfiles
<1>1. PICK rows, keys, n, m :
        /\ rows = RowsOf(build[b].entries) /\ keys = KeysOf(build[b].entries)
        /\ n = build[b].listing /\ m = build[b].fingerprint
  OBVIOUS
<1> DEFINE rfiles == {[save |-> n, rows |-> rows], [save |-> n, rows |-> <<>>]}
           kfiles == {[save |-> n, model |-> m, keys |-> keys],
                      [save |-> n, model |-> 0, keys |-> <<>>]}
<1>2. Fresh(build[b], rfiles, kfiles)
  BY <1>1 DEF Fresh
<1>3. /\ \A f \in tmp'.vectors : f \in tmp.vectors \/ f \in rfiles
      /\ \A f \in tmp'.manifest : f \in tmp.manifest \/ f \in kfiles
  BY <1>1, Zenon DEF Saves
<1>4. /\ vectors' \in {vectors} \cup tmp.vectors
      /\ manifest' \in {manifest} \cup tmp.manifest
  BY DEF Saves, Writes
<1>5. \A c \in Builders : build'[c].pc = "loading" => build'[c] = build[c]
  BY DEF Saves, Moved, Kept, Others
<1> HIDE DEF rfiles, kfiles
<1>6. RowFiles' \subseteq RowFiles \cup rfiles
  BY <1>3, <1>4 DEF RowFiles
<1>7. KeyFiles' \subseteq KeyFiles \cup kfiles
  <2> SUFFICES ASSUME NEW k \in KeyFiles'
               PROVE  k \in KeyFiles \cup kfiles
    OBVIOUS
  <2>1. CASE k = manifest' \/ k \in tmp'.manifest
    BY <1>3, <1>4, <2>1 DEF KeyFiles
  <2>2. CASE \E c \in Builders : build'[c].pc = "loading" /\ k = build'[c].cached
    BY <1>5, <2>2 DEF KeyFiles, Reading
  <2>3. QED
    BY <2>1, <2>2 DEF KeyFiles, Reading
<1>8. QED
  BY <1>2, <1>6, <1>7

\* Such files are of the entries of the one build, and of no other.
LEMMA FreshOwned ==
    ASSUME NEW x, NEW rfiles, NEW kfiles, Fresh(x, rfiles, kfiles), x.pc \in Embedded,
           AllFit(x.entries)
    PROVE  /\ \A r \in rfiles : RowsBy(x, r)
           /\ \A k \in kfiles : KeysBy(x, k)
           /\ \A y : y.listing # x.listing =>
                 /\ \A r \in rfiles : RowsBy(y, r)
                 /\ \A k \in kfiles : KeysBy(y, k)
<1>1. PICK entries : entries = x.entries
  OBVIOUS
<1>2. /\ DOMAIN RowsOf(entries) = DOMAIN entries
      /\ \A i \in DOMAIN entries : RowsOf(entries)[i] = entries[i].vector
      /\ DOMAIN KeysOf(entries) = DOMAIN entries
      /\ \A i \in DOMAIN entries : KeysOf(entries)[i] = entries[i].key
  BY DEF RowsOf, KeysOf
<1>3. ASSUME NEW r \in rfiles
      PROVE  RowsBy(x, r)
  <2>1. r.rows = <<>> \/ r.rows = RowsOf(entries)
    BY <1>1 DEF Fresh
  <2>2. \A i \in DOMAIN r.rows \cap DOMAIN entries : r.rows[i] = entries[i].vector
    BY <1>2, <2>1
  <2>3. QED
    BY <1>1, <2>2 DEF RowsBy
<1>4. ASSUME NEW k \in kfiles
      PROVE  KeysBy(x, k)
  <2>1. k.keys = <<>> \/ k.keys = KeysOf(entries)
    BY <1>1 DEF Fresh
  <2>2. \A i \in DOMAIN k.keys \cap DOMAIN entries : k.keys[i] = entries[i].key
    BY <1>2, <2>1
  <2>3. QED
    BY <1>1, <2>2 DEF KeysBy
<1>5. QED
  BY <1>3, <1>4 DEF Fresh, RowsBy, KeysBy

\* And they go together with whatever there is.
LEMMA FreshPaired ==
    ASSUME NEW x, NEW rfiles, NEW kfiles, Fresh(x, rfiles, kfiles), x.listing # 0,
           AllFit(x.entries), NEW r, NEW k, RowsBy(x, r), KeysBy(x, k),
           r \in rfiles \/ k \in kfiles
    PROVE  Pair(r, k)
<1> SUFFICES ASSUME r.save = k.save, NEW i \in DOMAIN r.rows \cap DOMAIN k.keys
             PROVE  Fits(r.rows[i], k.keys[i])
  BY DEF Pair
<1>1. r.save = x.listing /\ k.save = x.listing
  BY DEF Fresh
<1>2. PICK entries : entries = x.entries
  OBVIOUS
<1>3. i \in DOMAIN entries
  <2>1. DOMAIN RowsOf(entries) = DOMAIN entries /\ DOMAIN KeysOf(entries) = DOMAIN entries
    BY DEF RowsOf, KeysOf
  <2>2. CASE r \in rfiles
    <3>1. r.rows = <<>> \/ r.rows = RowsOf(entries)
      BY <1>2, <2>2 DEF Fresh
    <3>2. QED
      BY <2>1, <3>1
  <2>3. CASE k \in kfiles
    <3>1. k.keys = <<>> \/ k.keys = KeysOf(entries)
      BY <1>2, <2>3 DEF Fresh
    <3>2. QED
      BY <2>1, <3>1
  <2>4. QED
    BY <2>2, <2>3
<1>4. r.rows[i] = entries[i].vector /\ k.keys[i] = entries[i].key
  BY <1>1, <1>2, <1>3 DEF RowsBy, KeysBy
<1>5. QED
  BY <1>2, <1>3, <1>4 DEF AllFit

LEMMA SaveTogether ==
    ASSUME Typed, Together, NEW b \in Builders, Saves(b)
    PROVE  Together'
<1>1. /\ Kept(b) /\ build'[b].entries = build[b].entries /\ build'[b].listing = build[b].listing
      /\ build'[b].pc \in Embedded /\ build[b].pc \in Embedded /\ build'[b].pc # "embedding"
      /\ listings' = listings /\ gallery' = gallery
  BY DEF Saves, Moved, SameSave, Embedded, Saving, history
<1>2. PICK rnew, knew :
        /\ Fresh(build[b], rnew, knew)
        /\ RowFiles' \subseteq RowFiles \cup rnew /\ KeyFiles' \subseteq KeyFiles \cup knew
  BY FreshFiles, Zenon
<1>3. PICK x, rfiles, kfiles, rfiles2, kfiles2, last :
        /\ x = build[b] /\ rfiles = RowFiles /\ kfiles = KeyFiles
        /\ rfiles2 = RowFiles' /\ kfiles2 = KeyFiles' /\ last = listings
  OBVIOUS
<1>4. /\ Own(x, rfiles, kfiles, last) /\ Fresh(x, rnew, knew)
      /\ rfiles2 \subseteq rfiles \cup rnew /\ kfiles2 \subseteq kfiles \cup knew
  BY <1>2, <1>3 DEF Together
<1>5. AllFit(x.entries) /\ x.listing # 0 /\ x.listing <= last /\ x.pc \in Embedded
  BY <1>1, <1>3, <1>4 DEF Own, Begun
<1>6. /\ \A r \in rfiles2 : RowsBy(x, r)
      /\ \A k \in kfiles2 : KeysBy(x, k)
  <2>1. /\ \A r \in rnew : RowsBy(x, r)
        /\ \A k \in knew : KeysBy(x, k)
    BY <1>4, <1>5, FreshOwned
  <2>2. QED
    BY <1>4, <2>1 DEF Own
<1>7. Numbered(rfiles2, kfiles2, last)
  <2>1. Numbered(rfiles, kfiles, last)
    BY <1>3 DEF Together
  <2>2. /\ \A r \in rnew : r.save <= last
        /\ \A k \in knew : k.save <= last
    BY <1>4, <1>5 DEF Fresh
  <2>3. QED
    BY <1>4, <2>1, <2>2 DEF Numbered
<1>8. Paired(rfiles2, kfiles2)
  <2> SUFFICES ASSUME NEW r \in rfiles2, NEW k \in kfiles2
               PROVE  Pair(r, k)
    BY DEF Paired
  <2>1. CASE r \in rnew \/ k \in knew
    BY <1>4, <1>5, <1>6, <2>1, FreshPaired
  <2>2. CASE r \notin rnew /\ k \notin knew
    <3>1. r \in rfiles /\ k \in kfiles
      BY <1>4, <2>2
    <3>2. QED
      BY <1>3, <3>1 DEF Together, Paired
  <2>3. QED
    BY <2>1, <2>2
<1>9. ASSUME NEW c \in Builders
      PROVE  Own(build'[c], rfiles2, kfiles2, last)
  <2>1. CASE c = b
    <3>1. PICK y : y = build'[b]
      OBVIOUS
    <3>2. y.entries = x.entries /\ y.listing = x.listing /\ y.pc \in Embedded /\ y.pc # "embedding"
      BY <1>1, <1>3, <3>1
    <3>3. /\ \A r \in rfiles2 : RowsBy(y, r)
          /\ \A k \in kfiles2 : KeysBy(y, k)
      BY <1>6, <3>2 DEF RowsBy, KeysBy
    <3>4. Own(y, rfiles2, kfiles2, last)
      BY <1>5, <3>2, <3>3, Zenon DEF Own
    <3>5. QED
      BY <2>1, <3>1, <3>4
  <2>2. CASE c # b
    <3>1. PICK y : y = build[c] /\ y = build'[c]
      BY <1>1, <2>2 DEF Kept, Others
    <3>2. Own(y, rfiles, kfiles, last)
      BY <1>3, <3>1 DEF Together
    <3>3. y.listing # x.listing \/ y.listing = 0
      BY <1>3, <2>2, <3>1 DEF Together, Apart
    <3>4. /\ \A r \in rnew : RowsBy(y, r)
          /\ \A k \in knew : KeysBy(y, k)
      BY <1>4, <1>5, <3>3, FreshOwned DEF RowsBy, KeysBy
    <3>5. /\ \A r \in rfiles2 : RowsBy(y, r)
          /\ \A k \in kfiles2 : KeysBy(y, k)
      BY <1>4, <3>2, <3>4 DEF Own
    <3>6. Own(y, rfiles2, kfiles2, last)
      BY <3>2, <3>5 DEF Own
    <3>7. QED
      BY <3>1, <3>6
  <2>3. QED
    BY <2>1, <2>2
<1>10. \A c \in Builders : build'[c].listing = build[c].listing
  BY <1>1 DEF Kept, Others
<1>11. Apart'
  BY <1>10 DEF Together, Apart
<1>12. AllFit(gallery')
  BY <1>1 DEF Together
<1>13. QED
  BY <1>1, <1>3, <1>7, <1>8, <1>9, <1>11, <1>12 DEF Together

LEMMA EndTogether ==
    ASSUME Typed, Together, NEW b \in Builders, Ends(b)
    PROVE  Together'
<1>1. Kept(b) /\ build'[b] = Idle /\ UNCHANGED <<disk, listings>>
  BY DEF Ends, history
<1>2. AllFit(gallery')
  <2>1. AllFit(gallery) /\ AllFit(build[b].entries)
    BY DEF Together, Own
  <2>2. gallery' = gallery \/ gallery' = build[b].entries
    BY DEF Ends
  <2>3. QED
    BY <2>1, <2>2
<1>3. QED
  BY <1>1, <1>2, FreshTogether

LEMMA RestartTogether ==
    ASSUME Typed, Together, Restart
    PROVE  Together'
<1>1. gallery' = <<>> /\ UNCHANGED <<disk, listings>>
  BY DEF Restart, history
<1>2. \A b \in Builders : build'[b] \in {Started, Idle}
  BY StartsOver
<1>3. \A b \in Builders : build'[b].listing = 0 /\ build'[b].pc # "loading"
  BY <1>2, NothingYet
<1>4. RowFiles' = RowFiles /\ KeyFiles' \subseteq KeyFiles
  BY <1>1, <1>3 DEF RowFiles, KeyFiles, Reading, disk
<1>5. Numbered(RowFiles', KeyFiles', listings') /\ Paired(RowFiles', KeyFiles')
  BY <1>1, <1>4 DEF Together, Numbered, Paired
<1>6. listings' \in Nat
  BY <1>1, SaveNumbers
<1>7. ASSUME NEW b \in Builders
      PROVE  Own(build'[b], RowFiles', KeyFiles', listings')
  <2>1. PICK x, rfiles, kfiles, last :
          x = build'[b] /\ rfiles = RowFiles' /\ kfiles = KeyFiles' /\ last = listings'
    OBVIOUS
  <2>2. x \in {Started, Idle} /\ last \in Nat
    BY <1>2, <1>6, <2>1
  <2>3. Own(x, rfiles, kfiles, last)
    BY <2>2, NothingOwned
  <2>4. QED
    BY <2>1, <2>3
<1>8. Apart'
  BY <1>3 DEF Apart
<1>9. AllFit(gallery')
  BY <1>1, NothingFits
<1>10. QED
  BY <1>5, <1>7, <1>8, <1>9 DEF Together

LEMMA TogetherStep ==
    ASSUME Known, ~mixed => Together, Next, ~mixed'
    PROVE  Together'
<1> Typed /\ Ready /\ Listed
  BY DEF Known
<1>1. CASE (\E e \in Employees : Edit(e)) \/ Deploy \/ LoadModels
  <2>1. UNCHANGED <<disk, gallery, build, history>>
    BY <1>1, Zenon DEF Edit, Deploy, LoadModels
  <2>2. Together
    BY <2>1 DEF history
  <2>3. RowFiles' = RowFiles /\ KeyFiles' = KeyFiles
    BY <2>1 DEF RowFiles, KeyFiles, Reading, disk
  <2>4. QED
    BY <2>1, <2>2, <2>3 DEF Together, Apart, history
<1>2. CASE Restart
  BY <1>2, RestartTogether DEF Restart, history
<1>3. CASE Reload
  <2>1. "reload" \in Builders
    BY DEF Builders
  <2>2. Kept("reload") /\ build'["reload"] = Started /\ UNCHANGED <<disk, gallery, listings, mixed>>
    BY <1>3, <2>1, Domains, Starts DEF Reload, history
  <2>3. Together /\ AllFit(gallery')
    BY <2>2 DEF Together
  <2>4. QED
    BY <2>1, <2>2, <2>3, FreshTogether
<1>4. ASSUME NEW b \in Builders, BuildStep(b)
      PROVE  Together'
  <2>1. CASE TakeFingerprint(b)
    <3>1. /\ Kept(b) /\ build[b].pc = "start" /\ build'[b].pc = "list"
          /\ build'[b].entries = build[b].entries /\ build'[b].listing = build[b].listing
          /\ UNCHANGED <<disk, listings, gallery, mixed>>
      BY <2>1, Domains DEF TakeFingerprint, history, Kept, Others, Fields, Idle
    <3>2. /\ build'[b].pc \notin Begun /\ build[b].pc \notin Embedded
          /\ build'[b].pc # "loading" /\ build'[b].pc # "embedding"
      BY <3>1 DEF Begun, Embedded, Saving
    <3>3. Together
      BY <3>1
    <3>4. QED
      BY <3>1, <3>2, <3>3, StillTogether, Zenon
  <2>2. CASE List(b)
    BY <2>2, ListTogether DEF List
  <2>3. CASE LoadManifest(b) \/ LoadVectors(b)
    <3>1. ~mixed
      BY <2>3, LoadLoads DEF LoadManifest, history, Loads
    <3>2. QED
      BY <2>3, <3>1, LoadTogether
  <2>4. CASE Embed(b)
    BY <2>4, EmbedTogether DEF Embed, history
  <2>5. CASE Saves(b)
    BY <2>5, SaveTogether DEF Saves, history
  <2>6. CASE Ends(b)
    BY <2>6, EndTogether DEF Ends, history
  <2>7. QED
    BY <1>4, <2>1, <2>2, <2>3, <2>4, <2>5, <2>6, BuildStepIs
<1>5. QED
  BY <1>1, <1>2, <1>3, <1>4 DEF Next

LEMMA InitTogether ==
    ASSUME Init
    PROVE  Together
<1>1. /\ gallery = <<>> /\ vectors = [save |-> 0, rows |-> <<>>]
      /\ manifest = [save |-> 0, model |-> 0, keys |-> <<>>]
      /\ tmp.vectors = {} /\ tmp.manifest = {} /\ listings = 0
  BY DEF Init
<1>2. \A b \in Builders : build[b] \in {Started, Idle}
  BY DEF Init
<1>3. \A b \in Builders : build[b].listing = 0 /\ build[b].pc # "loading"
  BY <1>2, NothingYet
<1>4. RowFiles = {vectors} /\ KeyFiles = {manifest}
  BY <1>1, <1>3 DEF RowFiles, KeyFiles, Reading
<1>5. Numbered(RowFiles, KeyFiles, listings) /\ Paired(RowFiles, KeyFiles)
  BY <1>1, <1>4 DEF Numbered, Paired, Pair
<1>6. \A b \in Builders : Own(build[b], RowFiles, KeyFiles, listings)
  BY <1>1, <1>2, NothingOwned
<1>7. Apart
  BY <1>3 DEF Apart
<1>8. QED
  BY <1>1, <1>5, <1>6, <1>7, NothingFits DEF Together

IInv == Known /\ (~mixed => Together)

LEMMA IInvHolds == Spec => []IInv
<1>1. Init => IInv
  BY InitKnown, InitTogether DEF IInv
<1>2. ASSUME IInv, [Next]_vars
      PROVE  IInv'
  <2>1. Known'
    BY <1>2, KnownStep DEF IInv
  <2>2. CASE Next
    BY <1>2, <2>1, <2>2, TogetherStep, Zenon DEF IInv
  <2>3. CASE UNCHANGED vars
    <3>1. UNCHANGED <<vectors, manifest, tmp, gallery, build, listings, mixed>>
      BY <2>3 DEF vars, disk, history
    <3>2. RowFiles' = RowFiles /\ KeyFiles' = KeyFiles
      BY <3>1 DEF RowFiles, KeyFiles, Reading
    <3>3. ~mixed' => Together'
      BY <1>2, <3>1, <3>2 DEF IInv, Together, Apart
    <3>4. QED
      BY <2>1, <3>3 DEF IInv
  <2>4. QED
    BY <1>2, <2>2, <2>3
<1>3. QED
  BY <1>1, <1>2, PTL DEF Spec

\* test_gallery_cache.py:74: nobody is recognised as somebody else, whatever was listed,
\* edited or missed, whichever builds overlapped, were killed or could not save, until a build
\* takes the vectors of one save and the manifest of another for one cache.
THEOREM UntornIsRight == Spec => []UntornGalleryIsRight
<1>1. IInv => UntornGalleryIsRight
  <2> SUFFICES ASSUME IInv, ~mixed, NEW n \in DOMAIN gallery
               PROVE  gallery[n].vector.of = gallery[n].code
    BY DEF UntornGalleryIsRight, GalleryIsRight, Served, Range
  <2>1. gallery[n].vector.of = gallery[n].key.of
    BY DEF IInv, Together, AllFit, Fits
  <2>2. PICK i \in DOMAIN shown.refs :
          gallery[n].code = shown.refs[i].code /\ gallery[n].key = shown.refs[i].key
    BY DEF IInv, Known, Listed, ShownListed, Drawn
  <2>3. shown.refs[i].key.of = shown.refs[i].code
    BY DEF IInv, Known, Listed, ShownListed, Truthful
  <2>4. QED
    BY <2>1, <2>2, <2>3
<1>2. QED
  BY <1>1, IInvHolds, PTL

\* photos.py:9: a photo that was edited misses the cache, so that what is served is from the
\* edition listed or a later one, whenever the version was told, as long as no build has taken
\* the files of two saves for one cache.
THEOREM ServedIsFresh == Spec => []GalleryIsFresh
<1>1. IInv => GalleryIsFresh
  <2> SUFFICES ASSUME IInv, ~mixed, NEW n \in DOMAIN gallery, NEW j \in DOMAIN shown.refs,
                      shown.refs[j].told, shown.refs[j].code = gallery[n].code
               PROVE  gallery[n].vector.edition >= shown.refs[j].edition
    BY DEF GalleryIsFresh, Served, Range
  <2>1. gallery[n].vector.edition >= gallery[n].key.version
    BY DEF IInv, Together, AllFit, Fits
  <2>2. PICK i \in DOMAIN shown.refs :
          gallery[n].code = shown.refs[i].code /\ gallery[n].key = shown.refs[i].key
    BY DEF IInv, Known, Listed, ShownListed, Drawn
  <2>3. shown.refs[j] = shown.refs[i]
    BY <2>2 DEF IInv, Known, Listed, ShownListed, Truthful
  <2>4. shown.refs[j].key.version = shown.refs[j].edition
    BY DEF IInv, Known, Listed, ShownListed, Truthful
  <2>5. QED
    BY <2>1, <2>2, <2>3, <2>4
<1>2. QED
  BY <1>1, IInvHolds, PTL
=============================================================================
