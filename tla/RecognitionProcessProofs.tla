----------------------- MODULE RecognitionProcessProofs -----------------------
(***************************************************************************)
(* Theorems about RecognitionProcess for any people, spots, verdicts and   *)
(* thresholds and any number of scans, moves, failures and swaps: no two   *)
(* faces of a scan share a track, a track is punched once, and only after  *)
(* it has agreed.                                                          *)
(***************************************************************************)
EXTENDS RecognitionProcess, SequenceTheorems, FiniteSetTheorems, TLAPS

-------------------------------------------------------------------------------
(* Types *)

\* Where everybody is, and the ids of the tracker.
Placed ==
    /\ standing \in [People -> Spots \cup {Away}]
    /\ nextId \in Nat \ {0}
    /\ DOMAIN tracks \subseteq 1 .. nextId - 1
    /\ pc \in {"idle", "assign", "vote", "mark"}
    /\ DOMAIN recorded \subseteq Codes
    /\ replaced \in BOOLEAN

TrackFields == {"box", "misses", "votes", "published"}

TracksTyped(trs) ==
    \A t \in DOMAIN trs : /\ DOMAIN trs[t] = TrackFields
                          /\ trs[t].votes \in Seq(Votes)
                          /\ trs[t].published \in BOOLEAN

SpentTyped ==
    DOMAIN spent = {"scans", "moves", "failures", "swaps"} /\ spent.scans \in Nat

ScanTyped ==
    /\ DOMAIN scan = {"faces", "match", "ids", "hands"}
    /\ scan.faces \in Seq(Faces)
    /\ scan.ids \in Seq(Nat)
    /\ Len(scan.ids) <= Len(scan.faces)
    /\ scan.hands \in Seq(DOMAIN scan.faces)
    /\ pc = "vote" => scan.hands # <<>> /\ Len(scan.ids) = Len(scan.faces)

Typed ==
    /\ Placed
    /\ gen \in Nat
    /\ TracksTyped(tracks)
    /\ SpentTyped
    /\ ScanTyped
    /\ queue \in Seq(Ballots)
    /\ \A i \in DOMAIN queue : queue[i].code # None
    /\ cast \in Seq(Ballots)
    /\ reports \in Seq(Punches)

\* The tracks of new are tracks of old, with the votes and the word they had.
Keeps(old, new) ==
    \A t \in DOMAIN new : /\ t \in DOMAIN old
                          /\ DOMAIN new[t] = TrackFields
                          /\ new[t].votes = old[t].votes
                          /\ new[t].published = old[t].published

LEMMA KeepsTyped ==
    ASSUME NEW old, TracksTyped(old), NEW new, Keeps(old, new)
    PROVE  TracksTyped(new)
BY DEF TracksTyped, Keeps

LEMMA SeenKeeps ==
    ASSUME NEW trs, TracksTyped(trs), NEW id, NEW box
    PROVE  Keeps(trs, Seen(trs, id, box)) /\ DOMAIN Seen(trs, id, box) = DOMAIN trs
BY DEF Keeps, TracksTyped, Seen, TrackFields

LEMMA AgedKeeps ==
    ASSUME NEW trs, TracksTyped(trs), NEW matched
    PROVE  Keeps(trs, Aged(trs, matched)) /\ DOMAIN Aged(trs, matched) = DOMAIN trs
BY DEF Keeps, TracksTyped, Aged, TrackFields

LEMMA WithoutKeeps ==
    ASSUME NEW trs, TracksTyped(trs), NEW gone
    PROVE  Keeps(trs, Without(trs, gone)) /\ DOMAIN Without(trs, gone) \subseteq DOMAIN trs
BY DEF Keeps, TracksTyped, Without

\* A new track is silent; the others are as they were, or made room.
Opened(old, id, new) ==
    /\ DOMAIN new \subseteq (DOMAIN old) \cup {id}
    /\ \A t \in DOMAIN new : DOMAIN new[t] = TrackFields
    /\ id \in DOMAIN new /\ new[id].votes = <<>> /\ new[id].published = FALSE
    /\ \A t \in DOMAIN new : t # id =>
          /\ t \in DOMAIN old
          /\ new[t].votes = old[t].votes /\ new[t].published = old[t].published

LEMMA OpenKeeps ==
    ASSUME NEW trs, TracksTyped(trs), NEW id, NEW box
    PROVE  Opened(trs, id, Open(trs, id, box))
<1> DEFINE new == Open(trs, id, box)
<1>1. Keeps(trs, MakeRoom(trs))
  <2>1. Keeps(trs, trs)
    BY DEF Keeps, TracksTyped
  <2>2. QED
    BY <2>1, WithoutKeeps DEF MakeRoom
<1>2. PICK kept : kept = MakeRoom(trs)
  OBVIOUS
<1>3. new = [t \in (DOMAIN kept) \cup {id} |-> IF t = id THEN Track(box) ELSE kept[t]]
  BY <1>2 DEF Open
<1>4. DOMAIN Track(box) = TrackFields /\ Track(box).votes = <<>> /\ Track(box).published = FALSE
  BY DEF Track, TrackFields
<1>5. /\ DOMAIN new = (DOMAIN kept) \cup {id} /\ new[id] = Track(box)
      /\ \A t \in DOMAIN kept : t # id => new[t] = kept[t]
  BY <1>3
<1>6. Opened(trs, id, new)
  <2> HIDE DEF new
  <2> QED
    BY <1>1, <1>2, <1>4, <1>5 DEF Keeps, Opened
<1>7. QED
  BY <1>6

-------------------------------------------------------------------------------
(* What the steps do *)

\* The scan is over: the tracks left stay, or a new tracker starts.
Ends(left) ==
    /\ pc' = "idle" /\ scan' = NoScan /\ queue' = <<>> /\ replaced' = FALSE
    /\ \/ tracks' = left /\ nextId' = nextId /\ gen' = gen
       \/ tracks' = <<>> /\ nextId' = 1 /\ gen' = gen + 1

LEMMA FinishEnds ==
    ASSUME NEW left, Finish(left)
    PROVE  Ends(left)
BY Zenon DEF Finish, Ends

\* The ballot of one raised hand.
Ballot(i, code) ==
    [person |-> scan.faces[i].person, track |-> <<gen, scan.ids[i]>>, code |-> code,
     scan |-> spent.scans]

Voted(i, code) ==
    /\ i = Head(scan.hands)
    /\ cast' = Append(cast, Ballot(i, code))
    /\ scan' = [scan EXCEPT !.hands = Tail(@)]
    /\ pc' = IF Len(scan.hands) = 1 THEN "mark" ELSE "vote"
    /\ \/ /\ Confirms(tracks, scan.ids[i], code)
          /\ tracks' = Publish(Cast(tracks, scan.ids[i], code), scan.ids[i])
          /\ queue' = Append(queue, Ballot(i, code))
       \/ /\ ~Confirms(tracks, scan.ids[i], code)
          /\ tracks' = Cast(tracks, scan.ids[i], code)
          /\ queue' = queue

LEMMA VoteVotes ==
    ASSUME Typed, Vote
    PROVE  \E i \in DOMAIN scan.faces, code \in Votes :
              i \in DOMAIN scan.ids /\ Ballot(i, code) \in Ballots /\ Voted(i, code)
<1>1. pc = "vote" /\ scan.hands # <<>> /\ scan.hands \in Seq(DOMAIN scan.faces)
  BY DEF Vote, Typed, ScanTyped
<1>2. PICK i \in DOMAIN scan.faces : i = Head(scan.hands)
  BY <1>1, HeadTailProperties
<1>3. PICK code : /\ code \in (IF TooSmall(scan.faces[i]) THEN {None}
                                                         ELSE Verdicts[scan.faces[i].person])
                  /\ Voted(i, code)
  BY <1>2, Zenon DEF Vote, Voted, Ballot
<1>4. scan.faces[i] \in Faces /\ i \in DOMAIN scan.ids /\ scan.ids[i] \in Nat
  BY <1>1, LenProperties, ElementOfSeq DEF Typed, ScanTyped
<1>5. scan.faces[i].person \in People
  BY <1>4 DEF Faces
<1>6. code \in Votes
  <2>1. PICK p \in People : p = scan.faces[i].person
    BY <1>5
  <2>2. code = None \/ code \in Verdicts[p]
    BY <1>3, <2>1
  <2>3. code \in Verdicts[p] => code \in UNION {Verdicts[q] : q \in People}
    BY Zenon
  <2>4. QED
    BY <2>2, <2>3, Zenon DEF Votes, Codes
<1>7. Ballot(i, code) \in Ballots
  BY <1>4, <1>5, <1>6 DEF Ballot, Ballots, Typed, SpentTyped
<1>8. QED
  BY <1>3, <1>4, <1>6, <1>7

\* What a vote does to the tracks.
LEMMA CastTracks ==
    ASSUME NEW trs, TracksTyped(trs), NEW id, NEW code \in Votes
    PROVE  /\ DOMAIN Cast(trs, id, code) = DOMAIN trs
           /\ TracksTyped(Cast(trs, id, code))
           /\ \A t \in DOMAIN trs :
                 /\ Cast(trs, id, code)[t].published = trs[t].published
                 /\ t # id => Cast(trs, id, code)[t].votes = trs[t].votes
                 /\ t = id => Cast(trs, id, code)[t].votes = Append(trs[t].votes, code)
<1>1. CASE id \notin DOMAIN trs
  BY <1>1 DEF Cast
<1>2. CASE id \in DOMAIN trs
  <2>1. PICK new : new = Cast(trs, id, code)
    OBVIOUS
  <2>2. PICK votes : votes = Append(trs[id].votes, code)
    OBVIOUS
  <2>3. new = [trs EXCEPT ![id].votes = votes]
    BY <1>2, <2>1, <2>2 DEF Cast
  <2>4. votes \in Seq(Votes)
    BY <1>2, <2>2, AppendProperties DEF TracksTyped
  <2>5. /\ DOMAIN new = DOMAIN trs /\ \A t \in DOMAIN trs : t # id => new[t] = trs[t]
        /\ DOMAIN new[id] = TrackFields /\ new[id].votes = votes
        /\ new[id].published = trs[id].published
    BY <1>2, <2>3 DEF TracksTyped, TrackFields
  <2>6. TracksTyped(new)
    BY <1>2, <2>4, <2>5 DEF TracksTyped
  <2>7. QED
    BY <1>2, <2>1, <2>2, <2>5, <2>6
<1>3. QED
  BY <1>1, <1>2

LEMMA PublishTracks ==
    ASSUME NEW trs, TracksTyped(trs), NEW id \in DOMAIN trs
    PROVE  /\ DOMAIN Publish(trs, id) = DOMAIN trs
           /\ TracksTyped(Publish(trs, id))
           /\ Publish(trs, id)[id].published = TRUE
           /\ \A t \in DOMAIN trs :
                 /\ Publish(trs, id)[t].votes = trs[t].votes
                 /\ t # id => Publish(trs, id)[t].published = trs[t].published
BY DEF Publish, TracksTyped, TrackFields

-------------------------------------------------------------------------------
(* Types are kept *)

LEMMA NoScanTyped ==
    ASSUME scan' = NoScan, pc' = "idle"
    PROVE  ScanTyped'
BY DEF NoScan, ScanTyped

LEMMA InitTyped ==
    ASSUME Init
    PROVE  Typed
<1>1. Placed
  <2>1. standing \in [People -> Spots \cup {Away}]
    BY DEF Init
  <2>2. DOMAIN tracks = {} /\ DOMAIN recorded = {}
    BY DEF Init
  <2>3. nextId \in Nat \ {0} /\ pc = "idle" /\ replaced = FALSE
    BY DEF Init
  <2>4. QED
    BY <2>1, <2>2, <2>3, Zenon DEF Placed
<1>2. TracksTyped(tracks) /\ SpentTyped /\ gen \in Nat
  BY DEF Init, TracksTyped, SpentTyped
<1>3. ScanTyped
  BY DEF Init, NoScan, ScanTyped
<1>4. queue \in Seq(Ballots) /\ cast \in Seq(Ballots) /\ reports \in Seq(Punches)
  BY DEF Init
<1>5. \A i \in DOMAIN queue : queue[i].code # None
  BY DEF Init
<1>6. QED
  BY <1>1, <1>2, <1>3, <1>4, <1>5 DEF Typed

LEMMA EndTyped ==
    ASSUME Typed, NEW left, Ends(left), TracksTyped(left), DOMAIN left \subseteq DOMAIN tracks,
           UNCHANGED <<standing, recorded, cast, reports, spent>>
    PROVE  Typed'
<1>1. ScanTyped'
  BY NoScanTyped DEF Ends
<1>2. Placed' /\ gen' \in Nat /\ TracksTyped(tracks')
  <2>1. CASE tracks' = left /\ nextId' = nextId /\ gen' = gen
    BY <2>1 DEF Typed, Placed, Ends
  <2>2. CASE tracks' = <<>> /\ nextId' = 1 /\ gen' = gen + 1
    <3>1. DOMAIN tracks' = {}
      BY <2>2
    <3>2. TracksTyped(tracks')
      BY <3>1 DEF TracksTyped
    <3>3. nextId' \in Nat \ {0} /\ gen' \in Nat
      BY <2>2 DEF Typed
    <3>4. Placed'
      BY <3>1, <3>3 DEF Typed, Placed, Ends
    <3>5. QED
      BY <3>2, <3>3, <3>4
  <2>3. QED
    BY <2>1, <2>2 DEF Ends
<1>3. queue' \in Seq(Ballots) /\ DOMAIN queue' = {}
  BY DEF Ends
<1>4. \A i \in DOMAIN queue' : queue'[i].code # None
  BY <1>3
<1>5. SpentTyped'
  BY DEF Typed, SpentTyped
<1>6. QED
  BY <1>1, <1>2, <1>3, <1>4, <1>5 DEF Typed

\* What Detect finds: people who are there, in some order.
Found ==
    /\ pc = "idle" /\ pc' = "assign"
    /\ spent' = [spent EXCEPT !.scans = @ + 1]
    /\ \E faces, m :
          /\ faces \in Seq(Faces)
          /\ m \in [DOMAIN faces -> (DOMAIN tracks) \cup {None}]
          /\ GreedyMatch(m, BoxesOf(faces), tracks)
          /\ scan' = [NoScan EXCEPT !.faces = faces, !.match = m]

LEMMA DetectFinds ==
    ASSUME Typed, Detect
    PROVE  Found \/ UNCHANGED <<pc, scan>>
<1>1. SUFFICES ASSUME ~UNCHANGED <<pc, scan>>
               PROVE  Found
  OBVIOUS
<1>2. PICK found \in SUBSET Present : \E order \in SetToSeqs(found) :
        \E m \in Matches(BoxesOf([i \in DOMAIN order |-> Face(order[i])]), tracks) :
            /\ scan' = [NoScan EXCEPT !.faces = [i \in DOMAIN order |-> Face(order[i])],
                                      !.match = m]
            /\ pc' = "assign"
  BY <1>1, Zenon DEF Detect
<1>3. PICK order \in SetToSeqs(found) :
        \E m \in Matches(BoxesOf([i \in DOMAIN order |-> Face(order[i])]), tracks) :
            /\ scan' = [NoScan EXCEPT !.faces = [i \in DOMAIN order |-> Face(order[i])],
                                      !.match = m]
            /\ pc' = "assign"
  BY <1>2
<1>4. PICK faces : faces = [i \in DOMAIN order |-> Face(order[i])]
  OBVIOUS
<1>5. PICK m \in Matches(BoxesOf(faces), tracks) :
        scan' = [NoScan EXCEPT !.faces = faces, !.match = m] /\ pc' = "assign"
  BY <1>3, <1>4
<1>6. IsFiniteSet(found)
  BY ProcessAssumption, FS_Subset DEF Present
<1>7. Cardinality(found) \in Nat
  BY <1>6, FS_CardinalityType
<1>8. order \in [1 .. Cardinality(found) -> found]
  BY DEF SetToSeqs
<1>9. ASSUME NEW i \in 1 .. Cardinality(found)
      PROVE  Face(order[i]) \in Faces
  <2>1. PICK p \in People : p = order[i] /\ standing[p] \in Spots
    BY <1>8 DEF Present, Typed, Placed
  <2>2. QED
    BY <2>1 DEF Face, Faces, Spotted
<1>10. faces \in Seq(Faces)
  <2>1. DOMAIN order = 1 .. Cardinality(found)
    BY <1>8
  <2>2. QED
    BY <1>4, <1>7, <1>9, <2>1, IsASeq
<1>11. DOMAIN BoxesOf(faces) = DOMAIN faces
  BY DEF BoxesOf
<1>12. m \in [DOMAIN faces -> (DOMAIN tracks) \cup {None}] /\ GreedyMatch(m, BoxesOf(faces), tracks)
  BY <1>5, <1>11, Zenon DEF Matches
<1>13. pc = "idle" /\ spent' = [spent EXCEPT !.scans = @ + 1]
  BY DEF Detect
<1>14. QED
  BY <1>5, <1>10, <1>12, <1>13, Zenon DEF Found

LEMMA DetectTyped ==
    ASSUME Typed, Detect
    PROVE  Typed'
<1>1. UNCHANGED <<standing, tracks, nextId, queue, recorded, replaced, gen, cast, reports>>
  BY DEF Detect, tracker, history
<1>2. SpentTyped'
  <2>1. spent' = [spent EXCEPT !.scans = @ + 1]
    BY DEF Detect
  <2>2. QED
    BY <2>1 DEF Typed, SpentTyped
<1>3. ScanTyped' /\ pc' \in {"idle", "assign", "vote", "mark"}
  <2>1. CASE UNCHANGED <<pc, scan>>
    BY <2>1 DEF Typed, Placed, ScanTyped
  <2>2. CASE Found
    <3>1. PICK faces, m : /\ faces \in Seq(Faces)
                             /\ scan' = [NoScan EXCEPT !.faces = faces, !.match = m]
      BY <2>2, Zenon DEF Found
    <3>2. scan' = [faces |-> faces, match |-> m, ids |-> <<>>, hands |-> <<>>]
      BY <3>1 DEF NoScan
    <3>3. pc' = "assign"
      BY <2>2 DEF Found
    <3>4. <<>> \in Seq(Nat) /\ <<>> \in Seq(DOMAIN faces) /\ Len(<<>>) = 0 /\ Len(faces) \in Nat
      BY <3>1, LenProperties
    <3>5. faces \in Seq(Faces)
      BY <3>1
    <3>6. QED
      BY <3>2, <3>3, <3>4, <3>5 DEF ScanTyped
  <2>3. QED
    BY <2>1, <2>2, DetectFinds
<1>4. QED
  BY <1>1, <1>2, <1>3 DEF Typed, Placed

\* One face more has its id.
LEMMA AssignTyped ==
    ASSUME Typed, Assigning, NEW id \in Nat, scan' = Assigned(id), pc' = pc
    PROVE  ScanTyped'
<1>1. PICK ids : ids = Append(scan.ids, id)
  OBVIOUS
<1>2. scan' = [scan EXCEPT !.ids = ids]
  BY <1>1 DEF Assigned
<1>3. /\ ids \in Seq(Nat) /\ Len(ids) = Len(scan.ids) + 1
      /\ Len(scan.ids) \in Nat /\ Len(scan.faces) \in Nat
  BY <1>1, AppendProperties, LenProperties DEF Typed, ScanTyped
<1>4. QED
  BY <1>2, <1>3 DEF Typed, ScanTyped, Assigning

LEMMA ContinueTyped ==
    ASSUME Typed, ContinueTrack
    PROVE  Typed'
<1>1. UNCHANGED <<standing, nextId, pc, queue, recorded, replaced, gen, cast, reports, spent>>
  BY DEF ContinueTrack, history
<1>2. Matched \in Nat
  BY DEF ContinueTrack, Typed, Placed
<1>3. ScanTyped'
  BY <1>1, <1>2, AssignTyped DEF ContinueTrack
<1>4. DOMAIN tracks' = DOMAIN tracks /\ TracksTyped(tracks')
  BY SeenKeeps, KeepsTyped DEF ContinueTrack, Typed
<1>5. QED
  BY <1>1, <1>3, <1>4 DEF Typed, Placed, SpentTyped

LEMMA OpenTyped ==
    ASSUME Typed, OpenTrack
    PROVE  Typed'
<1>1. UNCHANGED <<standing, pc, queue, recorded, replaced, gen, cast, reports, spent>>
  BY DEF OpenTrack, history
<1>2. nextId \in Nat \ {0} /\ nextId' = nextId + 1
  BY DEF OpenTrack, Typed, Placed
<1>3. ScanTyped'
  BY <1>1, <1>2, AssignTyped DEF OpenTrack
<1>4. PICK new, box : new = Open(tracks, nextId, box) /\ tracks' = new
  BY DEF OpenTrack
<1>5. TracksTyped(tracks)
  BY DEF Typed
<1>5a. Opened(tracks, nextId, new)
  BY <1>4, <1>5, OpenKeeps, Zenon
<1>6. /\ DOMAIN new \subseteq (DOMAIN tracks) \cup {nextId}
      /\ \A t \in DOMAIN new : DOMAIN new[t] = TrackFields
      /\ new[nextId].votes = <<>> /\ new[nextId].published = FALSE
      /\ \A t \in DOMAIN new : t # nextId =>
            /\ t \in DOMAIN tracks
            /\ new[t].votes = tracks[t].votes /\ new[t].published = tracks[t].published
  BY <1>5a, Zenon DEF Opened
<1>7. TracksTyped(tracks')
  <2> SUFFICES ASSUME NEW t \in DOMAIN new
               PROVE  /\ DOMAIN new[t] = TrackFields
                      /\ new[t].votes \in Seq(Votes)
                      /\ new[t].published \in BOOLEAN
    BY <1>4 DEF TracksTyped
  <2>1. CASE t = nextId
    <3>1. <<>> \in Seq(Votes) /\ FALSE \in BOOLEAN
      OBVIOUS
    <3>2. QED
      BY <1>6, <2>1, <3>1, Zenon
  <2>2. CASE t # nextId
    BY <1>5, <1>6, <2>2 DEF TracksTyped
  <2>3. QED
    BY <2>1, <2>2
<1>8. DOMAIN tracks' \subseteq 1 .. nextId' - 1
  BY <1>2, <1>4, <1>6 DEF Typed, Placed
<1>9. QED
  BY <1>1, <1>2, <1>3, <1>7, <1>8 DEF Typed, Placed, SpentTyped

\* What Gate leaves: the scan over, or the hands to be voted on.
Raises ==
    /\ pc' = "vote" /\ nextId' = nextId /\ queue' = queue /\ replaced' = replaced /\ gen' = gen
    /\ tracks' = Aged(tracks, Range(scan.ids))
    /\ \E hands \in Seq(DOMAIN scan.faces) :
          /\ hands # <<>>
          /\ \A i, j \in DOMAIN hands : hands[i] = hands[j] => i = j
          /\ scan' = [scan EXCEPT !.hands = hands]

LEMMA GateRaises ==
    ASSUME Typed, Gate
    PROVE  Ends(Aged(tracks, Range(scan.ids))) \/ Raises
<1>1. PICK raised \in SUBSET DOMAIN scan.faces :
        \/ Finish(Aged(tracks, Range(scan.ids)))
        \/ /\ raised # {}
           /\ \E hands \in SetToSeqs(raised) : scan' = [scan EXCEPT !.hands = hands]
           /\ tracks' = Aged(tracks, Range(scan.ids))
           /\ pc' = "vote"
           /\ UNCHANGED <<nextId, queue, replaced, gen>>
  BY Zenon DEF Gate
<1>2. CASE Finish(Aged(tracks, Range(scan.ids)))
  BY <1>2, FinishEnds
<1>3. CASE /\ raised # {}
           /\ \E hands \in SetToSeqs(raised) : scan' = [scan EXCEPT !.hands = hands]
           /\ tracks' = Aged(tracks, Range(scan.ids))
           /\ pc' = "vote"
           /\ UNCHANGED <<nextId, queue, replaced, gen>>
  <2>1. PICK hands \in SetToSeqs(raised) : scan' = [scan EXCEPT !.hands = hands]
    BY <1>3
  <2>2. IsFiniteSet(raised)
    <3>1. DOMAIN scan.faces = 1 .. Len(scan.faces) /\ Len(scan.faces) \in Nat
      BY LenProperties DEF Typed, ScanTyped
    <3>2. IsFiniteSet(DOMAIN scan.faces)
      BY <3>1, FS_Interval
    <3>3. QED
      BY <3>2, FS_Subset
  <2>3. Cardinality(raised) \in Nat /\ Cardinality(raised) # 0
    BY <1>3, <2>2, FS_CardinalityType, FS_EmptySet
  <2>4. /\ hands \in [1 .. Cardinality(raised) -> raised]
        /\ \A i, j \in 1 .. Cardinality(raised) : i # j => hands[i] # hands[j]
    BY DEF SetToSeqs
  <2>5. hands \in Seq(DOMAIN scan.faces)
    BY <2>3, <2>4
  <2>6. hands # <<>>
    <3>1. DOMAIN hands # {}
      BY <2>3, <2>4
    <3>2. QED
      BY <3>1
  <2>7. \A i, j \in DOMAIN hands : hands[i] = hands[j] => i = j
    BY <2>4
  <2>8. QED
    BY <1>3, <2>1, <2>5, <2>6, <2>7, Zenon DEF Raises
<1>4. QED
  BY <1>1, <1>2, <1>3

LEMMA GateTyped ==
    ASSUME Typed, Gate
    PROVE  Typed'
<1>1. UNCHANGED <<standing, recorded, cast, reports, spent>>
  BY DEF Gate
<1>2. PICK aged : aged = Aged(tracks, Range(scan.ids))
  OBVIOUS
<1>3. TracksTyped(aged) /\ DOMAIN aged = DOMAIN tracks
  BY <1>2, AgedKeeps, KeepsTyped DEF Typed
<1>4. CASE Ends(aged)
  BY <1>1, <1>3, <1>4, EndTyped
<1>5. CASE Raises
  <2>1. PICK hands \in Seq(DOMAIN scan.faces) :
          hands # <<>> /\ scan' = [scan EXCEPT !.hands = hands]
    BY <1>5 DEF Raises
  <2>2. Len(scan.ids) = Len(scan.faces)
    BY DEF Gate
  <2>3. ScanTyped'
    BY <2>1, <2>2 DEF Typed, ScanTyped
  <2>4. QED
    BY <1>1, <1>2, <1>3, <1>5, <2>3 DEF Typed, Placed, SpentTyped, Raises
<1>6. QED
  BY <1>2, <1>4, <1>5, GateRaises

LEMMA VoteTyped ==
    ASSUME Typed, Vote
    PROVE  Typed'
<1>1. PICK i \in DOMAIN scan.faces, code \in Votes :
        i \in DOMAIN scan.ids /\ Ballot(i, code) \in Ballots /\ Voted(i, code)
  BY VoteVotes, Zenon
<1>2. UNCHANGED <<standing, nextId, recorded, replaced, gen, reports, spent>>
  BY DEF Vote
<1>3. PICK id, ballot : id = scan.ids[i] /\ ballot = Ballot(i, code)
  OBVIOUS
<1>4. ballot \in Ballots /\ ballot.code = code
  BY <1>1, <1>3 DEF Ballot
<1>5. cast' \in Seq(Ballots)
  BY <1>1, <1>3, <1>4, AppendProperties DEF Voted, Typed
<1>6. PICK voted : voted = Cast(tracks, id, code)
  OBVIOUS
<1>7. TracksTyped(voted) /\ DOMAIN voted = DOMAIN tracks
  BY <1>6, CastTracks DEF Typed
<1>8. TracksTyped(tracks') /\ DOMAIN tracks' = DOMAIN tracks
  <2>1. CASE tracks' = voted
    BY <1>7, <2>1
  <2>2. CASE Confirms(tracks, id, code) /\ tracks' = Publish(voted, id)
    <3>1. id \in DOMAIN voted
      BY <1>7, <2>2 DEF Confirms
    <3>2. QED
      BY <1>7, <2>2, <3>1, PublishTracks
  <2>3. QED
    BY <1>1, <1>3, <1>6, <2>1, <2>2 DEF Voted
<1>9. queue' \in Seq(Ballots) /\ \A n \in DOMAIN queue' : queue'[n].code # None
  <2>1. CASE queue' = queue
    BY <2>1 DEF Typed
  <2>2. CASE Confirms(tracks, id, code) /\ queue' = Append(queue, ballot)
    <3>1. code # None
      BY <2>2 DEF Confirms
    <3>2. /\ queue \in Seq(Ballots) /\ Len(queue) \in Nat
          /\ queue' \in Seq(Ballots)
          /\ DOMAIN queue' = 1 .. Len(queue) + 1 /\ DOMAIN queue = 1 .. Len(queue)
          /\ \A n \in 1 .. Len(queue) : queue'[n] = queue[n]
          /\ queue'[Len(queue) + 1] = ballot
      BY <1>4, <2>2, AppendProperties, LenProperties DEF Typed
    <3>3. QED
      BY <1>4, <3>1, <3>2 DEF Typed
  <2>3. QED
    BY <1>1, <1>3, <2>1, <2>2 DEF Voted
<1>10. ScanTyped' /\ pc' \in {"vote", "mark"}
  <2>1. pc = "vote" /\ scan.hands # <<>> /\ scan.hands \in Seq(DOMAIN scan.faces)
    BY DEF Vote, Typed, ScanTyped
  <2>2. PICK hands : hands = Tail(scan.hands)
    OBVIOUS
  <2>3. /\ scan' = [scan EXCEPT !.hands = hands]
        /\ pc' = IF Len(scan.hands) = 1 THEN "mark" ELSE "vote"
    BY <1>1, <2>2 DEF Voted
  <2>4. hands \in Seq(DOMAIN scan.faces) /\ Len(hands) = Len(scan.hands) - 1 /\ Len(hands) \in Nat
    BY <2>1, <2>2, HeadTailProperties, LenProperties
  <2>5. Len(scan.hands) # 1 => hands # <<>>
    <3>1. Len(scan.hands) \in Nat /\ Len(<<>>) = 0
      BY <2>1, LenProperties
    <3>2. Len(scan.hands) # 1 => Len(hands) # 0
      BY <2>4, <3>1
    <3>3. QED
      BY <3>1, <3>2
  <2>6. QED
    BY <2>1, <2>3, <2>4, <2>5 DEF Typed, ScanTyped
<1>11. QED
  BY <1>2, <1>5, <1>8, <1>9, <1>10 DEF Typed, Placed, SpentTyped

LEMMA MarkTyped ==
    ASSUME Typed, Mark
    PROVE  Typed'
<1>1. UNCHANGED <<standing, tracks, nextId, pc, scan, replaced, gen, cast>>
  BY DEF Mark, tracker
<1>2. queue # <<>> /\ queue' = Tail(queue)
  BY DEF Mark
<1>3. /\ Head(queue) \in Ballots /\ queue' \in Seq(Ballots) /\ Head(queue).code # None
      /\ \A i \in DOMAIN queue' : queue'[i].code # None
  <2>1. queue \in Seq(Ballots) /\ \A i \in DOMAIN queue : queue[i].code # None
    BY DEF Typed
  <2>2. /\ Head(queue) \in Ballots /\ queue' \in Seq(Ballots) /\ Head(queue) = queue[1]
        /\ 1 \in DOMAIN queue
        /\ \A i \in DOMAIN queue' : i + 1 \in DOMAIN queue /\ queue'[i] = queue[i + 1]
    BY <1>2, <2>1, HeadTailProperties, LenProperties
  <2>3. QED
    BY <2>1, <2>2
<1>4. Head(queue).code \in Codes
  BY <1>3 DEF Ballots, Votes
<1>5. SpentTyped'
  BY DEF Mark, Typed, SpentTyped
<1>6. DOMAIN recorded' \subseteq Codes
  BY <1>4 DEF Mark, Recorded, Typed, Placed
<1>7. reports' \in Seq(Punches)
  <2>1. CASE reports' = reports
    BY <2>1 DEF Typed
  <2>2. CASE \E ok \in BOOLEAN :
               reports' = Append(reports, [event |-> Head(queue), ok |-> ok, at |-> spent.scans])
    <3>1. PICK ok \in BOOLEAN :
            reports' = Append(reports, [event |-> Head(queue), ok |-> ok, at |-> spent.scans])
      BY <2>2
    <3>2. [event |-> Head(queue), ok |-> ok, at |-> spent.scans] \in Punches
      BY <1>3 DEF Punches, Typed, SpentTyped
    <3>3. QED
      BY <3>1, <3>2, AppendProperties DEF Typed
  <2>3. QED
    BY <2>1, <2>2, Zenon DEF Mark
<1>8. ScanTyped'
  BY <1>1 DEF Typed, ScanTyped
<1>9. QED
  BY <1>1, <1>3, <1>5, <1>6, <1>7, <1>8 DEF Typed, Placed

LEMMA TypedStep ==
    ASSUME Typed, Next
    PROVE  Typed'
<1>1. ASSUME NEW p \in People, Leave(p) \/ \E s \in Spots : Move(p, s)
      PROVE  Typed'
  <2>1. UNCHANGED <<tracks, nextId, pc, scan, queue, recorded, replaced, gen, cast, reports>>
    BY <1>1, Zenon DEF Leave, Move, tracker, history
  <2>2. standing' \in [People -> Spots \cup {Away}]
    BY <1>1 DEF Leave, Move, Typed, Placed
  <2>3. SpentTyped'
    BY <1>1 DEF Leave, Move, Typed, SpentTyped
  <2>4. QED
    BY <2>1, <2>2, <2>3 DEF Typed, Placed, ScanTyped
<1>2. ASSUME SwapGallery
      PROVE  Typed'
  <2>1. UNCHANGED <<standing, pc, scan, queue, recorded, cast, reports>>
    BY <1>2 DEF SwapGallery
  <2>2. SpentTyped'
    BY <1>2 DEF SwapGallery, Typed, SpentTyped
  <2>3. /\ nextId' \in Nat \ {0} /\ gen' \in Nat /\ replaced' \in BOOLEAN
        /\ DOMAIN tracks' \subseteq 1 .. nextId' - 1 /\ TracksTyped(tracks')
    <3>1. CASE UNCHANGED <<tracks, nextId, gen>> /\ replaced' = TRUE
      BY <3>1 DEF Typed, Placed
    <3>2. CASE tracks' = <<>> /\ nextId' = 1 /\ gen' = gen + 1 /\ replaced' = replaced
      <4>1. DOMAIN tracks' = {}
        BY <3>2
      <4>2. QED
        BY <3>2, <4>1 DEF Typed, Placed, TracksTyped
    <3>3. QED
      BY <1>2, <3>1, <3>2 DEF SwapGallery
  <2>4. QED
    BY <2>1, <2>2, <2>3 DEF Typed, Placed, ScanTyped
<1>3. ASSUME LoseTrack
      PROVE  Typed'
  BY <1>3, FinishEnds, EndTyped DEF LoseTrack, Typed
<1>4. ASSUME Retire
      PROVE  Typed'
  <2>1. PICK left : left = Without(tracks, Expired(tracks))
    OBVIOUS
  <2>2. TracksTyped(left) /\ DOMAIN left \subseteq DOMAIN tracks
    BY <2>1, WithoutKeeps, KeepsTyped DEF Typed
  <2>3. QED
    BY <1>4, <2>1, <2>2, FinishEnds, EndTyped DEF Retire
<1>5. QED
  BY <1>1, <1>2, <1>3, <1>4, DetectTyped, ContinueTyped, OpenTyped, GateTyped, VoteTyped, MarkTyped,
     Zenon DEF Next

LEMMA TypedStutters ==
    ASSUME Typed, UNCHANGED vars
    PROVE  Typed'
BY DEF vars, Typed, Placed, SpentTyped, ScanTyped

\* The records that are kept, each with its fields.
TracksShaped(trs) == \A t \in DOMAIN trs : trs[t] \in Tracks

Shaped ==
    /\ TracksShaped(tracks)
    /\ scan \in Scans
    /\ recorded \in [DOMAIN recorded -> Nat]
    /\ crashes \in Nat
    /\ spent \in [scans : Nat, moves : Nat, failures : Nat, swaps : Nat]

LEMMA SeenShaped ==
    ASSUME NEW trs, TracksShaped(trs), NEW id, NEW box \in Spotted
    PROVE  TracksShaped(Seen(trs, id, box))
BY DEF TracksShaped, Seen, Tracks

LEMMA AgedShaped ==
    ASSUME NEW trs, TracksShaped(trs), NEW matched
    PROVE  TracksShaped(Aged(trs, matched))
BY DEF TracksShaped, Aged, Tracks

LEMMA WithoutShaped ==
    ASSUME NEW trs, TracksShaped(trs), NEW gone
    PROVE  TracksShaped(Without(trs, gone))
BY DEF TracksShaped, Without

LEMMA OpenShaped ==
    ASSUME NEW trs, TracksShaped(trs), NEW id, NEW box \in Spotted
    PROVE  TracksShaped(Open(trs, id, box))
<1>1. TracksShaped(MakeRoom(trs))
  BY WithoutShaped DEF MakeRoom
<1>2. Track(box) \in Tracks
  BY DEF Track, Tracks
<1>3. QED
  BY <1>1, <1>2, Zenon DEF Open, TracksShaped

LEMMA CastShaped ==
    ASSUME NEW trs, TracksShaped(trs), NEW id, NEW code \in Votes
    PROVE  TracksShaped(Cast(trs, id, code))
<1>1. CASE id \notin DOMAIN trs
  BY <1>1 DEF Cast
<1>2. CASE id \in DOMAIN trs
  <2>1. PICK votes : votes = Append(trs[id].votes, code)
    OBVIOUS
  <2>2. votes \in Seq(Votes)
    BY <1>2, <2>1, AppendProperties DEF TracksShaped, Tracks
  <2>3. Cast(trs, id, code) = [trs EXCEPT ![id].votes = votes]
    BY <1>2, <2>1 DEF Cast
  <2>4. QED
    BY <2>2, <2>3 DEF TracksShaped, Tracks
<1>3. QED
  BY <1>1, <1>2

LEMMA PublishShaped ==
    ASSUME NEW trs, TracksShaped(trs), NEW id
    PROVE  TracksShaped(Publish(trs, id))
BY DEF TracksShaped, Publish, Tracks

LEMMA InitShaped ==
    ASSUME Init
    PROVE  Shaped
<1>1. DOMAIN tracks = {} /\ DOMAIN recorded = {} /\ recorded = <<>>
  BY DEF Init
<1>2. scan \in Scans
  BY DEF Init, NoScan, Scans
<1>3. recorded \in [DOMAIN recorded -> Nat]
  BY <1>1
<1>4. QED
  BY <1>1, <1>2, <1>3 DEF Init, Shaped, TracksShaped

LEMMA EndShaped ==
    ASSUME Shaped, NEW left, Ends(left), TracksShaped(left), crashes' \in Nat,
           UNCHANGED <<recorded, spent>>
    PROVE  Shaped'
<1>1. scan' \in Scans
  BY DEF Ends, NoScan, Scans
<1>2. TracksShaped(tracks')
  <2>1. DOMAIN <<>> = {}
    OBVIOUS
  <2>2. QED
    BY <2>1 DEF Ends, TracksShaped
<1>3. QED
  BY <1>1, <1>2 DEF Shaped

LEMMA DetectShaped ==
    ASSUME Typed, Shaped, Detect
    PROVE  Shaped'
<1>1. UNCHANGED <<tracks, recorded, crashes>> /\ spent' = [spent EXCEPT !.scans = @ + 1]
  BY DEF Detect, tracker, history
<1>2. scan' \in Scans
  <2>1. CASE UNCHANGED <<pc, scan>>
    BY <2>1 DEF Shaped
  <2>2. CASE Found
    <3>1. PICK faces, m : /\ faces \in Seq(Faces)
                          /\ m \in [DOMAIN faces -> (DOMAIN tracks) \cup {None}]
                          /\ scan' = [NoScan EXCEPT !.faces = faces, !.match = m]
      BY <2>2, Zenon DEF Found
    <3>2. m \in Seq(Nat \cup {None})
      <4>1. DOMAIN faces = 1 .. Len(faces) /\ Len(faces) \in Nat
        BY <3>1, LenProperties
      <4>2. m \in [1 .. Len(faces) -> Nat \cup {None}]
        BY <3>1, <4>1 DEF Typed, Placed
      <4>3. QED
        BY <4>1, <4>2
    <3>3. scan' = [faces |-> faces, match |-> m, ids |-> <<>>, hands |-> <<>>]
      BY <3>1 DEF NoScan
    <3>4. <<>> \in Seq(Nat)
      OBVIOUS
    <3>5. faces \in Seq(Faces)
      BY <3>1
    <3>6. QED
      BY <3>2, <3>3, <3>4, <3>5 DEF Scans
  <2>3. QED
    BY <2>1, <2>2, DetectFinds
<1>3. QED
  BY <1>1, <1>2 DEF Shaped

\* One face more has its id, and its box is that of its track.
LEMMA AssignShaped ==
    ASSUME Typed, Shaped, Assigning, NEW id \in Nat, scan' = Assigned(id)
    PROVE  scan' \in Scans /\ scan.faces[NextFace].box \in Spotted
<1>1. scan.faces \in Seq(Faces) /\ scan.ids \in Seq(Nat)
  BY DEF Typed, ScanTyped
<1>2. NextFace \in DOMAIN scan.faces
  BY <1>1, LenProperties DEF NextFace, Assigning
<1>3. scan.faces[NextFace] \in Faces
  BY <1>1, <1>2, ElementOfSeq, LenProperties
<1>4. PICK ids \in Seq(Nat) : ids = Append(scan.ids, id)
  BY <1>1, AppendProperties
<1>5. scan' = [scan EXCEPT !.ids = ids]
  BY <1>4 DEF Assigned
<1>6. QED
  BY <1>3, <1>5 DEF Faces, Shaped, Scans

LEMMA UpdateShaped ==
    ASSUME Typed, Shaped, ContinueTrack \/ OpenTrack
    PROVE  Shaped'
<1>1. UNCHANGED <<recorded, crashes, spent>> /\ Assigning
  BY DEF ContinueTrack, OpenTrack, history
<1>2. CASE ContinueTrack
  <2>1. Matched \in Nat /\ scan' = Assigned(Matched)
    BY <1>2 DEF ContinueTrack, Typed, Placed
  <2>2. scan' \in Scans /\ scan.faces[NextFace].box \in Spotted
    BY <1>1, <2>1, AssignShaped
  <2>3. TracksShaped(tracks')
    BY <1>2, <2>2, SeenShaped DEF ContinueTrack, Shaped
  <2>4. QED
    BY <1>1, <2>2, <2>3 DEF Shaped
<1>3. CASE OpenTrack
  <2>1. nextId \in Nat /\ scan' = Assigned(nextId)
    BY <1>3 DEF OpenTrack, Typed, Placed
  <2>2. scan' \in Scans /\ scan.faces[NextFace].box \in Spotted
    BY <1>1, <2>1, AssignShaped
  <2>3. TracksShaped(tracks')
    BY <1>3, <2>2, OpenShaped DEF OpenTrack, Shaped
  <2>4. QED
    BY <1>1, <2>2, <2>3 DEF Shaped
<1>4. QED
  BY <1>2, <1>3

LEMMA GateShaped ==
    ASSUME Typed, Shaped, Gate
    PROVE  Shaped'
<1>1. UNCHANGED <<recorded, crashes, spent>>
  BY DEF Gate
<1>2. TracksShaped(Aged(tracks, Range(scan.ids)))
  BY AgedShaped DEF Shaped
<1>3. CASE Ends(Aged(tracks, Range(scan.ids)))
  BY <1>1, <1>2, <1>3, EndShaped DEF Shaped
<1>4. CASE Raises
  <2>1. PICK hands \in Seq(DOMAIN scan.faces) : scan' = [scan EXCEPT !.hands = hands]
    BY <1>4 DEF Raises
  <2>2. hands \in Seq(Nat)
    <3>1. DOMAIN scan.faces \subseteq Nat
      BY LenProperties DEF Typed, ScanTyped
    <3>2. QED
      BY <2>1, <3>1
  <2>3. QED
    BY <1>1, <1>2, <1>4, <2>1, <2>2 DEF Shaped, Scans, Raises
<1>5. QED
  BY <1>3, <1>4, GateRaises

LEMMA VoteShaped ==
    ASSUME Typed, Shaped, Vote
    PROVE  Shaped'
<1>1. PICK i \in DOMAIN scan.faces, code \in Votes : Voted(i, code)
  BY VoteVotes, Zenon
<1>2. UNCHANGED <<recorded, crashes, spent>>
  BY DEF Vote
<1>3. TracksShaped(tracks')
  <2>1. PICK id, voted : id = scan.ids[i] /\ voted = Cast(tracks, id, code)
    OBVIOUS
  <2>2. TracksShaped(voted)
    BY <2>1, CastShaped DEF Shaped
  <2>3. TracksShaped(Publish(voted, id))
    BY <2>2, PublishShaped
  <2>4. QED
    BY <1>1, <2>1, <2>2, <2>3 DEF Voted
<1>4. scan' \in Scans
  <2>1. PICK hands : hands = Tail(scan.hands)
    OBVIOUS
  <2>2. scan.hands # <<>> /\ scan.hands \in Seq(Nat)
    BY DEF Vote, Typed, ScanTyped, Shaped, Scans
  <2>3. hands \in Seq(Nat)
    BY <2>1, <2>2, HeadTailProperties
  <2>4. scan' = [scan EXCEPT !.hands = hands]
    BY <1>1, <2>1 DEF Voted
  <2>5. QED
    BY <2>3, <2>4 DEF Shaped, Scans
<1>5. QED
  BY <1>2, <1>3, <1>4 DEF Shaped

LEMMA MarkShaped ==
    ASSUME Typed, Shaped, Mark
    PROVE  Shaped'
<1>1. UNCHANGED <<tracks, scan, crashes>>
  BY DEF Mark, tracker
<1>2. recorded' \in [DOMAIN recorded' -> Nat]
  <2>1. CASE recorded' = recorded
    BY <2>1 DEF Shaped
  <2>2. CASE recorded' = Recorded(Head(queue).code)
    BY <2>2 DEF Recorded, Shaped
  <2>3. QED
    BY <2>1, <2>2 DEF Mark
<1>3. spent' \in [scans : Nat, moves : Nat, failures : Nat, swaps : Nat]
  <2>1. \/ spent' = spent
        \/ \E n \in {spent.failures, spent.failures + 1} : spent' = [spent EXCEPT !.failures = n]
    BY DEF Mark, Shaped
  <2>2. spent.failures \in Nat /\ spent.failures + 1 \in Nat
    BY DEF Shaped
  <2>3. QED
    BY <2>1, <2>2 DEF Shaped
<1>4. QED
  BY <1>1, <1>2, <1>3 DEF Shaped

LEMMA ShapedStep ==
    ASSUME Typed, Shaped, Next
    PROVE  Shaped'
<1>1. ASSUME NEW p \in People, Leave(p) \/ \E s \in Spots : Move(p, s)
      PROVE  Shaped'
  BY <1>1 DEF Leave, Move, tracker, history, Shaped
<1>2. ASSUME SwapGallery
      PROVE  Shaped'
  <2>1. UNCHANGED <<scan, recorded, crashes>> /\ spent' = [spent EXCEPT !.swaps = @ + 1]
    BY <1>2 DEF SwapGallery
  <2>2. tracks' = tracks \/ tracks' = <<>>
    BY <1>2 DEF SwapGallery
  <2>3. DOMAIN <<>> = {}
    OBVIOUS
  <2>4. TracksShaped(tracks')
    BY <2>2, <2>3 DEF Shaped, TracksShaped
  <2>5. QED
    BY <2>1, <2>4 DEF Shaped
<1>3. ASSUME LoseTrack
      PROVE  Shaped'
  BY <1>3, FinishEnds, EndShaped DEF LoseTrack, Shaped
<1>4. ASSUME Retire
      PROVE  Shaped'
  <2>1. TracksShaped(Without(tracks, Expired(tracks)))
    BY WithoutShaped DEF Shaped
  <2>2. QED
    BY <1>4, <2>1, FinishEnds, EndShaped DEF Retire, Shaped
<1>5. QED
  BY <1>1, <1>2, <1>3, <1>4, DetectShaped, UpdateShaped, GateShaped, VoteShaped, MarkShaped,
     Zenon DEF Next

\* RecognitionProcess.tla: the types of the people, the tracker, the scan in flight, the
\* queue, the suppressor and the records of what was voted and reported, and that the
\* tracker holds only ids it gave out.
THEOREM TypeCorrect == Spec => []TypeOK
<1>1. Typed /\ Shaped => TypeOK
  <2> SUFFICES ASSUME Typed, Shaped
               PROVE  TypeOK
    OBVIOUS
  <2>1. \A i \in DOMAIN queue : queue[i].code \in Codes
    <3>1. ASSUME NEW i \in DOMAIN queue
          PROVE  queue[i].code \in Codes
      <4>1. queue[i] \in Ballots /\ queue[i].code # None
        BY <3>1, ElementOfSeq, LenProperties DEF Typed
      <4>2. QED
        BY <4>1 DEF Ballots, Votes
    <3>2. QED
      BY <3>1
  <2>2. QED
    BY <2>1 DEF Typed, Placed, Shaped, TracksShaped, TypeOK
<1>2. Shaped /\ UNCHANGED vars => Shaped'
  BY DEF vars, Shaped, TracksShaped
<1>3. QED
  BY <1>1, <1>2, InitTyped, InitShaped, TypedStep, TypedStutters, ShapedStep, PTL DEF Spec

-------------------------------------------------------------------------------
(* One track per face *)

\* No two faces are matched with one track, and what is matched is an id that
\* was given out.
Matching(match) ==
    /\ \A i, j \in DOMAIN match : match[i] = match[j] /\ match[i] # None => i = j
    /\ \A i \in DOMAIN match : match[i] # None => match[i] \in Nat /\ match[i] < nextId

\* The ids so far: those matched, or ids that are nobody's match.
Given(match, ids) ==
    \A i \in DOMAIN ids :
        \/ match[i] # None /\ ids[i] = match[i]
        \/ match[i] = None /\ \A j \in DOMAIN match : match[j] # None => ids[i] # match[j]

ScanSound ==
    /\ pc = "idle" => DOMAIN scan.ids = {}
    /\ pc = "assign" => /\ DOMAIN scan.match = DOMAIN scan.faces
                        /\ Matching(scan.match)
                        /\ Given(scan.match, scan.ids)
    /\ OneTrackPerFace
    /\ \A i \in DOMAIN scan.ids : scan.ids[i] < nextId

LEMMA NoScanSound ==
    ASSUME scan' = NoScan
    PROVE  ScanSound' \/ pc' = "assign"
<1>1. DOMAIN scan'.ids = {}
  BY DEF NoScan
<1>2. QED
  BY <1>1 DEF ScanSound, OneTrackPerFace

LEMMA SameIdsSound ==
    ASSUME ScanSound, scan'.ids = scan.ids, nextId' = nextId, pc' \in {"vote", "mark"}
    PROVE  ScanSound'
BY DEF ScanSound, OneTrackPerFace

LEMMA DetectSound ==
    ASSUME Typed, ScanSound, Detect
    PROVE  ScanSound'
<1>1. nextId' = nextId
  BY DEF Detect, tracker
<1>2. CASE UNCHANGED <<pc, scan>>
  BY <1>1, <1>2 DEF ScanSound, OneTrackPerFace, Matching, Given
<1>3. CASE Found
  <2>1. PICK faces, m :
          /\ faces \in Seq(Faces)
          /\ m \in [DOMAIN faces -> (DOMAIN tracks) \cup {None}]
          /\ GreedyMatch(m, BoxesOf(faces), tracks)
          /\ scan' = [NoScan EXCEPT !.faces = faces, !.match = m]
    BY <1>3, Zenon DEF Found
  <2>2. scan' = [faces |-> faces, match |-> m, ids |-> <<>>, hands |-> <<>>]
    BY <2>1 DEF NoScan
  <2>3. DOMAIN scan'.ids = {} /\ DOMAIN scan'.match = DOMAIN scan'.faces
    <3>1. DOMAIN <<>> = {} /\ DOMAIN m = DOMAIN faces
      BY <2>1
    <3>2. scan'.ids = <<>> /\ scan'.match = m /\ scan'.faces = faces
      BY <2>2
    <3>3. QED
      BY <3>1, <3>2
  <2>4. Matching(m)'
    <3>1. ASSUME NEW i \in DOMAIN m, NEW j \in DOMAIN m, m[i] = m[j], m[i] # None
          PROVE  i = j
      <4>1. \A p, q \in {<<k, m[k]>> : k \in {l \in DOMAIN m : m[l] # None}} :
              p[2] = q[2] => p = q
        BY <2>1, Zenon DEF GreedyMatch
      <4>2. <<i, m[i]>> = <<j, m[j]>>
        BY <3>1, <4>1
      <4>3. QED
        BY <4>2
    <3>2. ASSUME NEW i \in DOMAIN m, m[i] # None
          PROVE  m[i] \in Nat /\ m[i] < nextId
      BY <2>1, <3>2 DEF Typed, Placed
    <3>3. QED
      BY <1>1, <3>1, <3>2 DEF Matching
  <2>5. Matching(scan.match)'
    BY <2>2, <2>4 DEF Matching
  <2>6. Given(scan.match, scan.ids)'
    BY <2>3 DEF Given
  <2>7. pc' = "assign"
    BY <1>3 DEF Found
  <2>8. QED
    BY <2>3, <2>5, <2>6, <2>7 DEF ScanSound, OneTrackPerFace, Matching
<1>4. QED
  BY <1>2, <1>3, DetectFinds

\* The next face gets an id no face of this scan has or is matched with.
LEMMA AssignSound ==
    ASSUME Typed, ScanSound, Assigning, NEW id \in Nat, scan' = Assigned(id), pc' = pc,
           nextId' \in Nat, nextId <= nextId', id < nextId',
           \/ Matched # None /\ id = Matched
           \/ Matched = None /\ id = nextId
    PROVE  ScanSound'
<1>1. PICK ids : ids = Append(scan.ids, id)
  OBVIOUS
<1>2. PICK n : n = Len(scan.ids)
  OBVIOUS
<1>3. PICK match, old : match = scan.match /\ old = scan.ids
  OBVIOUS
<1>4. /\ n \in Nat /\ DOMAIN old = 1 .. n /\ DOMAIN ids = 1 .. n + 1
      /\ \A i \in 1 .. n : ids[i] = old[i] /\ old[i] \in Nat
      /\ ids[n + 1] = id
  <2>1. old \in Seq(Nat) /\ ids = Append(old, id) /\ n = Len(old)
    BY <1>1, <1>2, <1>3 DEF Typed, ScanTyped
  <2>2. n \in Nat /\ DOMAIN old = 1 .. n /\ \A i \in 1 .. n : old[i] \in Nat
    BY <2>1, LenProperties, ElementOfSeq
  <2>3. Len(ids) = n + 1 /\ ids \in Seq(Nat) /\ \A i \in 1 .. n : ids[i] = old[i]
    BY <2>1, <2>2, AppendProperties
  <2>4. ids[n + 1] = id
    BY <2>1, AppendProperties
  <2>5. QED
    BY <2>2, <2>3, <2>4, LenProperties
<1>5. scan'.ids = ids /\ scan'.match = match /\ scan'.faces = scan.faces
  BY <1>1, <1>3 DEF Assigned, Typed, ScanTyped
<1>6. n + 1 \in DOMAIN match /\ Matched = match[n + 1]
  <2>1. DOMAIN scan.faces = 1 .. Len(scan.faces) /\ Len(scan.faces) \in Nat
    BY LenProperties DEF Typed, ScanTyped
  <2>2. DOMAIN match = DOMAIN scan.faces /\ n < Len(scan.faces)
    BY <1>2, <1>3 DEF Assigning, ScanSound
  <2>3. QED
    BY <1>2, <1>3, <1>4, <2>1, <2>2 DEF Matched, NextFace
<1>7. Matching(match) /\ Given(match, old)
  BY <1>3 DEF ScanSound, Assigning
<1>8. /\ \A i, j \in 1 .. n : old[i] = old[j] => i = j
      /\ \A i \in 1 .. n : old[i] < nextId
      /\ nextId \in Nat
  BY <1>3, <1>4 DEF ScanSound, OneTrackPerFace, Typed, Placed
<1>9. \A i \in 1 .. n : old[i] # id
  <2>1. CASE Matched # None /\ id = Matched
    <3> SUFFICES ASSUME NEW i \in 1 .. n, old[i] = id
                 PROVE  FALSE
      OBVIOUS
    <3>1. i \in DOMAIN match
      <4>1. DOMAIN match = 1 .. Len(scan.faces) /\ Len(scan.faces) \in Nat
        BY <1>3, LenProperties DEF Typed, ScanTyped, ScanSound, Assigning
      <4>2. QED
        BY <1>4, <1>6, <4>1
    <3>2. CASE match[i] # None /\ old[i] = match[i]
      <4>1. i = n + 1
        BY <1>6, <1>7, <2>1, <3>1, <3>2 DEF Matching
      <4>2. QED
        BY <1>4, <4>1
    <3>3. CASE \A j \in DOMAIN match : match[j] # None => old[i] # match[j]
      BY <1>6, <2>1, <3>3
    <3>4. QED
      BY <1>4, <1>7, <3>2, <3>3 DEF Given
  <2>2. CASE id = nextId
    BY <1>4, <1>8, <2>2
  <2>3. QED
    BY <2>1, <2>2
<1>10. Matching(match)'
  <2>1. Matching(match)
    BY <1>7
  <2>2. QED
    BY <1>8, <2>1 DEF Matching
<1>11. Given(match, ids)
  <2> SUFFICES ASSUME NEW i \in 1 .. n + 1
               PROVE  \/ match[i] # None /\ ids[i] = match[i]
                      \/ /\ match[i] = None
                         /\ \A j \in DOMAIN match : match[j] # None => ids[i] # match[j]
    BY <1>4 DEF Given
  <2>1. CASE i \in 1 .. n
    <3>1. ids[i] = old[i]
      BY <1>4, <2>1
    <3>2. QED
      BY <1>4, <1>7, <2>1, <3>1 DEF Given
  <2>2. CASE i = n + 1 /\ match[n + 1] # None
    BY <1>4, <1>6, <2>2
  <2>3. CASE i = n + 1 /\ match[n + 1] = None
    <3>1. \A j \in DOMAIN match : match[j] # None => match[j] # nextId
      BY <1>7, <1>8 DEF Matching
    <3>2. ids[i] = nextId
      BY <1>4, <1>6, <2>3
    <3>3. QED
      BY <2>3, <3>1, <3>2
  <2>4. QED
    BY <1>4, <2>1, <2>2, <2>3
<1>12. \A i, j \in DOMAIN ids : ids[i] = ids[j] => i = j
  BY <1>4, <1>8, <1>9
<1>13. \A i \in DOMAIN ids : ids[i] < nextId'
  BY <1>4, <1>8
<1>14. pc' = "assign" /\ DOMAIN match = DOMAIN scan.faces
  BY <1>3 DEF Assigning, ScanSound
<1>15. Matching(scan.match)'
  BY <1>5, <1>10 DEF Matching
<1>16. QED
  BY <1>5, <1>11, <1>12, <1>13, <1>14, <1>15 DEF ScanSound, OneTrackPerFace, Given, Matching

LEMMA SoundStep ==
    ASSUME Typed, ScanSound, Next
    PROVE  ScanSound'
<1>1. ASSUME NEW p \in People, Leave(p) \/ \E s \in Spots : Move(p, s)
      PROVE  ScanSound'
  <2>1. UNCHANGED <<nextId, pc, scan>>
    BY <1>1, Zenon DEF Leave, Move, tracker
  <2>2. QED
    BY <2>1 DEF ScanSound, OneTrackPerFace, Matching, Given
<1>2. ASSUME SwapGallery
      PROVE  ScanSound'
  <2>1. pc' = pc /\ scan' = scan
    BY <1>2 DEF SwapGallery
  <2>2. CASE pc = "idle"
    BY <2>1, <2>2 DEF ScanSound, OneTrackPerFace
  <2>3. CASE pc # "idle"
    <3>1. nextId' = nextId
      BY <1>2, <2>3 DEF SwapGallery
    <3>2. QED
      BY <2>1, <3>1 DEF ScanSound, OneTrackPerFace, Matching, Given
  <2>4. QED
    BY <2>2, <2>3
<1>3. ASSUME NEW left, Ends(left)
      PROVE  ScanSound'
  <2>1. scan' = NoScan /\ pc' # "assign"
    BY <1>3 DEF Ends
  <2>2. QED
    BY <2>1, NoScanSound
<1>4. ASSUME LoseTrack \/ Retire
      PROVE  ScanSound'
  BY <1>3, <1>4, FinishEnds DEF LoseTrack, Retire
<1>5. ASSUME ContinueTrack
      PROVE  ScanSound'
  <2>1. Matched \in DOMAIN tracks /\ DOMAIN tracks \subseteq 1 .. nextId - 1 /\ nextId \in Nat
    BY <1>5 DEF ContinueTrack, Typed, Placed
  <2>2. Matched \in Nat /\ Matched < nextId
    BY <2>1
  <2>3. Assigning /\ scan' = Assigned(Matched) /\ pc' = pc /\ nextId' = nextId /\ Matched # None
    BY <1>5 DEF ContinueTrack
  <2>4. QED
    BY <2>1, <2>2, <2>3, AssignSound
<1>6. ASSUME OpenTrack
      PROVE  ScanSound'
  <2>1. nextId \in Nat
    BY DEF Typed, Placed
  <2>2. Assigning /\ scan' = Assigned(nextId) /\ pc' = pc /\ nextId' = nextId + 1 /\ Matched = None
    BY <1>6 DEF OpenTrack
  <2>3. QED
    BY <2>1, <2>2, AssignSound
<1>7. ASSUME Gate
      PROVE  ScanSound'
  <2>1. CASE Raises
    <3>1. scan'.ids = scan.ids
      BY <2>1 DEF Raises, Typed, ScanTyped
    <3>2. nextId' = nextId /\ pc' = "vote"
      BY <2>1 DEF Raises
    <3>3. QED
      BY <3>1, <3>2, SameIdsSound
  <2>2. QED
    BY <1>3, <1>7, <2>1, GateRaises
<1>8. ASSUME Vote
      PROVE  ScanSound'
  <2>1. scan'.ids = scan.ids /\ nextId' = nextId /\ pc' \in {"vote", "mark"}
    BY <1>8 DEF Vote, Typed, ScanTyped
  <2>2. QED
    BY <2>1, SameIdsSound
<1>9. ASSUME Mark
      PROVE  ScanSound'
  <2>1. scan'.ids = scan.ids /\ nextId' = nextId /\ pc' = "mark"
    BY <1>9 DEF Mark, tracker
  <2>2. QED
    BY <2>1, SameIdsSound
<1>10. QED
  BY <1>1, <1>2, <1>4, <1>5, <1>6, <1>7, <1>8, <1>9, DetectSound, Zenon DEF Next

LEMMA SoundStutters ==
    ASSUME ScanSound, UNCHANGED vars
    PROVE  ScanSound'
BY DEF vars, ScanSound, OneTrackPerFace, Matching, Given

LEMMA InitSound ==
    ASSUME Init
    PROVE  ScanSound
<1>1. pc = "idle" /\ DOMAIN scan.ids = {}
  BY DEF Init, NoScan
<1>2. QED
  BY <1>1 DEF ScanSound, OneTrackPerFace

\* tracker.py update: two faces of one scan are never given the same track,
\* however the boxes, the tracks and their eviction fall.
THEOREM FacesApart == Spec => []OneTrackPerFace
<1>1. ScanSound => OneTrackPerFace
  BY DEF ScanSound
<1>2. QED
  BY <1>1, InitTyped, InitSound, TypedStep, TypedStutters, SoundStep, SoundStutters, PTL DEF Spec

-------------------------------------------------------------------------------
(* One punch per track *)

\* A step that is not a vote: the same tracker, whose tracks keep their votes and
\* their word, with a silent one more or some fewer; or a new tracker, empty.
Moves ==
    /\ cast' = cast
    /\ \/ /\ gen' = gen /\ nextId' \in Nat /\ nextId <= nextId'
          /\ \A t \in DOMAIN tracks' :
                \/ /\ t \in DOMAIN tracks
                   /\ tracks'[t].votes = tracks[t].votes
                   /\ tracks'[t].published = tracks[t].published
                \/ t = nextId /\ t < nextId' /\ tracks'[t].votes = <<>>
       \/ gen' = gen + 1 /\ DOMAIN tracks' = {}

LEMMA KeepsMoves ==
    ASSUME Typed, Keeps(tracks, tracks'), UNCHANGED <<gen, nextId, cast>>
    PROVE  Moves
BY DEF Moves, Keeps, Typed, Placed

LEMMA EndsMoves ==
    ASSUME Typed, NEW left, Keeps(tracks, left), Ends(left), UNCHANGED cast
    PROVE  Moves
<1>1. CASE tracks' = left /\ nextId' = nextId /\ gen' = gen
  BY <1>1, KeepsMoves
<1>2. CASE tracks' = <<>> /\ gen' = gen + 1
  <2>1. DOMAIN tracks' = {}
    BY <1>2
  <2>2. QED
    BY <1>2, <2>1 DEF Moves
<1>3. QED
  BY <1>1, <1>2 DEF Ends

LEMMA StepMoves ==
    ASSUME Typed, Next, ~Vote
    PROVE  Moves
<1>1. Keeps(tracks, tracks)
  BY DEF Keeps, Typed, TracksTyped
<1>2. ASSUME UNCHANGED <<tracks, nextId, gen, cast>>
      PROVE  Moves
  BY <1>1, <1>2, KeepsMoves
<1>3. ASSUME NEW p \in People, Leave(p) \/ \E s \in Spots : Move(p, s)
      PROVE  Moves
  BY <1>2, <1>3, Zenon DEF Leave, Move, tracker, history
<1>4. ASSUME SwapGallery
      PROVE  Moves
  <2>1. cast' = cast
    BY <1>4 DEF SwapGallery
  <2>2. CASE UNCHANGED <<tracks, nextId, gen>>
    BY <1>2, <2>1, <2>2
  <2>3. CASE tracks' = <<>> /\ gen' = gen + 1
    <3>1. DOMAIN tracks' = {}
      BY <2>3
    <3>2. QED
      BY <2>1, <2>3, <3>1 DEF Moves
  <2>4. QED
    BY <1>4, <2>2, <2>3 DEF SwapGallery
<1>5. ASSUME Detect \/ Mark
      PROVE  Moves
  BY <1>2, <1>5 DEF Detect, Mark, tracker, history
<1>6. ASSUME LoseTrack
      PROVE  Moves
  BY <1>1, <1>6, FinishEnds, EndsMoves DEF LoseTrack
<1>7. ASSUME Retire
      PROVE  Moves
  <2>1. PICK left : left = Without(tracks, Expired(tracks))
    OBVIOUS
  <2>2. Keeps(tracks, left)
    BY <2>1, WithoutKeeps DEF Typed
  <2>3. QED
    BY <1>7, <2>1, <2>2, FinishEnds, EndsMoves DEF Retire
<1>8. ASSUME Gate
      PROVE  Moves
  <2>1. PICK aged : aged = Aged(tracks, Range(scan.ids))
    OBVIOUS
  <2>2. Keeps(tracks, aged)
    BY <2>1, AgedKeeps DEF Typed
  <2>3. cast' = cast
    BY <1>8 DEF Gate
  <2>4. Raises => Moves
    BY <2>1, <2>2, <2>3, KeepsMoves DEF Raises
  <2>5. QED
    BY <1>8, <2>1, <2>2, <2>3, <2>4, GateRaises, EndsMoves
<1>9. ASSUME ContinueTrack
      PROVE  Moves
  <2>1. Keeps(tracks, tracks')
    BY <1>9, SeenKeeps DEF ContinueTrack, Typed
  <2>2. QED
    BY <1>9, <2>1, KeepsMoves DEF ContinueTrack, history
<1>10. ASSUME OpenTrack
       PROVE  Moves
  <2>1. PICK new, box : new = Open(tracks, nextId, box) /\ tracks' = new
    BY <1>10 DEF OpenTrack
  <2>2. Opened(tracks, nextId, new)
    BY <2>1, OpenKeeps DEF Typed
  <2>3. nextId \in Nat /\ nextId' = nextId + 1 /\ cast' = cast /\ gen' = gen
    BY <1>10 DEF OpenTrack, history, Typed, Placed
  <2>4. \A t \in DOMAIN new :
          \/ /\ t \in DOMAIN tracks
             /\ new[t].votes = tracks[t].votes
             /\ new[t].published = tracks[t].published
          \/ t = nextId /\ new[t].votes = <<>>
    BY <2>2, Zenon DEF Opened
  <2>5. QED
    BY <2>1, <2>3, <2>4 DEF Moves
<1>11. QED
  BY <1>3, <1>4, <1>5, <1>6, <1>7, <1>8, <1>9, <1>10, Zenon DEF Next

\* This track has given its one word, or is gone for good: ids and trackers are
\* never used again.
Spoken(tr) ==
    /\ tr[1] <= gen
    /\ tr[1] = gen => /\ tr[2] < nextId
                      /\ tr[2] \in DOMAIN tracks => tracks[tr[2]].published = TRUE

LEMMA SpokenStays ==
    ASSUME Typed, Moves, NEW tr \in Nat \X Nat, Spoken(tr)
    PROVE  Spoken(tr)'
<1>1. gen \in Nat /\ nextId \in Nat
  BY DEF Typed, Placed
<1>2. CASE gen' = gen + 1
  BY <1>1, <1>2 DEF Spoken
<1>3. CASE /\ gen' = gen /\ nextId' \in Nat /\ nextId <= nextId'
           /\ \A t \in DOMAIN tracks' :
                 \/ /\ t \in DOMAIN tracks
                    /\ tracks'[t].votes = tracks[t].votes
                    /\ tracks'[t].published = tracks[t].published
                 \/ t = nextId /\ t < nextId' /\ tracks'[t].votes = <<>>
  BY <1>1, <1>3 DEF Spoken
<1>4. QED
  BY <1>2, <1>3 DEF Moves

OncePunched ==
    /\ \A i, j \in DOMAIN queue : queue[i].track = queue[j].track => i = j
    /\ OnePunchPerTrack
    /\ \A i \in DOMAIN queue, j \in DOMAIN reports : queue[i].track # reports[j].event.track
    /\ \A i \in DOMAIN queue : Spoken(queue[i].track)
    /\ \A j \in DOMAIN reports : Spoken(reports[j].event.track)

LEMMA EventTracks ==
    ASSUME Typed
    PROVE  /\ \A i \in DOMAIN queue : queue[i] \in Ballots /\ queue[i].track \in Nat \X Nat
           /\ \A j \in DOMAIN reports : reports[j].event \in Ballots
                                        /\ reports[j].event.track \in Nat \X Nat
<1>1. ASSUME NEW i \in DOMAIN queue
      PROVE  queue[i] \in Ballots
  BY ElementOfSeq, LenProperties DEF Typed
<1>2. ASSUME NEW j \in DOMAIN reports
      PROVE  reports[j] \in Punches
  BY ElementOfSeq, LenProperties DEF Typed
<1>3. QED
  BY <1>1, <1>2 DEF Ballots, Punches

\* Nothing is added to the queue or to the reports, and what is dropped is dropped
\* from the queue.
LEMMA FewerPunched ==
    ASSUME Typed, OncePunched, Moves, reports' = reports, queue' = queue \/ queue' = <<>>
    PROVE  OncePunched'
<1>1. \A j \in DOMAIN reports : Spoken(reports[j].event.track)'
  BY EventTracks, SpokenStays, Zenon DEF OncePunched
<1>2. CASE queue' = queue
  <2>1. \A i \in DOMAIN queue : Spoken(queue[i].track)'
    BY <1>2, EventTracks, SpokenStays, Zenon DEF OncePunched
  <2>2. QED
    BY <1>1, <1>2, <2>1, Zenon DEF OncePunched, OnePunchPerTrack
<1>3. CASE queue' = <<>>
  <2>1. DOMAIN queue' = {}
    BY <1>3
  <2>2. QED
    BY <1>1, <2>1, Zenon DEF OncePunched, OnePunchPerTrack
<1>4. QED
  BY <1>2, <1>3

LEMMA MarkReports ==
    ASSUME Mark
    PROVE  \/ reports' = reports
           \/ \E punch : punch.event = Head(queue) /\ reports' = Append(reports, punch)
<1>1. reports' = reports \/ \E ok \in BOOLEAN :
        reports' = Append(reports, [event |-> Head(queue), ok |-> ok, at |-> spent.scans])
  BY Zenon DEF Mark
<1>2. \A ok \in BOOLEAN : [event |-> Head(queue), ok |-> ok, at |-> spent.scans].event = Head(queue)
  OBVIOUS
<1>3. QED
  BY <1>1, <1>2, Zenon

LEMMA StillReports ==
    ASSUME Typed, Next, ~Vote, ~Mark
    PROVE  reports' = reports /\ (queue' = queue \/ queue' = <<>>)
<1>1. ASSUME NEW left, Finish(left)
      PROVE  queue' = <<>>
  BY <1>1 DEF Finish
<1>2. LoseTrack \/ Retire => reports' = reports /\ queue' = <<>>
  BY <1>1 DEF LoseTrack, Retire
<1>3. Gate => reports' = reports /\ (queue' = queue \/ queue' = <<>>)
  BY <1>1, GateRaises, Zenon DEF Gate, Ends, Raises
<1>4. QED
  BY <1>2, <1>3, Zenon
     DEF Next, Leave, Move, SwapGallery, Detect, ContinueTrack, OpenTrack, history

\* The first event leaves the queue, for the reports or for nothing.
LEMMA MarkPunched ==
    ASSUME Typed, OncePunched, Mark
    PROVE  OncePunched'
<1>1. Moves
  <2>1. ~Vote
    BY DEF Mark, Vote
  <2>2. QED
    BY <2>1, StepMoves DEF Next
<1>2. PICK tail, event : tail = Tail(queue) /\ event = Head(queue)
  OBVIOUS
<1>3. queue' = tail
  BY <1>2 DEF Mark
<1>4. /\ 1 \in DOMAIN queue /\ event = queue[1]
      /\ \A i \in DOMAIN tail : i \in Nat \ {0} /\ i + 1 \in DOMAIN queue /\ tail[i] = queue[i + 1]
  <2>1. queue # <<>> /\ queue \in Seq(Ballots)
    BY DEF Mark, Typed
  <2>2. QED
    BY <1>2, <2>1, HeadTailProperties, LenProperties
<1>4a. PICK q, r : q = queue /\ r = reports
  OBVIOUS
<1>5. /\ \A i \in DOMAIN q : Spoken(q[i].track)'
      /\ \A j \in DOMAIN r : Spoken(r[j].event.track)'
  <2>1. \A tr \in Nat \X Nat : Spoken(tr) => Spoken(tr)'
    BY <1>1, SpokenStays
  <2>2. /\ \A i \in DOMAIN q : q[i].track \in Nat \X Nat /\ Spoken(q[i].track)
        /\ \A j \in DOMAIN r : r[j].event.track \in Nat \X Nat /\ Spoken(r[j].event.track)
    BY <1>4a, EventTracks DEF OncePunched
  <2>3. QED
    BY <2>1, <2>2, Zenon
<1>6. /\ \A i, j \in DOMAIN tail : tail[i].track = tail[j].track => i = j
      /\ \A i \in DOMAIN tail : tail[i].track # event.track
  BY <1>4 DEF OncePunched
<1>7. \A i \in DOMAIN tail, j \in DOMAIN reports : tail[i].track # reports[j].event.track
  BY <1>4 DEF OncePunched
<1>8. \A i \in DOMAIN tail : Spoken(tail[i].track)'
  <2>1. \A i \in DOMAIN tail : \E k \in DOMAIN q : tail[i] = q[k]
    BY <1>4, <1>4a
  <2>2. QED
    BY <1>5, <2>1, Zenon
<1>9. CASE reports' = reports
  BY <1>3, <1>4a, <1>5, <1>6, <1>7, <1>8, <1>9, Zenon DEF OncePunched, OnePunchPerTrack
<1>10. CASE \E punch : punch.event = event /\ reports' = Append(reports, punch)
  <2>1. PICK punch, new : punch.event = event /\ new = Append(reports, punch) /\ reports' = new
    BY <1>10
  <2>2. PICK n : n = Len(reports)
    OBVIOUS
  <2>3. /\ n \in Nat /\ DOMAIN reports = 1 .. n /\ DOMAIN new = 1 .. n + 1
        /\ \A j \in 1 .. n : new[j] = reports[j]
        /\ new[n + 1] = punch
    <3>1. reports \in Seq(Punches)
      BY DEF Typed
    <3>2. n \in Nat /\ DOMAIN reports = 1 .. n
      BY <2>2, <3>1, LenProperties
    <3>3. QED
      BY <2>1, <2>2, <3>1, <3>2
  <2>4. \A j \in DOMAIN reports : reports[j].event.track # event.track
    BY <1>4, Zenon DEF OncePunched
  <2>5. \A i, j \in DOMAIN new : new[i].event.track = new[j].event.track => i = j
    <3>1. \A i, j \in 1 .. n : reports[i].event.track = reports[j].event.track => i = j
      BY <2>3 DEF OncePunched, OnePunchPerTrack
    <3>2. QED
      BY <2>1, <2>3, <2>4, <3>1
  <2>6. \A i \in DOMAIN tail, j \in DOMAIN new : tail[i].track # new[j].event.track
    BY <1>6, <1>7, <2>1, <2>3
  <2>7. \A j \in DOMAIN new : Spoken(new[j].event.track)'
    <3>1. Spoken(event.track)'
      BY <1>4, <1>4a, <1>5, Zenon
    <3>2. ASSUME NEW j \in DOMAIN new
          PROVE  Spoken(new[j].event.track)'
      <4>1. (j \in DOMAIN r /\ new[j] = r[j]) \/ new[j] = punch
        BY <1>4a, <2>3
      <4>2. QED
        BY <1>5, <2>1, <3>1, <4>1, Zenon
    <3>3. QED
      BY <3>2
  <2>8. QED
    BY <1>3, <1>6, <1>8, <2>1, <2>5, <2>6, <2>7, Zenon DEF OncePunched, OnePunchPerTrack
<1>11. reports' = reports \/ \E punch : punch.event = event /\ reports' = Append(reports, punch)
  BY <1>2, MarkReports
<1>12. QED
  BY <1>9, <1>10, <1>11

\* A confirmed track had said nothing before.
LEMMA VotePunched ==
    ASSUME Typed, OncePunched, Vote
    PROVE  OncePunched'
<1>1. PICK i \in DOMAIN scan.faces, code \in Votes :
        i \in DOMAIN scan.ids /\ Ballot(i, code) \in Ballots /\ Voted(i, code)
  BY VoteVotes, Zenon
<1>2. PICK id, ballot : id = scan.ids[i] /\ ballot = Ballot(i, code)
  OBVIOUS
<1>3. UNCHANGED <<nextId, gen, reports>> /\ gen \in Nat /\ nextId \in Nat
  BY DEF Vote, Typed, Placed
<1>4. PICK voted : voted = Cast(tracks, id, code)
  OBVIOUS
<1>5. TracksTyped(voted) /\ DOMAIN voted = DOMAIN tracks
      /\ \A t \in DOMAIN tracks : voted[t].published = tracks[t].published
  BY <1>4, CastTracks DEF Typed
<1>6. CASE tracks' = voted /\ queue' = queue
  <2>1. ASSUME NEW tr \in Nat \X Nat, Spoken(tr)
        PROVE  Spoken(tr)'
    BY <1>3, <1>5, <1>6, <2>1 DEF Spoken
  <2>2. QED
    BY <1>3, <1>6, <2>1, EventTracks, Zenon DEF OncePunched, OnePunchPerTrack
<1>7. CASE /\ Confirms(tracks, id, code)
           /\ tracks' = Publish(voted, id) /\ queue' = Append(queue, ballot)
  <2>1. id \in DOMAIN tracks /\ ~tracks[id].published
    BY <1>7 DEF Confirms
  <2>2. id < nextId /\ id \in Nat
    BY <2>1 DEF Typed, Placed
  <2>3. /\ tracks'[id].published = TRUE /\ DOMAIN tracks' = DOMAIN tracks
        /\ \A t \in DOMAIN tracks : t # id => tracks'[t].published = tracks[t].published
    <3>1. PICK new : new = Publish(voted, id)
      OBVIOUS
    <3>2. /\ DOMAIN new = DOMAIN voted /\ new[id].published = TRUE
          /\ \A t \in DOMAIN voted : t # id => new[t].published = voted[t].published
      BY <1>5, <2>1, <3>1, PublishTracks
    <3>3. QED
      BY <1>5, <1>7, <3>1, <3>2
  <2>4. ballot.track = <<gen, id>>
    BY <1>2 DEF Ballot
  <2>5. ~Spoken(ballot.track)
    BY <1>3, <2>1, <2>4 DEF Spoken
  <2>6. Spoken(ballot.track)'
    BY <1>3, <2>2, <2>3, <2>4 DEF Spoken
  <2>7. ASSUME NEW tr \in Nat \X Nat, Spoken(tr)
        PROVE  Spoken(tr)'
    BY <1>3, <2>3, <2>7 DEF Spoken
  <2>7a. PICK q, r : q = queue /\ r = reports
    OBVIOUS
  <2>8. /\ \A k \in DOMAIN q : q[k].track # ballot.track /\ Spoken(q[k].track)'
        /\ \A j \in DOMAIN r : r[j].event.track # ballot.track /\ Spoken(r[j].event.track)'
    <3>1. /\ \A k \in DOMAIN q : q[k].track \in Nat \X Nat /\ Spoken(q[k].track)
          /\ \A j \in DOMAIN r : r[j].event.track \in Nat \X Nat /\ Spoken(r[j].event.track)
      BY <2>7a, EventTracks DEF OncePunched
    <3>2. QED
      BY <2>5, <2>7, <3>1, Zenon
  <2>9. PICK new, n : new = Append(queue, ballot) /\ n = Len(queue)
    OBVIOUS
  <2>10. /\ n \in Nat /\ DOMAIN queue = 1 .. n /\ DOMAIN new = 1 .. n + 1
         /\ \A k \in 1 .. n : new[k] = queue[k]
         /\ new[n + 1] = ballot
    <3>1. queue \in Seq(Ballots)
      BY DEF Typed
    <3>2. n \in Nat /\ DOMAIN queue = 1 .. n
      BY <2>9, <3>1, LenProperties
    <3>3. QED
      BY <2>9, <3>1, <3>2
  <2>11. \A k, l \in DOMAIN new : new[k].track = new[l].track => k = l
    <3>1. \A k, l \in 1 .. n : queue[k].track = queue[l].track => k = l
      BY <2>10 DEF OncePunched
    <3>2. QED
      BY <2>7a, <2>8, <2>10, <3>1
  <2>12. \A k \in DOMAIN new : (k \in DOMAIN q /\ new[k] = q[k]) \/ new[k] = ballot
    BY <2>7a, <2>10
  <2>13. \A k \in DOMAIN new, j \in DOMAIN reports : new[k].track # reports[j].event.track
    BY <2>7a, <2>8, <2>12, Zenon DEF OncePunched
  <2>14. \A k \in DOMAIN new : Spoken(new[k].track)'
    BY <2>6, <2>8, <2>12, Zenon
  <2>15. queue' = new /\ reports' = reports
    BY <1>3, <1>7, <2>9
  <2>16. QED
    BY <2>7a, <2>8, <2>11, <2>13, <2>14, <2>15, Zenon DEF OncePunched, OnePunchPerTrack
<1>8. QED
  BY <1>1, <1>2, <1>4, <1>6, <1>7 DEF Voted

LEMMA PunchedStep ==
    ASSUME Typed, OncePunched, Next
    PROVE  OncePunched'
<1>1. CASE Vote
  BY <1>1, VotePunched
<1>2. CASE Mark
  BY <1>2, MarkPunched
<1>3. CASE ~Vote /\ ~Mark
  BY <1>3, StillReports, StepMoves, FewerPunched
<1>4. QED
  BY <1>1, <1>2, <1>3

LEMMA PunchedStutters ==
    ASSUME OncePunched, UNCHANGED vars
    PROVE  OncePunched'
BY DEF vars, OncePunched, OnePunchPerTrack, Spoken

LEMMA InitPunched ==
    ASSUME Init
    PROVE  OncePunched
<1>1. DOMAIN queue = {} /\ DOMAIN reports = {}
  BY DEF Init
<1>2. QED
  BY <1>1, Zenon DEF OncePunched, OnePunchPerTrack

\* tracker.py vote, "Returns a code exactly once per track": no track is reported
\* twice, over any number of scans, retries, evictions and gallery swaps.
THEOREM TracksPunchOnce == Spec => []OnePunchPerTrack
<1>1. OncePunched => OnePunchPerTrack
  BY DEF OncePunched
<1>2. QED
  BY <1>1, InitTyped, InitPunched, TypedStep, TypedStutters, PunchedStep, PunchedStutters,
     PTL DEF Spec

-------------------------------------------------------------------------------
(* The ballots *)

\* f tells where among the ballots bs the votes v of the track tr were cast: all
\* of the track's ballots, in the order of the scans, never two in one scan.
Follows(bs, v, tr, f) ==
    /\ f \in [DOMAIN v -> DOMAIN bs]
    /\ \A k \in DOMAIN v : bs[f[k]].track = tr /\ bs[f[k]].code = v[k]
    /\ \A k, l \in DOMAIN v : k < l => bs[f[k]].scan < bs[f[l]].scan
    /\ \A n \in DOMAIN bs : bs[n].track = tr => \E k \in DOMAIN v : f[k] = n

Followed(bs, v, tr) == \E f : Follows(bs, v, tr, f)

LEMMA NothingFollowed ==
    ASSUME NEW bs, NEW v, v = <<>>, NEW tr, \A n \in DOMAIN bs : bs[n].track # tr
    PROVE  Followed(bs, v, tr)
<1>1. DOMAIN v = {}
  OBVIOUS
<1>2. PICK f : f = [k \in {} |-> 0]
  OBVIOUS
<1>3. f \in [DOMAIN v -> DOMAIN bs]
  BY <1>1, <1>2
<1>4. Follows(bs, v, tr, f)
  BY <1>1, <1>3 DEF Follows
<1>5. QED
  BY <1>4 DEF Followed

\* A ballot of another track.
LEMMA OtherFollowed ==
    ASSUME NEW bs \in Seq(Ballots), NEW b \in Ballots, NEW v, NEW tr, Followed(bs, v, tr),
           b.track # tr
    PROVE  Followed(Append(bs, b), v, tr)
<1>1. PICK f : Follows(bs, v, tr, f)
  BY DEF Followed
<1>2. PICK new, n : new = Append(bs, b) /\ n = Len(bs)
  OBVIOUS
<1>3. /\ n \in Nat /\ DOMAIN bs = 1 .. n /\ DOMAIN new = 1 .. n + 1
      /\ \A k \in 1 .. n : new[k] = bs[k]
      /\ new[n + 1] = b
  BY <1>2, LenProperties
<1>4. Follows(new, v, tr, f)
  <2>1. f \in [DOMAIN v -> DOMAIN new] /\ \A k \in DOMAIN v : new[f[k]] = bs[f[k]]
    BY <1>1, <1>3 DEF Follows
  <2>2. \A k \in DOMAIN new : new[k].track = tr => k \in DOMAIN bs /\ bs[k].track = tr
    BY <1>3
  <2>3. QED
    BY <1>1, <2>1, <2>2 DEF Follows
<1>5. QED
  BY <1>2, <1>4 DEF Followed

\* A ballot of the track itself, in a later scan than all of its ballots.
LEMMA VoteFollowed ==
    ASSUME NEW bs \in Seq(Ballots), NEW b \in Ballots, NEW v \in Seq(Votes), NEW tr,
           Followed(bs, v, tr), b.track = tr,
           \A n \in DOMAIN bs : bs[n].track = tr => bs[n].scan < b.scan
    PROVE  Followed(Append(bs, b), Append(v, b.code), tr)
<1>1. PICK f : Follows(bs, v, tr, f)
  BY DEF Followed
<1>2. PICK new, n, w, m : new = Append(bs, b) /\ n = Len(bs) /\ w = Append(v, b.code) /\ m = Len(v)
  OBVIOUS
<1>3. /\ n \in Nat /\ DOMAIN bs = 1 .. n /\ DOMAIN new = 1 .. n + 1
      /\ \A k \in 1 .. n : new[k] = bs[k]
      /\ new[n + 1] = b
  BY <1>2, LenProperties
<1>4. /\ m \in Nat /\ DOMAIN v = 1 .. m /\ DOMAIN w = 1 .. m + 1
      /\ \A k \in 1 .. m : w[k] = v[k]
      /\ w[m + 1] = b.code
  BY <1>2, LenProperties
<1>5. PICK g : g = [k \in 1 .. m + 1 |-> IF k = m + 1 THEN n + 1 ELSE f[k]]
  OBVIOUS
<1>6. \A k \in 1 .. m : k # m + 1 /\ k \in 1 .. m + 1
  BY <1>4
<1>7. g[m + 1] = n + 1 /\ \A k \in 1 .. m : g[k] = f[k] /\ f[k] \in 1 .. n
  BY <1>1, <1>3, <1>4, <1>5, <1>6 DEF Follows
<1>8. /\ new[g[m + 1]] = b
      /\ \A k \in 1 .. m : new[g[k]] = bs[f[k]]
  BY <1>3, <1>7
<1>9. g \in [DOMAIN w -> DOMAIN new]
  <2>1. \A k \in 1 .. m : g[k] \in 1 .. n + 1
    BY <1>3, <1>7
  <2>2. \A k \in 1 .. m + 1 : g[k] \in 1 .. n + 1
    <3>1. \A k \in 1 .. m + 1 : k \in 1 .. m \/ k = m + 1
      BY <1>4
    <3>2. n + 1 \in 1 .. n + 1
      BY <1>3
    <3>3. QED
      BY <1>7, <2>1, <3>1, <3>2, Zenon
  <2>3. DOMAIN g = 1 .. m + 1 /\ g = [k \in DOMAIN g |-> g[k]]
    BY <1>5
  <2>4. QED
    BY <1>3, <1>4, <2>2, <2>3
<1>10. \A k \in DOMAIN w : new[g[k]].track = tr /\ new[g[k]].code = w[k]
  <2>1. \A k \in 1 .. m : bs[f[k]].track = tr /\ bs[f[k]].code = v[k]
    BY <1>1, <1>4 DEF Follows
  <2>2. QED
    BY <1>4, <1>8, <2>1
<1>11. ASSUME NEW k \in DOMAIN w, NEW l \in DOMAIN w, k < l
       PROVE  new[g[k]].scan < new[g[l]].scan
  <2>1. k \in 1 .. m
    BY <1>4, <1>11
  <2>2. CASE l = m + 1
    <3>1. bs[f[k]].scan < b.scan
      BY <1>1, <1>3, <1>4, <1>7, <2>1 DEF Follows
    <3>2. QED
      BY <1>8, <2>1, <2>2, <3>1
  <2>3. CASE l \in 1 .. m
    BY <1>1, <1>4, <1>8, <1>11, <2>1, <2>3 DEF Follows
  <2>4. QED
    BY <1>4, <2>2, <2>3
<1>12. ASSUME NEW j \in DOMAIN new, new[j].track = tr
       PROVE  \E k \in DOMAIN w : g[k] = j
  <2>1. CASE j = n + 1
    BY <1>4, <1>7, <2>1
  <2>2. CASE j \in 1 .. n
    <3>1. PICK k \in 1 .. m : f[k] = j
      BY <1>1, <1>3, <1>4, <1>12, <2>2 DEF Follows
    <3>2. QED
      BY <1>4, <1>6, <1>7, <3>1
  <2>3. QED
    BY <1>3, <2>1, <2>2
<1>13. Follows(new, w, tr, g)
  BY <1>9, <1>10, <1>11, <1>12 DEF Follows
<1>14. QED
  BY <1>2, <1>13 DEF Followed

HandsApart == \A i, j \in DOMAIN scan.hands : scan.hands[i] = scan.hands[j] => i = j

\* A track votes at most once in a scan.
BallotsSound ==
    /\ \A n \in DOMAIN cast :
          /\ cast[n].scan <= spent.scans
          /\ cast[n].track[1] <= gen
          /\ cast[n].track[1] = gen => cast[n].track[2] < nextId
    /\ pc = "assign" => \A n \in DOMAIN cast : cast[n].scan < spent.scans
    /\ pc = "vote" => /\ HandsApart
                      /\ \A h \in DOMAIN scan.hands, n \in DOMAIN cast :
                            cast[n].track = <<gen, scan.ids[scan.hands[h]]>>
                                => cast[n].scan < spent.scans
    /\ \A t \in DOMAIN tracks : Followed(cast, tracks[t].votes, <<gen, t>>)

LEMMA CastBallots ==
    ASSUME Typed
    PROVE  \A n \in DOMAIN cast : cast[n] \in Ballots /\ cast[n].scan \in Nat
                                  /\ cast[n].track \in Nat \X Nat
<1>1. ASSUME NEW n \in DOMAIN cast
      PROVE  cast[n] \in Ballots
  BY ElementOfSeq, LenProperties DEF Typed
<1>2. QED
  BY <1>1 DEF Ballots

\* When the scan number and the step of a scan change.
Proceeds ==
    /\ spent.scans' \in Nat /\ spent.scans <= spent.scans'
    /\ pc' = "assign" => pc = "assign" \/ spent.scans < spent.scans'
    /\ pc' = "vote" => \/ pc = "assign" /\ HandsApart'
                       \/ pc = "vote" /\ scan' = scan /\ gen' = gen /\ spent.scans' = spent.scans

LEMMA StepProceeds ==
    ASSUME Typed, Next, ~Vote
    PROVE  Proceeds
<1>0. spent.scans \in Nat
  BY DEF Typed, SpentTyped
<1>1. ASSUME NEW p \in People, Leave(p) \/ \E s \in Spots : Move(p, s)
      PROVE  Proceeds
  <2>1. UNCHANGED <<pc, scan, gen>> /\ spent' = [spent EXCEPT !.moves = @ + 1]
    BY <1>1, Zenon DEF Leave, Move, tracker, history
  <2>2. spent'.scans = spent.scans
    BY <2>1 DEF Typed, SpentTyped
  <2>3. QED
    BY <1>0, <2>1, <2>2 DEF Proceeds
<1>2. ASSUME SwapGallery
      PROVE  Proceeds
  <2>1. UNCHANGED <<pc, scan>> /\ (pc # "idle" => gen' = gen)
    BY <1>2 DEF SwapGallery
  <2>2. spent'.scans = spent.scans
    BY <1>2 DEF SwapGallery, Typed, SpentTyped
  <2>3. QED
    BY <1>0, <2>1, <2>2 DEF Proceeds
<1>3. ASSUME Detect
      PROVE  Proceeds
  <2>1. spent'.scans = spent.scans + 1
    BY <1>3 DEF Detect, Typed, SpentTyped
  <2>2. pc' = "assign" \/ pc' = "idle"
    BY <1>3, DetectFinds DEF Detect, Found
  <2>3. QED
    BY <1>0, <2>1, <2>2 DEF Proceeds
<1>4. ASSUME ContinueTrack \/ OpenTrack
      PROVE  Proceeds
  BY <1>0, <1>4 DEF ContinueTrack, OpenTrack, Assigning, Proceeds
<1>5. ASSUME NEW left, Ends(left), UNCHANGED spent
      PROVE  Proceeds
  BY <1>0, <1>5 DEF Ends, Proceeds
<1>6. ASSUME LoseTrack \/ Retire
      PROVE  Proceeds
  BY <1>5, <1>6, FinishEnds DEF LoseTrack, Retire
<1>7. ASSUME Gate
      PROVE  Proceeds
  <2>1. UNCHANGED spent /\ pc = "assign"
    BY <1>7 DEF Gate
  <2>2. CASE Raises
    <3>1. PICK hands \in Seq(DOMAIN scan.faces) :
            /\ \A i, j \in DOMAIN hands : hands[i] = hands[j] => i = j
            /\ scan' = [scan EXCEPT !.hands = hands]
      BY <2>2 DEF Raises
    <3>2. scan'.hands = hands
      BY <3>1 DEF Typed, ScanTyped
    <3>3. HandsApart'
      BY <3>1, <3>2 DEF HandsApart
    <3>4. pc' = "vote"
      BY <2>2 DEF Raises
    <3>5. QED
      BY <1>0, <2>1, <3>3, <3>4 DEF Proceeds
  <2>3. QED
    BY <1>5, <1>7, <2>1, <2>2, GateRaises
<1>8. ASSUME Mark
      PROVE  Proceeds
  <2>1. pc = "mark" /\ pc' = pc
    BY <1>8 DEF Mark
  <2>2. spent'.scans = spent.scans
    BY <1>8 DEF Mark, Typed, SpentTyped
  <2>3. QED
    BY <1>0, <2>1, <2>2 DEF Proceeds
<1>9. QED
  BY <1>1, <1>2, <1>3, <1>4, <1>6, <1>7, <1>8, Zenon DEF Next

LEMMA MovesBallots ==
    ASSUME Typed, BallotsSound, Moves, Proceeds
    PROVE  BallotsSound'
<1>1. gen \in Nat /\ nextId \in Nat /\ spent.scans \in Nat /\ cast' = cast
  BY DEF Typed, Placed, SpentTyped, Moves
<1>2. spent'.scans \in Nat /\ spent.scans <= spent'.scans
  BY DEF Proceeds
<1>3. \A n \in DOMAIN cast : cast[n].scan <= spent.scans /\ cast[n].track[1] <= gen
                             /\ (cast[n].track[1] = gen => cast[n].track[2] < nextId)
  BY DEF BallotsSound
<1>4. ASSUME NEW n \in DOMAIN cast
      PROVE  cast[n].scan <= spent'.scans /\ cast[n].track[1] <= gen'
             /\ (cast[n].track[1] = gen' => cast[n].track[2] < nextId')
  <2>1. PICK a, b, s : a = cast[n].track[1] /\ b = cast[n].track[2] /\ s = cast[n].scan
    OBVIOUS
  <2>2. a \in Nat /\ b \in Nat /\ s \in Nat
    BY <2>1, CastBallots
  <2>3. s <= spent.scans /\ a <= gen /\ (a = gen => b < nextId)
    BY <1>3, <2>1
  <2>4. s <= spent'.scans /\ a <= gen' /\ (a = gen' => b < nextId')
    BY <1>1, <1>2, <2>2, <2>3 DEF Moves
  <2>5. QED
    BY <2>1, <2>4
<1>5. pc' = "assign" => \A n \in DOMAIN cast : cast[n].scan < spent'.scans
  BY <1>1, <1>2, <1>3, CastBallots DEF BallotsSound, Proceeds
<1>6. pc' = "vote" => /\ HandsApart'
                      /\ \A h \in DOMAIN scan'.hands, n \in DOMAIN cast :
                            cast[n].track = <<gen', scan'.ids[scan'.hands[h]]>>
                                => cast[n].scan < spent'.scans
  <2>1. CASE pc = "assign" /\ HandsApart'
    BY <1>1, <1>2, <2>1, CastBallots DEF BallotsSound
  <2>2. CASE pc = "vote" /\ scan' = scan /\ gen' = gen /\ spent.scans' = spent.scans
    BY <2>2 DEF BallotsSound, HandsApart
  <2>3. QED
    BY <2>1, <2>2 DEF Proceeds
<1>7. ASSUME NEW t \in DOMAIN tracks'
      PROVE  Followed(cast, tracks'[t].votes, <<gen', t>>)
  <2>1. CASE gen' = gen /\ t \in DOMAIN tracks /\ tracks'[t].votes = tracks[t].votes
    BY <2>1 DEF BallotsSound
  <2>2. CASE gen' = gen /\ t = nextId /\ tracks'[t].votes = <<>>
    <3>1. \A n \in DOMAIN cast : cast[n].track # <<gen, nextId>>
      BY <1>1, <1>3
    <3>2. QED
      BY <2>2, <3>1, NothingFollowed
  <2>3. QED
    BY <1>7, <2>1, <2>2 DEF Moves
<1>8. QED
  BY <1>1, <1>4, <1>5, <1>6, <1>7 DEF BallotsSound

LEMMA VoteBallots ==
    ASSUME Typed, ScanSound, BallotsSound, Vote
    PROVE  BallotsSound'
<1>1. PICK i \in DOMAIN scan.faces, code \in Votes :
        i \in DOMAIN scan.ids /\ Ballot(i, code) \in Ballots /\ Voted(i, code)
  BY VoteVotes, Zenon
<1>2. PICK id, ballot, new :
        id = scan.ids[i] /\ ballot = Ballot(i, code) /\ new = Append(cast, ballot)
  OBVIOUS
<1>3. /\ ballot.track = <<gen, id>> /\ ballot.scan = spent.scans /\ ballot.code = code
      /\ ballot \in Ballots /\ cast' = new
  BY <1>1, <1>2 DEF Ballot, Voted
<1>4. UNCHANGED <<nextId, gen, spent>> /\ gen \in Nat /\ nextId \in Nat /\ spent.scans \in Nat
  BY DEF Vote, Typed, Placed, SpentTyped
<1>5. PICK n : n = Len(cast)
  OBVIOUS
<1>6. /\ cast \in Seq(Ballots) /\ n \in Nat /\ DOMAIN cast = 1 .. n /\ DOMAIN new = 1 .. n + 1
      /\ \A k \in 1 .. n : new[k] = cast[k]
      /\ new[n + 1] = ballot
  <2>1. cast \in Seq(Ballots)
    BY DEF Typed
  <2>2. n \in Nat /\ DOMAIN cast = 1 .. n
    BY <1>5, <2>1, LenProperties
  <2>3. QED
    BY <1>2, <1>5, <2>1, <2>2
<1>7. \A k \in DOMAIN new : (k \in DOMAIN cast /\ new[k] = cast[k]) \/ new[k] = ballot
  BY <1>6
<1>8. id < nextId
  BY <1>1, <1>2 DEF ScanSound
<1>9. ASSUME NEW k \in DOMAIN new
      PROVE  new[k].scan <= spent.scans /\ new[k].track[1] <= gen
             /\ (new[k].track[1] = gen => new[k].track[2] < nextId)
  <2>1. CASE new[k] = ballot
    BY <1>3, <1>4, <1>8, <2>1
  <2>2. CASE k \in DOMAIN cast /\ new[k] = cast[k]
    BY <2>2 DEF BallotsSound
  <2>3. QED
    BY <1>7, <2>1, <2>2
<1>10. PICK hands, tail : hands = scan.hands /\ tail = Tail(scan.hands)
  OBVIOUS
<1>11. /\ pc = "vote" /\ 1 \in DOMAIN hands /\ hands[1] = i
       /\ \A h \in DOMAIN tail : h \in Nat \ {0} /\ h + 1 \in DOMAIN hands /\ tail[h] = hands[h + 1]
       /\ \A h \in DOMAIN hands : hands[h] \in DOMAIN scan.ids
  <2>1. pc = "vote" /\ scan.hands \in Seq(DOMAIN scan.faces) /\ scan.hands # <<>>
        /\ DOMAIN scan.ids = DOMAIN scan.faces
    BY LenProperties DEF Vote, Typed, ScanTyped
  <2>2. i = Head(scan.hands)
    BY <1>1 DEF Voted
  <2>3. /\ 1 \in DOMAIN hands /\ hands[1] = i
        /\ \A h \in DOMAIN tail :
              h \in Nat \ {0} /\ h + 1 \in DOMAIN hands /\ tail[h] = hands[h + 1]
    BY <1>10, <2>1, <2>2, HeadTailProperties, LenProperties
  <2>4. \A h \in DOMAIN hands : hands[h] \in DOMAIN scan.faces
    BY <1>10, <2>1, ElementOfSeq, LenProperties
  <2>5. QED
    BY <2>1, <2>3, <2>4
<1>12. \A h \in DOMAIN hands, k \in DOMAIN cast :
          cast[k].track = <<gen, scan.ids[hands[h]]>> => cast[k].scan < spent.scans
  BY <1>10, <1>11 DEF BallotsSound
<1>13. pc' # "assign" /\ scan'.hands = tail /\ scan'.ids = scan.ids
  BY <1>1, <1>10 DEF Voted, Typed, ScanTyped
<1>14. HandsApart'
  <2>1. \A g, h \in DOMAIN hands : hands[g] = hands[h] => g = h
    BY <1>10, <1>11 DEF BallotsSound, HandsApart
  <2>2. \A g, h \in DOMAIN tail : tail[g] = tail[h] => g = h
    BY <1>11, <2>1
  <2>3. QED
    BY <1>13, <2>2 DEF HandsApart
<1>15. ASSUME NEW h \in DOMAIN tail, NEW k \in DOMAIN new,
              new[k].track = <<gen, scan.ids[tail[h]]>>
       PROVE  new[k].scan < spent.scans
  <2>1. PICK g \in DOMAIN hands : g # 1 /\ tail[h] = hands[g]
    BY <1>11
  <2>2. CASE k \in DOMAIN cast /\ new[k] = cast[k]
    BY <1>12, <1>15, <2>1, <2>2
  <2>3. CASE new[k] = ballot
    <3>1. scan.ids[hands[g]] = scan.ids[hands[1]]
      BY <1>2, <1>3, <1>11, <1>15, <2>1, <2>3
    <3>2. hands[g] = hands[1]
      BY <1>11, <3>1 DEF ScanSound, OneTrackPerFace
    <3>3. FALSE
      BY <1>10, <1>11, <2>1, <3>2 DEF BallotsSound, HandsApart
    <3>4. QED
      BY <3>3
  <2>4. QED
    BY <1>7, <2>2, <2>3
<1>16. \A k \in DOMAIN cast : cast[k].track = ballot.track => cast[k].scan < ballot.scan
  BY <1>2, <1>3, <1>11, <1>12
<1>17. PICK voted : voted = Cast(tracks, id, code)
  OBVIOUS
<1>18. /\ TracksTyped(voted) /\ DOMAIN voted = DOMAIN tracks
       /\ \A t \in DOMAIN tracks : /\ t # id => voted[t].votes = tracks[t].votes
                                   /\ t = id => voted[t].votes = Append(tracks[t].votes, code)
  BY <1>17, CastTracks DEF Typed
<1>19. DOMAIN tracks' = DOMAIN tracks /\ \A t \in DOMAIN tracks : tracks'[t].votes = voted[t].votes
  <2>1. CASE tracks' = voted
    BY <1>18, <2>1
  <2>2. CASE Confirms(tracks, id, code) /\ tracks' = Publish(voted, id)
    <3>1. id \in DOMAIN voted
      BY <1>18, <2>2 DEF Confirms
    <3>2. PICK said : said = Publish(voted, id)
      OBVIOUS
    <3>3. DOMAIN said = DOMAIN voted /\ \A t \in DOMAIN voted : said[t].votes = voted[t].votes
      BY <1>18, <3>1, <3>2, PublishTracks
    <3>4. QED
      BY <1>18, <2>2, <3>2, <3>3
  <2>3. QED
    BY <1>1, <1>2, <1>17, <2>1, <2>2 DEF Voted
<1>20. ASSUME NEW t \in DOMAIN tracks
       PROVE  Followed(new, voted[t].votes, <<gen, t>>)
  <2>1. Followed(cast, tracks[t].votes, <<gen, t>>)
    BY DEF BallotsSound
  <2>2. CASE t = id
    <3>1. PICK votes \in Seq(Votes) : votes = tracks[t].votes
      BY DEF Typed, TracksTyped
    <3>2. Followed(Append(cast, ballot), Append(votes, ballot.code), <<gen, t>>)
      BY <1>3, <1>6, <1>16, <2>1, <2>2, <3>1, VoteFollowed
    <3>3. QED
      BY <1>2, <1>3, <1>18, <2>2, <3>1, <3>2
  <2>3. CASE t # id
    <3>1. <<gen, t>> # <<gen, id>>
      BY <2>3
    <3>2. Followed(Append(cast, ballot), tracks[t].votes, <<gen, t>>)
      BY <1>3, <1>6, <2>1, <3>1, OtherFollowed
    <3>3. QED
      BY <1>2, <1>18, <2>3, <3>2
  <2>4. QED
    BY <2>2, <2>3
<1>21. \A t \in DOMAIN tracks' : Followed(cast', tracks'[t].votes, <<gen', t>>)
  BY <1>3, <1>4, <1>19, <1>20
<1>22. spent'.scans = spent.scans /\ nextId' = nextId /\ gen' = gen
  BY <1>4
<1>23. \A k \in DOMAIN cast' : cast'[k].scan <= spent'.scans /\ cast'[k].track[1] <= gen'
             /\ (cast'[k].track[1] = gen' => cast'[k].track[2] < nextId')
  BY <1>3, <1>9, <1>22
<1>24. \A h \in DOMAIN scan'.hands, k \in DOMAIN cast' :
          cast'[k].track = <<gen', scan'.ids[scan'.hands[h]]>> => cast'[k].scan < spent'.scans
  BY <1>3, <1>13, <1>15, <1>22
<1>25. QED
  BY <1>13, <1>14, <1>21, <1>23, <1>24 DEF BallotsSound

LEMMA BallotsStep ==
    ASSUME Typed, ScanSound, BallotsSound, Next
    PROVE  BallotsSound'
BY VoteBallots, StepMoves, StepProceeds, MovesBallots

LEMMA BallotsStutter ==
    ASSUME BallotsSound, UNCHANGED vars
    PROVE  BallotsSound'
BY DEF vars, BallotsSound, HandsApart

LEMMA InitBallots ==
    ASSUME Init
    PROVE  BallotsSound
<1>1. DOMAIN cast = {} /\ DOMAIN tracks = {} /\ pc = "idle"
  BY DEF Init
<1>2. QED
  BY <1>1 DEF BallotsSound

-------------------------------------------------------------------------------
(* Agreement *)

\* The ballots that speak for an event, as AgreementBeforePunch counts them.
Ayes(bs, e) ==
    LET mine == {c \in Range(bs) : c.track = e.track /\ c.scan <= e.scan}
        run  == {c \in mine : \A d \in mine : d.scan >= c.scan => d.code \in {None, e.code}}
    IN  {c \in run : c.code = e.code}

Agreed(bs, e) == Cardinality(Ayes(bs, e)) >= ConfirmScans

\* Later ballots do not undo an agreement.
LEMMA AgreedStays ==
    ASSUME NEW bs \in Seq(Ballots), NEW b \in Ballots, NEW e, e.scan \in Nat, Agreed(bs, e),
           b.track = e.track => e.scan < b.scan
    PROVE  Agreed(Append(bs, b), e)
<1>1. PICK new, n : new = Append(bs, b) /\ n = Len(bs)
  OBVIOUS
<1>2. /\ n \in Nat /\ DOMAIN bs = 1 .. n /\ DOMAIN new = 1 .. n + 1
      /\ \A k \in 1 .. n : new[k] = bs[k]
      /\ new[n + 1] = b
  BY <1>1, LenProperties
<1>3. /\ Range(bs) \subseteq Range(new)
      /\ \A c \in Range(new) : c \in Range(bs) \/ c = b
  BY <1>2 DEF Range
<1>4. ~(b.track = e.track /\ b.scan <= e.scan)
  BY DEF Ballots
<1>5. PICK old, mine : /\ old = {c \in Range(bs) : c.track = e.track /\ c.scan <= e.scan}
                       /\ mine = {c \in Range(new) : c.track = e.track /\ c.scan <= e.scan}
  OBVIOUS
<1>6. mine = old
  BY <1>3, <1>4, <1>5
<1>7. Ayes(new, e) = Ayes(bs, e)
  BY <1>5, <1>6, Zenon DEF Ayes
<1>8. QED
  BY <1>1, <1>7 DEF Agreed

\* The votes of a track that agree are ballots that speak for it.
LEMMA AgreeingAreAyes ==
    ASSUME NEW bs \in Seq(Ballots), NEW v \in Seq(Votes), NEW e, e.scan \in Nat,
           Followed(bs, v, e.track),
           \A n \in DOMAIN bs : bs[n].track = e.track => bs[n].scan <= e.scan,
           Cardinality(Agreeing(v, e.code)) >= ConfirmScans
    PROVE  Agreed(bs, e)
<1>1. PICK f : Follows(bs, v, e.track, f)
  BY DEF Followed
<1>2. PICK S, T : S = Agreeing(v, e.code) /\ T = Ayes(bs, e)
  OBVIOUS
<1>3. S \subseteq DOMAIN v
  BY <1>2 DEF Agreeing
<1>4. \A n \in DOMAIN bs : bs[n] \in Range(bs) /\ bs[n].scan \in Nat
  <2>1. \A n \in DOMAIN bs : bs[n] \in Ballots
    BY ElementOfSeq, LenProperties
  <2>2. QED
    BY <2>1 DEF Range, Ballots
<1>5. \A k \in DOMAIN v : f[k] \in DOMAIN bs
  BY <1>1 DEF Follows
<1>6. DOMAIN v = 1 .. Len(v) /\ Len(v) \in Nat
  BY LenProperties
<1>7. PICK mine : mine = {c \in Range(bs) : c.track = e.track /\ c.scan <= e.scan}
  OBVIOUS
<1>8. ASSUME NEW k \in S
      PROVE  bs[f[k]] \in T
  <2>1. bs[f[k]] \in mine /\ bs[f[k]].code = e.code
    BY <1>1, <1>2, <1>3, <1>4, <1>5, <1>7 DEF Follows, Agreeing
  <2>2. ASSUME NEW d \in mine, d.scan >= bs[f[k]].scan
        PROVE  d.code \in {None, e.code}
    <3>1. PICK n \in DOMAIN bs : d = bs[n] /\ bs[n].track = e.track
      BY <1>7 DEF Range
    <3>2. PICK l \in DOMAIN v : f[l] = n
      BY <1>1, <3>1 DEF Follows
    <3>3. l >= k
      <4>1. CASE l < k
        <5>1. bs[f[l]].scan < bs[f[k]].scan
          BY <1>1, <1>3, <4>1 DEF Follows
        <5>2. QED
          BY <1>3, <1>4, <1>5, <2>2, <3>1, <3>2, <5>1
      <4>2. QED
        BY <1>3, <1>6, <4>1
    <3>4. v[l] \in {e.code, None}
      BY <1>2, <1>6, <3>3 DEF Agreeing
    <3>5. d.code = v[l]
      BY <1>1, <3>1, <3>2 DEF Follows
    <3>6. QED
      BY <3>4, <3>5
  <2>3. QED
    BY <1>2, <1>7, <2>1, <2>2, Zenon DEF Ayes
<1>9. ASSUME NEW k \in S, NEW l \in S, bs[f[k]] = bs[f[l]]
      PROVE  k = l
  <2>1. k \in DOMAIN v /\ l \in DOMAIN v
    BY <1>3
  <2>2. k < l => bs[f[k]].scan < bs[f[l]].scan
    BY <1>1, <2>1 DEF Follows
  <2>3. l < k => bs[f[l]].scan < bs[f[k]].scan
    BY <1>1, <2>1 DEF Follows
  <2>4. PICK s : s = bs[f[k]].scan
    OBVIOUS
  <2>5. s \in Nat /\ s = bs[f[l]].scan
    BY <1>4, <1>5, <1>9, <2>1, <2>4
  <2>6. QED
    BY <1>6, <2>1, <2>2, <2>3, <2>4, <2>5
<1>10. PICK g : g = [k \in S |-> bs[f[k]]]
  OBVIOUS
<1>11. g \in Injection(S, T)
  <2>1. g \in [S -> T]
    BY <1>8, <1>10
  <2>2. IsInjective(g)
    BY <1>9, <1>10 DEF IsInjective
  <2>3. QED
    BY <2>1, <2>2 DEF Injection
<1>12. IsFiniteSet(T)
  <2>1. IsFiniteSet(Range(bs))
    <3>1. IsFiniteSet(DOMAIN bs)
      BY LenProperties, FS_Interval
    <3>2. bs \in Surjection(DOMAIN bs, Range(bs))
      <4>1. bs = [n \in DOMAIN bs |-> bs[n]]
        OBVIOUS
      <4>2. bs \in [DOMAIN bs -> Range(bs)]
        BY <4>1 DEF Range
      <4>3. \A t \in Range(bs) : \E n \in DOMAIN bs : bs[n] = t
        BY DEF Range
      <4>4. QED
        BY <4>2, <4>3 DEF Surjection
    <3>3. QED
      BY <3>1, <3>2, FS_Surjection
  <2>2. T \subseteq Range(bs)
    BY <1>2 DEF Ayes
  <2>3. QED
    BY <2>1, <2>2, FS_Subset
<1>13. IsFiniteSet(S) /\ Cardinality(S) <= Cardinality(T)
  BY <1>11, <1>12, FS_Injection
<1>14. Cardinality(S) \in Nat /\ Cardinality(T) \in Nat /\ ConfirmScans \in Nat
  BY <1>12, <1>13, FS_CardinalityType, TrackerAssumption
<1>15. QED
  BY <1>2, <1>13, <1>14 DEF Agreed

AllAgreed ==
    /\ \A i \in DOMAIN queue : queue[i] \in Range(cast) /\ Agreed(cast, queue[i])
    /\ \A j \in DOMAIN reports : reports[j].event \in Range(cast) /\ Agreed(cast, reports[j].event)

LEMMA VoteAgreed ==
    ASSUME Typed, ScanSound, BallotsSound, AllAgreed, Vote
    PROVE  AllAgreed'
<1>1. PICK i \in DOMAIN scan.faces, code \in Votes :
        i \in DOMAIN scan.ids /\ Ballot(i, code) \in Ballots /\ Voted(i, code)
  BY VoteVotes, Zenon
<1>2. PICK id, ballot, new, bs : /\ id = scan.ids[i] /\ ballot = Ballot(i, code)
                                 /\ new = Append(cast, ballot) /\ bs = cast
  OBVIOUS
<1>3. /\ ballot.track = <<gen, id>> /\ ballot.scan = spent.scans /\ ballot.code = code
      /\ ballot \in Ballots /\ cast' = new /\ bs \in Seq(Ballots)
  BY <1>1, <1>2 DEF Ballot, Voted, Typed
<1>4. ASSUME NEW e \in Range(bs), Agreed(bs, e)
      PROVE  e \in Range(new) /\ Agreed(new, e)
  <2>1. PICK n \in DOMAIN bs : e = bs[n]
    BY DEF Range
  <2>2. e.scan \in Nat
    BY <1>2, <2>1, CastBallots
  <2>3. ballot.track = e.track => e.scan < ballot.scan
    <3>1. 1 \in DOMAIN scan.hands /\ scan.hands[1] = i /\ pc = "vote"
      <4>1. pc = "vote" /\ scan.hands \in Seq(DOMAIN scan.faces) /\ scan.hands # <<>>
        BY DEF Vote, Typed, ScanTyped
      <4>2. i = Head(scan.hands)
        BY <1>1 DEF Voted
      <4>3. QED
        BY <4>1, <4>2, HeadTailProperties, LenProperties
    <3>2. \A h \in DOMAIN scan.hands, k \in DOMAIN cast :
            cast[k].track = <<gen, scan.ids[scan.hands[h]]>> => cast[k].scan < spent.scans
      BY <3>1 DEF BallotsSound
    <3>3. QED
      BY <1>2, <1>3, <2>1, <3>1, <3>2
  <2>4. Agreed(new, e)
    BY <1>2, <1>3, <1>4, <2>2, <2>3, AgreedStays
  <2>5. e \in Range(new)
    <3>1. n \in DOMAIN new /\ new[n] = bs[n]
      BY <1>2, <1>3, <2>1, LenProperties
    <3>2. QED
      BY <2>1, <3>1 DEF Range
  <2>6. QED
    BY <2>4, <2>5
<1>5. PICK q, r : q = queue /\ r = reports
  OBVIOUS
<1>6. /\ \A k \in DOMAIN q : q[k] \in Range(new) /\ Agreed(new, q[k])
      /\ \A j \in DOMAIN r : r[j].event \in Range(new) /\ Agreed(new, r[j].event)
  BY <1>2, <1>4, <1>5, Zenon DEF AllAgreed
<1>7. reports' = r
  BY <1>5 DEF Vote
<1>8. CASE queue' = queue
  BY <1>3, <1>5, <1>6, <1>7, <1>8, Zenon DEF AllAgreed
<1>9. CASE Confirms(tracks, id, code) /\ queue' = Append(queue, ballot)
  <2>1. PICK votes : votes = tracks[id].votes
    OBVIOUS
  <2>2. /\ id \in DOMAIN tracks /\ votes \in Seq(Votes)
        /\ Cardinality(Agreeing(Append(votes, code), code)) >= ConfirmScans
    BY <1>9, <2>1 DEF Confirms, Typed, TracksTyped
  <2>3. Followed(new, Append(votes, code), ballot.track)
    <3>1. BallotsSound'
      BY VoteBallots
    <3>2. PICK voted : voted = Cast(tracks, id, code)
      OBVIOUS
    <3>3. /\ TracksTyped(voted) /\ DOMAIN voted = DOMAIN tracks
          /\ voted[id].votes = Append(votes, code)
      BY <2>1, <2>2, <3>2, CastTracks DEF Typed
    <3>4. PICK said : said = Publish(voted, id)
      OBVIOUS
    <3>4a. id \in DOMAIN voted /\ TracksTyped(voted)
      BY <2>2, <3>3
    <3>5. DOMAIN said = DOMAIN voted /\ said[id].votes = voted[id].votes
      BY <3>4, <3>4a, PublishTracks
    <3>6. tracks' = said
      BY <1>1, <1>2, <1>9, <3>2, <3>4 DEF Voted
    <3>7. gen' = gen
      BY DEF Vote
    <3>8. Followed(cast', tracks'[id].votes, <<gen', id>>)
      BY <2>2, <3>1, <3>3, <3>5, <3>6 DEF BallotsSound
    <3>9. QED
      BY <1>3, <3>3, <3>5, <3>6, <3>7, <3>8
  <2>4. new \in Seq(Ballots) /\ Append(votes, code) \in Seq(Votes)
    BY <1>2, <1>3, <2>2, AppendProperties
  <2>5. \A n \in DOMAIN new : new[n].scan <= ballot.scan
    <3>1. BallotsSound' /\ spent' = spent
      BY VoteBallots DEF Vote
    <3>2. QED
      BY <1>3, <3>1 DEF BallotsSound
  <2>6. ballot.scan \in Nat
    BY <1>3 DEF Ballots
  <2>7. Agreed(new, ballot)
    BY <1>3, <2>2, <2>3, <2>4, <2>5, <2>6, AgreeingAreAyes
  <2>8. ballot \in Range(new)
    <3>1. Len(bs) + 1 \in DOMAIN new /\ new[Len(bs) + 1] = ballot
      BY <1>2, <1>3, LenProperties
    <3>2. QED
      BY <3>1 DEF Range
  <2>9. PICK more : more = Append(q, ballot)
    OBVIOUS
  <2>10. \A k \in DOMAIN more : (k \in DOMAIN q /\ more[k] = q[k]) \/ more[k] = ballot
    <3>1. q \in Seq(Ballots)
      BY <1>5 DEF Typed
    <3>2. QED
      BY <1>3, <2>9, <3>1, LenProperties
  <2>11. \A k \in DOMAIN more : more[k] \in Range(new) /\ Agreed(new, more[k])
    BY <1>6, <2>7, <2>8, <2>10, Zenon
  <2>12. queue' = more
    BY <1>5, <1>9, <2>9
  <2>13. QED
    BY <1>3, <1>6, <1>7, <2>11, <2>12, Zenon DEF AllAgreed
<1>10. QED
  BY <1>1, <1>2, <1>8, <1>9 DEF Voted

LEMMA MarkAgreed ==
    ASSUME Typed, AllAgreed, Mark
    PROVE  AllAgreed'
<1>1. PICK bs, q, r, tail, event :
        bs = cast /\ q = queue /\ r = reports /\ tail = Tail(queue) /\ event = Head(queue)
  OBVIOUS
<1>2. cast' = bs /\ queue' = tail
  BY <1>1 DEF Mark
<1>3. /\ 1 \in DOMAIN q /\ event = q[1]
      /\ \A i \in DOMAIN tail : \E k \in DOMAIN q : tail[i] = q[k]
  <2>1. queue # <<>> /\ queue \in Seq(Ballots)
    BY DEF Mark, Typed
  <2>2. QED
    BY <1>1, <2>1, HeadTailProperties, LenProperties
<1>4. /\ \A k \in DOMAIN q : q[k] \in Range(bs) /\ Agreed(bs, q[k])
      /\ \A j \in DOMAIN r : r[j].event \in Range(bs) /\ Agreed(bs, r[j].event)
  BY <1>1, Zenon DEF AllAgreed
<1>5. \A i \in DOMAIN tail : tail[i] \in Range(bs) /\ Agreed(bs, tail[i])
  BY <1>3, <1>4, Zenon
<1>6. CASE reports' = reports
  BY <1>1, <1>2, <1>4, <1>5, <1>6, Zenon DEF AllAgreed
<1>7. CASE \E punch : punch.event = event /\ reports' = Append(reports, punch)
  <2>1. PICK punch, new : punch.event = event /\ new = Append(r, punch) /\ reports' = new
    BY <1>1, <1>7
  <2>2. \A j \in DOMAIN new : (j \in DOMAIN r /\ new[j] = r[j]) \/ new[j] = punch
    <3>1. r \in Seq(Punches)
      BY <1>1 DEF Typed
    <3>2. QED
      BY <2>1, <3>1, LenProperties
  <2>3. event \in Range(bs) /\ Agreed(bs, event)
    BY <1>3, <1>4, Zenon
  <2>4. \A j \in DOMAIN new : new[j].event \in Range(bs) /\ Agreed(bs, new[j].event)
    BY <1>4, <2>1, <2>2, <2>3, Zenon
  <2>5. QED
    BY <1>2, <1>5, <2>1, <2>4, Zenon DEF AllAgreed
<1>8. QED
  BY <1>1, <1>6, <1>7, MarkReports

LEMMA AgreedStep ==
    ASSUME Typed, ScanSound, BallotsSound, AllAgreed, Next
    PROVE  AllAgreed'
<1>1. CASE ~Vote /\ ~Mark
  <2>1. cast' = cast
    BY <1>1, StepMoves DEF Moves
  <2>2. reports' = reports /\ (queue' = queue \/ queue' = <<>>)
    BY <1>1, StillReports
  <2>3. queue' = <<>> => DOMAIN queue' = {}
    OBVIOUS
  <2>4. QED
    BY <2>1, <2>2, <2>3, Zenon DEF AllAgreed
<1>2. QED
  BY <1>1, VoteAgreed, MarkAgreed

LEMMA AgreedStutters ==
    ASSUME AllAgreed, UNCHANGED vars
    PROVE  AllAgreed'
BY DEF vars, AllAgreed

LEMMA InitAgreed ==
    ASSUME Init
    PROVE  AllAgreed
<1>1. DOMAIN queue = {} /\ DOMAIN reports = {}
  BY DEF Init
<1>2. QED
  BY <1>1 DEF AllAgreed

\* tracker.py vote: whoever is reported was named by ConfirmScans ballots of one
\* track, in as many scans, with no ballot between them for anybody else.
THEOREM AgreedFirst == Spec => []AgreementBeforePunch
<1>1. AllAgreed => AgreementBeforePunch
  <2> SUFFICES ASSUME AllAgreed, NEW r \in Range(reports)
               PROVE  Cardinality(Ayes(cast, r.event)) >= ConfirmScans
    BY Zenon DEF AgreementBeforePunch, Ayes
  <2>1. PICK j \in DOMAIN reports : r = reports[j]
    BY DEF Range
  <2>2. QED
    BY <2>1, Zenon DEF AllAgreed, Agreed
<1>2. QED
  BY <1>1, InitTyped, InitSound, InitBallots, InitAgreed, TypedStep, TypedStutters, SoundStep,
     SoundStutters, BallotsStep, BallotsStutter, AgreedStep, AgreedStutters, PTL DEF Spec
=============================================================================
