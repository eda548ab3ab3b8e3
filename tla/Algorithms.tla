------------------------------ MODULE Algorithms ------------------------------
(***************************************************************************)
(* What the pipeline computes with: the limiter of requests, the search    *)
(* for a name, the rates of an evaluation, the palm badge, the scan for a  *)
(* hand; and the camera's loops when a stop gives up on one.  They share   *)
(* no state: an initial state says which of them this behaviour is about,  *)
(* and the others stand still.                                             *)
(***************************************************************************)
EXTENDS CameraRunner, Sequences

\* The constants of the components have the components' names; a bound that two of them
\* have is told apart.
CONSTANTS
    Threads, Clients, MaxRequests, Window, MaxLag, MaxClock,            \* RateLimiter
    Galleries, K, Threshold, Margin,                                    \* FaceIndex
    Employees, Directories, Edges, Widths, Scores, Thresholds, Targets, \* Evaluation
    Sizes, MaxFrames, MaxReferences, MaxFaces,
    DetectEvery, ConfirmFrames, MaxMessages,                            \* Webcam
    Shapes, Grids, Overlap, Hands, Reach                                \* PalmScan

VARIABLES
    about,                                                              \* which of them
    clock, waiting, hits, served,                                       \* RateLimiter
    index, search, candidates, rows, answer, name,                      \* FaceIndex
    at, pass, references, widths, found, genuine, impostor, rank1, scored, \* Evaluation
    frame_index, socket, reported, pending, badge, palms, received,     \* Webcam
    shape, grid, hand, next, best, done                                 \* PalmScan

hitting == <<clock, waiting, hits, served>>
naming  == <<index, search, candidates, rows, answer, name>>
rating  == <<at, pass, references, widths, found, genuine, impostor, rank1, scored>>
page    == <<frame_index, socket, reported, pending, badge, palms, received>>
crops   == <<shape, grid, hand, next, best, done>>
all     == <<about, vars, hitting, naming, rating, page, crops>>

-------------------------------------------------------------------------------

R == INSTANCE RateLimiter

N == INSTANCE FaceIndex WITH pc <- search, found <- candidates, seen <- rows

E == INSTANCE Evaluation WITH pc <- pass

W == INSTANCE Webcam WITH MaxFrames <- MaxMessages, pc <- socket

P == INSTANCE PalmScan

ASSUME AlgorithmsAssumption ==
    /\ MaxStarts \in Nat /\ MaxGalleries \in Nat
    /\ R!Limits /\ N!Searchable /\ E!Measurable /\ W!Debounced /\ P!Scannable

Parts == {"limiter", "naming", "rating", "page", "crops", "camera"}

\* What has many initial states has one of them where it is not the subject.
SomeGallery == CHOOSE g \in Galleries : TRUE
SomeFrame == CHOOSE f \in UNION {{s} \X Grids \X P!Places(s) : s \in Shapes} : TRUE

AlgorithmsInit ==
    /\ about \in Parts
    /\ Init /\ R!Init /\ E!Init /\ W!Init
    /\ N!Init /\ (about # "naming" => index = SomeGallery)
    /\ P!Init /\ (about # "crops" => <<shape, grid, hand>> = SomeFrame)

OfLimiter == about = "limiter" /\ UNCHANGED <<about, vars, naming, rating, page, crops>>
OfNaming  == about = "naming"  /\ UNCHANGED <<about, vars, hitting, rating, page, crops>>
OfRating  == about = "rating"  /\ UNCHANGED <<about, vars, hitting, naming, page, crops>>
OfPage    == about = "page"    /\ UNCHANGED <<about, vars, hitting, naming, rating, crops>>
OfCrops   == about = "crops"   /\ UNCHANGED <<about, vars, hitting, naming, rating, page>>
OfCamera  == about = "camera"  /\ UNCHANGED <<about, hitting, naming, rating, page, crops>>

AlgorithmsNext ==
    \/ OfLimiter /\ R!Next
    \/ OfNaming /\ N!Next
    \/ OfRating /\ E!Next
    \/ OfPage /\ W!Next
    \/ OfCrops /\ P!Next
    \/ OfCamera /\ Next

AlgorithmsSpec == AlgorithmsInit /\ [][AlgorithmsNext]_all

-------------------------------------------------------------------------------
(* The properties, each stated in the module it is of, with that module's  *)
(* types; AtMostOneLoop, StatusIsTrue and StoppedHubIsEmpty are            *)
(* CameraRunner's own.                                                     *)

\* RateLimiter: no client is served more than the limit in a window.
WindowIsBounded == R!TypeOK /\ R!WindowIsBounded

\* FaceIndex: the search returns the best K employees of one gallery.
AnswerIsTopK == N!TypeOK /\ N!AnswerIsTopK

\* FaceIndex: a face is named after a clear winner, or after nobody.
NamedAfterClearWinner == N!NamedAfterClearWinner

\* Evaluation: the tables add up to the faces, the rates are those of the people in
\* shot, and the threshold that is reported is the lowest that meets the target.
ReportIsTrue ==
    E!TypeOK /\ E!TablesAddUp /\ E!RatesArePeoples /\ E!OperatingPointIsLowest

\* Webcam: the palm badge is what the last scans that agreed saw.
BadgeIsLastConfirmed == W!TypeOK /\ W!BadgeIsLastConfirmed

\* PalmScan: a hand that fits the pads and fills enough of a tile is seen anywhere.
HandIsSeen == P!HandIsSeen
=============================================================================
