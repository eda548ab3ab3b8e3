-------------------------------- MODULE Webcam ---------------------------------
(***************************************************************************)
(* The socket of /webcam/ws: the frames a page sends, which of them are    *)
(* scanned, and the palm badge it is told to show.                         *)
(***************************************************************************)
EXTENDS Naturals, Sequences

CONSTANTS DetectEvery,   \* DETECT_EVERY
          ConfirmFrames, \* CONFIRM_FRAMES
          MaxFrames      \* bound: messages of the page

\* A badge changes after a scan at the earliest.
Debounced == ConfirmFrames \in Nat \ {0} /\ DetectEvery \in Nat \ {0} /\ MaxFrames \in Nat

VARIABLES frame_index, \* the frames that could be decoded
          pc,          \* "receive", or "detect" while process_frames is awaited
          reported,    \* PalmDebounce._reported
          pending,     \* PalmDebounce._pending
          badge,       \* what the page was told last
          palms,       \* history: whether each scan saw a palm
          received     \* messages so far

vars == <<frame_index, pc, reported, pending, badge, palms, received>>

Init ==
    /\ frame_index = 0
    /\ pc = "receive"
    /\ reported = FALSE
    /\ pending = 0
    /\ badge = FALSE
    /\ palms = <<>>
    /\ received = 0

\* The bytes are no picture.
ReceiveGarbage ==
    /\ pc = "receive"
    /\ received < MaxFrames
    /\ received' = received + 1
    /\ UNCHANGED <<frame_index, pc, reported, pending, badge, palms>>

\* A frame is echoed; every so many are scanned.
ReceiveFrame ==
    /\ pc = "receive"
    /\ received < MaxFrames
    /\ received' = received + 1
    /\ frame_index' = frame_index + 1
    /\ pc' = IF frame_index' % DetectEvery = 0 THEN "detect" ELSE "receive"
    /\ UNCHANGED <<reported, pending, badge, palms>>

UpdateWithoutReset(detected) ==
    IF detected = reported
    THEN UNCHANGED <<reported, pending>>
    ELSE LET confirmed == pending + 1 >= ConfirmFrames
         IN  /\ reported' = IF confirmed THEN detected ELSE reported
             /\ pending' = IF confirmed THEN 0 ELSE pending + 1

\* PalmDebounce.update
Update(detected) ==
    IF detected = reported
    THEN pending' = 0 /\ UNCHANGED reported
    ELSE LET confirmed == pending + 1 >= ConfirmFrames
         IN  /\ reported' = IF confirmed THEN detected ELSE reported
             /\ pending' = IF confirmed THEN 0 ELSE pending + 1

\* The result of the scan is sent, with the badge.
SendPayload(detected) ==
    /\ pc = "detect"
    /\ Update(detected)
    /\ badge' = reported'
    /\ palms' = Append(palms, detected)
    /\ pc' = "receive"
    /\ UNCHANGED <<frame_index, received>>

Next == ReceiveGarbage \/ ReceiveFrame \/ \E detected \in BOOLEAN : SendPayload(detected)

Spec == Init /\ [][Next]_vars

-------------------------------------------------------------------------------
(* What has to hold *)

TypeOK ==
    /\ frame_index \in 0 .. received
    /\ pc \in {"receive", "detect"}
    /\ {reported, badge} \subseteq BOOLEAN
    /\ pending \in 0 .. ConfirmFrames - 1
    /\ palms \in Seq(BOOLEAN)
    /\ received \in 0 .. MaxFrames

\* The scans that end a run of ConfirmFrames alike.
Confirmations ==
    {n \in ConfirmFrames .. Len(palms) :
        \A i \in 0 .. ConfirmFrames - 1 : palms[n - i] = palms[n]}

\* "Holds the reported palm state until enough detections disagree with it"
\* (websocket.py:38): the badge is what the last run of ConfirmFrames scans alike said,
\* and off when there was none.
BadgeIsLastConfirmed ==
    badge = \E n \in Confirmations : palms[n] /\ \A o \in Confirmations : o <= n
=============================================================================
