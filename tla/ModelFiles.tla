------------------------------ MODULE ModelFiles ------------------------------
(***************************************************************************)
(* ai/_download.py: how one model file gets into MODELS_DIR.               *)
(*                                                                         *)
(* Each run of the downloader looks whether the file is there, opens its   *)
(* .part sibling (a name all runs share), streams into it and renames it.  *)
(* A run fails, is cut short or is killed anywhere; runs overlap.  A file  *)
(* is an inode and the chunks written to it: opening an existing .part     *)
(* empties the inode another run may still be writing to, and an inode     *)
(* that was renamed is still written to by whoever has it open.            *)
(***************************************************************************)
EXTENDS Integers, FiniteSets

CONSTANTS Runs,       \* runs of the downloader that overlap
          Chunks,     \* chunks of the file
          Checked,    \* whether a short stream is noticed: a member of the zip
                      \* archive is, the palm detector's file is not
          MayEndShort,\* whether a stream may end before its last chunk
          MaxFailures \* bound: streams that fail or end short, runs killed

VARIABLES dest,     \* the inode under the model's name, None when there is none
          part,     \* the inode under the .part name
          content,  \* the chunks of each inode
          pc,       \* where each run is
          handle,   \* the inode each run writes to
          position, \* the chunks each run has written
          overlapped, \* history: two runs were under way at once
          failures

vars == <<dest, part, content, pc, handle, position, overlapped, failures>>

None == 0

\* Enough that one is free whenever a run opens the .part file.
Inodes == 1 .. Cardinality(Runs) + 2
Unused == {i \in Inodes : i \notin {dest, part} /\ \A r \in Runs : handle[r] # i}

Init ==
    /\ dest = None
    /\ part = None
    /\ content = [i \in Inodes |-> {}]
    /\ pc = [r \in Runs |-> "off"]
    /\ handle = [r \in Runs |-> None]
    /\ position = [r \in Runs |-> 0]
    /\ overlapped = FALSE
    /\ failures = 0

Goto(r, there) == pc' = [pc EXCEPT ![r] = there]

\* find_model_file: a run begins, and does nothing when the file is there.
Check(r) ==
    /\ pc[r] = "off"
    /\ dest = None
    /\ Goto(r, "open")
    /\ overlapped' = (overlapped \/ \E q \in Runs : pc[q] # "off")
    /\ UNCHANGED <<dest, part, content, handle, position, failures>>

OpenInPlace(r) ==
    /\ pc[r] = "open"
    /\ dest' = CHOOSE i \in Unused : TRUE
    /\ content' = [content EXCEPT ![dest'] = {}]
    /\ handle' = [handle EXCEPT ![r] = dest']
    /\ position' = [position EXCEPT ![r] = 0]
    /\ Goto(r, "stream")
    /\ UNCHANGED <<part, overlapped, failures>>

\* part.open("wb") makes the file, or empties the one that is there.
Open(r) ==
    /\ pc[r] = "open"
    /\ part' = IF part = None THEN CHOOSE i \in Unused : TRUE ELSE part
    /\ content' = [content EXCEPT ![part'] = {}]
    /\ handle' = [handle EXCEPT ![r] = part']
    /\ position' = [position EXCEPT ![r] = 0]
    /\ Goto(r, "stream")
    /\ UNCHANGED <<dest, overlapped, failures>>

Write(r) ==
    /\ pc[r] = "stream"
    /\ position[r] < Chunks
    /\ position' = [position EXCEPT ![r] = @ + 1]
    /\ content' = [content EXCEPT ![handle[r]] = @ \cup {position'[r]}]
    /\ UNCHANGED <<dest, part, pc, handle, overlapped, failures>>

\* read returns nothing: the stream has ended, after its last chunk or before.
EndStream(r) ==
    /\ pc[r] = "stream"
    /\ \/ /\ position[r] = Chunks
          /\ Goto(r, "replace")
          /\ UNCHANGED failures
       \/ /\ position[r] < Chunks
          /\ MayEndShort
          /\ failures < MaxFailures
          /\ failures' = failures + 1
          /\ Goto(r, IF Checked THEN "unlink" ELSE "replace")
    /\ UNCHANGED <<dest, part, content, handle, position, overlapped>>

\* The connection breaks, or the disk is full.
Fail(r) ==
    /\ pc[r] = "stream"
    /\ failures < MaxFailures
    /\ failures' = failures + 1
    /\ Goto(r, "unlink")
    /\ UNCHANGED <<dest, part, content, handle, position, overlapped>>

\* os.replace(part, dest); there may be no .part any more, which is an error.
Replace(r) ==
    /\ pc[r] = "replace"
    /\ \/ /\ part # None
          /\ dest' = part
          /\ part' = None
          /\ handle' = [handle EXCEPT ![r] = None]
          /\ Goto(r, "off")
       \/ /\ part = None
          /\ Goto(r, "unlink")
          /\ UNCHANGED <<dest, part, handle>>
    /\ UNCHANGED <<content, position, overlapped, failures>>

\* part.unlink(missing_ok=True), and the error is logged.
Unlink(r) ==
    /\ pc[r] = "unlink"
    /\ part' = None
    /\ handle' = [handle EXCEPT ![r] = None]
    /\ Goto(r, "off")
    /\ UNCHANGED <<dest, content, position, overlapped, failures>>

\* Killed: nothing is cleaned up.  The downloader may be run again.
Kill(r) ==
    /\ pc[r] # "off"
    /\ failures < MaxFailures
    /\ failures' = failures + 1
    /\ handle' = [handle EXCEPT ![r] = None]
    /\ Goto(r, "off")
    /\ UNCHANGED <<dest, part, content, position, overlapped>>

RunStep(r) == Open(r) \/ Write(r) \/ EndStream(r) \/ Replace(r) \/ Unlink(r)

Next == \E r \in Runs : Check(r) \/ RunStep(r) \/ Fail(r) \/ Kill(r)

Spec == Init /\ [][Next]_vars

\* A run that has begun goes on; nobody has to begin one.
FairSpec == Spec /\ \A r \in Runs : WF_vars(RunStep(r))

-------------------------------------------------------------------------------
(* What has to hold *)

TypeOK ==
    /\ dest \in Inodes \cup {None}
    /\ part \in Inodes \cup {None}
    /\ content \in [Inodes -> SUBSET (1 .. Chunks)]
    /\ pc \in [Runs -> {"off", "open", "stream", "replace", "unlink"}]
    /\ handle \in [Runs -> Inodes \cup {None}]
    /\ position \in [Runs -> 0 .. Chunks]
    /\ \A r \in Runs : pc[r] = "off" => handle[r] = None

\* "So a partial file never looks complete" (_download.py:160): what the loader finds
\* under the model's name is the whole file, whatever failed or was killed on the way, if
\* a stream that ends early is noticed and no two runs were under way at once.
ResolvedIsWhole ==
    Checked /\ ~overlapped /\ dest # None => content[dest] = 1 .. Chunks
=============================================================================
