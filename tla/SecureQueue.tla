------------------------------ MODULE SecureQueue ------------------------------
(***************************************************************************)
(* The agent's offline queue (nexdefend-agent/internal/queue): a directory *)
(* of AES-GCM sealed files, one per event, named by time.Now().UnixNano()  *)
(* and listed by ReadDir in the order of their names.  Names only matter   *)
(* through that order, so the directory is the sequence of its files,      *)
(* oldest first.  Enqueue and Dequeue hold the queue's mutex from their    *)
(* first to their last line: each is one step.                             *)
(*                                                                         *)
(* The clock never steps back.  It may stand still between two calls (the  *)
(* Windows build's clock has a coarse tick): the second file then replaces *)
(* the first, a "collision".  A failing WriteFile may leave a torn file.   *)
(***************************************************************************)
EXTENDS Naturals, Sequences

CONSTANTS
  Events,         \* the events the agent can capture
  NoEvent,        \* the content of a torn file, and an empty hand
  MaxDiskFaults,  \* bound: failing WriteFile calls
  MaxCollisions   \* bound: pairs of Enqueue calls in one tick of the clock

ASSUME QueueAssumption ==
  /\ NoEvent \notin Events
  /\ MaxDiskFaults \in Nat
  /\ MaxCollisions \in Nat

VARIABLES
  dir,         \* the files of ./event_queue, oldest name first
  key,         \* the encryption key of this run of the process, numbered
  diskFaults,  \* how many WriteFile calls have failed
  collisions   \* how many files were replaced by one of the same name

queueVars == <<dir, key, diskFaults, collisions>>

--------------------------------------------------------------------------------

\* What one file holds: an event sealed under the key of the run that wrote it.
File == [data : Events \cup {NoEvent}, key : Nat]

Sealed(e) == [data |-> e, key |-> key]

\* gcm.Open succeeds only on a whole file and under the key that sealed it.
Decrypts(f) == f.data # NoEvent /\ f.key = key

\* The oldest file exists and decrypts: what Dequeue needs.
HeadDecrypts == dir # <<>> /\ Decrypts(Head(dir))

\* The events in the files q, readable or not.
Contents(q) == {q[i].data : i \in 1..Len(q)} \ {NoEvent}

Queued == Contents(dir)

\* No event is in two files.
OneFileEach(q) ==
  \A i, j \in 1..Len(q) : q[i].data = q[j].data /\ q[i].data # NoEvent => i = j

\* Enqueue writes a new file behind all others.
WriteNewFile(e) ==
  /\ dir' = Append(dir, Sealed(e))
  /\ UNCHANGED <<key, diskFaults, collisions>>

\* Enqueue within the same clock tick as the last one: WriteFile truncates
\* the file of the same name.
OverwriteNewest(e) ==
  /\ collisions < MaxCollisions
  /\ dir # <<>>
  /\ dir[Len(dir)].key = key
  /\ dir' = [dir EXCEPT ![Len(dir)] = Sealed(e)]
  /\ collisions' = collisions + 1
  /\ UNCHANGED <<key, diskFaults>>

\* WriteFile returns an error: before the file exists, or with it half written.
WriteFails ==
  /\ diskFaults < MaxDiskFaults
  /\ diskFaults' = diskFaults + 1
  /\ dir' \in {dir, Append(dir, Sealed(NoEvent))}
  /\ UNCHANGED <<key, collisions>>

\* Enqueue(data), which returns nil (ok) or WriteFile's error.
Enqueue(e, ok) ==
  IF ok THEN WriteNewFile(e) \/ OverwriteNewest(e) ELSE WriteFails

\* A Dequeue that forgets os.Remove.
DequeueKeepsFile(e) ==
  /\ HeadDecrypts
  /\ e = Head(dir).data
  /\ UNCHANGED queueVars

\* Dequeue returns the oldest file's event and removes the file.
Dequeue(e) ==
  /\ HeadDecrypts
  /\ e = Head(dir).data
  /\ dir' = Tail(dir)
  /\ UNCHANGED <<key, diskFaults, collisions>>

\* Dequeue returns (nil, nil) on an empty directory, and (nil, err) when the
\* oldest file does not decrypt; that file is left where it is.
DequeueNothing ==
  /\ ~HeadDecrypts
  /\ UNCHANGED queueVars

\* ReadDir, ReadFile or Remove returns an error: the file stays where it is.
DequeueFails == UNCHANGED queueVars

QueueInit ==
  /\ dir = <<>>
  /\ key = 0
  /\ diskFaults = 0
  /\ collisions = 0

\* A new process draws a new random key and finds the old directory.
QueueRestart ==
  /\ key' = key + 1
  /\ UNCHANGED <<dir, diskFaults, collisions>>

QueueTypeOK ==
  /\ dir \in Seq(File)
  /\ key \in Nat
  /\ diskFaults \in 0..MaxDiskFaults
  /\ collisions \in 0..MaxCollisions

================================================================================
