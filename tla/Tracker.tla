------------------------------ MODULE Tracker ------------------------------
(***************************************************************************)
(* The request tracker (crates/xrouter-server/src/track.rs): requests are  *)
(* recorded into a buffer, which is moved to a file by the recorder that   *)
(* fills it and by a task once a second, and GET /admin/track reads the    *)
(* file and then the buffer.  A batch is taken out of the buffer under its *)
(* lock, and written, a frame at the end of the file, without it.  A frame *)
(* may be torn by a write that fails half-way, or by the end of the        *)
(* process, and then read_all can make little of what comes after it.      *)
(* Entries are numbered in the order they are recorded.                    *)
(***************************************************************************)
EXTENDS Integers, Sequences, FiniteSets

CONSTANTS
  Recorder,      (* Threads that record requests.                          *)
  Reader,        (* Requests for /admin/track.                             *)
  FullAt,        (* Entries that fill the buffer (100 in the code).        *)
  MaxRecords     (* Bounds the model: requests recorded.                   *)

ASSUME TrackerAssumption == FullAt \in Nat \ {0} /\ MaxRecords \in Nat

VARIABLES
  recorded,      (* Requests recorded so far.                              *)
  buffer,
  batch,         (* What each writer has taken out of it.                  *)
  track,         (* track.bin: the entries of its whole frames ...         *)
  torn,          (* ... and after how many of them there is a torn one.    *)
  reads,         (* Each reader's answer so far, and its step.             *)
  lost           (* Entries a failed write or a crash has dropped.         *)

trackVars == <<recorded, buffer, batch, track, torn, reads, lost>>

(* The task that flushes once a second is a writer like the recorders.     *)
Writer == Recorder \cup {"flush"}
Entries(s) == {s[n] : n \in DOMAIN s}

TrackInit ==
  /\ recorded = 0 /\ buffer = <<>> /\ track = <<>> /\ torn = {} /\ lost = {}
  /\ batch = [w \in Writer |-> <<>>]
  /\ reads = [r \in Reader |-> [at |-> "idle", answer |-> <<>>]]

TakenBy(w, entries) == batch' = [batch EXCEPT ![w] = entries]

RecordEntry(w) ==
  /\ w \in Recorder /\ batch[w] = <<>>
  /\ recorded < MaxRecords
  /\ recorded' = recorded + 1
  /\ LET filled == Append(buffer, recorded + 1) IN
     IF Len(filled) >= FullAt
     THEN TakenBy(w, filled) /\ buffer' = <<>>
     ELSE buffer' = filled /\ UNCHANGED batch
  /\ UNCHANGED <<track, torn, reads, lost>>

(* Mutant: the buffer is copied and emptied after the write.               *)
FlushCopying ==
  /\ batch["flush"] = <<>> /\ buffer # <<>>
  /\ TakenBy("flush", buffer)
  /\ UNCHANGED <<recorded, buffer, track, torn, reads, lost>>

Flush ==
  /\ batch["flush"] = <<>> /\ buffer # <<>>
  /\ TakenBy("flush", buffer)
  /\ buffer' = <<>>
  /\ UNCHANGED <<recorded, track, torn, reads, lost>>

Tear == torn' = torn \cup {Len(track)}

(* write_entries: all of the frame is written, or nothing, or some of it.  *)
WriteEntries(w) ==
  /\ batch[w] # <<>>
  /\ \/ track' = track \o batch[w] /\ UNCHANGED <<torn, lost>>
     \/ /\ lost' = lost \cup Entries(batch[w]) /\ UNCHANGED track
        /\ UNCHANGED torn \/ Tear
  /\ TakenBy(w, <<>>)
  /\ UNCHANGED <<recorded, buffer, reads>>

(* What read_all makes of the file: everything up to the first torn frame, *)
(* of which the missing bytes are taken from what follows; behind it       *)
(* lengths are read out of the middle of frames, so that it stops, or      *)
(* skips an unknown part before it is at the start of a frame again.       *)
Choices ==
  UNION {{f \in [1..n -> DOMAIN track] : \A i, j \in 1..n : i < j => f[i] < f[j]} : n \in 0..Len(track)}
ReadBack ==
  {[i \in DOMAIN f |-> track[f[i]]] :
     f \in {g \in Choices : \A i \in DOMAIN track :
                             (\A n \in torn : i <= n) => \E j \in DOMAIN g : g[j] = i}}

(* read_all: the file first, then the buffer, with nothing held in between.*)
ReadTrack(r) ==
  /\ reads[r].at = "idle"
  /\ \E found \in ReadBack : reads' = [reads EXCEPT ![r] = [at |-> "file", answer |-> found]]
  /\ UNCHANGED <<recorded, buffer, batch, track, torn, lost>>

ReadBuffer(r) ==
  /\ reads[r].at = "file"
  /\ reads' = [reads EXCEPT ![r] = [at |-> "done", answer |-> @.answer \o buffer]]
  /\ UNCHANGED <<recorded, buffer, batch, track, torn, lost>>

Answer(r) ==
  /\ reads[r].at = "done"
  /\ reads' = [reads EXCEPT ![r] = [at |-> "idle", answer |-> <<>>]]
  /\ UNCHANGED <<recorded, buffer, batch, track, torn, lost>>

(* A process that ends, also one that was asked to, does not flush; it may *)
(* end in the middle of a write.                                           *)
TrackRestart ==
  /\ lost' = lost \cup Entries(buffer) \cup UNION {Entries(batch[w]) : w \in Writer}
  /\ buffer' = <<>>
  /\ batch' = [w \in Writer |-> <<>>]
  /\ reads' = [r \in Reader |-> [at |-> "idle", answer |-> <<>>]]
  /\ UNCHANGED torn \/ ((\E w \in Writer : batch[w] # <<>>) /\ Tear)
  /\ UNCHANGED <<recorded, track>>

TrackNext ==
  \/ \E w \in Recorder : RecordEntry(w)
  \/ Flush
  \/ \E w \in Writer : WriteEntries(w)
  \/ \E r \in Reader : ReadTrack(r) \/ ReadBuffer(r) \/ Answer(r)
-----------------------------------------------------------------------------
Distinct(s) == \A m, n \in DOMAIN s : m # n => s[m] # s[n]

(* Safety: a request counts once.  It is in the file, in the buffer or on  *)
(* its way, in one of them only, or lost with its batch, and no answer of  *)
(* /admin/track has it twice, whatever moves between its two reads and     *)
(* however read_all goes on behind a torn frame.  (An answer may leave out *)
(* entries: those on their way, and what is behind a torn frame.)          *)
CountedOnce ==
  /\ \A n \in 1..recorded :
       Cardinality({w \in Writer : n \in Entries(batch[w])})
         + (IF n \in Entries(buffer) THEN 1 ELSE 0)
         + (IF n \in Entries(track) THEN 1 ELSE 0)
         + (IF n \in lost THEN 1 ELSE 0) = 1
  /\ Distinct(track) /\ Distinct(buffer)
  /\ \A r \in Reader : Distinct(reads[r].answer)
=============================================================================
