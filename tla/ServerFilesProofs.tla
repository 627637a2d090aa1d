-------------------------- MODULE ServerFilesProofs --------------------------
(***************************************************************************)
(* The server's two files, the request log and the snapshot of its model   *)
(* cache, for any number of tasks and restarts.                            *)
(*                                                                         *)
(* A recorded request counts once.  An entry is in one place at a time,    *)
(* and every entry there ever was is in one; a reader that has the file    *)
(* has nothing that is in the buffer, although both go on changing: the    *)
(* file only grows, and what is in the file does not come back.  Behind a  *)
(* torn frame a reader skips entries, but never turns back.                *)
(*                                                                         *)
(* The snapshot never loses a provider unless two saves were under way at  *)
(* once.  What makes it so is that the map in memory covers whatever the   *)
(* snapshot has, also just after a start, and that a lone saver's map      *)
(* still covers it when the temporary file is renamed: nobody else can     *)
(* have put another snapshot, or another temporary file, in between.       *)
(*                                                                         *)
(* What the list of models offers resolves.  That is a matter of names,    *)
(* whatever the cache has come to hold, as long as it lists model ids.     *)
(***************************************************************************)
EXTENDS ServerFiles, FiniteSetTheorems, SequenceTheorems, TLAPS

-----------------------------------------------------------------------------
(* The request log.                                                        *)

Taken(n) == {w \in Writer : n \in Entries(batch[w])}

(* An entry is in one place only, and is somewhere once it is recorded.    *)
Apart(n) ==
  /\ n \in Entries(buffer) => n \notin Entries(track) /\ n \notin lost /\ Taken(n) = {}
  /\ n \in Entries(track) => n \notin lost /\ Taken(n) = {}
  /\ n \in lost => Taken(n) = {}
  /\ \A v, w \in Taken(n) : v = w

Somewhere(n) ==
  n \in Entries(buffer) \/ n \in Entries(track) \/ n \in lost \/ Taken(n) # {}

Typed ==
  /\ recorded \in Nat /\ lost \subseteq Nat
  /\ buffer \in Seq(Nat) /\ Distinct(buffer)
  /\ track \in Seq(Nat) /\ Distinct(track)
  /\ batch \in [Writer -> Seq(Nat)] /\ \A w \in Writer : Distinct(batch[w])

OnePlace == \A n \in Nat : Apart(n) /\ (Somewhere(n) <=> n \in 1..recorded)

Reads ==
  /\ DOMAIN reads = Reader
  /\ \A r \in Reader :
       /\ reads[r].answer \in Seq(Nat) /\ Distinct(reads[r].answer)
       /\ reads[r].at = "file" => Entries(reads[r].answer) \subseteq Entries(track)

TrackInv == Typed /\ OnePlace /\ Reads

-----------------------------------------------------------------------------
LEMMA EmptyEntries == <<>> \in Seq(Nat) /\ Entries(<<>>) = {} /\ Distinct(<<>>)
BY DEF Entries, Distinct

LEMMA AppendEntries ==
  ASSUME NEW s \in Seq(Nat), Distinct(s), NEW e \in Nat, e \notin Entries(s)
  PROVE  /\ Append(s, e) \in Seq(Nat)
         /\ Entries(Append(s, e)) = Entries(s) \cup {e}
         /\ Distinct(Append(s, e))
<1> DEFINE t == Append(s, e)
<1>1. /\ t \in Seq(Nat) /\ DOMAIN t = 1..(Len(s) + 1)
      /\ \A i \in 1..Len(s) : t[i] = s[i]
      /\ t[Len(s) + 1] = e
      /\ DOMAIN s = 1..Len(s) /\ Len(s) \in Nat
  BY AppendProperties
<1> HIDE DEF t
<1>2. \A i \in DOMAIN t : (i \in DOMAIN s /\ t[i] = s[i]) \/ (i = Len(s) + 1 /\ t[i] = e)
  BY <1>1
<1>3. \A i \in DOMAIN s : i \in DOMAIN t
  BY <1>1
<1>4. Len(s) + 1 \in DOMAIN t
  BY <1>1
<1>5. Entries(t) = Entries(s) \cup {e}
  BY <1>1, <1>2, <1>3, <1>4 DEF Entries
<1>6. Distinct(t)
  BY <1>2 DEF Distinct, Entries
<1>7. QED
  BY <1>1, <1>5, <1>6 DEF t

LEMMA ConcatEntries ==
  ASSUME NEW s \in Seq(Nat), NEW t \in Seq(Nat), Distinct(s), Distinct(t),
         Entries(s) \cap Entries(t) = {}
  PROVE  /\ s \o t \in Seq(Nat)
         /\ Entries(s \o t) = Entries(s) \cup Entries(t)
         /\ Distinct(s \o t)
<1> DEFINE u == s \o t
<1>1. /\ u \in Seq(Nat) /\ DOMAIN u = 1..(Len(s) + Len(t))
      /\ \A i \in 1..(Len(s) + Len(t)) : u[i] = IF i <= Len(s) THEN s[i] ELSE t[i - Len(s)]
      /\ DOMAIN s = 1..Len(s) /\ Len(s) \in Nat
      /\ DOMAIN t = 1..Len(t) /\ Len(t) \in Nat
  BY ConcatProperties
<1> HIDE DEF u
<1>2. \A i \in DOMAIN u :
        \/ i \in DOMAIN s /\ u[i] = s[i]
        \/ i \notin DOMAIN s /\ i - Len(s) \in DOMAIN t /\ u[i] = t[i - Len(s)]
  BY <1>1
<1>3. \A i \in DOMAIN s : i \in DOMAIN u /\ u[i] = s[i]
  BY <1>1
<1>4. \A j \in DOMAIN t : j + Len(s) \in DOMAIN u /\ u[j + Len(s)] = t[j]
  <2> TAKE j \in DOMAIN t
  <2>1. j \in Nat /\ 1 <= j /\ j <= Len(t)
    BY <1>1
  <2>2. j + Len(s) \in DOMAIN u /\ ~(j + Len(s) <= Len(s)) /\ (j + Len(s)) - Len(s) = j
    BY <1>1, <2>1
  <2>3. QED
    BY <1>1, <2>2
<1>5. Entries(u) = Entries(s) \cup Entries(t)
  <2>1. ASSUME NEW x \in Entries(u) PROVE x \in Entries(s) \cup Entries(t)
    BY <1>2, <2>1 DEF Entries
  <2>2. ASSUME NEW x \in Entries(s) PROVE x \in Entries(u)
    BY <1>3, <2>2 DEF Entries
  <2>3. ASSUME NEW x \in Entries(t) PROVE x \in Entries(u)
    <3>1. PICK j \in DOMAIN t : x = t[j]
      BY <2>3 DEF Entries
    <3>2. j + Len(s) \in DOMAIN u /\ u[j + Len(s)] = x
      BY <1>4, <3>1
    <3>3. QED
      BY <3>2 DEF Entries
  <2>4. QED
    BY <2>1, <2>2, <2>3
<1>6. Distinct(u)
  <2> SUFFICES ASSUME NEW i \in DOMAIN u, NEW j \in DOMAIN u, u[i] = u[j] PROVE i = j
    BY DEF Distinct
  <2>1. CASE i \in DOMAIN s /\ j \in DOMAIN s
    BY <1>3, <2>1 DEF Distinct
  <2>2. CASE i \notin DOMAIN s /\ j \notin DOMAIN s
    <3>1. i - Len(s) = j - Len(s)
      BY <1>2, <2>2 DEF Distinct
    <3>2. QED
      BY <3>1, <1>1
  <2>3. CASE i \in DOMAIN s /\ j \notin DOMAIN s
    BY <1>2, <1>3, <2>3 DEF Entries
  <2>4. CASE i \notin DOMAIN s /\ j \in DOMAIN s
    BY <1>2, <1>3, <2>4 DEF Entries
  <2>5. QED
    BY <2>1, <2>2, <2>3, <2>4
<1>7. QED
  BY <1>1, <1>5, <1>6 DEF u

-----------------------------------------------------------------------------
LEMMA TrackInitFine ==
  ASSUME Init
  PROVE  TrackInv
<1>1. \A w \in Writer : batch[w] = <<>>
  BY DEF Init, TrackInit
<1>2. Typed
  BY <1>1, EmptyEntries DEF Init, TrackInit, Typed
<1>3. OnePlace
  <2>1. \A n \in Nat : Taken(n) = {}
    BY <1>1, EmptyEntries DEF Taken
  <2>2. Entries(buffer) = {} /\ Entries(track) = {} /\ lost = {} /\ recorded = 0
    BY EmptyEntries DEF Init, TrackInit
  <2>3. QED
    BY <2>1, <2>2 DEF OnePlace, Apart, Somewhere
<1>4. Reads
  <2>1. \A r \in Reader : reads[r].at = "idle" /\ reads[r].answer = <<>>
    BY DEF Init, TrackInit
  <2>2. QED
    BY <2>1, EmptyEntries DEF Init, TrackInit, Reads
<1>5. QED
  BY <1>2, <1>3, <1>4 DEF TrackInv

(* A reader's answer holds nothing but what was in the file.               *)
LEMMA ReadsStand ==
  ASSUME TrackInv, UNCHANGED reads, Entries(track) \subseteq Entries(track')
  PROVE  Reads'
<1>1. \A r \in Reader : reads'[r].at = "file" => Entries(reads[r].answer) \subseteq Entries(track')
  BY DEF TrackInv, Reads
<1>2. \A r \in Reader : Entries(reads'[r].answer) = Entries(reads[r].answer)
  BY DEF Entries
<1>3. \A r \in Reader : Distinct(reads'[r].answer)
  BY DEF TrackInv, Reads, Distinct
<1>4. QED
  BY <1>1, <1>2, <1>3 DEF TrackInv, Reads

(* A reader goes on with an answer of its own.                             *)
LEMMA ReadMoves ==
  ASSUME TrackInv, NEW r \in Reader, NEW c, c.answer \in Seq(Nat), Distinct(c.answer),
         c.at = "file" => Entries(c.answer) \subseteq Entries(track),
         reads' = [reads EXCEPT ![r] = c], UNCHANGED track
  PROVE  Reads'
<1>1. DOMAIN reads' = Reader
  BY DEF TrackInv, Reads
<1>2. reads'[r] = c
  BY DEF TrackInv, Reads
<1>3. \A q \in Reader : q # r => reads'[q] = reads[q]
  BY DEF TrackInv, Reads
<1>4. Entries(track') = Entries(track)
  BY DEF Entries
<1>5. ASSUME NEW q \in Reader
      PROVE  /\ reads'[q].answer \in Seq(Nat) /\ Distinct(reads'[q].answer)
             /\ reads'[q].at = "file" => Entries(reads'[q].answer) \subseteq Entries(track')
  <2>1. CASE q = r
    BY <1>2, <1>4, <2>1
  <2>2. CASE q # r
    BY <1>3, <1>4, <2>2 DEF TrackInv, Reads
  <2>3. QED
    BY <2>1, <2>2
<1>6. QED
  BY <1>1, <1>5 DEF Reads

(* What does not touch the entries leaves them where they are.             *)
LEMMA EntriesUntouched ==
  ASSUME TrackInv, UNCHANGED <<recorded, buffer, batch, track, lost>>
  PROVE  Typed' /\ OnePlace'
<1>1. Typed'
  BY DEF TrackInv, Typed, Distinct
<1>2. Entries(buffer') = Entries(buffer) /\ Entries(track') = Entries(track)
  BY DEF Entries
<1>3. \A n \in Nat : Taken(n)' = Taken(n)
  BY DEF Taken, Entries, Writer
<1>4. OnePlace'
  BY <1>2, <1>3 DEF TrackInv, OnePlace, Apart, Somewhere
<1>5. QED
  BY <1>1, <1>4

(* The next entry is nowhere yet.                                          *)
LEMMA NextIsNew ==
  ASSUME TrackInv
  PROVE  recorded + 1 \in Nat /\ ~Somewhere(recorded + 1)
BY DEF TrackInv, Typed, OnePlace

(* A batch is taken by a writer that has none.                             *)
LEMMA BatchTaken ==
  ASSUME TrackInv, NEW w \in Writer, NEW s \in Seq(Nat), Distinct(s), TakenBy(w, s),
         batch[w] = <<>> \/ s = <<>>
  PROVE  /\ batch' \in [Writer -> Seq(Nat)] /\ \A v \in Writer : Distinct(batch'[v])
         /\ \A n \in Nat : Taken(n)' = (Taken(n) \ {w}) \cup (IF n \in Entries(s) THEN {w} ELSE {})
<1>1. batch' = [v \in Writer |-> IF v = w THEN s ELSE batch[v]]
  BY DEF TrackInv, Typed, TakenBy
<1>2. batch' \in [Writer -> Seq(Nat)] /\ \A v \in Writer : Distinct(batch'[v])
  BY <1>1 DEF TrackInv, Typed
<1>3. \A n \in Nat, v \in Writer : v \in Taken(n)' <=> n \in Entries(batch'[v])
  BY DEF Taken, Writer, Entries
<1>4. \A n \in Nat : Taken(n)' = (Taken(n) \ {w}) \cup (IF n \in Entries(s) THEN {w} ELSE {})
  <2> TAKE n \in Nat
  <2>1. \A v \in Writer : n \in Entries(batch'[v]) <=>
          IF v = w THEN n \in Entries(s) ELSE n \in Entries(batch[v])
    BY <1>1
  <2>2. Taken(n)' \subseteq Writer /\ Taken(n) \subseteq Writer
    BY DEF Taken, Writer
  <2>3. \A v \in Writer : v \in Taken(n) <=> n \in Entries(batch[v])
    BY DEF Taken
  <2>4. \A v \in Writer : v \in Taken(n)' <=> IF v = w THEN n \in Entries(s) ELSE v \in Taken(n)
    BY <1>3, <2>1, <2>3
  <2>5. QED
    BY <2>2, <2>4
<1>5. QED
  BY <1>2, <1>4

-----------------------------------------------------------------------------
(* record: the entry goes into the buffer, or with it into a batch.        *)
LEMMA RecordKeeps ==
  ASSUME TrackInv, NEW w \in Recorder, RecordEntry(w)
  PROVE  TrackInv'
<1> DEFINE e == recorded + 1
           filled == Append(buffer, e)
<1>0. w \in Writer /\ batch[w] = <<>>
  BY DEF Writer, RecordEntry
<1>1. e \in Nat /\ ~Somewhere(e)
  BY NextIsNew
<1>2. filled \in Seq(Nat) /\ Entries(filled) = Entries(buffer) \cup {e} /\ Distinct(filled)
  BY <1>1, AppendEntries DEF TrackInv, Typed, Somewhere
<1>3. recorded' = e /\ UNCHANGED <<track, reads, lost>>
  BY DEF RecordEntry
<1>4. \A n \in Nat : n \in 1..recorded' <=> n \in 1..recorded \/ n = e
  BY <1>3 DEF TrackInv, Typed
<1>5. \/ TakenBy(w, filled) /\ buffer' = <<>>
      \/ buffer' = filled /\ UNCHANGED batch
  BY DEF RecordEntry
<1> HIDE DEF e, filled
<1>6. CASE TakenBy(w, filled) /\ buffer' = <<>>
  <2>1. /\ batch' \in [Writer -> Seq(Nat)] /\ \A v \in Writer : Distinct(batch'[v])
        /\ \A n \in Nat : Taken(n)' = (Taken(n) \ {w}) \cup (IF n \in Entries(filled) THEN {w} ELSE {})
    BY <1>0, <1>2, <1>6, BatchTaken
  <2>2. \A n \in Nat : w \notin Taken(n)
    BY <1>0, EmptyEntries DEF Taken
  <2>3. Typed'
    BY <1>1, <1>3, <1>6, <2>1, EmptyEntries DEF TrackInv, Typed
  <2>4. Entries(buffer') = {} /\ Entries(track') = Entries(track) /\ lost' = lost
    BY <1>3, <1>6, EmptyEntries
  <2>5. \A n \in Nat : Apart(n)' /\ (Somewhere(n)' <=> Somewhere(n) \/ n = e)
    BY <1>1, <1>2, <2>1, <2>2, <2>4 DEF TrackInv, OnePlace, Apart, Somewhere
  <2>6. OnePlace'
    BY <1>4, <2>5 DEF TrackInv, OnePlace
  <2>7. QED
    BY <1>3, <2>3, <2>6, ReadsStand DEF TrackInv
<1>7. CASE buffer' = filled /\ UNCHANGED batch
  <2>1. Typed'
    BY <1>1, <1>2, <1>3, <1>7 DEF TrackInv, Typed
  <2>2. \A n \in Nat : Taken(n)' = Taken(n)
    BY <1>7 DEF Taken
  <2>3. \A n \in Nat : Apart(n)' /\ (Somewhere(n)' <=> Somewhere(n) \/ n = e)
    BY <1>1, <1>2, <1>3, <1>7, <2>2 DEF TrackInv, OnePlace, Apart, Somewhere
  <2>4. OnePlace'
    BY <1>4, <2>3 DEF TrackInv, OnePlace
  <2>5. QED
    BY <1>3, <2>1, <2>4, ReadsStand DEF TrackInv
<1>8. QED
  BY <1>5, <1>6, <1>7

(* flush takes the buffer as it is and leaves it empty, in one step.       *)
LEMMA FlushKeeps ==
  ASSUME TrackInv, Flush
  PROVE  TrackInv'
<1>1. /\ "flush" \in Writer /\ batch["flush"] = <<>> /\ TakenBy("flush", buffer)
      /\ buffer' = <<>> /\ UNCHANGED <<recorded, track, reads, lost>>
  BY DEF Flush, Writer
<1>2. /\ batch' \in [Writer -> Seq(Nat)] /\ \A v \in Writer : Distinct(batch'[v])
      /\ \A n \in Nat : Taken(n)' = (Taken(n) \ {"flush"})
                                      \cup (IF n \in Entries(buffer) THEN {"flush"} ELSE {})
  BY <1>1, BatchTaken DEF TrackInv, Typed
<1>3. \A n \in Nat : "flush" \notin Taken(n)
  BY <1>1, EmptyEntries DEF Taken
<1>4. Typed'
  BY <1>1, <1>2, EmptyEntries DEF TrackInv, Typed
<1>5. Entries(buffer') = {} /\ Entries(track') = Entries(track) /\ lost' = lost
  BY <1>1, EmptyEntries
<1>6. \A n \in Nat : Apart(n)' /\ (Somewhere(n)' <=> Somewhere(n))
  BY <1>2, <1>3, <1>5 DEF TrackInv, OnePlace, Apart, Somewhere
<1>7. OnePlace'
  BY <1>1, <1>6 DEF TrackInv, OnePlace
<1>8. QED
  BY <1>1, <1>4, <1>7, ReadsStand DEF TrackInv

(* write_entries: the batch reaches the end of the file, or is lost.       *)
LEMMA WriteKeeps ==
  ASSUME TrackInv, NEW w \in Writer, WriteEntries(w)
  PROVE  TrackInv'
<1>1. TakenBy(w, <<>>) /\ UNCHANGED <<recorded, buffer, reads>>
  BY DEF WriteEntries
<1>2. /\ batch' \in [Writer -> Seq(Nat)] /\ \A v \in Writer : Distinct(batch'[v])
      /\ \A n \in Nat : Taken(n)' = Taken(n) \ {w}
  <2>1. <<>> \in Seq(Nat) /\ Distinct(<<>>) /\ TakenBy(w, <<>>)
    BY <1>1, EmptyEntries
  <2>2. /\ batch' \in [Writer -> Seq(Nat)] /\ \A v \in Writer : Distinct(batch'[v])
        /\ \A n \in Nat : Taken(n)' = (Taken(n) \ {w})
                                          \cup (IF n \in Entries(<<>>) THEN {w} ELSE {})
    BY <2>1, BatchTaken
  <2>3. \A n \in Nat : n \notin Entries(<<>>)
    BY EmptyEntries
  <2>4. QED
    BY <2>2, <2>3
<1>3. batch[w] \in Seq(Nat) /\ Distinct(batch[w])
  BY DEF TrackInv, Typed
<1>4. \A n \in Nat : n \in Entries(batch[w]) <=> w \in Taken(n)
  BY DEF Taken
<1>5. Entries(batch[w]) \subseteq Nat
  BY <1>3 DEF Entries
<1>6. \A n \in Nat : w \in Taken(n) => Taken(n) = {w}
  BY DEF TrackInv, OnePlace, Apart
<1>7. CASE track' = track \o batch[w] /\ UNCHANGED lost
  <2>1. Entries(track) \cap Entries(batch[w]) = {}
    BY <1>4, <1>5 DEF TrackInv, OnePlace, Apart
  <2>2. /\ track' \in Seq(Nat) /\ Distinct(track')
        /\ Entries(track') = Entries(track) \cup Entries(batch[w])
    BY <1>3, <1>7, <2>1, ConcatEntries DEF TrackInv, Typed
  <2>3. Typed'
    BY <1>1, <1>2, <1>7, <2>2 DEF TrackInv, Typed
  <2>4. \A n \in Nat : Apart(n)' /\ (Somewhere(n)' <=> Somewhere(n))
    BY <1>1, <1>2, <1>4, <1>6, <1>7, <2>2 DEF TrackInv, OnePlace, Apart, Somewhere
  <2>5. OnePlace'
    BY <1>1, <2>4 DEF TrackInv, OnePlace
  <2>6. QED
    BY <1>1, <2>2, <2>3, <2>5, ReadsStand DEF TrackInv
<1>8. CASE lost' = lost \cup Entries(batch[w]) /\ UNCHANGED track
  <2>1. Typed'
    BY <1>1, <1>2, <1>5, <1>8 DEF TrackInv, Typed
  <2>2. \A n \in Nat : Apart(n)' /\ (Somewhere(n)' <=> Somewhere(n))
    BY <1>1, <1>2, <1>4, <1>6, <1>8 DEF TrackInv, OnePlace, Apart, Somewhere
  <2>3. OnePlace'
    BY <1>1, <2>2 DEF TrackInv, OnePlace
  <2>4. QED
    BY <1>1, <1>8, <2>1, <2>3, ReadsStand DEF TrackInv
<1>9. QED
  BY <1>7, <1>8 DEF WriteEntries

(* What a reader makes of the file has nothing twice.                      *)
LEMMA ReadBackDistinct ==
  ASSUME TrackInv, NEW s \in ReadBack
  PROVE  s \in Seq(Nat) /\ Distinct(s) /\ Entries(s) \subseteq Entries(track)
<1>1. PICK f \in Choices : s = [i \in DOMAIN f |-> track[f[i]]]
  BY DEF ReadBack
<1>2. PICK n \in 0..Len(track) :
        f \in [1..n -> DOMAIN track] /\ \A i, j \in 1..n : i < j => f[i] < f[j]
  BY <1>1 DEF Choices
<1>3. /\ track \in Seq(Nat) /\ Distinct(track) /\ Len(track) \in Nat
      /\ DOMAIN track = 1..Len(track) /\ \A i \in DOMAIN track : track[i] \in Nat
  BY DEF TrackInv, Typed
<1>4. /\ n \in Nat /\ DOMAIN f = 1..n /\ DOMAIN s = 1..n
      /\ \A i \in 1..n : f[i] \in DOMAIN track /\ s[i] = track[f[i]]
  BY <1>1, <1>2, <1>3
<1>5. s \in Seq(Nat)
  <2>1. s \in [1..n -> Nat]
    BY <1>1, <1>3, <1>4
  <2>2. QED
    BY <1>4, <2>1
<1>6. Distinct(s)
  <2> SUFFICES ASSUME NEW i \in 1..n, NEW j \in 1..n, i # j PROVE s[i] # s[j]
    BY <1>4 DEF Distinct
  <2>1. i < j \/ j < i
    BY <1>4
  <2>2. f[i] # f[j]
    BY <1>2, <1>3, <1>4, <2>1
  <2>3. QED
    BY <1>3, <1>4, <2>2 DEF Distinct
<1>7. Entries(s) \subseteq Entries(track)
  BY <1>4 DEF Entries
<1>8. QED
  BY <1>5, <1>6, <1>7

(* read_all: what is in the file is not in the buffer, then or later.      *)
LEMMA ReaderKeeps ==
  ASSUME TrackInv, NEW r \in Reader, ReadTrack(r) \/ ReadBuffer(r) \/ Answer(r)
  PROVE  TrackInv'
<1>1. UNCHANGED <<recorded, buffer, batch, track, lost>>
  BY DEF ReadTrack, ReadBuffer, Answer
<1>2. Typed' /\ OnePlace'
  BY <1>1, EntriesUntouched
<1>3. CASE ReadTrack(r)
  <2>1. PICK found \in ReadBack : reads' = [reads EXCEPT ![r] = [at |-> "file", answer |-> found]]
    BY <1>3 DEF ReadTrack
  <2>2. found \in Seq(Nat) /\ Distinct(found) /\ Entries(found) \subseteq Entries(track)
    BY ReadBackDistinct
  <2>3. PICK c : c = [at |-> "file", answer |-> found]
    OBVIOUS
  <2>4. reads' = [reads EXCEPT ![r] = c] /\ c.answer = found
    BY <2>1, <2>3
  <2>5. QED
    BY <1>1, <1>2, <2>2, <2>4, ReadMoves DEF TrackInv
<1>4. CASE ReadBuffer(r)
  <2>1. PICK s : s = reads[r].answer
    OBVIOUS
  <2>2. s \in Seq(Nat) /\ Distinct(s) /\ Entries(s) \subseteq Entries(track)
    BY <1>4, <2>1 DEF ReadBuffer, TrackInv, Reads
  <2>3. Entries(track) \subseteq Nat /\ Entries(buffer) \subseteq Nat
    BY DEF TrackInv, Typed, Entries
  <2>4. Entries(s) \cap Entries(buffer) = {}
    BY <2>2, <2>3 DEF TrackInv, OnePlace, Apart
  <2>5. PICK a \in Seq(Nat) : a = s \o buffer /\ Distinct(a)
    BY <2>2, <2>4, ConcatEntries DEF TrackInv, Typed
  <2>6. PICK c : c = [at |-> "done", answer |-> a]
    OBVIOUS
  <2>7. reads' = [reads EXCEPT ![r] = c]
    BY <1>4, <2>1, <2>5, <2>6 DEF ReadBuffer, TrackInv, Reads
  <2>8. c.answer = a /\ c.at # "file"
    BY <2>6
  <2>9. QED
    BY <1>1, <1>2, <2>5, <2>7, <2>8, ReadMoves DEF TrackInv
<1>5. CASE Answer(r)
  <2>1. PICK c : c = [at |-> "idle", answer |-> <<>>]
    OBVIOUS
  <2>2. reads' = [reads EXCEPT ![r] = c]
    BY <1>5, <2>1 DEF Answer
  <2>3. c.answer = <<>> /\ c.at # "file"
    BY <2>1
  <2>4. QED
    BY <1>1, <1>2, <2>2, <2>3, EmptyEntries, ReadMoves DEF TrackInv
<1>6. QED
  BY <1>3, <1>4, <1>5

(* A process that ends loses the buffer and the batches, nothing else.     *)
LEMMA TrackRestartKeeps ==
  ASSUME TrackInv, TrackRestart
  PROVE  TrackInv'
<1>1. /\ buffer' = <<>> /\ UNCHANGED <<recorded, track>>
      /\ \A w \in Writer : batch'[w] = <<>>
      /\ batch' \in [Writer -> Seq(Nat)]
  BY EmptyEntries DEF TrackRestart
<1>2. \A n \in Nat : Taken(n)' = {}
  <2>1. Writer' = Writer
    BY DEF Writer
  <2>2. QED
    BY <1>1, <2>1, EmptyEntries DEF Taken
<1>3. \A n \in Nat : n \in lost' <=> n \in lost \/ n \in Entries(buffer) \/ Taken(n) # {}
  BY DEF TrackRestart, Taken
<1>4. lost' \subseteq Nat
  <2>1. Entries(buffer) \subseteq Nat /\ \A w \in Writer : Entries(batch[w]) \subseteq Nat
    BY DEF TrackInv, Typed, Entries
  <2>2. QED
    BY <2>1 DEF TrackInv, Typed, TrackRestart
<1>5. Typed'
  BY <1>1, <1>4, EmptyEntries DEF TrackInv, Typed
<1>6. Entries(buffer') = {} /\ Entries(track') = Entries(track)
  BY <1>1, EmptyEntries
<1>7. \A n \in Nat : Apart(n)' /\ (Somewhere(n)' <=> Somewhere(n))
  BY <1>2, <1>3, <1>6 DEF TrackInv, OnePlace, Apart, Somewhere
<1>8. OnePlace'
  BY <1>1, <1>7 DEF TrackInv, OnePlace
<1>9. Reads'
  <2>1. \A r \in Reader : reads'[r].at = "idle" /\ reads'[r].answer = <<>>
    BY DEF TrackRestart
  <2>2. DOMAIN reads' = Reader
    BY DEF TrackRestart
  <2>3. QED
    BY <2>1, <2>2, EmptyEntries DEF Reads
<1>10. QED
  BY <1>5, <1>8, <1>9 DEF TrackInv

LEMMA TrackStepKeeps ==
  ASSUME TrackInv, [Next]_vars
  PROVE  TrackInv'
<1>1. CASE UNCHANGED trackVars
  BY <1>1, EntriesUntouched, ReadsStand DEF trackVars, TrackInv
<1>2. CASE TrackNext
  BY <1>2, RecordKeeps, FlushKeeps, WriteKeeps, ReaderKeeps DEF TrackNext
<1>3. CASE Restart
  BY <1>3, TrackRestartKeeps DEF Restart
<1>4. QED
  BY <1>1, <1>2, <1>3 DEF Next, vars

-----------------------------------------------------------------------------
(* What is in one place only is counted once.                              *)
LEMMA OnePlaceCounts ==
  ASSUME TrackInv
  PROVE  CountedOnce
<1>1. ASSUME NEW n \in 1..recorded
      PROVE  Cardinality({w \in Writer : n \in Entries(batch[w])})
               + (IF n \in Entries(buffer) THEN 1 ELSE 0)
               + (IF n \in Entries(track) THEN 1 ELSE 0)
               + (IF n \in lost THEN 1 ELSE 0) = 1
  <2>1. n \in Nat /\ Apart(n) /\ Somewhere(n)
    BY DEF TrackInv, OnePlace
  <2>2. CASE Taken(n) = {}
    <3>1. Cardinality({w \in Writer : n \in Entries(batch[w])}) = 0
      BY <2>2, FS_EmptySet DEF Taken
    <3>2. QED
      BY <2>1, <2>2, <3>1 DEF Apart, Somewhere
  <2>3. CASE Taken(n) # {}
    <3>1. PICK w : Taken(n) = {w}
      BY <2>1, <2>3 DEF Apart
    <3>2. Cardinality({v \in Writer : n \in Entries(batch[v])}) = 1
      BY <3>1, FS_Singleton DEF Taken
    <3>3. QED
      BY <2>1, <2>3, <3>2 DEF Apart
  <2>4. QED
    BY <2>2, <2>3
<1>2. QED
  BY <1>1 DEF TrackInv, Typed, Reads, CountedOnce

(* Whatever moves between buffer, batches and file, and wherever a process *)
(* ends, a recorded request counts once, also in every answer of           *)
(* /admin/track.                                                           *)
THEOREM CountedOnceAlways == Spec => []CountedOnce
<1>1. Init => TrackInv
  BY TrackInitFine
<1>2. TrackInv /\ [Next]_vars => TrackInv'
  BY TrackStepKeeps
<1>3. TrackInv => CountedOnce
  BY OnePlaceCounts
<1>4. QED
  BY <1>1, <1>2, <1>3, PTL DEF Spec

-----------------------------------------------------------------------------
(* The model cache.                                                        *)

Covered(map) == \A kept \in snapshot : DOMAIN kept \subseteq DOMAIN map

(* A file holds one map, or is not there.                                  *)
AFile(f) == \A a, b \in f : a = b

LoneSaver == \A q, r \in Refresh : Saving(q) /\ Saving(r) => q = r

CacheInv ==
  /\ AFile(snapshot) /\ AFile(tmp)
  /\ DOMAIN task = Refresh
  /\ \A r \in Refresh : DOMAIN task[r] = {"at", "todo", "map"}
  /\ ~overlapped =>
       /\ LoneSaver
       /\ Covered(known)
       /\ \A r \in Refresh : task[r].at \in {"write", "rename"} =>
            /\ Covered(task[r].map)
            /\ DOMAIN task[r].map \subseteq DOMAIN known
       /\ \A r \in Refresh : task[r].at = "rename" => tmp = {task[r].map}

Keeps == ~overlapped' => Saved(snapshot) \subseteq Saved(snapshot')

(* A refresh takes a step in its own record.                               *)
Steps(r, at, map) ==
  /\ DOMAIN task' = Refresh
  /\ \A q \in Refresh : q # r => task'[q] = task[q]
  /\ DOMAIN task'[r] = {"at", "todo", "map"}
  /\ task'[r].at = at /\ task'[r].map = map

-----------------------------------------------------------------------------
LEMMA CacheInitFine ==
  ASSUME Init
  PROVE  CacheInv
<1>1. \A r \in Refresh : task[r] = NoTask
  BY DEF Init, CacheInit
<1>2. NoTask.at = "fetch" /\ DOMAIN NoTask = {"at", "todo", "map"}
  BY DEF NoTask
<1>3. snapshot = {} /\ tmp = {} /\ DOMAIN task = Refresh
  BY DEF Init, CacheInit
<1>4. LoneSaver
  BY <1>1, <1>2 DEF LoneSaver, Saving
<1>5. QED
  BY <1>1, <1>2, <1>3, <1>4 DEF CacheInv, AFile, Covered

(* Steps that change neither the map, the files nor the saves in hand.     *)
LEMMA Asides ==
  ASSUME CacheInv, NEW r \in Refresh, Steps(r, task[r].at, task[r].map),
         UNCHANGED <<known, snapshot, tmp, overlapped>>
  PROVE  CacheInv' /\ Keeps
<1>1. \A q \in Refresh : task'[q].at = task[q].at /\ task'[q].map = task[q].map
  BY DEF Steps
<1>2. \A q \in Refresh : DOMAIN task'[q] = {"at", "todo", "map"}
  BY DEF Steps, CacheInv
<1>3. LoneSaver' <=> LoneSaver
  BY <1>1 DEF LoneSaver, Saving
<1>4. CacheInv'
  BY <1>1, <1>2, <1>3 DEF CacheInv, AFile, Covered, Steps
<1>5. QED
  BY <1>4 DEF Keeps, Saved

LEMMA BeginKeeps ==
  ASSUME CacheInv, NEW r \in Refresh, BeginRefresh(r)
  PROVE  CacheInv' /\ Keeps
<1>1. Steps(r, task[r].at, task[r].map)
  BY DEF BeginRefresh, CacheInv, Steps
<1>2. QED
  BY <1>1, Asides DEF BeginRefresh

LEMMA FetchFailsKeeps ==
  ASSUME CacheInv, NEW r \in Refresh, NEW p, FetchFails(r, p)
  PROVE  CacheInv' /\ Keeps
<1>1. Steps(r, task[r].at, task[r].map)
  BY DEF FetchFails, CacheInv, Steps
<1>2. QED
  BY <1>1, Asides DEF FetchFails

(* The map in memory grows; a save begins, alone or not.                   *)
LEMMA FetchedKeeps ==
  ASSUME CacheInv, NEW r \in Refresh, NEW p, NEW models, Fetched(r, p, models)
  PROVE  CacheInv' /\ Keeps
<1>1. Steps(r, "gather", task[r].map)
  BY DEF Fetched, CacheInv, Steps
<1>2. DOMAIN known \subseteq DOMAIN known' /\ UNCHANGED <<snapshot, tmp>>
  BY DEF Fetched
<1>3. ~overlapped' => ~overlapped /\ \A q \in Refresh \ {r} : ~Saving(q)
  BY DEF Fetched
<1>4. \A q \in Refresh : DOMAIN task'[q] = {"at", "todo", "map"}
  BY <1>1 DEF CacheInv, Steps
<1>5. ASSUME ~overlapped' PROVE LoneSaver'
  <2>1. \A q \in Refresh : Saving(q)' => q = r
    BY <1>1, <1>3, <1>5 DEF Saving, Steps
  <2>2. QED
    BY <2>1 DEF LoneSaver
<1>6. ~overlapped' => Covered(known)'
  BY <1>2, <1>3 DEF CacheInv, AFile, Covered
<1>7. \A q \in Refresh : task'[q].at \in {"write", "rename"} => q # r /\ task'[q] = task[q]
  BY <1>1 DEF Steps
<1>8. CacheInv'
  BY <1>1, <1>2, <1>3, <1>4, <1>5, <1>6, <1>7 DEF CacheInv, AFile, Covered, Steps
<1>9. QED
  BY <1>2, <1>8 DEF Keeps, Saved

LEMMA GatherKeeps ==
  ASSUME CacheInv, NEW r \in Refresh, Gather(r)
  PROVE  CacheInv' /\ Keeps
<1>1. Steps(r, "write", known) /\ task[r].at = "gather"
  BY DEF Gather, CacheInv, Steps
<1>2. UNCHANGED <<known, snapshot, tmp, overlapped>>
  BY DEF Gather
<1>3. \A q \in Refresh : DOMAIN task'[q] = {"at", "todo", "map"}
  BY <1>1 DEF CacheInv, Steps
<1>4. \A q \in Refresh : Saving(q)' <=> Saving(q)
  BY <1>1 DEF Saving, Steps
<1>5. LoneSaver' <=> LoneSaver
  BY <1>4 DEF LoneSaver
<1>6. CacheInv'
  BY <1>1, <1>2, <1>3, <1>5 DEF CacheInv, AFile, Covered, Steps
<1>7. QED
  BY <1>2, <1>6 DEF Keeps, Saved

(* The lone saver's map goes into the temporary file, or is given up.      *)
LEMMA WriteTmpKeeps ==
  ASSUME CacheInv, NEW r \in Refresh, WriteTmp(r)
  PROVE  CacheInv' /\ Keeps
<1>1. task[r].at = "write" /\ Saving(r) /\ UNCHANGED <<known, snapshot, overlapped>>
  BY DEF WriteTmp, Saving
<1>2. \/ Steps(r, "rename", task[r].map) /\ tmp' = {task[r].map}
      \/ Steps(r, "fetch", EmptyMap) /\ UNCHANGED tmp
  BY DEF WriteTmp, GiveUpSave, CacheInv, Steps
<1>3. \A q \in Refresh : DOMAIN task'[q] = {"at", "todo", "map"}
  BY <1>2 DEF CacheInv, Steps
<1>4. \A q \in Refresh : Saving(q)' => Saving(q)
  BY <1>1, <1>2 DEF Saving, Steps
<1>5. LoneSaver => LoneSaver'
  BY <1>4 DEF LoneSaver
<1>6. ASSUME LoneSaver, NEW q \in Refresh, task'[q].at \in {"write", "rename"}
      PROVE  q = r /\ task'[r].map = task[r].map /\ tmp' = {task'[r].map}
  <2>1. Saving(q)
    BY <1>4, <1>6 DEF Saving
  <2>2. q = r
    BY <1>1, <1>6, <2>1 DEF LoneSaver
  <2>3. QED
    BY <1>2, <1>6, <2>2 DEF Steps
<1>7. CacheInv'
  BY <1>1, <1>2, <1>3, <1>5, <1>6 DEF CacheInv, AFile, Covered, Steps
<1>8. QED
  BY <1>1, <1>7 DEF Keeps, Saved

(* The rename gives the snapshot the lone saver's map, which covers it.    *)
LEMMA RenameTmpKeeps ==
  ASSUME CacheInv, NEW r \in Refresh, RenameTmp(r)
  PROVE  CacheInv' /\ Keeps
<1>1. task[r].at = "rename" /\ Saving(r) /\ UNCHANGED <<known, overlapped>>
  BY DEF RenameTmp, Saving
<1>2. Steps(r, "fetch", EmptyMap)
  BY DEF RenameTmp, GiveUpSave, CacheInv, Steps
<1>3. \A q \in Refresh : DOMAIN task'[q] = {"at", "todo", "map"}
  BY <1>2 DEF CacheInv, Steps
<1>4. ASSUME ~overlapped
      PROVE  /\ snapshot' \in {{task[r].map}, snapshot}
             /\ Covered(task[r].map) /\ DOMAIN task[r].map \subseteq DOMAIN known
             /\ \A q \in Refresh : ~Saving(q)'
  <2>1. tmp = {task[r].map} /\ Covered(task[r].map) /\ DOMAIN task[r].map \subseteq DOMAIN known
    BY <1>1, <1>4 DEF CacheInv
  <2>2. snapshot' \in {{task[r].map}, snapshot}
    BY <2>1 DEF RenameTmp
  <2>3. ASSUME NEW q \in Refresh PROVE ~Saving(q)'
    BY <1>1, <1>2, <1>4 DEF CacheInv, LoneSaver, Saving, Steps
  <2>4. QED
    BY <2>1, <2>2, <2>3
<1>5. CacheInv'
  <2>1. AFile(snapshot)' /\ AFile(tmp)'
    BY DEF RenameTmp, CacheInv, AFile
  <2>2. ASSUME ~overlapped
        PROVE  LoneSaver' /\ Covered(known)'
    BY <1>1, <1>4, <2>2 DEF LoneSaver, Covered
  <2>3. ASSUME ~overlapped, NEW q \in Refresh
        PROVE  task'[q].at \notin {"write", "rename"}
    BY <1>4, <2>3 DEF Saving
  <2>4. QED
    BY <1>1, <1>2, <1>3, <2>1, <2>2, <2>3 DEF CacheInv, Steps
<1>6. Keeps
  BY <1>1, <1>4 DEF Keeps, Saved, Covered
<1>7. QED
  BY <1>5, <1>6

(* A new process starts with the snapshot, and no save in hand.            *)
LEMMA CacheRestartKeeps ==
  ASSUME CacheInv, CacheRestart
  PROVE  CacheInv' /\ Keeps
<1>1. UNCHANGED <<snapshot, tmp, overlapped>> /\ known' = LoadSnapshot
  BY DEF CacheRestart
<1>2. DOMAIN task' = Refresh /\ \A r \in Refresh : task'[r] = NoTask
  BY DEF CacheRestart
<1>3. NoTask.at = "fetch" /\ DOMAIN NoTask = {"at", "todo", "map"}
  BY DEF NoTask
<1>4. ~overlapped => Covered(known)'
  <2>1. CASE snapshot = {}
    BY <1>1, <2>1 DEF Covered
  <2>2. CASE snapshot # {}
    <3>1. \A kept \in snapshot : kept = LoadSnapshot
      BY <2>2 DEF CacheInv, AFile, LoadSnapshot
    <3>2. QED
      BY <1>1, <3>1 DEF Covered
  <2>3. QED
    BY <2>1, <2>2
<1>5. \A r \in Refresh : task'[r].at = "fetch" /\ DOMAIN task'[r] = {"at", "todo", "map"}
  BY <1>2, <1>3
<1>6. LoneSaver'
  BY <1>5 DEF LoneSaver, Saving
<1>7. CacheInv'
  BY <1>1, <1>2, <1>4, <1>5, <1>6 DEF CacheInv, AFile
<1>8. QED
  BY <1>1, <1>7 DEF Keeps, Saved

LEMMA CacheStepKeeps ==
  ASSUME CacheInv, [Next]_vars
  PROVE  CacheInv' /\ Keeps
<1>1. CASE UNCHANGED cacheVars
  <2>1. CacheInv'
    BY <1>1 DEF cacheVars, CacheInv, AFile, Covered, LoneSaver, Saving
  <2>2. QED
    BY <1>1, <2>1 DEF cacheVars, Keeps, Saved
<1>2. ASSUME NEW r \in Refresh,
             \/ BeginRefresh(r) \/ Gather(r) \/ WriteTmp(r) \/ RenameTmp(r)
             \/ \E p \in task[r].todo :
                  FetchFails(r, p) \/ \E models \in Lists : Fetched(r, p, models)
      PROVE  CacheInv' /\ Keeps
  BY <1>2, BeginKeeps, GatherKeeps, WriteTmpKeeps, RenameTmpKeeps, FetchFailsKeeps, FetchedKeeps
<1>3. ASSUME NEW c \in Configs, Reconfigure(c)
      PROVE  CacheInv' /\ Keeps
  <2>1. CacheInv'
    BY <1>3 DEF Reconfigure, CacheInv, AFile, Covered, LoneSaver, Saving
  <2>2. QED
    BY <1>3, <2>1 DEF Reconfigure, Keeps, Saved
<1>4. CASE Restart
  BY <1>4, CacheRestartKeeps DEF Restart
<1>5. QED
  BY <1>1, <1>2, <1>3, <1>4 DEF Next, CacheNext, vars

-----------------------------------------------------------------------------
(* A provider that is in the snapshot stays in it, whatever fails or       *)
(* restarts in between, as long as no two saves were under way at once.    *)
THEOREM SnapshotKeepsAllAlways == Spec => SnapshotKeepsAll
<1>1. Init => CacheInv
  BY CacheInitFine
<1>2. CacheInv /\ [Next]_vars => CacheInv' /\ Keeps
  BY CacheStepKeeps
<1>3. Keeps => [~overlapped' => Saved(snapshot) \subseteq Saved(snapshot')]_cacheVars
  BY DEF Keeps
<1>4. QED
  BY <1>1, <1>2, <1>3, PTL DEF Spec, SnapshotKeepsAll

-----------------------------------------------------------------------------
(* The list of models.  Every map there is, in memory, in a task's hand or *)
(* in a file, lists model ids only.                                        *)
IsMap(map) == \A p \in DOMAIN map : map[p] \subseteq ModelId

ListsInv ==
  /\ cfg \in Configs
  /\ IsMap(known)
  /\ DOMAIN task = Refresh
  /\ \A r \in Refresh : DOMAIN task[r] = {"at", "todo", "map"} /\ IsMap(task[r].map)
  /\ \A map \in snapshot \cup tmp : IsMap(map)

(* There is nothing to list in a map without entries.                      *)
LEMMA EmptyIsMap == IsMap(EmptyMap) /\ DOMAIN NoTask = {"at", "todo", "map"} /\ IsMap(NoTask.map)
  BY DEF IsMap, EmptyMap, NoTask

LEMMA ListsInitFine ==
  ASSUME Init
  PROVE  ListsInv
  BY EmptyIsMap DEF Init, CacheInit, ListsInv

(* A step of a refresh leaves every map one of those there were.           *)
LEMMA TaskListsModels ==
  ASSUME ListsInv, NEW r \in Refresh,
         \/ BeginRefresh(r) \/ Gather(r) \/ WriteTmp(r) \/ RenameTmp(r)
         \/ \E p \in task[r].todo : FetchFails(r, p)
  PROVE  ListsInv'
<1>1. CASE BeginRefresh(r)
  BY <1>1 DEF BeginRefresh, ListsInv, IsMap
<1>2. CASE Gather(r)
  BY <1>2 DEF Gather, ListsInv, IsMap
<1>3. CASE WriteTmp(r)
  BY <1>3, EmptyIsMap DEF WriteTmp, GiveUpSave, ListsInv
<1>4. CASE RenameTmp(r)
  BY <1>4, EmptyIsMap DEF RenameTmp, GiveUpSave, ListsInv
<1>5. ASSUME NEW p \in task[r].todo, FetchFails(r, p)
      PROVE  ListsInv'
  BY <1>5 DEF FetchFails, ListsInv, IsMap
<1>6. QED
  BY <1>1, <1>2, <1>3, <1>4, <1>5

LEMMA ListsStepKeeps ==
  ASSUME ListsInv, [Next]_vars
  PROVE  ListsInv'
<1>1. CASE UNCHANGED cacheVars
  BY <1>1 DEF cacheVars, ListsInv, IsMap
<1>2. ASSUME NEW r \in Refresh, NEW p, NEW models \in Lists, Fetched(r, p, models)
      PROVE  ListsInv'
  <2>1. models \subseteq ModelId
    BY CacheAssumption
  <2>2. IsMap(known')
    BY <1>2, <2>1 DEF Fetched, ListsInv, IsMap
  <2>3. QED
    BY <1>2, <2>2 DEF Fetched, ListsInv
<1>3. ASSUME NEW c \in Configs, Reconfigure(c)
      PROVE  ListsInv'
  BY <1>3 DEF Reconfigure, ListsInv
<1>4. CASE Restart
  <2>1. IsMap(LoadSnapshot)
    BY EmptyIsMap DEF LoadSnapshot, ListsInv
  <2>2. QED
    BY <1>4, <2>1, EmptyIsMap DEF Restart, CacheRestart, ListsInv
<1>5. QED
  BY <1>1, <1>2, <1>3, <1>4, TaskListsModels DEF Next, CacheNext, vars

-----------------------------------------------------------------------------
(* What can be listed is a pair of a provider and a model id.              *)
LEMMA PairsArePairs ==
  ASSUME ListsInv, NEW e \in Pairs(cfg, known)
  PROVE  /\ e = <<e[1], e[2]>> /\ e[2] \in ModelId
         /\ e \in InTiers(cfg) \/ e[1] \in Configured(cfg)
<1>1. CASE e \in InTiers(cfg)
  BY <1>1, CacheAssumption DEF ListsInv
<1>2. CASE e \in InCache(cfg, known)
  BY <1>2 DEF InCache, ListsInv, IsMap
<1>3. QED
  BY <1>1, <1>2 DEF Pairs

(* An address has the provider before the first slash and the model's own  *)
(* id after it, slashes of the id's own included.                          *)
LEMMA AddressParts ==
  ASSUME NEW p, NEW id \in ModelId
  PROVE  /\ Len(Address(p, id).path) > 1
         /\ Head(Address(p, id).path) = p
         /\ [Address(p, id) EXCEPT !.path = Tail(@)] = id
<1> DEFINE S == Name \cup {p}
           path == <<p>> \o id.path
<1>1. id.path \in Seq(S) /\ id.path # <<>> /\ <<p>> \in Seq(S)
  BY DEF ModelId
<1>2. Len(path) > 1 /\ Head(path) = p
  BY <1>1
<1>3. Tail(path) = id.path
  BY <1>1
<1>4. Address(p, id).path = path /\ Address(p, id) = [id EXCEPT !.path = path]
  BY DEF Address, ModelId
<1>5. [[id EXCEPT !.path = path] EXCEPT !.path = id.path] = id
  BY DEF ModelId
<1>6. QED
  BY <1>2, <1>3, <1>4, <1>5

(* An address of a configured provider resolves to its pair, unless it is  *)
(* the name of a tier (resolve_model's second step).                       *)
LEMMA AddressResolves ==
  ASSUME NEW e, e[2] \in ModelId, e[1] \in Configured(cfg),
         ~IsTier(cfg, Address(e[1], e[2]))
  PROVE  Resolve(cfg, known, Address(e[1], e[2])) = Direct(e[1], e[2])
  BY AddressParts DEF Resolve

(* The tags of outcomes tell them apart.                                   *)
LEMMA FoundOutcomes ==
  /\ \A id : Tier(id) \notin {NotFound, Ambiguous}
  /\ \A p, id : Direct(p, id) \notin {NotFound, Ambiguous}
  BY DEF Tier, Direct, NotFound, Ambiguous

(* A bare id that just one pair has resolves to it (resolve_bare).         *)
LEMMA AliasResolves ==
  ASSUME NEW id \in Aliases(Pairs(cfg, known))
  PROVE  Resolve(cfg, known, id) \notin {NotFound, Ambiguous}
<1> DEFINE asIs == BareCandidates(cfg, known, id)
<1>1. PICK e \in Pairs(cfg, known) : e[2] = id
  BY DEF Aliases
<1>2. asIs = {e}
  BY <1>1 DEF Aliases, BareCandidates, Pairs
<1>3. Pick(asIs) = Direct(e[1], e[2])
  BY <1>2 DEF Pick
<1>4. ResolveBare(cfg, known, id) = Direct(e[1], e[2])
  BY <1>2, <1>3 DEF ResolveBare
<1>5. QED
  BY <1>4, FoundOutcomes DEF Resolve

LEMMA ListsResolve ==
  ASSUME ListsInv
  PROVE  ListedResolve
<1>1. ASSUME NEW e \in Pairs(cfg, known), e[1] \in Configured(cfg)
      PROVE  Resolve(cfg, known, Address(e[1], e[2])) \notin {NotFound, Ambiguous}
  <2>1. e[2] \in ModelId
    BY PairsArePairs
  <2>2. CASE IsTier(cfg, Address(e[1], e[2]))
    BY <2>2, FoundOutcomes DEF Resolve
  <2>3. CASE ~IsTier(cfg, Address(e[1], e[2]))
    BY <2>1, <2>3, <1>1, AddressResolves, FoundOutcomes
  <2>4. QED
    BY <2>2, <2>3
<1>2. ASSUME NEW id \in Listed(cfg, known)
      PROVE  \/ Resolve(cfg, known, id) \notin {NotFound, Ambiguous}
             \/ \E e \in InTiers(cfg) : e[1] \notin Configured(cfg) /\ id = Address(e[1], e[2])
  <2>1. CASE id \in {t.name : t \in cfg.tiers}
    <3>1. IsTier(cfg, id)
      BY <2>1 DEF IsTier
    <3>2. QED
      BY <3>1, FoundOutcomes DEF Resolve
  <2>2. CASE id \in {Address(e[1], e[2]) : e \in Pairs(cfg, known)}
    <3>1. PICK e \in Pairs(cfg, known) : id = Address(e[1], e[2])
      BY <2>2
    <3>2. CASE e[1] \in Configured(cfg)
      BY <3>1, <3>2, <1>1
    <3>3. CASE e[1] \notin Configured(cfg)
      BY <3>1, <3>3, PairsArePairs
    <3>4. QED
      BY <3>2, <3>3
  <2>3. CASE id \in Aliases(Pairs(cfg, known))
    BY <2>3, AliasResolves
  <2>4. QED
    BY <2>1, <2>2, <2>3 DEF Listed
<1>3. ASSUME NEW e \in Pairs(cfg, known), e[1] \in Configured(cfg),
             ~IsTier(cfg, Address(e[1], e[2]))
      PROVE  Resolve(cfg, known, Address(e[1], e[2])) = Direct(e[1], e[2])
  BY <1>3, PairsArePairs, AddressResolves
<1>4. QED
  BY <1>2, <1>3 DEF ListedResolve

-----------------------------------------------------------------------------
(* Whatever the providers answered and whichever answers were saved, lost  *)
(* or loaded again: every listed id resolves to one target, and an address *)
(* to its own pair (handle_models and resolve_model).                      *)
THEOREM ListedResolveAlways == Spec => []ListedResolve
<1>1. Init => ListsInv
  BY ListsInitFine
<1>2. ListsInv /\ [Next]_vars => ListsInv'
  BY ListsStepKeeps
<1>3. ListsInv => ListedResolve
  BY ListsResolve
<1>4. QED
  BY <1>1, <1>2, <1>3, PTL DEF Spec
=============================================================================
