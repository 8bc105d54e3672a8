------------------------------ MODULE FileWAL ------------------------------
(***************************************************************************)
(* The write-ahead log (wal/file_wal.go) with its writer, the consensus    *)
(* state machine, and its reader, ReplayWAL in engine/replay.go.           *)
(*                                                                         *)
(* Segment i is a sequence of records, each of size 1.  A record is a      *)
(* message, or what a crash left of one: a record cut at the end of its    *)
(* length or its data, on which Decode fails with io.EOF if nothing        *)
(* follows, or one cut elsewhere.  Whatever follows a cut record is        *)
(* decoded from the wrong place and fails its checksum.  Every flush of    *)
(* the buffer is followed by a sync, so what files holds of a segment is   *)
(* durable; but bufio may have written any prefix of buf before a crash.   *)
(* The sync is of the segment and never of the directory: a power failure  *)
(* may take segments that were created since the last one, with all they   *)
(* hold.  (It may also bring back what Checkpoint removed, which is left   *)
(* out.)                                                                   *)
(*                                                                         *)
(* A consensus process dies (panics) when a write fails, so failed writes  *)
(* are crashes.  The migration of a legacy file is left out.               *)
(***************************************************************************)
EXTENDS Integers, FiniteSets, FiniteSetsExt, Sequences, SequencesExt

CONSTANTS
  SegSizes,            \* maxSegSize, chosen whenever the process starts
  MaxHeightIndexSize,  \* code: 100000
  MaxLogHeight,        \* bound: heights that are decided
  MaxMessages,         \* bound: messages written
  MaxStops             \* bound: crashes and calls of Stop

ASSUME WALAssumption ==
  /\ SegSizes \subseteq Nat \ {0} /\ MaxHeightIndexSize \in Nat
  /\ MaxLogHeight \in Nat /\ MaxMessages \in Nat /\ MaxStops \in Nat

LogHeights == 1 .. MaxLogHeight
Message == [type : {"Vote", "EndHeight"}, h : LogHeights, n : 1 .. MaxMessages]
CutAtField == [type |-> "CutAtField", h |-> 0, n |-> 0]
CutInField == [type |-> "CutInField", h |-> 0, n |-> 0]
Cuts == {CutAtField, CutInField}

VARIABLES
  wal,           \* the segments in the directory, by index (files), and FileWAL:
                 \* started, maxSegSize, buf, segmentIndex, minIndex (group.MinIndex),
                 \* heightIndex
  height,        \* the height of the consensus state machine
  applied,       \* the last height the application has applied
  count,         \* messages written
  durable,       \* messages that a successful sync covered
  onDisk,        \* segments whose entry in the directory is surely on disk
  lost,          \* durable messages of segments that a power failure took
  checkpoint,    \* the highest checkpoint so far
  stops

logVars == <<wal, height, applied, count, durable, onDisk, lost, checkpoint, stops>>

-----------------------------------------------------------------------------
(* Reading. *)

(* The messages Decode returns until it fails, and whether that is an      *)
(* error and not io.EOF.                                                   *)
Decode(recs) ==
  LET cut == {k \in DOMAIN recs : recs[k] \in Cuts}
  IN  IF cut = {} THEN [msgs |-> recs, err |-> FALSE]
      ELSE [msgs |-> SubSeq(recs, 1, Min(cut) - 1),
            err |-> ~(Min(cut) = Len(recs) /\ Last(recs) = CutAtField)]

EndsHeight(m, h) == m.type = "EndHeight" /\ m.h = h

NotFound == [found |-> FALSE, err |-> FALSE, seg |-> 0, rest |-> <<>>]

(* searchSegmentForEndHeight; its reader has the rest of that segment. *)
searchSegmentForEndHeight(files, i, h) ==
  LET d == Decode(files[i])
      at == {k \in DOMAIN d.msgs : EndsHeight(d.msgs[k], h)}
  IN  IF i \notin DOMAIN files THEN NotFound
      ELSE IF at = {} THEN [NotFound EXCEPT !.err = d.err]
      ELSE [found |-> TRUE, err |-> FALSE, seg |-> i,
            rest |-> SubSeq(files[i], Min(at) + 1, Len(files[i]))]

(* Mutant: the current segment is not searched. *)
SearchOldSegments(w, h) ==
  LET search(i) == searchSegmentForEndHeight(w.files, i, h)
      stop == {i \in w.minIndex .. w.segmentIndex - 1 : search(i).found \/ search(i).err}
  IN  IF h \in DOMAIN w.heightIndex /\ search(w.heightIndex[h]).found THEN search(w.heightIndex[h])
      ELSE IF stop = {} THEN NotFound ELSE search(Min(stop))

(* SearchForEndHeight, after its flush: the segment the index names, then  *)
(* all segments up to the first with the message or an error.              *)
SearchForEndHeight(w, h) ==
  LET search(i) == searchSegmentForEndHeight(w.files, i, h)
      stop == {i \in w.minIndex .. w.segmentIndex : search(i).found \/ search(i).err}
  IN  IF /\ h \in DOMAIN w.heightIndex
         /\ search(w.heightIndex[h]).found \/ search(w.heightIndex[h]).err
        THEN search(w.heightIndex[h])
      ELSE IF stop = {} THEN NotFound ELSE search(Min(stop))

(* Mutant: a message of another height ends the replay. *)
ReplayUntilOther(w, target) ==
  LET s == SearchForEndHeight(w, target - 1)
      d == Decode(s.rest)
      other == {k \in DOMAIN d.msgs : d.msgs[k].h # target}
      end == IF other = {} THEN Len(d.msgs) ELSE Min(other) - 1
  IN  [msgs |-> IF s.found THEN SubSeq(d.msgs, 1, end) ELSE <<>>,
       err |-> s.err \/ (s.found /\ d.err /\ other = {})]

(* The messages of a height, in their order. *)
OfHeight(msgs, target) ==
  LET Upto[k \in 0 .. Len(msgs)] ==
        IF k = 0 THEN <<>>
        ELSE IF msgs[k].h = target THEN Append(Upto[k - 1], msgs[k]) ELSE Upto[k - 1]
  IN  Upto[Len(msgs)]

(* ReplayWAL(target): the messages of that height in the segment of the    *)
(* previous height's end, up to the height's own end.                      *)
ReplayWAL(w, target) ==
  LET s == SearchForEndHeight(w, target - 1)
      d == Decode(s.rest)
      end == {k \in DOMAIN d.msgs : EndsHeight(d.msgs[k], target)}
      read == IF end = {} THEN d.msgs ELSE SubSeq(d.msgs, 1, Min(end))
  IN  [msgs |-> IF s.found THEN OfHeight(read, target) ELSE <<>>,
       err |-> s.err \/ (s.found /\ d.err /\ end = {})]

-----------------------------------------------------------------------------
(* Writing. *)

LogInit ==
  /\ wal = [files |-> [i \in {} |-> <<>>], started |-> FALSE, maxSegSize |-> Min(SegSizes),
            buf |-> <<>>, segmentIndex |-> 0, minIndex |-> 0,
            heightIndex |-> [h \in {} |-> 0]]
  /\ height = 1 /\ applied = 0 /\ count = 0 /\ durable = {} /\ checkpoint = 0 /\ stops = 0
  /\ onDisk = {} /\ lost = {}

(* openSegment, which appends to what is there. *)
openSegment(files, i) ==
  [j \in DOMAIN files \cup {i} |-> IF j \in DOMAIN files THEN files[j] ELSE <<>>]

flushAndSync(w) ==
  [w EXCEPT !.files[w.segmentIndex] = @ \o w.buf, !.buf = <<>>]

(* Mutant: the next segment is opened and the current one kept. *)
rotateStays(w) ==
  [flushAndSync(w) EXCEPT !.files = openSegment(@, w.segmentIndex + 1)]

(* rotate: the current segment is flushed and the next one opened. *)
rotate(w) ==
  [flushAndSync(w) EXCEPT !.files = openSegment(@, w.segmentIndex + 1),
                          !.segmentIndex = @ + 1]

Indexed(index, h, seg) == [x \in DOMAIN index \cup {h} |-> IF x = h THEN seg ELSE index[x]]

(* pruneHeightIndex keeps the highest heights. *)
pruneHeightIndex(index) ==
  [h \in {g \in DOMAIN index : Cardinality({x \in DOMAIN index : x > g}) < MaxHeightIndexSize}
     |-> index[h]]

(* Write. *)
Write(w, m) ==
  LET size == Len(w.files[w.segmentIndex]) + Len(w.buf)
      v == IF size >= w.maxSegSize THEN rotate(w) ELSE w
      index == Indexed(v.heightIndex, m.h, v.segmentIndex)
  IN  [v EXCEPT !.buf = Append(@, m),
                !.heightIndex = IF m.type = "EndHeight" THEN pruneHeightIndex(index) ELSE @]

WriteSync(w, m) == flushAndSync(Write(w, m))

(* buildIndex, tolerant of corruption: of two segments the later wins. *)
buildIndex(files) ==
  LET ends == [i \in DOMAIN files |->
                 {m.h : m \in {x \in ToSet(Decode(files[i]).msgs) : x.type = "EndHeight"}}]
  IN  [h \in UNION {ends[i] : i \in DOMAIN files} |-> Max({i \in DOMAIN files : h \in ends[i]})]

-----------------------------------------------------------------------------
(* The process: it starts the log at the height after the last applied. *)

Start ==
  LET idx == IF DOMAIN wal.files = {} THEN 0 ELSE Max(DOMAIN wal.files)
  IN  /\ ~wal.started
      /\ \E size \in SegSizes :
           wal' = [files |-> openSegment(wal.files, idx), started |-> TRUE,
                   maxSegSize |-> size, buf |-> <<>>, segmentIndex |-> idx,
                   minIndex |-> IF DOMAIN wal.files = {} THEN 0 ELSE Min(DOMAIN wal.files),
                   heightIndex |-> buildIndex(wal.files)]
      /\ height' = applied + 1
      /\ UNCHANGED <<applied, count, durable, checkpoint, stops, onDisk, lost>>

Stop ==
  /\ stops < MaxStops /\ stops' = stops + 1
  /\ wal.started
  /\ wal' = [flushAndSync(wal) EXCEPT !.started = FALSE]
  /\ durable' = durable \cup ToSet(wal.buf)
  /\ UNCHANGED <<height, applied, count, checkpoint, onDisk, lost>>

(* What an interrupted write leaves of the buffer. *)
Remains(b) ==
  {SubSeq(b, 1, k) : k \in 0 .. Len(b)} \cup
  {Append(SubSeq(b, 1, k), cut) : k \in 0 .. Len(b) - 1, cut \in Cuts}

(* The process fails, maybe while the log is written. *)
CrashLog ==
  /\ stops < MaxStops /\ stops' = stops + 1
  /\ wal.started
  /\ \E r \in Remains(wal.buf) :
       wal' = [wal EXCEPT !.files[wal.segmentIndex] = @ \o r, !.buf = <<>>, !.started = FALSE]
  /\ UNCHANGED <<height, applied, count, durable, checkpoint, onDisk, lost>>

(* The machine fails, and its process with it (CrashLog, CrashInWriteSync): *)
(* segments go whose entry is not on disk.                                 *)
PowerFailure ==
  /\ ~wal.started
  /\ \E kept \in SUBSET DOMAIN wal.files :
       /\ onDisk \cap DOMAIN wal.files \subseteq kept
       /\ wal' = [wal EXCEPT !.files = [i \in kept |-> @[i]]]
       /\ lost' = lost \cup {m \in durable : \E i \in DOMAIN wal.files \ kept : m \in ToSet(wal.files[i])}
       /\ onDisk' = kept
  /\ UNCHANGED <<height, applied, count, durable, checkpoint, stops>>

CanWrite == wal.started /\ height \in LogHeights /\ count < MaxMessages

Msg(type, h) == [type |-> type, h |-> h, n |-> count + 1]

(* handleVote logs every vote, of whatever height, with Write. *)
handleVote(h) ==
  LET m == Msg("Vote", h) IN
  /\ CanWrite /\ applied < height
  /\ wal' = Write(wal, m)
  /\ count' = count + 1
  /\ durable' = IF wal'.segmentIndex # wal.segmentIndex
                  THEN durable \cup ToSet(wal.buf) ELSE durable
  /\ UNCHANGED <<height, applied, checkpoint, stops, onDisk, lost>>

(* Own votes and proposals, and the state when it locks, use WriteSync. *)
signAndSendVote ==
  LET m == Msg("Vote", height) IN
  /\ CanWrite /\ applied < height
  /\ wal' = WriteSync(wal, m)
  /\ count' = count + 1
  /\ durable' = durable \cup ToSet(wal.buf) \cup {m}
  /\ UNCHANGED <<height, applied, checkpoint, stops, onDisk, lost>>

(* finalizeCommitLocked: the application applies the block, and then the   *)
(* end of the height is logged.                                            *)
ApplyBlock ==
  /\ CanWrite /\ applied < height
  /\ applied' = height
  /\ UNCHANGED <<wal, height, count, durable, checkpoint, stops, onDisk, lost>>

finalizeCommit ==
  LET m == Msg("EndHeight", height) IN
  /\ CanWrite /\ applied = height
  /\ wal' = WriteSync(wal, m)
  /\ count' = count + 1
  /\ durable' = durable \cup ToSet(wal.buf) \cup {m}
  /\ height' = height + 1
  /\ UNCHANGED <<applied, checkpoint, stops, onDisk, lost>>

(* The crash in the middle of WriteSync. *)
CrashInWriteSync(m) ==
  LET w == Write(wal, m) IN
  /\ stops < MaxStops /\ stops' = stops + 1
  /\ CanWrite
  /\ m = Msg(IF applied = height THEN "EndHeight" ELSE "Vote", height)
  /\ \E r \in Remains(w.buf) :
       wal' = [w EXCEPT !.files[w.segmentIndex] = @ \o r, !.buf = <<>>, !.started = FALSE]
  /\ count' = count + 1
  /\ durable' = IF w.segmentIndex # wal.segmentIndex
                  THEN durable \cup ToSet(wal.buf) ELSE durable
  /\ UNCHANGED <<height, applied, checkpoint, onDisk, lost>>

-----------------------------------------------------------------------------
(* Mutant: the height of the last message decides. *)
canDeleteByLast(recs, h) ==
  LET d == Decode(recs) IN ~d.err /\ (d.msgs = <<>> \/ Last(d.msgs).h <= h)

(* canDeleteSegment: no message above the checkpoint, and no corruption. *)
canDeleteSegment(recs, h) ==
  LET d == Decode(recs) IN ~d.err /\ \A m \in ToSet(d.msgs) : m.h <= h

(* Checkpoint: the oldest segments go, up to the first that has to stay,   *)
(* that cannot be read, or that is current.  The application checkpoints   *)
(* heights it has persisted.  Removing a file may fail, after k others     *)
(* were removed; the index is then clean but minIndex is as before.        *)
Checkpoint(h) ==
  LET old == {i \in wal.minIndex .. wal.segmentIndex - 1 :
                \A j \in wal.minIndex .. i :
                  j \in DOMAIN wal.files /\ canDeleteSegment(wal.files[j], h)}
  IN  /\ wal.started /\ h <= applied
      /\ checkpoint' = Max({checkpoint, h})
      /\ \E gone \in {old} \cup {{i \in old : i < k} : k \in old} :
           wal' = [wal EXCEPT
             !.files = [i \in DOMAIN @ \ gone |-> @[i]],
             !.heightIndex = [x \in {g \in DOMAIN @ : @[g] \notin gone} |-> @[x]],
             !.minIndex = IF gone = old /\ old # {} THEN Max(old) + 1 ELSE @]
      /\ UNCHANGED <<height, applied, count, durable, stops, onDisk, lost>>

(* A caller of SearchForEndHeight: it flushes, and remembers what it finds. *)
Search(h) ==
  LET w == flushAndSync(wal)
      s == SearchForEndHeight(w, h)
  IN  /\ wal.started
      /\ wal' = IF s.found THEN [w EXCEPT !.heightIndex = Indexed(@, h, s.seg)] ELSE w
      /\ durable' = durable \cup ToSet(wal.buf)
      /\ UNCHANGED <<height, applied, count, checkpoint, stops, onDisk, lost>>

LogNext ==
  \/ Start \/ Stop \/ CrashLog \/ PowerFailure
  \/ \E h \in LogHeights : handleVote(h)
  \/ signAndSendVote
  \/ ApplyBlock
  \/ finalizeCommit
  \/ \E type \in {"Vote", "EndHeight"} : CrashInWriteSync(Msg(type, height))
  \/ \E h \in LogHeights : Checkpoint(h)
  \/ \E h \in LogHeights : Search(h)

LogSpec == LogInit /\ [][LogNext]_logVars

-----------------------------------------------------------------------------
(* Properties. *)

Flushed == IF wal.started THEN flushAndSync(wal) ELSE wal

LogTypeOK ==
  /\ \A i \in DOMAIN wal.files : i \in 0 .. MaxMessages /\ wal.files[i] \in Seq(Message \cup Cuts)
  /\ wal.buf \in Seq(Message)
  /\ wal.started => wal.segmentIndex = Max(DOMAIN wal.files)
  /\ DOMAIN wal.heightIndex \subseteq LogHeights
  /\ height \in 1 .. MaxLogHeight + 1 /\ applied \in {height - 1, height}

(* A message that was durable ("our own vote must be tracked") stays in the *)
(* log, through rotations, crashes in the middle of a write, restarts and  *)
(* failed checkpoints, until its height is checkpointed; and the log has   *)
(* its messages in the order they were written.  In the log is in the      *)
(* segment files: behind a torn record it is there and not readable.  Only *)
(* a power failure takes a durable message, with the whole segment and     *)
(* only if the segment was created after the last power failure.           *)
NothingLost ==
  LET files == Flushed.files IN
  /\ \A m \in durable \ lost : m.h > checkpoint => \E i \in DOMAIN files : m \in ToSet(files[i])
  /\ \A i, j \in DOMAIN files : \A k \in DOMAIN files[i], l \in DOMAIN files[j] :
       (i < j \/ (i = j /\ k < l)) /\ {files[i][k], files[j][l]} \cap Cuts = {} =>
         files[i][k].n < files[j][l].n

(* SearchForEndHeight says that a height has not ended only if no segment  *)
(* has a readable end of it, whatever the index has forgotten or deleted   *)
(* segments it has not; and it fails only if a record is cut.              *)
SearchIsRight ==
  wal.started =>
    \A h \in LogHeights :
      LET w == flushAndSync(wal)
          s == SearchForEndHeight(w, h)
          readable == UNION {ToSet(Decode(w.files[i]).msgs) : i \in DOMAIN w.files}
      IN  /\ s.found \/ s.err \/ ~\E m \in readable : EndsHeight(m, h)
          /\ s.err => \E i \in DOMAIN w.files : ToSet(w.files[i]) \cap Cuts # {}

(* What follows the end of height h in a segment. *)
Behind(recs, h) ==
  {recs[k] : k \in {x \in DOMAIN recs : \E j \in 1 .. x - 1 : EndsHeight(recs[j], h)}}

(* ReplayWAL of the current height returns, in the order of writing, all   *)
(* messages of that height that follow the end of the previous height in   *)
(* its segment, also among votes of other heights.                         *)
ReplayIsExact ==
  wal.started =>
    LET w == flushAndSync(wal)
        r == ReplayWAL(w, height)
        written == UNION {Behind(w.files[i], height - 1) : i \in DOMAIN w.files}
    IN  /\ ~r.err => ToSet(r.msgs) = {m \in written : m.h = height}
        /\ \A j, k \in DOMAIN r.msgs : j < k => r.msgs[j].n < r.msgs[k].n
=============================================================================
