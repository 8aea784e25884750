------------------------------ MODULE Recorder ------------------------------
(***************************************************************************)
(* The recorder of a path (internal/recorder), the segments it leaves on   *)
(* the disk (internal/recordstore), the cleaner that removes the old ones  *)
(* (internal/recordcleaner) and the listing of the playback server         *)
(* (internal/playback).                                                    *)
(*                                                                         *)
(* A recorder runs one instance at a time and replaces it, after a pause,  *)
(* when it fails.  An instance is a reader of the stream: its callbacks    *)
(* turn units into samples and samples into segments, each a file that is  *)
(* created when there is something to write.                               *)
(*                                                                         *)
(* Time is a number; a sample has its decoding time, which is also its     *)
(* absolute time and, for a file, its name.  What samples contain, boxes   *)
(* and MPEG-TS packets are left out; the queue in front of the callbacks   *)
(* is in module Stream.                                                    *)
(***************************************************************************)
EXTENDS Integers, FiniteSets, Sequences, FiniteSetsExt, SequencesExt

CONSTANTS
  Recordings,       (* [format, tracks, lag, faults, cleans, until]        *)
  SegmentDuration,  (* recordSegmentDuration                               *)
  PartDuration,     (* recordPartDuration                                  *)
  MaxBasetime,      (* maxBasetime and concatenationTolerance: 1 s         *)
  DeleteAfter,      (* recordDeleteAfter                                   *)
  MaxTime,          (* bound: the clock                                    *)
  MaxFaults,        (* bound: operations on the disk that fail             *)
  None              (* no sample, part, segment, file                      *)

ASSUME DurationsAreNaturals ==
  {SegmentDuration, PartDuration, MaxBasetime, DeleteAfter, MaxTime, MaxFaults} \subseteq Nat

(* path.go: 'recordDeleteAfter' cannot be lower than 'recordSegmentDuration' *)
ASSUME DeletedAfterComplete == DeleteAfter >= SegmentDuration

VARIABLES
  recording, (* the element of Recordings this behaviour is about          *)
  now,       (* the clock                                                  *)
  last,      (* track -> decoding time of the last unit                    *)
  recorder,  (* Recorder.run: [at, terminate]                              *)
  instance,  (* recorderInstance.run                                       *)
  format,    (* [open, hasVideo, next, segment] of format2                 *)
  disk,      (* start -> file                                              *)
  cleaner,   (* Cleaner.run                                                *)
  faults,    (* operations that failed so far                              *)
  fate       (* what became of samples: [given, late, lost]                *)

recorderVars == <<recording, now, last, recorder, instance, format, disk, cleaner, faults, fate>>

Tracks  == {"video", "audio"}
Times   == 0..MaxTime
Samples == [track : Tracks, dts : Times, sync : BOOLEAN]

Parts == [start : Times, end : Times, samples : SUBSET Samples]

(* pending: the samples that were in wait when the segment began (none for *)
(* the first segment of an instance).                                      *)
Segments ==
  [start : Times, end : Times, flushed : Times, part : Parts \cup {None},
   fd : {"none", "open", "closed"}, pending : SUBSET Samples]

(* A late sample of MPEG-TS may take the end back before the start.        *)
Files ==
  [header : BOOLEAN, duration : -MaxTime..MaxTime, end : -MaxTime..MaxTime, samples : SUBSET Samples,
   created : Nat, completed : Nat]

ASSUME NoneIsNothing == None \notin Samples \cup Parts \cup Segments \cup Files
ASSUME RecordingsAreKnown ==
  Recordings \subseteq [format : {"fmp4", "mpegts"}, tracks : SUBSET Tracks, lag : Nat,
                        faults : BOOLEAN, cleans : BOOLEAN, until : Times]

RecorderTypeOK ==
  /\ recording \in Recordings /\ now \in Times
  /\ last \in [Tracks -> -1..MaxTime]
  /\ recorder \in [at : {"instance", "pause", "done"}, terminate : BOOLEAN]
  /\ instance \in {"reading", "failed", "ended"}
  /\ format \in [open : BOOLEAN, hasVideo : BOOLEAN, next : [Tracks -> Samples \cup {None}],
                 segment : Segments \cup {None}]
  /\ disk \in [Times -> Files \cup {None}]
  /\ cleaner \in {"select", "dirs"}
  /\ faults \in 0..MaxFaults
  /\ fate \in [given : SUBSET Samples, late : SUBSET Samples, lost : SUBSET Samples]

(* recorderInstance.initialize: a format with no tracks, no segment.       *)
NewFormat ==
  [open |-> FALSE, hasVideo |-> FALSE, next |-> [t \in Tracks |-> None], segment |-> None]

NewFile ==
  [header |-> FALSE, duration |-> 0, end |-> 0, samples |-> {}, created |-> 1, completed |-> 0]

RecorderInit ==
  /\ recording \in Recordings
  /\ now = 0 /\ last = [t \in Tracks |-> -1]
  /\ recorder = [at |-> "instance", terminate |-> FALSE]
  /\ instance = "reading" /\ format = NewFormat
  /\ disk = [t \in Times |-> None]
  /\ cleaner = "select" /\ faults = 0
  /\ fate = [given |-> {}, late |-> {}, lost |-> {}]

-----------------------------------------------------------------------------
(* Segments.  The operations of a callback work on [segment, disk, ok],    *)
(* where ok turns false at the error that ends the callback; f is the      *)
(* operation on the disk that fails in it, if any.                         *)

Operations == {"create", "init", "part", "duration"}

Open(start, pending) ==
  [start |-> start, end |-> start, flushed |-> start, part |-> None, fd |-> "none",
   pending |-> pending]

(* MkdirAll, Create, onSegmentCreate, and the header: the file of the      *)
(* segment is known only when all of it succeeded.                         *)
Create(st, f) ==
  LET file == IF st.disk[st.segment.start] = None THEN NewFile
              ELSE [NewFile EXCEPT !.created = st.disk[st.segment.start].created + 1]
      made == [st EXCEPT !.disk[st.segment.start] = file]
  IN  CASE st.segment.fd # "none" -> st
        [] st.segment.fd = "none" /\ f = "create" -> [st EXCEPT !.ok = FALSE]
        [] st.segment.fd = "none" /\ f = "init"   -> [made EXCEPT !.ok = FALSE]
        [] OTHER -> [made EXCEPT !.disk[st.segment.start].header = TRUE,
                                 !.segment.fd = "open"]

(* Appends what is in the part (the buffer, for MPEG-TS) to the file.  A   *)
(* file the cleaner has removed is written all the same.                   *)
WritePart(st, f) ==
  LET s == st.segment
  IN  CASE ~st.ok -> st
        [] st.ok /\ (f = "part" \/ s.fd = "closed") -> [st EXCEPT !.ok = FALSE]
        [] st.ok /\ f # "part" /\ s.fd = "open" /\ st.disk[s.start] = None -> st
        [] OTHER -> [st EXCEPT !.disk[s.start].samples = @ \cup s.part.samples,
                               !.disk[s.start].end = s.part.end - s.start]

(* formatFMP4Part.close; dynamicWriter.Write with what was buffered.       *)
ClosePart(st, f) == WritePart(Create(st, f), f)

(* formatFMP4Segment.close, formatMPEGTSSegment.close: the last part, the  *)
(* duration in the header (fMP4), the file, onSegmentComplete.             *)
CloseSegment(st, f) ==
  LET a    == IF st.segment.part = None THEN st ELSE ClosePart(st, f)
      s    == a.segment
      done == [a EXCEPT !.segment.fd = "closed",
                        !.ok = @ /\ (f # "duration" \/ recording.format = "mpegts")]
  IN  IF s.fd # "open" THEN [a EXCEPT !.ok = @ /\ s.fd = "none"]
      ELSE IF a.disk[s.start] = None THEN done
      ELSE [done EXCEPT !.disk[s.start].completed = @ + 1,
                        !.disk[s.start].duration =
                           IF done.ok \/ f = "part" THEN s.end - s.start ELSE 0]

(* formatFMP4Segment.write and formatFMP4Part.write: a part that is long   *)
(* enough is closed, and forgotten even when that fails.                   *)
PutInPart(st, s, end, f) ==
  LET p == st.segment.part
      a == IF p # None /\ p.end - p.start >= PartDuration
           THEN [ClosePart(st, f) EXCEPT !.segment.part = None] ELSE st
      q == IF a.segment.part = None THEN [start |-> s.dts, end |-> end, samples |-> {s}]
           ELSE [p EXCEPT !.end = Max({@, end}), !.samples = @ \cup {s}]
  IN  IF a.ok THEN [a EXCEPT !.segment.part = q, !.segment.end = Max({@, end})] ELSE a

Pending(next) == {t \in Tracks : next[t] # None}

NextStart_Newest(next) == Max({next[t].dts : t \in Pending(next)})

(* nextSegmentStartingPos: the oldest sample in wait among the ones within *)
(* MaxBasetime of the newest.                                              *)
NextStart(next) ==
  LET newest == Max({next[t].dts : t \in Pending(next)})
  IN  Min({next[t].dts : t \in {u \in Pending(next) : newest - next[u].dts <= MaxBasetime}})

(* formatFMP4Track.write: the sample that waited is written now that its   *)
(* duration is known, unless it is older than the segment; when the one    *)
(* that takes its place may start a segment and this one is long enough,   *)
(* the next segment begins.                                                *)
FMP4Write(s, f) ==
  LET t    == s.track
      prev == format.next[t]
      next == [format.next EXCEPT ![t] = s]
      hasVideo == format.hasVideo \/ t = "video"
      st0  == [segment |-> IF format.segment = None THEN Open(prev.dts, {})
                           ELSE format.segment,
               disk |-> disk, ok |-> TRUE]
      st1  == PutInPart(st0, prev, s.dts, f)
      full == /\ ~hasVideo \/ t = "video"
              /\ s.sync
              /\ s.dts - st1.segment.start >= SegmentDuration
      st2  == CloseSegment(st1, f)
      st3  == CASE ~st1.ok \/ ~full -> st1
                [] st1.ok /\ full /\ ~st2.ok -> st2
                [] OTHER -> [st2 EXCEPT !.segment =
                     Open(NextStart(next), {next[u] : u \in Pending(next)})]
      tooLate == prev # None /\ prev.dts < st0.segment.start
      skips   == prev = None \/ tooLate
  IN  [ok      |-> skips \/ st3.ok,
       disk    |-> IF skips THEN disk ELSE st3.disk,
       format  |-> [format EXCEPT !.hasVideo = hasVideo, !.next = next, !.open = TRUE,
                                  !.segment = IF skips THEN @ ELSE st3.segment],
       late    |-> IF tooLate THEN {prev} ELSE {}]

(* formatMPEGTS.write: the same, with samples written as they come into a  *)
(* buffer that is flushed every part (and whenever it is full).            *)
MPEGTSWrite(s, f) ==
  LET hasVideo == format.hasVideo \/ s.track = "video"
      seg   == format.segment
      st0   == [segment |-> seg, disk |-> disk, ok |-> TRUE]
      full  == /\ ~hasVideo \/ s.track = "video"
               /\ s.sync /\ s.dts - seg.start >= SegmentDuration
      st1   == CASE seg = None -> [st0 EXCEPT !.segment = Open(s.dts, {})]
                 [] seg # None /\ full ->
                      LET c == CloseSegment([st0 EXCEPT !.segment.end = s.dts], f)
                      IN  IF c.ok THEN [c EXCEPT !.segment = Open(s.dts, {})] ELSE c
                 [] seg # None /\ ~full /\ seg.part # None
                      /\ s.dts - seg.flushed >= PartDuration ->
                      [ClosePart(st0, f) EXCEPT !.segment.part = None,
                                                !.segment.flushed = s.dts]
                 [] OTHER -> st0
      p     == st1.segment.part
      q     == IF p = None THEN [start |-> s.dts, end |-> s.dts, samples |-> {s}]
               ELSE [p EXCEPT !.end = s.dts, !.samples = @ \cup {s}]
  IN  [ok     |-> st1.ok,
       disk   |-> st1.disk,
       format |-> [format EXCEPT !.hasVideo = hasVideo, !.open = TRUE,
                     !.segment = IF st1.ok
                                 THEN [st1.segment EXCEPT !.part = q, !.end = s.dts]
                                 ELSE st1.segment],
       late   |-> {}]

Put(s, f) == IF recording.format = "fmp4" THEN FMP4Write(s, f) ELSE MPEGTSWrite(s, f)

-----------------------------------------------------------------------------

(* What the instance has in memory and can still write.                    *)
Held(fm) ==
  {fm.next[t] : t \in Pending(fm.next)}
    \cup (IF fm.segment = None \/ fm.segment.part = None \/ fm.segment.fd = "closed" THEN {}
          ELSE fm.segment.part.samples)

Stored(d) == UNION {d[t].samples : t \in {u \in Times : d[u] # None}}

(* The directory of the segments is there only while it holds something    *)
(* or nobody removes empty ones: the cleaner may come between MkdirAll and *)
(* Create.                                                                 *)
DirMayVanish == cleaner = "dirs" /\ \A t \in Times : disk[t] = None

Faults ==
  {"none"}
    \cup (IF faults < MaxFaults /\ recording.faults THEN Operations ELSE {})
    \cup (IF DirMayVanish THEN {"create"} ELSE {})

(* The bound is on the failures of the disk itself.                        *)
Counted(f) == IF f # "none" /\ recording.faults /\ faults < MaxFaults THEN 1 ELSE 0

(* Video waits for its first random access.                                *)
Waits(s) == s.track = "video" /\ ~format.hasVideo /\ ~s.sync

(* The callback of a track.                                                *)
Sample(t) ==
  /\ instance = "reading" /\ t \in recording.tracks
  /\ \E sync \in (IF t = "video" THEN BOOLEAN ELSE {TRUE}), f \in Faults :
       LET s   == [track |-> t, dts |-> now - (IF t = "audio" THEN recording.lag ELSE 0),
                   sync |-> sync]
           res == Put(s, f)
       IN  /\ s.dts > last[t]
           /\ last' = [last EXCEPT ![t] = s.dts]
           /\ IF Waits(s)
              THEN f = "none" /\ UNCHANGED <<instance, format, disk, faults, fate>>
              ELSE /\ f # "none" => ~res.ok
                   /\ faults' = faults + Counted(f)
                   /\ instance' = IF res.ok THEN "reading" ELSE "failed"
                   /\ format' = res.format
                   /\ disk' = res.disk
                   /\ fate' = [given |-> fate.given \cup {s}, late |-> fate.late \cup res.late,
                               lost |-> fate.lost \cup
                                 ((fate.given \cup {s}) \ (Held(res.format) \cup Stored(res.disk)
                                    \cup fate.late \cup res.late))]
  /\ UNCHANGED <<recording, now, recorder, cleaner>>

(* recorderInstance.run: its reader failed, or it is told to stop; the     *)
(* reader is removed and the segment closed.  The samples in wait for a    *)
(* successor are never written.                                            *)
InstanceEnds ==
  /\ instance = "failed" \/ (instance = "reading" /\ recorder.terminate)
  /\ \E f \in Faults :
       LET st == [segment |-> format.segment, disk |-> disk, ok |-> TRUE]
           c  == IF format.segment = None THEN st ELSE CloseSegment(st, f)
       IN  /\ f # "none" => ~c.ok
           /\ faults' = faults + Counted(f)
           /\ disk' = c.disk
           /\ fate' = [fate EXCEPT !.lost = @ \cup (fate.given \ (Stored(c.disk) \cup fate.late))]
  /\ instance' = "ended" /\ format' = NewFormat
  /\ UNCHANGED <<recording, now, last, recorder, cleaner>>

(* Recorder.run.                                                           *)
InstanceDone ==
  /\ recorder.at = "instance" /\ instance = "ended"
  /\ recorder' = [recorder EXCEPT !.at = IF recorder.terminate THEN "done" ELSE "pause"]
  /\ UNCHANGED <<recording, now, last, instance, format, disk, cleaner, faults, fate>>

Restart_Never ==
  /\ recorder.at = "pause" /\ recorder.terminate
  /\ recorder' = [recorder EXCEPT !.at = "done"]
  /\ UNCHANGED <<recording, now, last, instance, format, disk, cleaner, faults, fate>>

(* After restartPause a new instance; while it waits, terminate ends it.   *)
Restart ==
  /\ recorder.at = "pause"
  /\ \/ /\ recorder' = [recorder EXCEPT !.at = "instance"]
        /\ instance' = "reading"
     \/ /\ recorder.terminate
        /\ recorder' = [recorder EXCEPT !.at = "done"]
        /\ UNCHANGED instance
  /\ UNCHANGED <<recording, now, last, format, disk, cleaner, faults, fate>>

(* Recorder.Close, by the path.                                            *)
Close ==
  /\ ~recorder.terminate
  /\ recorder' = [recorder EXCEPT !.terminate = TRUE]
  /\ UNCHANGED <<recording, now, last, instance, format, disk, cleaner, faults, fate>>

-----------------------------------------------------------------------------
(* The cleaner: removes the files whose start is DeleteAfter old           *)
(* (recordstore.FindSegments, by the end only), then the empty directories.*)

CleanerRuns ==
  /\ recording.cleans /\ cleaner = "select"
  /\ LET old == {t \in Times : disk[t] # None /\ t <= now - DeleteAfter}
     IN  /\ disk' = [t \in Times |-> IF t \in old THEN None ELSE disk[t]]
         /\ fate' = [fate EXCEPT !.lost = @ \cup UNION {disk[t].samples : t \in old}]
  /\ cleaner' = "dirs"
  /\ UNCHANGED <<recording, now, last, recorder, instance, format, faults>>

CleanerDone ==
  /\ cleaner = "dirs" /\ cleaner' = "select"
  /\ UNCHANGED <<recording, now, last, recorder, instance, format, disk, faults, fate>>

(* until: the bound of the clock in this behaviour, at most MaxTime.       *)
Tick ==
  /\ now < recording.until /\ now' = now + 1
  /\ UNCHANGED <<recording, last, recorder, instance, format, disk, cleaner, faults, fate>>

RecorderNext ==
  \/ \E t \in Tracks : Sample(t)
  \/ InstanceEnds \/ InstanceDone \/ Restart \/ Close
  \/ CleanerRuns \/ CleanerDone \/ Tick

(* The goroutines of the recorder go on; the path closes it when it likes. *)
RecorderFairness ==
  WF_recorderVars(InstanceEnds) /\ WF_recorderVars(InstanceDone) /\ WF_recorderVars(Restart)

RecorderSpec     == RecorderInit /\ [][RecorderNext]_recorderVars
RecorderFairSpec == RecorderSpec /\ RecorderFairness

-----------------------------------------------------------------------------
(* The listing (internal/playback/on_list.go).                             *)

(* FindSegments without bounds: the files, from the oldest.                *)
FindSegments == SetToSortSeq({t \in Times : disk[t] # None}, <)

(* parseSegment: the duration of the header or, when it is not there, the  *)
(* end of the last part.                                                   *)
ParsedDuration(t) == IF disk[t].duration # 0 THEN disk[t].duration ELSE disk[t].end

(* parseSegments: one file that cannot be parsed fails the request.        *)
Parseable == \A t \in Times : disk[t] # None => disk[t].header /\ disk[t].samples # {}

Concatenate_KeepsEnd(out, t) ==
  IF out # <<>> /\ LET e == Last(out) IN
       t \in (e.start + e.duration - MaxBasetime)..(e.start + e.duration + MaxBasetime)
  THEN out
  ELSE Append(out, [start |-> t, duration |-> ParsedDuration(t)])

(* concatenateSegments: a segment that begins about where the previous one *)
(* ends extends its entry.                                                 *)
Concatenate(out, t) ==
  IF out # <<>> /\ LET e == Last(out) IN
       t \in (e.start + e.duration - MaxBasetime)..(e.start + e.duration + MaxBasetime)
  THEN ReplaceAt(out, Len(out), [start |-> Last(out).start,
                                 duration |-> t + ParsedDuration(t) - Last(out).start])
  ELSE Append(out, [start |-> t, duration |-> ParsedDuration(t)])

Listed == FoldLeft(Concatenate, <<>>, FindSegments)

-----------------------------------------------------------------------------

(* Every sample the callbacks accepted is in exactly one place: in wait,   *)
(* in the open part, or in one file -- unless it came too late for its     *)
(* segment, the instance ended or failed with it, or it was cleaned.  And  *)
(* no sample that was in wait when a segment began is too late for it but  *)
(* one more than MaxBasetime older than another (nextSegmentStartingPos).  *)
Places(s) ==
  Cardinality({t \in Times : disk[t] # None /\ s \in disk[t].samples})
    + (IF s \in Held(format) THEN 1 ELSE 0)
    + (IF s \in fate.late \cup fate.lost THEN 1 ELSE 0)

SamplesKept ==
  /\ \A s \in fate.given : Places(s) = 1
  /\ fate.lost # {} => recorder.terminate \/ faults > 0 \/ recording.cleans
  /\ LET seg == format.segment IN
     seg # None => \A s \in seg.pending \cap fate.late : \E u \in seg.pending :
                     u.dts - s.dts > MaxBasetime

(* Whoever lists the recordings while they are made sees all of them: each *)
(* sample in a file is inside an entry, up to the tolerance with which     *)
(* segments are joined, and the entries do not overlap by more than that.  *)
ListsWhatIsRecorded ==
  recording.format = "fmp4" /\ Parseable =>
    /\ \A s \in Stored(disk) : \E i \in DOMAIN Listed :
         /\ Listed[i].start <= s.dts
         /\ s.dts <= Listed[i].start + Listed[i].duration + MaxBasetime
    /\ \A i \in 1..(Len(Listed) - 1) :
         Listed[i + 1].start > Listed[i].start

(* A recorder whose instance failed records again, and one that is closed  *)
(* ends: the path waits for it with its own goroutine.                     *)
RecordingGoesOn ==
  /\ (instance = "failed") ~> (instance = "reading" \/ recorder.at = "done")
  /\ recorder.terminate ~> (recorder.at = "done")
=============================================================================
