------------------------------- MODULE Stream -------------------------------
(***************************************************************************)
(* A stream (internal/stream), the processor of its format                 *)
(* (internal/codecprocessor) and the readers of the protocols that are fed *)
(* by a callback (internal/protocols/.../from_stream.go).                  *)
(*                                                                         *)
(* A publisher writes either RTP packets or units that have still to be    *)
(* packetized.  The processor keeps the parameter sets of the format,      *)
(* decodes packets only when somebody needs the data, and re-encodes the   *)
(* ones that are too big.  Every running reader has a queue and a          *)
(* goroutine that pulls from it; the mutex of the stream is shared by the  *)
(* writers and exclusive to whoever adds, starts or removes a reader.      *)
(*                                                                         *)
(* A behaviour has one format, one publisher and one protocol per reader,  *)
(* picked at the start.  Parameter sets are numbered by age; a packet is   *)
(* told by the part of the access unit it holds.  Encoders, decoders, the  *)
(* ring buffer and the writers of the protocols are libraries; the RTSP    *)
(* readers, served by a library from the packets of each unit, have no     *)
(* queue here.                                                             *)
(***************************************************************************)
EXTENDS Naturals, FiniteSets, Sequences, TLC

CONSTANTS
  Readers,    (* the readers that may be added                             *)
  Settings,   (* [codec, publisher, protocol : [Readers -> protocol]]      *)
  QueueSize,  (* writeQueueSize                                            *)
  MaxUnits,   (* bound: packets or units written                           *)
  NoReader    (* nobody                                                    *)

ASSUME SizesAreNaturals == QueueSize \in Nat \ {0} /\ MaxUnits \in Nat
ASSUME NobodyIsNoReader == NoReader \notin Readers

VARIABLES
  setting,  (* the element of Settings this behaviour is about             *)
  source,   (* what was sent: [n, params, mid]                             *)
  proc,     (* the processor: [decoder, encoder, params]                   *)
  owner,    (* reader -> what its session has done with the stream         *)
  sr,       (* reader -> its streamReader                                  *)
  lock      (* the reader whose RemoveReader holds Stream.mutex            *)

vars == <<setting, source, proc, owner, sr, lock>>

-----------------------------------------------------------------------------
(* The processors: what tells one codec from another.  oversize: what is   *)
(* done with a packet that is too big; params: the format's parameter sets *)
(* are followed; apart: they may fill a packet of their own; fragments: a  *)
(* packet may hold less than a unit; empty: a unit may be left without     *)
(* data when it is remuxed; decodes: there is a decoder.                   *)

Plain ==
  [oversize |-> "refuse", params |-> FALSE, apart |-> FALSE,
   fragments |-> TRUE, empty |-> FALSE, decodes |-> TRUE]

H264       == [Plain EXCEPT !.oversize = "reencode", !.params = TRUE,
                            !.apart = TRUE, !.empty = TRUE]
H265       == [Plain EXCEPT !.oversize = "reencode", !.params = TRUE,
                            !.apart = TRUE, !.empty = TRUE]
MPEG4Video == [Plain EXCEPT !.params = TRUE]
AV1        == [Plain EXCEPT !.empty = TRUE]
VP8        == Plain
VP9        == Plain
MPEG1Video == Plain
MJPEG      == Plain
MPEG4Audio == Plain
LATM       == Plain
MPEG1Audio == Plain
AC3        == Plain
Opus       == [Plain EXCEPT !.fragments = FALSE]
KLV        == [Plain EXCEPT !.fragments = FALSE, !.empty = TRUE]
G711       == [Plain EXCEPT !.fragments = FALSE]
LPCM       == [Plain EXCEPT !.fragments = FALSE]
Generic    == [Plain EXCEPT !.fragments = FALSE, !.decodes = FALSE]

(* codecprocessor.New                                                      *)
Processor ==
  [H264 |-> H264, H265 |-> H265, MPEG4Video |-> MPEG4Video, AV1 |-> AV1, VP8 |-> VP8,
   VP9 |-> VP9, MPEG1Video |-> MPEG1Video, MJPEG |-> MJPEG, MPEG4Audio |-> MPEG4Audio,
   LATM |-> LATM, MPEG1Audio |-> MPEG1Audio, AC3 |-> AC3, Opus |-> Opus, KLV |-> KLV,
   G711 |-> G711, LPCM |-> LPCM, G722 |-> Generic]

(* The publishers that write units, by the codecs they offer, and the      *)
(* codecs of the ones that write RTP packets.                              *)
RTMPToStream   == {"AV1", "VP9", "H265", "H264", "Opus", "MPEG4Audio",
                   "MPEG1Audio", "AC3", "G711", "LPCM"}
MPEGTSToStream == {"H265", "H264", "MPEG4Video", "MPEG1Video", "Opus", "KLV",
                   "MPEG4Audio", "LATM", "MPEG1Audio", "AC3"}
HLSToStream    == {"AV1", "VP9", "H265", "H264", "Opus", "MPEG4Audio"}
WebRTCToStream == {"AV1", "VP9", "VP8", "H265", "H264", "Opus", "G722", "G711", "LPCM"}
RTSPToStream   == DOMAIN Processor

ToStream ==
  [rtmp |-> RTMPToStream, mpegts |-> MPEGTSToStream, hls |-> HLSToStream,
   webrtc |-> WebRTCToStream, rtsp |-> RTSPToStream]

GenerateRTPPackets == setting.publisher \in {"rtmp", "mpegts", "hls"}

(* The codecs each protocol can read and what its callback waits for:      *)
(* "key", nothing is written until the first random access; "order", a     *)
(* unit older than the previous one is an error; "packets", the RTP        *)
(* packets are forwarded as they are; "data", everything is written.       *)
All(codecs, gate) == [c \in codecs |-> gate]

RTMPVideo      == All({"H264"}, "key")
RTMPAudio      == All({"MPEG4Audio", "LATM", "MPEG1Audio", "G711", "LPCM"}, "data")
(* the codecs that need an entry in the FourCC list of the connection      *)
EnhancedRTMPFromStream ==
  All({"H265"}, "key") @@ All({"AV1", "VP9", "Opus", "AC3"}, "data") @@ RTMPVideo @@ RTMPAudio
MPEGTSVideo    == All({"H265", "H264"}, "key") @@ All({"MPEG4Video", "MPEG1Video"}, "order")
MPEGTSAudio    == All({"Opus", "KLV", "MPEG4Audio", "LATM", "MPEG1Audio", "AC3"}, "data")
HLSVideoTrack  == All({"AV1", "VP9", "H265", "H264"}, "data")
HLSAudioTracks == All({"Opus", "MPEG4Audio", "LATM"}, "data")
WebRTCVideoTrack ==
  All({"AV1", "VP9", "VP8"}, "data") @@ All({"H265", "H264"}, "order")
WebRTCAudioTrack ==
  All({"Opus", "G722"}, "packets") @@ All({"G711", "LPCM"}, "data")

FromStream ==
  [rtmp |-> RTMPVideo @@ RTMPAudio, enhanced |-> EnhancedRTMPFromStream,
   mpegts |-> MPEGTSVideo @@ MPEGTSAudio, hls |-> HLSVideoTrack @@ HLSAudioTracks,
   webrtc |-> WebRTCVideoTrack @@ WebRTCAudioTrack]

AllSettings ==
  UNION {[codec : ToStream[p], publisher : {p}, protocol : [Readers -> DOMAIN FromStream]] :
         p \in DOMAIN ToStream}

ASSUME SettingsAreOffered == Settings \subseteq AllSettings

-----------------------------------------------------------------------------
(* What readers get: the data, the parameter sets prepended to it, the     *)
(* newest ones the publisher had sent, the packets.                        *)
Units ==
  [data : {"none", "frame", "key"}, params : Nat, newest : Nat,
   packets : {"none", "fit", "big"}, pts : Nat]

Idle == [data |-> "none", params |-> 0, newest |-> 0, packets |-> "none", pts |-> 0]

Steps ==
  {"none",     (* streamReader.start not called                            *)
   "pull",     (* in buffer.Pull                                           *)
   "read",     (* in the callback                                          *)
   "telling",  (* in w.err <- err                                          *)
   "ended"}    (* close(w.err)                                             *)

NoStreamReader ==
  [in |-> "no", at |-> "none", queue |-> <<>>, closed |-> FALSE, unit |-> Idle,
   open |-> FALSE, last |-> 0]

Owners ==
  {"out",       (* AddReader not called                                    *)
   "refused",   (* no supported codec: nothing was added                   *)
   "failed",    (* FromStream failed after AddReader                       *)
   "added",     (* paused                                                  *)
   "started",   (* select ReaderError | terminate                          *)
   "told",      (* got the error of its reader                             *)
   "removing",  (* in RemoveReader                                         *)
   "removed"}

TypeOK ==
  /\ setting \in Settings
  /\ source \in [n : 0..MaxUnits, params : Nat, mid : {"none", "frame", "key"}]
  /\ proc \in [decoder : {"none", "idle", "frame", "key"}, encoder : BOOLEAN, params : Nat]
  /\ owner \in [Readers -> Owners]
  /\ \A r \in Readers :
       /\ sr[r].in \in {"no", "paused", "running"} /\ sr[r].at \in Steps
       /\ sr[r].queue \in Seq(Units) /\ Len(sr[r].queue) <= QueueSize
       /\ sr[r].unit \in Units /\ {sr[r].closed, sr[r].open} \subseteq BOOLEAN
       /\ sr[r].last \in Nat
  /\ lock \in Readers \cup {NoReader}

Init ==
  /\ setting \in Settings
  /\ source = [n |-> 0, params |-> 0, mid |-> "none"]
  /\ proc = [decoder |-> "none", encoder |-> FALSE, params |-> 0]
  /\ owner = [r \in Readers |-> "out"]
  /\ sr = [r \in Readers |-> NoStreamReader]
  /\ lock = NoReader

Codec == Processor[setting.codec]
Gate(r) == FromStream[setting.protocol[r]][setting.codec]

HasNonRTSPReaders == \E r \in Readers : sr[r].in # "no"

Newest(p) == IF p.params # 0 THEN p.params ELSE source.params

-----------------------------------------------------------------------------
(* The processor, as operators that return its state, whether a unit comes *)
(* out, and the unit.                                                      *)

Followed_WhenRead(p) ==
  IF Codec.params /\ HasNonRTSPReaders /\ p.params # 0 THEN p.params ELSE proc.params

(* The parameter sets of the format, updated from what a packet or an      *)
(* access unit holds, read or not.                                         *)
Followed(p) == IF Codec.params /\ p.params # 0 THEN p.params ELSE proc.params

ProcessUnit(p) ==
  LET params == Followed(p)
      data   == IF p.part = "params" THEN "none" ELSE p.of
  IN  [proc |-> [proc EXCEPT !.params = params],
       ok   |-> TRUE,
       unit |-> [data |-> data, params |-> params, newest |-> Newest(p),
                 packets |-> IF data = "none" THEN "none" ELSE "fit", pts |-> p.pts]]

ProcessRTPPacket(p) ==
  LET params  == Followed(p)
      encoder == proc.encoder \/ (Codec.oversize = "reencode" /\ p.big)
      refused == Codec.oversize = "refuse" /\ p.big
      decodes == /\ Codec.decodes /\ ~refused
                 /\ HasNonRTSPReaders \/ proc.decoder # "none" \/ encoder
      decoder == IF ~decodes \/ (p.part = "params" /\ proc.decoder # "none") THEN proc.decoder
                 ELSE IF p.part = "begin" THEN p.of ELSE "idle"
      data    == IF decodes /\ p.part = "whole" THEN p.of
                 ELSE IF decodes /\ p.part = "rest" /\ proc.decoder \in {"frame", "key"}
                 THEN proc.decoder ELSE "none"
      packets == IF encoder /\ data = "none" THEN "none"
                 ELSE IF p.big /\ ~encoder THEN "big" ELSE "fit"
  IN  [proc |-> [decoder |-> decoder, encoder |-> encoder, params |-> params],
       ok   |-> ~refused /\ ~(decodes /\ p.part = "broken"),
       unit |-> [data |-> data, params |-> params, newest |-> Newest(p),
                 packets |-> packets, pts |-> p.pts]]

(* streamReader.push: a full or closed queue discards the unit.            *)
Push(reader, u) ==
  IF reader.closed \/ Len(reader.queue) = QueueSize THEN reader
  ELSE [reader EXCEPT !.queue = Append(@, u)]

(* streamFormat.writeUnitInner: to every running reader.  (The packets of  *)
(* the unit go to the RTSP readers, whoever they are.)                     *)
Deliver(u) ==
  sr' = [r \in Readers |-> IF sr[r].in = "running" THEN Push(sr[r], u) ELSE sr[r]]

(* A packet: the part of an access unit it holds, of a frame or of a key   *)
(* frame, the parameter sets in it (0: none), whether it exceeds the       *)
(* maximum size, its PTS.  A unit that is written whole has no size.       *)
(* The packets the publisher may send next: a fragment begins or ends an   *)
(* access unit, parameter sets come in front of a key frame or alone, PTS  *)
(* go back by one when frames are not in order.                            *)
Sendable ==
  {p \in [part : {"whole", "begin", "rest", "params", "broken"}, of : {"frame", "key"},
          params : {0, source.params + 1}, big : BOOLEAN,
          pts : {2 * source.n + 3, 2 * source.n}] :
     /\ p.part \in {"begin", "rest"} => Codec.fragments /\ ~GenerateRTPPackets
     /\ p.part = "rest" => source.mid = p.of
     /\ p.part = "params" =>
          IF Codec.params THEN Codec.apart /\ p.params # 0
          ELSE Codec.empty /\ GenerateRTPPackets
     /\ p.part \in {"params", "broken"} => p.of = "frame"
     /\ p.part = "broken" => ~GenerateRTPPackets
     /\ p.params # 0 =>
          /\ Codec.params
          /\ p.part = "params" \/ (p.part \in {"whole", "begin"} /\ p.of = "key")
     /\ p.big => ~GenerateRTPPackets /\ p.part \in {"whole", "begin"}
     /\ p.pts = 2 * source.n => p.part = "whole" /\ p.of = "frame"}

Send(p) ==
  /\ source.n < MaxUnits /\ lock = NoReader
  /\ source' = [n |-> source.n + 1, params |-> Newest(p),
                mid |-> IF p.part = "begin" THEN p.of
                        ELSE IF p.part = "params" THEN source.mid ELSE "none"]

(* Stream.WriteUnit and Stream.WriteRTPPacket: under the read lock.        *)
Write(p, res) ==
  /\ Send(p)
  /\ proc' = res.proc
  /\ IF res.ok THEN Deliver(res.unit) ELSE UNCHANGED sr
  /\ UNCHANGED <<setting, owner, lock>>

WriteUnit ==
  /\ GenerateRTPPackets
  /\ \E p \in Sendable : Write(p, ProcessUnit(p))

WriteRTPPacket ==
  /\ ~GenerateRTPPackets
  /\ \E p \in Sendable : Write(p, ProcessRTPPacket(p))

-----------------------------------------------------------------------------
(* The session of a reader.                                                *)

(* FromStream of its protocol and Stream.AddReader.                        *)
AddReader(r) ==
  /\ owner[r] = "out" /\ lock = NoReader
  /\ IF setting.codec \notin DOMAIN FromStream[setting.protocol[r]]
     THEN /\ owner' = [owner EXCEPT ![r] = "refused"]
          /\ UNCHANGED sr
     ELSE /\ sr' = [sr EXCEPT ![r].in = "paused"]
          /\ \/ owner' = [owner EXCEPT ![r] = "added"]
             (* the writer of the protocol, or the track that follows,     *)
             (* cannot be set up: nobody removes what was added            *)
             \/ /\ setting.protocol[r] # "hls"
                /\ owner' = [owner EXCEPT ![r] = "failed"]
  /\ UNCHANGED <<setting, source, proc, lock>>

StartReader(r) ==
  /\ owner[r] = "added" /\ lock = NoReader
  /\ owner' = [owner EXCEPT ![r] = "started"]
  /\ sr' = [sr EXCEPT ![r].in = "running", ![r].at = "pull"]
  /\ UNCHANGED <<setting, source, proc, lock>>

Told_NoClose(r) ==
  /\ owner[r] = "started" /\ sr[r].at = "telling"
  /\ owner' = [owner EXCEPT ![r] = "told"]
  /\ sr' = [sr EXCEPT ![r].at = "none"]
  /\ UNCHANGED <<setting, source, proc, lock>>

(* select: case err := <-stream.ReaderError(r); the goroutine goes on to   *)
(* close the channel.                                                      *)
Told(r) ==
  /\ owner[r] = "started" /\ sr[r].at = "telling"
  /\ owner' = [owner EXCEPT ![r] = "told"]
  /\ sr' = [sr EXCEPT ![r].at = "ended"]
  /\ UNCHANGED <<setting, source, proc, lock>>

RemoveReader_NoWait(r) ==
  /\ owner[r] \in {"added", "started", "told"} /\ lock = NoReader
  /\ sr' = [sr EXCEPT ![r].in = "no", ![r].closed = TRUE]
  /\ owner' = [owner EXCEPT ![r] = "removed"]
  /\ UNCHANGED <<setting, source, proc, lock>>

(* Stream.RemoveReader, up to the wait for the goroutine in stop: out of   *)
(* the formats, queue closed, mutex held.  Nothing waits for a reader that *)
(* was never started.                                                      *)
RemoveReader(r) ==
  /\ owner[r] \in {"added", "started", "told"} /\ lock = NoReader
  /\ sr' = [sr EXCEPT ![r].in = "no", ![r].closed = TRUE]
  /\ IF owner[r] = "added"
     THEN owner' = [owner EXCEPT ![r] = "removed"] /\ UNCHANGED lock
     ELSE owner' = [owner EXCEPT ![r] = "removing"] /\ lock' = r
  /\ UNCHANGED <<setting, source, proc>>

(* <-w.err: the error, or the channel already closed.                      *)
RemoveReturns(r) ==
  /\ owner[r] = "removing" /\ sr[r].at \in {"telling", "ended"}
  /\ owner' = [owner EXCEPT ![r] = "removed"]
  /\ sr' = [sr EXCEPT ![r].at = "ended"]
  /\ lock' = NoReader
  /\ UNCHANGED <<setting, source, proc>>

-----------------------------------------------------------------------------
(* The goroutine of a reader: streamReader.runInner.                       *)

(* Pull: a unit, or the end once the queue is closed.                      *)
Pull(r) ==
  /\ sr[r].at = "pull"
  /\ \/ /\ sr[r].queue # <<>>
        /\ sr' = [sr EXCEPT ![r].at = "read", ![r].unit = Head(sr[r].queue),
                            ![r].queue = Tail(@)]
     \/ /\ sr[r].closed
        /\ sr' = [sr EXCEPT ![r].at = "telling"]
  /\ UNCHANGED <<setting, source, proc, owner, lock>>

(* The callback has nothing to write: no data yet, or no random access yet.*)
Skips(r) ==
  \/ sr[r].unit.data = "none" /\ Gate(r) # "packets"
  \/ Gate(r) = "key" /\ ~sr[r].open /\ sr[r].unit.data # "key"

Skip(r) ==
  /\ sr[r].at = "read" /\ Skips(r)
  /\ sr' = [sr EXCEPT ![r].at = "pull", ![r].unit = Idle]
  /\ UNCHANGED <<setting, source, proc, owner, lock>>

OutOfOrder(r) == Gate(r) = "order" /\ sr[r].unit.pts < sr[r].last

(* It writes; the write deadline bounds it.                                *)
Written(r) ==
  /\ sr[r].at = "read" /\ ~Skips(r) /\ ~OutOfOrder(r)
  /\ sr' = [sr EXCEPT ![r].at = "pull", ![r].unit = Idle,
                      ![r].open = Gate(r) = "key",
                      ![r].last = IF Gate(r) = "order" THEN sr[r].unit.pts ELSE 0]
  /\ UNCHANGED <<setting, source, proc, owner, lock>>

(* It returns an error: frames out of order, a peer that is gone.          *)
ReadFails(r) ==
  /\ sr[r].at = "read" /\ ~Skips(r)
  /\ sr' = [sr EXCEPT ![r].at = "telling", ![r].unit = Idle]
  /\ UNCHANGED <<setting, source, proc, owner, lock>>

Next ==
  \/ WriteUnit \/ WriteRTPPacket
  \/ \E r \in Readers :
       \/ AddReader(r) \/ StartReader(r) \/ Told(r)
       \/ RemoveReader(r) \/ RemoveReturns(r)
       \/ Pull(r) \/ Skip(r) \/ Written(r) \/ ReadFails(r)

(* The goroutine of a reader goes on, and RemoveReader returns when it can;*)
(* sessions come and go as they please.                                    *)
Fairness ==
  \A r \in Readers :
    /\ WF_vars(Pull(r)) /\ WF_vars(Skip(r)) /\ WF_vars(Written(r) \/ ReadFails(r))
    /\ WF_vars(RemoveReturns(r))

Spec     == Init /\ [][Next]_vars
FairSpec == Spec /\ Fairness

-----------------------------------------------------------------------------

(* What a running reader is handed can be used without looking at how it   *)
(* came: no packet is too big even when packets are re-encoded, data comes *)
(* with packets (the WebRTC callbacks read the first one), a key frame     *)
(* carries the newest parameter sets sent before it, also the ones sent    *)
(* when nobody was decoding, and a codec whose packets are whole units     *)
(* always has its data (the HLS callback of Opus does not look).           *)
UsableUnit(u) ==
  /\ u.packets # "big"
  /\ u.data # "none" => u.packets = "fit"
  /\ u.data = "key" /\ Codec.params => u.params = u.newest
  /\ Codec.decodes /\ ~Codec.fragments /\ ~Codec.empty => u.data # "none"

UnitsAreUsable ==
  \A r \in Readers :
    /\ sr[r].at = "read" => UsableUnit(sr[r].unit)
    /\ \A i \in DOMAIN sr[r].queue : UsableUnit(sr[r].queue[i])

(* Once RemoveReader has returned the session may free what its callback   *)
(* uses: the goroutine has ended, no format knows the reader, and nobody   *)
(* holds the mutex on its behalf.                                          *)
NothingAfterRemove ==
  \A r \in Readers :
    owner[r] = "removed" =>
      sr[r].at \in {"none", "ended"} /\ sr[r].in = "no" /\ lock # r

(* RemoveReader always returns, whether the reader failed before, was told *)
(* so, or is in a callback: otherwise the mutex would stop the publisher   *)
(* and every other reader.                                                 *)
RemoveEnds ==
  \A r \in Readers : owner[r] = "removing" ~> owner[r] = "removed"
=============================================================================
